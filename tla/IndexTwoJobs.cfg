SPECIFICATION Spec
CONSTANTS
  None = None
  a = a  b = b  c = c  e = e  lnk = lnk
  a1 = a1  a2 = a2  b1 = b1  b2 = b2  c1 = c1
  j1 = j1  j2 = j2
  Rev <- MCRev
  Path <- MCPath
  Content <- MCContent
  GitLinks <- MCGitLinks
  EmptyBlobs <- MCEmptyBlobs
  Chunk <- MCChunk
  SymbolName <- MCSymbolName
  Tree <- Removals
  Chunks <- MCChunks
  HeadMoves <- Forward
  RacingReads = FALSE
  Job = {j1, j2}
  MaxCount = 0
INVARIANT IndexedIsSearchable
INVARIANT CheckpointIsKnownGood
SYMMETRY JobSymmetry
