SPECIFICATION FairSpec
CONSTANTS
  None = None
  a = a  b = b  c = c  e = e  lnk = lnk
  a1 = a1  a2 = a2  b1 = b1  b2 = b2  c1 = c1
  j1 = j1  j2 = j2
  Rev <- TwoRevs
  Path <- TwoPaths
  Content <- MCContent
  GitLinks <- MCGitLinks
  EmptyBlobs <- MCEmptyBlobs
  Chunk <- MCChunk
  SymbolName <- MCSymbolName
  Tree <- Simple
  Chunks <- SimpleChunks
  HeadMoves <- OneMove
  RacingReads = TRUE
  Job = {j1}
  MaxCount = 5
PROPERTY Converges
INVARIANT PointsResolvable
