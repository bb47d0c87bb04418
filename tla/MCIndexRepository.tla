-------------------------- MODULE MCIndexRepository --------------------------
(* Instances of IndexRepository: small histories and the moves HEAD makes.   *)
EXTENDS IndexRepository, TLC

CONSTANTS a, b, c, e, lnk, a1, a2, b1, b2, c1, j1, j2

History(t1, t2, t3) == <<t1, t2, t3>>

MCRev == 1..3
MCPath == 1..3
MCContent == {a, b, c, e, lnk}
MCGitLinks == {lnk}
MCEmptyBlobs == {e}
MCChunk == {a1, a2, b1, b2, c1}
MCChunks == [x \in MCContent |->
  CASE x = a -> {a1, a2} [] x = b -> {b1, b2} [] x = c -> {c1} [] OTHER -> {}]

\* a1 and a2 are a class and a method of it; b1 and b2, windows of a plain-text
\* file, have no symbol name.
MCSymbolName == [k \in MCChunk |->
  CASE k = a1 -> "A" [] k = a2 -> "A.M" [] k = c1 -> "A" [] OTHER -> ""]

\* A file is edited, another moves and a third appears in its place; a submodule
\* comes and goes.
FourPaths == 1..4
Edits == History(<<a, b, None, None>>, <<c, None, b, lnk>>, <<c, a, None, None>>)

\* A deleted path never comes back.
Removals == History(<<a, b, None>>, <<c, None, b>>, <<c, None, a>>)

TwoPaths == 1..2

\* One chunk per file, two commits.
TwoRevs == 1..2
Simple == <<<<a, c>>, <<c, a>>>>
SimpleChunks == [x \in MCContent |-> IF x = a THEN {a1} ELSE IF x = c THEN {c1} ELSE {}]

OneMove == {<<1, 2>>}
Forward == {m \in MCRev \X MCRev : m[1] < m[2]}
JobSymmetry == Permutations(Job)
=============================================================================
