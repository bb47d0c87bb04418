--------------------------- MODULE IndexRepository ---------------------------
(***************************************************************************)
(* The indexing job of SourceRAG: IndexRepositoryHandler with the Git      *)
(* provider it reads, the vector store it writes and the state file in     *)
(* which it records how far it got.  Several jobs may run at a time (POST  *)
(* /index requests of the API, index_repository calls of the MCP host), a  *)
(* job may end at any await with an exception, a cancellation or a crash,  *)
(* and HEAD moves under the jobs.                                          *)
(*                                                                         *)
(* A read and a write of the state file are a step each here, so the       *)
(* methods that read it, change the record and write it back are two.      *)
(***************************************************************************)
EXTENDS Integers, FiniteSets

CONSTANTS
  Rev,          \* the commits; a commit's number is its place in the history
  Path,         \* the file paths, numbered in the order Git lists a tree
  Content,      \* what a tree entry can be
  GitLinks,     \* the contents that are submodule entries
  EmptyBlobs,   \* the contents for which blame returns no hunk
  Chunk,        \* the chunks the chunkers cut out of the contents
  Job,          \* the concurrent invocations of the handler
  None,         \* null
  Tree,         \* Tree[r][p]: the entry p of commit r, None if absent
  Chunks,       \* Chunks[c]: the chunks of content c
  SymbolName,   \* SymbolName[k]: the chunk's symbol name, "" if it has none
  HeadMoves,    \* the pairs <<r, s>> such that HEAD may go from r to s
  RacingReads,  \* may HEAD move between the two reads one job makes of it?
  MaxCount      \* where the counters of processed files saturate

ASSUME NumberAssumption ==
  /\ Rev \subseteq Nat
  /\ Path \subseteq Nat /\ IsFiniteSet(Path)
  /\ MaxCount \in Nat
  /\ RacingReads \in BOOLEAN
  /\ HeadMoves \subseteq Rev \X Rev

ASSUME NoneAssumption == None \notin Rev /\ None \notin Path /\ None \notin Content

ASSUME TreeAssumption ==
  /\ Tree \in [Rev -> [Path -> Content \cup {None}]]
  /\ Chunks \in [Content -> SUBSET Chunk]
  /\ \A x \in GitLinks \cup EmptyBlobs : Chunks[x] = {}
  /\ DOMAIN SymbolName = Chunk

VARIABLES
  head,        \* the commit HEAD points at
  indexState,  \* the content of .sourcerag-state.json
  points,      \* the points of the Qdrant collection
  job          \* the local state of every invocation of the handler

vars == <<head, indexState, points, job>>

-----------------------------------------------------------------------------
(* What the provider reads from the repository *)

FilesAt(r) == {p \in Path : Tree[r][p] # None}

\* GetFilesAtHeadAsync lists blobs and leaves submodules out.
BlobsAt(r) == {p \in FilesAt(r) : Tree[r][p] \notin GitLinks}

\* GetFileContentAsync and GetBlameAsync both return.
Readable(p, r) == Tree[r][p] \in Content \ (GitLinks \cup EmptyBlobs)

Gone(a, b) == FilesAt(a) \ FilesAt(b)

\* The rename detection of libgit2 pairs some removed with some added paths.
RenamePairings(a, b) ==
  {m \in SUBSET (Gone(a, b) \X Gone(b, a)) :
     \A x, y \in m : (x[1] = y[1]) <=> (x[2] = y[2])}

ChangedFile(kind, path, oldPath) == [kind |-> kind, path |-> path, oldPath |-> oldPath]

\* Variant: a rename without its old path, as before FIX-009.
ChangesWithoutOldPath(a, b, m) ==
  {ChangedFile("Modified", p, None) :
     p \in {q \in FilesAt(a) \cap FilesAt(b) : Tree[a][q] # Tree[b][q]}}
  \cup {ChangedFile("Deleted", p, None) : p \in Gone(a, b) \ {x[1] : x \in m}}
  \cup {ChangedFile("Added", p, None) : p \in Gone(b, a)}

\* The tree diff from commit a to commit b, with the renames m.
Changes(a, b, m) ==
  {ChangedFile("Modified", p, None) :
     p \in {q \in FilesAt(a) \cap FilesAt(b) : Tree[a][q] # Tree[b][q]}}
  \cup {ChangedFile("Deleted", p, None) : p \in Gone(a, b) \ {x[1] : x \in m}}
  \cup {ChangedFile("Added", p, None) : p \in Gone(b, a) \ {x[2] : x \in m}}
  \cup {ChangedFile("Renamed", x[2], x[1]) : x \in m}

-----------------------------------------------------------------------------
(* Records *)

Change == [kind : {"Added", "Modified", "Deleted", "Renamed"},
           path : Path, oldPath : Path \cup {None}]

IndexCheckpoint == [revision : Rev, file : Path, total : Nat, processed : 0..MaxCount]

IndexState == [last : Rev \cup {None}, checkpoint : IndexCheckpoint \cup {None}]

Nothing == [last |-> None, checkpoint |-> None]

Point == [path : Path, rev : Rev, chunk : Chunk]

\* Equal exactly when ComputePointId hashes the same string.
SamePointId(x, y) == /\ x.path = y.path
                     /\ x.rev = y.rev
                     /\ SymbolName[x.chunk] = SymbolName[y.chunk]

JobState == [pc : {"idle", "diff", "toRevision", "checkpoint", "list", "files",
                   "process", "upsert", "save", "saving", "clearing", "commit"},
             full : BOOLEAN,               \* inside FullReindexAsync
             from : Rev \cup {None},       \* lastRevision
             to : Rev \cup {None},         \* toRevision
             listed : Rev \cup {None},     \* the commit the file list was read at
             resume : Path \cup {None},    \* resumeAfterFile
             todo : SUBSET Change,         \* the rest of the foreach
             path : Path \cup {None},      \* the file ProcessFileAsync is at
             left : SUBSET Chunk,          \* its chunks not upserted yet
             existing : Rev \cup {None},   \* the last revision a state update read
             total : Nat,
             processed : 0..MaxCount]

Idle == [pc |-> "idle", full |-> FALSE, from |-> None, to |-> None,
         listed |-> None, resume |-> None, todo |-> {}, path |-> None,
         left |-> {}, existing |-> None, total |-> 0, processed |-> 0]

TypeOK ==
  /\ head \in Rev
  /\ indexState \in IndexState
  /\ points \subseteq Point
  /\ job \in [Job -> JobState]

\* MaxCount stands for the point from which a count only has to stay too large.
Capped(n) == IF n > MaxCount THEN MaxCount ELSE n

Init ==
  /\ head \in Rev
  /\ indexState = Nothing
  /\ points = {}
  /\ job = [j \in Job |-> Idle]

-----------------------------------------------------------------------------
(* Starting a run *)

Becomes(j, s) == job' = [job EXCEPT ![j] = s]

\* An incremental request that finds a last indexed revision.
StartIncremental(j) ==
  /\ job[j].pc = "idle"
  /\ indexState.last # None
  /\ Becomes(j, [Idle EXCEPT !.pc = "diff", !.from = indexState.last])
  /\ UNCHANGED <<head, indexState, points>>

\* A full request, or an incremental one that finds no last indexed revision.
StartFull(j) ==
  /\ job[j].pc = "idle"
  /\ Becomes(j, [Idle EXCEPT !.pc = "toRevision", !.full = TRUE])
  /\ UNCHANGED <<head, indexState, points>>

(* DetermineChangedFilesAsync reads HEAD for the diff, then again for ToRevision *)

GetChangedFilesSince(j) ==
  /\ job[j].pc = "diff"
  /\ \E m \in RenamePairings(job[j].from, head) :
       Becomes(j, [job[j] EXCEPT !.pc = "toRevision",
                                !.listed = head,
                                !.todo = Changes(job[j].from, head, m)])
  /\ UNCHANGED <<head, indexState, points>>

GetCurrentRevision(j) ==
  /\ job[j].pc = "toRevision"
  /\ Becomes(j, [job[j] EXCEPT !.to = head,
                              !.pc = IF job[j].full THEN "checkpoint" ELSE "files"])
  /\ UNCHANGED <<head, indexState, points>>

(* FullReindexAsync reads HEAD for toRevision, the checkpoint, then HEAD's tree *)

\* Variants: the revision is not compared; the checkpoint is not used.
ResumesWhateverRevision(j) == indexState.checkpoint # None
ResumesNever(j) == FALSE

Resumes(j) == /\ indexState.checkpoint # None
              /\ indexState.checkpoint.revision = job[j].to

GetCheckpoint(j) ==
  /\ job[j].pc = "checkpoint"
  /\ LET cp == indexState.checkpoint
     IN Becomes(j, [job[j] EXCEPT !.pc = "list",
                                 !.resume = IF Resumes(j) THEN cp.file ELSE None,
                                 !.processed = IF Resumes(j) THEN cp.processed ELSE 0])
  /\ UNCHANGED <<head, indexState, points>>

\* The files the loop does not skip: none if it never meets resumeAfterFile.
FilesToProcess(resume, files) ==
  IF resume = None THEN files
  ELSE {p \in files : resume \in files /\ p > resume}

\* The loop counts the files it skips on top of the checkpoint's count.
GetFilesAtHead(j) ==
  /\ job[j].pc = "list"
  /\ LET files == BlobsAt(head)
         due == FilesToProcess(job[j].resume, files)
     IN Becomes(j, [job[j] EXCEPT !.pc = "files",
                                 !.listed = head,
                                 !.todo = {ChangedFile("Added", p, None) : p \in due},
                                 !.total = Cardinality(files),
                                 !.processed = Capped(@ + Cardinality(files \ due))])
  /\ UNCHANGED <<head, indexState, points>>

-----------------------------------------------------------------------------
(* The loop over the files *)

\* A full run takes the files in tree order; a diff is taken in any order.
IsNext(j, c) == /\ job[j].pc = "files"
                /\ job[j].full => \A d \in job[j].todo : c.path <= d.path

WithoutPath(p) == {x \in points : x.path # p}

DeleteFile(j) ==
  /\ \E c \in job[j].todo :
       /\ IsNext(j, c)
       /\ c.kind = "Deleted"
       /\ points' = WithoutPath(c.path)
       /\ Becomes(j, [job[j] EXCEPT !.todo = @ \ {c}])
  /\ UNCHANGED <<head, indexState>>

\* DeleteByFilePathAsync of the old path; the new path is processed next.
DeleteOldPath(j) ==
  /\ \E c \in job[j].todo :
       /\ IsNext(j, c)
       /\ c.kind = "Renamed"
       /\ points' = WithoutPath(c.oldPath)
       /\ Becomes(j, [job[j] EXCEPT !.todo = @ \ {c}, !.path = c.path, !.pc = "process"])
  /\ UNCHANGED <<head, indexState>>

TakeFile(j) ==
  /\ \E c \in job[j].todo :
       /\ IsNext(j, c)
       /\ c.kind \in {"Added", "Modified"}
       /\ Becomes(j, [job[j] EXCEPT !.todo = @ \ {c}, !.path = c.path, !.pc = "process"])
  /\ UNCHANGED <<head, indexState, points>>

\* VcsFile.Revision in a full run, scope.ToRevision in an incremental one.
RevisionOf(s) == IF s.full THEN s.listed ELSE s.to

AfterFile(j) == IF job[j].full THEN "save" ELSE "files"

\* ProcessFileAsync up to its loop: content, blame, chunks.
ReadFile(j) ==
  /\ job[j].pc = "process"
  /\ Readable(job[j].path, RevisionOf(job[j]))
  /\ LET chunks == Chunks[Tree[RevisionOf(job[j])][job[j].path]]
     IN Becomes(j, [job[j] EXCEPT !.left = chunks,
                                 !.pc = IF chunks = {} THEN AfterFile(j) ELSE "upsert"])
  /\ UNCHANGED <<head, indexState, points>>

\* The provider throws: entry null, entry not a blob, or no blame hunk.
ReadFileThrows(j) ==
  /\ job[j].pc = "process"
  /\ ~Readable(job[j].path, RevisionOf(job[j]))
  /\ Becomes(j, Idle)
  /\ UNCHANGED <<head, indexState, points>>

\* Variants: points stamped with the wrong one of the run's revisions.
PointOfLastRevision(s, k) == [path |-> s.path, rev |-> s.from, chunk |-> k]
PointOfToRevision(s, k) == [path |-> s.path, rev |-> s.to, chunk |-> k]

PointOf(s, k) == [path |-> s.path, rev |-> RevisionOf(s), chunk |-> k]

\* An upsert replaces the point that has the same id.
Upserted(x) == {y \in points : ~SamePointId(x, y)} \cup {x}

UpsertChunk(j) ==
  /\ job[j].pc = "upsert"
  /\ \E k \in job[j].left :
       /\ points' = Upserted(PointOf(job[j], k))
       /\ Becomes(j, [job[j] EXCEPT !.left = @ \ {k},
                                   !.pc = IF job[j].left = {k} THEN AfterFile(j) ELSE "upsert"])
  /\ UNCHANGED <<head, indexState>>

\* SaveCheckpointAsync reads the state, to keep its last revision, then writes.
ReadStateToSave(j) ==
  /\ job[j].pc = "save"
  /\ Becomes(j, [job[j] EXCEPT !.existing = indexState.last, !.pc = "saving"])
  /\ UNCHANGED <<head, indexState, points>>

SaveCheckpoint(j) ==
  /\ job[j].pc = "saving"
  /\ LET done == Capped(job[j].processed + 1)
     IN /\ indexState' = [last |-> job[j].existing,
                          checkpoint |-> [revision |-> job[j].to, file |-> job[j].path,
                                          total |-> job[j].total, processed |-> done]]
        /\ Becomes(j, [job[j] EXCEPT !.processed = done, !.existing = None, !.pc = "files"])
  /\ UNCHANGED <<head, points>>

-----------------------------------------------------------------------------
(* The end of a run *)

\* Variant: a run that may leave its loop early and still end well.
LoopLeft(j) == job[j].pc = "files"

LoopDone(j) == job[j].pc = "files" /\ job[j].todo = {}

\* ClearCheckpointAsync likewise, and it returns when there is no file: a state
\* with nothing in it is no file or a file of nulls.
ReadStateToClear(j) ==
  /\ LoopDone(j) /\ job[j].full
  /\ \/ Becomes(j, [job[j] EXCEPT !.existing = indexState.last, !.pc = "clearing"])
     \/ /\ indexState = Nothing
        /\ Becomes(j, [job[j] EXCEPT !.pc = "commit"])
  /\ UNCHANGED <<head, indexState, points>>

ClearCheckpoint(j) ==
  /\ job[j].pc = "clearing"
  /\ indexState' = [last |-> job[j].existing, checkpoint |-> None]
  /\ Becomes(j, [job[j] EXCEPT !.existing = None, !.pc = "commit"])
  /\ UNCHANGED <<head, points>>

\* Writes a fresh record, so a checkpoint does not survive it.
SetLastIndexedRevision(j) ==
  /\ job[j].pc = "commit" \/ (LoopDone(j) /\ ~job[j].full)
  /\ indexState' = [last |-> job[j].to, checkpoint |-> None]
  /\ Becomes(j, Idle)
  /\ UNCHANGED <<head, points>>

\* An exception of a provider, a cancellation or a crash of the host.
Abort(j) ==
  /\ job[j].pc # "idle"
  /\ Becomes(j, Idle)
  /\ UNCHANGED <<head, indexState, points>>

\* j has read HEAD once and will read it again.
BetweenReads(j) == \/ job[j].pc = "toRevision" /\ ~job[j].full
                   \/ job[j].pc \in {"checkpoint", "list"}

\* A commit, pull, reset or checkout in the working copy.
MoveHead ==
  /\ RacingReads \/ \A j \in Job : ~BetweenReads(j)
  /\ \E r \in Rev : <<head, r>> \in HeadMoves /\ head' = r
  /\ UNCHANGED <<indexState, points, job>>

Step(j) ==
  \/ StartIncremental(j) \/ StartFull(j)
  \/ GetChangedFilesSince(j) \/ GetCurrentRevision(j)
  \/ GetCheckpoint(j) \/ GetFilesAtHead(j)
  \/ DeleteFile(j) \/ DeleteOldPath(j) \/ TakeFile(j)
  \/ ReadFile(j) \/ ReadFileThrows(j) \/ UpsertChunk(j)
  \/ ReadStateToSave(j) \/ SaveCheckpoint(j)
  \/ ReadStateToClear(j) \/ ClearCheckpoint(j) \/ SetLastIndexedRevision(j)

Next == MoveHead \/ \E j \in Job : Step(j) \/ Abort(j)

Spec == Init /\ [][Next]_vars

\* A run that is not cut off goes on.  Full runs are asked for again and again,
\* and none of their steps is cut off every time it is about to be taken.
FairSpec ==
  /\ Spec
  /\ \A j \in Job :
       /\ WF_vars(Step(j))
       /\ SF_vars(StartFull(j))
       /\ SF_vars(job[j].full /\ GetCurrentRevision(j))
       /\ SF_vars(GetCheckpoint(j))
       /\ SF_vars(GetFilesAtHead(j))
       /\ SF_vars(job[j].full /\ TakeFile(j))
       /\ SF_vars(job[j].full /\ ReadFile(j))
       /\ SF_vars(job[j].full /\ UpsertChunk(j))
       /\ SF_vars(ReadStateToSave(j)) /\ SF_vars(SaveCheckpoint(j))
       /\ SF_vars(ReadStateToClear(j)) /\ SF_vars(ClearCheckpoint(j))
       /\ SF_vars(job[j].full /\ SetLastIndexedRevision(j))

-----------------------------------------------------------------------------
(* Assumptions about the history, made where a run or a theorem says so *)

\* HEAD follows one linear history (ADR-005): pulls and commits, no resets and no
\* checkouts of something older.
ForwardOnly == \A m \in HeadMoves : m[1] <= m[2]

\* A path that was deleted is not used again.
DeletedForGood ==
  \A p \in Path : \A r, s, t \in Rev :
    r <= s /\ s <= t /\ Tree[r][p] # None /\ Tree[s][p] = None => Tree[t][p] = None

-----------------------------------------------------------------------------
(* Properties *)

\* There is a point under the symbol of chunk k of file p, made when the file had
\* the content it has in r.
Stored(p, r, k) == \E x \in points : /\ x.path = p
                                     /\ Tree[x.rev][p] = Tree[r][p]
                                     /\ SymbolName[x.chunk] = SymbolName[k]

Covered(p, r) == \A k \in Chunks[Tree[r][p]] : Stored(p, r, k)

\* The files of r that HEAD still has as they were in r.
UnchangedSince(r) == {p \in FilesAt(r) : Tree[head][p] = Tree[r][p]}

\* Every stored point can be resolved: ChatQueryHandler asks the provider for
\* the point's path at the point's revision, and that commit has the file, and
\* has the chunk in it.  This is what "VCS is the proof store" needs of the
\* order in which runs read HEAD, list files and stamp points.
PointsResolvable ==
  \A x \in points : /\ Tree[x.rev][x.path] \in Content
                    /\ x.chunk \in Chunks[Tree[x.rev][x.path]]

\* Every file an incremental run would leave alone, because its diff from the
\* last indexed revision does not name it, is searchable with the content it has
\* at HEAD - at any moment, whatever was aborted and whoever is running.
IndexedIsSearchable ==
  indexState.last # None =>
    \A p \in UnchangedSince(indexState.last) : Covered(p, head)

\* When a run ends well, each file of the revision it records as indexed is in
\* the store with the content it has there.
CommitIsComplete ==
  [][\A j \in Job : SetLastIndexedRevision(j) =>
       \A p \in FilesAt(job[j].to) : Covered(p, job[j].to)]_vars

\* The files a resumed full re-index would skip - those up to the checkpointed
\* one, at the checkpoint's revision - are in the store, unless HEAD has since
\* changed them (and so left the checkpoint's revision).
CheckpointIsKnownGood ==
  LET cp == indexState.checkpoint
  IN cp # None => \A p \in UnchangedSince(cp.revision) : p <= cp.file => Covered(p, head)

\* An incremental run that ends well leaves no point of a file that its starting
\* revision had and its target revision lacks, deleted or renamed away.
DeletedFilesPurged ==
  [][\A j \in Job : SetLastIndexedRevision(j) /\ ~job[j].full =>
       \A x \in points' : x.path \notin Gone(job[j].from, job[j].to)]_vars

\* Runs that are started again and again, each of which may be cut off anywhere,
\* bring the index up to HEAD in the end, because a full run goes on from the
\* checkpoint of the one before: the last indexed revision settles at HEAD.
Converges == <>[](indexState.last = head)
=============================================================================
