------------------------ MODULE IndexRepository_proofs ------------------------
(* Theorems about the indexing job, for every repository history, every set  *)
(* of concurrent jobs and every placement of aborts.                          *)
EXTENDS IndexRepository, FiniteSetTheorems, TLAPS

USE NumberAssumption, NoneAssumption, TreeAssumption

-----------------------------------------------------------------------------
(* Types *)

LEMMA SubsetCardinality ==
  ASSUME NEW S \in SUBSET Path PROVE Cardinality(S) \in Nat
  BY FS_Subset, FS_CardinalityType

LEMMA CappedType == ASSUME NEW n \in Nat PROVE Capped(n) \in 0..MaxCount
  BY DEF Capped

\* A diff is a set of changes.
LEMMA ChangesType ==
  ASSUME NEW r, NEW s, NEW m \in RenamePairings(r, s)
  PROVE  Changes(r, s, m) \subseteq Change
  <1>1. \A x \in m : x[1] \in Path /\ x[2] \in Path
    BY DEF RenamePairings, Gone, FilesAt
  <1> QED
    BY <1>1 DEF Changes, Change, ChangedFile, Gone, FilesAt

LEMMA IdleType == Idle \in JobState
  BY DEF Idle, JobState

\* The job has its list of files.
Looping(s) == s.pc \in {"files", "process", "upsert", "save", "saving", "clearing", "commit"}

\* What has been assigned by the time a job is at a step.
Assigned(s) ==
  /\ ~s.full /\ s.pc # "idle" => s.from \in Rev
  /\ ~s.full /\ s.pc \notin {"idle", "diff"} => s.listed \in Rev
  /\ Looping(s) \/ s.pc \in {"checkpoint", "list"} => s.to \in Rev
  /\ s.full /\ Looping(s) => s.listed \in Rev
  /\ s.pc \in {"process", "upsert", "save", "saving"} => s.path \in Path
  /\ s.pc \in {"checkpoint", "list", "save", "saving", "clearing", "commit"} => s.full
  /\ s.pc = "diff" => ~s.full
  /\ s.pc = "upsert" => /\ Tree[RevisionOf(s)][s.path] \in Content
                         /\ s.left \subseteq Chunks[Tree[RevisionOf(s)][s.path]]

TypeInv == TypeOK /\ \A j \in Job : Assigned(job[j])

LEMMA IdleAssigned == Assigned(Idle)
  BY DEF Idle, Assigned, Looping

\* The effect of a step on the local states.
LEMMA BecomesType ==
  ASSUME TypeOK, NEW j \in Job, NEW s \in JobState, Becomes(j, s)
  PROVE  /\ job' \in [Job -> JobState]
         /\ job'[j] = s
         /\ \A i \in Job : i # j => job'[i] = job[i]
  BY DEF TypeOK, Becomes

LEMMA JobBecomes ==
  ASSUME TypeOK, NEW j \in Job, NEW s, Becomes(j, s) PROVE job'[j] = s
  BY DEF TypeOK, Becomes

LEMMA InitType == Init => TypeOK
  BY IdleType DEF Init, TypeOK, IndexState, Nothing

\* Every step takes the job to a well-formed local state.
WellFormedNext(j) == \E s \in JobState : Becomes(j, s) /\ Assigned(s)

LEMMA NextJobState ==
  ASSUME TypeInv, NEW j \in Job, Step(j) PROVE WellFormedNext(j)
  <1>j. /\ job[j] \in JobState /\ Assigned(job[j])
        /\ head \in Rev /\ indexState \in IndexState
    BY DEF TypeInv, TypeOK
  <1> USE DEF WellFormedNext
  <1>1. CASE StartIncremental(j)
    <2> DEFINE s == [Idle EXCEPT !.pc = "diff", !.from = indexState.last]
    <2>1. indexState.last \in Rev
      BY <1>1, <1>j DEF StartIncremental, IndexState
    <2>2. s \in JobState
      BY <2>1, IdleType DEF JobState
    <2>3. Assigned(s)
      BY <2>1 DEF Assigned, Looping, Idle
    <2> QED
      BY <1>1, <2>2, <2>3 DEF StartIncremental
  <1>2. CASE StartFull(j)
    <2> DEFINE s == [Idle EXCEPT !.pc = "toRevision", !.full = TRUE]
    <2>1. s \in JobState
      BY IdleType DEF JobState
    <2>2. Assigned(s)
      BY DEF Assigned, Looping, Idle
    <2> QED
      BY <1>2, <2>1, <2>2 DEF StartFull
  <1>3. CASE GetChangedFilesSince(j)
    <2> PICK m \in RenamePairings(job[j].from, head) :
          Becomes(j, [job[j] EXCEPT !.pc = "toRevision", !.listed = head,
                                    !.todo = Changes(job[j].from, head, m)])
      BY <1>3 DEF GetChangedFilesSince
    <2> DEFINE s == [job[j] EXCEPT !.pc = "toRevision", !.listed = head,
                                   !.todo = Changes(job[j].from, head, m)]
    <2>1. s \in JobState
      BY <1>j, ChangesType DEF JobState
    <2>2. Assigned(s)
      BY <1>3, <1>j DEF GetChangedFilesSince, JobState, Assigned, Looping
    <2> QED
      BY <2>1, <2>2
  <1>4. CASE GetCurrentRevision(j)
    <2> DEFINE pc == IF job[j].full THEN "checkpoint" ELSE "files"
               s == [job[j] EXCEPT !.to = head, !.pc = pc]
    <2>1. s \in JobState
      BY <1>j DEF JobState
    <2>2. Assigned(s)
      BY <1>4, <1>j DEF GetCurrentRevision, JobState, Assigned, Looping
    <2> QED
      BY <1>4, <2>1, <2>2 DEF GetCurrentRevision
  <1>5. CASE GetCheckpoint(j)
    <2> DEFINE cp == indexState.checkpoint
               resume == IF Resumes(j) THEN cp.file ELSE None
               processed == IF Resumes(j) THEN cp.processed ELSE 0
               s == [job[j] EXCEPT !.pc = "list", !.resume = resume, !.processed = processed]
    <2>1. resume \in Path \cup {None} /\ processed \in 0..MaxCount
      BY <1>j DEF Resumes, IndexState, IndexCheckpoint
    <2>2. Becomes(j, s)
      BY <1>5 DEF GetCheckpoint
    <2> HIDE DEF resume, processed
    <2>3. s \in JobState
      BY <2>1, <1>j DEF JobState
    <2>4. Assigned(s)
      BY <1>5, <1>j DEF GetCheckpoint, JobState, Assigned, Looping
    <2> QED
      BY <2>2, <2>3, <2>4
  <1>6. CASE GetFilesAtHead(j)
    <2> DEFINE files == BlobsAt(head)
               due == FilesToProcess(job[j].resume, files)
               todo == {ChangedFile("Added", p, None) : p \in due}
               total == Cardinality(files)
               processed == Capped(job[j].processed + Cardinality(files \ due))
               s == [job[j] EXCEPT !.pc = "files", !.listed = head, !.todo = todo,
                                   !.total = total, !.processed = processed]
    <2>1. files \subseteq Path /\ due \subseteq Path
      BY DEF BlobsAt, FilesAt, FilesToProcess
    <2>2. Cardinality(files) \in Nat /\ Cardinality(files \ due) \in Nat
      BY <2>1, SubsetCardinality
    <2>3. processed \in 0..MaxCount
      BY <2>2, <1>j, CappedType DEF JobState
    <2>4. todo \subseteq Change
      BY <2>1 DEF ChangedFile, Change
    <2>5. Becomes(j, s)
      BY <1>6 DEF GetFilesAtHead
    <2> HIDE DEF files, due, todo, processed
    <2>6. s \in JobState
      BY <2>2, <2>3, <2>4, <1>j DEF JobState
    <2>7. Assigned(s)
      BY <1>6, <1>j DEF GetFilesAtHead, JobState, Assigned, Looping
    <2> QED
      BY <2>5, <2>6, <2>7
  <1>7. CASE DeleteFile(j)
    <2> PICK c \in job[j].todo : Becomes(j, [job[j] EXCEPT !.todo = @ \ {c}]) /\ IsNext(j, c)
      BY <1>7 DEF DeleteFile
    <2> DEFINE s == [job[j] EXCEPT !.todo = @ \ {c}]
    <2>1. s \in JobState
      BY <1>j DEF JobState
    <2>2. Assigned(s)
      BY <1>j DEF IsNext, JobState, Assigned, Looping
    <2> QED
      BY <2>1, <2>2
  <1>8. CASE DeleteOldPath(j) \/ TakeFile(j)
    <2> PICK c \in job[j].todo :
          /\ Becomes(j, [job[j] EXCEPT !.todo = @ \ {c}, !.path = c.path, !.pc = "process"])
          /\ IsNext(j, c)
      BY <1>8 DEF DeleteOldPath, TakeFile
    <2> DEFINE s == [job[j] EXCEPT !.todo = @ \ {c}, !.path = c.path, !.pc = "process"]
    <2>1. c.path \in Path
      BY <1>j DEF JobState, Change
    <2>2. s \in JobState
      BY <2>1, <1>j DEF JobState
    <2>3. Assigned(s)
      BY <2>1, <1>j DEF IsNext, JobState, Assigned, Looping
    <2> QED
      BY <2>2, <2>3
  <1>9. CASE ReadFile(j)
    <2> DEFINE r == RevisionOf(job[j])
               chunks == Chunks[Tree[r][job[j].path]]
               pc == IF chunks = {} THEN AfterFile(j) ELSE "upsert"
               s == [job[j] EXCEPT !.left = chunks, !.pc = pc]
    <2>1. Tree[r][job[j].path] \in Content /\ chunks \in SUBSET Chunk
      BY <1>9 DEF ReadFile, Readable
    <2>2. /\ pc \in {"save", "files", "upsert"}
          /\ pc = "save" => job[j].full
      BY DEF AfterFile
    <2>3. Becomes(j, s)
      BY <1>9 DEF ReadFile
    <2>4. s.full = job[j].full /\ s.listed = job[j].listed /\ s.to = job[j].to
          /\ s.path = job[j].path /\ s.left = chunks /\ s.pc = pc /\ s.from = job[j].from
      BY <1>j DEF JobState
    <2>5. RevisionOf(s) = r
      BY <2>4 DEF RevisionOf
    <2>6. job[j].pc = "process"
      BY <1>9 DEF ReadFile
    <2> HIDE DEF pc, r
    <2>7. s \in JobState
      BY <2>1, <2>2, <1>j DEF JobState
    <2> HIDE DEF s
    <2>8. Assigned(s)
      BY <2>1, <2>2, <2>4, <2>5, <2>6, <1>j DEF Assigned, Looping
    <2> QED
      BY <2>3, <2>7, <2>8
  <1>10. CASE ReadFileThrows(j) \/ SetLastIndexedRevision(j)
    BY <1>10, IdleType, IdleAssigned DEF ReadFileThrows, SetLastIndexedRevision
  <1>11. CASE UpsertChunk(j)
    <2> PICK k \in job[j].left :
          Becomes(j, [job[j] EXCEPT !.left = @ \ {k},
                                    !.pc = IF job[j].left = {k} THEN AfterFile(j) ELSE "upsert"])
      BY <1>11 DEF UpsertChunk
    <2> DEFINE pc == IF job[j].left = {k} THEN AfterFile(j) ELSE "upsert"
               s == [job[j] EXCEPT !.left = @ \ {k}, !.pc = pc]
    <2>1. /\ pc \in {"save", "files", "upsert"}
          /\ pc = "save" => job[j].full
      BY DEF AfterFile
    <2>2. s.full = job[j].full /\ s.listed = job[j].listed /\ s.to = job[j].to
          /\ s.path = job[j].path /\ s.left \subseteq job[j].left /\ s.pc = pc
          /\ s.from = job[j].from
      BY <1>j DEF JobState
    <2>3. RevisionOf(s) = RevisionOf(job[j])
      BY <2>2 DEF RevisionOf
    <2>4. job[j].pc = "upsert"
      BY <1>11 DEF UpsertChunk
    <2> HIDE DEF pc
    <2>5. s \in JobState
      BY <2>1, <1>j DEF JobState
    <2>6. /\ job[j].to \in Rev /\ job[j].listed \in Rev /\ job[j].path \in Path
          /\ ~job[j].full => job[j].from \in Rev
          /\ Tree[RevisionOf(job[j])][job[j].path] \in Content
          /\ job[j].left \subseteq Chunks[Tree[RevisionOf(job[j])][job[j].path]]
      BY <2>4, <1>j DEF Assigned, Looping
    <2> HIDE DEF s
    <2>7. Assigned(s)
      BY <2>1, <2>2, <2>3, <2>6 DEF Assigned
    <2> QED
      BY <2>5, <2>7 DEF s, pc
  <1>12. CASE SaveCheckpoint(j)
    <2> DEFINE done == Capped(job[j].processed + 1)
               s == [job[j] EXCEPT !.processed = done, !.existing = None, !.pc = "files"]
    <2>1. done \in 0..MaxCount
      BY <1>j, CappedType DEF JobState
    <2>2. Becomes(j, s)
      BY <1>12 DEF SaveCheckpoint
    <2> HIDE DEF done
    <2>3. s \in JobState
      BY <2>1, <1>j DEF JobState
    <2>4. Assigned(s)
      BY <1>12, <1>j DEF SaveCheckpoint, JobState, Assigned, Looping
    <2> QED
      BY <2>2, <2>3, <2>4
  <1>13. CASE ClearCheckpoint(j)
    <2> DEFINE s == [job[j] EXCEPT !.existing = None, !.pc = "commit"]
    <2>1. s \in JobState
      BY <1>j DEF JobState
    <2>2. Assigned(s)
      BY <1>13, <1>j DEF ClearCheckpoint, JobState, Assigned, Looping
    <2> QED
      BY <1>13, <2>1, <2>2 DEF ClearCheckpoint
  <1>14. CASE ReadStateToSave(j)
    <2> DEFINE s == [job[j] EXCEPT !.existing = indexState.last, !.pc = "saving"]
    <2>1. s \in JobState
      BY <1>j DEF JobState, IndexState
    <2>2. Assigned(s)
      BY <1>14, <1>j DEF ReadStateToSave, JobState, Assigned, Looping
    <2> QED
      BY <1>14, <2>1, <2>2 DEF ReadStateToSave
  <1>15. CASE ReadStateToClear(j)
    <2> DEFINE s == [job[j] EXCEPT !.existing = indexState.last, !.pc = "clearing"]
               t == [job[j] EXCEPT !.pc = "commit"]
    <2>1. s \in JobState /\ t \in JobState
      BY <1>j DEF JobState, IndexState
    <2>2. Assigned(s) /\ Assigned(t)
      BY <1>15, <1>j DEF ReadStateToClear, LoopDone, JobState, Assigned, Looping
    <2> QED
      BY <1>15, <2>1, <2>2 DEF ReadStateToClear
  <1> QED
    BY <1>1, <1>2, <1>3, <1>4, <1>5, <1>6, <1>7, <1>8, <1>9, <1>10, <1>11, <1>12,
       <1>13, <1>14, <1>15 DEF Step

\* Only an upsert adds points; it adds one of a chunk of the file being processed.
LEMMA NewPoint ==
  ASSUME TypeInv, NEW j \in Job, UpsertChunk(j)
  PROVE  \E k \in job[j].left :
           /\ points' = Upserted(PointOf(job[j], k))
           /\ PointOf(job[j], k) \in Point
           /\ Tree[RevisionOf(job[j])][job[j].path] \in Content
           /\ k \in Chunks[Tree[RevisionOf(job[j])][job[j].path]]
  <1>1. PICK k \in job[j].left : points' = Upserted(PointOf(job[j], k))
    BY DEF UpsertChunk
  <1>2. /\ job[j] \in JobState /\ Assigned(job[j]) /\ job[j].pc = "upsert"
    BY DEF TypeInv, TypeOK, UpsertChunk
  <1>3. RevisionOf(job[j]) \in Rev /\ job[j].path \in Path /\ k \in Chunk
    BY <1>2 DEF Assigned, Looping, RevisionOf, JobState
  <1>4. PointOf(job[j], k) \in Point
    BY <1>3 DEF PointOf, Point
  <1> QED
    BY <1>1, <1>2, <1>4 DEF Assigned

LEMMA StepPoints ==
  ASSUME NEW j, Step(j)
  PROVE  points' \subseteq points \/ UpsertChunk(j)
  BY DEF Step, StartIncremental, StartFull, GetChangedFilesSince, GetCurrentRevision,
         GetCheckpoint, GetFilesAtHead, DeleteFile, DeleteOldPath, TakeFile, ReadFile,
         ReadStateToSave, ReadStateToClear, ReadFileThrows,
         SaveCheckpoint, ClearCheckpoint, SetLastIndexedRevision,
         WithoutPath

\* Only three operations write the state file.
LEMMA StepState ==
  ASSUME NEW j, Step(j)
  PROVE  /\ head' = head
         /\ \/ indexState' = indexState
            \/ SaveCheckpoint(j) \/ ClearCheckpoint(j) \/ SetLastIndexedRevision(j)
  BY DEF Step, StartIncremental, StartFull, GetChangedFilesSince, GetCurrentRevision,
         GetCheckpoint, GetFilesAtHead, DeleteFile, DeleteOldPath, TakeFile, ReadFile,
         ReadStateToSave, ReadStateToClear, ReadFileThrows,
         UpsertChunk, SaveCheckpoint, ClearCheckpoint,
         SetLastIndexedRevision

LEMMA NextIndexState ==
  ASSUME TypeInv, NEW j \in Job, Step(j) PROVE indexState' \in IndexState
  <1>j. job[j] \in JobState /\ Assigned(job[j]) /\ indexState \in IndexState
    BY DEF TypeInv, TypeOK
  <1>1. CASE SaveCheckpoint(j)
    <2>1. Capped(job[j].processed + 1) \in 0..MaxCount
      BY <1>j, CappedType DEF JobState
    <2>2. /\ job[j].to \in Rev /\ job[j].path \in Path /\ job[j].total \in Nat
          /\ job[j].existing \in Rev \cup {None}
      BY <1>1, <1>j DEF SaveCheckpoint, Assigned, Looping, JobState
    <2> QED
      BY <1>1, <1>j, <2>1, <2>2 DEF SaveCheckpoint, IndexState, IndexCheckpoint
  <1>2. CASE ClearCheckpoint(j)
    BY <1>2, <1>j DEF ClearCheckpoint, IndexState, JobState
  <1>3. CASE SetLastIndexedRevision(j)
    BY <1>3, <1>j DEF SetLastIndexedRevision, IndexState, JobState
  <1> QED
    BY <1>1, <1>2, <1>3, <1>j, StepState

LEMMA TypeStep == ASSUME TypeInv, NEW j \in Job, Step(j) \/ Abort(j) PROVE TypeInv'
  <1>1. PICK s \in JobState : Becomes(j, s) /\ Assigned(s)
    BY NextJobState, IdleType, IdleAssigned DEF WellFormedNext, Abort
  <1>2. /\ job' \in [Job -> JobState]
        /\ \A i \in Job : Assigned(job'[i])
    BY <1>1, BecomesType DEF TypeInv
  <1>3. head' \in Rev
    BY StepState DEF TypeInv, TypeOK, Abort
  <1>4. indexState' \in IndexState
    BY NextIndexState DEF TypeInv, TypeOK, Abort
  <1>5. points' \subseteq Point
    BY StepPoints, NewPoint DEF TypeInv, TypeOK, Abort, Upserted
  <1> QED
    BY <1>2, <1>3, <1>4, <1>5 DEF TypeInv, TypeOK

LEMMA TypeNext == TypeInv /\ [Next]_vars => TypeInv'
  <1> SUFFICES ASSUME TypeInv, [Next]_vars PROVE TypeInv'
    OBVIOUS
  <1>1. CASE MoveHead
    BY <1>1 DEF MoveHead, TypeInv, TypeOK
  <1>2. CASE UNCHANGED vars
    BY <1>2 DEF vars, TypeInv, TypeOK
  <1> QED
    BY <1>1, <1>2, TypeStep DEF Next

LEMMA TypeInvariant == Spec => []TypeInv
  <1>1. Init => TypeInv
    BY InitType, IdleAssigned DEF Init, TypeInv
  <1> QED
    BY <1>1, TypeNext, PTL DEF Spec

\* The variables always have their types: in particular a point carries a real
\* path and commit, and a checkpoint a real file.
THEOREM TypeCorrect == Spec => []TypeOK
  <1>1. TypeInv => TypeOK
    BY DEF TypeInv
  <1> QED
    BY <1>1, TypeInvariant, PTL

-----------------------------------------------------------------------------
(* Points and the commits they name *)

LEMMA ResolvableNext ==
  TypeInv /\ PointsResolvable /\ [Next]_vars => PointsResolvable'
  <1> SUFFICES ASSUME TypeInv, PointsResolvable, [Next]_vars PROVE PointsResolvable'
    OBVIOUS
  <1>1. ASSUME points' \subseteq points PROVE PointsResolvable'
    BY <1>1 DEF PointsResolvable
  <1>2. ASSUME NEW j \in Job, UpsertChunk(j) PROVE PointsResolvable'
    <2>1. PICK k \in job[j].left :
            /\ points' = Upserted(PointOf(job[j], k))
            /\ Tree[RevisionOf(job[j])][job[j].path] \in Content
            /\ k \in Chunks[Tree[RevisionOf(job[j])][job[j].path]]
      BY <1>2, NewPoint
    <2>2. points' \subseteq points \cup {PointOf(job[j], k)}
      BY <2>1 DEF Upserted
    <2> QED
      BY <2>1, <2>2 DEF PointsResolvable, PointOf
  <1>3. CASE MoveHead \/ UNCHANGED vars \/ \E j \in Job : Abort(j)
    BY <1>1, <1>3 DEF MoveHead, vars, Abort
  <1> QED
    BY <1>1, <1>2, <1>3, StepPoints DEF Next

\* Every stored point names a commit that has the file, and a chunk of the file
\* as it is there - wherever HEAD moves between the reads of the concurrent runs,
\* and whatever is aborted.
THEOREM PointsAlwaysResolvable == Spec => []PointsResolvable
  <1>1. Init => PointsResolvable
    BY DEF Init, PointsResolvable
  <1> QED
    BY <1>1, ResolvableNext, TypeInvariant, PTL DEF Spec

-----------------------------------------------------------------------------
(* What the state file vouches for is in the store.                          *)
(*                                                                           *)
(* The argument: HEAD goes forward on a history in which deleted paths stay  *)
(* deleted, so a run deletes only points of paths that HEAD will never have  *)
(* again; what is stored of a file that HEAD still has stays stored, whoever *)
(* else is running (Keeps).  A run knows its starting revision to be stored, *)
(* and adds, file by file, what its target revision has on top of it         *)
(* (WorkDone); a full run knows it of what the checkpoint lets it skip.      *)
(* The predicates take the HEAD commit and the set of points as parameters.  *)

QuietLinearHistory == ForwardOnly /\ DeletedForGood /\ ~RacingReads

StoredIn(P, p, r, k) == \E x \in P : /\ x.path = p
                                     /\ Tree[x.rev][p] = Tree[r][p]
                                     /\ SymbolName[x.chunk] = SymbolName[k]

CoveredIn(P, p, r) == \A k \in Chunks[Tree[r][p]] : StoredIn(P, p, r, k)

\* The files of r that the commit h still has.
Remaining(r, h) == FilesAt(r) \cap FilesAt(h)

AllStored(r, h, P) == \A p \in Remaining(r, h) : CoveredIn(P, p, r)

StoredUpTo(r, f, h, P) == \A p \in Remaining(r, h) : p <= f => CoveredIn(P, p, r)

Past(r, h) == r \in Rev /\ r <= h

LastVouched(last, h, P) == last # None => Past(last, h) /\ AllStored(last, h, P)

CheckpointVouched(cp, h, P) ==
  cp # None => /\ Past(cp.revision, h)
               /\ cp.file \in BlobsAt(cp.revision)
               /\ StoredUpTo(cp.revision, cp.file, h, P)

\* Chunk k of file p is still to be upserted by a run in state s.
Due(s, p, k) ==
  \/ \E c \in s.todo : c.path = p /\ c.kind # "Deleted"
  \/ s.pc = "process" /\ s.path = p
  \/ s.pc = "upsert" /\ s.path = p /\ k \in s.left

WorkDone(s, h, P) ==
  \A p \in Remaining(s.listed, h) : \A k \in Chunks[Tree[s.listed][p]] :
    StoredIn(P, p, s.listed, k) \/ Due(s, p, k)

\* What is left to delete is gone from the history.
TodoOfDiff(s) ==
  /\ s.from <= s.listed
  /\ \A c \in s.todo : /\ c.kind = "Deleted" => c.path \in Gone(s.from, s.listed)
                       /\ c.kind = "Renamed" => c.oldPath \in Gone(s.from, s.listed)

\* A full run's list: each file once, in order.
TodoOfFull(s) ==
  /\ \A c \in s.todo : /\ c.kind = "Added"
                       /\ c.path \in BlobsAt(s.listed)
                       /\ \A d \in s.todo : d.path = c.path => d = c
  /\ s.pc \in {"process", "upsert", "save", "saving"} =>
       /\ s.path \in BlobsAt(s.listed)
       /\ \A c \in s.todo : c.path > s.path

JobInv(s, h, P) ==
  /\ ~s.full /\ s.pc # "idle" => Past(s.from, h) /\ AllStored(s.from, h, P)
  /\ ~s.full /\ s.pc = "toRevision" => s.listed = h
  /\ s.pc \in {"checkpoint", "list"} => s.to = h
  /\ s.pc = "list" /\ s.resume # None =>
       s.resume \in BlobsAt(s.to) /\ StoredUpTo(s.to, s.resume, h, P)
  /\ Looping(s) => s.to = s.listed /\ Past(s.listed, h)
  /\ Looping(s) \/ (~s.full /\ s.pc = "toRevision") =>
       /\ WorkDone(s, h, P)
       /\ IF s.full THEN TodoOfFull(s) ELSE TodoOfDiff(s)
  /\ s.pc \in {"clearing", "commit"} => s.todo = {}
  /\ LastVouched(s.existing, h, P)

IndInv ==
  /\ TypeInv
  /\ LastVouched(indexState.last, head, points)
  /\ CheckpointVouched(indexState.checkpoint, head, points)
  /\ \A j \in Job : JobInv(job[j], head, points)

\* From commit h and points P to commit h2 and points P2, nothing is lost of the
\* files h2 still has.
Keeps(h, P, h2, P2) ==
  /\ h <= h2
  /\ \A r \in Rev : r <= h => \A p \in Remaining(r, h2) :
       /\ p \in FilesAt(h)
       /\ \A k \in Chunk : StoredIn(P, p, r, k) => StoredIn(P2, p, r, k)

LEMMA ChunksOfFile ==
  ASSUME NEW r \in Rev, NEW p \in FilesAt(r)
  PROVE  p \in Path /\ Tree[r][p] \in Content /\ Chunks[Tree[r][p]] \subseteq Chunk
  BY DEF FilesAt

LEMMA KeepsStored ==
  ASSUME NEW h \in Rev, NEW P, NEW h2 \in Rev, NEW P2, Keeps(h, P, h2, P2),
         NEW r, Past(r, h)
  PROVE  /\ Past(r, h2)
         /\ Remaining(r, h2) \subseteq Remaining(r, h)
         /\ \A p \in Remaining(r, h2) : \A k \in Chunks[Tree[r][p]] :
              StoredIn(P, p, r, k) => StoredIn(P2, p, r, k)
         /\ \A p \in Remaining(r, h2) : CoveredIn(P, p, r) => CoveredIn(P2, p, r)
  <1>1. r \in Rev /\ r <= h /\ h <= h2
    BY DEF Past, Keeps
  <1>2. Past(r, h2)
    BY <1>1 DEF Past
  <1>3. Remaining(r, h2) \subseteq Remaining(r, h)
    BY <1>1 DEF Keeps, Remaining
  <1>4. ASSUME NEW p \in Remaining(r, h2), NEW k \in Chunks[Tree[r][p]], StoredIn(P, p, r, k)
        PROVE  StoredIn(P2, p, r, k)
    <2>1. k \in Chunk
      BY <1>1, ChunksOfFile DEF Remaining
    <2> QED
      BY <1>1, <1>4, <2>1 DEF Keeps
  <1>5. ASSUME NEW p \in Remaining(r, h2), CoveredIn(P, p, r) PROVE CoveredIn(P2, p, r)
    BY <1>4, <1>5 DEF CoveredIn
  <1> QED
    BY <1>2, <1>3, <1>4, <1>5

LEMMA KeepsVouched ==
  ASSUME NEW h \in Rev, NEW P, NEW h2 \in Rev, NEW P2, Keeps(h, P, h2, P2), NEW r, Past(r, h)
  PROVE  /\ AllStored(r, h, P) => AllStored(r, h2, P2)
         /\ \A f : StoredUpTo(r, f, h, P) => StoredUpTo(r, f, h2, P2)
  BY KeepsStored DEF AllStored, StoredUpTo

LEMMA KeepsLast ==
  ASSUME NEW h \in Rev, NEW P, NEW h2 \in Rev, NEW P2, Keeps(h, P, h2, P2),
         NEW last, LastVouched(last, h, P)
  PROVE  LastVouched(last, h2, P2)
  BY KeepsStored, KeepsVouched DEF LastVouched

LEMMA KeepsCheckpoint ==
  ASSUME NEW h \in Rev, NEW P, NEW h2 \in Rev, NEW P2, Keeps(h, P, h2, P2),
         NEW cp, CheckpointVouched(cp, h, P)
  PROVE  CheckpointVouched(cp, h2, P2)
  BY KeepsStored, KeepsVouched DEF CheckpointVouched

LEMMA KeepsJob ==
  ASSUME NEW h \in Rev, NEW P, NEW h2 \in Rev, NEW P2, Keeps(h, P, h2, P2),
         NEW s \in JobState, Assigned(s), JobInv(s, h, P),
         h2 = h \/ ~(\/ s.pc = "toRevision" /\ ~s.full
                     \/ s.pc \in {"checkpoint", "list"})
  PROVE  JobInv(s, h2, P2)
  <1>1. ~s.full /\ s.pc # "idle" => Past(s.from, h2) /\ AllStored(s.from, h2, P2)
    BY KeepsStored, KeepsVouched DEF JobInv
  <1>2. /\ ~s.full /\ s.pc = "toRevision" => s.listed = h2
        /\ s.pc \in {"checkpoint", "list"} => s.to = h2
    BY DEF JobInv
  <1>3. ASSUME s.pc = "list", s.resume # None
        PROVE  s.resume \in BlobsAt(s.to) /\ StoredUpTo(s.to, s.resume, h2, P2)
    <2>1. Past(s.to, h) /\ s.resume \in BlobsAt(s.to) /\ StoredUpTo(s.to, s.resume, h, P)
      BY <1>3 DEF JobInv, Past
    <2> QED
      BY <2>1, KeepsVouched
  <1>4. Looping(s) => s.to = s.listed /\ Past(s.listed, h2)
    BY KeepsStored DEF JobInv
  <1>5. ASSUME Looping(s) \/ (~s.full /\ s.pc = "toRevision")
        PROVE  WorkDone(s, h2, P2) /\ IF s.full THEN TodoOfFull(s) ELSE TodoOfDiff(s)
    <2>1. Past(s.listed, h)
      BY <1>5 DEF JobInv, Past
    <2>2. WorkDone(s, h, P) /\ IF s.full THEN TodoOfFull(s) ELSE TodoOfDiff(s)
      BY <1>5 DEF JobInv
    <2>3. WorkDone(s, h2, P2)
      BY <2>1, <2>2, KeepsStored DEF WorkDone
    <2> QED
      BY <2>2, <2>3
  <1>6. LastVouched(s.existing, h2, P2)
    BY KeepsLast DEF JobInv
  <1> QED
    BY <1>1, <1>2, <1>3, <1>4, <1>5, <1>6 DEF JobInv

\* A path a run is about to delete is one that HEAD will never have.
LEMMA DeletesOnlyGone ==
  ASSUME QuietLinearHistory, IndInv, NEW j \in Job, job[j].pc = "files",
         NEW c \in job[j].todo
  PROVE  /\ c.kind = "Deleted" => c.path \notin FilesAt(head)
         /\ c.kind = "Renamed" => c.oldPath \notin FilesAt(head)
  <1> DEFINE s == job[j]
  <1>1. s \in JobState /\ Assigned(s) /\ JobInv(s, head, points) /\ head \in Rev
    BY DEF IndInv, TypeInv, TypeOK
  <1>2. Past(s.listed, head) /\ (IF s.full THEN TodoOfFull(s) ELSE TodoOfDiff(s))
    BY <1>1 DEF JobInv, Looping
  <1>3. CASE s.full
    BY <1>2, <1>3 DEF TodoOfFull
  <1>4. CASE ~s.full
    <2>1. s.from \in Rev /\ s.listed \in Rev /\ s.from <= s.listed /\ s.listed <= head
      BY <1>1, <1>2, <1>4 DEF Assigned, TodoOfDiff, Past
    <2>2. ASSUME NEW p \in Gone(s.from, s.listed) PROVE p \notin FilesAt(head)
      <3>1. p \in Path /\ Tree[s.from][p] # None /\ Tree[s.listed][p] = None
        BY DEF Gone, FilesAt
      <3>2. \A a, b, c2 \in Rev :
              a <= b /\ b <= c2 /\ Tree[a][p] # None /\ Tree[b][p] = None => Tree[c2][p] = None
        BY <3>1 DEF QuietLinearHistory, DeletedForGood
      <3>3. Tree[head][p] = None
        BY <1>1, <2>1, <3>1, <3>2
      <3> QED
        BY <3>3 DEF FilesAt
    <2> QED
      BY <1>2, <1>4, <2>2 DEF TodoOfDiff
  <1> QED
    BY <1>3, <1>4

LEMMA UpsertKeeps ==
  ASSUME NEW x \in Point, NEW p, NEW r, NEW k, StoredIn(points, p, r, k)
  PROVE  StoredIn(Upserted(x), p, r, k)
  <1>1. PICK y \in points : /\ y.path = p
                            /\ Tree[y.rev][p] = Tree[r][p]
                            /\ SymbolName[y.chunk] = SymbolName[k]
    BY DEF StoredIn
  <1>2. CASE SamePointId(x, y)
    BY <1>1, <1>2 DEF SamePointId, StoredIn, Upserted
  <1>3. CASE ~SamePointId(x, y)
    BY <1>1, <1>3 DEF StoredIn, Upserted
  <1> QED
    BY <1>2, <1>3

LEMMA StepKeeps ==
  ASSUME QuietLinearHistory, IndInv, NEW j \in Job, Step(j)
  PROVE  Keeps(head, points, head, points')
  <1>h. head \in Rev
    BY DEF IndInv, TypeInv, TypeOK
  <1>1. ASSUME NEW d, d \notin FilesAt(head), points' = WithoutPath(d)
        PROVE  Keeps(head, points, head, points')
    <2>1. ASSUME NEW r \in Rev, NEW p \in Remaining(r, head), NEW k, StoredIn(points, p, r, k)
          PROVE  StoredIn(points', p, r, k)
      <3>1. p # d
        BY <1>1 DEF Remaining
      <3> QED
        BY <1>1, <2>1, <3>1 DEF StoredIn, WithoutPath
    <2>2. head <= head
      BY <1>h
    <2> QED
      BY <2>1, <2>2 DEF Keeps, Remaining
  <1>2. CASE DeleteFile(j) \/ DeleteOldPath(j)
    <2>1. PICK c \in job[j].todo :
            /\ job[j].pc = "files"
            /\ \/ c.kind = "Deleted" /\ points' = WithoutPath(c.path)
               \/ c.kind = "Renamed" /\ points' = WithoutPath(c.oldPath)
      BY <1>2 DEF DeleteFile, DeleteOldPath, IsNext
    <2>2. /\ c.kind = "Deleted" => c.path \notin FilesAt(head)
          /\ c.kind = "Renamed" => c.oldPath \notin FilesAt(head)
      BY <2>1, DeletesOnlyGone
    <2> QED
      BY <1>1, <2>1, <2>2
  <1>3. CASE UpsertChunk(j)
    <2>1. PICK k \in job[j].left : /\ points' = Upserted(PointOf(job[j], k))
                                   /\ PointOf(job[j], k) \in Point
      BY <1>3, NewPoint DEF IndInv
    <2> QED
      BY <1>h, <2>1, UpsertKeeps DEF Keeps, Remaining
  <1>4. CASE points' = points
    BY <1>4, <1>h DEF Keeps, Remaining
  <1> QED
    BY <1>2, <1>3, <1>4
    DEF Step, StartIncremental, StartFull, GetChangedFilesSince, GetCurrentRevision,
        GetCheckpoint, GetFilesAtHead, TakeFile, ReadFile, ReadFileThrows,
        ReadStateToSave, SaveCheckpoint, ReadStateToClear, ClearCheckpoint,
        SetLastIndexedRevision

LEMMA MoveKeeps ==
  ASSUME QuietLinearHistory, TypeInv, MoveHead
  PROVE  /\ Keeps(head, points, head', points)
         /\ \A j \in Job : ~BetweenReads(j)
  <1>1. head \in Rev /\ head' \in Rev /\ head <= head'
    BY DEF QuietLinearHistory, ForwardOnly, TypeInv, TypeOK, MoveHead
  <1>2. ASSUME NEW r \in Rev, r <= head, NEW p \in Remaining(r, head') PROVE p \in FilesAt(head)
    BY <1>1, <1>2 DEF QuietLinearHistory, DeletedForGood, Remaining, FilesAt
  <1> QED
    BY <1>1, <1>2 DEF Keeps, MoveHead, QuietLinearHistory

\* When nothing is left to do, the target revision is stored.
LEMMA DoneIsStored ==
  ASSUME NEW h, NEW P, NEW s, JobInv(s, h, P), s.pc \in {"files", "commit"}, s.todo = {}
  PROVE  Past(s.to, h) /\ AllStored(s.to, h, P)
  <1>1. s.to = s.listed /\ Past(s.listed, h) /\ WorkDone(s, h, P)
    BY DEF JobInv, Looping
  <1>2. \A p, k : ~Due(s, p, k)
    BY DEF Due
  <1> QED
    BY <1>1, <1>2 DEF WorkDone, AllStored, CoveredIn

\* When a full run saves its checkpoint, the files up to it are stored.
LEMMA SavedIsStored ==
  ASSUME NEW h, NEW P, NEW s \in JobState, Assigned(s), JobInv(s, h, P), s.pc = "saving"
  PROVE  /\ Past(s.to, h)
         /\ s.path \in BlobsAt(s.to)
         /\ StoredUpTo(s.to, s.path, h, P)
  <1>1. /\ s.to = s.listed /\ Past(s.listed, h) /\ WorkDone(s, h, P) /\ TodoOfFull(s)
    BY DEF JobInv, Looping, Assigned
  <1>2. s.path \in BlobsAt(s.to) /\ s.path \in Nat
    BY <1>1 DEF TodoOfFull, Assigned
  <1>3. ASSUME NEW p \in Remaining(s.to, h), p <= s.path, NEW k PROVE ~Due(s, p, k)
    <2>1. p \in Nat
      BY DEF Remaining, FilesAt
    <2>2. \A c \in s.todo : c.path > s.path
      BY <1>1 DEF TodoOfFull
    <2> QED
      BY <1>2, <1>3, <2>1, <2>2 DEF Due
  <1> QED
    BY <1>1, <1>2, <1>3 DEF WorkDone, StoredUpTo, CoveredIn

LEMMA IdleInv == ASSUME NEW h, NEW P PROVE JobInv(Idle, h, P)
  BY DEF JobInv, Idle, Looping, LastVouched

\* The diff names every file it does not find unchanged.
LEMMA DiffIsWorkDone ==
  ASSUME NEW h \in Rev, NEW P, NEW s, Past(s.from, h), AllStored(s.from, h, P),
         NEW m \in RenamePairings(s.from, h), s.todo = Changes(s.from, h, m), s.listed = h
  PROVE  WorkDone(s, h, P) /\ TodoOfDiff(s)
  <1>1. ASSUME NEW p \in FilesAt(h), NEW k \in Chunks[Tree[h][p]]
        PROVE  StoredIn(P, p, h, k) \/ Due(s, p, k)
    <2>1. CASE p \in FilesAt(s.from) /\ Tree[s.from][p] = Tree[h][p]
      BY <1>1, <2>1 DEF AllStored, Remaining, CoveredIn, StoredIn
    <2>2. CASE p \in FilesAt(s.from) /\ Tree[s.from][p] # Tree[h][p]
      <3>1. ChangedFile("Modified", p, None) \in s.todo
        BY <1>1, <2>2 DEF Changes
      <3> QED
        BY <3>1 DEF Due, ChangedFile
    <2>3. CASE p \in Gone(h, s.from) /\ p \notin {x[2] : x \in m}
      <3>1. ChangedFile("Added", p, None) \in s.todo
        BY <2>3 DEF Changes
      <3> QED
        BY <3>1 DEF Due, ChangedFile
    <2>4. CASE \E x \in m : x[2] = p
      <3>1. PICK x \in m : x[2] = p
        BY <2>4
      <3>2. ChangedFile("Renamed", p, x[1]) \in s.todo
        BY <3>1 DEF Changes
      <3> QED
        BY <3>2 DEF Due, ChangedFile
    <2> QED
      BY <1>1, <2>1, <2>2, <2>3, <2>4 DEF Gone
  <1>2. \A x \in m : x[1] \in Gone(s.from, h)
    BY DEF RenamePairings
  <1>3. TodoOfDiff(s)
    BY <1>2 DEF TodoOfDiff, Changes, ChangedFile, Past
  <1> QED
    BY <1>1, <1>3 DEF WorkDone, Remaining

\* A list of HEAD's blobs, less those up to a checkpoint that vouches for them.
LEMMA ListIsWorkDone ==
  ASSUME NEW h \in Rev, NEW P, NEW s, s.listed = h, s.pc = "files",
         NEW f \in Path \cup {None},
         f # None => f \in BlobsAt(h) /\ StoredUpTo(h, f, h, P),
         s.todo = {ChangedFile("Added", p, None) : p \in FilesToProcess(f, BlobsAt(h))}
  PROVE  WorkDone(s, h, P) /\ TodoOfFull(s)
  <1>1. ASSUME NEW p \in FilesAt(h), NEW k \in Chunks[Tree[h][p]]
        PROVE  StoredIn(P, p, h, k) \/ Due(s, p, k)
    <2>1. p \in BlobsAt(h)
      BY <1>1 DEF BlobsAt
    <2>2. CASE p \in FilesToProcess(f, BlobsAt(h))
      <3>1. ChangedFile("Added", p, None) \in s.todo
        BY <2>2
      <3> QED
        BY <3>1 DEF Due, ChangedFile
    <2>3. CASE p \notin FilesToProcess(f, BlobsAt(h))
      <3>1. f # None /\ f \in BlobsAt(h) /\ ~(p > f) /\ f \in Nat /\ p \in Nat
        BY <2>1, <2>3 DEF FilesToProcess, FilesAt, BlobsAt
      <3> QED
        BY <1>1, <3>1 DEF StoredUpTo, Remaining, CoveredIn
    <2> QED
      BY <2>2, <2>3
  <1>2. FilesToProcess(f, BlobsAt(h)) \subseteq BlobsAt(h)
    BY DEF FilesToProcess
  <1>3. TodoOfFull(s)
    BY <1>2 DEF TodoOfFull, ChangedFile
  <1> QED
    BY <1>1, <1>3 DEF WorkDone, Remaining

\* A step inside the loop keeps a run's invariant when it settles what it takes
\* off the run's list.
LEMMA LoopStep ==
  ASSUME NEW h, NEW P, NEW s, NEW t, JobInv(s, h, P), Looping(s), Looping(t),
         t.full = s.full, t.from = s.from, t.to = s.to, t.listed = s.listed,
         t.todo \subseteq s.todo,
         \A p : \A k \in Chunks[Tree[s.listed][p]] :
           Due(s, p, k) => Due(t, p, k) \/ StoredIn(P, p, s.listed, k),
         s.full => TodoOfFull(t),
         t.pc \in {"clearing", "commit"} => t.todo = {},
         t.existing = s.existing \/ LastVouched(t.existing, h, P)
  PROVE  JobInv(t, h, P)
  <1>1. /\ s.to = s.listed /\ Past(s.listed, h) /\ WorkDone(s, h, P)
        /\ ~s.full => TodoOfDiff(s)
        /\ ~s.full => Past(s.from, h) /\ AllStored(s.from, h, P)
    BY DEF JobInv, Looping
  <1>2. WorkDone(t, h, P)
    BY <1>1 DEF WorkDone
  <1>3. IF t.full THEN TodoOfFull(t) ELSE TodoOfDiff(t)
    BY <1>1 DEF TodoOfDiff
  <1>4. t.pc \notin {"idle", "toRevision", "checkpoint", "list"}
    BY DEF Looping
  <1>5. LastVouched(t.existing, h, P)
    BY DEF JobInv
  <1> QED
    BY <1>1, <1>2, <1>3, <1>4, <1>5 DEF JobInv

\* What a job in the loop may rely on.
InLoop(s, h, P) ==
  /\ s \in JobState /\ Assigned(s) /\ JobInv(s, h, P) /\ Looping(s)

LEMMA TakeKeepsJob ==
  ASSUME TypeOK, NEW j \in Job, NEW h, NEW P, InLoop(job[j], h, P),
         DeleteFile(j) \/ DeleteOldPath(j) \/ TakeFile(j)
  PROVE  JobInv(job'[j], h, P)
  <1> DEFINE s == job[j]
             t == job'[j]
  <1>s. s \in JobState /\ JobInv(s, h, P) /\ Looping(s) /\ (s.full => TodoOfFull(s))
    BY DEF InLoop, JobInv
  <1>1. CASE DeleteFile(j)
    <2>1. PICK c \in s.todo : /\ s.pc = "files" /\ c.kind = "Deleted"
                              /\ Becomes(j, [s EXCEPT !.todo = @ \ {c}])
      BY <1>1 DEF DeleteFile, IsNext
    <2>2. t = [s EXCEPT !.todo = @ \ {c}]
      BY <2>1, JobBecomes
    <2>3. /\ t.full = s.full /\ t.from = s.from /\ t.to = s.to /\ t.listed = s.listed
          /\ t.todo = s.todo \ {c} /\ t.pc = "files" /\ t.existing = s.existing
      BY <1>s, <2>1, <2>2 DEF JobState
    <2>4. ~s.full
      BY <1>s, <2>1 DEF TodoOfFull
    <2> HIDE DEF s, t
    <2>5. \A p, k : Due(s, p, k) => Due(t, p, k)
      BY <2>1, <2>3 DEF Due
    <2>6. Looping(t)
      BY <2>3 DEF Looping
    <2>7. JobInv(t, h, P)
      BY <1>s, <2>3, <2>4, <2>5, <2>6, LoopStep
    <2> QED
      BY <2>7 DEF t
  <1>2. CASE DeleteOldPath(j) \/ TakeFile(j)
    <2>1. PICK c \in s.todo :
            /\ IsNext(j, c)
            /\ Becomes(j, [s EXCEPT !.todo = @ \ {c}, !.path = c.path, !.pc = "process"])
      BY <1>2 DEF DeleteOldPath, TakeFile
    <2>2. t = [s EXCEPT !.todo = @ \ {c}, !.path = c.path, !.pc = "process"]
      BY <2>1, JobBecomes
    <2>3. /\ t.full = s.full /\ t.from = s.from /\ t.to = s.to /\ t.listed = s.listed
          /\ t.todo = s.todo \ {c} /\ t.pc = "process" /\ t.path = c.path
          /\ t.existing = s.existing
      BY <1>s, <2>2 DEF JobState
    <2>4. /\ s.pc = "files"
          /\ s.full => \A d \in s.todo : c.path <= d.path
          /\ \A d \in s.todo : d.path \in Nat
      BY <1>s, <2>1 DEF IsNext, JobState, Change
    <2> HIDE DEF s, t
    <2>5. \A p, k : Due(s, p, k) => Due(t, p, k)
      BY <2>3, <2>4 DEF Due
    <2>6. Looping(t)
      BY <2>3 DEF Looping
    <2>7. ASSUME s.full PROVE TodoOfFull(t)
      <3>1. ASSUME NEW d \in t.todo PROVE d.path > c.path
        <4>1. d \in s.todo /\ d # c
          BY <2>3
        <4>2. d.path # c.path
          BY <1>s, <2>7, <4>1 DEF TodoOfFull
        <4>3. c.path \in Nat /\ d.path \in Nat /\ c.path <= d.path
          BY <2>4, <2>7, <4>1
        <4> QED
          BY <4>2, <4>3
      <3> QED
        BY <1>s, <2>1, <2>3, <2>7, <3>1 DEF TodoOfFull
    <2>8. JobInv(t, h, P)
      BY <1>s, <2>3, <2>5, <2>6, <2>7, LoopStep
    <2> QED
      BY <2>8 DEF t
  <1> QED
    BY <1>1, <1>2

LEMMA ReadKeepsJob ==
  ASSUME TypeOK, NEW j \in Job, NEW h, NEW P, InLoop(job[j], h, P), ReadFile(j)
  PROVE  JobInv(job'[j], h, P)
  <1> DEFINE s == job[j]
             t == job'[j]
             chunks == Chunks[Tree[s.listed][s.path]]
             pc == IF chunks = {} THEN AfterFile(j) ELSE "upsert"
  <1>s. /\ s \in JobState /\ JobInv(s, h, P) /\ Looping(s) /\ s.pc = "process"
        /\ s.full => TodoOfFull(s)
    BY DEF InLoop, JobInv, ReadFile
  <1>1. RevisionOf(s) = s.listed
    BY <1>s DEF JobInv, RevisionOf
  <1>2. Becomes(j, [s EXCEPT !.left = chunks, !.pc = pc])
    BY <1>1 DEF ReadFile
  <1>3. t = [s EXCEPT !.left = chunks, !.pc = pc]
    BY <1>2, JobBecomes
  <1>4. /\ t.full = s.full /\ t.from = s.from /\ t.to = s.to /\ t.listed = s.listed
        /\ t.todo = s.todo /\ t.path = s.path /\ t.left = chunks /\ t.pc = pc
        /\ t.existing = s.existing
    BY <1>s, <1>3 DEF JobState
  <1>5. /\ chunks # {} => pc = "upsert"
        /\ pc \in {"upsert", "save", "files"}
    BY DEF AfterFile
  <1> HIDE DEF s, t, pc
  <1>6. \A p : \A k \in Chunks[Tree[s.listed][p]] : Due(s, p, k) => Due(t, p, k)
    BY <1>s, <1>4, <1>5 DEF Due
  <1>7. Looping(t) /\ t.pc \notin {"clearing", "commit"}
    BY <1>4, <1>5 DEF Looping
  <1>8. s.full => TodoOfFull(t)
    BY <1>s, <1>4, <1>5 DEF TodoOfFull
  <1>9. JobInv(t, h, P)
    BY <1>s, <1>4, <1>6, <1>7, <1>8, LoopStep
  <1> QED
    BY <1>9 DEF t

LEMMA UpsertKeepsJob ==
  ASSUME TypeInv, NEW j \in Job, NEW h, InLoop(job[j], h, points'), UpsertChunk(j)
  PROVE  JobInv(job'[j], h, points')
  <1> DEFINE s == job[j]
             t == job'[j]
  <1>s. /\ s \in JobState /\ JobInv(s, h, points') /\ Looping(s) /\ s.pc = "upsert"
        /\ s.full => TodoOfFull(s)
    BY DEF InLoop, JobInv, UpsertChunk
  <1>1. RevisionOf(s) = s.listed
    BY <1>s DEF JobInv, RevisionOf
  <1>2. PICK k \in s.left :
          /\ points' = Upserted(PointOf(s, k))
          /\ Becomes(j, [s EXCEPT !.left = @ \ {k},
                                  !.pc = IF s.left = {k} THEN AfterFile(j) ELSE "upsert"])
    BY DEF UpsertChunk
  <1> DEFINE pc == IF s.left = {k} THEN AfterFile(j) ELSE "upsert"
  <1>3. t = [s EXCEPT !.left = @ \ {k}, !.pc = pc]
    BY <1>2, JobBecomes DEF TypeInv
  <1>4. /\ t.full = s.full /\ t.from = s.from /\ t.to = s.to /\ t.listed = s.listed
        /\ t.todo = s.todo /\ t.path = s.path /\ t.left = s.left \ {k} /\ t.pc = pc
        /\ t.existing = s.existing
    BY <1>s, <1>3 DEF JobState
  <1>5. /\ s.left # {k} => pc = "upsert"
        /\ pc \in {"upsert", "save", "files"}
    BY DEF AfterFile
  <1>6. StoredIn(points', s.path, s.listed, k)
    BY <1>1, <1>2 DEF StoredIn, Upserted, PointOf
  <1> HIDE DEF s, t, pc
  <1>7. \A p, q : Due(s, p, q) => Due(t, p, q) \/ StoredIn(points', p, s.listed, q)
    BY <1>s, <1>4, <1>5, <1>6 DEF Due
  <1>8. Looping(t) /\ t.pc \notin {"clearing", "commit"}
    BY <1>4, <1>5 DEF Looping
  <1>9. s.full => TodoOfFull(t)
    BY <1>s, <1>4, <1>5 DEF TodoOfFull
  <1>10. JobInv(t, h, points')
    BY <1>s, <1>4, <1>7, <1>8, <1>9, LoopStep
  <1> QED
    BY <1>10 DEF t

LEMMA SaveKeepsJob ==
  ASSUME TypeOK, NEW j \in Job, NEW h, NEW P, InLoop(job[j], h, P),
         LastVouched(indexState.last, h, P),
         \/ ReadStateToSave(j) \/ SaveCheckpoint(j)
         \/ ReadStateToClear(j) \/ ClearCheckpoint(j)
  PROVE  JobInv(job'[j], h, P)
  <1> DEFINE s == job[j]
             t == job'[j]
             last == indexState.last
             done == Capped(job[j].processed + 1)
  <1>s. /\ s \in JobState /\ JobInv(s, h, P) /\ Looping(s)
        /\ s.full => TodoOfFull(s)
        /\ LastVouched(s.existing, h, P) /\ LastVouched(None, h, P)
    BY DEF InLoop, JobInv, LastVouched
  <1>1. \/ /\ s.pc = "save"
           /\ Becomes(j, [s EXCEPT !.existing = last, !.pc = "saving"])
        \/ /\ s.pc = "saving"
           /\ Becomes(j, [s EXCEPT !.processed = done, !.existing = None, !.pc = "files"])
        \/ /\ s.pc = "files" /\ s.todo = {}
           /\ Becomes(j, [s EXCEPT !.existing = last, !.pc = "clearing"])
        \/ /\ s.pc = "files" /\ s.todo = {}
           /\ Becomes(j, [s EXCEPT !.pc = "commit"])
        \/ /\ s.pc = "clearing" /\ s.todo = {}
           /\ Becomes(j, [s EXCEPT !.existing = None, !.pc = "commit"])
    BY <1>s DEF ReadStateToSave, SaveCheckpoint, ReadStateToClear, ClearCheckpoint,
                LoopDone, JobInv
  <1> HIDE DEF done
  <1>2. \/ /\ s.pc = "save"
           /\ t = [s EXCEPT !.existing = last, !.pc = "saving"]
        \/ /\ s.pc = "saving"
           /\ t = [s EXCEPT !.processed = done, !.existing = None, !.pc = "files"]
        \/ /\ s.pc = "files" /\ s.todo = {}
           /\ t = [s EXCEPT !.existing = last, !.pc = "clearing"]
        \/ /\ s.pc = "files" /\ s.todo = {}
           /\ t = [s EXCEPT !.pc = "commit"]
        \/ /\ s.pc = "clearing" /\ s.todo = {}
           /\ t = [s EXCEPT !.existing = None, !.pc = "commit"]
    BY <1>1, JobBecomes
  <1>3. /\ t.full = s.full /\ t.from = s.from /\ t.to = s.to /\ t.listed = s.listed
        /\ t.todo = s.todo /\ t.path = s.path
        /\ t.existing \in {last, None, s.existing}
        /\ \/ s.pc = "save" /\ t.pc = "saving"
           \/ s.pc = "saving" /\ t.pc = "files"
           \/ s.pc \in {"files", "clearing"} /\ t.pc \in {"clearing", "commit"} /\ s.todo = {}
    BY <1>s, <1>2 DEF JobState
  <1>4. LastVouched(t.existing, h, P)
    BY <1>s, <1>3
  <1> HIDE DEF s, t
  <1>5. \A p, q : Due(s, p, q) => Due(t, p, q)
    BY <1>3 DEF Due
  <1>6. Looping(t) /\ (t.pc \in {"clearing", "commit"} => t.todo = {})
    BY <1>3 DEF Looping
  <1>7. s.full => TodoOfFull(t)
    BY <1>s, <1>3 DEF TodoOfFull
  <1>8. JobInv(t, h, P)
    BY <1>s, <1>3, <1>4, <1>5, <1>6, <1>7, LoopStep
  <1> QED
    BY <1>8 DEF t

LEMMA StartKeepsJob ==
  ASSUME IndInv, NEW j \in Job, StartIncremental(j) \/ StartFull(j)
  PROVE  JobInv(job'[j], head, points)
  <1> DEFINE t == job'[j]
  <1>1. CASE StartIncremental(j)
    <2>1. t = [Idle EXCEPT !.pc = "diff", !.from = indexState.last]
      BY <1>1, JobBecomes DEF StartIncremental, IndInv, TypeInv
    <2>2. t.pc = "diff" /\ ~t.full /\ t.from = indexState.last /\ t.existing = None
      BY <2>1 DEF Idle
    <2>3. Past(t.from, head) /\ AllStored(t.from, head, points)
      BY <1>1, <2>2 DEF IndInv, LastVouched, StartIncremental
    <2> HIDE DEF t
    <2>4. JobInv(t, head, points)
      BY <2>2, <2>3 DEF JobInv, Looping, LastVouched
    <2> QED
      BY <2>4 DEF t
  <1>2. CASE StartFull(j)
    <2>1. t = [Idle EXCEPT !.pc = "toRevision", !.full = TRUE]
      BY <1>2, JobBecomes DEF StartFull, IndInv, TypeInv
    <2>2. t.pc = "toRevision" /\ t.full /\ t.existing = None
      BY <2>1 DEF Idle
    <2> HIDE DEF t
    <2>3. JobInv(t, head, points)
      BY <2>2 DEF JobInv, Looping, LastVouched
    <2> QED
      BY <2>3 DEF t
  <1> QED
    BY <1>1, <1>2

LEMMA DiffKeepsJob ==
  ASSUME IndInv, NEW j \in Job, GetChangedFilesSince(j)
  PROVE  JobInv(job'[j], head, points)
  <1> DEFINE s == job[j]
             t == job'[j]
  <1>s. /\ s \in JobState /\ Assigned(s) /\ JobInv(s, head, points)
        /\ TypeOK /\ head \in Rev /\ s.pc = "diff"
    BY DEF IndInv, TypeInv, TypeOK, GetChangedFilesSince
  <1>1. PICK m \in RenamePairings(s.from, head) :
          Becomes(j, [s EXCEPT !.pc = "toRevision", !.listed = head,
                               !.todo = Changes(s.from, head, m)])
    BY DEF GetChangedFilesSince
  <1> DEFINE todo == Changes(s.from, head, m)
  <1>2. t = [s EXCEPT !.pc = "toRevision", !.listed = head, !.todo = todo]
    BY <1>1, <1>s, JobBecomes
  <1> HIDE DEF todo
  <1>3. /\ t.pc = "toRevision" /\ t.listed = head /\ t.todo = todo
        /\ t.from = s.from /\ t.full = s.full /\ t.existing = s.existing
    BY <1>s, <1>2 DEF JobState
  <1>4. /\ ~s.full /\ Past(s.from, head) /\ AllStored(s.from, head, points)
        /\ LastVouched(s.existing, head, points)
    BY <1>s DEF Assigned, JobInv
  <1> HIDE DEF t
  <1>5. WorkDone(t, head, points) /\ TodoOfDiff(t)
    BY <1>s, <1>3, <1>4, DiffIsWorkDone DEF todo
  <1>6. JobInv(t, head, points)
    BY <1>3, <1>4, <1>5 DEF JobInv, Looping
  <1> QED
    BY <1>6 DEF t

LEMMA ToRevisionKeepsJob ==
  ASSUME IndInv, NEW j \in Job, GetCurrentRevision(j)
  PROVE  JobInv(job'[j], head, points)
  <1> DEFINE s == job[j]
             t == job'[j]
             pc == IF s.full THEN "checkpoint" ELSE "files"
  <1>s. /\ s \in JobState /\ JobInv(s, head, points)
        /\ TypeOK /\ head \in Rev /\ s.pc = "toRevision"
    BY DEF IndInv, TypeInv, TypeOK, GetCurrentRevision
  <1>1. t = [s EXCEPT !.to = head, !.pc = pc]
    BY <1>s, JobBecomes DEF GetCurrentRevision
  <1>2. /\ t.to = head /\ t.pc = pc /\ t.full = s.full /\ t.from = s.from
        /\ t.listed = s.listed /\ t.todo = s.todo /\ t.existing = s.existing
    BY <1>s, <1>1 DEF JobState
  <1> HIDE DEF t
  <1>v. LastVouched(t.existing, head, points)
    BY <1>s, <1>2 DEF JobInv
  <1>3. CASE s.full
    <2>1. JobInv(t, head, points)
      BY <1>2, <1>3, <1>v DEF JobInv, Looping
    <2> QED
      BY <2>1 DEF t
  <1>4. CASE ~s.full
    <2>1. /\ s.listed = head /\ WorkDone(s, head, points) /\ TodoOfDiff(s)
          /\ Past(s.from, head) /\ AllStored(s.from, head, points)
      BY <1>s, <1>4 DEF JobInv
    <2>2. \A p, k : Due(s, p, k) => Due(t, p, k)
      BY <1>s, <1>2 DEF Due
    <2>3. WorkDone(t, head, points)
      BY <1>2, <2>1, <2>2 DEF WorkDone
    <2>4. TodoOfDiff(t) /\ Past(t.listed, head)
      BY <1>s, <1>2, <2>1 DEF TodoOfDiff, Past
    <2>5. JobInv(t, head, points)
      BY <1>2, <1>4, <1>v, <2>1, <2>3, <2>4 DEF JobInv, Looping
    <2> QED
      BY <2>5 DEF t
  <1> QED
    BY <1>3, <1>4

LEMMA CheckpointKeepsJob ==
  ASSUME IndInv, NEW j \in Job, GetCheckpoint(j)
  PROVE  JobInv(job'[j], head, points)
  <1> DEFINE s == job[j]
             t == job'[j]
             cp == indexState.checkpoint
             resume == IF Resumes(j) THEN cp.file ELSE None
             processed == IF Resumes(j) THEN cp.processed ELSE 0
  <1>s. /\ s \in JobState /\ Assigned(s) /\ JobInv(s, head, points)
        /\ TypeOK /\ s.pc = "checkpoint"
        /\ CheckpointVouched(cp, head, points)
    BY DEF IndInv, TypeInv, TypeOK, GetCheckpoint
  <1> HIDE DEF processed
  <1>1. t = [s EXCEPT !.pc = "list", !.resume = resume, !.processed = processed]
    BY <1>s, JobBecomes DEF GetCheckpoint, processed
  <1>2. resume # None => /\ resume \in BlobsAt(s.to)
                         /\ StoredUpTo(s.to, resume, head, points)
    BY <1>s DEF CheckpointVouched, Resumes
  <1> HIDE DEF resume
  <1>3. /\ t.pc = "list" /\ t.resume = resume /\ t.to = s.to /\ t.full = s.full
        /\ t.existing = s.existing
    BY <1>s, <1>1 DEF JobState
  <1>4. s.to = head /\ s.full /\ LastVouched(s.existing, head, points)
    BY <1>s DEF JobInv, Assigned
  <1> HIDE DEF t
  <1>5. JobInv(t, head, points)
    BY <1>2, <1>3, <1>4 DEF JobInv, Looping
  <1> QED
    BY <1>5 DEF t

LEMMA ListKeepsJob ==
  ASSUME IndInv, NEW j \in Job, GetFilesAtHead(j)
  PROVE  JobInv(job'[j], head, points)
  <1> DEFINE s == job[j]
             t == job'[j]
             files == BlobsAt(head)
             due == FilesToProcess(s.resume, files)
             todo == {ChangedFile("Added", p, None) : p \in due}
             total == Cardinality(files)
             processed == Capped(s.processed + Cardinality(files \ due))
  <1>s. /\ s \in JobState /\ Assigned(s) /\ JobInv(s, head, points)
        /\ TypeOK /\ s.pc = "list" /\ head \in Rev
    BY DEF IndInv, TypeInv, TypeOK, GetFilesAtHead
  <1>1. Becomes(j, [s EXCEPT !.pc = "files", !.listed = head, !.todo = todo,
                             !.total = total, !.processed = processed])
    BY DEF GetFilesAtHead
  <1> HIDE DEF todo, total, processed
  <1>2. t = [s EXCEPT !.pc = "files", !.listed = head, !.todo = todo,
                      !.total = total, !.processed = processed]
    BY <1>1, <1>s, JobBecomes
  <1>3. /\ t.pc = "files" /\ t.listed = head /\ t.todo = todo
        /\ t.to = s.to /\ t.full = s.full /\ t.existing = s.existing
    BY <1>s, <1>2 DEF JobState
  <1>4. /\ s.full /\ s.to = head /\ s.resume \in Path \cup {None}
        /\ s.resume # None => s.resume \in files /\ StoredUpTo(head, s.resume, head, points)
        /\ LastVouched(s.existing, head, points)
    BY <1>s DEF Assigned, JobInv, JobState
  <1> HIDE DEF t
  <1>5. WorkDone(t, head, points) /\ TodoOfFull(t)
    BY <1>s, <1>3, <1>4, ListIsWorkDone DEF todo
  <1>6. Past(head, head)
    BY <1>s DEF Past
  <1>7. JobInv(t, head, points)
    BY <1>3, <1>4, <1>5, <1>6 DEF JobInv, Looping
  <1> QED
    BY <1>7 DEF t

\* Every step of a run keeps the run's invariant.
LEMMA JobStep ==
  ASSUME QuietLinearHistory, IndInv, NEW j \in Job, Step(j)
  PROVE  JobInv(job'[j], head, points')
  <1>1. /\ job[j] \in JobState /\ Assigned(job[j]) /\ JobInv(job[j], head, points)
        /\ TypeOK /\ TypeInv /\ head \in Rev
    BY DEF IndInv, TypeInv, TypeOK
  <1>2. /\ JobInv(job[j], head, points')
        /\ LastVouched(indexState.last, head, points')
    BY <1>1, StepKeeps, KeepsJob, KeepsLast DEF IndInv
  <1>3. Looping(job[j]) => InLoop(job[j], head, points')
    BY <1>1, <1>2 DEF InLoop
  <1>4. CASE /\ points' = points
             /\ \/ StartIncremental(j) \/ StartFull(j) \/ GetChangedFilesSince(j)
                \/ GetCurrentRevision(j) \/ GetCheckpoint(j) \/ GetFilesAtHead(j)
    BY <1>4, StartKeepsJob, DiffKeepsJob, ToRevisionKeepsJob, CheckpointKeepsJob,
       ListKeepsJob
  <1>5. CASE DeleteFile(j) \/ DeleteOldPath(j) \/ TakeFile(j)
    <2>1. Looping(job[j])
      BY <1>5 DEF DeleteFile, DeleteOldPath, TakeFile, IsNext, Looping
    <2> QED
      BY <1>1, <1>3, <1>5, <2>1, TakeKeepsJob
  <1>6. CASE ReadFile(j)
    <2>1. Looping(job[j])
      BY <1>6 DEF ReadFile, Looping
    <2> QED
      BY <1>1, <1>3, <1>6, <2>1, ReadKeepsJob
  <1>7. CASE UpsertChunk(j)
    <2>1. Looping(job[j])
      BY <1>7 DEF UpsertChunk, Looping
    <2> QED
      BY <1>1, <1>3, <1>7, <2>1, UpsertKeepsJob
  <1>8. CASE \/ ReadStateToSave(j) \/ SaveCheckpoint(j)
             \/ ReadStateToClear(j) \/ ClearCheckpoint(j)
    <2>1. Looping(job[j])
      BY <1>8 DEF ReadStateToSave, SaveCheckpoint, ReadStateToClear, ClearCheckpoint,
                  LoopDone, Looping
    <2> QED
      BY <1>1, <1>2, <1>3, <1>8, <2>1, SaveKeepsJob
  <1>9. CASE ReadFileThrows(j) \/ SetLastIndexedRevision(j)
    <2>1. job'[j] = Idle
      BY <1>1, <1>9, JobBecomes DEF ReadFileThrows, SetLastIndexedRevision
    <2> QED
      BY <2>1, IdleInv
  <1> QED
    BY <1>4, <1>5, <1>6, <1>7, <1>8, <1>9
    DEF Step, StartIncremental, StartFull, GetChangedFilesSince, GetCurrentRevision,
        GetCheckpoint, GetFilesAtHead

\* What a step writes to the state file, it vouches for rightly.
LEMMA StateStep ==
  ASSUME QuietLinearHistory, IndInv, NEW j \in Job, Step(j)
  PROVE  /\ LastVouched(indexState'.last, head, points')
         /\ CheckpointVouched(indexState'.checkpoint, head, points')
  <1>1. /\ job[j] \in JobState /\ Assigned(job[j]) /\ JobInv(job[j], head, points)
        /\ head \in Rev /\ indexState \in IndexState
        /\ LastVouched(indexState.last, head, points)
        /\ CheckpointVouched(indexState.checkpoint, head, points)
    BY DEF IndInv, TypeInv, TypeOK
  <1>2. /\ LastVouched(indexState.last, head, points')
        /\ CheckpointVouched(indexState.checkpoint, head, points')
    BY <1>1, StepKeeps, KeepsLast, KeepsCheckpoint
  <1>3. JobInv(job[j], head, points')
    BY <1>1, StepKeeps, KeepsJob
  <1>4. CASE SaveCheckpoint(j)
    <2> DEFINE cp == [revision |-> job[j].to, file |-> job[j].path,
                      total |-> job[j].total, processed |-> Capped(job[j].processed + 1)]
    <2>1. indexState' = [last |-> job[j].existing, checkpoint |-> cp] /\ job[j].pc = "saving"
      BY <1>4 DEF SaveCheckpoint
    <2>2. cp.revision = job[j].to /\ cp.file = job[j].path
      OBVIOUS
    <2> HIDE DEF cp
    <2>3. CheckpointVouched(cp, head, points')
      BY <1>1, <1>3, <2>1, <2>2, SavedIsStored DEF CheckpointVouched
    <2>4. indexState'.last = job[j].existing /\ indexState'.checkpoint = cp
      BY <2>1
    <2> QED
      BY <1>3, <2>3, <2>4 DEF JobInv
  <1>5. CASE ClearCheckpoint(j)
    <2>1. indexState'.last = job[j].existing /\ indexState'.checkpoint = None
      BY <1>5 DEF ClearCheckpoint
    <2> QED
      BY <1>3, <2>1 DEF CheckpointVouched, JobInv
  <1>6. CASE SetLastIndexedRevision(j)
    <2>1. indexState'.last = job[j].to /\ indexState'.checkpoint = None
      BY <1>6 DEF SetLastIndexedRevision
    <2>2. job[j].pc \in {"files", "commit"} /\ job[j].todo = {}
      BY <1>1, <1>6 DEF SetLastIndexedRevision, LoopDone, JobInv
    <2>3. Past(job[j].to, head) /\ AllStored(job[j].to, head, points')
      BY <1>3, <2>2, DoneIsStored
    <2> QED
      BY <2>1, <2>3 DEF CheckpointVouched, LastVouched
  <1> QED
    BY <1>2, <1>4, <1>5, <1>6, StepState

LEMMA IndInvStep ==
  ASSUME QuietLinearHistory, IndInv, NEW j \in Job, Step(j) PROVE IndInv'
  <1>1. TypeInv /\ TypeOK /\ head' = head /\ head \in Rev
    BY StepState DEF IndInv, TypeInv, TypeOK
  <1>2. TypeInv'
    BY <1>1, TypeStep
  <1>3. ASSUME NEW i \in Job PROVE JobInv(job'[i], head, points')
    <2>1. CASE i = j
      BY <2>1, JobStep
    <2>2. CASE i # j
      <3>1. job'[i] = job[i]
        BY <1>1, <2>2, NextJobState, BecomesType DEF WellFormedNext
      <3>2. job[i] \in JobState /\ Assigned(job[i]) /\ JobInv(job[i], head, points)
        BY DEF IndInv, TypeInv, TypeOK
      <3> QED
        BY <1>1, <3>1, <3>2, StepKeeps, KeepsJob
    <2> QED
      BY <2>1, <2>2
  <1> QED
    BY <1>1, <1>2, <1>3, StateStep DEF IndInv

LEMMA IndInvAbort ==
  ASSUME IndInv, NEW j \in Job, Abort(j) PROVE IndInv'
  <1>1. TypeInv /\ TypeOK /\ UNCHANGED <<head, indexState, points>>
    BY DEF IndInv, TypeInv, Abort
  <1>2. TypeInv'
    BY <1>1, TypeStep
  <1>3. ASSUME NEW i \in Job PROVE JobInv(job'[i], head, points)
    <2>1. job'[j] = Idle /\ (i # j => job'[i] = job[i])
      BY <1>1, IdleType, BecomesType DEF Abort
    <2> QED
      BY <2>1, IdleInv DEF IndInv
  <1> QED
    BY <1>1, <1>2, <1>3 DEF IndInv

LEMMA IndInvMove ==
  ASSUME QuietLinearHistory, IndInv, MoveHead PROVE IndInv'
  <1>1. /\ TypeInv /\ head \in Rev /\ head' \in Rev
        /\ UNCHANGED <<indexState, points, job>>
    BY DEF IndInv, TypeInv, TypeOK, MoveHead
  <1>2. TypeInv'
    BY <1>1, TypeNext DEF Next
  <1>3. Keeps(head, points, head', points) /\ \A j \in Job : ~BetweenReads(j)
    BY <1>1, MoveKeeps
  <1>4. ASSUME NEW i \in Job PROVE JobInv(job[i], head', points)
    <2>1. job[i] \in JobState /\ Assigned(job[i]) /\ JobInv(job[i], head, points)
      BY DEF IndInv, TypeInv, TypeOK
    <2> QED
      BY <1>1, <1>3, <2>1, KeepsJob DEF BetweenReads
  <1>5. /\ LastVouched(indexState.last, head', points)
        /\ CheckpointVouched(indexState.checkpoint, head', points)
    BY <1>1, <1>3, KeepsLast, KeepsCheckpoint DEF IndInv
  <1> QED
    BY <1>1, <1>2, <1>4, <1>5 DEF IndInv

LEMMA IndInvNext == QuietLinearHistory /\ IndInv /\ [Next]_vars => IndInv'
  <1> SUFFICES ASSUME QuietLinearHistory, IndInv, [Next]_vars PROVE IndInv'
    OBVIOUS
  <1>1. CASE UNCHANGED vars
    <2>1. TypeInv'
      BY TypeNext DEF IndInv
    <2> QED
      BY <1>1, <2>1 DEF vars, IndInv
  <1> QED
    BY <1>1, IndInvStep, IndInvAbort, IndInvMove DEF Next

LEMMA IndInvInit == Init => IndInv
  <1> SUFFICES ASSUME Init PROVE IndInv
    OBVIOUS
  <1>1. TypeInv
    BY InitType, IdleAssigned DEF Init, TypeInv
  <1>2. /\ indexState.last = None /\ indexState.checkpoint = None
        /\ \A j \in Job : job[j] = Idle
    BY DEF Init, Nothing
  <1> QED
    BY <1>1, <1>2, IdleInv DEF IndInv, LastVouched, CheckpointVouched

LEMMA IndInvInvariant == QuietLinearHistory => (Spec => []IndInv)
  <1> SUFFICES ASSUME QuietLinearHistory PROVE Spec => []IndInv
    OBVIOUS
  <1>1. IndInv /\ [Next]_vars => IndInv'
    BY IndInvNext
  <1> QED
    BY <1>1, IndInvInit, PTL DEF Spec

\* If HEAD follows a linear history in which deleted paths are not used again,
\* and does not move between the two reads a job makes of it, then every file
\* that the next incremental run would leave alone is searchable, at any time:
\* for any number of concurrent jobs and any aborts.
THEOREM IndexedAlwaysSearchable == QuietLinearHistory => (Spec => []IndexedIsSearchable)
  <1> SUFFICES ASSUME QuietLinearHistory PROVE Spec => []IndexedIsSearchable
    OBVIOUS
  <1>1. ASSUME IndInv PROVE IndexedIsSearchable
    <2> SUFFICES ASSUME indexState.last # None, NEW p \in UnchangedSince(indexState.last)
                 PROVE  Covered(p, head)
      BY DEF IndexedIsSearchable
    <2>1. AllStored(indexState.last, head, points)
      BY <1>1 DEF IndInv, LastVouched
    <2>2. p \in Remaining(indexState.last, head) /\ Tree[head][p] = Tree[indexState.last][p]
      BY DEF UnchangedSince, Remaining, FilesAt
    <2>3. CoveredIn(points, p, indexState.last)
      BY <2>1, <2>2 DEF AllStored
    <2> QED
      BY <2>2, <2>3 DEF Covered, Stored, CoveredIn, StoredIn
  <1>2. IndInv => IndexedIsSearchable
    BY <1>1
  <1> QED
    BY <1>2, IndInvInvariant, PTL

\* Under the same assumptions, the files that a resumed full re-index would skip
\* are in the store, whichever run saved the checkpoint.
THEOREM CheckpointAlwaysKnownGood ==
  QuietLinearHistory => (Spec => []CheckpointIsKnownGood)
  <1> SUFFICES ASSUME QuietLinearHistory PROVE Spec => []CheckpointIsKnownGood
    OBVIOUS
  <1>1. ASSUME IndInv PROVE CheckpointIsKnownGood
    <2> DEFINE cp == indexState.checkpoint
    <2> SUFFICES ASSUME cp # None, NEW p \in UnchangedSince(cp.revision), p <= cp.file
                 PROVE  Covered(p, head)
      BY DEF CheckpointIsKnownGood
    <2>1. StoredUpTo(cp.revision, cp.file, head, points)
      BY <1>1 DEF IndInv, CheckpointVouched
    <2> HIDE DEF cp
    <2>2. p \in Remaining(cp.revision, head) /\ Tree[head][p] = Tree[cp.revision][p]
      BY DEF UnchangedSince, Remaining, FilesAt
    <2>3. CoveredIn(points, p, cp.revision)
      BY <2>1, <2>2 DEF StoredUpTo
    <2> QED
      BY <2>2, <2>3 DEF Covered, Stored, CoveredIn, StoredIn
  <1>2. IndInv => CheckpointIsKnownGood
    BY <1>1
  <1> QED
    BY <1>2, IndInvInvariant, PTL

-----------------------------------------------------------------------------
(* A job on its own.                                                         *)
(*                                                                           *)
(* What a run has in store when it ends is a statement about the revision it *)
(* listed, wherever HEAD has gone since.  With no other job deleting, a run  *)
(* deletes only what that revision lacks, so the invariant of a run holds    *)
(* with the listed commit in the place of HEAD: for the run, HEAD might as   *)
(* well have stayed.                                                         *)

Alone == \A i, j \in Job : i = j

AloneInv ==
  \A j \in Job : Looping(job[j]) =>
    /\ JobInv(job[j], job[j].listed, points)
    /\ LastVouched(indexState.last, job[j].listed, points)

\* A run deletes only what the revision it listed lacks.
LEMMA ListedKeeps ==
  ASSUME TypeInv, NEW j \in Job, Looping(job[j]), Step(j),
         JobInv(job[j], job[j].listed, points)
  PROVE  Keeps(job[j].listed, points, job[j].listed, points')
  <1> DEFINE s == job[j]
             h == s.listed
  <1>1. /\ s \in JobState /\ Assigned(s) /\ JobInv(s, h, points)
        /\ h \in Rev /\ h <= h
        /\ IF s.full THEN TodoOfFull(s) ELSE TodoOfDiff(s)
    BY DEF TypeInv, TypeOK, JobInv, Past
  <1>2. ASSUME NEW d, d \notin FilesAt(h), points' = WithoutPath(d)
        PROVE  Keeps(h, points, h, points')
    <2>1. ASSUME NEW r \in Rev, NEW p \in Remaining(r, h), NEW k, StoredIn(points, p, r, k)
          PROVE  StoredIn(points', p, r, k)
      <3>1. p # d
        BY <1>2 DEF Remaining
      <3> QED
        BY <1>2, <2>1, <3>1 DEF StoredIn, WithoutPath
    <2> QED
      BY <1>1, <2>1 DEF Keeps, Remaining
  <1>3. CASE DeleteFile(j) \/ DeleteOldPath(j)
    <2>1. PICK c \in s.todo :
            \/ c.kind = "Deleted" /\ points' = WithoutPath(c.path)
            \/ c.kind = "Renamed" /\ points' = WithoutPath(c.oldPath)
      BY <1>3 DEF DeleteFile, DeleteOldPath
    <2>2. ~s.full
      BY <1>1, <2>1 DEF TodoOfFull
    <2>3. /\ c.kind = "Deleted" => c.path \in Gone(s.from, h)
          /\ c.kind = "Renamed" => c.oldPath \in Gone(s.from, h)
      BY <1>1, <2>2 DEF TodoOfDiff
    <2> QED
      BY <1>2, <2>1, <2>3 DEF Gone
  <1>4. CASE UpsertChunk(j)
    <2>1. PICK k \in s.left : points' = Upserted(PointOf(s, k)) /\ PointOf(s, k) \in Point
      BY <1>4, NewPoint
    <2> QED
      BY <1>1, <2>1, UpsertKeeps DEF Keeps, Remaining
  <1>5. CASE points' = points
    BY <1>1, <1>5 DEF Keeps, Remaining
  <1> QED
    BY <1>3, <1>4, <1>5
    DEF Step, StartIncremental, StartFull, GetChangedFilesSince, GetCurrentRevision,
        GetCheckpoint, GetFilesAtHead, TakeFile, ReadFile, ReadFileThrows,
        ReadStateToSave, SaveCheckpoint, ReadStateToClear, ClearCheckpoint,
        SetLastIndexedRevision

\* What a run goes by stays as it is in the loop.
SameRun(s, t) == t.full = s.full /\ t.from = s.from /\ t.to = s.to /\ t.listed = s.listed

LEMMA KeepsRun ==
  ASSUME TypeInv, NEW j \in Job, Looping(job[j]), Step(j), Looping(job'[j])
  PROVE  SameRun(job[j], job'[j])
  <1> DEFINE s == job[j]
             t == job'[j]
  <1>1. s \in JobState /\ TypeOK
    BY DEF TypeInv, TypeOK
  <1>2. CASE DeleteFile(j) \/ DeleteOldPath(j) \/ TakeFile(j)
    <2>1. PICK c : \/ Becomes(j, [s EXCEPT !.todo = @ \ {c}])
                   \/ Becomes(j, [s EXCEPT !.todo = @ \ {c}, !.path = c.path, !.pc = "process"])
      BY <1>2 DEF DeleteFile, DeleteOldPath, TakeFile
    <2>2. \/ t = [s EXCEPT !.todo = @ \ {c}]
          \/ t = [s EXCEPT !.todo = @ \ {c}, !.path = c.path, !.pc = "process"]
      BY <1>1, <2>1, JobBecomes
    <2> QED
      BY <1>1, <2>2 DEF JobState, SameRun
  <1>3. CASE ReadFile(j)
    <2> DEFINE chunks == Chunks[Tree[RevisionOf(s)][s.path]]
               pc == IF chunks = {} THEN AfterFile(j) ELSE "upsert"
    <2>1. Becomes(j, [s EXCEPT !.left = chunks, !.pc = pc])
      BY <1>3 DEF ReadFile
    <2> HIDE DEF chunks, pc
    <2>2. t = [s EXCEPT !.left = chunks, !.pc = pc]
      BY <1>1, <2>1, JobBecomes
    <2> QED
      BY <1>1, <2>2 DEF JobState, SameRun
  <1>4. CASE UpsertChunk(j)
    <2>1. PICK k : Becomes(j, [s EXCEPT !.left = @ \ {k},
                             !.pc = IF s.left = {k} THEN AfterFile(j) ELSE "upsert"])
      BY <1>4 DEF UpsertChunk
    <2> DEFINE pc == IF s.left = {k} THEN AfterFile(j) ELSE "upsert"
    <2>2. t = [s EXCEPT !.left = @ \ {k}, !.pc = pc]
      BY <1>1, <2>1, JobBecomes
    <2> HIDE DEF pc
    <2> QED
      BY <1>1, <2>2 DEF JobState, SameRun
  <1>5. CASE \/ ReadStateToSave(j) \/ SaveCheckpoint(j)
             \/ ReadStateToClear(j) \/ ClearCheckpoint(j)
    <2>1. PICK e, n, pc : Becomes(j, [s EXCEPT !.existing = e, !.pc = pc])
                          \/ Becomes(j, [s EXCEPT !.pc = pc])
                          \/ Becomes(j, [s EXCEPT !.processed = n, !.existing = e, !.pc = pc])
      BY <1>5 DEF ReadStateToSave, SaveCheckpoint, ReadStateToClear, ClearCheckpoint
    <2>2. t = [s EXCEPT !.existing = e, !.pc = pc]
          \/ t = [s EXCEPT !.pc = pc]
          \/ t = [s EXCEPT !.processed = n, !.existing = e, !.pc = pc]
      BY <1>1, <2>1, JobBecomes
    <2> QED
      BY <1>1, <2>2 DEF JobState, SameRun
  <1>6. CASE ReadFileThrows(j) \/ SetLastIndexedRevision(j)
    <2>1. t = Idle
      BY <1>1, <1>6, JobBecomes DEF ReadFileThrows, SetLastIndexedRevision
    <2> QED
      BY <2>1 DEF Idle, Looping
  <1>7. s.pc \notin {"idle", "diff", "toRevision", "checkpoint", "list"}
    BY DEF Looping
  <1> QED
    BY <1>2, <1>3, <1>4, <1>5, <1>6, <1>7
    DEF Step, StartIncremental, StartFull, GetChangedFilesSince, GetCurrentRevision,
        GetCheckpoint, GetFilesAtHead

\* In the loop a run's invariant is kept with the listed commit in HEAD's place.
LEMMA AloneLoop ==
  ASSUME TypeInv, AloneInv, NEW j \in Job, Looping(job[j]), Step(j), Looping(job'[j])
  PROVE  /\ JobInv(job'[j], job'[j].listed, points')
         /\ LastVouched(indexState'.last, job'[j].listed, points')
  <1> DEFINE s == job[j]
             h == s.listed
  <1>1. /\ s \in JobState /\ Assigned(s) /\ TypeOK /\ h \in Rev
        /\ JobInv(s, h, points) /\ LastVouched(indexState.last, h, points)
    BY DEF TypeInv, TypeOK, AloneInv, JobInv, Past
  <1>2. Keeps(h, points, h, points') /\ job'[j].listed = h
    BY <1>1, ListedKeeps, KeepsRun DEF SameRun
  <1>3. JobInv(s, h, points') /\ LastVouched(indexState.last, h, points')
    BY <1>1, <1>2, KeepsJob, KeepsLast
  <1>4. InLoop(s, h, points')
    BY <1>1, <1>3 DEF InLoop
  <1>5. JobInv(job'[j], h, points')
    <2>1. CASE DeleteFile(j) \/ DeleteOldPath(j) \/ TakeFile(j)
      BY <1>1, <1>4, <2>1, TakeKeepsJob
    <2>2. CASE ReadFile(j)
      BY <1>1, <1>4, <2>2, ReadKeepsJob
    <2>3. CASE UpsertChunk(j)
      BY <1>1, <1>4, <2>3, UpsertKeepsJob
    <2>4. CASE \/ ReadStateToSave(j) \/ SaveCheckpoint(j)
               \/ ReadStateToClear(j) \/ ClearCheckpoint(j)
      BY <1>1, <1>3, <1>4, <2>4, SaveKeepsJob
    <2>5. CASE ReadFileThrows(j) \/ SetLastIndexedRevision(j)
      <3>1. job'[j] = Idle
        BY <1>1, <2>5, JobBecomes DEF ReadFileThrows, SetLastIndexedRevision
      <3> QED
        BY <3>1 DEF Idle, Looping
    <2>6. s.pc \notin {"idle", "diff", "toRevision", "checkpoint", "list"}
      BY DEF Looping
    <2> QED
      BY <2>1, <2>2, <2>3, <2>4, <2>5, <2>6
      DEF Step, StartIncremental, StartFull, GetChangedFilesSince, GetCurrentRevision,
          GetCheckpoint, GetFilesAtHead
  <1>6. LastVouched(indexState'.last, h, points')
    <2>1. CASE SaveCheckpoint(j) \/ ClearCheckpoint(j)
      <3>1. indexState'.last = s.existing
        BY <2>1 DEF SaveCheckpoint, ClearCheckpoint
      <3> QED
        BY <1>3, <3>1 DEF JobInv
    <2>2. CASE SetLastIndexedRevision(j)
      <3>1. job'[j] = Idle
        BY <1>1, <2>2, JobBecomes DEF SetLastIndexedRevision
      <3> QED
        BY <3>1 DEF Idle, Looping
    <2>3. CASE indexState' = indexState
      BY <1>3, <2>3
    <2> QED
      BY <2>1, <2>2, <2>3, StepState
  <1> QED
    BY <1>2, <1>5, <1>6

\* A run enters the loop at the commit it has listed.
LEMMA AloneEnter ==
  ASSUME QuietLinearHistory, IndInv, NEW j \in Job, ~Looping(job[j]), Step(j), Looping(job'[j])
  PROVE  job'[j].listed = head
  <1> DEFINE s == job[j]
             t == job'[j]
  <1>1. s \in JobState /\ TypeOK /\ TypeInv /\ JobInv(s, head, points)
    BY DEF IndInv, TypeInv, TypeOK
  <1>2. CASE GetCurrentRevision(j)
    <2> DEFINE pc == IF s.full THEN "checkpoint" ELSE "files"
    <2>1. t = [s EXCEPT !.to = head, !.pc = pc]
      BY <1>1, <1>2, JobBecomes DEF GetCurrentRevision
    <2>2. t.pc = pc /\ t.listed = s.listed
      BY <1>1, <2>1 DEF JobState
    <2> QED
      BY <1>1, <1>2, <2>2 DEF GetCurrentRevision, JobInv, Looping
  <1>3. CASE GetFilesAtHead(j)
    <2>1. PICK todo, total, processed :
            Becomes(j, [s EXCEPT !.pc = "files", !.listed = head, !.todo = todo,
                                 !.total = total, !.processed = processed])
      BY <1>3 DEF GetFilesAtHead
    <2>2. t = [s EXCEPT !.pc = "files", !.listed = head, !.todo = todo,
                        !.total = total, !.processed = processed]
      BY <1>1, <2>1, JobBecomes
    <2> QED
      BY <1>1, <2>2 DEF JobState
  <1>4. CASE StartIncremental(j) \/ StartFull(j)
    <2>1. \/ t = [Idle EXCEPT !.pc = "diff", !.from = indexState.last]
          \/ t = [Idle EXCEPT !.pc = "toRevision", !.full = TRUE]
      BY <1>1, <1>4, JobBecomes DEF StartIncremental, StartFull
    <2>2. t.pc \in {"diff", "toRevision"}
      BY <2>1 DEF Idle
    <2> QED
      BY <2>2 DEF Looping
  <1>5. CASE GetChangedFilesSince(j)
    <2>1. PICK todo : Becomes(j, [s EXCEPT !.pc = "toRevision", !.listed = head, !.todo = todo])
      BY <1>5 DEF GetChangedFilesSince
    <2>2. t = [s EXCEPT !.pc = "toRevision", !.listed = head, !.todo = todo]
      BY <1>1, <2>1, JobBecomes
    <2> QED
      BY <1>1, <2>2 DEF JobState
  <1>6. CASE GetCheckpoint(j)
    <2>1. PICK resume, processed :
            Becomes(j, [s EXCEPT !.pc = "list", !.resume = resume, !.processed = processed])
      BY <1>6 DEF GetCheckpoint
    <2>2. t = [s EXCEPT !.pc = "list", !.resume = resume, !.processed = processed]
      BY <1>1, <2>1, JobBecomes
    <2>3. t.pc = "list"
      BY <1>1, <2>2 DEF JobState
    <2> QED
      BY <2>3 DEF Looping
  <1>7. s.pc \notin {"files", "process", "upsert", "save", "saving", "clearing", "commit"}
    BY DEF Looping
  <1> QED
    BY <1>2, <1>3, <1>4, <1>5, <1>6, <1>7
    DEF Step, DeleteFile, DeleteOldPath, TakeFile, IsNext, ReadFile, ReadFileThrows,
        UpsertChunk, ReadStateToSave, SaveCheckpoint, ReadStateToClear, ClearCheckpoint,
        SetLastIndexedRevision, LoopDone

LEMMA AloneInvNext ==
  QuietLinearHistory /\ Alone /\ IndInv /\ AloneInv /\ [Next]_vars => AloneInv'
  <1> SUFFICES ASSUME QuietLinearHistory, Alone, IndInv, AloneInv, [Next]_vars PROVE AloneInv'
    OBVIOUS
  <1>1. TypeInv /\ TypeOK
    BY DEF IndInv, TypeInv
  <1>2. CASE UNCHANGED <<indexState, points, job>>
    BY <1>2 DEF AloneInv
  <1>3. ASSUME NEW j \in Job, Step(j) PROVE AloneInv'
    <2> SUFFICES ASSUME NEW i \in Job, Looping(job'[i])
                 PROVE  /\ JobInv(job'[i], job'[i].listed, points')
                        /\ LastVouched(indexState'.last, job'[i].listed, points')
      BY DEF AloneInv
    <2>1. i = j
      BY DEF Alone
    <2>2. CASE Looping(job[j])
      BY <1>1, <1>3, <2>1, <2>2, AloneLoop
    <2>3. CASE ~Looping(job[j])
      <3>1. job'[j].listed = head /\ JobInv(job'[j], head, points')
            /\ LastVouched(indexState'.last, head, points')
        BY <1>3, <2>1, <2>3, AloneEnter, JobStep, StateStep
      <3> QED
        BY <2>1, <3>1
    <2> QED
      BY <2>2, <2>3
  <1>4. ASSUME NEW j \in Job, Abort(j) PROVE AloneInv'
    <2>1. job'[j] = Idle
      BY <1>1, <1>4, JobBecomes DEF Abort
    <2>2. ~Looping(job'[j])
      BY <2>1 DEF Idle, Looping
    <2> QED
      BY <2>2 DEF AloneInv, Alone
  <1> QED
    BY <1>2, <1>3, <1>4 DEF Next, MoveHead, vars

\* A job on its own that ends well leaves every file of the revision it records in
\* the store, with the content the file has there, wherever HEAD has gone meanwhile.
THEOREM CommitAlwaysComplete == QuietLinearHistory /\ Alone => (Spec => CommitIsComplete)
  <1> SUFFICES ASSUME QuietLinearHistory, Alone PROVE Spec => CommitIsComplete
    OBVIOUS
  <1>1. Init => AloneInv
    <2> SUFFICES ASSUME Init, NEW j \in Job PROVE ~Looping(job[j])
      BY DEF AloneInv
    <2> QED
      BY DEF Init, Idle, Looping
  <1>2. IndInv /\ AloneInv /\ [Next]_vars => AloneInv'
    BY AloneInvNext
  <1>3. ASSUME IndInv, AloneInv, NEW j \in Job, SetLastIndexedRevision(j),
               NEW p \in FilesAt(job[j].to)
        PROVE  Covered(p, job[j].to)
    <2> DEFINE s == job[j]
    <2>1. s \in JobState /\ Assigned(s) /\ Looping(s) /\ s.pc \in {"files", "commit"}
      BY <1>3 DEF IndInv, TypeInv, TypeOK, SetLastIndexedRevision, LoopDone, Looping
    <2>2. JobInv(s, s.listed, points)
      BY <1>3, <2>1 DEF AloneInv
    <2>3. s.to = s.listed /\ s.todo = {}
      BY <1>3, <2>1, <2>2 DEF JobInv, SetLastIndexedRevision, LoopDone
    <2>4. AllStored(s.to, s.to, points)
      BY <2>1, <2>2, <2>3, DoneIsStored
    <2> QED
      BY <2>4 DEF AllStored, Remaining, CoveredIn, StoredIn, Covered, Stored
  <1>4. IndInv /\ AloneInv =>
          [\A j \in Job : SetLastIndexedRevision(j) =>
             \A p \in FilesAt(job[j].to) : Covered(p, job[j].to)]_vars
    BY <1>3
  <1>5. Spec => []IndInv
    BY IndInvInvariant
  <1> QED
    BY <1>1, <1>2, <1>4, <1>5, PTL DEF Spec, CommitIsComplete

-----------------------------------------------------------------------------
(* A run that ends well has deleted what its target revision lacks.  This takes *)
(* no assumption about the history: only that no other job writes points, and   *)
(* that the two reads of HEAD agree.                                            *)

\* A path the run is still going to delete.
Doomed(s, p) == \E c \in s.todo : \/ c.kind = "Deleted" /\ c.path = p
                                  \/ c.kind = "Renamed" /\ c.oldPath = p

Purged(s, P) ==
  \A p \in Gone(s.from, s.listed) : Doomed(s, p) \/ \A x \in P : x.path # p

PurgeJob(s, h, P) ==
  ~s.full => /\ s.pc = "toRevision" => s.listed = h /\ Purged(s, P)
             /\ Looping(s) => s.to = s.listed /\ Purged(s, P)

PurgeInv == \A j \in Job : PurgeJob(job[j], head, points)

\* A diff names every path that is gone, as a deletion or as the old path of a rename.
LEMMA DiffPurges ==
  ASSUME NEW h, NEW P, NEW s, NEW m \in RenamePairings(s.from, h),
         s.todo = Changes(s.from, h, m), s.listed = h
  PROVE  Purged(s, P)
  <1> SUFFICES ASSUME NEW p \in Gone(s.from, h) PROVE Doomed(s, p)
    BY DEF Purged
  <1>1. CASE \E x \in m : x[1] = p
    <2>1. PICK x \in m : x[1] = p
      BY <1>1
    <2>2. ChangedFile("Renamed", x[2], p) \in s.todo
      BY <2>1 DEF Changes
    <2> QED
      BY <2>2 DEF Doomed, ChangedFile
  <1>2. CASE ~\E x \in m : x[1] = p
    <2>1. ChangedFile("Deleted", p, None) \in s.todo
      BY <1>2 DEF Changes
    <2> QED
      BY <2>1 DEF Doomed, ChangedFile
  <1> QED
    BY <1>1, <1>2

\* A step before the loop.
LEMMA PurgeStart ==
  ASSUME TypeInv, ~RacingReads, PurgeInv, NEW j \in Job,
         \/ StartIncremental(j) \/ StartFull(j) \/ GetChangedFilesSince(j)
         \/ GetCurrentRevision(j) \/ GetCheckpoint(j) \/ GetFilesAtHead(j)
  PROVE  PurgeJob(job'[j], head, points)
  <1> DEFINE s == job[j]
             t == job'[j]
  <1>1. s \in JobState /\ Assigned(s) /\ TypeOK /\ PurgeJob(s, head, points)
    BY DEF TypeInv, TypeOK, PurgeInv
  <1>2. CASE StartIncremental(j) \/ StartFull(j)
    <2>1. \/ t = [Idle EXCEPT !.pc = "diff", !.from = indexState.last]
          \/ t = [Idle EXCEPT !.pc = "toRevision", !.full = TRUE]
      BY <1>1, <1>2, JobBecomes DEF StartIncremental, StartFull
    <2>2. t.pc = "diff" \/ t.full
      BY <2>1 DEF Idle
    <2> QED
      BY <2>2 DEF PurgeJob, Looping
  <1>3. CASE GetChangedFilesSince(j)
    <2>1. PICK m \in RenamePairings(s.from, head) :
            Becomes(j, [s EXCEPT !.pc = "toRevision", !.listed = head,
                                 !.todo = Changes(s.from, head, m)])
      BY <1>3 DEF GetChangedFilesSince
    <2> DEFINE todo == Changes(s.from, head, m)
    <2>2. t = [s EXCEPT !.pc = "toRevision", !.listed = head, !.todo = todo]
      BY <1>1, <2>1, JobBecomes
    <2> HIDE DEF todo
    <2>3. t.pc = "toRevision" /\ t.listed = head /\ t.todo = todo /\ t.from = s.from
      BY <1>1, <2>2 DEF JobState
    <2> HIDE DEF t
    <2>4. Purged(t, points)
      BY <2>3, DiffPurges DEF todo
    <2>5. PurgeJob(t, head, points)
      BY <2>3, <2>4 DEF PurgeJob, Looping
    <2> QED
      BY <2>5 DEF t
  <1>4. CASE GetCurrentRevision(j)
    <2> DEFINE pc == IF s.full THEN "checkpoint" ELSE "files"
    <2>1. t = [s EXCEPT !.to = head, !.pc = pc]
      BY <1>1, <1>4, JobBecomes DEF GetCurrentRevision
    <2>2. /\ t.to = head /\ t.pc = pc /\ t.full = s.full /\ t.from = s.from
          /\ t.listed = s.listed /\ t.todo = s.todo
      BY <1>1, <2>1 DEF JobState
    <2>3. s.pc = "toRevision"
      BY <1>4 DEF GetCurrentRevision
    <2> HIDE DEF t
    <2>4. Purged(s, points) => Purged(t, points)
      BY <2>2 DEF Purged, Doomed
    <2>5. PurgeJob(t, head, points)
      BY <1>1, <2>2, <2>3, <2>4 DEF PurgeJob, Looping
    <2> QED
      BY <2>5 DEF t
  <1>5. CASE GetCheckpoint(j) \/ GetFilesAtHead(j)
    <2>1. s.full
      BY <1>1, <1>5 DEF GetCheckpoint, GetFilesAtHead, Assigned
    <2>2. PICK pc, resume, processed, listed, todo, total :
            \/ Becomes(j, [s EXCEPT !.pc = pc, !.resume = resume, !.processed = processed])
            \/ Becomes(j, [s EXCEPT !.pc = pc, !.listed = listed, !.todo = todo,
                                    !.total = total, !.processed = processed])
      BY <1>5 DEF GetCheckpoint, GetFilesAtHead
    <2>3. \/ t = [s EXCEPT !.pc = pc, !.resume = resume, !.processed = processed]
          \/ t = [s EXCEPT !.pc = pc, !.listed = listed, !.todo = todo,
                           !.total = total, !.processed = processed]
      BY <1>1, <2>2, JobBecomes
    <2>4. t.full = s.full
      BY <1>1, <2>3 DEF JobState
    <2> QED
      BY <2>1, <2>4 DEF PurgeJob
  <1> QED
    BY <1>2, <1>3, <1>4, <1>5

\* A step of the loop that takes c off the list, if anything, and keeps what it deletes.
LEMMA PurgeLoop ==
  ASSUME NEW h, NEW P, NEW Q, NEW s, NEW t, PurgeJob(s, h, P), Looping(s),
         t.full = s.full, t.from = s.from, t.to = s.to, t.listed = s.listed,
         t.pc # "toRevision",
         \A p \in Gone(s.from, s.listed) : Doomed(s, p) => Doomed(t, p) \/ \A x \in Q : x.path # p,
         ~s.full => \A x \in Q : x \in P \/ x.path \notin Gone(s.from, s.listed)
  PROVE  PurgeJob(t, h, Q)
  BY DEF PurgeJob, Purged

\* What is left to do shrinks by what the loop takes up.
LEMMA TakesFromList ==
  ASSUME TypeInv, NEW j \in Job, Looping(job[j]), Step(j), Looping(job'[j])
  PROVE  \/ DeleteFile(j) \/ DeleteOldPath(j) \/ TakeFile(j)
         \/ job'[j].todo = job[j].todo
  <1> DEFINE s == job[j]
             t == job'[j]
  <1>1. s \in JobState /\ TypeOK
    BY DEF TypeInv, TypeOK
  <1>2. CASE ReadFile(j) \/ UpsertChunk(j)
    <2>1. PICK left, pc : Becomes(j, [s EXCEPT !.left = left, !.pc = pc])
      BY <1>2 DEF ReadFile, UpsertChunk
    <2>2. t = [s EXCEPT !.left = left, !.pc = pc]
      BY <1>1, <2>1, JobBecomes
    <2> QED
      BY <1>1, <2>2 DEF JobState
  <1>3. CASE \/ ReadStateToSave(j) \/ SaveCheckpoint(j)
             \/ ReadStateToClear(j) \/ ClearCheckpoint(j)
    <2>1. PICK e, n, pc : Becomes(j, [s EXCEPT !.existing = e, !.pc = pc])
                          \/ Becomes(j, [s EXCEPT !.pc = pc])
                          \/ Becomes(j, [s EXCEPT !.processed = n, !.existing = e, !.pc = pc])
      BY <1>3 DEF ReadStateToSave, SaveCheckpoint, ReadStateToClear, ClearCheckpoint
    <2>2. t = [s EXCEPT !.existing = e, !.pc = pc]
          \/ t = [s EXCEPT !.pc = pc]
          \/ t = [s EXCEPT !.processed = n, !.existing = e, !.pc = pc]
      BY <1>1, <2>1, JobBecomes
    <2> QED
      BY <1>1, <2>2 DEF JobState
  <1>4. CASE ReadFileThrows(j) \/ SetLastIndexedRevision(j)
    <2>1. t = Idle
      BY <1>1, <1>4, JobBecomes DEF ReadFileThrows, SetLastIndexedRevision
    <2> QED
      BY <2>1 DEF Idle, Looping
  <1>5. s.pc \notin {"idle", "diff", "toRevision", "checkpoint", "list"}
    BY DEF Looping
  <1> QED
    BY <1>2, <1>3, <1>4, <1>5
    DEF Step, StartIncremental, StartFull, GetChangedFilesSince, GetCurrentRevision,
        GetCheckpoint, GetFilesAtHead

\* A step of the loop that does not end the run stays in the loop.
LEMMA StaysInLoop ==
  ASSUME TypeInv, NEW j \in Job,
         \/ DeleteFile(j) \/ DeleteOldPath(j) \/ TakeFile(j) \/ ReadFile(j) \/ UpsertChunk(j)
         \/ ReadStateToSave(j) \/ SaveCheckpoint(j)
         \/ ReadStateToClear(j) \/ ClearCheckpoint(j)
  PROVE  Looping(job[j]) /\ Looping(job'[j])
  <1> DEFINE s == job[j]
             t == job'[j]
  <1>1. s \in JobState /\ TypeOK
    BY DEF TypeInv, TypeOK
  <1>2. Looping(s)
    BY DEF Looping, DeleteFile, DeleteOldPath, TakeFile, IsNext, ReadFile, UpsertChunk,
           ReadStateToSave, SaveCheckpoint, ReadStateToClear, LoopDone, ClearCheckpoint
  <1>3. AfterFile(j) \in {"save", "files"}
    BY DEF AfterFile
  <1>4. CASE DeleteFile(j)
    <2>1. PICK c : s.pc = "files" /\ Becomes(j, [s EXCEPT !.todo = @ \ {c}])
      BY <1>4 DEF DeleteFile, IsNext
    <2>2. t = [s EXCEPT !.todo = @ \ {c}]
      BY <1>1, <2>1, JobBecomes
    <2>3. t.pc = "files"
      BY <1>1, <2>1, <2>2 DEF JobState
    <2> QED
      BY <1>2, <2>3 DEF Looping
  <1>5. CASE DeleteOldPath(j) \/ TakeFile(j)
    <2>1. PICK c : Becomes(j, [s EXCEPT !.todo = @ \ {c}, !.path = c.path, !.pc = "process"])
      BY <1>5 DEF DeleteOldPath, TakeFile
    <2>2. t = [s EXCEPT !.todo = @ \ {c}, !.path = c.path, !.pc = "process"]
      BY <1>1, <2>1, JobBecomes
    <2>3. t.pc = "process"
      BY <1>1, <2>2 DEF JobState
    <2> QED
      BY <1>2, <2>3 DEF Looping
  <1>6. CASE ReadFile(j) \/ UpsertChunk(j)
    <2>1. PICK pc \in {"upsert", "save", "files"} :
            \E left : Becomes(j, [s EXCEPT !.left = left, !.pc = pc])
      BY <1>3, <1>6 DEF ReadFile, UpsertChunk
    <2>2. \E left : t = [s EXCEPT !.left = left, !.pc = pc]
      BY <1>1, <2>1, JobBecomes
    <2>3. t.pc = pc
      BY <1>1, <2>2 DEF JobState
    <2> QED
      BY <1>2, <2>3 DEF Looping
  <1>7. CASE \/ ReadStateToSave(j) \/ SaveCheckpoint(j)
             \/ ReadStateToClear(j) \/ ClearCheckpoint(j)
    <2>1. PICK pc \in {"saving", "files", "clearing", "commit"} : \E e, n :
            \/ Becomes(j, [s EXCEPT !.existing = e, !.pc = pc])
            \/ Becomes(j, [s EXCEPT !.pc = pc])
            \/ Becomes(j, [s EXCEPT !.processed = n, !.existing = e, !.pc = pc])
      BY <1>7 DEF ReadStateToSave, SaveCheckpoint, ReadStateToClear, ClearCheckpoint
    <2>2. \E e, n : \/ t = [s EXCEPT !.existing = e, !.pc = pc]
                   \/ t = [s EXCEPT !.pc = pc]
                   \/ t = [s EXCEPT !.processed = n, !.existing = e, !.pc = pc]
      BY <1>1, <2>1, JobBecomes
    <2>3. t.pc = pc
      BY <1>1, <2>2 DEF JobState
    <2> QED
      BY <1>2, <2>3 DEF Looping
  <1> QED
    BY <1>4, <1>5, <1>6, <1>7

LEMMA PurgeLoopStep ==
  ASSUME TypeInv, PurgeInv, NEW j \in Job, Looping(job[j]), Step(j), Looping(job'[j])
  PROVE  PurgeJob(job'[j], head, points')
  <1> DEFINE s == job[j]
             t == job'[j]
             Clean(p) == \A x \in points' : x.path # p
  <1>1. /\ s \in JobState /\ Assigned(s) /\ TypeOK /\ PurgeJob(s, head, points)
        /\ SameRun(s, t) /\ t.pc # "toRevision"
    BY KeepsRun DEF TypeInv, TypeOK, PurgeInv, Looping
  <1>2. ASSUME NEW p, Doomed(s, p) PROVE Doomed(t, p) \/ Clean(p)
    <2>1. CASE DeleteFile(j)
      <3>1. PICK c \in s.todo : /\ c.kind = "Deleted" /\ points' = WithoutPath(c.path)
                                /\ Becomes(j, [s EXCEPT !.todo = @ \ {c}])
        BY <2>1 DEF DeleteFile
      <3>2. t.todo = s.todo \ {c}
        <4>1. t = [s EXCEPT !.todo = @ \ {c}]
          BY <1>1, <3>1, JobBecomes
        <4> QED
          BY <1>1, <4>1 DEF JobState
      <3> HIDE DEF s, t
      <3> QED
        BY <1>2, <3>1, <3>2 DEF Doomed, WithoutPath
    <2>2. CASE DeleteOldPath(j)
      <3>1. PICK c \in s.todo :
              /\ c.kind = "Renamed" /\ points' = WithoutPath(c.oldPath)
              /\ Becomes(j, [s EXCEPT !.todo = @ \ {c}, !.path = c.path, !.pc = "process"])
        BY <2>2 DEF DeleteOldPath
      <3>2. t.todo = s.todo \ {c}
        <4>1. t = [s EXCEPT !.todo = @ \ {c}, !.path = c.path, !.pc = "process"]
          BY <1>1, <3>1, JobBecomes
        <4> QED
          BY <1>1, <4>1 DEF JobState
      <3> HIDE DEF s, t
      <3> QED
        BY <1>2, <3>1, <3>2 DEF Doomed, WithoutPath
    <2>3. CASE TakeFile(j)
      <3>1. PICK c \in s.todo :
              /\ c.kind \in {"Added", "Modified"}
              /\ Becomes(j, [s EXCEPT !.todo = @ \ {c}, !.path = c.path, !.pc = "process"])
        BY <2>3 DEF TakeFile
      <3>2. t.todo = s.todo \ {c}
        <4>1. t = [s EXCEPT !.todo = @ \ {c}, !.path = c.path, !.pc = "process"]
          BY <1>1, <3>1, JobBecomes
        <4> QED
          BY <1>1, <4>1 DEF JobState
      <3> HIDE DEF s, t
      <3> QED
        BY <1>2, <3>1, <3>2 DEF Doomed
    <2>4. CASE t.todo = s.todo
      BY <1>2, <2>4 DEF Doomed
    <2> QED
      BY <2>1, <2>2, <2>3, <2>4, TakesFromList
  <1>3. ASSUME ~s.full, NEW x \in points' PROVE x \in points \/ x.path \notin Gone(s.from, s.listed)
    <2>1. CASE points' \subseteq points
      BY <2>1
    <2>2. CASE UpsertChunk(j)
      <3>1. PICK k \in s.left : /\ points' = Upserted(PointOf(s, k))
                                /\ Tree[RevisionOf(s)][s.path] \in Content
        BY <2>2, NewPoint
      <3>2. RevisionOf(s) = s.listed
        BY <1>1, <1>3 DEF RevisionOf, PurgeJob
      <3>3. x \in points \/ x.path = s.path
        BY <3>1 DEF Upserted, PointOf
      <3> QED
        BY <3>1, <3>2, <3>3 DEF Gone, FilesAt
    <2> QED
      BY <2>1, <2>2, StepPoints
  <1> HIDE DEF s, t
  <1>4. PurgeJob(t, head, points')
    <2>1. \A p \in Gone(s.from, s.listed) : Doomed(s, p) => Doomed(t, p) \/ Clean(p)
      BY <1>2
    <2> QED
      BY <1>1, <1>3, <2>1, PurgeLoop DEF SameRun, s
  <1> QED
    BY <1>4 DEF t

LEMMA PurgeInvNext == Alone /\ ~RacingReads /\ TypeInv /\ PurgeInv /\ [Next]_vars => PurgeInv'
  <1> SUFFICES ASSUME Alone, ~RacingReads, TypeInv, PurgeInv, [Next]_vars PROVE PurgeInv'
    OBVIOUS
  <1>1. TypeOK
    BY DEF TypeInv
  <1>2. ASSUME NEW h, NEW P PROVE PurgeJob(Idle, h, P)
    BY DEF PurgeJob, Idle, Looping
  <1>3. CASE UNCHANGED vars
    BY <1>3 DEF vars, PurgeInv
  <1>4. CASE MoveHead
    <2>1. ASSUME NEW j \in Job PROVE PurgeJob(job[j], head', points)
      BY <1>4 DEF MoveHead, BetweenReads, PurgeInv, PurgeJob
    <2> QED
      BY <1>4, <2>1 DEF PurgeInv, MoveHead
  <1>5. ASSUME NEW j \in Job, Step(j) PROVE PurgeInv'
    <2>1. \A i \in Job : i = j
      BY DEF Alone
    <2>2. head' = head
      BY <1>5, StepState
    <2>3. PurgeJob(job'[j], head, points')
      <3>1. CASE \/ StartIncremental(j) \/ StartFull(j) \/ GetChangedFilesSince(j)
                 \/ GetCurrentRevision(j) \/ GetCheckpoint(j) \/ GetFilesAtHead(j)
        <4>1. points' = points
          BY <3>1 DEF StartIncremental, StartFull, GetChangedFilesSince, GetCurrentRevision,
                      GetCheckpoint, GetFilesAtHead
        <4> QED
          BY <3>1, <4>1, PurgeStart
      <3>2. CASE ReadFileThrows(j) \/ SetLastIndexedRevision(j)
        <4>1. job'[j] = Idle
          BY <1>1, <3>2, JobBecomes DEF ReadFileThrows, SetLastIndexedRevision
        <4> QED
          BY <1>2, <4>1
      <3>3. CASE Looping(job[j]) /\ Looping(job'[j])
        BY <1>5, <3>3, PurgeLoopStep
      <3> QED
        BY <1>5, <3>1, <3>2, <3>3, StaysInLoop DEF Step
    <2> QED
      BY <2>1, <2>2, <2>3 DEF PurgeInv
  <1>6. ASSUME NEW j \in Job, Abort(j) PROVE PurgeInv'
    <2>1. job'[j] = Idle /\ \A i \in Job : i = j
      BY <1>1, <1>6, JobBecomes DEF Abort, Alone
    <2> QED
      BY <1>2, <2>1 DEF PurgeInv
  <1> QED
    BY <1>3, <1>4, <1>5, <1>6 DEF Next

\* When an incremental run on its own ends well, no point is left of a file that its
\* starting revision had and its target revision lacks, deleted or renamed away: for
\* every history, also one in which HEAD goes back or paths are used again.
THEOREM DeletedFilesAlwaysPurged == Alone /\ ~RacingReads => (Spec => DeletedFilesPurged)
  <1> SUFFICES ASSUME Alone, ~RacingReads PROVE Spec => DeletedFilesPurged
    OBVIOUS
  <1>1. Init => PurgeInv
    <2> SUFFICES ASSUME Init, NEW j \in Job PROVE PurgeJob(job[j], head, points)
      BY DEF PurgeInv
    <2> QED
      BY DEF Init, Idle, PurgeJob, Looping
  <1>2. TypeInv /\ PurgeInv /\ [Next]_vars => PurgeInv'
    BY PurgeInvNext
  <1>3. ASSUME TypeInv, PurgeInv, NEW j \in Job, SetLastIndexedRevision(j), ~job[j].full,
               NEW x \in points'
        PROVE  x.path \notin Gone(job[j].from, job[j].to)
    <2> DEFINE s == job[j]
    <2>1. s.pc = "files" /\ s.todo = {} /\ x \in points
      BY <1>3 DEF TypeInv, Assigned, SetLastIndexedRevision, LoopDone
    <2>2. s.to = s.listed /\ Purged(s, points)
      BY <1>3, <2>1 DEF PurgeInv, PurgeJob, Looping
    <2>3. \A p : ~Doomed(s, p)
      BY <2>1 DEF Doomed
    <2> QED
      BY <2>1, <2>2, <2>3 DEF Purged
  <1>4. TypeInv /\ PurgeInv =>
          [\A j \in Job : SetLastIndexedRevision(j) /\ ~job[j].full =>
             \A x \in points' : x.path \notin Gone(job[j].from, job[j].to)]_vars
    BY <1>3
  <1> QED
    BY <1>1, <1>2, <1>4, TypeInvariant, PTL DEF Spec, DeletedFilesPurged
=============================================================================
