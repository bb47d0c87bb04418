------------------------------ MODULE SvnIndex ------------------------------
(* Index runs over an SVN repository: SvnVcsProvider and SvnReindexStrategy with *)
(* the handler that uses what they return.  Unlike Git's, their answers mix two   *)
(* places: the log and the list of files are the server's, at its HEAD, and the   *)
(* revision that files are read at and that is recorded is the working copy's.    *)
(*                                                                                *)
(* The log names what a commit was told to change: files and directories alike,   *)
(* and of what lies below a directory that is deleted, copied or moved nothing.   *)
(*                                                                                *)
(* Runs are one at a time; IndexRepository has the steps of several, and those    *)
(* within a file and within an update of the state file.  A path is a file or a   *)
(* directory below RepositoryUri for good, and no two differ by case only.        *)
EXTENDS Naturals, Sequences, FiniteSets

CONSTANTS
  Path,            \* files and directories; numbers, in the order the server lists them
  Directory,
  Above,           \* Above[p]: the directories that path p lies in
  MaxRevision,     \* bound on the commits
  NoPath,
  BlankFiles,      \* a commit may make files empty or binary: blame tells no line of them
  RacingReads,     \* the working copy may be updated between the log and its revision
  KeepsResumeFile  \* no commit deletes the file a checkpoint names or is about to

ASSUME PathAssumption == Path \subseteq Nat /\ NoPath \notin Path
ASSUME TreeAssumption ==
  /\ Directory \subseteq Path /\ Above \in [Path -> SUBSET Directory]
  /\ \A p \in Path : p \notin Above[p] /\ \A d \in Above[p] : Above[d] \subseteq Above[p]
  /\ \A p \in Path : \A d, e \in Above[p] : d = e \/ d \in Above[e] \/ e \in Above[d]
ASSUME BoundAssumption == MaxRevision \in Nat \ {0}
ASSUME SwitchAssumption ==
  BlankFiles \in BOOLEAN /\ RacingReads \in BOOLEAN /\ KeepsResumeFile \in BOOLEAN

VARIABLES
  repository,  \* the server: each revision's tree, changed paths and lines of history
  workingCopy, \* the revision of RepositoryPath
  last,        \* the state file's last indexed revision, 0 for none
  checkpoint,  \* the state file's checkpoint
  points,      \* the collection: paths with the contents that are stored
  job          \* the run

vars == <<repository, workingCopy, last, checkpoint, points, job>>

\* A content is named by the revision that made it; 0 is no file.
Content == 0..MaxRevision
Revision == 1..MaxRevision

Action == {"Add", "Delete", "Replace", "Modify"}
Item == [path : Path, action : Action, from : Path \cup {NoPath}]

Youngest == Len(repository)
Tree(r) == repository[r].tree
Live(r) == {p \in Path : Tree(r)[p] # 0}
Files(r) == Live(r) \ Directory

Under(d) == {p \in Path : d \in Above[p]}

NoCheckpoint == [revision |-> 0, file |-> NoPath]

Blankness == {BlankFiles, FALSE}

\* What is left of the run's loop; a run takes its files in the order of their place.
ChangedFile(p, kind, oldPath, place) ==
  [path |-> p, kind |-> kind, oldPath |-> oldPath, place |-> place]

Idle == [pc |-> "idle", full |-> FALSE, to |-> 0, revision |-> 0, listed |-> 0,
         resume |-> NoPath, todo |-> {}, path |-> NoPath]

TypeOK ==
  /\ repository \in Seq([tree : [Path -> Content], items : Seq(Item),
                         born : [Path -> Content], blank : BOOLEAN])
  /\ Youngest \in Revision
  /\ workingCopy \in Revision /\ workingCopy <= Youngest
  /\ last \in 0..workingCopy
  /\ checkpoint \in [revision : 0..Youngest, file : Path \cup {NoPath}]
  /\ points \subseteq Path \X Revision
  /\ job \in [pc : {"idle", "toRevision", "list", "loop", "save", "commit"},
              full : BOOLEAN,
              to : 0..Youngest,          \* toRevision
              revision : 0..Youngest,    \* the revision its files are read at
              listed : 0..Youngest,      \* the server's HEAD when the files were listed
              resume : Path \cup {NoPath},
              todo : SUBSET [path : Path, kind : {"Added", "Modified", "Deleted", "Renamed"},
                             oldPath : Path \cup {NoPath}, place : Nat \X Nat],
              path : Path \cup {NoPath}]  \* the file a checkpoint is due for

Init ==
  /\ \E live \in SUBSET Path, blank \in Blankness :
       /\ \A p \in live : Above[p] \subseteq live
       /\ LET tree == [p \in Path |-> IF p \in live THEN 1 ELSE 0]
          IN repository = <<[tree |-> tree, items |-> <<>>, born |-> tree, blank |-> blank]>>
  /\ workingCopy = 1 /\ last = 0 /\ checkpoint = NoCheckpoint
  /\ points = {}
  /\ job = Idle

-----------------------------------------------------------------------------
(* The server and the working copy *)

Changed(p, action, from) == [path |-> p, action |-> action, from |-> from]

\* One commit: the paths it is logged with, the tree it leaves, how far back the
\* history of each path goes, and whether the files it adds are blank.  Two paths
\* are logged in either order.
Commit(items, added, deleted, born) ==
  LET r == Youngest + 1
      Becomes(of, new) == [p \in Path |-> IF p \in added THEN new
                                         ELSE IF p \in deleted THEN 0 ELSE of[p]]
  IN /\ r <= MaxRevision
     /\ KeepsResumeFile => (deleted \ added) \cap {checkpoint.file, job.path} = {}
     /\ \E blank \in (IF added \subseteq Directory THEN {FALSE} ELSE Blankness) :
          repository' = Append(repository, [tree |-> Becomes(Tree(Youngest), r), items |-> items,
                                            born |-> Becomes(repository[Youngest].born, born),
                                            blank |-> blank])
     /\ UNCHANGED <<workingCopy, last, checkpoint, points, job>>

Born(p) == repository[Youngest].born[p]

With(p) == {p} \cup Under(p)

\* What may come along with a directory that is copied.
Below(d) == {S \in SUBSET Under(d) : \A p \in S : Above[p] \cap Under(d) \subseteq S}

\* A change of a path itself: of a directory, its properties.  It is added or replaced
\* as something new or as a copy from where no run looks, a branch or an old revision.
CommitPath(p) ==
  \/ /\ p \in Live(Youngest)
     /\ \/ Commit(<<Changed(p, "Modify", NoPath)>>, {p}, {}, Born(p))
        \/ Commit(<<Changed(p, "Delete", NoPath)>>, {}, With(p), 0)
        \/ \E below \in Below(p), born \in 1..(Youngest + 1) :
             Commit(<<Changed(p, "Replace", NoPath)>>, {p} \cup below, With(p), born)
  \/ /\ p \notin Live(Youngest) /\ Above[p] \subseteq Live(Youngest)
     /\ \E below \in Below(p), born \in 1..(Youngest + 1) :
          Commit(<<Changed(p, "Add", NoPath)>>, {p} \cup below, {}, born)

\* A copy of p to q, or a move, onto nothing or in place of what is there.
CommitCopy(p, q) ==
  LET copy == Changed(q, IF q \in Live(Youngest) THEN "Replace" ELSE "Add", p)
      gone == Changed(p, "Delete", NoPath)
  IN /\ p # q /\ (p \in Directory <=> q \in Directory)
     /\ p \in Live(Youngest) /\ Above[q] \subseteq Live(Youngest)
     /\ \E below \in Below(q), born \in (IF p \in Directory THEN 1..Youngest ELSE {Born(p)}) :
          LET added == {q} \cup below
          IN \/ Commit(<<copy>>, added, With(q), born)
             \/ /\ p \notin Above[q] /\ q \notin Above[p]
                /\ \/ Commit(<<copy, gone>>, added, With(p) \cup With(q), born)
                   \/ Commit(<<gone, copy>>, added, With(p) \cup With(q), born)

Update ==
  /\ workingCopy < Youngest
  /\ ~RacingReads => job.pc # "toRevision"
  /\ workingCopy' = Youngest
  /\ UNCHANGED <<repository, last, checkpoint, points, job>>

-----------------------------------------------------------------------------
(* The log *)

Earlier(x, y) == x[1] < y[1] \/ (x[1] = y[1] /\ x[2] < y[2])
First(S) == CHOOSE x \in S : \A y \in S \ {x} : Earlier(x, y)
Latest(S) == CHOOSE x \in S : \A y \in S \ {x} : Earlier(y, x)

\* Variant: one revision too few is asked for.
LoggedTooLate(since) ==
  {x \in Revision \X (1..2) :
     /\ since + 1 < x[1] /\ x[1] <= Youngest
     /\ x[2] \in DOMAIN repository[x[1]].items}

\* The places, by revision and index, of the changed paths after a revision.
Logged(since) ==
  {x \in Revision \X (1..2) :
     /\ since < x[1] /\ x[1] <= Youngest
     /\ x[2] \in DOMAIN repository[x[1]].items}

ItemAt(x) == repository[x[1]].items[x[2]]

\* Variant: an action that is not mapped.
MapSvnActionPartly(action) ==
  CASE action = "Add" -> "Added" [] action = "Delete" -> "Deleted"
    [] action = "Replace" -> "Replaced" [] OTHER -> "Modified"

MapSvnAction(action) ==
  CASE action = "Add" -> "Added" [] action = "Delete" -> "Deleted"
    [] action = "Replace" -> "Renamed" [] OTHER -> "Modified"

\* Variant: the first entry of a path is kept.
MergedFirst(p, places) ==
  LET item == ItemAt(First(places))
      kind == MapSvnAction(item.action)
  IN ChangedFile(p, kind, IF kind = "Renamed" THEN item.from ELSE NoPath, First(places))

\* A later entry replaces a path's earlier one, in the earlier one's place.
Merged(p, places) ==
  LET item == ItemAt(Latest(places))
      kind == MapSvnAction(item.action)
  IN ChangedFile(p, kind, IF kind = "Renamed" THEN item.from ELSE NoPath, First(places))

\* Variant: directories are left out.
ChangesOfFiles(since) ==
  LET places(p) == {x \in Logged(since) : ItemAt(x).path = p}
  IN {Merged(p, places(p)) : p \in {q \in Path \ Directory : places(q) # {}}}

\* Each path once, directories among them: the kind of the node is not looked at.
Changes(since) ==
  LET places(p) == {x \in Logged(since) : ItemAt(x).path = p}
  IN {Merged(p, places(p)) : p \in {q \in Path : places(q) # {}}}

-----------------------------------------------------------------------------
(* Runs *)

\* DetermineChangedFilesAsync.  When nothing is left to log the server refuses the
\* revision asked for, and the request fails without having changed anything.
GetChangedFilesSince ==
  /\ job.pc = "idle" /\ last # 0 /\ last < Youngest
  /\ job' = [Idle EXCEPT !.pc = "toRevision", !.listed = Youngest, !.todo = Changes(last)]
  /\ UNCHANGED <<repository, workingCopy, last, checkpoint, points>>

GetCurrentRevision ==
  /\ job.pc = "toRevision"
  /\ job' = [job EXCEPT !.pc = "loop", !.to = workingCopy, !.revision = workingCopy]
  /\ UNCHANGED <<repository, workingCopy, last, checkpoint, points>>

\* A full request, or one that finds no last indexed revision.
StartFull ==
  /\ job.pc = "idle"
  /\ job' = [Idle EXCEPT !.pc = "list", !.full = TRUE, !.to = workingCopy,
               !.resume = IF checkpoint.revision = workingCopy THEN checkpoint.file ELSE NoPath]
  /\ UNCHANGED <<repository, workingCopy, last, checkpoint, points>>

\* The files the loop does not skip: none if it never meets resumeAfterFile.
FilesToProcess(resume, files) ==
  IF resume = NoPath THEN files ELSE {p \in files : resume \in files /\ p > resume}

\* Variant: the kind of the node is not looked at.
GetEntriesAtHead ==
  /\ job.pc = "list"
  /\ job' = [job EXCEPT !.pc = "loop", !.listed = Youngest, !.revision = workingCopy,
               !.todo = {ChangedFile(p, "Added", NoPath, <<0, p>>) :
                           p \in FilesToProcess(job.resume, Live(Youngest))}]
  /\ UNCHANGED <<repository, workingCopy, last, checkpoint, points>>

\* The server's files, no directories, stamped with the working copy's revision,
\* which is read again.
GetFilesAtHead ==
  /\ job.pc = "list"
  /\ job' = [job EXCEPT !.pc = "loop", !.listed = Youngest, !.revision = workingCopy,
               !.todo = {ChangedFile(p, "Added", NoPath, <<0, p>>) :
                           p \in FilesToProcess(job.resume, Files(Youngest))}]
  /\ UNCHANGED <<repository, workingCopy, last, checkpoint, points>>

IsNext(f) ==
  /\ job.pc = "loop" /\ f \in job.todo
  /\ \A g \in job.todo \ {f} : Earlier(f.place, g.place)

WithoutPath(p) == {x \in points : x[1] # p}

DeleteFile(f) ==
  /\ IsNext(f) /\ f.kind = "Deleted"
  /\ points' = WithoutPath(f.path)
  /\ job' = [job EXCEPT !.todo = @ \ {f}]
  /\ UNCHANGED <<repository, workingCopy, last, checkpoint>>

\* The file itself is processed next, as an added one is.
DeleteOldPath(f) ==
  /\ IsNext(f) /\ f.kind = "Renamed" /\ f.oldPath # NoPath
  /\ points' = WithoutPath(f.oldPath)
  /\ job' = [job EXCEPT !.todo = (@ \ {f}) \cup {[f EXCEPT !.kind = "Added"]}]
  /\ UNCHANGED <<repository, workingCopy, last, checkpoint>>

ToProcess(f) == IsNext(f) /\ f.kind # "Deleted" /\ (f.kind = "Renamed" => f.oldPath = NoPath)

\* GetFileContentAsync reads the path, a file's, at the revision.  GetBlameAsync names
\* the path as it is at HEAD, its history has to reach back to the revision, and
\* there has to be a line.
Readable(p, r) == /\ p \in Files(r) /\ ~repository[Tree(r)[p]].blank
                  /\ p \in Live(Youngest) /\ Born(p) <= r

\* ProcessFileAsync, all chunks of the file as one.
ProcessFile(f) ==
  /\ ToProcess(f) /\ Readable(f.path, job.revision)
  /\ points' = points \cup {<<f.path, Tree(job.revision)[f.path]>>}
  /\ job' = [job EXCEPT !.todo = @ \ {f},
                        !.pc = IF job.full THEN "save" ELSE "loop",
                        !.path = IF job.full THEN f.path ELSE NoPath]
  /\ UNCHANGED <<repository, workingCopy, last, checkpoint>>

Throws(f) == ToProcess(f) /\ ~Readable(f.path, job.revision)

ProcessFileThrows(f) ==
  /\ Throws(f)
  /\ job' = Idle
  /\ UNCHANGED <<repository, workingCopy, last, checkpoint, points>>

SaveCheckpoint ==
  /\ job.pc = "save"
  /\ checkpoint' = [revision |-> job.to, file |-> job.path]
  /\ job' = [job EXCEPT !.pc = "loop", !.path = NoPath]
  /\ UNCHANGED <<repository, workingCopy, last, points>>

LoopDone == job.pc = "loop" /\ job.todo = {}

ClearCheckpoint ==
  /\ LoopDone /\ job.full
  /\ checkpoint' = NoCheckpoint
  /\ job' = [job EXCEPT !.pc = "commit"]
  /\ UNCHANGED <<repository, workingCopy, last, points>>

SetLastIndexedRevision ==
  /\ job.pc = "commit" \/ (LoopDone /\ ~job.full)
  /\ last' = job.to /\ checkpoint' = NoCheckpoint
  /\ job' = Idle
  /\ UNCHANGED <<repository, workingCopy, points>>

\* An exception, a cancellation or a crash of the host.
Abort ==
  /\ job.pc # "idle"
  /\ job' = Idle
  /\ UNCHANGED <<repository, workingCopy, last, checkpoint, points>>

Step ==
  \/ GetCurrentRevision \/ GetFilesAtHead
  \/ \E f \in job.todo :
       DeleteFile(f) \/ DeleteOldPath(f) \/ ProcessFile(f) \/ ProcessFileThrows(f)
  \/ SaveCheckpoint \/ ClearCheckpoint \/ SetLastIndexedRevision

User == Update \/ (\E p \in Path : CommitPath(p)) \/ (\E p, q \in Path : CommitCopy(p, q))

Next == User \/ GetChangedFilesSince \/ StartFull \/ Step \/ Abort

Spec == Init /\ [][Next]_vars

\* What is asked of a run that finds, or does not find, a last indexed revision.
IncrementalRequest == GetChangedFilesSince \/ (last = 0 /\ StartFull)

\* Runs go on, the index is asked again and again to catch up, and the working copy
\* is brought up to date some time.
FairSpec ==
  Spec /\ WF_vars(Step) /\ SF_vars(IncrementalRequest) /\ SF_vars(Update)

-----------------------------------------------------------------------------
(* Properties *)

\* Files that were copied or moved in place of another one: the log's replacement
\* names them as the old path, whose points a run deletes although they may live on.
CopiedFrom == {ItemAt(x).from : x \in {y \in Logged(0) : ItemAt(y).action = "Replace"}}

\* Paths the log last names as deleted.  One that is there all the same came back
\* with a directory.
LastDeleted == {f.path : f \in {g \in Changes(0) : g.kind = "Deleted"}}

\* Paths that lie in no directory the log names since a revision: what became of
\* them is what the log says of themselves.
OnTheirOwn(since) ==
  {p \in Path : \A x \in Logged(since) : ItemAt(x).path \notin Above[p]}

\* The merged log is the difference of two trees as far as the log goes: of what the
\* server's HEAD has otherwise than a revision before it names each path or a
\* directory above, each path it names once, and as deleted just those that are gone
\* unless something became of a directory above.
LogIsDifference ==
  \A since \in 1..Youngest :
    LET changes == Changes(since)
        onTheirOwn == OnTheirOwn(since)
    IN /\ \A p \in Path : Tree(since)[p] # Tree(Youngest)[p] =>
            \E f \in changes : f.path = p \/ f.path \in Above[p]
       /\ \A f \in changes : f.path \in onTheirOwn =>
            (f.kind = "Deleted" <=> f.path \notin Live(Youngest))
       /\ \A f, g \in changes : f.path = g.path => f = g

\* A file that has not changed since the last indexed revision is searchable,
\* whatever was cut off, however far the working copy is behind the server, and
\* whatever is committed meanwhile.
IndexedIsSearchable ==
  last # 0 =>
    \A p \in Files(Youngest) \ (CopiedFrom \cup LastDeleted) :
      Tree(last)[p] = Tree(Youngest)[p] => <<p, Tree(Youngest)[p]>> \in points

\* An incremental run that ends well leaves no point of a file that was there since
\* the revision before, was deleted by itself and is gone from the log it worked
\* through, not even what runs that were cut off have stored.
DeletedFilesPurged ==
  [][SetLastIndexedRevision /\ ~job.full =>
       \A p \in Path \ Live(job.listed) :
         /\ \E r \in last..job.listed : p \in Live(r)
         /\ \A x \in Logged(last) : x[1] <= job.listed => ItemAt(x).path \notin Above[p]
         => \A x \in points : x[1] # p]_vars

\* What is left to index can be read at the server's HEAD: it is files that are there
\* and have a line.
Legible ==
  \A p \in (IF last = 0 THEN Files(Youngest)
            ELSE {f.path : f \in {g \in Changes(last) : g.kind # "Deleted"}}) :
    Readable(p, Youngest)

\* Once runs are no longer cut off and what is left for them is legible, the index
\* catches up with the server, although a run that meets a file the working copy
\* does not have yet throws.
Converges ==
  LET CutOff == Abort /\ ~\E f \in job.todo : Throws(f)
  IN <>[]Legible /\ <>[][~CutOff]_vars => <>[](last = Youngest)

\* Deleted files trigger the removal of their points.
DeletedFilesLeaveNothing ==
  [][SetLastIndexedRevision /\ ~job.full =>
       \A x \in points : x[1] \in Live(last) => x[1] \in Live(job.listed)]_vars
=============================================================================
