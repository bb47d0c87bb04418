------------------------------ MODULE StatusPanel ------------------------------
(* The status panel of the web client with what it talks to: IndexStatusPanel,  *)
(* the API client, the handler of GET /index/status and the runs of POST        *)
(* /index, seen through the state file.                                         *)
(*                                                                              *)
(* A step of the panel is the code between two awaits: everything on the panel  *)
(* runs in its renderer's synchronisation context.  The panel stays open.  The  *)
(* methods of the state store are one step each here, IndexRepository has them  *)
(* in detail.                                                                   *)
EXTENDS Integers

CONSTANTS
  Revision,    \* the revisions HEAD can be at when a run starts
  TotalFiles,  \* the files of the repository
  Request,     \* the invocations of the panel's ReindexAsync, one run each
  Outside,     \* the runs asked for by other clients
  Poll,        \* the status requests of the panel's timer that may be under way
  None

ASSUME FilesAssumption == TotalFiles \in Nat
ASSUME RunsAssumption == Request \cap Outside = {} /\ Request \cap Poll = {}
ASSUME NullAssumption == None \notin Revision

Run == Request \cup Outside
Load == Request \cup Poll    \* the invocations of LoadStatusAsync

VARIABLES
  state,     \* .sourcerag-state.json: last revision and checkpoint
  run,       \* the runs of the indexing handler
  load,      \* LoadStatusAsync and, at the server, GetIndexStatusHandler
  request,   \* where each ReindexAsync is
  shown,     \* _status
  failed,    \* _errorMessage is not null
  working,   \* _isWorking
  timer,     \* _timer has been created
  page       \* what the browser has rendered: can the buttons be pressed?

server == <<state, run>>
panel == <<shown, failed, working>>
vars == <<state, run, load, request, shown, failed, working, timer, page>>

-----------------------------------------------------------------------------
Checkpoint == [revision : Revision, place : 0..TotalFiles]
StateFile == [last : Revision \cup {None}, checkpoint : Checkpoint \cup {None}]
Status == [last : Revision \cup {None}, isIndexing : BOOLEAN]

RunState == [pc : {"idle", "running", "commit", "ended", "failed"},
             full : BOOLEAN, to : Revision \cup {None}, place : 0..TotalFiles]
LoadState == [pc : {"idle", "last", "checkpoint", "answered"},
              last : Revision \cup {None}, isIndexing : BOOLEAN]
RequestState == [pc : {"idle", "confirm", "sent", "loading"}, mode : {"full", "incremental"}]

NoRun == [pc |-> "idle", full |-> FALSE, to |-> None, place |-> 0]
NoLoad == [pc |-> "idle", last |-> None, isIndexing |-> FALSE]
NoRequest == [pc |-> "idle", mode |-> "incremental"]

TypeOK ==
  /\ state \in StateFile
  /\ run \in [Run -> RunState]
  /\ load \in [Load -> LoadState]
  /\ request \in [Request -> RequestState]
  /\ shown \in Status \cup {None}
  /\ failed \in BOOLEAN /\ working \in BOOLEAN /\ timer \in BOOLEAN /\ page \in BOOLEAN

\* OnInitializedAsync awaits one load before it creates the timer.
Init ==
  /\ state = [last |-> None, checkpoint |-> None]
  /\ run = [r \in Run |-> NoRun]
  /\ \E p \in Poll : load = [l \in Load |-> IF l = p THEN [NoLoad EXCEPT !.pc = "last"] ELSE NoLoad]
  /\ request = [q \in Request |-> NoRequest]
  /\ shown = None
  /\ failed = FALSE /\ working = FALSE /\ timer = FALSE /\ page = FALSE

RunBecomes(r, s) == run' = [run EXCEPT ![r] = s]
LoadBecomes(l, s) == load' = [load EXCEPT ![l] = s]
RequestBecomes(q, s) == request' = [request EXCEPT ![q] = s]

Active(r) == run[r].pc \in {"running", "commit"}

-----------------------------------------------------------------------------
(* Runs of the indexing handler, as far as the state file shows them *)

\* Variant: the run goes on one file too late.
StartPlaceAfter(full, to) ==
  LET cp == state.checkpoint
  IN IF full /\ cp # None /\ cp.revision = to THEN cp.place + 1 ELSE 0

\* FullReindexAsync goes on after the checkpointed file if the revision is the same.
StartPlace(full, to) ==
  LET cp == state.checkpoint
  IN IF full /\ cp # None /\ cp.revision = to THEN cp.place ELSE 0

StartRun(r, fullReindex) ==
  /\ ~Active(r)
  /\ \E to \in Revision :
       LET full == fullReindex \/ state.last = None
       IN RunBecomes(r, [pc |-> "running", full |-> full, to |-> to,
                         place |-> StartPlace(full, to)])
  /\ UNCHANGED state

SaveCheckpoint(r) ==
  /\ run[r].pc = "running" /\ run[r].full /\ run[r].place < TotalFiles
  /\ RunBecomes(r, [run[r] EXCEPT !.place = @ + 1])
  /\ state' = [state EXCEPT !.checkpoint = [revision |-> run[r].to,
                                             place |-> run[r].place + 1]]
  /\ UNCHANGED <<load, request, panel, timer, page>>

ClearCheckpoint(r) ==
  /\ run[r].pc = "running" /\ run[r].full /\ run[r].place = TotalFiles
  /\ RunBecomes(r, [run[r] EXCEPT !.pc = "commit"])
  /\ state' = [state EXCEPT !.checkpoint = None]
  /\ UNCHANGED <<load, request, panel, timer, page>>

\* A run is over; its outcome matters if the panel still waits for it.
Over(r, pc) ==
  LET awaited == r \in Request /\ request[r].pc = "sent"
  IN RunBecomes(r, IF awaited THEN [NoRun EXCEPT !.pc = pc] ELSE NoRun)

SetLastIndexedRevision(r) ==
  /\ run[r].pc = "commit" \/ (run[r].pc = "running" /\ ~run[r].full)
  /\ Over(r, "ended")
  /\ state' = [last |-> run[r].to, checkpoint |-> None]
  /\ UNCHANGED <<load, request, panel, timer, page>>

\* An exception, a cancelled request or a crash of the host.
AbortRun(r) ==
  /\ Active(r)
  /\ Over(r, "failed")
  /\ UNCHANGED <<state, load, request, panel, timer, page>>

\* The MCP tool index_repository, or a request with the property fullReindex.
StartOutside(r) ==
  /\ r \in Outside
  /\ \E fullReindex \in BOOLEAN : StartRun(r, fullReindex)
  /\ UNCHANGED <<load, request, panel, timer, page>>

-----------------------------------------------------------------------------
(* GET /index/status: the state file is read again for the checkpoint *)

ReadLast(l) ==
  /\ load[l].pc = "last"
  /\ LoadBecomes(l, [load[l] EXCEPT !.pc = "checkpoint", !.last = state.last])
  /\ UNCHANGED <<server, request, panel, timer, page>>

ReadCheckpoint(l) ==
  /\ load[l].pc = "checkpoint"
  /\ LoadBecomes(l, [load[l] EXCEPT !.pc = "answered",
                                    !.isIndexing = state.checkpoint # None])
  /\ UNCHANGED <<server, request, panel, timer, page>>

-----------------------------------------------------------------------------
(* LoadStatusAsync in the panel *)

\* What follows the call: ReindexAsync ends, OnInitializedAsync creates the timer.
AfterLoad(l) ==
  /\ IF l \in Request
     THEN RequestBecomes(l, NoRequest) /\ working' = FALSE
     ELSE UNCHANGED <<request, working>>
  /\ timer' = (timer \/ l \in Poll)
  /\ LoadBecomes(l, NoLoad)

\* Answers may arrive in another order than the requests were sent.
ReceiveStatus(l) ==
  /\ load[l].pc = "answered"
  /\ shown' = [last |-> load[l].last, isIndexing |-> load[l].isIndexing]
  /\ failed' = FALSE
  /\ AfterLoad(l)
  /\ UNCHANGED <<server, page>>

LoadFails(l) ==
  /\ load[l].pc # "idle"
  /\ failed' = TRUE
  /\ AfterLoad(l)
  /\ UNCHANGED <<server, shown, page>>

\* Variant: the timer waits for the panel to be shown something, and fires once.
TickOnce(p) ==
  /\ timer
  /\ shown = None
  /\ load[p].pc = "idle"
  /\ LoadBecomes(p, [NoLoad EXCEPT !.pc = "last"])
  /\ UNCHANGED <<server, request, panel, timer, page>>

\* The timer does not wait for the answer of the poll before.
Tick(p) ==
  /\ timer
  /\ load[p].pc = "idle"
  /\ LoadBecomes(p, [NoLoad EXCEPT !.pc = "last"])
  /\ UNCHANGED <<server, request, panel, timer, page>>

-----------------------------------------------------------------------------
(* Buttons *)

\* The buttons are rendered and not disabled.
CanPress == /\ shown # None /\ ~failed
            /\ ~shown.isIndexing /\ ~working

\* A render reaches the browser some time after the panel's state has changed.
Render ==
  /\ page' = CanPress
  /\ UNCHANGED <<server, load, request, panel, timer>>

Send(q, mode) ==
  /\ RequestBecomes(q, [pc |-> "sent", mode |-> mode])
  /\ working' = TRUE
  /\ failed' = FALSE

PressReindex(q) ==
  /\ page /\ request[q].pc = "idle" /\ ~Active(q)
  /\ Send(q, "incremental")
  /\ UNCHANGED <<server, load, shown, timer, page>>

PressFullReindex(q) ==
  /\ page /\ request[q].pc = "idle" /\ ~Active(q)
  /\ RequestBecomes(q, [pc |-> "confirm", mode |-> "full"])
  /\ UNCHANGED <<server, load, panel, timer, page>>

Confirm(q) ==
  /\ request[q].pc = "confirm"
  /\ \/ Send(q, "full")
     \/ RequestBecomes(q, NoRequest) /\ UNCHANGED <<working, failed>>
  /\ UNCHANGED <<server, load, shown, timer, page>>

\* The panel posts a property mode; the command the API binds has only the
\* property fullReindex, so this is false whatever the panel asks for.
BoundFullReindex(mode) == FALSE

\* POST /index reaches the handler.
Accept(q) ==
  /\ request[q].pc = "sent" /\ run[q].pc = "idle"
  /\ StartRun(q, BoundFullReindex(request[q].mode))
  /\ UNCHANGED <<load, request, panel, timer, page>>

\* The job's result: ReindexAsync awaits a load of the status.
Respond(q) ==
  /\ request[q].pc = "sent" /\ run[q].pc = "ended"
  /\ RequestBecomes(q, [request[q] EXCEPT !.pc = "loading"])
  /\ LoadBecomes(q, [NoLoad EXCEPT !.pc = "last"])
  /\ RunBecomes(q, NoRun)
  /\ UNCHANGED <<state, panel, timer, page>>

\* The panel waits no longer; what is under way at the server goes on.
Disconnect(q) == IF Active(q) THEN UNCHANGED run ELSE RunBecomes(q, NoRun)

\* Variant: working is not reset when the request fails.
RequestFailsWorking(q) ==
  /\ request[q].pc = "sent"
  /\ RequestBecomes(q, NoRequest)
  /\ Disconnect(q)
  /\ failed' = TRUE
  /\ UNCHANGED <<state, load, shown, working, timer, page>>

\* An error status, or none within the HTTP client's time: the run may go on.
RequestFails(q) ==
  /\ request[q].pc = "sent"
  /\ RequestBecomes(q, NoRequest)
  /\ Disconnect(q)
  /\ failed' = TRUE /\ working' = FALSE
  /\ UNCHANGED <<state, load, shown, timer, page>>

-----------------------------------------------------------------------------
RunStep(r) == SaveCheckpoint(r) \/ ClearCheckpoint(r) \/ SetLastIndexedRevision(r)

LoadStep(l) == ReadLast(l) \/ ReadCheckpoint(l) \/ ReceiveStatus(l)

Next ==
  \/ \E r \in Run : RunStep(r) \/ AbortRun(r) \/ StartOutside(r)
  \/ \E l \in Load : LoadStep(l) \/ LoadFails(l)
  \/ \E p \in Poll : Tick(p)
  \/ \E q \in Request : \/ PressReindex(q) \/ PressFullReindex(q) \/ Confirm(q)
                        \/ Accept(q) \/ Respond(q) \/ RequestFails(q)
  \/ Render

Spec == Init /\ [][Next]_vars

\* The timer fires, the browser renders, a run and a request that are not cut off
\* go on, and a failed run is answered with an error.  Polls may fail, but not all
\* of them at the same step for ever.  Nobody has to press a button.
FairSpec ==
  /\ Spec
  /\ WF_vars(Render)
  /\ \A r \in Run : WF_vars(RunStep(r))
  /\ WF_vars(\E p \in Poll : Tick(p))
  /\ SF_vars(\E p \in Poll : ReadLast(p))
  /\ SF_vars(\E p \in Poll : ReadCheckpoint(p))
  /\ SF_vars(\E p \in Poll : ReceiveStatus(p))
  /\ \A q \in Request : /\ WF_vars(Accept(q)) /\ WF_vars(Respond(q)) /\ WF_vars(LoadStep(q))
                         /\ WF_vars(run[q].pc = "failed" /\ RequestFails(q))

-----------------------------------------------------------------------------
(* Properties *)

StatusOf(s) == [last |-> s.last, isIndexing |-> s.checkpoint # None]

\* Once the state file stays as it is, the panel shows what is in it and goes on
\* showing it, although polls overlap and are answered out of order.
SettlesOnState ==
  \A s \in StateFile : <>[](state = s) => <>[](shown = StatusOf(s))

\* The panel does not stay at work: however a request of its buttons, its run and
\* the load of the status after it end, the buttons are not held back for ever.
WorkingEnds == working ~> ~working

\* While the panel is at work a call it waits for is under way, so that there is an
\* answer or an error still to come that ends the work.
WorkAwaitsACall ==
  working => \E q \in Request : \/ request[q].pc = "sent"
                                \/ request[q].pc = "loading" /\ load[q].pc # "idle"

\* A checkpoint is the progress of a run in progress: the panel stops to show that
\* the index is being built when nobody builds it any more.
IndexingEnds ==
  <>[](\A r \in Run : ~Active(r)) => <>[](shown = None \/ ~shown.isIndexing)
=============================================================================
