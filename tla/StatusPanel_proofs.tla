--------------------------- MODULE StatusPanel_proofs ---------------------------
(* Theorems about the status panel, for every number of its requests, of overlapping *)
(* polls and of runs other clients ask for.                                           *)
EXTENDS StatusPanel, TLAPS

USE FilesAssumption, RunsAssumption, NullAssumption

-----------------------------------------------------------------------------
(* Types *)

LEMMA FunctionTypes ==
  ASSUME TypeOK
  PROVE  /\ \A r \in Run : run[r] \in RunState
         /\ \A l \in Load : load[l] \in LoadState
         /\ \A q \in Request : request[q] \in RequestState
  BY DEF TypeOK

LEMMA NothingTypes == NoRun \in RunState /\ NoLoad \in LoadState /\ NoRequest \in RequestState
  BY DEF NoRun, NoLoad, NoRequest, RunState, LoadState, RequestState

LEMMA InRun == Request \subseteq Run /\ Request \subseteq Load /\ Poll \subseteq Load
  BY DEF Run, Load

LEMMA RunBecomesType ==
  ASSUME TypeOK, NEW r \in Run, NEW s \in RunState, RunBecomes(r, s)
  PROVE  run' \in [Run -> RunState]
  BY DEF TypeOK, RunBecomes

LEMMA LoadBecomesType ==
  ASSUME TypeOK, NEW l \in Load, NEW s \in LoadState, LoadBecomes(l, s)
  PROVE  load' \in [Load -> LoadState]
  BY DEF TypeOK, LoadBecomes

LEMMA RequestBecomesType ==
  ASSUME TypeOK, NEW q \in Request, NEW s \in RequestState, RequestBecomes(q, s)
  PROVE  request' \in [Request -> RequestState]
  BY DEF TypeOK, RequestBecomes

\* A step that starts a run leaves the runs well-typed.
LEMMA StartRunType ==
  ASSUME TypeOK, NEW r \in Run, NEW fullReindex \in BOOLEAN, StartRun(r, fullReindex)
  PROVE  run' \in [Run -> RunState] /\ UNCHANGED state
  <1> PICK to \in Revision :
        LET full == fullReindex \/ state.last = None
        IN RunBecomes(r, [pc |-> "running", full |-> full, to |-> to,
                          place |-> StartPlace(full, to)])
    BY DEF StartRun
  <1> DEFINE full == fullReindex \/ state.last = None
             s == [pc |-> "running", full |-> full, to |-> to, place |-> StartPlace(full, to)]
  <1>1. StartPlace(full, to) \in 0..TotalFiles
    BY DEF StartPlace, TypeOK, StateFile, Checkpoint
  <1>2. s \in RunState
    BY <1>1 DEF RunState
  <1>3. RunBecomes(r, s)
    OBVIOUS
  <1> QED
    BY <1>2, <1>3, RunBecomesType DEF StartRun

LEMMA OverType ==
  ASSUME TypeOK, NEW r \in Run, NEW end \in {"ended", "failed"}, Over(r, end)
  PROVE  run' \in [Run -> RunState]
  <1>1. [NoRun EXCEPT !.pc = end] \in RunState
    BY NothingTypes DEF RunState
  <1> QED
    BY <1>1, NothingTypes, RunBecomesType DEF Over

LEMMA AfterLoadType ==
  ASSUME TypeOK, NEW l \in Load, AfterLoad(l)
  PROVE  /\ load' \in [Load -> LoadState] /\ request' \in [Request -> RequestState]
         /\ working' \in BOOLEAN /\ timer' \in BOOLEAN
  <1>1. load' \in [Load -> LoadState]
    BY NothingTypes, LoadBecomesType DEF AfterLoad
  <1>2. request' \in [Request -> RequestState] /\ working' \in BOOLEAN
    <2>1. CASE l \in Request
      BY <2>1, NothingTypes, RequestBecomesType DEF AfterLoad
    <2>2. CASE l \notin Request
      BY <2>2 DEF AfterLoad, TypeOK
    <2> QED
      BY <2>1, <2>2
  <1> QED
    BY <1>1, <1>2 DEF AfterLoad, TypeOK

-----------------------------------------------------------------------------
(* Types.  A checkpoint is of the revision its run is for, so the types hold only  *)
(* with a run in progress known to have a revision.                                *)

ActiveHaveRevision == \A r \in Run : Active(r) => run[r].to \in Revision

\* A step that ends a run or carries it on, or leaves the runs alone.
LEMMA KeepsActive ==
  ASSUME TypeOK, ActiveHaveRevision, NEW r \in Run, NEW s \in RunState, RunBecomes(r, s),
         s.pc \in {"running", "commit"} => s.to \in Revision
  PROVE  ActiveHaveRevision'
  BY DEF TypeOK, ActiveHaveRevision, Active, RunBecomes

LEMMA OverKeepsActive ==
  ASSUME TypeOK, ActiveHaveRevision, NEW r \in Run, NEW end \in {"ended", "failed"}, Over(r, end)
  PROVE  ActiveHaveRevision'
  <1>1. NoRun.pc = "idle"
    BY DEF NoRun
  <1>2. [NoRun EXCEPT !.pc = end] \in RunState /\ [NoRun EXCEPT !.pc = end].pc = end
    BY NothingTypes DEF RunState
  <1> QED
    BY <1>1, <1>2, NothingTypes, KeepsActive DEF Over

LEMMA StartKeepsActive ==
  ASSUME TypeOK, ActiveHaveRevision, NEW r \in Run, NEW fullReindex \in BOOLEAN,
         StartRun(r, fullReindex)
  PROVE  ActiveHaveRevision'
  BY DEF TypeOK, ActiveHaveRevision, Active, StartRun, RunBecomes

LEMMA RunTypes ==
  ASSUME TypeOK, ActiveHaveRevision, NEW r \in Run,
         RunStep(r) \/ AbortRun(r) \/ StartOutside(r)
  PROVE  TypeOK' /\ ActiveHaveRevision'
  <1>1. CASE SaveCheckpoint(r)
    <2> DEFINE s == [run[r] EXCEPT !.place = @ + 1]
               c == [revision |-> run[r].to, place |-> run[r].place + 1]
    <2>1. /\ run[r] \in RunState /\ run[r].pc = "running" /\ run[r].full
          /\ run[r].place < TotalFiles
      BY <1>1, FunctionTypes DEF SaveCheckpoint
    <2>2. run[r].place + 1 \in 0..TotalFiles
      BY <2>1 DEF RunState
    <2>3. run[r].to \in Revision
      BY <2>1 DEF ActiveHaveRevision, Active
    <2>4. s \in RunState /\ s.to = run[r].to
      BY <2>1, <2>2 DEF RunState
    <2>5. c \in Checkpoint
      BY <2>2, <2>3 DEF Checkpoint
    <2>6. run' \in [Run -> RunState] /\ ActiveHaveRevision'
      BY <1>1, <2>3, <2>4, RunBecomesType, KeepsActive DEF SaveCheckpoint
    <2>7. state' = [state EXCEPT !.checkpoint = c]
      BY <1>1 DEF SaveCheckpoint
    <2>8. state' \in StateFile
      BY <2>5, <2>7 DEF TypeOK, StateFile
    <2> QED
      BY <1>1, <2>6, <2>8 DEF SaveCheckpoint, TypeOK, panel
  <1>2. CASE ClearCheckpoint(r)
    <2> DEFINE s == [run[r] EXCEPT !.pc = "commit"]
    <2>1. run[r] \in RunState /\ run[r].pc = "running"
      BY <1>2, FunctionTypes DEF ClearCheckpoint
    <2>2. run[r].to \in Revision
      BY <2>1 DEF ActiveHaveRevision, Active
    <2>3. s \in RunState /\ s.to = run[r].to
      BY <2>1 DEF RunState
    <2>4. run' \in [Run -> RunState] /\ ActiveHaveRevision'
      BY <1>2, <2>2, <2>3, RunBecomesType, KeepsActive DEF ClearCheckpoint
    <2>5. state' \in StateFile
      BY <1>2 DEF ClearCheckpoint, TypeOK, StateFile
    <2> QED
      BY <1>2, <2>4, <2>5 DEF ClearCheckpoint, TypeOK, panel
  <1>3. CASE SetLastIndexedRevision(r)
    <2>1. run' \in [Run -> RunState] /\ ActiveHaveRevision'
      BY <1>3, OverType, OverKeepsActive DEF SetLastIndexedRevision
    <2>2. state' \in StateFile
      BY <1>3, FunctionTypes DEF SetLastIndexedRevision, StateFile, RunState
    <2> QED
      BY <1>3, <2>1, <2>2 DEF SetLastIndexedRevision, TypeOK, panel
  <1>4. CASE AbortRun(r)
    <2>1. run' \in [Run -> RunState] /\ ActiveHaveRevision'
      BY <1>4, OverType, OverKeepsActive DEF AbortRun
    <2> QED
      BY <1>4, <2>1 DEF AbortRun, TypeOK, panel
  <1>5. CASE StartOutside(r)
    <2>1. PICK fullReindex \in BOOLEAN : StartRun(r, fullReindex)
      BY <1>5 DEF StartOutside
    <2>2. run' \in [Run -> RunState] /\ ActiveHaveRevision' /\ UNCHANGED state
      BY <2>1, StartRunType, StartKeepsActive
    <2> QED
      BY <1>5, <2>2 DEF StartOutside, TypeOK, panel
  <1> QED
    BY <1>1, <1>2, <1>3, <1>4, <1>5 DEF RunStep

LEMMA LoadTypes ==
  ASSUME TypeOK, NEW l \in Load, LoadStep(l) \/ LoadFails(l)
  PROVE  TypeOK'
  <1>1. CASE ReadLast(l)
    <2>1. [load[l] EXCEPT !.pc = "checkpoint", !.last = state.last] \in LoadState
      BY FunctionTypes DEF TypeOK, StateFile, LoadState
    <2>2. load' \in [Load -> LoadState]
      BY <1>1, <2>1, LoadBecomesType DEF ReadLast
    <2> QED
      BY <1>1, <2>2 DEF ReadLast, TypeOK, server, panel
  <1>2. CASE ReadCheckpoint(l)
    <2>1. [load[l] EXCEPT !.pc = "answered", !.isIndexing = state.checkpoint # None] \in LoadState
      BY FunctionTypes DEF LoadState
    <2>2. load' \in [Load -> LoadState]
      BY <1>2, <2>1, LoadBecomesType DEF ReadCheckpoint
    <2> QED
      BY <1>2, <2>2 DEF ReadCheckpoint, TypeOK, server, panel
  <1>3. CASE ReceiveStatus(l)
    <2>1. shown' \in Status
      BY <1>3, FunctionTypes DEF ReceiveStatus, LoadState, Status
    <2> QED
      BY <1>3, <2>1, AfterLoadType DEF ReceiveStatus, TypeOK, server
  <1>4. CASE LoadFails(l)
    BY <1>4, AfterLoadType DEF LoadFails, TypeOK, server
  <1> QED
    BY <1>1, <1>2, <1>3, <1>4 DEF LoadStep

LEMMA FirstReadType == [NoLoad EXCEPT !.pc = "last"] \in LoadState
  BY DEF NoLoad, LoadState

LEMMA TickTypes ==
  ASSUME TypeOK, NEW p \in Poll, Tick(p)
  PROVE  TypeOK'
  <1>1. load' \in [Load -> LoadState]
    BY FirstReadType, LoadBecomesType, InRun DEF Tick
  <1> QED
    BY <1>1 DEF Tick, TypeOK, server, panel

LEMMA SendType ==
  ASSUME TypeOK, NEW q \in Request, NEW mode \in {"full", "incremental"}, Send(q, mode)
  PROVE  request' \in [Request -> RequestState] /\ working' \in BOOLEAN /\ failed' \in BOOLEAN
  <1>1. [pc |-> "sent", mode |-> mode] \in RequestState
    BY DEF RequestState
  <1> QED
    BY <1>1, RequestBecomesType DEF Send

LEMMA ButtonTypes ==
  ASSUME TypeOK, NEW q \in Request, PressReindex(q) \/ PressFullReindex(q) \/ Confirm(q)
  PROVE  TypeOK'
  <1>1. CASE PressReindex(q)
    BY <1>1, SendType DEF PressReindex, TypeOK, server
  <1>2. CASE PressFullReindex(q)
    <2>1. [pc |-> "confirm", mode |-> "full"] \in RequestState
      BY DEF RequestState
    <2>2. request' \in [Request -> RequestState]
      BY <1>2, <2>1, RequestBecomesType DEF PressFullReindex
    <2> QED
      BY <1>2, <2>2 DEF PressFullReindex, TypeOK, server, panel
  <1>3. CASE Confirm(q)
    <2>1. /\ request' \in [Request -> RequestState]
          /\ working' \in BOOLEAN /\ failed' \in BOOLEAN
      <3>1. CASE Send(q, "full")
        BY <3>1, SendType
      <3>2. CASE RequestBecomes(q, NoRequest) /\ UNCHANGED <<working, failed>>
        BY <3>2, NothingTypes, RequestBecomesType DEF TypeOK
      <3> QED
        BY <1>3, <3>1, <3>2 DEF Confirm
    <2> QED
      BY <1>3, <2>1 DEF Confirm, TypeOK, server
  <1> QED
    BY <1>1, <1>2, <1>3

LEMMA RequestTypes ==
  ASSUME TypeOK, ActiveHaveRevision, NEW q \in Request,
         Accept(q) \/ Respond(q) \/ RequestFails(q)
  PROVE  TypeOK' /\ ActiveHaveRevision'
  <1>1. CASE Accept(q)
    <2>1. StartRun(q, FALSE)
      BY <1>1 DEF Accept, BoundFullReindex
    <2>2. run' \in [Run -> RunState] /\ ActiveHaveRevision' /\ UNCHANGED state
      BY <2>1, InRun, StartRunType, StartKeepsActive
    <2> QED
      BY <1>1, <2>2 DEF Accept, TypeOK, panel
  <1>2. CASE Respond(q)
    <2>1. [request[q] EXCEPT !.pc = "loading"] \in RequestState
      BY FunctionTypes DEF RequestState
    <2>2. request' \in [Request -> RequestState]
      BY <1>2, <2>1, RequestBecomesType DEF Respond
    <2>3. load' \in [Load -> LoadState]
      BY <1>2, InRun, FirstReadType, LoadBecomesType DEF Respond
    <2>4. NoRun.pc = "idle"
      BY DEF NoRun
    <2>5. run' \in [Run -> RunState] /\ ActiveHaveRevision'
      BY <1>2, <2>4, InRun, NothingTypes, RunBecomesType, KeepsActive DEF Respond
    <2> QED
      BY <1>2, <2>2, <2>3, <2>5 DEF Respond, TypeOK, panel
  <1>3. CASE RequestFails(q)
    <2>1. request' \in [Request -> RequestState]
      BY <1>3, NothingTypes, RequestBecomesType DEF RequestFails
    <2>2. run' \in [Run -> RunState] /\ ActiveHaveRevision'
      <3>1. CASE Active(q)
        BY <1>3, <3>1 DEF RequestFails, Disconnect, TypeOK, ActiveHaveRevision, Active
      <3>2. CASE ~Active(q)
        <4>1. NoRun.pc = "idle" /\ RunBecomes(q, NoRun)
          BY <1>3, <3>2 DEF NoRun, RequestFails, Disconnect
        <4> QED
          BY <4>1, InRun, NothingTypes, RunBecomesType, KeepsActive
      <3> QED
        BY <3>1, <3>2
    <2> QED
      BY <1>3, <2>1, <2>2 DEF RequestFails, TypeOK
  <1> QED
    BY <1>1, <1>2, <1>3

LEMMA InitTypes == Init => TypeOK /\ ActiveHaveRevision
  <1> SUFFICES ASSUME Init PROVE TypeOK /\ ActiveHaveRevision
    OBVIOUS
  <1>1. PICK p \in Poll :
          load = [l \in Load |-> IF l = p THEN [NoLoad EXCEPT !.pc = "last"] ELSE NoLoad]
    BY DEF Init
  <1>2. load \in [Load -> LoadState]
    BY <1>1, FirstReadType, NothingTypes
  <1>3. run \in [Run -> RunState] /\ request \in [Request -> RequestState]
    BY NothingTypes DEF Init
  <1>4. ActiveHaveRevision
    BY DEF Init, NoRun, ActiveHaveRevision, Active
  <1> QED
    BY <1>2, <1>3, <1>4 DEF Init, TypeOK, StateFile

LEMMA TypesNext == TypeOK /\ ActiveHaveRevision /\ [Next]_vars => TypeOK' /\ ActiveHaveRevision'
  <1> SUFFICES ASSUME TypeOK, ActiveHaveRevision, [Next]_vars
               PROVE  TypeOK' /\ ActiveHaveRevision'
    OBVIOUS
  <1>1. ASSUME NEW r \in Run, RunStep(r) \/ AbortRun(r) \/ StartOutside(r)
        PROVE  TypeOK' /\ ActiveHaveRevision'
    BY <1>1, RunTypes
  <1>2. ASSUME UNCHANGED run PROVE ActiveHaveRevision'
    BY <1>2 DEF ActiveHaveRevision, Active
  <1>3. ASSUME NEW l \in Load, LoadStep(l) \/ LoadFails(l)
        PROVE  TypeOK' /\ ActiveHaveRevision'
    <2>1. UNCHANGED run
      BY <1>3 DEF LoadStep, ReadLast, ReadCheckpoint, ReceiveStatus, LoadFails, server
    <2> QED
      BY <1>2, <1>3, <2>1, LoadTypes
  <1>4. ASSUME NEW p \in Poll, Tick(p) PROVE TypeOK' /\ ActiveHaveRevision'
    <2>1. UNCHANGED run
      BY <1>4 DEF Tick, server
    <2> QED
      BY <1>2, <1>4, <2>1, TickTypes
  <1>5. ASSUME NEW q \in Request, PressReindex(q) \/ PressFullReindex(q) \/ Confirm(q)
        PROVE  TypeOK' /\ ActiveHaveRevision'
    <2>1. UNCHANGED run
      BY <1>5 DEF PressReindex, PressFullReindex, Confirm, server
    <2> QED
      BY <1>2, <1>5, <2>1, ButtonTypes
  <1>6. ASSUME NEW q \in Request, Accept(q) \/ Respond(q) \/ RequestFails(q)
        PROVE  TypeOK' /\ ActiveHaveRevision'
    BY <1>6, RequestTypes
  <1>7. CASE Render
    <2>1. page' \in BOOLEAN
      BY <1>7 DEF Render, CanPress, TypeOK, Status
    <2> QED
      BY <1>2, <1>7, <2>1 DEF Render, TypeOK, server, panel
  <1>8. CASE UNCHANGED vars
    BY <1>2, <1>8 DEF vars, TypeOK
  <1> QED
    BY <1>1, <1>3, <1>4, <1>5, <1>6, <1>7, <1>8 DEF Next

\* The state file, the runs, the loads and the panel's flags keep their types.
THEOREM TypeCorrect == Spec => []TypeOK
  <1>1. Spec => [](TypeOK /\ ActiveHaveRevision)
    BY InitTypes, TypesNext, PTL DEF Spec
  <1> QED
    BY <1>1, PTL

-----------------------------------------------------------------------------
(* The panel's work.  A request waits for the load that follows its run exactly    *)
(* while that load is under way; no poll and no other request touches it.          *)

LoadsOfRequests == \A q \in Request : request[q].pc = "loading" <=> load[q].pc # "idle"

WorkInv == LoadsOfRequests /\ WorkAwaitsACall

LEMMA LoadWork ==
  ASSUME TypeOK, WorkInv, NEW l \in Load, LoadStep(l) \/ LoadFails(l)
  PROVE  WorkInv'
  <1>1. CASE ReadLast(l) \/ ReadCheckpoint(l)
    <2>1. /\ \A k \in Load : load'[k].pc = "idle" <=> load[k].pc = "idle"
          /\ UNCHANGED <<request, working>>
      BY <1>1 DEF ReadLast, ReadCheckpoint, LoadBecomes, TypeOK, LoadState, panel
    <2> QED
      BY <2>1, InRun DEF WorkInv, LoadsOfRequests, WorkAwaitsACall
  <1>2. CASE ReceiveStatus(l) \/ LoadFails(l)
    <2>1. AfterLoad(l) /\ load' = [load EXCEPT ![l] = NoLoad]
      BY <1>2 DEF ReceiveStatus, LoadFails, AfterLoad, LoadBecomes
    <2>2. NoLoad.pc = "idle" /\ NoRequest.pc = "idle"
      BY DEF NoLoad, NoRequest
    <2>3. CASE l \in Request
      <3>1. request' = [request EXCEPT ![l] = NoRequest] /\ working' = FALSE
        BY <2>1, <2>3 DEF AfterLoad, RequestBecomes
      <3> QED
        BY <2>1, <2>2, <2>3, <3>1, InRun DEF WorkInv, LoadsOfRequests, WorkAwaitsACall, TypeOK
    <2>4. CASE l \notin Request
      <3>1. UNCHANGED <<request, working>>
        BY <2>1, <2>4 DEF AfterLoad
      <3> QED
        BY <2>1, <2>4, <3>1, InRun DEF WorkInv, LoadsOfRequests, WorkAwaitsACall, TypeOK
    <2> QED
      BY <2>3, <2>4
  <1> QED
    BY <1>1, <1>2 DEF LoadStep

\* A request that is neither sent nor loading becomes one that does not load.
LEMMA SendWork ==
  ASSUME TypeOK, WorkInv, NEW q \in Request, request[q].pc \in {"idle", "confirm"},
         UNCHANGED load,
         \/ \E mode \in {"full", "incremental"} : Send(q, mode)
         \/ /\ \E s \in RequestState : s.pc \in {"idle", "confirm"} /\ RequestBecomes(q, s)
            /\ UNCHANGED working
  PROVE  WorkInv'
  <1>1. load[q].pc = "idle"
    BY DEF WorkInv, LoadsOfRequests
  <1>2. CASE \E mode \in {"full", "incremental"} : Send(q, mode)
    <2> PICK mode \in {"full", "incremental"} : Send(q, mode)
      BY <1>2
    <2>1. request' = [request EXCEPT ![q] = [pc |-> "sent", mode |-> mode]]
      BY DEF Send, RequestBecomes
    <2>2. \A r \in Request \ {q} : request'[r] = request[r]
      BY <2>1 DEF TypeOK
    <2>3. request'[q].pc = "sent"
      BY <2>1 DEF TypeOK
    <2> QED
      BY <1>1, <2>2, <2>3 DEF WorkInv, LoadsOfRequests, WorkAwaitsACall
  <1>3. CASE /\ \E s \in RequestState : s.pc \in {"idle", "confirm"} /\ RequestBecomes(q, s)
             /\ UNCHANGED working
    <2>1. /\ \A r \in Request \ {q} : request'[r] = request[r]
          /\ request'[q].pc \in {"idle", "confirm"}
      BY <1>3 DEF RequestBecomes, TypeOK
    <2> QED
      BY <1>1, <1>3, <2>1 DEF WorkInv, LoadsOfRequests, WorkAwaitsACall
  <1> QED
    BY <1>2, <1>3

LEMMA ButtonWork ==
  ASSUME TypeOK, WorkInv, NEW q \in Request, PressReindex(q) \/ PressFullReindex(q) \/ Confirm(q)
  PROVE  WorkInv'
  <1>1. NoRequest \in RequestState /\ NoRequest.pc = "idle"
    BY NothingTypes DEF NoRequest
  <1>2. CASE PressReindex(q)
    BY <1>2, SendWork DEF PressReindex
  <1>3. CASE PressFullReindex(q)
    <2>1. [pc |-> "confirm", mode |-> "full"] \in RequestState
      BY DEF RequestState
    <2> QED
      BY <1>3, <2>1, SendWork DEF PressFullReindex, panel
  <1>4. CASE Confirm(q)
    BY <1>1, <1>4, SendWork DEF Confirm
  <1> QED
    BY <1>2, <1>3, <1>4

LEMMA RequestWork ==
  ASSUME TypeOK, WorkInv, NEW q \in Request, Respond(q) \/ RequestFails(q)
  PROVE  WorkInv'
  <1>1. CASE Respond(q)
    <2>1. /\ \A r \in Request \ {q} : request'[r] = request[r] /\ load'[r] = load[r]
          /\ UNCHANGED working
      BY <1>1, InRun DEF Respond, RequestBecomes, LoadBecomes, TypeOK, panel
    <2>2. request'[q].pc = "loading"
      BY <1>1, FunctionTypes DEF Respond, RequestBecomes, TypeOK, RequestState
    <2>3. load'[q].pc = "last"
      BY <1>1, InRun DEF Respond, LoadBecomes, TypeOK, NoLoad
    <2> QED
      BY <2>1, <2>2, <2>3 DEF WorkInv, LoadsOfRequests, WorkAwaitsACall
  <1>2. CASE RequestFails(q)
    <2>1. /\ \A r \in Request \ {q} : request'[r] = request[r]
          /\ request'[q].pc = "idle" /\ request[q].pc = "sent"
          /\ working' = FALSE /\ UNCHANGED load
      BY <1>2 DEF RequestFails, RequestBecomes, NoRequest, TypeOK
    <2> QED
      BY <2>1 DEF WorkInv, LoadsOfRequests, WorkAwaitsACall
  <1> QED
    BY <1>1, <1>2

LEMMA WorkNext == TypeOK /\ WorkInv /\ [Next]_vars => WorkInv'
  <1> SUFFICES ASSUME TypeOK, WorkInv, [Next]_vars PROVE WorkInv'
    OBVIOUS
  <1>1. ASSUME UNCHANGED <<load, request, working>> PROVE WorkInv'
    BY <1>1 DEF WorkInv, LoadsOfRequests, WorkAwaitsACall
  <1>2. ASSUME NEW r \in Run, RunStep(r) \/ AbortRun(r) \/ StartOutside(r) PROVE WorkInv'
    BY <1>1, <1>2 DEF RunStep, SaveCheckpoint, ClearCheckpoint, SetLastIndexedRevision,
                      AbortRun, StartOutside, panel
  <1>3. ASSUME NEW p \in Poll, Tick(p) PROVE WorkInv'
    <2>1. (\A q \in Request : load'[q] = load[q]) /\ UNCHANGED <<request, working>>
      BY <1>3, InRun DEF Tick, LoadBecomes, TypeOK, panel
    <2> QED
      BY <2>1 DEF WorkInv, LoadsOfRequests, WorkAwaitsACall
  <1>4. ASSUME NEW q \in Request, Accept(q) PROVE WorkInv'
    BY <1>1, <1>4 DEF Accept, panel
  <1>5. CASE Render \/ UNCHANGED vars
    BY <1>1, <1>5 DEF Render, vars, panel
  <1> QED
    BY <1>2, <1>3, <1>4, <1>5, LoadWork, ButtonWork, RequestWork DEF Next

\* Whatever the order of clicks, answers and failures, the panel is at work only while
\* a call of its own is under way, so that something is still to come that ends it.
THEOREM WorkAlwaysAwaitsACall == Spec => []WorkAwaitsACall
  <1>1. Init => WorkInv
    <2> SUFFICES ASSUME Init PROVE WorkInv
      OBVIOUS
    <2>1. PICK p \in Poll :
            load = [l \in Load |-> IF l = p THEN [NoLoad EXCEPT !.pc = "last"] ELSE NoLoad]
      BY DEF Init
    <2>2. \A q \in Request : load[q].pc = "idle"
      BY <2>1, InRun DEF NoLoad
    <2>3. \A q \in Request : request[q].pc = "idle"
      BY DEF Init, NoRequest
    <2>4. ~working
      BY DEF Init
    <2> QED
      BY <2>2, <2>3, <2>4 DEF WorkInv, LoadsOfRequests, WorkAwaitsACall
  <1>2. TypeOK /\ TypeOK' /\ WorkInv /\ [Next]_vars => WorkInv'
    BY WorkNext
  <1>3. WorkInv => WorkAwaitsACall
    BY DEF WorkInv
  <1> QED
    BY <1>1, <1>2, <1>3, TypeCorrect, PTL DEF Spec
=============================================================================
