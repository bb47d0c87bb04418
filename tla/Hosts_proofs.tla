------------------------------ MODULE Hosts_proofs ------------------------------
(* The start-up of any number of hosts, and any number of questions at each.      *)
EXTENDS Hosts, TLAPS

-----------------------------------------------------------------------------
(* A step of Next, action by action *)

HostStep(h) ==
  \/ Start(h) \/ InitializeAsync(h) \/ CollectionExists(h) \/ CreateCollection(h)
  \/ CreatePayloadIndex(h) \/ (start[h] # "down" /\ Ends(h))

QuestionStep(r) ==
  \/ \E h \in Host : Send(r, h)
  \/ RetrieveContext(r) \/ CheckInitialized(r) \/ WaitInitLock(r)
  \/ EnsureInitialized(r) \/ EnsureInitializedThrows(r)
  \/ WaitInferenceLock(r) \/ InferEnds(r) \/ Cancel(r)

LEMMA Steps ==
  Next => (\E h \in Host : HostStep(h)) \/ \E r \in Request : QuestionStep(r)
  BY DEF Next, StartUp, Answering, HostStep, QuestionStep, Crash, CreateCollectionThrows

-----------------------------------------------------------------------------
(* The start-up *)

\* Past InitializeAsync a host has the model's dimensions; whoever is past the
\* creation of the collection has found or made one of them.
StartInv ==
  /\ collection \in {None, ModelDimensions}
  /\ \A h \in Host : start[h] \in {"ensure", "create", "index", "serving"}
                       => dimensions[h] = ModelDimensions
  /\ \A h \in Host : start[h] \in {"index", "serving"} => collection = ModelDimensions

StartType == /\ start \in [Host -> {"down", "initialize", "ensure", "create", "index", "serving"}]
             /\ dimensions \in [Host -> {DefaultDimensions, ModelDimensions}]

LEMMA StartStep ==
  ASSUME StartType, StartInv, [Next]_vars PROVE StartType' /\ StartInv'
  <1> USE DEF StartType, StartInv
  <1>1. ASSUME NEW h \in Host, HostStep(h) PROVE StartType' /\ StartInv'
    <2>1. CASE Start(h) \/ InitializeAsync(h) \/ CollectionExists(h)
      BY <2>1 DEF Start, InitializeAsync, CollectionExists, Goes, qdrant
    <2>2. CASE CreateCollection(h)
      BY <2>2 DEF CreateCollection, Goes
    <2>3. CASE CreatePayloadIndex(h)
      BY <2>3 DEF CreatePayloadIndex, Goes
    <2>4. CASE Ends(h)
      BY <2>4 DEF Ends, Goes
    <2> QED
      BY <1>1, <2>1, <2>2, <2>3, <2>4 DEF HostStep
  <1>2. ASSUME NEW r \in Request, QuestionStep(r) PROVE StartType' /\ StartInv'
    BY <1>2 DEF QuestionStep, Send, RetrieveContext, CheckInitialized, WaitInitLock,
                EnsureInitialized, EnsureInitializedThrows, WaitInferenceLock, InferEnds,
                Cancel, qdrant
  <1>3. CASE UNCHANGED vars
    BY <1>3 DEF vars
  <1> QED
    BY <1>1, <1>2, <1>3, Steps

\* Whatever the order in which hosts start and end, none serves without the collection,
\* and that has the dimensions of its embedder.
THEOREM ServingAlwaysHasCollection == Spec => []ServingHasCollection
  <1>1. Init => StartType /\ StartInv
    BY DEF Init, StartType, StartInv
  <1>2. StartType /\ StartInv /\ [Next]_vars => (StartType /\ StartInv)'
    BY StartStep
  <1>3. StartInv => ServingHasCollection
    BY DEF StartInv, ServingHasCollection
  <1> QED
    BY <1>1, <1>2, <1>3, PTL DEF Spec

\* The payload index is there or being made, unless its maker has ended.
THEOREM IndexAlwaysOnItsWay == Spec => []IndexIsOnItsWay
  <1> DEFINE I == StartType /\ IndexIsOnItsWay
  <1>1. Init => I
    BY DEF Init, StartType, IndexIsOnItsWay
  <1>2. I /\ [Next]_vars => I'
    <2> SUFFICES ASSUME StartType, IndexIsOnItsWay, [Next]_vars PROVE I'
      OBVIOUS
    <2> USE DEF StartType, IndexIsOnItsWay
    <2>1. ASSUME NEW h \in Host, HostStep(h) PROVE I'
      <3>1. CASE Start(h) \/ InitializeAsync(h) \/ CollectionExists(h)
        BY <3>1 DEF Start, InitializeAsync, CollectionExists, Goes, qdrant
      <3>2. CASE CreateCollection(h) \/ CreatePayloadIndex(h)
        BY <3>2 DEF CreateCollection, CreatePayloadIndex, Goes
      <3>3. CASE Ends(h)
        BY <3>3 DEF Ends, Goes
      <3> QED
        BY <2>1, <3>1, <3>2, <3>3 DEF HostStep
    <2>2. ASSUME NEW r \in Request, QuestionStep(r) PROVE I'
      BY <2>2 DEF QuestionStep, Send, RetrieveContext, CheckInitialized, WaitInitLock,
                  EnsureInitialized, EnsureInitializedThrows, WaitInferenceLock, InferEnds,
                  Cancel, qdrant
    <2>3. CASE UNCHANGED vars
      BY <2>3 DEF vars
    <2> QED
      BY <2>1, <2>2, <2>3, Steps
  <1> QED
    BY <1>1, <1>2, PTL DEF Spec

-----------------------------------------------------------------------------
(* The semaphores *)

\* A question that is inside one of the locks has taken its only count, and no other
\* question of its host is in there.
Inside(pc, lock) ==
  /\ \A r \in Request : question[r] = pc => lock[hostOf[r]] = 0
  /\ \A r, s \in Request : question[r] = pc /\ question[s] = pc /\ hostOf[r] = hostOf[s] => r = s

\* Past the initialisation there is an executor.
Initialized ==
  \A r \in Request : question[r] \in {"inference wait", "infer"} => executor[hostOf[r]] # None

LockInv == Inside("init", initLock) /\ Inside("infer", inferenceLock) /\ Initialized

Count == [Host -> 0..1]

\* A question that is under way has its host; the semaphores are functions of hosts.
LEMMA QuestionType ==
  ASSUME TypeOK, NEW r \in Request
  PROVE  /\ question[r] # "idle" => hostOf[r] \in Host
         /\ initLock \in Count /\ inferenceLock \in Count
  BY DEF TypeOK, Count

LEMMA Hold ==
  ASSUME NEW lock \in Count, NEW h \in Host, lock[h] > 0
  PROVE  Held(lock, h) = [lock EXCEPT ![h] = 0] /\ Held(lock, h) \in Count
  <1>1. lock[h] = 1
    BY DEF Count
  <1> QED
    BY <1>1 DEF Held, Count

LEMMA Release ==
  ASSUME NEW lock \in Count, NEW h \in Host, lock[h] = 0
  PROVE  Released(lock, h) = [lock EXCEPT ![h] = 1] /\ Released(lock, h) \in Count
  BY DEF Released, Count

\* One question moves, none enters the lock at pc and the lock's count stays.
LEMMA InsideStays ==
  ASSUME TypeOK, NEW r \in Request, NEW pc \in {"init", "infer"}, NEW lock, Inside(pc, lock),
         question'[r] # pc,
         \A s \in Request \ {r} : question'[s] = question[s] /\ hostOf'[s] = hostOf[s]
  PROVE  /\ \A s \in Request : question'[s] = pc => lock[hostOf'[s]] = 0
         /\ \A s, t \in Request : question'[s] = pc /\ question'[t] = pc
                                    /\ hostOf'[s] = hostOf'[t] => s = t
  BY DEF Inside

\* The question that gives the count back was alone in the lock.
LEMMA InsideGiven ==
  ASSUME TypeOK, NEW r \in Request, NEW pc \in {"init", "infer"}, NEW lock \in Count,
         Inside(pc, lock), question[r] = pc, question'[r] # pc, hostOf[r] \in Host,
         \A s \in Request \ {r} : question'[s] = question[s] /\ hostOf'[s] = hostOf[s],
         NEW count, count = [lock EXCEPT ![hostOf[r]] = 1]
  PROVE  /\ \A s \in Request : question'[s] = pc => count[hostOf'[s]] = 0
         /\ \A s, t \in Request : question'[s] = pc /\ question'[t] = pc
                                    /\ hostOf'[s] = hostOf'[t] => s = t
  <1>1. \A s \in Request \ {r} : question'[s] = pc
          => hostOf[s] # hostOf[r] /\ lock[hostOf[s]] = 0 /\ hostOf[s] \in Host
    BY DEF Inside, TypeOK
  <1>2. \A s \in Request \ {r} : question'[s] = pc => count[hostOf[s]] = 0
    BY <1>1 DEF Count
  <1> QED
    BY <1>1, <1>2 DEF Inside


-----------------------------------------------------------------------------
QuestionOK ==
  /\ question \in [Request -> {"idle", "retrieve", "check", "init wait", "init",
                               "inference wait", "infer"}]
  /\ hostOf \in [Request -> Host \cup {None}]
  /\ \A r \in Request : question[r] = "idle" <=> hostOf[r] = None

LEMMA TypeHostStep ==
  ASSUME TypeOK, NEW h \in Host, HostStep(h) PROVE TypeOK'
  <1>1. CASE Start(h) \/ InitializeAsync(h) \/ CollectionExists(h)
    BY <1>1 DEF TypeOK, Start, InitializeAsync, CollectionExists, Goes, qdrant, llm, request
  <1>2. CASE CreateCollection(h) \/ CreatePayloadIndex(h)
    BY <1>2 DEF TypeOK, CreateCollection, CreatePayloadIndex, Goes, llm, request
  <1>3. CASE Ends(h)
    <2>1. /\ start' \in [Host -> {"down", "initialize", "ensure", "create", "index", "serving"}]
          /\ dimensions' \in [Host -> {DefaultDimensions, ModelDimensions}]
          /\ executor' \in [Host -> Request \cup {None}]
      BY <1>3 DEF TypeOK, Ends, Goes
    <2>2. initLock' \in [Host -> 0..1] /\ inferenceLock' \in [Host -> 0..1]
      <3>1. initLock \in [Host -> 0..1] /\ inferenceLock \in [Host -> 0..1]
        BY DEF TypeOK
      <3>2. /\ initLock' = [initLock EXCEPT ![h] = 1]
            /\ inferenceLock' = [inferenceLock EXCEPT ![h] = 1]
        BY <1>3 DEF Ends
      <3> QED
        BY <3>1, <3>2
    <2>3. QuestionOK'
      BY <1>3, NoneAssumption DEF TypeOK, QuestionOK, Ends
    <2>4. UNCHANGED <<collection, payloadIndex>> /\ abandoned' \in BOOLEAN
      BY <1>3 DEF TypeOK, Ends
    <2> QED
      BY <2>1, <2>2, <2>3, <2>4 DEF TypeOK, QuestionOK
  <1> QED
    BY <1>1, <1>2, <1>3 DEF HostStep

LEMMA MovesOK ==
  ASSUME TypeOK, NEW r \in Request, question[r] # "idle", Moves(r, "check") \/ Moves(r, "init wait")
           \/ Moves(r, "init") \/ Moves(r, "inference wait") \/ Moves(r, "infer")
  PROVE  QuestionOK'
  BY DEF TypeOK, QuestionOK, Moves

LEMMA LeavesOK ==
  ASSUME TypeOK, NEW r \in Request, Leaves(r) PROVE QuestionOK'
  BY DEF TypeOK, QuestionOK, Leaves

LEMMA TypeQuestionStep ==
  ASSUME TypeOK, LockInv, NEW r \in Request, QuestionStep(r) PROVE TypeOK'
  <1>1. QuestionOK'
    <2>1. ASSUME NEW h \in Host, Send(r, h) PROVE QuestionOK'
      BY <2>1, NoneAssumption DEF Send, TypeOK, QuestionOK
    <2>2. CASE RetrieveContext(r) \/ WaitInitLock(r) \/ EnsureInitialized(r) \/ WaitInferenceLock(r)
      BY <2>2, MovesOK DEF RetrieveContext, WaitInitLock, EnsureInitialized, WaitInferenceLock
    <2>3. CASE CheckInitialized(r)
      <3>1. question[r] # "idle" /\ (Moves(r, "inference wait") \/ Moves(r, "init wait"))
        BY <2>3 DEF CheckInitialized
      <3> QED
        BY <3>1, MovesOK
    <2>4. CASE EnsureInitializedThrows(r) \/ InferEnds(r) \/ Cancel(r)
      BY <2>4, LeavesOK DEF EnsureInitializedThrows, InferEnds, Cancel
    <2> QED
      BY <2>1, <2>2, <2>3, <2>4 DEF QuestionStep
  <1>2. initLock' \in Count /\ inferenceLock' \in Count
    <2>1. CASE UNCHANGED <<initLock, inferenceLock>>
      BY <2>1, QuestionType
    <2>2. CASE WaitInitLock(r) \/ WaitInferenceLock(r)
      BY <2>2, QuestionType, Hold DEF WaitInitLock, WaitInferenceLock
    <2>3. CASE EnsureInitialized(r) \/ EnsureInitializedThrows(r) \/ InferEnds(r)
      <3>1. question[r] = "init" => initLock[hostOf[r]] = 0
        BY DEF LockInv, Inside
      <3>2. question[r] = "infer" => inferenceLock[hostOf[r]] = 0
        BY DEF LockInv, Inside
      <3> QED
        BY <2>3, <3>1, <3>2, QuestionType, Release DEF EnsureInitialized, EnsureInitializedThrows, InferEnds
    <2>4. (\E h \in Host : Send(r, h)) \/ RetrieveContext(r) \/ CheckInitialized(r) \/ Cancel(r)
            => UNCHANGED <<initLock, inferenceLock>>
      BY DEF Send, RetrieveContext, CheckInitialized, Cancel, llm
    <2> QED
      BY <2>1, <2>2, <2>3, <2>4 DEF QuestionStep
  <1>3. executor' \in [Host -> Request \cup {None}]
    <2>1. CASE EnsureInitialized(r)
      BY <2>1 DEF EnsureInitialized, TypeOK
    <2>2. CASE ~EnsureInitialized(r)
      BY <2>2 DEF QuestionStep, Send, RetrieveContext, CheckInitialized, WaitInitLock,
                  EnsureInitializedThrows, WaitInferenceLock, InferEnds, Cancel, llm, TypeOK
    <2> QED
      BY <2>1, <2>2
  <1>4. UNCHANGED <<collection, payloadIndex, abandoned, start, dimensions>>
    BY DEF QuestionStep, Send, RetrieveContext, CheckInitialized, WaitInitLock,
           EnsureInitialized, EnsureInitializedThrows, WaitInferenceLock, InferEnds,
           Cancel, qdrant
  <1> QED
    BY <1>1, <1>2, <1>3, <1>4 DEF TypeOK, QuestionOK, Count

-----------------------------------------------------------------------------
LEMMA LockHostStep ==
  ASSUME TypeOK, LockInv, NEW h \in Host, HostStep(h) PROVE LockInv'
  <1>1. CASE ~Ends(h)
    <2>1. UNCHANGED <<executor, initLock, inferenceLock, question, hostOf>>
      BY <1>1 DEF HostStep, Start, InitializeAsync, CollectionExists, CreateCollection,
                  CreatePayloadIndex, llm, request
    <2> QED
      BY <2>1 DEF LockInv, Inside, Initialized
  <1>2. CASE Ends(h)
    <2>1. ASSUME NEW r \in Request, question'[r] # "idle"
          PROVE  /\ question'[r] = question[r] /\ hostOf'[r] = hostOf[r]
                 /\ hostOf[r] # h /\ hostOf[r] \in Host
      BY <1>2, <2>1 DEF Ends, TypeOK
    <2>2. \A g \in Host \ {h} : /\ executor'[g] = executor[g]
                                /\ initLock'[g] = initLock[g]
                                /\ inferenceLock'[g] = inferenceLock[g]
      BY <1>2 DEF Ends, TypeOK
    <2>3. Inside("init", initLock)'
      BY <2>1, <2>2 DEF LockInv, Inside
    <2>4. Inside("infer", inferenceLock)'
      BY <2>1, <2>2 DEF LockInv, Inside
    <2>5. Initialized'
      BY <2>1, <2>2 DEF LockInv, Initialized
    <2> QED
      BY <2>3, <2>4, <2>5 DEF LockInv
  <1> QED
    BY <1>1, <1>2

LEMMA OthersStay ==
  ASSUME TypeOK, NEW r \in Request, QuestionStep(r)
  PROVE  \A s \in Request \ {r} : question'[s] = question[s] /\ hostOf'[s] = hostOf[s]
  <1>1. CASE \E h \in Host : Send(r, h)
    BY <1>1 DEF Send, TypeOK
  <1>2. CASE Leaves(r)
    BY <1>2 DEF Leaves, TypeOK
  <1>3. CASE \E pc \in {"check", "init wait", "init", "inference wait", "infer"} : Moves(r, pc)
    BY <1>3 DEF Moves, TypeOK
  <1> QED
    BY <1>1, <1>2, <1>3
       DEF QuestionStep, RetrieveContext, CheckInitialized, WaitInitLock, EnsureInitialized,
           EnsureInitializedThrows, WaitInferenceLock, InferEnds, Cancel

LEMMA InitLockStep ==
  ASSUME TypeOK, LockInv, NEW r \in Request, QuestionStep(r) PROVE Inside("init", initLock)'
  <1>1. Inside("init", initLock)
    BY DEF LockInv
  <1>2. CASE WaitInitLock(r)
    <2>1. /\ question[r] # "idle" /\ initLock[hostOf[r]] > 0 /\ hostOf' = hostOf
          /\ initLock' = Held(initLock, hostOf[r])
      BY <1>2 DEF WaitInitLock, Moves
    <2>2. hostOf[r] \in Host /\ initLock \in Count
      BY <2>1, QuestionType
    <2>3. initLock' = [initLock EXCEPT ![hostOf[r]] = 0] /\ initLock[hostOf[r]] # 0
      BY <2>1, <2>2, Hold
    <2>4. \A s \in Request \ {r} : question'[s] = question[s] /\ hostOf'[s] = hostOf[s]
      BY OthersStay
    <2>5. \A s \in Request \ {r} : question'[s] = "init"
            => hostOf[s] # hostOf[r] /\ initLock[hostOf[s]] = 0 /\ hostOf[s] \in Host
      BY <1>1, <2>3, <2>4, QuestionType DEF Inside
    <2>6. \A s \in Request : question'[s] = "init" => initLock'[hostOf'[s]] = 0
      BY <2>1, <2>2, <2>3, <2>4, <2>5 DEF Count
    <2>7. \A s, t \in Request : question'[s] = "init" /\ question'[t] = "init"
                                  /\ hostOf'[s] = hostOf'[t] => s = t
      BY <1>1, <2>1, <2>4, <2>5 DEF Inside
    <2> QED
      BY <2>6, <2>7 DEF Inside
  <1>3. CASE EnsureInitialized(r) \/ EnsureInitializedThrows(r)
    <2>1. question[r] = "init" /\ question'[r] # "init" /\ initLock' = Released(initLock, hostOf[r])
      BY <1>3 DEF EnsureInitialized, EnsureInitializedThrows, Moves, Leaves, TypeOK
    <2>2. hostOf[r] \in Host /\ initLock' = [initLock EXCEPT ![hostOf[r]] = 1]
      BY <1>1, <2>1, QuestionType, Release DEF Inside
    <2> QED
      BY <1>1, <2>1, <2>2, QuestionType, OthersStay, InsideGiven DEF Inside
  <1>4. CASE ~(WaitInitLock(r) \/ EnsureInitialized(r) \/ EnsureInitializedThrows(r))
    <2>1. question'[r] # "init" /\ initLock' = initLock
      BY <1>4 DEF QuestionStep, Send, RetrieveContext, CheckInitialized, WaitInferenceLock,
                  InferEnds, Cancel, Moves, Leaves, TypeOK, llm
    <2> QED
      BY <1>1, <2>1, OthersStay, InsideStays DEF Inside
  <1> QED
    BY <1>2, <1>3, <1>4

LEMMA InferenceLockStep ==
  ASSUME TypeOK, LockInv, NEW r \in Request, QuestionStep(r)
  PROVE  Inside("infer", inferenceLock)'
  <1>1. Inside("infer", inferenceLock)
    BY DEF LockInv
  <1>2. CASE WaitInferenceLock(r)
    <2>1. /\ question[r] # "idle" /\ inferenceLock[hostOf[r]] > 0 /\ hostOf' = hostOf
          /\ inferenceLock' = Held(inferenceLock, hostOf[r])
      BY <1>2 DEF WaitInferenceLock, Moves
    <2>2. hostOf[r] \in Host /\ inferenceLock \in Count
      BY <2>1, QuestionType
    <2>3. inferenceLock' = [inferenceLock EXCEPT ![hostOf[r]] = 0] /\ inferenceLock[hostOf[r]] # 0
      BY <2>1, <2>2, Hold
    <2>4. \A s \in Request \ {r} : question'[s] = question[s] /\ hostOf'[s] = hostOf[s]
      BY OthersStay
    <2>5. \A s \in Request \ {r} : question'[s] = "infer"
            => hostOf[s] # hostOf[r] /\ inferenceLock[hostOf[s]] = 0 /\ hostOf[s] \in Host
      BY <1>1, <2>3, <2>4, QuestionType DEF Inside
    <2>6. \A s \in Request : question'[s] = "infer" => inferenceLock'[hostOf'[s]] = 0
      BY <2>1, <2>2, <2>3, <2>4, <2>5 DEF Count
    <2>7. \A s, t \in Request : question'[s] = "infer" /\ question'[t] = "infer"
                                  /\ hostOf'[s] = hostOf'[t] => s = t
      BY <1>1, <2>1, <2>4, <2>5 DEF Inside
    <2> QED
      BY <2>6, <2>7 DEF Inside
  <1>3. CASE InferEnds(r)
    <2>1. /\ question[r] = "infer" /\ question'[r] # "infer"
          /\ inferenceLock' = Released(inferenceLock, hostOf[r])
      BY <1>3 DEF InferEnds, Leaves, TypeOK
    <2>2. hostOf[r] \in Host /\ inferenceLock' = [inferenceLock EXCEPT ![hostOf[r]] = 1]
      BY <1>1, <2>1, QuestionType, Release DEF Inside
    <2> QED
      BY <1>1, <2>1, <2>2, QuestionType, OthersStay, InsideGiven DEF Inside
  <1>4. CASE ~(WaitInferenceLock(r) \/ InferEnds(r))
    <2>1. question'[r] # "infer" /\ inferenceLock' = inferenceLock
      BY <1>4 DEF QuestionStep, Send, RetrieveContext, CheckInitialized, WaitInitLock,
                  EnsureInitialized, EnsureInitializedThrows, Cancel, Moves, Leaves, TypeOK, llm
    <2> QED
      BY <1>1, <2>1, OthersStay, InsideStays DEF Inside
  <1> QED
    BY <1>2, <1>3, <1>4

LEMMA InitializedStep ==
  ASSUME TypeOK, LockInv, NEW r \in Request, QuestionStep(r) PROVE Initialized'
  <1>1. \A g \in Host : executor[g] # None => executor'[g] # None
    BY DEF QuestionStep, Send, RetrieveContext, CheckInitialized, WaitInitLock,
           EnsureInitialized, EnsureInitializedThrows, WaitInferenceLock, InferEnds,
           Cancel, llm, TypeOK
  <1>2. ASSUME NEW s \in Request \ {r}, question'[s] \in {"inference wait", "infer"}
        PROVE  executor'[hostOf'[s]] # None
    BY <1>1, <1>2, OthersStay, QuestionType DEF LockInv, Initialized
  <1>3. ASSUME question'[r] \in {"inference wait", "infer"} PROVE executor'[hostOf'[r]] # None
    <2>1. CASE EnsureInitialized(r)
      <3>1. hostOf' = hostOf /\ hostOf[r] \in Host
        BY <2>1, QuestionType DEF EnsureInitialized, Moves
      <3> QED
        BY <2>1, <3>1, NoneAssumption DEF EnsureInitialized, TypeOK
    <2>2. CASE CheckInitialized(r)
      BY <1>3, <2>2 DEF CheckInitialized, Moves, TypeOK, llm
    <2>3. CASE WaitInferenceLock(r)
      <3>1. question[r] = "inference wait" /\ hostOf' = hostOf /\ executor' = executor
        BY <2>3 DEF WaitInferenceLock, Moves
      <3> QED
        BY <3>1 DEF LockInv, Initialized
    <2>4. CASE ~(EnsureInitialized(r) \/ CheckInitialized(r) \/ WaitInferenceLock(r))
      BY <1>3, <2>4 DEF QuestionStep, Send, RetrieveContext, WaitInitLock,
           EnsureInitializedThrows, InferEnds, Cancel, Moves, Leaves, TypeOK
    <2> QED
      BY <2>1, <2>2, <2>3, <2>4
  <1> QED
    BY <1>2, <1>3 DEF Initialized

LEMMA LockStep == TypeOK /\ LockInv /\ [Next]_vars => (TypeOK /\ LockInv)'
  <1> SUFFICES ASSUME TypeOK, LockInv, [Next]_vars PROVE TypeOK' /\ LockInv'
    OBVIOUS
  <1>1. ASSUME NEW h \in Host, HostStep(h) PROVE TypeOK' /\ LockInv'
    BY <1>1, TypeHostStep, LockHostStep
  <1>2. ASSUME NEW r \in Request, QuestionStep(r) PROVE TypeOK' /\ LockInv'
    BY <1>2, TypeQuestionStep, InitLockStep, InferenceLockStep, InitializedStep DEF LockInv
  <1>3. CASE UNCHANGED vars
    BY <1>3 DEF vars, TypeOK, LockInv, Inside, Initialized
  <1> QED
    BY <1>1, <1>2, <1>3, Steps

LEMMA LockInit == Init => TypeOK /\ LockInv
  <1> SUFFICES ASSUME Init PROVE TypeOK /\ LockInv
    OBVIOUS
  <1>1. \A r \in Request : question[r] = "idle"
    BY DEF Init
  <1>2. LockInv
    BY <1>1 DEF LockInv, Inside, Initialized
  <1>3. initLock \in [Host -> 0..1] /\ inferenceLock \in [Host -> 0..1]
    BY DEF Init
  <1>4. TypeOK
    BY <1>3 DEF Init, TypeOK
  <1> QED
    BY <1>2, <1>4

\* Every variable keeps its type; in particular no semaphore is released more often
\* than it was taken.
THEOREM TypeCorrect == Spec => []TypeOK
  BY LockInit, LockStep, PTL DEF Spec

\* One question at a time uses an executor, which is there, whatever is cancelled.
THEOREM AlwaysOneInference == Spec => []OneInference
  <1>1. LockInv => OneInference
    BY DEF LockInv, Inside, Initialized, OneInference
  <1> QED
    BY <1>1, LockInit, LockStep, PTL DEF Spec

\* No executor is replaced while its host lives.
THEOREM ExecutorAlwaysStays == Spec => ExecutorStays
  <1>1. ASSUME TypeOK, [Next]_vars
        PROVE  [\A h \in Host : executor[h] # None
                  => executor'[h] = executor[h] \/ start'[h] = "down"]_vars
    <2> SUFFICES ASSUME Next, NEW g \in Host, executor[g] # None
                 PROVE  executor'[g] = executor[g] \/ start'[g] = "down"
      BY <1>1
    <2>1. ASSUME NEW h \in Host, HostStep(h)
          PROVE  executor'[g] = executor[g] \/ start'[g] = "down"
      <3>1. CASE Ends(h)
        BY <1>1, <3>1 DEF Ends, Goes, TypeOK
      <3>2. CASE ~Ends(h)
        BY <2>1, <3>2 DEF HostStep, Start, InitializeAsync, CollectionExists, CreateCollection,
                          CreatePayloadIndex, llm
      <3> QED
        BY <3>1, <3>2
    <2>2. ASSUME NEW r \in Request, QuestionStep(r) PROVE executor'[g] = executor[g]
      <3>1. CASE EnsureInitialized(r)
        BY <1>1, <3>1 DEF EnsureInitialized, TypeOK
      <3>2. CASE ~EnsureInitialized(r)
        BY <2>2, <3>2 DEF QuestionStep, Send, RetrieveContext, CheckInitialized, WaitInitLock,
                          EnsureInitializedThrows, WaitInferenceLock, InferEnds, Cancel, llm
      <3> QED
        BY <3>1, <3>2
    <2> QED
      BY <1>1, <2>1, <2>2, Steps
  <1> QED
    BY <1>1, TypeCorrect, PTL DEF Spec, ExecutorStays
=============================================================================
