-------------------------------- MODULE Hosts --------------------------------
(* The hosts, Api and McpHost: their start-up, which both run against the one     *)
(* Qdrant collection, and the questions they answer with the local model, which   *)
(* each process has one of: LlamaSharpLlmProvider and its two semaphores.          *)
(*                                                                                *)
(* A step is an await with the code up to the next one.  Requests run on           *)
(* different threads, so the check of _initialized outside the lock is a step of   *)
(* its own.  A host that ends, by an exception at its start or killed, is started  *)
(* again (restart: unless-stopped in docker-compose.yml).                          *)
EXTENDS Naturals

CONSTANTS
  Host,
  Request,            \* questions, of any client
  DefaultDimensions,  \* what Dimensions says before the model is loaded
  ModelDimensions,
  None

ASSUME DimensionsAssumption == None \notin {DefaultDimensions, ModelDimensions}
ASSUME NoneAssumption == None \notin Host \cup Request

VARIABLES
  collection,     \* dimensions of the collection, or None
  payloadIndex,   \* the index on file_path exists
  abandoned,      \* a host has ended between the two, so nobody creates the index
  start,          \* where each host's start-up is
  dimensions,     \* the embedding provider's, of each host
  executor,       \* _executor, named for the request that made it; _initialized
  initLock,       \* CurrentCount of each host's _initLock
  inferenceLock,  \* and of its _inferenceLock
  question,       \* where each question is
  hostOf          \* the host that is asked, or None

qdrant == <<collection, payloadIndex, abandoned>>
llm == <<executor, initLock, inferenceLock>>
request == <<question, hostOf>>
vars == <<collection, payloadIndex, abandoned, start, dimensions,
          executor, initLock, inferenceLock, question, hostOf>>

TypeOK ==
  /\ collection \in {None, DefaultDimensions, ModelDimensions}
  /\ payloadIndex \in BOOLEAN /\ abandoned \in BOOLEAN
  /\ start \in [Host -> {"down", "initialize", "ensure", "create", "index", "serving"}]
  /\ dimensions \in [Host -> {DefaultDimensions, ModelDimensions}]
  /\ executor \in [Host -> Request \cup {None}]
  /\ initLock \in [Host -> 0..1] /\ inferenceLock \in [Host -> 0..1]
  /\ question \in [Request -> {"idle", "retrieve", "check", "init wait", "init",
                               "inference wait", "infer"}]
  /\ hostOf \in [Request -> Host \cup {None}]
  /\ \A r \in Request : question[r] = "idle" <=> hostOf[r] = None

Init ==
  /\ collection = None /\ payloadIndex = FALSE /\ abandoned = FALSE
  /\ start = [h \in Host |-> "down"]
  /\ dimensions = [h \in Host |-> DefaultDimensions]
  /\ executor = [h \in Host |-> None]
  /\ initLock = [h \in Host |-> 1] /\ inferenceLock = [h \in Host |-> 1]
  /\ question = [r \in Request |-> "idle"]
  /\ hostOf = [r \in Request |-> None]

-----------------------------------------------------------------------------
(* Start-up *)

Goes(h, pc) == start' = [start EXCEPT ![h] = pc]

Start(h) ==
  /\ start[h] = "down"
  /\ Goes(h, "initialize")
  /\ UNCHANGED <<qdrant, dimensions, llm, request>>

\* Variant: the collection is ensured before the model is loaded.
InitializeLater(h) ==
  /\ start[h] = "initialize"
  /\ Goes(h, "ensure")
  /\ UNCHANGED <<qdrant, dimensions, llm, request>>

\* Nobody else uses the provider yet, so its lock is free and the model not loaded.
InitializeAsync(h) ==
  /\ start[h] = "initialize"
  /\ dimensions' = [dimensions EXCEPT ![h] = ModelDimensions]
  /\ Goes(h, "ensure")
  /\ UNCHANGED <<qdrant, llm, request>>

\* Variant: the collection is created without a look.
CollectionNotAskedFor(h) ==
  /\ start[h] = "ensure"
  /\ Goes(h, "create")
  /\ UNCHANGED <<qdrant, dimensions, llm, request>>

CollectionExists(h) ==
  /\ start[h] = "ensure"
  /\ Goes(h, IF collection = None THEN "create" ELSE "serving")
  /\ UNCHANGED <<qdrant, dimensions, llm, request>>

\* Variant: the payload index is left out.
CreateCollectionOnly(h) ==
  /\ start[h] = "create" /\ collection = None
  /\ collection' = dimensions[h]
  /\ Goes(h, "serving")
  /\ UNCHANGED <<payloadIndex, abandoned, dimensions, llm, request>>

CreateCollection(h) ==
  /\ start[h] = "create" /\ collection = None
  /\ collection' = dimensions[h]
  /\ Goes(h, "index")
  /\ UNCHANGED <<payloadIndex, abandoned, dimensions, llm, request>>

CreatePayloadIndex(h) ==
  /\ start[h] = "index"
  /\ payloadIndex' = TRUE
  /\ Goes(h, "serving")
  /\ UNCHANGED <<collection, abandoned, dimensions, llm, request>>

\* The process is gone with its providers and the requests it was answering.
Ends(h) ==
  /\ Goes(h, "down")
  /\ abandoned' = (abandoned \/ start[h] = "index")
  /\ dimensions' = [dimensions EXCEPT ![h] = DefaultDimensions]
  /\ executor' = [executor EXCEPT ![h] = None]
  /\ initLock' = [initLock EXCEPT ![h] = 1]
  /\ inferenceLock' = [inferenceLock EXCEPT ![h] = 1]
  /\ question' = [r \in Request |-> IF hostOf[r] = h THEN "idle" ELSE question[r]]
  /\ hostOf' = [r \in Request |-> IF hostOf[r] = h THEN None ELSE hostOf[r]]
  /\ UNCHANGED <<collection, payloadIndex>>

\* Qdrant refuses to create what exists: the exception ends the host's Main.
CreateCollectionThrows(h) ==
  /\ start[h] = "create" /\ collection # None
  /\ Ends(h)

\* Any other exception of the start-up, or a process that is killed.
Crash(h) ==
  /\ start[h] # "down"
  /\ Ends(h)

-----------------------------------------------------------------------------
(* Questions: CompleteAsync and EnsureInitializedAsync *)

Moves(r, pc) == question' = [question EXCEPT ![r] = pc] /\ UNCHANGED hostOf
Leaves(r) == /\ question' = [question EXCEPT ![r] = "idle"]
             /\ hostOf' = [hostOf EXCEPT ![r] = None]
Held(lock, h) == [lock EXCEPT ![h] = @ - 1]
Released(lock, h) == [lock EXCEPT ![h] = @ + 1]

\* ChatQueryCommand, from the endpoint or the tool.
Send(r, h) ==
  /\ question[r] = "idle" /\ start[h] = "serving"
  /\ question' = [question EXCEPT ![r] = "retrieve"]
  /\ hostOf' = [hostOf EXCEPT ![r] = h]
  /\ UNCHANGED <<qdrant, start, dimensions, llm>>

\* Embedding, search and the files of the hits.
RetrieveContext(r) ==
  /\ question[r] = "retrieve" /\ collection # None
  /\ Moves(r, "check")
  /\ UNCHANGED <<qdrant, start, dimensions, llm>>

CheckInitialized(r) ==
  /\ question[r] = "check"
  /\ Moves(r, IF executor[hostOf[r]] # None THEN "inference wait" ELSE "init wait")
  /\ UNCHANGED <<qdrant, start, dimensions, llm>>

WaitInitLock(r) ==
  /\ question[r] = "init wait" /\ initLock[hostOf[r]] > 0
  /\ initLock' = Held(initLock, hostOf[r])
  /\ Moves(r, "init")
  /\ UNCHANGED <<qdrant, start, dimensions, executor, inferenceLock>>

\* Variant: the check is not repeated inside the lock.
EnsureInitializedUnchecked(r) ==
  /\ question[r] = "init"
  /\ executor' = [executor EXCEPT ![hostOf[r]] = r]
  /\ initLock' = Released(initLock, hostOf[r])
  /\ Moves(r, "inference wait")
  /\ UNCHANGED <<qdrant, start, dimensions, inferenceLock>>

\* Inside the lock: check again, load the weights, make the executor.
EnsureInitialized(r) ==
  /\ question[r] = "init"
  /\ executor' = [executor EXCEPT ![hostOf[r]] = IF @ = None THEN r ELSE @]
  /\ initLock' = Released(initLock, hostOf[r])
  /\ Moves(r, "inference wait")
  /\ UNCHANGED <<qdrant, start, dimensions, inferenceLock>>

\* The model cannot be loaded; the lock is released.
EnsureInitializedThrows(r) ==
  /\ question[r] = "init" /\ executor[hostOf[r]] = None
  /\ initLock' = Released(initLock, hostOf[r])
  /\ Leaves(r)
  /\ UNCHANGED <<qdrant, start, dimensions, executor, inferenceLock>>

WaitInferenceLock(r) ==
  /\ question[r] = "inference wait" /\ inferenceLock[hostOf[r]] > 0
  /\ inferenceLock' = Held(inferenceLock, hostOf[r])
  /\ Moves(r, "infer")
  /\ UNCHANGED <<qdrant, start, dimensions, executor, initLock>>

\* Variant: the lock is released after the answer, not in a finally.
InferEndsWithoutFinally(r) ==
  /\ question[r] = "infer"
  /\ \/ inferenceLock' = Released(inferenceLock, hostOf[r])
     \/ UNCHANGED inferenceLock
  /\ Leaves(r)
  /\ UNCHANGED <<qdrant, start, dimensions, executor, initLock>>

\* The answer, an exception of the executor or a cancellation between two tokens.
InferEnds(r) ==
  /\ question[r] = "infer"
  /\ inferenceLock' = Released(inferenceLock, hostOf[r])
  /\ Leaves(r)
  /\ UNCHANGED <<qdrant, start, dimensions, executor, initLock>>

\* Variant: WaitAsync is inside the try, so a wait that is cancelled releases.
CancelReleases(r) ==
  /\ question[r] \in {"retrieve", "check", "init wait", "inference wait"}
  /\ inferenceLock' = (IF question[r] = "inference wait" THEN Released(inferenceLock, hostOf[r])
                       ELSE inferenceLock)
  /\ Leaves(r)
  /\ UNCHANGED <<qdrant, start, dimensions, executor, initLock>>

\* The client goes away, or an earlier call fails, while no lock is held.
Cancel(r) ==
  /\ question[r] \in {"retrieve", "check", "init wait", "inference wait"}
  /\ Leaves(r)
  /\ UNCHANGED <<qdrant, start, dimensions, llm>>

-----------------------------------------------------------------------------
StartUp(h) == \/ InitializeAsync(h) \/ CollectionExists(h)
              \/ CreateCollection(h) \/ CreateCollectionThrows(h) \/ CreatePayloadIndex(h)

Answering(r) == \/ RetrieveContext(r) \/ CheckInitialized(r)
                \/ WaitInitLock(r) \/ EnsureInitialized(r) \/ EnsureInitializedThrows(r)
                \/ WaitInferenceLock(r) \/ InferEnds(r)

Next == \/ \E h \in Host : Start(h) \/ StartUp(h) \/ Crash(h)
        \/ \E r \in Request : (\E h \in Host : Send(r, h)) \/ Answering(r) \/ Cancel(r)

Spec == Init /\ [][Next]_vars

\* Hosts are started again and their start-up goes on; so do requests, the semaphores
\* let waiters in in their order, and the number of tokens of an answer is bounded.
FairSpec ==
  /\ Spec
  /\ \A h \in Host : WF_vars(Start(h)) /\ WF_vars(StartUp(h))
  /\ \A r \in Request : WF_vars(Answering(r)) /\ SF_vars(WaitInitLock(r))
                                             /\ SF_vars(WaitInferenceLock(r))

-----------------------------------------------------------------------------
(* Properties *)

\* A question finds a collection, one that fits the vectors of the embedder: no
\* order in which two hosts start, and end half-way, has one serve before that.
ServingHasCollection ==
  \A h \in Host : start[h] = "serving" => collection = ModelDimensions /\ dimensions[h] = collection

\* Without its index on file_path the collection is only left by a host that ended
\* between creating the two; otherwise a host is at it.
IndexIsOnItsWay ==
  collection # None => payloadIndex \/ abandoned \/ \E h \in Host : start[h] = "index"

\* An executor answers one question at a time, whatever was cancelled or failed;
\* it must be there when it is used, and is not thread-safe (FIX-008).
OneInference ==
  \A r \in Request : question[r] = "infer" =>
    /\ executor[hostOf[r]] # None
    /\ \A s \in Request : question[s] = "infer" /\ hostOf[s] = hostOf[r] => s = r

\* The weights of a host are loaded once: no executor, which others may be using or
\* about to use, is replaced by a second one while the host lives.
ExecutorStays ==
  [][\A h \in Host : executor[h] # None => executor'[h] = executor[h] \/ start'[h] = "down"]_vars

\* Once hosts are no longer killed, both get to serve, although the second of two
\* that create the collection fails and has to be started again.
HostsServe ==
  LET Killed(h) == Crash(h) /\ ~(start[h] = "create" /\ collection # None)
  IN <>[][\A h \in Host : ~Killed(h)]_vars => <>[](\A h \in Host : start[h] = "serving")

\* Each question is answered or given up, and none waits for a lock for ever.
QuestionsEnd == \A r \in Request : question[r] # "idle" ~> question[r] = "idle"
=============================================================================
