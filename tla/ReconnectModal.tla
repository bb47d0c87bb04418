------------------------------ MODULE ReconnectModal ------------------------------
(* The reconnect dialogue of the web client: the event handlers of             *)
(* ReconnectModal.razor.js, the two functions they start, retry and resume, and *)
(* the Blazor client that raises the events and answers the calls.              *)
(*                                                                              *)
(* A step is what the browser does in one task: an event with its handlers, or  *)
(* the answer to a call with the code up to the next await.  The continuation   *)
(* of a promise runs before the next event, so an answer and what the code does *)
(* with it are one step.                                                        *)
CONSTANT Call    \* the invocations of retry and resume that may be awaited at once

VARIABLES
  reachable,  \* the server answers
  circuit,    \* at the server: held in memory, stored for a resume, or gone
  class,      \* components-reconnect-<class> of the dialog: Blazor's view
  open,       \* the dialog is shown as a modal
  listening,  \* retryWhenDocumentBecomesVisible listens to visibilitychange
  visible,    \* document.visibilityState = "visible"
  page,       \* the page with its scripts, or the browser loading it again
  call        \* what each invocation awaits

server == <<reachable, circuit>>
vars == <<reachable, circuit, class, open, listening, visible, page, call>>

\* A retry awaits Blazor.reconnect or Blazor.resumeCircuit, a resume the latter.
\* A promise whose attempt could not reach the server is rejected some time later.
Retrying(c) == call[c] \in {"reconnect", "resumeCircuit", "unreached"}

TypeOK ==
  /\ reachable \in BOOLEAN /\ open \in BOOLEAN /\ listening \in BOOLEAN /\ visible \in BOOLEAN
  /\ circuit \in {"held", "stored", "gone"}
  /\ class \in {"hide", "show", "failed", "paused", "resume-failed"}
  /\ page \in {"live", "reloading"}
  /\ call \in [Call -> {"idle", "reconnect", "resumeCircuit", "unreached",
                        "resume", "resume unreached"}]

\* A page that has just been loaded; its script adds the handlers of the modal
\* and of the two buttons.
FreshPage ==
  /\ page = "live" /\ class = "hide" /\ open = FALSE /\ listening = FALSE
  /\ call = [c \in Call |-> "idle"]

Init ==
  /\ FreshPage
  /\ reachable = TRUE /\ circuit = "held" /\ visible = TRUE

Becomes(c, awaited) == call' = [call EXCEPT ![c] = awaited]

-----------------------------------------------------------------------------
(* Handlers *)

\* Variant: the tab is not watched after Blazor has given up.
HandleAllButFailed(state) ==
  /\ open' = ((open \/ state = "show") /\ state # "hide")
  /\ page' = (IF state = "rejected" THEN "reloading" ELSE page)
  /\ UNCHANGED listening

\* Variant: nothing is done when the session is back.
HandleAllButHide(state) ==
  /\ open' = (open \/ state = "show")
  /\ listening' = (listening \/ state = "failed")
  /\ page' = (IF state = "rejected" THEN "reloading" ELSE page)

\* Variant: a server that was not reached counts as one that refused.
HandleFailedAsRejected(state) ==
  /\ open' = ((open \/ state = "show") /\ state # "hide")
  /\ page' = (IF state \in {"failed", "rejected"} THEN "reloading" ELSE page)
  /\ UNCHANGED listening

\* A listener that is added twice is there once.
HandleReconnectStateChanged(state) ==
  /\ open' = ((open \/ state = "show") /\ state # "hide")
  /\ listening' = (listening \/ state = "failed")
  /\ page' = (IF state = "rejected" THEN "reloading" ELSE page)

Retry(c) ==
  /\ call[c] = "idle"
  /\ listening' = FALSE
  /\ Becomes(c, "reconnect")

ClickRetry(c) ==
  /\ page = "live" /\ visible /\ class = "failed"
  /\ Retry(c)
  /\ UNCHANGED <<server, class, open, visible, page>>

\* The button is inside the dialog and in no other class than these.
ClickResume(c) ==
  /\ page = "live" /\ visible /\ open /\ class \in {"paused", "resume-failed"}
  /\ call[c] = "idle"
  /\ Becomes(c, "resume")
  /\ UNCHANGED <<server, class, open, listening, visible, page>>

HideTab ==
  /\ page = "live" /\ visible
  /\ visible' = FALSE
  /\ UNCHANGED <<server, class, open, listening, page, call>>

\* RetryWhenDocumentBecomesVisible
ShowTab ==
  /\ page = "live" /\ ~visible
  /\ visible' = TRUE
  /\ IF listening THEN \E c \in Call : Retry(c) ELSE UNCHANGED <<listening, call>>
  /\ UNCHANGED <<server, class, open, page>>

-----------------------------------------------------------------------------
(* Blazor and the server *)

Raise(state, newClass) ==
  /\ page = "live"
  /\ HandleReconnectStateChanged(state)
  /\ class' = newClass
  /\ UNCHANGED visible

Drop ==
  /\ class = "hide"
  /\ Raise("show", "show")
  /\ UNCHANGED <<server, call>>

\* The server stores the circuit and closes the connection.
Pause ==
  /\ class = "hide" /\ reachable
  /\ Raise("show", "paused")
  /\ circuit' = "stored"
  /\ UNCHANGED <<reachable, call>>

\* Blazor's own attempts, after the last of which it gives up.
AutoReconnect ==
  /\ class = "show" /\ reachable
  /\ IF circuit = "held" THEN Raise("hide", "hide") ELSE Raise("rejected", class)
  /\ UNCHANGED <<server, call>>

GiveUp ==
  /\ class = "show"
  /\ Raise("failed", "failed")
  /\ UNCHANGED <<server, call>>

ReachabilityChanges ==
  /\ reachable' = ~reachable
  /\ UNCHANGED <<circuit, class, open, listening, visible, page, call>>

\* A circuit without a connection is stored, a stored one is dropped; a restart of
\* the server drops it at once.
Evict ==
  /\ class # "hide" /\ circuit # "gone"
  /\ circuit' \in {"stored", "gone"}
  /\ UNCHANGED <<reachable, class, open, listening, visible, page, call>>

-----------------------------------------------------------------------------
(* Answers to retry *)

ReconnectSucceeds(c) ==
  /\ call[c] = "reconnect" /\ reachable /\ circuit = "held"
  /\ Raise("hide", "hide")
  /\ Becomes(c, "idle")
  /\ UNCHANGED server

\* The server was reached and does not know the circuit.
ReconnectRefused(c) ==
  /\ page = "live"
  /\ call[c] = "reconnect" /\ reachable /\ circuit # "held"
  /\ Becomes(c, "resumeCircuit")
  /\ UNCHANGED <<server, class, open, listening, visible, page>>

\* What is stored can be resumed once.  Blazor says hide; that retry closes the
\* dialog again has no further effect.
ResumeCircuit(c, awaited) ==
  /\ call[c] = awaited /\ reachable /\ circuit = "stored"
  /\ Raise("hide", "hide")
  /\ circuit' = "held"
  /\ Becomes(c, "idle")
  /\ UNCHANGED reachable

\* Variant: an unsuccessful resume ends the retry, as an unsuccessful reconnect would.
ResumeRefusedQuietly(c, awaited) ==
  /\ page = "live"
  /\ call[c] = awaited /\ reachable /\ circuit # "stored"
  /\ Becomes(c, "idle")
  /\ UNCHANGED <<server, class, open, listening, visible, page>>

\* Nothing is left to resume: location.reload().
ResumeRefused(c, awaited) ==
  /\ page = "live"
  /\ call[c] = awaited /\ reachable /\ circuit # "stored"
  /\ page' = "reloading"
  /\ Becomes(c, "idle")
  /\ UNCHANGED <<server, class, open, listening, visible>>

Unreached(c) ==
  /\ page = "live" /\ ~reachable
  /\ \/ call[c] \in {"reconnect", "resumeCircuit"} /\ Becomes(c, "unreached")
     \/ call[c] = "resume" /\ Becomes(c, "resume unreached")
  /\ UNCHANGED <<server, class, open, listening, visible, page>>

\* The exception of either call of retry: watch the tab again.
RetryCatch(c) ==
  /\ page = "live"
  /\ call[c] = "unreached"
  /\ listening' = TRUE
  /\ Becomes(c, "idle")
  /\ UNCHANGED <<server, class, open, visible, page>>

\* Variant: the class of a dialog that is trying again, which only Blazor sets.
ResumeCatchRetrying(c) ==
  /\ page = "live"
  /\ call[c] = "resume unreached"
  /\ class' = (IF class = "paused" THEN "retrying" ELSE class)
  /\ Becomes(c, "idle")
  /\ UNCHANGED <<server, open, listening, visible, page>>

\* The exception of resume.  classList.replace does nothing unless the class is there.
ResumeCatch(c) ==
  /\ page = "live"
  /\ call[c] = "resume unreached"
  /\ class' = (IF class = "paused" THEN "resume-failed" ELSE class)
  /\ Becomes(c, "idle")
  /\ UNCHANGED <<server, open, listening, visible, page>>

\* The page starts over with a circuit of its own.
Load ==
  /\ page = "reloading" /\ reachable
  /\ page' = "live" /\ class' = "hide" /\ open' = FALSE /\ listening' = FALSE
  /\ call' = [c \in Call |-> "idle"]
  /\ circuit' = "held"
  /\ UNCHANGED <<reachable, visible>>

-----------------------------------------------------------------------------
Blazor == Drop \/ Pause \/ AutoReconnect \/ GiveUp

User == HideTab \/ ShowTab \/ \E c \in Call : ClickRetry(c) \/ ClickResume(c)

Answer(c) ==
  \/ ReconnectSucceeds(c) \/ ReconnectRefused(c)
  \/ \E awaited \in {"resumeCircuit", "resume"} :
       ResumeCircuit(c, awaited) \/ ResumeRefused(c, awaited)
  \/ RetryCatch(c) \/ ResumeCatch(c)

Next ==
  \/ Blazor \/ User \/ Load
  \/ ReachabilityChanges \/ Evict
  \/ \E c \in Call : Answer(c) \/ Unreached(c)

Spec == Init /\ [][Next]_vars

\* Blazor goes on with its attempts and each call is answered; the user looks at
\* the tab now and then and presses Resume in a paused session.  Nobody has to
\* press Retry.
FairSpec ==
  /\ Spec
  /\ WF_vars(AutoReconnect \/ GiveUp)
  /\ \A c \in Call : WF_vars(Answer(c))
  /\ WF_vars(HideTab) /\ WF_vars(ShowTab)
  /\ SF_vars(\E c \in Call : ClickResume(c))
  /\ WF_vars(Load)

-----------------------------------------------------------------------------
(* Properties *)

\* After Blazor has given up the user is never left with a page that waits for
\* nothing: a retry is under way, or the tab's next becoming visible starts one.
\* Each way out of retry has to see to it, whatever else is under way.
AlwaysAnotherTry ==
  page = "live" /\ class = "failed" => listening \/ \E c \in Call : Retrying(c)

\* A session that is away has its dialog, which the Resume button needs to be
\* seen; a session that is back has none in the user's way.
DialogWhileAway == page = "live" => (open <=> class # "hide")

\* Once the server can be reached for good, the user gets back to a working page,
\* in the old session or a new one, by looking at the tab and without pressing Retry.
Rejoins ==
  LET Joined == page = "live" /\ class = "hide"
  IN <>[]reachable => (~Joined ~> Joined)

\* The call asks for a session that another call has brought back meanwhile.
Overtaken(c) == call[c] \in {"resumeCircuit", "resume"} /\ circuit = "held"

\* A page whose session lives is reloaded, and what the user has in it lost, by no
\* event and no failure to reach the server: only by the answer to a call that was
\* overtaken, and a call is overtaken only by another one's successful resume.
ReloadOnlyWhenOvertaken ==
  [][/\ page = "live" /\ page' = "reloading" /\ circuit = "held" =>
          \E c \in Call : Overtaken(c) /\ call'[c] = "idle"
     /\ \A c \in Call : ~Overtaken(c) /\ Overtaken(c)' =>
          \E d \in Call \ {c} : /\ call[d] \in {"resumeCircuit", "resume"}
                               /\ call'[d] = "idle" /\ class' = "hide"]_vars
=============================================================================
