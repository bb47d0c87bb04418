------------------------- MODULE ReconnectModal_proofs -------------------------
(* The invariants of the reconnect dialogue and what its steps may not do, for   *)
(* any number of calls that overlap.                                             *)
EXTENDS ReconnectModal, TLAPS

-----------------------------------------------------------------------------
(* A step of Next, action by action *)

CallStep(c) ==
  \/ ClickRetry(c) \/ ClickResume(c)
  \/ ReconnectSucceeds(c) \/ ReconnectRefused(c)
  \/ ResumeCircuit(c, "resumeCircuit") \/ ResumeCircuit(c, "resume")
  \/ ResumeRefused(c, "resumeCircuit") \/ ResumeRefused(c, "resume")
  \/ RetryCatch(c) \/ ResumeCatch(c) \/ Unreached(c)

OtherStep ==
  \/ Drop \/ Pause \/ AutoReconnect \/ GiveUp
  \/ HideTab \/ ShowTab \/ Load \/ ReachabilityChanges \/ Evict

LEMMA Steps == Next => OtherStep \/ \E c \in Call : CallStep(c)
  BY DEF Next, Blazor, User, Answer, OtherStep, CallStep

LEMMA BecomesType ==
  ASSUME TypeOK, NEW c \in Call, NEW s, Becomes(c, s)
  PROVE  /\ call' = [call EXCEPT ![c] = s]
         /\ call'[c] = s
         /\ \A d \in Call : d # c => call'[d] = call[d]
  BY DEF TypeOK, Becomes

-----------------------------------------------------------------------------
(* Types *)

LEMMA TypeStep == ASSUME TypeOK, Next PROVE TypeOK'
  <1>1. CASE OtherStep
    BY <1>1 DEF OtherStep, TypeOK, Drop, Pause, AutoReconnect, GiveUp, HideTab, ShowTab, Load,
                ReachabilityChanges, Evict, Raise, HandleReconnectStateChanged, Retry,
                Becomes, server
  <1>2. ASSUME NEW c \in Call, CallStep(c) PROVE TypeOK'
    BY <1>2 DEF CallStep, TypeOK, ClickRetry, ClickResume, ReconnectSucceeds, ReconnectRefused,
                ResumeCircuit, ResumeRefused, RetryCatch, ResumeCatch, Unreached, Raise,
                HandleReconnectStateChanged, Retry, Becomes, server
  <1> QED
    BY <1>1, <1>2, Steps

\* Every variable keeps its type, whatever the browser, Blazor and the server do.
THEOREM TypeCorrect == Spec => []TypeOK
  <1>1. Init => TypeOK
    BY DEF Init, FreshPage, TypeOK
  <1>2. TypeOK /\ [Next]_vars => TypeOK'
    <2>1. CASE UNCHANGED vars
      BY <2>1 DEF TypeOK, vars
    <2> QED
      BY <2>1, TypeStep
  <1> QED
    BY <1>1, <1>2, PTL DEF Spec

-----------------------------------------------------------------------------
(* Nobody waits for nothing *)

\* The retries that are under way after a step of one call.
LEMMA RetriesLeft ==
  ASSUME TypeOK, NEW c \in Call, NEW s, Becomes(c, s),
         s \in {"reconnect", "resumeCircuit", "unreached"} \/ ~Retrying(c)
  PROVE  (\E d \in Call : Retrying(d)) => (\E d \in Call : Retrying(d)')
  BY BecomesType DEF Retrying

LEMMA AnotherTryStep ==
  ASSUME TypeOK, AlwaysAnotherTry, Next PROVE AlwaysAnotherTry'
  <1> USE DEF AlwaysAnotherTry
  <1>1. CASE OtherStep
    <2>1. CASE Drop \/ Pause \/ AutoReconnect \/ GiveUp
      BY <2>1 DEF Drop, Pause, AutoReconnect, GiveUp, Raise, HandleReconnectStateChanged, Retrying
    <2>2. CASE ShowTab
      <3>1. CASE listening
        <4>1. PICK c \in Call : Retry(c)
          BY <2>2, <3>1 DEF ShowTab
        <4> QED
          BY <4>1, BecomesType DEF Retry, Retrying
      <3>2. CASE ~listening
        BY <2>2, <3>2 DEF ShowTab, Retrying
      <3> QED
        BY <3>1, <3>2
    <2>3. CASE HideTab \/ Load \/ ReachabilityChanges \/ Evict
      BY <2>3 DEF HideTab, Load, ReachabilityChanges, Evict, Retrying, server
    <2> QED
      BY <1>1, <2>1, <2>2, <2>3 DEF OtherStep
  <1>2. ASSUME NEW c \in Call, CallStep(c) PROVE AlwaysAnotherTry'
    <2>1. CASE ClickRetry(c) \/ ReconnectRefused(c)
      <3>1. Becomes(c, "reconnect") \/ Becomes(c, "resumeCircuit")
        BY <2>1 DEF ClickRetry, Retry, ReconnectRefused
      <3> QED
        BY <3>1, BecomesType DEF Retrying
    <2>2. CASE ReconnectSucceeds(c) \/ ResumeCircuit(c, "resumeCircuit") \/ ResumeCircuit(c, "resume")
      BY <2>2 DEF ReconnectSucceeds, ResumeCircuit, Raise
    <2>3. CASE ResumeRefused(c, "resumeCircuit") \/ ResumeRefused(c, "resume")
      BY <2>3 DEF ResumeRefused
    <2>4. CASE RetryCatch(c)
      BY <2>4 DEF RetryCatch
    <2>5. CASE ClickResume(c) \/ ResumeCatch(c)
      <3>1. /\ page' = page /\ listening' = listening
            /\ class' = "failed" => class = "failed"
            /\ ~Retrying(c)
            /\ Becomes(c, "resume") \/ Becomes(c, "idle")
        BY <2>5 DEF ClickResume, ResumeCatch, Retrying
      <3> QED
        BY <3>1, RetriesLeft
    <2>6. CASE Unreached(c)
      <3>1. /\ page' = page /\ listening' = listening /\ class' = class
            /\ \/ Becomes(c, "unreached")
               \/ Becomes(c, "resume unreached") /\ ~Retrying(c)
        BY <2>6 DEF Unreached, Retrying
      <3> QED
        BY <3>1, RetriesLeft
    <2> QED
      BY <1>2, <2>1, <2>2, <2>3, <2>4, <2>5, <2>6 DEF CallStep
  <1> QED
    BY <1>1, <1>2, Steps

\* However many retries overlap and however they end, a page that Blazor has given
\* up on has a retry under way or listens for the tab's becoming visible.
THEOREM NeverWaitsForNothing == Spec => []AlwaysAnotherTry
  <1>1. Init => AlwaysAnotherTry
    BY DEF Init, FreshPage, AlwaysAnotherTry
  <1>2. TypeOK /\ AlwaysAnotherTry /\ [Next]_vars => AlwaysAnotherTry'
    <2>1. CASE UNCHANGED vars
      BY <2>1 DEF AlwaysAnotherTry, Retrying, vars
    <2> QED
      BY <2>1, AnotherTryStep
  <1> QED
    BY <1>1, <1>2, TypeCorrect, PTL DEF Spec

-----------------------------------------------------------------------------
(* The dialogue *)

\* The dialogue is up exactly while the session is away, for any overlapping calls.
THEOREM DialogAlwaysWhileAway == Spec => []DialogWhileAway
  <1> USE DEF DialogWhileAway
  <1>1. Init => DialogWhileAway
    BY DEF Init, FreshPage
  <1>2. ASSUME DialogWhileAway, [Next]_vars PROVE DialogWhileAway'
    <2>1. CASE UNCHANGED vars
      BY <1>2, <2>1 DEF vars
    <2>2. CASE OtherStep
      BY <1>2, <2>2 DEF OtherStep, Drop, Pause, AutoReconnect, GiveUp, HideTab, ShowTab, Load,
                        ReachabilityChanges, Evict, Raise, HandleReconnectStateChanged, server
    <2>3. ASSUME NEW c \in Call, CallStep(c) PROVE DialogWhileAway'
      BY <1>2, <2>3 DEF CallStep, ClickRetry, ClickResume, ReconnectSucceeds, ReconnectRefused,
                        ResumeCircuit, ResumeRefused, RetryCatch, ResumeCatch, Unreached,
                        Raise, HandleReconnectStateChanged, server
    <2> QED
      BY <1>2, <2>1, <2>2, <2>3, Steps
  <1> QED
    BY <1>1, <1>2, PTL DEF Spec

-----------------------------------------------------------------------------
(* Sessions that live *)

\* In a paused dialogue there is something to resume, or nothing.
PausedNotHeld == class \in {"paused", "resume-failed"} => circuit # "held"

LEMMA PausedStep == ASSUME PausedNotHeld, Next PROVE PausedNotHeld'
  <1> USE DEF PausedNotHeld
  <1>1. CASE OtherStep
    BY <1>1 DEF OtherStep, Drop, Pause, AutoReconnect, GiveUp, HideTab, ShowTab, Load,
                ReachabilityChanges, Evict, Raise, server
  <1>2. ASSUME NEW c \in Call, CallStep(c) PROVE PausedNotHeld'
    BY <1>2 DEF CallStep, ClickRetry, ClickResume, ReconnectSucceeds, ReconnectRefused,
                ResumeCircuit, ResumeRefused, RetryCatch, ResumeCatch, Unreached, Raise, server
  <1> QED
    BY <1>1, <1>2, Steps

\* What a step may do to a page and to the calls that are under way.
ReloadOvertaken ==
  page = "live" /\ page' = "reloading" /\ circuit = "held" =>
    \E c \in Call : Overtaken(c) /\ call'[c] = "idle"

OvertakenByResume ==
  \A c \in Call : ~Overtaken(c) /\ Overtaken(c)' =>
    \E d \in Call \ {c} : /\ call[d] \in {"resumeCircuit", "resume"}
                         /\ call'[d] = "idle" /\ class' = "hide"

LEMMA ReloadStep == ASSUME TypeOK, Next PROVE ReloadOvertaken
  <1> USE DEF ReloadOvertaken
  <1>1. CASE OtherStep
    BY <1>1 DEF OtherStep, Drop, Pause, AutoReconnect, GiveUp, HideTab, ShowTab, Load,
                ReachabilityChanges, Evict, Raise, HandleReconnectStateChanged
  <1>2. ASSUME NEW c \in Call, CallStep(c) PROVE ReloadOvertaken
    <2>1. CASE ResumeRefused(c, "resumeCircuit") \/ ResumeRefused(c, "resume")
      <3>1. call'[c] = "idle" /\ call[c] \in {"resumeCircuit", "resume"}
        BY <2>1, BecomesType DEF ResumeRefused
      <3> QED
        BY <3>1 DEF Overtaken
    <2>2. CASE ~(ResumeRefused(c, "resumeCircuit") \/ ResumeRefused(c, "resume"))
      BY <1>2, <2>2 DEF CallStep, ClickRetry, ClickResume, ReconnectSucceeds, ReconnectRefused,
           ResumeCircuit, RetryCatch, ResumeCatch, Unreached, Raise, HandleReconnectStateChanged
    <2> QED
      BY <2>1, <2>2
  <1> QED
    BY <1>1, <1>2, Steps

LEMMA OvertakenStep == ASSUME TypeOK, PausedNotHeld, Next PROVE OvertakenByResume
  <1> SUFFICES ASSUME NEW c \in Call, ~Overtaken(c), Overtaken(c)'
               PROVE  \E d \in Call \ {c} : /\ call[d] \in {"resumeCircuit", "resume"}
                                           /\ call'[d] = "idle" /\ class' = "hide"
    BY DEF OvertakenByResume
  <1>0. call'[c] \in {"resumeCircuit", "resume"} /\ circuit' = "held"
    BY DEF Overtaken
  <1>1. CASE OtherStep
    <2>1. CASE ShowTab
      <3>1. CASE listening
        <4>1. PICK d \in Call : Retry(d)
          BY <2>1, <3>1 DEF ShowTab
        <4>2. call'[c] = call[c] \/ call'[c] = "reconnect"
          BY <4>1, BecomesType DEF Retry
        <4> QED
          BY <1>0, <2>1, <4>2 DEF ShowTab, Overtaken, server
      <3>2. CASE ~listening
        BY <1>0, <2>1, <3>2 DEF ShowTab, Overtaken, server
      <3> QED
        BY <3>1, <3>2
    <2>2. CASE Load
      BY <1>0, <2>2 DEF Load
    <2>3. CASE ~ShowTab /\ ~Load
      BY <1>0, <1>1, <2>3 DEF OtherStep, Drop, Pause, AutoReconnect, GiveUp, HideTab,
                              ReachabilityChanges, Evict, Raise, server, Overtaken
    <2> QED
      BY <2>1, <2>2, <2>3
  <1>2. ASSUME NEW d \in Call, CallStep(d)
        PROVE  \E e \in Call \ {c} : /\ call[e] \in {"resumeCircuit", "resume"}
                                    /\ call'[e] = "idle" /\ class' = "hide"
    <2>1. CASE ResumeCircuit(d, "resumeCircuit") \/ ResumeCircuit(d, "resume")
      <3>1. /\ call'[d] = "idle" /\ class' = "hide"
            /\ call[d] \in {"resumeCircuit", "resume"}
        BY <2>1, BecomesType DEF ResumeCircuit, Raise
      <3> QED
        BY <1>0, <3>1
    <2>2. CASE ReconnectRefused(d) \/ ClickResume(d)
      <3>1. circuit # "held" /\ circuit' = circuit
        BY <2>2 DEF ReconnectRefused, ClickResume, PausedNotHeld, server
      <3> QED
        BY <1>0, <3>1
    <2>3. CASE ClickRetry(d)
      <3>1. circuit' = circuit /\ (call'[c] = call[c] \/ call'[c] = "reconnect")
        BY <2>3, BecomesType DEF ClickRetry, Retry, server
      <3> QED
        BY <1>0, <3>1 DEF Overtaken
    <2>4. CASE \/ ReconnectSucceeds(d) \/ RetryCatch(d) \/ ResumeCatch(d) \/ Unreached(d)
               \/ ResumeRefused(d, "resumeCircuit") \/ ResumeRefused(d, "resume")
      <3>1. /\ circuit' = circuit
            /\ Becomes(d, "idle") \/ Becomes(d, "unreached") \/ Becomes(d, "resume unreached")
        BY <2>4 DEF ReconnectSucceeds, RetryCatch, ResumeCatch, Unreached, ResumeRefused, server
      <3>2. call'[c] = call[c] \/ call'[c] \in {"idle", "unreached", "resume unreached"}
        BY <3>1, BecomesType
      <3> QED
        BY <1>0, <3>1, <3>2 DEF Overtaken
    <2> QED
      BY <1>2, <2>1, <2>2, <2>3, <2>4 DEF CallStep
  <1> QED
    BY <1>1, <1>2, Steps

\* However many retries and resumes overlap: a session that lives is thrown away by a
\* reload only on the answer to a call that another one's successful resume overtook.
THEOREM LiveSessionReloadedOnlyByOvertaken == Spec => ReloadOnlyWhenOvertaken
  <1>1. Init => PausedNotHeld
    BY DEF Init, FreshPage, PausedNotHeld
  <1>2. PausedNotHeld /\ [Next]_vars => PausedNotHeld'
    <2>1. CASE UNCHANGED vars
      BY <2>1 DEF PausedNotHeld, vars
    <2> QED
      BY <2>1, PausedStep
  <1>3. TypeOK /\ PausedNotHeld /\ [Next]_vars => [ReloadOvertaken /\ OvertakenByResume]_vars
    BY ReloadStep, OvertakenStep
  <1>4. Spec => [][ReloadOvertaken /\ OvertakenByResume]_vars
    BY <1>1, <1>2, <1>3, TypeCorrect, PTL DEF Spec
  <1> QED
    BY <1>4, PTL DEF ReloadOnlyWhenOvertaken, ReloadOvertaken, OvertakenByResume
=============================================================================
