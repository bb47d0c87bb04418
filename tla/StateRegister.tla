---------------------------- MODULE StateRegister ----------------------------
(* What the callers of the index state store are promised: a state file whose *)
(* record is read and written atomically.  A read that takes its time gives   *)
(* the record as it was at one moment, or fails.                              *)

CONSTANTS Client, Value, None

VARIABLES
  value,   \* the record, None if there is no state file
  seen,    \* what each client's read under way is going to return
  answer   \* what the last read of each client returned

vars == <<value, seen, answer>>

NotReading == <<>>

Init ==
  /\ value = None
  /\ seen = [c \in Client |-> NotReading]
  /\ answer = [c \in Client |-> None]

Write ==
  /\ value' \in Value
  /\ UNCHANGED <<seen, answer>>

Look(c) ==
  /\ seen[c] = NotReading
  /\ seen' = [seen EXCEPT ![c] = <<value>>]
  /\ UNCHANGED <<value, answer>>

Return(c) ==
  /\ seen[c] # NotReading
  /\ answer' = [answer EXCEPT ![c] = seen[c][1]]
  /\ seen' = [seen EXCEPT ![c] = NotReading]
  /\ UNCHANGED value

GiveUp(c) ==
  /\ seen' = [seen EXCEPT ![c] = NotReading]
  /\ UNCHANGED <<value, answer>>

Next == Write \/ \E c \in Client : Look(c) \/ Return(c) \/ GiveUp(c)

Spec == Init /\ [][Next]_vars
=============================================================================
