--------------------------- MODULE StateStore_proofs ---------------------------
(* With one writer, the state store implements an atomic register, for any      *)
(* number of readers and wherever the calls are cut off.                        *)
EXTENDS StateStore, TLAPS

USE ClientAssumption, ValueAssumption, InodeAssumption

\* A complete file that is not the one being written.
Settled(i) == i # None => content[i] \in Value /\ i # temp

\* The temporary file belongs to the writer; what readers can open is settled.
IInv ==
  /\ TypeOK
  /\ Settled(final)
  /\ \A c \in Client :
       /\ client[c].pc \in {"create", "serialize", "move"}
            => c \in Writer /\ client[c].record \in Value
       /\ client[c].pc = "serialize" => temp # None /\ client[c].inode = temp
       /\ client[c].pc = "move" => temp # None /\ content[temp] \in Value
       /\ client[c].pc = "deserialize" => Settled(client[c].inode)

LEMMA InitInv == Init => IInv
  BY DEF Init, IInv, TypeOK, Settled, Call, NoCall

LEMMA BecomesType ==
  ASSUME TypeOK, NEW c \in Client, NEW s \in Call, Becomes(c, s)
  PROVE  /\ client' \in [Client -> Call]
         /\ client'[c] = s
         /\ \A d \in Client : d # c => client'[d] = client[d]
  BY DEF TypeOK, Becomes

LEMMA NoCallType == NoCall \in Call /\ NoCall.pc = "idle"
  BY DEF NoCall, Call

\* The writer is alone in a write.
LEMMA Alone ==
  ASSUME OneWriter, IInv, NEW c \in Client, NEW d \in Client, c # d,
         client[c].pc \in {"create", "serialize", "move"}
  PROVE  client[d].pc \notin {"create", "serialize", "move"}
  BY DEF OneWriter, IInv

LEMMA StepInv == ASSUME OneWriter, IInv, Next PROVE IInv'
  <1> PICK c \in Client :
        \/ BeginWrite(c) \/ CreateTemp(c) \/ Serialize(c) \/ Move(c)
        \/ OpenRead(c) \/ Deserialize(c) \/ Abort(c)
    BY DEF Next
  <1>t. TypeOK /\ client[c] \in Call
    BY DEF IInv, TypeOK
  <1>1. CASE BeginWrite(c)
    <2>1. PICK v \in Value : Becomes(c, [NoCall EXCEPT !.pc = "create", !.record = v])
      BY <1>1 DEF BeginWrite
    <2> DEFINE s == [NoCall EXCEPT !.pc = "create", !.record = v]
    <2>2. s \in Call /\ s.pc = "create" /\ s.record = v
      BY DEF NoCall, Call
    <2> HIDE DEF s
    <2>3. /\ client' \in [Client -> Call] /\ client'[c] = s
          /\ \A d \in Client : d # c => client'[d] = client[d]
      BY <1>t, <2>1, <2>2, BecomesType DEF s
    <2> QED
      BY <1>1, <2>2, <2>3 DEF BeginWrite, IInv, TypeOK, Settled
  <1>2. CASE CreateTemp(c)
    <2>1. PICK i \in Inode :
            /\ IF temp = None THEN Fresh(i) ELSE i = temp
            /\ temp' = i
            /\ content' = [content EXCEPT ![i] = Partial]
            /\ Becomes(c, [client[c] EXCEPT !.pc = "serialize", !.inode = i])
      BY <1>2 DEF CreateTemp
    <2> DEFINE s == [client[c] EXCEPT !.pc = "serialize", !.inode = i]
    <2>2. s \in Call /\ s.pc = "serialize" /\ s.inode = i /\ s.record = client[c].record
      BY <1>t DEF Call
    <2> HIDE DEF s
    <2>3. /\ client' \in [Client -> Call] /\ client'[c] = s
          /\ \A d \in Client : d # c => client'[d] = client[d]
      BY <1>t, <2>1, <2>2, BecomesType DEF s
    <2>4. client[c].pc = "create" /\ c \in Writer /\ client[c].record \in Value
      BY <1>2 DEF CreateTemp, IInv
    <2>5. i # final /\ \A d \in Client : client[d].pc = "deserialize" => client[d].inode # i
      BY <2>1 DEF IInv, Settled, Fresh, Open
    <2>6. \A d \in Client : d # c => client[d].pc \notin {"create", "serialize", "move"}
      BY <2>4, Alone
    <2>7. content' \in [Inode -> Value \cup {Partial}]
          /\ \A h \in Inode : h # i => content'[h] = content[h]
      BY <1>t, <2>1 DEF TypeOK
    <2>8. TypeOK'
      BY <1>2, <1>t, <2>1, <2>3, <2>7 DEF CreateTemp, TypeOK
    <2>9. Settled(final)'
      BY <1>2, <1>t, <2>1, <2>5, <2>7 DEF CreateTemp, TypeOK, IInv, Settled
    <2>10. ASSUME NEW d \in Client, client'[d].pc = "deserialize"
           PROVE  Settled(client[d].inode)' 
      <3>1. client'[d] = client[d] /\ Settled(client[d].inode) /\ client[d].inode \in Inode \cup {None}
        BY <1>t, <2>2, <2>3, <2>10 DEF IInv, TypeOK, Call
      <3> QED
        BY <2>1, <2>5, <2>7, <2>10, <3>1 DEF Settled
    <2> QED
      BY <2>1, <2>2, <2>3, <2>4, <2>6, <2>8, <2>9, <2>10 DEF IInv
  <1>3. CASE Serialize(c)
    <2> DEFINE s == [client[c] EXCEPT !.pc = "move", !.inode = None]
    <2>1. /\ content' = [content EXCEPT ![temp] = client[c].record]
          /\ temp \in Inode /\ temp' = temp /\ final' = final
          /\ c \in Writer /\ client[c].record \in Value /\ client[c].pc = "serialize"
      BY <1>3, <1>t DEF Serialize, IInv, TypeOK
    <2>2. s \in Call /\ s.pc = "move" /\ s.record = client[c].record
      BY <1>t DEF Call
    <2>3. Becomes(c, s)
      BY <1>3 DEF Serialize
    <2> HIDE DEF s
    <2>4. /\ client' \in [Client -> Call] /\ client'[c] = s
          /\ \A d \in Client : d # c => client'[d] = client[d]
      BY <1>t, <2>2, <2>3, BecomesType
    <2>5. \A d \in Client : d # c => client[d].pc \notin {"create", "serialize", "move"}
      BY <2>1, Alone
    <2>6. /\ content' \in [Inode -> Value \cup {Partial}]
          /\ content'[temp] \in Value
          /\ \A h \in Inode : h # temp => content'[h] = content[h]
      BY <1>t, <2>1 DEF TypeOK
    <2>7. TypeOK'
      BY <1>3, <1>t, <2>1, <2>4, <2>6 DEF Serialize, TypeOK
    <2>8. Settled(final)'
      BY <1>t, <2>1, <2>6 DEF TypeOK, IInv, Settled
    <2>9. ASSUME NEW d \in Client, client'[d].pc = "deserialize"
          PROVE  Settled(client[d].inode)'
      <3>1. client'[d] = client[d] /\ Settled(client[d].inode) /\ client[d].inode \in Inode \cup {None}
        BY <1>t, <2>2, <2>4, <2>9 DEF IInv, TypeOK, Call
      <3> QED
        BY <2>1, <2>6, <3>1 DEF Settled
    <2> QED
      BY <2>1, <2>2, <2>4, <2>5, <2>6, <2>7, <2>8, <2>9 DEF IInv
  <1>4. CASE Move(c)
    <2>1. /\ client[c].pc = "move" /\ content[temp] \in Value /\ temp \in Inode
          /\ final' = temp /\ temp' = None /\ content' = content /\ answer' = answer
      BY <1>4, <1>t DEF Move, IInv, TypeOK
    <2>2. /\ client' \in [Client -> Call] /\ client'[c] = NoCall
          /\ \A d \in Client : d # c => client'[d] = client[d]
      BY <1>4, <1>t, NoCallType, BecomesType DEF Move
    <2>3. \A d \in Client : d # c => client[d].pc \notin {"create", "serialize", "move"}
      BY <2>1, Alone
    <2>4. TypeOK' /\ Settled(final)'
      BY <1>t, <2>1, <2>2 DEF TypeOK, Settled
    <2>5. ASSUME NEW d \in Client, client'[d].pc = "deserialize"
          PROVE  Settled(client[d].inode)'
      BY <2>1, <2>2, <2>5, NoCallType DEF IInv, Settled
    <2> QED
      BY <2>1, <2>2, <2>3, <2>4, <2>5, NoCallType DEF IInv
  <1>5. CASE OpenRead(c)
    <2> DEFINE s == [NoCall EXCEPT !.pc = "deserialize", !.inode = final]
    <2>1. s \in Call /\ s.pc = "deserialize" /\ s.inode = final
      BY <1>t DEF NoCall, Call, TypeOK
    <2>2. Becomes(c, s) /\ UNCHANGED <<final, temp, content, answer>>
      BY <1>5 DEF OpenRead
    <2> HIDE DEF s
    <2>3. /\ client' \in [Client -> Call] /\ client'[c] = s
          /\ \A d \in Client : d # c => client'[d] = client[d]
      BY <1>t, <2>1, <2>2, BecomesType
    <2> QED
      BY <2>1, <2>2, <2>3 DEF IInv, TypeOK, Settled
  <1>6. CASE Deserialize(c) \/ Abort(c)
    <2>1. /\ client' \in [Client -> Call] /\ client'[c] = NoCall
          /\ \A d \in Client : d # c => client'[d] = client[d]
      BY <1>6, <1>t, NoCallType, BecomesType DEF Deserialize, Abort
    <2>2. UNCHANGED <<final, temp, content>>
      BY <1>6 DEF Deserialize, Abort
    <2>3. answer' \in [Client -> Value \cup {None}]
      BY <1>6, <1>t DEF Deserialize, Abort, ContentOf, TypeOK, Call
    <2> QED
      BY <2>1, <2>2, <2>3, NoCallType DEF IInv, TypeOK, Settled
  <1> QED
    BY <1>1, <1>2, <1>3, <1>4, <1>5, <1>6

LEMMA InvNext == OneWriter /\ IInv /\ [Next]_vars => IInv'
  <1>1. ASSUME IInv, UNCHANGED vars PROVE IInv'
    BY <1>1 DEF vars, IInv, TypeOK, Settled
  <1> QED
    BY <1>1, StepInv

LEMMA Invariant == OneWriter => (Spec => []IInv)
  <1> SUFFICES ASSUME OneWriter PROVE Spec => []IInv
    OBVIOUS
  <1>1. IInv /\ [Next]_vars => IInv'
    BY InvNext
  <1> QED
    BY <1>1, InitInv, PTL DEF Spec

\* Every variable keeps its type; in particular what a read returns is a record.
THEOREM TypeCorrect == OneWriter => (Spec => []TypeOK)
  <1>1. IInv => TypeOK
    BY DEF IInv
  <1> QED
    BY <1>1, Invariant, PTL

\* With one writer the state file is a whole record whenever there is one, also
\* after a write that was cut off.
THEOREM FileAlwaysComplete == OneWriter => (Spec => []StateFileComplete)
  <1> SUFFICES ASSUME OneWriter PROVE Spec => []StateFileComplete
    OBVIOUS
  <1>1. IInv => StateFileComplete
    BY DEF IInv, Settled, StateFileComplete, ContentOf
  <1> QED
    BY <1>1, Invariant, PTL

-----------------------------------------------------------------------------
(* Refinement *)

Seen == [c \in Client |-> IF client[c].pc = "deserialize"
                          THEN <<ContentOf(client[c].inode)>> ELSE <<>>]

\* A step that opens and closes nothing for reading, and leaves the files that
\* readers hold alone, is not seen by them.
LEMMA SeenUnchanged ==
  ASSUME \A c \in Client :
           /\ (client'[c].pc = "deserialize") <=> (client[c].pc = "deserialize")
           /\ client[c].pc = "deserialize" =>
                ContentOf(client[c].inode)' = ContentOf(client[c].inode)
  PROVE  Seen' = Seen
  BY DEF Seen

LEMMA OthersSeen ==
  ASSUME NEW c \in Client, \A d \in Client : d # c => client'[d] = client[d],
         UNCHANGED content
  PROVE  \A d \in Client : d # c => Seen'[d] = Seen[d]
  BY DEF Seen, ContentOf

LEMMA SeenChanges ==
  ASSUME NEW c \in Client, \A d \in Client : d # c => Seen'[d] = Seen[d],
         NEW x, Seen'[c] = x
  PROVE  Seen' = [Seen EXCEPT ![c] = x]
  BY DEF Seen

LEMMA StepRefines ==
  ASSUME OneWriter, IInv, Next PROVE [Register!Next]_(Register!vars)
  <1> PICK c \in Client :
        \/ BeginWrite(c) \/ CreateTemp(c) \/ Serialize(c) \/ Move(c)
        \/ OpenRead(c) \/ Deserialize(c) \/ Abort(c)
    BY DEF Next
  <1>t. TypeOK /\ client[c] \in Call
    BY DEF IInv, TypeOK
  <1>u. ASSUME ContentOf(final)' = ContentOf(final), Seen' = Seen, answer' = answer
        PROVE  UNCHANGED Register!vars
    BY <1>u DEF Register!vars, Seen
  <1>1. CASE BeginWrite(c)
    <2>1. PICK v \in Value : client' = [client EXCEPT ![c] = [NoCall EXCEPT !.pc = "create", !.record = v]]
      BY <1>1 DEF BeginWrite, Becomes
    <2>2. \A d \in Client : d # c => client'[d] = client[d]
      BY <1>t, <2>1 DEF TypeOK
    <2>3. client'[c].pc = "create" /\ client[c].pc = "idle"
      BY <1>1, <1>t, <2>1 DEF BeginWrite, TypeOK, NoCall
    <2>4. Seen' = Seen
      BY <1>1, <2>2, <2>3, SeenUnchanged DEF BeginWrite, ContentOf
    <2> QED
      BY <1>1, <1>u, <2>4 DEF BeginWrite, ContentOf
  <1>2. CASE CreateTemp(c)
    <2>1. PICK i \in Inode :
            /\ IF temp = None THEN Fresh(i) ELSE i = temp
            /\ content' = [content EXCEPT ![i] = Partial]
            /\ client' = [client EXCEPT ![c] = [client[c] EXCEPT !.pc = "serialize", !.inode = i]]
      BY <1>2 DEF CreateTemp, Becomes
    <2>2. \A d \in Client : d # c => client'[d] = client[d]
      BY <1>t, <2>1 DEF TypeOK
    <2>3. client'[c].pc = "serialize" /\ client[c].pc = "create" /\ UNCHANGED <<final, answer>>
      BY <1>2, <1>t, <2>1 DEF CreateTemp, TypeOK, Call
    <2>4. i # final /\ \A d \in Client : client[d].pc = "deserialize" => client[d].inode # i
      BY <2>1 DEF IInv, Settled, Fresh, Open
    <2>5. \A h \in Inode \cup {None} : h # i => ContentOf(h)' = ContentOf(h)
      BY <1>t, <2>1 DEF TypeOK, ContentOf
    <2>6. ContentOf(final)' = ContentOf(final)
      BY <1>t, <2>3, <2>4, <2>5 DEF TypeOK, ContentOf
    <2>7. Seen' = Seen
      <3>1. \A d \in Client : client[d].inode \in Inode \cup {None}
        BY <1>t DEF TypeOK, Call
      <3> QED
        BY <2>2, <2>3, <2>4, <2>5, <3>1, SeenUnchanged DEF ContentOf
    <2> QED
      BY <1>u, <2>3, <2>6, <2>7
  <1>3. CASE Serialize(c)
    <2>1. /\ client[c].pc = "serialize" /\ client[c].inode = temp /\ temp \in Inode
          /\ content' = [content EXCEPT ![temp] = client[c].record]
          /\ client' = [client EXCEPT ![c] = [client[c] EXCEPT !.pc = "move", !.inode = None]]
          /\ UNCHANGED <<final, temp, answer>>
      BY <1>3, <1>t DEF Serialize, Becomes, IInv, TypeOK
    <2>2. \A d \in Client : d # c => client'[d] = client[d]
      BY <1>t, <2>1 DEF TypeOK
    <2>3. client'[c].pc = "move"
      BY <1>t, <2>1 DEF TypeOK, Call
    <2>4. temp # final /\ \A d \in Client : client[d].pc = "deserialize" => client[d].inode # temp
      BY <2>1 DEF IInv, Settled
    <2>5. \A h \in Inode \cup {None} : h # temp => ContentOf(h)' = ContentOf(h)
      BY <1>t, <2>1 DEF TypeOK, ContentOf
    <2>6. ContentOf(final)' = ContentOf(final)
      BY <1>t, <2>1, <2>4, <2>5 DEF TypeOK, ContentOf
    <2>7. Seen' = Seen
      <3>1. \A d \in Client : client[d].inode \in Inode \cup {None}
        BY <1>t DEF TypeOK, Call
      <3> QED
        BY <2>1, <2>2, <2>3, <2>4, <2>5, <3>1, SeenUnchanged DEF ContentOf
    <2> QED
      BY <1>u, <2>1, <2>6, <2>7
  <1>4. CASE Move(c)
    <2>1. /\ client[c].pc = "move" /\ content[temp] \in Value /\ temp # None
          /\ final' = temp /\ content' = content /\ answer' = answer
          /\ client' = [client EXCEPT ![c] = NoCall]
      BY <1>4 DEF Move, Becomes, IInv
    <2>2. client'[c] = NoCall /\ \A d \in Client : d # c => client'[d] = client[d]
      BY <1>t, <2>1 DEF TypeOK
    <2>3. Seen' = Seen
      BY <2>1, <2>2, NoCallType, SeenUnchanged DEF ContentOf
    <2>4. ContentOf(final)' \in Value
      BY <2>1 DEF ContentOf
    <2>5. Register!Write
      BY <2>1, <2>3, <2>4 DEF Register!Write, Seen
    <2> QED
      BY <2>5 DEF Register!Next
  <1>5. CASE OpenRead(c)
    <2>1. /\ client[c].pc = "idle" /\ UNCHANGED <<final, content, answer>>
          /\ client' = [client EXCEPT ![c] = [NoCall EXCEPT !.pc = "deserialize", !.inode = final]]
      BY <1>5 DEF OpenRead, Becomes
    <2>2. /\ client'[c].pc = "deserialize" /\ client'[c].inode = final
          /\ \A d \in Client : d # c => client'[d] = client[d]
      BY <1>t, <2>1 DEF TypeOK, NoCall
    <2>3. Seen[c] = <<>> /\ Seen'[c] = <<ContentOf(final)>>
      BY <2>1, <2>2 DEF Seen, ContentOf
    <2>4. Seen' = [Seen EXCEPT ![c] = <<ContentOf(final)>>]
      BY <2>1, <2>2, <2>3, OthersSeen, SeenChanges
    <2>5. Register!Look(c)
      BY <2>1, <2>3, <2>4 DEF Register!Look, Register!NotReading, Seen, ContentOf
    <2> QED
      BY <2>5 DEF Register!Next
  <1>6. CASE Deserialize(c)
    <2>1. /\ client[c].pc = "deserialize" /\ UNCHANGED <<final, content>>
          /\ answer' = [answer EXCEPT ![c] = ContentOf(client[c].inode)]
          /\ client' = [client EXCEPT ![c] = NoCall]
      BY <1>6 DEF Deserialize, Becomes
    <2>2. client'[c] = NoCall /\ \A d \in Client : d # c => client'[d] = client[d]
      BY <1>t, <2>1 DEF TypeOK
    <2>3. Seen[c] = <<ContentOf(client[c].inode)>> /\ Seen'[c] = <<>>
      BY <2>1, <2>2, NoCallType DEF Seen
    <2>4. Seen' = [Seen EXCEPT ![c] = <<>>]
      BY <2>1, <2>2, <2>3, OthersSeen, SeenChanges
    <2>5. Seen[c] # <<>> /\ answer' = [answer EXCEPT ![c] = Seen[c][1]]
      BY <2>1, <2>3
    <2>6. Register!Return(c)
      BY <2>1, <2>4, <2>5 DEF Register!Return, Register!NotReading, Seen, ContentOf
    <2> QED
      BY <2>6 DEF Register!Next
  <1>7. CASE Abort(c)
    <2>1. UNCHANGED <<final, content, answer>> /\ client' = [client EXCEPT ![c] = NoCall]
      BY <1>7 DEF Abort, Becomes
    <2>2. client'[c] = NoCall /\ \A d \in Client : d # c => client'[d] = client[d]
      BY <1>t, <2>1 DEF TypeOK
    <2>3. Seen'[c] = <<>>
      BY <2>2, NoCallType DEF Seen
    <2>4. Seen' = [Seen EXCEPT ![c] = <<>>]
      BY <2>1, <2>2, <2>3, OthersSeen, SeenChanges
    <2>5. Register!GiveUp(c)
      BY <2>1, <2>4 DEF Register!GiveUp, Register!NotReading, Seen, ContentOf
    <2> QED
      BY <2>5 DEF Register!Next
  <1> QED
    BY <1>1, <1>2, <1>3, <1>4, <1>5, <1>6, <1>7

LEMMA InitRefines == Init => Register!Init
  BY NoCallType DEF Init, Register!Init, Register!NotReading, ContentOf

\* With one writer, the temporary file and the move make the state store an atomic
\* register for any number of readers, wherever a call is cut off.
THEOREM StoreIsRegister == OneWriter => (Spec => ImplementsRegister)
  <1> SUFFICES ASSUME OneWriter PROVE Spec => ImplementsRegister
    OBVIOUS
  <1>1. ASSUME UNCHANGED vars PROVE UNCHANGED Register!vars
    BY <1>1 DEF vars, Register!vars, ContentOf
  <1>2. IInv /\ [Next]_vars => [Register!Next]_(Register!vars)
    BY <1>1, StepRefines
  <1> QED
    BY <1>2, Invariant, InitRefines, PTL DEF Spec, ImplementsRegister, Register!Spec
=============================================================================
