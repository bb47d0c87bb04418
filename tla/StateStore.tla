------------------------------ MODULE StateStore ------------------------------
(* FileIndexStateStore at the level of files: ReadStateAsync and                *)
(* WriteStateAsync, on which its public methods are built.  A write goes to     *)
(* .sourcerag-state.json.tmp and is moved over .sourcerag-state.json.  The      *)
(* clients are calls in one or several hosts; each may be cut off at any point  *)
(* by an I/O error, a cancellation or a crash.                                  *)
(*                                                                              *)
(* A name refers to an inode; an open file stays what it is when its name is    *)
(* moved or replaced.                                                           *)
CONSTANTS
  Client,    \* the calls of the store
  Writer,    \* those that write
  Value,     \* the serialised records
  Partial,   \* the content of a file that is not written to its end
  Inode,
  None

ASSUME ClientAssumption == Writer \subseteq Client
ASSUME ValueAssumption == None \notin Value /\ Partial \notin Value /\ None # Partial
ASSUME InodeAssumption == None \notin Inode

VARIABLES
  final,     \* the inode named .sourcerag-state.json
  temp,      \* the inode named .sourcerag-state.json.tmp
  content,   \* the content of every inode
  client,    \* where each call is
  answer     \* what the last read of each client returned

vars == <<final, temp, content, client, answer>>

Call == [pc : {"idle", "create", "serialize", "move", "deserialize"},
         inode : Inode \cup {None},
         record : Value \cup {None}]

NoCall == [pc |-> "idle", inode |-> None, record |-> None]

TypeOK ==
  /\ final \in Inode \cup {None}
  /\ temp \in Inode \cup {None}
  /\ content \in [Inode -> Value \cup {Partial}]
  /\ client \in [Client -> Call]
  /\ answer \in [Client -> Value \cup {None}]

Init ==
  /\ final = None /\ temp = None
  /\ content = [i \in Inode |-> Partial]
  /\ client = [c \in Client |-> NoCall]
  /\ answer = [c \in Client |-> None]

Becomes(c, s) == client' = [client EXCEPT ![c] = s]

\* The streams that are open.  FileShare.None keeps everybody else out of a file
\* that is being written, FileShare.Read keeps writers out of one being read.
Open(c, i) == client[c].pc \in {"serialize", "deserialize"} /\ client[c].inode = i
Writing(c, i) == client[c].pc = "serialize" /\ client[c].inode = i

\* An inode with no name that nobody has open.
Fresh(i) == i \notin {final, temp} /\ \A c \in Client : ~Open(c, i)

-----------------------------------------------------------------------------
(* WriteStateAsync *)

\* Variant: a null record is written, as ClearCheckpointAsync would if it did not
\* return early when there is no state file.
BeginWriteOfNull(c) ==
  /\ c \in Writer
  /\ client[c].pc = "idle"
  /\ \E v \in Value \cup {None} :
       Becomes(c, [NoCall EXCEPT !.pc = "create", !.record = v])
  /\ UNCHANGED <<final, temp, content, answer>>

BeginWrite(c) ==
  /\ c \in Writer
  /\ client[c].pc = "idle"
  /\ \E v \in Value : Becomes(c, [NoCall EXCEPT !.pc = "create", !.record = v])
  /\ UNCHANGED <<final, temp, content, answer>>

\* Variant: the state file is written in place.
CreateInPlace(c) ==
  /\ client[c].pc = "create"
  /\ \E i \in Inode :
       /\ IF final = None THEN Fresh(i) ELSE i = final /\ \A d \in Client : ~Open(d, i)
       /\ final' = i
       /\ content' = [content EXCEPT ![i] = Partial]
       /\ Becomes(c, [client[c] EXCEPT !.pc = "serialize", !.inode = i])
  /\ UNCHANGED <<temp, answer>>

\* FileMode.Create: a new file, or the existing one emptied.
CreateTemp(c) ==
  /\ client[c].pc = "create"
  /\ \E i \in Inode :
       /\ IF temp = None THEN Fresh(i) ELSE i = temp /\ \A d \in Client : ~Open(d, i)
       /\ temp' = i
       /\ content' = [content EXCEPT ![i] = Partial]
       /\ Becomes(c, [client[c] EXCEPT !.pc = "serialize", !.inode = i])
  /\ UNCHANGED <<final, answer>>

\* SerializeAsync, and the end of the stream's scope.
Serialize(c) ==
  /\ client[c].pc = "serialize"
  /\ content' = [content EXCEPT ![client[c].inode] = client[c].record]
  /\ Becomes(c, [client[c] EXCEPT !.pc = "move", !.inode = None])
  /\ UNCHANGED <<final, temp, answer>>

\* Variant: the file is moved while its stream is open.
MoveUnfinished(c) ==
  /\ client[c].pc \in {"serialize", "move"}
  /\ temp # None
  /\ final' = temp
  /\ temp' = None
  /\ Becomes(c, NoCall)
  /\ UNCHANGED <<content, answer>>

\* File.Move takes what the name stands for by now.  (Windows does not move a file
\* that is open; there the step may only be taken once the file is closed.)
Move(c) ==
  /\ client[c].pc = "move"
  /\ temp # None
  /\ final' = temp
  /\ temp' = None
  /\ Becomes(c, NoCall)
  /\ UNCHANGED <<content, answer>>

-----------------------------------------------------------------------------
(* ReadStateAsync *)

\* File.Exists and File.OpenRead; a state file never goes away.
OpenRead(c) ==
  /\ client[c].pc = "idle"
  /\ \A d \in Client : ~Writing(d, final)
  /\ Becomes(c, [NoCall EXCEPT !.pc = "deserialize", !.inode = final])
  /\ UNCHANGED <<final, temp, content, answer>>

ContentOf(i) == IF i = None THEN None ELSE content[i]

\* DeserializeAsync throws on a file that is not a whole record.
Deserialize(c) ==
  /\ client[c].pc = "deserialize"
  /\ ContentOf(client[c].inode) # Partial
  /\ answer' = [answer EXCEPT ![c] = ContentOf(client[c].inode)]
  /\ Becomes(c, NoCall)
  /\ UNCHANGED <<final, temp, content>>

\* An exception, a cancellation or a crash: the streams are closed, the files stay.
Abort(c) ==
  /\ client[c].pc # "idle"
  /\ Becomes(c, NoCall)
  /\ UNCHANGED <<final, temp, content, answer>>

Next == \E c \in Client :
  \/ BeginWrite(c) \/ CreateTemp(c) \/ Serialize(c) \/ Move(c)
  \/ OpenRead(c) \/ Deserialize(c) \/ Abort(c)

Spec == Init /\ [][Next]_vars

-----------------------------------------------------------------------------
(* Properties *)

OneWriter == \A c, d \in Writer : c = d

\* The state file is a whole record at all times, so that every reader can parse
\* it and a crash leaves the old record or the new one.
StateFileComplete == ContentOf(final) # Partial

\* The register the callers see.  A read under way returns what it has opened.
Register == INSTANCE StateRegister WITH
  value <- ContentOf(final),
  seen <- [c \in Client |-> IF client[c].pc = "deserialize"
                             THEN <<ContentOf(client[c].inode)>> ELSE <<>>]

\* To its callers the state store is a register: writes take effect at one moment,
\* reads return the record of one moment, and a file that is open for reading does
\* not change under the reader, whatever is cut off.
ImplementsRegister == Register!Spec
=============================================================================
