---------------------------- MODULE EventHistory ----------------------------
(***************************************************************************)
(* The bounded histories behind the event streams of application tasks     *)
(* (applications/task-events.ts) and conversations                         *)
(* (conversations/conversation-events.ts), and the two SSE routes.         *)
(*                                                                         *)
(* The two buses are one algorithm on tables of their own: a publication   *)
(* inserts a row, records how far the history will be cut, cuts it, and    *)
(* notifies the open streams.  Its statements are not one transaction, so  *)
(* the process may die between them; nothing else runs between them.  A    *)
(* stream replays what is stored after the client's last event id, first   *)
(* saying that the history was cut there.                                  *)
(*                                                                         *)
(* Row ids rise along every stream, so what is on its way to a client is a *)
(* set of ids read in rising order, after the notice of a reset.           *)
(***************************************************************************)
EXTENDS Naturals, FiniteSets

CONSTANTS
  Topics,         \* tasks or conversations
  Clients,
  None,
  HistoryLimit,   \* rows kept for a topic
  MaxEvents,      \* bound on row ids
  MaxBreaks       \* bound on lost connections and restarts

ASSUME ConstantsAssumption ==
  /\ None \notin Topics \cup Nat
  /\ HistoryLimit \in Nat \ {0}
  /\ MaxEvents \in Nat /\ MaxBreaks \in Nat

VARIABLES
  bus,        \* which of the two buses this is
  lastId,     \* the AUTOINCREMENT counter of the bus, shared by its topics
  rows,       \* topic -> ids of its stored events
  cursor,     \* topic -> discarded_through_id, 0 when there is none
  alive,      \* topics whose task or conversation exists
  publishing, \* the topic of an unfinished publication and its next statement
  published,  \* topic -> ids whose publication was finished, or died stored
  topic,      \* client -> the topic it follows
  open,       \* clients with an open stream
  deaf,       \* clients whose listener was dropped with their conversation
  wire,       \* client -> ids written to its stream and not yet read
  notice,     \* client -> where the history was cut, None when no reset is due
  seen,       \* client -> its last event id, 0 before the first
  base,       \* client -> up to where it knows that it may have missed events
  got,        \* client -> ids it read
  breaks

server == <<bus, lastId, rows, cursor, alive, publishing, published>>
streams == <<topic, open, deaf, wire, notice>>
readers == <<seen, base, got>>
vars == <<server, streams, readers, breaks>>

Ids == 1..MaxEvents

NoPublication == [topic |-> None, next |-> "none"]

Init ==
  /\ bus \in {"task", "conversation"}
  /\ lastId = 0
  /\ rows = [t \in Topics |-> {}]
  /\ cursor = [t \in Topics |-> 0]
  /\ alive = Topics
  /\ publishing = NoPublication
  /\ published = [t \in Topics |-> {}]
  /\ topic = [c \in Clients |-> None]
  /\ open = {}
  /\ deaf = {}
  /\ wire = [c \in Clients |-> {}]
  /\ notice = [c \in Clients |-> None]
  /\ seen = [c \in Clients |-> 0]
  /\ base = [c \in Clients |-> 0]
  /\ got = [c \in Clients |-> {}]
  /\ breaks = 0

-----------------------------------------------------------------------------
(* Publishing: three statements and the listeners.                         *)

Quiet == publishing = NoPublication

\* The newest HistoryLimit rows of a topic.
Kept(t) == {i \in rows[t] : Cardinality({j \in rows[t] : j > i}) < HistoryLimit}

Discarded(t) == rows[t] \ Kept(t)

\* A turn or a command in flight may still publish when its topic is gone.
Insert(t) ==
  /\ lastId' = lastId + 1
  /\ rows' = [rows EXCEPT ![t] = @ \cup {lastId + 1}]
  /\ published' = [published EXCEPT ![t] = @ \cup {lastId + 1}]

PublishInserts(t) ==
  /\ Quiet
  /\ lastId < MaxEvents
  /\ Insert(t)
  /\ publishing' = [topic |-> t, next |-> "save"]
  /\ UNCHANGED <<bus, cursor, alive, streams, readers, breaks>>

Save_Trims(t) ==
  /\ rows' = [rows EXCEPT ![t] = Kept(t)]
  /\ UNCHANGED cursor

\* saveDiscarded: the cursor never falls back.
Save(t) ==
  /\ cursor' = [cursor EXCEPT ![t] =
       CHOOSE m \in Discarded(t) \cup {@} :
         \A i \in Discarded(t) \cup {@} : i <= m]
  /\ UNCHANGED rows

PublishSaves(t) ==
  /\ publishing = [topic |-> t, next |-> "save"]
  /\ Save(t)
  /\ publishing' = [publishing EXCEPT !.next = "trim"]
  /\ UNCHANGED <<bus, lastId, alive, published, streams, readers, breaks>>

\* The open streams of a topic that still have a listener.
Listening_Caught(t) == {c \in open \ deaf : topic[c] = t /\ wire[c] = {}}

Listening(t) == {c \in open \ deaf : topic[c] = t}

PublishEnds(t) ==
  /\ publishing = [topic |-> t, next |-> "trim"]
  /\ rows' = [rows EXCEPT ![t] = Kept(t)]
  /\ wire' = [c \in Clients |->
       IF c \in Listening(t) THEN wire[c] \cup {lastId} ELSE wire[c]]
  /\ publishing' = NoPublication
  /\ UNCHANGED <<bus, lastId, cursor, alive, published, topic, open, deaf, notice,
                 readers, breaks>>

-----------------------------------------------------------------------------
(* Streams.                                                                *)

Resets_Late(t, after) == after > 0 /\ cursor[t] > 0 /\ after + 1 < cursor[t]

\* A client that names a last event is told when the history was cut there.
Resets(t, after) == after > 0 /\ cursor[t] > 0 /\ after <= cursor[t]

\* oldestAvailableId, less one: what the reset says may be missing.
CutAt(t) ==
  IF rows[t] = {} THEN cursor[t]
  ELSE CHOOSE m \in 0..lastId : /\ m + 1 \in rows[t]
                                /\ \A i \in rows[t] : m + 1 <= i

\* One request: subscribe, replay, write.  Nothing is published between, so
\* the buffer of the route is empty when it is merged.
Connect(c, t) ==
  /\ Quiet
  /\ c \notin open
  /\ topic[c] \in {None, t}
  /\ t \in alive
  /\ topic' = [topic EXCEPT ![c] = t]
  /\ open' = open \cup {c}
  /\ deaf' = deaf \ {c}
  /\ wire' = [wire EXCEPT ![c] = {i \in rows[t] : i > seen[c]}]
  /\ notice' = [notice EXCEPT ![c] = IF Resets(t, seen[c]) THEN CutAt(t) ELSE None]
  /\ base' = [base EXCEPT ![c] = IF seen[c] = 0 THEN cursor[t] ELSE @]
  /\ UNCHANGED <<server, seen, got, breaks>>

\* The client reads the notice that its history has a gap.
ReadReset(c) ==
  /\ notice[c] # None
  /\ base' = [base EXCEPT ![c] = notice[c]]
  /\ notice' = [notice EXCEPT ![c] = None]
  /\ UNCHANGED <<server, topic, open, deaf, wire, seen, got, breaks>>

\* The client reads the next event and remembers its id.
Read(c) ==
  /\ notice[c] = None
  /\ \E i \in wire[c] :
       /\ \A j \in wire[c] : i <= j
       /\ wire' = [wire EXCEPT ![c] = @ \ {i}]
       /\ seen' = [seen EXCEPT ![c] = i]
       /\ got' = [got EXCEPT ![c] = @ \cup {i}]
  /\ UNCHANGED <<server, topic, open, deaf, notice, base, breaks>>

\* A connection is lost with what is on it.
Break(c) ==
  /\ c \in open
  /\ breaks < MaxBreaks
  /\ breaks' = breaks + 1
  /\ open' = open \ {c}
  /\ wire' = [wire EXCEPT ![c] = {}]
  /\ notice' = [notice EXCEPT ![c] = None]
  /\ UNCHANGED <<server, topic, deaf, readers>>

-----------------------------------------------------------------------------
(* Deletion and restart.                                                   *)

\* A task's rows go by trigger; a conversation's with clearConversation, which
\* drops its listeners too.
Delete(t) ==
  /\ Quiet
  /\ t \in alive
  /\ alive' = alive \ {t}
  /\ rows' = [rows EXCEPT ![t] = {}]
  /\ cursor' = [cursor EXCEPT ![t] = 0]
  /\ deaf' = IF bus = "conversation" THEN deaf \cup Listening(t) ELSE deaf
  /\ UNCHANGED <<bus, lastId, publishing, published, topic, open, wire, notice,
                 readers, breaks>>

Crash ==
  /\ breaks < MaxBreaks
  /\ breaks' = breaks + 1
  /\ publishing' = NoPublication
  /\ open' = {}
  /\ wire' = [c \in Clients |-> {}]
  /\ notice' = [c \in Clients |-> None]
  /\ UNCHANGED <<bus, lastId, rows, cursor, alive, published, topic, deaf, readers>>

Publish(t) == PublishSaves(t) \/ PublishEnds(t)

Next ==
  \/ \E t \in Topics : PublishInserts(t) \/ Publish(t) \/ Delete(t)
  \/ \E c \in Clients :
       \/ \E t \in Topics : Connect(c, t)
       \/ ReadReset(c) \/ Read(c) \/ Break(c)
  \/ Crash

Spec == Init /\ [][Next]_vars

\* A publication runs to its end; a client reads its stream and, once it has
\* followed a topic, reconnects as EventSource does.
FairSpec ==
  /\ Spec
  /\ \A t \in Topics : WF_vars(Publish(t))
  /\ \A c \in Clients :
       /\ WF_vars(ReadReset(c)) /\ WF_vars(Read(c))
       /\ WF_vars(\E t \in Topics : topic[c] = t /\ Connect(c, t))

-----------------------------------------------------------------------------
(* Properties.                                                             *)

\* Types; a stream that is read has a topic.
TypeOK ==
  /\ bus \in {"task", "conversation"}
  /\ lastId \in Nat
  /\ rows \in [Topics -> SUBSET (1..lastId)]
  /\ cursor \in [Topics -> 0..lastId]
  /\ alive \subseteq Topics
  /\ publishing \in [topic : Topics \cup {None}, next : {"none", "save", "trim"}]
  /\ published \in [Topics -> SUBSET (1..lastId)]
  /\ topic \in [Clients -> Topics \cup {None}]
  /\ open \subseteq Clients /\ deaf \subseteq Clients
  /\ wire \in [Clients -> SUBSET (1..lastId)]
  /\ notice \in [Clients -> (0..lastId) \cup {None}]
  /\ seen \in [Clients -> 0..lastId]
  /\ base \in [Clients -> 0..lastId]
  /\ got \in [Clients -> SUBSET (1..lastId)]
  /\ breaks \in 0..MaxBreaks
  /\ \A c \in Clients : topic[c] = None => wire[c] = {}

\* What was published and is no longer stored is below the recorded cut,
\* wherever the process died inside a publication (publish saves the cursor
\* before it trims).
CutIsRecorded ==
  \A t \in alive : \A i \in published[t] \ rows[t] : i <= cursor[t]

\* A client has read every event between two that it has read, unless it was
\* told of a reset, or had not yet read any: reconnections, trims, restarts and
\* other topics' ids never leave a gap it does not know of.
NoSilentGap ==
  \A c \in Clients : topic[c] # None =>
    \A i \in published[topic[c]] : base[c] < i /\ i <= seen[c] => i \in got[c]

\* A client that keeps reconnecting gets past every event of its topic, as
\* long as the topic exists.
CatchesUp ==
  \A c \in Clients, i \in Ids :
    (topic[c] # None /\ i \in published[topic[c]])
      ~> (seen[c] >= i \/ topic[c] \notin alive)

\* Types, and the cut recorded before anything is trimmed.
Consistent == TypeOK /\ CutIsRecorded
=============================================================================
