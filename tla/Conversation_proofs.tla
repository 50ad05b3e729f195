-------------------------- MODULE Conversation_proofs --------------------------
(***************************************************************************)
(* Proofs about one conversation: what a confirmation may cause, how its   *)
(* turns are numbered, and what a retry is told.                           *)
(*                                                                         *)
(* The turns hold one lock and the job-match actions another, and deletion *)
(* holds none.  Within a lock, the holder is the only request past its     *)
(* queue; across the two locks, what a request read is compared when it is *)
(* stored: the numbers of the messages only grow while the conversation    *)
(* exists, so a request that still fits has been overtaken by nobody, and  *)
(* a deleted conversation tells nobody anything again.                     *)
(***************************************************************************)
EXTENDS Conversation, SequenceTheorems, TLAPS

Rows == [pc : {"idle", "queued", "graph", "search", "validate", "tool", "append",
               "finish", "dispatch"},
         input : Inputs, key : Keys \cup {None}, conf : Confs \cup {None},
         approved : BOOLEAN, selected : Sites \cup {None}, seq : Nat,
         context : ContextRow, asks : Confs \cup {None}]

\* Which requests reach which point.
PlaceInv ==
  \A r \in Requests :
    /\ req[r].pc # "idle" /\ req[r].input = "confirm" => req[r].conf \in Confs
    /\ req[r].pc # "idle" /\ req[r].input = "action" =>
         req[r].key \in Keys /\ req[r].pc \in {"queued", "dispatch"}
    /\ req[r].pc = "tool" => req[r].input = "confirm"
    /\ req[r].pc = "dispatch" => req[r].input = "action"

\* A decision that is being carried out was approved, and has had no effect yet.
EffectInv ==
  /\ ConfirmedOnce
  /\ \A r \in Requests : req[r].pc = "tool" =>
       conf[req[r].conf].status = "approved" /\ effects[req[r].conf] = 0

\* An action that has been overtaken by nobody is not stored yet.
TurnInv ==
  /\ TurnsAreContiguous
  /\ \A r \in Requests : exists /\ req[r].pc = "dispatch" =>
       /\ req[r].seq <= LastSequence
       /\ req[r].seq = LastSequence => Stored(RequestId(r, req[r].seq)) = {}

\* While the conversation exists, an answer that was given is the stored one; what it shows
\* of the session is not newer than the session.
AnswerInv ==
  /\ OneTurnPerRequest
  /\ AnswersKeepUp
  /\ \A i \in 1..Len(turns) : turns[i].answer.shows <= Speaks(turns[i].id.from)
  /\ exists => \A t \in told : \E i \in Stored(t[1]) : turns[i].answer = t[2]
  /\ \A i, j \in 1..Len(turns) :
       turns[i].id = turns[j].id /\ turns[i].id.from # "message" => i = j

ConversationInv == TypeOK /\ PlaceInv /\ EffectInv /\ TurnInv /\ AnswerInv

-----------------------------------------------------------------------------
(* Requests and their locks.                                               *)

\* The request is the first of its chain.
Holds(r) ==
  IF req[r].input = "action" THEN actions # <<>> /\ Head(actions) = r
                             ELSE lock # <<>> /\ Head(lock) = r

ReqType ==
  /\ req \in [Requests -> Rows]
  /\ lock \in Seq(Requests) /\ actions \in Seq(Requests)
  /\ \A r \in Requests : req[r].pc \notin {"idle", "queued"} => Holds(r)

\* A row that a request at its place may have.
RowInv(x) ==
  /\ x.pc # "idle" /\ x.input = "confirm" => x.conf \in Confs
  /\ x.pc # "idle" /\ x.input = "action" => x.key \in Keys /\ x.pc \in {"queued", "dispatch"}
  /\ x.pc = "tool" => x.input = "confirm"
  /\ x.pc = "dispatch" => x.input = "action"

\* A request arrives and queues.
Queues(r, x) ==
  /\ req[r].pc = "idle" /\ x.pc = "queued" /\ RowInv(x)
  /\ req' = [req EXCEPT ![r] = x]
  /\ IF x.input = "action" THEN actions' = Append(actions, r) /\ UNCHANGED lock
                           ELSE lock' = Append(lock, r) /\ UNCHANGED actions

\* The first of a chain goes on with what it asked for.
Continues(r, x) ==
  /\ Holds(r) /\ x.pc \notin {"idle", "queued"} /\ RowInv(x)
  /\ x.input = req[r].input /\ x.key = req[r].key /\ x.conf = req[r].conf
  /\ x.pc = "tool" => Pending(req[r].conf) /\ conf'[req[r].conf].status = "approved"
  /\ x.pc = "dispatch" =>
       /\ exists /\ Stored(RequestId(r, LastSequence)) = {} /\ x.seq = LastSequence
       /\ UNCHANGED <<exists, turns>>
  /\ req' = [req EXCEPT ![r] = x]
  /\ UNCHANGED <<lock, actions>>

\* It is answered or fails.
Leaves(r) == Holds(r) /\ Ends(r)

Restarts == req' = [r \in Requests |-> Idle] /\ lock' = <<>> /\ actions' = <<>>

ReqStep ==
  \/ \E r \in Requests, x \in Rows : Queues(r, x) \/ Continues(r, x)
  \/ \E r \in Requests : Leaves(r)
  \/ Restarts
  \/ UNCHANGED <<req, lock, actions>>

\* The parts of the type invariant.
LEMMA ReqTypeHolds == ASSUME TypeOK PROVE ReqType
BY DEF TypeOK, ReqType, Rows, Holds

\* What is known of a request.
LEMMA RowFacts ==
  ASSUME TypeOK, PlaceInv, NEW r \in Requests
  PROVE  /\ req[r] \in Rows /\ RowInv(req[r])
         /\ req[r].pc \notin {"idle", "queued"} => Holds(r)
         /\ req[r].context \in ContextRow /\ req[r].seq \in Nat
BY ReqTypeHolds DEF ReqType, PlaceInv, RowInv, Rows

\* An idle request has a row.
LEMMA IdleRow == Idle \in Rows /\ RowInv(Idle) /\ Idle.pc = "idle"
BY DEF Idle, Rows, RowInv, Inputs, Texts, NoContext, ContextRow

\* Nobody else of a chain is past its queue.
LEMMA OneHolder ==
  ASSUME TypeOK, NEW r \in Requests, NEW q \in Requests,
         req[r].pc \notin {"idle", "queued"}, req[q].pc \notin {"idle", "queued"},
         req[r].input # "action", req[q].input # "action"
  PROVE  r = q
BY ReqTypeHolds DEF ReqType, Holds

\* Every such step keeps the chains: who is past the queue is the first of its chain.
LEMMA ReqStepKeeps ==
  ASSUME ReqType, \A r \in Requests : RowInv(req[r]), ReqStep
  PROVE  ReqType' /\ \A r \in Requests : RowInv(req'[r])
<1>0. /\ req \in [Requests -> Rows] /\ lock \in Seq(Requests) /\ actions \in Seq(Requests)
      /\ \A r \in Requests : req[r].pc \notin {"idle", "queued"} =>
           IF req[r].input = "action" THEN actions # <<>> /\ Head(actions) = r
                                      ELSE lock # <<>> /\ Head(lock) = r
  BY DEF ReqType, Holds
<1>1. ASSUME NEW r \in Requests, NEW x \in Rows, Queues(r, x)
      PROVE  ReqType' /\ \A q \in Requests : RowInv(req'[q])
  <2>1. /\ req'[r] = x /\ x.pc = "queued" /\ RowInv(x) /\ req' \in [Requests -> Rows]
        /\ \A q \in Requests \ {r} : req'[q] = req[q]
    BY <1>0, <1>1 DEF Queues
  <2>2. CASE x.input = "action"
    <3>1. actions' = Append(actions, r) /\ lock' = lock
      BY <1>1, <2>2 DEF Queues
    <3>2. actions' \in Seq(Requests) /\ (actions # <<>> =>
            actions' # <<>> /\ Head(actions') = Head(actions))
      BY <1>0, <3>1
    <3> QED
      BY <1>0, <2>1, <3>1, <3>2 DEF ReqType, Holds
  <2>3. CASE x.input # "action"
    <3>1. lock' = Append(lock, r) /\ actions' = actions
      BY <1>1, <2>3 DEF Queues
    <3>2. lock' \in Seq(Requests) /\ (lock # <<>> => lock' # <<>> /\ Head(lock') = Head(lock))
      BY <1>0, <3>1
    <3> QED
      BY <1>0, <2>1, <3>1, <3>2 DEF ReqType, Holds
  <2> QED
    BY <2>2, <2>3
<1>2. ASSUME NEW r \in Requests, NEW x \in Rows, Continues(r, x)
      PROVE  ReqType' /\ \A q \in Requests : RowInv(req'[q])
  <2>1. /\ req'[r] = x /\ RowInv(x) /\ req' \in [Requests -> Rows]
        /\ \A q \in Requests \ {r} : req'[q] = req[q]
        /\ lock' = lock /\ actions' = actions /\ Holds(r) /\ x.input = req[r].input
    BY <1>0, <1>2 DEF Continues
  <2> QED
    BY <1>0, <2>1 DEF ReqType, Holds
<1>3. ASSUME NEW r \in Requests, Leaves(r)
      PROVE  ReqType' /\ \A q \in Requests : RowInv(req'[q])
  <2>1. /\ req'[r] = Idle /\ req' \in [Requests -> Rows]
        /\ \A q \in Requests \ {r} : req'[q] = req[q]
    BY <1>0, <1>3, IdleRow DEF Leaves, Ends
  <2>2. CASE req[r].input = "action"
    <3>1. actions' = Tail(actions) /\ lock' = lock /\ actions # <<>> /\ Head(actions) = r
      BY <1>3, <2>2 DEF Leaves, Ends, Unlock, Holds
    <3>2. actions' \in Seq(Requests)
      BY <1>0, <3>1
    <3>3. \A q \in Requests \ {r} : req[q].input = "action" => req[q].pc \in {"idle", "queued"}
      BY <1>0, <3>1
    <3> QED
      BY <1>0, <2>1, <3>1, <3>2, <3>3, IdleRow DEF ReqType, Holds
  <2>3. CASE req[r].input # "action"
    <3>1. lock' = Tail(lock) /\ actions' = actions /\ lock # <<>> /\ Head(lock) = r
      BY <1>3, <2>3 DEF Leaves, Ends, Unlock, Holds
    <3>2. lock' \in Seq(Requests)
      BY <1>0, <3>1
    <3>3. \A q \in Requests \ {r} : req[q].input # "action" => req[q].pc \in {"idle", "queued"}
      BY <1>0, <3>1
    <3> QED
      BY <1>0, <2>1, <3>1, <3>2, <3>3, IdleRow DEF ReqType, Holds
  <2> QED
    BY <2>2, <2>3
<1>4. CASE Restarts
  BY <1>4, IdleRow DEF Restarts, ReqType, Holds
<1>5. CASE UNCHANGED <<req, lock, actions>>
  BY <1>5 DEF ReqType, Holds
<1> QED
  BY <1>1, <1>2, <1>3, <1>4, <1>5 DEF ReqStep

-----------------------------------------------------------------------------
(* Each action is such a step.                                             *)

\* The points of a turn between its lock and its end.
Working == {"graph", "search", "validate", "append", "finish"}

\* A turn that goes on, with the same request, is a step of its chain.
LEMMA TurnContinues ==
  ASSUME TypeOK, PlaceInv, NEW r \in Requests, NEW x \in Rows,
         req[r].pc # "idle", req[r].input # "action", Holds(r),
         x.pc \in Working,
         x.input = req[r].input, x.key = req[r].key, x.conf = req[r].conf,
         req' = [req EXCEPT ![r] = x], UNCHANGED <<lock, actions>>
  PROVE  ReqStep
<1>1. RowInv(req[r])
  BY RowFacts
<1>2. RowInv(x)
  BY <1>1 DEF RowInv, Working
<1>3. Continues(r, x)
  BY <1>2 DEF Continues, Working
<1> QED
  BY <1>3 DEF ReqStep

\* What a turn holds when it has passed its lock.
LEMMA TurnHolds ==
  ASSUME TypeOK, PlaceInv, NEW r \in Requests,
         req[r].pc \in {"graph", "search", "validate", "tool", "append", "finish"}
  PROVE  /\ Holds(r) /\ req[r].pc # "idle" /\ req[r].input # "action"
         /\ req[r] \in Rows /\ req[r].context \in ContextRow
BY RowFacts DEF RowInv

\* A turn goes on to its next point.
LEMMA GoesSteps ==
  ASSUME TypeOK, PlaceInv, NEW r \in Requests, NEW p \in Working,
         req[r].pc \in {"graph", "search", "validate", "tool", "append", "finish"},
         Goes(r, p), UNCHANGED <<lock, actions>>
  PROVE  ReqStep
<1>1. Holds(r) /\ req[r].pc # "idle" /\ req[r].input # "action" /\ req[r] \in Rows
  BY TurnHolds
<1>2. PICK x : x = [req[r] EXCEPT !.pc = p]
  OBVIOUS
<1>3. x \in Rows /\ x.pc = p /\ x.input = req[r].input /\ x.key = req[r].key
      /\ x.conf = req[r].conf
  BY <1>1, <1>2 DEF Rows, Working
<1>4. req' = [req EXCEPT ![r] = x]
  BY <1>2 DEF Goes
<1> QED
  BY <1>1, <1>3, <1>4, TurnContinues

\* Asking for a confirmation, or for none, with a patched context.
LEMMA PatchSteps ==
  ASSUME TypeOK, PlaceInv, NEW r \in Requests, NEW c \in ContextRow, NEW k \in Confs \cup {None},
         req[r].pc \in {"graph", "search", "validate", "tool", "append", "finish"},
         req' = [req EXCEPT ![r] = [req[r] EXCEPT !.pc = "append", !.asks = k, !.context = c]],
         UNCHANGED <<lock, actions>>
  PROVE  ReqStep
<1>1. Holds(r) /\ req[r].pc # "idle" /\ req[r].input # "action" /\ req[r] \in Rows
  BY TurnHolds
<1>2. PICK x : x = [req[r] EXCEPT !.pc = "append", !.asks = k, !.context = c]
  OBVIOUS
<1>3. x \in Rows /\ x.pc = "append" /\ x.input = req[r].input /\ x.key = req[r].key
      /\ x.conf = req[r].conf
  BY <1>1, <1>2 DEF Rows
<1>4. x.pc \in Working
  BY <1>3 DEF Working
<1> QED
  BY <1>1, <1>2, <1>3, <1>4, TurnContinues

\* A turn that is answered or fails leaves its chain.
LEMMA EndsSteps ==
  ASSUME TypeOK, PlaceInv, NEW r \in Requests, Holds(r), Ends(r)
  PROVE  ReqStep
BY DEF Leaves, ReqStep

\* A turn that asks for a confirmation goes on with it, or fails with its conversation.
LEMMA AsksForSteps ==
  ASSUME TypeOK, PlaceInv, NEW r \in Requests, NEW action, NEW target,
         NEW site \in Sites \cup {None},
         req[r].pc \in {"graph", "search", "validate"}, AsksFor(r, action, target, site)
  PROVE  ReqStep
<1>1. Holds(r) /\ req[r] \in Rows /\ req[r].context \in ContextRow
  BY TurnHolds
<1>2. CASE exists
  <2>1. PICK k \in Unused : req' = [req EXCEPT ![r].pc = "append", ![r].asks = k,
                                               ![r].context.site = site]
    BY <1>2 DEF AsksFor
  <2>2. PICK c : c = [req[r].context EXCEPT !.site = site]
    OBVIOUS
  <2>3. c \in ContextRow /\ k \in Confs \cup {None}
    BY <1>1, <2>2 DEF ContextRow, Unused
  <2>4. req' = [req EXCEPT ![r] = [req[r] EXCEPT !.pc = "append", !.asks = k, !.context = c]]
    BY <1>1, <2>1, <2>2, ReqTypeHolds DEF ReqType, Rows
  <2>5. UNCHANGED <<lock, actions>>
    BY <1>2 DEF AsksFor
  <2> QED
    BY <2>3, <2>4, <2>5, PatchSteps
<1>3. CASE ~exists
  BY <1>1, <1>3, EndsSteps DEF AsksFor, Fails
<1> QED
  BY <1>2, <1>3

\* A turn that asks for nothing goes on to its end.
LEMMA ComposesSteps ==
  ASSUME TypeOK, PlaceInv, NEW r \in Requests, NEW site \in Sites \cup {None},
         req[r].pc \in {"graph", "search", "validate"}, Composes(r, site)
  PROVE  ReqStep
<1>1. req[r] \in Rows /\ req[r].context \in ContextRow
  BY TurnHolds
<1>2. PICK c : c = [req[r].context EXCEPT !.site = site]
  OBVIOUS
<1>3. c \in ContextRow /\ req[r].asks \in Confs \cup {None}
  BY <1>1, <1>2 DEF ContextRow, Rows
<1>4. req' = [req EXCEPT ![r] = [req[r] EXCEPT !.pc = "append", !.asks = req[r].asks,
                                               !.context = c]]
  BY <1>1, <1>2, ReqTypeHolds DEF Composes, ReqType, Rows
<1>5. UNCHANGED <<lock, actions>>
  BY DEF Composes
<1> QED
  BY <1>3, <1>4, <1>5, PatchSteps

\* A request that arrives queues behind the others of its chain.
LEMMA ArrivesSteps ==
  ASSUME TypeOK, PlaceInv, NEW r \in Requests,
         SendArrives(r) \/ ConfirmArrives(r) \/ ActionArrives(r)
  PROVE  ReqStep
<1>1. req[r].pc = "idle"
  BY DEF SendArrives, ConfirmArrives, ActionArrives, MayArrive, At
<1>2. CASE SendArrives(r)
  <2>1. PICK text \in Texts, key \in Keys \cup {None} :
          req' = [req EXCEPT ![r] = [Idle EXCEPT !.pc = "queued", !.input = text, !.key = key]]
    BY <1>2 DEF SendArrives
  <2>2. PICK x : x = [Idle EXCEPT !.pc = "queued", !.input = text, !.key = key]
    OBVIOUS
  <2>3. x \in Rows /\ x.pc = "queued" /\ x.input \in Texts
    BY <2>2, IdleRow DEF Rows, Inputs
  <2>4. RowInv(x) /\ x.input # "action"
    BY <2>3 DEF RowInv, Texts
  <2>5. Queues(r, x)
    BY <1>1, <1>2, <2>1, <2>2, <2>3, <2>4 DEF Queues, SendArrives
  <2> QED
    BY <2>3, <2>5 DEF ReqStep
<1>3. CASE ConfirmArrives(r)
  <2>1. PICK k \in Confs, approved \in BOOLEAN, selected \in Sites \cup {None} :
          req' = [req EXCEPT ![r] = [Idle EXCEPT !.pc = "queued", !.input = "confirm",
                    !.conf = k, !.approved = approved, !.selected = selected]]
    BY <1>3 DEF ConfirmArrives
  <2>2. PICK x : x = [Idle EXCEPT !.pc = "queued", !.input = "confirm",
                        !.conf = k, !.approved = approved, !.selected = selected]
    OBVIOUS
  <2>3. x \in Rows /\ x.pc = "queued" /\ x.input = "confirm" /\ x.conf = k
    BY <2>2, IdleRow DEF Rows, Inputs
  <2>4. Queues(r, x)
    BY <1>1, <1>3, <2>1, <2>2, <2>3 DEF Queues, ConfirmArrives, RowInv
  <2> QED
    BY <2>3, <2>4 DEF ReqStep
<1>4. CASE ActionArrives(r)
  <2>1. PICK key \in Keys :
          req' = [req EXCEPT ![r] = [Idle EXCEPT !.pc = "queued", !.input = "action", !.key = key]]
    BY <1>4 DEF ActionArrives
  <2>2. PICK x : x = [Idle EXCEPT !.pc = "queued", !.input = "action", !.key = key]
    OBVIOUS
  <2>3. x \in Rows /\ x.pc = "queued" /\ x.input = "action" /\ x.key = key
    BY <2>2, IdleRow DEF Rows, Inputs
  <2>4. Queues(r, x)
    BY <1>1, <1>4, <2>1, <2>2, <2>3 DEF Queues, ActionArrives, RowInv
  <2> QED
    BY <2>3, <2>4 DEF ReqStep
<1> QED
  BY <1>2, <1>3, <1>4

\* The last message has a number.
LEMMA LastSequenceType == ASSUME TypeOK PROVE LastSequence \in Nat
<1>1. turns \in Seq(Turns)
  BY DEF TypeOK
<1>2. CASE turns # <<>>
  <2>1. turns[Len(turns)] \in Turns
    BY <1>1, <1>2
  <2> QED
    BY <1>2, <2>1 DEF LastSequence, Turns
<1> QED
  BY <1>2 DEF LastSequence

\* The first of the chain enters the graph, or is answered, or fails.
LEMMA EntersSteps ==
  ASSUME TypeOK, PlaceInv, NEW r \in Requests, SendEnters(r) \/ ConfirmEnters(r)
  PROVE  ReqStep
<1>1. /\ req[r].pc = "queued" /\ req[r].input # "action" /\ Holds(r) /\ req[r] \in Rows
  BY RowFacts DEF SendEnters, ConfirmEnters, At, HasLock, Holds, Texts
<1>2. CASE Ends(r)
  BY <1>1, <1>2, EndsSteps
<1>3. CASE ~Ends(r)
  <2>1. req' = [req EXCEPT ![r] = Captured(r)] /\ UNCHANGED <<lock, actions>>
    BY <1>3 DEF SendEnters, ConfirmEnters, Replays, Fails
  <2>2. PICK x : x = Captured(r)
    OBVIOUS
  <2>3. LastSequence \in Nat /\ context \in ContextRow
    BY LastSequenceType DEF TypeOK
  <2>4. x \in Rows /\ x.pc = "graph" /\ x.input = req[r].input /\ x.key = req[r].key
        /\ x.conf = req[r].conf
    BY <1>1, <2>2, <2>3 DEF Rows, Captured
  <2> QED
    BY <1>1, <2>1, <2>2, <2>4, TurnContinues DEF Working
<1> QED
  BY <1>2, <1>3

\* An action that nobody has stored is dispatched.
LEMMA ActionEntersSteps ==
  ASSUME TypeOK, PlaceInv, NEW r \in Requests, ActionEnters(r)
  PROVE  ReqStep
<1>1. /\ req[r].pc = "queued" /\ req[r].input = "action" /\ Holds(r) /\ req[r] \in Rows
      /\ RowInv(req[r])
  BY RowFacts DEF ActionEnters, At, Holds
<1>2. CASE Ends(r)
  BY <1>1, <1>2, EndsSteps
<1>3. CASE ~Ends(r)
  <2>1. /\ exists /\ Stored(RequestId(r, LastSequence)) = {}
        /\ req' = [req EXCEPT ![r].pc = "dispatch", ![r].seq = LastSequence]
        /\ UNCHANGED <<lock, actions, exists, turns>>
    BY <1>3 DEF ActionEnters, Replays, Fails
  <2>2. PICK x : x = [req[r] EXCEPT !.pc = "dispatch", !.seq = LastSequence]
    OBVIOUS
  <2>3. x \in Rows /\ x.pc = "dispatch" /\ x.input = req[r].input /\ x.key = req[r].key
        /\ x.conf = req[r].conf /\ x.seq = LastSequence
    BY <1>1, <2>2, LastSequenceType DEF Rows
  <2>4. req' = [req EXCEPT ![r] = x]
    BY <2>1, <2>2, ReqTypeHolds DEF ReqType
  <2>5. Continues(r, x)
    BY <1>1, <2>1, <2>3, <2>4 DEF Continues, RowInv
  <2> QED
    BY <2>3, <2>5 DEF ReqStep
<1> QED
  BY <1>2, <1>3

\* What the graph does with a message, up to its await.
LEMMA MessageCases ==
  ASSUME TypeOK, PlaceInv, NEW r \in Requests, MessagePrepared(r) \/ Searched(r) \/ Validated(r)
  PROVE  /\ req[r].pc \in {"graph", "search", "validate"}
         /\ \/ /\ \E p \in {"search", "validate"} : Goes(r, p)
               /\ UNCHANGED <<conf, lock, actions, told>>
            \/ \E action \in Asked, target \in SUBSET Sites, site \in Sites \cup {None} :
                 AsksFor(r, action, target, site)
            \/ \E site \in Sites \cup {None} : Composes(r, site) /\ UNCHANGED conf
<1>1. req[r].pc \in {"graph", "search", "validate"}
  BY DEF MessagePrepared, Searched, Validated, At
<1>2. req[r].context.site \in Sites \cup {None}
  BY <1>1, TurnHolds DEF ContextRow
<1>3. CASE MessagePrepared(r)
  <2>1. PICK site \in Sites \cup {None} : site = req[r].context.site
    BY <1>2
  <2>2. CASE req[r].input = "discover"
    BY <1>1, <1>3, <2>2 DEF MessagePrepared
  <2>3. CASE req[r].input = "apply_url"
    BY <1>1, <1>3, <2>3 DEF MessagePrepared
  <2>4. CASE req[r].input = "recommend" /\ site # None
    <3>1. AsksFor(r, "recommend", {site}, site)
      BY <1>3, <2>1, <2>4 DEF MessagePrepared
    <3> QED
      BY <1>1, <2>1, <2>4, <3>1 DEF Asked
  <2>5. CASE req[r].input = "apply_posting" /\ req[r].context.session
    <3>1. AsksFor(r, "apply_posting", {}, site) \/ (Composes(r, site) /\ UNCHANGED conf)
      BY <1>3, <2>1, <2>5 DEF MessagePrepared
    <3> QED
      BY <1>1, <2>1, <3>1 DEF Asked
  <2>6. CASE /\ req[r].input \notin {"discover", "apply_url"}
             /\ ~(req[r].input = "recommend" /\ site # None)
             /\ ~(req[r].input = "apply_posting" /\ req[r].context.session)
    <3>1. Composes(r, site) /\ UNCHANGED conf
      BY <1>3, <2>1, <2>6 DEF MessagePrepared
    <3> QED
      BY <1>1, <2>1, <3>1
  <2> QED
    BY <2>2, <2>3, <2>4, <2>5, <2>6
<1>4. CASE Searched(r)
  BY <1>1, <1>4 DEF Searched, Asked
<1>5. CASE Validated(r)
  BY <1>1, <1>2, <1>5 DEF Validated, Asked
<1> QED
  BY <1>3, <1>4, <1>5

\* The graph goes on with a message.
LEMMA MessageSteps ==
  ASSUME TypeOK, PlaceInv, NEW r \in Requests, MessagePrepared(r) \/ Searched(r) \/ Validated(r)
  PROVE  ReqStep
BY MessageCases, GoesSteps, AsksForSteps, ComposesSteps DEF Working

\* The user's decision chooses a site: the next confirmation is put.
ChoosesSite(r, k, next, chosen) ==
  /\ next # k
  /\ conf' = [conf EXCEPT ![k].status = "approved",
       ![next] = [status |-> "pending", action |-> "recommend", target |-> {chosen}]]
  /\ req' = [req EXCEPT ![r].pc = "append", ![r].asks = next, ![r].context.site = chosen]
  /\ UNCHANGED <<lock, actions, told>>

\* What the graph does with a decision: it fails, or the confirmation is pending and it
\* is consumed before anything is done about it.
LEMMA DecisionCases ==
  ASSUME TypeOK, PlaceInv, NEW r \in Requests, ConfirmPrepared(r)
  PROVE  LET k == req[r].conf IN
         /\ req[r].pc = "graph" /\ k \in Confs
         /\ \/ Fails(r) /\ UNCHANGED conf
            \/ /\ Pending(k) /\ UNCHANGED <<lock, actions, told>>
               /\ Consume(k, TRUE) /\ Goes(r, "tool")
            \/ /\ Pending(k) /\ UNCHANGED <<lock, actions, told>>
               /\ (UNCHANGED conf \/ \E a \in BOOLEAN : Consume(k, a)) /\ Goes(r, "append")
            \/ /\ Pending(k)
               /\ \E a \in BOOLEAN, site \in Sites \cup {None} : Consume(k, a) /\ Composes(r, site)
            \/ /\ Pending(k)
               /\ \E next \in Unused, chosen \in Sites : ChoosesSite(r, k, next, chosen)
<1>1. PICK k : k = req[r].conf
  OBVIOUS
<1>2. req[r].pc = "graph" /\ req[r].input = "confirm"
  BY DEF ConfirmPrepared, At
<1>3. k \in Confs /\ req[r].approved \in BOOLEAN /\ req[r].context.site \in Sites \cup {None}
  BY <1>1, <1>2, TurnHolds, RowFacts DEF RowInv, Rows, ContextRow
<1>4. conf[k].target \subseteq Sites /\ conf \in [Confs -> ConfRow]
  BY <1>3 DEF TypeOK, ConfRow
<1>5. CASE ~Pending(k)
  BY <1>1, <1>2, <1>3, <1>5 DEF ConfirmPrepared
<1>6. CASE Pending(k) /\ ApplicationDecided(r)
  BY <1>1, <1>2, <1>3, <1>6 DEF ApplicationDecided
<1>7. CASE Pending(k) /\ RecommendationDecided(r)
  <2>1. CASE req[r].approved
    BY <1>1, <1>2, <1>3, <1>7, <2>1 DEF RecommendationDecided
  <2>2. CASE ~req[r].approved
    <3>1. PICK site \in conf[k].target : Composes(r, site)
      BY <1>1, <1>7, <2>2 DEF RecommendationDecided
    <3>2. site \in Sites \cup {None} /\ Consume(k, req[r].approved)
      BY <1>1, <1>4, <1>7, <3>1 DEF RecommendationDecided
    <3> QED
      BY <1>1, <1>2, <1>3, <1>7, <3>1, <3>2
  <2> QED
    BY <2>1, <2>2
<1>8. CASE Pending(k) /\ SiteDecided(r)
  <2>1. CASE req[r].approved /\ req[r].selected \in conf[k].target
    <3>1. PICK next \in Unused :
            /\ conf' = [conf EXCEPT ![k].status = "approved",
                 ![next] = [status |-> "pending", action |-> "recommend",
                            target |-> {req[r].selected}]]
            /\ req' = [req EXCEPT ![r].pc = "append", ![r].asks = next,
                                  ![r].context.site = req[r].selected]
            /\ UNCHANGED <<lock, actions, told>>
      BY <1>1, <1>8, <2>1 DEF SiteDecided
    <3>2. next # k /\ req[r].selected \in Sites
      BY <1>4, <1>8, <2>1 DEF Unused, Pending
    <3> QED
      BY <1>1, <1>2, <1>3, <1>8, <3>1, <3>2 DEF ChoosesSite
  <2>2. CASE ~(req[r].approved /\ req[r].selected \in conf[k].target)
    <3>1. Consume(k, req[r].approved)
          /\ Composes(r, IF req[r].approved THEN req[r].context.site ELSE None)
      BY <1>1, <1>8, <2>2 DEF SiteDecided
    <3> QED
      BY <1>1, <1>2, <1>3, <1>8, <3>1
  <2> QED
    BY <2>1, <2>2
<1> QED
  BY <1>1, <1>5, <1>6, <1>7, <1>8 DEF ConfirmPrepared

\* The graph goes on with a decision; at the tool it is approved.
LEMMA ConfirmSteps ==
  ASSUME TypeOK, PlaceInv, NEW r \in Requests, ConfirmPrepared(r)
  PROVE  ReqStep
<1>1. PICK k \in Confs : k = req[r].conf
  BY DecisionCases
<1>2. req[r].pc = "graph" /\ Holds(r) /\ req[r] \in Rows /\ req[r].input = "confirm"
      /\ RowInv(req[r]) /\ req[r].context \in ContextRow
  BY DecisionCases, TurnHolds, RowFacts DEF ConfirmPrepared
<1>3. CASE Fails(r)
  BY <1>2, <1>3, EndsSteps DEF Fails
<1>4. CASE Pending(k) /\ UNCHANGED <<lock, actions>> /\ Consume(k, TRUE) /\ Goes(r, "tool")
  <2>1. PICK x : x = [req[r] EXCEPT !.pc = "tool"]
    OBVIOUS
  <2>2. x \in Rows /\ x.pc = "tool" /\ x.input = req[r].input /\ x.key = req[r].key
        /\ x.conf = req[r].conf
    BY <1>2, <2>1 DEF Rows
  <2>3. conf'[k].status = "approved"
    BY <1>1, <1>4 DEF Consume, TypeOK, ConfRow
  <2>4. Continues(r, x)
    BY <1>1, <1>2, <1>4, <2>1, <2>2, <2>3 DEF Continues, RowInv, Goes
  <2> QED
    BY <2>2, <2>4 DEF ReqStep
<1>5. CASE UNCHANGED <<lock, actions>> /\ Goes(r, "append")
  BY <1>2, <1>5, GoesSteps DEF Working
<1>6. CASE \E site \in Sites \cup {None} : Composes(r, site)
  BY <1>2, <1>6, ComposesSteps
<1>7. CASE \E next \in Unused, chosen \in Sites : ChoosesSite(r, k, next, chosen)
  <2>1. PICK next \in Unused, chosen \in Sites : ChoosesSite(r, k, next, chosen)
    BY <1>7
  <2>2. PICK c : c = [req[r].context EXCEPT !.site = chosen]
    OBVIOUS
  <2>3. c \in ContextRow /\ next \in Confs \cup {None}
    BY <1>2, <2>1, <2>2 DEF ContextRow, Unused
  <2>4. req' = [req EXCEPT ![r] = [req[r] EXCEPT !.pc = "append", !.asks = next, !.context = c]]
    BY <1>2, <2>1, <2>2, ReqTypeHolds DEF ChoosesSite, ReqType, Rows
  <2>5. UNCHANGED <<lock, actions>>
    BY <2>1 DEF ChoosesSite
  <2> QED
    BY <1>2, <2>3, <2>4, <2>5, PatchSteps
<1> QED
  BY <1>1, <1>3, <1>4, <1>5, <1>6, <1>7, DecisionCases

\* The tool answers and its turn goes on.
LEMMA ToolSteps ==
  ASSUME TypeOK, PlaceInv, NEW r \in Requests, ToolEnds(r)
  PROVE  ReqStep
<1>1. /\ req[r].pc = "tool" /\ req[r] \in Rows /\ req[r].context \in ContextRow
      /\ UNCHANGED <<lock, actions>> /\ req[r].conf \in Confs
  BY RowFacts, TurnHolds DEF ToolEnds, At, RowInv
<1>2. CASE Goes(r, "append")
  BY <1>1, <1>2, GoesSteps DEF Working
<1>3. CASE ~Goes(r, "append")
  <2>1. PICK confirmed \in conf[req[r].conf].target :
          req' = [req EXCEPT ![r].pc = "append",
                  ![r].context.site = IF exists THEN confirmed ELSE @,
                  ![r].context.session = exists \/ @]
    BY <1>3 DEF ToolEnds, Goes
  <2>2. confirmed \in Sites
    BY <1>1, <2>1 DEF TypeOK, ConfRow
  <2>3. PICK c : c = [req[r].context EXCEPT !.site = IF exists THEN confirmed ELSE @,
                                            !.session = exists \/ @]
    OBVIOUS
  <2>4. exists \in BOOLEAN
    BY DEF TypeOK
  <2>5. c \in ContextRow /\ req[r].asks \in Confs \cup {None}
    BY <1>1, <2>2, <2>3, <2>4 DEF ContextRow, Rows
  <2>6. req' = [req EXCEPT ![r] = [req[r] EXCEPT !.pc = "append", !.asks = req[r].asks,
                                                 !.context = c]]
    BY <1>1, <2>1, <2>3, ReqTypeHolds DEF ReqType, Rows
  <2> QED
    BY <1>1, <2>5, <2>6, PatchSteps
<1> QED
  BY <1>2, <1>3

\* A turn that is stored goes on to its end; one at its end, or refused, leaves.
LEMMA StoreSteps ==
  ASSUME TypeOK, PlaceInv, NEW r \in Requests, AppendTurn(r) \/ Finish(r) \/ ActionEnds(r)
  PROVE  ReqStep
<1>1. req[r].pc \in {"append", "finish", "dispatch"} /\ Holds(r)
  BY RowFacts DEF AppendTurn, Finish, ActionEnds, At
<1>2. CASE Ends(r)
  BY <1>1, <1>2, EndsSteps
<1>3. CASE ~Ends(r)
  <2>1. AppendTurn(r) /\ req[r].pc = "append" /\ Goes(r, "finish") /\ UNCHANGED <<lock, actions>>
    BY <1>3 DEF AppendTurn, Finish, ActionEnds, Fails, At
  <2> QED
    BY <2>1, GoesSteps DEF Working
<1> QED
  BY <1>2, <1>3

\* Every step of the conversation is one of its chains, or leaves them alone.
LEMMA ReqSteps == ASSUME TypeOK, PlaceInv, Next PROVE ReqStep
<1>1. CASE Delete
  BY <1>1 DEF Delete, ReqStep
<1>2. CASE Crash
  BY <1>2 DEF Crash, ReqStep, Restarts
<1>4. CASE SessionChanges
  BY <1>4 DEF SessionChanges, ReqStep
<1>3. CASE ~Delete /\ ~Crash /\ ~SessionChanges
  <2>1. PICK r \in Requests : SendArrives(r) \/ ConfirmArrives(r) \/ ActionArrives(r) \/ Step(r)
    BY <1>3 DEF Next
  <2> QED
    BY <2>1, ArrivesSteps, EntersSteps, ActionEntersSteps, MessageSteps, ConfirmSteps, ToolSteps,
       StoreSteps DEF Step
<1> QED
  BY <1>1, <1>2, <1>3, <1>4

-----------------------------------------------------------------------------
(* Confirmations and their effects.                                        *)

\* A confirmation that was approved stays so.
ConfKeeps ==
  /\ conf' \in [Confs -> ConfRow]
  /\ \A k \in Confs : conf[k].status = "approved" => conf'[k].status = "approved"

\* Putting a fresh confirmation takes nobody's approval away.
LEMMA PutKeeps ==
  ASSUME TypeOK, NEW k \in Confs, NEW action \in Asked, NEW target \in SUBSET Sites,
         Put(k, action, target)
  PROVE  ConfKeeps
BY DEF TypeOK, ConfRow, Put, ConfKeeps

\* Nor does consuming a pending one.
LEMMA ConsumeKeeps ==
  ASSUME TypeOK, NEW k \in Confs, NEW approved \in BOOLEAN, Pending(k), Consume(k, approved)
  PROVE  ConfKeeps
BY DEF TypeOK, ConfRow, Pending, Consume, ConfKeeps

\* Nor leaving all as they are.
LEMMA SameKeeps == ASSUME TypeOK, UNCHANGED conf PROVE ConfKeeps
BY DEF TypeOK, ConfKeeps

\* Choosing a site approves the choice and puts the next confirmation.
LEMMA ChoosesKeeps ==
  ASSUME TypeOK, NEW r, NEW k \in Confs, NEW next \in Unused, NEW chosen \in Sites,
         ChoosesSite(r, k, next, chosen), Pending(k)
  PROVE  ConfKeeps
<1>1. next \in Confs /\ conf[next].status = "unused"
  BY DEF Unused
<1>2. conf \in [Confs -> ConfRow] /\ conf[k].status = "pending"
  BY DEF TypeOK, Pending
<1> DEFINE chosenRow == [conf[k] EXCEPT !.status = "approved"]
           nextRow == [status |-> "pending", action |-> "recommend", target |-> {chosen}]
<1>3. conf' = [conf EXCEPT ![k] = chosenRow, ![next] = nextRow]
  BY <1>2 DEF ChoosesSite
<1>4. chosenRow \in ConfRow /\ chosenRow.status = "approved"
  BY <1>2 DEF ConfRow
<1>5. nextRow \in ConfRow
  BY DEF ConfRow, Asked
<1> HIDE DEF chosenRow, nextRow
<1> QED
  BY <1>1, <1>2, <1>3, <1>4, <1>5 DEF ConfKeeps

\* Nor does asking for a confirmation.
LEMMA AsksForKeeps ==
  ASSUME TypeOK, NEW r, NEW action \in Asked, NEW target \in SUBSET Sites, NEW site,
         AsksFor(r, action, target, site)
  PROVE  ConfKeeps
<1>1. CASE exists
  <2>1. PICK k \in Unused : Put(k, action, target)
    BY <1>1 DEF AsksFor
  <2> QED
    BY <2>1, PutKeeps DEF Unused
<1>2. CASE ~exists
  BY <1>2, SameKeeps DEF AsksFor
<1> QED
  BY <1>1, <1>2

\* No step of the conversation takes an approval back.
LEMMA ConfSteps == ASSUME TypeOK, PlaceInv, Next PROVE ConfKeeps
<1>1. CASE UNCHANGED conf
  BY <1>1, SameKeeps
<1>2. CASE conf' # conf
  <2>1. PICK r \in Requests : \/ MessagePrepared(r) \/ Searched(r) \/ Validated(r)
                              \/ ConfirmPrepared(r) \/ Finish(r)
    BY <1>2 DEF Next, Step, SendArrives, ConfirmArrives, ActionArrives, SendEnters, ConfirmEnters,
       ActionEnters, ToolEnds, AppendTurn, ActionEnds, SessionChanges, Delete, Crash
  <2>2. CASE MessagePrepared(r) \/ Searched(r) \/ Validated(r)
    <3>1. \E action \in Asked, target \in SUBSET Sites, site \in Sites \cup {None} :
            AsksFor(r, action, target, site)
      BY <1>2, <2>2, MessageCases
    <3> QED
      BY <3>1, AsksForKeeps
  <2>3. CASE ConfirmPrepared(r)
    <3>1. PICK k \in Confs : k = req[r].conf
      BY <2>3, DecisionCases
    <3>2. /\ Pending(k)
          /\ \/ \E a \in BOOLEAN : Consume(k, a)
             \/ \E next \in Unused, chosen \in Sites : ChoosesSite(r, k, next, chosen)
      BY <1>2, <2>3, <3>1, DecisionCases
    <3> QED
      BY <3>2, ConsumeKeeps, ChoosesKeeps
  <2>4. CASE Finish(r)
    <3>1. /\ req[r].input = "confirm" /\ Pending(req[r].conf)
          /\ Consume(req[r].conf, req[r].approved) /\ req[r].pc = "finish"
      BY <1>2, <2>4 DEF Finish, At
    <3>2. req[r].conf \in Confs /\ req[r].approved \in BOOLEAN
      BY <3>1, RowFacts DEF RowInv, Rows
    <3> QED
      BY <3>1, <3>2, ConsumeKeeps
  <2> QED
    BY <2>1, <2>2, <2>3, <2>4
<1> QED
  BY <1>1, <1>2

\* The tool is called for one confirmation, which has had no effect before.
LEMMA EffectSteps ==
  ASSUME TypeOK, PlaceInv, Next
  PROVE  \/ UNCHANGED effects
         \/ \E r \in Requests :
              /\ req[r].pc = "tool" /\ req[r].conf \in Confs
              /\ effects' = [effects EXCEPT ![req[r].conf] = @ + 1]
              /\ \A q \in Requests : req'[q].pc # "tool"
<1>1. CASE effects' # effects
  <2>1. PICK r \in Requests : ToolEnds(r)
    BY <1>1 DEF Next, Step, SendArrives, ConfirmArrives, ActionArrives, SendEnters, ConfirmEnters,
       ActionEnters, MessagePrepared, Searched, Validated, ConfirmPrepared, AppendTurn, Finish,
       ActionEnds, SessionChanges, Delete, Crash
  <2>2. req[r].pc = "tool" /\ req[r].conf \in Confs /\ req[r].input # "action"
    BY <2>1, RowFacts DEF ToolEnds, At, RowInv
  <2>3. effects' = [effects EXCEPT ![req[r].conf] = @ + 1]
    BY <1>1, <2>1 DEF ToolEnds
  <2>4. /\ req'[r].pc = "append"
        /\ \A q \in Requests \ {r} : req'[q] = req[q]
    <3>1. /\ req' \in [Requests -> Rows] /\ req'[r].pc = "append"
          /\ \A q \in Requests \ {r} : req'[q] = req[q]
      <4>1. CASE Goes(r, "append")
        BY <2>2, <4>1, ReqTypeHolds, RowFacts, GoesSteps DEF Goes, ReqType, Rows
      <4>2. CASE ~Goes(r, "append")
        <5>1. PICK confirmed \in conf[req[r].conf].target :
          req' = [req EXCEPT ![r].pc = "append",
                  ![r].context.site = IF exists THEN confirmed ELSE @,
                  ![r].context.session = exists \/ @]
          BY <2>1, <4>2 DEF ToolEnds, Goes
        <5> QED
          BY <5>1, ReqTypeHolds, ReqSteps, ReqStepKeeps, RowFacts DEF ReqType, Rows
      <4> QED
        BY <4>1, <4>2
    <3> QED
      BY <3>1
  <2>5. \A q \in Requests \ {r} : req[q].pc # "tool"
    BY <2>2, OneHolder, RowFacts DEF RowInv
  <2> QED
    BY <2>2, <2>3, <2>4, <2>5
<1> QED
  BY <1>1

\* A request is at the tool because its confirmation was pending and is approved now, or
\* it was there before.
LEMMA ToolEntered ==
  ASSUME TypeOK, PlaceInv, Next, NEW r \in Requests, req'[r].pc = "tool"
  PROVE  \/ req'[r] = req[r]
         \/ Pending(req[r].conf) /\ conf'[req[r].conf].status = "approved"
            /\ req'[r].conf = req[r].conf
<1>1. req \in [Requests -> Rows]
  BY ReqTypeHolds DEF ReqType
<1>2. ASSUME NEW q \in Requests, NEW x \in Rows, Queues(q, x) \/ Continues(q, x), req'[r] # req[r]
      PROVE  Pending(req[r].conf) /\ conf'[req[r].conf].status = "approved"
             /\ req'[r].conf = req[r].conf
  <2>1. req' = [req EXCEPT ![q] = x]
    BY <1>2 DEF Queues, Continues
  <2>2. q = r /\ x.pc = "tool" /\ req'[r] = x
    BY <1>1, <1>2, <2>1
  <2> QED
    BY <1>2, <2>2 DEF Queues, Continues
<1>3. ASSUME NEW q \in Requests, Leaves(q)
      PROVE  req'[r] = req[r]
  BY <1>1, <1>3, IdleRow DEF Leaves, Ends
<1>4. ~Restarts
  BY IdleRow DEF Restarts
<1> QED
  BY <1>2, <1>3, <1>4, ReqSteps DEF ReqStep

\* One effect for each approval, and none before it.
LEMMA EffectKept ==
  ASSUME TypeOK, PlaceInv, EffectInv, Next
  PROVE  EffectInv' /\ effects' \in [Confs -> Nat]
<1>0. effects \in [Confs -> Nat] /\ ConfKeeps
  BY ConfSteps DEF TypeOK
<1>1. CASE UNCHANGED effects
  <2>1. ConfirmedOnce'
    BY <1>0, <1>1 DEF EffectInv, ConfirmedOnce, ConfKeeps
  <2>2. ASSUME NEW r \in Requests, req'[r].pc = "tool"
        PROVE  conf'[req'[r].conf].status = "approved" /\ effects'[req'[r].conf] = 0
    <3>1. CASE req'[r] = req[r]
      <4>1. req[r].conf \in Confs /\ conf[req[r].conf].status = "approved"
            /\ effects[req[r].conf] = 0
        BY <2>2, <3>1, RowFacts DEF EffectInv, RowInv
      <4> QED
        BY <1>0, <1>1, <3>1, <4>1 DEF ConfKeeps
    <3>2. CASE req'[r] # req[r]
      <4>1. /\ Pending(req[r].conf) /\ conf'[req[r].conf].status = "approved"
            /\ req'[r].conf = req[r].conf
        BY <2>2, <3>2, ToolEntered
      <4>2. req'[r].conf \in Confs
        <5>1. RowInv(req'[r])
          BY ReqSteps, ReqStepKeeps, ReqTypeHolds, RowFacts
        <5> QED
          BY <2>2, <5>1 DEF RowInv
      <4>3. effects[req[r].conf] \in Nat /\ effects[req[r].conf] <= 1
            /\ effects[req[r].conf] # 1
        BY <1>0, <4>1, <4>2 DEF EffectInv, ConfirmedOnce, Pending
      <4> QED
        BY <1>1, <4>1, <4>3
    <3> QED
      BY <3>1, <3>2
  <2> QED
    BY <1>0, <1>1, <2>1, <2>2 DEF EffectInv
<1>2. CASE effects' # effects
  <2>1. PICK r \in Requests :
          /\ req[r].pc = "tool" /\ req[r].conf \in Confs
          /\ effects' = [effects EXCEPT ![req[r].conf] = @ + 1]
          /\ \A q \in Requests : req'[q].pc # "tool"
    BY <1>2, EffectSteps
  <2>2. conf[req[r].conf].status = "approved" /\ effects[req[r].conf] = 0
    BY <2>1 DEF EffectInv
  <2>3. effects' \in [Confs -> Nat] /\ effects'[req[r].conf] = 1
        /\ \A k \in Confs : k # req[r].conf => effects'[k] = effects[k]
    BY <1>0, <2>1, <2>2
  <2>4. ConfirmedOnce'
    BY <1>0, <2>1, <2>2, <2>3 DEF EffectInv, ConfirmedOnce, ConfKeeps
  <2> QED
    BY <2>1, <2>3, <2>4 DEF EffectInv
<1> QED
  BY <1>1, <1>2

-----------------------------------------------------------------------------
(* Turns and what their callers are told.                                  *)

\* A turn is stored: its messages still fit and no turn has its id.
Stores(r) ==
  LET id == RequestId(r, req[r].seq) IN
  /\ exists /\ exists' = exists
  /\ req[r].pc # "idle"
  /\ Stored(id) = {}
  /\ req[r].seq = LastSequence
  /\ turns' = Append(turns, [id |-> id, input |-> req[r].input,
                             seq |-> req[r].seq + 1, answer |-> Answer(r)])
  /\ context' \in ContextRow /\ context'.version = context.version + 1
  /\ told' = told \cup Told(id, {Answer(r)})

\* The session only grows, and nobody is told anything while it does.
LEMMA SessionGrows ==
  ASSUME TypeOK, PlaceInv, Next
  PROVE  /\ aggregate' \in Nat /\ aggregate <= aggregate'
         /\ aggregate' = aggregate \/ UNCHANGED <<exists, turns, context, told>>
<1>0. aggregate \in Nat
  BY DEF TypeOK
<1>1. CASE SessionChanges
  BY <1>0, <1>1 DEF SessionChanges
<1>2. CASE ~SessionChanges
  <2>1. UNCHANGED aggregate
    BY <1>2 DEF Next, Step, SendArrives, ConfirmArrives, ActionArrives, SendEnters,
       ConfirmEnters, ActionEnters, MessagePrepared, Searched, Validated, ConfirmPrepared,
       ToolEnds, AppendTurn, Finish, ActionEnds, Delete, Crash
  <2> QED
    BY <1>0, <2>1
<1> QED
  BY <1>1, <1>2

\* A retry is told what is stored under its id.
Retells(id) ==
  /\ exists
  /\ UNCHANGED <<exists, turns, context>>
  /\ told' = told \cup Told(id, {turns[i].answer : i \in Stored(id)})

\* A request that has arrived has an id.
LEMMA RequestIdType ==
  ASSUME TypeOK, PlaceInv, NEW r \in Requests, req[r].pc # "idle", NEW seq \in Nat
  PROVE  RequestId(r, seq) \in RequestIds
<1>1. req[r] \in Rows /\ RowInv(req[r])
  BY RowFacts
<1>2. CASE req[r].input = "confirm"
  BY <1>1, <1>2 DEF RequestId, RequestIds, RowInv, Rows
<1>3. CASE req[r].input = "action"
  BY <1>1, <1>3 DEF RequestId, RequestIds, RowInv
<1>4. CASE req[r].input \in Texts /\ req[r].key # None
  <2>1. req[r].input \notin {"confirm", "action"} /\ req[r].key \in Keys
    BY <1>1, <1>4 DEF Rows, Texts
  <2> QED
    BY <1>4, <2>1 DEF RequestId, RequestIds
<1>5. CASE req[r].input \in Texts /\ req[r].key = None
  <2>1. req[r].input \notin {"confirm", "action"} /\ seq + 1 \in Nat
    BY <1>5 DEF Texts
  <2> QED
    BY <1>5, <2>1 DEF RequestId, RequestIds
<1> QED
  BY <1>1, <1>2, <1>3, <1>4, <1>5 DEF Rows, Inputs

\* The id of an action does not depend on its place.
LEMMA ActionId ==
  ASSUME NEW r \in Requests, req[r].input = "action", NEW seq
  PROVE  RequestId(r, seq) = [from |-> "action", key |-> req[r].key]
BY DEF RequestId, Texts

\* Only the id of an action speaks of the session.
LEMMA SpeaksAlike ==
  ASSUME TypeOK, PlaceInv, NEW r \in Requests, NEW seq
  PROVE  Speaks(RequestId(r, seq).from) = Speaks(req[r].input)
<1>1. req[r].input \in Inputs
  BY RowFacts DEF Rows
<1>2. RequestId(r, seq).from = "action" <=> req[r].input = "action"
  BY <1>1 DEF RequestId, Inputs, Texts
<1> QED
  BY <1>2 DEF Speaks

\* The last message has the number of messages.
LEMMA LastIsTwice ==
  ASSUME TypeOK, TurnsAreContiguous
  PROVE  LastSequence = 2 * Len(turns) /\ Len(turns) \in Nat
<1>1. turns \in Seq(Turns)
  BY DEF TypeOK
<1>2. CASE turns = <<>>
  BY <1>2 DEF LastSequence
<1>3. CASE turns # <<>>
  <2>1. Len(turns) \in 1..Len(turns)
    BY <1>1, <1>3
  <2>2. turns[Len(turns)].seq = 2 * Len(turns) - 1
    BY <2>1 DEF TurnsAreContiguous
  <2> QED
    BY <1>1, <1>3, <2>2 DEF LastSequence
<1> QED
  BY <1>2, <1>3

\* appendTurn stores the turn, or answers with the stored one, or refuses.
LEMMA AppendStores ==
  ASSUME TypeOK, PlaceInv, NEW r \in Requests, AppendTurn(r)
  PROVE  \/ Stores(r)
         \/ \E id \in RequestIds : Retells(id)
         \/ UNCHANGED <<exists, turns, context, told>>
<1>1. PICK id : id = RequestId(r, req[r].seq)
  OBVIOUS
<1>2. /\ req[r].pc = "append" /\ req[r].context \in ContextRow /\ req[r].seq \in Nat
      /\ exists' = exists
  BY RowFacts DEF AppendTurn, At
<1>3. id \in RequestIds
  BY <1>1, <1>2, RequestIdType
<1>4. CASE /\ exists /\ Stored(id) = {}
           /\ Fits(req[r].seq, req[r].context.version)
           /\ turns' = Append(turns, [id |-> id, input |-> req[r].input,
                                      seq |-> req[r].seq + 1, answer |-> Answer(r)])
           /\ context' = [req[r].context EXCEPT !.version = @ + 1]
           /\ told' = told \cup Told(id, {Answer(r)})
  <2>1. context' \in ContextRow /\ context'.version = context.version + 1
    BY <1>2, <1>4 DEF Fits, ContextRow
  <2> QED
    BY <1>1, <1>2, <1>4, <2>1 DEF Stores, Fits
<1>5. CASE /\ exists /\ UNCHANGED <<turns, context>>
           /\ told' = told \cup Told(id, {turns[i].answer : i \in Stored(id)})
  BY <1>2, <1>3, <1>5 DEF Retells
<1>6. CASE Fails(r) /\ UNCHANGED <<turns, context>>
  BY <1>2, <1>6 DEF Fails
<1> QED
  BY <1>1, <1>4, <1>5, <1>6 DEF AppendTurn

\* The other service's turns fit as well, and nobody has stored one under their key:
\* whoever did has moved the numbers of the messages on.
LEMMA ActionStores ==
  ASSUME TypeOK, PlaceInv, TurnInv, NEW r \in Requests, ActionEnds(r)
  PROVE  Stores(r) \/ UNCHANGED <<exists, turns, context, told>>
<1>1. PICK id : id = RequestId(r, req[r].seq)
  OBVIOUS
<1>2. /\ req[r].pc = "dispatch" /\ req[r].seq \in Nat /\ exists' = exists
      /\ req[r].input = "action"
  BY RowFacts DEF ActionEnds, At, RowInv
<1>3. CASE /\ exists /\ Fits(req[r].seq, context.version)
           /\ turns' = Append(turns, [id |-> id, input |-> "action",
                                      seq |-> req[r].seq + 1, answer |-> Answer(r)])
           /\ context' = [context EXCEPT !.version = @ + 1, !.session = TRUE]
           /\ told' = told \cup Told(id, {Answer(r)})
  <2>0. context \in ContextRow
    BY DEF TypeOK
  <2>1. context' \in ContextRow /\ context'.version = context.version + 1
    <3>1. /\ context = [version |-> context.version, site |-> context.site,
                       session |-> context.session]
          /\ context.version \in Nat /\ context.site \in Sites \cup {None}
      BY <2>0 DEF ContextRow
    <3>2. context' = [version |-> context.version + 1, site |-> context.site, session |-> TRUE]
      BY <1>3, <3>1
    <3>3. context.version + 1 \in Nat
      BY <3>1
    <3> QED
      BY <3>1, <3>2, <3>3 DEF ContextRow
  <2>2. Stored(id) = {}
    BY <1>1, <1>2, <1>3 DEF TurnInv, Fits
  <2> QED
    BY <1>1, <1>2, <1>3, <2>1, <2>2 DEF Stores, Fits
<1>4. CASE Fails(r) /\ UNCHANGED <<turns, context>>
  BY <1>2, <1>4 DEF Fails
<1> QED
  BY <1>1, <1>3, <1>4 DEF ActionEnds

\* At the entrance a retry is told what is stored.
LEMMA EntersRetells ==
  ASSUME TypeOK, PlaceInv, NEW r \in Requests, SendEnters(r) \/ ConfirmEnters(r) \/ ActionEnters(r)
  PROVE  \/ \E id \in RequestIds : Retells(id)
         \/ UNCHANGED <<exists, turns, context, told>>
<1>1. PICK id : id = RequestId(r, LastSequence)
  OBVIOUS
<1>2. id \in RequestIds
  BY <1>1, RequestIdType, LastSequenceType DEF SendEnters, ConfirmEnters, ActionEnters, At
<1>3. UNCHANGED <<exists, turns, context>>
  BY DEF SendEnters, ConfirmEnters, ActionEnters
<1>4. \/ UNCHANGED told
      \/ exists /\ Replays(r, id)
  BY <1>1 DEF SendEnters, ConfirmEnters, ActionEnters, Fails
<1> QED
  BY <1>2, <1>3, <1>4 DEF Replays, Retells

\* The graph and the tool store no turn and answer nobody.
LEMMA GraphTellsNothing ==
  ASSUME TypeOK, PlaceInv, NEW r \in Requests,
         \/ MessagePrepared(r) \/ Searched(r) \/ Validated(r) \/ ConfirmPrepared(r)
         \/ ToolEnds(r) \/ Finish(r)
  PROVE  UNCHANGED <<exists, turns, context, told>>
<1>1. UNCHANGED <<exists, turns, context>>
  BY DEF MessagePrepared, Searched, Validated, ConfirmPrepared, ToolEnds, Finish
<1>2. CASE MessagePrepared(r) \/ Searched(r) \/ Validated(r)
  BY <1>1, <1>2, MessageCases DEF AsksFor, Composes, Fails
<1>3. CASE ConfirmPrepared(r)
  BY <1>1, <1>3, DecisionCases DEF Fails, Composes, ChoosesSite
<1>4. CASE ToolEnds(r) \/ Finish(r)
  BY <1>1, <1>4 DEF ToolEnds, Finish
<1> QED
  BY <1>2, <1>3, <1>4

\* What a step does to the turns and to what was told of them.
LEMMA TurnSteps ==
  ASSUME TypeOK, PlaceInv, TurnInv, Next
  PROVE  \/ \E r \in Requests : Stores(r)
         \/ \E id \in RequestIds : Retells(id)
         \/ UNCHANGED <<exists, turns, context, told>>
         \/ Delete
<1>1. CASE Crash \/ SessionChanges
  BY <1>1 DEF Crash, SessionChanges
<1>2. CASE ~Delete /\ ~Crash /\ ~SessionChanges
  <2>1. PICK r \in Requests : SendArrives(r) \/ ConfirmArrives(r) \/ ActionArrives(r) \/ Step(r)
    BY <1>2 DEF Next
  <2>2. CASE SendArrives(r) \/ ConfirmArrives(r) \/ ActionArrives(r)
    BY <2>2 DEF SendArrives, ConfirmArrives, ActionArrives
  <2> QED
    BY <2>1, <2>2, AppendStores, ActionStores, EntersRetells, GraphTellsNothing DEF Step
<1> QED
  BY <1>1, <1>2

\* The stored turn is well formed and takes the next place.
LEMMA StoresAppends ==
  ASSUME TypeOK, PlaceInv, TurnsAreContiguous, NEW r \in Requests, Stores(r)
  PROVE  /\ turns' \in Seq(Turns)
         /\ Len(turns') = Len(turns) + 1
         /\ \A i \in 1..Len(turns) : turns'[i] = turns[i]
         /\ turns'[Len(turns) + 1].id = RequestId(r, req[r].seq)
         /\ turns'[Len(turns) + 1].answer = Answer(r)
         /\ turns'[Len(turns) + 1].seq = 2 * Len(turns) + 1
         /\ Answer(r) \in Answers /\ RequestId(r, req[r].seq) \in RequestIds
<1>1. req[r] \in Rows /\ req[r].seq \in Nat /\ req[r].pc # "idle"
  BY RowFacts DEF Stores
<1>2. RequestId(r, req[r].seq) \in RequestIds
  BY <1>1, RequestIdType
<1>3. Answer(r) \in Answers
  <2>1. Speaks(req[r].input) \in Nat
    BY DEF Speaks, TypeOK
  <2> QED
    BY <1>1, <2>1 DEF Answer, Answers, Rows
<1>4. PICK turn : turn = [id |-> RequestId(r, req[r].seq), input |-> req[r].input,
                          seq |-> req[r].seq + 1, answer |-> Answer(r)]
  OBVIOUS
<1>5. turn \in Turns
  BY <1>1, <1>2, <1>3, <1>4 DEF Turns, Rows
<1>6. turns \in Seq(Turns) /\ turns' = Append(turns, turn)
  BY <1>4 DEF Stores, TypeOK
<1>7. /\ turns' \in Seq(Turns) /\ Len(turns') = Len(turns) + 1
      /\ \A i \in 1..Len(turns) : turns'[i] = turns[i]
      /\ turns'[Len(turns) + 1] = turn
  BY <1>5, <1>6
<1>8. req[r].seq = 2 * Len(turns)
  BY LastIsTwice DEF Stores
<1> QED
  BY <1>2, <1>3, <1>4, <1>7, <1>8

\* The turns stay numbered without a gap.
LEMMA NumbersKept ==
  ASSUME TypeOK, PlaceInv, TurnInv, Next
  PROVE  turns' \in Seq(Turns) /\ context' \in ContextRow /\ TurnsAreContiguous'
<1>0. turns \in Seq(Turns) /\ context \in ContextRow /\ TurnsAreContiguous
  BY DEF TypeOK, TurnInv
<1>1. ASSUME NEW r \in Requests, Stores(r)
      PROVE  turns' \in Seq(Turns) /\ context' \in ContextRow /\ TurnsAreContiguous'
  <2>1. /\ turns' \in Seq(Turns) /\ Len(turns') = Len(turns) + 1
        /\ \A i \in 1..Len(turns) : turns'[i] = turns[i]
        /\ turns'[Len(turns) + 1].seq = 2 * Len(turns) + 1
    BY <1>0, <1>1, StoresAppends
  <2>2. context' \in ContextRow /\ context'.version = context.version + 1
    BY <1>1 DEF Stores
  <2>3. Len(turns) \in Nat /\ context'.version = Len(turns')
    BY <1>0, <2>1, <2>2 DEF TurnsAreContiguous
  <2>4. ASSUME NEW i \in 1..Len(turns') PROVE turns'[i].seq = 2 * i - 1
    <3>1. CASE i \in 1..Len(turns)
      BY <1>0, <2>1, <3>1 DEF TurnsAreContiguous
    <3>2. CASE i = Len(turns) + 1
      BY <2>1, <2>3, <3>2
    <3> QED
      BY <2>1, <2>3, <3>1, <3>2
  <2> QED
    BY <2>1, <2>2, <2>3, <2>4 DEF TurnsAreContiguous
<1>2. CASE UNCHANGED <<turns, context>>
  BY <1>0, <1>2 DEF TurnsAreContiguous
<1>3. CASE Delete
  BY <1>3 DEF Delete, TurnsAreContiguous, NoContext, ContextRow
<1> QED
  BY <1>1, <1>2, <1>3, TurnSteps DEF Retells

\* An action is dispatched only when nothing is stored under its key.
LEMMA DispatchEntered ==
  ASSUME TypeOK, PlaceInv, Next, NEW r \in Requests, req'[r].pc = "dispatch"
  PROVE  \/ req'[r] = req[r]
         \/ /\ exists /\ Stored(RequestId(r, LastSequence)) = {}
            /\ req'[r].seq = LastSequence /\ UNCHANGED <<exists, turns>>
            /\ req'[r].input = req[r].input /\ req'[r].key = req[r].key
<1>1. req \in [Requests -> Rows]
  BY ReqTypeHolds DEF ReqType
<1>2. ASSUME NEW q \in Requests, NEW x \in Rows, Queues(q, x) \/ Continues(q, x), req'[r] # req[r]
      PROVE  /\ exists /\ Stored(RequestId(r, LastSequence)) = {}
             /\ req'[r].seq = LastSequence /\ UNCHANGED <<exists, turns>>
             /\ req'[r].input = req[r].input /\ req'[r].key = req[r].key
  <2>1. req' = [req EXCEPT ![q] = x]
    BY <1>2 DEF Queues, Continues
  <2>2. q = r /\ x.pc = "dispatch" /\ req'[r] = x
    BY <1>1, <1>2, <2>1
  <2> QED
    BY <1>2, <2>2 DEF Queues, Continues
<1>3. ASSUME NEW q \in Requests, Leaves(q)
      PROVE  req'[r] = req[r]
  BY <1>1, <1>3, IdleRow DEF Leaves, Ends
<1>4. ~Restarts
  BY IdleRow DEF Restarts
<1> QED
  BY <1>2, <1>3, <1>4, ReqSteps DEF ReqStep

\* An action still fits only if nobody has stored a turn since it was dispatched.
LEMMA TurnKept ==
  ASSUME TypeOK, PlaceInv, TurnInv, Next
  PROVE  TurnInv'
<1>1. /\ turns' \in Seq(Turns) /\ TurnsAreContiguous' /\ turns \in Seq(Turns)
      /\ LastSequence = 2 * Len(turns) /\ Len(turns) \in Nat
  BY NumbersKept, LastIsTwice DEF TypeOK, TurnInv
<1>2. ReqType' /\ \A r \in Requests : RowInv(req'[r])
  BY ReqSteps, ReqStepKeeps, ReqTypeHolds, RowFacts
<1>3. ASSUME NEW r \in Requests, exists', req'[r].pc = "dispatch"
      PROVE  /\ req'[r].seq <= LastSequence'
             /\ req'[r].seq = LastSequence' => Stored(RequestId(r, req[r].seq))' = {}
  <2>1. req'[r].input = "action"
    BY <1>2, <1>3 DEF RowInv
  <2>2. RequestId(r, req[r].seq)' = [from |-> "action", key |-> req'[r].key]
    BY <2>1 DEF RequestId, Texts
  <2>3. /\ \A s \in Nat : req[r].input = "action" =>
             RequestId(r, s) = [from |-> "action", key |-> req[r].key]
    BY ActionId
  <2>4. CASE UNCHANGED <<exists, turns>>
    <3>1. LastSequence' = LastSequence
      BY <2>4 DEF LastSequence
    <3>2. CASE req'[r] = req[r]
      <4>1. /\ req[r].seq <= LastSequence
            /\ req[r].seq = LastSequence => Stored(RequestId(r, req[r].seq)) = {}
        BY <1>3, <2>4, <3>2 DEF TurnInv
      <4>2. RequestId(r, req[r].seq) = [from |-> "action", key |-> req'[r].key]
        BY <2>1, <2>3, <3>2, RowFacts
      <4> QED
        BY <2>2, <2>4, <3>1, <3>2, <4>1, <4>2 DEF Stored
    <3>3. CASE req'[r] # req[r]
      <4>1. /\ Stored(RequestId(r, LastSequence)) = {} /\ req'[r].seq = LastSequence
            /\ req'[r].input = req[r].input /\ req'[r].key = req[r].key
        BY <1>3, <3>3, DispatchEntered
      <4>2. RequestId(r, LastSequence) = [from |-> "action", key |-> req'[r].key]
        BY <1>1, <2>1, <2>3, <4>1
      <4> QED
        BY <1>1, <2>2, <2>4, <3>1, <4>1, <4>2 DEF Stored
    <3> QED
      BY <3>2, <3>3
  <2>5. CASE \E q \in Requests : Stores(q)
    <3>1. PICK q \in Requests : Stores(q)
      BY <2>5
    <3>2. Len(turns') = Len(turns) + 1
      BY <3>1, StoresAppends DEF TurnInv
    <3>3. LastSequence' = 2 * Len(turns')
      <4>1. turns' # <<>> /\ Len(turns') \in 1..Len(turns')
        BY <1>1, <3>2
      <4>2. turns'[Len(turns')].seq = 2 * Len(turns') - 1
        BY <1>1, <4>1 DEF TurnsAreContiguous
      <4> QED
        BY <1>1, <3>2, <4>1, <4>2 DEF LastSequence
    <3>4. ~UNCHANGED <<exists, turns>>
      BY <1>1, <3>2
    <3>5. req'[r] = req[r] /\ exists /\ req[r].pc = "dispatch" /\ req[r].seq \in Nat
      BY <1>3, <3>1, <3>4, DispatchEntered, RowFacts DEF Stores
    <3>6. req[r].seq <= LastSequence
      BY <3>5 DEF TurnInv
    <3> QED
      BY <1>1, <3>2, <3>3, <3>5, <3>6
  <2>6. CASE Delete
    BY <1>3, <2>6 DEF Delete
  <2> QED
    BY <2>4, <2>5, <2>6, TurnSteps DEF Retells
<1> QED
  BY <1>1, <1>3 DEF TurnInv

\* A stored turn is told to the next who asks for it, and to nobody else.
LEMMA StoresAnswers ==
  ASSUME TypeOK, PlaceInv, TurnsAreContiguous, AnswerInv, NEW r \in Requests, Stores(r),
         aggregate' = aggregate
  PROVE  AnswerInv' /\ told' \subseteq RequestIds \X Answers \X Nat
<1>1. PICK id : id = RequestId(r, req[r].seq)
  OBVIOUS
<1>2. PICK answer : answer = Answer(r)
  OBVIOUS
<1>3. /\ turns' \in Seq(Turns) /\ Len(turns') = Len(turns) + 1 /\ Len(turns) \in Nat
      /\ \A i \in 1..Len(turns) : turns'[i] = turns[i]
      /\ turns'[Len(turns) + 1].id = id /\ turns'[Len(turns) + 1].answer = answer
      /\ id \in RequestIds /\ answer \in Answers
  BY <1>1, <1>2, StoresAppends, LastIsTwice
<1>4. exists /\ Stored(id) = {} /\ told' = told \cup Told(id, {answer})
  BY <1>1, <1>2 DEF Stores
<1>5. /\ told \subseteq RequestIds \X Answers \X Nat
      /\ \A t \in told : \E i \in Stored(t[1]) : turns[i].answer = t[2]
      /\ \A a, b \in told : a[1] = b[1] => a[2] = b[2]
      /\ \A a \in told : a[2].shows <= a[3]
      /\ \A i, j \in 1..Len(turns) :
           turns[i].id = turns[j].id /\ turns[i].id.from # "message" => i = j
  BY <1>4 DEF TypeOK, AnswerInv, OneTurnPerRequest, AnswersKeepUp
<1>14. PICK now : now = Speaks(id.from)
  OBVIOUS
<1>15. now \in Nat /\ answer.shows = now
  BY <1>1, <1>2, <1>14, SpeaksAlike DEF Speaks, TypeOK, Answer
<1>6. Told(id, {answer}) \subseteq {<<id, answer, now>>}
  BY <1>14 DEF Told
<1>7. \A t \in told' : t \in told \/ t = <<id, answer, now>>
  BY <1>4, <1>6
<1>8. \A t \in told : t[1] # id
  BY <1>4, <1>5
<1>9. OneTurnPerRequest'
  <2>1. ASSUME NEW a \in told', NEW b \in told', a[1] = b[1] PROVE a[2] = b[2]
    <3>1. CASE a \in told /\ b \in told
      BY <1>5, <2>1, <3>1
    <3>2. CASE a = <<id, answer, now>> /\ b = <<id, answer, now>>
      BY <3>2
    <3>3. CASE a = <<id, answer, now>> /\ b \in told
      BY <1>8, <2>1, <3>3
    <3>4. CASE a \in told /\ b = <<id, answer, now>>
      BY <1>8, <2>1, <3>4
    <3> QED
      BY <1>7, <3>1, <3>2, <3>3, <3>4
  <2> QED
    BY <2>1 DEF OneTurnPerRequest
<1>16. AnswersKeepUp'
  BY <1>5, <1>7, <1>15 DEF AnswersKeepUp
<1>10. ASSUME NEW t \in told'
       PROVE  \E i \in 1..Len(turns') : turns'[i].id = t[1] /\ turns'[i].answer = t[2]
  <2>1. CASE t \in told
    <3>1. PICK i \in Stored(t[1]) : turns[i].answer = t[2]
      BY <1>5, <2>1
    <3>2. i \in 1..Len(turns) /\ turns[i].id = t[1]
      BY <3>1 DEF Stored
    <3> QED
      BY <1>3, <3>1, <3>2
  <2>2. CASE t = <<id, answer, now>>
    <3>1. Len(turns) + 1 \in 1..Len(turns')
      BY <1>3
    <3> QED
      BY <1>3, <2>2, <3>1
  <2> QED
    BY <1>7, <2>1, <2>2
<1>17. \A i \in 1..Len(turns') : i \in 1..Len(turns) \/ i = Len(turns) + 1
  BY <1>3
<1>11. ASSUME NEW i \in 1..Len(turns'), NEW j \in 1..Len(turns'),
              turns'[i].id = turns'[j].id, turns'[i].id.from # "message"
       PROVE  i = j
  <2>2. \A n \in 1..Len(turns) : turns'[n].id # id
    BY <1>3, <1>4 DEF Stored
  <2>3. CASE i \in 1..Len(turns) /\ j \in 1..Len(turns)
    BY <1>3, <1>5, <1>11, <2>3
  <2> QED
    BY <1>3, <1>11, <1>17, <2>2, <2>3
<1>12. told' \subseteq RequestIds \X Answers \X Nat
  BY <1>3, <1>5, <1>7, <1>15
<1>13. \A t \in told' : \E i \in Stored(t[1])' : turns'[i].answer = t[2]
  BY <1>10 DEF Stored
<1>18. ASSUME NEW i \in 1..Len(turns')
       PROVE  (turns[i].answer.shows <= Speaks(turns[i].id.from))'
  <2>1. CASE i \in 1..Len(turns)
    <3>1. turns'[i] = turns[i] /\ turns[i].answer.shows <= Speaks(turns[i].id.from)
      BY <1>3, <2>1 DEF AnswerInv
    <3> QED
      BY <3>1 DEF Speaks
  <2>2. CASE i = Len(turns) + 1
    <3>1. turns'[i].answer.shows <= Speaks(turns'[i].id.from)
      BY <1>3, <1>14, <1>15, <2>2
    <3> QED
      BY <3>1 DEF Speaks
  <2> QED
    BY <1>17, <2>1, <2>2
<1> QED
  BY <1>9, <1>11, <1>12, <1>13, <1>16, <1>18 DEF AnswerInv, Stored

\* What is told again is what was told, beside the session as it is.
LEMMA RetellsAnswers ==
  ASSUME TypeOK, AnswerInv, NEW id \in RequestIds, Retells(id), aggregate' = aggregate
  PROVE  AnswerInv' /\ told' \subseteq RequestIds \X Answers \X Nat
<1>1. /\ exists /\ turns' = turns /\ turns \in Seq(Turns)
      /\ told' = told \cup Told(id, {turns[i].answer : i \in Stored(id)})
  BY DEF Retells, TypeOK
<1>2. /\ told \subseteq RequestIds \X Answers \X Nat
      /\ \A t \in told : \E i \in Stored(t[1]) : turns[i].answer = t[2]
      /\ \A a \in told : a[2].shows <= a[3]
      /\ \A i, j \in 1..Len(turns) :
           turns[i].id = turns[j].id /\ turns[i].id.from # "message" => i = j
  BY <1>1 DEF TypeOK, AnswerInv, AnswersKeepUp
<1>10. PICK now : now = Speaks(id.from)
  OBVIOUS
<1>11. now \in Nat
  BY <1>10 DEF Speaks, TypeOK
<1>3. ASSUME NEW t \in told', t \notin told
      PROVE  /\ id.from # "message" /\ t[1] = id
             /\ \E i \in Stored(id) : turns[i].answer = t[2] /\ t = <<id, turns[i].answer, now>>
  BY <1>1, <1>3, <1>10 DEF Told
<1>4. ASSUME NEW a \in told', NEW b \in told', a[1] = b[1] PROVE a[2] = b[2]
  <2>1. CASE a \in told /\ b \in told
    BY <1>4, <2>1 DEF AnswerInv, OneTurnPerRequest
  <2>2. CASE a \notin told \/ b \notin told
    <3>1. id.from # "message" /\ a[1] = id /\ b[1] = id
      BY <1>3, <1>4, <2>2
    <3>2. PICK i \in Stored(id) : turns[i].answer = a[2]
      BY <1>2, <1>3, <3>1
    <3>3. PICK j \in Stored(id) : turns[j].answer = b[2]
      BY <1>2, <1>3, <3>1
    <3>4. i = j
      BY <1>2, <3>1 DEF Stored
    <3> QED
      BY <3>2, <3>3, <3>4
  <2> QED
    BY <2>1, <2>2
<1>5. \A t \in told' : \E i \in Stored(t[1]) : turns[i].answer = t[2]
  BY <1>2, <1>3
<1>6. \A i \in Stored(id) : turns[i].answer \in Answers /\ turns[i].answer.shows <= now
  <2>1. \A i \in 1..Len(turns) : turns[i] \in Turns
    BY <1>1
  <2> QED
    BY <1>10, <2>1 DEF Stored, Turns, AnswerInv
<1>7. told' \subseteq RequestIds \X Answers \X Nat
  BY <1>2, <1>3, <1>6, <1>11
<1>8. \A t \in told' : \E i \in Stored(t[1])' : turns'[i].answer = t[2]
  BY <1>1, <1>5 DEF Stored
<1>9. OneTurnPerRequest'
  BY <1>4 DEF OneTurnPerRequest
<1>12. AnswersKeepUp'
  <2>1. ASSUME NEW t \in told' PROVE t[2].shows <= t[3]
    <3>1. CASE t \in told
      BY <1>2, <3>1
    <3>2. CASE t \notin told
      BY <1>3, <1>6, <3>2
    <3> QED
      BY <3>1, <3>2
  <2> QED
    BY <2>1 DEF AnswersKeepUp
<1>13. (\A i \in 1..Len(turns) : turns[i].answer.shows <= Speaks(turns[i].id.from))'
  BY <1>1 DEF AnswerInv, Speaks
<1> QED
  BY <1>1, <1>2, <1>7, <1>8, <1>9, <1>12, <1>13 DEF AnswerInv

\* The session has changed at most: what was told and what is stored are as they were.
LEMMA SameAnswers ==
  ASSUME TypeOK, AnswerInv, UNCHANGED <<exists, turns, context, told>>,
         aggregate' \in Nat, aggregate <= aggregate'
  PROVE  AnswerInv' /\ told' \subseteq RequestIds \X Answers \X Nat
<1>1. turns \in Seq(Turns) /\ aggregate \in Nat
  BY DEF TypeOK
<1>2. ASSUME NEW i \in 1..Len(turns)
      PROVE  turns[i].answer.shows <= Speaks(turns[i].id.from)'
  <2>1. turns[i].answer.shows \in Nat
    <3>1. turns[i] \in Turns
      BY <1>1, <1>2
    <3> QED
      BY <3>1 DEF Turns, Answers
  <2>2. turns[i].answer.shows <= Speaks(turns[i].id.from)
    BY DEF AnswerInv
  <2>3. Speaks(turns[i].id.from)' = IF turns[i].id.from = "action" THEN aggregate' ELSE 0
    BY DEF Speaks
  <2> QED
    BY <1>1, <2>1, <2>2, <2>3 DEF Speaks
<1> QED
  BY <1>2 DEF TypeOK, AnswerInv, OneTurnPerRequest, AnswersKeepUp, Stored, Speaks

\* The answers agree with the turns for as long as there are any.
LEMMA AnswerKept ==
  ASSUME TypeOK, PlaceInv, TurnInv, AnswerInv, Next
  PROVE  AnswerInv' /\ told' \subseteq RequestIds \X Answers \X Nat
<1>1. CASE UNCHANGED <<exists, turns, context, told>>
  BY <1>1, SessionGrows, SameAnswers
<1>2. CASE Delete
  <2>1. exists' = FALSE /\ turns' = <<>> /\ told' = told
    BY <1>2 DEF Delete
  <2> QED
    BY <2>1 DEF TypeOK, AnswerInv, OneTurnPerRequest, AnswersKeepUp
<1> QED
  BY <1>1, <1>2, SessionGrows, TurnSteps, StoresAnswers, RetellsAnswers DEF TurnInv

-----------------------------------------------------------------------------
(* The invariant.                                                          *)

\* What the sessions, the link and the restarts may become.
LEMMA RestSteps ==
  ASSUME TypeOK, PlaceInv, Next
  PROVE  /\ exists' \in BOOLEAN /\ linked' \in BOOLEAN
         /\ sessions' \subseteq Confs \X Sites
         /\ crashes' \in 0..MaxCrashes
<1>1. exists \in BOOLEAN /\ linked \in BOOLEAN /\ sessions \subseteq Confs \X Sites
      /\ crashes \in 0..MaxCrashes
  BY DEF TypeOK
<1>2. CASE Delete
  BY <1>1, <1>2 DEF Delete
<1>3. CASE Crash
  BY <1>1, <1>3, ConstantsAssumption DEF Crash
<1>4. ASSUME NEW r \in Requests, ToolEnds(r)
      PROVE  /\ exists' \in BOOLEAN /\ linked' \in BOOLEAN
             /\ sessions' \subseteq Confs \X Sites /\ crashes' \in 0..MaxCrashes
  <2>1. req[r].conf \in Confs /\ req[r].context.site \in Sites \cup {None}
    BY <1>4, RowFacts DEF ToolEnds, At, RowInv, ContextRow
  <2>2. exists' = exists /\ crashes' = crashes /\ linked' \in BOOLEAN
    BY <1>1, <1>4 DEF ToolEnds
  <2>3. \/ sessions' = sessions
        \/ req[r].context.site # None
           /\ sessions' = sessions \cup {<<req[r].conf, req[r].context.site>>}
    BY <1>4 DEF ToolEnds
  <2> QED
    BY <1>1, <2>1, <2>2, <2>3
<1>5. CASE UNCHANGED <<exists, linked, sessions, crashes>>
  BY <1>1, <1>5
<1> QED
  BY <1>2, <1>3, <1>4, <1>5 DEF Next, Step, SendArrives, ConfirmArrives, ActionArrives,
     SendEnters, ConfirmEnters, ActionEnters, MessagePrepared, Searched, Validated,
     ConfirmPrepared, AppendTurn, Finish, ActionEnds, SessionChanges

\* The types are kept.
LEMMA TypeKept ==
  ASSUME ConversationInv, Next
  PROVE  TypeOK' /\ PlaceInv'
<1>1. ReqType' /\ \A r \in Requests : RowInv(req'[r])
  BY ReqSteps, ReqStepKeeps, ReqTypeHolds, RowFacts DEF ConversationInv
<1>2. /\ turns' \in Seq(Turns) /\ context' \in ContextRow
      /\ conf' \in [Confs -> ConfRow]
      /\ effects' \in [Confs -> Nat]
      /\ told' \subseteq RequestIds \X Answers \X Nat /\ aggregate' \in Nat
  BY NumbersKept, ConfSteps, EffectKept, AnswerKept, SessionGrows DEF ConversationInv, ConfKeeps
<1>3. /\ exists' \in BOOLEAN /\ linked' \in BOOLEAN
      /\ sessions' \subseteq Confs \X Sites
      /\ crashes' \in 0..MaxCrashes
  BY RestSteps DEF ConversationInv
<1>4. TypeOK'
  BY <1>1, <1>2, <1>3 DEF TypeOK, ReqType, Rows, Holds
<1> QED
  BY <1>1, <1>4 DEF PlaceInv, RowInv

\* A step that changes nothing.
LEMMA StutterKeeps == ASSUME ConversationInv, UNCHANGED vars PROVE ConversationInv'
BY DEF vars, ConversationInv, TypeOK, PlaceInv, EffectInv, ConfirmedOnce, TurnInv,
   TurnsAreContiguous, LastSequence, Stored, RequestId, AnswerInv, OneTurnPerRequest,
   AnswersKeepUp, Speaks

\* The conversation starts in the invariant.
LEMMA InitHolds == ASSUME Init PROVE ConversationInv
<1>1. \A r \in Requests : req[r] = Idle
  BY DEF Init
<1>2. TypeOK
  <2>1. conf \in [Confs -> ConfRow] /\ effects \in [Confs -> Nat]
    BY DEF Init, ConfRow
  <2>2. req \in [Requests -> Rows] /\ lock \in Seq(Requests) /\ actions \in Seq(Requests)
        /\ turns \in Seq(Turns) /\ context \in ContextRow
    BY IdleRow DEF Init, NoContext, ContextRow
  <2>3. /\ exists \in BOOLEAN /\ linked \in BOOLEAN
        /\ sessions \subseteq Confs \X Sites /\ told \subseteq RequestIds \X Answers \X Nat
        /\ aggregate \in Nat
    BY DEF Init
  <2>4. crashes \in 0..MaxCrashes
    <3>1. crashes = 0 /\ MaxCrashes \in Nat
      BY ConstantsAssumption DEF Init
    <3> QED
      BY <3>1
  <2>5. \A r \in Requests : req[r].pc = "idle"
    BY <1>1, IdleRow
  <2> QED
    BY <2>1, <2>2, <2>3, <2>4, <2>5 DEF TypeOK, Rows
<1>3. PlaceInv
  BY <1>1, IdleRow DEF PlaceInv, RowInv
<1>4. EffectInv /\ TurnInv /\ AnswerInv
  BY <1>1, IdleRow DEF Init, NoContext, EffectInv, ConfirmedOnce, TurnInv, TurnsAreContiguous,
     AnswerInv, OneTurnPerRequest, AnswersKeepUp
<1> QED
  BY <1>2, <1>3, <1>4 DEF ConversationInv

\* In every state of the conversation the invariant holds: the types and the chains, what a
\* request at its place has, one effect per approval, the numbers of the turns, and that an
\* answer that was given is the stored one.
THEOREM ConversationInvariant == Spec => []ConversationInv
<1>1. ASSUME ConversationInv, [Next]_vars PROVE ConversationInv'
  <2>1. CASE Next
    BY <1>1, <2>1, TypeKept, EffectKept, TurnKept, AnswerKept DEF ConversationInv
  <2> QED
    BY <1>1, <2>1, StutterKeeps
<1> QED
  BY <1>1, InitHolds, PTL DEF Spec

\* However a confirmation is repeated, retried after a restart or raced by a deletion, no
\* second application task or job-match session comes of it, and none without an approval.
THEOREM ConfirmationsActOnce == Spec => []ConfirmedOnce
<1>1. ConversationInv => ConfirmedOnce
  BY DEF ConversationInv, EffectInv
<1> QED
  BY <1>1, ConversationInvariant, PTL

\* The messages of a conversation are numbered without a gap though two services append
\* under different locks, all answers to a retried request carry the same stored turn, and
\* none tells of an older session than its message and cards show.
THEOREM ConversationConsistent == Spec => []Consistent
<1>1. ConversationInv => Consistent
  BY DEF ConversationInv, TurnInv, AnswerInv, Consistent
<1> QED
  BY <1>1, ConversationInvariant, PTL

=============================================================================
