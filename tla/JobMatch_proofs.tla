---------------------------- MODULE JobMatch_proofs ----------------------------
(***************************************************************************)
(* Proofs about job-match sessions: how they move, who holds the lease,    *)
(* and which extraction may store an outcome.                              *)
(*                                                                         *)
(* No request has a lock.  What takes its place is the version of the      *)
(* session's row: it grows whenever the state or the epoch changes, and a  *)
(* request that still finds the version it captured finds the state it     *)
(* captured, and nobody else who captured an older version does.           *)
(***************************************************************************)
EXTENDS JobMatch, SequenceTheorems, TLAPS

SessionRows == [state : States, version : Nat, epoch : Nat, cursor : BOOLEAN, fresh : BOOLEAN]

Leases == [owner : Owners \cup {None}, epoch : Nat, next : Nat]

Workers == [alive : BOOLEAN, epochs : [Sessions -> Nat], queue : Seq(Commands)]

Slots == [op : {"none", "create", "confirm", "pause", "cancel", "resume",
                "continue", "rematch", "convert"},
          s : Sessions \cup {None},
          pc : {"idle", "match", "target"} \cup OnWorker,
          reply : {"none", "ok", "err"}, version : Nat, epoch : Nat,
          pages : 0..(MaxPages - 1), cursor : BOOLEAN, retried : BOOLEAN,
          key : Keys \cup {None}]

\* A request is about a session, at a version that the session has reached.
SlotInv ==
  \A r \in Requests :
    /\ req[r].pc = "idle" => req[r].s = None
    /\ req[r].pc # "idle" =>
         req[r].s \in Sessions /\ req[r].version <= sessions[req[r].s].version

\* The states in which a request of this kind may have captured its version.
Captures(x, state) ==
  /\ x.pc = "read" => state = "extracting_jobs"
  /\ x.pc = "revoke" /\ x.op = "pause" => state = "extracting_jobs"
  /\ x.pc = "reobserve" => state = "paused"
  /\ x.pc = "match" /\ x.op = "rematch" => state \in {"awaiting_job_selection", "matching_jobs"}
  /\ x.pc = "target" => state = "selected"

\* Whoever still has the stored version finds the state that goes with it.
CapturedInv ==
  \A r \in Requests : req[r].pc # "idle" /\ Current(r) =>
    Captures(req[r], sessions[req[r].s].state)

\* A session that is being created is nobody else's, and one not drawn yet nobody's.
CreateInv ==
  /\ \A s \in Sessions : sessions[s].state = "absent" => sessions[s].version = 0
  /\ \A s \in ids : sessions[s].state = "absent" /\ \A r \in Requests : req[r].s # s
  /\ \A r \in Requests : req[r].pc \in {"open", "identify"} =>
       /\ sessions[req[r].s].state = "absent"
       /\ \A q \in Requests : req[q].s = req[r].s => q = r

\* A conversion has the key it was asked with.
KeyInv == \A r \in Requests : req[r].pc = "target" => req[r].key \in Keys

JobInv == /\ TypeOK /\ SlotInv /\ CapturedInv /\ CreateInv /\ KeyInv
          /\ OneLiveExtraction /\ LeaseHasLiveOwner

-----------------------------------------------------------------------------
(* What a step does to the rows, the requests and the lease.               *)

\* No session changes what requests capture of it.
Keeps ==
  /\ sessions' \in [Sessions -> SessionRows]
  /\ \A s \in Sessions : /\ sessions'[s].state = sessions[s].state
                         /\ sessions'[s].version = sessions[s].version
                         /\ sessions'[s].epoch = sessions[s].epoch

\* Whoever had the lease has it still, or nobody has.
LeaseStays == lease'.owner \in {lease.owner, None}

Entering == {"open", "identify"}

\* A request on a stored session begins.
Begins(r, s, x) ==
  /\ Keeps /\ UNCHANGED ids /\ req' = [req EXCEPT ![r] = x]
  /\ req[r].pc = "idle" /\ s \in Sessions /\ sessions[s].state # "absent"
  /\ x.s = s /\ x.version = sessions[s].version
  /\ x.pc \in {"filters", "revoke", "reobserve", "match", "target"}
  /\ Captures(x, sessions[s].state)
  /\ x.pc = "target" => x.key \in Keys
  /\ LeaseStays \/ (lease'.owner = s /\ sessions[s].state = "paused")

\* A session is drawn, with the lease.
Creates(r, s, x) ==
  /\ Keeps /\ req' = [req EXCEPT ![r] = x]
  /\ req[r].pc = "idle" /\ s \in ids /\ ids' = ids \ {s}
  /\ x.s = s /\ x.version = sessions[s].version /\ x.pc = "open"
  /\ lease'.owner = s

\* A request goes on with what it captured.
GoesOn(r, x) ==
  /\ Keeps /\ UNCHANGED ids /\ req' = [req EXCEPT ![r] = x]
  /\ x.s = req[r].s /\ x.version = req[r].version /\ x.epoch = req[r].epoch
  /\ x.op = req[r].op /\ x.key = req[r].key
  /\ \/ x.pc = req[r].pc
     \/ req[r].pc = "open" /\ x.pc = "identify"
     \/ req[r].pc # "idle" /\ x.pc = "release"
  /\ LeaseStays
  /\ req[r].pc \in Entering /\ x.pc \notin Entering => lease'.owner # req[r].s

\* A request ends and leaves the rows as they are.
Leaves(r) ==
  /\ Keeps /\ UNCHANGED ids /\ Ends(r)
  /\ req[r].pc \notin Entering /\ LeaseStays

\* The moves of a session by a request that goes on as x.
Moved(r, row, x) ==
  LET state == sessions[req[r].s].state IN
  \/ row.state = state
  \/ <<state, row.state>> \in Moves
  \/ row.state = "cancelled"
  \/ row.state = "awaiting_job_selection" /\ req[r].pc = "match" /\ x.pc = "release"

\* A request writes a newer version of its session and goes on as x.
Writes(r, row, x) ==
  /\ req[r].pc # "idle" /\ UNCHANGED ids
  /\ sessions' = [sessions EXCEPT ![req[r].s] = row]
  /\ req' = [req EXCEPT ![r] = x]
  /\ row.version > sessions[req[r].s].version /\ row.state # "absent"
  /\ \/ x = Idle
     \/ /\ x.s = req[r].s
        /\ \/ x.pc = "release" /\ x.version <= row.version
           \/ x.pc = "match" /\ x.version < row.version
           \/ /\ x.pc = "read" /\ x.version = row.version
              /\ x.epoch = row.epoch /\ row.state = "extracting_jobs"
  /\ Moved(r, row, x)
  /\ LeaseStays /\ (row.state \in Live \/ lease'.owner # req[r].s)

\* The user selects a posting.
Selects(s) ==
  /\ s \in Sessions /\ sessions[s].state = "awaiting_job_selection"
  /\ sessions' = [sessions EXCEPT ![s] = Mutated(sessions[s], "selected")]
  /\ UNCHANGED <<ids, req>> /\ LeaseStays

\* All requests are gone.
Restarts ==
  /\ Keeps /\ UNCHANGED ids /\ req' = [r \in Requests |-> Idle] /\ lease'.owner = None

\* Others take the lease, or the worker changes.
Rests == Keeps /\ UNCHANGED <<ids, req>> /\ (LeaseStays \/ lease'.owner \notin Sessions)

JobStep ==
  \/ \E r \in Requests, x \in Slots :
       \/ \E s \in Sessions : Begins(r, s, x) \/ Creates(r, s, x)
       \/ GoesOn(r, x)
       \/ \E row \in SessionRows : Writes(r, row, x)
  \/ \E r \in Requests : Leaves(r)
  \/ \E s \in Sessions : Selects(s)
  \/ Restarts
  \/ Rests

\* What the step classes keep: the invariant but for the types of the worker.
StepInv ==
  /\ sessions \in [Sessions -> SessionRows] /\ req \in [Requests -> Slots]
  /\ ids \subseteq Sessions
  /\ SlotInv /\ CapturedInv /\ CreateInv /\ OneLiveExtraction /\ LeaseHasLiveOwner

\* The invariant of the sessions is what the step classes keep.
LEMMA StepInvHolds == ASSUME JobInv PROVE StepInv
BY DEF JobInv, StepInv, TypeOK, SessionRows, Slots

\* An idle slot is a slot.
LEMMA IdleSlot ==
  Idle \in Slots /\ Idle.pc = "idle" /\ Idle.s = None /\ Idle.version = 0 /\ Idle.epoch = 0
BY ConstantsAssumption DEF Idle, Slots

\* What a request at work has.
LEMMA SlotFacts ==
  ASSUME StepInv, NEW r \in Requests
  PROVE  /\ req[r] \in Slots
         /\ req[r].pc = "idle" <=> req[r].s = None
         /\ req[r].pc # "idle" =>
              /\ req[r].s \in Sessions /\ sessions[req[r].s] \in SessionRows
              /\ req[r].version <= sessions[req[r].s].version
              /\ req[r].version \in Nat /\ sessions[req[r].s].version \in Nat
              /\ req[r].version = sessions[req[r].s].version =>
                   Captures(req[r], sessions[req[r].s].state)
         /\ req[r].pc \in Entering =>
              /\ sessions[req[r].s].state = "absent"
              /\ \A q \in Requests : req[q].s = req[r].s => q = r
BY ConstantsAssumption DEF StepInv, SlotInv, CapturedInv, CreateInv, Current, Slots, SessionRows,
   Entering

\* A request that begins has captured the row as it is.
LEMMA BeginsKeeps ==
  ASSUME StepInv, NEW r \in Requests, NEW x \in Slots, NEW s \in Sessions, Begins(r, s, x)
  PROVE  StepInv'
<1>1. /\ req'[r] = x /\ req' \in [Requests -> Slots]
      /\ \A q \in Requests \ {r} : req'[q] = req[q]
  BY DEF Begins, StepInv
<1>2. /\ sessions' \in [Sessions -> SessionRows] /\ ids' = ids
      /\ \A p \in Sessions : /\ sessions'[p].state = sessions[p].state
                             /\ sessions'[p].version = sessions[p].version
                             /\ sessions'[p].epoch = sessions[p].epoch
  BY DEF Begins, Keeps
<1>3. /\ x.s = s /\ x.version = sessions[s].version /\ sessions[s].state # "absent"
      /\ x.pc \notin {"idle", "open", "identify", "read"} /\ Captures(x, sessions[s].state)
      /\ req[r].pc = "idle" /\ req[r].s = None /\ x.version \in Nat
  BY SlotFacts DEF Begins, Slots
<1>4. SlotInv'
  BY <1>1, <1>2, <1>3 DEF StepInv, SlotInv
<1>5. CapturedInv'
  BY <1>1, <1>2, <1>3, SlotFacts DEF CapturedInv, Current
<1>6. CreateInv'
  <2>1. ASSUME NEW q \in Requests, req'[q].pc \in {"open", "identify"}
        PROVE  /\ sessions'[req'[q].s].state = "absent"
               /\ \A p \in Requests : req'[p].s = req'[q].s => p = q
    <3>1. q # r /\ req'[q] = req[q] /\ req[q].s \in Sessions
      BY <1>1, <1>3, <2>1, SlotFacts
    <3>2. sessions[req[q].s].state = "absent" /\ \A p \in Requests : req[p].s = req[q].s => p = q
      BY <2>1, <3>1, SlotFacts DEF Entering
    <3> QED
      BY <1>1, <1>2, <1>3, <3>1, <3>2
  <2>2. \A p \in ids' : sessions'[p].state = "absent" /\ \A q \in Requests : req'[q].s # p
    BY <1>1, <1>2, <1>3 DEF StepInv, CreateInv
  <2>3. \A p \in Sessions : sessions'[p].state = "absent" => sessions'[p].version = 0
    BY <1>2 DEF StepInv, CreateInv
  <2> QED
    BY <2>1, <2>2, <2>3 DEF CreateInv
<1>7. OneLiveExtraction'
  <2>1. \A q \in Requests : req'[q].pc = "read" => q # r /\ req'[q] = req[q]
    BY <1>1, <1>3
  <2> QED
    BY <1>2, <2>1 DEF StepInv, OneLiveExtraction, Reading, Current
<1>8. LeaseHasLiveOwner'
  <2>1. ASSUME NEW p \in Sessions, lease'.owner = p
        PROVE  Creating(p)' \/ sessions'[p].state \in Live
    <3>1. lease.owner = p \/ sessions[p].state \in Live
      BY <2>1, ConstantsAssumption DEF Begins, LeaseStays, Live
    <3>2. Creating(p) => Creating(p)'
      BY <1>1, <1>3 DEF Creating
    <3> QED
      BY <1>2, <3>1, <3>2 DEF StepInv, LeaseHasLiveOwner
  <2> QED
    BY <2>1 DEF LeaseHasLiveOwner
<1> QED
  BY <1>1, <1>2, <1>4, <1>5, <1>6, <1>7, <1>8 DEF StepInv

\* A session that is drawn was nobody's.
LEMMA CreatesKeeps ==
  ASSUME StepInv, NEW r \in Requests, NEW x \in Slots, NEW s \in Sessions, Creates(r, s, x)
  PROVE  StepInv'
<1>1. /\ req'[r] = x /\ req' \in [Requests -> Slots]
      /\ \A q \in Requests \ {r} : req'[q] = req[q]
  BY DEF Creates, StepInv
<1>2. /\ sessions' \in [Sessions -> SessionRows] /\ ids' = ids \ {s} /\ s \in ids
      /\ \A p \in Sessions : /\ sessions'[p].state = sessions[p].state
                             /\ sessions'[p].version = sessions[p].version
                             /\ sessions'[p].epoch = sessions[p].epoch
  BY DEF Creates, Keeps
<1>3. /\ x.s = s /\ x.version = sessions[s].version /\ sessions[s].state = "absent"
      /\ x.pc = "open" /\ req[r].pc = "idle" /\ req[r].s = None /\ x.version \in Nat
      /\ \A q \in Requests : req[q].s # s
  BY <1>2, SlotFacts DEF Creates, Slots, StepInv, CreateInv
<1>4. SlotInv'
  BY <1>1, <1>2, <1>3 DEF StepInv, SlotInv
<1>5. CapturedInv'
  BY <1>1, <1>2, <1>3, SlotFacts DEF CapturedInv, Current, Captures
<1>6. CreateInv'
  <2>1. ASSUME NEW q \in Requests, req'[q].pc \in {"open", "identify"}
        PROVE  /\ sessions'[req'[q].s].state = "absent"
               /\ \A p \in Requests : req'[p].s = req'[q].s => p = q
    <3>1. CASE q = r
      BY <1>1, <1>2, <1>3, <3>1
    <3>2. CASE q # r
      <4>1. req'[q] = req[q] /\ req[q].s \in Sessions
        BY <1>1, <3>2, <2>1, SlotFacts
      <4>2. sessions[req[q].s].state = "absent" /\ \A p \in Requests : req[p].s = req[q].s => p = q
        BY <2>1, <4>1, SlotFacts DEF Entering
      <4> QED
        BY <1>1, <1>2, <1>3, <3>2, <4>1, <4>2
    <3> QED
      BY <3>1, <3>2
  <2>2. \A p \in ids' : sessions'[p].state = "absent" /\ \A q \in Requests : req'[q].s # p
    BY <1>1, <1>2, <1>3 DEF StepInv, CreateInv
  <2>3. \A p \in Sessions : sessions'[p].state = "absent" => sessions'[p].version = 0
    BY <1>2 DEF StepInv, CreateInv
  <2> QED
    BY <2>1, <2>2, <2>3 DEF CreateInv
<1>7. OneLiveExtraction'
  <2>1. \A q \in Requests : req'[q].pc = "read" => q # r /\ req'[q] = req[q]
    BY <1>1, <1>3
  <2> QED
    BY <1>2, <2>1 DEF StepInv, OneLiveExtraction, Reading, Current
<1>8. LeaseHasLiveOwner'
  BY <1>1, <1>3 DEF Creates, LeaseHasLiveOwner, Creating
<1> QED
  BY <1>1, <1>2, <1>4, <1>5, <1>6, <1>7, <1>8 DEF StepInv

\* What a request captured stays its own.
LEMMA GoesOnKeeps ==
  ASSUME StepInv, NEW r \in Requests, NEW x \in Slots, GoesOn(r, x)
  PROVE  StepInv'
<1>1. /\ req'[r] = x /\ req' \in [Requests -> Slots]
      /\ \A q \in Requests \ {r} : req'[q] = req[q]
  BY DEF GoesOn, StepInv
<1>2. /\ sessions' \in [Sessions -> SessionRows] /\ ids' = ids
      /\ \A p \in Sessions : /\ sessions'[p].state = sessions[p].state
                             /\ sessions'[p].version = sessions[p].version
                             /\ sessions'[p].epoch = sessions[p].epoch
  BY DEF GoesOn, Keeps
<1>3. /\ \A q \in Requests : /\ req'[q].s = req[q].s /\ req'[q].version = req[q].version
                             /\ req'[q].epoch = req[q].epoch /\ req'[q].op = req[q].op
      /\ \A q \in Requests : \/ req'[q].pc = req[q].pc
                             \/ req[q].pc = "open" /\ req'[q].pc = "identify"
                             \/ req[q].pc # "idle" /\ req'[q].pc = "release"
  BY <1>1 DEF GoesOn
<1>4. SlotInv'
  BY <1>1, <1>2, <1>3 DEF StepInv, SlotInv
<1>5. CapturedInv'
  <2>1. ASSUME NEW q \in Requests, req'[q].pc # "idle", Current(q)'
        PROVE  Captures(req'[q], sessions'[req'[q].s].state)
    <3>1. req[q].pc # "idle" /\ req[q].s \in Sessions
      BY <1>3, <2>1, SlotFacts
    <3>2. Captures(req[q], sessions[req[q].s].state)
      BY <1>2, <1>3, <2>1, <3>1, SlotFacts DEF Current
    <3> QED
      BY <1>2, <1>3, <3>1, <3>2 DEF Captures
  <2> QED
    BY <2>1 DEF CapturedInv
<1>6. CreateInv'
  BY <1>2, <1>3, SlotFacts DEF StepInv, CreateInv, Entering
<1>7. OneLiveExtraction'
  <2>1. \A q \in Requests : req'[q].pc = "read" => req[q].pc = "read"
    BY <1>3
  <2> QED
    BY <1>2, <1>3, <2>1 DEF StepInv, OneLiveExtraction, Reading, Current
<1>8. LeaseHasLiveOwner'
  <2>1. ASSUME NEW p \in Sessions, lease'.owner = p
        PROVE  Creating(p)' \/ sessions'[p].state \in Live
    <3>1. lease.owner = p
      BY <2>1, ConstantsAssumption DEF GoesOn, LeaseStays
    <3>2. Creating(p) => Creating(p)'
      <4>1. ASSUME NEW q \in Requests, req[q].s = p, req[q].pc \in Entering
            PROVE  req'[q].s = p /\ req'[q].pc \in Entering
        BY <1>1, <1>3, <2>1, <4>1 DEF GoesOn
      <4> QED
        BY <4>1 DEF Creating, Entering
    <3> QED
      BY <1>2, <3>1, <3>2 DEF StepInv, LeaseHasLiveOwner
  <2> QED
    BY <2>1 DEF LeaseHasLiveOwner
<1> QED
  BY <1>1, <1>2, <1>4, <1>5, <1>6, <1>7, <1>8 DEF StepInv

\* A request that ends takes its claims with it.
LEMMA LeavesKeeps ==
  ASSUME StepInv, NEW r \in Requests, Leaves(r)
  PROVE  StepInv'
<1>1. /\ req'[r] = Idle /\ req' \in [Requests -> Slots]
      /\ \A q \in Requests \ {r} : req'[q] = req[q]
  BY IdleSlot DEF Leaves, Ends, StepInv
<1>2. /\ sessions' \in [Sessions -> SessionRows] /\ ids' = ids
      /\ \A p \in Sessions : /\ sessions'[p].state = sessions[p].state
                             /\ sessions'[p].version = sessions[p].version
                             /\ sessions'[p].epoch = sessions[p].epoch
  BY DEF Leaves, Keeps
<1>3. None \notin Sessions
  BY ConstantsAssumption
<1>4. SlotInv'
  BY <1>1, <1>2, IdleSlot DEF StepInv, SlotInv
<1>5. CapturedInv'
  BY <1>1, <1>2, IdleSlot, SlotFacts DEF CapturedInv, Current
<1>6. CreateInv'
  <2>1. \A q \in Requests : req'[q].pc \in {"open", "identify"} =>
          q # r /\ req'[q] = req[q] /\ req[q].s \in Sessions
    BY <1>1, IdleSlot, SlotFacts
  <2>2. \A q \in Requests : req'[q].s \in Sessions => req'[q] = req[q]
    BY <1>1, <1>3, IdleSlot
  <2> QED
    BY <1>1, <1>2, <1>3, <2>1, <2>2, IdleSlot, SlotFacts DEF StepInv, CreateInv, Entering
<1>7. OneLiveExtraction'
  <2>1. \A q \in Requests : req'[q].pc = "read" => req'[q] = req[q]
    BY <1>1, IdleSlot
  <2> QED
    BY <1>2, <2>1 DEF StepInv, OneLiveExtraction, Reading, Current
<1>8. LeaseHasLiveOwner'
  <2>1. ASSUME NEW p \in Sessions, lease'.owner = p
        PROVE  Creating(p)' \/ sessions'[p].state \in Live
    <3>1. lease.owner = p
      BY <1>3, <2>1 DEF Leaves, LeaseStays
    <3>2. Creating(p) => Creating(p)'
      <4>1. ASSUME NEW q \in Requests, req[q].pc \in Entering PROVE req'[q] = req[q]
        BY <1>1, <4>1 DEF Leaves
      <4> QED
        BY <4>1 DEF Creating, Entering
    <3> QED
      BY <1>2, <3>1, <3>2 DEF StepInv, LeaseHasLiveOwner
  <2> QED
    BY <2>1 DEF LeaseHasLiveOwner
<1> QED
  BY <1>1, <1>2, <1>4, <1>5, <1>6, <1>7, <1>8 DEF StepInv

\* A write makes every other request's version of the session an old one.
LEMMA WritesKeeps ==
  ASSUME StepInv, NEW r \in Requests, NEW x \in Slots, NEW row \in SessionRows, Writes(r, row, x)
  PROVE  StepInv'
<1>1. /\ req'[r] = x /\ req' \in [Requests -> Slots]
      /\ \A q \in Requests \ {r} : req'[q] = req[q]
  BY DEF Writes, StepInv
<1>2. PICK s \in Sessions : s = req[r].s
  BY SlotFacts DEF Writes
<1>3. /\ sessions' \in [Sessions -> SessionRows] /\ ids' = ids /\ sessions'[s] = row
      /\ \A p \in Sessions \ {s} : sessions'[p] = sessions[p]
      /\ row.version > sessions[s].version /\ row.state # "absent"
      /\ row.version \in Nat /\ sessions[s].version \in Nat
  BY <1>2 DEF Writes, StepInv, SessionRows
<1>4. \/ x = Idle
      \/ /\ x.s = s /\ x.pc # "idle"
         /\ \/ x.pc = "release" /\ x.version <= row.version
            \/ x.pc = "match" /\ x.version < row.version
            \/ /\ x.pc = "read" /\ x.version = row.version
               /\ x.epoch = row.epoch /\ row.state = "extracting_jobs"
  BY <1>2 DEF Writes
<1>5. x.pc \notin Entering /\ (x.s = None \/ x.s = s) /\ x.version \in Nat /\ None \notin Sessions
  BY <1>4, IdleSlot, ConstantsAssumption DEF Entering, Slots
<1>6. ASSUME NEW q \in Requests, req'[q].s = s, q # r
      PROVE  req'[q] = req[q] /\ req[q].version \in Nat /\ req[q].version < row.version
  <2>1. req'[q] = req[q] /\ req[q].s = s /\ req[q].pc # "idle"
    BY <1>1, <1>5, <1>6, SlotFacts
  <2> QED
    BY <1>3, <2>1, SlotFacts
<1>7. SlotInv'
  <2>1. ASSUME NEW q \in Requests, q # r
        PROVE  /\ req'[q].pc = "idle" => req'[q].s = None
               /\ req'[q].pc # "idle" => /\ req'[q].s \in Sessions
                                         /\ req'[q].version <= sessions'[req'[q].s].version
    <3>1. req'[q] = req[q]
      BY <1>1, <2>1
    <3>2. CASE req[q].s = s
      BY <1>3, <1>5, <1>6, <2>1, <3>1, <3>2, SlotFacts
    <3>3. CASE req[q].s # s
      BY <1>3, <3>1, <3>3, SlotFacts
    <3> QED
      BY <3>2, <3>3
  <2>2. /\ x.pc = "idle" => x.s = None
        /\ x.pc # "idle" => x.s = s /\ x.version <= row.version
    BY <1>3, <1>4, <1>5, IdleSlot
  <2> QED
    BY <1>1, <1>3, <2>1, <2>2 DEF SlotInv
<1>8. CapturedInv'
  <2>1. ASSUME NEW q \in Requests, req'[q].pc # "idle", Current(q)'
        PROVE  Captures(req'[q], sessions'[req'[q].s].state)
    <3>1. CASE q = r
      <4>1. x.s = s /\ x.version = row.version
        BY <1>1, <1>3, <1>4, <2>1, <3>1, IdleSlot DEF Current
      <4> QED
        BY <1>1, <1>3, <1>4, <2>1, <3>1, <4>1, IdleSlot DEF Captures
    <3>2. CASE q # r /\ req[q].s = s
      BY <1>1, <1>3, <1>6, <2>1, <3>2 DEF Current
    <3>3. CASE q # r /\ req[q].s # s
      BY <1>1, <1>3, <2>1, <3>3, SlotFacts DEF Current
    <3> QED
      BY <3>1, <3>2, <3>3
  <2> QED
    BY <2>1 DEF CapturedInv
<1>9. CreateInv'
  <2>1. ASSUME NEW q \in Requests, req'[q].pc \in {"open", "identify"}
        PROVE  /\ sessions'[req'[q].s].state = "absent"
               /\ \A p \in Requests : req'[p].s = req'[q].s => p = q
    <3>1. q # r /\ req'[q] = req[q] /\ req[q].s \in Sessions
      BY <1>1, <1>5, <2>1, SlotFacts DEF Entering
    <3>2. sessions[req[q].s].state = "absent" /\ \A p \in Requests : req[p].s = req[q].s => p = q
      BY <2>1, <3>1, SlotFacts DEF Entering
    <3>3. req[q].s # s
      BY <1>2, <3>1, <3>2
    <3> QED
      BY <1>1, <1>3, <1>5, <3>1, <3>2, <3>3
  <2>2. s \notin ids
    BY <1>2 DEF StepInv, CreateInv
  <2>3. \A p \in ids' : sessions'[p].state = "absent" /\ \A q \in Requests : req'[q].s # p
    BY <1>1, <1>3, <1>5, <2>2 DEF StepInv, CreateInv
  <2>4. \A p \in Sessions : sessions'[p].state = "absent" => sessions'[p].version = 0
    BY <1>3 DEF StepInv, CreateInv
  <2> QED
    BY <2>1, <2>3, <2>4 DEF CreateInv
<1>10. OneLiveExtraction'
  <2>1. ASSUME NEW p \in Sessions, NEW q \in Requests, Reading(q, p)', Current(q)'
        PROVE  \/ /\ q = r /\ p = s /\ row.state = "extracting_jobs" /\ row.epoch = x.epoch
               \/ /\ p # s /\ req'[q] = req[q] /\ Reading(q, p) /\ Current(q)
                  /\ sessions'[p] = sessions[p]
    <3>1. CASE q = r
      <4>1. p = s /\ x.pc = "read"
        BY <1>1, <1>5, <2>1, <3>1 DEF Reading
      <4> QED
        BY <1>4, <3>1, <4>1, IdleSlot
    <3>2. CASE q # r
      <4>1. req'[q] = req[q] /\ req[q].s = p
        BY <1>1, <2>1, <3>2 DEF Reading
      <4>2. p # s
        BY <1>3, <1>6, <2>1, <3>2, <4>1 DEF Current
      <4> QED
        BY <1>3, <2>1, <4>1, <4>2 DEF Reading, Current
    <3> QED
      BY <3>1, <3>2
  <2>2. ASSUME NEW p \in Sessions, NEW q \in Requests, NEW o \in Requests,
               Reading(q, p)', Current(q)'
        PROVE  /\ sessions'[p].state = "extracting_jobs"
               /\ sessions'[p].epoch = req'[q].epoch
               /\ Reading(o, p)' /\ Current(o)' => o = q
    BY <1>1, <1>3, <2>1, <2>2 DEF StepInv, OneLiveExtraction
  <2> QED
    BY <2>2 DEF OneLiveExtraction
<1>11. LeaseHasLiveOwner'
  <2>1. ASSUME NEW p \in Sessions, lease'.owner = p
        PROVE  Creating(p)' \/ sessions'[p].state \in Live
    <3>1. lease.owner = p
      BY <1>5, <2>1 DEF Writes, LeaseStays
    <3>2. CASE p = s
      BY <1>2, <1>3, <2>1, <3>2 DEF Writes
    <3>3. CASE p # s
      <4>1. ASSUME NEW q \in Requests, req[q].s = p PROVE req'[q] = req[q]
        BY <1>1, <1>2, <3>3, <4>1
      <4>2. Creating(p) => Creating(p)'
        BY <4>1 DEF Creating
      <4> QED
        BY <1>3, <3>1, <3>3, <4>2 DEF StepInv, LeaseHasLiveOwner
    <3> QED
      BY <3>2, <3>3
  <2> QED
    BY <2>1 DEF LeaseHasLiveOwner
<1> QED
  BY <1>1, <1>3, <1>7, <1>8, <1>9, <1>10, <1>11 DEF StepInv

\* The states are states.
LEMMA StateNames ==
  /\ {"awaiting_filter_confirmation", "opening_job_page", "extracting_jobs", "paused",
      "matching_jobs", "awaiting_job_selection", "selected", "converted_to_application",
      "cancelled"} \subseteq States
  /\ {"awaiting_filter_confirmation", "opening_job_page", "extracting_jobs", "paused",
      "matching_jobs", "awaiting_job_selection", "selected"} \subseteq Live
  /\ "absent" \notin Live \cup Terminal
BY DEF States, Live, Terminal

\* What mutate makes of a row.
LEMMA MutatedRow ==
  ASSUME NEW row \in SessionRows, NEW state \in States
  PROVE  /\ Mutated(row, state) \in SessionRows
         /\ Mutated(row, state).state = state
         /\ Mutated(row, state).version = row.version + 1
         /\ Mutated(row, state).version > row.version
         /\ Mutated(row, state).epoch = row.epoch
<1>1. row.version \in Nat /\ row.version + 1 \in Nat /\ row.version + 1 > row.version
  BY DEF SessionRows
<1>2. PICK v \in Nat : v = row.version + 1
  BY <1>1
<1>3. Mutated(row, state) = [row EXCEPT !.state = state, !.version = v]
  BY <1>2 DEF Mutated, SessionRows
<1> QED
  BY <1>1, <1>2, <1>3 DEF SessionRows

\* A selection makes every captured version old.
LEMMA SelectsKeeps ==
  ASSUME StepInv, NEW s \in Sessions, Selects(s)
  PROVE  StepInv'
<1>1. /\ sessions \in [Sessions -> SessionRows] /\ req' = req /\ ids' = ids
      /\ sessions[s].state = "awaiting_job_selection" /\ sessions[s].version \in Nat
  BY DEF Selects, StepInv, SessionRows
<1>2. PICK row : row = Mutated(sessions[s], "selected")
  OBVIOUS
<1>3. /\ row \in SessionRows /\ row.state = "selected" /\ row.version = sessions[s].version + 1
      /\ row.version \in Nat
  <2>1. sessions[s] \in SessionRows /\ sessions[s].version + 1 \in Nat
    BY <1>1
  <2> QED
    BY <1>2, <2>1, MutatedRow, StateNames
<1>4. /\ sessions' \in [Sessions -> SessionRows] /\ sessions'[s] = row
      /\ \A p \in Sessions \ {s} : sessions'[p] = sessions[p]
  <2>1. sessions' = [sessions EXCEPT ![s] = row]
    BY <1>2 DEF Selects
  <2> QED
    BY <1>1, <1>3, <2>1
<1>5. \A q \in Requests : req[q].s = s =>
        /\ req[q].pc \notin Entering /\ req[q].version # row.version
        /\ req[q].version <= row.version
  <2>1. ASSUME NEW q \in Requests, req[q].s = s
        PROVE  /\ req[q].pc \notin Entering /\ req[q].version # row.version
               /\ req[q].version <= row.version
    <3>1. req[q].version <= sessions[s].version /\ req[q].version \in Nat
      BY <2>1, SlotFacts, ConstantsAssumption
    <3>2. req[q].pc \notin Entering
      BY <1>1, <2>1, SlotFacts
    <3> QED
      BY <1>1, <1>3, <3>1, <3>2
  <2> QED
    BY <2>1
<1>6. SlotInv'
  BY <1>1, <1>4, <1>5 DEF StepInv, SlotInv
<1>7. CapturedInv'
  BY <1>1, <1>4, <1>5, SlotFacts DEF CapturedInv, Current
<1>8. CreateInv'
  <2>1. s \notin ids
    BY <1>1 DEF StepInv, CreateInv
  <2>2. \A q \in Requests : req'[q].pc \in {"open", "identify"} => req[q].s \in Sessions \ {s}
    BY <1>1, <1>5, SlotFacts DEF Entering
  <2> QED
    BY <1>1, <1>3, <1>4, <2>1, <2>2 DEF StepInv, CreateInv
<1>9. OneLiveExtraction'
  <2>1. ASSUME NEW p \in Sessions, NEW q \in Requests, Reading(q, p)', Current(q)'
        PROVE  p # s /\ Reading(q, p) /\ Current(q) /\ sessions'[p] = sessions[p]
    BY <1>1, <1>4, <1>5, <2>1 DEF Reading, Current
  <2> QED
    BY <1>1, <2>1 DEF StepInv, OneLiveExtraction
<1>10. LeaseHasLiveOwner'
  <2>1. \A p \in Sessions : lease'.owner = p => lease.owner = p
    BY ConstantsAssumption DEF Selects, LeaseStays
  <2>2. \A p \in Sessions : Creating(p) => Creating(p)'
    BY <1>1 DEF Creating
  <2>3. row.state \in Live
    BY <1>3 DEF Live
  <2> QED
    BY <1>4, <2>1, <2>2, <2>3 DEF StepInv, LeaseHasLiveOwner
<1> QED
  BY <1>1, <1>4, <1>6, <1>7, <1>8, <1>9, <1>10 DEF StepInv

\* A restart, or a step of the others.
LEMMA RestsKeeps == ASSUME StepInv, Restarts \/ Rests PROVE StepInv'
<1>1. /\ sessions' \in [Sessions -> SessionRows] /\ ids' = ids
      /\ \A p \in Sessions : /\ sessions'[p].state = sessions[p].state
                             /\ sessions'[p].version = sessions[p].version
                             /\ sessions'[p].epoch = sessions[p].epoch
  BY DEF Restarts, Rests, Keeps
<1>2. None \notin Sessions
  BY ConstantsAssumption
<1>3. CASE Restarts
  <2>1. \A r \in Requests : req'[r] = Idle
    BY <1>3 DEF Restarts
  <2>2. req' \in [Requests -> Slots] /\ SlotInv' /\ CapturedInv'
    BY <1>3, <2>1, IdleSlot DEF Restarts, SlotInv, CapturedInv
  <2>3. CreateInv'
    BY <1>1, <1>2, <2>1, IdleSlot DEF StepInv, CreateInv
  <2>4. OneLiveExtraction' /\ LeaseHasLiveOwner'
    BY <1>2, <1>3, <2>1, IdleSlot DEF Restarts, OneLiveExtraction, Reading, LeaseHasLiveOwner
  <2> QED
    BY <1>1, <2>2, <2>3, <2>4 DEF StepInv
<1>4. CASE Rests
  <2>1. req' = req
    BY <1>4 DEF Rests
  <2>2. SlotInv' /\ CreateInv' /\ OneLiveExtraction' /\ req' \in [Requests -> Slots]
    BY <1>1, <2>1, SlotFacts DEF StepInv, SlotInv, CreateInv, OneLiveExtraction, Reading, Current,
       Entering
  <2>3. CapturedInv'
    BY <1>1, <2>1, SlotFacts DEF CapturedInv, Current
  <2>4. LeaseHasLiveOwner'
    <3>1. \A p \in Sessions : lease'.owner = p => lease.owner = p
      BY <1>2, <1>4 DEF Rests, LeaseStays
    <3>2. \A p \in Sessions : Creating(p) => Creating(p)'
      BY <2>1 DEF Creating
    <3> QED
      BY <1>1, <3>1, <3>2 DEF StepInv, LeaseHasLiveOwner
  <2> QED
    BY <1>1, <2>2, <2>3, <2>4 DEF StepInv
<1> QED
  BY <1>3, <1>4

\* Every such step keeps the invariant.
LEMMA JobStepKeeps == ASSUME StepInv, JobStep PROVE StepInv'
BY BeginsKeeps, CreatesKeeps, GoesOnKeeps, WritesKeeps, LeavesKeeps, SelectsKeeps, RestsKeeps
   DEF JobStep, Selects

-----------------------------------------------------------------------------
(* Each action is such a step.                                             *)

\* Rows that stay keep all.
LEMMA SameKeeps == ASSUME StepInv, UNCHANGED sessions PROVE Keeps
BY DEF StepInv, Keeps

\* A cursor or a fresh result changes nothing that requests capture.
LEMMA MarksKeep ==
  ASSUME StepInv, NEW s \in Sessions, NEW b \in BOOLEAN,
         \/ sessions' = [sessions EXCEPT ![s].cursor = b]
         \/ sessions' = [sessions EXCEPT ![s].fresh = b]
  PROVE  Keeps
BY DEF StepInv, Keeps, SessionRows

Ops == {"create", "confirm", "pause", "cancel", "resume", "continue", "rematch", "convert"}

\* The slot of a request that begins.
LEMMA StartsSlot ==
  ASSUME StepInv, NEW r, NEW op \in Ops, NEW s \in Sessions,
         NEW pc \in {"open", "filters", "revoke", "reobserve", "match", "target"}
  PROVE  /\ Starts(r, op, s, pc) \in Slots
         /\ Starts(r, op, s, pc).s = s /\ Starts(r, op, s, pc).pc = pc
         /\ Starts(r, op, s, pc).op = op
         /\ Starts(r, op, s, pc).version = sessions[s].version
<1>1. sessions[s].version \in Nat /\ 0 \in 0..(MaxPages - 1)
  BY ConstantsAssumption DEF StepInv, SessionRows
<1>2. PICK v \in Nat : v = sessions[s].version
  BY <1>1
<1>3. Starts(r, op, s, pc) = [Idle EXCEPT !.op = op, !.s = s, !.pc = pc, !.version = v]
  BY <1>2 DEF Starts
<1>4. op \in {"none", "create", "confirm", "pause", "cancel", "resume", "continue", "rematch",
              "convert"}
      /\ pc \in {"idle", "match", "target"} \cup OnWorker
  BY DEF Ops, OnWorker
<1> QED
  BY <1>2, <1>3, <1>4, IdleSlot DEF Slots

\* A request that goes on keeps what it captured.
LEMMA AwaitsSlot ==
  ASSUME StepInv, NEW r \in Requests, NEW pc \in {"identify", "release", "match", "read"}
  PROVE  /\ Awaits(r, pc) \in Slots /\ Awaits(r, pc).pc = pc /\ Awaits(r, pc).s = req[r].s
         /\ Awaits(r, pc).version = req[r].version /\ Awaits(r, pc).epoch = req[r].epoch
         /\ Awaits(r, pc).op = req[r].op /\ Awaits(r, pc).key = req[r].key
BY SlotFacts DEF Awaits, Slots, OnWorker

\* An answer to a request, or its retry, keeps all else.
LEMMA ReplySteps ==
  ASSUME StepInv, NEW r \in Requests, NEW reply \in {"none", "ok", "err"}, NEW retried \in BOOLEAN,
         \/ req' = [req EXCEPT ![r].reply = reply]
         \/ req' = [req EXCEPT ![r].reply = reply, ![r].retried = retried],
         UNCHANGED <<sessions, ids>>, LeaseStays
  PROVE  JobStep
<1>1. req[r] \in Slots
  BY SlotFacts
<1>2. CASE req' = [req EXCEPT ![r].reply = reply]
  <2>1. PICK x : x = [req[r] EXCEPT !.reply = reply]
    OBVIOUS
  <2>2. x \in Slots /\ GoesOn(r, x)
    BY <1>1, <1>2, <2>1, SameKeeps DEF GoesOn, Slots
  <2> QED
    BY <2>2 DEF JobStep
<1>3. CASE req' = [req EXCEPT ![r].reply = reply, ![r].retried = retried]
  <2>1. PICK x : x = [req[r] EXCEPT !.reply = reply, !.retried = retried]
    OBVIOUS
  <2>2. req' = [req EXCEPT ![r] = x]
    BY <1>1, <1>3, <2>1 DEF StepInv, Slots
  <2>3. x \in Slots /\ GoesOn(r, x)
    BY <1>1, <2>1, <2>2, SameKeeps DEF GoesOn, Slots
  <2> QED
    BY <2>3 DEF JobStep
<1> QED
  BY <1>2, <1>3

\* Requests arrive.
LEMMA CreateStartSteps ==
  ASSUME StepInv, lease \in Leases, NEW r \in Requests, NEW s \in Sessions, CreateStart(r, s)
  PROVE  JobStep
<1>1. PICK x : x = [Starts(r, "create", s, "open") EXCEPT !.epoch = lease.next]
  OBVIOUS
<1>2. x \in Slots /\ x.s = s /\ x.pc = "open" /\ x.version = sessions[s].version
  <2>1. PICK epoch \in Nat : epoch = lease.next
    BY DEF Leases
  <2>2. PICK y \in Slots : /\ y = Starts(r, "create", s, "open") /\ y.s = s /\ y.pc = "open"
                           /\ y.version = sessions[s].version
    <3>1. "create" \in Ops
      BY DEF Ops
    <3> QED
      BY <3>1, StartsSlot
  <2> QED
    BY <1>1, <2>1, <2>2 DEF Slots
<1>3. lease'.owner = s
  BY ConstantsAssumption DEF CreateStart, Acquired
<1>4. Keeps
  BY SameKeeps DEF CreateStart
<1>5. Creates(r, s, x)
  BY <1>1, <1>2, <1>3, <1>4 DEF Creates, CreateStart
<1> QED
  BY <1>2, <1>5 DEF JobStep

\* Requests on a stored session arrive.
LEMMA StartsSteps ==
  ASSUME StepInv, lease \in Leases, NEW r \in Requests, NEW s \in Sessions,
         \/ ConfirmStart(r, s)
         \/ \E op \in {"pause", "cancel"} : RevokeStart(r, s, op)
         \/ \E op \in {"resume", "continue"} : ResumeStart(r, s, op)
         \/ RematchStart(r, s)
         \/ \E k \in Keys : ConvertStart(r, s, k)
  PROVE  JobStep
<1>1. req[r].pc = "idle" /\ sessions[s].state # "absent" /\ UNCHANGED ids
      /\ sessions[s].epoch + 1 \in Nat
  BY DEF MayStart, ConfirmStart, RevokeStart, ResumeStart, RematchStart, ConvertStart, StepInv,
     SessionRows
<1>2. CASE ConfirmStart(r, s)
  <2>1. PICK x : x = Starts(r, "confirm", s, "filters")
    OBVIOUS
  <2>2. x \in Slots /\ x.s = s /\ x.pc = "filters" /\ x.version = sessions[s].version
    <3>1. "confirm" \in Ops
      BY DEF Ops
    <3> QED
      BY <2>1, <3>1, StartsSlot
  <2>3. Begins(r, s, x)
    BY <1>1, <1>2, <2>1, <2>2, SameKeeps DEF Begins, ConfirmStart, Captures, LeaseStays
  <2> QED
    BY <2>2, <2>3 DEF JobStep
<1>3. ASSUME NEW op \in {"pause", "cancel"}, RevokeStart(r, s, op) PROVE JobStep
  <2>1. PICK x : x = [Starts(r, op, s, "revoke") EXCEPT !.epoch = sessions[s].epoch + 1]
    OBVIOUS
  <2>2. PICK epoch \in Nat : epoch = sessions[s].epoch + 1
    BY <1>1
  <2>3. x \in Slots /\ x.s = s /\ x.pc = "revoke" /\ x.op = op /\ x.version = sessions[s].version
    <3>1. PICK y \in Slots : /\ y = Starts(r, op, s, "revoke") /\ y.s = s
                             /\ y.pc = "revoke" /\ y.op = op
                             /\ y.version = sessions[s].version
      <4>1. op \in Ops
        BY DEF Ops
      <4> QED
        BY <4>1, StartsSlot
    <3> QED
      BY <2>1, <2>2, <3>1 DEF Slots
  <2>4. op = "pause" => sessions[s].state = "extracting_jobs"
    BY <1>3 DEF RevokeStart, Revocable
  <2>5. Begins(r, s, x)
    BY <1>1, <1>3, <2>1, <2>3, <2>4, SameKeeps DEF Begins, RevokeStart, Captures, LeaseStays
  <2> QED
    BY <2>3, <2>5 DEF JobStep
<1>4. ASSUME NEW op \in {"resume", "continue"}, ResumeStart(r, s, op) PROVE JobStep
  <2>1. PICK x : x = [Starts(r, op, s, "reobserve") EXCEPT !.epoch = Acquired(s).epoch]
    OBVIOUS
  <2>2. lease'.owner = s /\ Acquired(s).epoch \in Nat
    BY <1>4 DEF ResumeStart, Acquired, Leases
  <2>3. x \in Slots /\ x.s = s /\ x.pc = "reobserve" /\ x.op = op
        /\ x.version = sessions[s].version
    <3>1. PICK epoch \in Nat : epoch = Acquired(s).epoch
      BY <2>2
    <3>2. PICK y \in Slots : /\ y = Starts(r, op, s, "reobserve") /\ y.s = s
                             /\ y.pc = "reobserve" /\ y.op = op
                             /\ y.version = sessions[s].version
      <4>1. op \in Ops
        BY DEF Ops
      <4> QED
        BY <4>1, StartsSlot
    <3> QED
      BY <2>1, <3>1, <3>2 DEF Slots
  <2>4. Begins(r, s, x)
    BY <1>1, <1>4, <2>1, <2>2, <2>3, SameKeeps DEF Begins, ResumeStart, Captures
  <2> QED
    BY <2>3, <2>4 DEF JobStep
<1>5. CASE RematchStart(r, s)
  <2>1. PICK x : x = Starts(r, "rematch", s, "match")
    OBVIOUS
  <2>2. x \in Slots /\ x.s = s /\ x.pc = "match" /\ x.op = "rematch"
        /\ x.version = sessions[s].version
    <3>1. "rematch" \in Ops
      BY DEF Ops
    <3> QED
      BY <2>1, <3>1, StartsSlot
  <2>3. Begins(r, s, x)
    BY <1>1, <1>5, <2>1, <2>2, MarksKeep DEF Begins, RematchStart, Captures, LeaseStays
  <2> QED
    BY <2>2, <2>3 DEF JobStep
<1>6. ASSUME NEW k \in Keys, ConvertStart(r, s, k) PROVE JobStep
  <2>1. PICK x : x = [Starts(r, "convert", s, "target") EXCEPT !.key = k]
    OBVIOUS
  <2>2. x \in Slots /\ x.s = s /\ x.pc = "target" /\ x.op = "convert" /\ x.key = k
        /\ x.version = sessions[s].version
    <3>1. PICK y \in Slots : /\ y = Starts(r, "convert", s, "target") /\ y.s = s
                             /\ y.pc = "target" /\ y.op = "convert"
                             /\ y.version = sessions[s].version
      <4>1. "convert" \in Ops
        BY DEF Ops
      <4> QED
        BY <4>1, StartsSlot
    <3> QED
      BY <2>1, <3>1 DEF Slots
  <2>3. Begins(r, s, x)
    BY <1>1, <1>6, <2>1, <2>2, SameKeeps DEF Begins, ConvertStart, Captures, LeaseStays
  <2> QED
    BY <2>2, <2>3 DEF JobStep
<1> QED
  BY <1>2, <1>3, <1>4, <1>5, <1>6

\* Nobody gets a lease by its release.
LEMMA ReleasedStays ==
  ASSUME lease \in Leases, NEW s \in Sessions
  PROVE  /\ Released(s).owner \in {lease.owner, None} /\ Released(s).owner # s
         /\ Released(s) \in Leases
BY ConstantsAssumption DEF Released, Freed, Leases

\* The creation of a session, up to its row.
LEMMA CreateSteps ==
  ASSUME StepInv, lease \in Leases, NEW r \in Requests,
         CreateReopen(r) \/ CreateObserve(r) \/ CreateAbandoned(r)
  PROVE  JobStep
<1>1. CASE CreateReopen(r)
  BY <1>1, ReplySteps DEF CreateReopen, LeaseStays
<1>2. CASE CreateObserve(r)
  <2>1. PICK x : x = Awaits(r, "identify")
    OBVIOUS
  <2>2. x \in Slots /\ GoesOn(r, x)
    BY <1>2, <2>1, AwaitsSlot, SameKeeps DEF GoesOn, CreateObserve, Answered, LeaseStays, Entering
  <2> QED
    BY <2>2 DEF JobStep
<1>3. CASE CreateAbandoned(r)
  <2>1. PICK x : x = Awaits(r, "release")
    OBVIOUS
  <2>2. req[r].pc \in Entering /\ req[r].s \in Sessions
    BY <1>3, SlotFacts DEF CreateAbandoned, Answered, Entering
  <2>3. LeaseStays /\ lease'.owner # req[r].s
    BY <1>3, <2>2, ReleasedStays DEF CreateAbandoned, LeaseStays
  <2>4. x \in Slots /\ GoesOn(r, x)
    BY <1>3, <2>1, <2>2, <2>3, AwaitsSlot, SameKeeps DEF GoesOn, CreateAbandoned, Entering
  <2> QED
    BY <2>4 DEF JobStep
<1> QED
  BY <1>1, <1>2, <1>3

\* The answers that end a request and write nothing that others capture.
LEMMA EndsSteps ==
  ASSUME StepInv, lease \in Leases, NEW r \in Requests,
         \/ ReleaseDone(r) \/ ConfirmFails(r) \/ MatchFails(r) \/ RevokeFails(r)
         \/ ResumeFails(r) \/ ConvertFails(r)
  PROVE  JobStep
<1>1. req[r].pc \in {"release", "filters", "match", "revoke", "reobserve", "target"}
  BY DEF ReleaseDone, ConfirmFails, MatchFails, RevokeFails, ResumeFails, ConvertFails
<1>2. Keeps /\ UNCHANGED ids /\ Ends(r)
  BY SameKeeps DEF ReleaseDone, ConfirmFails, MatchFails, RevokeFails, ResumeFails, ConvertFails
<1>3. LeaseStays
  BY <1>1, ReleasedStays, SlotFacts DEF ReleaseDone, ConfirmFails, MatchFails, RevokeFails,
     ResumeFails, ConvertFails, LeaseStays
<1> QED
  BY <1>1, <1>2, <1>3 DEF Leaves, JobStep, Entering

\* The row of a session that a request is about.
LEMMA RowFacts ==
  ASSUME StepInv, NEW r \in Requests, req[r].pc # "idle"
  PROVE  \E s \in Sessions :
           /\ s = req[r].s /\ sessions[s] \in SessionRows
           /\ sessions[s].version + 1 \in Nat /\ sessions[s].version + 2 \in Nat
           /\ sessions[s].version + 1 > sessions[s].version
           /\ sessions[s].version + 2 > sessions[s].version
           /\ req[r] \in Slots /\ req[r].version \in Nat /\ req[r].epoch \in Nat
           /\ req[r].version <= sessions[s].version
           /\ req[r].version < sessions[s].version + 1
           /\ Current(r) => Captures(req[r], sessions[s].state)
<1>1. PICK s \in Sessions : s = req[r].s
  BY SlotFacts
<1>2. /\ sessions[s] \in SessionRows /\ sessions[s].version \in Nat /\ req[r].version \in Nat
      /\ req[r] \in Slots /\ req[r].version <= sessions[s].version /\ req[r].epoch \in Nat
      /\ Current(r) => Captures(req[r], sessions[s].state)
  BY <1>1, SlotFacts DEF Slots, Current
<1>3. /\ sessions[s].version + 1 \in Nat /\ sessions[s].version + 2 \in Nat
      /\ sessions[s].version + 1 > sessions[s].version
      /\ sessions[s].version + 2 > sessions[s].version
      /\ req[r].version < sessions[s].version + 1
  BY <1>2
<1> QED
  BY <1>1, <1>2, <1>3

\* The row of a new session.
LEMMA CreateStoredSteps ==
  ASSUME StepInv, NEW r \in Requests, CreateStored(r)
  PROVE  JobStep
<1>1. req[r].pc = "identify"
  BY DEF CreateStored, Answered
<1>2. PICK s \in Sessions : s = req[r].s /\ sessions[s] \in SessionRows /\ req[r].epoch \in Nat
  BY <1>1, RowFacts
<1>3. sessions[s].state = "absent" /\ sessions[s].version = 0
  BY <1>1, <1>2, SlotFacts DEF Entering, StepInv, CreateInv
<1>4. PICK entry \in {"awaiting_filter_confirmation", "opening_job_page"} :
        sessions' = [sessions EXCEPT ![req[r].s] =
          [@ EXCEPT !.state = entry, !.version = 1, !.epoch = req[r].epoch]]
  BY DEF CreateStored
<1>5. PICK row : row = [sessions[s] EXCEPT !.state = entry, !.version = 1, !.epoch = req[r].epoch]
  OBVIOUS
<1>6. /\ row \in SessionRows /\ row.version = 1 /\ row.state = entry
      /\ entry \in Live /\ entry # "absent"
  BY <1>2, <1>5, StateNames DEF SessionRows
<1>7. sessions' = [sessions EXCEPT ![s] = row]
  BY <1>2, <1>4, <1>5
<1>8. Moved(r, row, Idle)
  BY <1>2, <1>3, <1>6 DEF Moved, Moves
<1>9. req' = [req EXCEPT ![r] = Idle] /\ UNCHANGED <<ids, lease>>
  BY DEF CreateStored, Ends
<1>10. row.version > sessions[s].version
  BY <1>3, <1>6
<1>11. Writes(r, row, Idle)
  BY <1>1, <1>2, <1>6, <1>7, <1>8, <1>9, <1>10 DEF Writes, LeaseStays
<1> QED
  BY <1>6, <1>11, IdleSlot DEF JobStep

\* An extraction begins on the row just written.
LEMMA ReadingSteps ==
  ASSUME StepInv, NEW r \in Requests, req[r].pc # "idle", NEW row \in SessionRows,
         StartReading(r, row), row.version > sessions[req[r].s].version,
         row.state = "extracting_jobs",
         sessions[req[r].s].state \in {"awaiting_filter_confirmation", "paused"},
         UNCHANGED <<ids, lease>>
  PROVE  JobStep
<1>1. PICK y \in Slots : y = Awaits(r, "read") /\ y.pc = "read" /\ y.s = req[r].s
  BY AwaitsSlot
<1>2. PICK x : x = [y EXCEPT !.version = row.version, !.epoch = row.epoch, !.cursor = row.cursor]
  OBVIOUS
<1>3. /\ x \in Slots /\ x.pc = "read" /\ x.s = req[r].s /\ x.version = row.version
      /\ x.epoch = row.epoch
  BY <1>1, <1>2 DEF Slots, SessionRows
<1>4. /\ sessions' = [sessions EXCEPT ![req[r].s] = row]
      /\ req' = [req EXCEPT ![r] = x]
  BY <1>1, <1>2 DEF StartReading
<1>5. row.state # "absent" /\ row.state \in Live
  BY StateNames
<1>6. Moved(r, row, x)
  BY DEF Moved, Moves
<1>7. Writes(r, row, x)
  BY <1>3, <1>4, <1>5, <1>6 DEF Writes, LeaseStays
<1> QED
  BY <1>3, <1>7 DEF JobStep

\* The filters are confirmed.
LEMMA ConfirmSteps ==
  ASSUME StepInv, NEW r \in Requests, ConfirmApplied(r)
  PROVE  JobStep
<1>1. req[r].pc = "filters"
  BY DEF ConfirmApplied, Answered
<1>2. PICK s \in Sessions : s = req[r].s /\ sessions[s] \in SessionRows
  BY <1>1, RowFacts
<1>3. PICK row : row = Mutated(sessions[s], "extracting_jobs")
  OBVIOUS
<1>4. /\ row \in SessionRows /\ row.state = "extracting_jobs"
      /\ row.version > sessions[s].version
  BY <1>2, <1>3, StateNames, MutatedRow
<1>5. StartReading(r, row) /\ sessions[s].state = "awaiting_filter_confirmation"
      /\ UNCHANGED <<ids, lease>>
  BY <1>2, <1>3 DEF ConfirmApplied
<1> QED
  BY <1>1, <1>2, <1>4, <1>5, ReadingSteps

\* A paused session is opened again, and may go on at once.
LEMMA ResumedSteps ==
  ASSUME StepInv, NEW r \in Requests, Resumed(r)
  PROVE  JobStep
<1>1. req[r].pc = "reobserve" /\ Current(r) /\ UNCHANGED <<ids, lease>>
  BY DEF Resumed, Answered
<1>2. PICK s \in Sessions : /\ s = req[r].s /\ sessions[s] \in SessionRows
                            /\ sessions[s].version \in Nat
                            /\ Captures(req[r], sessions[s].state) /\ req[r].epoch \in Nat
  BY <1>1, RowFacts DEF SessionRows
<1>3. sessions[s].state = "paused"
  BY <1>1, <1>2 DEF Captures
<1>4. PICK old : old = [sessions[s] EXCEPT !.epoch = req[r].epoch]
  OBVIOUS
<1>5. old \in SessionRows /\ old.version = sessions[s].version
  BY <1>2, <1>4 DEF SessionRows
<1>6. PICK row : row = Mutated(old, "opening_job_page")
  OBVIOUS
<1>7. row \in SessionRows /\ row.state = "opening_job_page"
      /\ row.version > sessions[s].version /\ row.version \in Nat
  BY <1>5, <1>6, StateNames, MutatedRow DEF SessionRows
<1>8. CASE sessions' = [sessions EXCEPT ![req[r].s] = row] /\ Ends(r)
  <2>1. Moved(r, row, Idle)
    BY <1>2, <1>3, <1>7 DEF Moved, Moves
  <2>2. Writes(r, row, Idle)
    BY <1>1, <1>2, <1>7, <1>8, <2>1, StateNames DEF Writes, Ends, LeaseStays
  <2> QED
    BY <1>7, <2>2, IdleSlot DEF JobStep
<1>9. CASE StartReading(r, Mutated(row, "extracting_jobs"))
  <2>1. PICK next : next = Mutated(row, "extracting_jobs")
    OBVIOUS
  <2>2. next \in SessionRows /\ next.state = "extracting_jobs" /\ next.version > row.version
        /\ next.version \in Nat
    BY <1>7, <2>1, StateNames, MutatedRow DEF SessionRows
  <2>3. StartReading(r, next) /\ next.version > sessions[s].version
    BY <1>2, <1>7, <1>9, <2>1, <2>2
  <2> QED
    BY <1>1, <1>2, <1>3, <2>2, <2>3, ReadingSteps
<1> QED
  BY <1>2, <1>4, <1>6, <1>8, <1>9 DEF Resumed

\* A page is stored and the extraction goes on.
LEMMA PageSteps ==
  ASSUME StepInv, NEW r \in Requests, PageSaved(r) \/ ReadFails(r)
  PROVE  JobStep
<1>1. req[r].pc = "read" /\ UNCHANGED <<ids, lease>>
  BY DEF PageSaved, ReadFails, Answered
<1>2. PICK s \in Sessions : s = req[r].s /\ req[r] \in Slots
  BY <1>1, RowFacts
<1>3. CASE PageSaved(r)
  <2>1. PICK y \in Slots : /\ y = Awaits(r, "read") /\ y.pc = "read" /\ y.s = req[r].s
                           /\ y.version = req[r].version /\ y.epoch = req[r].epoch
                           /\ y.op = req[r].op /\ y.key = req[r].key
    BY AwaitsSlot
  <2>2. y.pages + 1 \in 0..(MaxPages - 1)
    <3>1. y.pages = req[r].pages
      BY <1>2, <2>1 DEF Awaits, Slots
    <3>2. req[r].pages \in 0..(MaxPages - 1) /\ req[r].pages + 1 < MaxPages /\ MaxPages \in Nat
      BY <1>2, <1>3, ConstantsAssumption DEF PageSaved, PagesLeft, Slots
    <3> QED
      BY <3>1, <3>2
  <2>3. PICK x : x = [y EXCEPT !.pages = @ + 1, !.cursor = TRUE]
    OBVIOUS
  <2>4. /\ x \in Slots /\ x.pc = "read" /\ x.s = req[r].s /\ x.version = req[r].version
        /\ x.epoch = req[r].epoch /\ x.op = req[r].op /\ x.key = req[r].key
    BY <2>1, <2>2, <2>3 DEF Slots
  <2>5. req' = [req EXCEPT ![r] = x]
    BY <1>3, <2>1, <2>3 DEF PageSaved
  <2>6. Keeps
    BY <1>2, <1>3, MarksKeep DEF PageSaved
  <2>7. GoesOn(r, x)
    BY <1>1, <2>4, <2>5, <2>6 DEF GoesOn, LeaseStays, Entering
  <2> QED
    BY <2>4, <2>7 DEF JobStep
<1>4. CASE ReadFails(r) /\ MayRetry(r)
  BY <1>1, <1>4, ReplySteps DEF ReadFails, LeaseStays
<1>5. CASE ReadFails(r) /\ ~MayRetry(r)
  BY <1>1, <1>5, SameKeeps DEF ReadFails, Leaves, JobStep, LeaseStays, Entering
<1> QED
  BY <1>3, <1>4, <1>5

\* The outcome of an extraction.
LEMMA StopsSteps ==
  ASSUME StepInv, NEW r \in Requests, ExtractionStops(r)
  PROVE  JobStep
<1>1. req[r].pc = "read" /\ UNCHANGED <<ids, lease>>
  BY DEF ExtractionStops, Answered
<1>2. PICK s \in Sessions : /\ s = req[r].s /\ sessions[s] \in SessionRows
                            /\ req[r].version < sessions[s].version + 1
                            /\ Current(r) => Captures(req[r], sessions[s].state)
  BY <1>1, RowFacts
<1>3. CASE ~Current(r)
  <2>1. Keeps /\ Ends(r)
    BY <1>2, <1>3, MarksKeep DEF ExtractionStops
  <2> QED
    BY <1>1, <2>1 DEF Leaves, JobStep, LeaseStays, Entering
<1>4. CASE Current(r)
  <2>1. PICK next \in {"paused", "matching_jobs"} :
          /\ sessions' = [sessions EXCEPT ![s] =
               [Mutated(sessions[s], next) EXCEPT !.cursor = TRUE]]
          /\ req' = [req EXCEPT ![r] = IF next = "paused" THEN Idle ELSE Awaits(r, "match")]
    BY <1>2, <1>4 DEF ExtractionStops
  <2>2. next \in States /\ next \in Live /\ next # "absent"
    BY StateNames
  <2>3. PICK new : new = Mutated(sessions[s], next)
    OBVIOUS
  <2>4. /\ new \in SessionRows /\ new.state = next /\ new.version = sessions[s].version + 1
        /\ new.version > sessions[s].version
    BY <1>2, <2>2, <2>3, MutatedRow
  <2>5. PICK row : row = [new EXCEPT !.cursor = TRUE]
    OBVIOUS
  <2>6. /\ row \in SessionRows /\ row.state = next /\ row.version = sessions[s].version + 1
        /\ row.version > sessions[s].version
        /\ sessions' = [sessions EXCEPT ![s] = row]
    BY <2>1, <2>3, <2>4, <2>5 DEF SessionRows
  <2>7. PICK x : x = IF next = "paused" THEN Idle ELSE Awaits(r, "match")
    OBVIOUS
  <2>8. /\ x \in Slots
        /\ x = Idle \/ (x.s = s /\ x.pc = "match" /\ x.version < row.version)
    BY <1>2, <2>6, <2>7, AwaitsSlot, IdleSlot
  <2>9. Moved(r, row, x)
    BY <1>1, <1>2, <1>4, <2>6 DEF Moved, Moves, Captures
  <2>10. Writes(r, row, x)
    BY <1>1, <1>2, <2>1, <2>2, <2>6, <2>7, <2>8, <2>9 DEF Writes, LeaseStays
  <2> QED
    BY <2>6, <2>8, <2>10 DEF JobStep
<1> QED
  BY <1>3, <1>4

\* The state a match ends in, whatever the session's has become.
LEMMA FinalizeSteps ==
  ASSUME StepInv, lease \in Leases, NEW r \in Requests, FinalizeMatching(r)
  PROVE  JobStep
<1>1. req[r].pc = "match" /\ UNCHANGED ids
  BY DEF FinalizeMatching
<1>2. PICK s \in Sessions : /\ s = req[r].s /\ sessions[s] \in SessionRows
                            /\ req[r].version < sessions[s].version + 1
                            /\ req[r].version \in Nat /\ sessions[s].version + 1 \in Nat
  BY <1>1, RowFacts
<1>3. PICK new : new = Mutated(sessions[s], "awaiting_job_selection")
  OBVIOUS
<1>4. /\ new \in SessionRows /\ new.state = "awaiting_job_selection"
      /\ new.version = sessions[s].version + 1 /\ new.version > sessions[s].version
  BY <1>2, <1>3, StateNames, MutatedRow
<1>5. PICK row : row = [new EXCEPT !.fresh = TRUE]
  OBVIOUS
<1>6. /\ row \in SessionRows /\ row.state = "awaiting_job_selection"
      /\ row.version = sessions[s].version + 1 /\ row.version > sessions[s].version
      /\ sessions' = [sessions EXCEPT ![s] = row]
      /\ row.state \in Live /\ row.state # "absent"
  BY <1>2, <1>3, <1>4, <1>5, StateNames DEF FinalizeMatching, SessionRows
<1>7. PICK x \in Slots : x = Awaits(r, "release") /\ x.pc = "release" /\ x.s = s
                         /\ x.version = req[r].version
  BY <1>2, AwaitsSlot
<1>8. x.version <= row.version
  BY <1>2, <1>6, <1>7
<1>9. Moved(r, row, x)
  BY <1>1, <1>6, <1>7 DEF Moved
<1>10. LeaseStays
  BY <1>2, ReleasedStays DEF FinalizeMatching, LeaseStays
<1>11. Writes(r, row, x)
  BY <1>1, <1>2, <1>6, <1>7, <1>8, <1>9, <1>10 DEF Writes, FinalizeMatching
<1> QED
  BY <1>6, <1>11 DEF JobStep

\* Pause and cancel, once the worker has revoked the epoch.
LEMMA StoppedSteps ==
  ASSUME StepInv, lease \in Leases, NEW r \in Requests, PauseDone(r) \/ CancelDone(r)
  PROVE  JobStep
<1>1. req[r].pc = "revoke" /\ Current(r) /\ UNCHANGED ids
  BY DEF PauseDone, CancelDone, Answered
<1>2. PICK s \in Sessions : /\ s = req[r].s /\ sessions[s] \in SessionRows
                            /\ req[r].version < sessions[s].version + 1
                            /\ req[r].version \in Nat /\ sessions[s].version + 1 \in Nat
                            /\ req[r].epoch \in Nat /\ Captures(req[r], sessions[s].state)
  BY <1>1, RowFacts
<1>3. PICK state \in {"paused", "cancelled"} :
        /\ Stopped(r, state)
        /\ state = "paused" => PauseDone(r)
        /\ state = "cancelled" => CancelDone(r)
  BY DEF PauseDone, CancelDone
<1>4. PICK new : new = Mutated(sessions[s], state)
  OBVIOUS
<1>5. /\ new \in SessionRows /\ new.state = state
      /\ new.version = sessions[s].version + 1 /\ new.version > sessions[s].version
  BY <1>2, <1>4, StateNames, MutatedRow
<1>6. PICK row : row = [new EXCEPT !.epoch = req[r].epoch]
  OBVIOUS
<1>7. /\ row \in SessionRows /\ row.state = state
      /\ row.version = sessions[s].version + 1 /\ row.version > sessions[s].version
      /\ sessions' = [sessions EXCEPT ![s] = row]
      /\ row.state # "absent"
  BY <1>2, <1>3, <1>4, <1>5, <1>6 DEF Stopped, SessionRows
<1>8. PICK x \in Slots :
        /\ req' = [req EXCEPT ![r] = x]
        /\ x = Idle \/ (x.pc = "release" /\ x.s = s /\ x.version = req[r].version)
  BY <1>2, <1>3, AwaitsSlot, IdleSlot DEF PauseDone, CancelDone, Ends
<1>9. x = Idle \/ (x.pc = "release" /\ x.s = s /\ x.version <= row.version)
  BY <1>2, <1>7, <1>8
<1>10. Moved(r, row, x)
  BY <1>1, <1>2, <1>3, <1>7 DEF Moved, Moves, Captures, PauseDone
<1>11. LeaseStays /\ lease'.owner # s
  BY <1>2, <1>3, ReleasedStays DEF PauseDone, CancelDone, LeaseStays
<1>12. Writes(r, row, x)
  BY <1>1, <1>2, <1>7, <1>8, <1>9, <1>10, <1>11 DEF Writes
<1> QED
  BY <1>7, <1>12 DEF JobStep

\* A match is repeated.
LEMMA RematchSteps ==
  ASSUME StepInv, NEW r \in Requests, RematchDone(r)
  PROVE  JobStep
<1>1. req[r].pc = "match" /\ req[r].op = "rematch" /\ UNCHANGED <<ids, lease>> /\ Ends(r)
  BY DEF RematchDone
<1>2. PICK s \in Sessions : /\ s = req[r].s /\ sessions[s] \in SessionRows
                            /\ Current(r) => Captures(req[r], sessions[s].state)
  BY <1>1, RowFacts
<1>3. CASE ~Current(r)
  <2>1. sessions' = [sessions EXCEPT ![s] = [sessions[s] EXCEPT !.fresh = TRUE]]
    BY <1>2, <1>3 DEF RematchDone
  <2>2. Keeps
    BY <1>2, <2>1 DEF StepInv, Keeps, SessionRows
  <2> QED
    BY <1>1, <2>2 DEF Leaves, JobStep, LeaseStays, Entering
<1>4. CASE Current(r)
  <2>1. PICK new : new = Mutated(sessions[s], "awaiting_job_selection")
    OBVIOUS
  <2>2. /\ new \in SessionRows /\ new.state = "awaiting_job_selection"
        /\ new.version > sessions[s].version
    BY <1>2, <2>1, StateNames, MutatedRow
  <2>3. PICK row : row = [new EXCEPT !.fresh = TRUE]
    OBVIOUS
  <2>4. /\ row \in SessionRows /\ row.state = "awaiting_job_selection"
        /\ row.version > sessions[s].version
        /\ sessions' = [sessions EXCEPT ![s] = row]
        /\ row.state \in Live /\ row.state # "absent"
    BY <1>2, <1>4, <2>1, <2>2, <2>3, StateNames DEF RematchDone, SessionRows
  <2>5. Moved(r, row, Idle)
    BY <1>1, <1>2, <1>4, <2>4 DEF Moved, Moves, Captures
  <2>6. Writes(r, row, Idle)
    BY <1>1, <1>2, <2>4, <2>5 DEF Writes, Ends, LeaseStays
  <2> QED
    BY <2>4, <2>6, IdleSlot DEF JobStep
<1> QED
  BY <1>3, <1>4

\* A conversion: the task is there whether or not the session's row is written.
LEMMA ConvertSteps ==
  ASSUME StepInv, lease \in Leases, NEW r \in Requests, ConvertDone(r)
  PROVE  JobStep
<1>1. req[r].pc = "target" /\ UNCHANGED ids /\ Ends(r)
  BY DEF ConvertDone
<1>2. PICK s \in Sessions : /\ s = req[r].s /\ sessions[s] \in SessionRows
                            /\ Current(r) => Captures(req[r], sessions[s].state)
  BY <1>1, RowFacts
<1>3. CASE ~Current(r)
  <2>1. UNCHANGED <<sessions, lease>>
    BY <1>3 DEF ConvertDone
  <2> QED
    BY <1>1, <2>1, SameKeeps DEF Leaves, JobStep, LeaseStays, Entering
<1>4. CASE Current(r)
  <2>1. PICK row : row = Mutated(sessions[s], "converted_to_application")
    OBVIOUS
  <2>2. /\ row \in SessionRows /\ row.state = "converted_to_application"
        /\ row.version > sessions[s].version
    BY <1>2, <2>1, StateNames, MutatedRow
  <2>3. /\ sessions' = [sessions EXCEPT ![s] = row] /\ lease' = Released(s)
    BY <1>2, <1>4, <2>1 DEF ConvertDone
  <2>4. LeaseStays /\ lease'.owner # s
    BY <2>3, ReleasedStays DEF LeaseStays
  <2>5. Moved(r, row, Idle)
    BY <1>1, <1>2, <1>4, <2>2 DEF Moved, Moves, Captures
  <2>6. Writes(r, row, Idle)
    BY <1>1, <1>2, <2>2, <2>3, <2>4, <2>5 DEF Writes, Ends
  <2> QED
    BY <2>2, <2>6, IdleSlot DEF JobStep
<1> QED
  BY <1>3, <1>4

\* The worker and its client write nothing but replies.
LEMMA WorkerSteps ==
  ASSUME StepInv, worker \in Workers,
         \/ WorkerHandles \/ WorkerExits
         \/ \E r \in Requests : WorkerRevokes(r) \/ CommandLost(r) \/ TimesOut(r)
  PROVE  JobStep
<1>1. LeaseStays /\ UNCHANGED <<sessions, ids>>
  BY DEF WorkerHandles, WorkerExits, WorkerRevokes, CommandLost, TimesOut, LeaseStays
<1>2. CASE WorkerHandles
  <2>1. PICK c \in Commands : c = Head(worker.queue)
    BY <1>2 DEF WorkerHandles, Workers
  <2>2. PICK reply \in {"ok", "err"} :
          req' = IF c.from = None THEN req ELSE [req EXCEPT ![c.from].reply = reply]
    BY <1>2, <2>1 DEF WorkerHandles
  <2>3. CASE c.from = None
    BY <1>1, <2>2, <2>3, SameKeeps DEF JobStep, Rests
  <2>4. CASE c.from # None
    <3>1. PICK r \in Requests : r = c.from
      BY <2>4 DEF Commands
    <3> QED
      BY <1>1, <2>2, <2>4, <3>1, ReplySteps
  <2> QED
    BY <2>3, <2>4
<1>3. CASE WorkerExits
  BY <1>1, <1>3, SameKeeps DEF WorkerExits, JobStep, Rests
<1>4. ASSUME NEW r \in Requests, WorkerRevokes(r) \/ CommandLost(r) \/ TimesOut(r)
      PROVE  JobStep
  <2>1. PICK reply \in {"ok", "err"} : req' = [req EXCEPT ![r].reply = reply]
    BY <1>4 DEF WorkerRevokes, CommandLost, TimesOut
  <2> QED
    BY <1>1, <2>1, ReplySteps
<1> QED
  BY <1>2, <1>3, <1>4

\* What nobody's request does.
LEMMA OtherSteps ==
  ASSUME StepInv, lease \in Leases,
         \/ \E s \in Sessions : MarkStale(s) \/ Select(s)
         \/ \E a \in Apps : AppAcquires(a) \/ AppReleases(a)
         \/ AppRecycles \/ Crash \/ UNCHANGED vars
  PROVE  JobStep
<1>1. ASSUME NEW s \in Sessions, MarkStale(s) PROVE JobStep
  BY <1>1, MarksKeep DEF MarkStale, JobStep, Rests, LeaseStays
<1>2. ASSUME NEW s \in Sessions, Select(s) PROVE JobStep
  BY <1>2 DEF Select, Selects, JobStep, LeaseStays
<1>3. ASSUME NEW a \in Apps, AppAcquires(a) PROVE JobStep
  <2>1. lease'.owner \notin Sessions
    BY <1>3, ConstantsAssumption DEF AppAcquires, Acquired
  <2> QED
    BY <1>3, <2>1, SameKeeps DEF AppAcquires, JobStep, Rests
<1>4. ASSUME NEW a \in Apps, AppReleases(a) PROVE JobStep
  <2>1. LeaseStays
    BY <1>4 DEF AppReleases, Freed, Leases, LeaseStays
  <2> QED
    BY <1>4, <2>1, SameKeeps DEF AppReleases, JobStep, Rests
<1>5. CASE AppRecycles \/ UNCHANGED vars
  BY <1>5, SameKeeps DEF AppRecycles, vars, JobStep, Rests, LeaseStays
<1>6. CASE Crash
  BY <1>6, SameKeeps DEF Crash, JobStep, Restarts
<1> QED
  BY <1>1, <1>2, <1>3, <1>4, <1>5, <1>6

\* Every step is of one of the classes.
LEMMA JobSteps ==
  ASSUME StepInv, lease \in Leases, worker \in Workers, [Next]_vars
  PROVE  JobStep
<1>1. CASE Start
  BY <1>1, CreateStartSteps, StartsSteps, OtherSteps DEF Start
<1>2. ASSUME NEW r \in Requests, Continue(r) PROVE JobStep
  BY <1>2, CreateSteps, CreateStoredSteps, EndsSteps, ConfirmSteps, PageSteps, StopsSteps,
     FinalizeSteps, StoppedSteps, ResumedSteps, RematchSteps, ConvertSteps, WorkerSteps
     DEF Continue
<1>3. CASE WorkerHandles \/ Fault
  BY <1>3, WorkerSteps, OtherSteps DEF Fault
<1>4. CASE UNCHANGED vars
  BY <1>4, OtherSteps
<1> QED
  BY <1>1, <1>2, <1>3, <1>4 DEF Next

-----------------------------------------------------------------------------
(* The types, and the theorems.                                            *)

\* A conversion keeps its key.
LEMMA KeysKeep == ASSUME StepInv, KeyInv, JobStep PROVE KeyInv'
<1>1. ASSUME NEW r \in Requests, NEW x \in Slots, req' = [req EXCEPT ![r] = x],
             x.pc = "target" => x.key \in Keys
      PROVE  KeyInv'
  BY <1>1 DEF StepInv, KeyInv
<1>2. ASSUME NEW r \in Requests, NEW x \in Slots, NEW s \in Sessions,
             Begins(r, s, x) \/ Creates(r, s, x)
      PROVE  KeyInv'
  BY <1>1, <1>2 DEF Begins, Creates
<1>3. ASSUME NEW r \in Requests, NEW x \in Slots, GoesOn(r, x) PROVE KeyInv'
  BY <1>1, <1>3 DEF GoesOn, KeyInv
<1>4. ASSUME NEW r \in Requests, NEW x \in Slots, NEW row \in SessionRows, Writes(r, row, x)
      PROVE  KeyInv'
  BY <1>1, <1>4, IdleSlot DEF Writes
<1>5. ASSUME NEW r \in Requests, Leaves(r) PROVE KeyInv'
  BY <1>1, <1>5, IdleSlot DEF Leaves, Ends
<1>6. CASE Restarts \/ Rests \/ \E s \in Sessions : Selects(s)
  BY <1>6, IdleSlot DEF Restarts, Rests, Selects, KeyInv
<1> QED
  BY <1>2, <1>3, <1>4, <1>5, <1>6 DEF JobStep

\* The lease stays a lease.
LEMMA LeaseTypes ==
  ASSUME StepInv, lease \in Leases, [Next]_vars
  PROVE  lease' \in Leases
<1>1. ASSUME NEW o \in Owners PROVE Acquired(o) \in Leases
  BY DEF Acquired, Leases
<1>2. Freed \in Leases
  BY DEF Freed, Leases
<1>3. \A s : Released(s) \in Leases
  BY <1>2 DEF Released
<1>4. CASE Start
  BY <1>1, <1>2, <1>4 DEF Start, CreateStart, ConfirmStart, RevokeStart, ResumeStart, RematchStart,
     ConvertStart, MarkStale, Select, AppAcquires, AppReleases, AppRecycles, Owners
<1>5. ASSUME NEW r \in Requests, Continue(r) PROVE lease' \in Leases
  BY <1>3, <1>5 DEF Continue, CreateReopen, CreateObserve, CreateStored, CreateAbandoned,
     ReleaseDone, ConfirmApplied, ConfirmFails, PageSaved, ExtractionStops, ReadFails,
     FinalizeMatching, MatchFails, PauseDone, CancelDone, RevokeFails, Resumed, ResumeFails,
     RematchDone, ConvertDone, ConvertFails, WorkerRevokes, CommandLost
<1>6. CASE WorkerHandles \/ Fault \/ UNCHANGED vars
  BY <1>6 DEF WorkerHandles, Fault, WorkerExits, Crash, TimesOut, vars, Leases
<1> QED
  BY <1>4, <1>5, <1>6 DEF Next

\* A command more in the worker's queue.
LEMMA SentWorker ==
  ASSUME NEW w \in Workers, NEW r \in Requests, NEW s \in Sessions, NEW epoch \in Nat,
         NEW kind \in {"open", "observe", "release"} \cup Mutating
  PROVE  Sent(w, r, kind, s, epoch) \in Workers
<1>1. [from |-> r, kind |-> kind, s |-> s, epoch |-> epoch] \in Commands
  BY DEF Commands
<1>2. PICK c \in Commands : c = [from |-> r, kind |-> kind, s |-> s, epoch |-> epoch]
  BY <1>1
<1>3. PICK q \in Seq(Commands) : q = Append(w.queue, c)
  BY AppendProperties DEF Workers
<1>4. w.alive => Sent(w, r, kind, s, epoch) = [w EXCEPT !.queue = q]
  BY <1>2, <1>3 DEF Sent, Workers
<1>5. [w EXCEPT !.queue = q] \in Workers
  BY DEF Workers
<1> QED
  BY <1>4, <1>5 DEF Sent

\* A new worker.
LEMMA FreshWorkerType ==
  FreshWorker \in Workers /\ [FreshWorker EXCEPT !.alive = FALSE] \in Workers
<1>1. << >> \in Seq(Commands)
  OBVIOUS
<1>2. FreshWorker \in Workers
  BY <1>1 DEF FreshWorker, Workers
<1> QED
  BY <1>2 DEF Workers

\* A read command is a command.
LEMMA ReadKinds == \A b : ReadKind(b) \in {"open", "observe", "release"} \cup Mutating
BY DEF ReadKind, Mutating

\* The worker stays one, whatever it is sent.
LEMMA SendsKeepWorker ==
  ASSUME StepInv, lease \in Leases, worker \in Workers, NEW r \in Requests, Continue(r)
  PROVE  worker' \in Workers
<1>1. req[r] \in Slots /\ req[r].epoch \in Nat
  BY SlotFacts DEF Slots
<1>2. req[r].pc # "idle" => req[r].s \in Sessions /\ sessions[req[r].s] \in SessionRows
  BY SlotFacts
<1>3. CASE CreateReopen(r) \/ CreateObserve(r) \/ CreateAbandoned(r) \/ ReleaseDone(r)
  BY <1>1, <1>2, <1>3, SentWorker, FreshWorkerType DEF CreateReopen, CreateObserve,
     CreateAbandoned, ReleaseDone, Answered
<1>4. CASE PageSaved(r) \/ ReadFails(r) \/ FinalizeMatching(r) \/ CancelDone(r)
  BY <1>1, <1>2, <1>4, SentWorker, ReadKinds DEF PageSaved, ReadFails, FinalizeMatching, CancelDone,
     Answered, Mutating
<1>5. CASE ConfirmApplied(r)
  <2>1. PICK row : row = Mutated(sessions[req[r].s], "extracting_jobs")
    OBVIOUS
  <2>2. req[r].pc # "idle" /\ StartReading(r, row)
    BY <1>5, <2>1 DEF ConfirmApplied, Answered
  <2>3. row.epoch \in Nat
    BY <1>2, <2>1, <2>2, MutatedRow, StateNames DEF SessionRows
  <2> QED
    BY <1>2, <2>2, <2>3, SentWorker, ReadKinds DEF StartReading
<1>6. CASE Resumed(r)
  <2>1. req[r].pc # "idle"
    BY <1>6 DEF Resumed, Answered
  <2>2. PICK old : old = [sessions[req[r].s] EXCEPT !.epoch = req[r].epoch]
    OBVIOUS
  <2>3. PICK row : row = Mutated(Mutated(old, "opening_job_page"), "extracting_jobs")
    OBVIOUS
  <2>4. UNCHANGED worker \/ StartReading(r, row)
    BY <1>6, <2>2, <2>3 DEF Resumed
  <2>5. old \in SessionRows
    BY <1>1, <1>2, <2>1, <2>2 DEF SessionRows
  <2>6. row.epoch \in Nat
    BY <2>3, <2>5, MutatedRow, StateNames DEF SessionRows
  <2> QED
    BY <1>2, <2>1, <2>4, <2>6, SentWorker, ReadKinds DEF StartReading
<1>7. CASE WorkerRevokes(r)
  <2>1. req[r].s \in Sessions
    BY <1>2, <1>7 DEF WorkerRevokes, Waiting
  <2> QED
    BY <1>1, <1>7, <2>1 DEF WorkerRevokes, Workers
<1>8. CASE \/ CreateStored(r) \/ ConfirmFails(r) \/ ExtractionStops(r) \/ MatchFails(r)
           \/ PauseDone(r) \/ RevokeFails(r) \/ ResumeFails(r) \/ RematchDone(r)
           \/ ConvertDone(r) \/ ConvertFails(r) \/ CommandLost(r)
  BY <1>8 DEF CreateStored, ConfirmFails, ExtractionStops, MatchFails, PauseDone, RevokeFails,
     ResumeFails, RematchDone, ConvertDone, ConvertFails, CommandLost
<1> QED
  BY <1>3, <1>4, <1>5, <1>6, <1>7, <1>8 DEF Continue

\* So does whatever else happens.
LEMMA WorkerTypes ==
  ASSUME StepInv, lease \in Leases, worker \in Workers, [Next]_vars
  PROVE  worker' \in Workers
<1>1. CASE Start
  <2>1. ASSUME NEW r \in Requests, NEW s \in Sessions,
               \/ CreateStart(r, s) \/ ConfirmStart(r, s)
               \/ \E op \in {"resume", "continue"} : ResumeStart(r, s, op)
        PROVE  worker' \in Workers
    <3>1. sessions[s].epoch \in Nat
      BY DEF StepInv, SessionRows
    <3> QED
      BY <2>1, <3>1, SentWorker DEF CreateStart, ConfirmStart, ResumeStart, Mutating
  <2> QED
    BY <1>1, <2>1, FreshWorkerType DEF Start, RevokeStart, RematchStart, ConvertStart, MarkStale,
       Select, AppAcquires, AppReleases, AppRecycles
<1>2. CASE WorkerHandles
  <2>1. PICK c \in Commands : c = Head(worker.queue)
    BY <1>2 DEF WorkerHandles, Workers
  <2>2. EpochsAfter(c) \in [Sessions -> Nat]
    BY DEF EpochsAfter, Commands, Workers
  <2>3. PICK q \in Seq(Commands) : q = Tail(worker.queue)
    BY <1>2, HeadTailProperties DEF WorkerHandles, Workers
  <2>4. PICK epochs \in [Sessions -> Nat] : epochs = EpochsAfter(c)
    BY <2>2
  <2>5. worker' = [worker EXCEPT !.queue = q, !.epochs = epochs]
    BY <1>2, <2>1, <2>3, <2>4 DEF WorkerHandles, Workers
  <2> QED
    BY <2>5 DEF Workers
<1>3. ASSUME NEW r \in Requests, TimesOut(r) PROVE worker' \in Workers
  <2>1. PICK i \in 1..Len(worker.queue) : worker' = [worker EXCEPT !.queue[i].from = None]
    BY <1>3 DEF TimesOut
  <2>2. PICK q \in Seq(Commands) : q = worker.queue
    BY DEF Workers
  <2>3. q[i] \in Commands
    BY <2>1, <2>2
  <2>4. PICK c \in Commands : c = [q[i] EXCEPT !.from = None]
    BY <2>3 DEF Commands
  <2>5. [q EXCEPT ![i] = c] \in Seq(Commands)
    BY <2>1, <2>2
  <2>6. worker' = [worker EXCEPT !.queue = [q EXCEPT ![i] = c]]
    BY <2>1, <2>2, <2>4 DEF Workers
  <2> QED
    BY <2>5, <2>6 DEF Workers
<1>4. CASE WorkerExits \/ Crash \/ UNCHANGED vars
  BY <1>4, FreshWorkerType DEF WorkerExits, Crash, vars
<1> QED
  BY <1>1, <1>2, <1>3, <1>4, SendsKeepWorker DEF Next, Fault

\* The tasks and the count of faults.
LEMMA RestTypes ==
  ASSUME StepInv, KeyInv, tasks \subseteq Sessions \X Keys, faults \in 0..MaxFaults, [Next]_vars
  PROVE  tasks' \subseteq Sessions \X Keys /\ faults' \in 0..MaxFaults
<1>1. CASE Start
  BY <1>1 DEF Start, CreateStart, ConfirmStart, RevokeStart, ResumeStart, RematchStart,
     ConvertStart, MarkStale, Select, AppAcquires, AppReleases, AppRecycles
<1>2. ASSUME NEW r \in Requests, Continue(r)
      PROVE  tasks' \subseteq Sessions \X Keys /\ faults' = faults
  <2>1. CASE ConvertDone(r)
    <3>1. req[r].s \in Sessions /\ req[r].key \in Keys
      BY <2>1, SlotFacts DEF ConvertDone, KeyInv
    <3> QED
      BY <2>1, <3>1 DEF ConvertDone
  <2> QED
    BY <1>2, <2>1 DEF Continue, CreateReopen, CreateObserve, CreateStored, CreateAbandoned,
       ReleaseDone, ConfirmApplied, ConfirmFails, PageSaved, ExtractionStops, ReadFails,
       FinalizeMatching, MatchFails, PauseDone, CancelDone, RevokeFails, Resumed, ResumeFails,
       RematchDone, ConvertFails, WorkerRevokes, CommandLost
<1>3. CASE WorkerHandles \/ Fault \/ UNCHANGED vars
  <2>1. UNCHANGED tasks /\ (faults' = faults \/ (faults < MaxFaults /\ faults' = faults + 1))
    BY <1>3 DEF WorkerHandles, Fault, WorkerExits, Crash, TimesOut, vars
  <2> QED
    BY <2>1, ConstantsAssumption
<1> QED
  BY <1>1, <1>2, <1>3 DEF Next

\* The invariant holds at the start.
LEMMA JobInit == ASSUME Init PROVE JobInv
<1>1. sessions \in [Sessions -> SessionRows] /\ req \in [Requests -> Slots]
  BY IdleSlot, StateNames DEF Init, SessionRows, States
<1>2. lease \in Leases /\ worker \in Workers /\ tasks = {} /\ faults \in 0..MaxFaults
  BY ConstantsAssumption, FreshWorkerType DEF Init, Leases
<1>3. TypeOK
  BY <1>1, <1>2 DEF Init, TypeOK, SessionRows, Slots, Leases, Workers
<1>4. SlotInv /\ CapturedInv /\ CreateInv /\ KeyInv /\ OneLiveExtraction
  BY IdleSlot, ConstantsAssumption DEF Init, SlotInv, CapturedInv, CreateInv, KeyInv,
     OneLiveExtraction, Reading
<1>5. LeaseHasLiveOwner
  BY ConstantsAssumption DEF Init, LeaseHasLiveOwner
<1> QED
  BY <1>3, <1>4, <1>5 DEF JobInv

\* It is preserved.
LEMMA JobNext == ASSUME JobInv, [Next]_vars PROVE JobInv'
<1>1. /\ StepInv /\ KeyInv /\ lease \in Leases /\ worker \in Workers
      /\ tasks \subseteq Sessions \X Keys /\ faults \in 0..MaxFaults
  BY StepInvHolds DEF JobInv, TypeOK, Leases, Workers
<1>2. JobStep
  BY <1>1, JobSteps
<1>3. StepInv' /\ KeyInv'
  BY <1>1, <1>2, JobStepKeeps, KeysKeep
<1>4. /\ lease' \in Leases /\ worker' \in Workers
      /\ tasks' \subseteq Sessions \X Keys /\ faults' \in 0..MaxFaults
  BY <1>1, LeaseTypes, WorkerTypes, RestTypes
<1>5. TypeOK'
  BY <1>3, <1>4 DEF StepInv, TypeOK, SessionRows, Slots, Leases, Workers
<1> QED
  BY <1>3, <1>5 DEF JobInv, StepInv

\* The invariant of job-match sessions, whose conjunct CapturedInv is what the
\* version check of the repository's mutate buys: a request that still finds the
\* version it captured finds the state it captured.
THEOREM JobInvariant == Spec => []JobInv
BY JobInit, JobNext, PTL DEF Spec

\* However requests, worker and restarts interleave, at most one extraction of a
\* session can still store its outcome, the session is extracting with that
\* extraction's epoch, and the browser lease is never left with a session that
\* no one can make release it (releaseOwner in job-match-service.ts).
THEOREM JobsConsistent == Spec => []Consistent
<1>1. JobInv => Consistent
  BY DEF JobInv, Consistent
<1> QED
  BY <1>1, JobInvariant, PTL

\* Every session moves along the states of machine.ts, is cancelled, or gets the
\* result of a match that outlived its state (finalizeMatching's re-read).
THEOREM SessionsFollowMachine == Spec => FollowsMachine
<1> DEFINE Follows ==
      \A s \in Sessions :
       \/ sessions'[s].state = sessions[s].state
       \/ <<sessions[s].state, sessions'[s].state>> \in Moves
       \/ sessions'[s].state = "cancelled"
       \/ /\ sessions'[s].state = "awaiting_job_selection"
          /\ \E r \in Requests : /\ req[r].s = s /\ req[r].pc = "match"
                                /\ req'[r].pc = "release"
<1>1. ASSUME StepInv, JobStep PROVE Follows
  <2>1. CASE Keeps
    BY <2>1 DEF Keeps
  <2>2. ASSUME NEW r \in Requests, NEW x \in Slots, NEW row \in SessionRows, Writes(r, row, x)
        PROVE  Follows
    <3>1. PICK p \in Sessions : p = req[r].s
      BY <1>1, <2>2, SlotFacts DEF Writes
    <3>2. /\ sessions'[p] = row /\ req'[r] = x
          /\ \A s \in Sessions \ {p} : sessions'[s] = sessions[s]
      BY <1>1, <2>2, <3>1 DEF Writes, StepInv
    <3>3. Moved(r, row, x)
      BY <2>2 DEF Writes
    <3> QED
      BY <3>1, <3>2, <3>3 DEF Moved
  <2>3. ASSUME NEW p \in Sessions, Selects(p) PROVE Follows
    <3>1. sessions[p] \in SessionRows /\ sessions[p].state = "awaiting_job_selection"
      BY <1>1, <2>3 DEF Selects, StepInv
    <3>2. /\ sessions'[p].state = "selected"
          /\ \A s \in Sessions \ {p} : sessions'[s] = sessions[s]
      BY <1>1, <2>3, <3>1, MutatedRow, StateNames DEF Selects, StepInv
    <3> QED
      BY <3>1, <3>2 DEF Moves
  <2> QED
    BY <1>1, <2>1, <2>2, <2>3 DEF JobStep, Begins, Creates, GoesOn, Leaves, Restarts, Rests
<1>2. ASSUME JobInv, [Next]_vars PROVE Follows
  BY <1>1, <1>2, StepInvHolds, JobSteps DEF JobInv, TypeOK, Leases, Workers
<1>3. JobInv /\ [Next]_vars => [Follows]_vars
  BY <1>2
<1>4. Spec => [][Follows]_vars
  BY <1>3, JobInvariant, PTL DEF Spec
<1> QED
  BY <1>4 DEF FollowsMachine
=============================================================================
