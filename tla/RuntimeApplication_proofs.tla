---------------------- MODULE RuntimeApplication_proofs ----------------------
(***************************************************************************)
(* Proofs about application tasks: whoever waits is answered, a run whose  *)
(* final review is locked never executes again, and the question a task    *)
(* shows is the one its run waits for.                                     *)
(***************************************************************************)
EXTENDS RuntimeApplication, FiniteSetTheorems, SequenceTheorems, WellFoundedInduction, TLAPS

Statuses == {"none", "running", "interrupted"} \cup Ended

Cells == [snapshot : {"none"} \cup Values, fallback : {"none"} \cup Values,
          run : {0} \cup RunIds, active : Requests \cup {None}]

RunRecords == [task : Tasks \cup {None}, status : Statuses, ask : Asks \cup {None},
               saved : Asks \cup {None}, asks : 0..MaxAsks, live : BOOLEAN]

Rows == [task : Tasks \cup {None}, ask : Asks \cup {None}, locked : BOOLEAN]

Slots == [op : {"none", "create", "activity", "open", "resume", "answer", "cancel", "delete",
                "certify"},
          t : Tasks \cup {None},
          pc : {"idle", "enter", "join", "observe", "prepare", "runtime", "open", "undo",
                "release", "delete", "certify", "reviewing", "seeded"},
          run : {0} \cup RunIds, leader : Requests \cup {None},
          reserved : BOOLEAN, again : BOOLEAN]

-----------------------------------------------------------------------------
(* The invariant.                                                          *)

\* The queue q holds the requests of W, each once.
Holds(q, W) ==
  /\ q \in Seq(Requests)
  /\ \A j, k \in 1..Len(q) : q[j] = q[k] => j = k
  /\ \A r \in Requests : r \in W <=> \E k \in 1..Len(q) : q[k] = r

Waiting == {r \in Requests : req[r].pc \in AwaitsWorker}

QueueInv == Holds(queue, Waiting)

\* Whom activeRuns names, or others joined, leads.
LeadInv ==
  /\ \A r \in Requests : req[r].pc = "join" =>
       req[r].leader \in Requests /\ req[req[r].leader].pc \in Leads
  /\ \A t \in Tasks : memory[t].active # None =>
       req[memory[t].active].t = t /\ req[memory[t].active].pc \in Leads

\* Nobody depends on r.
NotLed(r) ==
  /\ \A t \in Tasks : memory[t].active # r
  /\ \A q \in Requests : req[q].pc = "join" => req[q].leader # r

\* The first half of answer_questions resumes the run without activeRuns.
Early(x) == x.op = "answer" /\ ~x.again

EarlyInv == \A r \in Requests : Early(req[r]) => req[r].pc = "runtime" /\ NotLed(r)

\* A request at work is about a task, and one at the Runtime about a run.
TargetInv ==
  \A r \in Requests :
    /\ req[r].pc # "idle" => req[r].t \in Tasks
    /\ req[r].pc = "runtime" => req[r].run \in RunIds /\ runs[req[r].run].status # "none"

\* What the service and the store know of a run, the Runtime knows too.
KnownInv ==
  /\ \A t \in Tasks : memory[t].run # 0 => runs[memory[t].run].status # "none"
  /\ \A i \in RunIds : stored[i].task # None => runs[i].status # "none"

\* A run that waits has a question; one that executes has begun.
RunInv ==
  \A i \in RunIds : /\ runs[i].status = "interrupted" => runs[i].ask # None
                    /\ runs[i].live => runs[i].status # "none"

\* A run whose application is locked is about to ask for the final review, asks
\* for it, or has ended.
AtReview(x) ==
  \/ /\ x.status = "running" /\ x.live
     /\ x.saved # None /\ x.saved.reason = "final_submit"
  \/ x.status = "interrupted" /\ x.ask.reason = "final_submit"
  \/ x.status \in Ended

LockInv == \A i \in RunIds : stored[i].locked => AtReview(runs[i])

AppInv == /\ TypeOK /\ QueueInv /\ LeadInv /\ EarlyInv /\ TargetInv
          /\ KnownInv /\ RunInv /\ LockInv

-----------------------------------------------------------------------------
(* Queues.                                                                 *)

\* Joining a queue.
LEMMA HoldsAppend ==
  ASSUME NEW q, NEW W, Holds(q, W), NEW r \in Requests, r \notin W
  PROVE  Holds(Append(q, r), W \cup {r})
<1>1. PICK n \in Nat : n = Len(q)
  BY LenProperties DEF Holds
<1>2. /\ Append(q, r) \in Seq(Requests) /\ Len(Append(q, r)) = n + 1
      /\ \A k \in 1..n : Append(q, r)[k] = q[k]
      /\ Append(q, r)[n + 1] = r
  BY <1>1, AppendProperties DEF Holds
<1>3. \A k \in 1..n : q[k] # r
  BY <1>1 DEF Holds
<1>4. \A j, k \in 1..(n + 1) : Append(q, r)[j] = Append(q, r)[k] => j = k
  <2>1. ASSUME NEW j \in 1..(n + 1), NEW k \in 1..(n + 1), Append(q, r)[j] = Append(q, r)[k]
        PROVE  j = k
    <3>1. (j \in 1..n \/ j = n + 1) /\ (k \in 1..n \/ k = n + 1)
      OBVIOUS
    <3> QED
      BY <1>1, <1>2, <1>3, <2>1, <3>1 DEF Holds
  <2> QED
    BY <2>1
<1>5. ASSUME NEW p \in Requests
      PROVE  p \in W \cup {r} <=> \E k \in 1..(n + 1) : Append(q, r)[k] = p
  <2>1. 1..(n + 1) = (1..n) \cup {n + 1}
    OBVIOUS
  <2>2. p \in W <=> \E k \in 1..n : q[k] = p
    BY <1>1 DEF Holds
  <2> QED
    BY <1>2, <2>1, <2>2
<1> QED
  BY <1>2, <1>4, <1>5 DEF Holds

\* Leaving it.
LEMMA HoldsTail ==
  ASSUME NEW q, NEW W, Holds(q, W), NEW r \in Requests, r \in W, Head(q) = r
  PROVE  Holds(Tail(q), W \ {r})
<1>1. q \in Seq(Requests) /\ q # << >>
  BY DEF Holds
<1>2. PICK n \in Nat : n + 1 = Len(q)
  <2>1. Len(q) \in Nat /\ Len(q) # 0
    BY <1>1, EmptySeq, LenProperties DEF Holds
  <2> QED
    BY <2>1
<1>3. /\ Tail(q) \in Seq(Requests) /\ Len(Tail(q)) = n
      /\ \A k \in 1..n : Tail(q)[k] = q[k + 1]
  BY <1>1, <1>2, HeadTailProperties
<1>4. q[1] = r
  BY <1>1
<1>5. \A j, k \in 1..n : Tail(q)[j] = Tail(q)[k] => j = k
  <2>1. \A j, k \in 1..n : q[j + 1] = q[k + 1] => j + 1 = k + 1
    BY <1>2 DEF Holds
  <2> QED
    BY <1>3, <2>1
<1>6. ASSUME NEW p \in Requests
      PROVE  p \in W \ {r} <=> \E k \in 1..n : Tail(q)[k] = p
  <2>1. ASSUME p \in W, p # r PROVE \E k \in 1..n : Tail(q)[k] = p
    <3>1. PICK k \in 1..(n + 1) : q[k] = p
      BY <1>2, <2>1 DEF Holds
    <3>2. k # 1
      BY <1>4, <2>1, <3>1
    <3>3. k - 1 \in 1..n /\ (k - 1) + 1 = k
      BY <3>2
    <3> QED
      BY <1>3, <3>1, <3>3
  <2>2. ASSUME NEW k \in 1..n, Tail(q)[k] = p PROVE p \in W /\ p # r
    <3>1. k + 1 \in 1..(n + 1) /\ k + 1 # 1 /\ 1 \in 1..(n + 1)
      OBVIOUS
    <3>2. q[k + 1] = p
      BY <1>3, <2>2
    <3>3. q[k + 1] # q[1]
      BY <1>2, <3>1 DEF Holds
    <3> QED
      BY <1>2, <1>4, <3>1, <3>2, <3>3 DEF Holds
  <2> QED
    BY <2>1, <2>2
<1> QED
  BY <1>3, <1>5, <1>6 DEF Holds

\* Its length.
LEMMA HoldsCount ==
  ASSUME NEW q, NEW W \in SUBSET Requests, Holds(q, W)
  PROVE  Len(q) = Cardinality(W)
<1>1. PICK n \in Nat : n = Len(q)
  BY LenProperties DEF Holds
<1>2. q \in [1..n -> W]
  <2>1. q \in [1..n -> Requests]
    BY <1>1, LenProperties DEF Holds
  <2>2. \A k \in 1..n : q[k] \in W
    BY <1>1, <2>1 DEF Holds
  <2> QED
    BY <2>1, <2>2
<1>3. q \in Injection(1..n, W)
  <2>1. \A a, b \in 1..n : q[a] = q[b] => a = b
    BY <1>1 DEF Holds
  <2> QED
    BY <1>2, <2>1 DEF Injection, IsInjective
<1>4. q \in Surjection(1..n, W)
  BY <1>1, <1>2 DEF Holds, Surjection
<1>5. ExistsBijection(1..n, W)
  BY <1>3, <1>4 DEF ExistsBijection, Bijection
<1> QED
  BY <1>1, <1>5, FS_CountingElements

\* A set of positions has a last one.
LEMMA LastOf ==
  ASSUME NEW n \in Nat, NEW S \in SUBSET (1..n), S # {}
  PROVE  \E m \in S : \A i \in S : i <= m
<1>1. {n - i : i \in S} \in SUBSET Nat /\ {n - i : i \in S} # {}
  <2>1. \A i \in S : n - i \in Nat
    OBVIOUS
  <2> QED
    BY <2>1
<1>2. PICK m \in {n - i : i \in S} : \A i \in {n - j : j \in S} : ~ (<<i, m>> \in OpToRel(<, Nat))
  BY <1>1, NatLessThanWellFounded, WFMin
<1>3. \A i \in {n - j : j \in S} : ~ (i < m)
  <2>1. \A i \in {n - j : j \in S} : i < m => <<i, m>> \in OpToRel(<, Nat)
    BY <1>1 DEF OpToRel
  <2> QED
    BY <1>2, <2>1, Zenon
<1>4. PICK k \in S : m = n - k
  OBVIOUS
<1>5. ASSUME NEW i \in S PROVE i <= k
  <2>1. ~ (n - i < n - k) /\ i \in 1..n /\ k \in 1..n
    BY <1>3, <1>4
  <2> QED
    BY <2>1
<1> QED
  BY <1>5

-----------------------------------------------------------------------------
(* The service's memory and the store.                                     *)

\* The row saved last, if the task has one.
LEMMA StoredRunIs ==
  ASSUME TypeOK, NEW t \in Tasks
  PROVE  StoredRun(t) # 0 => StoredRun(t) \in RunIds /\ stored[StoredRun(t)].task = t
<1> DEFINE mine == {k \in DOMAIN saved : stored[saved[k]].task = t}
<1>1. PICK n \in Nat : n = Len(saved) /\ DOMAIN saved = 1..n /\ \A k \in 1..n : saved[k] \in RunIds
  BY LenProperties DEF TypeOK
<1>2. CASE mine = {}
  BY <1>2 DEF StoredRun
<1>3. CASE mine # {}
  <2>1. mine \in SUBSET (1..n)
    BY <1>1
  <2>2. \E k \in mine : \A j \in mine : j <= k
    BY <1>3, <2>1, LastOf
  <2>3. PICK k \in mine : k = CHOOSE m \in mine : \A j \in mine : j <= m
    BY <2>2
  <2>4. StoredRun(t) = saved[k]
    BY <1>3, <2>3 DEF StoredRun
  <2> QED
    BY <1>1, <2>1, <2>4
<1> QED
  BY <1>2, <1>3

\* The run that a task is known to have had.
LEMMA RunOfIs ==
  ASSUME TypeOK, KnownInv, NEW t \in Tasks, RunOf(t) # 0
  PROVE  RunOf(t) \in RunIds /\ runs[RunOf(t)].status # "none"
<1>1. CASE memory[t].run # 0
  BY <1>1 DEF RunOf, KnownInv, TypeOK
<1>2. CASE memory[t].run = 0
  <2>1. RunOf(t) \in RunIds /\ stored[RunOf(t)].task = t
    BY <1>2, StoredRunIs DEF RunOf
  <2> QED
    BY <2>1, ConstantsAssumption DEF KnownInv
<1> QED
  BY <1>1, <1>2

\* The order of the rows stays one.
LEMMA OthersType ==
  ASSUME TypeOK, NEW i
  PROVE  Others(i) \in Seq(RunIds)
<1> DEFINE before == {k \in DOMAIN saved : saved[k] = i}
<1>1. PICK n \in Nat : /\ n = Len(saved) /\ DOMAIN saved = 1..n
                       /\ \A k \in 1..n : saved[k] \in RunIds
  BY LenProperties DEF TypeOK
<1>2. CASE before = {}
  BY <1>2 DEF Others, TypeOK
<1>3. CASE before # {}
  <2>1. PICK k \in 1..n : k = CHOOSE j \in before : TRUE
    BY <1>1, <1>3
  <2>2. /\ \A j \in 1..(k - 1) : saved[j] \in RunIds
        /\ \A j \in (k + 1)..n : saved[j] \in RunIds
    <3>1. /\ \A j \in 1..(k - 1) : j \in 1..n
          /\ \A j \in (k + 1)..n : j \in 1..n
      OBVIOUS
    <3> QED
      BY <1>1, <3>1
  <2>3. k - 1 \in Int /\ k + 1 \in Int /\ n \in Int /\ 1 \in Int
    OBVIOUS
  <2>4. SubSeq(saved, 1, k - 1) \in Seq(RunIds) /\ SubSeq(saved, k + 1, n) \in Seq(RunIds)
    BY <2>2, <2>3, SubSeqProperties
  <2>5. SubSeq(saved, 1, k - 1) \o SubSeq(saved, k + 1, n) \in Seq(RunIds)
    BY <2>4, ConcatProperties
  <2> QED
    BY <1>1, <1>3, <2>1, <2>5 DEF Others
<1> QED
  BY <1>2, <1>3

\* A row is saved.
LEMMA SavesTypes ==
  ASSUME TypeOK, NEW i \in RunIds, NEW row \in Rows, Saves(i, row)
  PROVE  /\ stored' \in [RunIds -> Rows] /\ saved' \in Seq(RunIds)
         /\ stored' = [stored EXCEPT ![i] = row]
<1>1. saved' \in Seq(RunIds)
  BY OthersType, AppendProperties DEF Saves
<1> QED
  BY <1>1 DEF Saves, TypeOK, Rows

\* A value that state() gives is one.
LEMMA ValueType ==
  ASSUME NEW m \in [Tasks -> Cells], NEW t \in Tasks
  PROVE  Value(m, t) \in Values
<1>1. ValueStored(StoredRun(t)) \in Values
  BY DEF ValueStored, Values, Terminal
<1>2. m[t] \in Cells
  OBVIOUS
<1>3. m[t].snapshot # "none" => m[t].snapshot \in Values
  BY <1>2 DEF Cells
<1>4. m[t].fallback # "none" => m[t].fallback \in Values
  BY <1>2 DEF Cells
<1>5. "created" \in Values
  BY DEF Values
<1> QED
  BY <1>1, <1>3, <1>4, <1>5 DEF Value

\* The memory m has the runs and the active requests of n.
Same(m, n) == \A t \in Tasks : m[t].run = n[t].run /\ m[t].active = n[t].active

\* publish changes what is shown.
LEMMA PublishTypes ==
  ASSUME TypeOK, NEW m \in [Tasks -> Cells], NEW t \in Tasks, NEW value \in Values,
         Publish(m, t, value)
  PROVE  /\ memory' \in [Tasks -> Cells] /\ Same(memory', m)
         /\ tasks' \in [Tasks -> {"absent"} \cup Values]
         /\ lease' \in Tasks \cup {Jobs, None}
<1>1. m[t] \in Cells
  OBVIOUS
<1>2. PICK cell : cell = [m[t] EXCEPT !.snapshot = value, !.fallback = "none"]
  OBVIOUS
<1>3. cell \in Cells /\ cell.run = m[t].run /\ cell.active = m[t].active
  BY <1>1, <1>2 DEF Cells
<1>4. memory' = [m EXCEPT ![t] = cell]
  BY <1>1, <1>2 DEF Publish, Cells
<1>5. memory' \in [Tasks -> Cells] /\ Same(memory', m)
  BY <1>3, <1>4 DEF Same
<1>6. tasks' \in [Tasks -> {"absent"} \cup Values] /\ lease' \in Tasks \cup {Jobs, None}
  BY DEF Publish, TypeOK, Returned
<1> QED
  BY <1>5, <1>6

\* The request r leaves activeRuns.
LEMMA LeftTypes ==
  ASSUME TypeOK, NEW r \in Requests, req[r].t \in Tasks
  PROVE  /\ Left(r) \in [Tasks -> Cells]
         /\ \A t \in Tasks :
              /\ Left(r)[t].run = memory[t].run
              /\ Left(r)[t].active = IF t = req[r].t /\ memory[t].active = r THEN None
                                     ELSE memory[t].active
<1>1. PICK t \in Tasks : t = req[r].t
  OBVIOUS
<1>2. memory[t] \in Cells /\ memory \in [Tasks -> Cells]
  BY DEF TypeOK, Cells
<1>3. PICK cell : cell = [memory[t] EXCEPT !.active = IF memory[t].active = r THEN None
                                                      ELSE memory[t].active]
  OBVIOUS
<1>4. /\ cell \in Cells /\ cell.run = memory[t].run
      /\ cell.active = IF memory[t].active = r THEN None ELSE memory[t].active
  BY <1>2, <1>3 DEF Cells
<1>5. Left(r) = [memory EXCEPT ![t] = cell]
  BY <1>1, <1>2, <1>3 DEF Left, Cells
<1> QED
  BY <1>1, <1>2, <1>4, <1>5

\* Knowing its run.
LEMMA KnowsRun ==
  ASSUME NEW m \in [Tasks -> Cells], NEW t \in Tasks, NEW i \in RunIds
  PROVE  /\ [m EXCEPT ![t].run = i] \in [Tasks -> Cells]
         /\ \A p \in Tasks :
              /\ [m EXCEPT ![t].run = i][p].active = m[p].active
              /\ [m EXCEPT ![t].run = i][p].run = IF p = t THEN i ELSE m[p].run
<1>1. m[t] \in Cells
  OBVIOUS
<1>2. PICK cell : cell = [m[t] EXCEPT !.run = i]
  OBVIOUS
<1>3. cell \in Cells /\ cell.run = i /\ cell.active = m[t].active
  BY <1>1, <1>2 DEF Cells
<1>4. [m EXCEPT ![t].run = i] = [m EXCEPT ![t] = cell]
  BY <1>2
<1> QED
  BY <1>3, <1>4

\* rememberResult of a run that waits or has ended.
LEMMA RememberTypes ==
  ASSUME TypeOK, NEW m \in [Tasks -> Cells], NEW rs \in [RunIds -> RunRecords],
         NEW t \in Tasks, NEW i \in RunIds, RememberResult(m, rs, t, i),
         rs[i].status \in {"interrupted"} \cup Ended,
         rs[i].status = "interrupted" => rs[i].ask # None
  PROVE  /\ memory' \in [Tasks -> Cells]
         /\ \A p \in Tasks : /\ memory'[p].active = m[p].active
                             /\ memory'[p].run = IF p = t THEN i ELSE m[p].run
         /\ tasks' \in [Tasks -> {"absent"} \cup Values]
         /\ lease' \in Tasks \cup {Jobs, None}
         /\ cached' \in [RunIds -> Asks \cup {None}]
         /\ stored' \in [RunIds -> Rows] /\ saved' \in Seq(RunIds)
         /\ stored'[i].task = t
         /\ stored'[i].locked => stored[i].locked \/ AtReview(rs[i])
         /\ \A j \in RunIds \ {i} : stored'[j] = stored[j]
<1>1. PICK ask \in Asks \cup {None} :
        /\ ask = IF rs[i].status = "interrupted" THEN rs[i].ask ELSE None
  BY DEF RunRecords
<1>2. rs[i].status = "interrupted" => ask \in Asks /\ ask = rs[i].ask
  BY <1>1
<1>3. ResultValue(rs[i]) \in Values
  <2>1. rs[i].status = "interrupted" => ValueOf(rs[i].ask) \in Values
    <3>1. rs[i].status = "interrupted" => rs[i].ask.reason \in Reasons
      BY <1>2 DEF Asks
    <3> QED
      BY <3>1 DEF ValueOf, Values, Terminal, Reasons
  <2> QED
    BY <2>1 DEF ResultValue, Values, Terminal, Ended
<1>4. PICK row : row = [task |-> t, ask |-> ask,
                        locked |-> \/ stored[i].locked
                                   \/ rs[i].status = "completed"
                                   \/ ask # None /\ ask.reason = "final_submit"]
  OBVIOUS
<1>5. row \in Rows /\ row.task = t
  BY <1>4 DEF Rows, TypeOK
<1>6. row.locked => stored[i].locked \/ AtReview(rs[i])
  <2>1. ask # None => rs[i].status = "interrupted" /\ ask = rs[i].ask
    BY <1>1
  <2> QED
    BY <1>4, <2>1 DEF AtReview, Ended
<1>7. Saves(i, row) /\ cached' = [cached EXCEPT ![i] = ask]
      /\ Publish([m EXCEPT ![t].run = i], t, ResultValue(rs[i]))
  BY <1>1, <1>4 DEF RememberResult
<1>8. PICK n : n = [m EXCEPT ![t].run = i]
  OBVIOUS
<1>9. /\ n \in [Tasks -> Cells]
      /\ \A p \in Tasks : /\ n[p].active = m[p].active
                          /\ n[p].run = IF p = t THEN i ELSE m[p].run
  BY <1>8, KnowsRun
<1>10. /\ memory' \in [Tasks -> Cells] /\ Same(memory', n)
       /\ tasks' \in [Tasks -> {"absent"} \cup Values] /\ lease' \in Tasks \cup {Jobs, None}
  BY <1>3, <1>7, <1>8, <1>9, PublishTypes
<1>11. /\ stored' \in [RunIds -> Rows] /\ saved' \in Seq(RunIds)
       /\ stored' = [stored EXCEPT ![i] = row]
  BY <1>5, <1>7, SavesTypes
<1>12. stored'[i] = row /\ \A j \in RunIds \ {i} : stored'[j] = stored[j]
  BY <1>11 DEF TypeOK
<1>13. cached' \in [RunIds -> Asks \cup {None}]
  BY <1>7 DEF TypeOK
<1> QED
  BY <1>5, <1>6, <1>9, <1>10, <1>11, <1>12, <1>13 DEF Same

-----------------------------------------------------------------------------
(* What a step does to requests, queue and activeRuns.                     *)

\* The queue follows the request r, which becomes x.
Queues(r, x) ==
  \/ req[r].pc \notin AwaitsWorker /\ x.pc \notin AwaitsWorker /\ queue' = queue
  \/ req[r].pc \notin AwaitsWorker /\ x.pc \in AwaitsWorker /\ queue' = Append(queue, r)
  \/ /\ req[r].pc \in AwaitsWorker /\ Head(queue) = r
     /\ x.pc \notin AwaitsWorker /\ queue' = Tail(queue)
  \/ /\ req[r].pc \in AwaitsWorker /\ Head(queue) = r
     /\ x.pc \in AwaitsWorker /\ queue' = Append(Tail(queue), r)

\* The request r becomes x: it may lead its task from now on, goes on leading,
\* joins the task's leader, or nobody depends on it.
Moves(r, x) ==
  /\ x \in Slots
  /\ req' = [req EXCEPT ![r] = x]
  /\ Queues(r, x)
  /\ x.pc # "idle" => x.t \in Tasks
  /\ x.pc = "runtime" => x.run \in RunIds /\ runs'[x.run].status # "none"
  /\ x.pc = "join" => /\ req[r].pc \notin Leads /\ x.leader # None
                      /\ \E t \in Tasks : memory[t].active = x.leader
  /\ NotLed(r) \/ (x.pc \in Leads /\ x.t = req[r].t)
  /\ Early(x) => x.pc = "runtime" /\ NotLed(r) /\ \A t \in Tasks : memory'[t].active # r
  /\ \A t \in Tasks : \/ memory'[t].active \in {memory[t].active, None}
                      \/ memory'[t].active = r /\ x.t = t /\ x.pc \in Leads

\* The requests stay, and so does the queue.
Stays ==
  /\ req' = req /\ queue' = queue
  /\ \A t \in Tasks : memory'[t].active \in {memory[t].active, None}

\* runUntilPause of r is over, for it and for those who joined it.
Over(r) ==
  /\ req[r].pc # "idle"
  /\ \E ok \in BOOLEAN : RunOver(r, ok)
  /\ \/ req[r].pc \notin AwaitsWorker /\ queue' = queue
     \/ req[r].pc \in AwaitsWorker /\ Head(queue) = r /\ queue' = Tail(queue)
  /\ \A t \in Tasks : memory'[t].active = IF t = req[r].t /\ memory[t].active = r THEN None
                                          ELSE memory[t].active

\* The API restarts.
Restarts ==
  /\ req' = [r \in Requests |-> Idle] /\ queue' = << >>
  /\ \A t \in Tasks : memory'[t].active = None

\* A run that exists goes on existing.
RunsRemain == \A i \in RunIds : runs[i].status # "none" => runs'[i].status # "none"

\* One of these.
Served ==
  /\ RunsRemain
  /\ \/ Stays
     \/ \E r \in Requests : (\E x \in Slots : Moves(r, x)) \/ Over(r)
     \/ Restarts

\* Whoever leads nobody has no followers.
LEMMA LeadsOrFree ==
  ASSUME TypeOK, LeadInv, NEW r \in Requests, req[r].pc \notin Leads
  PROVE  NotLed(r)
<1>1. \A t \in Tasks : memory[t].active # r
  BY ConstantsAssumption DEF LeadInv
<1>2. \A q \in Requests : req[q].pc = "join" => req[q].leader # r
  BY DEF LeadInv
<1> QED
  BY <1>1, <1>2 DEF NotLed

\* The queue after a move.
LEMMA MovesQueue ==
  ASSUME TypeOK, QueueInv, NEW r \in Requests, NEW x \in Slots,
         req' = [req EXCEPT ![r] = x], Queues(r, x)
  PROVE  QueueInv'
<1> DEFINE W == Waiting
<1>1. Holds(queue, W) /\ (r \in W <=> req[r].pc \in AwaitsWorker)
  BY DEF QueueInv, Waiting
<1>2. /\ req'[r] = x
      /\ \A q \in Requests : q # r => req'[q] = req[q]
  BY DEF TypeOK
<1>3. CASE req[r].pc \notin AwaitsWorker /\ x.pc \notin AwaitsWorker /\ queue' = queue
  <2>1. Waiting' = W
    BY <1>2, <1>3 DEF Waiting
  <2> QED
    BY <1>1, <1>3, <2>1 DEF QueueInv
<1>4. CASE req[r].pc \notin AwaitsWorker /\ x.pc \in AwaitsWorker /\ queue' = Append(queue, r)
  <2>1. Waiting' = W \cup {r}
    BY <1>2, <1>4 DEF Waiting
  <2>2. Holds(Append(queue, r), W \cup {r})
    BY <1>1, <1>4, HoldsAppend
  <2> QED
    BY <1>4, <2>1, <2>2 DEF QueueInv
<1>5. CASE /\ req[r].pc \in AwaitsWorker /\ Head(queue) = r
           /\ x.pc \notin AwaitsWorker /\ queue' = Tail(queue)
  <2>1. Waiting' = W \ {r}
    BY <1>2, <1>5 DEF Waiting
  <2>2. Holds(Tail(queue), W \ {r})
    BY <1>1, <1>5, HoldsTail
  <2> QED
    BY <1>5, <2>1, <2>2 DEF QueueInv
<1>6. CASE /\ req[r].pc \in AwaitsWorker /\ Head(queue) = r
           /\ x.pc \in AwaitsWorker /\ queue' = Append(Tail(queue), r)
  <2>1. Waiting' = (W \ {r}) \cup {r}
    BY <1>2, <1>6 DEF Waiting
  <2>2. Holds(Tail(queue), W \ {r})
    BY <1>1, <1>6, HoldsTail
  <2>3. Holds(Append(Tail(queue), r), (W \ {r}) \cup {r})
    BY <2>2, HoldsAppend
  <2> QED
    BY <1>6, <2>1, <2>3 DEF QueueInv
<1> QED
  BY <1>3, <1>4, <1>5, <1>6 DEF Queues

\* A move keeps the invariant's parts about requests.
LEMMA MovesServes ==
  ASSUME TypeOK, TypeOK', QueueInv, LeadInv, EarlyInv, TargetInv, RunsRemain,
         NEW r \in Requests, NEW x \in Slots, Moves(r, x)
  PROVE  QueueInv' /\ LeadInv' /\ EarlyInv' /\ TargetInv'
<1>1. QueueInv'
  BY MovesQueue DEF Moves
<1>2. /\ req'[r] = x
      /\ \A q \in Requests : q # r => req'[q] = req[q]
  BY DEF TypeOK, Moves
<1>3. \A q \in Requests : req[q].pc \in Leads =>
        \/ req'[q].pc \in Leads /\ req'[q].t = req[q].t
        \/ q = r /\ NotLed(r)
  BY <1>2 DEF Moves
<1>4. \A t \in Tasks : memory[t].active # None => memory[t].active \in Requests
  BY DEF TypeOK
<1>5. \A t \in Tasks : memory'[t].active # None =>
        req'[memory'[t].active].t = t /\ req'[memory'[t].active].pc \in Leads
  <2>1. ASSUME NEW t \in Tasks, memory'[t].active # None
        PROVE  req'[memory'[t].active].t = t /\ req'[memory'[t].active].pc \in Leads
    <3>1. CASE memory'[t].active = r /\ x.t = t /\ x.pc \in Leads
      BY <1>2, <3>1
    <3>2. CASE memory'[t].active = memory[t].active
      <4>1. /\ memory[t].active \in Requests
            /\ req[memory[t].active].t = t /\ req[memory[t].active].pc \in Leads
        BY <1>4, <2>1, <3>2 DEF LeadInv
      <4>2. ~ (memory[t].active = r /\ NotLed(r))
        BY DEF NotLed
      <4> QED
        BY <1>3, <3>2, <4>1, <4>2
    <3> QED
      BY <2>1, <3>1, <3>2 DEF Moves
  <2> QED
    BY <2>1
<1>6. ASSUME NEW q \in Requests, req'[q].pc = "join"
      PROVE  req'[q].leader \in Requests /\ req'[req'[q].leader].pc \in Leads
  <2>1. CASE q = r
    <3>1. PICK t \in Tasks : /\ memory[t].active = x.leader /\ x.leader # None
                             /\ req[r].pc \notin Leads
      BY <1>2, <1>6, <2>1 DEF Moves
    <3>2. x.leader \in Requests /\ req[x.leader].pc \in Leads
      BY <1>4, <3>1 DEF LeadInv
    <3> QED
      BY <1>2, <2>1, <3>1, <3>2
  <2>2. CASE q # r
    <3>1. /\ req[q].pc = "join" /\ req'[q].leader = req[q].leader
          /\ req[q].leader \in Requests /\ req[req[q].leader].pc \in Leads
      BY <1>2, <1>6, <2>2 DEF LeadInv
    <3>2. ~ (req[q].leader = r /\ NotLed(r))
      BY <3>1 DEF NotLed
    <3> QED
      BY <1>3, <3>1, <3>2
  <2> QED
    BY <2>1, <2>2
<1>7. ASSUME NEW q \in Requests, Early(req'[q]) PROVE req'[q].pc = "runtime" /\ NotLed(q)'
  <2>1. req'[q].pc = "runtime" /\ NotLed(q) /\ \A t \in Tasks : memory'[t].active # q
    <3>1. CASE q = r
      BY <1>2, <1>7, <3>1 DEF Moves
    <3>2. CASE q # r
      <4>1. req'[q].pc = "runtime" /\ NotLed(q)
        BY <1>2, <1>7, <3>2 DEF EarlyInv
      <4>2. \A t \in Tasks : memory'[t].active \in {memory[t].active, None, r}
        BY DEF Moves
      <4>3. q # None
        BY ConstantsAssumption
      <4> QED
        BY <3>2, <4>1, <4>2, <4>3 DEF NotLed
    <3> QED
      BY <3>1, <3>2
  <2>2. ASSUME NEW p \in Requests, req'[p].pc = "join" PROVE req'[p].leader # q
    <3>1. CASE p = r
      BY <1>2, <2>1, <2>2, <3>1 DEF Moves, NotLed
    <3>2. CASE p # r
      BY <1>2, <2>1, <2>2, <3>2 DEF NotLed
    <3> QED
      BY <3>1, <3>2
  <2> QED
    BY <2>1, <2>2 DEF NotLed
<1>8. TargetInv'
  BY <1>2 DEF Moves, TargetInv, RunsRemain
<1> QED
  BY <1>1, <1>5, <1>6, <1>7, <1>8 DEF LeadInv, EarlyInv

\* So does a step that leaves the requests alone.
LEMMA StaysServes ==
  ASSUME TypeOK, TypeOK', QueueInv, LeadInv, EarlyInv, TargetInv, RunsRemain, Stays
  PROVE  QueueInv' /\ LeadInv' /\ EarlyInv' /\ TargetInv'
<1>1. req' = req /\ queue' = queue
  BY DEF Stays
<1>2. QueueInv' /\ TargetInv'
  BY <1>1 DEF QueueInv, Waiting, TargetInv, RunsRemain
<1>3. LeadInv'
  BY <1>1 DEF LeadInv, Stays
<1>4. EarlyInv'
  <2>1. \A r \in Requests : r # None
    BY ConstantsAssumption
  <2>2. \A r \in Requests : NotLed(r) => NotLed(r)'
    BY <1>1, <2>1 DEF NotLed, Stays
  <2> QED
    BY <1>1, <2>2 DEF EarlyInv
<1> QED
  BY <1>2, <1>3, <1>4

\* What becomes of a caller.
LEMMA AfterIs ==
  ASSUME TypeOK, TargetInv, NEW q \in Requests, req[q].pc # "idle", NEW ok \in BOOLEAN
  PROVE  /\ After(q, ok) \in Slots
         /\ After(q, ok).pc \in {"idle", "undo"}
         /\ After(q, ok).pc # "idle" => After(q, ok).t = req[q].t /\ After(q, ok).t \in Tasks
         /\ ~Early(After(q, ok))
<1>1. /\ Idle \in Slots /\ Idle.pc = "idle" /\ ~Early(Idle)
  BY DEF Idle, Slots, Early
<1>2. req[q] \in Slots /\ req[q].t \in Tasks
  BY DEF TypeOK, Slots, TargetInv
<1>3. PICK x : x = [req[q] EXCEPT !.pc = "undo", !.leader = None, !.reserved = FALSE]
  OBVIOUS
<1>4. x \in Slots /\ x.pc = "undo" /\ x.t = req[q].t /\ x.op = req[q].op
  BY <1>2, <1>3 DEF Slots
<1>5. CASE ~ok /\ req[q].op = "create"
  BY <1>2, <1>3, <1>4, <1>5 DEF After, Early
<1>6. CASE ~ (~ok /\ req[q].op = "create")
  BY <1>1, <1>6 DEF After
<1> QED
  BY <1>5, <1>6

\* The end of runUntilPause keeps the parts about requests.
LEMMA OverServes ==
  ASSUME TypeOK, TypeOK', QueueInv, LeadInv, EarlyInv, TargetInv, RunsRemain,
         NEW r \in Requests, Over(r)
  PROVE  QueueInv' /\ LeadInv' /\ EarlyInv' /\ TargetInv'
<1>1. PICK ok \in BOOLEAN : RunOver(r, ok)
  BY DEF Over
<1>2. r \in Callers(r) /\ \A q \in Callers(r) : q # r => req[q].pc = "join" /\ req[q].leader = r
  BY DEF Callers
<1>3. /\ \A q \in Callers(r) : req[q].pc # "idle" /\ req'[q] = After(q, ok)
      /\ \A q \in Requests \ Callers(r) : req'[q] = req[q]
  BY <1>1, <1>2 DEF RunOver, Over, Callers
<1>4. \A q \in Callers(r) :
        /\ req'[q].pc \in {"idle", "undo"}
        /\ req'[q].pc # "idle" => req'[q].t \in Tasks
        /\ ~Early(req'[q])
  BY <1>3, AfterIs DEF Callers
<1>5. \A q \in Requests : req'[q].pc \in AwaitsWorker <=> q # r /\ req[q].pc \in AwaitsWorker
  BY <1>2, <1>3, <1>4 DEF AwaitsWorker
<1>6. QueueInv'
  <2>1. Holds(queue, Waiting)
    BY DEF QueueInv
  <2>2. CASE req[r].pc \notin AwaitsWorker /\ queue' = queue
    <3>1. Waiting' = Waiting
      BY <1>5, <2>2 DEF Waiting
    <3> QED
      BY <2>1, <2>2, <3>1 DEF QueueInv
  <2>3. CASE req[r].pc \in AwaitsWorker /\ Head(queue) = r /\ queue' = Tail(queue)
    <3>1. Waiting' = Waiting \ {r} /\ r \in Waiting
      BY <1>5, <2>3 DEF Waiting
    <3>2. Holds(Tail(queue), Waiting \ {r})
      BY <2>1, <2>3, <3>1, HoldsTail
    <3> QED
      BY <2>3, <3>1, <3>2 DEF QueueInv
  <2> QED
    BY <2>2, <2>3 DEF Over
<1>7. \A q \in Requests : req[q].pc \in Leads /\ q # r => req'[q] = req[q]
  BY <1>2, <1>3 DEF Leads
<1>8. ASSUME NEW t \in Tasks, memory'[t].active # None
      PROVE  req'[memory'[t].active].t = t /\ req'[memory'[t].active].pc \in Leads
  <2>1. memory'[t].active = memory[t].active /\ memory[t].active \in Requests
    BY <1>8 DEF Over, TypeOK
  <2>2. req[memory[t].active].t = t /\ req[memory[t].active].pc \in Leads
    BY <1>8, <2>1 DEF LeadInv
  <2>3. memory[t].active # r
    BY <1>8, <2>2 DEF Over
  <2> QED
    BY <1>7, <2>1, <2>2, <2>3
<1>9. ASSUME NEW q \in Requests, req'[q].pc = "join"
      PROVE  req'[q].leader \in Requests /\ req'[req'[q].leader].pc \in Leads
  <2>1. q \notin Callers(r) /\ req'[q] = req[q]
    BY <1>3, <1>4, <1>9
  <2>2. req[q].leader \in Requests /\ req[req[q].leader].pc \in Leads /\ req[q].leader # r
    BY <1>9, <2>1 DEF LeadInv, Callers
  <2> QED
    BY <1>7, <2>1, <2>2
<1>10. ASSUME NEW q \in Requests, Early(req'[q]) PROVE req'[q].pc = "runtime" /\ NotLed(q)'
  <2>1. q \notin Callers(r) /\ req'[q] = req[q]
    BY <1>3, <1>4, <1>10
  <2>2. req'[q].pc = "runtime" /\ NotLed(q)
    BY <1>10, <2>1 DEF EarlyInv
  <2>3. \A t \in Tasks : memory'[t].active # q
    <3>1. q # None
      BY ConstantsAssumption
    <3> QED
      BY <2>2, <3>1 DEF Over, NotLed
  <2>4. \A p \in Requests : req'[p].pc = "join" => req'[p].leader # q
    BY <1>3, <1>4, <2>2 DEF NotLed
  <2> QED
    BY <2>2, <2>3, <2>4 DEF NotLed
<1>11. TargetInv'
  <2>1. ASSUME NEW q \in Requests
        PROVE  /\ req'[q].pc # "idle" => req'[q].t \in Tasks
               /\ req'[q].pc = "runtime" =>
                    req'[q].run \in RunIds /\ runs'[req'[q].run].status # "none"
    <3>1. CASE q \in Callers(r)
      BY <1>4, <3>1
    <3>2. CASE q \notin Callers(r)
      BY <1>3, <3>2 DEF TargetInv, RunsRemain
    <3> QED
      BY <3>1, <3>2
  <2> QED
    BY <2>1 DEF TargetInv
<1> QED
  BY <1>6, <1>8, <1>9, <1>10, <1>11 DEF LeadInv, EarlyInv

\* After a restart nobody waits.
LEMMA RestartsServes ==
  ASSUME TypeOK', Restarts
  PROVE  QueueInv' /\ LeadInv' /\ EarlyInv' /\ TargetInv'
<1>1. \A r \in Requests : req'[r] = Idle
  BY DEF Restarts
<1>2. \A r \in Requests : req'[r].pc = "idle" /\ ~Early(req'[r])
  BY <1>1 DEF Idle, Early
<1>3. QueueInv'
  <2>1. Waiting' = {}
    BY <1>2 DEF Waiting, AwaitsWorker
  <2>2. Holds(<< >>, {})
    <3>1. << >> \in Seq(Requests) /\ Len(<< >>) = 0
      BY EmptySeq
    <3> QED
      BY <3>1 DEF Holds
  <2> QED
    BY <2>1, <2>2 DEF QueueInv, Restarts
<1>4. LeadInv' /\ EarlyInv' /\ TargetInv'
  BY <1>2 DEF LeadInv, EarlyInv, TargetInv, Restarts
<1> QED
  BY <1>3, <1>4

\* Together.
LEMMA ServedKeeps ==
  ASSUME TypeOK, TypeOK', QueueInv, LeadInv, EarlyInv, TargetInv, Served
  PROVE  QueueInv' /\ LeadInv' /\ EarlyInv' /\ TargetInv'
<1>1. RunsRemain
  BY DEF Served
<1>2. CASE Stays
  BY <1>1, <1>2, StaysServes
<1>3. ASSUME NEW r \in Requests, NEW x \in Slots, Moves(r, x)
      PROVE  QueueInv' /\ LeadInv' /\ EarlyInv' /\ TargetInv'
  BY <1>1, <1>3, MovesServes
<1>4. ASSUME NEW r \in Requests, Over(r)
      PROVE  QueueInv' /\ LeadInv' /\ EarlyInv' /\ TargetInv'
  BY <1>1, <1>4, OverServes
<1>5. CASE Restarts
  BY <1>5, RestartsServes
<1> QED
  BY <1>2, <1>3, <1>4, <1>5 DEF Served

-----------------------------------------------------------------------------
(* What a step does to runs and to what is known of them.                  *)

\* A run whose application is locked stays at its review and is not started
\* again.
ReviewsStay ==
  \A i \in RunIds : AtReview(runs[i]) =>
    AtReview(runs'[i]) /\ (runs'[i].live => runs[i].live)

\* What becomes known of runs, and what becomes locked.
Knows ==
  /\ RunsRemain
  /\ ReviewsStay
  /\ \A i \in RunIds : /\ runs'[i].status = "interrupted" => runs'[i].ask # None
                       /\ runs'[i].live => runs'[i].status # "none"
  /\ \A t \in Tasks : \/ memory'[t].run \in {0, memory[t].run}
                      \/ memory'[t].run \in RunIds /\ runs'[memory'[t].run].status # "none"
  /\ \A i \in RunIds :
       /\ stored'[i].task \in {None, stored[i].task} \/ runs'[i].status # "none"
       /\ stored'[i].locked => stored[i].locked \/ AtReview(runs'[i])

\* That keeps the invariant's parts about runs.
LEMMA KnowsKeeps ==
  ASSUME TypeOK, TypeOK', KnownInv, RunInv, LockInv, Knows
  PROVE  KnownInv' /\ RunInv' /\ LockInv'
<1>1. KnownInv'
  <2>1. ASSUME NEW t \in Tasks, memory'[t].run # 0 PROVE runs'[memory'[t].run].status # "none"
    <3>1. CASE memory'[t].run = memory[t].run
      <4>1. memory[t].run \in RunIds /\ runs[memory[t].run].status # "none"
        BY <2>1, <3>1 DEF KnownInv, TypeOK
      <4> QED
        BY <3>1, <4>1 DEF Knows, RunsRemain
    <3> QED
      BY <2>1, <3>1 DEF Knows
  <2>2. \A i \in RunIds : stored'[i].task # None => runs'[i].status # "none"
    BY DEF Knows, RunsRemain, KnownInv
  <2> QED
    BY <2>1, <2>2 DEF KnownInv
<1>2. RunInv'
  BY DEF Knows, RunInv
<1>3. LockInv'
  BY DEF Knows, ReviewsStay, LockInv
<1> QED
  BY <1>1, <1>2, <1>3

\* The runs stay as they are, and nothing more is known of them.
LEMMA SameRuns ==
  ASSUME RunInv, runs' = runs, stored' = stored,
         \A t \in Tasks : memory'[t].run \in {0, memory[t].run}
  PROVE  Knows
BY DEF RunInv, Knows, RunsRemain, ReviewsStay

-----------------------------------------------------------------------------
(* Requests and cells that steps write.                                    *)

\* The types of the variables.
Typed ==
  /\ tasks \in [Tasks -> {"absent"} \cup Values]
  /\ lease \in Tasks \cup {Jobs, None}
  /\ memory \in [Tasks -> Cells]
  /\ cached \in [RunIds -> Asks \cup {None}]
  /\ runs \in [RunIds -> RunRecords]
  /\ stored \in [RunIds -> Rows]
  /\ req \in [Requests -> Slots]
  /\ saved \in Seq(RunIds)
  /\ queue \in Seq(Requests)
  /\ crashes \in 0..MaxCrashes

\* They are the type invariant.
LEMMA TypeIs == (TypeOK <=> Typed) /\ (TypeOK' <=> Typed')
BY DEF TypeOK, Typed, Cells, RunRecords, Rows, Slots, Statuses

\* What a step must do.
Goes == TypeOK' /\ Served /\ Knows

\* A request goes on to another await.
LEMMA PcTo ==
  ASSUME TypeOK, NEW r \in Requests,
         NEW pc \in {"prepare", "release", "delete", "reviewing", "seeded"}
  PROVE  \E x \in Slots : /\ x.pc = pc /\ x.op = req[r].op /\ x.t = req[r].t
                          /\ x.again = req[r].again
                          /\ [req EXCEPT ![r].pc = pc] = [req EXCEPT ![r] = x]
<1>1. req[r] \in Slots
  BY TypeIs DEF Typed
<1>2. PICK x : x = [req[r] EXCEPT !.pc = pc]
  OBVIOUS
<1>3. /\ x \in Slots /\ x.pc = pc /\ x.op = req[r].op /\ x.t = req[r].t
      /\ x.again = req[r].again
  BY <1>1, <1>2 DEF Slots
<1> QED
  BY <1>2, <1>3

\* A request that leads nobody goes where it leads nobody.
LEMMA SimpleMove ==
  ASSUME AppInv, NEW r \in Requests, req[r].pc \notin Leads, NEW x \in Slots,
         req' = [req EXCEPT ![r] = x], Queues(r, x),
         x.pc \notin Leads \cup {"join"}, x.pc # "idle" => x.t \in Tasks, ~Early(x),
         \A t \in Tasks : memory'[t].active \in {memory[t].active, None}
  PROVE  Moves(r, x)
<1>1. NotLed(r)
  BY LeadsOrFree DEF AppInv
<1>2. x.pc # "runtime" /\ x.pc # "join"
  BY DEF Leads
<1> QED
  BY <1>1, <1>2 DEF Moves

\* A request that is not at the Runtime is not early.
LEMMA NotEarly ==
  ASSUME AppInv, NEW r \in Requests, req[r].pc # "runtime"
  PROVE  ~ (req[r].op = "answer" /\ ~req[r].again)
BY DEF AppInv, EarlyInv, Early

\* A cell's values change.
LEMMA ShowsTypes ==
  ASSUME NEW m \in [Tasks -> Cells], NEW t \in Tasks, NEW value \in {"none"} \cup Values,
         NEW snapshot \in {"none"} \cup Values
  PROVE  /\ [m EXCEPT ![t].fallback = value] \in [Tasks -> Cells]
         /\ Same([m EXCEPT ![t].fallback = value], m)
         /\ [m EXCEPT ![t].snapshot = snapshot, ![t].fallback = value] \in [Tasks -> Cells]
         /\ Same([m EXCEPT ![t].snapshot = snapshot, ![t].fallback = value], m)
<1>1. m[t] \in Cells
  OBVIOUS
<1>2. PICK c : c = [m[t] EXCEPT !.fallback = value]
  OBVIOUS
<1>3. c \in Cells /\ c.run = m[t].run /\ c.active = m[t].active
  BY <1>1, <1>2 DEF Cells
<1>4. [m EXCEPT ![t].fallback = value] = [m EXCEPT ![t] = c]
  BY <1>2
<1>5. PICK d : d = [m[t] EXCEPT !.snapshot = snapshot, !.fallback = value]
  OBVIOUS
<1>6. d \in Cells /\ d.run = m[t].run /\ d.active = m[t].active
  BY <1>1, <1>5 DEF Cells
<1>7. [m EXCEPT ![t].snapshot = snapshot, ![t].fallback = value] = [m EXCEPT ![t] = d]
  BY <1>1, <1>5
<1>8. [m EXCEPT ![t] = c] \in [Tasks -> Cells] /\ Same([m EXCEPT ![t] = c], m)
  BY <1>3 DEF Same
<1>9. [m EXCEPT ![t] = d] \in [Tasks -> Cells] /\ Same([m EXCEPT ![t] = d], m)
  BY <1>6 DEF Same
<1> QED
  BY <1>4, <1>7, <1>8, <1>9

\* What a task shows is a value.
LEMMA EmitsTypes ==
  ASSUME TypeOK, memory' \in [Tasks -> Cells], NEW rs, NEW t \in Tasks, Emits(rs, t)
  PROVE  tasks' \in [Tasks -> {"absent"} \cup Values]
<1>1. Value(memory', t) \in Values
  BY ValueType
<1> QED
  BY <1>1 DEF Emits, TypeOK

-----------------------------------------------------------------------------
(* Commands begin.                                                         *)

\* An idle request leads nobody.
LEMMA FreeIs ==
  ASSUME AppInv, NEW r \in Requests, Free(r)
  PROVE  req[r].pc \notin Leads /\ req[r].pc \notin AwaitsWorker /\ NotLed(r)
BY LeadsOrFree DEF AppInv, Free, Leads, AwaitsWorker

\* The queue's type after a request has joined it.
LEMMA QueueType ==
  ASSUME AppInv, NEW r \in Requests, NEW pc
  PROVE  /\ queue \in Seq(Requests) /\ Append(queue, r) \in Seq(Requests)
         /\ Answered(r, pc) /\ pc \in AwaitsWorker =>
              Tail(queue) \in Seq(Requests) /\ Append(Tail(queue), r) \in Seq(Requests)
<1>1. queue \in Seq(Requests) /\ Append(queue, r) \in Seq(Requests)
  BY AppendProperties DEF AppInv, TypeOK
<1>2. ASSUME Answered(r, pc), pc \in AwaitsWorker
      PROVE  Tail(queue) \in Seq(Requests) /\ Append(Tail(queue), r) \in Seq(Requests)
  <2>1. Holds(queue, Waiting) /\ r \in Waiting /\ Head(queue) = r
    BY <1>2 DEF AppInv, QueueInv, Waiting, Answered
  <2>2. Tail(queue) \in Seq(Requests)
    BY <2>1, HoldsTail DEF Holds
  <2> QED
    BY <2>2, AppendProperties
<1> QED
  BY <1>1, <1>2

\* POST.
LEMMA CreateStartGoes ==
  ASSUME AppInv, NEW r \in Requests, NEW t \in Tasks, CreateStart(r, t)
  PROVE  Goes
<1>1. /\ memory' = [memory EXCEPT ![t].fallback = "observing"]
      /\ UNCHANGED <<cached, runs, stored, saved, crashes>>
      /\ TypeOK /\ Typed /\ RunInv
  BY TypeIs DEF CreateStart, AppInv
<1>2. memory' \in [Tasks -> Cells] /\ Same(memory', memory)
  <2>1. "observing" \in Values /\ "none" \in {"none"} \cup Values
    BY DEF Values
  <2> QED
    BY <1>1, <2>1, ShowsTypes DEF Typed
<1>3. \E x \in Slots : req' = [req EXCEPT ![r] = x] /\ Moves(r, x)
  <2>1. CASE lease = None
    <3>1. PICK y : y = Starts(r, "create", t, "open")
      OBVIOUS
    <3>2. y \in Slots /\ y.op = "create" /\ y.t = t /\ y.pc = "open"
      BY <3>1 DEF Starts, Idle, Slots
    <3>3. PICK x : x = [y EXCEPT !.reserved = TRUE]
      OBVIOUS
    <3>4. x \in Slots /\ x.op = "create" /\ x.t = t /\ x.pc = "open"
      BY <3>2, <3>3 DEF Slots
    <3>5. req' = [req EXCEPT ![r] = x] /\ queue' = Append(queue, r)
      BY <2>1, <3>1, <3>3 DEF CreateStart
    <3>6. Queues(r, x)
      BY <3>4, <3>5, FreeIs DEF Queues, AwaitsWorker, CreateStart
    <3>7. x.pc \notin Leads \cup {"join"} /\ ~Early(x)
      BY <3>4 DEF Leads, Early
    <3> QED
      BY <1>2, <3>4, <3>5, <3>6, <3>7, FreeIs, SimpleMove DEF Same, CreateStart
  <2>2. CASE lease # None
    <3>1. PICK x : x = Starts(r, "create", t, "undo")
      OBVIOUS
    <3>2. x \in Slots /\ x.op = "create" /\ x.t = t /\ x.pc = "undo"
      BY <3>1 DEF Starts, Idle, Slots
    <3>5. req' = [req EXCEPT ![r] = x] /\ queue' = queue
      BY <2>2, <3>1 DEF CreateStart
    <3>6. Queues(r, x)
      BY <3>2, <3>5, FreeIs DEF Queues, AwaitsWorker, CreateStart
    <3>7. x.pc \notin Leads \cup {"join"} /\ ~Early(x)
      BY <3>2 DEF Leads, Early
    <3> QED
      BY <1>2, <3>2, <3>5, <3>6, <3>7, FreeIs, SimpleMove DEF Same, CreateStart
  <2> QED
    BY <2>1, <2>2
<1>4. Served
  BY <1>1, <1>3 DEF Served, RunsRemain
<1>5. Knows
  BY <1>1, <1>2, SameRuns DEF Same
<1>6. tasks' \in [Tasks -> {"absent"} \cup Values] /\ lease' \in Tasks \cup {Jobs, None}
  BY <1>1 DEF CreateStart, Typed, Values
<1>7. queue' \in Seq(Requests)
  BY QueueType DEF CreateStart
<1>8. TypeOK'
  BY <1>1, <1>2, <1>3, <1>6, <1>7, TypeIs DEF Typed
<1> QED
  BY <1>4, <1>5, <1>8 DEF Goes

\* open_browser.
LEMMA OpenStartGoes ==
  ASSUME AppInv, NEW r \in Requests, NEW t \in Tasks, OpenStart(r, t)
  PROVE  Goes
<1>1. /\ UNCHANGED <<tasks, memory, cached, runs, stored, saved, crashes>>
      /\ lease' = t /\ queue' = Append(queue, r) /\ TypeOK /\ Typed /\ RunInv
  BY TypeIs DEF OpenStart, AppInv
<1>2. PICK y : y = Starts(r, "open", t, "open")
  OBVIOUS
<1>3. y \in Slots /\ y.op = "open" /\ y.t = t /\ y.pc = "open"
  BY <1>2 DEF Starts, Idle, Slots
<1>4. PICK x : x = [y EXCEPT !.reserved = (lease = None)]
  OBVIOUS
<1>5. x \in Slots /\ x.op = "open" /\ x.t = t /\ x.pc = "open"
  BY <1>3, <1>4 DEF Slots
<1>6. req' = [req EXCEPT ![r] = x]
  BY <1>2, <1>4 DEF OpenStart
<1>7. Queues(r, x) /\ req[r].pc \notin Leads
  BY <1>1, <1>5, FreeIs DEF Queues, AwaitsWorker, OpenStart
<1>8. x.pc \notin Leads \cup {"join"} /\ ~Early(x)
  BY <1>5 DEF Leads, Early
<1>9. Moves(r, x)
  BY <1>1, <1>5, <1>6, <1>7, <1>8, SimpleMove
<1>10. Served
  BY <1>1, <1>5, <1>9 DEF Served, RunsRemain
<1>11. Knows
  BY <1>1, SameRuns
<1>12. TypeOK'
  BY <1>1, <1>5, <1>6, QueueType, TypeIs DEF Typed
<1> QED
  BY <1>10, <1>11, <1>12 DEF Goes

\* certify_adapter.
LEMMA CertifyStartGoes ==
  ASSUME AppInv, NEW r \in Requests, NEW t \in Tasks, CertifyStart(r, t)
  PROVE  Goes
<1>1. /\ UNCHANGED <<tasks, lease, memory, cached, runs, stored, saved, crashes>>
      /\ queue' = Append(queue, r) /\ TypeOK /\ Typed /\ RunInv
  BY TypeIs DEF CertifyStart, AppInv
<1>2. PICK x : x = Starts(r, "certify", t, "certify")
  OBVIOUS
<1>3. x \in Slots /\ x.op = "certify" /\ x.t = t /\ x.pc = "certify"
  BY <1>2 DEF Starts, Idle, Slots
<1>4. req' = [req EXCEPT ![r] = x]
  BY <1>2 DEF CertifyStart
<1>5. Queues(r, x) /\ req[r].pc \notin Leads
  BY <1>1, <1>3, FreeIs DEF Queues, AwaitsWorker, CertifyStart
<1>6. x.pc \notin Leads \cup {"join"} /\ ~Early(x)
  BY <1>3 DEF Leads, Early
<1>7. Moves(r, x)
  BY <1>1, <1>3, <1>4, <1>5, <1>6, SimpleMove
<1>8. Served
  BY <1>1, <1>3, <1>7 DEF Served, RunsRemain
<1>9. Knows
  BY <1>1, SameRuns
<1>10. TypeOK'
  BY <1>1, <1>3, <1>4, QueueType, TypeIs DEF Typed
<1> QED
  BY <1>8, <1>9, <1>10 DEF Goes

\* dispose forgets.
LEMMA DisposesTypes ==
  ASSUME AppInv, NEW t \in Tasks, Disposes(t), runs' = runs
  PROVE  /\ memory' \in [Tasks -> Cells]
         /\ \A p \in Tasks : memory'[p].active \in {memory[p].active, None}
         /\ lease' \in Tasks \cup {Jobs, None}
         /\ cached' \in [RunIds -> Asks \cup {None}]
         /\ stored' \in [RunIds -> Rows] /\ saved' \in Seq(RunIds)
         /\ Knows
<1>1. TypeOK /\ Typed /\ RunInv /\ KnownInv
  BY TypeIs DEF AppInv
<1>2. Forgotten \in Cells /\ Forgotten.run = 0 /\ Forgotten.active = None
  BY DEF Forgotten, Cells
<1>3. /\ memory' \in [Tasks -> Cells]
      /\ \A p \in Tasks : /\ memory'[p].active \in {memory[p].active, None}
                          /\ memory'[p].run \in {0, memory[p].run}
  BY <1>1, <1>2 DEF Disposes, Typed
<1>4. /\ cached' \in [RunIds -> Asks \cup {None}]
      /\ stored' \in [RunIds -> Rows] /\ saved' \in Seq(RunIds)
      /\ \A i \in RunIds : /\ stored'[i].task \in {None, stored[i].task}
                           /\ stored'[i].locked => stored[i].locked
  <2>1. CASE RunOf(t) = 0
    BY <1>1, <2>1 DEF Disposes, Typed
  <2>2. CASE RunOf(t) # 0
    <3>1. PICK i \in RunIds : i = RunOf(t)
      BY <1>1, <2>2, RunOfIs
    <3>2. NotStored \in Rows /\ NotStored.task = None /\ ~NotStored.locked
      BY DEF NotStored, Rows
    <3>3. /\ stored' = [stored EXCEPT ![i] = NotStored] /\ saved' = Others(i)
          /\ cached' = [cached EXCEPT ![i] = None]
      BY <2>2, <3>1 DEF Disposes
    <3>4. saved' \in Seq(RunIds)
      BY <1>1, <3>3, OthersType
    <3> QED
      BY <1>1, <3>2, <3>3, <3>4 DEF Typed
  <2> QED
    BY <2>1, <2>2
<1>5. lease' \in Tasks \cup {Jobs, None}
  BY <1>1 DEF Disposes, Returned, Typed
<1>6. Knows
  BY <1>1, <1>3, <1>4 DEF Knows, RunsRemain, ReviewsStay, RunInv
<1> QED
  BY <1>3, <1>4, <1>5, <1>6

\* DELETE.
LEMMA DeleteStartGoes ==
  ASSUME AppInv, NEW r \in Requests, NEW t \in Tasks, DeleteStart(r, t)
  PROVE  Goes
<1>1. /\ UNCHANGED <<tasks, runs, crashes>> /\ Disposes(t)
      /\ queue' = Append(queue, r) /\ TypeOK /\ Typed
  BY TypeIs DEF DeleteStart, AppInv
<1>2. PICK x : x = Starts(r, "delete", t, "delete")
  OBVIOUS
<1>3. x \in Slots /\ x.op = "delete" /\ x.t = t /\ x.pc = "delete"
  BY <1>2 DEF Starts, Idle, Slots
<1>4. req' = [req EXCEPT ![r] = x]
  BY <1>2 DEF DeleteStart
<1>5. Queues(r, x) /\ req[r].pc \notin Leads
  BY <1>1, <1>3, FreeIs DEF Queues, AwaitsWorker, DeleteStart
<1>6. x.pc \notin Leads \cup {"join"} /\ ~Early(x)
  BY <1>3 DEF Leads, Early
<1>7. Moves(r, x)
  BY <1>1, <1>3, <1>4, <1>5, <1>6, DisposesTypes, SimpleMove
<1>8. Served
  BY <1>1, <1>3, <1>7 DEF Served, RunsRemain
<1>9. TypeOK'
  BY <1>1, <1>3, <1>4, DisposesTypes, QueueType, TypeIs DEF Typed
<1> QED
  BY <1>1, <1>8, <1>9, DisposesTypes DEF Goes

\* resume and answer_questions.
LEMMA ResumeStartGoes ==
  ASSUME AppInv, NEW r \in Requests, NEW t \in Tasks, NEW op \in {"resume", "answer"},
         ResumeStart(r, t, op)
  PROVE  Goes
<1>1. /\ UNCHANGED <<tasks, lease, stored, saved, queue, crashes>>
      /\ TypeOK /\ Typed /\ RunInv /\ KnownInv
  BY TypeIs DEF ResumeStart, AppInv
<1>2. PICK i \in RunIds : i = RunOf(t) /\ runs[i].status = "interrupted"
  BY <1>1, RunOfIs DEF ResumeStart
<1>3. runs[i] \in RunRecords /\ runs[i].ask \in Asks
  BY <1>1, <1>2 DEF Typed, RunInv, RunRecords
<1>4. PICK z : z = [runs[i] EXCEPT !.ask = None, !.live = Approves(runs[i].ask),
                      !.status = IF Approves(runs[i].ask) THEN "running" ELSE "failed"]
  OBVIOUS
<1>5. /\ runs' = [runs EXCEPT ![i] = z]
      /\ cached' = [cached EXCEPT ![i] = runs[i].ask]
      /\ memory' = [memory EXCEPT ![t].run = i]
      /\ req' = [req EXCEPT ![r] = [Starts(r, op, t, "runtime") EXCEPT !.run = i]]
  BY <1>2, <1>3, <1>4 DEF ResumeStart, RunRecords
<1>6. /\ z \in RunRecords /\ z.status \in {"running", "failed"}
      /\ AtReview(runs[i]) => AtReview(z) /\ ~z.live
  <2>1. Approves(runs[i].ask) \in BOOLEAN
    BY DEF Approves
  <2>2. /\ z \in RunRecords /\ z.status \in {"running", "failed"}
        /\ z.live = Approves(runs[i].ask)
        /\ z.status = IF Approves(runs[i].ask) THEN "running" ELSE "failed"
    BY <1>3, <1>4, <2>1 DEF RunRecords, Statuses, Ended
  <2>3. AtReview(runs[i]) => ~Approves(runs[i].ask)
    BY <1>2 DEF AtReview, Approves, Ended
  <2> QED
    BY <2>2, <2>3 DEF AtReview, Ended
<1>7. /\ memory' \in [Tasks -> Cells]
      /\ \A p \in Tasks : /\ memory'[p].active = memory[p].active
                          /\ memory'[p].run = IF p = t THEN i ELSE memory[p].run
  BY <1>1, <1>5, KnowsRun DEF Typed
<1>8. PICK y : y = Starts(r, op, t, "runtime")
  OBVIOUS
<1>9. y \in Slots /\ y.op = op /\ y.t = t /\ y.pc = "runtime"
  BY <1>8 DEF Starts, Idle, Slots
<1>10. PICK x : x = [y EXCEPT !.run = i]
  OBVIOUS
<1>11. x \in Slots /\ x.op = op /\ x.t = t /\ x.pc = "runtime" /\ x.run = i
  BY <1>9, <1>10 DEF Slots
<1>12. req' = [req EXCEPT ![r] = x]
  BY <1>5, <1>8, <1>10
<1>13. runs'[i] = z /\ \A j \in RunIds : j # i => runs'[j] = runs[j]
  BY <1>1, <1>5 DEF Typed
<1>14. RunsRemain /\ ReviewsStay
  BY <1>6, <1>13 DEF RunsRemain, ReviewsStay
<1>15. Moves(r, x)
  <2>1. Queues(r, x)
    BY <1>1, <1>11, FreeIs DEF Queues, AwaitsWorker, ResumeStart
  <2>2. NotLed(r)
    BY FreeIs DEF ResumeStart
  <2>3. \A p \in Tasks : memory'[p].active # r
    BY <1>7, <2>2 DEF NotLed
  <2> QED
    BY <1>6, <1>7, <1>11, <1>12, <1>13, <2>1, <2>2, <2>3 DEF Moves
<1>16. Served
  BY <1>11, <1>14, <1>15 DEF Served
<1>17. Knows
  BY <1>1, <1>6, <1>7, <1>13, <1>14 DEF Knows, RunInv
<1>18. runs' \in [RunIds -> RunRecords] /\ cached' \in [RunIds -> Asks \cup {None}]
  BY <1>1, <1>3, <1>5, <1>6 DEF Typed
<1>19. TypeOK'
  BY <1>1, <1>7, <1>11, <1>12, <1>18, TypeIs DEF Typed
<1> QED
  BY <1>16, <1>17, <1>19 DEF Goes

\* A cancellation.
LEMMA CancelsTypes ==
  ASSUME AppInv, NEW t \in Tasks, CancelsTask(t)
  PROVE  /\ tasks' \in [Tasks -> {"absent"} \cup Values]
         /\ lease' \in Tasks \cup {Jobs, None}
         /\ memory' \in [Tasks -> Cells]
         /\ \A p \in Tasks : memory'[p].active = memory[p].active
         /\ cached' \in [RunIds -> Asks \cup {None}]
         /\ runs' \in [RunIds -> RunRecords]
         /\ stored' \in [RunIds -> Rows] /\ saved' \in Seq(RunIds)
         /\ Knows
<1>1. TypeOK /\ Typed /\ RunInv /\ KnownInv
  BY TypeIs DEF AppInv
<1>2. CASE /\ RunOf(t) = 0
           /\ memory' = [memory EXCEPT ![t].fallback = "cancelled"]
           /\ lease' = Returned(t)
           /\ UNCHANGED <<tasks, cached, runs, stored, saved>>
  <2>1. "cancelled" \in {"none"} \cup Values
    BY DEF Values, Terminal
  <2>2. memory' \in [Tasks -> Cells] /\ Same(memory', memory)
    BY <1>1, <1>2, <2>1, ShowsTypes DEF Typed
  <2>3. Knows
    BY <1>1, <1>2, <2>2, SameRuns DEF Same
  <2> QED
    BY <1>1, <1>2, <2>2, <2>3 DEF Typed, Returned, Same
<1>3. ASSUME RunOf(t) # 0,
             runs' = [runs EXCEPT ![RunOf(t)] =
                        IF @.status \in Ended THEN @
                        ELSE [@ EXCEPT !.status = "cancelled", !.ask = None]],
             RememberResult(memory, runs', t, RunOf(t))
      PROVE  /\ tasks' \in [Tasks -> {"absent"} \cup Values]
             /\ lease' \in Tasks \cup {Jobs, None}
             /\ memory' \in [Tasks -> Cells]
             /\ \A p \in Tasks : memory'[p].active = memory[p].active
             /\ cached' \in [RunIds -> Asks \cup {None}]
             /\ runs' \in [RunIds -> RunRecords]
             /\ stored' \in [RunIds -> Rows] /\ saved' \in Seq(RunIds)
             /\ Knows
  <2>1. PICK i \in RunIds : i = RunOf(t)
    BY <1>1, <1>3, RunOfIs
  <2>2. runs[i] \in RunRecords
    BY <1>1 DEF Typed
  <2>3. PICK z : z = IF runs[i].status \in Ended THEN runs[i]
                     ELSE [runs[i] EXCEPT !.status = "cancelled", !.ask = None]
    OBVIOUS
  <2>4. /\ z \in RunRecords /\ z.status \in Ended /\ z.live = runs[i].live
    <3>1. PICK c : c = [runs[i] EXCEPT !.status = "cancelled", !.ask = None]
      OBVIOUS
    <3>2. c \in RunRecords /\ c.status = "cancelled" /\ c.live = runs[i].live
      BY <2>2, <3>1 DEF RunRecords, Statuses, Ended
    <3> QED
      BY <2>2, <2>3, <3>1, <3>2 DEF Ended
  <2>5. runs' = [runs EXCEPT ![i] = z]
    BY <1>3, <2>1, <2>3
  <2>6. runs' \in [RunIds -> RunRecords]
    BY <1>1, <2>4, <2>5 DEF Typed
  <2>7. runs'[i] = z /\ \A j \in RunIds : j # i => runs'[j] = runs[j]
    BY <1>1, <2>5 DEF Typed
  <2>8. PICK rs \in [RunIds -> RunRecords] : rs = runs'
    BY <2>6
  <2>9. /\ rs[i].status \in {"interrupted"} \cup Ended
        /\ rs[i].status = "interrupted" => rs[i].ask # None
    BY <2>4, <2>7, <2>8 DEF Ended
  <2>10. RememberResult(memory, rs, t, i)
    BY <1>3, <2>1, <2>8
  <2>11. memory \in [Tasks -> Cells]
    BY <1>1 DEF Typed
  <2>12. /\ memory' \in [Tasks -> Cells]
         /\ \A p \in Tasks : /\ memory'[p].active = memory[p].active
                             /\ memory'[p].run = IF p = t THEN i ELSE memory[p].run
         /\ tasks' \in [Tasks -> {"absent"} \cup Values]
         /\ lease' \in Tasks \cup {Jobs, None}
         /\ cached' \in [RunIds -> Asks \cup {None}]
         /\ stored' \in [RunIds -> Rows] /\ saved' \in Seq(RunIds)
         /\ stored'[i].task = t
         /\ stored'[i].locked => stored[i].locked \/ AtReview(rs[i])
         /\ \A j \in RunIds \ {i} : stored'[j] = stored[j]
    BY <1>1, <2>9, <2>10, <2>11, RememberTypes
  <2>13. RunsRemain /\ ReviewsStay
    BY <2>4, <2>7 DEF RunsRemain, ReviewsStay, AtReview, Ended
  <2>14. z.status # "none" /\ z.status # "interrupted"
    BY <2>4 DEF Ended
  <2>15. Knows
    BY <1>1, <2>7, <2>8, <2>12, <2>13, <2>14 DEF Knows, RunInv
  <2> QED
    BY <2>6, <2>12, <2>15
<1> QED
  BY <1>2, <1>3 DEF CancelsTask

\* The cancel command.
LEMMA CancelStartGoes ==
  ASSUME AppInv, NEW r \in Requests, NEW t \in Tasks, CancelStart(r, t)
  PROVE  Goes
<1>1. /\ UNCHANGED crashes /\ CancelsTask(t)
      /\ queue' = Append(queue, r) /\ TypeOK /\ Typed
  BY TypeIs DEF CancelStart, AppInv
<1>2. PICK x : x = Starts(r, "cancel", t, "release")
  OBVIOUS
<1>3. x \in Slots /\ x.op = "cancel" /\ x.t = t /\ x.pc = "release"
  BY <1>2 DEF Starts, Idle, Slots
<1>4. req' = [req EXCEPT ![r] = x]
  BY <1>2 DEF CancelStart
<1>5. Queues(r, x) /\ req[r].pc \notin Leads
  BY <1>1, <1>3, FreeIs DEF Queues, AwaitsWorker, CancelStart
<1>6. x.pc \notin Leads \cup {"join"} /\ ~Early(x)
  BY <1>3 DEF Leads, Early
<1>7. Moves(r, x)
  BY <1>1, <1>3, <1>4, <1>5, <1>6, CancelsTypes, SimpleMove
<1>8. Served
  BY <1>1, <1>3, <1>7, CancelsTypes DEF Served, Knows
<1>9. TypeOK'
  BY <1>1, <1>3, <1>4, CancelsTypes, QueueType, TypeIs DEF Typed
<1> QED
  BY <1>1, <1>8, <1>9, CancelsTypes DEF Goes

-----------------------------------------------------------------------------
(* runUntilPause begins.                                                   *)

\* The request z joins its task's leader, or leads it and awaits the worker.
LEMMA EntersMoves ==
  ASSUME AppInv, NEW r \in Requests, NEW z \in Slots, z.t \in Tasks, NEW q \in Seq(Requests),
         req[r].pc \notin Leads, EnterRun(r, z, q),
         ~ (z.op = "answer" /\ ~z.again),
         \/ req[r].pc \notin AwaitsWorker /\ q = queue
         \/ req[r].pc \in AwaitsWorker /\ Head(queue) = r /\ q = Tail(queue)
  PROVE  /\ \E x \in Slots : Moves(r, x)
         /\ req' \in [Requests -> Slots] /\ queue' \in Seq(Requests)
         /\ memory' \in [Tasks -> Cells]
         /\ \A t \in Tasks : memory'[t].run = memory[t].run
<1> DEFINE t == z.t
<1>1. /\ req \in [Requests -> Slots] /\ memory \in [Tasks -> Cells] /\ NotLed(r)
  BY TypeIs, LeadsOrFree DEF AppInv, Typed
<1>2. memory[t] \in Cells /\ memory[t].active \in Requests \cup {None}
  BY <1>1 DEF Cells
<1>3. CASE memory[t].active # None
  <2>1. PICK x : x = [z EXCEPT !.pc = "join", !.leader = memory[t].active]
    OBVIOUS
  <2>2. /\ x \in Slots /\ x.pc = "join" /\ x.leader = memory[t].active /\ x.t = t
        /\ x.op = z.op /\ x.again = z.again
    BY <1>2, <2>1 DEF Slots
  <2>3. req' = [req EXCEPT ![r] = x] /\ queue' = q /\ memory' = memory
    BY <1>3, <2>1 DEF EnterRun
  <2>4. Queues(r, x)
    BY <2>2, <2>3 DEF Queues, AwaitsWorker
  <2>5. Moves(r, x)
    BY <1>1, <1>3, <2>2, <2>3, <2>4 DEF Moves, Early
  <2> QED
    BY <1>1, <2>2, <2>3, <2>5
<1>4. CASE memory[t].active = None
  <2>1. PICK x : x = [z EXCEPT !.pc = "observe"]
    OBVIOUS
  <2>2. x \in Slots /\ x.pc = "observe" /\ x.t = t /\ x.op = z.op /\ x.again = z.again
    BY <2>1 DEF Slots
  <2>3. /\ req' = [req EXCEPT ![r] = x] /\ queue' = Append(q, r)
        /\ memory' = [memory EXCEPT ![t].active = r]
    BY <1>4, <2>1 DEF EnterRun
  <2>4. Queues(r, x)
    BY <2>2, <2>3 DEF Queues, AwaitsWorker
  <2>5. PICK c : c = [memory[t] EXCEPT !.active = r]
    OBVIOUS
  <2>6. c \in Cells /\ c.run = memory[t].run /\ c.active = r
    BY <1>2, <2>5 DEF Cells
  <2>7. memory' = [memory EXCEPT ![t] = c]
    BY <2>3, <2>5
  <2>8. /\ memory' \in [Tasks -> Cells]
        /\ \A p \in Tasks : /\ memory'[p].run = memory[p].run
                            /\ memory'[p].active = IF p = t THEN r ELSE memory[p].active
    BY <1>1, <2>6, <2>7
  <2>9. x.pc \in Leads
    BY <2>2 DEF Leads
  <2>10. Moves(r, x)
    BY <1>1, <2>2, <2>3, <2>4, <2>8, <2>9 DEF Moves, Early
  <2> QED
    BY <1>1, <2>2, <2>3, <2>8, <2>10, AppendProperties
<1> QED
  BY <1>3, <1>4

\* An activity of the worker.
LEMMA PageStableGoes ==
  ASSUME AppInv, NEW r \in Requests, NEW t \in Tasks, PageStable(r, t)
  PROVE  Goes
<1>1. /\ UNCHANGED <<tasks, lease, cached, runs, stored, saved, crashes>>
      /\ TypeOK /\ Typed /\ RunInv
  BY TypeIs DEF PageStable, AppInv
<1>2. PICK z : z = Starts(r, "activity", t, "enter")
  OBVIOUS
<1>3. z \in Slots /\ z.op = "activity" /\ z.t = t
  BY <1>2 DEF Starts, Idle, Slots
<1>4. EnterRun(r, z, queue) /\ queue \in Seq(Requests)
  BY <1>1, <1>2 DEF PageStable, Typed
<1>5. req[r].pc \notin Leads /\ req[r].pc \notin AwaitsWorker
  BY FreeIs DEF PageStable
<1>6. /\ \E x \in Slots : Moves(r, x)
      /\ req' \in [Requests -> Slots] /\ queue' \in Seq(Requests)
      /\ memory' \in [Tasks -> Cells]
      /\ \A p \in Tasks : memory'[p].run = memory[p].run
  BY <1>3, <1>4, <1>5, EntersMoves
<1>7. Served
  BY <1>1, <1>6 DEF Served, RunsRemain
<1>8. Knows
  BY <1>1, <1>6, SameRuns
<1>9. TypeOK'
  BY <1>1, <1>6, TypeIs DEF Typed
<1> QED
  BY <1>7, <1>8, <1>9 DEF Goes

\* A request returns, or is undone.
LEMMA AfterMoves ==
  ASSUME AppInv, NEW r \in Requests, req[r].pc # "idle", req[r].pc \notin Leads,
         NEW ok \in BOOLEAN, req' = [req EXCEPT ![r] = After(r, ok)],
         \/ req[r].pc \notin AwaitsWorker /\ queue' = queue
         \/ req[r].pc \in AwaitsWorker /\ Head(queue) = r /\ queue' = Tail(queue),
         \A t \in Tasks : memory'[t].active = memory[t].active
  PROVE  (\E x \in Slots : Moves(r, x)) /\ req' \in [Requests -> Slots]
<1>1. PICK x : x = After(r, ok)
  OBVIOUS
<1>2. /\ x \in Slots /\ x.pc \in {"idle", "undo"}
      /\ x.pc # "idle" => x.t \in Tasks
      /\ ~Early(x)
  BY <1>1, AfterIs DEF AppInv
<1>3. x.pc \notin Leads \cup {"join"} /\ x.pc \notin AwaitsWorker
  BY <1>2 DEF Leads, AwaitsWorker
<1>4. Queues(r, x)
  BY <1>3 DEF Queues
<1>5. Moves(r, x)
  BY <1>1, <1>2, <1>3, <1>4, SimpleMove
<1>6. req' \in [Requests -> Slots]
  BY <1>1, <1>2, TypeIs DEF AppInv, Typed
<1> QED
  BY <1>2, <1>5, <1>6

\* The second half of answer_questions.
LEMMA EnterAgainGoes ==
  ASSUME AppInv, NEW r \in Requests, EnterAgain(r)
  PROVE  Goes
<1>1. /\ UNCHANGED <<tasks, lease, cached, runs, stored, saved, crashes>>
      /\ TypeOK /\ Typed /\ RunInv /\ req[r].pc = "enter"
  BY TypeIs DEF EnterAgain, AppInv
<1>2. req[r] \in Slots /\ req[r].t \in Tasks
  BY <1>1 DEF Typed, AppInv, TargetInv
<1>3. req[r].pc \notin Leads /\ req[r].pc \notin AwaitsWorker /\ req[r].pc # "idle"
  BY <1>1 DEF Leads, AwaitsWorker
<1>4. ~ (req[r].op = "answer" /\ ~req[r].again)
  BY <1>1, NotEarly
<1>5. /\ \E x \in Slots : Moves(r, x)
      /\ req' \in [Requests -> Slots] /\ queue' \in Seq(Requests)
      /\ memory' \in [Tasks -> Cells]
      /\ \A p \in Tasks : memory'[p].run = memory[p].run
  <2>1. CASE CannotEnter(req[r].t)
    <3>1. req' = [req EXCEPT ![r] = After(r, FALSE)] /\ UNCHANGED <<memory, queue>>
      BY <2>1 DEF EnterAgain
    <3>2. (\E x \in Slots : Moves(r, x)) /\ req' \in [Requests -> Slots]
      BY <1>3, <3>1, AfterMoves
    <3> QED
      BY <1>1, <3>1, <3>2 DEF Typed
  <2>2. CASE ~CannotEnter(req[r].t)
    <3>1. EnterRun(r, req[r], queue) /\ queue \in Seq(Requests)
      BY <1>1, <2>2 DEF EnterAgain, Typed
    <3> QED
      BY <1>2, <1>3, <1>4, <3>1, EntersMoves
  <2> QED
    BY <2>1, <2>2
<1>6. Served
  BY <1>1, <1>5 DEF Served, RunsRemain
<1>7. Knows
  BY <1>1, <1>5, SameRuns
<1>8. TypeOK'
  BY <1>1, <1>5, TypeIs DEF Typed
<1> QED
  BY <1>6, <1>7, <1>8 DEF Goes

\* The page opens.
LEMMA OpenedGoes ==
  ASSUME AppInv, NEW r \in Requests, Opened(r)
  PROVE  Goes
<1>1. /\ UNCHANGED <<lease, cached, runs, stored, saved, crashes>>
      /\ TypeOK /\ Typed /\ RunInv /\ req[r].pc = "open" /\ Head(queue) = r
  BY TypeIs DEF Opened, Answered, AppInv
<1>2. req[r] \in Slots /\ req[r].t \in Tasks
  BY <1>1 DEF Typed, AppInv, TargetInv
<1>3. req[r].pc \notin Leads /\ req[r].pc \in AwaitsWorker /\ req[r].pc # "idle"
  BY <1>1 DEF Leads, AwaitsWorker
<1>4. ~ (req[r].op = "answer" /\ ~req[r].again)
  BY <1>1, NotEarly
<1>5. Tail(queue) \in Seq(Requests)
  BY <1>1, QueueType DEF Opened, AwaitsWorker
<1>6. /\ \E x \in Slots : Moves(r, x)
      /\ req' \in [Requests -> Slots] /\ queue' \in Seq(Requests)
      /\ memory' \in [Tasks -> Cells]
      /\ \A p \in Tasks : memory'[p].run = memory[p].run
      /\ tasks' = tasks \/ Emits({r}, req[r].t)
  <2>1. ASSUME NEW ok \in BOOLEAN,
               req' = [req EXCEPT ![r] = After(r, ok)], queue' = Tail(queue), memory' = memory
        PROVE  /\ \E x \in Slots : Moves(r, x)
               /\ req' \in [Requests -> Slots] /\ queue' \in Seq(Requests)
               /\ memory' \in [Tasks -> Cells]
               /\ \A p \in Tasks : memory'[p].run = memory[p].run
    <3>1. (\E x \in Slots : Moves(r, x)) /\ req' \in [Requests -> Slots]
      BY <1>1, <1>3, <2>1, AfterMoves
    <3> QED
      BY <1>1, <1>5, <2>1, <3>1 DEF Typed
  <2>2. CASE req[r].op = "open" /\ (~Exists(req[r].t) \/ Value(memory, req[r].t) # "observing")
    <3>1. /\ req' = [req EXCEPT ![r] = After(r, Exists(req[r].t))] /\ queue' = Tail(queue)
          /\ memory' = memory /\ Emits({r}, req[r].t)
      BY <2>2 DEF Opened
    <3>2. Exists(req[r].t) \in BOOLEAN
      BY DEF Exists
    <3> QED
      BY <2>1, <3>1, <3>2
  <2>3. CASE /\ ~ (/\ req[r].op = "open"
                   /\ ~Exists(req[r].t) \/ Value(memory, req[r].t) # "observing")
             /\ CannotEnter(req[r].t)
    <3>1. /\ req' = [req EXCEPT ![r] = After(r, FALSE)] /\ queue' = Tail(queue)
          /\ memory' = memory /\ tasks' = tasks
      BY <2>3 DEF Opened
    <3> QED
      BY <2>1, <3>1
  <2>4. CASE /\ ~ (/\ req[r].op = "open"
                   /\ ~Exists(req[r].t) \/ Value(memory, req[r].t) # "observing")
             /\ ~CannotEnter(req[r].t)
    <3>1. PICK z : z = [req[r] EXCEPT !.reserved = FALSE]
      OBVIOUS
    <3>2. z \in Slots /\ z.t = req[r].t /\ z.op = req[r].op /\ z.again = req[r].again
      BY <1>2, <3>1 DEF Slots
    <3>3. EnterRun(r, z, Tail(queue)) /\ tasks' = tasks
      BY <2>4, <3>1 DEF Opened
    <3> QED
      BY <1>1, <1>2, <1>3, <1>4, <1>5, <3>2, <3>3, EntersMoves
  <2> QED
    BY <2>2, <2>3, <2>4
<1>7. Served
  BY <1>1, <1>6 DEF Served, RunsRemain
<1>8. Knows
  BY <1>1, <1>6, SameRuns
<1>9. tasks' \in [Tasks -> {"absent"} \cup Values]
  BY <1>1, <1>2, <1>6, EmitsTypes DEF Typed
<1>10. TypeOK'
  BY <1>1, <1>6, <1>9, TypeIs DEF Typed
<1> QED
  BY <1>7, <1>8, <1>10 DEF Goes

-----------------------------------------------------------------------------
(* Awaits end.                                                             *)

\* A request that leads nobody returns.
LEMMA IdleMoves ==
  ASSUME AppInv, NEW r \in Requests, req[r].pc \notin Leads, req' = [req EXCEPT ![r] = Idle],
         \/ req[r].pc \notin AwaitsWorker /\ queue' = queue
         \/ req[r].pc \in AwaitsWorker /\ Head(queue) = r /\ queue' = Tail(queue),
         \A t \in Tasks : memory'[t].active \in {memory[t].active, None}
  PROVE  (\E x \in Slots : Moves(r, x)) /\ req' \in [Requests -> Slots]
<1>1. PICK x : x = Idle
  OBVIOUS
<1>2. x \in Slots /\ x.pc = "idle" /\ ~Early(x)
  BY <1>1 DEF Idle, Slots, Early
<1>3. x.pc \notin Leads \cup {"join"} /\ x.pc \notin AwaitsWorker
  BY <1>2 DEF Leads, AwaitsWorker
<1>4. Queues(r, x)
  BY <1>3 DEF Queues
<1>5. Moves(r, x)
  BY <1>1, <1>2, <1>3, <1>4, SimpleMove
<1>6. req' \in [Requests -> Slots]
  BY <1>1, <1>2, TypeIs DEF AppInv, Typed
<1> QED
  BY <1>2, <1>5, <1>6

\* A request that leads nobody goes on to wait for something else.
LEMMA PcMoves ==
  ASSUME AppInv, NEW r \in Requests, req[r].pc \notin Leads \cup {"idle"},
         NEW pc \in {"release", "delete", "reviewing"}, req' = [req EXCEPT ![r].pc = pc],
         \/ req[r].pc \notin AwaitsWorker /\ pc \in AwaitsWorker /\ queue' = Append(queue, r)
         \/ /\ req[r].pc \in AwaitsWorker /\ Head(queue) = r
            /\ pc \notin AwaitsWorker /\ queue' = Tail(queue)
         \/ /\ req[r].pc \in AwaitsWorker /\ Head(queue) = r
            /\ pc \in AwaitsWorker /\ queue' = Append(Tail(queue), r),
         \A t \in Tasks : memory'[t].active \in {memory[t].active, None}
  PROVE  (\E x \in Slots : Moves(r, x)) /\ req' \in [Requests -> Slots]
<1>1. TypeOK /\ req \in [Requests -> Slots] /\ req[r].t \in Tasks
  BY TypeIs DEF AppInv, Typed, TargetInv
<1>2. PICK x \in Slots : /\ x.pc = pc /\ x.op = req[r].op /\ x.t = req[r].t
                         /\ x.again = req[r].again
                         /\ req' = [req EXCEPT ![r] = x]
  <2>1. pc \in {"prepare", "release", "delete", "reviewing", "seeded"}
    OBVIOUS
  <2>2. \E x \in Slots : /\ x.pc = pc /\ x.op = req[r].op /\ x.t = req[r].t
                         /\ x.again = req[r].again
                         /\ [req EXCEPT ![r].pc = pc] = [req EXCEPT ![r] = x]
    BY <1>1, <2>1, PcTo
  <2> QED
    BY <2>2
<1>3. x.pc \notin Leads \cup {"join"} /\ x.t \in Tasks
  BY <1>1, <1>2 DEF Leads
<1>4. ~Early(x)
  BY <1>2, NotEarly DEF Early, Leads
<1>5. Queues(r, x)
  BY <1>2 DEF Queues
<1>6. Moves(r, x)
  BY <1>2, <1>3, <1>4, <1>5, SimpleMove
<1> QED
  BY <1>1, <1>2, <1>6

\* The page has drifted.
LEMMA DriftsGoes ==
  ASSUME AppInv, NEW r \in Requests, Drifts(r)
  PROVE  Goes
<1>1. /\ UNCHANGED <<tasks, lease, memory, cached, runs, stored, saved, crashes>>
      /\ queue' = Tail(queue) /\ req[r].pc = "observe" /\ Head(queue) = r
      /\ req' = [req EXCEPT ![r].pc = "prepare"]
      /\ TypeOK /\ Typed /\ RunInv
  BY TypeIs DEF Drifts, Answered, AppInv
<1>2. PICK x \in Slots : /\ x.pc = "prepare" /\ x.op = req[r].op /\ x.t = req[r].t
                         /\ x.again = req[r].again
                         /\ req' = [req EXCEPT ![r] = x]
  <2>1. TypeOK /\ "prepare" \in {"prepare", "release", "delete", "reviewing", "seeded"}
    BY <1>1
  <2>2. \E x \in Slots : /\ x.pc = "prepare" /\ x.op = req[r].op /\ x.t = req[r].t
                         /\ x.again = req[r].again
                         /\ [req EXCEPT ![r].pc = "prepare"] = [req EXCEPT ![r] = x]
    BY <2>1, PcTo
  <2> QED
    BY <1>1, <2>2
<1>3. Queues(r, x)
  BY <1>1, <1>2 DEF Queues, AwaitsWorker
<1>4. x.t \in Tasks /\ x.pc \in Leads /\ ~Early(x)
  BY <1>1, <1>2, NotEarly DEF AppInv, TargetInv, Leads, Early
<1>5. Moves(r, x)
  BY <1>1, <1>2, <1>3, <1>4 DEF Moves
<1>6. Served
  BY <1>1, <1>5 DEF Served, RunsRemain
<1>7. Knows
  BY <1>1, SameRuns
<1>8. Tail(queue) \in Seq(Requests)
  BY QueueType DEF Drifts, AwaitsWorker
<1>9. TypeOK'
  BY <1>1, <1>2, <1>8, TypeIs DEF Typed
<1> QED
  BY <1>6, <1>7, <1>9 DEF Goes

\* The certification of the adapter fails.
LEMMA CertifyFailsGoes ==
  ASSUME AppInv, NEW r \in Requests, CertifyFails(r)
  PROVE  Goes
<1>1. /\ UNCHANGED <<tasks, lease, memory, cached, runs, stored, saved, crashes>>
      /\ queue' = Tail(queue) /\ req[r].pc = "certify" /\ Head(queue) = r
      /\ req' = [req EXCEPT ![r] = Idle]
      /\ TypeOK /\ Typed /\ RunInv
  BY TypeIs DEF CertifyFails, Answered, AppInv
<1>2. (\E x \in Slots : Moves(r, x)) /\ req' \in [Requests -> Slots]
  BY <1>1, IdleMoves DEF Leads, AwaitsWorker
<1>3. Served
  BY <1>1, <1>2 DEF Served, RunsRemain
<1>4. Knows
  BY <1>1, SameRuns
<1>5. Tail(queue) \in Seq(Requests)
  BY QueueType DEF CertifyFails, AwaitsWorker
<1>6. TypeOK'
  BY <1>1, <1>2, <1>5, TypeIs DEF Typed
<1> QED
  BY <1>3, <1>4, <1>6 DEF Goes

\* The page still drifts.
LEMMA DriftsAgainGoes ==
  ASSUME AppInv, NEW r \in Requests, DriftsAgain(r)
  PROVE  Goes
<1>1. /\ UNCHANGED <<tasks, lease, memory, cached, runs, stored, saved, crashes>>
      /\ queue' = Tail(queue) /\ req[r].pc = "certify" /\ Head(queue) = r
      /\ req' = [req EXCEPT ![r].pc = "reviewing"]
      /\ TypeOK /\ Typed /\ RunInv
  BY TypeIs DEF DriftsAgain, Answered, AppInv
<1>2. (\E x \in Slots : Moves(r, x)) /\ req' \in [Requests -> Slots]
  BY <1>1, PcMoves DEF Leads, AwaitsWorker
<1>3. Served
  BY <1>1, <1>2 DEF Served, RunsRemain
<1>4. Knows
  BY <1>1, SameRuns
<1>5. Tail(queue) \in Seq(Requests)
  BY QueueType DEF DriftsAgain, AwaitsWorker
<1>6. TypeOK'
  BY <1>1, <1>2, <1>5, TypeIs DEF Typed
<1> QED
  BY <1>3, <1>4, <1>6 DEF Goes

\* It is published again.
LEMMA StillDriftsGoes ==
  ASSUME AppInv, NEW r \in Requests, StillDrifts(r)
  PROVE  Goes
<1>1. /\ UNCHANGED <<cached, runs, stored, saved, queue, crashes>>
      /\ req[r].pc = "reviewing" /\ Publish(memory, req[r].t, "awaiting_adapter_review")
      /\ req' = [req EXCEPT ![r] = Idle]
      /\ TypeOK /\ Typed /\ RunInv
  BY TypeIs DEF StillDrifts, AppInv
<1>2. "awaiting_adapter_review" \in Values /\ req[r].t \in Tasks /\ memory \in [Tasks -> Cells]
  BY <1>1 DEF Values, AppInv, TargetInv, Typed
<1>3. /\ memory' \in [Tasks -> Cells] /\ Same(memory', memory)
      /\ tasks' \in [Tasks -> {"absent"} \cup Values]
      /\ lease' \in Tasks \cup {Jobs, None}
  BY <1>1, <1>2, PublishTypes
<1>4. (\E x \in Slots : Moves(r, x)) /\ req' \in [Requests -> Slots]
  BY <1>1, <1>3, IdleMoves DEF Leads, AwaitsWorker, Same
<1>5. Served
  BY <1>1, <1>4 DEF Served, RunsRemain
<1>6. Knows
  BY <1>1, <1>3, SameRuns DEF Same
<1>7. TypeOK'
  BY <1>1, <1>3, <1>4, TypeIs DEF Typed
<1> QED
  BY <1>5, <1>6, <1>7 DEF Goes

\* The page matches a certified pack.
LEMMA CertifiedGoes ==
  ASSUME AppInv, NEW r \in Requests, Certified(r)
  PROVE  Goes
<1>1. /\ UNCHANGED <<tasks, cached, runs, stored, saved, crashes>>
      /\ req[r].pc = "certify" /\ Head(queue) = r /\ queue' = Tail(queue)
      /\ TypeOK /\ Typed /\ RunInv
  BY TypeIs DEF Certified, Answered, AppInv
<1>2. PICK t \in Tasks : t = req[r].t
  BY <1>1 DEF AppInv, TargetInv
<1>3. PICK m : m = [memory EXCEPT ![t].snapshot = "none", ![t].fallback = "observing"]
  OBVIOUS
<1>4. m \in [Tasks -> Cells] /\ Same(m, memory)
  <2>1. "none" \in {"none"} \cup Values /\ "observing" \in {"none"} \cup Values
    BY DEF Values
  <2> QED
    BY <1>1, <1>3, <2>1, ShowsTypes DEF Typed
<1>5. m[t] \in Cells /\ m[t].active = memory[t].active
  BY <1>4 DEF Same
<1>6. /\ req[r].pc \notin Leads /\ req[r].pc \in AwaitsWorker /\ NotLed(r)
      /\ req[r] \in Slots /\ ~ (req[r].op = "answer" /\ ~req[r].again)
  BY <1>1, LeadsOrFree, NotEarly DEF AppInv, Typed, Leads, AwaitsWorker
<1>7. /\ \E x \in Slots : Moves(r, x)
      /\ req' \in [Requests -> Slots]
      /\ memory' \in [Tasks -> Cells]
      /\ \A p \in Tasks : memory'[p].run = memory[p].run
      /\ lease' \in Tasks \cup {Jobs, None}
  <2>1. CASE m[t].active # None
    <3>1. /\ req' = [req EXCEPT ![r].pc = "join", ![r].leader = m[t].active]
          /\ memory' = m /\ lease' = lease
      BY <1>2, <1>3, <2>1 DEF Certified
    <3>2. PICK x : x = [req[r] EXCEPT !.pc = "join", !.leader = m[t].active]
      OBVIOUS
    <3>3. /\ x \in Slots /\ x.pc = "join" /\ x.leader = memory[t].active /\ x.t = t
          /\ x.op = req[r].op /\ x.again = req[r].again
      BY <1>2, <1>5, <1>6, <3>2 DEF Slots, Cells
    <3>4. req' = [req EXCEPT ![r] = x]
      BY <1>6, <3>1, <3>2 DEF Slots
    <3>5. Queues(r, x) /\ ~Early(x)
      BY <1>1, <1>6, <3>3 DEF Queues, AwaitsWorker, Early
    <3>6. Moves(r, x)
      BY <1>4, <1>5, <1>6, <2>1, <3>1, <3>3, <3>4, <3>5 DEF Moves, Same
    <3> QED
      BY <1>1, <1>4, <3>1, <3>3, <3>4, <3>6 DEF Typed, Same
  <2>2. CASE m[t].active = None /\ Exists(t) /\ lease \in {None, t}
    <3>1. /\ req' = [req EXCEPT ![r].pc = "seeded"]
          /\ memory' = [m EXCEPT ![t].active = r] /\ lease' = t
      BY <1>2, <1>3, <2>2 DEF Certified
    <3>2. PICK x \in Slots : /\ x.pc = "seeded" /\ x.op = req[r].op /\ x.t = req[r].t
                             /\ x.again = req[r].again
                             /\ req' = [req EXCEPT ![r] = x]
      <4>1. TypeOK /\ "seeded" \in {"prepare", "release", "delete", "reviewing", "seeded"}
        BY <1>1
      <4>2. \E x \in Slots : /\ x.pc = "seeded" /\ x.op = req[r].op /\ x.t = req[r].t
                             /\ x.again = req[r].again
                             /\ [req EXCEPT ![r].pc = "seeded"] = [req EXCEPT ![r] = x]
        BY <4>1, PcTo
      <4> QED
        BY <3>1, <4>2
    <3>3. Queues(r, x) /\ ~Early(x) /\ x.pc \in Leads
      BY <1>1, <1>6, <3>2 DEF Queues, AwaitsWorker, Early, Leads
    <3>4. PICK c : c = [m[t] EXCEPT !.active = r]
      OBVIOUS
    <3>5. c \in Cells /\ c.run = m[t].run /\ c.active = r
      BY <1>5, <3>4 DEF Cells
    <3>6. memory' = [m EXCEPT ![t] = c]
      BY <3>1, <3>4
    <3>7. /\ memory' \in [Tasks -> Cells]
          /\ \A p \in Tasks : /\ memory'[p].run = memory[p].run
                              /\ memory'[p].active = IF p = t THEN r ELSE memory[p].active
      BY <1>4, <3>5, <3>6 DEF Same
    <3>8. Moves(r, x)
      BY <1>2, <1>6, <3>2, <3>3, <3>7 DEF Moves
    <3> QED
      BY <1>1, <3>1, <3>2, <3>7, <3>8 DEF Typed
  <2>3. CASE m[t].active = None /\ ~ (Exists(t) /\ lease \in {None, t})
    <3>1. req' = [req EXCEPT ![r] = Idle] /\ memory' = m /\ lease' = lease
      BY <1>2, <1>3, <2>3 DEF Certified
    <3>2. (\E x \in Slots : Moves(r, x)) /\ req' \in [Requests -> Slots]
      BY <1>1, <1>4, <1>6, <3>1, IdleMoves DEF Same
    <3> QED
      BY <1>1, <1>4, <3>1, <3>2 DEF Same, Typed
  <2> QED
    BY <2>1, <2>2, <2>3
<1>8. Served
  BY <1>1, <1>7 DEF Served, RunsRemain
<1>9. Knows
  BY <1>1, <1>7, SameRuns
<1>10. Tail(queue) \in Seq(Requests)
  BY QueueType DEF Certified, AwaitsWorker
<1>11. TypeOK'
  BY <1>1, <1>7, <1>10, TypeIs DEF Typed
<1> QED
  BY <1>8, <1>9, <1>11 DEF Goes

\* The page does not open.
LEMMA OpenFailsGoes ==
  ASSUME AppInv, NEW r \in Requests, OpenFails(r)
  PROVE  Goes
<1>1. /\ UNCHANGED <<tasks, memory, cached, runs, stored, saved, crashes>>
      /\ queue' = Tail(queue) /\ req[r].pc = "open" /\ Head(queue) = r
      /\ req' = [req EXCEPT ![r] = After(r, FALSE)]
      /\ TypeOK /\ Typed /\ RunInv
  BY TypeIs DEF OpenFails, Answered, AppInv
<1>2. (\E x \in Slots : Moves(r, x)) /\ req' \in [Requests -> Slots]
  BY <1>1, AfterMoves DEF Leads, AwaitsWorker
<1>3. Served
  BY <1>1, <1>2 DEF Served, RunsRemain
<1>4. Knows
  BY <1>1, SameRuns
<1>5. Tail(queue) \in Seq(Requests)
  BY QueueType DEF OpenFails, AwaitsWorker
<1>6. lease' \in Tasks \cup {Jobs, None}
  BY <1>1 DEF OpenFails, Returned, Typed
<1>7. TypeOK'
  BY <1>1, <1>2, <1>5, <1>6, TypeIs DEF Typed
<1> QED
  BY <1>3, <1>4, <1>7 DEF Goes

\* A failed POST is undone.
LEMMA UndoGoes ==
  ASSUME AppInv, NEW r \in Requests, Undo(r)
  PROVE  Goes
<1>1. /\ UNCHANGED crashes /\ req[r].pc = "undo" /\ req' = [req EXCEPT ![r].pc = "release"]
      /\ queue' = Append(queue, r) /\ TypeOK /\ Typed /\ RunInv
  BY TypeIs DEF Undo, AppInv
<1>2. /\ tasks' \in [Tasks -> {"absent"} \cup Values]
      /\ lease' \in Tasks \cup {Jobs, None}
      /\ memory' \in [Tasks -> Cells]
      /\ \A p \in Tasks : memory'[p].active = memory[p].active
      /\ cached' \in [RunIds -> Asks \cup {None}]
      /\ runs' \in [RunIds -> RunRecords]
      /\ stored' \in [RunIds -> Rows] /\ saved' \in Seq(RunIds)
      /\ Knows
  <2>1. CASE Exists(req[r].t)
    <3>1. req[r].t \in Tasks /\ CancelsTask(req[r].t)
      BY <1>1, <2>1 DEF Undo, AppInv, TargetInv
    <3> QED
      BY <3>1, CancelsTypes
  <2>2. CASE ~Exists(req[r].t)
    <3>1. UNCHANGED <<tasks, lease, memory, cached, runs, stored, saved>>
      BY <2>2 DEF Undo
    <3>2. Knows
      BY <1>1, <3>1, SameRuns
    <3> QED
      BY <1>1, <3>1, <3>2 DEF Typed
  <2> QED
    BY <2>1, <2>2
<1>3. (\E x \in Slots : Moves(r, x)) /\ req' \in [Requests -> Slots]
  BY <1>1, <1>2, PcMoves DEF Leads, AwaitsWorker
<1>4. Served
  BY <1>2, <1>3 DEF Served, Knows
<1>5. TypeOK'
  BY <1>1, <1>2, <1>3, QueueType, TypeIs DEF Typed
<1> QED
  BY <1>2, <1>4, <1>5 DEF Goes

\* The page is closed.
LEMMA ReleasedGoes ==
  ASSUME AppInv, NEW r \in Requests, Released(r)
  PROVE  Goes
<1>1. /\ UNCHANGED <<runs, crashes>> /\ req[r].pc = "release" /\ Head(queue) = r
      /\ TypeOK /\ Typed /\ RunInv /\ req[r].t \in Tasks
  BY TypeIs DEF Released, Answered, AppInv, TargetInv
<1>2. Tail(queue) \in Seq(Requests) /\ Append(Tail(queue), r) \in Seq(Requests)
  BY QueueType DEF Released, AwaitsWorker
<1>3. CASE req[r].op = "create" /\ Exists(req[r].t)
  <2>1. /\ Disposes(req[r].t) /\ queue' = Append(Tail(queue), r)
        /\ req' = [req EXCEPT ![r].pc = "delete"] /\ tasks' = tasks
    BY <1>3 DEF Released
  <2>2. /\ memory' \in [Tasks -> Cells]
        /\ \A p \in Tasks : memory'[p].active \in {memory[p].active, None}
        /\ lease' \in Tasks \cup {Jobs, None}
        /\ cached' \in [RunIds -> Asks \cup {None}]
        /\ stored' \in [RunIds -> Rows] /\ saved' \in Seq(RunIds)
        /\ Knows
    BY <1>1, <2>1, DisposesTypes
  <2>3. (\E x \in Slots : Moves(r, x)) /\ req' \in [Requests -> Slots]
    BY <1>1, <2>1, <2>2, PcMoves DEF Leads, AwaitsWorker
  <2>4. Served
    BY <2>2, <2>3 DEF Served, Knows
  <2>5. TypeOK'
    BY <1>1, <1>2, <2>1, <2>2, <2>3, TypeIs DEF Typed
  <2> QED
    BY <2>2, <2>4, <2>5 DEF Goes
<1>4. CASE ~ (req[r].op = "create" /\ Exists(req[r].t))
  <2>1. /\ req' = [req EXCEPT ![r] = Idle] /\ queue' = Tail(queue)
        /\ UNCHANGED <<lease, memory, cached, stored, saved>>
        /\ Emits({r}, req[r].t)
    BY <1>4 DEF Released
  <2>2. tasks' \in [Tasks -> {"absent"} \cup Values]
    BY <1>1, <2>1, EmitsTypes DEF Typed
  <2>3. (\E x \in Slots : Moves(r, x)) /\ req' \in [Requests -> Slots]
    BY <1>1, <2>1, IdleMoves DEF Leads, AwaitsWorker
  <2>4. Served
    BY <1>1, <2>3 DEF Served, RunsRemain
  <2>5. Knows
    BY <1>1, <2>1, SameRuns
  <2>6. TypeOK'
    BY <1>1, <1>2, <2>1, <2>2, <2>3, TypeIs DEF Typed
  <2> QED
    BY <2>4, <2>5, <2>6 DEF Goes
<1> QED
  BY <1>3, <1>4

\* The row goes.
LEMMA DeletedGoes ==
  ASSUME AppInv, NEW r \in Requests, Deleted(r)
  PROVE  Goes
<1>1. /\ UNCHANGED <<lease, memory, cached, runs, stored, saved, crashes>>
      /\ queue' = Tail(queue) /\ req[r].pc = "delete" /\ Head(queue) = r
      /\ tasks' = [tasks EXCEPT ![req[r].t] = "absent"]
      /\ req' = [req EXCEPT ![r] = Idle]
      /\ TypeOK /\ Typed /\ RunInv
  BY TypeIs DEF Deleted, Answered, AppInv
<1>2. (\E x \in Slots : Moves(r, x)) /\ req' \in [Requests -> Slots]
  BY <1>1, IdleMoves DEF Leads, AwaitsWorker
<1>3. Served
  BY <1>1, <1>2 DEF Served, RunsRemain
<1>4. Knows
  BY <1>1, SameRuns
<1>5. Tail(queue) \in Seq(Requests)
  BY QueueType DEF Deleted, AwaitsWorker
<1>6. TypeOK'
  BY <1>1, <1>2, <1>5, TypeIs DEF Typed
<1> QED
  BY <1>3, <1>4, <1>6 DEF Goes

-----------------------------------------------------------------------------
(* runUntilPause goes on and ends.                                         *)

\* What the end of runUntilPause gives, and whom it takes out of activeRuns.
LEMMA OverGoes ==
  ASSUME AppInv, NEW r \in Requests, req[r].pc \in Leads, NEW ok \in BOOLEAN, RunOver(r, ok),
         \/ req[r].pc # "observe" /\ queue' = queue
         \/ req[r].pc = "observe" /\ Head(queue) = r /\ queue' = Tail(queue),
         \A t \in Tasks : memory'[t].active = Left(r)[t].active
  PROVE  Over(r) /\ req' \in [Requests -> Slots]
<1>1. /\ TypeOK /\ TargetInv /\ req[r].pc # "idle" /\ req[r].t \in Tasks
      /\ req \in [Requests -> Slots]
  BY TypeIs DEF AppInv, TargetInv, Leads, Typed
<1>2. \A t \in Tasks : memory'[t].active = IF t = req[r].t /\ memory[t].active = r THEN None
                                          ELSE memory[t].active
  BY <1>1, LeftTypes
<1>3. Over(r)
  BY <1>1, <1>2 DEF Over, Leads, AwaitsWorker
<1>4. \A q \in Requests : (IF q \in Callers(r) THEN After(q, ok) ELSE req[q]) \in Slots
  <2>1. ASSUME NEW q \in Callers(r) PROVE q \in Requests /\ req[q].pc # "idle"
    BY <1>1, <2>1 DEF Callers
  <2>2. ASSUME NEW q \in Callers(r) PROVE After(q, ok) \in Slots
    BY <1>1, <2>1, <2>2, AfterIs
  <2> QED
    BY <1>1, <2>2
<1> QED
  BY <1>3, <1>4 DEF RunOver

\* The adapter's review is prepared.
LEMMA ReviewPreparedGoes ==
  ASSUME AppInv, NEW r \in Requests, ReviewPrepared(r)
  PROVE  Goes
<1>1. /\ UNCHANGED <<cached, runs, stored, saved, queue, crashes>>
      /\ req[r].pc = "prepare" /\ Publish(Left(r), req[r].t, "awaiting_adapter_review")
      /\ RunOver(r, TRUE)
      /\ TypeOK /\ Typed /\ RunInv /\ req[r].t \in Tasks
  BY TypeIs DEF ReviewPrepared, AppInv, TargetInv
<1>2. "awaiting_adapter_review" \in Values
  BY DEF Values
<1>3. /\ Left(r) \in [Tasks -> Cells]
      /\ \A t \in Tasks : Left(r)[t].run = memory[t].run
  BY <1>1, LeftTypes
<1>4. /\ memory' \in [Tasks -> Cells] /\ Same(memory', Left(r))
      /\ tasks' \in [Tasks -> {"absent"} \cup Values]
      /\ lease' \in Tasks \cup {Jobs, None}
  BY <1>1, <1>2, <1>3, PublishTypes
<1>5. Over(r) /\ req' \in [Requests -> Slots]
  <2>1. req[r].pc \in Leads /\ TRUE \in BOOLEAN
    BY <1>1 DEF Leads
  <2> QED
    BY <1>1, <1>4, <2>1, OverGoes DEF Same
<1>6. Served
  BY <1>1, <1>5 DEF Served, RunsRemain
<1>7. Knows
  BY <1>1, <1>3, <1>4, SameRuns DEF Same
<1>8. TypeOK'
  BY <1>1, <1>4, <1>5, TypeIs DEF Typed
<1> QED
  BY <1>6, <1>7, <1>8 DEF Goes

\* Or cannot be.
LEMMA PrepareFailsGoes ==
  ASSUME AppInv, NEW r \in Requests, PrepareFails(r)
  PROVE  Goes
<1>1. /\ UNCHANGED <<tasks, lease, cached, runs, stored, saved, queue, crashes>>
      /\ req[r].pc = "prepare" /\ memory' = Left(r)
      /\ RunOver(r, FALSE)
      /\ TypeOK /\ Typed /\ RunInv /\ req[r].t \in Tasks
  BY TypeIs DEF PrepareFails, AppInv, TargetInv
<1>2. /\ Left(r) \in [Tasks -> Cells]
      /\ \A t \in Tasks : Left(r)[t].run = memory[t].run
  BY <1>1, LeftTypes
<1>3. Over(r) /\ req' \in [Requests -> Slots]
  <2>1. req[r].pc \in Leads /\ FALSE \in BOOLEAN
    BY <1>1 DEF Leads
  <2> QED
    BY <1>1, <2>1, OverGoes
<1>4. Served
  BY <1>1, <1>3 DEF Served, RunsRemain
<1>5. Knows
  BY <1>1, <1>2, SameRuns
<1>6. TypeOK'
  BY <1>1, <1>2, <1>3, TypeIs DEF Typed
<1> QED
  BY <1>4, <1>5, <1>6 DEF Goes

\* A leader's run starts, is joined or recovered: it awaits the Runtime.
LEMMA AwaitsRuntime ==
  ASSUME AppInv, NEW r \in Requests, req[r].pc \in {"observe", "seeded"}, NEW i \in RunIds,
         runs'[i].status # "none",
         req' = [req EXCEPT ![r].pc = "runtime", ![r].run = i],
         \/ req[r].pc # "observe" /\ queue' = queue
         \/ req[r].pc = "observe" /\ Head(queue) = r /\ queue' = Tail(queue),
         \A t \in Tasks : memory'[t].active = memory[t].active
  PROVE  (\E x \in Slots : Moves(r, x)) /\ req' \in [Requests -> Slots]
<1>1. req[r] \in Slots /\ req[r].t \in Tasks /\ req \in [Requests -> Slots]
  BY TypeIs DEF AppInv, TargetInv, Typed
<1>2. PICK x : x = [req[r] EXCEPT !.pc = "runtime", !.run = i]
  OBVIOUS
<1>3. /\ x \in Slots /\ x.pc = "runtime" /\ x.run = i /\ x.t = req[r].t
      /\ x.op = req[r].op /\ x.again = req[r].again
  BY <1>1, <1>2 DEF Slots
<1>4. req' = [req EXCEPT ![r] = x]
  BY <1>1, <1>2 DEF Slots
<1>5. ~Early(x) /\ x.pc \in Leads
  BY <1>3, NotEarly DEF Early, Leads
<1>6. Queues(r, x)
  BY <1>3 DEF Queues, AwaitsWorker
<1>7. Moves(r, x)
  BY <1>1, <1>3, <1>4, <1>5, <1>6 DEF Moves
<1> QED
  BY <1>1, <1>3, <1>4, <1>7

\* One run changes.
LEMMA RunChanges ==
  ASSUME AppInv, NEW i \in RunIds, NEW z \in RunRecords, runs' = [runs EXCEPT ![i] = z],
         runs[i].status # "none" => z.status # "none",
         AtReview(runs[i]) => AtReview(z) /\ (z.live => runs[i].live),
         z.status = "interrupted" => z.ask # None,
         z.live => z.status # "none",
         \A t \in Tasks : \/ memory'[t].run \in {0, memory[t].run}
                          \/ memory'[t].run = i /\ z.status # "none",
         \A j \in RunIds : j # i => stored'[j] = stored[j],
         stored'[i].task \in {None, stored[i].task} \/ z.status # "none",
         stored'[i].locked => stored[i].locked \/ AtReview(z)
  PROVE  runs' \in [RunIds -> RunRecords] /\ Knows
<1>1. runs \in [RunIds -> RunRecords] /\ RunInv
  BY TypeIs DEF AppInv, Typed
<1>2. /\ runs' \in [RunIds -> RunRecords] /\ runs'[i] = z
      /\ \A j \in RunIds : j # i => runs'[j] = runs[j]
  BY <1>1
<1>3. RunsRemain /\ ReviewsStay
  BY <1>2 DEF RunsRemain, ReviewsStay
<1>4. /\ \A j \in RunIds : /\ runs'[j].status = "interrupted" => runs'[j].ask # None
                           /\ runs'[j].live => runs'[j].status # "none"
      /\ \A j \in RunIds :
           /\ stored'[j].task \in {None, stored[j].task} \/ runs'[j].status # "none"
           /\ stored'[j].locked => stored[j].locked \/ AtReview(runs'[j])
  BY <1>1, <1>2 DEF RunInv
<1>5. \A t \in Tasks : \/ memory'[t].run \in {0, memory[t].run}
                       \/ memory'[t].run \in RunIds /\ runs'[memory'[t].run].status # "none"
  BY <1>2
<1> QED
  BY <1>2, <1>3, <1>4, <1>5 DEF Knows

\* The task's run begins.
LEMMA FirstRunGoes ==
  ASSUME AppInv, NEW r \in Requests, req[r].pc \in {"observe", "seeded"}, FirstRun(r),
         crashes' = crashes, queue' \in Seq(Requests),
         \/ req[r].pc # "observe" /\ queue' = queue
         \/ req[r].pc = "observe" /\ Head(queue) = r /\ queue' = Tail(queue)
  PROVE  Goes
<1>1. /\ UNCHANGED <<tasks, lease, memory, cached, stored, saved>>
      /\ TypeOK /\ Typed /\ req[r].t \in Tasks
  BY TypeIs DEF FirstRun, AppInv, TargetInv
<1>2. PICK i \in RunIds :
        /\ runs[i].status = "none"
        /\ runs' = [runs EXCEPT ![i] = [NoRun EXCEPT !.task = req[r].t, !.status = "running",
                                                     !.live = TRUE]]
        /\ req' = [req EXCEPT ![r].pc = "runtime", ![r].run = i]
  BY DEF FirstRun
<1>3. PICK z : z = [NoRun EXCEPT !.task = req[r].t, !.status = "running", !.live = TRUE]
  OBVIOUS
<1>4. z \in RunRecords /\ z.status = "running"
  <2>1. 0 \in 0..MaxAsks
    BY ConstantsAssumption
  <2> QED
    BY <1>1, <1>3, <2>1 DEF NoRun, RunRecords, Statuses
<1>5. ~AtReview(runs[i])
  BY <1>2 DEF AtReview, Ended
<1>6. runs' \in [RunIds -> RunRecords] /\ Knows
  BY <1>1, <1>2, <1>3, <1>4, <1>5, RunChanges
<1>7. runs'[i].status # "none"
  BY <1>1, <1>2, <1>3, <1>4 DEF Typed
<1>8. (\E x \in Slots : Moves(r, x)) /\ req' \in [Requests -> Slots]
  BY <1>1, <1>2, <1>7, AwaitsRuntime
<1>9. Served
  BY <1>6, <1>8 DEF Served, Knows
<1>10. TypeOK'
  BY <1>1, <1>6, <1>8, TypeIs DEF Typed
<1> QED
  BY <1>6, <1>9, <1>10 DEF Goes

\* The task's run is recovered or joined.
LEMMA RecoversGoes ==
  ASSUME AppInv, NEW r \in Requests, req[r].pc \in {"observe", "seeded"},
         NEW i \in RunIds, Recovers(r, i),
         crashes' = crashes, queue' \in Seq(Requests),
         \/ req[r].pc # "observe" /\ queue' = queue
         \/ req[r].pc = "observe" /\ Head(queue) = r /\ queue' = Tail(queue)
  PROVE  Goes
<1>1. /\ UNCHANGED <<tasks, lease, cached, stored, saved>>
      /\ TypeOK /\ Typed /\ req[r].t \in Tasks
      /\ runs[i].status = "running"
      /\ runs' = [runs EXCEPT ![i].live = TRUE]
      /\ memory' = [memory EXCEPT ![req[r].t].run = i]
      /\ req' = [req EXCEPT ![r].pc = "runtime", ![r].run = i]
  BY TypeIs DEF Recovers, AppInv, TargetInv
<1>2. /\ memory' \in [Tasks -> Cells]
      /\ \A p \in Tasks : /\ memory'[p].active = memory[p].active
                          /\ memory'[p].run \in {i, memory[p].run}
  BY <1>1, KnowsRun DEF Typed
<1>3. runs[i] \in RunRecords
  BY <1>1 DEF Typed
<1>4. PICK z : z = [runs[i] EXCEPT !.live = TRUE]
  OBVIOUS
<1>5. /\ z \in RunRecords /\ z.status = "running" /\ runs' = [runs EXCEPT ![i] = z]
      /\ z.saved = runs[i].saved /\ z.live
  BY <1>1, <1>3, <1>4 DEF RunRecords
<1>6. AtReview(runs[i]) => AtReview(z) /\ runs[i].live
  BY <1>1, <1>5 DEF AtReview, Ended
<1>7. runs' \in [RunIds -> RunRecords] /\ Knows
  BY <1>1, <1>2, <1>5, <1>6, RunChanges
<1>8. runs'[i].status # "none"
  BY <1>1, <1>5 DEF Typed
<1>9. (\E x \in Slots : Moves(r, x)) /\ req' \in [Requests -> Slots]
  BY <1>1, <1>2, <1>8, AwaitsRuntime
<1>10. Served
  BY <1>7, <1>9 DEF Served, Knows
<1>11. TypeOK'
  BY <1>1, <1>2, <1>7, <1>9, TypeIs DEF Typed
<1> QED
  BY <1>7, <1>10, <1>11 DEF Goes

\* The runs stay, and the memory learns of one that exists.
LEMMA LearnsRun ==
  ASSUME AppInv, runs' = runs, stored' = stored, NEW i \in RunIds, runs[i].status # "none",
         \A t \in Tasks : memory'[t].run \in {i, memory[t].run}
  PROVE  Knows
BY DEF AppInv, RunInv, Knows, RunsRemain, ReviewsStay

\* The task's run waits for the user.
LEMMA StillAsksGoes ==
  ASSUME AppInv, NEW r \in Requests, req[r].pc \in {"observe", "seeded"},
         NEW i \in RunIds, StillAsks(r, i),
         crashes' = crashes, queue' \in Seq(Requests),
         \/ req[r].pc # "observe" /\ queue' = queue
         \/ req[r].pc = "observe" /\ Head(queue) = r /\ queue' = Tail(queue)
  PROVE  Goes
<1>1. /\ UNCHANGED <<lease, runs, stored, saved>>
      /\ TypeOK /\ Typed /\ req[r].t \in Tasks
      /\ runs[i].status = "interrupted"
      /\ cached' = [cached EXCEPT ![i] = runs[i].ask]
      /\ memory' = [Left(r) EXCEPT ![req[r].t].run = i]
      /\ Emits(Callers(r), req[r].t)
      /\ RunOver(r, TRUE)
  BY TypeIs DEF StillAsks, AppInv, TargetInv
<1>2. /\ Left(r) \in [Tasks -> Cells]
      /\ \A t \in Tasks : Left(r)[t].run = memory[t].run
  BY <1>1, LeftTypes
<1>3. PICK m \in [Tasks -> Cells] : m = Left(r)
  BY <1>2
<1>4. /\ memory' \in [Tasks -> Cells]
      /\ \A p \in Tasks : /\ memory'[p].active = Left(r)[p].active
                          /\ memory'[p].run \in {i, memory[p].run}
  BY <1>1, <1>2, <1>3, KnowsRun
<1>5. Over(r) /\ req' \in [Requests -> Slots]
  <2>1. req[r].pc \in Leads /\ TRUE \in BOOLEAN
    BY DEF Leads
  <2> QED
    BY <1>1, <1>4, <2>1, OverGoes
<1>6. Served
  BY <1>1, <1>5 DEF Served, RunsRemain
<1>7. Knows
  BY <1>1, <1>4, LearnsRun
<1>8. cached' \in [RunIds -> Asks \cup {None}] /\ tasks' \in [Tasks -> {"absent"} \cup Values]
  BY <1>1, <1>4, EmitsTypes DEF Typed, RunRecords
<1>9. TypeOK'
  BY <1>1, <1>4, <1>5, <1>8, TypeIs DEF Typed
<1> QED
  BY <1>6, <1>7, <1>9 DEF Goes

\* What rememberResult does, the runs being as they were.
LEMMA RemembersGoes ==
  ASSUME AppInv, NEW r \in Requests, req[r].t \in Tasks, NEW i \in RunIds,
         runs[i].status \in {"interrupted"} \cup Ended, runs' = runs,
         RememberResult(Left(r), runs, req[r].t, i)
  PROVE  /\ memory' \in [Tasks -> Cells]
         /\ \A p \in Tasks : memory'[p].active = Left(r)[p].active
         /\ tasks' \in [Tasks -> {"absent"} \cup Values]
         /\ lease' \in Tasks \cup {Jobs, None}
         /\ cached' \in [RunIds -> Asks \cup {None}]
         /\ stored' \in [RunIds -> Rows] /\ saved' \in Seq(RunIds)
         /\ Knows
<1>1. TypeOK /\ Typed /\ RunInv
  BY TypeIs DEF AppInv
<1>2. PICK m \in [Tasks -> Cells] : /\ m = Left(r)
                                    /\ \A t \in Tasks : m[t].run = memory[t].run
  BY <1>1, LeftTypes
<1>3. PICK t \in Tasks : t = req[r].t
  OBVIOUS
<1>4. PICK rs \in [RunIds -> RunRecords] : rs = runs
  BY <1>1 DEF Typed
<1>5. /\ RememberResult(m, rs, t, i) /\ rs[i].status \in {"interrupted"} \cup Ended
      /\ rs[i].status = "interrupted" => rs[i].ask # None
  BY <1>1, <1>2, <1>3, <1>4 DEF RunInv
<1>6. /\ memory' \in [Tasks -> Cells]
      /\ \A p \in Tasks : /\ memory'[p].active = m[p].active
                          /\ memory'[p].run = IF p = t THEN i ELSE m[p].run
      /\ tasks' \in [Tasks -> {"absent"} \cup Values]
      /\ lease' \in Tasks \cup {Jobs, None}
      /\ cached' \in [RunIds -> Asks \cup {None}]
      /\ stored' \in [RunIds -> Rows] /\ saved' \in Seq(RunIds)
      /\ stored'[i].task = t
      /\ stored'[i].locked => stored[i].locked \/ AtReview(rs[i])
      /\ \A j \in RunIds \ {i} : stored'[j] = stored[j]
  BY <1>1, <1>5, RememberTypes
<1>7. runs[i].status # "none"
  BY DEF Ended
<1>8. Knows
  <2>1. \A p \in Tasks : memory'[p].run \in {i, memory[p].run}
    BY <1>2, <1>6
  <2>2. \A j \in RunIds :
          /\ stored'[j].task \in {None, stored[j].task} \/ runs'[j].status # "none"
          /\ stored'[j].locked => stored[j].locked \/ AtReview(runs'[j])
    BY <1>4, <1>6, <1>7
  <2> QED
    BY <1>1, <1>7, <2>1, <2>2 DEF Knows, RunsRemain, ReviewsStay, RunInv
<1> QED
  BY <1>2, <1>6, <1>8

\* The task's run has ended.
LEMMA HasEndedGoes ==
  ASSUME AppInv, NEW r \in Requests, req[r].pc \in {"observe", "seeded"},
         NEW i \in RunIds, HasEnded(r, i),
         crashes' = crashes, queue' \in Seq(Requests),
         \/ req[r].pc # "observe" /\ queue' = queue
         \/ req[r].pc = "observe" /\ Head(queue) = r /\ queue' = Tail(queue)
  PROVE  Goes
<1>1. /\ runs[i].status \in {"interrupted"} \cup Ended /\ runs' = runs
      /\ RememberResult(Left(r), runs, req[r].t, i)
      /\ RunOver(r, TRUE)
      /\ TypeOK /\ Typed /\ req[r].t \in Tasks
  BY TypeIs DEF HasEnded, AppInv, TargetInv
<1>2. /\ memory' \in [Tasks -> Cells]
      /\ \A p \in Tasks : memory'[p].active = Left(r)[p].active
      /\ tasks' \in [Tasks -> {"absent"} \cup Values]
      /\ lease' \in Tasks \cup {Jobs, None}
      /\ cached' \in [RunIds -> Asks \cup {None}]
      /\ stored' \in [RunIds -> Rows] /\ saved' \in Seq(RunIds)
      /\ Knows
  BY <1>1, RemembersGoes
<1>3. Over(r) /\ req' \in [Requests -> Slots]
  <2>1. req[r].pc \in Leads /\ TRUE \in BOOLEAN
    BY DEF Leads
  <2> QED
    BY <1>1, <1>2, <2>1, OverGoes
<1>4. Served
  BY <1>2, <1>3 DEF Served, Knows
<1>5. TypeOK'
  BY <1>1, <1>2, <1>3, TypeIs DEF Typed
<1> QED
  BY <1>2, <1>4, <1>5 DEF Goes

\* After the observation.
LEMMA ProceedsGoes ==
  ASSUME AppInv, NEW r \in Requests, req[r].pc \in {"observe", "seeded"}, Proceeds(r),
         crashes' = crashes, queue' \in Seq(Requests),
         \/ req[r].pc # "observe" /\ queue' = queue
         \/ req[r].pc = "observe" /\ Head(queue) = r /\ queue' = Tail(queue)
  PROVE  Goes
<1>1. CASE FirstRun(r)
  BY <1>1, FirstRunGoes
<1>2. ASSUME RunOf(req[r].t) # 0,
             \/ Recovers(r, RunOf(req[r].t))
             \/ StillAsks(r, RunOf(req[r].t))
             \/ HasEnded(r, RunOf(req[r].t))
      PROVE  Goes
  <2>1. req[r].t \in Tasks
    BY DEF AppInv, TargetInv
  <2>2. PICK i \in RunIds : i = RunOf(req[r].t)
    BY <1>2, <2>1, RunOfIs DEF AppInv
  <2>3. CASE Recovers(r, i)
    BY <2>3, RecoversGoes
  <2>4. CASE StillAsks(r, i)
    BY <2>4, StillAsksGoes
  <2>5. CASE HasEnded(r, i)
    BY <2>5, HasEndedGoes
  <2> QED
    BY <1>2, <2>2, <2>3, <2>4, <2>5
<1> QED
  BY <1>1, <1>2 DEF Proceeds

\* The page has been observed.
LEMMA ObservedGoes ==
  ASSUME AppInv, NEW r \in Requests, Observed(r)
  PROVE  Goes
<1>1. /\ req[r].pc \in {"observe", "seeded"} /\ Proceeds(r) /\ crashes' = crashes
      /\ req[r].pc = "observe" /\ Head(queue) = r /\ queue' = Tail(queue)
  BY DEF Observed, Answered
<1>2. queue' \in Seq(Requests)
  BY QueueType DEF Observed, AwaitsWorker
<1> QED
  BY <1>1, <1>2, ProceedsGoes

\* Or had been, by the certification.
LEMMA SeededGoes ==
  ASSUME AppInv, NEW r \in Requests, Seeded(r)
  PROVE  Goes
<1>1. /\ req[r].pc \in {"observe", "seeded"} /\ Proceeds(r) /\ crashes' = crashes
      /\ req[r].pc # "observe" /\ queue' = queue
  BY DEF Seeded
<1>2. queue' \in Seq(Requests)
  BY <1>1 DEF AppInv, TypeOK
<1> QED
  BY <1>1, <1>2, ProceedsGoes

\* The Runtime returned.
LEMMA ReturnsGoes ==
  ASSUME AppInv, NEW r \in Requests, Returns(r)
  PROVE  Goes
<1>1. /\ UNCHANGED <<runs, queue, crashes>>
      /\ TypeOK /\ Typed /\ RunInv /\ req[r].t \in Tasks /\ req[r].pc = "runtime"
      /\ req[r].run \in RunIds /\ runs[req[r].run].status # "none"
      /\ runs[req[r].run].status # "running"
  BY TypeIs DEF Returns, AppInv, TargetInv
<1>2. PICK i \in RunIds : i = req[r].run
  BY <1>1
<1>3. runs[i] \in RunRecords /\ runs[i].status \in {"interrupted"} \cup Ended
  BY <1>1, <1>2 DEF Typed, RunRecords, Statuses
<1>4. req[r].pc \in Leads /\ TRUE \in BOOLEAN /\ FALSE \in BOOLEAN
  BY <1>1 DEF Leads
<1>5. CASE Exists(req[r].t)
  <2>1. RememberResult(Left(r), runs, req[r].t, i)
    BY <1>2, <1>5 DEF Returns
  <2>2. /\ memory' \in [Tasks -> Cells]
        /\ \A p \in Tasks : memory'[p].active = Left(r)[p].active
        /\ tasks' \in [Tasks -> {"absent"} \cup Values]
        /\ lease' \in Tasks \cup {Jobs, None}
        /\ cached' \in [RunIds -> Asks \cup {None}]
        /\ stored' \in [RunIds -> Rows] /\ saved' \in Seq(RunIds)
        /\ Knows
    BY <1>1, <1>3, <2>1, RemembersGoes
  <2>3. /\ (\E x \in Slots : Moves(r, x)) \/ Over(r)
        /\ req' \in [Requests -> Slots]
    <3>1. CASE req[r].op = "answer" /\ ~req[r].again
      <4>1. req' = [req EXCEPT ![r].pc = "enter", ![r].again = TRUE, ![r].run = 0]
        BY <1>5, <3>1 DEF Returns
      <4>2. req[r] \in Slots /\ req \in [Requests -> Slots] /\ NotLed(r)
        BY <1>1, <3>1 DEF Typed, AppInv, EarlyInv, Early
      <4>3. PICK x : x = [req[r] EXCEPT !.pc = "enter", !.again = TRUE, !.run = 0]
        OBVIOUS
      <4>4. x \in Slots /\ x.pc = "enter" /\ x.again /\ x.t = req[r].t
        BY <4>2, <4>3 DEF Slots
      <4>5. req' = [req EXCEPT ![r] = x]
        BY <4>1, <4>2, <4>3 DEF Slots
      <4>6. Queues(r, x) /\ ~Early(x)
        BY <1>1, <4>4 DEF Queues, AwaitsWorker, Early
      <4>7. \A t \in Tasks : memory'[t].active \in {memory[t].active, None}
        BY <1>1, <2>2, LeftTypes
      <4>8. Moves(r, x)
        BY <1>1, <4>2, <4>4, <4>5, <4>6, <4>7 DEF Moves
      <4> QED
        BY <4>2, <4>4, <4>5, <4>8
    <3>2. CASE ~ (req[r].op = "answer" /\ ~req[r].again)
      <4>1. RunOver(r, TRUE)
        BY <1>5, <3>2 DEF Returns
      <4> QED
        BY <1>1, <1>4, <2>2, <4>1, OverGoes
    <3> QED
      BY <3>1, <3>2
  <2>4. Served
    BY <2>2, <2>3 DEF Served, Knows
  <2>5. TypeOK'
    BY <1>1, <2>2, <2>3, TypeIs DEF Typed
  <2> QED
    BY <2>2, <2>4, <2>5 DEF Goes
<1>6. CASE ~Exists(req[r].t)
  <2>1. /\ memory' = [Left(r) EXCEPT ![req[r].t].run = i]
        /\ cached' = [cached EXCEPT ![i] = IF runs[i].status = "interrupted"
                                           THEN runs[i].ask ELSE None]
        /\ RunOver(r, FALSE)
        /\ UNCHANGED <<tasks, lease, stored, saved>>
    BY <1>2, <1>6 DEF Returns
  <2>2. PICK m \in [Tasks -> Cells] : /\ m = Left(r)
                                      /\ \A t \in Tasks : m[t].run = memory[t].run
    BY <1>1, LeftTypes
  <2>3. /\ memory' \in [Tasks -> Cells]
        /\ \A p \in Tasks : /\ memory'[p].active = Left(r)[p].active
                            /\ memory'[p].run \in {i, memory[p].run}
    BY <1>1, <2>1, <2>2, KnowsRun
  <2>4. Over(r) /\ req' \in [Requests -> Slots]
    BY <1>1, <1>4, <2>1, <2>3, OverGoes
  <2>5. Served
    BY <1>1, <2>4 DEF Served, RunsRemain
  <2>6. Knows
    BY <1>1, <1>2, <2>1, <2>3, LearnsRun
  <2>7. cached' \in [RunIds -> Asks \cup {None}]
    BY <1>1, <1>3, <2>1 DEF Typed, RunRecords
  <2>8. TypeOK'
    BY <1>1, <2>1, <2>3, <2>4, <2>7, TypeIs DEF Typed
  <2> QED
    BY <2>5, <2>6, <2>8 DEF Goes
<1> QED
  BY <1>5, <1>6

-----------------------------------------------------------------------------
(* The Runtime, the executor and the rest of the world.                    *)

\* A step of the executor or the Runtime leaves the requests alone.
LEMMA ExecuteGoes ==
  ASSUME AppInv, NEW i \in RunIds, NEW z \in RunRecords, runs' = [runs EXCEPT ![i] = z],
         UNCHANGED <<tasks, lease, memory, cached, req, queue, crashes>>,
         stored' \in [RunIds -> Rows], saved' \in Seq(RunIds),
         runs[i].status # "none" => z.status # "none",
         AtReview(runs[i]) => AtReview(z) /\ (z.live => runs[i].live),
         z.status = "interrupted" => z.ask # None,
         z.live => z.status # "none",
         \A j \in RunIds : j # i => stored'[j] = stored[j],
         stored'[i].task \in {None, stored[i].task} \/ z.status # "none",
         stored'[i].locked => stored[i].locked \/ AtReview(z)
  PROVE  Goes
<1>1. runs' \in [RunIds -> RunRecords] /\ Knows
  BY RunChanges
<1>2. Stays
  BY DEF Stays
<1>3. Served
  BY <1>1, <1>2 DEF Served, Knows
<1>4. TypeOK'
  BY <1>1, TypeIs DEF AppInv, Typed
<1> QED
  BY <1>1, <1>3, <1>4 DEF Goes

\* The run whose step it is.
LEMMA LiveIs ==
  ASSUME AppInv, NEW i \in RunIds
  PROVE  /\ TypeOK /\ Typed /\ runs[i] \in RunRecords /\ stored[i] \in Rows
         /\ runs = [runs EXCEPT ![i] = runs[i]]
         /\ runs[i].live => runs[i].status # "none"
         /\ runs[i].status = "interrupted" => runs[i].ask # None
BY TypeIs DEF AppInv, Typed, RunInv

\* The question that comes next.
LEMMA NextAskType ==
  ASSUME AppInv, NEW i \in RunIds, runs[i].asks < MaxAsks, NEW reason \in Reasons
  PROVE  /\ NextAsk(i, reason) \in Asks /\ NextAsk(i, reason) # None
         /\ NextAsk(i, reason).reason = reason
         /\ runs[i].asks + 1 \in 0..MaxAsks
<1>1. PICK n \in 0..MaxAsks : n = runs[i].asks
  BY LiveIs DEF RunRecords
<1>2. n + 1 \in 1..MaxAsks /\ n + 1 \in 0..MaxAsks
  BY <1>1, ConstantsAssumption
<1>3. NextAsk(i, reason) = [n |-> n + 1, reason |-> reason]
  BY <1>1 DEF NextAsk
<1>4. NextAsk(i, reason) \in Asks /\ NextAsk(i, reason).reason = reason
  BY <1>2, <1>3 DEF Asks
<1> QED
  BY <1>1, <1>2, <1>4, NoneAssumption

\* The executor saves its state.
LEMMA ExecutorSavesGoes ==
  ASSUME AppInv, NEW i \in RunIds, ExecutorSaves(i)
  PROVE  Goes
<1>1. /\ UNCHANGED <<tasks, lease, memory, cached, runs, req, queue, crashes>>
      /\ Saves(i, [stored[i] EXCEPT !.task = runs[i].task, !.ask = None])
      /\ runs[i].live
  BY DEF ExecutorSaves
<1>2. PICK row : row = [stored[i] EXCEPT !.task = runs[i].task, !.ask = None]
  OBVIOUS
<1>3. row \in Rows /\ row.locked = stored[i].locked
  BY <1>2, LiveIs DEF Rows, RunRecords
<1>4. stored' \in [RunIds -> Rows] /\ saved' \in Seq(RunIds) /\ stored' = [stored EXCEPT ![i] = row]
  BY <1>1, <1>2, <1>3, LiveIs, SavesTypes
<1>5. stored'[i] = row /\ \A j \in RunIds : j # i => stored'[j] = stored[j]
  BY <1>4, LiveIs DEF Typed
<1>6. runs' = [runs EXCEPT ![i] = runs[i]]
  BY <1>1, LiveIs
<1> QED
  BY <1>1, <1>3, <1>4, <1>5, <1>6, LiveIs, ExecuteGoes

\* The executor saves its question.
LEMMA ExecutorAsksGoes ==
  ASSUME AppInv, NEW i \in RunIds, ExecutorAsks(i)
  PROVE  Goes
<1>1. /\ UNCHANGED <<tasks, lease, memory, cached, req, queue, crashes>>
      /\ runs[i].live /\ runs[i].status = "running" /\ runs[i].asks < MaxAsks
      /\ runs[i].saved = None
  BY DEF ExecutorAsks, AskSaved
<1>2. PICK reason \in {"question", "final_submit"} :
        /\ runs' = [runs EXCEPT ![i].saved = NextAsk(i, reason)]
        /\ Saves(i, [stored[i] EXCEPT !.ask = NextAsk(i, reason),
                                      !.locked = @ \/ reason = "final_submit"])
  BY DEF ExecutorAsks
<1>3. /\ NextAsk(i, reason) \in Asks /\ NextAsk(i, reason) # None
      /\ NextAsk(i, reason).reason = reason
  <2>1. reason \in Reasons
    BY DEF Reasons
  <2> QED
    BY <1>1, <2>1, NextAskType
<1>4. PICK z : z = [runs[i] EXCEPT !.saved = NextAsk(i, reason)]
  OBVIOUS
<1>5. /\ z \in RunRecords /\ z.status = "running" /\ z.live /\ z.saved = NextAsk(i, reason)
      /\ runs' = [runs EXCEPT ![i] = z]
  BY <1>1, <1>2, <1>3, <1>4, LiveIs DEF RunRecords
<1>6. PICK row : row = [stored[i] EXCEPT !.ask = NextAsk(i, reason),
                                         !.locked = stored[i].locked \/ reason = "final_submit"]
  OBVIOUS
<1>7. /\ row \in Rows /\ row.task = stored[i].task
      /\ row.locked => stored[i].locked \/ reason = "final_submit"
  BY <1>3, <1>6, LiveIs DEF Rows
<1>8. Saves(i, row)
  BY <1>2, <1>6, LiveIs DEF Rows
<1>9. stored' \in [RunIds -> Rows] /\ saved' \in Seq(RunIds) /\ stored' = [stored EXCEPT ![i] = row]
  BY <1>7, <1>8, LiveIs, SavesTypes
<1>10. stored'[i] = row /\ \A j \in RunIds : j # i => stored'[j] = stored[j]
  BY <1>9, LiveIs DEF Typed
<1>11. ~AtReview(runs[i]) /\ (reason = "final_submit" => AtReview(z))
  BY <1>1, <1>3, <1>5 DEF AtReview, Ended
<1> QED
  BY <1>1, <1>5, <1>7, <1>9, <1>10, <1>11, ExecuteGoes

\* A change of one run that leaves the store alone.
LEMMA RunOnlyGoes ==
  ASSUME AppInv, NEW i \in RunIds, NEW z \in RunRecords, runs' = [runs EXCEPT ![i] = z],
         UNCHANGED <<tasks, lease, memory, cached, stored, saved, req, queue, crashes>>,
         runs[i].status # "none", z.status # "none",
         AtReview(runs[i]) => AtReview(z) /\ (z.live => runs[i].live),
         z.status = "interrupted" => z.ask # None
  PROVE  Goes
<1>1. stored' \in [RunIds -> Rows] /\ saved' \in Seq(RunIds)
  BY TypeIs DEF AppInv, Typed
<1> QED
  BY <1>1, ExecuteGoes

\* The run waits for the user.
LEMMA RunPausesGoes ==
  ASSUME AppInv, NEW i \in RunIds, RunPauses(i)
  PROVE  Goes
<1>1. /\ UNCHANGED <<tasks, lease, memory, cached, stored, saved, req, queue, crashes>>
      /\ runs[i].live /\ runs[i].status = "running" /\ runs[i].asks < MaxAsks
  BY DEF RunPauses
<1>2. PICK reason \in Reasons :
        /\ runs[i].saved # None => runs[i].saved = NextAsk(i, reason)
        /\ runs' = [runs EXCEPT ![i] =
             [runs[i] EXCEPT !.status = "interrupted", !.live = FALSE, !.saved = None,
                             !.ask = NextAsk(i, reason), !.asks = runs[i].asks + 1]]
  BY DEF RunPauses, AskSaved
<1>3. /\ NextAsk(i, reason) \in Asks /\ NextAsk(i, reason) # None
      /\ NextAsk(i, reason).reason = reason
      /\ runs[i].asks + 1 \in 0..MaxAsks
  BY <1>1, NextAskType
<1>4. PICK z : z = [runs[i] EXCEPT !.status = "interrupted", !.live = FALSE, !.saved = None,
                                   !.ask = NextAsk(i, reason), !.asks = runs[i].asks + 1]
  OBVIOUS
<1>5. /\ z \in RunRecords /\ z.status = "interrupted" /\ ~z.live /\ z.ask = NextAsk(i, reason)
  BY <1>3, <1>4, LiveIs DEF RunRecords, Statuses
<1>6. runs' = [runs EXCEPT ![i] = z]
  BY <1>2, <1>4
<1>7. AtReview(runs[i]) => AtReview(z)
  BY <1>1, <1>2, <1>3, <1>5 DEF AtReview, Ended
<1> QED
  BY <1>1, <1>3, <1>5, <1>6, <1>7, RunOnlyGoes

\* The run ends.
LEMMA RunEndsGoes ==
  ASSUME AppInv, NEW i \in RunIds, RunEnds(i)
  PROVE  Goes
<1>1. /\ UNCHANGED <<tasks, lease, memory, cached, stored, saved, req, queue, crashes>>
      /\ runs[i].live /\ runs[i].status = "running"
  BY DEF RunEnds
<1>2. PICK status \in {"completed", "failed"} :
        runs' = [runs EXCEPT ![i].status = status, ![i].live = FALSE]
  BY DEF RunEnds
<1>3. PICK z : z = [runs[i] EXCEPT !.status = status, !.live = FALSE]
  OBVIOUS
<1>4. z \in RunRecords /\ z.status \in Ended /\ ~z.live /\ runs' = [runs EXCEPT ![i] = z]
  BY <1>2, <1>3, LiveIs DEF RunRecords, Statuses, Ended
<1>5. AtReview(z) /\ z.status # "none" /\ z.status # "interrupted"
  BY <1>4 DEF AtReview, Ended
<1> QED
  BY <1>1, <1>4, <1>5, RunOnlyGoes

\* The executor of a cancelled run stops.
LEMMA RunStopsGoes ==
  ASSUME AppInv, NEW i \in RunIds, RunStops(i)
  PROVE  Goes
<1>1. /\ UNCHANGED <<tasks, lease, memory, cached, stored, saved, req, queue, crashes>>
      /\ runs[i].live /\ runs[i].status = "cancelled"
      /\ runs' = [runs EXCEPT ![i].live = FALSE, ![i].saved = None]
  BY DEF RunStops
<1>2. PICK z : z = [runs[i] EXCEPT !.live = FALSE, !.saved = None]
  OBVIOUS
<1>3. z \in RunRecords /\ z.status = "cancelled" /\ ~z.live /\ runs' = [runs EXCEPT ![i] = z]
  BY <1>1, <1>2, LiveIs DEF RunRecords
<1>4. AtReview(z) /\ z.status # "none" /\ z.status # "interrupted"
  BY <1>3 DEF AtReview, Ended
<1> QED
  BY <1>1, <1>3, <1>4, RunOnlyGoes

\* state() keeps what it finds in the store.
LEMMA RecallGoes ==
  ASSUME AppInv, NEW t \in Tasks, Recall(t)
  PROVE  Goes
<1>1. /\ UNCHANGED <<tasks, lease, runs, stored, saved, req, queue, crashes>>
      /\ TypeOK /\ Typed /\ KnownInv /\ StoredRun(t) # 0
  BY TypeIs DEF Recall, AppInv
<1>2. PICK i \in RunIds : i = StoredRun(t) /\ stored[i].task = t
  BY <1>1, StoredRunIs
<1>3. /\ memory' = [memory EXCEPT ![t].snapshot = ValueStored(i), ![t].run = i]
      /\ cached' = IF stored[i].ask = None THEN cached ELSE [cached EXCEPT ![i] = stored[i].ask]
  BY <1>2 DEF Recall
<1>4. ValueStored(i) \in Values
  BY DEF ValueStored, Values, Terminal
<1>5. memory[t] \in Cells /\ stored[i] \in Rows
  BY <1>1 DEF Typed
<1>6. PICK c : c = [memory[t] EXCEPT !.snapshot = ValueStored(i), !.run = i]
  OBVIOUS
<1>7. /\ c \in Cells /\ c.active = memory[t].active /\ c.run = i
      /\ memory' = [memory EXCEPT ![t] = c]
  BY <1>3, <1>4, <1>5, <1>6 DEF Cells
<1>8. /\ memory' \in [Tasks -> Cells]
      /\ \A p \in Tasks : /\ memory'[p].active = memory[p].active
                          /\ memory'[p].run \in {i, memory[p].run}
  BY <1>1, <1>7 DEF Typed
<1>9. runs[i].status # "none"
  BY <1>1, <1>2, ConstantsAssumption DEF KnownInv
<1>10. Knows
  BY <1>1, <1>8, <1>9, LearnsRun
<1>11. Served
  BY <1>1, <1>8 DEF Served, Stays, RunsRemain
<1>12. cached' \in [RunIds -> Asks \cup {None}]
  BY <1>1, <1>3, <1>5 DEF Typed, Rows
<1>13. TypeOK'
  BY <1>1, <1>8, <1>12, TypeIs DEF Typed
<1> QED
  BY <1>10, <1>11, <1>13 DEF Goes

\* A conversation or a job match creates a task.
LEMMA ConvertedGoes ==
  ASSUME AppInv, NEW t \in Tasks, Converted(t)
  PROVE  Goes
<1>1. /\ UNCHANGED <<lease, cached, runs, stored, saved, req, queue, crashes>>
      /\ tasks' = [tasks EXCEPT ![t] = "created"]
      /\ memory' \in {memory, [memory EXCEPT ![t].fallback = "observing"]}
      /\ TypeOK /\ Typed /\ RunInv
  BY TypeIs DEF Converted, AppInv
<1>2. memory' \in [Tasks -> Cells] /\ Same(memory', memory)
  <2>1. "observing" \in {"none"} \cup Values /\ "none" \in {"none"} \cup Values
    BY DEF Values
  <2>2. /\ [memory EXCEPT ![t].fallback = "observing"] \in [Tasks -> Cells]
        /\ Same([memory EXCEPT ![t].fallback = "observing"], memory)
    BY <1>1, <2>1, ShowsTypes DEF Typed
  <2> QED
    BY <1>1, <2>2 DEF Same, Typed
<1>3. Served
  BY <1>1, <1>2 DEF Served, Stays, RunsRemain, Same
<1>4. Knows
  BY <1>1, <1>2, SameRuns DEF Same
<1>5. TypeOK'
  BY <1>1, <1>2, TypeIs DEF Typed, Values
<1> QED
  BY <1>3, <1>4, <1>5 DEF Goes

\* A job match takes or returns the browser.
LEMMA JobsGoes ==
  ASSUME AppInv, JobsAcquire \/ JobsRelease
  PROVE  Goes
<1>1. /\ UNCHANGED <<tasks, memory, cached, runs, stored, saved, req, queue, crashes>>
      /\ lease' \in {Jobs, None}
      /\ TypeOK /\ Typed /\ RunInv
  BY TypeIs DEF JobsAcquire, JobsRelease, AppInv
<1>2. Served
  BY <1>1 DEF Served, Stays, RunsRemain
<1>3. Knows
  BY <1>1, SameRuns
<1>4. TypeOK'
  BY <1>1, TypeIs DEF Typed
<1> QED
  BY <1>2, <1>3, <1>4 DEF Goes

\* What a restart makes of a run.
LEMMA RestartedIs ==
  ASSUME AppInv, NEW i \in RunIds, NEW z \in Restarted(i)
  PROVE  /\ z \in RunRecords /\ ~z.live
         /\ runs[i].status # "none" => z.status # "none"
         /\ AtReview(runs[i]) => AtReview(z)
         /\ z.status = "interrupted" => z.ask # None
<1>1. PICK y : y = [runs[i] EXCEPT !.live = FALSE, !.saved = None]
  OBVIOUS
<1>2. /\ y \in RunRecords /\ ~y.live /\ y.status = runs[i].status /\ y.ask = runs[i].ask
  BY <1>1, LiveIs DEF RunRecords
<1>3. CASE ~runs[i].live \/ runs[i].status # "running"
  <2>1. z = y
    BY <1>1, <1>3 DEF Restarted
  <2> QED
    BY <1>2, <1>3, <2>1, LiveIs DEF AtReview
<1>4. CASE runs[i].live /\ runs[i].status = "running"
  <2>1. PICK f : f = [y EXCEPT !.status = "failed"]
    OBVIOUS
  <2>2. f \in RunRecords /\ f.status = "failed" /\ ~f.live
    BY <1>2, <2>1 DEF RunRecords, Statuses, Ended
  <2>3. z = f \/ (z = y /\ runs[i].saved = None)
    BY <1>1, <1>4, <2>1 DEF Restarted, AskSaved
  <2>4. AtReview(f)
    BY <2>2 DEF AtReview, Ended
  <2>5. runs[i].saved = None => ~AtReview(runs[i])
    BY <1>4 DEF AtReview, Ended
  <2> QED
    BY <1>2, <1>4, <2>2, <2>3, <2>4, <2>5
<1> QED
  BY <1>3, <1>4

\* The API restarts.
LEMMA CrashGoes ==
  ASSUME AppInv, Crash
  PROVE  Goes
<1>1. /\ UNCHANGED <<tasks, stored, saved>>
      /\ lease' = None /\ memory' = [t \in Tasks |-> Forgotten]
      /\ cached' = [i \in RunIds |-> None]
      /\ req' = [r \in Requests |-> Idle] /\ queue' = << >>
      /\ crashes < MaxCrashes /\ crashes' = crashes + 1
      /\ TypeOK /\ Typed
  BY TypeIs DEF Crash, AppInv
<1>2. PICK rs \in [RunIds -> UNION {Restarted(i) : i \in RunIds}] :
        /\ \A i \in RunIds : rs[i] \in Restarted(i)
        /\ runs' = rs
  BY DEF Crash
<1>3. \A i \in RunIds : /\ rs[i] \in RunRecords /\ ~rs[i].live
                        /\ runs[i].status # "none" => rs[i].status # "none"
                        /\ AtReview(runs[i]) => AtReview(rs[i])
                        /\ rs[i].status = "interrupted" => rs[i].ask # None
  BY <1>2, RestartedIs
<1>4. runs' \in [RunIds -> RunRecords]
  BY <1>2, <1>3
<1>5. /\ memory' \in [Tasks -> Cells]
      /\ \A t \in Tasks : memory'[t].run = 0 /\ memory'[t].active = None
  BY <1>1 DEF Forgotten, Cells
<1>6. RunsRemain /\ ReviewsStay
  BY <1>2, <1>3 DEF RunsRemain, ReviewsStay
<1>7. Knows
  BY <1>1, <1>2, <1>3, <1>5, <1>6 DEF Knows
<1>8. Served
  BY <1>1, <1>5, <1>6 DEF Served, Restarts
<1>9. crashes' \in 0..MaxCrashes
  BY <1>1, ConstantsAssumption DEF Typed
<1>10. req' \in [Requests -> Slots] /\ cached' \in [RunIds -> Asks \cup {None}]
  BY <1>1 DEF Idle, Slots
<1>11. << >> \in Seq(Requests)
  BY EmptySeq
<1>12. TypeOK'
  BY <1>1, <1>4, <1>5, <1>9, <1>10, <1>11, TypeIs DEF Typed
<1> QED
  BY <1>7, <1>8, <1>12 DEF Goes

-----------------------------------------------------------------------------
(* Theorems.                                                               *)

\* The invariant holds at first.
LEMMA InitApp == Init => AppInv
<1> SUFFICES ASSUME Init PROVE AppInv
  OBVIOUS
<1>1. Forgotten \in Cells /\ Forgotten.run = 0 /\ Forgotten.active = None
  BY DEF Forgotten, Cells
<1>2. Idle \in Slots /\ Idle.pc = "idle" /\ Idle.op = "none"
  BY DEF Idle, Slots
<1>3. /\ NoRun \in RunRecords /\ NoRun.status = "none" /\ NoRun.live = FALSE
  <2>1. 0 \in 0..MaxAsks
    BY ConstantsAssumption
  <2> QED
    BY <2>1 DEF NoRun, RunRecords, Statuses
<1>4. NotStored \in Rows /\ NotStored.task = None /\ NotStored.locked = FALSE
  BY DEF NotStored, Rows
<1>5. << >> \in Seq(Requests) /\ << >> \in Seq(RunIds) /\ Len(<< >>) = 0
  BY EmptySeq
<1>6. TypeOK
  <2>1. 0 \in 0..MaxCrashes
    BY ConstantsAssumption
  <2>2. Typed
    BY <1>1, <1>2, <1>3, <1>4, <1>5, <2>1 DEF Init, Typed
  <2> QED
    BY <2>2, TypeIs
<1>7. QueueInv
  <2>1. Waiting = {}
    BY <1>2 DEF Init, Waiting, AwaitsWorker
  <2>2. Holds(<< >>, {})
    BY <1>5 DEF Holds
  <2> QED
    BY <2>1, <2>2 DEF QueueInv, Init
<1>8. LeadInv /\ EarlyInv /\ TargetInv
  BY <1>1, <1>2 DEF Init, LeadInv, EarlyInv, Early, TargetInv
<1>9. KnownInv /\ RunInv /\ LockInv
  BY <1>1, <1>3, <1>4 DEF Init, KnownInv, RunInv, LockInv
<1> QED
  BY <1>6, <1>7, <1>8, <1>9 DEF AppInv

\* Every step does what it must.
LEMMA NextGoes == AppInv /\ Next => Goes
<1> SUFFICES ASSUME AppInv, Next PROVE Goes
  OBVIOUS
<1>1. CASE Start
  <2>1. PICK r \in Requests, t \in Tasks :
          \/ CreateStart(r, t)
          \/ PageStable(r, t)
          \/ OpenStart(r, t)
          \/ \E op \in {"resume", "answer"} : ResumeStart(r, t, op)
          \/ CancelStart(r, t)
          \/ DeleteStart(r, t)
          \/ CertifyStart(r, t)
    BY <1>1 DEF Start
  <2> QED
    BY <2>1, CreateStartGoes, PageStableGoes, OpenStartGoes, ResumeStartGoes, CancelStartGoes,
       DeleteStartGoes, CertifyStartGoes
<1>2. ASSUME NEW r \in Requests, Continue(r) PROVE Goes
  BY <1>2, EnterAgainGoes, DriftsGoes, ReviewPreparedGoes, PrepareFailsGoes, ObservedGoes,
     ReturnsGoes, OpenedGoes, OpenFailsGoes, UndoGoes, ReleasedGoes, DeletedGoes,
     CertifyFailsGoes, DriftsAgainGoes, StillDriftsGoes, CertifiedGoes, SeededGoes
     DEF Continue
<1>3. ASSUME NEW i \in RunIds, Execute(i) PROVE Goes
  BY <1>3, ExecutorSavesGoes, ExecutorAsksGoes, RunPausesGoes, RunEndsGoes, RunStopsGoes
     DEF Execute
<1>4. ASSUME NEW t \in Tasks, Recall(t) \/ Converted(t) PROVE Goes
  BY <1>4, RecallGoes, ConvertedGoes
<1>5. CASE JobsAcquire \/ JobsRelease
  BY <1>5, JobsGoes
<1>6. CASE Crash
  BY <1>6, CrashGoes
<1> QED
  BY <1>1, <1>2, <1>3, <1>4, <1>5, <1>6 DEF Next

\* So the invariant is inductive.
LEMMA NextApp == AppInv /\ [Next]_vars => AppInv'
<1> SUFFICES ASSUME AppInv, [Next]_vars PROVE AppInv'
  OBVIOUS
<1>1. CASE Next
  <2>1. TypeOK' /\ Served /\ Knows
    BY <1>1, NextGoes DEF Goes
  <2>2. QueueInv' /\ LeadInv' /\ EarlyInv' /\ TargetInv'
    BY <2>1, ServedKeeps DEF AppInv
  <2>3. KnownInv' /\ RunInv' /\ LockInv'
    BY <2>1, KnowsKeeps DEF AppInv
  <2> QED
    BY <2>1, <2>2, <2>3 DEF AppInv
<1>2. CASE UNCHANGED vars
  <2>1. TypeOK' /\ TypeOK
    BY <1>2 DEF vars, AppInv, TypeOK
  <2>2. Stays /\ RunsRemain
    BY <1>2 DEF vars, Stays, RunsRemain
  <2>3. QueueInv' /\ LeadInv' /\ EarlyInv' /\ TargetInv'
    BY <2>1, <2>2, StaysServes DEF AppInv
  <2>4. KnownInv' /\ RunInv' /\ LockInv'
    BY <1>2 DEF vars, AppInv, KnownInv, RunInv, LockInv
  <2> QED
    BY <2>1, <2>3, <2>4 DEF AppInv
<1> QED
  BY <1>1, <1>2

\* Application tasks: the types, and the parts above, hold throughout.
THEOREM AppInvariant == Spec => []AppInv
BY InitApp, NextApp, PTL DEF Spec

\* The variables keep their types.
THEOREM TypesHold == Spec => []TypeOK
<1>1. AppInv => TypeOK
  BY DEF AppInv
<1> QED
  BY <1>1, AppInvariant, PTL

\* Whoever waits will be answered: each request that awaits the worker is in its queue
\* once, and whom a task's activeRuns names, or another request joined, is at work.
THEOREM NobodyWaitsForNobody == Spec => []WaitersAreServed
<1>1. AppInv => WaitersAreServed
  <2> SUFFICES ASSUME AppInv PROVE WaitersAreServed
    OBVIOUS
  <2>1. Holds(queue, Waiting) /\ Waiting \in SUBSET Requests
    BY DEF AppInv, QueueInv, Waiting
  <2>2. Len(queue) = Cardinality({r \in Requests : req[r].pc \in AwaitsWorker})
    BY <2>1, HoldsCount DEF Waiting
  <2>3. DOMAIN queue = 1..Len(queue)
    BY <2>1, LenProperties DEF Holds
  <2>4. \A r \in Requests :
          req[r].pc \in AwaitsWorker => \E k \in DOMAIN queue : queue[k] = r
    BY <2>1, <2>3 DEF Holds, Waiting
  <2> QED
    BY <2>2, <2>4 DEF WaitersAreServed, AppInv, LeadInv
<1> QED
  BY <1>1, AppInvariant, PTL

\* A run whose final review is locked in the store is never started, resumed or
\* recovered again: whatever else happens, its application is submitted by the user or
\* not at all.
THEOREM LockedIsFinal == Spec => LockedRunStays
<1>1. AppInv /\ [Next]_vars =>
        [\A i \in RunIds : stored[i].locked /\ ~runs[i].live => ~runs'[i].live]_vars
  <2> SUFFICES ASSUME AppInv, Next
               PROVE  \A i \in RunIds : stored[i].locked /\ ~runs[i].live => ~runs'[i].live
    OBVIOUS
  <2>1. Knows /\ LockInv
    BY NextGoes DEF Goes, AppInv
  <2> QED
    BY <2>1 DEF Knows, ReviewsStay, LockInv
<1> QED
  BY <1>1, AppInvariant, PTL DEF Spec, LockedRunStays

-----------------------------------------------------------------------------
(* The pending question: the invariant.                                    *)

\* A run belongs to one task from its start: the one that remembers it, whose row is
\* the run's in the store, and whose request awaits it.
OwnerInv ==
  /\ \A i \in RunIds : runs[i].status = "none" => runs[i].task = None
  /\ \A t \in Tasks : memory[t].run # 0 => runs[memory[t].run].task = t
  /\ \A i \in RunIds : stored[i].task \in {None, runs[i].task}
  /\ \A r \in Requests : req[r].pc = "runtime" => runs[req[r].run].task = req[r].t

\* Each row has its place in the order of updatedAt.
OrderInv == \A i \in RunIds : stored[i].task # None => \E k \in DOMAIN saved : saved[k] = i

\* Only a run that waits has a question, and it does not execute.
AskInv ==
  \A i \in RunIds : /\ runs[i].ask # None => runs[i].status = "interrupted"
                    /\ runs[i].live => runs[i].status # "interrupted"

\* fallbackValues never says that the user is awaited.
FallbackInv == \A t \in Tasks : memory[t].fallback # "awaiting_human"

\* A request awaits run i.
AtRuntime(i) == \E r \in Requests : req[r].pc = "runtime" /\ req[r].run = i

\* A request awaits a run of t, and will publish its result, or is about to
\* delete t.
Busy(t) == \E r \in Requests : req[r].t = t /\ req[r].pc \in {"runtime", "delete"}

\* Until a restart, whoever started or resumed a run that goes on awaits it.
WatchInv ==
  crashes = 0 => \A i \in RunIds : runs[i].status = "running" => AtRuntime(i)

\* The run that t remembers has a row, and the rows of t hold the questions that
\* their runs wait for, unless a request is about to save the answer.
RowsAgree(t) ==
  /\ memory[t].run # 0 => stored[memory[t].run].task = t
  /\ \A i \in RunIds : stored[i].task = t /\ ~AtRuntime(i) => stored[i].ask = runs[i].ask

\* A snapshot that says that the user is awaited is the one of a run that waits,
\* and asks what runtimeInterrupts has; one that says that the page is observed
\* is of a run that does not wait.
SnapshotAgrees(t) ==
  LET i == memory[t].run IN
  /\ memory[t].snapshot = "awaiting_human" =>
       /\ i # 0 /\ runs[i].status = "interrupted"
       /\ cached[i] = None \/ cached[i].n = runs[i].ask.n
  /\ memory[t].snapshot = "observing" => i # 0 /\ runs[i].status # "interrupted"

TaskAgrees(t) == Exists(t) => RowsAgree(t) /\ (~Busy(t) => SnapshotAgrees(t))

AgreeInv == crashes = 0 => \A t \in Posted : TaskAgrees(t)

QuestionInv == /\ OwnerInv /\ OrderInv /\ AskInv /\ FallbackInv
               /\ WatchInv /\ AgreeInv

-----------------------------------------------------------------------------
(* The order of the rows.                                                  *)

\* Leaving out the row of run i keeps the places of the others.
LEMMA OthersKeep ==
  ASSUME TypeOK, NEW i \in RunIds, NEW k \in DOMAIN saved, saved[k] # i
  PROVE  \E m \in DOMAIN Others(i) : Others(i)[m] = saved[k]
<1> DEFINE before == {j \in DOMAIN saved : saved[j] = i}
<1>1. PICK n \in Nat : /\ n = Len(saved) /\ DOMAIN saved = 1..n
                       /\ \A j \in 1..n : saved[j] \in RunIds
  BY LenProperties DEF TypeOK
<1>2. CASE before = {}
  <2>1. Others(i) = saved
    BY <1>2 DEF Others
  <2> QED
    BY <2>1
<1>3. CASE before # {}
  <2>1. PICK p \in before : p = CHOOSE j \in before : TRUE
    BY <1>3
  <2>2. p \in 1..n /\ saved[p] = i /\ k \in 1..n /\ k # p
    BY <1>1, <2>1
  <2>3. PICK s \in Seq(RunIds) : /\ s = SubSeq(saved, 1, p - 1) /\ Len(s) = p - 1
                                 /\ \A j \in 1..(p - 1) : s[j] = saved[j]
    <3>1. \A j \in 1..(p - 1) : saved[j] \in RunIds
      BY <1>1, <2>2
    <3>2. 1 \in Int /\ p - 1 \in Int
      BY <2>2
    <3>3. /\ SubSeq(saved, 1, p - 1) \in Seq(RunIds)
          /\ Len(SubSeq(saved, 1, p - 1)) = IF 1 <= p - 1 THEN p - 1 - 1 + 1 ELSE 0
          /\ \A j \in 1..(p - 1 - 1 + 1) : SubSeq(saved, 1, p - 1)[j] = saved[1 + j - 1]
      BY <3>1, <3>2, SubSeqProperties
    <3>4. Len(SubSeq(saved, 1, p - 1)) = p - 1
      BY <2>2, <3>3
    <3>5. \A j \in 1..(p - 1) : SubSeq(saved, 1, p - 1)[j] = saved[j]
      <4>1. \A j \in 1..(p - 1) : j \in 1..(p - 1 - 1 + 1) /\ 1 + j - 1 = j
        BY <2>2
      <4> QED
        BY <3>3, <4>1
    <3> QED
      BY <3>3, <3>4, <3>5
  <2>4. PICK u \in Seq(RunIds) : /\ u = SubSeq(saved, p + 1, n) /\ Len(u) = n - p
                                 /\ \A j \in 1..(n - p) : u[j] = saved[p + j]
    <3>1. \A j \in (p + 1)..n : saved[j] \in RunIds
      BY <1>1, <2>2
    <3>2. p + 1 \in Int /\ n \in Int
      BY <2>2
    <3>3. /\ SubSeq(saved, p + 1, n) \in Seq(RunIds)
          /\ Len(SubSeq(saved, p + 1, n)) = IF p + 1 <= n THEN n - (p + 1) + 1 ELSE 0
          /\ \A j \in 1..(n - (p + 1) + 1) : SubSeq(saved, p + 1, n)[j] = saved[p + 1 + j - 1]
      BY <3>1, <3>2, SubSeqProperties
    <3>4. Len(SubSeq(saved, p + 1, n)) = n - p
      BY <2>2, <3>3
    <3>5. \A j \in 1..(n - p) : SubSeq(saved, p + 1, n)[j] = saved[p + j]
      <4>1. \A j \in 1..(n - p) : j \in 1..(n - (p + 1) + 1) /\ p + 1 + j - 1 = p + j
        BY <2>2
      <4> QED
        BY <3>3, <4>1
    <3> QED
      BY <3>3, <3>4, <3>5
  <2>5. Others(i) = s \o u
    BY <1>1, <1>3, <2>1, <2>3, <2>4 DEF Others
  <2>6. /\ s \o u \in Seq(RunIds) /\ Len(s \o u) = (p - 1) + (n - p)
        /\ \A j \in 1..(Len(s) + Len(u)) :
             (s \o u)[j] = IF j <= Len(s) THEN s[j] ELSE u[j - Len(s)]
    BY <2>3, <2>4, ConcatProperties
  <2>7. DOMAIN (s \o u) = 1..(n - 1)
    <3>1. DOMAIN (s \o u) = 1..Len(s \o u)
      BY <2>6, LenProperties
    <3>2. (p - 1) + (n - p) = n - 1
      BY <2>2
    <3> QED
      BY <2>6, <3>1, <3>2
  <2>8. CASE k < p
    <3>1. k \in 1..(p - 1) /\ k \in 1..(n - 1)
      BY <2>2, <2>8
    <3>2. (s \o u)[k] = s[k]
      BY <2>2, <2>3, <2>4, <2>6, <3>1
    <3> QED
      BY <2>3, <2>5, <2>7, <3>1, <3>2
  <2>9. CASE p < k
    <3>1. k - 1 \in 1..(n - 1) /\ k - p \in 1..(n - p) /\ ~ (k - 1 <= p - 1)
          /\ k - 1 - (p - 1) = k - p /\ p + (k - p) = k
      BY <2>2, <2>9
    <3>2. (s \o u)[k - 1] = u[k - p]
      BY <2>2, <2>3, <2>4, <2>6, <3>1
    <3> QED
      BY <2>4, <2>5, <2>7, <3>1, <3>2
  <2> QED
    BY <2>2, <2>8, <2>9
<1> QED
  BY <1>2, <1>3

\* What a step does to the rows.
Filed ==
  \/ stored' = stored /\ saved' = saved
  \/ \E i \in RunIds, row \in Rows : Saves(i, row)
  \/ \E i \in RunIds : stored' = [stored EXCEPT ![i] = NotStored] /\ saved' = Others(i)

\* Each row keeps its place.
LEMMA FiledKeeps ==
  ASSUME TypeOK, OrderInv, Filed
  PROVE  OrderInv'
<1>1. stored \in [RunIds -> Rows] /\ saved \in Seq(RunIds)
  BY TypeIs DEF Typed
<1>2. ASSUME NEW i \in RunIds, NEW row \in Rows, Saves(i, row), NEW j \in RunIds,
             stored'[j].task # None
      PROVE  \E k \in DOMAIN saved' : saved'[k] = j
  <2>1. PICK q \in Seq(RunIds) : q = Others(i)
    BY OthersType
  <2>2. PICK n \in Nat : n = Len(q) /\ DOMAIN q = 1..n
    BY <2>1, LenProperties
  <2>3. /\ saved' = Append(q, i)
        /\ DOMAIN saved' = 1..(n + 1)
        /\ \A k \in 1..n : saved'[k] = q[k]
        /\ saved'[n + 1] = i
    <3>1. saved' = Append(q, i)
      BY <1>2, <2>1 DEF Saves
    <3>2. /\ Append(q, i) \in Seq(RunIds) /\ Len(Append(q, i)) = n + 1
          /\ \A k \in 1..n : Append(q, i)[k] = q[k]
          /\ Append(q, i)[n + 1] = i
      BY <2>2, AppendProperties
    <3>3. DOMAIN Append(q, i) = 1..(n + 1)
      BY <3>2, LenProperties
    <3> QED
      BY <3>1, <3>2, <3>3
  <2>4. CASE j = i
    BY <2>3, <2>4
  <2>5. CASE j # i
    <3>1. stored[j].task # None
      BY <1>1, <1>2, <2>5 DEF Saves
    <3>2. PICK k \in DOMAIN saved : saved[k] = j
      BY <3>1 DEF OrderInv
    <3>3. PICK m \in DOMAIN q : q[m] = j
      BY <2>1, <2>5, <3>2, OthersKeep
    <3>4. m \in 1..n /\ m \in 1..(n + 1)
      BY <2>2, <3>3
    <3> QED
      BY <2>3, <3>3, <3>4
  <2> QED
    BY <2>4, <2>5
<1>3. ASSUME NEW i \in RunIds, stored' = [stored EXCEPT ![i] = NotStored], saved' = Others(i),
             NEW j \in RunIds, stored'[j].task # None
      PROVE  \E k \in DOMAIN saved' : saved'[k] = j
  <2>1. j # i /\ stored[j].task # None
    BY <1>1, <1>3 DEF NotStored
  <2>2. PICK k \in DOMAIN saved : saved[k] = j
    BY <2>1 DEF OrderInv
  <2> QED
    BY <1>3, <2>1, <2>2, OthersKeep
<1>4. CASE stored' = stored /\ saved' = saved
  BY <1>4 DEF OrderInv
<1> QED
  BY <1>2, <1>3, <1>4 DEF Filed, OrderInv

\* A task without a known run has no row.
LEMMA NoRowIs ==
  ASSUME TypeOK, OrderInv, NEW t \in Tasks, StoredRun(t) = 0
  PROVE  \A i \in RunIds : stored[i].task # t
<1> DEFINE mine == {k \in DOMAIN saved : stored[saved[k]].task = t}
<1>1. mine = {}
  <2>1. SUFFICES ASSUME mine # {} PROVE FALSE
    OBVIOUS
  <2>2. PICK n \in Nat : /\ n = Len(saved) /\ DOMAIN saved = 1..n
                         /\ \A k \in 1..n : saved[k] \in RunIds
    BY LenProperties DEF TypeOK
  <2>3. mine \in SUBSET (1..n)
    BY <2>2
  <2>4. \E k \in mine : \A j \in mine : j <= k
    BY <2>1, <2>3, LastOf
  <2>5. PICK k \in mine : k = CHOOSE m \in mine : \A j \in mine : j <= m
    BY <2>4
  <2>6. StoredRun(t) = saved[k]
    BY <2>1, <2>5 DEF StoredRun
  <2> QED
    BY <2>2, <2>3, <2>6 DEF RunIds
<1> QED
  BY <1>1, ConstantsAssumption DEF OrderInv

-----------------------------------------------------------------------------
(* What a step does to questions.                                          *)

\* A request that awaits a run goes on awaiting it.
Awaits(r) == req'[r].pc = "runtime" /\ req'[r].run = req[r].run /\ req'[r].t = req[r].t

\* What a step does to the owners of runs, to questions and to those who await
\* runs.
Books ==
  /\ Filed
  /\ \A i \in RunIds : /\ runs'[i].task = runs[i].task \/ runs[i].status = "none"
                       /\ runs'[i].status = "none" =>
                            runs[i].status = "none" /\ runs'[i].task = runs[i].task
  /\ \A t \in Tasks : memory'[t].run \in {0, memory[t].run} \/ runs'[memory'[t].run].task = t
  /\ \A i \in RunIds : stored'[i].task \in {None, stored[i].task, runs'[i].task}
  /\ \A r \in Requests : req'[r].pc = "runtime" =>
       \/ req[r].pc = "runtime" /\ Awaits(r)
       \/ runs'[req'[r].run].task = req'[r].t
  /\ \A i \in RunIds : /\ runs'[i].ask # None => runs'[i].status = "interrupted"
                       /\ runs'[i].live => runs'[i].status # "interrupted"
  /\ \A t \in Tasks : memory'[t].fallback # "awaiting_human"
  /\ crashes' = 0 => \A i \in RunIds : runs'[i].status = "running" =>
       \/ \E r \in Requests : req'[r].pc = "runtime" /\ req'[r].run = i
       \/ /\ runs[i].status = "running" /\ crashes = 0
          /\ \A r \in Requests : req[r].pc = "runtime" /\ req[r].run = i => Awaits(r)

\* The step leaves aside what concerns the question of t, or t is gone.
Aside(t) ==
  /\ Exists(t)' => Exists(t)
  /\ memory'[t].run = memory[t].run
  /\ \/ memory'[t].snapshot = memory[t].snapshot
     \/ memory'[t].snapshot \notin {"awaiting_human", "observing"}
  /\ \A i \in RunIds :
       IF runs[i].task = t
       THEN runs'[i] = runs[i] /\ stored'[i] = stored[i] /\ cached'[i] = cached[i]
       ELSE stored'[i].task # t
  /\ Exists(t)' => \A r \in Requests :
       req[r].t = t /\ req[r].pc \in {"runtime", "delete"} =>
         req'[r].pc = req[r].pc /\ req'[r].run = req[r].run /\ req'[r].t = t

\* What a step must do for the questions.
Answers ==
  /\ Books
  /\ crashes' = 0 => crashes = 0 /\ \A t \in Posted : Aside(t) \/ TaskAgrees(t)'

\* The books stay in order.
LEMMA BooksKeep ==
  ASSUME AppInv, AppInv', OwnerInv, OrderInv, WatchInv, Books
  PROVE  OwnerInv' /\ OrderInv' /\ AskInv' /\ FallbackInv' /\ WatchInv'
<1>1. TypeOK /\ TypeOK' /\ Typed /\ Typed' /\ KnownInv /\ TargetInv
  BY TypeIs DEF AppInv
<1>2. OrderInv'
  BY <1>1, FiledKeeps DEF Books
<1>3. AskInv' /\ FallbackInv'
  BY DEF Books, AskInv, FallbackInv
<1>4. ASSUME NEW t \in Tasks, memory'[t].run # 0 PROVE runs'[memory'[t].run].task = t
  <2>1. CASE memory'[t].run = memory[t].run
    <3>1. PICK i \in RunIds : i = memory[t].run /\ runs[i].status # "none"
      BY <1>1, <1>4, <2>1 DEF Typed, Cells, KnownInv
    <3>2. runs[i].task = t
      BY <1>4, <2>1, <3>1 DEF OwnerInv
    <3>3. runs'[i].task = runs[i].task
      BY <3>1 DEF Books
    <3> QED
      BY <2>1, <3>1, <3>2, <3>3
  <2>2. CASE memory'[t].run # memory[t].run
    BY <1>4, <2>2 DEF Books
  <2> QED
    BY <2>1, <2>2
<1>5. ASSUME NEW i \in RunIds PROVE stored'[i].task \in {None, runs'[i].task}
  <2>1. CASE stored'[i].task = stored[i].task /\ stored[i].task # None
    <3>1. runs[i].status # "none" /\ stored[i].task = runs[i].task
      BY <1>1, <2>1 DEF KnownInv, OwnerInv
    <3>2. runs'[i].task = runs[i].task
      BY <3>1 DEF Books
    <3> QED
      BY <2>1, <3>1, <3>2
  <2> QED
    BY <2>1 DEF Books
<1>6. ASSUME NEW r \in Requests, req'[r].pc = "runtime" PROVE runs'[req'[r].run].task = req'[r].t
  <2>1. CASE req[r].pc = "runtime" /\ Awaits(r)
    <3>1. PICK i \in RunIds : i = req[r].run /\ runs[i].status # "none"
      BY <1>1, <2>1 DEF TargetInv
    <3>2. runs'[i].task = runs[i].task /\ runs[i].task = req[r].t
      BY <2>1, <3>1 DEF Books, OwnerInv
    <3> QED
      BY <2>1, <3>1, <3>2 DEF Awaits
  <2> QED
    BY <1>6, <2>1 DEF Books
<1>7. OwnerInv'
  <2>1. \A i \in RunIds : runs'[i].status = "none" => runs'[i].task = None
    BY DEF Books, OwnerInv
  <2> QED
    BY <1>4, <1>5, <1>6, <2>1 DEF OwnerInv
<1>8. WatchInv'
  <2> SUFFICES ASSUME crashes' = 0, NEW i \in RunIds, runs'[i].status = "running"
               PROVE  AtRuntime(i)'
    BY DEF WatchInv
  <2>1. CASE \E r \in Requests : req'[r].pc = "runtime" /\ req'[r].run = i
    BY <2>1 DEF AtRuntime
  <2>2. CASE /\ runs[i].status = "running" /\ crashes = 0
             /\ \A r \in Requests : req[r].pc = "runtime" /\ req[r].run = i => Awaits(r)
    <3>1. PICK r \in Requests : req[r].pc = "runtime" /\ req[r].run = i
      BY <2>2 DEF WatchInv, AtRuntime
    <3>2. Awaits(r)
      BY <2>2, <3>1
    <3> QED
      BY <3>1, <3>2 DEF Awaits, AtRuntime
  <2> QED
    BY <2>1, <2>2 DEF Books
<1> QED
  BY <1>2, <1>3, <1>7, <1>8

\* A request at the Runtime awaits a run of its task.
LEMMA AtRuntimeIs ==
  ASSUME TypeOK, OwnerInv, NEW i \in RunIds, AtRuntime(i), NEW t \in Tasks, runs[i].task = t
  PROVE  \E r \in Requests : req[r].pc = "runtime" /\ req[r].run = i /\ req[r].t = t
BY DEF OwnerInv, AtRuntime

\* What is left aside goes on agreeing.
LEMMA AsideKeeps ==
  ASSUME AppInv, OwnerInv, NEW t \in Tasks, TaskAgrees(t), Aside(t)
  PROVE  TaskAgrees(t)'
<1> SUFFICES ASSUME Exists(t)' PROVE RowsAgree(t)' /\ (~Busy(t)' => SnapshotAgrees(t)')
  BY DEF TaskAgrees
<1>1. /\ TypeOK /\ Typed /\ KnownInv /\ RowsAgree(t) /\ (~Busy(t) => SnapshotAgrees(t))
  BY TypeIs DEF AppInv, TaskAgrees, Aside
<1>2. \A r \in Requests : req[r].t = t /\ req[r].pc \in {"runtime", "delete"} =>
        req'[r].pc = req[r].pc /\ req'[r].run = req[r].run /\ req'[r].t = t
  BY DEF Aside
<1>3. ASSUME memory[t].run # 0
      PROVE  /\ memory[t].run \in RunIds
             /\ runs'[memory[t].run] = runs[memory[t].run]
             /\ stored'[memory[t].run] = stored[memory[t].run]
             /\ cached'[memory[t].run] = cached[memory[t].run]
  <2>1. PICK i \in RunIds : i = memory[t].run /\ runs[i].task = t
    BY <1>1, <1>3 DEF Typed, Cells, OwnerInv
  <2> QED
    BY <2>1 DEF Aside
<1>4. memory'[t].run # 0 => stored'[memory'[t].run].task = t
  BY <1>1, <1>3 DEF RowsAgree, Aside
<1>5. ASSUME NEW i \in RunIds, stored'[i].task = t, ~AtRuntime(i)'
      PROVE  stored'[i].ask = runs'[i].ask
  <2>1. runs[i].task = t /\ runs'[i] = runs[i] /\ stored'[i] = stored[i]
    BY <1>5 DEF Aside
  <2>2. ~AtRuntime(i)
    <3>1. SUFFICES ASSUME AtRuntime(i) PROVE FALSE
      OBVIOUS
    <3>2. PICK r \in Requests : req[r].pc = "runtime" /\ req[r].run = i /\ req[r].t = t
      BY <1>1, <2>1, <3>1, AtRuntimeIs
    <3> QED
      BY <1>2, <1>5, <3>2 DEF AtRuntime
  <2> QED
    BY <1>1, <1>5, <2>1, <2>2 DEF RowsAgree
<1>6. RowsAgree(t)'
  BY <1>4, <1>5 DEF RowsAgree
<1>7. ASSUME ~Busy(t)' PROVE SnapshotAgrees(t)'
  <2>1. ~Busy(t)
    BY <1>2, <1>7 DEF Busy
  <2>2. SnapshotAgrees(t)
    BY <1>1, <2>1
  <2>3. CASE memory'[t].snapshot \notin {"awaiting_human", "observing"}
    BY <2>3 DEF SnapshotAgrees
  <2>4. CASE memory'[t].snapshot = memory[t].snapshot
    <3>1. memory'[t].run = memory[t].run
      BY DEF Aside
    <3>2. PICK i : i = memory[t].run
      OBVIOUS
    <3>3. i # 0 => runs'[i] = runs[i] /\ cached'[i] = cached[i]
      BY <1>3, <3>2
    <3>4. /\ memory[t].snapshot = "awaiting_human" =>
               /\ i # 0 /\ runs[i].status = "interrupted"
               /\ cached[i] = None \/ cached[i].n = runs[i].ask.n
          /\ memory[t].snapshot = "observing" => i # 0 /\ runs[i].status # "interrupted"
      BY <2>2, <3>2 DEF SnapshotAgrees
    <3> QED
      BY <2>4, <3>1, <3>2, <3>3, <3>4 DEF SnapshotAgrees
  <2> QED
    BY <2>3, <2>4 DEF Aside
<1> QED
  BY <1>6, <1>7

\* So a step that does what it must keeps the invariant.
LEMMA AnswersKeep ==
  ASSUME AppInv, AppInv', QuestionInv, Answers
  PROVE  QuestionInv'
<1>1. OwnerInv' /\ OrderInv' /\ AskInv' /\ FallbackInv' /\ WatchInv'
  BY BooksKeep DEF QuestionInv, Answers
<1>2. ASSUME crashes' = 0, NEW t \in Posted PROVE TaskAgrees(t)'
  <2>1. t \in Tasks /\ TaskAgrees(t)
    BY <1>2, ConstantsAssumption DEF Answers, QuestionInv, AgreeInv
  <2> QED
    BY <1>2, <2>1, AsideKeeps DEF Answers, QuestionInv
<1> QED
  BY <1>1, <1>2 DEF QuestionInv, AgreeInv

-----------------------------------------------------------------------------
(* Steps that leave runs and rows alone.                                   *)

\* The request r stays, or neither awaits a run nor deletes a task before the
\* step and awaits no run after it, or its task is gone.
Passes(r) ==
  \/ req'[r] = req[r]
  \/ req[r].pc \notin {"runtime", "delete"} /\ req'[r].pc # "runtime"
  \/ req[r].pc = "delete" /\ req'[r].pc # "runtime" /\ tasks'[req[r].t] = "absent"

\* The memory m shows what n does.
AsShown(m, n) ==
  \A t \in Tasks : /\ m[t].run = n[t].run /\ m[t].snapshot = n[t].snapshot
                   /\ m[t].fallback = n[t].fallback

\* Nothing is told of a run.
Frame ==
  /\ UNCHANGED <<cached, runs, stored, saved, crashes>>
  /\ \A t \in Tasks :
       /\ memory'[t].run = memory[t].run /\ memory'[t].fallback # "awaiting_human"
       /\ \/ memory'[t].snapshot = memory[t].snapshot
          \/ memory'[t].snapshot \notin {"awaiting_human", "observing"}
  /\ \A t \in Posted : Exists(t)' => Exists(t)
  /\ \A r \in Requests : Passes(r)

\* Such a step does what it must.
LEMMA FrameAnswers ==
  ASSUME AppInv, QuestionInv, Frame
  PROVE  Answers
<1>1. /\ TypeOK /\ Typed /\ OwnerInv /\ AskInv
      /\ UNCHANGED <<cached, runs, stored, saved, crashes>>
  BY TypeIs DEF AppInv, QuestionInv, Frame
<1>2. \A r \in Requests : req'[r].pc = "runtime" => req[r].pc = "runtime" /\ Awaits(r)
  BY DEF Frame, Passes, Awaits
<1>3. \A r \in Requests : req[r].pc = "runtime" => Awaits(r)
  BY DEF Frame, Passes, Awaits
<1>4. \A t \in Tasks : /\ memory'[t].run = memory[t].run
                       /\ memory'[t].fallback # "awaiting_human"
                       /\ \/ memory'[t].snapshot = memory[t].snapshot
                          \/ memory'[t].snapshot \notin {"awaiting_human", "observing"}
  BY DEF Frame
<1>5. Books
  <2>1. Filed
    BY <1>1 DEF Filed
  <2>2. \A i \in RunIds : /\ runs'[i].ask # None => runs'[i].status = "interrupted"
                          /\ runs'[i].live => runs'[i].status # "interrupted"
    BY <1>1 DEF AskInv
  <2>3. crashes' = 0 => \A i \in RunIds : runs'[i].status = "running" =>
          \/ \E r \in Requests : req'[r].pc = "runtime" /\ req'[r].run = i
          \/ /\ runs[i].status = "running" /\ crashes = 0
             /\ \A r \in Requests : req[r].pc = "runtime" /\ req[r].run = i => Awaits(r)
    BY <1>1, <1>3
  <2>4. /\ \A i \in RunIds : /\ runs'[i].task = runs[i].task \/ runs[i].status = "none"
                             /\ runs'[i].status = "none" =>
                                  runs[i].status = "none" /\ runs'[i].task = runs[i].task
        /\ \A i \in RunIds : stored'[i].task \in {None, stored[i].task, runs'[i].task}
    BY <1>1
  <2>5. \A r \in Requests : req'[r].pc = "runtime" =>
          \/ req[r].pc = "runtime" /\ Awaits(r)
          \/ runs'[req'[r].run].task = req'[r].t
    BY <1>2
  <2>6. /\ \A t \in Tasks : memory'[t].run \in {0, memory[t].run} \/ runs'[memory'[t].run].task = t
        /\ \A t \in Tasks : memory'[t].fallback # "awaiting_human"
    BY <1>4
  <2> QED
    BY <2>1, <2>2, <2>3, <2>4, <2>5, <2>6, Zenon DEF Books
<1>6. ASSUME NEW t \in Posted PROVE Aside(t)
  <2>1. t \in Tasks /\ t # None
    BY ConstantsAssumption
  <2>2. \A i \in RunIds :
          IF runs[i].task = t
          THEN runs'[i] = runs[i] /\ stored'[i] = stored[i] /\ cached'[i] = cached[i]
          ELSE stored'[i].task # t
    BY <1>1, <2>1 DEF OwnerInv
  <2>3. Exists(t)' => \A r \in Requests :
          req[r].t = t /\ req[r].pc \in {"runtime", "delete"} =>
            req'[r].pc = req[r].pc /\ req'[r].run = req[r].run /\ req'[r].t = t
    BY DEF Frame, Passes, Exists
  <2> QED
    BY <1>4, <2>1, <2>2, <2>3 DEF Aside, Frame
<1> QED
  BY <1>1, <1>5, <1>6 DEF Answers

\* activeRuns changes.
LEMMA ActiveShows ==
  ASSUME NEW m \in [Tasks -> Cells], NEW t \in Tasks, NEW r \in Requests \cup {None}
  PROVE  AsShown([m EXCEPT ![t].active = r], m)
<1>1. PICK c : c = [m[t] EXCEPT !.active = r]
  OBVIOUS
<1>2. c.run = m[t].run /\ c.snapshot = m[t].snapshot /\ c.fallback = m[t].fallback
  BY <1>1 DEF Cells
<1>3. [m EXCEPT ![t].active = r] = [m EXCEPT ![t] = c]
  BY <1>1
<1> QED
  BY <1>2, <1>3 DEF AsShown

\* And when runUntilPause is over.
LEMMA LeftShows ==
  ASSUME TypeOK, NEW r \in Requests, req[r].t \in Tasks
  PROVE  AsShown(Left(r), memory) /\ Left(r) \in [Tasks -> Cells]
<1>1. PICK t \in Tasks : t = req[r].t
  OBVIOUS
<1>2. memory[t] \in Cells /\ memory \in [Tasks -> Cells]
  BY DEF TypeOK, Cells
<1>3. PICK v \in Requests \cup {None} :
        v = IF memory[t].active = r THEN None ELSE memory[t].active
  BY <1>2 DEF Cells
<1>4. Left(r) = [memory EXCEPT ![t].active = v]
  BY <1>1, <1>2, <1>3 DEF Left
<1>5. AsShown(Left(r), memory)
  <2>1. \A m \in [Tasks -> Cells] : AsShown([m EXCEPT ![t].active = v], m)
    BY ActiveShows
  <2>2. AsShown([memory EXCEPT ![t].active = v], memory)
    BY <1>2, <2>1, Zenon
  <2> QED
    BY <1>4, <2>2, Zenon
<1> QED
  BY <1>5, LeftTypes

\* publish shows a value.
LEMMA PublishShows ==
  ASSUME TypeOK, NEW m \in [Tasks -> Cells], NEW t \in Tasks, NEW value \in Values,
         Publish(m, t, value)
  PROVE  /\ \A p \in Tasks :
              /\ memory'[p].run = m[p].run
              /\ memory'[p].snapshot = IF p = t THEN value ELSE m[p].snapshot
              /\ memory'[p].fallback = IF p = t THEN "none" ELSE m[p].fallback
         /\ \A p \in Tasks : Exists(p)' <=> Exists(p)
<1>1. PICK c : c = [m[t] EXCEPT !.snapshot = value, !.fallback = "none"]
  OBVIOUS
<1>2. c.run = m[t].run /\ c.snapshot = value /\ c.fallback = "none"
  BY <1>1 DEF Cells
<1>3. memory' = [m EXCEPT ![t] = c]
  BY <1>1 DEF Publish, Cells
<1>4. value # "absent"
  BY DEF Values, Terminal
<1>5. \A p \in Tasks : Exists(p)' <=> Exists(p)
  BY <1>4 DEF Publish, Exists, TypeOK
<1> QED
  BY <1>2, <1>3, <1>5

\* What a task shows is sent out.
LEMMA EmitsShows ==
  ASSUME TypeOK, memory' \in [Tasks -> Cells], NEW rs, NEW t \in Tasks, Emits(rs, t)
  PROVE  \A p \in Tasks : Exists(p)' <=> Exists(p)
<1>1. Value(memory', t) \in Values /\ "absent" \notin Values
  BY ValueType DEF Values, Terminal
<1>2. tasks \in [Tasks -> {"absent"} \cup Values]
  BY TypeIs DEF Typed
<1>3. PICK v : v = IF Exists(t) /\ \E r \in rs : req[r].op # "activity"
                   THEN Value(memory', t) ELSE tasks[t]
  OBVIOUS
<1>4. tasks' = [tasks EXCEPT ![t] = v]
  BY <1>3 DEF Emits
<1>5. v # "absent" <=> tasks[t] # "absent"
  BY <1>1, <1>3 DEF Exists
<1> QED
  BY <1>2, <1>4, <1>5 DEF Exists

\* After an await a request is idle or undoes what it created.
LEMMA AfterPc ==
  ASSUME TypeOK, NEW r \in Requests, NEW ok \in BOOLEAN
  PROVE  After(r, ok).pc \in {"idle", "undo"}
<1>1. req[r] \in Slots
  BY TypeIs DEF Typed
<1> QED
  BY <1>1 DEF After, Idle, Slots

\* Whoever joined returns with its leader.
LEMMA OverPasses ==
  ASSUME TypeOK, NEW r \in Requests, NEW ok \in BOOLEAN, RunOver(r, ok)
  PROVE  /\ req[r].pc \notin {"runtime", "delete"} => \A q \in Requests : Passes(q)
         /\ \A q \in Requests \ {r} : Passes(q)
         /\ req'[r].pc \in {"idle", "undo"}
<1>1. \A q \in Requests : req'[q] = IF q \in Callers(r) THEN After(q, ok) ELSE req[q]
  BY DEF RunOver
<1>2. \A q \in Callers(r) : q = r \/ req[q].pc = "join"
  BY DEF Callers
<1>3. r \in Callers(r)
  BY DEF Callers
<1>4. \A q \in Requests : q \in Callers(r) => req'[q].pc \in {"idle", "undo"}
  BY <1>1, AfterPc
<1> QED
  BY <1>1, <1>2, <1>3, <1>4 DEF Passes

\* One request goes on.
LEMMA OnePasses ==
  ASSUME TypeOK, NEW r \in Requests, NEW x, req' = [req EXCEPT ![r] = x],
         req[r].pc \notin {"runtime", "delete"}, x.pc # "runtime"
  PROVE  \A q \in Requests : Passes(q)
BY TypeIs DEF Typed, Passes

\* Entering runUntilPause.
LEMMA EntersShows ==
  ASSUME TypeOK, NEW r \in Requests, NEW z \in Slots, z.t \in Tasks, NEW q,
         req[r].pc \notin {"runtime", "delete"}, EnterRun(r, z, q)
  PROVE  AsShown(memory', memory) /\ \A p \in Requests : Passes(p)
<1>1. memory \in [Tasks -> Cells]
  BY TypeIs DEF Typed
<1>2. CASE memory[z.t].active # None
  <2>1. PICK x : x = [z EXCEPT !.pc = "join", !.leader = memory[z.t].active]
    OBVIOUS
  <2>2. x.pc = "join" /\ req' = [req EXCEPT ![r] = x] /\ memory' = memory
    BY <1>2, <2>1 DEF EnterRun, Slots
  <2> QED
    BY <2>2, OnePasses DEF AsShown
<1>3. CASE memory[z.t].active = None
  <2>1. PICK x : x = [z EXCEPT !.pc = "observe"]
    OBVIOUS
  <2>2. /\ x.pc = "observe" /\ req' = [req EXCEPT ![r] = x]
        /\ memory' = [memory EXCEPT ![z.t].active = r]
    BY <1>3, <2>1 DEF EnterRun, Slots
  <2>3. AsShown(memory', memory)
    BY <1>1, <2>2, ActiveShows
  <2> QED
    BY <2>2, <2>3, OnePasses
<1> QED
  BY <1>2, <1>3

\* A step that shows what was shown.
LEMMA ShownFrame ==
  ASSUME QuestionInv, UNCHANGED <<cached, runs, stored, saved, crashes>>, AsShown(memory', memory),
         \A t \in Posted : Exists(t)' => Exists(t),
         \A r \in Requests : Passes(r)
  PROVE  Frame
BY DEF QuestionInv, FallbackInv, AsShown, Frame

-----------------------------------------------------------------------------
(* Steps that tell nothing of a run.                                       *)

\* One request goes on, and nothing else changes that concerns a question.
LEMMA GoesOnFrame ==
  ASSUME AppInv, QuestionInv, UNCHANGED <<memory, cached, runs, stored, saved, crashes>>,
         \A t \in Posted : Exists(t)' => Exists(t),
         NEW r \in Requests, NEW x, req' = [req EXCEPT ![r] = x],
         req[r].pc \notin {"runtime", "delete"}, x.pc # "runtime"
  PROVE  Answers
<1>1. \A q \in Requests : Passes(q)
  BY OnePasses DEF AppInv
<1>2. AsShown(memory', memory)
  BY DEF AsShown
<1>3. Frame
  BY <1>1, <1>2, ShownFrame
<1> QED
  BY <1>3, FrameAnswers

\* An activity of the worker.
LEMMA PageStableAnswers ==
  ASSUME AppInv, QuestionInv, NEW r \in Requests, NEW t \in Tasks, PageStable(r, t)
  PROVE  Answers
<1>1. UNCHANGED <<tasks, cached, runs, stored, saved, crashes>> /\ TypeOK
  BY DEF PageStable, AppInv
<1>2. PICK z : z = Starts(r, "activity", t, "enter")
  OBVIOUS
<1>3. z \in Slots /\ z.t = t
  BY <1>2 DEF Starts, Idle, Slots
<1>4. EnterRun(r, z, queue) /\ req[r].pc \notin {"runtime", "delete"}
  BY <1>2 DEF PageStable, Free
<1>5. AsShown(memory', memory) /\ \A q \in Requests : Passes(q)
  BY <1>1, <1>3, <1>4, EntersShows
<1>6. Frame
  BY <1>1, <1>5, ShownFrame DEF Exists
<1> QED
  BY <1>6, FrameAnswers

\* The second half of answer_questions.
LEMMA EnterAgainAnswers ==
  ASSUME AppInv, QuestionInv, NEW r \in Requests, EnterAgain(r)
  PROVE  Answers
<1>1. /\ UNCHANGED <<tasks, cached, runs, stored, saved, crashes>> /\ TypeOK
      /\ req[r].pc = "enter"
  BY DEF EnterAgain, AppInv
<1>2. CASE CannotEnter(req[r].t)
  <2>1. req' = [req EXCEPT ![r] = After(r, FALSE)] /\ memory' = memory
    BY <1>2 DEF EnterAgain
  <2>2. After(r, FALSE).pc # "runtime"
    BY <1>1, AfterPc
  <2> QED
    BY <1>1, <2>1, <2>2, GoesOnFrame DEF Exists
<1>3. CASE ~CannotEnter(req[r].t)
  <2>1. EnterRun(r, req[r], queue)
    BY <1>3 DEF EnterAgain
  <2>2. req[r] \in Slots /\ req[r].t \in Tasks
    BY <1>1, TypeIs DEF Typed, AppInv, TargetInv
  <2>3. AsShown(memory', memory) /\ \A q \in Requests : Passes(q)
    BY <1>1, <2>1, <2>2, EntersShows
  <2>4. Frame
    BY <1>1, <2>3, ShownFrame DEF Exists
  <2> QED
    BY <2>4, FrameAnswers
<1> QED
  BY <1>2, <1>3

\* The page has drifted.
LEMMA DriftsAnswers ==
  ASSUME AppInv, QuestionInv, NEW r \in Requests, Drifts(r) \/ DriftsAgain(r)
  PROVE  Answers
<1>1. /\ UNCHANGED <<tasks, memory, cached, runs, stored, saved, crashes>>
      /\ req[r].pc \notin {"runtime", "delete"}
  BY DEF Drifts, DriftsAgain, Answered
<1>2. PICK pc \in {"prepare", "reviewing"} : req' = [req EXCEPT ![r].pc = pc]
  BY DEF Drifts, DriftsAgain
<1>3. PICK x \in Slots : x.pc = pc /\ req' = [req EXCEPT ![r] = x]
  <2>1. pc \in {"prepare", "release", "delete", "reviewing", "seeded"} /\ TypeOK
    BY DEF AppInv
  <2>2. \E x \in Slots : /\ x.pc = pc /\ x.op = req[r].op /\ x.t = req[r].t
                         /\ x.again = req[r].again
                         /\ [req EXCEPT ![r].pc = pc] = [req EXCEPT ![r] = x]
    BY <2>1, PcTo
  <2> QED
    BY <1>2, <2>2
<1> QED
  BY <1>1, <1>3, GoesOnFrame DEF Exists

\* The certification of the adapter fails.
LEMMA CertifyFailsAnswers ==
  ASSUME AppInv, QuestionInv, NEW r \in Requests, CertifyFails(r)
  PROVE  Answers
<1>1. /\ UNCHANGED <<tasks, memory, cached, runs, stored, saved, crashes>>
      /\ req[r].pc \notin {"runtime", "delete"}
      /\ req' = [req EXCEPT ![r] = Idle] /\ Idle.pc # "runtime"
  BY DEF CertifyFails, Answered, Idle
<1> QED
  BY <1>1, GoesOnFrame DEF Exists

\* The page does not open.
LEMMA OpenFailsAnswers ==
  ASSUME AppInv, QuestionInv, NEW r \in Requests, OpenFails(r)
  PROVE  Answers
<1>1. /\ UNCHANGED <<tasks, memory, cached, runs, stored, saved, crashes>>
      /\ req[r].pc \notin {"runtime", "delete"} /\ TypeOK
      /\ req' = [req EXCEPT ![r] = After(r, FALSE)]
  BY DEF OpenFails, Answered, AppInv
<1>2. After(r, FALSE).pc # "runtime"
  BY <1>1, AfterPc
<1> QED
  BY <1>1, <1>2, GoesOnFrame DEF Exists

\* open_browser.
LEMMA OpenStartAnswers ==
  ASSUME AppInv, QuestionInv, NEW r \in Requests, NEW t \in Tasks, OpenStart(r, t)
  PROVE  Answers
<1>1. /\ UNCHANGED <<tasks, memory, cached, runs, stored, saved, crashes>>
      /\ req[r].pc \notin {"runtime", "delete"}
  BY DEF OpenStart, Free
<1>2. PICK y : y = Starts(r, "open", t, "open")
  OBVIOUS
<1>3. y \in Slots /\ y.pc = "open"
  BY <1>2 DEF Starts, Idle, Slots
<1>4. PICK x : x = [y EXCEPT !.reserved = (lease = None)]
  OBVIOUS
<1>5. x.pc # "runtime" /\ req' = [req EXCEPT ![r] = x]
  BY <1>2, <1>3, <1>4 DEF Slots, OpenStart
<1> QED
  BY <1>1, <1>5, GoesOnFrame DEF Exists

\* certify_adapter.
LEMMA CertifyStartAnswers ==
  ASSUME AppInv, QuestionInv, NEW r \in Requests, NEW t \in Tasks, CertifyStart(r, t)
  PROVE  Answers
<1>1. /\ UNCHANGED <<tasks, memory, cached, runs, stored, saved, crashes>>
      /\ req[r].pc \notin {"runtime", "delete"}
  BY DEF CertifyStart, Free
<1>2. PICK x : x = Starts(r, "certify", t, "certify")
  OBVIOUS
<1>3. x.pc # "runtime" /\ req' = [req EXCEPT ![r] = x]
  BY <1>2 DEF Starts, Idle, CertifyStart
<1> QED
  BY <1>1, <1>3, GoesOnFrame DEF Exists

\* The page opens.
LEMMA OpenedAnswers ==
  ASSUME AppInv, QuestionInv, NEW r \in Requests, Opened(r)
  PROVE  Answers
<1>1. /\ UNCHANGED <<cached, runs, stored, saved, crashes>> /\ TypeOK /\ Typed
      /\ req[r].pc = "open"
  BY TypeIs DEF Opened, Answered, AppInv
<1>2. req[r] \in Slots /\ req[r].t \in Tasks
  BY <1>1 DEF Typed, AppInv, TargetInv
<1>3. ASSUME NEW ok \in BOOLEAN, req' = [req EXCEPT ![r] = After(r, ok)], memory' = memory,
             tasks' = tasks \/ Emits({r}, req[r].t)
      PROVE  Answers
  <2>1. After(r, ok).pc # "runtime"
    BY <1>1, AfterPc
  <2>2. \A t \in Posted : Exists(t)' => Exists(t)
    <3>1. CASE tasks' = tasks
      BY <3>1 DEF Exists
    <3>2. CASE Emits({r}, req[r].t)
      <4>1. memory' \in [Tasks -> Cells]
        BY <1>1, <1>3 DEF Typed
      <4> QED
        BY <1>1, <1>2, <3>2, <4>1, EmitsShows, ConstantsAssumption
    <3> QED
      BY <1>3, <3>1, <3>2
  <2> QED
    BY <1>1, <1>3, <2>1, <2>2, GoesOnFrame
<1>4. CASE req[r].op = "open" /\ (~Exists(req[r].t) \/ Value(memory, req[r].t) # "observing")
  <2>1. /\ req' = [req EXCEPT ![r] = After(r, Exists(req[r].t))]
        /\ memory' = memory /\ Emits({r}, req[r].t)
    BY <1>4 DEF Opened
  <2>2. Exists(req[r].t) \in BOOLEAN
    BY DEF Exists
  <2> QED
    BY <1>3, <2>1, <2>2
<1>5. CASE /\ ~ (/\ req[r].op = "open"
                 /\ ~Exists(req[r].t) \/ Value(memory, req[r].t) # "observing")
           /\ CannotEnter(req[r].t)
  <2>1. req' = [req EXCEPT ![r] = After(r, FALSE)] /\ memory' = memory /\ tasks' = tasks
    BY <1>5 DEF Opened
  <2> QED
    BY <1>3, <2>1
<1>6. CASE /\ ~ (/\ req[r].op = "open"
                 /\ ~Exists(req[r].t) \/ Value(memory, req[r].t) # "observing")
           /\ ~CannotEnter(req[r].t)
  <2>1. PICK z : z = [req[r] EXCEPT !.reserved = FALSE]
    OBVIOUS
  <2>2. z \in Slots /\ z.t = req[r].t
    BY <1>2, <2>1 DEF Slots
  <2>3. EnterRun(r, z, Tail(queue)) /\ tasks' = tasks
    BY <1>6, <2>1 DEF Opened
  <2>4. AsShown(memory', memory) /\ \A q \in Requests : Passes(q)
    BY <1>1, <1>2, <2>2, <2>3, EntersShows
  <2>5. Frame
    BY <1>1, <2>3, <2>4, ShownFrame DEF Exists
  <2> QED
    BY <2>5, FrameAnswers
<1> QED
  BY <1>4, <1>5, <1>6

\* The adapter's review is prepared, or published again.
LEMMA ReviewAnswers ==
  ASSUME AppInv, QuestionInv, NEW r \in Requests, ReviewPrepared(r) \/ StillDrifts(r)
  PROVE  Answers
<1>1. /\ UNCHANGED <<cached, runs, stored, saved, crashes>> /\ TypeOK /\ Typed
      /\ req[r].pc \in {"prepare", "reviewing"} /\ req[r].t \in Tasks
  BY TypeIs DEF ReviewPrepared, StillDrifts, AppInv, TargetInv
<1>2. PICK m \in [Tasks -> Cells] :
        AsShown(m, memory) /\ Publish(m, req[r].t, "awaiting_adapter_review")
  <2>1. CASE ReviewPrepared(r)
    BY <1>1, <2>1, LeftShows DEF ReviewPrepared
  <2>2. CASE StillDrifts(r)
    BY <1>1, <2>2 DEF StillDrifts, AsShown, Typed
  <2> QED
    BY <2>1, <2>2
<1>3. PICK t \in Tasks : t = req[r].t
  BY <1>1
<1>4. "awaiting_adapter_review" \in Values /\ Publish(m, t, "awaiting_adapter_review")
  BY <1>2, <1>3 DEF Values
<1>5. /\ \A p \in Tasks :
           /\ memory'[p].run = m[p].run
           /\ memory'[p].snapshot = IF p = t THEN "awaiting_adapter_review" ELSE m[p].snapshot
           /\ memory'[p].fallback = IF p = t THEN "none" ELSE m[p].fallback
      /\ \A p \in Tasks : Exists(p)' <=> Exists(p)
  BY <1>1, <1>4, PublishShows
<1>6. \A q \in Requests : Passes(q)
  <2>1. CASE ReviewPrepared(r)
    <3>1. RunOver(r, TRUE)
      BY <2>1 DEF ReviewPrepared
    <3> QED
      BY <1>1, <3>1, OverPasses
  <2>2. CASE StillDrifts(r)
    <3>1. PICK x : x = Idle
      OBVIOUS
    <3>2. x.pc # "runtime" /\ req' = [req EXCEPT ![r] = x]
      BY <2>2, <3>1 DEF StillDrifts, Idle
    <3> QED
      BY <1>1, <3>2, OnePasses
  <2> QED
    BY <2>1, <2>2
<1>7. \A p \in Tasks : /\ memory'[p].run = memory[p].run /\ memory'[p].fallback # "awaiting_human"
                       /\ \/ memory'[p].snapshot = memory[p].snapshot
                          \/ memory'[p].snapshot \notin {"awaiting_human", "observing"}
  BY <1>2, <1>5, Zenon DEF AsShown, QuestionInv, FallbackInv
<1>8. \A p \in Posted : Exists(p)' => Exists(p)
  BY <1>5, ConstantsAssumption
<1>9. Frame
  BY <1>1, <1>6, <1>7, <1>8 DEF Frame
<1> QED
  BY <1>9, FrameAnswers

\* Or cannot be.
LEMMA PrepareFailsAnswers ==
  ASSUME AppInv, QuestionInv, NEW r \in Requests, PrepareFails(r)
  PROVE  Answers
<1>1. /\ UNCHANGED <<tasks, cached, runs, stored, saved, crashes>> /\ TypeOK
      /\ req[r].pc = "prepare" /\ req[r].t \in Tasks /\ memory' = Left(r) /\ RunOver(r, FALSE)
  BY DEF PrepareFails, AppInv, TargetInv
<1>2. AsShown(memory', memory)
  BY <1>1, LeftShows
<1>3. \A q \in Requests : Passes(q)
  BY <1>1, OverPasses
<1>4. Frame
  BY <1>1, <1>2, <1>3, ShownFrame DEF Exists
<1> QED
  BY <1>4, FrameAnswers

\* The page matches a certified pack.
LEMMA CertifiedAnswers ==
  ASSUME AppInv, QuestionInv, NEW r \in Requests, Certified(r)
  PROVE  Answers
<1>1. /\ UNCHANGED <<tasks, cached, runs, stored, saved, crashes>> /\ TypeOK /\ Typed
      /\ req[r].pc = "certify"
  BY TypeIs DEF Certified, Answered, AppInv
<1>2. PICK t \in Tasks : t = req[r].t
  BY <1>1 DEF AppInv, TargetInv
<1>3. PICK m : m = [memory EXCEPT ![t].snapshot = "none", ![t].fallback = "observing"]
  OBVIOUS
<1>4. /\ m \in [Tasks -> Cells]
      /\ \A p \in Tasks : /\ m[p].run = memory[p].run
                          /\ m[p].snapshot = IF p = t THEN "none" ELSE memory[p].snapshot
                          /\ m[p].fallback = IF p = t THEN "observing" ELSE memory[p].fallback
  <2>1. PICK c : c = [memory[t] EXCEPT !.snapshot = "none", !.fallback = "observing"]
    OBVIOUS
  <2>2. /\ c \in Cells /\ c.run = memory[t].run /\ c.snapshot = "none"
        /\ c.fallback = "observing" /\ memory \in [Tasks -> Cells]
    BY <1>1, <2>1 DEF Typed, Cells, Values
  <2>3. m = [memory EXCEPT ![t] = c]
    BY <1>3, <2>1, <2>2 DEF Cells
  <2> QED
    BY <2>2, <2>3
<1>5. m[t] \in Cells /\ req[r] \in Slots
  BY <1>1, <1>4 DEF Typed
<1>6. AsShown(memory', m) /\ \A q \in Requests : Passes(q)
  <2>1. CASE m[t].active # None
    <3>1. req' = [req EXCEPT ![r].pc = "join", ![r].leader = m[t].active] /\ memory' = m
      BY <1>2, <1>3, <2>1 DEF Certified
    <3>2. PICK x : x = [req[r] EXCEPT !.pc = "join", !.leader = m[t].active]
      OBVIOUS
    <3>3. x.pc = "join" /\ req' = [req EXCEPT ![r] = x]
      BY <1>5, <3>1, <3>2 DEF Slots
    <3> QED
      BY <1>1, <3>1, <3>3, OnePasses DEF AsShown
  <2>2. CASE m[t].active = None /\ Exists(t) /\ lease \in {None, t}
    <3>1. req' = [req EXCEPT ![r].pc = "seeded"] /\ memory' = [m EXCEPT ![t].active = r]
      BY <1>2, <1>3, <2>2 DEF Certified
    <3>2. AsShown([m EXCEPT ![t].active = r], m)
      BY <1>4, ActiveShows
    <3>3. PICK x : x = [req[r] EXCEPT !.pc = "seeded"]
      OBVIOUS
    <3>4. x.pc = "seeded" /\ req' = [req EXCEPT ![r] = x]
      BY <1>5, <3>1, <3>3 DEF Slots
    <3> QED
      BY <1>1, <3>1, <3>2, <3>4, OnePasses
  <2>3. CASE m[t].active = None /\ ~ (Exists(t) /\ lease \in {None, t})
    <3>1. req' = [req EXCEPT ![r] = Idle] /\ memory' = m
      BY <1>2, <1>3, <2>3 DEF Certified
    <3>2. PICK x : x = Idle
      OBVIOUS
    <3>3. x.pc # "runtime" /\ req' = [req EXCEPT ![r] = x]
      BY <3>1, <3>2 DEF Idle
    <3> QED
      BY <1>1, <3>1, <3>3, OnePasses DEF AsShown
  <2> QED
    BY <2>1, <2>2, <2>3
<1>7. \A p \in Tasks : /\ memory'[p].run = memory[p].run /\ memory'[p].fallback # "awaiting_human"
                       /\ \/ memory'[p].snapshot = memory[p].snapshot
                          \/ memory'[p].snapshot \notin {"awaiting_human", "observing"}
  BY <1>4, <1>6 DEF AsShown, QuestionInv, FallbackInv
<1>8. Frame
  BY <1>1, <1>6, <1>7 DEF Frame, Exists
<1> QED
  BY <1>8, FrameAnswers

\* The row goes.
LEMMA DeletedAnswers ==
  ASSUME AppInv, QuestionInv, NEW r \in Requests, Deleted(r)
  PROVE  Answers
<1>1. /\ UNCHANGED <<memory, cached, runs, stored, saved, crashes>>
      /\ req[r].pc = "delete"
      /\ tasks' = [tasks EXCEPT ![req[r].t] = "absent"]
      /\ req' = [req EXCEPT ![r] = Idle]
      /\ TypeOK /\ Typed /\ req[r].t \in Tasks
  BY TypeIs DEF Deleted, Answered, AppInv, TargetInv
<1>2. tasks'[req[r].t] = "absent" /\ \A t \in Tasks : tasks'[t] \in {"absent", tasks[t]}
  BY <1>1 DEF Typed
<1>3. \A t \in Posted : Exists(t)' => Exists(t)
  BY <1>2, ConstantsAssumption DEF Exists
<1>4. \A q \in Requests : Passes(q)
  BY <1>1, <1>2 DEF Passes, Idle, Typed
<1>5. AsShown(memory', memory)
  BY <1>1 DEF AsShown
<1>6. Frame
  BY <1>1, <1>3, <1>4, <1>5, ShownFrame
<1> QED
  BY <1>6, FrameAnswers

\* A conversation or a job match creates a task.
LEMMA ConvertedAnswers ==
  ASSUME AppInv, QuestionInv, NEW t \in Tasks, Converted(t)
  PROVE  Answers
<1>1. /\ UNCHANGED <<cached, runs, stored, saved, req, crashes>>
      /\ tasks' = [tasks EXCEPT ![t] = "created"] /\ t \notin Posted
      /\ memory' \in {memory, [memory EXCEPT ![t].fallback = "observing"]}
      /\ Typed
  BY TypeIs DEF Converted, AppInv
<1>2. PICK c : c = [memory[t] EXCEPT !.fallback = "observing"]
  OBVIOUS
<1>3. /\ c.run = memory[t].run /\ c.snapshot = memory[t].snapshot /\ c.fallback = "observing"
      /\ [memory EXCEPT ![t].fallback = "observing"] = [memory EXCEPT ![t] = c]
  BY <1>1, <1>2 DEF Typed, Cells
<1>4. \A p \in Tasks : /\ memory'[p].run = memory[p].run /\ memory'[p].fallback # "awaiting_human"
                       /\ memory'[p].snapshot = memory[p].snapshot
  BY <1>1, <1>3 DEF Typed, QuestionInv, FallbackInv
<1>5. \A p \in Posted : Exists(p)' => Exists(p)
  BY <1>1, ConstantsAssumption DEF Typed, Exists
<1>6. \A q \in Requests : Passes(q)
  BY <1>1 DEF Passes
<1>7. Frame
  BY <1>1, <1>4, <1>5, <1>6 DEF Frame
<1> QED
  BY <1>7, FrameAnswers

\* A job match takes or returns the browser, or nothing happens.
LEMMA JobsAnswers ==
  ASSUME AppInv, QuestionInv,
         UNCHANGED <<tasks, memory, cached, runs, stored, saved, req, crashes>>
  PROVE  Answers
<1>1. Frame
  BY DEF Frame, QuestionInv, FallbackInv, Exists, Passes
<1> QED
  BY <1>1, FrameAnswers

-----------------------------------------------------------------------------
(* Steps about one run.                                                    *)

\* What concerns a question, but for run i.
ButRun(i) ==
  \A j \in RunIds : j # i =>
    runs'[j] = runs[j] /\ stored'[j] = stored[j] /\ cached'[j] = cached[j]

\* The tasks that run i does not belong to.
LEMMA OneRunAside ==
  ASSUME TypeOK, OwnerInv, NEW p \in Tasks, NEW i \in RunIds,
         Exists(p)' => Exists(p),
         memory'[p].run = memory[p].run, memory'[p].snapshot = memory[p].snapshot,
         ButRun(i), runs[i].task # p, stored'[i].task # p,
         \A q \in Requests :
           req[q].t = p => Passes(q) \/ req[q].pc \notin {"runtime", "delete"}
  PROVE  Aside(p)
<1>1. ASSUME NEW j \in RunIds
      PROVE  IF runs[j].task = p
             THEN runs'[j] = runs[j] /\ stored'[j] = stored[j] /\ cached'[j] = cached[j]
             ELSE stored'[j].task # p
  <2>1. CASE j = i
    BY <2>1
  <2>2. CASE j # i
    BY <2>2, ConstantsAssumption DEF ButRun, OwnerInv
  <2> QED
    BY <2>1, <2>2
<1>2. Exists(p)' => \A q \in Requests :
        req[q].t = p /\ req[q].pc \in {"runtime", "delete"} =>
          req'[q].pc = req[q].pc /\ req'[q].run = req[q].run /\ req'[q].t = p
  BY DEF Passes, Exists
<1> QED
  BY <1>1, <1>2 DEF Aside

\* The books, when one run changes.
LEMMA OneRunBooks ==
  ASSUME AppInv, QuestionInv, NEW i \in RunIds, Filed, crashes' = crashes,
         \A j \in RunIds : j # i => runs'[j] = runs[j],
         runs'[i].task = runs[i].task \/ runs[i].status = "none",
         runs'[i].status # "none",
         runs'[i].ask # None => runs'[i].status = "interrupted",
         runs'[i].live => runs'[i].status # "interrupted",
         runs'[i].status = "running" =>
           \/ runs[i].status = "running"
           \/ \E q \in Requests : req'[q].pc = "runtime" /\ req'[q].run = i,
         \A j \in RunIds : \/ stored'[j].task \in {None, stored[j].task}
                           \/ j = i /\ stored'[i].task = runs'[i].task,
         \A p \in Tasks : /\ \/ memory'[p].run \in {0, memory[p].run}
                             \/ memory'[p].run = i /\ runs'[i].task = p
                          /\ memory'[p].fallback # "awaiting_human",
         \A q \in Requests :
           /\ req'[q].pc = "runtime" => \/ req[q].pc = "runtime" /\ Awaits(q)
                                        \/ req'[q].run = i /\ runs'[i].task = req'[q].t
           /\ req[q].pc = "runtime" => Awaits(q) \/ runs'[req[q].run].status # "running"
  PROVE  Books
<1>1. OwnerInv /\ AskInv
  BY DEF QuestionInv
<1>2. \A j \in RunIds : /\ runs'[j].task = runs[j].task \/ runs[j].status = "none"
                        /\ runs'[j].status = "none" =>
                             runs[j].status = "none" /\ runs'[j].task = runs[j].task
  OBVIOUS
<1>3. \A p \in Tasks : memory'[p].run \in {0, memory[p].run} \/ runs'[memory'[p].run].task = p
  OBVIOUS
<1>4. \A j \in RunIds : stored'[j].task \in {None, stored[j].task, runs'[j].task}
  OBVIOUS
<1>5. \A q \in Requests : req'[q].pc = "runtime" =>
        \/ req[q].pc = "runtime" /\ Awaits(q)
        \/ runs'[req'[q].run].task = req'[q].t
  OBVIOUS
<1>6. \A j \in RunIds : /\ runs'[j].ask # None => runs'[j].status = "interrupted"
                        /\ runs'[j].live => runs'[j].status # "interrupted"
  BY <1>1 DEF AskInv
<1>7. \A p \in Tasks : memory'[p].fallback # "awaiting_human"
  OBVIOUS
<1>8. ASSUME crashes' = 0, NEW j \in RunIds, runs'[j].status = "running"
      PROVE  \/ \E q \in Requests : req'[q].pc = "runtime" /\ req'[q].run = j
             \/ /\ runs[j].status = "running" /\ crashes = 0
                /\ \A q \in Requests : req[q].pc = "runtime" /\ req[q].run = j => Awaits(q)
  <2>1. CASE runs[j].status = "running"
    BY <1>8, <2>1
  <2>2. CASE runs[j].status # "running"
    BY <1>8, <2>2
  <2> QED
    BY <2>1, <2>2
<1> QED
  BY <1>2, <1>3, <1>4, <1>5, <1>6, <1>7, <1>8, Zenon DEF Books

\* A run that executes is awaited.
LEMMA RunningIsAwaited ==
  ASSUME QuestionInv, crashes = 0, NEW i \in RunIds, runs[i].status = "running"
  PROVE  \E q \in Requests : req[q].pc = "runtime" /\ req[q].run = i /\ req[q].t = runs[i].task
BY DEF QuestionInv, WatchInv, AtRuntime, OwnerInv

\* A step of the executor or the Runtime, of a run that is awaited, or of one that
\* has ended.
LEMMA ExecutorAnswers ==
  ASSUME AppInv, QuestionInv, NEW i \in RunIds, Filed, ButRun(i),
         UNCHANGED <<tasks, memory, cached, req, crashes>>,
         runs[i].status # "none",
         runs'[i].task = runs[i].task, runs'[i].status # "none",
         runs'[i].ask # None => runs'[i].status = "interrupted",
         runs'[i].live => runs'[i].status # "interrupted",
         runs'[i].status = "running" => runs[i].status = "running",
         stored'[i].task \in {stored[i].task, runs[i].task},
         \/ runs[i].status = "running"
         \/ /\ runs[i].status # "interrupted"
            /\ runs'[i].status = runs[i].status /\ runs'[i].ask = runs[i].ask
            /\ stored'[i] = stored[i] \/ stored'[i].ask = None
  PROVE  Answers
<1>1. TypeOK /\ Typed /\ OwnerInv /\ AskInv
  BY TypeIs DEF AppInv, QuestionInv
<1>2. \A q \in Requests : Passes(q) /\ (req[q].pc = "runtime" => Awaits(q))
  BY DEF Passes, Awaits
<1>3. Books
  <2>1. \A p \in Tasks : /\ \/ memory'[p].run \in {0, memory[p].run}
                            \/ memory'[p].run = i /\ runs'[i].task = p
                         /\ memory'[p].fallback # "awaiting_human"
    BY DEF QuestionInv, FallbackInv
  <2>2. \A j \in RunIds : j # i => runs'[j] = runs[j]
    BY DEF ButRun
  <2>3. \A j \in RunIds : \/ stored'[j].task \in {None, stored[j].task}
                          \/ j = i /\ stored'[i].task = runs'[i].task
    BY DEF ButRun
  <2>4. \A q \in Requests :
          /\ req'[q].pc = "runtime" => \/ req[q].pc = "runtime" /\ Awaits(q)
                                       \/ req'[q].run = i /\ runs'[i].task = req'[q].t
          /\ req[q].pc = "runtime" => Awaits(q) \/ runs'[req[q].run].status # "running"
    BY <1>2
  <2> QED
    BY <2>1, <2>2, <2>3, <2>4, OneRunBooks
<1>4. ASSUME crashes' = 0, NEW p \in Posted, p # runs[i].task PROVE Aside(p)
  <2>1. p \in Tasks /\ p # None
    BY ConstantsAssumption
  <2>2. stored'[i].task # p
    BY <1>1, <1>4, <2>1 DEF OwnerInv
  <2> QED
    BY <1>1, <1>2, <1>4, <2>1, <2>2, OneRunAside DEF Exists
<1>5. ASSUME crashes' = 0, NEW p \in Posted, p = runs[i].task PROVE TaskAgrees(p)'
  <2> SUFFICES ASSUME Exists(p)' PROVE RowsAgree(p)' /\ (~Busy(p)' => SnapshotAgrees(p)')
    BY DEF TaskAgrees
  <2>1. p \in Tasks /\ Exists(p) /\ crashes = 0
    BY <1>5, ConstantsAssumption DEF Exists
  <2>2. RowsAgree(p) /\ (~Busy(p) => SnapshotAgrees(p))
    BY <2>1 DEF QuestionInv, AgreeInv, TaskAgrees
  <2>3. ASSUME memory'[p].run # 0 PROVE stored'[memory'[p].run].task = p
    <3>1. PICK j \in RunIds : j = memory[p].run
      BY <1>1, <2>1, <2>3 DEF Typed, Cells
    <3>2. stored[j].task = p /\ memory'[p].run = j
      BY <2>2, <2>3, <3>1 DEF RowsAgree
    <3>3. stored'[j].task = p
      BY <1>5, <3>2 DEF ButRun
    <3> QED
      BY <3>2, <3>3
  <2>4. AtRuntime(i)' => AtRuntime(i)
    BY DEF AtRuntime
  <2>5. CASE runs[i].status = "running"
    <3>1. PICK q \in Requests : req[q].pc = "runtime" /\ req[q].run = i /\ req[q].t = p
      BY <1>5, <2>1, <2>5, RunningIsAwaited
    <3>2. Busy(p)' /\ AtRuntime(i)'
      BY <3>1 DEF Busy, AtRuntime
    <3>3. ASSUME NEW j \in RunIds, stored'[j].task = p, ~AtRuntime(j)'
          PROVE  stored'[j].ask = runs'[j].ask
      <4>1. j # i /\ ~AtRuntime(j)
        BY <3>2, <3>3 DEF AtRuntime
      <4> QED
        BY <2>2, <3>3, <4>1 DEF RowsAgree, ButRun
    <3> QED
      BY <2>3, <3>2, <3>3 DEF RowsAgree
  <2>6. CASE /\ runs[i].status # "interrupted"
             /\ runs'[i].status = runs[i].status /\ runs'[i].ask = runs[i].ask
             /\ stored'[i] = stored[i] \/ stored'[i].ask = None
    <3>1. ASSUME NEW j \in RunIds, stored'[j].task = p, ~AtRuntime(j)'
          PROVE  stored'[j].ask = runs'[j].ask
      <4>1. ~AtRuntime(j)
        BY <3>1 DEF AtRuntime
      <4>2. runs[i].ask = None
        BY <1>1, <2>6 DEF AskInv
      <4> QED
        BY <2>2, <2>6, <3>1, <4>1, <4>2 DEF RowsAgree, ButRun
    <3>2. RowsAgree(p)'
      BY <2>3, <3>1 DEF RowsAgree
    <3>3. ASSUME ~Busy(p)' PROVE SnapshotAgrees(p)'
      <4>1. ~Busy(p)
        BY <3>3 DEF Busy
      <4>2. SnapshotAgrees(p)
        BY <2>2, <4>1
      <4>3. memory[p].run = 0 \/ memory[p].run \in RunIds
        BY <1>1, <2>1 DEF Typed, Cells
      <4>4. memory[p].run # 0 => /\ runs'[memory[p].run].status = runs[memory[p].run].status
                                 /\ runs'[memory[p].run].ask = runs[memory[p].run].ask
        BY <2>6, <4>3 DEF ButRun
      <4> QED
        BY <4>2, <4>4 DEF SnapshotAgrees
    <3> QED
      BY <3>2, <3>3
  <2> QED
    BY <2>5, <2>6
<1> QED
  BY <1>3, <1>4, <1>5 DEF Answers

\* The executor saves its state.
LEMMA ExecutorSavesAnswers ==
  ASSUME AppInv, QuestionInv, NEW i \in RunIds, ExecutorSaves(i)
  PROVE  Answers
<1>1. /\ UNCHANGED <<tasks, memory, cached, runs, req, crashes>>
      /\ Saves(i, [stored[i] EXCEPT !.task = runs[i].task, !.ask = None])
      /\ runs[i].live /\ AskInv
  BY DEF ExecutorSaves, QuestionInv
<1>2. PICK row : row = [stored[i] EXCEPT !.task = runs[i].task, !.ask = None]
  OBVIOUS
<1>3. row \in Rows /\ row.task = runs[i].task /\ row.ask = None
  BY <1>2, LiveIs DEF Rows, RunRecords
<1>4. stored' = [stored EXCEPT ![i] = row] /\ Filed
  BY <1>1, <1>2, <1>3 DEF Saves, Filed
<1>5. stored'[i] = row /\ ButRun(i)
  BY <1>1, <1>4, LiveIs DEF Typed, ButRun
<1>6. runs[i].status # "none" /\ runs[i].status # "interrupted"
  BY <1>1, LiveIs DEF AskInv
<1>7. runs[i].ask # None => runs[i].status = "interrupted"
  BY <1>1 DEF AskInv
<1> QED
  BY <1>1, <1>3, <1>4, <1>5, <1>6, <1>7, ExecutorAnswers

\* The executor saves its question.
LEMMA ExecutorAsksAnswers ==
  ASSUME AppInv, QuestionInv, NEW i \in RunIds, ExecutorAsks(i)
  PROVE  Answers
<1>1. /\ UNCHANGED <<tasks, memory, cached, req, crashes>>
      /\ runs[i].live /\ runs[i].status = "running" /\ runs[i].asks < MaxAsks /\ AskInv
  BY DEF ExecutorAsks, QuestionInv
<1>2. PICK reason \in {"question", "final_submit"} :
        /\ runs' = [runs EXCEPT ![i].saved = NextAsk(i, reason)]
        /\ Saves(i, [stored[i] EXCEPT !.ask = NextAsk(i, reason),
                                      !.locked = @ \/ reason = "final_submit"])
  BY DEF ExecutorAsks
<1>3. NextAsk(i, reason) \in Asks
  <2>1. reason \in Reasons
    BY DEF Reasons
  <2> QED
    BY <1>1, <2>1, NextAskType
<1>4. PICK z : z = [runs[i] EXCEPT !.saved = NextAsk(i, reason)]
  OBVIOUS
<1>5. /\ z.status = "running" /\ z.task = runs[i].task /\ z.ask = runs[i].ask
      /\ runs' = [runs EXCEPT ![i] = z]
  BY <1>1, <1>2, <1>3, <1>4, LiveIs DEF RunRecords
<1>6. PICK row : row = [stored[i] EXCEPT !.ask = NextAsk(i, reason),
                                         !.locked = stored[i].locked \/ reason = "final_submit"]
  OBVIOUS
<1>7. row \in Rows /\ row.task = stored[i].task
  BY <1>3, <1>6, LiveIs DEF Rows
<1>8. Saves(i, row)
  BY <1>2, <1>6, LiveIs DEF Rows
<1>9. stored' = [stored EXCEPT ![i] = row] /\ Filed
  BY <1>7, <1>8 DEF Saves, Filed
<1>10. stored'[i] = row /\ runs'[i] = z /\ ButRun(i)
  BY <1>1, <1>5, <1>9, LiveIs DEF Typed, ButRun
<1>11. runs[i].ask # None => runs[i].status = "interrupted"
  BY <1>1 DEF AskInv
<1> QED
  BY <1>1, <1>5, <1>7, <1>9, <1>10, <1>11, ExecutorAnswers

\* The run waits for the user.
LEMMA RunPausesAnswers ==
  ASSUME AppInv, QuestionInv, NEW i \in RunIds, RunPauses(i)
  PROVE  Answers
<1>1. /\ UNCHANGED <<tasks, memory, cached, stored, saved, req, crashes>>
      /\ runs[i].status = "running"
  BY DEF RunPauses
<1>2. PICK reason \in Reasons :
        runs' = [runs EXCEPT ![i] =
          [runs[i] EXCEPT !.status = "interrupted", !.live = FALSE, !.saved = None,
                          !.ask = NextAsk(i, reason), !.asks = runs[i].asks + 1]]
  BY DEF RunPauses
<1>3. PICK z : z = [runs[i] EXCEPT !.status = "interrupted", !.live = FALSE, !.saved = None,
                                   !.ask = NextAsk(i, reason), !.asks = runs[i].asks + 1]
  OBVIOUS
<1>4. /\ z.status = "interrupted" /\ ~z.live /\ z.task = runs[i].task
      /\ runs' = [runs EXCEPT ![i] = z]
  BY <1>2, <1>3, LiveIs DEF RunRecords
<1>5. runs'[i] = z /\ ButRun(i) /\ Filed
  BY <1>1, <1>4, LiveIs DEF Typed, ButRun, Filed
<1> QED
  BY <1>1, <1>4, <1>5, ExecutorAnswers

\* The run ends.
LEMMA RunEndsAnswers ==
  ASSUME AppInv, QuestionInv, NEW i \in RunIds, RunEnds(i)
  PROVE  Answers
<1>1. /\ UNCHANGED <<tasks, memory, cached, stored, saved, req, crashes>>
      /\ runs[i].status = "running" /\ AskInv
  BY DEF RunEnds, QuestionInv
<1>2. PICK status \in {"completed", "failed"} :
        runs' = [runs EXCEPT ![i].status = status, ![i].live = FALSE]
  BY DEF RunEnds
<1>3. PICK z : z = [runs[i] EXCEPT !.status = status, !.live = FALSE]
  OBVIOUS
<1>4. /\ z.status = status /\ ~z.live /\ z.task = runs[i].task /\ z.ask = runs[i].ask
      /\ runs' = [runs EXCEPT ![i] = z]
  BY <1>2, <1>3, LiveIs DEF RunRecords
<1>5. runs'[i] = z /\ ButRun(i) /\ Filed
  BY <1>1, <1>4, LiveIs DEF Typed, ButRun, Filed
<1>6. runs[i].ask = None
  BY <1>1 DEF AskInv
<1> QED
  BY <1>1, <1>2, <1>4, <1>5, <1>6, ExecutorAnswers

\* The executor of a cancelled run stops.
LEMMA RunStopsAnswers ==
  ASSUME AppInv, QuestionInv, NEW i \in RunIds, RunStops(i)
  PROVE  Answers
<1>1. /\ UNCHANGED <<tasks, memory, cached, stored, saved, req, crashes>>
      /\ runs[i].status = "cancelled" /\ AskInv
      /\ runs' = [runs EXCEPT ![i].live = FALSE, ![i].saved = None]
  BY DEF RunStops, QuestionInv
<1>2. PICK z : z = [runs[i] EXCEPT !.live = FALSE, !.saved = None]
  OBVIOUS
<1>3. /\ z.status = "cancelled" /\ ~z.live /\ z.task = runs[i].task /\ z.ask = runs[i].ask
      /\ runs' = [runs EXCEPT ![i] = z]
  BY <1>1, <1>2, LiveIs DEF RunRecords
<1>4. runs'[i] = z /\ ButRun(i) /\ Filed /\ stored'[i] = stored[i]
  BY <1>1, <1>3, LiveIs DEF Typed, ButRun, Filed
<1>5. runs[i].ask = None
  BY <1>1 DEF AskInv
<1> QED
  BY <1>1, <1>3, <1>4, <1>5, ExecutorAnswers

-----------------------------------------------------------------------------
(* rememberResult.                                                         *)

\* The question of x, if it waits.
AskOf(x) == IF x.status = "interrupted" THEN x.ask ELSE None

\* What rememberResult keeps and shows.
LEMMA RememberIs ==
  ASSUME TypeOK, NEW m \in [Tasks -> Cells], NEW rs \in [RunIds -> RunRecords],
         NEW t \in Tasks, NEW i \in RunIds, RememberResult(m, rs, t, i),
         rs[i].status \in {"interrupted"} \cup Ended,
         rs[i].status = "interrupted" => rs[i].ask # None
  PROVE  /\ cached'[i] = AskOf(rs[i]) /\ \A j \in RunIds : j # i => cached'[j] = cached[j]
         /\ stored'[i].task = t /\ stored'[i].ask = AskOf(rs[i])
         /\ \A j \in RunIds : j # i => stored'[j] = stored[j]
         /\ Filed
         /\ \A p \in Tasks :
              /\ memory'[p].run = IF p = t THEN i ELSE m[p].run
              /\ memory'[p].snapshot = IF p = t THEN ResultValue(rs[i]) ELSE m[p].snapshot
              /\ memory'[p].fallback = IF p = t THEN "none" ELSE m[p].fallback
         /\ \A p \in Tasks : Exists(p)' <=> Exists(p)
<1>1. PICK ask \in Asks \cup {None} : ask = AskOf(rs[i])
  BY DEF RunRecords, AskOf
<1>2. ResultValue(rs[i]) \in Values
  <2>1. rs[i].status = "interrupted" => ValueOf(rs[i].ask) \in Values
    <3>1. rs[i].status = "interrupted" => rs[i].ask \in Asks
      BY DEF RunRecords
    <3>2. rs[i].status = "interrupted" => rs[i].ask.reason \in Reasons
      BY <3>1 DEF Asks
    <3> QED
      BY <3>2 DEF ValueOf, Values, Terminal, Reasons
  <2> QED
    BY <2>1 DEF ResultValue, Values, Terminal, Ended
<1>3. PICK row : row = [task |-> t, ask |-> ask,
                        locked |-> \/ stored[i].locked
                                   \/ rs[i].status = "completed"
                                   \/ ask # None /\ ask.reason = "final_submit"]
  OBVIOUS
<1>4. row \in Rows /\ row.task = t /\ row.ask = ask
  BY <1>3 DEF Rows, TypeOK
<1>5. Saves(i, row) /\ cached' = [cached EXCEPT ![i] = ask]
      /\ Publish([m EXCEPT ![t].run = i], t, ResultValue(rs[i]))
  BY <1>1, <1>3 DEF RememberResult, AskOf
<1>6. PICK c : c = [m[t] EXCEPT !.run = i]
  OBVIOUS
<1>7. /\ c \in Cells /\ c.run = i /\ c.snapshot = m[t].snapshot /\ c.fallback = m[t].fallback
  BY <1>6 DEF Cells
<1>8. PICK n : n = [m EXCEPT ![t].run = i]
  OBVIOUS
<1>9. n = [m EXCEPT ![t] = c]
  BY <1>6, <1>8
<1>10. /\ n \in [Tasks -> Cells]
       /\ \A p \in Tasks : /\ n[p].run = IF p = t THEN i ELSE m[p].run
                           /\ n[p].snapshot = m[p].snapshot /\ n[p].fallback = m[p].fallback
  BY <1>7, <1>9
<1>11. PICK value \in Values : value = ResultValue(rs[i]) /\ Publish(n, t, value)
  BY <1>2, <1>5, <1>8
<1>12. /\ \A p \in Tasks :
            /\ memory'[p].run = n[p].run
            /\ memory'[p].snapshot = IF p = t THEN value ELSE n[p].snapshot
            /\ memory'[p].fallback = IF p = t THEN "none" ELSE n[p].fallback
       /\ \A p \in Tasks : Exists(p)' <=> Exists(p)
  BY <1>10, <1>11, PublishShows
<1>13. /\ stored'[i] = row /\ \A j \in RunIds : j # i => stored'[j] = stored[j]
       /\ cached'[i] = ask /\ \A j \in RunIds : j # i => cached'[j] = cached[j]
  BY <1>5 DEF Saves, TypeOK
<1>14. Filed
  BY <1>4, <1>5 DEF Filed
<1> QED
  BY <1>1, <1>4, <1>10, <1>11, <1>12, <1>13, <1>14

\* A known run is the task's.
LEMMA RunOfOwner ==
  ASSUME AppInv, OwnerInv, NEW t \in Tasks, RunOf(t) # 0
  PROVE  /\ RunOf(t) \in RunIds /\ runs[RunOf(t)].status # "none" /\ runs[RunOf(t)].task = t
         /\ memory[t].run \in {0, RunOf(t)}
         /\ memory[t].run = 0 => stored[RunOf(t)].task = t
<1>1. TypeOK /\ KnownInv
  BY DEF AppInv
<1>2. RunOf(t) \in RunIds /\ runs[RunOf(t)].status # "none"
  BY <1>1, RunOfIs
<1>3. CASE memory[t].run # 0
  BY <1>2, <1>3 DEF RunOf, OwnerInv
<1>4. CASE memory[t].run = 0
  <2>1. stored[RunOf(t)].task = t
    BY <1>1, <1>4, StoredRunIs DEF RunOf
  <2>2. runs[RunOf(t)].task = t
    BY <1>2, <2>1, ConstantsAssumption DEF OwnerInv
  <2> QED
    BY <1>2, <1>4, <2>1, <2>2
<1> QED
  BY <1>3, <1>4

\* Whoever awaited run i for t returns; the others pass.
Hands(t, i) ==
  \A q \in Requests :
    \/ Passes(q)
    \/ req[q].pc = "runtime" /\ req[q].run = i /\ req[q].t = t /\ req'[q].pc # "runtime"

\* Then the task and its run agree.
LEMMA RememberAnswers ==
  ASSUME AppInv, QuestionInv, NEW m \in [Tasks -> Cells], AsShown(m, memory),
         NEW rs \in [RunIds -> RunRecords], runs' = rs,
         NEW t \in Tasks, NEW i \in RunIds, RememberResult(m, rs, t, i),
         rs[i].status \in {"interrupted"} \cup Ended,
         rs[i].status = "interrupted" <=> rs[i].ask # None,
         rs[i].live => rs[i].status # "interrupted",
         rs[i].task = t, runs[i].task = t, \A j \in RunIds : j # i => rs[j] = runs[j],
         crashes' = crashes, Hands(t, i)
  PROVE  Answers
<1>1. /\ cached'[i] = AskOf(rs[i]) /\ \A j \in RunIds : j # i => cached'[j] = cached[j]
      /\ stored'[i].task = t /\ stored'[i].ask = AskOf(rs[i])
      /\ \A j \in RunIds : j # i => stored'[j] = stored[j]
      /\ Filed
      /\ \A p \in Tasks :
           /\ memory'[p].run = IF p = t THEN i ELSE m[p].run
           /\ memory'[p].snapshot = IF p = t THEN ResultValue(rs[i]) ELSE m[p].snapshot
           /\ memory'[p].fallback = IF p = t THEN "none" ELSE m[p].fallback
      /\ \A p \in Tasks : Exists(p)' <=> Exists(p)
  <2>1. TypeOK
    BY DEF AppInv
  <2> QED
    BY <2>1, RememberIs
<1>2. TypeOK /\ OwnerInv /\ \A p \in Tasks : memory[p].fallback # "awaiting_human"
  BY DEF AppInv, QuestionInv, FallbackInv
<1>3. rs[i].status # "none" /\ rs[i].status # "running"
  BY DEF Ended
<1>4. Books
  <2>1. \A q \in Requests :
          /\ req'[q].pc = "runtime" => \/ req[q].pc = "runtime" /\ Awaits(q)
                                       \/ req'[q].run = i /\ runs'[i].task = req'[q].t
          /\ req[q].pc = "runtime" => Awaits(q) \/ runs'[req[q].run].status # "running"
    BY <1>3 DEF Hands, Passes, Awaits
  <2>2. \A p \in Tasks : /\ \/ memory'[p].run \in {0, memory[p].run}
                            \/ memory'[p].run = i /\ runs'[i].task = p
                         /\ memory'[p].fallback # "awaiting_human"
    BY <1>1, <1>2 DEF AsShown
  <2>3. \A j \in RunIds : \/ stored'[j].task \in {None, stored[j].task}
                          \/ j = i /\ stored'[i].task = runs'[i].task
    BY <1>1
  <2> QED
    BY <1>1, <1>3, <2>1, <2>2, <2>3, OneRunBooks
<1>5. ASSUME NEW p \in Posted, p # t PROVE Aside(p)
  <2>1. p \in Tasks
    BY ConstantsAssumption
  <2>2. memory'[p].run = memory[p].run /\ memory'[p].snapshot = memory[p].snapshot
    BY <1>1, <1>5, <2>1 DEF AsShown
  <2>3. ButRun(i)
    BY <1>1 DEF ButRun
  <2>4. \A q \in Requests : req[q].t = p => Passes(q)
    BY <1>5 DEF Hands
  <2>5. Exists(p)' => Exists(p)
    BY <1>1, <2>1
  <2> QED
    BY <1>1, <1>2, <1>5, <2>1, <2>2, <2>3, <2>4, <2>5, OneRunAside
<1>6. ASSUME crashes' = 0, t \in Posted PROVE TaskAgrees(t)'
  <2> SUFFICES ASSUME Exists(t)' PROVE RowsAgree(t)' /\ SnapshotAgrees(t)'
    BY DEF TaskAgrees
  <2>1. RowsAgree(t)
    BY <1>1, <1>6 DEF QuestionInv, AgreeInv, TaskAgrees
  <2>2. memory'[t].run = i /\ memory'[t].snapshot = ResultValue(rs[i])
    BY <1>1
  <2>3. ASSUME NEW j \in RunIds, stored'[j].task = t, ~AtRuntime(j)'
        PROVE  stored'[j].ask = runs'[j].ask
    <3>1. CASE j = i
      BY <1>1, <3>1 DEF AskOf
    <3>2. CASE j # i
      <4>1. ~AtRuntime(j)
        BY <2>3, <3>2 DEF Hands, Passes, AtRuntime
      <4> QED
        BY <1>1, <2>1, <2>3, <3>2, <4>1 DEF RowsAgree
    <3> QED
      BY <3>1, <3>2
  <2>4. RowsAgree(t)'
    BY <1>1, <2>2, <2>3 DEF RowsAgree
  <2>5. /\ ResultValue(rs[i]) # "observing"
        /\ ResultValue(rs[i]) = "awaiting_human" => rs[i].status = "interrupted"
    <3>1. CASE rs[i].status = "interrupted"
      <4>1. rs[i].ask \in Asks
        BY <3>1 DEF RunRecords
      <4>2. rs[i].ask.reason \in Reasons
        BY <4>1 DEF Asks
      <4>3. ValueOf(rs[i].ask) # "observing"
        BY <4>2 DEF ValueOf, Reasons
      <4> QED
        BY <3>1, <4>3 DEF ResultValue
    <3>2. CASE rs[i].status # "interrupted"
      BY <3>2 DEF ResultValue, Ended
    <3> QED
      BY <3>1, <3>2
  <2>6. i # 0
    BY DEF RunIds
  <2>7. SnapshotAgrees(t)'
    BY <1>1, <2>2, <2>5, <2>6 DEF SnapshotAgrees, AskOf
  <2> QED
    BY <2>4, <2>7
<1> QED
  BY <1>4, <1>5, <1>6 DEF Answers

\* The task's run has ended.
LEMMA HasEndedAnswers ==
  ASSUME AppInv, QuestionInv, NEW r \in Requests, req[r].pc \in {"observe", "seeded"},
         NEW i \in RunIds, i = RunOf(req[r].t), HasEnded(r, i), crashes' = crashes
  PROVE  Answers
<1>1. /\ runs[i].status \in Ended /\ runs' = runs
      /\ RememberResult(Left(r), runs, req[r].t, i) /\ RunOver(r, TRUE)
      /\ TypeOK /\ Typed /\ OwnerInv /\ AskInv /\ req[r].t \in Tasks
  BY TypeIs DEF HasEnded, AppInv, TargetInv, QuestionInv
<1>2. PICK m \in [Tasks -> Cells] : m = Left(r) /\ AsShown(m, memory)
  BY <1>1, LeftShows
<1>3. PICK t \in Tasks : t = req[r].t
  BY <1>1
<1>4. PICK rs \in [RunIds -> RunRecords] : rs = runs
  BY <1>1 DEF Typed
<1>5. runs[i].task = t
  BY <1>1, <1>3, RunOfOwner DEF RunIds
<1>6. Hands(t, i)
  BY <1>1, OverPasses DEF Hands
<1>7. runs[i].ask = None /\ runs[i].status # "interrupted"
  BY <1>1 DEF AskInv, Ended
<1> QED
  BY <1>1, <1>2, <1>3, <1>4, <1>5, <1>6, <1>7, RememberAnswers

\* A cancellation.
LEMMA CancelsAnswers ==
  ASSUME AppInv, QuestionInv, NEW t \in Tasks, CancelsTask(t), crashes' = crashes,
         \A q \in Requests : Passes(q)
  PROVE  Answers
<1>1. TypeOK /\ Typed /\ OwnerInv /\ AskInv
  BY TypeIs DEF AppInv, QuestionInv
<1>2. CASE /\ RunOf(t) = 0
           /\ memory' = [memory EXCEPT ![t].fallback = "cancelled"]
           /\ UNCHANGED <<tasks, cached, runs, stored, saved>>
  <2>1. PICK c : c = [memory[t] EXCEPT !.fallback = "cancelled"]
    OBVIOUS
  <2>2. /\ c.run = memory[t].run /\ c.snapshot = memory[t].snapshot /\ c.fallback = "cancelled"
        /\ memory' = [memory EXCEPT ![t] = c]
    BY <1>1, <1>2, <2>1 DEF Typed, Cells
  <2>3. \A p \in Tasks : /\ memory'[p].run = memory[p].run
                         /\ memory'[p].fallback # "awaiting_human"
                         /\ memory'[p].snapshot = memory[p].snapshot
    BY <1>1, <2>2 DEF Typed, QuestionInv, FallbackInv
  <2>4. Frame
    BY <1>2, <2>3 DEF Frame, Exists
  <2> QED
    BY <2>4, FrameAnswers
<1>3. ASSUME RunOf(t) # 0,
             runs' = [runs EXCEPT ![RunOf(t)] =
                        IF @.status \in Ended THEN @
                        ELSE [@ EXCEPT !.status = "cancelled", !.ask = None]],
             RememberResult(memory, runs', t, RunOf(t))
      PROVE  Answers
  <2>1. PICK i \in RunIds : i = RunOf(t) /\ runs[i].task = t
    BY <1>1, <1>3, RunOfOwner
  <2>2. runs[i] \in RunRecords
    BY <1>1 DEF Typed
  <2>3. PICK z : z = IF runs[i].status \in Ended THEN runs[i]
                     ELSE [runs[i] EXCEPT !.status = "cancelled", !.ask = None]
    OBVIOUS
  <2>4. /\ z \in RunRecords /\ z.status \in Ended /\ z.task = t /\ z.ask = None
        /\ z.status # "interrupted"
    <3>1. PICK c : c = [runs[i] EXCEPT !.status = "cancelled", !.ask = None]
      OBVIOUS
    <3>2. /\ c \in RunRecords /\ c.status = "cancelled" /\ c.task = runs[i].task
          /\ c.ask = None
      BY <2>2, <3>1 DEF RunRecords, Statuses, Ended
    <3>3. runs[i].status \in Ended => runs[i].ask = None
      BY <1>1 DEF AskInv, Ended
    <3> QED
      BY <2>1, <2>2, <2>3, <3>1, <3>2, <3>3 DEF Ended
  <2>5. runs' = [runs EXCEPT ![i] = z]
    BY <1>3, <2>1, <2>3
  <2>6. PICK rs \in [RunIds -> RunRecords] :
          rs = runs' /\ rs[i] = z /\ \A j \in RunIds : j # i => rs[j] = runs[j]
    BY <1>1, <2>4, <2>5 DEF Typed
  <2>7. RememberResult(memory, rs, t, i)
    BY <1>3, <2>1, <2>6
  <2>8. memory \in [Tasks -> Cells] /\ AsShown(memory, memory) /\ Hands(t, i)
    BY <1>1 DEF Typed, AsShown, Hands
  <2> QED
    BY <2>1, <2>4, <2>6, <2>7, <2>8, RememberAnswers
<1> QED
  BY <1>2, <1>3 DEF CancelsTask

\* The cancel command.
LEMMA CancelStartAnswers ==
  ASSUME AppInv, QuestionInv, NEW r \in Requests, NEW t \in Tasks, CancelStart(r, t)
  PROVE  Answers
<1>1. /\ crashes' = crashes /\ CancelsTask(t) /\ TypeOK
      /\ req[r].pc \notin {"runtime", "delete"}
  BY DEF CancelStart, Free, AppInv
<1>2. PICK x : x = Starts(r, "cancel", t, "release")
  OBVIOUS
<1>3. x.pc # "runtime" /\ req' = [req EXCEPT ![r] = x]
  BY <1>2 DEF Starts, Idle, CancelStart
<1>4. \A q \in Requests : Passes(q)
  BY <1>1, <1>3, OnePasses
<1> QED
  BY <1>1, <1>4, CancelsAnswers

\* A failed POST is undone.
LEMMA UndoAnswers ==
  ASSUME AppInv, QuestionInv, NEW r \in Requests, Undo(r)
  PROVE  Answers
<1>1. /\ crashes' = crashes /\ TypeOK /\ req[r].t \in Tasks
      /\ req[r].pc \notin {"runtime", "delete"}
      /\ req' = [req EXCEPT ![r].pc = "release"]
  BY DEF Undo, AppInv, TargetInv
<1>2. PICK x \in Slots : x.pc = "release" /\ req' = [req EXCEPT ![r] = x]
  <2>1. TypeOK /\ "release" \in {"prepare", "release", "delete", "reviewing", "seeded"}
    BY <1>1
  <2>2. \E x \in Slots : /\ x.pc = "release" /\ x.op = req[r].op /\ x.t = req[r].t
                         /\ x.again = req[r].again
                         /\ [req EXCEPT ![r].pc = "release"] = [req EXCEPT ![r] = x]
    BY <2>1, PcTo
  <2> QED
    BY <1>1, <2>2
<1>3. \A q \in Requests : Passes(q)
  BY <1>1, <1>2, OnePasses
<1>4. CASE Exists(req[r].t)
  <2>1. CancelsTask(req[r].t)
    BY <1>4 DEF Undo
  <2> QED
    BY <1>1, <1>3, <2>1, CancelsAnswers
<1>5. CASE ~Exists(req[r].t)
  <2>1. UNCHANGED <<tasks, memory, cached, runs, stored, saved>>
    BY <1>5 DEF Undo
  <2> QED
    BY <1>1, <1>2, <2>1, GoesOnFrame DEF Exists
<1> QED
  BY <1>4, <1>5

\* The Runtime returned.
LEMMA ReturnsAnswers ==
  ASSUME AppInv, QuestionInv, NEW r \in Requests, Returns(r)
  PROVE  Answers
<1>1. /\ UNCHANGED <<runs, crashes>>
      /\ TypeOK /\ Typed /\ RunInv /\ OwnerInv /\ AskInv
      /\ req[r].t \in Tasks /\ req[r].pc = "runtime"
      /\ req[r].run \in RunIds /\ runs[req[r].run].status # "none"
      /\ runs[req[r].run].status # "running" /\ ~runs[req[r].run].live
  BY TypeIs DEF Returns, AppInv, TargetInv, QuestionInv
<1>2. PICK i \in RunIds : i = req[r].run
  BY <1>1
<1>3. PICK t \in Tasks : t = req[r].t /\ runs[i].task = t
  BY <1>1, <1>2 DEF OwnerInv
<1>4. /\ runs[i] \in RunRecords /\ runs[i].status \in {"interrupted"} \cup Ended
      /\ runs[i].status = "interrupted" <=> runs[i].ask # None
  BY <1>1, <1>2 DEF Typed, RunRecords, Statuses, RunInv, AskInv
<1>5. PICK m \in [Tasks -> Cells] : m = Left(r) /\ AsShown(m, memory)
  BY <1>1, LeftShows
<1>6. CASE Exists(t)
  <2>1. RememberResult(m, runs, t, i)
    BY <1>2, <1>3, <1>5, <1>6 DEF Returns
  <2>2. \A q \in Requests : q = r \/ Passes(q)
    <3>1. CASE req[r].op = "answer" /\ ~req[r].again
      <4>1. req' = [req EXCEPT ![r].pc = "enter", ![r].again = TRUE, ![r].run = 0]
        BY <1>3, <1>6, <3>1 DEF Returns
      <4> QED
        BY <1>1, <4>1 DEF Typed, Passes
    <3>2. CASE ~ (req[r].op = "answer" /\ ~req[r].again)
      <4>1. RunOver(r, TRUE)
        BY <1>3, <1>6, <3>2 DEF Returns
      <4> QED
        BY <1>1, <4>1, OverPasses
    <3> QED
      BY <3>1, <3>2
  <2>3. req'[r].pc # "runtime"
    <3>1. CASE req[r].op = "answer" /\ ~req[r].again
      <4>1. req' = [req EXCEPT ![r].pc = "enter", ![r].again = TRUE, ![r].run = 0]
        BY <1>3, <1>6, <3>1 DEF Returns
      <4>2. req[r] \in Slots /\ req \in [Requests -> Slots]
        BY <1>1 DEF Typed
      <4>3. PICK x : x = [req[r] EXCEPT !.pc = "enter", !.again = TRUE, !.run = 0]
        OBVIOUS
      <4>4. x.pc = "enter" /\ req' = [req EXCEPT ![r] = x]
        BY <4>1, <4>2, <4>3 DEF Slots
      <4> QED
        BY <4>2, <4>4
    <3>2. CASE ~ (req[r].op = "answer" /\ ~req[r].again)
      <4>1. RunOver(r, TRUE)
        BY <1>3, <1>6, <3>2 DEF Returns
      <4> QED
        BY <1>1, <4>1, OverPasses
    <3> QED
      BY <3>1, <3>2
  <2>4. Hands(t, i)
    BY <1>1, <1>2, <1>3, <2>2, <2>3 DEF Hands
  <2>5. PICK rs \in [RunIds -> RunRecords] : rs = runs
    BY <1>1 DEF Typed
  <2>6. RememberResult(m, rs, t, i) /\ rs = runs'
    BY <1>1, <2>1, <2>5
  <2> QED
    BY <1>1, <1>2, <1>3, <1>4, <1>5, <2>4, <2>5, <2>6, RememberAnswers
<1>7. CASE ~Exists(t)
  <2>1. /\ memory' = [m EXCEPT ![t].run = i]
        /\ cached' = [cached EXCEPT ![i] = IF runs[i].status = "interrupted"
                                           THEN runs[i].ask ELSE None]
        /\ RunOver(r, FALSE)
        /\ UNCHANGED <<tasks, stored, saved>>
    BY <1>2, <1>3, <1>5, <1>7 DEF Returns
  <2>2. PICK c : c = [m[t] EXCEPT !.run = i]
    OBVIOUS
  <2>3. /\ c.run = i /\ c.snapshot = m[t].snapshot /\ c.fallback = m[t].fallback
        /\ memory' = [m EXCEPT ![t] = c]
    BY <2>1, <2>2 DEF Cells
  <2>4. \A p \in Tasks : /\ memory'[p].run = IF p = t THEN i ELSE memory[p].run
                         /\ memory'[p].snapshot = memory[p].snapshot
                         /\ memory'[p].fallback = memory[p].fallback
    BY <1>5, <2>3 DEF AsShown
  <2>5. /\ \A q \in Requests \ {r} : Passes(q)
        /\ req'[r].pc # "runtime"
    BY <1>1, <2>1, OverPasses
  <2>6. Books
    <3>1. \A q \in Requests :
            /\ req'[q].pc = "runtime" => \/ req[q].pc = "runtime" /\ Awaits(q)
                                         \/ req'[q].run = i /\ runs'[i].task = req'[q].t
            /\ req[q].pc = "runtime" => Awaits(q) \/ runs'[req[q].run].status # "running"
      BY <1>1, <2>5 DEF Passes, Awaits
    <3>2. \A p \in Tasks : /\ \/ memory'[p].run \in {0, memory[p].run}
                              \/ memory'[p].run = i /\ runs'[i].task = p
                           /\ memory'[p].fallback # "awaiting_human"
      BY <1>1, <1>3, <2>4 DEF QuestionInv, FallbackInv
    <3>3. \A j \in RunIds : \/ stored'[j].task \in {None, stored[j].task}
                            \/ j = i /\ stored'[i].task = runs'[i].task
      BY <2>1
    <3>4. Filed
      BY <2>1 DEF Filed
    <3> QED
      BY <1>1, <1>2, <1>4, <3>1, <3>2, <3>3, <3>4, OneRunBooks
  <2>7. ASSUME NEW p \in Posted, p # t PROVE Aside(p)
    <3>1. p \in Tasks /\ p # None
      BY ConstantsAssumption
    <3>2. ButRun(i)
      BY <1>1, <2>1 DEF ButRun, Typed
    <3>3. stored'[i].task # p
      BY <1>1, <1>3, <2>1, <2>7, <3>1 DEF OwnerInv
    <3>4. \A q \in Requests : req[q].t = p => Passes(q)
      BY <1>3, <2>5, <2>7
    <3>5. memory'[p].run = memory[p].run /\ memory'[p].snapshot = memory[p].snapshot
      BY <2>4, <2>7, <3>1
    <3>6. Exists(p)' => Exists(p)
      BY <2>1 DEF Exists
    <3> QED
      BY <1>1, <1>3, <2>7, <3>1, <3>2, <3>3, <3>4, <3>5, <3>6, OneRunAside
  <2>8. TaskAgrees(t)'
    BY <1>7, <2>1 DEF TaskAgrees, Exists
  <2> QED
    BY <1>1, <2>6, <2>7, <2>8 DEF Answers, QuestionInv
<1> QED
  BY <1>6, <1>7

-----------------------------------------------------------------------------
(* A run is started, resumed, recovered or still waits.                    *)

\* The question of the run that a task is known to have.
LEMMA KnownRows ==
  ASSUME AppInv, QuestionInv, crashes = 0, NEW t \in Posted, Exists(t), RunOf(t) # 0
  PROVE  /\ t \in Tasks /\ RowsAgree(t) /\ (~Busy(t) => SnapshotAgrees(t))
         /\ stored[RunOf(t)].task = t
<1>1. t \in Tasks /\ RowsAgree(t) /\ (~Busy(t) => SnapshotAgrees(t))
  BY ConstantsAssumption DEF QuestionInv, AgreeInv, TaskAgrees
<1>2. stored[RunOf(t)].task = t
  BY <1>1, RunOfOwner DEF RowsAgree, RunOf, QuestionInv
<1> QED
  BY <1>1, <1>2

\* A request about t awaits run i, which t is known to have.
LEMMA AwaitsAnswers ==
  ASSUME AppInv, QuestionInv, NEW r \in Requests, NEW t \in Tasks, RunOf(t) # 0,
         NEW i \in RunIds, i = RunOf(t),
         UNCHANGED <<tasks, stored, saved, crashes>>,
         req'[r].pc = "runtime", req'[r].run = i, req'[r].t = t,
         \A q \in Requests : q # r => req'[q] = req[q],
         req[r].pc \notin {"runtime", "delete"},
         \A j \in RunIds : j # i => runs'[j] = runs[j] /\ cached'[j] = cached[j],
         runs'[i].task = t, runs'[i].status # "none",
         runs'[i].ask # None => runs'[i].status = "interrupted",
         runs'[i].live => runs'[i].status # "interrupted",
         \A p \in Tasks : /\ memory'[p].run = IF p = t THEN i ELSE memory[p].run
                          /\ memory'[p].snapshot = memory[p].snapshot
                          /\ memory'[p].fallback = memory[p].fallback
  PROVE  Answers
<1>1. /\ TypeOK /\ Typed /\ OwnerInv /\ i # 0
      /\ runs[i].task = t /\ runs[i].status # "none"
  BY TypeIs, RunOfOwner DEF AppInv, QuestionInv, RunIds
<1>2. /\ req'[r].pc = "runtime" /\ req'[r].run = i /\ req'[r].t = t
      /\ \A q \in Requests : q # r => req'[q] = req[q]
  OBVIOUS
<1>3. Books
  <2>1. \A q \in Requests :
          /\ req'[q].pc = "runtime" => \/ req[q].pc = "runtime" /\ Awaits(q)
                                       \/ req'[q].run = i /\ runs'[i].task = req'[q].t
          /\ req[q].pc = "runtime" => Awaits(q) \/ runs'[req[q].run].status # "running"
    BY <1>2 DEF Awaits
  <2>2. \A p \in Tasks : /\ \/ memory'[p].run \in {0, memory[p].run}
                            \/ memory'[p].run = i /\ runs'[i].task = p
                         /\ memory'[p].fallback # "awaiting_human"
    BY DEF QuestionInv, FallbackInv
  <2>3. \A j \in RunIds : \/ stored'[j].task \in {None, stored[j].task}
                          \/ j = i /\ stored'[i].task = runs'[i].task
    OBVIOUS
  <2>4. Filed
    BY DEF Filed
  <2>5. \E q \in Requests : req'[q].pc = "runtime" /\ req'[q].run = i
    BY <1>2
  <2> QED
    BY <1>1, <2>1, <2>2, <2>3, <2>4, <2>5, OneRunBooks
<1>4. ASSUME NEW p \in Posted, p # t PROVE Aside(p)
  <2>1. p \in Tasks /\ p # None
    BY ConstantsAssumption
  <2>2. ButRun(i)
    BY DEF ButRun
  <2>3. stored'[i].task # p
    BY <1>1, <1>4, <2>1 DEF OwnerInv
  <2>4. \A q \in Requests :
          req[q].t = p => Passes(q) \/ req[q].pc \notin {"runtime", "delete"}
    BY <1>2 DEF Passes
  <2>5. memory'[p].run = memory[p].run /\ memory'[p].snapshot = memory[p].snapshot
    BY <1>4, <2>1
  <2>6. Exists(p)' => Exists(p)
    BY DEF Exists
  <2> QED
    BY <1>1, <1>4, <2>1, <2>2, <2>3, <2>4, <2>5, <2>6, OneRunAside
<1>5. ASSUME crashes' = 0, t \in Posted PROVE TaskAgrees(t)'
  <2> SUFFICES ASSUME Exists(t)' PROVE RowsAgree(t)' /\ Busy(t)'
    BY DEF TaskAgrees
  <2>1. RowsAgree(t) /\ stored[i].task = t
    BY <1>5, KnownRows DEF Exists
  <2>2. Busy(t)' /\ AtRuntime(i)'
    BY <1>2 DEF Busy, AtRuntime
  <2>3. ASSUME NEW j \in RunIds, stored'[j].task = t, ~AtRuntime(j)'
        PROVE  stored'[j].ask = runs'[j].ask
    <3>1. j # i
      BY <2>2, <2>3
    <3>2. ~AtRuntime(j)
      BY <1>2, <2>3 DEF AtRuntime
    <3> QED
      BY <2>1, <2>3, <3>1, <3>2 DEF RowsAgree
  <2>4. memory'[t].run = i
    OBVIOUS
  <2> QED
    BY <2>1, <2>2, <2>3, <2>4 DEF RowsAgree
<1> QED
  BY <1>3, <1>4, <1>5 DEF Answers, QuestionInv

\* A cell learns its run.
LEMMA RunShows ==
  ASSUME NEW m \in [Tasks -> Cells], NEW t \in Tasks, NEW i
  PROVE  \A p \in Tasks :
           /\ [m EXCEPT ![t].run = i][p].run = IF p = t THEN i ELSE m[p].run
           /\ [m EXCEPT ![t].run = i][p].snapshot = m[p].snapshot
           /\ [m EXCEPT ![t].run = i][p].fallback = m[p].fallback
<1>1. PICK c : c = [m[t] EXCEPT !.run = i]
  OBVIOUS
<1>2. c.run = i /\ c.snapshot = m[t].snapshot /\ c.fallback = m[t].fallback
  BY <1>1 DEF Cells
<1>3. [m EXCEPT ![t].run = i] = [m EXCEPT ![t] = c]
  BY <1>1
<1> QED
  BY <1>2, <1>3

\* The task's run is recovered or joined.
LEMMA RecoversAnswers ==
  ASSUME AppInv, QuestionInv, NEW r \in Requests, req[r].pc \in {"observe", "seeded"},
         NEW i \in RunIds, i = RunOf(req[r].t), Recovers(r, i), crashes' = crashes
  PROVE  Answers
<1>1. /\ UNCHANGED <<tasks, cached, stored, saved>>
      /\ TypeOK /\ Typed /\ OwnerInv /\ AskInv /\ req[r].t \in Tasks
      /\ runs[i].status = "running"
      /\ runs' = [runs EXCEPT ![i].live = TRUE]
      /\ memory' = [memory EXCEPT ![req[r].t].run = i]
      /\ req' = [req EXCEPT ![r].pc = "runtime", ![r].run = i]
  BY TypeIs DEF Recovers, AppInv, TargetInv, QuestionInv
<1>2. PICK t \in Tasks : t = req[r].t
  BY <1>1
<1>3. RunOf(t) # 0 /\ runs[i].task = t
  BY <1>1, <1>2, RunOfOwner DEF RunIds
<1>4. PICK z : z = [runs[i] EXCEPT !.live = TRUE]
  OBVIOUS
<1>5. /\ z.status = "running" /\ z.task = t /\ z.ask = None
      /\ runs' = [runs EXCEPT ![i] = z]
  BY <1>1, <1>3, <1>4, LiveIs DEF RunRecords, AskInv
<1>6. runs'[i] = z /\ \A j \in RunIds : j # i => runs'[j] = runs[j] /\ cached'[j] = cached[j]
  BY <1>1, <1>5 DEF Typed
<1>7. PICK x : x = [req[r] EXCEPT !.pc = "runtime", !.run = i]
  OBVIOUS
<1>8. req[r] \in Slots
  BY <1>1 DEF Typed
<1>9. x.pc = "runtime" /\ x.run = i /\ x.t = t /\ req' = [req EXCEPT ![r] = x]
  BY <1>1, <1>2, <1>7, <1>8 DEF Slots
<1>10. \A p \in Tasks : /\ memory'[p].run = IF p = t THEN i ELSE memory[p].run
                        /\ memory'[p].snapshot = memory[p].snapshot
                        /\ memory'[p].fallback = memory[p].fallback
  BY <1>1, <1>2, RunShows DEF Typed
<1>11. i = RunOf(t) /\ runs'[i].task = t /\ runs'[i].status = "running" /\ runs'[i].ask = None
  BY <1>2, <1>5, <1>6
<1>12. /\ req[r].pc \notin {"runtime", "delete"} /\ req'[r] = x
       /\ \A q \in Requests : q # r => req'[q] = req[q]
  BY <1>1, <1>9 DEF Typed
<1> QED
  BY <1>1, <1>3, <1>6, <1>9, <1>10, <1>11, <1>12, AwaitsAnswers

\* resume and answer_questions.
LEMMA ResumeStartAnswers ==
  ASSUME AppInv, QuestionInv, NEW r \in Requests, NEW t \in Tasks, NEW op \in {"resume", "answer"},
         ResumeStart(r, t, op)
  PROVE  Answers
<1>1. /\ UNCHANGED <<tasks, stored, saved, crashes>>
      /\ TypeOK /\ Typed /\ OwnerInv /\ RunOf(t) # 0
      /\ req[r].pc \notin {"runtime", "delete"}
  BY TypeIs DEF ResumeStart, Free, AppInv, QuestionInv
<1>2. PICK i \in RunIds : i = RunOf(t) /\ runs[i].task = t
  BY <1>1, RunOfOwner
<1>3. PICK z : z = [runs[i] EXCEPT !.ask = None, !.live = Approves(runs[i].ask),
                      !.status = IF Approves(runs[i].ask) THEN "running" ELSE "failed"]
  OBVIOUS
<1>4. runs[i] \in RunRecords
  BY <1>1 DEF Typed
<1>5. /\ runs' = [runs EXCEPT ![i] = z]
      /\ cached' = [cached EXCEPT ![i] = runs[i].ask]
      /\ memory' = [memory EXCEPT ![t].run = i]
      /\ req' = [req EXCEPT ![r] = [Starts(r, op, t, "runtime") EXCEPT !.run = i]]
  BY <1>2, <1>3, <1>4 DEF ResumeStart, RunRecords
<1>6. z.status \in {"running", "failed"} /\ z.task = t /\ z.ask = None
  BY <1>2, <1>3, <1>4 DEF RunRecords
<1>7. runs'[i] = z /\ \A j \in RunIds : j # i => runs'[j] = runs[j] /\ cached'[j] = cached[j]
  BY <1>1, <1>5 DEF Typed
<1>8. PICK y : y = Starts(r, op, t, "runtime")
  OBVIOUS
<1>9. y \in Slots /\ y.t = t /\ y.pc = "runtime"
  BY <1>8 DEF Starts, Idle, Slots
<1>10. PICK x : x = [y EXCEPT !.run = i]
  OBVIOUS
<1>11. /\ x.t = t /\ x.pc = "runtime" /\ x.run = i
       /\ req' = [req EXCEPT ![r] = x]
  BY <1>5, <1>8, <1>9, <1>10 DEF Slots
<1>12. \A p \in Tasks : /\ memory'[p].run = IF p = t THEN i ELSE memory[p].run
                        /\ memory'[p].snapshot = memory[p].snapshot
                        /\ memory'[p].fallback = memory[p].fallback
  BY <1>1, <1>5, RunShows DEF Typed
<1>13. /\ runs'[i].task = t /\ runs'[i].status \in {"running", "failed"}
       /\ runs'[i].ask = None
  BY <1>6, <1>7
<1>14. req'[r] = x /\ \A q \in Requests : q # r => req'[q] = req[q]
  BY <1>1, <1>11 DEF Typed
<1> QED
  BY <1>1, <1>2, <1>7, <1>11, <1>12, <1>13, <1>14, AwaitsAnswers

\* The task's run waits for the user.
LEMMA StillAsksAnswers ==
  ASSUME AppInv, QuestionInv, NEW r \in Requests, req[r].pc \in {"observe", "seeded"},
         NEW i \in RunIds, i = RunOf(req[r].t), StillAsks(r, i), crashes' = crashes
  PROVE  Answers
<1>1. /\ UNCHANGED <<runs, stored, saved>>
      /\ TypeOK /\ Typed /\ OwnerInv /\ AskInv /\ req[r].t \in Tasks
      /\ runs[i].status = "interrupted"
      /\ cached' = [cached EXCEPT ![i] = runs[i].ask]
      /\ memory' = [Left(r) EXCEPT ![req[r].t].run = i]
      /\ Emits(Callers(r), req[r].t)
      /\ RunOver(r, TRUE)
  BY TypeIs DEF StillAsks, AppInv, TargetInv, QuestionInv
<1>2. PICK t \in Tasks : t = req[r].t
  BY <1>1
<1>3. RunOf(t) # 0 /\ runs[i].task = t /\ memory[t].run \in {0, i} /\ i # 0
  BY <1>1, <1>2, RunOfOwner DEF RunIds
<1>4. PICK m \in [Tasks -> Cells] : m = Left(r) /\ AsShown(m, memory)
  BY <1>1, LeftShows
<1>5. \A p \in Tasks : /\ memory'[p].run = IF p = t THEN i ELSE memory[p].run
                       /\ memory'[p].snapshot = memory[p].snapshot
                       /\ memory'[p].fallback = memory[p].fallback
  <2>1. memory' = [m EXCEPT ![t].run = i]
    BY <1>1, <1>2, <1>4
  <2> QED
    BY <1>4, <2>1, RunShows DEF AsShown
<1>6. \A p \in Tasks : Exists(p)' <=> Exists(p)
  <2>1. memory' \in [Tasks -> Cells]
    <3>1. memory' = [m EXCEPT ![t].run = i]
      BY <1>1, <1>2, <1>4
    <3> QED
      BY <1>4, <3>1, KnowsRun
  <2> QED
    BY <1>1, <2>1, EmitsShows
<1>7. \A q \in Requests : Passes(q)
  BY <1>1, OverPasses
<1>8. cached'[i] = runs[i].ask /\ ButRun(i)
  BY <1>1 DEF Typed, ButRun
<1>9. Books
  <2>1. \A q \in Requests :
          /\ req'[q].pc = "runtime" => \/ req[q].pc = "runtime" /\ Awaits(q)
                                       \/ req'[q].run = i /\ runs'[i].task = req'[q].t
          /\ req[q].pc = "runtime" => Awaits(q) \/ runs'[req[q].run].status # "running"
    BY <1>7 DEF Passes, Awaits
  <2>2. \A p \in Tasks : /\ \/ memory'[p].run \in {0, memory[p].run}
                            \/ memory'[p].run = i /\ runs'[i].task = p
                         /\ memory'[p].fallback # "awaiting_human"
    BY <1>1, <1>3, <1>5 DEF QuestionInv, FallbackInv
  <2>3. \A j \in RunIds : \/ stored'[j].task \in {None, stored[j].task}
                          \/ j = i /\ stored'[i].task = runs'[i].task
    BY <1>1
  <2>4. Filed
    BY <1>1 DEF Filed
  <2>5. ~runs[i].live
    BY <1>1 DEF AskInv
  <2> QED
    BY <1>1, <2>1, <2>2, <2>3, <2>4, <2>5, OneRunBooks
<1>10. ASSUME NEW p \in Posted, p # t PROVE Aside(p)
  <2>1. p \in Tasks /\ p # None
    BY ConstantsAssumption
  <2>2. stored'[i].task # p
    BY <1>1, <1>3, <1>10, <2>1 DEF OwnerInv
  <2>3. memory'[p].run = memory[p].run /\ memory'[p].snapshot = memory[p].snapshot
    BY <1>5, <1>10, <2>1
  <2>4. Exists(p)' => Exists(p)
    BY <1>6, <2>1
  <2> QED
    BY <1>1, <1>3, <1>7, <1>8, <1>10, <2>1, <2>2, <2>3, <2>4, OneRunAside
<1>11. ASSUME crashes' = 0, t \in Posted PROVE TaskAgrees(t)'
  <2> SUFFICES ASSUME Exists(t)' PROVE RowsAgree(t)' /\ (~Busy(t)' => SnapshotAgrees(t)')
    BY DEF TaskAgrees
  <2>1. RowsAgree(t) /\ stored[i].task = t /\ (~Busy(t) => SnapshotAgrees(t))
    BY <1>2, <1>3, <1>6, <1>11, KnownRows
  <2>2. memory'[t].run = i /\ memory'[t].snapshot = memory[t].snapshot
    BY <1>5
  <2>3. \A j \in RunIds : AtRuntime(j) => AtRuntime(j)'
    BY <1>7 DEF AtRuntime, Passes
  <2>4. RowsAgree(t)'
    BY <1>1, <2>1, <2>2, <2>3 DEF RowsAgree
  <2>5. Busy(t) => Busy(t)'
    BY <1>7 DEF Busy, Passes, Exists
  <2>6. ASSUME ~Busy(t)' PROVE SnapshotAgrees(t)'
    <3>1. SnapshotAgrees(t)
      BY <2>1, <2>5, <2>6
    <3>2. memory[t].snapshot = "observing" => memory[t].run = i
      BY <1>3, <3>1 DEF SnapshotAgrees
    <3>3. memory[t].snapshot # "observing"
      BY <1>1, <3>1, <3>2 DEF SnapshotAgrees
    <3> QED
      BY <1>1, <1>3, <1>8, <2>2, <3>3 DEF SnapshotAgrees
  <2> QED
    BY <2>4, <2>6
<1> QED
  BY <1>9, <1>10, <1>11 DEF Answers, QuestionInv

\* The task's run begins.
LEMMA FirstRunAnswers ==
  ASSUME AppInv, QuestionInv, NEW r \in Requests, req[r].pc \in {"observe", "seeded"},
         FirstRun(r), crashes' = crashes
  PROVE  Answers
<1>1. /\ UNCHANGED <<tasks, memory, cached, stored, saved>>
      /\ TypeOK /\ Typed /\ OwnerInv /\ OrderInv /\ KnownInv /\ req[r].t \in Tasks
      /\ RunOf(req[r].t) = 0
  BY TypeIs DEF FirstRun, AppInv, TargetInv, QuestionInv
<1>2. PICK t \in Tasks : t = req[r].t
  BY <1>1
<1>3. memory[t].run = 0 /\ \A j \in RunIds : stored[j].task # t
  <2>1. memory[t].run = 0 /\ StoredRun(t) = 0
    BY <1>1, <1>2 DEF RunOf
  <2> QED
    BY <1>1, <2>1, NoRowIs
<1>4. PICK i \in RunIds :
        /\ runs[i].status = "none"
        /\ runs' = [runs EXCEPT ![i] = [NoRun EXCEPT !.task = t, !.status = "running",
                                                     !.live = TRUE]]
        /\ req' = [req EXCEPT ![r].pc = "runtime", ![r].run = i]
  BY <1>2 DEF FirstRun
<1>5. PICK z : z = [NoRun EXCEPT !.task = t, !.status = "running", !.live = TRUE]
  OBVIOUS
<1>6. z.status = "running" /\ z.task = t /\ z.ask = None
  BY <1>5 DEF NoRun
<1>7. runs'[i] = z /\ \A j \in RunIds : j # i => runs'[j] = runs[j]
  BY <1>1, <1>4, <1>5 DEF Typed
<1>8. PICK x : x = [req[r] EXCEPT !.pc = "runtime", !.run = i]
  OBVIOUS
<1>9. req[r] \in Slots
  BY <1>1 DEF Typed
<1>10. x.pc = "runtime" /\ x.run = i /\ x.t = t /\ req' = [req EXCEPT ![r] = x]
  BY <1>2, <1>4, <1>8, <1>9 DEF Slots
<1>11. req'[r] = x /\ \A q \in Requests : q # r => req'[q] = req[q]
  BY <1>1, <1>10 DEF Typed
<1>12. Books
  <2>1. \A q \in Requests :
          /\ req'[q].pc = "runtime" => \/ req[q].pc = "runtime" /\ Awaits(q)
                                       \/ req'[q].run = i /\ runs'[i].task = req'[q].t
          /\ req[q].pc = "runtime" => Awaits(q) \/ runs'[req[q].run].status # "running"
    BY <1>6, <1>7, <1>10, <1>11 DEF Awaits
  <2>2. \A p \in Tasks : /\ \/ memory'[p].run \in {0, memory[p].run}
                            \/ memory'[p].run = i /\ runs'[i].task = p
                         /\ memory'[p].fallback # "awaiting_human"
    BY <1>1 DEF QuestionInv, FallbackInv
  <2>3. \A j \in RunIds : \/ stored'[j].task \in {None, stored[j].task}
                          \/ j = i /\ stored'[i].task = runs'[i].task
    BY <1>1
  <2>4. Filed
    BY <1>1 DEF Filed
  <2>5. \E q \in Requests : req'[q].pc = "runtime" /\ req'[q].run = i
    BY <1>10, <1>11
  <2> QED
    BY <1>4, <1>6, <1>7, <2>1, <2>2, <2>3, <2>4, <2>5, OneRunBooks
<1>13. ASSUME NEW p \in Posted, p # t PROVE Aside(p)
  <2>1. p \in Tasks /\ p # None
    BY ConstantsAssumption
  <2>2. runs[i].task = None /\ stored'[i].task = None
    BY <1>1, <1>4 DEF OwnerInv, KnownInv
  <2>3. ButRun(i)
    BY <1>1, <1>7 DEF ButRun
  <2>4. \A q \in Requests : req[q].t = p => Passes(q)
    BY <1>2, <1>11, <1>13 DEF Passes
  <2>5. Exists(p)' => Exists(p)
    BY <1>1 DEF Exists
  <2> QED
    BY <1>1, <2>1, <2>2, <2>3, <2>4, <2>5, OneRunAside
<1>14. TaskAgrees(t)'
  <2>1. RowsAgree(t)'
    BY <1>1, <1>3 DEF RowsAgree
  <2>2. Busy(t)'
    BY <1>10, <1>11 DEF Busy
  <2> QED
    BY <2>1, <2>2 DEF TaskAgrees
<1> QED
  BY <1>12, <1>13, <1>14 DEF Answers, QuestionInv

\* After the observation.
LEMMA ProceedsAnswers ==
  ASSUME AppInv, QuestionInv, NEW r \in Requests, req[r].pc \in {"observe", "seeded"},
         Proceeds(r), crashes' = crashes
  PROVE  Answers
<1>1. CASE FirstRun(r)
  BY <1>1, FirstRunAnswers
<1>2. ASSUME RunOf(req[r].t) # 0,
             \/ Recovers(r, RunOf(req[r].t))
             \/ StillAsks(r, RunOf(req[r].t))
             \/ HasEnded(r, RunOf(req[r].t))
      PROVE  Answers
  <2>1. req[r].t \in Tasks
    BY DEF AppInv, TargetInv
  <2>2. PICK i \in RunIds : i = RunOf(req[r].t)
    BY <1>2, <2>1, RunOfIs DEF AppInv
  <2>3. CASE Recovers(r, i)
    BY <2>2, <2>3, RecoversAnswers
  <2>4. CASE StillAsks(r, i)
    BY <2>2, <2>4, StillAsksAnswers
  <2>5. CASE HasEnded(r, i)
    BY <2>2, <2>5, HasEndedAnswers
  <2> QED
    BY <1>2, <2>2, <2>3, <2>4, <2>5
<1> QED
  BY <1>1, <1>2 DEF Proceeds

\* The page has been observed, now or by the certification.
LEMMA ObservedAnswers ==
  ASSUME AppInv, QuestionInv, NEW r \in Requests, Observed(r) \/ Seeded(r)
  PROVE  Answers
<1>1. req[r].pc \in {"observe", "seeded"} /\ Proceeds(r) /\ crashes' = crashes
  BY DEF Observed, Seeded, Answered
<1> QED
  BY <1>1, ProceedsAnswers

-----------------------------------------------------------------------------
(* A task is created, disposed of, or recalled from the store; a restart.  *)

\* The books, when no run changes.
LEMMA NoRunBooks ==
  ASSUME AppInv, QuestionInv, UNCHANGED <<runs, crashes>>, Filed,
         \A i \in RunIds : stored'[i].task \in {None, stored[i].task},
         \A p \in Tasks : /\ \/ memory'[p].run \in {0, memory[p].run}
                             \/ runs[memory'[p].run].task = p
                          /\ memory'[p].fallback # "awaiting_human",
         \A q \in Requests : Passes(q)
  PROVE  Books
<1>1. AskInv
  BY DEF QuestionInv
<1>2. \A q \in Requests : /\ req'[q].pc = "runtime" => req[q].pc = "runtime" /\ Awaits(q)
                          /\ req[q].pc = "runtime" => Awaits(q)
  BY DEF Passes, Awaits
<1>3. \A i \in RunIds : /\ runs'[i].task = runs[i].task \/ runs[i].status = "none"
                        /\ runs'[i].status = "none" =>
                             runs[i].status = "none" /\ runs'[i].task = runs[i].task
  OBVIOUS
<1>4. \A p \in Tasks : memory'[p].run \in {0, memory[p].run} \/ runs'[memory'[p].run].task = p
  OBVIOUS
<1>5. \A i \in RunIds : stored'[i].task \in {None, stored[i].task, runs'[i].task}
  OBVIOUS
<1>6. \A q \in Requests : req'[q].pc = "runtime" =>
        \/ req[q].pc = "runtime" /\ Awaits(q)
        \/ runs'[req'[q].run].task = req'[q].t
  BY <1>2
<1>7. \A i \in RunIds : /\ runs'[i].ask # None => runs'[i].status = "interrupted"
                        /\ runs'[i].live => runs'[i].status # "interrupted"
  BY <1>1 DEF AskInv
<1>8. \A p \in Tasks : memory'[p].fallback # "awaiting_human"
  OBVIOUS
<1>9. crashes' = 0 => \A i \in RunIds : runs'[i].status = "running" =>
        \/ \E q \in Requests : req'[q].pc = "runtime" /\ req'[q].run = i
        \/ /\ runs[i].status = "running" /\ crashes = 0
           /\ \A q \in Requests : req[q].pc = "runtime" /\ req[q].run = i => Awaits(q)
  BY <1>2
<1> QED
  BY <1>3, <1>4, <1>5, <1>6, <1>7, <1>8, <1>9, Zenon DEF Books

\* The tasks left alone by a step that changes no run and no row.
LEMMA NoRunAside ==
  ASSUME TypeOK, OwnerInv, NEW p \in Tasks, UNCHANGED <<cached, runs, stored>>,
         Exists(p)' => Exists(p),
         memory'[p].run = memory[p].run, memory'[p].snapshot = memory[p].snapshot,
         \A q \in Requests : Passes(q)
  PROVE  Aside(p)
<1>1. \A i \in RunIds :
        IF runs[i].task = p
        THEN runs'[i] = runs[i] /\ stored'[i] = stored[i] /\ cached'[i] = cached[i]
        ELSE stored'[i].task # p
  BY ConstantsAssumption DEF OwnerInv
<1>2. Exists(p)' => \A q \in Requests :
        req[q].t = p /\ req[q].pc \in {"runtime", "delete"} =>
          req'[q].pc = req[q].pc /\ req'[q].run = req[q].run /\ req'[q].t = p
  BY DEF Passes, Exists
<1> QED
  BY <1>1, <1>2 DEF Aside

\* POST.
LEMMA CreateStartAnswers ==
  ASSUME AppInv, QuestionInv, NEW r \in Requests, NEW t \in Tasks, CreateStart(r, t)
  PROVE  Answers
<1>1. /\ UNCHANGED <<cached, runs, stored, saved, crashes>>
      /\ TypeOK /\ Typed /\ OwnerInv /\ OrderInv
      /\ memory' = [memory EXCEPT ![t].fallback = "observing"]
      /\ tasks' = [tasks EXCEPT ![t] = "observing"]
      /\ RunOf(t) = 0 /\ memory[t].snapshot = "none" /\ req[r].pc \notin {"runtime", "delete"}
  BY TypeIs DEF CreateStart, Free, AppInv, QuestionInv
<1>2. PICK c : c = [memory[t] EXCEPT !.fallback = "observing"]
  OBVIOUS
<1>3. /\ c.run = memory[t].run /\ c.snapshot = memory[t].snapshot /\ c.fallback = "observing"
      /\ memory' = [memory EXCEPT ![t] = c]
  BY <1>1, <1>2 DEF Typed, Cells
<1>4. \A p \in Tasks : /\ memory'[p].run = memory[p].run
                       /\ memory'[p].snapshot = memory[p].snapshot
                       /\ memory'[p].fallback # "awaiting_human"
  BY <1>1, <1>3 DEF Typed, QuestionInv, FallbackInv
<1>5. \A q \in Requests : Passes(q)
  <2>1. req' = [req EXCEPT ![r] =
          IF lease = None
          THEN [Starts(r, "create", t, "open") EXCEPT !.reserved = TRUE]
          ELSE Starts(r, "create", t, "undo")]
    BY DEF CreateStart
  <2>2. CASE lease = None
    <3>1. PICK y : y = Starts(r, "create", t, "open")
      OBVIOUS
    <3>2. y \in Slots /\ y.pc = "open"
      BY <3>1 DEF Starts, Idle, Slots
    <3>3. PICK x : x = [y EXCEPT !.reserved = TRUE]
      OBVIOUS
    <3>4. x.pc # "runtime"
      BY <3>2, <3>3 DEF Slots
    <3>5. req' = [req EXCEPT ![r] = x]
      BY <2>1, <2>2, <3>1, <3>3
    <3> QED
      BY <1>1, <3>4, <3>5, OnePasses
  <2>3. CASE lease # None
    <3>1. PICK x : x = Starts(r, "create", t, "undo")
      OBVIOUS
    <3>2. x.pc # "runtime"
      BY <3>1 DEF Starts, Idle
    <3>3. req' = [req EXCEPT ![r] = x]
      BY <2>1, <2>3, <3>1
    <3> QED
      BY <1>1, <3>2, <3>3, OnePasses
  <2> QED
    BY <2>2, <2>3
<1>6. Books
  <2>1. Filed
    BY <1>1 DEF Filed
  <2> QED
    BY <1>1, <1>4, <1>5, <2>1, NoRunBooks
<1>7. ASSUME NEW p \in Posted, p # t PROVE Aside(p)
  <2>1. p \in Tasks /\ (Exists(p)' => Exists(p))
    BY <1>1, <1>7, ConstantsAssumption DEF Typed, Exists
  <2> QED
    BY <1>1, <1>4, <1>5, <2>1, NoRunAside
<1>8. TaskAgrees(t)'
  <2>1. memory[t].run = 0 /\ StoredRun(t) = 0
    BY <1>1 DEF RunOf
  <2>2. \A i \in RunIds : stored[i].task # t
    BY <1>1, <2>1, NoRowIs
  <2>3. RowsAgree(t)'
    BY <1>1, <1>4, <2>1, <2>2 DEF RowsAgree
  <2>4. SnapshotAgrees(t)'
    BY <1>1, <1>4 DEF SnapshotAgrees
  <2> QED
    BY <2>3, <2>4 DEF TaskAgrees
<1> QED
  BY <1>1, <1>6, <1>7, <1>8 DEF Answers

\* dispose, of a task that a request deletes next.
LEMMA DisposesAnswers ==
  ASSUME AppInv, QuestionInv, NEW t \in Tasks, Disposes(t), UNCHANGED <<tasks, runs, crashes>>,
         \A q \in Requests : Passes(q),
         \E q \in Requests : req'[q].t = t /\ req'[q].pc = "delete"
  PROVE  Answers
<1>1. TypeOK /\ Typed /\ OwnerInv /\ memory' = [memory EXCEPT ![t] = Forgotten]
  BY TypeIs DEF AppInv, QuestionInv, Disposes
<1>2. /\ memory'[t].run = 0 /\ memory'[t].fallback # "awaiting_human"
      /\ \A p \in Tasks : p # t => memory'[p] = memory[p]
  BY <1>1 DEF Typed, Forgotten
<1>3. /\ Filed
      /\ \A j \in RunIds : stored'[j] \in {NotStored, stored[j]}
      /\ RunOf(t) = 0 => UNCHANGED <<cached, stored>>
      /\ RunOf(t) # 0 => ButRun(RunOf(t)) /\ stored'[RunOf(t)] = NotStored
  <2>1. CASE RunOf(t) = 0
    BY <2>1 DEF Disposes, Filed
  <2>2. CASE RunOf(t) # 0
    <3>1. PICK i \in RunIds : i = RunOf(t)
      BY <1>1, <2>2, RunOfOwner
    <3>2. /\ stored' = [stored EXCEPT ![i] = NotStored] /\ saved' = Others(i)
          /\ cached' = [cached EXCEPT ![i] = None]
      BY <2>2, <3>1 DEF Disposes
    <3>3. Filed
      BY <3>2 DEF Filed
    <3>4. /\ ButRun(i) /\ stored'[i] = NotStored
          /\ \A j \in RunIds : stored'[j] \in {NotStored, stored[j]}
      BY <1>1, <3>2 DEF Typed, ButRun
    <3> QED
      BY <2>2, <3>1, <3>3, <3>4
  <2> QED
    BY <2>1, <2>2
<1>4. NotStored.task = None
  BY DEF NotStored
<1>5. Books
  <2>1. \A i \in RunIds : stored'[i].task \in {None, stored[i].task}
    BY <1>3, <1>4
  <2>2. \A p \in Tasks : /\ memory'[p].run \in {0, memory[p].run}
                         /\ memory'[p].fallback # "awaiting_human"
    BY <1>2 DEF QuestionInv, FallbackInv
  <2> QED
    BY <1>3, <2>1, <2>2, NoRunBooks
<1>6. ASSUME NEW p \in Posted, p # t PROVE Aside(p)
  <2>1. p \in Tasks /\ p # None
    BY ConstantsAssumption
  <2>2. /\ memory'[p].run = memory[p].run /\ memory'[p].snapshot = memory[p].snapshot
        /\ Exists(p)' => Exists(p)
    BY <1>2, <1>6, <2>1 DEF Exists
  <2>3. CASE RunOf(t) = 0
    BY <1>1, <1>3, <2>1, <2>2, <2>3, NoRunAside
  <2>4. CASE RunOf(t) # 0
    <3>1. PICK i \in RunIds : i = RunOf(t) /\ runs[i].task = t
      BY <1>1, <2>4, RunOfOwner
    <3>2. ButRun(i) /\ stored'[i].task # p
      BY <1>3, <1>4, <2>1, <2>4, <3>1
    <3> QED
      BY <1>1, <1>6, <2>1, <2>2, <3>1, <3>2, OneRunAside
  <2> QED
    BY <2>3, <2>4
<1>7. ASSUME crashes' = 0, t \in Posted PROVE TaskAgrees(t)'
  <2> SUFFICES ASSUME Exists(t)' PROVE RowsAgree(t)' /\ Busy(t)'
    BY DEF TaskAgrees
  <2>1. RowsAgree(t)
    BY <1>7 DEF QuestionInv, AgreeInv, TaskAgrees, Exists
  <2>2. Busy(t)'
    BY DEF Busy
  <2>3. ASSUME NEW j \in RunIds, stored'[j].task = t, ~AtRuntime(j)'
        PROVE  stored'[j].ask = runs'[j].ask
    <3>1. stored'[j] = stored[j]
      BY <1>3, <1>4, <2>3, ConstantsAssumption
    <3>2. ~AtRuntime(j)
      BY <2>3 DEF AtRuntime, Passes
    <3> QED
      BY <2>1, <2>3, <3>1, <3>2 DEF RowsAgree
  <2> QED
    BY <1>2, <2>2, <2>3 DEF RowsAgree
<1> QED
  BY <1>5, <1>6, <1>7 DEF Answers

\* DELETE.
LEMMA DeleteStartAnswers ==
  ASSUME AppInv, QuestionInv, NEW r \in Requests, NEW t \in Tasks, DeleteStart(r, t)
  PROVE  Answers
<1>1. /\ UNCHANGED <<tasks, runs, crashes>> /\ Disposes(t) /\ TypeOK /\ Typed
      /\ req[r].pc \notin {"runtime", "delete"}
  BY TypeIs DEF DeleteStart, Free, AppInv
<1>2. PICK x : x = Starts(r, "delete", t, "delete")
  OBVIOUS
<1>3. x.pc = "delete" /\ x.t = t /\ req' = [req EXCEPT ![r] = x]
  BY <1>2 DEF Starts, Idle, DeleteStart
<1>4. \A q \in Requests : Passes(q)
  BY <1>1, <1>3, OnePasses
<1>5. req'[r].t = t /\ req'[r].pc = "delete"
  BY <1>1, <1>3 DEF Typed
<1> QED
  BY <1>1, <1>4, <1>5, DisposesAnswers

\* The page of the task is closed.
LEMMA ReleasedAnswers ==
  ASSUME AppInv, QuestionInv, NEW r \in Requests, Released(r)
  PROVE  Answers
<1>1. /\ UNCHANGED <<runs, crashes>> /\ TypeOK /\ Typed
      /\ req[r].pc = "release" /\ req[r].t \in Tasks
  BY TypeIs DEF Released, Answered, AppInv, TargetInv
<1>2. PICK t \in Tasks : t = req[r].t
  BY <1>1
<1>3. CASE req[r].op = "create" /\ Exists(t)
  <2>1. Disposes(t) /\ tasks' = tasks /\ req' = [req EXCEPT ![r].pc = "delete"]
    BY <1>2, <1>3 DEF Released
  <2>2. PICK x : x = [req[r] EXCEPT !.pc = "delete"]
    OBVIOUS
  <2>3. x.pc = "delete" /\ x.t = t /\ req' = [req EXCEPT ![r] = x]
    <3>1. req[r] \in Slots
      BY <1>1 DEF Typed
    <3> QED
      BY <1>2, <2>1, <2>2, <3>1 DEF Slots
  <2>4. \A q \in Requests : Passes(q)
    BY <1>1, <2>3, OnePasses
  <2>5. req'[r].t = t /\ req'[r].pc = "delete"
    BY <1>1, <2>3 DEF Typed
  <2> QED
    BY <1>1, <2>1, <2>4, <2>5, DisposesAnswers
<1>4. CASE ~ (req[r].op = "create" /\ Exists(t))
  <2>1. /\ UNCHANGED <<memory, cached, stored, saved>> /\ Emits({r}, t)
        /\ req' = [req EXCEPT ![r] = Idle]
    BY <1>2, <1>4 DEF Released
  <2>2. \A p \in Tasks : Exists(p)' <=> Exists(p)
    BY <1>1, <2>1, EmitsShows DEF Typed
  <2>3. PICK x : x = Idle
    OBVIOUS
  <2>4. x.pc # "runtime" /\ req' = [req EXCEPT ![r] = x]
    BY <2>1, <2>3 DEF Idle
  <2>5. \A p \in Posted : Exists(p)' => Exists(p)
    BY <2>2, ConstantsAssumption
  <2>6. req[r].pc \notin {"runtime", "delete"}
    BY <1>1
  <2> QED
    BY <1>1, <2>1, <2>4, <2>5, <2>6, GoesOnFrame
<1> QED
  BY <1>3, <1>4

\* A task is recalled from the store.
LEMMA RecallAnswers ==
  ASSUME AppInv, QuestionInv, NEW t \in Tasks, Recall(t)
  PROVE  Answers
<1>1. /\ UNCHANGED <<tasks, runs, stored, saved, req, crashes>>
      /\ TypeOK /\ Typed /\ OwnerInv /\ AskInv /\ RunInv
      /\ StoredRun(t) # 0 /\ memory[t].snapshot = "none"
  BY TypeIs DEF Recall, AppInv, QuestionInv
<1>2. PICK i \in RunIds : i = StoredRun(t) /\ stored[i].task = t
  BY <1>1, StoredRunIs
<1>3. runs[i].task = t /\ i # 0
  BY <1>1, <1>2, ConstantsAssumption DEF OwnerInv, RunIds
<1>4. /\ memory' = [memory EXCEPT ![t].snapshot = ValueStored(i), ![t].run = i]
      /\ cached' = IF stored[i].ask = None THEN cached
                   ELSE [cached EXCEPT ![i] = stored[i].ask]
  BY <1>2 DEF Recall
<1>5. PICK c : c = [memory[t] EXCEPT !.snapshot = ValueStored(i), !.run = i]
  OBVIOUS
<1>6. /\ c.run = i /\ c.snapshot = ValueStored(i) /\ c.fallback = memory[t].fallback
      /\ memory' = [memory EXCEPT ![t] = c]
  BY <1>1, <1>4, <1>5 DEF Typed, Cells
<1>7. /\ memory'[t] = c /\ \A p \in Tasks : p # t => memory'[p] = memory[p]
  BY <1>1, <1>6 DEF Typed
<1>8. /\ ButRun(i) /\ (stored[i].ask # None => cached'[i] = stored[i].ask)
      /\ \A q \in Requests : Passes(q)
  BY <1>1, <1>4 DEF Typed, ButRun, Passes
<1>9. Books
  <2>1. Filed
    BY <1>1 DEF Filed
  <2>2. \A p \in Tasks : /\ \/ memory'[p].run \in {0, memory[p].run}
                            \/ runs[memory'[p].run].task = p
                         /\ memory'[p].fallback # "awaiting_human"
    BY <1>3, <1>6, <1>7 DEF QuestionInv, FallbackInv
  <2> QED
    BY <1>1, <1>8, <2>1, <2>2, NoRunBooks
<1>10. ASSUME NEW p \in Posted, p # t PROVE Aside(p)
  <2>1. p \in Tasks /\ stored'[i].task # p /\ (Exists(p)' => Exists(p))
    BY <1>1, <1>2, <1>10, ConstantsAssumption DEF Exists
  <2>2. memory'[p].run = memory[p].run /\ memory'[p].snapshot = memory[p].snapshot
    BY <1>7, <1>10, <2>1
  <2>3. /\ runs[i].task # p
        /\ \A q \in Requests :
             req[q].t = p => Passes(q) \/ req[q].pc \notin {"runtime", "delete"}
    BY <1>3, <1>8, <1>10
  <2>4. TypeOK /\ OwnerInv /\ ButRun(i)
    BY <1>1, <1>8
  <2> QED
    BY <2>1, <2>2, <2>3, <2>4, OneRunAside, Zenon
<1>11. ASSUME crashes' = 0, t \in Posted PROVE TaskAgrees(t)'
  <2> SUFFICES ASSUME Exists(t)' PROVE RowsAgree(t)' /\ (~Busy(t)' => SnapshotAgrees(t)')
    BY DEF TaskAgrees
  <2>1. RowsAgree(t)
    BY <1>1, <1>11 DEF QuestionInv, AgreeInv, TaskAgrees, Exists
  <2>2. \A j \in RunIds : AtRuntime(j)' <=> AtRuntime(j)
    BY <1>1 DEF AtRuntime
  <2>3. RowsAgree(t)'
    BY <1>1, <1>2, <1>6, <1>7, <2>1, <2>2 DEF RowsAgree
  <2>4. ASSUME ~Busy(t)' PROVE SnapshotAgrees(t)'
    <3>1. ~AtRuntime(i)
      <4>1. AtRuntime(i) => \E q \in Requests : req[q].pc = "runtime" /\ req[q].t = t
        BY <1>1, <1>3, AtRuntimeIs
      <4> QED
        BY <1>1, <2>4, <4>1 DEF Busy
    <3>2. stored[i].ask = runs[i].ask
      BY <1>2, <2>1, <3>1 DEF RowsAgree
    <3>3. ValueStored(i) = "awaiting_human" => stored[i].ask # None
      BY DEF ValueStored
    <3>4. ValueStored(i) = "observing" => stored[i].ask = None
      BY DEF ValueStored
    <3>5. stored[i].ask # None <=> runs[i].status = "interrupted"
      BY <1>1, <3>2 DEF AskInv, RunInv
    <3>6. memory'[t].run = i /\ memory'[t].snapshot = ValueStored(i)
      BY <1>6, <1>7
    <3>7. ValueStored(i) = "awaiting_human" =>
            /\ runs'[i].status = "interrupted"
            /\ cached'[i] = None \/ cached'[i].n = runs'[i].ask.n
      BY <1>1, <1>8, <3>2, <3>3, <3>5
    <3>8. ValueStored(i) = "observing" => runs'[i].status # "interrupted"
      BY <1>1, <3>4, <3>5
    <3> QED
      BY <1>3, <3>6, <3>7, <3>8, Zenon DEF SnapshotAgrees
  <2> QED
    BY <2>3, <2>4
<1> QED
  BY <1>1, <1>9, <1>10, <1>11 DEF Answers

\* What a restart leaves of a run.
LEMMA RestartedAsks ==
  ASSUME AppInv, AskInv, NEW i \in RunIds, NEW z \in Restarted(i)
  PROVE  /\ z.task = runs[i].task /\ ~z.live
         /\ z.status = "none" => runs[i].status = "none"
         /\ z.ask # None => z.status = "interrupted"
<1>1. PICK y : y = [runs[i] EXCEPT !.live = FALSE, !.saved = None]
  OBVIOUS
<1>2. /\ y.task = runs[i].task /\ ~y.live /\ y.status = runs[i].status /\ y.ask = runs[i].ask
      /\ y \in RunRecords
  BY <1>1, LiveIs DEF RunRecords
<1>3. CASE z = y
  BY <1>2, <1>3 DEF AskInv
<1>4. CASE z = [y EXCEPT !.status = "failed"] /\ runs[i].status = "running"
  <2>1. z.task = y.task /\ ~z.live /\ z.status = "failed" /\ z.ask = y.ask
    BY <1>2, <1>4 DEF RunRecords
  <2> QED
    BY <1>2, <1>4, <2>1 DEF AskInv
<1> QED
  BY <1>1, <1>3, <1>4 DEF Restarted

\* The API restarts.
LEMMA CrashAnswers ==
  ASSUME AppInv, QuestionInv, Crash
  PROVE  Answers
<1>1. /\ UNCHANGED <<stored, saved>> /\ crashes' = crashes + 1 /\ AskInv
      /\ memory' = [t \in Tasks |-> Forgotten] /\ req' = [r \in Requests |-> Idle]
      /\ crashes \in Nat
  BY TypeIs, ConstantsAssumption DEF Crash, QuestionInv, AppInv, Typed
<1>2. crashes' # 0
  BY <1>1
<1>3. \A i \in RunIds : runs'[i] \in Restarted(i)
  BY DEF Crash
<1>4. \A i \in RunIds : /\ runs'[i].task = runs[i].task /\ ~runs'[i].live
                        /\ runs'[i].status = "none" => runs[i].status = "none"
                        /\ runs'[i].ask # None => runs'[i].status = "interrupted"
  BY <1>1, <1>3, RestartedAsks
<1>5. Books
  <2>1. Filed
    BY <1>1 DEF Filed
  <2>2. \A t \in Tasks : memory'[t].run = 0 /\ memory'[t].fallback # "awaiting_human"
    BY <1>1 DEF Forgotten
  <2>3. \A r \in Requests : req'[r].pc # "runtime"
    BY <1>1 DEF Idle
  <2>4. /\ \A i \in RunIds : /\ runs'[i].task = runs[i].task \/ runs[i].status = "none"
                             /\ runs'[i].status = "none" =>
                                  runs[i].status = "none" /\ runs'[i].task = runs[i].task
        /\ \A i \in RunIds : stored'[i].task \in {None, stored[i].task, runs'[i].task}
        /\ \A i \in RunIds : /\ runs'[i].ask # None => runs'[i].status = "interrupted"
                             /\ runs'[i].live => runs'[i].status # "interrupted"
    BY <1>1, <1>4
  <2>5. /\ \A t \in Tasks :
             memory'[t].run \in {0, memory[t].run} \/ runs'[memory'[t].run].task = t
        /\ \A t \in Tasks : memory'[t].fallback # "awaiting_human"
        /\ \A r \in Requests : req'[r].pc = "runtime" =>
             \/ req[r].pc = "runtime" /\ Awaits(r)
             \/ runs'[req'[r].run].task = req'[r].t
    BY <2>2, <2>3
  <2> QED
    BY <1>2, <2>1, <2>4, <2>5, Zenon DEF Books
<1> QED
  BY <1>2, <1>5 DEF Answers

-----------------------------------------------------------------------------
(* The invariant, and what it says of the pending question.               *)

\* Every step does what it must for the questions.
LEMMA NextAnswers == AppInv /\ QuestionInv /\ Next => Answers
<1> SUFFICES ASSUME AppInv, QuestionInv, Next PROVE Answers
  OBVIOUS
<1>1. CASE Start
  <2>1. PICK r \in Requests, t \in Tasks :
          \/ CreateStart(r, t)
          \/ PageStable(r, t)
          \/ OpenStart(r, t)
          \/ \E op \in {"resume", "answer"} : ResumeStart(r, t, op)
          \/ CancelStart(r, t)
          \/ DeleteStart(r, t)
          \/ CertifyStart(r, t)
    BY <1>1 DEF Start
  <2> QED
    BY <2>1, CreateStartAnswers, PageStableAnswers, OpenStartAnswers, ResumeStartAnswers,
       CancelStartAnswers, DeleteStartAnswers, CertifyStartAnswers
<1>2. ASSUME NEW r \in Requests, Continue(r) PROVE Answers
  BY <1>2, EnterAgainAnswers, DriftsAnswers, ReviewAnswers, PrepareFailsAnswers,
     ObservedAnswers, ReturnsAnswers, OpenedAnswers, OpenFailsAnswers, UndoAnswers,
     ReleasedAnswers, DeletedAnswers, CertifyFailsAnswers, CertifiedAnswers
     DEF Continue
<1>3. ASSUME NEW i \in RunIds, Execute(i) PROVE Answers
  BY <1>3, ExecutorSavesAnswers, ExecutorAsksAnswers, RunPausesAnswers, RunEndsAnswers,
     RunStopsAnswers DEF Execute
<1>4. ASSUME NEW t \in Tasks, Recall(t) \/ Converted(t) PROVE Answers
  BY <1>4, RecallAnswers, ConvertedAnswers
<1>5. CASE JobsAcquire \/ JobsRelease
  BY <1>5, JobsAnswers DEF JobsAcquire, JobsRelease
<1>6. CASE Crash
  BY <1>6, CrashAnswers
<1> QED
  BY <1>1, <1>2, <1>3, <1>4, <1>5, <1>6 DEF Next

\* So the invariant is inductive.
LEMMA NextQuestion == AppInv /\ QuestionInv /\ [Next]_vars => QuestionInv'
<1> SUFFICES ASSUME AppInv, QuestionInv, [Next]_vars PROVE QuestionInv'
  OBVIOUS
<1>1. AppInv'
  BY NextApp
<1>2. Answers
  <2>1. CASE UNCHANGED vars
    <3>1. UNCHANGED <<tasks, memory, cached, runs, stored, saved, req, crashes>>
      BY <2>1 DEF vars
    <3> QED
      BY <3>1, JobsAnswers
  <2> QED
    BY <2>1, NextAnswers
<1> QED
  BY <1>1, <1>2, AnswersKeep

\* It holds at first.
LEMMA InitQuestion == Init => QuestionInv
<1> SUFFICES ASSUME Init PROVE QuestionInv
  OBVIOUS
<1>1. /\ \A i \in RunIds : /\ runs[i].status = "none" /\ runs[i].task = None
                           /\ runs[i].ask = None /\ ~runs[i].live
                           /\ stored[i].task = None
      /\ \A t \in Tasks : memory[t].run = 0 /\ memory[t].fallback = "none" /\ ~Exists(t)
      /\ \A r \in Requests : req[r].pc = "idle"
  BY DEF Init, NoRun, NotStored, Forgotten, Idle, Exists
<1>2. OwnerInv /\ OrderInv /\ AskInv /\ FallbackInv /\ WatchInv
  BY <1>1 DEF OwnerInv, OrderInv, AskInv, FallbackInv, WatchInv
<1>3. AgreeInv
  BY <1>1, ConstantsAssumption DEF AgreeInv, TaskAgrees
<1> QED
  BY <1>2, <1>3 DEF QuestionInv

\* The snapshot is what an untouched task shows, unless it is terminal.
LEMMA ShownIs ==
  ASSUME NEW t \in Tasks, Recalled(t), Shown(t) \in {"awaiting_human", "observing"}
  PROVE  \/ memory[t].snapshot = Shown(t)
         \/ /\ memory[t].snapshot = "none" /\ StoredRuns(t) = {}
            /\ Shown(t) = memory[t].fallback
<1>1. Shown(t) \notin Terminal /\ "created" \notin {"awaiting_human", "observing"}
  BY DEF Terminal
<1>2. Shown(t) = Value(memory, t)
  BY <1>1 DEF Shown
<1> QED
  BY <1>1, <1>2 DEF Value, Recalled

\* Between requests the task and its run agree on the pending question.
LEMMA QuestionsAre == AppInv /\ QuestionInv => QuestionsAgree
<1> SUFFICES ASSUME AppInv, QuestionInv, crashes = 0, NEW t \in Posted,
                    Exists(t), Untouched(t), Recalled(t)
             PROVE  /\ Shown(t) = "awaiting_human" =>
                         /\ RunOf(t) # 0
                         /\ runs[RunOf(t)].status = "interrupted"
                         /\ \/ cached[RunOf(t)] = None
                            \/ cached[RunOf(t)].n = runs[RunOf(t)].ask.n
                    /\ RunOf(t) # 0 /\ runs[RunOf(t)].status = "interrupted" =>
                         Shown(t) # "observing"
  BY DEF QuestionsAgree, ShownIsAsked, AskedIsShown
<1>1. t \in Tasks /\ TypeOK /\ FallbackInv
  BY ConstantsAssumption DEF AppInv, QuestionInv
<1>2. RowsAgree(t) /\ SnapshotAgrees(t)
  BY DEF QuestionInv, AgreeInv, TaskAgrees, Untouched, Busy
<1>3. memory[t].run # 0 => RunOf(t) = memory[t].run
  BY DEF RunOf
<1>4. ASSUME Shown(t) = "awaiting_human"
      PROVE  /\ RunOf(t) # 0
             /\ runs[RunOf(t)].status = "interrupted"
             /\ \/ cached[RunOf(t)] = None
                \/ cached[RunOf(t)].n = runs[RunOf(t)].ask.n
  <2>1. memory[t].snapshot = "awaiting_human"
    BY <1>1, <1>4, ShownIs DEF FallbackInv
  <2> QED
    BY <1>2, <1>3, <2>1 DEF SnapshotAgrees
<1>5. ASSUME RunOf(t) # 0, Shown(t) = "observing" PROVE runs[RunOf(t)].status # "interrupted"
  <2>1. \E i \in RunIds : stored[i].task = t
    <3>1. CASE memory[t].run # 0
      <4>1. memory[t].run \in RunIds
        BY <1>1, <3>1, TypeIs DEF Typed, Cells
      <4> QED
        BY <1>2, <3>1, <4>1 DEF RowsAgree
    <3>2. CASE memory[t].run = 0
      BY <1>1, <1>5, <3>2, StoredRunIs DEF RunOf
    <3> QED
      BY <3>1, <3>2
  <2>2. memory[t].snapshot = "observing"
    BY <1>1, <1>5, <2>1, ShownIs DEF StoredRuns
  <2> QED
    BY <1>2, <1>3, <2>2 DEF SnapshotAgrees
<1> QED
  BY <1>4, <1>5

\* Between requests, and until a restart, the question that a task shows is the one its
\* run waits for, so that answering it is accepted; and a task whose run waits for the
\* user does not claim to observe the page: rememberResult keeps the state store,
\* runtimeInterrupts and the snapshot in step with the Runtime through every
\* interleaving of commands.
THEOREM QuestionsStayAnswerable == Spec => []Consistent
<1>1. Spec => [](AppInv /\ QuestionInv)
  <2>1. Init => AppInv /\ QuestionInv
    BY InitApp, InitQuestion
  <2>2. AppInv /\ QuestionInv /\ [Next]_vars => (AppInv /\ QuestionInv)'
    BY NextApp, NextQuestion
  <2> QED
    BY <2>1, <2>2, PTL DEF Spec
<1>2. AppInv /\ QuestionInv => Consistent
  BY QuestionsAre DEF Consistent, AppInv
<1> QED
  BY <1>1, <1>2, PTL
=============================================================================
