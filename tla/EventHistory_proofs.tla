------------------------- MODULE EventHistory_proofs -------------------------
(***************************************************************************)
(* Proofs about EventHistory: types, the record of the cut, and that a     *)
(* client never has a gap in its history that it does not know of.         *)
(*                                                                         *)
(* The last rests on five facts that are inductive only together: a        *)
(* recorded cut covers what the next trim takes; what was taken is older   *)
(* than what is stored; a client has read whatever is stored up to its     *)
(* last event; a notice on its way reports the whole gap; and an open      *)
(* stream carries what its client still has to be told.                    *)
(***************************************************************************)
EXTENDS EventHistory, FiniteSetTheorems, WellFoundedInduction, TLAPS

-----------------------------------------------------------------------------
(* The inductive invariant.                                                *)

\* A publication has given its row an id.
Numbered == publishing # NoPublication => lastId # 0

\* What the trim will take from the topic being published is recorded.
CutCoversTrim ==
  \A t \in Topics : publishing = [topic |-> t, next |-> "trim"] =>
    \A i \in Discarded(t) : i <= cursor[t]

\* What is stored was published; what was published and is not stored is older.
OldestGoFirst ==
  \A t \in Topics :
    /\ rows[t] \subseteq published[t]
    /\ \A i \in published[t] \ rows[t], j \in rows[t] : i < j

\* A client that has not followed a topic has read nothing; one without a
\* stream has nothing on its way.
Unconnected ==
  /\ \A c \in Clients : topic[c] = None => seen[c] = 0
  /\ \A c \in open : topic[c] # None
  /\ \A c \in Clients \ open : wire[c] = {} /\ notice[c] = None

\* What is on its way to a client is newer than what it has read; the row being
\* published is newer than both.
Ahead ==
  /\ \A c \in Clients : \A i \in wire[c] : seen[c] < i
  /\ publishing # NoPublication =>
       \A c \in Clients : seen[c] < lastId /\ lastId \notin wire[c]

\* A client has read what is stored up to its last event.
StoredIsRead ==
  \A c \in Clients : topic[c] # None =>
    \A i \in rows[topic[c]] : i <= seen[c] => i \in got[c]

\* A client that reads its notice knows of every gap.
NoticeIsTrue ==
  \A c \in Clients : topic[c] # None /\ notice[c] # None =>
    \A i \in published[topic[c]] : notice[c] < i /\ i <= seen[c] => i \in got[c]

\* Up to where a client knows, or is being told, that events may be missing.
Told(c) == IF notice[c] = None THEN base[c] ELSE notice[c]

\* What a client has to be told and has not read is on its way or about to be
\* sent; when its listener was dropped, all that is on its way is older.
Carried ==
  \A c \in open : \A i \in published[topic[c]] :
    seen[c] < i /\ (i \in rows[topic[c]] \/ Told(c) < i) =>
      \/ i \in wire[c]
      \/ c \in deaf /\ \A j \in wire[c] : j < i
      \/ c \notin deaf /\ i = lastId /\ publishing.topic = topic[c]

IInv ==
  /\ TypeOK /\ Numbered /\ CutCoversTrim /\ CutIsRecorded /\ OldestGoFirst
  /\ Unconnected /\ Ahead /\ StoredIsRead /\ NoticeIsTrue /\ Carried /\ NoSilentGap

-----------------------------------------------------------------------------
(* Facts about sets of ids.                                                *)

\* A set of naturals has a least member.
LEMMA LeastOf ==
  ASSUME NEW S \in SUBSET Nat, S # {}
  PROVE  \E m \in S : \A i \in S : m <= i
<1>1. PICK m \in S : \A i \in S : ~ (<<i, m>> \in OpToRel(<, Nat))
  BY NatLessThanWellFounded, WFMin
<1>2. \A i \in S : ~ (i < m)
  <2>1. \A i \in S : i < m => <<i, m>> \in OpToRel(<, Nat)
    BY DEF OpToRel
  <2> QED
    BY <1>1, <2>1, Zenon
<1> QED
  BY <1>2

\* A set of naturals up to n has a greatest member.
LEMMA GreatestOf ==
  ASSUME NEW n \in Nat, NEW S \in SUBSET (0..n), S # {}
  PROVE  \E m \in S : \A i \in S : i <= m
<1>1. {n - i : i \in S} \in SUBSET Nat
  OBVIOUS
<1>2. {n - i : i \in S} # {}
  OBVIOUS
<1>3. PICK m \in {n - i : i \in S} : \A i \in {n - j : j \in S} : m <= i
  BY <1>1, <1>2, LeastOf
<1>4. PICK k \in S : m = n - k
  OBVIOUS
<1>5. ASSUME NEW i \in S
      PROVE  i <= k
  <2>1. n - k <= n - i
    BY <1>3, <1>4
  <2>2. i \in 0..n /\ k \in 0..n
    OBVIOUS
  <2> QED
    BY <2>1, <2>2
<1> QED
  BY <1>5

\* A trim keeps the newest rows: it discards none that is newer than one kept
\* (trimHistory deletes by id).
LEMMA KeptAreNewest ==
  ASSUME NEW t \in Topics, TypeOK,
         NEW i \in Discarded(t), NEW j \in Kept(t)
  PROVE  i < j
<1> DEFINE After(k) == {x \in rows[t] : x > k}
<1>1. rows[t] \in SUBSET (1..lastId) /\ lastId \in Nat
  BY DEF TypeOK
<1>2. IsFiniteSet(rows[t])
  <2>1. IsFiniteSet(1..lastId)
    BY <1>1, FS_Interval
  <2> QED
    BY <1>1, <2>1, FS_Subset
<1>3. i \in rows[t] /\ j \in rows[t] /\ i \in 1..lastId /\ j \in 1..lastId
  BY <1>1 DEF Discarded, Kept
<1>4. ASSUME NEW k \in 1..lastId
      PROVE  IsFiniteSet(After(k)) /\ Cardinality(After(k)) \in Nat
  BY <1>2, FS_Subset, FS_CardinalityType
<1>5. SUFFICES ASSUME j <= i
               PROVE  FALSE
  BY <1>3
<1>6. After(i) \in SUBSET After(j)
  BY <1>1, <1>3, <1>5
<1>7. Cardinality(After(i)) <= Cardinality(After(j))
  BY <1>3, <1>4, <1>6, FS_Subset
<1>8. Cardinality(After(j)) < HistoryLimit
  BY DEF Kept
<1>9. ~ (Cardinality(After(i)) < HistoryLimit)
  BY <1>3 DEF Discarded, Kept
<1> QED
  BY <1>3, <1>4, <1>7, <1>8, <1>9, ConstantsAssumption

\* saveDiscarded leaves a cursor that does not fall back and covers what will
\* be discarded.
LEMMA SaveCovers ==
  ASSUME NEW t \in Topics, TypeOK, Save(t)
  PROVE  /\ cursor' \in [Topics -> 0..lastId]
         /\ \A u \in Topics : cursor[u] <= cursor'[u]
         /\ \A i \in Discarded(t) : i <= cursor'[t]
<1> DEFINE S == Discarded(t) \cup {cursor[t]}
<1>1. S \in SUBSET (0..lastId) /\ lastId \in Nat
  BY DEF TypeOK, Discarded
<1>2. \E m \in S : \A i \in S : i <= m
  BY <1>1, GreatestOf
<1> DEFINE top == CHOOSE m \in S : \A i \in S : i <= m
<1>3. top \in S /\ \A i \in S : i <= top
  BY <1>2
<1>4. cursor' = [cursor EXCEPT ![t] = top]
  BY DEF Save
<1> HIDE DEF top
<1> QED
  BY <1>1, <1>3, <1>4 DEF TypeOK

\* The notice of a reset names the id before the oldest stored row.
LEMMA CutBeforeOldest ==
  ASSUME NEW t \in Topics, TypeOK
  PROVE  /\ CutAt(t) \in 0..lastId
         /\ rows[t] = {} => CutAt(t) = cursor[t]
         /\ rows[t] # {} => \E k \in rows[t] : CutAt(t) + 1 = k
<1>1. rows[t] \in SUBSET (1..lastId) /\ lastId \in Nat /\ cursor[t] \in 0..lastId
  BY DEF TypeOK
<1>2. CASE rows[t] = {}
  BY <1>1, <1>2 DEF CutAt
<1>3. CASE rows[t] # {}
  <2>1. PICK k \in rows[t] : \A i \in rows[t] : k <= i
    BY <1>1, <1>3, LeastOf
  <2>2. k - 1 \in 0..lastId /\ (k - 1) + 1 = k
    BY <1>1
  <2>3. \E m \in 0..lastId : m + 1 \in rows[t] /\ \A i \in rows[t] : m + 1 <= i
    BY <2>1, <2>2
  <2> QED
    BY <1>3, <2>3 DEF CutAt
<1> QED
  BY <1>2, <1>3

-----------------------------------------------------------------------------
(* The initial states, and one lemma for each action.                      *)

\* The first state: nothing is published, nobody follows anything.
LEMMA InitHolds == Init => IInv
<1> SUFFICES ASSUME Init
             PROVE  IInv
  OBVIOUS
<1>1. TypeOK
  BY ConstantsAssumption DEF Init, TypeOK, NoPublication
<1>2. Numbered /\ CutCoversTrim /\ CutIsRecorded /\ OldestGoFirst
  BY DEF Init, Numbered, CutCoversTrim, CutIsRecorded, OldestGoFirst, NoPublication
<1>3. Unconnected /\ Ahead /\ StoredIsRead /\ NoticeIsTrue /\ Carried /\ NoSilentGap
  BY DEF Init, Unconnected, Ahead, StoredIsRead, NoticeIsTrue, Carried, NoSilentGap
<1> QED
  BY <1>1, <1>2, <1>3 DEF IInv

\* The insert statement of a publication gives the row the newest id.
LEMMA InsertHolds ==
  ASSUME IInv, NEW t \in Topics, PublishInserts(t)
  PROVE  IInv'
<1> USE DEF IInv
<1>1. /\ Quiet /\ lastId \in Nat /\ lastId' = lastId + 1
      /\ rows' = [rows EXCEPT ![t] = @ \cup {lastId + 1}]
      /\ published' = [published EXCEPT ![t] = @ \cup {lastId + 1}]
      /\ publishing' = [topic |-> t, next |-> "save"]
      /\ UNCHANGED <<bus, cursor, alive, topic, open, deaf, wire, notice, seen,
                     base, got, breaks>>
  BY DEF PublishInserts, Insert, TypeOK, streams, readers
<1>2. \A n \in 0..lastId : n \in 0..lastId'
  BY <1>1
<1>3. SUBSET (1..lastId) \subseteq SUBSET (1..lastId')
  BY <1>1
<1>4. TypeOK'
  BY <1>1, <1>2, <1>3 DEF TypeOK
<1>5. Numbered' /\ CutCoversTrim'
  BY <1>1 DEF Numbered, CutCoversTrim
<1>6. CutIsRecorded'
  BY <1>1 DEF CutIsRecorded, TypeOK
<1>7. OldestGoFirst'
  BY <1>1 DEF OldestGoFirst, TypeOK
<1>8. Unconnected' /\ Ahead'
  BY <1>1 DEF Unconnected, Ahead, TypeOK
<1>9. StoredIsRead'
  BY <1>1 DEF StoredIsRead, TypeOK
<1>10. NoticeIsTrue'
  BY <1>1 DEF NoticeIsTrue, TypeOK
<1>11. Carried'
  BY <1>1 DEF Carried, Told, TypeOK, Unconnected, Quiet, NoPublication
<1>12. NoSilentGap'
  BY <1>1 DEF NoSilentGap, TypeOK
<1> QED
  BY <1>4, <1>5, <1>6, <1>7, <1>8, <1>9, <1>10, <1>11, <1>12

\* The cursor is saved before anything is taken.
LEMMA SaveHolds ==
  ASSUME IInv, NEW t \in Topics, PublishSaves(t)
  PROVE  IInv'
<1> USE DEF IInv
<1>1. /\ publishing = [topic |-> t, next |-> "save"]
      /\ publishing' = [topic |-> t, next |-> "trim"]
      /\ Save(t)
      /\ UNCHANGED <<bus, lastId, rows, alive, published, topic, open, deaf,
                     wire, notice, seen, base, got, breaks>>
  BY DEF PublishSaves, Save, streams, readers
<1>2. /\ cursor' \in [Topics -> 0..lastId]
      /\ \A u \in Topics : cursor[u] <= cursor'[u]
      /\ \A i \in Discarded(t) : i <= cursor'[t]
  BY <1>1, SaveCovers
<1>3. TypeOK'
  BY <1>1, <1>2 DEF TypeOK
<1>4. Numbered' /\ CutCoversTrim'
  BY <1>1, <1>2 DEF Numbered, NoPublication, CutCoversTrim, Discarded, Kept
<1>5. CutIsRecorded'
  BY <1>1, <1>2 DEF CutIsRecorded, TypeOK
<1>6. /\ OldestGoFirst' /\ Unconnected' /\ Ahead' /\ StoredIsRead'
      /\ NoticeIsTrue' /\ NoSilentGap'
  BY <1>1 DEF OldestGoFirst, Unconnected, Ahead, NoPublication, StoredIsRead,
    NoticeIsTrue, NoSilentGap
<1>7. Carried'
  BY <1>1 DEF Carried, Told
<1> QED
  BY <1>3, <1>4, <1>5, <1>6, <1>7

\* The trim takes what the cursor covers, and the listeners get the event.
LEMMA EndHolds ==
  ASSUME IInv, NEW t \in Topics, PublishEnds(t)
  PROVE  IInv'
<1> USE DEF IInv
<1>1. /\ publishing = [topic |-> t, next |-> "trim"]
      /\ publishing' = NoPublication
      /\ rows' = [rows EXCEPT ![t] = Kept(t)]
      /\ wire' = [c \in Clients |->
           IF c \in Listening(t) THEN wire[c] \cup {lastId} ELSE wire[c]]
      /\ UNCHANGED <<bus, lastId, cursor, alive, published, topic, open, deaf,
                     notice, seen, base, got, breaks>>
  BY DEF PublishEnds, readers
<1>2. Kept(t) \subseteq rows[t] /\ Discarded(t) = rows[t] \ Kept(t)
  BY DEF Kept, Discarded
<1>3. \A u \in Topics : rows'[u] \subseteq rows[u]
  BY <1>1, <1>2 DEF TypeOK
<1>4. TypeOK'
  <2>1. rows' \in [Topics -> SUBSET (1..lastId)]
    BY <1>1, <1>2 DEF TypeOK
  <2>2. publishing' \in [topic : Topics \cup {None}, next : {"none", "save", "trim"}]
    BY <1>1 DEF NoPublication
  <2>3. lastId \in Nat /\ lastId # 0
    BY <1>1 DEF TypeOK, Numbered, NoPublication
  <2>4. wire' \in [Clients -> SUBSET (1..lastId)]
    BY <1>1, <2>3 DEF TypeOK
  <2>5. \A c \in Clients : topic[c] = None => wire'[c] = {}
    BY <1>1, ConstantsAssumption DEF TypeOK, Listening
  <2> QED
    BY <1>1, <2>1, <2>2, <2>4, <2>5 DEF TypeOK
<1>5. Numbered' /\ CutCoversTrim'
  BY <1>1 DEF Numbered, CutCoversTrim, NoPublication
<1>6. CutIsRecorded'
  BY <1>1, <1>2 DEF CutIsRecorded, CutCoversTrim, TypeOK
<1>7. OldestGoFirst'
  <2>0. \A u \in Topics : rows'[u] \subseteq published[u]
    BY <1>3 DEF OldestGoFirst
  <2> SUFFICES ASSUME NEW u \in Topics, NEW i \in published[u] \ rows'[u],
                      NEW j \in rows'[u]
               PROVE  i < j
    BY <1>1, <2>0 DEF OldestGoFirst
  <2>1. CASE i \notin rows[u]
    BY <1>3, <2>1 DEF OldestGoFirst
  <2>2. CASE i \in rows[u]
    <3>1. u = t
      BY <1>1, <2>2 DEF TypeOK
    <3>2. i \in Discarded(t) /\ j \in Kept(t)
      BY <1>1, <1>2, <2>2, <3>1 DEF TypeOK
    <3> QED
      BY <3>2, KeptAreNewest
  <2> QED
    BY <2>1, <2>2
<1>8. Unconnected' /\ Ahead'
  BY <1>1 DEF Unconnected, Ahead, NoPublication, Listening
<1>9. StoredIsRead'
  BY <1>1, <1>3 DEF StoredIsRead, TypeOK
<1>10. NoticeIsTrue' /\ NoSilentGap'
  BY <1>1 DEF NoticeIsTrue, NoSilentGap
<1>11. Carried'
  <2> SUFFICES ASSUME NEW c \in open, NEW i \in published[topic[c]],
                      seen[c] < i, i \in rows'[topic[c]] \/ Told(c) < i
               PROVE  \/ i \in wire'[c]
                      \/ c \in deaf /\ \A j \in wire'[c] : j < i
    BY <1>1 DEF Carried, Told
  <2>1. c \in Clients /\ topic[c] \in Topics
    BY DEF TypeOK, Unconnected
  <2>2. i \in rows[topic[c]] \/ Told(c) < i
    BY <1>3, <2>1
  <2>3. wire[c] \subseteq wire'[c] /\ (c \in deaf => wire'[c] = wire[c])
    BY <1>1, <2>1 DEF Listening
  <2>4. CASE i \in wire[c]
    BY <2>3, <2>4
  <2>5. CASE c \in deaf /\ \A j \in wire[c] : j < i
    BY <2>3, <2>5
  <2>6. CASE c \notin deaf /\ i = lastId /\ publishing.topic = topic[c]
    BY <1>1, <2>1, <2>6 DEF Listening
  <2> QED
    BY <2>2, <2>4, <2>5, <2>6 DEF Carried
<1> QED
  BY <1>4, <1>5, <1>6, <1>7, <1>8, <1>9, <1>10, <1>11

\* A stream opens on what is stored after the client's last event, and the
\* notice covers what is no longer stored.
LEMMA ConnectHolds ==
  ASSUME IInv, NEW c \in Clients, NEW t \in Topics, Connect(c, t)
  PROVE  IInv'
<1> USE DEF IInv
<1>1. /\ Quiet /\ c \notin open /\ topic[c] \in {None, t} /\ t \in alive
      /\ topic' = [topic EXCEPT ![c] = t]
      /\ open' = open \cup {c}
      /\ deaf' = deaf \ {c}
      /\ wire' = [wire EXCEPT ![c] = {i \in rows[t] : i > seen[c]}]
      /\ notice' = [notice EXCEPT ![c] =
           IF Resets(t, seen[c]) THEN CutAt(t) ELSE None]
      /\ base' = [base EXCEPT ![c] = IF seen[c] = 0 THEN cursor[t] ELSE @]
      /\ UNCHANGED <<bus, lastId, rows, cursor, alive, publishing, published,
                     seen, got, breaks>>
  BY DEF Connect, server
<1>2. /\ lastId \in Nat /\ cursor[t] \in 0..lastId /\ rows[t] \in SUBSET (1..lastId)
      /\ published[t] \in SUBSET (1..lastId) /\ seen[c] \in 0..lastId
  BY DEF TypeOK
<1>3. CutAt(t) \in 0..lastId
  BY CutBeforeOldest
\* What was published and is not stored is up to the cut that is reported.
<1>4. \A i \in published[t] \ rows[t] : i <= CutAt(t)
  <2> SUFFICES ASSUME NEW i \in published[t] \ rows[t]
               PROVE  i <= CutAt(t)
    OBVIOUS
  <2>1. i <= cursor[t]
    BY <1>1 DEF CutIsRecorded
  <2>2. CASE rows[t] = {}
    BY <2>1, <2>2, CutBeforeOldest
  <2>3. CASE rows[t] # {}
    <3>1. PICK k \in rows[t] : CutAt(t) + 1 = k
      BY <2>3, CutBeforeOldest
    <3>2. i < k
      BY DEF OldestGoFirst
    <3> QED
      BY <1>2, <1>3, <3>1, <3>2
  <2> QED
    BY <2>2, <2>3
<1>5. TypeOK'
  <2>1. notice' \in [Clients -> (0..lastId) \cup {None}]
    BY <1>1, <1>3 DEF TypeOK
  <2>2. base' \in [Clients -> 0..lastId]
    BY <1>1, <1>2 DEF TypeOK
  <2>3. wire' \in [Clients -> SUBSET (1..lastId)]
    BY <1>1, <1>2 DEF TypeOK
  <2>4. \A d \in Clients : topic'[d] = None => wire'[d] = {}
    BY <1>1, ConstantsAssumption DEF TypeOK
  <2> QED
    BY <1>1, <2>1, <2>2, <2>3, <2>4 DEF TypeOK
<1>6. Numbered' /\ CutCoversTrim' /\ CutIsRecorded' /\ OldestGoFirst'
  BY <1>1 DEF Numbered, NoPublication, CutCoversTrim, Discarded, Kept,
    CutIsRecorded, OldestGoFirst
<1>7. Unconnected' /\ Ahead'
  BY <1>1, ConstantsAssumption DEF Unconnected, Ahead, Quiet, TypeOK
<1>8. topic[c] = None => seen[c] = 0
  BY DEF Unconnected
\* What is stored up to its last event, this client has read.
<1>9. \A i \in rows[t] : i <= seen[c] => i \in got[c]
  BY <1>1, <1>2, <1>8 DEF StoredIsRead
<1>10. \A d \in Clients : d # c =>
         /\ topic'[d] = topic[d] /\ wire'[d] = wire[d] /\ notice'[d] = notice[d]
         /\ base'[d] = base[d] /\ (d \in deaf' <=> d \in deaf)
         /\ (d \in open' <=> d \in open)
  BY <1>1 DEF TypeOK
<1>11. /\ topic'[c] = t /\ wire'[c] = {i \in rows[t] : i > seen[c]}
       /\ notice'[c] = IF Resets(t, seen[c]) THEN CutAt(t) ELSE None
       /\ base'[c] = IF seen[c] = 0 THEN cursor[t] ELSE base[c]
  BY <1>1 DEF TypeOK
<1>12. StoredIsRead'
  BY <1>1, <1>9, <1>10, <1>11 DEF StoredIsRead
<1>13. NoticeIsTrue'
  <2> SUFFICES ASSUME NEW d \in Clients, topic'[d] # None, notice'[d] # None,
                      NEW i \in published[topic'[d]], notice'[d] < i, i <= seen[d]
               PROVE  i \in got[d]
    BY <1>1 DEF NoticeIsTrue
  <2>1. CASE d # c
    BY <1>10, <2>1 DEF NoticeIsTrue
  <2>2. CASE d = c
    <3>1. i \in published[t] /\ CutAt(t) < i /\ i \in 1..lastId
      BY <1>2, <1>11, <2>2
    <3>2. i \in rows[t]
      BY <1>3, <1>4, <3>1
    <3> QED
      BY <1>9, <2>2, <3>2
  <2> QED
    BY <2>1, <2>2
<1>14. Carried'
  <2> SUFFICES ASSUME NEW d \in open', NEW i \in published[topic'[d]], seen[d] < i,
                      i \in rows[topic'[d]] \/ Told(d)' < i
               PROVE  \/ i \in wire'[d]
                      \/ d \in deaf' /\ \A j \in wire'[d] : j < i
                      \/ d \notin deaf' /\ i = lastId /\ publishing.topic = topic'[d]
    BY <1>1 DEF Carried
  <2>0. d \in Clients
    BY <1>1 DEF TypeOK
  <2>1. CASE d # c
    <3>1. d \in open /\ Told(d)' = Told(d) /\ topic'[d] = topic[d]
          /\ wire'[d] = wire[d] /\ (d \in deaf' <=> d \in deaf)
      BY <1>10, <2>0, <2>1 DEF Told
    <3> QED
      BY <3>1 DEF Carried
  <2>2. CASE d = c
    <3>1. i \in published[t] /\ i \in 1..lastId
      BY <1>2, <1>11, <2>2
    <3>2. i \in rows[t]
      <4> SUFFICES ASSUME i \notin rows[t]
                   PROVE  FALSE
        OBVIOUS
      <4>1. i <= cursor[t] /\ i <= CutAt(t)
        BY <1>1, <1>4, <3>1 DEF CutIsRecorded
      <4>2. Told(c)' < i
        BY <1>11, <2>2
      <4>3. CASE Resets(t, seen[c])
        <5>1. CutAt(t) # None
          BY <1>2, <1>3, ConstantsAssumption
        <5> QED
          BY <1>3, <1>11, <3>1, <4>1, <4>2, <4>3, <5>1 DEF Told
      <4>4. CASE ~ Resets(t, seen[c])
        <5>1. Told(c)' = base'[c]
          BY <1>11, <4>4 DEF Told
        <5>2. seen[c] # 0
          BY <1>2, <1>11, <3>1, <4>1, <4>2, <5>1
        <5>3. seen[c] > 0 /\ cursor[t] > 0
          BY <1>2, <3>1, <4>1, <5>2
        <5>4. seen[c] > cursor[t]
          BY <1>2, <4>4, <5>3 DEF Resets
        <5> QED
          BY <1>2, <2>2, <3>1, <4>1, <5>4
      <4> QED
        BY <4>3, <4>4
    <3> QED
      BY <1>2, <1>11, <2>2, <3>1, <3>2
  <2> QED
    BY <2>1, <2>2
<1>15. NoSilentGap'
  <2> SUFFICES ASSUME NEW d \in Clients, topic'[d] # None,
                      NEW i \in published[topic'[d]], base'[d] < i, i <= seen[d]
               PROVE  i \in got[d]
    BY <1>1 DEF NoSilentGap
  <2>1. CASE d # c
    BY <1>10, <2>1 DEF NoSilentGap
  <2>2. CASE d = c
    <3>1. i \in published[t] /\ i \in 1..lastId
      BY <1>2, <1>11, <2>2
    <3>2. seen[c] # 0
      BY <1>2, <2>2, <3>1
    <3>3. topic[c] = t
      BY <1>1, <1>8, <3>2
    <3> QED
      BY <1>11, <2>2, <3>2, <3>3 DEF NoSilentGap
  <2> QED
    BY <2>1, <2>2
<1> QED
  BY <1>5, <1>6, <1>7, <1>12, <1>13, <1>14, <1>15

\* A client that reads its notice knows of a gap it may have.
LEMMA ReadResetHolds ==
  ASSUME IInv, NEW c \in Clients, ReadReset(c)
  PROVE  IInv'
<1> USE DEF IInv
<1>1. /\ notice[c] # None
      /\ base' = [base EXCEPT ![c] = notice[c]]
      /\ notice' = [notice EXCEPT ![c] = None]
      /\ UNCHANGED <<bus, lastId, rows, cursor, alive, publishing, published,
                     topic, open, deaf, wire, seen, got, breaks>>
  BY DEF ReadReset, server
<1>2. notice[c] \in 0..lastId
  BY <1>1 DEF TypeOK
<1>3. TypeOK'
  BY <1>1, <1>2 DEF TypeOK
<1>4. Numbered' /\ CutCoversTrim' /\ CutIsRecorded' /\ OldestGoFirst' /\ StoredIsRead'
  BY <1>1 DEF Numbered, NoPublication, CutCoversTrim, Discarded, Kept,
    CutIsRecorded, OldestGoFirst, StoredIsRead
<1>5. Unconnected' /\ Ahead'
  BY <1>1 DEF Unconnected, Ahead, NoPublication, TypeOK
<1>6. \A d \in Clients : /\ Told(d)' = Told(d)
                         /\ notice'[d] # None => notice'[d] = notice[d]
                         /\ base'[d] = IF d = c THEN notice[c] ELSE base[d]
  BY <1>1 DEF Told, TypeOK
<1>7. NoticeIsTrue'
  BY <1>1, <1>6 DEF NoticeIsTrue
<1>8. Carried'
  BY <1>1, <1>6 DEF Carried, TypeOK
<1>9. NoSilentGap'
  BY <1>1, <1>6 DEF NoSilentGap, NoticeIsTrue
<1> QED
  BY <1>3, <1>4, <1>5, <1>7, <1>8, <1>9

\* A client reads the oldest event on its way: all it skips it knows of.
LEMMA ReadHolds ==
  ASSUME IInv, NEW c \in Clients, Read(c)
  PROVE  IInv'
<1> USE DEF IInv
<1>1. PICK i \in wire[c] :
        /\ \A j \in wire[c] : i <= j
        /\ wire' = [wire EXCEPT ![c] = @ \ {i}]
        /\ seen' = [seen EXCEPT ![c] = i]
        /\ got' = [got EXCEPT ![c] = @ \cup {i}]
  BY DEF Read
<1>2. /\ notice[c] = None
      /\ UNCHANGED <<bus, lastId, rows, cursor, alive, publishing, published,
                     topic, open, deaf, notice, base, breaks>>
  BY DEF Read, server
<1>3. /\ lastId \in Nat /\ i \in 1..lastId /\ wire[c] \in SUBSET (1..lastId)
      /\ seen[c] \in 0..lastId /\ base[c] \in 0..lastId
  BY DEF TypeOK
<1>4. c \in open /\ topic[c] \in Topics
  BY DEF Unconnected, TypeOK
<1>5. \A k \in published[topic[c]] \cup rows[topic[c]] : k \in 1..lastId
  BY <1>4 DEF TypeOK
<1>6. /\ wire'[c] = wire[c] \ {i} /\ seen'[c] = i /\ got'[c] = got[c] \cup {i}
      /\ \A d \in Clients : d # c =>
           wire'[d] = wire[d] /\ seen'[d] = seen[d] /\ got'[d] = got[d]
  BY <1>1 DEF TypeOK
\* Up to the event that is read, the client has read all it was not told of.
<1>7. ASSUME NEW k \in published[topic[c]], k <= i,
             k \in rows[topic[c]] \/ base[c] < k, seen[c] < k
      PROVE  k = i
  <2>1. Told(c) = base[c]
    BY <1>2 DEF Told
  <2>2. \/ k \in wire[c]
        \/ c \in deaf /\ \A j \in wire[c] : j < k
        \/ c \notin deaf /\ k = lastId /\ publishing.topic = topic[c]
    BY <1>4, <1>7, <2>1 DEF Carried
  <2> QED
    BY <1>1, <1>3, <1>5, <1>7, <2>2
<1>8. TypeOK'
  BY <1>1, <1>2, <1>3 DEF TypeOK
<1>9. Numbered' /\ CutCoversTrim' /\ CutIsRecorded' /\ OldestGoFirst'
  BY <1>2 DEF Numbered, NoPublication, CutCoversTrim, Discarded, Kept,
    CutIsRecorded, OldestGoFirst
<1>10. Unconnected' /\ Ahead'
  <2>1. Unconnected'
    BY <1>2, <1>4, <1>6 DEF Unconnected, TypeOK
  <2>2. \A d \in Clients : \A k \in wire'[d] : seen'[d] < k
    <3>1. \A k \in wire'[c] : seen'[c] < k
      BY <1>1, <1>3, <1>6
    <3> QED
      BY <1>6, <3>1 DEF Ahead
  <2>3. publishing # NoPublication =>
          \A d \in Clients : seen'[d] < lastId /\ lastId \notin wire'[d]
    BY <1>3, <1>6 DEF Ahead
  <2> QED
    BY <1>2, <2>1, <2>2, <2>3 DEF Ahead, NoPublication
<1>11. NoSilentGap'
  BY <1>2, <1>3, <1>4, <1>5, <1>6, <1>7 DEF NoSilentGap
<1>12. NoticeIsTrue'
  BY <1>2, <1>6 DEF NoticeIsTrue
<1>13. StoredIsRead'
  <2>1. rows[topic[c]] \subseteq published[topic[c]]
    BY <1>4 DEF OldestGoFirst
  <2>2. \A k \in rows[topic[c]] : k <= i => k \in got'[c]
    BY <1>3, <1>4, <1>5, <1>6, <1>7, <2>1, ConstantsAssumption DEF StoredIsRead
  <2> QED
    BY <1>2, <1>6, <2>2 DEF StoredIsRead
<1>14. Carried'
  <2> SUFFICES ASSUME NEW d \in open, NEW k \in published[topic[d]], seen'[d] < k,
                      k \in rows[topic[d]] \/ Told(d) < k
               PROVE  \/ k \in wire'[d]
                      \/ d \in deaf /\ \A j \in wire'[d] : j < k
                      \/ d \notin deaf /\ k = lastId /\ publishing.topic = topic[d]
    BY <1>2 DEF Carried, Told
  <2>1. CASE d # c
    <3>1. d \in Clients
      BY DEF TypeOK
    <3> QED
      BY <1>6, <2>1, <3>1 DEF Carried
  <2>2. CASE d = c
    <3>1. seen[c] < k /\ k # i
      <4>1. k \in 1..lastId /\ i < k
        BY <1>5, <1>6, <2>2
      <4>2. seen[c] < i
        BY <1>1 DEF Ahead
      <4> QED
        BY <1>3, <4>1, <4>2
    <3>2. \/ k \in wire[c]
          \/ c \in deaf /\ \A j \in wire[c] : j < k
          \/ c \notin deaf /\ k = lastId /\ publishing.topic = topic[c]
      BY <2>2, <3>1 DEF Carried
    <3> QED
      BY <1>6, <2>2, <3>1, <3>2
  <2> QED
    BY <2>1, <2>2
<1> QED
  BY <1>8, <1>9, <1>10, <1>11, <1>12, <1>13, <1>14

\* A lost connection takes what is on it.
LEMMA BreakHolds ==
  ASSUME IInv, NEW c \in Clients, Break(c)
  PROVE  IInv'
<1> USE DEF IInv
<1>1. /\ c \in open /\ breaks < MaxBreaks /\ breaks' = breaks + 1
      /\ open' = open \ {c}
      /\ wire' = [wire EXCEPT ![c] = {}]
      /\ notice' = [notice EXCEPT ![c] = None]
      /\ UNCHANGED <<bus, lastId, rows, cursor, alive, publishing, published,
                     topic, deaf, seen, base, got>>
  BY DEF Break, server, readers
<1>2. TypeOK'
  BY <1>1, ConstantsAssumption DEF TypeOK
<1>3. /\ Numbered' /\ CutCoversTrim' /\ CutIsRecorded' /\ OldestGoFirst'
      /\ StoredIsRead' /\ NoSilentGap'
  BY <1>1 DEF Numbered, NoPublication, CutCoversTrim, Discarded, Kept,
    CutIsRecorded, OldestGoFirst, StoredIsRead, NoSilentGap
<1>4. \A d \in Clients : d # c => wire'[d] = wire[d] /\ notice'[d] = notice[d]
  BY <1>1 DEF TypeOK
<1>5. wire'[c] = {} /\ notice'[c] = None
  BY <1>1 DEF TypeOK
<1>6. Unconnected' /\ Ahead'
  BY <1>1, <1>4, <1>5 DEF Unconnected, Ahead, NoPublication
<1>7. NoticeIsTrue'
  BY <1>1, <1>4, <1>5 DEF NoticeIsTrue
<1>8. Carried'
  BY <1>1, <1>4 DEF Carried, Told, TypeOK
<1> QED
  BY <1>2, <1>3, <1>6, <1>7, <1>8

\* A deleted topic stores nothing; a conversation's listeners go with it when
\* all that was published is on its way.
LEMMA DeleteHolds ==
  ASSUME IInv, NEW t \in Topics, Delete(t)
  PROVE  IInv'
<1> USE DEF IInv
<1>1. /\ Quiet /\ t \in alive
      /\ alive' = alive \ {t}
      /\ rows' = [rows EXCEPT ![t] = {}]
      /\ cursor' = [cursor EXCEPT ![t] = 0]
      /\ deaf' = IF bus = "conversation" THEN deaf \cup Listening(t) ELSE deaf
      /\ UNCHANGED <<bus, lastId, publishing, published, topic, open, wire,
                     notice, seen, base, got, breaks>>
  BY DEF Delete, readers
<1>2. \A u \in Topics : rows'[u] = IF u = t THEN {} ELSE rows[u]
  BY <1>1 DEF TypeOK
<1>3. \A u \in Topics : u # t => cursor'[u] = cursor[u]
  BY <1>1 DEF TypeOK
<1>4. TypeOK'
  BY <1>1 DEF TypeOK, Listening
<1>5. Numbered' /\ CutCoversTrim'
  BY <1>1 DEF Numbered, CutCoversTrim, Quiet, NoPublication
<1>6. CutIsRecorded'
  BY <1>1, <1>2, <1>3 DEF CutIsRecorded, TypeOK
<1>7. OldestGoFirst'
  BY <1>1, <1>2 DEF OldestGoFirst
<1>8. Unconnected' /\ Ahead' /\ NoticeIsTrue' /\ NoSilentGap'
  BY <1>1 DEF Unconnected, Ahead, NoPublication, NoticeIsTrue, NoSilentGap
<1>9. StoredIsRead'
  BY <1>1, <1>2 DEF StoredIsRead, TypeOK
<1>10. Carried'
  <2> SUFFICES ASSUME NEW d \in open, NEW k \in published[topic[d]], seen[d] < k,
                      k \in rows'[topic[d]] \/ Told(d) < k
               PROVE  \/ k \in wire[d]
                      \/ d \in deaf' /\ \A j \in wire[d] : j < k
    BY <1>1 DEF Carried, Told
  <2>1. d \in Clients /\ topic[d] \in Topics
    BY DEF TypeOK, Unconnected
  <2>2. k \in rows[topic[d]] \/ Told(d) < k
    BY <1>2, <2>1
  <2>3. d \in deaf => d \in deaf'
    BY <1>1
  <2>4. publishing.topic # topic[d]
    BY <1>1, <2>1, ConstantsAssumption DEF Quiet, NoPublication
  <2> QED
    BY <2>2, <2>3, <2>4 DEF Carried
<1> QED
  BY <1>4, <1>5, <1>6, <1>7, <1>8, <1>9, <1>10

\* A restart closes every stream and leaves the publication where it was.
LEMMA CrashHolds ==
  ASSUME IInv, Crash
  PROVE  IInv'
<1> USE DEF IInv
<1>1. /\ breaks < MaxBreaks /\ breaks' = breaks + 1
      /\ publishing' = NoPublication
      /\ open' = {}
      /\ wire' = [c \in Clients |-> {}]
      /\ notice' = [c \in Clients |-> None]
      /\ UNCHANGED <<bus, lastId, rows, cursor, alive, published, topic, deaf,
                     seen, base, got>>
  BY DEF Crash, readers
<1>2. TypeOK'
  BY <1>1, ConstantsAssumption DEF TypeOK, NoPublication
<1>3. Numbered' /\ CutCoversTrim'
  BY <1>1 DEF Numbered, NoPublication, CutCoversTrim
<1>4. CutIsRecorded' /\ OldestGoFirst' /\ StoredIsRead' /\ NoSilentGap'
  BY <1>1 DEF CutIsRecorded, OldestGoFirst, StoredIsRead, NoSilentGap
<1>5. Unconnected' /\ Ahead' /\ NoticeIsTrue' /\ Carried'
  BY <1>1 DEF Unconnected, Ahead, NoPublication, NoticeIsTrue, Carried
<1> QED
  BY <1>2, <1>3, <1>4, <1>5

\* A step that changes nothing.
LEMMA StutterHolds ==
  ASSUME IInv, UNCHANGED vars
  PROVE  IInv'
<1>1. UNCHANGED <<bus, lastId, rows, cursor, alive, publishing, published, topic,
                  open, deaf, wire, notice, seen, base, got, breaks>>
  BY DEF vars, server, streams, readers
<1> QED
  BY <1>1 DEF IInv, TypeOK, Numbered, NoPublication, CutCoversTrim, Discarded,
    Kept, CutIsRecorded, OldestGoFirst, Unconnected, Ahead, StoredIsRead, NoticeIsTrue,
    Carried, Told, NoSilentGap

-----------------------------------------------------------------------------
(* The theorems.                                                           *)

\* The invariant holds in every reachable state, whatever the limits are.
THEOREM Inductive == Spec => []IInv
<1>1. Init => IInv
  BY InitHolds
<1>2. IInv /\ [Next]_vars => IInv'
  <2> SUFFICES ASSUME IInv, [Next]_vars
               PROVE  IInv'
    OBVIOUS
  <2>1. CASE UNCHANGED vars
    BY <2>1, StutterHolds
  <2>2. ASSUME NEW t \in Topics, PublishInserts(t)
        PROVE  IInv'
    BY <2>2, InsertHolds
  <2>3. ASSUME NEW t \in Topics, PublishSaves(t)
        PROVE  IInv'
    BY <2>3, SaveHolds
  <2>4. ASSUME NEW t \in Topics, PublishEnds(t)
        PROVE  IInv'
    BY <2>4, EndHolds
  <2>5. ASSUME NEW t \in Topics, Delete(t)
        PROVE  IInv'
    BY <2>5, DeleteHolds
  <2>6. ASSUME NEW c \in Clients, NEW t \in Topics, Connect(c, t)
        PROVE  IInv'
    BY <2>6, ConnectHolds
  <2>7. ASSUME NEW c \in Clients, ReadReset(c)
        PROVE  IInv'
    BY <2>7, ReadResetHolds
  <2>8. ASSUME NEW c \in Clients, Read(c)
        PROVE  IInv'
    BY <2>8, ReadHolds
  <2>9. ASSUME NEW c \in Clients, Break(c)
        PROVE  IInv'
    BY <2>9, BreakHolds
  <2>10. CASE Crash
    BY <2>10, CrashHolds
  <2> QED
    BY <2>1, <2>2, <2>3, <2>4, <2>5, <2>6, <2>7, <2>8, <2>9, <2>10 DEF Next, Publish
<1> QED
  BY <1>1, <1>2, PTL DEF Spec

\* The state is well typed, and whatever is gone from a living topic's history
\* is recorded as cut, wherever a publication was broken off.
THEOREM ConsistentHolds == Spec => []Consistent
<1>1. IInv => Consistent
  BY DEF IInv, Consistent
<1> QED
  BY <1>1, Inductive, PTL

\* No client misses an event without having been told that its history has a
\* gap: for any number of topics, clients, restarts and lost connections, and
\* any length of the history.
THEOREM NoSilentGapHolds == Spec => []NoSilentGap
<1>1. IInv => NoSilentGap
  BY DEF IInv
<1> QED
  BY <1>1, Inductive, PTL
=============================================================================
