-------------------------- MODULE OutboxOrderProofs --------------------------
(***************************************************************************)
(* That `partition` (ordering.ts) means what it should, for queues of any  *)
(* length, batches of any size and any records landed or dead: the proof   *)
(* of PartitionMeansIt.  SyncOrderingProofs says what partition comes to;  *)
(* here that is compared with the least sets of OutboxOrder.               *)
(***************************************************************************)
EXTENDS OutboxOrder, SyncOrderingProofs

(* A queue as the handset may have it: one item of each record, in order.  *)
QueueInv ==
  /\ queue \in Seq([id : Nat, entity : AllRecords, deps : SUBSET AllRecords, due : BOOLEAN])
  /\ Len(queue) <= Len(Records)
  /\ \A i \in DOMAIN queue : queue[i].entity = Records[i]
  /\ synced \subseteq Elsewhere
  /\ dead \subseteq AllRecords \ synced
  /\ limit \in Nat

LEMMA QueueStep == QueueInv /\ [QueueNext]_queueVars => QueueInv'
<1> SUFFICES ASSUME QueueInv, [QueueNext]_queueVars PROVE QueueInv'
  OBVIOUS
<1> DEFINE Item == [id : Nat, entity : AllRecords, deps : SUBSET AllRecords, due : BOOLEAN]
<1>1. ASSUME NEW deps \in SUBSET AllRecords, NEW due \in BOOLEAN, Add(deps, due)
      PROVE  QueueInv'
  <2>1. PICK item : item = [id |-> Len(queue) + 1, entity |-> Records[Len(queue) + 1],
                            deps |-> deps, due |-> due]
    OBVIOUS
  <2>2. queue \in Seq(Item) /\ Len(queue) \in Nat /\ Len(Records) \in Nat
    BY QueueAssumption DEF QueueInv
  <2>3. Len(queue) + 1 \in DOMAIN Records
    BY <1>1, <2>2, QueueAssumption DEF Add
  <2>4. Records[Len(queue) + 1] \in AllRecords
    BY <2>3 DEF AllRecords, ToSet
  <2>5. item \in Item /\ item.entity = Records[Len(queue) + 1]
    BY <2>1, <2>2, <2>4
  <2>6. queue' = Append(queue, item)
    BY <1>1, <2>1 DEF Add
  <2> HIDE DEF Item
  <2>7. Longer(Item, queue, item, queue')
    BY <2>2, <2>5, <2>6, Appended
  <2>8. \A i \in DOMAIN queue' : queue'[i].entity = Records[i]
    <3>1. \A i \in DOMAIN queue' : i \in DOMAIN queue \/ i = Len(queue) + 1
      BY <2>7 DEF Longer
    <3>2. QED
      BY <2>5, <2>7, <3>1 DEF Longer, QueueInv
  <2>9. Len(queue') <= Len(Records)
    BY <1>1, <2>2, <2>7 DEF Add, Longer
  <2>10. queue' \in Seq(Item)
    BY <2>7 DEF Longer
  <2>11. QED
    BY <1>1, <2>8, <2>9, <2>10 DEF Add, QueueInv, Item
<1>2. CASE QueueNext
  BY <1>1, <1>2 DEF QueueNext, kSubset
<1>3. CASE UNCHANGED queueVars
  BY <1>3 DEF queueVars, QueueInv
<1>4. QED
  BY <1>2, <1>3

LEMMA QueueHolds == QueueSpec => []QueueInv
<1>1. QueueInit => QueueInv
  BY QueueAssumption DEF QueueInit, QueueInv, kSubset
<1>2. QED
  BY <1>1, QueueStep, PTL DEF QueueSpec

(* No two items of the queue are about one record, and none has landed.    *)
LEMMA OneEach ==
  ASSUME QueueInv
  PROVE  /\ queue \in Seq(Queued) /\ Queued = ToSet(queue)
         /\ \A a, b \in Queued : a.entity = b.entity => a = b
         /\ \A a \in Queued : a.entity \notin synced /\ a.due \in BOOLEAN
<1>1. Len(queue) \in Nat /\ DOMAIN queue = 1 .. Len(queue) /\ Len(Records) \in Nat
      /\ DOMAIN Records = 1 .. Len(Records)
  BY QueueAssumption DEF QueueInv
<1>2. \A a \in Queued : \E i \in DOMAIN queue : queue[i] = a
  BY DEF Queued, ToSet
<1>3. \A i \in DOMAIN queue : i \in DOMAIN Records /\ queue[i].entity = Records[i]
  BY <1>1 DEF QueueInv
<1>4. \A a, b \in Queued : a.entity = b.entity => a = b
  BY <1>2, <1>3, QueueAssumption
<1>5. \A a \in Queued : a.entity \in ToSet(Records)
  BY <1>2, <1>3 DEF ToSet
<1>6. \A a \in Queued : a.due \in BOOLEAN
  <2> DEFINE Item == [id : Nat, entity : AllRecords, deps : SUBSET AllRecords, due : BOOLEAN]
  <2>1. \A a \in Item : a.due \in BOOLEAN
    OBVIOUS
  <2>2. queue \in Seq(Item)
    BY DEF QueueInv
  <2> HIDE DEF Item
  <2>3. \A i \in DOMAIN queue : queue[i] \in Item
    BY <2>2
  <2>4. QED
    BY <1>2, <2>1, <2>3
<1>7. queue \in Seq(Queued)
  <2>1. queue \in [1 .. Len(queue) -> Queued]
    BY <1>1 DEF Queued, ToSet, QueueInv
  <2>2. QED
    BY <1>1, <2>1, SeqDef
<1>8. QED
  BY <1>4, <1>5, <1>6, <1>7, QueueAssumption DEF Queued, QueueInv
-----------------------------------------------------------------------------
(* A set of sets has a least one, if their intersection is one of them.    *)
LEMMA LeastIs ==
  ASSUME NEW F, NEW L \in F, \A T \in F : L \subseteq T
  PROVE  Least(F) = L
<1>1. Least(F) \in F /\ \A T \in F : Least(F) \subseteq T
  BY DEF Least
<1>2. QED
  BY <1>1

(* What has to be true of the verdict.                                     *)
Judged(v) == v \in Reached(Queued, synced, dead, limit) /\ Finished(Queued, v, limit)

LEMMA VerdictJudged ==
  ASSUME QueueInv
  PROVE  Judged(Verdict)
BY OneEach, PartitionDoes DEF QueueInv, Verdict, Judged

LEMMA JudgedSays ==
  ASSUME QueueInv, NEW v, Judged(v)
  PROVE  /\ v.ready \in Seq(Queued) /\ v.blocked \in Seq(Queued)
         /\ ToSet(v.ready) \subseteq Queued /\ ToSet(v.blocked) \subseteq Queued
         /\ v.satisfied = synced \cup EntitiesIn(ToSet(v.ready))
         /\ v.dead = dead \cup EntitiesIn(ToSet(v.blocked))
         /\ \A i, j \in DOMAIN v.ready : v.ready[i] = v.ready[j] => i = j
         /\ \A i \in DOMAIN v.ready : Rightly(v, i, synced, dead)
         /\ Len(v.ready) <= limit
         /\ \A S \in SUBSET Queued : Spreads(Queued, dead, S) => ToSet(v.blocked) \subseteq S
BY DEF Judged, Reached, Sorting, About, EntitiesIn, ToSet

(* What was let go needs nothing that is dead in the end.                  *)
LEMMA ReadyIsClean ==
  ASSUME QueueInv, NEW v, Judged(v), NEW S \in SUBSET Queued, S \cap ToSet(v.ready) = {},
         NEW a \in ToSet(v.ready)
  PROVE  a.due /\ a.deps \cap (dead \cup EntitiesIn(S)) = {}
<1>1. PICK i \in DOMAIN v.ready : a = v.ready[i]
  BY DEF ToSet
<1>2. Rightly(v, i, synced, dead)
  BY JudgedSays
<1>3. a.due /\ a.deps \cap dead = {}
      /\ a.deps \subseteq synced \cup {v.ready[j].entity : j \in 1 .. i - 1}
  BY <1>1, <1>2 DEF Rightly
<1>4. \A j \in 1 .. i - 1 : v.ready[j] \in ToSet(v.ready)
  <2>1. v.ready \in Seq(Queued) /\ DOMAIN v.ready = 1 .. Len(v.ready) /\ Len(v.ready) \in Nat
    BY JudgedSays
  <2>2. QED
    BY <2>1 DEF ToSet
<1>5. a.deps \subseteq synced \cup EntitiesIn(ToSet(v.ready))
  BY <1>3, <1>4 DEF EntitiesIn
<1>6. EntitiesIn(S) \cap (synced \cup EntitiesIn(ToSet(v.ready))) = {}
  <2>1. ToSet(v.ready) \subseteq Queued
    BY JudgedSays
  <2>2. QED
    BY <2>1, OneEach DEF EntitiesIn
<1>7. QED
  BY <1>3, <1>5, <1>6

(* Ready and blocked have nothing in common: a ready item is not behind    *)
(* the dead, so the rest of the queue holds whatever is.                   *)
LEMMA ReadyIsNotBlocked ==
  ASSUME QueueInv, NEW v, Judged(v)
  PROVE  ToSet(v.blocked) \cap ToSet(v.ready) = {}
<1> DEFINE S == Queued \ ToSet(v.ready)
<1>1. Spreads(Queued, dead, S)
  <2> SUFFICES ASSUME NEW a \in Queued, a \notin S
               PROVE  a.deps \cap (dead \cup About(S)) = {}
    BY DEF Spreads
  <2>1. About(S) = EntitiesIn(S)
    BY DEF About, EntitiesIn
  <2>2. a \in ToSet(v.ready) /\ S \in SUBSET Queued /\ S \cap ToSet(v.ready) = {}
    OBVIOUS
  <2> HIDE DEF S
  <2>3. QED
    BY <2>1, <2>2, ReadyIsClean
<1>2. QED
  BY <1>1, JudgedSays

(* What was blocked has all that is behind it, since nothing more is.      *)
LEMMA BlockedHolds ==
  ASSUME QueueInv, NEW v, Judged(v)
  PROVE  BehindTheDead(ToSet(v.blocked)) \subseteq ToSet(v.blocked)
<1> DEFINE B == ToSet(v.blocked)
<1>0. B \in SUBSET Queued /\ B \cap ToSet(v.ready) = {}
  BY JudgedSays, ReadyIsNotBlocked
<1> SUFFICES ASSUME NEW a \in BehindTheDead(B), a \notin B PROVE FALSE
  OBVIOUS
<1>1. a \in Queued /\ a.deps \cap (dead \cup EntitiesIn(B)) # {}
  BY DEF BehindTheDead
<1>2. a.deps \cap v.dead # {}
  BY <1>1, JudgedSays
<1>3. a \notin ToSet(v.ready)
  BY <1>0, <1>1, ReadyIsClean
<1>4. a \notin Decided(v)
  BY <1>3 DEF Decided
<1>5. Visit(v, a, limit) = v
  BY <1>1 DEF Judged, Finished
<1>6. v \in Reached(Queued, synced, dead, limit) /\ limit \in Nat
  BY DEF Judged, QueueInv
<1>7. Visit(v, a, limit) = Block(v, a)
  BY <1>2, <1>4 DEF Visit
<1>8. PICK w : w = Block(v, a)
  OBVIOUS
<1>9. w.blocked = Append(v.blocked, a)
  BY <1>6, <1>8 DEF Block, Reached, Sorting
<1>10. Longer(Queued, v.blocked, a, w.blocked)
  BY <1>1, <1>9, JudgedSays, Appended
<1>11. w.blocked = v.blocked
  BY <1>5, <1>7, <1>8
<1>12. Len(v.blocked) = Len(v.blocked) + 1 /\ Len(v.blocked) \in Nat
  BY <1>10, <1>11 DEF Longer
<1>13. QED
  BY <1>12

(* What is blocked is the least set with all that is behind it.            *)
LEMMA BlockedIsDoomed ==
  ASSUME QueueInv, NEW v, Judged(v)
  PROVE  Doomed = ToSet(v.blocked)
<1> DEFINE F == {S \in SUBSET Queued : BehindTheDead(S) \subseteq S}
           B == ToSet(v.blocked)
<1>1. B \in SUBSET Queued /\ B \cap ToSet(v.ready) = {}
  BY JudgedSays, ReadyIsNotBlocked
<1>2. BehindTheDead(B) \subseteq B
  BY BlockedHolds
<1>3. \A S \in F : B \subseteq S
  <2>1. \A S \in F : Spreads(Queued, dead, S)
    BY DEF Spreads, BehindTheDead, About, EntitiesIn
  <2>2. QED
    BY <2>1, JudgedSays
<1>4. B \in F
  BY <1>1, <1>2
<1> HIDE DEF F, B
<1>5. Least(F) = B
  BY <1>3, <1>4, LeastIs
<1>6. QED
  BY <1>5 DEF Doomed, F, B

(* What is let go is among the least set that may be, and all of it unless *)
(* the batch is full.                                                      *)
LEMMA ReadyIsSendable ==
  ASSUME QueueInv, NEW v, Judged(v)
  PROVE  /\ Sendable \in SUBSET Queued
         /\ ToSet(v.ready) \subseteq Sendable
         /\ Len(v.ready) < limit => Sendable = ToSet(v.ready)
<1> DEFINE F == {S \in SUBSET Queued : Eligible(Doomed, S) \subseteq S}
           L == {a \in Queued : \A S \in F : a \in S}
           R == ToSet(v.ready)
<1>1. Queued \in F
  BY DEF Eligible
<1>2. ASSUME NEW S, NEW T, S \subseteq T PROVE Eligible(Doomed, S) \subseteq Eligible(Doomed, T)
  BY <1>2 DEF Eligible, EntitiesIn
<1>3. L \in F
  <2>1. \A S \in F : L \subseteq S
    OBVIOUS
  <2>2. \A S \in F : Eligible(Doomed, L) \subseteq Eligible(Doomed, S)
    <3> HIDE DEF L, F
    <3>1. QED
      BY <1>2, <2>1
  <2>3. \A S \in F : Eligible(Doomed, S) \subseteq S
    OBVIOUS
  <2>4. Eligible(Doomed, L) \subseteq Queued
    BY DEF Eligible
  <2>5. Eligible(Doomed, L) \subseteq L
    BY <2>2, <2>3, <2>4
  <2>6. QED
    BY <2>5
<1>4. Sendable = L
  <2>1. \A S \in F : L \subseteq S
    OBVIOUS
  <2>2. Sendable = Least(F)
    BY DEF Sendable
  <2> HIDE DEF L, F
  <2>3. QED
    BY <1>3, <2>1, <2>2, LeastIs
<1>5. R \subseteq Queued /\ R \cap Doomed = {}
  BY JudgedSays, BlockedIsDoomed, ReadyIsNotBlocked
<1>6. ASSUME NEW S \in F PROVE R \subseteq S
  <2>1. v.ready \in Seq(Queued) /\ DOMAIN v.ready = 1 .. Len(v.ready) /\ Len(v.ready) \in Nat
    BY JudgedSays
  <2> DEFINE N == Len(v.ready)
             G == {n \in 0 .. N : \A i \in 1 .. n : v.ready[i] \in S}
  <2>2. 0 \in G
    BY <2>1
  <2>3. ASSUME NEW n \in 1 .. N, n - 1 \in G PROVE n \in G
    <3>1. n \in Nat /\ n - 1 \in 0 .. N /\ n \in DOMAIN v.ready /\ n \in 0 .. N
      BY <2>1
    <3>2. \A i \in 1 .. n - 1 : v.ready[i] \in S
      BY <2>3
    <3>3. /\ v.ready[n].due
          /\ v.ready[n].deps \subseteq synced \cup {v.ready[j].entity : j \in 1 .. n - 1}
      BY <3>1, JudgedSays DEF Rightly
    <3>4. v.ready[n].deps \subseteq synced \cup EntitiesIn(S)
      BY <3>2, <3>3 DEF EntitiesIn
    <3>5. v.ready[n] \in Queued \ Doomed
      BY <1>5, <3>1 DEF ToSet
    <3>6. v.ready[n] \in Eligible(Doomed, S)
      BY <3>3, <3>4, <3>5 DEF Eligible
    <3>7. v.ready[n] \in S
      BY <3>6
    <3>8. \A i \in 1 .. n : i \in 1 .. n - 1 \/ i = n
      BY <3>1
    <3> HIDE DEF F
    <3>9. QED
      BY <3>1, <3>2, <3>7, <3>8
  <2> HIDE DEF G, F
  <2>4. \A n \in 0 .. N : n \in G
    BY <2>1, <2>2, <2>3, UpTo
  <2>5. N \in G
    BY <2>1, <2>4
  <2>6. \A i \in DOMAIN v.ready : v.ready[i] \in S
    BY <2>1, <2>5 DEF G
  <2>7. QED
    BY <2>6 DEF ToSet
<1>7. ASSUME Len(v.ready) < limit PROVE R \in F
  <2> SUFFICES ASSUME NEW a \in Eligible(Doomed, R), a \notin R PROVE FALSE
    BY <1>5
  <2>1. a \in Queued /\ a \notin Doomed /\ a.due /\ a.deps \subseteq synced \cup EntitiesIn(R)
    BY DEF Eligible
  <2>2. a \notin Decided(v)
    BY <2>1, BlockedIsDoomed DEF Decided
  <2>3. Visit(v, a, limit) = v
    BY <2>1 DEF Judged, Finished
  <2>4. v \in Reached(Queued, synced, dead, limit) /\ limit \in Nat
    BY DEF Judged, QueueInv
  <2>5. Decided(Visit(v, a, limit)) = Decided(v) /\ (Visit(v, a, limit) = v)
    BY <2>3
  <2>6. a.deps \cap v.dead = {}
    <3>1. BehindTheDead(Doomed) \subseteq Doomed
      BY BlockedIsDoomed, BlockedHolds
    <3>2. a \notin BehindTheDead(Doomed)
      BY <2>1, <3>1
    <3>3. v.dead = dead \cup EntitiesIn(Doomed)
      BY BlockedIsDoomed, JudgedSays
    <3>4. QED
      BY <2>1, <3>2, <3>3 DEF BehindTheDead
  <2>7. MayGo(v, a, limit)
    BY <1>7, <2>1, JudgedSays DEF MayGo
  <2>8. Visit(v, a, limit) = [v EXCEPT !.ready = Append(@, a), !.satisfied = @ \union {a.entity}]
    BY <2>2, <2>6, <2>7 DEF Visit
  <2>9. PICK w : w = [v EXCEPT !.ready = Append(@, a), !.satisfied = @ \union {a.entity}]
    OBVIOUS
  <2>10. w.ready = Append(v.ready, a)
    BY <2>4, <2>9 DEF Reached, Sorting
  <2>11. Longer(Queued, v.ready, a, w.ready)
    BY <2>1, <2>10, JudgedSays, Appended
  <2>12. w.ready = v.ready
    BY <2>3, <2>8, <2>9
  <2>13. Len(v.ready) = Len(v.ready) + 1 /\ Len(v.ready) \in Nat
    BY <2>11, <2>12 DEF Longer
  <2>14. QED
    BY <2>13
<1>8. R \subseteq L
  <2> HIDE DEF F
  <2>1. QED
    BY <1>5, <1>6
<1>9. ASSUME Len(v.ready) < limit PROVE L = R
  <2>1. \A S \in F : L \subseteq S
    OBVIOUS
  <2> HIDE DEF L, F
  <2>2. QED
    BY <1>7, <1>8, <1>9, <2>1
<1> HIDE DEF L, F
<1>10. L \in SUBSET Queued
  BY DEF L
<1>11. QED
  BY <1>4, <1>8, <1>9, <1>10
-----------------------------------------------------------------------------
(* An injective sequence has as many members as it is long.                *)
LEMMA LengthIsSize ==
  ASSUME NEW S, NEW s \in Seq(S), \A i, j \in DOMAIN s : s[i] = s[j] => i = j
  PROVE  IsFiniteSet(ToSet(s)) /\ Cardinality(ToSet(s)) = Len(s)
<1>1. Len(s) \in Nat /\ DOMAIN s = 1 .. Len(s) /\ s \in [1 .. Len(s) -> ToSet(s)]
  BY DEF ToSet
<1>2. s \in Surjection(1 .. Len(s), ToSet(s)) /\ s \in Injection(1 .. Len(s), ToSet(s))
  BY <1>1 DEF Surjection, Injection, IsInjective, ToSet
<1>3. IsFiniteSet(1 .. Len(s)) /\ Cardinality(1 .. Len(s)) = Len(s)
  BY <1>1, FS_Interval
<1>4. QED
  BY <1>2, <1>3, FS_Surjection

(* What comes back of a queue is made of what was put in.                  *)
THEOREM QueueTypeCorrect == QueueSpec => []QueueTypeOK
<1>1. QueueInv => QueueTypeOK
  <2> SUFFICES ASSUME QueueInv PROVE QueueTypeOK
    OBVIOUS
  <2>1. PICK v : v = Verdict
    OBVIOUS
  <2>2. Judged(v)
    BY <2>1, VerdictJudged
  <2>3. Decided(v) \subseteq Queued
    BY <2>2, JudgedSays DEF Decided
  <2>4. /\ v.satisfied \subseteq synced \union EntitiesIn(Queued)
        /\ v.dead \subseteq dead \union EntitiesIn(Queued)
    BY <2>2, JudgedSays DEF EntitiesIn
  <2>5. Len(v.ready) <= limit
    BY <2>2, JudgedSays
  <2>6. QED
    BY <2>1, <2>3, <2>4, <2>5 DEF QueueTypeOK
<1>2. QED
  BY <1>1, QueueHolds, PTL

(* What partition says of a queue is what it is meant to: a refusal        *)
(* reaches everything behind it, nothing goes ahead of a parent, and all   *)
(* that may go does, as far as the batch has room.                         *)
THEOREM PartitionIsRight == QueueSpec => []PartitionMeansIt
<1>1. QueueInv => PartitionMeansIt
  <2> SUFFICES ASSUME QueueInv PROVE PartitionMeansIt
    OBVIOUS
  <2>1. PICK v : v = Verdict
    OBVIOUS
  <2>2. Judged(v)
    BY <2>1, VerdictJudged
  <2>3. BlocksTheDoomed
    BY <2>1, <2>2, BlockedIsDoomed DEF BlocksTheDoomed
  <2>4. NothingAheadOfItsParents
    <3>1. \A i \in DOMAIN v.ready :
            v.ready[i].deps \subseteq synced \cup {v.ready[j].entity : j \in 1 .. i - 1}
      BY <2>2, JudgedSays DEF Rightly
    <3>2. QED
      BY <2>1, <3>1 DEF NothingAheadOfItsParents, EntitiesIn
  <2>5. SendsAllItMay
    <3>1. /\ Sendable \in SUBSET Queued
          /\ ToSet(v.ready) \subseteq Sendable
          /\ Len(v.ready) < limit => Sendable = ToSet(v.ready)
      BY <2>2, ReadyIsSendable
    <3>2. /\ v.ready \in Seq(Queued) /\ Len(v.ready) \in Nat /\ Len(v.ready) <= limit
          /\ \A i, j \in DOMAIN v.ready : v.ready[i] = v.ready[j] => i = j
      BY <2>2, JudgedSays
    <3>3. Cardinality(ToSet(v.ready)) = Len(v.ready)
      BY <3>2, LengthIsSize
    <3>4. IsFiniteSet(Queued)
      <4>1. queue \in Seq(Queued) /\ Len(queue) \in Nat
        BY OneEach
      <4>2. queue \in Surjection(1 .. Len(queue), Queued)
        BY <4>1 DEF Surjection, Queued, ToSet
      <4>3. QED
        BY <4>1, <4>2, FS_Interval, FS_Surjection
    <3>5. IsFiniteSet(Sendable) /\ Cardinality(Sendable) \in Nat
      BY <3>1, <3>4, FS_Subset, FS_CardinalityType
    <3>6. Cardinality(ToSet(v.ready)) <= Cardinality(Sendable)
      BY <3>1, <3>5, FS_Subset
    <3>7. limit \in Nat
      BY DEF QueueInv
    <3>8. Len(v.ready) = IF Cardinality(Sendable) < limit THEN Cardinality(Sendable) ELSE limit
      <4>1. CASE Len(v.ready) < limit
        BY <3>1, <3>2, <3>3, <3>7, <4>1
      <4>2. CASE ~(Len(v.ready) < limit)
        BY <3>2, <3>3, <3>5, <3>6, <3>7, <4>2
      <4>3. QED
        BY <4>1, <4>2
    <3>9. QED
      BY <2>1, <3>1, <3>8 DEF SendsAllItMay
  <2>6. QED
    BY <2>3, <2>4, <2>5 DEF PartitionMeansIt
<1>2. QED
  BY <1>1, QueueHolds, PTL
=============================================================================
