------------------------- MODULE SyncOrderingProofs -------------------------
(***************************************************************************)
(* What `partition` (SyncOrdering) does with every queue: what a sweep     *)
(* keeps true (Reached), and that as many sweeps as there are items leave  *)
(* nothing for another one to decide (PartitionDoes).                      *)
(*                                                                         *)
(* Both Sweep and Partition are recursive functions over a part of the     *)
(* naturals, which a proof may use only once there is such a function.     *)
(* Iterates makes one, by induction; the induction is Descent, the         *)
(* well-foundedness of <, since the library's rule takes an operator.      *)
(***************************************************************************)
EXTENDS SyncOrdering, SequenceTheorems, FiniteSetTheorems, WellFoundedInduction, TLAPS

(* A set that no first natural is missing from misses none.                *)
LEMMA Descent ==
  ASSUME NEW T, T \subseteq Nat, T # {}
  PROVE  \E n \in T : \A m \in T : ~(m < n)
<1> DEFINE R == {ss \in Nat \X Nat : ss[1] < ss[2]}
<1>1. IsWellFoundedOn(R, Nat)
  BY NatLessThanWellFounded DEF OpToRel
<1>2. PICK n \in T : \A m \in T : <<m, n>> \notin R
  <2> HIDE DEF R
  <2>1. QED
    BY <1>1, WFMin
<1>3. ASSUME NEW m \in T, m < n PROVE FALSE
  <2>1. <<m, n>> \in R
    BY <1>3
  <2>2. QED
    BY <1>2, <2>1
<1>4. QED
  BY <1>3

LEMMA UpTo ==
  ASSUME NEW N \in Nat, NEW G, 0 \in G, \A i \in 1 .. N : i - 1 \in G => i \in G
  PROVE  \A i \in 0 .. N : i \in G
<1> DEFINE T == {i \in 0 .. N : i \notin G}
<1> SUFFICES ASSUME T # {} PROVE FALSE
  OBVIOUS
<1>1. PICK n \in T : \A m \in T : ~(m < n)
  <2>1. T \subseteq Nat
    OBVIOUS
  <2> HIDE DEF T
  <2>2. QED
    BY <2>1, Descent
<1>2. n \in 1 .. N /\ n - 1 \in 0 .. N /\ n - 1 < n
  BY <1>1
<1>3. n - 1 \in G
  BY <1>1, <1>2
<1>4. QED
  BY <1>1, <1>2, <1>3

(* What is made step by step from c by functions from S to S is there, and *)
(* stays in S.                                                             *)
Iterated(N, S, c, F, g) ==
  g \in [0 .. N -> S] /\ g[0] = c /\ \A i \in 1 .. N : g[i] = F[i][g[i - 1]]

LEMMA Iterates ==
  ASSUME NEW N \in Nat, NEW S, NEW c \in S, NEW F \in [1 .. N -> [S -> S]]
  PROVE  \E g : Iterated(N, S, c, F, g)
<1> DEFINE Made(n, g) == \A i \in 0 .. n : g[i] = IF i = 0 THEN c ELSE F[i][g[i - 1]]
           G == {n \in 0 .. N : \E g \in [0 .. n -> S] : Made(n, g)}
<1>1. 0 \in G
  <2>1. [i \in 0 .. 0 |-> c] \in [0 .. 0 -> S] /\ Made(0, [i \in 0 .. 0 |-> c])
    OBVIOUS
  <2> HIDE DEF Made
  <2>2. QED
    BY <2>1
<1>2. ASSUME NEW n \in 1 .. N, n - 1 \in G PROVE n \in G
  <2>1. PICK g \in [0 .. n - 1 -> S] : Made(n - 1, g)
    BY <1>2
  <2> DEFINE h == [i \in 0 .. n |-> IF i = n THEN F[n][g[n - 1]] ELSE g[i]]
  <2>2. n - 1 \in 0 .. n - 1 /\ n - 1 \in Nat /\ n \in Nat
    OBVIOUS
  <2>3. g[n - 1] \in S /\ F[n] \in [S -> S]
    BY <2>1, <2>2
  <2>4. h \in [0 .. n -> S]
    <3>1. ASSUME NEW i \in 0 .. n PROVE (IF i = n THEN F[n][g[n - 1]] ELSE g[i]) \in S
      <4>1. CASE i = n
        BY <2>3, <4>1
      <4>2. CASE i # n
        BY <2>1, <4>2
      <4>3. QED
        BY <4>1, <4>2
    <3>2. QED
      BY <3>1
  <2>5. ASSUME NEW i \in 0 .. n PROVE h[i] = IF i = 0 THEN c ELSE F[i][h[i - 1]]
    <3>1. CASE i = n
      <4>1. h[i] = F[n][g[n - 1]] /\ h[i - 1] = g[n - 1]
        BY <2>2, <3>1
      <4>2. QED
        BY <3>1, <4>1
    <3>2. CASE i # n
      <4>1. i \in 0 .. n - 1
        BY <3>2
      <4>2. h[i] = g[i] /\ (i # 0 => h[i - 1] = g[i - 1])
        BY <4>1
      <4>3. QED
        BY <2>1, <4>1, <4>2
    <3>3. QED
      BY <3>1, <3>2
  <2>6. Made(n, h)
    BY <2>5
  <2> HIDE DEF h, Made
  <2>7. QED
    BY <2>4, <2>6
<1>3. N \in G
  <2> HIDE DEF G, Made
  <2>1. \A i \in 1 .. N : i - 1 \in G => i \in G
    BY <1>2
  <2>2. \A i \in 0 .. N : i \in G
    BY <1>1, <2>1, UpTo
  <2>3. QED
    BY <2>2
<1>4. PICK g \in [0 .. N -> S] : Made(N, g)
  BY <1>3
<1>5. Iterated(N, S, c, F, g)
  BY <1>4 DEF Iterated
<1>6. QED
  BY <1>5
-----------------------------------------------------------------------------
About(S) == {item.entity : item \in S}

(* S holds every item of Q that is behind the dead, or behind one of S.    *)
Spreads(Q, dead, S) == \A item \in Q : item.deps \cap (dead \cup About(S)) # {} => item \in S

(* The i-th item let go is due, is behind nothing that was dead to begin   *)
(* with, and has all it needs landed or before it in the batch.            *)
Rightly(v, i, synced, dead) ==
  /\ v.ready[i].due /\ v.ready[i].deps \cap dead = {}
  /\ v.ready[i].deps \subseteq synced \cup {v.ready[j].entity : j \in 1 .. i - 1}

(* What sweeps over the items Q keep true of where they have got to.       *)
Sorting(Q, synced, dead) ==
  LET Known == synced \cup dead \cup About(Q)
  IN  [ready : Seq(Q), blocked : Seq(Q), satisfied : SUBSET Known, dead : SUBSET Known]

Reached(Q, synced, dead, limit) ==
  {v \in Sorting(Q, synced, dead) :
     /\ v.satisfied = synced \cup About(ToSet(v.ready))
     /\ v.dead = dead \cup About(ToSet(v.blocked))
     /\ \A i, j \in DOMAIN v.ready : v.ready[i] = v.ready[j] => i = j
     /\ \A i \in DOMAIN v.ready : Rightly(v, i, synced, dead)
     /\ Len(v.ready) <= limit
     /\ \A S \in SUBSET Q : Spreads(Q, dead, S) => ToSet(v.blocked) \subseteq S}

Longer(S, s, x, t) ==
  /\ t \in Seq(S) /\ ToSet(t) = ToSet(s) \cup {x}
  /\ Len(s) \in Nat /\ Len(t) = Len(s) + 1
  /\ DOMAIN s = 1 .. Len(s) /\ DOMAIN t = 1 .. Len(s) + 1
  /\ \A i \in 1 .. Len(s) : t[i] = s[i]
  /\ t[Len(s) + 1] = x

LEMMA Appended ==
  ASSUME NEW S, NEW s \in Seq(S), NEW x \in S, NEW t, t = Append(s, x)
  PROVE  Longer(S, s, x, t)
<1>1. /\ t \in Seq(S)
      /\ Len(s) \in Nat /\ Len(t) = Len(s) + 1
      /\ DOMAIN s = 1 .. Len(s) /\ DOMAIN t = 1 .. Len(s) + 1
      /\ \A i \in 1 .. Len(s) : t[i] = s[i]
      /\ t[Len(s) + 1] = x
  OBVIOUS
<1>2. \A i \in 1 .. Len(s) + 1 : i \in 1 .. Len(s) \/ i = Len(s) + 1
  BY <1>1
<1>3. 1 .. Len(s) \subseteq 1 .. Len(s) + 1 /\ Len(s) + 1 \in 1 .. Len(s) + 1
  BY <1>1
<1>4. ToSet(t) \subseteq ToSet(s) \cup {x}
  BY <1>1, <1>2 DEF ToSet
<1>5. ToSet(s) \cup {x} \subseteq ToSet(t)
  BY <1>1, <1>3 DEF ToSet
<1>6. QED
  BY <1>1, <1>4, <1>5 DEF Longer

LEMMA VisitReaches ==
  ASSUME NEW Q, NEW synced, NEW dead, NEW limit \in Nat,
         NEW v \in Reached(Q, synced, dead, limit), NEW item \in Q
  PROVE  /\ Visit(v, item, limit) \in Reached(Q, synced, dead, limit)
         /\ \/ Visit(v, item, limit) = v
            \/ /\ item \notin Decided(v)
               /\ Decided(Visit(v, item, limit)) = Decided(v) \cup {item}
<1> DEFINE Known == synced \cup dead \cup About(Q)
<1>1. /\ v.ready \in Seq(Q) /\ v.blocked \in Seq(Q)
      /\ v.satisfied = synced \cup About(ToSet(v.ready))
      /\ v.dead = dead \cup About(ToSet(v.blocked))
      /\ v.satisfied \in SUBSET Known /\ v.dead \in SUBSET Known
      /\ v = [ready |-> v.ready, blocked |-> v.blocked, satisfied |-> v.satisfied, dead |-> v.dead]
  BY DEF Reached, Sorting
<1>2. item.entity \in Known
  BY DEF About
<1>3. CASE item \in Decided(v)
  BY <1>3 DEF Visit
<1>4. CASE item \notin Decided(v) /\ item.deps \cap v.dead # {}
  <2>1. PICK w : w = Visit(v, item, limit)
    OBVIOUS
  <2>2. w = [v EXCEPT !.blocked = Append(v.blocked, item), !.dead = v.dead \cup {item.entity}]
    BY <1>4, <2>1 DEF Visit, Block
  <2>3. PICK blocked : blocked = Append(v.blocked, item)
    OBVIOUS
  <2>4. blocked \in Seq(Q) /\ ToSet(blocked) = ToSet(v.blocked) \cup {item}
    <3>1. Longer(Q, v.blocked, item, blocked)
      BY <1>1, <2>3, Appended
    <3>2. QED
      BY <3>1 DEF Longer
  <2>5. w = [ready |-> v.ready, blocked |-> blocked, satisfied |-> v.satisfied,
             dead |-> v.dead \cup {item.entity}]
    BY <1>1, <2>2, <2>3
  <2>6. w \in Sorting(Q, synced, dead)
    BY <1>1, <1>2, <2>4, <2>5 DEF Sorting
  <2>7. w.ready = v.ready /\ w.satisfied = v.satisfied /\ w.blocked = blocked
        /\ w.dead = v.dead \cup {item.entity}
    BY <2>5
  <2>8. w.dead = dead \cup About(ToSet(w.blocked))
    BY <1>1, <2>4, <2>7 DEF About
  <2>9. ASSUME NEW S \in SUBSET Q, Spreads(Q, dead, S)
        PROVE  ToSet(w.blocked) \subseteq S
    <3>1. ToSet(v.blocked) \subseteq S
      BY <2>9 DEF Reached
    <3>2. v.dead \subseteq dead \cup About(S)
      BY <1>1, <3>1 DEF About
    <3>3. item \in S
      BY <1>4, <2>9, <3>2 DEF Spreads
    <3>4. QED
      BY <2>4, <2>7, <3>1, <3>3
  <2>10. \A i \in DOMAIN w.ready : Rightly(w, i, synced, dead)
    BY <2>7 DEF Rightly, Reached
  <2>11. w \in Reached(Q, synced, dead, limit)
    BY <2>6, <2>7, <2>8, <2>9, <2>10 DEF Reached
  <2>12. Decided(w) = Decided(v) \cup {item}
    BY <2>4, <2>7 DEF Decided
  <2>13. QED
    BY <1>4, <2>1, <2>11, <2>12
<1>5. CASE item \notin Decided(v) /\ item.deps \cap v.dead = {} /\ ~MayGo(v, item, limit)
  BY <1>5 DEF Visit
<1>6. CASE item \notin Decided(v) /\ item.deps \cap v.dead = {} /\ MayGo(v, item, limit)
  <2>1. PICK w : w = Visit(v, item, limit)
    OBVIOUS
  <2>2. w = [v EXCEPT !.ready = Append(v.ready, item), !.satisfied = v.satisfied \cup {item.entity}]
    BY <1>6, <2>1 DEF Visit
  <2>3. PICK ready : ready = Append(v.ready, item)
    OBVIOUS
  <2>4. /\ ready \in Seq(Q) /\ ToSet(ready) = ToSet(v.ready) \cup {item}
        /\ Len(v.ready) \in Nat /\ Len(ready) = Len(v.ready) + 1
        /\ DOMAIN v.ready = 1 .. Len(v.ready) /\ DOMAIN ready = 1 .. Len(v.ready) + 1
        /\ \A i \in 1 .. Len(v.ready) : ready[i] = v.ready[i]
        /\ ready[Len(v.ready) + 1] = item
    <3>1. Longer(Q, v.ready, item, ready)
      BY <1>1, <2>3, Appended
    <3>2. QED
      BY <3>1 DEF Longer
  <2>5. w = [ready |-> ready, blocked |-> v.blocked, satisfied |-> v.satisfied \cup {item.entity},
             dead |-> v.dead]
    BY <1>1, <2>2, <2>3
  <2>6. w \in Sorting(Q, synced, dead)
    BY <1>1, <1>2, <2>4, <2>5 DEF Sorting
  <2>7. w.ready = ready /\ w.blocked = v.blocked /\ w.dead = v.dead
        /\ w.satisfied = v.satisfied \cup {item.entity}
    BY <2>5
  <2>8. w.satisfied = synced \cup About(ToSet(w.ready))
    BY <1>1, <2>4, <2>7 DEF About
  <2>9. \A i \in 1 .. Len(v.ready) + 1 : i \in 1 .. Len(v.ready) \/ i = Len(v.ready) + 1
    BY <2>4
  <2>10. \A i, j \in DOMAIN ready : ready[i] = ready[j] => i = j
    <3>1. \A i \in DOMAIN v.ready : v.ready[i] # item
      BY <1>6 DEF Decided, ToSet
    <3>2. \A i, j \in DOMAIN v.ready : v.ready[i] = v.ready[j] => i = j
      BY DEF Reached
    <3>3. QED
      BY <2>4, <2>9, <3>1, <3>2
  <2>11. ASSUME NEW i \in DOMAIN ready PROVE Rightly(w, i, synced, dead)
    <3>1. CASE i \in DOMAIN v.ready
      <4>1. Rightly(v, i, synced, dead)
        BY <3>1 DEF Reached
      <4>2. i \in 1 .. Len(v.ready) /\ \A j \in 1 .. i - 1 : j \in 1 .. Len(v.ready)
        BY <2>4, <3>1
      <4>3. w.ready[i] = v.ready[i] /\ \A j \in 1 .. i - 1 : w.ready[j] = v.ready[j]
        BY <2>4, <2>7, <4>2
      <4>4. {w.ready[j].entity : j \in 1 .. i - 1} = {v.ready[j].entity : j \in 1 .. i - 1}
        BY <4>3
      <4>5. QED
        BY <4>1, <4>3, <4>4 DEF Rightly
    <3>2. CASE i = Len(v.ready) + 1
      <4>1. w.ready[i] = item /\ i - 1 = Len(v.ready)
        BY <2>4, <2>7, <3>2
      <4>2. item.due /\ item.deps \subseteq v.satisfied
        BY <1>6 DEF MayGo
      <4>3. item.deps \cap dead = {}
        BY <1>1, <1>6
      <4>4. \A j \in 1 .. i - 1 : w.ready[j] = v.ready[j]
        BY <2>4, <2>7, <4>1
      <4>5. About(ToSet(v.ready)) \subseteq {w.ready[j].entity : j \in 1 .. i - 1}
        BY <2>4, <4>1, <4>4 DEF About, ToSet
      <4>6. item.deps \subseteq synced \cup {w.ready[j].entity : j \in 1 .. i - 1}
        BY <1>1, <4>2, <4>5
      <4>7. QED
        BY <4>1, <4>2, <4>3, <4>6 DEF Rightly
    <3>3. QED
      BY <2>4, <2>9, <3>1, <3>2
  <2>12. Len(w.ready) <= limit
    BY <1>6, <2>4, <2>7 DEF MayGo
  <2>13. \A S \in SUBSET Q : Spreads(Q, dead, S) => ToSet(w.blocked) \subseteq S
    BY <2>7 DEF Reached
  <2>14. w \in Reached(Q, synced, dead, limit)
    BY <1>1, <2>6, <2>7, <2>8, <2>10, <2>11, <2>12, <2>13 DEF Reached
  <2>15. Decided(w) = Decided(v) \cup {item}
    BY <2>4, <2>7 DEF Decided
  <2>16. QED
    BY <1>6, <2>1, <2>14, <2>15
<1>7. QED
  BY <1>3, <1>4, <1>5, <1>6
-----------------------------------------------------------------------------
(* A verdict on which no visit to an item of Q changes anything.           *)
Finished(Q, v, limit) == \A item \in Q : Visit(v, item, limit) = v

(* What a sweep of items Q that starts from v comes to: v again, when that *)
(* is still, and otherwise something with more decided.                    *)
Swept(Q, synced, dead, limit, v, w) ==
  /\ w \in Reached(Q, synced, dead, limit)
  /\ Decided(v) \subseteq Decided(w)
  /\ Decided(w) = Decided(v) => w = v /\ Finished(Q, v, limit)
  /\ Finished(Q, v, limit) => w = v

LEMMA SweepReaches ==
  ASSUME NEW Q, NEW queue \in Seq(Q), Q = ToSet(queue), NEW synced, NEW dead, NEW limit \in Nat,
         NEW v \in Reached(Q, synced, dead, limit)
  PROVE  Swept(Q, synced, dead, limit, v, Sweep(v, queue, limit))
<1> DEFINE N == Len(queue)
           S == Reached(Q, synced, dead, limit)
           F == [i \in 1 .. N |-> [w \in S |-> Visit(w, queue[i], limit)]]
           Seen(g) == g = [i \in 0 .. N |-> IF i = 0 THEN v ELSE Visit(g[i - 1], queue[i], limit)]
           seen == CHOOSE g : Seen(g)
<1>1. N \in Nat /\ \A i \in 1 .. N : queue[i] \in Q
  OBVIOUS
<1>2. \A w \in S, i \in 1 .. N : Visit(w, queue[i], limit) \in S
  BY <1>1, VisitReaches
<1>3. \E g : Seen(g)
  <2>1. F \in [1 .. N -> [S -> S]]
    <3> HIDE DEF S
    <3>1. QED
      BY <1>2
  <2>2. v \in S
    OBVIOUS
  <2>3. PICK g : Iterated(N, S, v, F, g)
    <3> HIDE DEF F, N, S
    <3>1. QED
      BY <1>1, <2>1, <2>2, Iterates
  <2>4. g \in [0 .. N -> S] /\ g[0] = v /\ \A i \in 1 .. N : g[i] = F[i][g[i - 1]]
    <3> HIDE DEF F, N, S
    <3>1. QED
      BY <2>3 DEF Iterated
  <2>5. ASSUME NEW i \in 0 .. N
        PROVE  g[i] = (IF i = 0 THEN v ELSE Visit(g[i - 1], queue[i], limit))
    <3>1. CASE i # 0
      <4>1. i \in 1 .. N /\ i - 1 \in 0 .. N
        BY <1>1, <3>1
      <4>2. g[i - 1] \in S
        BY <2>4, <4>1
      <4> HIDE DEF S
      <4>3. QED
        BY <2>4, <3>1, <4>1, <4>2
    <3>2. QED
      BY <2>4, <3>1
  <2>6. Seen(g)
    <3> HIDE DEF F, S
    <3>1. QED
      BY <2>4, <2>5
  <2> HIDE DEF Seen
  <2>7. QED
    BY <2>6
<1>4. Seen(seen)
  <2> HIDE DEF Seen
  <2>1. QED
    BY <1>3
<1>5. Sweep(v, queue, limit) = seen[N]
  BY DEF Sweep
<1> HIDE DEF seen, S, N, F
<1>6. \A i \in 0 .. N :
        /\ seen[i] \in S
        /\ Decided(v) \subseteq Decided(seen[i])
        /\ Decided(seen[i]) = Decided(v)
             => seen[i] = v /\ \A j \in 1 .. i : Visit(v, queue[j], limit) = v
        /\ Finished(Q, v, limit) => seen[i] = v
  <2> DEFINE G == {i \in 0 .. N :
                     /\ seen[i] \in S
                     /\ Decided(v) \subseteq Decided(seen[i])
                     /\ Decided(seen[i]) = Decided(v)
                          => seen[i] = v /\ \A j \in 1 .. i : Visit(v, queue[j], limit) = v
                     /\ Finished(Q, v, limit) => seen[i] = v}
  <2>1. 0 \in G
    <3>1. seen[0] = v
      BY <1>1, <1>4
    <3>2. QED
      BY <1>1, <3>1 DEF S
  <2>2. ASSUME NEW i \in 1 .. N, i - 1 \in G PROVE i \in G
    <3>1. i \in 0 .. N /\ i # 0 /\ i - 1 \in 0 .. N
      BY <1>1
    <3>2. PICK u : u = seen[i - 1]
      OBVIOUS
    <3>3. PICK w : w = seen[i]
      OBVIOUS
    <3>4. w = Visit(u, queue[i], limit)
      BY <1>4, <3>1, <3>2, <3>3
    <3>5. /\ u \in S
          /\ Decided(v) \subseteq Decided(u)
          /\ Decided(u) = Decided(v)
               => u = v /\ \A j \in 1 .. i - 1 : Visit(v, queue[j], limit) = v
          /\ Finished(Q, v, limit) => u = v
      BY <2>2, <3>2
    <3>6. /\ w \in S
          /\ \/ w = u
             \/ queue[i] \notin Decided(u) /\ Decided(w) = Decided(u) \cup {queue[i]}
      BY <1>1, <3>4, <3>5, VisitReaches DEF S
    <3>7. Decided(v) \subseteq Decided(w)
      BY <3>5, <3>6
    <3>8. ASSUME Decided(w) = Decided(v)
          PROVE  w = v /\ \A j \in 1 .. i : Visit(v, queue[j], limit) = v
      <4>1. w = u /\ u = v
        BY <3>5, <3>6, <3>8
      <4>2. \A j \in 1 .. i : j \in 1 .. i - 1 \/ j = i
        BY <1>1
      <4>3. QED
        BY <3>4, <3>5, <4>1, <4>2
    <3>9. ASSUME Finished(Q, v, limit) PROVE w = v
      BY <1>1, <3>4, <3>5, <3>9 DEF Finished
    <3>10. QED
      BY <3>1, <3>3, <3>6, <3>7, <3>8, <3>9
  <2> HIDE DEF G
  <2>3. \A i \in 0 .. N : i \in G
    BY <1>1, <2>1, <2>2, UpTo
  <2>4. QED
    BY <2>3 DEF G
<1>7. (\A j \in 1 .. N : Visit(v, queue[j], limit) = v) => Finished(Q, v, limit)
  <2>1. \A item \in Q : \E j \in 1 .. N : queue[j] = item
    BY DEF N, ToSet
  <2>2. QED
    BY <2>1 DEF Finished
<1>8. N \in 0 .. N
  BY <1>1
<1>9. QED
  BY <1>5, <1>6, <1>7, <1>8 DEF Swept, S

(* What partition comes to keeps what sweeps keep, and is still.  Each     *)
(* sweep decides one item more or is still, so as many sweeps as there are *)
(* items are enough.                                                       *)
LEMMA PartitionDoes ==
  ASSUME NEW Q, NEW queue \in Seq(Q), Q = ToSet(queue), NEW synced, NEW dead, NEW limit \in Nat,
         NEW p, p = Partition(queue, synced, dead, limit)
  PROVE  p \in Reached(Q, synced, dead, limit) /\ Finished(Q, p, limit)
<1> DEFINE N == Len(queue)
           S == Reached(Q, synced, dead, limit)
           v == Undecided(synced, dead)
           F == [i \in 1 .. N |-> [w \in S |-> Sweep(w, queue, limit)]]
           Sweeps(g) == g = [i \in 0 .. N |-> IF i = 0 THEN v ELSE Sweep(g[i - 1], queue, limit)]
           sweeps == CHOOSE g : Sweeps(g)
<1>0. v \in S
  <2>1. v = [ready |-> <<>>, blocked |-> <<>>, satisfied |-> synced, dead |-> dead]
    BY DEF Undecided
  <2>2. <<>> \in Seq(Q) /\ ToSet(<<>>) = {} /\ DOMAIN <<>> = {} /\ Len(<<>>) = 0
    BY DEF ToSet
  <2>3. v \in Sorting(Q, synced, dead)
    BY <2>1, <2>2 DEF Sorting
  <2>4. About({}) = {}
    BY DEF About
  <2>5. v.ready = <<>> /\ v.blocked = <<>> /\ v.satisfied = synced /\ v.dead = dead
    BY <2>1
  <2> HIDE DEF v, S
  <2>6. /\ v.satisfied = synced \cup About(ToSet(v.ready))
        /\ v.dead = dead \cup About(ToSet(v.blocked))
    BY <2>2, <2>4, <2>5
  <2>7. DOMAIN v.ready = {} /\ Len(v.ready) <= limit /\ ToSet(v.blocked) = {}
    BY <2>2, <2>5
  <2>8. v \in Reached(Q, synced, dead, limit)
    BY <2>3, <2>6, <2>7 DEF Reached
  <2>9. QED
    BY <2>8 DEF S
<1>1. N \in Nat
  OBVIOUS
<1>2. \A w \in S : Swept(Q, synced, dead, limit, w, Sweep(w, queue, limit))
  BY SweepReaches
<1>3. \A w \in S, i \in 1 .. N : Sweep(w, queue, limit) \in S
  BY <1>2 DEF Swept
<1>4. \E g : Sweeps(g)
  <2>1. F \in [1 .. N -> [S -> S]]
    <3> HIDE DEF S
    <3>1. QED
      BY <1>3
  <2>2. PICK g : Iterated(N, S, v, F, g)
    <3> HIDE DEF F, N, S, v
    <3>1. QED
      BY <1>0, <1>1, <2>1, Iterates
  <2>3. g \in [0 .. N -> S] /\ g[0] = v /\ \A i \in 1 .. N : g[i] = F[i][g[i - 1]]
    <3> HIDE DEF F, N, S, v
    <3>1. QED
      BY <2>2 DEF Iterated
  <2>4. ASSUME NEW i \in 0 .. N
        PROVE  g[i] = (IF i = 0 THEN v ELSE Sweep(g[i - 1], queue, limit))
    <3>1. CASE i # 0
      <4>1. i \in 1 .. N /\ i - 1 \in 0 .. N
        BY <1>1, <3>1
      <4>2. g[i - 1] \in S
        BY <2>3, <4>1
      <4> HIDE DEF S
      <4>3. QED
        BY <2>3, <3>1, <4>1, <4>2
    <3>2. QED
      BY <2>3, <3>1
  <2>5. Sweeps(g)
    <3> HIDE DEF F, S, v
    <3>1. QED
      BY <2>3, <2>4
  <2> HIDE DEF Sweeps
  <2>6. QED
    BY <2>5
<1>5. Sweeps(sweeps)
  <2> HIDE DEF Sweeps
  <2>1. QED
    BY <1>4
<1>6. p = sweeps[N]
  BY DEF Partition
<1> HIDE DEF sweeps, S, N, F, v
<1>7. IsFiniteSet(Q) /\ Cardinality(Q) \in Nat /\ Cardinality(Q) <= N
  <2>1. queue \in Surjection(1 .. N, Q)
    BY DEF N, ToSet, Surjection
  <2>2. IsFiniteSet(1 .. N) /\ Cardinality(1 .. N) = N
    BY <1>1, FS_Interval
  <2>3. QED
    BY <2>1, <2>2, FS_Surjection, FS_CardinalityType
<1>8. \A w \in S : Decided(w) \in SUBSET Q
  BY DEF S, Reached, Sorting, Decided, ToSet
<1>9. \A i \in 0 .. N :
        sweeps[i] \in S /\ (Finished(Q, sweeps[i], limit) \/ Cardinality(Decided(sweeps[i])) >= i)
  <2> DEFINE G == {i \in 0 .. N :
                     /\ sweeps[i] \in S
                     /\ Finished(Q, sweeps[i], limit) \/ Cardinality(Decided(sweeps[i])) >= i}
  <2>1. 0 \in G
    <3>1. sweeps[0] = v
      BY <1>1, <1>5
    <3>2. Cardinality(Decided(v)) >= 0
      BY <1>0, <1>7, <1>8, FS_Subset, FS_CardinalityType
    <3>3. QED
      BY <1>0, <1>1, <3>1, <3>2
  <2>2. ASSUME NEW i \in 1 .. N, i - 1 \in G PROVE i \in G
    <3>1. i \in 0 .. N /\ i # 0 /\ i \in Nat
      BY <1>1
    <3>2. PICK u : u = sweeps[i - 1]
      OBVIOUS
    <3>3. PICK w : w = sweeps[i]
      OBVIOUS
    <3>4. w = Sweep(u, queue, limit)
      BY <1>5, <3>1, <3>2, <3>3
    <3>5. u \in S /\ (Finished(Q, u, limit) \/ Cardinality(Decided(u)) >= i - 1)
      BY <2>2, <3>2
    <3>6. Swept(Q, synced, dead, limit, u, w)
      BY <1>2, <3>4, <3>5
    <3>7. w \in S
      BY <3>6 DEF Swept, S
    <3>8. CASE Finished(Q, u, limit)
      BY <3>1, <3>3, <3>6, <3>7, <3>8 DEF Swept
    <3>9. CASE ~Finished(Q, u, limit)
      <4>1. Decided(u) \subseteq Decided(w) /\ Decided(u) # Decided(w)
        BY <3>6, <3>9 DEF Swept
      <4>2. IsFiniteSet(Decided(w)) /\ Cardinality(Decided(w)) \in Nat
        BY <1>7, <1>8, <3>7, FS_Subset, FS_CardinalityType
      <4>3. Cardinality(Decided(u)) < Cardinality(Decided(w)) /\ Cardinality(Decided(u)) \in Nat
        BY <4>1, <4>2, FS_Subset, FS_CardinalityType
      <4>4. Cardinality(Decided(u)) >= i - 1
        BY <3>5, <3>9
      <4>5. Cardinality(Decided(w)) >= i
        BY <3>1, <4>2, <4>3, <4>4
      <4>6. QED
        BY <3>1, <3>3, <3>7, <4>5
    <3>10. QED
      BY <3>8, <3>9
  <2> HIDE DEF G
  <2>3. \A i \in 0 .. N : i \in G
    BY <1>1, <2>1, <2>2, UpTo
  <2>4. QED
    BY <2>3 DEF G
<1>10. p \in S /\ (Finished(Q, p, limit) \/ Cardinality(Decided(p)) >= N)
  <2>1. N \in 0 .. N
    BY <1>1
  <2>2. QED
    BY <1>6, <1>9, <2>1
<1>11. ASSUME Cardinality(Decided(p)) >= N PROVE Finished(Q, p, limit)
  <2>1. Decided(p) \in SUBSET Q
    BY <1>8, <1>10
  <2>2. Decided(p) = Q
    BY <1>1, <1>7, <1>11, <2>1, FS_Subset, FS_CardinalityType
  <2>3. QED
    BY <2>2 DEF Finished, Visit
<1>12. QED
  BY <1>10, <1>11 DEF S
=============================================================================
