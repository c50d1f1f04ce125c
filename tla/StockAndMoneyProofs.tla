------------------------ MODULE StockAndMoneyProofs -------------------------
(***************************************************************************)
(* The customer's money and the dispatch desk, for any bills, receipts,    *)
(* splits, boxes, lots, lines and people, however their requests cross.    *)
(* Both keep figures that are sums over rows, so first what a sum is of a  *)
(* part, under other names, and with one row changed.  Then what a split   *)
(* lays where: the order its bills are taken in is that of the book, and   *)
(* every bill reached before the last is settled.                          *)
(*                                                                         *)
(* The money's inductive invariant is LedgerInv.  That a receipt is worth  *)
(* its lines is disturbed by every operation that rewrites lines, each of  *)
(* which has read something first: HasRead is what it has read and what of *)
(* it still stands, and Apart is why it does - re-pointing has the         *)
(* customer to itself, and credit is applied by one desk at a time.        *)
(*                                                                         *)
(* The desk's is DeskInv.  What no crossing disturbs is BoxesKept: a box   *)
(* in a scan's hands is on no line, and is what its line asks for or was   *)
(* allowed there by somebody else.  What holds where no two requests have  *)
(* had one line is LinesKept: the lines in people's hands are apart, so    *)
(* what each has read of its own still stands when it writes.              *)
(***************************************************************************)
EXTENDS ReceiptLedger, AllocationCheck, DispatchDesk, FiniteSetTheorems, WellFoundedInduction, TLAPS

(* A set that no first natural is missing from misses none.                *)
LEMMA UpTo ==
  ASSUME NEW N \in Nat, NEW G, 0 \in G, \A i \in 1 .. N : i - 1 \in G => i \in G
  PROVE  \A i \in 0 .. N : i \in G
<1> DEFINE T == {i \in 0 .. N : i \notin G}
           R == {ss \in Nat \X Nat : ss[1] < ss[2]}
<1> SUFFICES ASSUME T # {} PROVE FALSE
  OBVIOUS
<1>1. IsWellFoundedOn(R, Nat)
  BY NatLessThanWellFounded DEF OpToRel
<1>2. PICK n \in T : \A m \in T : <<m, n>> \notin R
  <2>1. T \subseteq Nat
    OBVIOUS
  <2> HIDE DEF R, T
  <2>2. QED
    BY <1>1, <2>1, WFMin
<1>3. n \in 1 .. N /\ n - 1 \in 0 .. N
  OBVIOUS
<1>4. n - 1 \in G
  <2>1. n - 1 \notin T
    <3>1. <<n - 1, n>> \in R
      BY <1>3
    <3>2. QED
      BY <1>2, <3>1
  <2>2. QED
    BY <1>3, <2>1
<1>5. QED
  BY <1>3, <1>4

(* What the fold adds up, as a recursive function on the subsets of S.     *)
First(s) == CHOOSE x \in s : TRUE
Adds(g, f, S) == g = [s \in SUBSET S |-> IF s = {} THEN 0 ELSE f[First(s)] + g[s \ {First(s)}]]
Adding(f, S) == CHOOSE g : Adds(g, f, S)

LEMMA SumIs == ASSUME NEW f, NEW S PROVE SumFunctionOnSet(f, S) = Adding(f, S)[S]
BY Zenon DEF SumFunctionOnSet, FoldFunctionOnSet, MapThenFoldSet, Adding, Adds, First

Summable(f, S) == IsFiniteSet(S) /\ \A x \in S : f[x] \in Nat

LEMMA FirstIn == ASSUME NEW s, s # {} PROVE First(s) \in s
BY DEF First

(* There is one.                                                           *)
LEMMA SumThere ==
  ASSUME NEW f, NEW S, Summable(f, S)
  PROVE  \E g \in [SUBSET S -> Nat] : Adds(g, f, S)
<1> DEFINE Small(n) == {s \in SUBSET S : Cardinality(s) <= n}
           Step(g, s) == IF s = {} THEN 0 ELSE f[First(s)] + g[s \ {First(s)}]
           Built(n) == \E g \in [Small(n) -> Nat] : \A s \in Small(n) : g[s] = Step(g, s)
           G == {n \in 0 .. Cardinality(S) : Built(n)}
<1>1. /\ Cardinality(S) \in Nat
      /\ \A s \in SUBSET S : IsFiniteSet(s) /\ Cardinality(s) \in Nat /\ Cardinality(s) <= Cardinality(S)
  BY FS_CardinalityType, FS_Subset DEF Summable
<1>2. 0 \in G
  <2>1. \A s \in Small(0) : s = {}
    BY <1>1, FS_EmptySet
  <2> DEFINE z == [s \in Small(0) |-> 0]
  <2>2. z \in [Small(0) -> Nat] /\ \A s \in Small(0) : z[s] = Step(z, s)
    BY <2>1
  <2>3. Built(0)
    <3> HIDE DEF z, Small, Step
    <3>1. QED
      BY <2>2
  <2> HIDE DEF Built
  <2>4. QED
    BY <1>1, <2>3
<1>3. ASSUME NEW n \in 1 .. Cardinality(S), n - 1 \in G PROVE n \in G
  <2>1. PICK g \in [Small(n - 1) -> Nat] : \A s \in Small(n - 1) : g[s] = Step(g, s)
    BY <1>3
  <2> DEFINE h == [s \in Small(n) |-> Step(g, s)]
  <2>2. ASSUME NEW s \in Small(n), s # {} PROVE First(s) \in S /\ s \ {First(s)} \in Small(n - 1) /\ s \ {First(s)} \in Small(n)
    <3>1. First(s) \in s
      BY <2>2, FirstIn
    <3>2. Cardinality(s \ {First(s)}) = Cardinality(s) - 1
      BY <1>1, <3>1, FS_RemoveElement
    <3>3. QED
      BY <1>1, <3>1, <3>2
  <2>3. ASSUME NEW s \in Small(n) PROVE h[s] \in Nat
    <3>1. CASE s = {}
      BY <3>1
    <3>2. CASE s # {}
      <4>1. f[First(s)] \in Nat /\ g[s \ {First(s)}] \in Nat
        BY <2>1, <2>2, <3>2 DEF Summable
      <4>2. QED
        BY <3>2, <4>1
    <3>3. QED
      BY <3>1, <3>2
  <2>4. ASSUME NEW s \in Small(n - 1) PROVE h[s] = g[s]
    BY <1>1, <2>1
  <2>5. ASSUME NEW s \in Small(n) PROVE h[s] = Step(h, s)
    <3>1. CASE s = {}
      BY <3>1
    <3>2. CASE s # {}
      BY <2>2, <2>4, <3>2
    <3>3. QED
      BY <3>1, <3>2
  <2>6. h \in [Small(n) -> Nat]
    BY <2>3
  <2>7. Built(n)
    <3> HIDE DEF h, Small, Step
    <3>1. QED
      BY <2>5, <2>6
  <2> HIDE DEF Built
  <2>8. QED
    BY <2>7
<1>4. Cardinality(S) \in G
  <2> HIDE DEF G
  <2>1. \A i \in 0 .. Cardinality(S) : i \in G
    BY <1>1, <1>2, <1>3, UpTo
  <2>2. QED
    BY <1>1, <2>1
<1>5. Small(Cardinality(S)) = SUBSET S
  BY <1>1
<1>6. PICK g \in [SUBSET S -> Nat] : \A s \in SUBSET S : g[s] = Step(g, s)
  <2> HIDE DEF Small, Step
  <2>1. QED
    BY <1>4, <1>5
<1>7. g = [s \in SUBSET S |-> Step(g, s)]
  BY <1>6
<1>8. QED
  BY <1>7 DEF Adds

(* And what it makes of a set does not depend on the set it is part of.    *)
LEMMA SumAgrees ==
  ASSUME NEW f, NEW S, Summable(f, S), NEW g, Adds(g, f, S), 
         NEW e, NEW T, NEW h, Adds(h, e, T), NEW U, U \subseteq S, U \subseteq T,
         \A x \in U : e[x] = f[x]
  PROVE  g[U] = h[U]
<1> DEFINE G == {n \in 0 .. Cardinality(U) : \A s \in SUBSET U : Cardinality(s) = n => g[s] = h[s]}
<1>1. IsFiniteSet(U) /\ Cardinality(U) \in Nat /\ \A s \in SUBSET U : IsFiniteSet(s) /\ Cardinality(s) \in Nat
  BY FS_CardinalityType, FS_Subset DEF Summable
<1>2. 0 \in G
  <2>1. \A s \in SUBSET U : Cardinality(s) = 0 => s = {}
    BY <1>1, FS_EmptySet
  <2>2. g[{}] = 0 /\ h[{}] = 0
    BY DEF Adds
  <2>3. QED
    BY <1>1, <2>1, <2>2
<1>3. ASSUME NEW n \in 1 .. Cardinality(U), n - 1 \in G PROVE n \in G
  <2>1. ASSUME NEW s \in SUBSET U, Cardinality(s) = n PROVE g[s] = h[s]
    <3>1. s # {} /\ First(s) \in s
      BY <2>1, FS_EmptySet, FirstIn
    <3>2. Cardinality(s \ {First(s)}) = n - 1
      BY <1>1, <2>1, <3>1, FS_RemoveElement
    <3>3. g[s \ {First(s)}] = h[s \ {First(s)}]
      BY <1>3, <3>2
    <3>4. f[First(s)] = e[First(s)]
      BY <3>1
    <3>5. g[s] = f[First(s)] + g[s \ {First(s)}] /\ h[s] = e[First(s)] + h[s \ {First(s)}]
      BY <3>1 DEF Adds
    <3>6. QED
      BY <3>3, <3>4, <3>5
  <2>2. QED
    BY <1>3, <2>1
<1>4. Cardinality(U) \in G
  <2> HIDE DEF G
  <2>1. \A i \in 0 .. Cardinality(U) : i \in G
    BY <1>1, <1>2, <1>3, UpTo
  <2>2. QED
    BY <1>1, <2>1
<1>5. QED
  BY <1>4

LEMMA SumAdds ==
  ASSUME NEW f, NEW S, Summable(f, S)
  PROVE  Adds(Adding(f, S), f, S) /\ Adding(f, S) \in [SUBSET S -> Nat]
<1>1. PICK g \in [SUBSET S -> Nat] : Adds(g, f, S)
  BY SumThere
<1>2. Adds(Adding(f, S), f, S)
  BY <1>1 DEF Adding
<1>3. DOMAIN Adding(f, S) = SUBSET S /\ Adding(f, S) = [s \in SUBSET S |-> Adding(f, S)[s]]
  BY <1>2 DEF Adds
<1>4. \A U \in SUBSET S : g[U] = Adding(f, S)[U]
  <2>1. ASSUME NEW U \in SUBSET S PROVE g[U] = Adding(f, S)[U]
    BY <1>1, <1>2, SumAgrees
  <2>2. QED
    BY <2>1
<1>5. \A U \in SUBSET S : Adding(f, S)[U] \in Nat
  BY <1>1, <1>4
<1>6. QED
  BY <1>2, <1>3, <1>5

(* The sum of nothing, and of one thing and the rest.                      *)
LEMMA SumTyped ==
  ASSUME NEW f, NEW S, Summable(f, S)
  PROVE  SumFunctionOnSet(f, S) \in Nat
<1>1. Adding(f, S)[S] \in Nat
  <2>1. Adding(f, S) \in [SUBSET S -> Nat]
    BY SumAdds
  <2>2. QED
    BY <2>1
<1>2. QED
  BY <1>1, SumIs

LEMMA SumOfNone == ASSUME NEW f PROVE SumFunctionOnSet(f, {}) = 0
<1>1. Summable(f, {})
  BY FS_EmptySet DEF Summable
<1>2. Adding(f, {})[{}] = 0
  <2>1. Adds(Adding(f, {}), f, {})
    BY <1>1, SumAdds
  <2>2. QED
    BY <2>1 DEF Adds
<1>3. QED
  BY <1>2, SumIs

LEMMA SumSame ==
  ASSUME NEW f, NEW e, NEW S, Summable(f, S), \A x \in S : e[x] = f[x]
  PROVE  SumFunctionOnSet(e, S) = SumFunctionOnSet(f, S)
<1>1. Summable(e, S)
  BY DEF Summable
<1>2. Adds(Adding(f, S), f, S) /\ Adds(Adding(e, S), e, S)
  BY <1>1, SumAdds
<1>3. Adding(f, S)[S] = Adding(e, S)[S]
  BY <1>2, SumAgrees
<1>4. QED
  BY <1>3, SumIs

LEMMA SumFirst ==
  ASSUME NEW f, NEW S, Summable(f, S), S # {}
  PROVE  SumFunctionOnSet(f, S) = f[First(S)] + SumFunctionOnSet(f, S \ {First(S)})
<1> DEFINE T == S \ {First(S)}
<1>1. Summable(f, T)
  BY FS_Subset DEF Summable
<1>2. Adds(Adding(f, S), f, S) /\ Adds(Adding(f, T), f, T)
  BY <1>1, SumAdds
<1>3. Adding(f, S)[T] = Adding(f, T)[T]
  <2>1. T \subseteq S /\ T \subseteq T
    OBVIOUS
  <2> HIDE DEF T
  <2>2. QED
    BY <1>2, <2>1, SumAgrees
<1>4. Adding(f, S)[S] = f[First(S)] + Adding(f, S)[T]
  BY <1>2 DEF Adds
<1>5. QED
  BY <1>3, <1>4, SumIs

LEMMA SumWithout ==
  ASSUME NEW f, NEW S, Summable(f, S), NEW y \in S
  PROVE  SumFunctionOnSet(f, S) = f[y] + SumFunctionOnSet(f, S \ {y})
<1> DEFINE Total(T) == SumFunctionOnSet(f, T)
           G == {n \in 0 .. Cardinality(S) : \A T \in SUBSET S : Cardinality(T) = n =>
                   \A x \in T : Total(T) = f[x] + Total(T \ {x})}
<1>1. /\ IsFiniteSet(S) /\ Cardinality(S) \in Nat
      /\ \A T \in SUBSET S : IsFiniteSet(T) /\ Cardinality(T) \in Nat /\ Summable(f, T) /\ Total(T) \in Nat
  BY FS_CardinalityType, FS_Subset, SumTyped DEF Summable
<1>2. 0 \in G
  <2>1. \A T \in SUBSET S : Cardinality(T) = 0 => T = {}
    BY <1>1, FS_EmptySet
  <2>2. QED
    BY <1>1, <2>1
<1>3. ASSUME NEW n \in 1 .. Cardinality(S), n - 1 \in G PROVE n \in G
  <2>1. ASSUME NEW T \in SUBSET S, Cardinality(T) = n, NEW x \in T PROVE Total(T) = f[x] + Total(T \ {x})
    <3> DEFINE c == First(T)
    <3>1. c \in T
      BY FirstIn
    <3>2. Total(T) = f[c] + Total(T \ {c})
      BY <1>1, SumFirst
    <3>3. CASE x = c
      BY <3>2, <3>3
    <3>4. CASE x # c
      <4>1. Cardinality(T \ {c}) = n - 1 /\ Cardinality(T \ {x}) = n - 1
        BY <1>1, <2>1, <3>1, FS_RemoveElement
      <4>2. Total(T \ {c}) = f[x] + Total((T \ {c}) \ {x})
        BY <1>3, <3>4, <4>1
      <4>3. Total(T \ {x}) = f[c] + Total((T \ {x}) \ {c})
        BY <1>3, <3>1, <3>4, <4>1
      <4>4. (T \ {c}) \ {x} = (T \ {x}) \ {c}
        OBVIOUS
      <4>5. f[x] \in Nat /\ f[c] \in Nat /\ Total((T \ {x}) \ {c}) \in Nat
        BY <1>1, <3>1 DEF Summable
      <4>6. Total((T \ {c}) \ {x}) = Total((T \ {x}) \ {c})
        BY <4>4
      <4> HIDE DEF c, Total
      <4>7. QED
        BY <3>2, <4>2, <4>3, <4>5, <4>6
    <3>5. QED
      BY <3>3, <3>4
  <2> HIDE DEF Total
  <2>2. QED
    BY <1>3, <2>1
<1>4. Cardinality(S) \in G
  <2> HIDE DEF G
  <2>1. \A i \in 0 .. Cardinality(S) : i \in G
    BY <1>1, <1>2, <1>3, UpTo
  <2>2. QED
    BY <1>1, <2>1
<1>5. QED
  BY <1>4

(* Where one thing has changed, the sum has changed by as much.            *)
LEMMA SumChanged ==
  ASSUME NEW f, NEW e, NEW S, Summable(f, S), Summable(e, S), NEW y \in S,
         \A x \in S \ {y} : e[x] = f[x]
  PROVE  SumFunctionOnSet(e, S) = SumFunctionOnSet(f, S) - f[y] + e[y]
<1> DEFINE T == S \ {y}
<1>1. Summable(f, T) /\ Summable(e, T)
  BY FS_Subset DEF Summable
<1>2. SumFunctionOnSet(e, T) = SumFunctionOnSet(f, T) /\ SumFunctionOnSet(f, T) \in Nat
  <2>1. \A x \in T : e[x] = f[x]
    OBVIOUS
  <2> HIDE DEF T
  <2>2. QED
    BY <1>1, <2>1, SumSame, SumTyped
<1>3. SumFunctionOnSet(f, S) = f[y] + SumFunctionOnSet(f, T) /\ SumFunctionOnSet(e, S) = e[y] + SumFunctionOnSet(e, T)
  BY SumWithout
<1>4. f[y] \in Nat /\ e[y] \in Nat
  BY DEF Summable
<1> HIDE DEF T
<1>5. QED
  BY <1>2, <1>3, <1>4

LEMMA SumOfZeros ==
  ASSUME NEW f, NEW S, IsFiniteSet(S), \A x \in S : f[x] = 0
  PROVE  SumFunctionOnSet(f, S) = 0
<1> DEFINE G == {n \in 0 .. Cardinality(S) : \A T \in SUBSET S : Cardinality(T) = n => SumFunctionOnSet(f, T) = 0}
<1>1. /\ Cardinality(S) \in Nat
      /\ \A T \in SUBSET S : IsFiniteSet(T) /\ Summable(f, T)
  BY FS_CardinalityType, FS_Subset DEF Summable
<1>2. 0 \in G
  <2>1. \A T \in SUBSET S : Cardinality(T) = 0 => T = {}
    BY <1>1, FS_EmptySet
  <2>2. QED
    BY <1>1, <2>1, SumOfNone
<1>3. ASSUME NEW n \in 1 .. Cardinality(S), n - 1 \in G PROVE n \in G
  <2>1. ASSUME NEW T \in SUBSET S, Cardinality(T) = n PROVE SumFunctionOnSet(f, T) = 0
    <3>1. T # {}
      BY <2>1, FS_EmptySet
    <3>2. PICK x \in T : TRUE
      BY <3>1
    <3>3. Cardinality(T \ {x}) = n - 1
      BY <1>1, <2>1, FS_RemoveElement
    <3>4. SumFunctionOnSet(f, T \ {x}) = 0 /\ f[x] = 0
      BY <1>3, <3>3
    <3>5. SumFunctionOnSet(f, T) = f[x] + SumFunctionOnSet(f, T \ {x})
      BY <1>1, SumWithout
    <3>6. QED
      BY <3>4, <3>5
  <2>2. QED
    BY <1>3, <2>1
<1>4. Cardinality(S) \in G
  <2> HIDE DEF G
  <2>1. \A i \in 0 .. Cardinality(S) : i \in G
    BY <1>1, <1>2, <1>3, UpTo
  <2>2. QED
    BY <1>1, <2>1
<1>5. QED
  BY <1>4

(* A sum is that of a part and that of the rest.                           *)
LEMMA SumSplit ==
  ASSUME NEW f, NEW S, Summable(f, S), NEW U \in SUBSET S
  PROVE  SumFunctionOnSet(f, S) = SumFunctionOnSet(f, U) + SumFunctionOnSet(f, S \ U)
<1> DEFINE Total(T) == SumFunctionOnSet(f, T)
           G == {n \in 0 .. Cardinality(S) : \A T \in SUBSET S : Cardinality(T) = n =>
                   Total(S) = Total(T) + Total(S \ T)}
<1>1. /\ IsFiniteSet(S) /\ Cardinality(S) \in Nat
      /\ \A T \in SUBSET S : IsFiniteSet(T) /\ Cardinality(T) \in 0 .. Cardinality(S)
                             /\ Summable(f, T) /\ Total(T) \in Nat
  BY FS_CardinalityType, FS_Subset, SumTyped DEF Summable
<1>2. 0 \in G
  <2>1. ASSUME NEW T \in SUBSET S, Cardinality(T) = 0 PROVE Total(S) = Total(T) + Total(S \ T)
    <3>1. T = {} /\ S \ T = S
      BY <1>1, <2>1, FS_EmptySet
    <3>2. Total(T) = 0
      BY <3>1, SumOfNone
    <3>3. Total(S \ T) = Total(S)
      BY <3>1
    <3> HIDE DEF Total
    <3>4. QED
      BY <1>1, <3>2, <3>3
  <2> HIDE DEF Total
  <2>2. QED
    BY <1>1, <2>1
<1>3. ASSUME NEW n \in 1 .. Cardinality(S), n - 1 \in G PROVE n \in G
  <2>1. ASSUME NEW T \in SUBSET S, Cardinality(T) = n PROVE Total(S) = Total(T) + Total(S \ T)
    <3>1. T # {}
      BY <2>1, FS_EmptySet
    <3>2. PICK x \in T : TRUE
      BY <3>1
    <3> DEFINE V == T \ {x}
    <3>3. V \in SUBSET S /\ S \ T \in SUBSET S /\ S \ V \in SUBSET S
      OBVIOUS
    <3>4. Cardinality(V) = n - 1
      BY <1>1, <2>1, <3>2, FS_RemoveElement
    <3>5. Total(S) = Total(V) + Total(S \ V)
      BY <1>3, <3>3, <3>4
    <3>6. Total(T) = f[x] + Total(V)
      BY <1>1, <3>2, SumWithout
    <3>7. Total(S \ V) = f[x] + Total(S \ T)
      <4>1. x \in S \ V /\ (S \ V) \ {x} = S \ T
        BY <3>2
      <4>2. Summable(f, S \ V)
        BY <1>1, <3>3
      <4> HIDE DEF V
      <4>3. Total(S \ V) = f[x] + Total((S \ V) \ {x})
        BY <4>1, <4>2, SumWithout
      <4>4. QED
        BY <4>1, <4>3
    <3>8. f[x] \in Nat /\ Total(V) \in Nat /\ Total(S \ T) \in Nat
      BY <1>1, <3>2, <3>3 DEF Summable
    <3> HIDE DEF Total, V
    <3>9. QED
      BY <3>5, <3>6, <3>7, <3>8
  <2> HIDE DEF Total
  <2>2. QED
    BY <1>3, <2>1
<1>4. Cardinality(U) \in G
  <2> HIDE DEF G
  <2>1. \A i \in 0 .. Cardinality(S) : i \in G
    BY <1>1, <1>2, <1>3, UpTo
  <2>2. QED
    BY <1>1, <2>1
<1>5. QED
  BY <1>4

(* Of more, no less.                                                       *)
LEMMA SumOfPart ==
  ASSUME NEW f, NEW S, Summable(f, S), NEW U \in SUBSET S
  PROVE  SumFunctionOnSet(f, U) <= SumFunctionOnSet(f, S)
<1>1. Summable(f, U) /\ Summable(f, S \ U)
  BY FS_Subset DEF Summable
<1>2. SumFunctionOnSet(f, U) \in Nat /\ SumFunctionOnSet(f, S \ U) \in Nat
  BY <1>1, SumTyped
<1>3. QED
  BY <1>2, SumSplit

(* What is told apart under other names adds up to the same.               *)
Renames(g, S) == \A x, y \in S : g[x] = g[y] => x = y
Image(g, S) == {g[x] : x \in S}

LEMMA SumRenamed ==
  ASSUME NEW f, NEW S, Summable(f, S), NEW g, Renames(g, S), NEW h, \A x \in S : h[g[x]] = f[x]
  PROVE  Summable(h, Image(g, S)) /\ SumFunctionOnSet(h, Image(g, S)) = SumFunctionOnSet(f, S)
<1> DEFINE Agree(T) == IsFiniteSet(Image(g, T)) /\ SumFunctionOnSet(h, Image(g, T)) = SumFunctionOnSet(f, T)
           G == {n \in 0 .. Cardinality(S) : \A T \in SUBSET S : Cardinality(T) = n => Agree(T)}
<1>1. /\ IsFiniteSet(S) /\ Cardinality(S) \in Nat
      /\ \A T \in SUBSET S : IsFiniteSet(T) /\ Summable(f, T)
      /\ \A T \in SUBSET S : \A y \in Image(g, T) : h[y] \in Nat
  BY FS_CardinalityType, FS_Subset DEF Summable, Image
<1>2. 0 \in G
  <2>1. ASSUME NEW T \in SUBSET S, Cardinality(T) = 0 PROVE Agree(T)
    <3>1. T = {} /\ Image(g, T) = {}
      BY <1>1, <2>1, FS_EmptySet DEF Image
    <3>2. QED
      BY <3>1, SumOfNone, FS_EmptySet
  <2> HIDE DEF Agree
  <2>2. QED
    BY <1>1, <2>1
<1>3. ASSUME NEW n \in 1 .. Cardinality(S), n - 1 \in G PROVE n \in G
  <2>1. ASSUME NEW T \in SUBSET S, Cardinality(T) = n PROVE Agree(T)
    <3>1. T # {}
      BY <2>1, FS_EmptySet
    <3>2. PICK x \in T : TRUE
      BY <3>1
    <3>3. Cardinality(T \ {x}) = n - 1
      BY <1>1, <2>1, <3>2, FS_RemoveElement
    <3>4. Agree(T \ {x})
      BY <1>3, <3>3
    <3>5. g[x] \in Image(g, T) /\ Image(g, T) \ {g[x]} = Image(g, T \ {x})
      BY <3>2 DEF Image, Renames
    <3>6. Image(g, T) = Image(g, T \ {x}) \cup {g[x]}
      BY <3>5
    <3>7. IsFiniteSet(Image(g, T))
      <4>1. IsFiniteSet(Image(g, T \ {x}))
        BY <3>4
      <4>2. IsFiniteSet(Image(g, T \ {x}) \cup {g[x]})
        BY <4>1, FS_AddElement
      <4>3. QED
        BY <3>6, <4>2
    <3>8. Summable(h, Image(g, T)) /\ Summable(f, T)
      BY <1>1, <3>7 DEF Summable
    <3>9. SumFunctionOnSet(h, Image(g, T)) = h[g[x]] + SumFunctionOnSet(h, Image(g, T \ {x}))
      BY <3>5, <3>8, SumWithout
    <3>10. SumFunctionOnSet(f, T) = f[x] + SumFunctionOnSet(f, T \ {x})
      BY <3>2, <3>8, SumWithout
    <3>11. QED
      BY <3>2, <3>4, <3>7, <3>9, <3>10
  <2> HIDE DEF Agree
  <2>2. QED
    BY <1>3, <2>1
<1>4. Cardinality(S) \in G
  <2> HIDE DEF G
  <2>1. \A i \in 0 .. Cardinality(S) : i \in G
    BY <1>1, <1>2, <1>3, UpTo
  <2>2. QED
    BY <1>1, <2>1
<1>5. Agree(S)
  BY <1>4
<1>6. QED
  BY <1>1, <1>5 DEF Summable

-----------------------------------------------------------------------------
(***************************************************************************)
(* What a split of money comes to (allocate).                              *)
(***************************************************************************)
(* What is chosen of a sequence, one at a time.                            *)
Sifting(s, T) ==
  CHOOSE kept : kept = [i \in 0 .. Len(s) |->
    IF i = 0 THEN <<>> ELSE IF s[i] \in T THEN Append(kept[i - 1], s[i]) ELSE kept[i - 1]]

LEMMA ChosenIsSifted == ASSUME NEW s, NEW T PROVE Chosen(s, T) = Sifting(s, T)[Len(s)]
BY Zenon DEF Chosen, Sifting

Sifts(k, n, s, T) ==
  /\ k[0] = <<>>
  /\ \A i \in 1 .. n : k[i] = IF s[i] \in T THEN Append(k[i - 1], s[i]) ELSE k[i - 1]

LEMMA SiftingIs ==
  ASSUME NEW S, NEW s \in Seq(S), NEW T
  PROVE  Sifting(s, T) \in [0 .. Len(s) -> Seq(S \cap T)] /\ Sifts(Sifting(s, T), Len(s), s, T)
<1> DEFINE X == Seq(S \cap T)
           Next1(i, q) == IF s[i] \in T THEN Append(q, s[i]) ELSE q
           G == {n \in 0 .. Len(s) : \E k \in [0 .. n -> X] : Sifts(k, n, s, T)}
<1>1. Len(s) \in Nat /\ \A i \in 1 .. Len(s) : s[i] \in S
  OBVIOUS
<1>2. ASSUME NEW i \in 1 .. Len(s), NEW q \in X PROVE Next1(i, q) \in X
  BY <1>1
<1>3. 0 \in G
  <2>1. [i \in 0 .. 0 |-> <<>>] \in [0 .. 0 -> X] /\ Sifts([i \in 0 .. 0 |-> <<>>], 0, s, T)
    BY DEF Sifts
  <2> HIDE DEF X
  <2>2. QED
    BY <1>1, <2>1
<1>4. ASSUME NEW n \in 1 .. Len(s), n - 1 \in G PROVE n \in G
  <2>1. PICK k \in [0 .. n - 1 -> X] : Sifts(k, n - 1, s, T)
    BY <1>4
  <2>2. k[n - 1] \in X
    BY <1>1, <2>1
  <2>3. PICK q \in X : q = Next1(n, k[n - 1])
    BY <1>2, <2>2
  <2> DEFINE h == [i \in 0 .. n |-> IF i = n THEN q ELSE k[i]]
  <2> HIDE DEF X, Next1
  <2>4. h \in [0 .. n -> X]
    BY <1>1, <2>1
  <2>5. Sifts(h, n, s, T)
    <3>1. h[0] = <<>>
      BY <2>1 DEF Sifts
    <3>2. ASSUME NEW i \in 1 .. n PROVE h[i] = Next1(i, h[i - 1])
      <4>1. CASE i = n
        BY <2>3, <4>1
      <4>2. CASE i # n
        <5>1. i \in 1 .. n - 1 /\ h[i] = k[i] /\ h[i - 1] = k[i - 1]
          BY <4>2
        <5>2. QED
          BY <2>1, <5>1 DEF Sifts, Next1
      <4>3. QED
        BY <4>1, <4>2
    <3>3. QED
      BY <3>1, <3>2 DEF Sifts, Next1
  <2>6. QED
    <3> HIDE DEF h
    <3>1. QED
      BY <2>4, <2>5
<1>5. Len(s) \in G
  <2> HIDE DEF G
  <2>1. \A i \in 0 .. Len(s) : i \in G
    BY <1>1, <1>3, <1>4, UpTo
  <2>2. QED
    BY <1>1, <2>1
<1>6. PICK k \in [0 .. Len(s) -> X] : Sifts(k, Len(s), s, T)
  BY <1>5
<1>7. k = [i \in 0 .. Len(s) |-> IF i = 0 THEN <<>> ELSE IF s[i] \in T THEN Append(k[i - 1], s[i]) ELSE k[i - 1]]
  <2>1. ASSUME NEW i \in 0 .. Len(s)
        PROVE  k[i] = IF i = 0 THEN <<>> ELSE IF s[i] \in T THEN Append(k[i - 1], s[i]) ELSE k[i - 1]
    <3>1. i = 0 \/ i \in 1 .. Len(s)
      BY <1>1
    <3>2. QED
      BY <1>6, <3>1 DEF Sifts
  <2> HIDE DEF X
  <2>2. QED
    BY <1>6, <2>1
<1> DEFINE z == Sifting(s, T)
<1>8. z = [i \in 0 .. Len(s) |-> IF i = 0 THEN <<>> ELSE IF s[i] \in T THEN Append(z[i - 1], s[i]) ELSE z[i - 1]]
  BY <1>7 DEF Sifting
<1> HIDE DEF z
<1>9. Sifts(z, Len(s), s, T)
  <2>1. z[0] = <<>>
    BY <1>1, <1>8
  <2>2. ASSUME NEW i \in 1 .. Len(s) PROVE z[i] = IF s[i] \in T THEN Append(z[i - 1], s[i]) ELSE z[i - 1]
    <3>1. i \in 0 .. Len(s) /\ i # 0
      BY <1>1
    <3>2. QED
      BY <1>8, <3>1
  <2>3. QED
    BY <2>1, <2>2 DEF Sifts
<1>10. \A i \in 0 .. Len(s) : z[i] = k[i]
  <2> DEFINE H == {i \in 0 .. Len(s) : z[i] = k[i]}
  <2>1. 0 \in H
    BY <1>1, <1>6, <1>9 DEF Sifts
  <2>2. ASSUME NEW i \in 1 .. Len(s), i - 1 \in H PROVE i \in H
    BY <1>1, <1>6, <1>9, <2>2 DEF Sifts
  <2> HIDE DEF H
  <2>3. \A i \in 0 .. Len(s) : i \in H
    BY <1>1, <2>1, <2>2, UpTo
  <2>4. QED
    BY <2>3 DEF H
<1>11. z \in [0 .. Len(s) -> X]
  <2> HIDE DEF X
  <2>1. \A i \in 0 .. Len(s) : z[i] \in X
    BY <1>6, <1>10
  <2>2. z = [i \in 0 .. Len(s) |-> z[i]]
    BY <1>8
  <2>3. QED
    BY <2>1, <2>2
<1>12. QED
  BY <1>9, <1>11 DEF z

(* What is chosen is of both, each once if it was there once.              *)
Once(s) == \A i, j \in DOMAIN s : s[i] = s[j] => i = j

LEMMA ChosenIs ==
  ASSUME NEW S, NEW s \in Seq(S), NEW T
  PROVE  Chosen(s, T) \in Seq(S \cap T) /\ (Once(s) => Once(Chosen(s, T)))
<1> DEFINE k == Sifting(s, T)
           Is(i) == Once(k[i]) /\ \A j \in DOMAIN k[i] : \E m \in 1 .. i : k[i][j] = s[m]
           G == {i \in 0 .. Len(s) : Is(i)}
<1>1. k \in [0 .. Len(s) -> Seq(S \cap T)] /\ Sifts(k, Len(s), s, T) /\ Len(s) \in Nat
  <2>1. Len(s) \in Nat
    OBVIOUS
  <2>2. QED
    BY <2>1, SiftingIs
<1>2. Chosen(s, T) = k[Len(s)] /\ k[Len(s)] \in Seq(S \cap T)
  BY <1>1, ChosenIsSifted
<1> HIDE DEF k
<1>3. ASSUME Once(s) PROVE Once(k[Len(s)])
  <2>1. 0 \in G
    BY <1>1 DEF Sifts, Once
  <2>2. ASSUME NEW i \in 1 .. Len(s), i - 1 \in G PROVE i \in G
    <3>1. Is(i - 1) /\ i - 1 \in 0 .. Len(s) /\ i \in 0 .. Len(s)
      BY <2>2
    <3>2. PICK q \in Seq(S \cap T) : q = k[i - 1]
      BY <1>1, <3>1
    <3>3. CASE s[i] \notin T
      <4>1. k[i] = q
        BY <1>1, <3>2, <3>3 DEF Sifts
      <4>2. \A m \in 1 .. i - 1 : m \in 1 .. i
        OBVIOUS
      <4>3. Is(i)
        BY <3>1, <3>2, <4>1, <4>2
      <4>4. QED
        BY <4>3
    <3>4. CASE s[i] \in T
      <4>1. k[i] = Append(q, s[i]) /\ s[i] \in S \cap T
        <5>1. s[i] \in S
          OBVIOUS
        <5>2. QED
          BY <1>1, <3>2, <3>4, <5>1 DEF Sifts
      <4>2. PICK h : h = Append(q, s[i]) /\ Len(q) \in Nat /\ DOMAIN q = 1 .. Len(q) /\ DOMAIN h = 1 .. Len(q) + 1
                     /\ (\A j \in 1 .. Len(q) : h[j] = q[j]) /\ h[Len(q) + 1] = s[i]
        <5>1. Len(q) \in Nat /\ DOMAIN q = 1 .. Len(q)
          OBVIOUS
        <5>2. \A x \in S \cap T : /\ DOMAIN Append(q, x) = 1 .. Len(q) + 1
                                  /\ \A j \in 1 .. Len(q) : Append(q, x)[j] = q[j]
                                  /\ Append(q, x)[Len(q) + 1] = x
          OBVIOUS
        <5>3. QED
          BY <4>1, <5>1, <5>2
      <4>3. ASSUME NEW j \in 1 .. Len(q) PROVE h[j] # s[i] /\ \E m \in 1 .. i : h[j] = s[m]
        <5>1. PICK m \in 1 .. i - 1 : q[j] = s[m]
          BY <3>1, <3>2, <4>2
        <5>2. m \in 1 .. Len(s) /\ i \in 1 .. Len(s) /\ m # i /\ DOMAIN s = 1 .. Len(s) /\ m \in 1 .. i
          OBVIOUS
        <5>3. s[m] # s[i]
          BY <1>3, <5>2 DEF Once
        <5>4. QED
          BY <4>2, <5>1, <5>2, <5>3
      <4>4. \A j \in DOMAIN h : j \in 1 .. Len(q) \/ j = Len(q) + 1
        BY <4>2
      <4>5. Once(h)
        <5>1. ASSUME NEW a \in DOMAIN h, NEW b \in DOMAIN h, h[a] = h[b] PROVE a = b
          <6>1. CASE a \in 1 .. Len(q) /\ b \in 1 .. Len(q)
            BY <3>1, <3>2, <4>2, <5>1, <6>1 DEF Once
          <6>2. CASE ~(a \in 1 .. Len(q) /\ b \in 1 .. Len(q))
            BY <4>2, <4>3, <4>4, <5>1, <6>2
          <6>3. QED
            BY <6>1, <6>2
        <5>2. QED
          BY <5>1 DEF Once
      <4>6. \A j \in DOMAIN h : \E m \in 1 .. i : h[j] = s[m]
        <5>1. i \in 1 .. i
          OBVIOUS
        <5>2. QED
          BY <4>2, <4>3, <4>4, <5>1
      <4>7. k[i] = h
        BY <4>1, <4>2
      <4>8. Is(i)
        BY <4>5, <4>6, <4>7
      <4>9. QED
        BY <3>1, <4>8
    <3>5. QED
      BY <3>3, <3>4
  <2> HIDE DEF G
  <2>3. \A i \in 0 .. Len(s) : i \in G
    BY <1>1, <2>1, <2>2, UpTo
  <2>4. QED
    BY <1>1, <2>3 DEF G
<1>4. QED
  BY <1>2, <1>3

(* The parts of a split add up, and one more on account adds what it is.   *)
LEMMA PartsAdd ==
  ASSUME NEW ps \in Seq(Parts)
  PROVE  /\ Summable([i \in DOMAIN ps |-> ps[i].amt], DOMAIN ps)
         /\ PartsTotal(ps) \in Nat
<1>1. /\ DOMAIN ps = 1 .. Len(ps) /\ Len(ps) \in Nat
      /\ \A i \in DOMAIN ps : ps[i].amt \in Nat
  <2>1. \A i \in DOMAIN ps : ps[i] \in Parts
    OBVIOUS
  <2>2. \A x \in Parts : x.amt \in Nat
    BY DEF Parts
  <2>3. QED
    BY <2>1, <2>2
<1>2. IsFiniteSet(DOMAIN ps)
  <2>1. 1 \in Int /\ Len(ps) \in Int
    BY <1>1
  <2>2. QED
    BY <1>1, <2>1, FS_Interval
<1>3. Summable([i \in DOMAIN ps |-> ps[i].amt], DOMAIN ps)
  BY <1>1, <1>2 DEF Summable
<1>4. QED
  BY <1>3, SumTyped DEF PartsTotal, Sum

LEMMA OneMorePart ==
  ASSUME NEW ps \in Seq(Parts), NEW k \in Nat
  PROVE  /\ ps \o OnAccount(k) \in Seq(Parts)
         /\ PartsTotal(ps \o OnAccount(k)) = PartsTotal(ps) + k
<1>1. CASE k = 0
  <2>1. ps \o OnAccount(k) = ps
    BY <1>1 DEF OnAccount
  <2>2. PartsTotal(ps) \in Nat
    BY PartsAdd
  <2>3. PICK q : q = ps \o OnAccount(k)
    OBVIOUS
  <2>4. q = ps /\ PartsTotal(q) = PartsTotal(ps) + k
    <3>1. q = ps
      BY <2>1, <2>3
    <3>2. PartsTotal(ps) = PartsTotal(ps) + k
      BY <1>1, <2>2
    <3>3. QED
      BY <3>1, <3>2
  <2>5. QED
    BY <2>3, <2>4
<1>2. CASE k # 0
  <2> DEFINE p == [bill |-> NoBill, amt |-> k]
  <2>1. p \in Parts /\ p.amt = k
    BY <1>2 DEF Parts
  <2>2. ps \o OnAccount(k) = Append(ps, p)
    BY <1>2 DEF OnAccount
  <2> HIDE DEF p
  <2> DEFINE n == Len(ps)
             q == Append(ps, p)
  <2>3. /\ q \in Seq(Parts) /\ n \in Nat
        /\ DOMAIN ps = 1 .. n /\ DOMAIN q = 1 .. n + 1
        /\ (\A i \in 1 .. n : q[i] = ps[i]) /\ q[n + 1] = p
    BY <2>1
  <2> HIDE DEF n, q
  <2> DEFINE f == [i \in DOMAIN q |-> q[i].amt]
             e == [i \in DOMAIN ps |-> ps[i].amt]
  <2>4. /\ Summable(f, 1 .. n + 1) /\ Summable(e, 1 .. n)
        /\ PartsTotal(q) = SumFunctionOnSet(f, 1 .. n + 1)
        /\ PartsTotal(ps) = SumFunctionOnSet(e, 1 .. n)
    BY <2>3, PartsAdd DEF PartsTotal, Sum
  <2>5. n + 1 \in 1 .. n + 1 /\ (1 .. n + 1) \ {n + 1} = 1 .. n
    BY <2>3
  <2>6. f[n + 1] = k /\ \A i \in 1 .. n : f[i] = e[i]
    <3>1. \A i \in 1 .. n : i \in 1 .. n + 1
      BY <2>3
    <3>2. QED
      BY <2>1, <2>3, <2>5, <3>1
  <2> HIDE DEF f, e
  <2>7. SumFunctionOnSet(f, 1 .. n + 1) = k + SumFunctionOnSet(f, 1 .. n)
    <3>1. SumFunctionOnSet(f, 1 .. n + 1) = f[n + 1] + SumFunctionOnSet(f, (1 .. n + 1) \ {n + 1})
      BY <2>4, <2>5, SumWithout
    <3>2. QED
      BY <2>5, <2>6, <3>1
  <2>8. SumFunctionOnSet(f, 1 .. n) = SumFunctionOnSet(e, 1 .. n) /\ SumFunctionOnSet(e, 1 .. n) \in Nat
    BY <2>4, <2>6, SumSame, SumTyped
  <2>9. PartsTotal(q) = PartsTotal(ps) + k
    BY <2>4, <2>7, <2>8
  <2>10. QED
    BY <2>2, <2>3, <2>9 DEF q
<1>3. QED
  BY <1>1, <1>2

LEMMA OpenIs ==
  ASSUME NEW bal \in [Bills -> Nat]
  PROVE  Open(bal) \in Seq({b \in Bills : bal[b] > 0})
<1>1. Bills \cap {b \in Bills : bal[b] > 0} = {b \in Bills : bal[b] > 0}
  OBVIOUS
<1>2. QED
  BY <1>1, ChosenIs, BillsAssumption DEF Open

(* Laid down bill by bill, the money is never more than there was, and     *)
(* every bill it reaches but the last is settled; where it does not run    *)
(* out, so is the last, and every bill is reached.                         *)
OpenOn(bs, bal) == SumFunctionOnSet([j \in DOMAIN bs |-> bal[bs[j]]], DOMAIN bs)

RunsDown(p, bs, bal, amount) ==
  \E n \in 0 .. Len(bs) :
    /\ DOMAIN p = 1 .. n
    /\ \A i \in 1 .. n : /\ p[i].bill = bs[i] /\ p[i].amt <= bal[bs[i]]
                         /\ i < n => p[i].amt = bal[bs[i]]
    /\ PartsTotal(p) < amount \/ OpenOn(bs, bal) <= amount =>
         n = Len(bs) /\ \A i \in 1 .. n : p[i].amt = bal[bs[i]]

LEMMA LaidDown ==
  ASSUME NEW bal \in [Bills -> Nat], NEW bs \in Seq({b \in Bills : bal[b] > 0}), NEW amount \in Nat
  PROVE  /\ LayDown(bs, bal, amount) \in Seq(Parts) /\ PartsTotal(LayDown(bs, bal, amount)) <= amount
         /\ RunsDown(LayDown(bs, bal, amount), bs, bal, amount)
<1> DEFINE a == [j \in DOMAIN bs |-> bal[bs[j]]]
           Ahead(i) == SumFunctionOnSet(a, 1 .. i - 1)
           D == {j \in DOMAIN bs : Ahead(j) < amount}
           p == LayDown(bs, bal, amount)
<1>1. PICK N \in Nat : N = Len(bs) /\ DOMAIN bs = 1 .. N
  OBVIOUS
<1>2. \A i \in 1 .. N : bs[i] \in Bills /\ bal[bs[i]] \in Nat \ {0} /\ a[i] = bal[bs[i]]
  BY <1>1
<1>3. \A S \in SUBSET (1 .. N) : Summable(a, S)
  <2>1. IsFiniteSet(1 .. N)
    BY FS_Interval
  <2>2. \A S \in SUBSET (1 .. N) : IsFiniteSet(S) /\ \A x \in S : a[x] \in Nat
    BY <1>2, <2>1, FS_Subset
  <2> HIDE DEF a
  <2>3. QED
    BY <2>2 DEF Summable
<1>20. OpenOn(bs, bal) = SumFunctionOnSet(a, 1 .. N)
  BY <1>1 DEF OpenOn
<1> HIDE DEF a
<1>4. Ahead(1) = 0 /\ \A i \in 1 .. N : Ahead(i) \in Nat /\ Ahead(i + 1) = Ahead(i) + a[i]
  <2>1. Ahead(1) = 0
    <3>1. 1 .. 1 - 1 = {}
      OBVIOUS
    <3>2. QED
      BY <3>1, SumOfNone
  <2>2. ASSUME NEW i \in 1 .. N PROVE Ahead(i) \in Nat /\ Ahead(i + 1) = Ahead(i) + a[i]
    <3>1. /\ 1 .. i \in SUBSET (1 .. N) /\ 1 .. i - 1 \in SUBSET (1 .. N)
          /\ i \in 1 .. i /\ (1 .. i) \ {i} = 1 .. i - 1 /\ i + 1 - 1 = i
      OBVIOUS
    <3>2. Summable(a, 1 .. i) /\ Summable(a, 1 .. i - 1)
      BY <1>3, <3>1
    <3>3. SumFunctionOnSet(a, 1 .. i - 1) \in Nat
      BY <3>2, SumTyped
    <3>4. SumFunctionOnSet(a, 1 .. i) = a[i] + SumFunctionOnSet(a, 1 .. i - 1)
      BY <3>1, <3>2, SumWithout
    <3>5. a[i] \in Nat
      BY <1>2
    <3>6. QED
      BY <3>1, <3>3, <3>4, <3>5
  <2>3. QED
    BY <2>1, <2>2
<1>5. p = [i \in D |-> [bill |-> bs[i], amt |-> Least(amount - Ahead(i), bal[bs[i]])]]
  BY DEF LayDown, Sum, a
<1> HIDE DEF p, Ahead
<1>6. ASSUME NEW i \in 1 .. N, i \in D PROVE 1 .. i \subseteq D
  <2> DEFINE G == {k \in 0 .. i : k < i => i - k \in D}
  <2>1. 0 \in G
    BY <1>6
  <2>2. ASSUME NEW k \in 1 .. i, k - 1 \in G PROVE k \in G
    <3>1. CASE k = i
      BY <3>1
    <3>2. CASE k < i
      <4>1. i - (k - 1) \in D /\ i - k \in 1 .. N /\ (i - k) + 1 = i - (k - 1)
        BY <2>2, <3>2
      <4>2. Ahead(i - k) \in Nat /\ Ahead((i - k) + 1) = Ahead(i - k) + a[i - k] /\ a[i - k] \in Nat
        BY <1>2, <1>4, <4>1
      <4>3. Ahead(i - k) < amount
        BY <4>1, <4>2
      <4>4. QED
        BY <1>1, <4>1, <4>3
    <3>3. QED
      BY <3>1, <3>2
  <2> HIDE DEF G
  <2>3. \A k \in 0 .. i : k \in G
    <3>1. i \in Nat
      OBVIOUS
    <3>2. QED
      BY <2>1, <2>2, <3>1, UpTo
  <2>4. ASSUME NEW j \in 1 .. i PROVE j \in D
    <3>1. i - j \in 0 .. i /\ i - j < i /\ i - (i - j) = j
      OBVIOUS
    <3>2. QED
      BY <2>3, <3>1 DEF G
  <2>5. QED
    BY <2>4
<1>7. D \subseteq 1 .. N /\ \A i \in D : i \in 1 .. N /\ Ahead(i) < amount
  BY <1>1
<1> HIDE DEF D
<1>8. PICK n \in 0 .. N : D = 1 .. n
  <2> DEFINE G == {k \in 0 .. N : \E m \in 0 .. k : D \cap (1 .. k) = 1 .. m}
  <2>1. 0 \in G
    <3>1. D \cap (1 .. 0) = 1 .. 0
      OBVIOUS
    <3>2. QED
      BY <3>1
  <2>2. ASSUME NEW k \in 1 .. N, k - 1 \in G PROVE k \in G
    <3>1. PICK m \in 0 .. k - 1 : D \cap (1 .. k - 1) = 1 .. m
      BY <2>2
    <3>2. CASE k \in D
      <4>1. D \cap (1 .. k) = 1 .. k
        BY <1>6, <3>2
      <4>2. QED
        BY <4>1
    <3>3. CASE k \notin D
      <4>1. D \cap (1 .. k) = D \cap (1 .. k - 1)
        BY <3>3
      <4>2. m \in 0 .. k
        OBVIOUS
      <4>3. QED
        BY <3>1, <4>1, <4>2
    <3>4. QED
      BY <3>2, <3>3
  <2> HIDE DEF G
  <2>3. \A i \in 0 .. N : i \in G
    BY <2>1, <2>2, UpTo
  <2>4. PICK m \in 0 .. N : D \cap (1 .. N) = 1 .. m
    <3>1. N \in G
      BY <2>3
    <3>2. QED
      BY <3>1 DEF G
  <2>5. QED
    BY <1>7, <2>4
<1>9. \A i \in 1 .. n : /\ p[i] = [bill |-> bs[i], amt |-> Least(amount - Ahead(i), a[i])]
                        /\ i \in 1 .. N /\ Ahead(i) < amount
  BY <1>2, <1>5, <1>7, <1>8
<1>10. p \in Seq(Parts) /\ DOMAIN p = 1 .. n
  <2>1. \A i \in 1 .. n : p[i] \in Parts
    <3>1. ASSUME NEW i \in 1 .. n PROVE p[i] \in Parts
      <4>1. i \in 1 .. N /\ Ahead(i) < amount /\ p[i] = [bill |-> bs[i], amt |-> Least(amount - Ahead(i), a[i])]
        BY <1>9
      <4>2. Ahead(i) \in Nat /\ a[i] \in Nat \ {0} /\ bs[i] \in Bills
        BY <1>2, <1>4, <4>1
      <4>3. PICK x : x = Least(amount - Ahead(i), a[i])
        OBVIOUS
      <4>4. x \in Nat \ {0}
        BY <4>1, <4>2, <4>3 DEF Least
      <4>5. QED
        BY <4>1, <4>2, <4>3, <4>4 DEF Parts
    <3>2. QED
      BY <3>1
  <2>2. p = [i \in 1 .. n |-> p[i]]
    BY <1>5, <1>8
  <2>3. p \in [1 .. n -> Parts] /\ n \in Nat
    BY <2>1, <2>2
  <2>4. QED
    BY <2>3
<1> DEFINE e == [i \in DOMAIN p |-> p[i].amt]
           Sofar(k) == SumFunctionOnSet(e, 1 .. k)
<1>11. PartsTotal(p) = Sofar(n)
  BY <1>10 DEF PartsTotal, Sum
<1>12. /\ \A k \in 0 .. n : Summable(e, 1 .. k)
       /\ \A i \in 1 .. n : e[i] = Least(amount - Ahead(i), a[i])
  <2>1. Summable(e, 1 .. n)
    BY <1>10, PartsAdd
  <2>2. \A i \in 1 .. n : e[i] = Least(amount - Ahead(i), a[i])
    BY <1>9, <1>10
  <2> HIDE DEF e
  <2>3. \A k \in 0 .. n : 1 .. k \subseteq 1 .. n
    OBVIOUS
  <2>4. QED
    BY <2>1, <2>2, <2>3, FS_Subset DEF Summable
<1> HIDE DEF e
<1>13. Sofar(n) <= amount
  <2> DEFINE G == {k \in 0 .. n : Sofar(k) \in Nat /\ Sofar(k) <= amount /\ (k < N => Sofar(k) <= Ahead(k + 1))}
  <2>1. 0 \in G
    <3>1. 1 .. 0 = {}
      OBVIOUS
    <3>2. Sofar(0) = 0
      BY <3>1, SumOfNone
    <3>3. QED
      BY <1>4, <3>2
  <2>2. ASSUME NEW k \in 1 .. n, k - 1 \in G PROVE k \in G
    <3>1. k \in 1 .. N /\ k - 1 \in 0 .. n /\ k - 1 < N /\ (k - 1) + 1 = k /\ k \in 0 .. n /\ k \in 1 .. k
          /\ (1 .. k) \ {k} = 1 .. k - 1
      OBVIOUS
    <3>2. Sofar(k - 1) \in Nat /\ Sofar(k - 1) <= Ahead(k)
      BY <2>2, <3>1
    <3>3. Sofar(k) = e[k] + Sofar(k - 1)
      <4>1. Summable(e, 1 .. k)
        BY <1>12, <3>1
      <4>2. QED
        BY <3>1, <4>1, SumWithout
    <3>4. e[k] = Least(amount - Ahead(k), a[k]) /\ Ahead(k) < amount /\ Ahead(k) \in Nat /\ a[k] \in Nat
          /\ Ahead(k + 1) = Ahead(k) + a[k]
      BY <1>2, <1>4, <1>9, <1>12, <3>1
    <3> HIDE DEF Sofar
    <3>5. /\ e[k] \in Nat /\ e[k] <= amount - Ahead(k) /\ e[k] <= a[k]
      BY <3>4 DEF Least
    <3>6. /\ Sofar(k) \in Nat /\ Sofar(k) <= amount /\ Sofar(k) <= Ahead(k + 1)
      BY <3>2, <3>3, <3>4, <3>5
    <3>7. QED
      BY <3>1, <3>6
  <2> HIDE DEF G
  <2>3. \A k \in 0 .. n : k \in G
    <3>1. n \in Nat
      OBVIOUS
    <3>2. QED
      BY <2>1, <2>2, <3>1, UpTo
  <2>4. QED
    BY <2>3 DEF G
<1>14. \A i \in 1 .. n : e[i] <= a[i] /\ (i < n => e[i] = a[i])
  <2>1. ASSUME NEW i \in 1 .. n PROVE e[i] <= a[i] /\ (i < n => e[i] = a[i])
    <3>1. i \in 1 .. N /\ Ahead(i) < amount /\ e[i] = Least(amount - Ahead(i), a[i])
      BY <1>9, <1>12
    <3>2. Ahead(i) \in Nat /\ a[i] \in Nat /\ Ahead(i + 1) = Ahead(i) + a[i]
      BY <1>2, <1>4, <3>1
    <3>3. i < n => Ahead(i + 1) < amount
      <4>1. i < n => i + 1 \in 1 .. n
        OBVIOUS
      <4>2. QED
        BY <1>9, <4>1
    <3>4. e[i] = IF amount - Ahead(i) < a[i] THEN amount - Ahead(i) ELSE a[i]
      BY <3>1 DEF Least
    <3>5. i < n => e[i] = a[i]
      BY <3>2, <3>3, <3>4
    <3>6. e[i] <= a[i]
      BY <3>1, <3>2, <3>4
    <3>7. QED
      BY <3>5, <3>6
  <2>2. QED
    BY <2>1
<1>15. \A k \in 0 .. n : k < n => Sofar(k) = Ahead(k + 1)
  <2> DEFINE G == {k \in 0 .. n : k < n => Sofar(k) = Ahead(k + 1)}
  <2>1. 0 \in G
    <3>1. 1 .. 0 = {}
      OBVIOUS
    <3>2. Sofar(0) = 0
      BY <3>1, SumOfNone
    <3>3. QED
      BY <1>4, <3>2
  <2>2. ASSUME NEW k \in 1 .. n, k - 1 \in G PROVE k \in G
    <3>1. SUFFICES ASSUME k < n PROVE Sofar(k) = Ahead(k + 1)
      OBVIOUS
    <3>2. k \in 1 .. N /\ k - 1 \in 0 .. n /\ (k - 1) + 1 = k /\ k \in 0 .. n /\ k \in 1 .. k
          /\ (1 .. k) \ {k} = 1 .. k - 1
      OBVIOUS
    <3>3. Sofar(k - 1) = Ahead(k)
      BY <2>2, <3>1, <3>2
    <3>4. Sofar(k) = e[k] + Sofar(k - 1)
      <4>1. Summable(e, 1 .. k)
        BY <1>12, <3>2
      <4>2. QED
        BY <3>2, <4>1, SumWithout
    <3>5. e[k] = a[k] /\ Ahead(k) \in Nat /\ a[k] \in Nat /\ Ahead(k + 1) = Ahead(k) + a[k]
      BY <1>2, <1>4, <1>14, <3>1, <3>2
    <3> HIDE DEF Sofar
    <3>6. QED
      BY <3>3, <3>4, <3>5
  <2> HIDE DEF G
  <2>3. \A k \in 0 .. n : k \in G
    <3>1. n \in Nat
      OBVIOUS
    <3>2. QED
      BY <2>1, <2>2, <3>1, UpTo
  <2>4. QED
    BY <2>3 DEF G
<1>16. Sofar(n) < amount => n = N /\ \A i \in 1 .. n : e[i] = a[i]
  <2>1. SUFFICES ASSUME Sofar(n) < amount PROVE n = N /\ \A i \in 1 .. n : e[i] = a[i]
    OBVIOUS
  <2>2. CASE n = 0
    <3>1. 1 .. 0 = {}
      OBVIOUS
    <3>2. Sofar(n) = 0
      BY <2>2, <3>1, SumOfNone
    <3>3. 1 \in 1 .. N => 1 \in D
      BY <1>1, <1>4, <2>1, <3>2 DEF D
    <3>4. QED
      BY <1>8, <2>2, <3>3
  <2>3. CASE n # 0
    <3>1. /\ n \in 1 .. n /\ n \in 1 .. N /\ n - 1 \in 0 .. n /\ n - 1 < n /\ (n - 1) + 1 = n
          /\ (1 .. n) \ {n} = 1 .. n - 1
      BY <2>3
    <3>2. Sofar(n) = e[n] + Ahead(n)
      <4>1. Summable(e, 1 .. n)
        BY <1>12, <3>1
      <4>2. Sofar(n) = e[n] + Sofar(n - 1)
        BY <3>1, <4>1, SumWithout
      <4>3. Sofar(n - 1) = Ahead(n)
        BY <1>15, <3>1
      <4>4. QED
        BY <4>2, <4>3
    <3>3. /\ e[n] = Least(amount - Ahead(n), a[n]) /\ Ahead(n) < amount /\ Ahead(n) \in Nat /\ a[n] \in Nat
          /\ Ahead(n + 1) = Ahead(n) + a[n]
      BY <1>2, <1>4, <1>9, <1>12, <3>1
    <3> HIDE DEF Sofar
    <3>4. e[n] = a[n] /\ Ahead(n + 1) < amount
      BY <2>1, <3>2, <3>3 DEF Least
    <3>5. n + 1 \in 1 .. N => n + 1 \in D
      BY <1>1, <3>4 DEF D
    <3>6. n = N
      BY <1>8, <3>5
    <3>7. QED
      BY <1>14, <3>4, <3>6
  <2>4. QED
    BY <2>2, <2>3
<1>17. SumFunctionOnSet(a, 1 .. N) <= amount => n = N /\ \A i \in 1 .. n : e[i] = a[i]
  <2>1. SUFFICES ASSUME SumFunctionOnSet(a, 1 .. N) <= amount PROVE n = N /\ \A i \in 1 .. n : e[i] = a[i]
    OBVIOUS
  <2>2. ASSUME NEW i \in 1 .. N PROVE i \in D /\ Ahead(i) + a[i] <= amount
    <3>1. 1 .. (i + 1) - 1 \in SUBSET (1 .. N)
      OBVIOUS
    <3>2. Ahead(i + 1) <= SumFunctionOnSet(a, 1 .. N)
      <4>1. Summable(a, 1 .. N)
        BY <1>3
      <4>2. QED
        BY <3>1, <4>1, SumOfPart DEF Ahead
    <3>3. Ahead(i) \in Nat /\ a[i] \in Nat \ {0} /\ Ahead(i + 1) = Ahead(i) + a[i]
      BY <1>2, <1>4
    <3>4. SumFunctionOnSet(a, 1 .. N) \in Nat
      BY <1>3, SumTyped
    <3>5. Ahead(i) + a[i] <= amount /\ Ahead(i) < amount
      BY <2>1, <3>2, <3>3, <3>4
    <3>6. QED
      BY <1>1, <3>5 DEF D
  <2>3. n = N
    <3>1. N = 0 \/ N \in 1 .. N
      OBVIOUS
    <3>2. QED
      BY <1>8, <2>2, <3>1
  <2>4. ASSUME NEW i \in 1 .. n PROVE e[i] = a[i]
    <3>1. /\ i \in 1 .. N /\ e[i] = Least(amount - Ahead(i), a[i]) /\ Ahead(i) + a[i] <= amount
          /\ Ahead(i) \in Nat /\ a[i] \in Nat
      BY <1>2, <1>4, <1>9, <1>12, <2>2
    <3>2. QED
      BY <3>1 DEF Least
  <2>5. QED
    BY <2>3, <2>4
<1>18. RunsDown(p, bs, bal, amount)
  <2>1. \A i \in 1 .. n : p[i].bill = bs[i] /\ p[i].amt = e[i] /\ bal[bs[i]] = a[i]
    <3>1. \A i \in 1 .. n : i \in 1 .. N /\ p[i] = [bill |-> bs[i], amt |-> Least(amount - Ahead(i), a[i])]
      BY <1>9
    <3>2. ASSUME NEW i \in 1 .. n PROVE p[i].bill = bs[i] /\ p[i].amt = e[i] /\ bal[bs[i]] = a[i]
      <4>1. PICK x : x = Least(amount - Ahead(i), a[i])
        OBVIOUS
      <4>2. p[i] = [bill |-> bs[i], amt |-> x] /\ e[i] = x
        BY <1>12, <3>1, <4>1
      <4>3. p[i].bill = bs[i] /\ p[i].amt = x
        BY <4>2
      <4>4. QED
        BY <1>2, <3>1, <4>2, <4>3
    <3>3. QED
      BY <3>2
  <2>2. PartsTotal(p) < amount \/ OpenOn(bs, bal) <= amount => n = N /\ \A i \in 1 .. n : e[i] = a[i]
    BY <1>11, <1>16, <1>17, <1>20
  <2>3. n \in 0 .. Len(bs) /\ DOMAIN p = 1 .. n /\ N = Len(bs)
    BY <1>1, <1>10
  <2>4. QED
    BY <1>14, <2>1, <2>2, <2>3 DEF RunsDown
<1>19. QED
  BY <1>10, <1>11, <1>13, <1>18 DEF p

(* There are only so many bills, and what is turned round is still of them.*)
LEMMA BillsFinite == IsFiniteSet(Bills)
<1>1. PICK n \in Nat : n = Len(BillsByDate) /\ DOMAIN BillsByDate = 1 .. n
  BY BillsAssumption
<1>2. IsFiniteSet(1 .. n)
  BY FS_Interval
<1>3. BillsByDate \in [1 .. n -> Bills] /\ \A b \in Bills : \E i \in 1 .. n : BillsByDate[i] = b
  BY <1>1, BillsAssumption
<1>4. BillsByDate \in Surjection(1 .. n, Bills)
  BY <1>3 DEF Surjection
<1>5. QED
  BY <1>2, <1>4, FS_Surjection

LEMMA ReverseIs == ASSUME NEW S, NEW s \in Seq(S) PROVE Reverse(s) \in Seq(S)
<1>1. \A i \in 1 .. Len(s) : (Len(s) - i) + 1 \in 1 .. Len(s)
  OBVIOUS
<1>2. Reverse(s) = [i \in 1 .. Len(s) |-> s[(Len(s) - i) + 1]]
  BY DEF Reverse
<1>3. [i \in 1 .. Len(s) |-> s[(Len(s) - i) + 1]] \in [1 .. Len(s) -> S]
  BY <1>1
<1>4. QED
  BY <1>2, <1>3

(* What somebody typed comes to what they typed, and no more.              *)
AsTyped(split, fits) == [i \in DOMAIN fits |-> [bill |-> fits[i], amt |-> split[fits[i]]]]

LEMMA TypedIs ==
  ASSUME NEW split \in [Bills -> Nat], NEW fits \in Seq({b \in Bills : split[b] > 0}), Once(fits)
  PROVE  AsTyped(split, fits) \in Seq(Parts) /\ PartsTotal(AsTyped(split, fits)) <= Sum(split, Bills)
<1> DEFINE p == AsTyped(split, fits)
           e == [i \in DOMAIN p |-> p[i].amt]
           N == Len(fits)
<1>1. N \in Nat /\ DOMAIN fits = 1 .. N /\ \A i \in 1 .. N : fits[i] \in Bills /\ split[fits[i]] \in Nat \ {0}
  OBVIOUS
<1>2. p \in Seq(Parts) /\ DOMAIN p = 1 .. N
  <2>1. \A i \in 1 .. N : [bill |-> fits[i], amt |-> split[fits[i]]] \in Parts
    BY <1>1 DEF Parts
  <2> HIDE DEF N
  <2>2. p \in [1 .. N -> Parts] /\ DOMAIN p = 1 .. N
    BY <1>1, <2>1 DEF AsTyped
  <2> HIDE DEF p
  <2>3. QED
    BY <1>1, <2>2
<1>3. \A i \in 1 .. N : e[i] = split[fits[i]]
  BY <1>1, <1>2 DEF AsTyped
<1>4. Summable(e, 1 .. N) /\ PartsTotal(p) = SumFunctionOnSet(e, 1 .. N)
  BY <1>2, PartsAdd DEF PartsTotal, Sum
<1>5. Summable(split, Bills)
  BY BillsFinite DEF Summable
<1> HIDE DEF e, p, N
<1>6. Renames(fits, 1 .. N) /\ Image(fits, 1 .. N) \in SUBSET Bills
  <2>1. Renames(fits, 1 .. N)
    BY <1>1 DEF Renames, Once
  <2>2. \A i \in 1 .. N : fits[i] \in Bills
    BY <1>1
  <2>3. QED
    BY <2>1, <2>2 DEF Image
<1>7. SumFunctionOnSet(split, Image(fits, 1 .. N)) = SumFunctionOnSet(e, 1 .. N)
  <2>1. Summable(e, 1 .. N) /\ Renames(fits, 1 .. N) /\ \A i \in 1 .. N : split[fits[i]] = e[i]
    BY <1>3, <1>4, <1>6
  <2>2. QED
    BY <2>1, SumRenamed
<1>8. SumFunctionOnSet(split, Image(fits, 1 .. N)) <= SumFunctionOnSet(split, Bills)
  BY <1>5, <1>6, SumOfPart
<1>9. QED
  BY <1>2, <1>4, <1>7, <1>8 DEF Sum, p

(* Against bills goes no more than there is, unless the split is refused.  *)
LEMMA AgainstBillsIs ==
  ASSUME NEW bal \in [Bills -> Nat], NEW ins \in Instructions, NEW amount \in Nat
  PROVE  LET laid == AgainstBills(bal, ins, amount)
         IN laid.parts \in Seq(Parts)
            /\ (laid.ok \/ ins.mode # "custom" => PartsTotal(laid.parts) <= amount)
<1> DEFINE laid == AgainstBills(bal, ins, amount)
           Live == {b \in Bills : bal[b] > 0}
<1>1. CASE ins.mode = "auto"
  <2>1. Open(bal) \in Seq(Live) /\ Reverse(Open(bal)) \in Seq(Live)
    BY OpenIs, ReverseIs
  <2>2. PICK order \in Seq(Live) : laid.parts = LayDown(order, bal, amount)
    BY <1>1, <2>1 DEF AgainstBills
  <2>3. QED
    BY <2>2, LaidDown
<1>2. CASE ins.mode = "settle"
  <2>1. Chosen(Open(bal), ins.bills) \in Seq(Live \cap ins.bills)
    <3>1. Open(bal) \in Seq(Live)
      BY OpenIs
    <3> HIDE DEF Live
    <3>2. QED
      BY <3>1, ChosenIs
  <2>2. Chosen(Open(bal), ins.bills) \in Seq(Live)
    BY <2>1
  <2>3. laid.parts = LayDown(Chosen(Open(bal), ins.bills), bal, amount)
    BY <1>2 DEF AgainstBills
  <2>4. QED
    BY <2>2, <2>3, LaidDown
<1>3. CASE ins.mode = "custom"
  <2> DEFINE T == {b \in Bills : ins.split[b] > 0 /\ ins.split[b] <= bal[b]}
             fits == Chosen(BillsByDate, T)
             Asked == {b \in Bills : ins.split[b] > 0}
  <2>1. ins.split \in [Bills -> Nat]
    BY <1>3 DEF Instructions
  <2>2. fits \in Seq(Bills \cap T) /\ Once(fits)
    <3>1. BillsByDate \in Seq(Bills) /\ Once(BillsByDate)
      BY BillsAssumption DEF Once
    <3> HIDE DEF T
    <3>2. QED
      BY <3>1, ChosenIs
  <2>3. fits \in Seq(Asked)
    <3>1. Bills \cap T \subseteq Asked
      OBVIOUS
    <3> HIDE DEF T, Asked, fits
    <3>2. QED
      BY <2>2, <3>1
  <2>4. laid.parts = AsTyped(ins.split, fits)
    BY <1>3 DEF AgainstBills, AsTyped
  <2>5. laid.ok => Sum(ins.split, Bills) <= amount
    BY <1>3 DEF AgainstBills
  <2>6. laid.parts \in Seq(Parts) /\ PartsTotal(laid.parts) <= Sum(ins.split, Bills)
    <3> HIDE DEF fits
    <3>1. QED
      BY <2>1, <2>2, <2>3, <2>4, TypedIs
  <2>7. Sum(ins.split, Bills) \in Nat /\ PartsTotal(laid.parts) \in Nat
    <3>1. Summable(ins.split, Bills)
      BY <2>1, BillsFinite DEF Summable
    <3>2. QED
      BY <2>6, <3>1, SumTyped, PartsAdd DEF Sum
  <2> HIDE DEF laid, fits
  <2>8. laid.ok => PartsTotal(laid.parts) <= amount
    BY <2>5, <2>6, <2>7
  <2>9. QED
    BY <1>3, <2>6, <2>8 DEF laid
<1>4. QED
  BY <1>1, <1>2, <1>3 DEF Instructions

(* A split that may be saved comes to what arrived, on any figures open on
   the bills, any instruction and any amount: `allocate` of allocation.ts,
   which hands no rupee out twice and loses none.                          *)
THEOREM SplitsAddUp ==
  ASSUME NEW bal \in [Bills -> Nat], NEW ins \in Instructions, NEW amount \in Nat
  PROVE  LET split == Allocate(bal, ins, amount)
         IN split.parts \in Seq(Parts) /\ (split.ok => PartsTotal(split.parts) = amount)
<1> DEFINE laid == AgainstBills(bal, ins, amount)
           rest == Remainder(laid.parts, amount)
           split == Allocate(bal, ins, amount)
<1>1. laid.parts \in Seq(Parts) /\ (laid.ok => PartsTotal(laid.parts) <= amount)
  BY AgainstBillsIs
<1>2. PartsTotal(laid.parts) \in Nat
  BY <1>1, PartsAdd
<1>3. rest \in Nat /\ (PartsTotal(laid.parts) <= amount => PartsTotal(laid.parts) + rest = amount)
  BY <1>2 DEF Remainder
<1>4. split.parts = laid.parts \o OnAccount(rest) /\ split.ok = laid.ok
  BY DEF Allocate
<1> HIDE DEF laid, rest, split
<1>5. split.parts \in Seq(Parts) /\ PartsTotal(split.parts) = PartsTotal(laid.parts) + rest
  BY <1>1, <1>3, <1>4, OneMorePart
<1>6. split.parts \in Seq(Parts) /\ (split.ok => PartsTotal(split.parts) = amount)
  BY <1>1, <1>3, <1>4, <1>5
<1>7. QED
  BY <1>6 DEF split

(***************************************************************************)
(* Where the money of a split goes.                                        *)
(***************************************************************************)
(* What is chosen keeps its order, and nothing that was asked for is left. *)
InOrderOf(c, s) ==
  \A i, j \in DOMAIN c : i < j => \E m, n \in DOMAIN s : m < n /\ s[m] = c[i] /\ s[n] = c[j]
HasAll(c, s, T) == \A m \in DOMAIN s : s[m] \in T => \E j \in DOMAIN c : c[j] = s[m]

SiftedFrom(q, i, s) == \A j \in DOMAIN q : \E m \in 1 .. i : s[m] = q[j]
SiftedInOrder(q, i, s) ==
  \A a, b \in DOMAIN q : a < b => \E m, n \in 1 .. i : m < n /\ s[m] = q[a] /\ s[n] = q[b]
SiftedAll(q, i, s, T) == \A m \in 1 .. i : s[m] \in T => \E j \in DOMAIN q : q[j] = s[m]

LEMMA ChosenInOrder ==
  ASSUME NEW S, NEW s \in Seq(S), NEW T
  PROVE  InOrderOf(Chosen(s, T), s) /\ HasAll(Chosen(s, T), s, T)
<1> DEFINE k == Sifting(s, T)
           Is(i) == SiftedFrom(k[i], i, s) /\ SiftedInOrder(k[i], i, s) /\ SiftedAll(k[i], i, s, T)
           G == {i \in 0 .. Len(s) : Is(i)}
<1>1. k \in [0 .. Len(s) -> Seq(S \cap T)] /\ Sifts(k, Len(s), s, T) /\ Len(s) \in Nat
  <2>1. Len(s) \in Nat
    OBVIOUS
  <2>2. QED
    BY <2>1, SiftingIs
<1>2. Chosen(s, T) = k[Len(s)]
  BY ChosenIsSifted
<1> HIDE DEF k
<1>3. 0 \in G
  BY <1>1 DEF Sifts, SiftedFrom, SiftedInOrder, SiftedAll
<1>4. ASSUME NEW i \in 1 .. Len(s), i - 1 \in G PROVE i \in G
  <2>1. Is(i - 1) /\ i - 1 \in 0 .. Len(s) /\ i \in 0 .. Len(s)
    BY <1>4
  <2>2. PICK q \in Seq(S \cap T) : q = k[i - 1]
    BY <1>1, <2>1
  <2>3. SiftedFrom(q, i - 1, s) /\ SiftedInOrder(q, i - 1, s) /\ SiftedAll(q, i - 1, s, T)
    BY <2>1, <2>2
  <2>4. \A m \in 1 .. i - 1 : m \in 1 .. i /\ m < i
    OBVIOUS
  <2>5. CASE s[i] \notin T
    <3>1. k[i] = q
      BY <1>1, <2>2, <2>5 DEF Sifts
    <3>2. SiftedFrom(q, i, s)
      BY <2>3, <2>4 DEF SiftedFrom
    <3>5. SiftedInOrder(q, i, s)
      <4>1. ASSUME NEW a \in DOMAIN q, NEW b \in DOMAIN q, a < b
            PROVE  \E m, n \in 1 .. i : m < n /\ s[m] = q[a] /\ s[n] = q[b]
        <5>1. PICK m \in 1 .. i - 1, n \in 1 .. i - 1 : m < n /\ s[m] = q[a] /\ s[n] = q[b]
          BY <2>3, <4>1 DEF SiftedInOrder
        <5>2. m \in 1 .. i /\ n \in 1 .. i
          BY <2>4
        <5>3. QED
          BY <5>1, <5>2
      <4>2. QED
        BY <4>1 DEF SiftedInOrder
    <3>3. SiftedAll(q, i, s, T)
      <4>1. \A m \in 1 .. i : m \in 1 .. i - 1 \/ m = i
        OBVIOUS
      <4>2. QED
        BY <2>3, <2>5, <4>1 DEF SiftedAll
    <3>4. QED
      BY <2>1, <3>1, <3>2, <3>3, <3>5
  <2>6. CASE s[i] \in T
    <3>1. k[i] = Append(q, s[i]) /\ s[i] \in S \cap T
      <4>1. s[i] \in S
        OBVIOUS
      <4>2. QED
        BY <1>1, <2>2, <2>6, <4>1 DEF Sifts
    <3>2. PICK h : h = Append(q, s[i]) /\ Len(q) \in Nat /\ DOMAIN q = 1 .. Len(q) /\ DOMAIN h = 1 .. Len(q) + 1
                   /\ (\A j \in 1 .. Len(q) : h[j] = q[j]) /\ h[Len(q) + 1] = s[i]
      <4>1. Len(q) \in Nat /\ DOMAIN q = 1 .. Len(q)
        OBVIOUS
      <4>2. \A x \in S \cap T : /\ DOMAIN Append(q, x) = 1 .. Len(q) + 1
                                /\ \A j \in 1 .. Len(q) : Append(q, x)[j] = q[j]
                                /\ Append(q, x)[Len(q) + 1] = x
        OBVIOUS
      <4>3. QED
        BY <3>1, <4>1, <4>2
    <3>3. /\ \A j \in DOMAIN h : j \in 1 .. Len(q) \/ j = Len(q) + 1
          /\ \A j \in 1 .. Len(q) : j \in DOMAIN h
          /\ Len(q) + 1 \in DOMAIN h
      BY <3>2
    <3>4. i \in 1 .. i
      OBVIOUS
    <3>5. SiftedFrom(h, i, s)
      <4>1. ASSUME NEW j \in DOMAIN h PROVE \E m \in 1 .. i : s[m] = h[j]
        <5>1. CASE j \in 1 .. Len(q)
          BY <2>3, <2>4, <3>2, <5>1 DEF SiftedFrom
        <5>2. CASE j = Len(q) + 1
          BY <3>2, <3>4, <5>2
        <5>3. QED
          BY <3>3, <5>1, <5>2
      <4>2. QED
        BY <4>1 DEF SiftedFrom
    <3>6. SiftedInOrder(h, i, s)
      <4>1. ASSUME NEW a \in DOMAIN h, NEW b \in DOMAIN h, a < b
            PROVE  \E m, n \in 1 .. i : m < n /\ s[m] = h[a] /\ s[n] = h[b]
        <5>1. a \in 1 .. Len(q)
          BY <3>2, <4>1
        <5>2. CASE b \in 1 .. Len(q)
          <6>1. PICK m \in 1 .. i - 1, n \in 1 .. i - 1 : m < n /\ s[m] = q[a] /\ s[n] = q[b]
            BY <2>3, <3>2, <4>1, <5>1, <5>2 DEF SiftedInOrder
          <6>2. m \in 1 .. i /\ n \in 1 .. i /\ h[a] = q[a] /\ h[b] = q[b]
            BY <2>4, <3>2, <5>1, <5>2
          <6>3. QED
            BY <6>1, <6>2
        <5>3. CASE b = Len(q) + 1
          <6>1. PICK m \in 1 .. i - 1 : s[m] = q[a]
            BY <2>3, <3>2, <5>1 DEF SiftedFrom
          <6>2. m \in 1 .. i /\ m < i /\ s[m] = h[a] /\ s[i] = h[b]
            BY <2>4, <3>2, <5>1, <5>3, <6>1
          <6>3. QED
            BY <3>4, <6>2
        <5>4. QED
          BY <3>3, <5>2, <5>3
      <4>2. QED
        BY <4>1 DEF SiftedInOrder
    <3>7. SiftedAll(h, i, s, T)
      <4>1. ASSUME NEW m \in 1 .. i, s[m] \in T PROVE \E j \in DOMAIN h : h[j] = s[m]
        <5>1. CASE m = i
          BY <3>2, <3>3, <5>1
        <5>2. CASE m # i
          <6>1. m \in 1 .. i - 1
            BY <5>2
          <6>2. PICK j \in DOMAIN q : q[j] = s[m]
            BY <2>3, <4>1, <6>1 DEF SiftedAll
          <6>3. QED
            BY <3>2, <3>3, <6>2
        <5>3. QED
          BY <5>1, <5>2
      <4>2. QED
        BY <4>1 DEF SiftedAll
    <3>8. k[i] = h
      BY <3>1, <3>2
    <3>9. QED
      BY <2>1, <3>5, <3>6, <3>7, <3>8
  <2>7. QED
    BY <2>5, <2>6
<1> HIDE DEF G
<1>5. \A i \in 0 .. Len(s) : i \in G
  BY <1>1, <1>3, <1>4, UpTo
<1>6. Is(Len(s)) /\ DOMAIN s = 1 .. Len(s)
  BY <1>1, <1>5 DEF G
<1>7. QED
  BY <1>2, <1>6 DEF InOrderOf, HasAll, SiftedInOrder, SiftedAll

(* Turned round, the last come first.                                      *)
LEMMA ReverseTurns ==
  ASSUME NEW S, NEW s \in Seq(S)
  PROVE  /\ DOMAIN Reverse(s) = 1 .. Len(s) /\ DOMAIN s = 1 .. Len(s) /\ Len(s) \in Nat
         /\ \A i \in 1 .. Len(s) : (Len(s) - i) + 1 \in 1 .. Len(s) /\ Reverse(s)[i] = s[(Len(s) - i) + 1]
<1>1. \A i \in 1 .. Len(s) : (Len(s) - i) + 1 \in 1 .. Len(s)
  OBVIOUS
<1>2. Reverse(s) = [i \in 1 .. Len(s) |-> s[(Len(s) - i) + 1]]
  BY DEF Reverse
<1>3. QED
  BY <1>1, <1>2

(* Where no bill is on two lines, what is laid against it is its line.     *)
OneLineEach(ps) == \A i, j \in DOMAIN ps : ps[i].bill = ps[j].bill => i = j

LEMMA AgainstIs ==
  ASSUME NEW ps \in Seq(Parts), OneLineEach(ps)
  PROVE  /\ \A i \in DOMAIN ps : Against(ps, ps[i].bill) = ps[i].amt
         /\ \A b : (\A i \in DOMAIN ps : ps[i].bill # b) => Against(ps, b) = 0
<1> DEFINE D == DOMAIN ps
           f(b) == [i \in D |-> IF ps[i].bill = b THEN ps[i].amt ELSE 0]
<1>1. IsFiniteSet(D) /\ \A i \in D : ps[i] \in Parts /\ ps[i].amt \in Nat
  <2>1. D = 1 .. Len(ps) /\ Len(ps) \in Nat /\ \A i \in D : ps[i] \in Parts
    OBVIOUS
  <2>2. IsFiniteSet(1 .. Len(ps))
    BY <2>1, FS_Interval
  <2>3. QED
    BY <2>1, <2>2 DEF Parts
<1>2. ASSUME NEW i \in D PROVE Against(ps, ps[i].bill) = ps[i].amt
  <2>1. PICK b : b = ps[i].bill
    OBVIOUS
  <2>2. Summable(f(b), D)
    BY <1>1 DEF Summable
  <2>3. IsFiniteSet(D \ {i}) /\ \A j \in D \ {i} : f(b)[j] = 0
    BY <1>1, <2>1, FS_RemoveElement DEF OneLineEach
  <2>4. f(b)[i] = ps[i].amt
    BY <2>1
  <2> HIDE DEF f
  <2>5. SumFunctionOnSet(f(b), D \ {i}) = 0
    BY <2>3, SumOfZeros
  <2>6. SumFunctionOnSet(f(b), D) = f(b)[i] + SumFunctionOnSet(f(b), D \ {i})
    BY <2>2, SumWithout
  <2>7. SumFunctionOnSet(f(b), D) = ps[i].amt
    BY <1>1, <2>4, <2>5, <2>6
  <2>8. QED
    BY <2>1, <2>7 DEF Against, Sum, f
<1>3. ASSUME NEW b, \A i \in D : ps[i].bill # b PROVE Against(ps, b) = 0
  <2>1. \A i \in D : f(b)[i] = 0
    BY <1>3
  <2>2. SumFunctionOnSet(f(b), D) = 0
    BY <1>1, <2>1, SumOfZeros
  <2>3. QED
    BY <2>2 DEF Against, Sum
<1>4. QED
  BY <1>2, <1>3

(* Bill by bill and on account, it comes to what its lines come to.        *)
LEMMA AgainstAdds ==
  ASSUME NEW ps \in Seq(Parts), OneLineEach(ps)
  PROVE  /\ \A b : Against(ps, b) \in Nat
         /\ Against(ps, NoBill) + Sum([b \in Bills |-> Against(ps, b)], Bills) = PartsTotal(ps)
<1> DEFINE D == DOMAIN ps
           e == [i \in D |-> ps[i].amt]
           g == [i \in D |-> ps[i].bill]
           All == Bills \union {NoBill}
           h == [b \in All |-> Against(ps, b)]
<1>1. Summable(e, D) /\ PartsTotal(ps) = SumFunctionOnSet(e, D)
  BY PartsAdd DEF PartsTotal, Sum
<1>2. \A i \in D : ps[i].amt \in Nat /\ ps[i].bill \in All
  <2>1. \A i \in D : ps[i] \in Parts
    OBVIOUS
  <2>2. QED
    BY <2>1 DEF Parts
<1>3. ASSUME NEW b PROVE Against(ps, b) \in Nat
  <2>1. CASE \E i \in D : ps[i].bill = b
    BY <1>2, <2>1, AgainstIs
  <2>2. CASE \A i \in D : ps[i].bill # b
    BY <2>2, AgainstIs
  <2>3. QED
    BY <2>1, <2>2
<1>4. Renames(g, D) /\ (\A i \in D : h[g[i]] = e[i]) /\ Image(g, D) \in SUBSET All
  BY <1>2, AgainstIs DEF OneLineEach, Renames, Image
<1>5. Summable(h, All) /\ IsFiniteSet(All)
  <2>1. IsFiniteSet(All)
    BY BillsFinite, FS_AddElement
  <2>2. QED
    BY <1>3, <2>1 DEF Summable
<1>6. \A b \in All \ Image(g, D) : h[b] = 0
  BY AgainstIs DEF Image
<1>7. h[NoBill] = Against(ps, NoBill) /\ NoBill \in All /\ All \ {NoBill} = Bills /\ \A b \in Bills : h[b] = Against(ps, b)
  BY BillsAssumption
<1>8. Summable(h, Bills)
  BY <1>5, <1>7, BillsFinite DEF Summable
<1> DEFINE m == [b \in Bills |-> Against(ps, b)]
<1>9. \A b \in Bills : m[b] = h[b]
  BY <1>7
<1> HIDE DEF e, g, h, D, All, m
<1>10. SumFunctionOnSet(h, Image(g, D)) = SumFunctionOnSet(e, D)
  BY <1>1, <1>4, SumRenamed
<1>11. SumFunctionOnSet(h, All) = SumFunctionOnSet(h, Image(g, D)) + SumFunctionOnSet(h, All \ Image(g, D))
  BY <1>4, <1>5, SumSplit
<1>12. SumFunctionOnSet(h, All \ Image(g, D)) = 0
  <2>1. IsFiniteSet(All \ Image(g, D))
    BY <1>5, FS_Subset
  <2>2. QED
    BY <1>6, <2>1, SumOfZeros
<1>13. SumFunctionOnSet(h, All) = h[NoBill] + SumFunctionOnSet(h, Bills)
  BY <1>5, <1>7, SumWithout
<1>14. SumFunctionOnSet(m, Bills) = SumFunctionOnSet(h, Bills)
  BY <1>8, <1>9, SumSame
<1>15. SumFunctionOnSet(e, D) \in Nat
  BY <1>1, SumTyped
<1>16. Against(ps, NoBill) + SumFunctionOnSet(m, Bills) = PartsTotal(ps)
  BY <1>1, <1>7, <1>10, <1>11, <1>12, <1>13, <1>14, <1>15
<1>17. QED
  BY <1>3, <1>16 DEF Sum, m

(* What is left over goes on one line more, and disturbs no bill's.        *)
LEMMA OneLineMore ==
  ASSUME NEW ps \in Seq(Parts), OneLineEach(ps), \A i \in DOMAIN ps : ps[i].bill \in Bills, NEW k \in Nat
  PROVE  LET q == ps \o OnAccount(k)
         IN /\ OneLineEach(q)
            /\ Against(q, NoBill) = k
            /\ \A b \in Bills : Against(q, b) = Against(ps, b)
<1>1. CASE k = 0
  <2>1. ps \o OnAccount(k) = ps
    BY <1>1 DEF OnAccount
  <2>2. \A i \in DOMAIN ps : ps[i].bill # NoBill
    BY BillsAssumption
  <2>3. Against(ps, NoBill) = 0
    BY <2>2, AgainstIs
  <2>4. PICK q : q = ps \o OnAccount(k)
    OBVIOUS
  <2>5. q = ps
    BY <2>1, <2>4
  <2>6. OneLineEach(q) /\ Against(q, NoBill) = k /\ \A b \in Bills : Against(q, b) = Against(ps, b)
    BY <1>1, <2>3, <2>5
  <2>7. QED
    BY <2>4, <2>6
<1>2. CASE k # 0
  <2> DEFINE x == [bill |-> NoBill, amt |-> k]
             n == Len(ps)
             q == Append(ps, x)
  <2>1. x \in Parts /\ x.amt = k /\ x.bill = NoBill
    BY <1>2 DEF Parts
  <2>2. ps \o OnAccount(k) = q
    BY <1>2 DEF OnAccount
  <2> HIDE DEF x
  <2>3. /\ q \in Seq(Parts) /\ n \in Nat
        /\ DOMAIN ps = 1 .. n /\ DOMAIN q = 1 .. n + 1
        /\ (\A i \in 1 .. n : q[i] = ps[i]) /\ q[n + 1] = x
    BY <2>1
  <2> HIDE DEF q, n
  <2>4. /\ \A i \in 1 .. n + 1 : i \in 1 .. n \/ i = n + 1
        /\ \A i \in 1 .. n : i \in 1 .. n + 1
        /\ n + 1 \in 1 .. n + 1
    BY <2>3
  <2>5. /\ \A i \in 1 .. n : q[i].bill = ps[i].bill /\ q[i].amt = ps[i].amt /\ q[i].bill # NoBill
        /\ q[n + 1].bill = NoBill /\ q[n + 1].amt = k
    BY <2>1, <2>3, BillsAssumption
  <2>6. OneLineEach(q)
    <3>1. ASSUME NEW i \in 1 .. n + 1, NEW j \in 1 .. n + 1, q[i].bill = q[j].bill PROVE i = j
      <4>1. CASE i \in 1 .. n /\ j \in 1 .. n
        BY <2>3, <2>5, <3>1, <4>1 DEF OneLineEach
      <4>2. CASE ~(i \in 1 .. n /\ j \in 1 .. n)
        BY <2>4, <2>5, <3>1, <4>2
      <4>3. QED
        BY <4>1, <4>2
    <3>2. QED
      BY <2>3, <3>1 DEF OneLineEach
  <2>7. \A i \in 1 .. n + 1 : Against(q, q[i].bill) = q[i].amt
    BY <2>3, <2>6, AgainstIs
  <2>8. Against(q, NoBill) = k
    BY <2>4, <2>5, <2>7
  <2>9. ASSUME NEW b \in Bills PROVE Against(q, b) = Against(ps, b)
    <3>1. CASE \E i \in 1 .. n : ps[i].bill = b
      <4>1. PICK i \in 1 .. n : ps[i].bill = b
        BY <3>1
      <4>2. Against(ps, b) = ps[i].amt
        BY <2>3, <4>1, AgainstIs
      <4>3. Against(q, b) = q[i].amt
        BY <2>4, <2>5, <2>7, <4>1
      <4>4. QED
        BY <2>5, <4>2, <4>3
    <3>2. CASE \A i \in 1 .. n : ps[i].bill # b
      <4>1. Against(ps, b) = 0
        BY <2>3, <3>2, AgainstIs
      <4>2. \A i \in 1 .. n + 1 : q[i].bill # b
        BY <2>4, <2>5, <3>2, BillsAssumption
      <4>3. Against(q, b) = 0
        BY <2>3, <2>6, <4>2, AgainstIs
      <4>4. QED
        BY <4>1, <4>3
    <3>3. QED
      BY <3>1, <3>2
  <2>10. QED
    BY <2>2, <2>6, <2>8, <2>9
<1>3. QED
  BY <1>1, <1>2

(* Laid down a list, each of its bills gets what its place gets, and no    *)
(* other bill gets anything.                                               *)
LEMMA RunsDownPays ==
  ASSUME NEW bal \in [Bills -> Nat], NEW bs \in Seq({b \in Bills : bal[b] > 0}), Once(bs),
         NEW amount \in Nat, NEW p \in Seq(Parts), RunsDown(p, bs, bal, amount)
  PROVE  /\ OneLineEach(p) /\ \A i \in DOMAIN p : p[i].bill \in Bills
         /\ \A b \in Bills : Against(p, b) <= bal[b]
         /\ \A b \in Bills : (\A i \in DOMAIN bs : bs[i] # b) => Against(p, b) = 0
         /\ \A i, j \in DOMAIN bs : i < j /\ Against(p, bs[j]) > 0 => Against(p, bs[i]) = bal[bs[i]]
         /\ PartsTotal(p) < amount \/ OpenOn(bs, bal) <= amount =>
              \A i \in DOMAIN bs : Against(p, bs[i]) = bal[bs[i]]
<1>1. PICK N \in Nat : N = Len(bs) /\ DOMAIN bs = 1 .. N
  OBVIOUS
<1>2. \A i \in 1 .. N : bs[i] \in Bills /\ bal[bs[i]] \in Nat
  BY <1>1
<1>3. PICK n \in 0 .. N :
        /\ DOMAIN p = 1 .. n
        /\ \A i \in 1 .. n : /\ p[i].bill = bs[i] /\ p[i].amt <= bal[bs[i]]
                             /\ i < n => p[i].amt = bal[bs[i]]
        /\ PartsTotal(p) < amount \/ OpenOn(bs, bal) <= amount =>
             n = N /\ \A i \in 1 .. n : p[i].amt = bal[bs[i]]
  BY <1>1 DEF RunsDown
<1>4. \A i \in 1 .. n : i \in 1 .. N
  OBVIOUS
<1>5. OneLineEach(p)
  BY <1>1, <1>3, <1>4 DEF OneLineEach, Once
<1>6. \A i \in 1 .. n : Against(p, bs[i]) = p[i].amt
  BY <1>3, <1>5, AgainstIs
<1>7. ASSUME NEW b, \A i \in 1 .. n : bs[i] # b PROVE Against(p, b) = 0
  <2>1. \A i \in DOMAIN p : p[i].bill # b
    BY <1>3, <1>7
  <2>2. QED
    BY <1>5, <2>1, AgainstIs
<1>8. ASSUME NEW b \in Bills PROVE Against(p, b) <= bal[b]
  <2>1. CASE \E i \in 1 .. n : bs[i] = b
    BY <1>3, <1>6, <2>1
  <2>2. CASE \A i \in 1 .. n : bs[i] # b
    <3>1. Against(p, b) = 0
      BY <1>7, <2>2
    <3>2. bal[b] \in Nat
      OBVIOUS
    <3>3. QED
      BY <3>1, <3>2
  <2>3. QED
    BY <2>1, <2>2
<1>9. \A b \in Bills : (\A i \in DOMAIN bs : bs[i] # b) => Against(p, b) = 0
  BY <1>1, <1>4, <1>7
<1>10. ASSUME NEW i \in 1 .. N, NEW j \in 1 .. N, i < j, Against(p, bs[j]) > 0
       PROVE  Against(p, bs[i]) = bal[bs[i]]
  <2>1. j \in 1 .. n
    <3>1. SUFFICES ASSUME j \notin 1 .. n PROVE FALSE
      OBVIOUS
    <3>2. \A k \in 1 .. n : bs[k] # bs[j]
      BY <1>1, <1>4, <3>1 DEF Once
    <3>3. Against(p, bs[j]) = 0
      BY <1>7, <3>2
    <3>4. QED
      BY <1>10, <3>3
  <2>2. i \in 1 .. n /\ i < n
    BY <1>10, <2>1
  <2>3. QED
    BY <1>3, <1>6, <2>2
<1>11. PartsTotal(p) < amount \/ OpenOn(bs, bal) <= amount => \A i \in 1 .. N : Against(p, bs[i]) = bal[bs[i]]
  BY <1>3, <1>6
<1>12. \A i \in DOMAIN p : p[i].bill \in Bills
  BY <1>2, <1>3, <1>4
<1>13. QED
  BY <1>1, <1>5, <1>8, <1>9, <1>10, <1>11, <1>12

(* Down the book from either end, every bill with something open has a     *)
(* place, and a bill that stands in front of another has the earlier one.  *)
BookFrom(bal, end) == IF end = "newest" THEN Reverse(Open(bal)) ELSE Open(bal)
Fronts(a, b, end) == IF end = "newest" THEN Older(b, a) ELSE Older(a, b)

IsBook(s, bal, end) ==
  /\ s \in Seq({b \in Bills : bal[b] > 0}) /\ Once(s)
  /\ \A b \in Bills : bal[b] > 0 => \E i \in DOMAIN s : s[i] = b
  /\ \A i, j \in DOMAIN s : Fronts(s[i], s[j], end) => i < j

LEMMA BookIs ==
  ASSUME NEW bal \in [Bills -> Nat], NEW end
  PROVE  IsBook(BookFrom(bal, end), bal, end)
<1> DEFINE Live == {b \in Bills : bal[b] > 0}
           o == Open(bal)
<1>1. o \in Seq(Live)
  BY OpenIs
<1>2. Once(o) /\ InOrderOf(o, BillsByDate) /\ HasAll(o, BillsByDate, Live)
  <2>1. BillsByDate \in Seq(Bills) /\ Once(BillsByDate)
    BY BillsAssumption DEF Once
  <2>2. o = Chosen(BillsByDate, Live)
    BY DEF Open
  <2> HIDE DEF o, Live
  <2>3. QED
    BY <2>1, <2>2, ChosenIs, ChosenInOrder
<1>3. \A b \in Live : \E i \in DOMAIN o : o[i] = b
  <2>1. ASSUME NEW b \in Live PROVE \E i \in DOMAIN o : o[i] = b
    <3>1. PICK m \in DOMAIN BillsByDate : BillsByDate[m] = b
      BY BillsAssumption
    <3>2. QED
      BY <1>2, <2>1, <3>1 DEF HasAll
  <2>2. QED
    BY <2>1
<1>4. PICK N \in Nat : N = Len(o) /\ DOMAIN o = 1 .. N
  BY <1>1
<1>5. ASSUME NEW i \in 1 .. N, NEW j \in 1 .. N, Older(o[i], o[j]) PROVE i < j
  <2>1. PICK m \in DOMAIN BillsByDate, n \in DOMAIN BillsByDate :
          m < n /\ BillsByDate[m] = o[i] /\ BillsByDate[n] = o[j]
    BY <1>5 DEF Older
  <2>2. DOMAIN BillsByDate \subseteq Nat
    BY BillsAssumption
  <2>3. o[i] # o[j]
    <3>1. o[i] = o[j] => m = n
      BY <2>1, BillsAssumption
    <3>2. QED
      BY <2>1, <2>2, <3>1
  <2>4. ASSUME j < i PROVE FALSE
    <3>1. PICK x \in DOMAIN BillsByDate, y \in DOMAIN BillsByDate :
            x < y /\ BillsByDate[x] = o[j] /\ BillsByDate[y] = o[i]
      BY <1>2, <1>4, <2>4 DEF InOrderOf
    <3>2. x = n /\ y = m
      BY <2>1, <3>1, BillsAssumption
    <3>3. QED
      BY <2>1, <2>2, <3>1, <3>2
  <2>5. i # j
    BY <2>3
  <2>6. QED
    BY <2>4, <2>5
<1>6. CASE end # "newest"
  <2>1. BookFrom(bal, end) = o
    BY <1>6 DEF BookFrom
  <2>2. \A i, j \in DOMAIN o : Fronts(o[i], o[j], end) => i < j
    BY <1>4, <1>5, <1>6 DEF Fronts
  <2> HIDE DEF o
  <2>3. QED
    BY <1>1, <1>2, <1>3, <2>1, <2>2 DEF IsBook
<1>7. CASE end = "newest"
  <2> DEFINE r == Reverse(o)
  <2> HIDE DEF o
  <2>1. r \in Seq(Live)
    BY <1>1, ReverseIs
  <2>2. DOMAIN r = 1 .. N /\ \A i \in 1 .. N : (N - i) + 1 \in 1 .. N /\ r[i] = o[(N - i) + 1]
    BY <1>1, <1>4, ReverseTurns
  <2> HIDE DEF r
  <2>3. Once(r)
    <3>1. ASSUME NEW i \in 1 .. N, NEW j \in 1 .. N, r[i] = r[j] PROVE i = j
      <4>1. o[(N - i) + 1] = o[(N - j) + 1] /\ (N - i) + 1 \in DOMAIN o /\ (N - j) + 1 \in DOMAIN o
        BY <1>4, <2>2, <3>1
      <4>3. \A x, y \in DOMAIN o : o[x] = o[y] => x = y
        BY <1>2 DEF Once
      <4>2. QED
        BY <4>1, <4>3
    <3>2. QED
      BY <2>2, <3>1 DEF Once
  <2>4. ASSUME NEW b \in Live PROVE \E i \in DOMAIN r : r[i] = b
    <3>1. PICK k \in 1 .. N : o[k] = b
      BY <1>3, <1>4
    <3>2. (N - k) + 1 \in 1 .. N /\ (N - ((N - k) + 1)) + 1 = k
      OBVIOUS
    <3>3. QED
      BY <2>2, <3>1, <3>2
  <2>5. ASSUME NEW i \in 1 .. N, NEW j \in 1 .. N, Fronts(r[i], r[j], end) PROVE i < j
    <3>1. Older(o[(N - j) + 1], o[(N - i) + 1])
      BY <1>7, <2>2, <2>5 DEF Fronts
    <3>2. (N - j) + 1 < (N - i) + 1
      BY <1>5, <2>2, <3>1 DEF o
    <3>3. QED
      BY <3>2
  <2>6. BookFrom(bal, end) = r
    BY <1>7 DEF BookFrom, r, o
  <2>7. QED
    BY <2>1, <2>2, <2>3, <2>4, <2>5, <2>6 DEF IsBook
<1>8. QED
  BY <1>6, <1>7

(* What is laid against bills goes on bills, one line each, and no bill    *)
(* gets more than it has open; and it goes where the instruction says.     *)
WellLaid(p, bal) ==
  /\ OneLineEach(p) /\ \A i \in DOMAIN p : p[i].bill \in Bills
  /\ \A b \in Bills : Against(p, b) <= bal[b]

DownTheBook(p, bal, end, amount) ==
  /\ \A a, b \in Bills : Fronts(a, b, end) /\ Against(p, b) > 0 => Against(p, a) = bal[a]
  /\ PartsTotal(p) < amount => \A b \in Bills : Against(p, b) = bal[b]
OnlyTicked(p, bal, ticked) ==
  \A b \in Bills : Against(p, b) = IF b \in ticked THEN bal[b] ELSE 0

LEMMA AutoIs ==
  ASSUME NEW bal \in [Bills -> Nat], NEW ins \in Instructions, ins.mode = "auto", NEW amount \in Nat
  PROVE  LET laid == AgainstBills(bal, ins, amount)
         IN /\ laid.ok /\ WellLaid(laid.parts, bal)
            /\ DownTheBook(laid.parts, bal, ins.order, amount)
<1> DEFINE laid == AgainstBills(bal, ins, amount)
           bs == BookFrom(bal, ins.order)
           p == laid.parts
<1>1. laid.ok /\ p = LayDown(bs, bal, amount)
  BY DEF AgainstBills, BookFrom
<1>2. /\ bs \in Seq({b \in Bills : bal[b] > 0}) /\ Once(bs)
      /\ \A b \in Bills : bal[b] > 0 => \E i \in DOMAIN bs : bs[i] = b
      /\ \A i, j \in DOMAIN bs : Fronts(bs[i], bs[j], ins.order) => i < j
  <2>1. IsBook(bs, bal, ins.order)
    BY BookIs
  <2> HIDE DEF bs
  <2>2. QED
    BY <2>1 DEF IsBook
<1> HIDE DEF laid, bs
<1>3. p \in Seq(Parts) /\ RunsDown(p, bs, bal, amount)
  <2>1. bs \in Seq({b \in Bills : bal[b] > 0})
    BY <1>2
  <2>2. /\ LayDown(bs, bal, amount) \in Seq(Parts)
        /\ RunsDown(LayDown(bs, bal, amount), bs, bal, amount)
    BY <2>1, LaidDown
  <2>3. p = LayDown(bs, bal, amount)
    BY <1>1
  <2> HIDE DEF p
  <2>4. QED
    BY <2>2, <2>3
<1> HIDE DEF p
<1>4. /\ OneLineEach(p) /\ \A i \in DOMAIN p : p[i].bill \in Bills
      /\ \A b \in Bills : Against(p, b) <= bal[b]
      /\ \A i, j \in DOMAIN bs : i < j /\ Against(p, bs[j]) > 0 => Against(p, bs[i]) = bal[bs[i]]
      /\ PartsTotal(p) < amount => \A i \in DOMAIN bs : Against(p, bs[i]) = bal[bs[i]]
  <2>1. bs \in Seq({b \in Bills : bal[b] > 0}) /\ Once(bs)
    BY <1>2
  <2>2. QED
    BY <1>3, <2>1, RunsDownPays
<1>5. \A b \in Bills : Against(p, b) \in Nat /\ bal[b] \in Nat
  BY <1>3, <1>4, AgainstAdds
<1>6. \A b \in Bills : bal[b] = 0 => Against(p, b) = bal[b]
  BY <1>4, <1>5
<1>7. ASSUME NEW a \in Bills, NEW b \in Bills, Fronts(a, b, ins.order), Against(p, b) > 0
      PROVE  Against(p, a) = bal[a]
  <2>1. CASE bal[a] = 0
    BY <1>6, <2>1
  <2>2. CASE bal[a] # 0
    <3>1. bal[a] > 0 /\ bal[b] > 0
      BY <1>4, <1>5, <1>7, <2>2
    <3>2. PICK i \in DOMAIN bs : bs[i] = a
      BY <1>2, <3>1
    <3>3. PICK j \in DOMAIN bs : bs[j] = b
      BY <1>2, <3>1
    <3>4. i < j
      BY <1>2, <1>7, <3>2, <3>3
    <3>5. QED
      BY <1>4, <1>7, <3>2, <3>3, <3>4
  <2>3. QED
    BY <2>1, <2>2
<1>8. ASSUME PartsTotal(p) < amount, NEW b \in Bills PROVE Against(p, b) = bal[b]
  <2>1. CASE bal[b] = 0
    BY <1>6, <2>1
  <2>2. CASE bal[b] # 0
    <3>1. PICK i \in DOMAIN bs : bs[i] = b
      BY <1>2, <1>5, <2>2
    <3>2. QED
      BY <1>4, <1>8, <3>1
  <2>3. QED
    BY <2>1, <2>2
<1>9. WellLaid(p, bal) /\ DownTheBook(p, bal, ins.order, amount)
  BY <1>4, <1>7, <1>8 DEF WellLaid, DownTheBook
<1>10. QED
  BY <1>1, <1>9 DEF laid, p

LEMMA SettleIs ==
  ASSUME NEW bal \in [Bills -> Nat], NEW ins \in Instructions, ins.mode = "settle", NEW amount \in Nat
  PROVE  LET laid == AgainstBills(bal, ins, amount)
         IN WellLaid(laid.parts, bal) /\ (laid.ok => OnlyTicked(laid.parts, bal, ins.bills))
<1> DEFINE laid == AgainstBills(bal, ins, amount)
           Live == {b \in Bills : bal[b] > 0}
           T == ins.bills
           bs == Chosen(Open(bal), T)
           p == laid.parts
<1>1. p = LayDown(bs, bal, amount) /\ (laid.ok => (\A b \in T : bal[b] > 0) /\ Sum(bal, T) <= amount)
  BY DEF AgainstBills
<1>2. T \in SUBSET Bills
  BY DEF Instructions
<1>3. /\ Open(bal) \in Seq(Live) /\ Once(Open(bal))
      /\ \A b \in Bills : bal[b] > 0 => \E i \in DOMAIN Open(bal) : Open(bal)[i] = b
  <2>1. BookFrom(bal, "oldest") = Open(bal)
    BY DEF BookFrom
  <2>2. IsBook(Open(bal), bal, "oldest")
    BY <2>1, BookIs
  <2>3. QED
    BY <2>2 DEF IsBook
<1> HIDE DEF laid, T, Live
<1>4. bs \in Seq(Live \cap T) /\ Once(bs) /\ HasAll(bs, Open(bal), T)
  BY <1>3, ChosenIs, ChosenInOrder
<1> HIDE DEF bs
<1>5. bs \in Seq(Live)
  BY <1>4
<1>6. p \in Seq(Parts) /\ RunsDown(p, bs, bal, amount)
  BY <1>1, <1>5, LaidDown DEF Live
<1> HIDE DEF p
<1>7. /\ OneLineEach(p) /\ \A i \in DOMAIN p : p[i].bill \in Bills
      /\ \A b \in Bills : Against(p, b) <= bal[b]
      /\ \A b \in Bills : (\A i \in DOMAIN bs : bs[i] # b) => Against(p, b) = 0
      /\ OpenOn(bs, bal) <= amount => \A i \in DOMAIN bs : Against(p, bs[i]) = bal[bs[i]]
  BY <1>4, <1>5, <1>6, RunsDownPays DEF Live
<1>8. ASSUME laid.ok PROVE OnlyTicked(p, bal, T)
  <2>1. \A b \in T : b \in Bills /\ bal[b] > 0
    BY <1>1, <1>2, <1>8
  <2>2. \A b \in T : \E i \in DOMAIN bs : bs[i] = b
    <3>1. ASSUME NEW b \in T PROVE \E i \in DOMAIN bs : bs[i] = b
      <4>1. PICK m \in DOMAIN Open(bal) : Open(bal)[m] = b
        BY <1>3, <2>1
      <4>2. QED
        BY <1>4, <4>1 DEF HasAll
    <3>2. QED
      BY <3>1
  <2>3. \A i \in DOMAIN bs : bs[i] \in T /\ bs[i] \in Bills
    BY <1>2, <1>4
  <2> DEFINE a == [j \in DOMAIN bs |-> bal[bs[j]]]
  <2>4. Renames(bs, DOMAIN bs) /\ Image(bs, DOMAIN bs) = T
    BY <1>4, <2>2, <2>3 DEF Renames, Once, Image
  <2>5. Summable(a, DOMAIN bs) /\ \A j \in DOMAIN bs : bal[bs[j]] = a[j]
    <3>1. DOMAIN bs = 1 .. Len(bs) /\ Len(bs) \in Nat
      BY <1>5
    <3>2. IsFiniteSet(DOMAIN bs)
      BY <3>1, FS_Interval
    <3>3. QED
      BY <2>3, <3>2 DEF Summable
  <2> HIDE DEF a
  <2>6. SumFunctionOnSet(bal, T) = SumFunctionOnSet(a, DOMAIN bs)
    BY <2>4, <2>5, SumRenamed
  <2>7. OpenOn(bs, bal) <= amount
    BY <1>1, <1>8, <2>6 DEF OpenOn, Sum, a
  <2>8. \A i \in DOMAIN bs : Against(p, bs[i]) = bal[bs[i]]
    BY <1>7, <2>7
  <2>9. ASSUME NEW b \in Bills PROVE Against(p, b) = IF b \in T THEN bal[b] ELSE 0
    <3>1. CASE b \in T
      BY <2>2, <2>8, <3>1
    <3>2. CASE b \notin T
      BY <1>7, <2>3, <3>2
    <3>3. QED
      BY <3>1, <3>2
  <2>10. QED
    BY <2>9 DEF OnlyTicked
<1>9. WellLaid(p, bal)
  BY <1>7 DEF WellLaid
<1>10. QED
  BY <1>8, <1>9 DEF p, laid, T

LEMMA CustomIs ==
  ASSUME NEW bal \in [Bills -> Nat], NEW ins \in Instructions, ins.mode = "custom", NEW amount \in Nat
  PROVE  LET laid == AgainstBills(bal, ins, amount)
         IN WellLaid(laid.parts, bal) /\ (laid.ok => \A b \in Bills : Against(laid.parts, b) = ins.split[b])
<1> DEFINE laid == AgainstBills(bal, ins, amount)
           T == {b \in Bills : ins.split[b] > 0 /\ ins.split[b] <= bal[b]}
           fits == Chosen(BillsByDate, T)
           p == laid.parts
<1>1. ins.split \in [Bills -> Nat]
  BY DEF Instructions
<1>2. p = AsTyped(ins.split, fits) /\ (laid.ok => \A b \in Bills : ins.split[b] <= bal[b])
  BY DEF AgainstBills, AsTyped
<1>3. p \in Seq(Parts)
  BY AgainstBillsIs
<1>4. fits \in Seq(Bills \cap T) /\ Once(fits) /\ HasAll(fits, BillsByDate, T)
  <2>1. BillsByDate \in Seq(Bills) /\ Once(BillsByDate)
    BY BillsAssumption DEF Once
  <2> HIDE DEF T
  <2>2. QED
    BY <2>1, ChosenIs, ChosenInOrder
<1> HIDE DEF laid, fits
<1>5. /\ DOMAIN p = DOMAIN fits
      /\ \A i \in DOMAIN fits : /\ p[i].bill = fits[i] /\ p[i].amt = ins.split[fits[i]]
                                /\ fits[i] \in Bills /\ fits[i] \in T
  <2>1. DOMAIN p = DOMAIN fits /\ \A i \in DOMAIN fits : p[i] = [bill |-> fits[i], amt |-> ins.split[fits[i]]]
    BY <1>2 DEF AsTyped
  <2> HIDE DEF T, p
  <2>2. \A i \in DOMAIN fits : fits[i] \in Bills /\ fits[i] \in T
    BY <1>4
  <2>3. QED
    BY <2>1, <2>2
<1>6. \A b \in T : b \in Bills /\ \E i \in DOMAIN fits : fits[i] = b
  <2>1. ASSUME NEW b \in T PROVE \E i \in DOMAIN fits : fits[i] = b
    <3>1. PICK m \in DOMAIN BillsByDate : BillsByDate[m] = b
      BY BillsAssumption
    <3>2. QED
      BY <1>4, <2>1, <3>1 DEF HasAll
  <2>2. QED
    BY <2>1
<1> HIDE DEF p
<1>7. OneLineEach(p)
  BY <1>4, <1>5 DEF OneLineEach, Once
<1>8. /\ \A i \in DOMAIN fits : Against(p, fits[i]) = ins.split[fits[i]]
      /\ \A b : (\A i \in DOMAIN fits : fits[i] # b) => Against(p, b) = 0
  <2>1. ASSUME NEW i \in DOMAIN fits PROVE Against(p, fits[i]) = ins.split[fits[i]]
    <3>1. i \in DOMAIN p /\ p[i].bill = fits[i] /\ p[i].amt = ins.split[fits[i]]
      BY <1>5
    <3>2. QED
      BY <1>3, <1>7, <3>1, AgainstIs
  <2>2. ASSUME NEW b, \A i \in DOMAIN fits : fits[i] # b PROVE Against(p, b) = 0
    <3>1. \A i \in DOMAIN p : p[i].bill # b
      BY <1>5, <2>2
    <3>2. QED
      BY <1>3, <1>7, <3>1, AgainstIs
  <2>3. QED
    BY <2>1, <2>2
<1>9. ASSUME NEW b \in Bills
      PROVE  Against(p, b) = IF b \in T THEN ins.split[b] ELSE 0
  <2>1. CASE b \in T
    BY <1>6, <1>8, <2>1
  <2>2. CASE b \notin T
    BY <1>5, <1>8, <2>2
  <2>3. QED
    BY <2>1, <2>2
<1>10. \A b \in Bills : Against(p, b) <= bal[b]
  <2>1. \A b \in Bills : bal[b] \in Nat
    OBVIOUS
  <2>2. QED
    BY <1>9, <2>1
<1>11. ASSUME laid.ok, NEW b \in Bills PROVE Against(p, b) = ins.split[b]
  <2>1. ins.split[b] \in Nat /\ ins.split[b] <= bal[b]
    BY <1>1, <1>2, <1>11
  <2>2. QED
    BY <1>9, <2>1
<1>12. WellLaid(p, bal)
  BY <1>5, <1>7, <1>10 DEF WellLaid
<1>13. QED
  BY <1>11, <1>12 DEF p, laid

(* What is asked is of an instruction and figures there can be.            *)
Askable(q) ==
  q.asked => q.bal \in [Bills -> Nat] /\ q.ins \in Instructions /\ q.amount \in Nat

LEMMA SplitOfQuestion == Askable(question) => SplitIsRight
<1> DEFINE bal == question.bal
           ins == question.ins
           amount == question.amount
           laid == AgainstBills(bal, ins, amount)
           rest == Remainder(laid.parts, amount)
           k == PartsTotal(laid.parts)
<1> SUFFICES ASSUME Askable(question), question.asked PROVE SplitIsRight
  BY DEF SplitIsRight, SplitAddsUp, SplitAsInstructed
<1>1. bal \in [Bills -> Nat] /\ ins \in Instructions /\ amount \in Nat
  BY DEF Askable
<1>2. ins.mode \in {"auto", "settle", "custom"}
  BY <1>1 DEF Instructions
<1> HIDE DEF bal, ins, amount
<1>3. laid.parts \in Seq(Parts) /\ WellLaid(laid.parts, bal)
  <2>1. laid.parts \in Seq(Parts)
    BY <1>1, AgainstBillsIs
  <2>2. WellLaid(laid.parts, bal)
    BY <1>1, <1>2, AutoIs, SettleIs, CustomIs
  <2>3. QED
    BY <2>1, <2>2
<1>4. k \in Nat /\ rest \in Nat /\ (rest > 0 => k < amount)
  <2>1. k \in Nat
    BY <1>3, PartsAdd
  <2>2. QED
    BY <1>1, <2>1 DEF Remainder
<1>5. Saved.parts = laid.parts \o OnAccount(rest) /\ Saved.ok = laid.ok
  BY DEF Saved, Allocate, bal, ins, amount
<1>6. Saved.parts \in Seq(Parts) /\ (Saved.ok => PartsTotal(Saved.parts) = amount)
  <2>1. Saved = Allocate(bal, ins, amount)
    BY DEF Saved, bal, ins, amount
  <2>2. QED
    BY <1>1, <2>1, SplitsAddUp
<1> HIDE DEF laid, rest
<1>7. /\ OneLineEach(Saved.parts) /\ Laid(NoBill) = rest
      /\ \A b \in Bills : Laid(b) = Against(laid.parts, b)
  BY <1>3, <1>4, <1>5, OneLineMore DEF WellLaid, Laid
<1>8. SplitAddsUp
  <2>1. Laid(NoBill) + Sum([b \in Bills |-> Laid(b)], Bills) = PartsTotal(Saved.parts)
    BY <1>6, <1>7, AgainstAdds DEF Laid
  <2>2. \A b \in Bills : Laid(b) <= bal[b]
    BY <1>3, <1>7 DEF WellLaid
  <2>3. \A i \in DOMAIN Saved.parts : Saved.parts[i].amt > 0
    <3>1. \A i \in DOMAIN Saved.parts : Saved.parts[i] \in Parts
      BY <1>6
    <3>2. QED
      BY <3>1 DEF Parts
  <2>4. QED
    BY <1>6, <1>7, <2>1, <2>2, <2>3 DEF SplitAddsUp, OneLineEach, bal, amount
<1>9. \A b \in Bills : Laid(b) \in Nat /\ bal[b] \in Nat
  BY <1>1, <1>6, <1>7, AgainstAdds DEF Laid
<1>10. CASE ins.mode = "auto"
  <2>1. laid.ok /\ DownTheBook(laid.parts, bal, ins.order, amount)
    BY <1>1, <1>10, AutoIs DEF laid
  <2>2. \A a, b \in Bills : InFront(a, b) <=> Fronts(a, b, ins.order)
    BY DEF InFront, Fronts, ins
  <2>3. \A a, b \in Bills : InFront(a, b) /\ Laid(b) > 0 => Laid(a) = bal[a]
    BY <1>7, <2>1, <2>2 DEF DownTheBook
  <2>4. Laid(NoBill) > 0 => \A b \in Bills : Laid(b) = bal[b]
    BY <1>4, <1>7, <2>1 DEF DownTheBook
  <2>5. \A b \in Bills : Laid(b) = bal[b] => StillOpen(b) = 0
    BY <1>9 DEF StillOpen, bal
  <2>6. SplitAsInstructed
    BY <1>5, <1>10, <2>1, <2>3, <2>4, <2>5 DEF SplitAsInstructed, ins
  <2>7. QED
    BY <1>8, <2>6 DEF SplitIsRight
<1>11. CASE ins.mode = "settle"
  <2>1. laid.ok => OnlyTicked(laid.parts, bal, ins.bills)
    BY <1>1, <1>11, SettleIs DEF laid
  <2>2. laid.ok => \A b \in Bills : Laid(b) = IF b \in ins.bills THEN bal[b] ELSE 0
    BY <1>7, <2>1 DEF OnlyTicked
  <2>3. \A b \in Bills : Laid(b) = bal[b] => StillOpen(b) = 0
    BY <1>9 DEF StillOpen, bal
  <2>4. SplitAsInstructed
    BY <1>5, <1>11, <2>2, <2>3 DEF SplitAsInstructed, ins
  <2>5. QED
    BY <1>8, <2>4 DEF SplitIsRight
<1>12. CASE ins.mode = "custom"
  <2>1. laid.ok => \A b \in Bills : Laid(b) = ins.split[b]
    BY <1>1, <1>7, <1>12, CustomIs DEF laid
  <2>2. SplitAsInstructed
    BY <1>5, <1>12, <2>1 DEF SplitAsInstructed, ins
  <2>3. QED
    BY <1>8, <2>2 DEF SplitIsRight
<1>13. QED
  BY <1>2, <1>10, <1>11, <1>12

(* Whatever the bills have open, whatever the instruction and however much
   arrives, a split that may be saved is worth what was received, overfills
   no bill, has a bill or the remainder on one line and none of nothing, and
   goes where it was told to: down the book with no bill begun before those
   in front of it are settled, to the ticked bills and their whole worth, or
   as typed (`allocate` of allocation.ts, for any number of bills).        *)
THEOREM SplitsAreRight ==
  ASSUME MostOpen \in Nat, MostPaid \in Nat
  PROVE  AskInit /\ [][Ask]_question => []SplitIsRight
<1>1. AskInit => Askable(question)
  BY DEF AskInit, Unasked, Askable
<1>2. Askable(question) /\ [Ask]_question => Askable(question)'
  <2>1. SUFFICES ASSUME Askable(question), [Ask]_question PROVE Askable(question)'
    OBVIOUS
  <2>2. CASE question' = question
    BY <2>1, <2>2 DEF Askable
  <2>3. CASE Ask
    <3>1. PICK bal \in [Bills -> 0 .. MostOpen], ins \in Ways, amount \in 1 .. MostPaid :
            question' = [asked |-> TRUE, bal |-> bal, ins |-> ins, amount |-> amount]
      BY <2>3 DEF Ask
    <3>2. bal \in [Bills -> Nat] /\ amount \in Nat
      OBVIOUS
    <3>3. ins \in Instructions
      <4>1. [Bills -> 0 .. MostOpen] \subseteq [Bills -> Nat]
        OBVIOUS
      <4>2. QED
        BY <4>1 DEF Ways, Instructions
    <3>4. question'.bal = bal /\ question'.ins = ins /\ question'.amount = amount
      BY <3>1
    <3>5. QED
      BY <3>2, <3>3, <3>4 DEF Askable
  <2>4. QED
    BY <2>1, <2>2, <2>3
<1>3. QED
  BY <1>1, <1>2, SplitOfQuestion, PTL

-----------------------------------------------------------------------------
(***************************************************************************)
(* The ledger: its invariant, and the steps one by one.                    *)
(***************************************************************************)
(* What a desk may hold, and what is known of it.                          *)
Sources == UNION {From[r] : r \in Receipts}
Places ==
  {"idle", "recording", "confirming", "repointing", "replacing", "repointed", "holding",
   "rejecting", "reversing", "crediting", "applying", "posting"}
DeskRows ==
  [at : Places, r : Receipts \cup {NoReceipt}, source : Sources \cup {"none"},
   parts : Seq(Parts), seen : SUBSET Line, bill : Bills \cup {NoBill}]

TablesInv ==
  /\ receipts \in [Receipts -> [status : Statuses, source : Sources] \cup {Absent}]
  /\ lines \subseteq Line /\ IsFiniteSet(lines)
  /\ \A l, m \in lines : Same(l, m) => l = m
  /\ paid \in [Bills -> Nat]
  /\ desk \in [Desks -> DeskRows]
  /\ owed \in BOOLEAN

(* What an operation has read still stands when it writes: money it split  *)
(* comes to what arrived, the receipt it is about is there, the lines it   *)
(* is to replace or to spend are still those.                              *)
HasRead(me) ==
  /\ me.at = "recording" => /\ me.r \in Receipts /\ me.source \in From[me.r]
                            /\ me.source # "mbos" => PartsTotal(me.parts) = Worth[me.r]
  /\ me.at \in {"confirming", "repointing", "replacing", "repointed", "holding", "rejecting", "reversing"} =>
       me.r \in Receipts /\ receipts[me.r] # Absent
  /\ me.at \in {"repointing", "replacing", "repointed"} => receipts[me.r].status \in Undecided
  /\ me.at \in {"repointing", "replacing"} => PartsTotal(me.parts) = Worth[me.r]
  /\ me.at = "replacing" => me.seen = LinesOf(me.r)
  /\ me.at \in {"crediting", "applying"} =>
       /\ me.seen \subseteq lines /\ me.seen # {}
       /\ \A l \in me.seen : l.bill = NoBill
  /\ me.at = "applying" => me.bill \in Bills /\ me.parts # <<>>

(* Re-pointing has the customer to itself, and credit is applied by one    *)
(* desk at a time.                                                         *)
Apart ==
  \A d, e \in Desks : d # e => /\ Repointing(d) => desk[e] = Idle
                               /\ ~(Applying(d) /\ Applying(e))

(* A receipt that is not on record has no lines.                           *)
NoLinesYet == \A r \in Receipts : receipts[r] = Absent => LinesOf(r) = {}

LedgerInv ==
  /\ TablesInv /\ Apart /\ NoLinesYet
  /\ \A d \in Desks : HasRead(desk[d])
  /\ DeskReceiptsAddUp /\ PaidIsWhatIsConfirmed

(* What lines are worth, as one sum.                                       *)
LineAmounts == [l \in Line |-> l.amt]

LEMMA LineTotalIs ==
  ASSUME NEW S \in SUBSET Line, IsFiniteSet(S)
  PROVE  Summable(LineAmounts, S) /\ LineTotal(S) = SumFunctionOnSet(LineAmounts, S) /\ LineTotal(S) \in Nat
<1>1. Summable(LineAmounts, S)
  BY DEF Summable, LineAmounts, Line
<1>2. \A l \in S : [m \in S |-> m.amt][l] = LineAmounts[l]
  BY DEF LineAmounts
<1>3. LineTotal(S) = SumFunctionOnSet([m \in S |-> m.amt], S)
  BY DEF LineTotal, Sum
<1>4. SumFunctionOnSet([m \in S |-> m.amt], S) = SumFunctionOnSet(LineAmounts, S)
  BY <1>1, <1>2, SumSame
<1>5. SumFunctionOnSet(LineAmounts, S) \in Nat
  BY <1>1, SumTyped
<1>6. QED
  BY <1>1, <1>3, <1>4, <1>5

(* The lines of a split are new, told apart, and worth what it comes to.   *)
LEMMA WrittenIs ==
  ASSUME NEW r \in Receipts, NEW parts \in Seq(Parts), Numberings(r, parts) # {}
  PROVE  LET W == Written(r, parts)
         IN /\ W \subseteq Line /\ IsFiniteSet(W)
            /\ \A l \in W : l.receipt = r /\ l.id \in FreeIds(r)
            /\ \A l, m \in W : Same(l, m) => l = m
            /\ LineTotal(W) = PartsTotal(parts)
<1> DEFINE W == Written(r, parts)
           D == DOMAIN parts
<1>1. PICK f \in [D -> FreeIds(r)] :
        /\ W = {[id |-> f[n], receipt |-> r, bill |-> parts[n].bill, amt |-> parts[n].amt] : n \in D}
        /\ \A m, n \in D : m < n => f[m] < f[n]
  <2>1. (CHOOSE f \in Numberings(r, parts) : TRUE) \in Numberings(r, parts)
    OBVIOUS
  <2>2. QED
    BY <2>1 DEF Numberings, Written
<1>2. FreeIds(r) \subseteq LineIds /\ LineIds \subseteq Nat
  BY LedgerAssumption DEF FreeIds
<1>3. D \subseteq Nat /\ \A n \in D : parts[n].bill \in Bills \cup {NoBill} /\ parts[n].amt \in Nat \ {0}
  <2>1. D = 1 .. Len(parts) /\ Len(parts) \in Nat /\ \A n \in D : parts[n] \in Parts
    OBVIOUS
  <2>2. \A x \in Parts : x.bill \in Bills \cup {NoBill} /\ x.amt \in Nat \ {0}
    BY DEF Parts
  <2>3. QED
    BY <2>1, <2>2
<1> DEFINE g == [n \in D |-> [id |-> f[n], receipt |-> r, bill |-> parts[n].bill, amt |-> parts[n].amt]]
<1>4. W = Image(g, D)
  BY <1>1 DEF Image
<1>5. \A n \in D : /\ g[n] \in Line /\ g[n].receipt = r /\ g[n].id = f[n] /\ f[n] \in FreeIds(r)
                   /\ g[n].amt = parts[n].amt
  BY <1>1, <1>2, <1>3 DEF Line
<1>6. \A m, n \in D : f[m] = f[n] => m = n
  <2>1. \A m, n \in D : m \in Nat /\ n \in Nat /\ f[m] \in Nat /\ f[n] \in Nat
    BY <1>1, <1>2, <1>3
  <2>2. QED
    BY <1>1, <2>1
<1> HIDE DEF g
<1>7. Renames(g, D)
  BY <1>5, <1>6 DEF Renames
<1> DEFINE e == [n \in D |-> parts[n].amt]
<1>8. Summable(e, D) /\ PartsTotal(parts) = SumFunctionOnSet(e, D)
  BY PartsAdd DEF PartsTotal, Sum
<1>9. \A n \in D : LineAmounts[g[n]] = e[n]
  BY <1>5 DEF LineAmounts
<1> HIDE DEF e
<1>10. IsFiniteSet(W) /\ SumFunctionOnSet(LineAmounts, W) = SumFunctionOnSet(e, D)
  <2>1. Summable(LineAmounts, Image(g, D)) /\ SumFunctionOnSet(LineAmounts, Image(g, D)) = SumFunctionOnSet(e, D)
    BY <1>7, <1>8, <1>9, SumRenamed
  <2>2. QED
    BY <1>4, <2>1 DEF Summable
<1> HIDE DEF W, D
<1>11. W \subseteq Line
  BY <1>4, <1>5 DEF Image
<1>12. LineTotal(W) = PartsTotal(parts)
  BY <1>8, <1>10, <1>11, LineTotalIs
<1>13. \A l \in W : l.receipt = r /\ l.id \in FreeIds(r)
  BY <1>4, <1>5 DEF Image
<1>14. \A l, m \in W : Same(l, m) => l = m
  BY <1>4, <1>5, <1>6 DEF Image, Same
<1>15. QED
  BY <1>10, <1>11, <1>12, <1>13, <1>14 DEF W

(* What the desks write down adds nothing to a bill unless it is confirmed.*)
CountedLines(b) == {l \in lines : l.bill = b /\ receipts[l.receipt].status = "confirmed"}

LEMMA CountedIs ==
  ASSUME TablesInv, NEW b \in Bills
  PROVE  Counted(b) = LineTotal(CountedLines(b)) /\ Counted(b) \in Nat
<1>1. CountedLines(b) \subseteq lines /\ Counted(b) = LineTotal(CountedLines(b))
  BY DEF CountedLines, Counted
<1>2. CountedLines(b) \in SUBSET Line /\ IsFiniteSet(CountedLines(b))
  BY <1>1, FS_Subset DEF TablesInv
<1>3. QED
  BY <1>1, <1>2, LineTotalIs

LEMMA BalancesAre == ASSUME TablesInv PROVE Balances \in [Bills -> Nat]
BY LedgerAssumption DEF TablesInv, Balances

LEMMA PlaceOf ==
  ASSUME NEW place \in Places, NEW r \in Receipts \cup {NoReceipt}
  PROVE  LET me == At(place, r)
         IN me \in DeskRows /\ me.at = place /\ me.r = r
<1>1. Idle \in DeskRows
  BY DEF Idle, DeskRows, Places
<1>2. QED
  BY <1>1 DEF At, DeskRows

(* A desk moves on with what it has read, and nothing else changes.        *)
LEMMA DeskMoves ==
  ASSUME LedgerInv, NEW d \in Desks, NEW me \in DeskRows, Goes(d, me), UNCHANGED <<receipts, lines, paid, owed>>,
         desk[d].at # "posting", HasRead(me), Apart'
  PROVE  LedgerInv'
<1>1. desk' = [desk EXCEPT ![d] = me] /\ desk \in [Desks -> DeskRows]
  BY DEF Goes, LedgerInv, TablesInv
<1>2. TablesInv'
  <2>1. desk' \in [Desks -> DeskRows]
    BY <1>1
  <2>2. QED
    BY <2>1 DEF LedgerInv, TablesInv, Same
<1>3. \A r : LinesOf(r)' = LinesOf(r)
  BY DEF LinesOf
<1>4. ASSUME NEW e \in Desks PROVE HasRead(desk[e])'
  <2>1. PICK w : w = desk'[e] /\ HasRead(w)
    BY <1>1 DEF LedgerInv
  <2>2. HasRead(w)'
    BY <1>3, <2>1 DEF HasRead
  <2>3. QED
    BY <2>1, <2>2
<1>5. NoLinesYet' /\ DeskReceiptsAddUp'
  BY <1>3 DEF LedgerInv, NoLinesYet, DeskReceiptsAddUp
<1>6. PaidIsWhatIsConfirmed'
  <2>1. ASSUME \A e \in Desks : desk'[e].at # "posting" PROVE \A e \in Desks : desk[e].at # "posting"
    BY <1>1, <2>1
  <2>2. \A b \in Bills : Counted(b)' = Counted(b)
    BY DEF Counted
  <2>3. QED
    BY <2>1, <2>2 DEF LedgerInv, PaidIsWhatIsConfirmed
<1>7. QED
  BY <1>2, <1>4, <1>5, <1>6 DEF LedgerInv

(* Re-pointing keeps the customer to itself, and applying its turn.        *)
Rewriting == {"repointing", "replacing", "repointed"}
Spending == {"crediting", "applying"}

LEMMA ApartHeld ==
  ASSUME TablesInv, Apart, NEW d \in Desks, NEW me, Goes(d, me),
         me.at \in Rewriting => Repointing(d) \/ \A e \in Desks : desk[e] = Idle,
         me.at \in Spending => Applying(d) \/ \A e \in Desks : ~Applying(e),
         desk[d] # Idle \/ \A e \in Desks : ~Repointing(e)
  PROVE  Apart'
<1>1. \A e \in Desks : desk'[e] = IF e = d THEN me ELSE desk[e]
  BY DEF Goes, TablesInv
<1>2. ASSUME NEW c \in Desks, NEW e \in Desks, c # e, desk'[c].at \in Rewriting PROVE desk'[e] = Idle
  <2>1. CASE c = d
    <3>1. Repointing(d) \/ \A a \in Desks : desk[a] = Idle
      BY <1>1, <1>2, <2>1
    <3>2. desk[e] = Idle
      BY <1>2, <2>1, <3>1 DEF Apart
    <3>3. QED
      BY <1>1, <1>2, <2>1, <3>2
  <2>2. CASE c # d
    <3>1. Repointing(c)
      BY <1>1, <1>2, <2>2 DEF Repointing, Rewriting
    <3>2. desk[e] = Idle /\ e # d
      BY <1>2, <3>1 DEF Apart
    <3>3. QED
      BY <1>1, <3>2
  <2>3. QED
    BY <2>1, <2>2
<1>3. ASSUME NEW c \in Desks, NEW e \in Desks, c # e, desk'[c].at \in Spending, desk'[e].at \in Spending PROVE FALSE
  <2>1. \A a \in Desks : a # d /\ desk'[a].at \in Spending => Applying(a)
    BY <1>1 DEF Applying, Spending
  <2>2. CASE c # d /\ e # d
    BY <1>3, <2>1, <2>2 DEF Apart
  <2>3. ASSUME NEW a \in Desks, a # d, desk'[a].at \in Spending, desk'[d].at \in Spending PROVE FALSE
    <3>1. Applying(a) /\ me.at \in Spending
      BY <1>1, <2>1, <2>3
    <3>2. Applying(d)
      BY <3>1
    <3>3. QED
      BY <2>3, <3>1, <3>2 DEF Apart
  <2>4. QED
    BY <1>3, <2>2, <2>3
<1>4. QED
  BY <1>2, <1>3 DEF Apart, Repointing, Applying, Rewriting, Spending

(* What a desk reads is there while it has only been read.                 *)
LEMMA ReadMoves ==
  ASSUME LedgerInv, ~RewritesOverlap, NEW d \in Desks, NEW me \in DeskRows, Goes(d, me), HasRead(me),
         UNCHANGED <<receipts, lines, paid, owed>>,
         \/ Starts(d) /\ me.at \notin Rewriting \cup Spending
         \/ StartsRepointing(d) /\ me.at \in Rewriting
         \/ StartsApplying(d) /\ me.at \in Spending
  PROVE  LedgerInv'
<1>1. desk[d] = Idle /\ desk[d].at # "posting"
  BY DEF Starts, StartsRepointing, StartsApplying, Idle
<1>2. \A e \in Desks : ~Repointing(e)
  <2>1. \A e \in Desks : desk[e] = Idle => ~Repointing(e)
    BY DEF Idle, Repointing
  <2>2. QED
    BY <2>1 DEF Starts, StartsRepointing, StartsApplying
<1>3. me.at \in Rewriting => \A e \in Desks : desk[e] = Idle
  BY DEF StartsRepointing, Rewriting, Spending
<1>4. me.at \in Spending => \A e \in Desks : ~Applying(e)
  BY DEF StartsApplying, Rewriting, Spending
<1>5. Apart'
  BY <1>2, <1>3, <1>4, ApartHeld DEF LedgerInv
<1>6. QED
  BY <1>1, <1>5, DeskMoves

LEMMA OnRecord ==
  ASSUME TablesInv, NEW r \in Receipts
  PROVE  /\ receipts[r].status \in Statuses => receipts[r] # Absent
         /\ receipts[r] # Absent => receipts[r].status \in Statuses /\ receipts[r].source \in Sources
BY DEF TablesInv, Absent, Statuses, Undecided

LEMMA ToRecordKept ==
  ASSUME LedgerInv, ~RewritesOverlap, NEW d \in Desks, NEW r \in Receipts, NEW s \in From[r], NEW ins \in Orders,
         ReadToRecord(d, r, s, ins)
  PROVE  LedgerInv'
<1> DEFINE split == Allocate(Balances, ins, Worth[r])
           me == [At("recording", r) EXCEPT !.source = s, !.parts = split.parts]
<1>1. Starts(d) /\ s # "mbos" /\ split.ok /\ Goes(d, me) /\ UNCHANGED <<receipts, lines, paid, owed>>
  BY DEF ReadToRecord
<1>2. Balances \in [Bills -> Nat] /\ ins \in Instructions /\ Worth[r] \in Nat
  BY LedgerAssumption, BalancesAre DEF LedgerInv
<1>3. split.parts \in Seq(Parts) /\ PartsTotal(split.parts) = Worth[r]
  BY <1>1, <1>2, SplitsAddUp
<1> HIDE DEF split
<1>4. s \in Sources
  BY DEF Sources
<1>5. me \in DeskRows /\ me.at = "recording" /\ me.r = r /\ me.source = s /\ me.parts = split.parts
  <2>1. /\ At("recording", r) \in DeskRows /\ At("recording", r).at = "recording"
        /\ At("recording", r).r = r
    BY PlaceOf DEF Places
  <2>2. QED
    BY <1>3, <1>4, <2>1 DEF DeskRows, Places
<1> HIDE DEF me
<1>6. HasRead(me)
  BY <1>3, <1>5 DEF HasRead
<1>7. QED
  BY <1>1, <1>5, <1>6, ReadMoves DEF Rewriting, Spending

LEMMA FromFieldKept ==
  ASSUME LedgerInv, ~RewritesOverlap, NEW d \in Desks, NEW r \in Receipts, NEW ins \in Orders, ReadFromField(d, r, ins)
  PROVE  LedgerInv'
<1> DEFINE split == Allocate(Balances, ins, Worth[r]).parts
           named == Chosen(split, {p \in ToSet(split) : p.bill # NoBill})
           rest == Remainder(named, Worth[r])
           ps == split \o OnAccount(rest)
           me == [At("recording", r) EXCEPT !.source = "mbos", !.parts = ps]
<1>1. Starts(d) /\ "mbos" \in From[r] /\ Goes(d, me) /\ UNCHANGED <<receipts, lines, paid, owed>>
  BY DEF ReadFromField
<1>2. Balances \in [Bills -> Nat] /\ ins \in Instructions /\ Worth[r] \in Nat
  BY LedgerAssumption, BalancesAre DEF LedgerInv
<1>3. split \in Seq(Parts)
  BY <1>2, SplitsAddUp
<1> HIDE DEF split
<1>4. named \in Seq(Parts)
  <2> DEFINE T == {p \in ToSet(split) : p.bill # NoBill}
  <2>1. Chosen(split, T) \in Seq(Parts \cap T)
    <3> HIDE DEF T
    <3>1. QED
      BY <1>3, ChosenIs
  <2>2. Parts \cap T \subseteq Parts
    OBVIOUS
  <2> HIDE DEF T
  <2>3. Chosen(split, T) \in Seq(Parts)
    BY <2>1, <2>2
  <2>4. QED
    BY <2>3 DEF T
<1> HIDE DEF named
<1>5. rest \in Nat
  <2>1. PartsTotal(named) \in Nat
    BY <1>4, PartsAdd
  <2>2. QED
    BY <1>2, <2>1 DEF Remainder
<1> HIDE DEF rest
<1>6. ps \in Seq(Parts)
  BY <1>3, <1>5, OneMorePart
<1> HIDE DEF ps
<1>7. "mbos" \in Sources
  BY <1>1 DEF Sources
<1>8. me \in DeskRows /\ me.at = "recording" /\ me.r = r /\ me.source = "mbos"
  <2>1. /\ At("recording", r) \in DeskRows /\ At("recording", r).at = "recording"
        /\ At("recording", r).r = r
    BY PlaceOf DEF Places
  <2>2. QED
    BY <1>6, <1>7, <2>1 DEF DeskRows, Places
<1> HIDE DEF me
<1>9. HasRead(me)
  BY <1>1, <1>8 DEF HasRead
<1>10. QED
  BY <1>1, <1>8, <1>9, ReadMoves DEF Rewriting, Spending

LEMMA ToRepointKept ==
  ASSUME LedgerInv, ~RewritesOverlap, NEW d \in Desks, NEW r \in Receipts, NEW ins \in Orders, ReadToRepoint(d, r, ins)
  PROVE  LedgerInv'
<1> DEFINE split == Allocate(Balances, ins, Worth[r])
           me == [At("repointing", r) EXCEPT !.parts = split.parts]
<1>1. /\ StartsRepointing(d) /\ split.ok /\ Goes(d, me) /\ UNCHANGED <<receipts, lines, paid, owed>>
      /\ receipts[r].status \in Undecided
  BY DEF ReadToRepoint
<1>2. Balances \in [Bills -> Nat] /\ ins \in Instructions /\ Worth[r] \in Nat
  BY LedgerAssumption, BalancesAre DEF LedgerInv
<1>3. split.parts \in Seq(Parts) /\ PartsTotal(split.parts) = Worth[r]
  BY <1>1, <1>2, SplitsAddUp
<1> HIDE DEF split
<1>4. me \in DeskRows /\ me.at = "repointing" /\ me.r = r /\ me.parts = split.parts
  <2>1. /\ At("repointing", r) \in DeskRows /\ At("repointing", r).at = "repointing"
        /\ At("repointing", r).r = r
    BY PlaceOf DEF Places
  <2>2. QED
    BY <1>3, <2>1 DEF DeskRows, Places
<1> HIDE DEF me
<1>5. receipts[r] # Absent
  BY <1>1, OnRecord DEF LedgerInv, Statuses
<1>6. HasRead(me)
  BY <1>1, <1>3, <1>4, <1>5 DEF HasRead
<1>7. QED
  BY <1>1, <1>4, <1>6, ReadMoves DEF Rewriting, Spending

(* A decision is read for a receipt that is on record.                     *)
LEMMA DecisionRead ==
  ASSUME LedgerInv, ~RewritesOverlap, NEW d \in Desks, NEW r \in Receipts, NEW place \in {"confirming", "holding", "rejecting", "reversing"},
         Starts(d), Goes(d, At(place, r)), receipts[r].status \in Statuses,
         UNCHANGED <<receipts, lines, paid, owed>>
  PROVE  LedgerInv'
<1> DEFINE me == At(place, r)
<1>1. place \in Places /\ place \notin Rewriting \cup Spending
  BY DEF Places, Rewriting, Spending
<1>2. me \in DeskRows /\ me.at = place /\ me.r = r
  BY <1>1, PlaceOf
<1> HIDE DEF me
<1>3. receipts[r] # Absent
  BY OnRecord DEF LedgerInv
<1>4. HasRead(me)
  BY <1>2, <1>3 DEF HasRead
<1>5. Goes(d, me)
  BY DEF me
<1>6. QED
  BY <1>1, <1>2, <1>4, <1>5, ReadMoves

LEMMA DecisionsReadKept ==
  ASSUME LedgerInv, ~RewritesOverlap, NEW d \in Desks, NEW r \in Receipts,
         ReadToConfirm(d, r) \/ ReadToHold(d, r) \/ ReadToReject(d, r) \/ ReadToReverse(d, r)
  PROVE  LedgerInv'
<1>1. CASE ReadToConfirm(d, r)
  BY <1>1, DecisionRead DEF ReadToConfirm, Statuses
<1>2. CASE ReadToHold(d, r)
  BY <1>2, DecisionRead DEF ReadToHold, Statuses, Undecided
<1>3. CASE ReadToReject(d, r)
  BY <1>3, DecisionRead DEF ReadToReject
<1>4. CASE ReadToReverse(d, r)
  BY <1>4, DecisionRead DEF ReadToReverse, Statuses
<1>5. QED
  BY <1>1, <1>2, <1>3, <1>4

LEMMA DeleteKept ==
  ASSUME LedgerInv, NEW d \in Desks, DeleteLines(d)
  PROVE  LedgerInv'
<1> DEFINE me == [desk[d] EXCEPT !.at = "replacing", !.seen = LinesOf(desk[d].r)]
<1>1. /\ desk[d].at = "repointing" /\ Goes(d, me) /\ UNCHANGED <<receipts, lines, paid, owed>>
  BY DEF DeleteLines
<1>2. desk[d] \in DeskRows /\ LinesOf(desk[d].r) \in SUBSET Line
  BY DEF LedgerInv, TablesInv, LinesOf
<1>3. /\ me \in DeskRows /\ me.at = "replacing" /\ me.r = desk[d].r /\ me.parts = desk[d].parts
      /\ me.seen = LinesOf(desk[d].r)
  BY <1>2 DEF DeskRows, Places
<1> HIDE DEF me
<1>4. HasRead(desk[d])
  BY DEF LedgerInv
<1>5. HasRead(me)
  BY <1>1, <1>3, <1>4 DEF HasRead
<1>6. Apart'
  <2>1. Repointing(d) /\ desk[d] # Idle
    BY <1>1 DEF Repointing, Idle
  <2>2. me.at \notin Spending
    BY <1>3 DEF Spending
  <2>3. QED
    BY <1>1, <2>1, <2>2, ApartHeld DEF LedgerInv
<1>7. QED
  BY <1>1, <1>3, <1>5, <1>6, DeskMoves

LEMMA CreditReadKept ==
  ASSUME LedgerInv, ~RewritesOverlap, NEW d \in Desks, ReadCredit(d)
  PROVE  LedgerInv'
<1> DEFINE credit == {l \in lines : l.bill = NoBill /\ receipts[l.receipt].status = "confirmed"}
           me == [At("crediting", NoReceipt) EXCEPT !.seen = credit]
<1>1. StartsApplying(d) /\ credit # {} /\ Goes(d, me) /\ UNCHANGED <<receipts, lines, paid, owed>>
  BY DEF ReadCredit
<1>2. credit \subseteq lines /\ credit \subseteq Line /\ \A l \in credit : l.bill = NoBill
  BY DEF LedgerInv, TablesInv
<1> HIDE DEF credit
<1>3. me \in DeskRows /\ me.at = "crediting" /\ me.seen = credit
  <2>1. /\ At("crediting", NoReceipt) \in DeskRows /\ At("crediting", NoReceipt).at = "crediting"
        /\ At("crediting", NoReceipt).r = NoReceipt
    BY PlaceOf DEF Places
  <2>2. QED
    BY <1>2, <2>1 DEF DeskRows, Places
<1> HIDE DEF me
<1>4. HasRead(me)
  BY <1>1, <1>2, <1>3 DEF HasRead
<1>5. QED
  BY <1>1, <1>3, <1>4, ReadMoves DEF Rewriting, Spending

(* Lines there are come to something.                                      *)
LEMMA SomethingThere ==
  ASSUME NEW S \in SUBSET Line, IsFiniteSet(S), S # {}
  PROVE  LineTotal(S) \in Nat \ {0}
<1>1. PICK l \in S : l \in Line
  OBVIOUS
<1>2. Summable(LineAmounts, S) /\ LineTotal(S) = SumFunctionOnSet(LineAmounts, S)
  BY LineTotalIs
<1>3. SumFunctionOnSet(LineAmounts, S) = LineAmounts[l] + SumFunctionOnSet(LineAmounts, S \ {l})
  BY <1>1, <1>2, SumWithout
<1>4. SumFunctionOnSet(LineAmounts, S \ {l}) \in Nat
  <2>1. Summable(LineAmounts, S \ {l})
    BY <1>2, FS_Subset DEF Summable
  <2>2. QED
    BY <2>1, SumTyped
<1>5. LineAmounts[l] \in Nat \ {0}
  BY <1>1 DEF LineAmounts, Line
<1>6. QED
  BY <1>2, <1>3, <1>4, <1>5

LEMMA BillReadKept ==
  ASSUME LedgerInv, NEW d \in Desks, ReadBill(d)
  PROVE  LedgerInv'
<1> DEFINE seen == desk[d].seen
           open == Open(Balances)
           amt == Least(LineTotal(seen), Balances[Head(open)])
           ps == <<[bill |-> Head(open), amt |-> amt]>>
           me == [At("applying", NoReceipt) EXCEPT !.seen = seen, !.bill = Head(open), !.parts = ps]
<1>1. /\ desk[d].at = "crediting" /\ UNCHANGED <<receipts, lines, paid, owed>>
      /\ Goes(d, IF open = <<>> THEN Idle ELSE me)
  BY DEF ReadBill
<1>2. desk[d] # Idle /\ Applying(d) /\ desk[d].at # "posting"
  BY <1>1 DEF Idle, Applying
<1>3. HasRead(desk[d]) /\ desk[d] \in DeskRows
  BY DEF LedgerInv, TablesInv
<1>4. CASE open = <<>>
  <2>1. Goes(d, Idle)
    BY <1>1, <1>4
  <2>2. Idle \in DeskRows /\ Idle.at = "idle"
    BY DEF Idle, DeskRows, Places
  <2>3. HasRead(Idle)
    BY <2>2 DEF HasRead
  <2>4. Apart'
    BY <1>2, <2>1, <2>2, ApartHeld DEF LedgerInv, Rewriting, Spending
  <2>5. QED
    BY <1>1, <1>2, <2>1, <2>2, <2>3, <2>4, DeskMoves
<1>5. CASE open # <<>>
  <2>1. Goes(d, me)
    BY <1>1, <1>5
  <2>2. Balances \in [Bills -> Nat]
    BY BalancesAre DEF LedgerInv
  <2>3. Head(open) \in Bills /\ Balances[Head(open)] \in Nat \ {0}
    <3>1. open \in Seq({b \in Bills : Balances[b] > 0})
      BY <2>2, OpenIs
    <3> HIDE DEF open
    <3>2. Head(open) \in {b \in Bills : Balances[b] > 0}
      BY <1>5, <3>1
    <3>3. QED
      BY <2>2, <3>2
  <2>4. seen \subseteq lines /\ seen # {} /\ \A l \in seen : l.bill = NoBill
    BY <1>1, <1>3 DEF HasRead
  <2>5. seen \in SUBSET Line /\ IsFiniteSet(seen)
    BY <2>4, FS_Subset DEF LedgerInv, TablesInv
  <2> HIDE DEF seen, open
  <2>6. LineTotal(seen) \in Nat \ {0}
    BY <2>4, <2>5, SomethingThere
  <2>7. amt \in Nat \ {0}
    BY <2>3, <2>6 DEF Least
  <2> HIDE DEF amt
  <2>8. ps \in Seq(Parts) /\ ps # <<>>
    BY <2>3, <2>7 DEF Parts
  <2> HIDE DEF ps
  <2>9. me \in DeskRows /\ me.at = "applying" /\ me.seen = seen /\ me.bill \in Bills /\ me.parts = ps
    <3>1. /\ At("applying", NoReceipt) \in DeskRows /\ At("applying", NoReceipt).at = "applying"
          /\ At("applying", NoReceipt).r = NoReceipt
      BY PlaceOf DEF Places
    <3>2. QED
      BY <2>3, <2>5, <2>8, <3>1 DEF DeskRows, Places
  <2> HIDE DEF me
  <2>10. HasRead(me)
    BY <2>4, <2>8, <2>9 DEF HasRead
  <2>11. Apart'
    BY <1>2, <2>1, <2>9, ApartHeld DEF LedgerInv, Rewriting, Spending
  <2>12. QED
    BY <1>1, <1>2, <2>1, <2>9, <2>10, <2>11, DeskMoves
<1>6. QED
  BY <1>4, <1>5

(* A desk that writes leaves what the others have read as it was.          *)
LEMMA OthersKnow ==
  ASSUME LedgerInv, NEW d \in Desks, NEW me, Goes(d, me), desk[d] # Idle,
         \A r \in Receipts : receipts[r] # Absent => receipts'[r] # Absent,
         Applying(d) \/ Repointing(d) \/ lines \subseteq lines'
  PROVE  \A e \in Desks : e # d => HasRead(desk[e])'
<1> SUFFICES ASSUME NEW e \in Desks, e # d PROVE HasRead(desk[e])'
  OBVIOUS
<1>1. desk'[e] = desk[e]
  BY DEF Goes, LedgerInv, TablesInv
<1>2. PICK w : w = desk[e] /\ HasRead(w)
  BY DEF LedgerInv
<1>3. ~Repointing(e)
  BY DEF LedgerInv, Apart
<1>4. Applying(e) => lines \subseteq lines'
  <2>1. Applying(e) => ~Applying(d)
    BY DEF LedgerInv, Apart
  <2>2. Applying(e) => ~Repointing(d)
    BY DEF LedgerInv, Apart, Applying, Idle
  <2>3. QED
    BY <2>1, <2>2
<1>5. w.at \notin {"repointing", "replacing", "repointed"}
  BY <1>2, <1>3 DEF Repointing
<1>6. w.at \in {"crediting", "applying"} => lines \subseteq lines'
  BY <1>2, <1>4 DEF Applying
<1>7. HasRead(w)'
  <2>1. w.at = "recording" => /\ w.r \in Receipts /\ w.source \in From[w.r]
                              /\ w.source # "mbos" => PartsTotal(w.parts) = Worth[w.r]
    BY <1>2 DEF HasRead
  <2>2. w.at \in {"confirming", "holding", "rejecting", "reversing"} => w.r \in Receipts /\ receipts'[w.r] # Absent
    BY <1>2 DEF HasRead
  <2>3. w.at \in {"crediting", "applying"} =>
          w.seen \subseteq lines' /\ w.seen # {} /\ \A l \in w.seen : l.bill = NoBill
    BY <1>2, <1>6 DEF HasRead
  <2>4. w.at = "applying" => w.bill \in Bills /\ w.parts # <<>>
    BY <1>2 DEF HasRead
  <2>5. QED
    BY <1>2, <1>5, <2>1, <2>2, <2>3, <2>4 DEF HasRead
<1>8. QED
  BY <1>1, <1>2, <1>7

(* What a write leaves a desk with: nothing, or the figures to rebuild.    *)
LEMMA RestingPlaces ==
  /\ Idle \in DeskRows /\ Idle.at = "idle"
  /\ At("posting", NoReceipt) \in DeskRows /\ At("posting", NoReceipt).at = "posting"
<1>1. Idle \in DeskRows /\ Idle.at = "idle"
  BY DEF Idle, DeskRows, Places
<1>2. "posting" \in Places
  BY DEF Places
<1>3. QED
  BY <1>1, <1>2, PlaceOf

LEMMA WriteEnds ==
  ASSUME LedgerInv, NEW d \in Desks, desk[d] # Idle, NEW me \in DeskRows, Goes(d, me),
         me.at \in {"idle", "posting"} \/ (me.at = "repointed" /\ Repointing(d) /\ HasRead(me)'),
         \A r \in Receipts : receipts[r] # Absent => receipts'[r] # Absent,
         receipts' \in [Receipts -> [status : Statuses, source : Sources] \cup {Absent}],
         Applying(d) \/ Repointing(d) \/ lines \subseteq lines',
         lines' \subseteq Line, IsFiniteSet(lines'), \A l, m \in lines' : Same(l, m) => l = m,
         paid' \in [Bills -> Nat], owed' \in BOOLEAN,
         NoLinesYet', DeskReceiptsAddUp', PaidIsWhatIsConfirmed'
  PROVE  LedgerInv'
<1>1. desk' \in [Desks -> DeskRows] /\ desk'[d] = me
  BY DEF Goes, LedgerInv, TablesInv
<1>2. TablesInv'
  BY <1>1 DEF TablesInv, Same
<1>3. Apart'
  BY ApartHeld DEF LedgerInv, Rewriting, Spending
<1>4. HasRead(me)'
  BY DEF HasRead
<1>5. \A e \in Desks : HasRead(desk[e])'
  <2>1. \A e \in Desks : e # d => HasRead(desk[e])'
    BY OthersKnow
  <2>2. HasRead(desk[d])'
    BY <1>1, <1>4
  <2>3. QED
    BY <2>1, <2>2
<1>6. QED
  BY <1>2, <1>3, <1>5 DEF LedgerInv

(* The figures stand where the confirmed lines against every bill do.      *)
LEMMA FiguresStand ==
  ASSUME LedgerInv, NEW d \in Desks, desk[d].at # "posting", NEW me, Goes(d, me),
         UNCHANGED <<paid, owed>>, \A b \in Bills : CountedLines(b)' = CountedLines(b)
  PROVE  PaidIsWhatIsConfirmed'
<1>1. ASSUME \A e \in Desks : desk'[e].at # "posting" PROVE \A e \in Desks : desk[e].at # "posting"
  BY <1>1 DEF Goes, LedgerInv, TablesInv
<1>2. \A b \in Bills : Counted(b)' = Counted(b)
  <2>1. \A b \in Bills : Counted(b) = LineTotal(CountedLines(b)) /\ Counted(b)' = LineTotal(CountedLines(b)')
    BY DEF Counted, CountedLines
  <2>2. QED
    BY <2>1
<1>3. QED
  BY <1>1, <1>2 DEF LedgerInv, PaidIsWhatIsConfirmed

LEMMA FiguresToRebuild ==
  ASSUME LedgerInv, NEW d \in Desks, NEW me, Goes(d, me), me.at = "posting" \/ owed'
  PROVE  PaidIsWhatIsConfirmed'
BY DEF Goes, LedgerInv, TablesInv, PaidIsWhatIsConfirmed

LEMMA DecidedKept ==
  ASSUME LedgerInv, NEW d \in Desks,
         desk[d].at \in {"confirming", "repointed", "holding", "rejecting", "reversing"},
         NEW s \in Statuses, SetStatus(desk[d].r, s), NEW me \in {Idle, At("posting", NoReceipt)}, Goes(d, me),
         UNCHANGED <<lines, paid>>, owed' \in BOOLEAN,
         \/ me.at = "posting" \/ owed'
         \/ receipts[desk[d].r].status # "confirmed" /\ s # "confirmed" /\ owed' = owed
  PROVE  LedgerInv'
<1> DEFINE r == desk[d].r
<1>1. r \in Receipts /\ receipts[r] # Absent /\ desk[d] # Idle /\ desk[d].at # "posting"
  <2>1. HasRead(desk[d])
    BY DEF LedgerInv
  <2>2. QED
    BY <2>1 DEF HasRead, Idle
<1>2. receipts \in [Receipts -> [status : Statuses, source : Sources] \cup {Absent}]
  BY DEF LedgerInv, TablesInv
<1>3. receipts[r] \in [status : Statuses, source : Sources]
  BY <1>1, <1>2
<1>4. PICK now : now = [receipts[r] EXCEPT !.status = s]
  OBVIOUS
<1>5. now \in [status : Statuses, source : Sources] /\ now.status = s /\ now.source = receipts[r].source
  BY <1>3, <1>4
<1>6. receipts' = [receipts EXCEPT ![r] = now]
  BY <1>1, <1>2, <1>4 DEF SetStatus
<1>7. now # Absent
  BY <1>5 DEF Absent, Statuses, Undecided
<1> HIDE DEF r
<1>8. /\ receipts' \in [Receipts -> [status : Statuses, source : Sources] \cup {Absent}]
      /\ \A q \in Receipts : receipts'[q] = IF q = r THEN now ELSE receipts[q]
  BY <1>1, <1>2, <1>5, <1>6
<1>9. \A q \in Receipts : /\ receipts[q] # Absent => receipts'[q] # Absent
                          /\ receipts'[q] # Absent => receipts[q] # Absent
                          /\ receipts'[q].source = receipts[q].source
  BY <1>1, <1>5, <1>7, <1>8
<1>10. \A q : LinesOf(q)' = LinesOf(q)
  BY DEF LinesOf
<1>11. NoLinesYet' /\ DeskReceiptsAddUp'
  BY <1>9, <1>10 DEF LedgerInv, NoLinesYet, DeskReceiptsAddUp
<1>12. PaidIsWhatIsConfirmed'
  <2>1. CASE me.at = "posting" \/ owed'
    BY <2>1, FiguresToRebuild
  <2>2. CASE receipts[r].status # "confirmed" /\ s # "confirmed" /\ owed' = owed
    <3>1. \A q \in Receipts : receipts'[q].status = "confirmed" <=> receipts[q].status = "confirmed"
      BY <1>1, <1>5, <1>8, <2>2
    <3>2. \A l \in lines : l.receipt \in Receipts
      BY DEF LedgerInv, TablesInv, Line
    <3>3. \A b \in Bills : CountedLines(b)' = CountedLines(b)
      BY <3>1, <3>2 DEF CountedLines
    <3>4. QED
      BY <1>1, <2>2, <3>3, FiguresStand
  <2>3. QED
    BY <2>1, <2>2 DEF r
<1>13. me \in DeskRows /\ me.at \in {"idle", "posting"}
  BY RestingPlaces
<1>14. lines' \subseteq Line /\ IsFiniteSet(lines') /\ (\A l, m \in lines' : Same(l, m) => l = m) /\ paid' \in [Bills -> Nat]
  BY DEF LedgerInv, TablesInv
<1>15. lines \subseteq lines'
  OBVIOUS
<1>16. QED
  BY <1>1, <1>8, <1>9, <1>11, <1>12, <1>13, <1>14, <1>15, WriteEnds

LEMMA DecisionsKept ==
  ASSUME LedgerInv, NEW d \in Desks, CommitConfirm(d) \/ CommitHold(d) \/ CommitReject(d) \/ CommitReverse(d)
  PROVE  LedgerInv'
<1>1. owed \in BOOLEAN /\ {"confirmed", "held", "rejected", "reversed"} \subseteq Statuses
  BY DEF LedgerInv, TablesInv, Statuses, Undecided
<1>2. At("posting", NoReceipt).at = "posting"
  BY RestingPlaces
<1>3. CASE CommitConfirm(d)
  BY <1>1, <1>2, <1>3, DecidedKept DEF CommitConfirm
<1>4. CASE CommitHold(d)
  BY <1>1, <1>4, DecidedKept DEF CommitHold
<1>5. CASE CommitReject(d)
  BY <1>1, <1>2, <1>5, DecidedKept DEF CommitReject
<1>6. CASE CommitReverse(d)
  BY <1>1, <1>2, <1>6, DecidedKept DEF CommitReverse
<1>7. QED
  BY <1>3, <1>4, <1>5, <1>6

LEMMA StopKept ==
  ASSUME LedgerInv, NEW d \in Desks, desk[d] # Idle, desk[d].at # "posting" \/ owed', Goes(d, Idle),
         UNCHANGED <<receipts, lines, paid>>, owed' \in BOOLEAN, owed => owed'
  PROVE  LedgerInv'
<1>1. \A r : LinesOf(r)' = LinesOf(r)
  BY DEF LinesOf
<1>2. NoLinesYet' /\ DeskReceiptsAddUp'
  BY <1>1 DEF LedgerInv, NoLinesYet, DeskReceiptsAddUp
<1>3. PaidIsWhatIsConfirmed'
  <2>1. CASE owed'
    BY <2>1, FiguresToRebuild
  <2>2. CASE ~owed'
    <3>1. \A b \in Bills : CountedLines(b)' = CountedLines(b)
      BY DEF CountedLines
    <3>2. owed \in BOOLEAN
      BY DEF LedgerInv, TablesInv
    <3>3. desk[d].at # "posting" /\ owed' = owed
      BY <2>2, <3>2
    <3>4. QED
      BY <3>1, <3>3, FiguresStand
  <2>3. QED
    BY <2>1, <2>2
<1>4. /\ receipts' \in [Receipts -> [status : Statuses, source : Sources] \cup {Absent}]
      /\ lines' \subseteq Line /\ IsFiniteSet(lines') /\ (\A l, m \in lines' : Same(l, m) => l = m)
      /\ paid' \in [Bills -> Nat] /\ lines \subseteq lines'
  BY DEF LedgerInv, TablesInv
<1>5. QED
  BY <1>2, <1>3, <1>4, RestingPlaces, WriteEnds

LEMMA DiesKept ==
  ASSUME LedgerInv, NEW d \in Desks, Dies(d)
  PROVE  LedgerInv'
<1>1. owed \in BOOLEAN
  BY DEF LedgerInv, TablesInv
<1>2. /\ desk[d] # Idle /\ owed' = (owed \/ desk[d].at = "posting") /\ Goes(d, Idle)
      /\ UNCHANGED <<receipts, lines, paid>>
  BY DEF Dies
<1>3. owed' \in BOOLEAN /\ (desk[d].at # "posting" \/ owed') /\ (owed => owed')
  BY <1>1, <1>2
<1>4. QED
  BY <1>2, <1>3, StopKept

LEMMA RebuiltIs ==
  ASSUME LedgerInv, Rebuild, UNCHANGED <<receipts, lines>>
  PROVE  /\ paid' \in [Bills -> Nat] /\ owed' \in BOOLEAN
         /\ NoLinesYet' /\ DeskReceiptsAddUp' /\ PaidIsWhatIsConfirmed'
<1>1. \A b \in Bills : Counted(b) \in Nat /\ Counted(b)' = Counted(b)
  <2>1. \A b \in Bills : Counted(b)' = Counted(b)
    BY DEF Counted
  <2>2. QED
    BY <2>1, CountedIs DEF LedgerInv
<1>2. \A r : LinesOf(r)' = LinesOf(r)
  BY DEF LinesOf
<1>3. NoLinesYet' /\ DeskReceiptsAddUp'
  BY <1>2 DEF LedgerInv, NoLinesYet, DeskReceiptsAddUp
<1>4. paid' = [b \in Bills |-> Counted(b)] /\ owed' = FALSE
  BY DEF Rebuild
<1>5. PaidIsWhatIsConfirmed'
  BY <1>1, <1>4 DEF PaidIsWhatIsConfirmed
<1>6. QED
  BY <1>1, <1>3, <1>4, <1>5

LEMMA PostKept ==
  ASSUME LedgerInv, NEW d \in Desks, Post(d)
  PROVE  LedgerInv'
<1>1. desk[d].at = "posting" /\ Rebuild /\ Goes(d, Idle) /\ UNCHANGED <<receipts, lines>>
  BY DEF Post
<1>2. desk[d] # Idle
  BY <1>1 DEF Idle
<1>3. /\ receipts' \in [Receipts -> [status : Statuses, source : Sources] \cup {Absent}]
      /\ lines' \subseteq Line /\ IsFiniteSet(lines') /\ (\A l, m \in lines' : Same(l, m) => l = m)
      /\ lines \subseteq lines'
      /\ \A r \in Receipts : receipts[r] # Absent => receipts'[r] # Absent
  BY <1>1 DEF LedgerInv, TablesInv
<1>4. QED
  BY <1>1, <1>2, <1>3, RebuiltIs, RestingPlaces, WriteEnds

LEMMA NightlyKept ==
  ASSUME LedgerInv, Nightly
  PROVE  LedgerInv'
<1>1. Rebuild /\ UNCHANGED <<receipts, lines, desk>>
  BY DEF Nightly
<1>2. TablesInv'
  BY <1>1, RebuiltIs DEF LedgerInv, TablesInv, Same
<1>3. Apart'
  BY <1>1 DEF LedgerInv, Apart, Repointing, Applying
<1>4. ASSUME NEW e \in Desks PROVE HasRead(desk[e])'
  <2>1. PICK w : w = desk'[e] /\ HasRead(w)
    BY <1>1 DEF LedgerInv
  <2>2. HasRead(w)'
    BY <1>1, <2>1 DEF HasRead, LinesOf
  <2>3. QED
    BY <2>1, <2>2
<1>5. QED
  BY <1>1, <1>2, <1>3, <1>4, RebuiltIs DEF LedgerInv

(* New lines beside those of other receipts.                               *)
LEMMA LinesBeside ==
  ASSUME TablesInv, NEW r \in Receipts, NEW parts \in Seq(Parts), Numberings(r, parts) # {},
         lines' = {l \in lines : l.receipt # r} \cup Written(r, parts)
  PROVE  /\ lines' \subseteq Line /\ IsFiniteSet(lines') /\ \A l, m \in lines' : Same(l, m) => l = m
         /\ \A q \in Receipts : q # r => LinesOf(q)' = LinesOf(q)
         /\ LineTotal(LinesOf(r)') = PartsTotal(parts)
         /\ \A l \in lines' : l.receipt # r => l \in lines
<1> DEFINE W == Written(r, parts)
           rest == {l \in lines : l.receipt # r}
<1>1. /\ W \subseteq Line /\ IsFiniteSet(W) /\ \A l \in W : l.receipt = r
      /\ \A l, m \in W : Same(l, m) => l = m
      /\ LineTotal(W) = PartsTotal(parts)
  BY WrittenIs
<1>2. rest \subseteq lines /\ rest \subseteq Line /\ IsFiniteSet(rest) /\ \A l \in rest : l.receipt # r
  <2>1. rest \subseteq lines
    OBVIOUS
  <2>2. IsFiniteSet(rest)
    BY <2>1, FS_Subset DEF TablesInv
  <2>3. QED
    BY <2>1, <2>2 DEF TablesInv
<1>3. lines' = rest \cup W
  OBVIOUS
<1>4. \A q \in Receipts : q # r => LinesOf(q)' = LinesOf(q)
  <2>1. \A q \in Receipts : q # r => {l \in lines' : l.receipt = q} = {l \in lines : l.receipt = q}
    <3> HIDE DEF W
    <3>1. QED
      BY <1>1, <1>3
  <2>2. QED
    BY <2>1 DEF LinesOf
<1>5. LinesOf(r)' = W
  <2>1. {l \in lines' : l.receipt = r} = W
    <3> HIDE DEF W, rest
    <3>1. QED
      BY <1>1, <1>2, <1>3
  <2>2. QED
    BY <2>1 DEF LinesOf
<1>6. IsFiniteSet(lines')
  <2> HIDE DEF W, rest
  <2>1. IsFiniteSet(rest \cup W)
    <3>1. IsFiniteSet(rest) /\ IsFiniteSet(W)
      BY <1>1, <1>2
    <3>2. QED
      BY <3>1, FS_Union
  <2>2. QED
    BY <1>3, <2>1
<1>7. \A l, m \in lines' : Same(l, m) => l = m
  <2> HIDE DEF W
  <2>1. \A l, m \in rest : Same(l, m) => l = m
    BY DEF TablesInv
  <2> HIDE DEF rest
  <2>2. \A l, m : Same(l, m) => l.receipt = m.receipt
    BY DEF Same
  <2>3. QED
    BY <1>1, <1>2, <1>3, <2>1, <2>2
<1> HIDE DEF W, rest
<1>8. QED
  BY <1>1, <1>2, <1>3, <1>4, <1>5, <1>6, <1>7

LEMMA RecordKept ==
  ASSUME LedgerInv, NEW d \in Desks, CommitRecord(d)
  PROVE  LedgerInv'
<1>0. PICK r, parts, source : r = desk[d].r /\ parts = desk[d].parts /\ source = desk[d].source
  OBVIOUS
<1> DEFINE status == IF source = "accounts" THEN "confirmed" ELSE "reported"
           me == IF source = "accounts" THEN At("posting", NoReceipt) ELSE Idle
<1>1. desk[d].at = "recording" /\ desk[d] # Idle /\ desk[d].at # "posting" /\ UNCHANGED <<paid, owed>>
  BY DEF CommitRecord, Idle
<1>2. /\ r \in Receipts /\ source \in From[r] /\ source \in Sources /\ parts \in Seq(Parts)
      /\ source # "mbos" => PartsTotal(parts) = Worth[r]
  <2>1. HasRead(desk[d]) /\ desk[d] \in DeskRows
    BY DEF LedgerInv, TablesInv
  <2>2. QED
    BY <1>0, <1>1, <2>1 DEF HasRead, DeskRows, Sources
<1>3. owed \in BOOLEAN
  BY DEF LedgerInv, TablesInv
<1>4. CASE Goes(d, Idle) /\ UNCHANGED <<receipts, lines>>
  BY <1>1, <1>3, <1>4, StopKept
<1>5. CASE /\ receipts[r] = Absent /\ Numberings(r, parts) # {}
           /\ receipts' = [receipts EXCEPT ![r] = [status |-> status, source |-> source]]
           /\ lines' = lines \cup Written(r, parts)
           /\ Goes(d, me)
  <2>1. lines' = {l \in lines : l.receipt # r} \cup Written(r, parts) /\ lines \subseteq lines'
    <3>1. \A l \in lines : l.receipt # r
      BY <1>2, <1>5 DEF LedgerInv, NoLinesYet, LinesOf
    <3>2. QED
      BY <1>5, <3>1
  <2>2. status \in Statuses /\ (source # "accounts" => status # "confirmed" /\ me = Idle)
        /\ (source = "accounts" => me.at = "posting") /\ me \in {Idle, At("posting", NoReceipt)}
    BY RestingPlaces DEF Statuses, Undecided
  <2>3. PICK new : new = [status |-> status, source |-> source]
    OBVIOUS
  <2>4. /\ new \in [status : Statuses, source : Sources] /\ new.status = status /\ new.source = source
        /\ new # Absent
    BY <1>2, <2>2, <2>3 DEF Absent, Statuses, Undecided
  <2>5. receipts' = [receipts EXCEPT ![r] = new]
    BY <1>5, <2>3
  <2> HIDE DEF status, me
  <2>6. /\ receipts' \in [Receipts -> [status : Statuses, source : Sources] \cup {Absent}]
        /\ \A q \in Receipts : receipts'[q] = IF q = r THEN new ELSE receipts[q]
    BY <1>2, <2>4, <2>5 DEF LedgerInv, TablesInv
  <2>7. \A q \in Receipts : receipts[q] # Absent => receipts'[q] # Absent
    BY <2>4, <2>6
  <2>8. TablesInv
    BY DEF LedgerInv
  <2>9. /\ lines' \subseteq Line /\ IsFiniteSet(lines') /\ \A l, m \in lines' : Same(l, m) => l = m
        /\ \A q \in Receipts : q # r => LinesOf(q)' = LinesOf(q)
        /\ LineTotal(LinesOf(r)') = PartsTotal(parts)
        /\ \A l \in lines' : l.receipt # r => l \in lines
    BY <1>2, <1>5, <2>1, <2>8, LinesBeside
  <2>10. NoLinesYet'
    BY <2>4, <2>6, <2>9 DEF LedgerInv, NoLinesYet
  <2>11. DeskReceiptsAddUp'
    <3>1. \A q \in Receipts : receipts'[q] # Absent /\ receipts'[q].source # "mbos" => LineTotal(LinesOf(q)') = Worth[q]
      BY <1>2, <2>4, <2>6, <2>9 DEF LedgerInv, DeskReceiptsAddUp
    <3>2. QED
      BY <3>1 DEF DeskReceiptsAddUp
  <2>12. PaidIsWhatIsConfirmed'
    <3>1. CASE source = "accounts"
      BY <1>5, <2>2, <3>1, FiguresToRebuild
    <3>2. CASE source # "accounts"
      <4>1. \A l \in lines' : receipts'[l.receipt].status = "confirmed" => l \in lines /\ receipts[l.receipt].status = "confirmed"
        BY <2>2, <2>4, <2>6, <2>9, <3>2 DEF Line
      <4>2. \A l \in lines : l \in lines' /\ l.receipt \in Receipts
        BY <2>1, <2>8 DEF TablesInv, Line
      <4>3. \A l \in lines : l.receipt # r
        BY <1>2, <1>5 DEF LedgerInv, NoLinesYet, LinesOf
      <4>4. \A l \in lines : receipts'[l.receipt] = receipts[l.receipt]
        BY <2>6, <4>2, <4>3
      <4>5. \A b \in Bills : CountedLines(b)' = CountedLines(b)
        BY <4>1, <4>2, <4>4 DEF CountedLines
      <4>6. QED
        BY <1>1, <1>5, <4>5, FiguresStand
    <3>3. QED
      BY <3>1, <3>2
  <2>13. me \in DeskRows /\ me.at \in {"idle", "posting"}
    BY <2>2, RestingPlaces
  <2>14. paid' \in [Bills -> Nat] /\ owed' \in BOOLEAN
    BY <1>1, <2>8 DEF TablesInv
  <2>15. QED
    BY <1>1, <1>5, <2>1, <2>6, <2>7, <2>9, <2>10, <2>11, <2>12, <2>13, <2>14, WriteEnds
<1>6. QED
  BY <1>0, <1>4, <1>5 DEF CommitRecord

LEMMA InsertKept ==
  ASSUME LedgerInv, NEW d \in Desks, InsertLines(d)
  PROVE  LedgerInv'
<1>0. PICK r, parts : r = desk[d].r /\ parts = desk[d].parts
  OBVIOUS
<1> DEFINE me == At("repointed", r)
<1>1. /\ desk[d].at = "replacing" /\ desk[d] # Idle /\ desk[d].at # "posting" /\ Repointing(d)
      /\ Numberings(r, parts) # {} /\ Goes(d, me) /\ UNCHANGED <<receipts, paid, owed>>
      /\ lines' = {l \in lines : ~\E s \in desk[d].seen : Same(l, s)} \cup Written(r, parts)
  BY <1>0 DEF InsertLines, Idle, Repointing
<1>2. /\ r \in Receipts /\ receipts[r] # Absent /\ receipts[r].status \in Undecided
      /\ PartsTotal(parts) = Worth[r] /\ desk[d].seen = LinesOf(r) /\ parts \in Seq(Parts)
  <2>1. HasRead(desk[d]) /\ desk[d] \in DeskRows
    BY DEF LedgerInv, TablesInv
  <2>2. QED
    BY <1>0, <1>1, <2>1 DEF HasRead, DeskRows
<1>3. TablesInv
  BY DEF LedgerInv
<1>4. lines' = {l \in lines : l.receipt # r} \cup Written(r, parts)
  <2>1. \A l \in lines : (\E s \in desk[d].seen : Same(l, s)) <=> l.receipt = r
    BY <1>2 DEF LinesOf, Same
  <2>2. QED
    BY <1>1, <2>1
<1>5. me \in DeskRows /\ me.at = "repointed" /\ me.r = r
  <2>1. "repointed" \in Places
    BY DEF Places
  <2>2. QED
    BY <1>2, <2>1, PlaceOf
<1> HIDE DEF me
<1>6. /\ lines' \subseteq Line /\ IsFiniteSet(lines') /\ \A l, m \in lines' : Same(l, m) => l = m
      /\ \A q \in Receipts : q # r => LinesOf(q)' = LinesOf(q)
      /\ LineTotal(LinesOf(r)') = PartsTotal(parts)
      /\ \A l \in lines' : l.receipt # r => l \in lines
  BY <1>1, <1>2, <1>3, <1>4, LinesBeside
<1>7. HasRead(me)'
  BY <1>1, <1>2, <1>5 DEF HasRead
<1>8. NoLinesYet'
  BY <1>1, <1>2, <1>6 DEF LedgerInv, NoLinesYet
<1>9. DeskReceiptsAddUp'
  <2>1. \A q \in Receipts : receipts'[q] # Absent /\ receipts'[q].source # "mbos" => LineTotal(LinesOf(q)') = Worth[q]
    BY <1>1, <1>2, <1>6 DEF LedgerInv, DeskReceiptsAddUp
  <2>2. QED
    BY <2>1 DEF DeskReceiptsAddUp
<1>10. PaidIsWhatIsConfirmed'
  <2>1. \A l : l \in lines /\ l.receipt # r => l \in lines'
    BY <1>4
  <2>2. receipts[r].status # "confirmed"
    BY <1>2 DEF Undecided
  <2>3. \A b \in Bills : CountedLines(b)' = CountedLines(b)
    BY <1>1, <1>6, <2>1, <2>2 DEF CountedLines
  <2>4. QED
    BY <1>1, <2>3, FiguresStand
<1>11. /\ receipts' \in [Receipts -> [status : Statuses, source : Sources] \cup {Absent}]
       /\ \A q \in Receipts : receipts[q] # Absent => receipts'[q] # Absent
       /\ paid' \in [Bills -> Nat] /\ owed' \in BOOLEAN
  BY <1>1, <1>3 DEF TablesInv
<1>12. QED
  BY <1>1, <1>5, <1>6, <1>7, <1>8, <1>9, <1>10, <1>11, WriteEnds

(* Applying on account: the lines are spent in turn.                       *)
Before(s, l) == s.receipt < l.receipt \/ (s.receipt = l.receipt /\ s.id < l.id)
AheadOf(S, l) == LineTotal({s \in S : Before(s, l)})
Taken(me) == {l \in me.seen : Moved(me, l) > 0}
Cut(me) == {l \in Taken(me) : Moved(me, l) < l.amt}
After(me, l) ==
  IF l \in Cut(me) THEN [l EXCEPT !.bill = me.bill, !.amt = Moved(me, l)]
  ELSE IF l \in Taken(me) THEN [l EXCEPT !.bill = me.bill] ELSE l
RestOf(me, l) == [id |-> FreeId(l.receipt), receipt |-> l.receipt, bill |-> NoBill, amt |-> l.amt - Moved(me, l)]

LEMMA NumbersAre ==
  ASSUME NEW l \in Line
  PROVE  l.receipt \in Nat /\ l.id \in Nat /\ l.amt \in Nat \ {0} /\ l.receipt \in Receipts /\ l.id \in LineIds
BY LedgerAssumption DEF Line

LEMMA AheadIs ==
  ASSUME NEW S \in SUBSET Line, IsFiniteSet(S), NEW l \in S
  PROVE  AheadOf(S, l) \in Nat
<1> DEFINE T == {s \in S : Before(s, l)}
<1>1. T \in SUBSET Line /\ IsFiniteSet(T)
  <2>1. T \subseteq S
    OBVIOUS
  <2> HIDE DEF T
  <2>2. QED
    BY <2>1, FS_Subset
<1> HIDE DEF T
<1>2. LineTotal(T) \in Nat
  BY <1>1, LineTotalIs
<1>3. QED
  BY <1>2 DEF AheadOf, T

LEMMA MovedIs ==
  ASSUME NEW me, me.seen \in SUBSET Line, IsFiniteSet(me.seen), me.parts[1].amt \in Nat, NEW l \in me.seen
  PROVE  /\ Moved(me, l) \in 0 .. l.amt
         /\ Moved(me, l) > 0 => AheadOf(me.seen, l) < me.parts[1].amt
         /\ Moved(me, l) < l.amt => me.parts[1].amt < AheadOf(me.seen, l) + l.amt
<1> DEFINE A == me.parts[1].amt
           ahead == AheadOf(me.seen, l)
           left == IF ahead < A THEN A - ahead ELSE 0
<1>1. ahead \in Nat /\ A \in Nat /\ l.amt \in Nat \ {0}
  BY AheadIs, NumbersAre
<1>2. Moved(me, l) = Least(left, l.amt)
  BY DEF Moved, AheadOf, Before
<1> HIDE DEF ahead, A
<1>3. /\ Least(left, l.amt) \in 0 .. l.amt
      /\ Least(left, l.amt) > 0 => ahead < A
      /\ Least(left, l.amt) < l.amt => A < ahead + l.amt
  BY <1>1 DEF Least
<1>4. QED
  BY <1>2, <1>3 DEF ahead, A

LEMMA AheadGrows ==
  ASSUME NEW S \in SUBSET Line, IsFiniteSet(S), NEW l \in S, NEW m \in S, Before(l, m)
  PROVE  AheadOf(S, l) + l.amt <= AheadOf(S, m)
<1> DEFINE L == {s \in S : Before(s, l)}
           M == {s \in S : Before(s, m)}
           U == L \cup {l}
<1>1. l \notin L
  BY NumbersAre DEF Before
<1>2. L \subseteq M
  <2>1. ASSUME NEW s \in S, Before(s, l) PROVE Before(s, m)
    <3>1. /\ s.receipt \in Nat /\ s.id \in Nat /\ l.receipt \in Nat /\ l.id \in Nat
          /\ m.receipt \in Nat /\ m.id \in Nat
      BY NumbersAre
    <3>2. QED
      BY <2>1, <3>1 DEF Before
  <2>2. QED
    BY <2>1
<1>3. U \subseteq M /\ M \in SUBSET Line /\ IsFiniteSet(M)
  <2>1. M \subseteq S /\ l \in M
    OBVIOUS
  <2> HIDE DEF L, M
  <2>2. QED
    BY <1>2, <2>1, FS_Subset
<1>4. U \in SUBSET Line /\ IsFiniteSet(U) /\ L \in SUBSET Line /\ IsFiniteSet(L) /\ L = U \ {l} /\ l \in U
  <2> HIDE DEF L, M
  <2>1. U \in SUBSET Line /\ L \subseteq U /\ L = U \ {l} /\ l \in U
    BY <1>1, <1>3
  <2>2. QED
    BY <1>3, <2>1, FS_Subset
<1> HIDE DEF L, M, U
<1>5. /\ Summable(LineAmounts, U) /\ LineTotal(U) = SumFunctionOnSet(LineAmounts, U)
      /\ LineTotal(L) = SumFunctionOnSet(LineAmounts, L) /\ LineTotal(L) \in Nat
      /\ Summable(LineAmounts, M) /\ LineTotal(M) = SumFunctionOnSet(LineAmounts, M) /\ LineTotal(M) \in Nat
      /\ LineTotal(U) \in Nat
  BY <1>3, <1>4, LineTotalIs
<1>6. SumFunctionOnSet(LineAmounts, U) = LineAmounts[l] + SumFunctionOnSet(LineAmounts, L)
  <2>1. SumFunctionOnSet(LineAmounts, U) = LineAmounts[l] + SumFunctionOnSet(LineAmounts, U \ {l})
    BY <1>4, <1>5, SumWithout
  <2>2. QED
    BY <1>4, <2>1
<1>7. SumFunctionOnSet(LineAmounts, U) <= SumFunctionOnSet(LineAmounts, M)
  BY <1>3, <1>5, SumOfPart
<1>8. LineAmounts[l] = l.amt /\ l.amt \in Nat
  BY NumbersAre DEF LineAmounts
<1>9. LineTotal(L) + l.amt <= LineTotal(M)
  BY <1>5, <1>6, <1>7, <1>8
<1>10. QED
  BY <1>9 DEF AheadOf, L, M

(* No more than one line is cut: the one the money runs out on.            *)
LEMMA OneCut ==
  ASSUME NEW me, me.seen \in SUBSET Line, IsFiniteSet(me.seen), me.parts[1].amt \in Nat,
         \A l, m \in me.seen : Same(l, m) => l = m
  PROVE  \A l, m \in Cut(me) : l = m
<1>1. ASSUME NEW l \in Cut(me), NEW m \in Cut(me), Before(l, m) PROVE FALSE
  <2>1. l \in me.seen /\ m \in me.seen /\ Moved(me, l) < l.amt /\ Moved(me, m) > 0
    BY DEF Cut, Taken
  <2>2. me.parts[1].amt < AheadOf(me.seen, l) + l.amt
    BY <2>1, MovedIs
  <2>3. AheadOf(me.seen, m) < me.parts[1].amt
    BY <2>1, MovedIs
  <2>4. AheadOf(me.seen, l) + l.amt <= AheadOf(me.seen, m)
    BY <1>1, <2>1, AheadGrows
  <2>5. AheadOf(me.seen, l) \in Nat /\ AheadOf(me.seen, m) \in Nat /\ l.amt \in Nat
    BY <2>1, AheadIs, NumbersAre
  <2>6. QED
    BY <2>2, <2>3, <2>4, <2>5
<1>2. ASSUME NEW l \in Cut(me), NEW m \in Cut(me), l # m PROVE Before(l, m) \/ Before(m, l)
  <2>1. l \in me.seen /\ m \in me.seen
    BY DEF Cut, Taken
  <2>2. ~(l.receipt = m.receipt /\ l.id = m.id)
    BY <1>2, <2>1 DEF Same
  <2>3. l.receipt \in Nat /\ m.receipt \in Nat /\ l.id \in Nat /\ m.id \in Nat
    BY <2>1, NumbersAre
  <2>4. QED
    BY <2>2, <2>3 DEF Before
<1>3. QED
  BY <1>1, <1>2

LEMMA FreeIdIs ==
  ASSUME NEW r, FreeIds(r) # {}
  PROVE  /\ FreeId(r) \in LineIds /\ \A l \in LinesOf(r) : l.id # FreeId(r)
<1> DEFINE R == {ss \in Nat \X Nat : ss[1] < ss[2]}
           T == FreeIds(r)
<1>1. T \subseteq Nat /\ T \subseteq LineIds /\ \A l \in LinesOf(r) : l.id \notin T
  BY LedgerAssumption DEF FreeIds
<1>2. IsWellFoundedOn(R, Nat)
  BY NatLessThanWellFounded DEF OpToRel
<1>3. PICK i \in T : \A j \in T : <<j, i>> \notin R
  <2> HIDE DEF R, T
  <2>1. T # {}
    BY DEF T
  <2>2. QED
    BY <1>1, <1>2, <2>1, WFMin
<1>4. \A j \in T : i <= j
  <2>1. \A j \in T : i \in Nat /\ j \in Nat /\ <<j, i>> \notin R
    BY <1>1, <1>3
  <2>2. \A m, n \in Nat : <<m, n>> \notin R => n <= m
    OBVIOUS
  <2> HIDE DEF R, T
  <2>3. QED
    BY <2>1, <2>2
<1>5. FreeId(r) \in T
  BY <1>3, <1>4 DEF FreeId
<1>6. QED
  BY <1>1, <1>5

(* What each line becomes.                                                 *)
LEMMA AfterIs ==
  ASSUME NEW me, me.seen \in SUBSET Line, IsFiniteSet(me.seen), me.parts[1].amt \in Nat, me.bill \in Bills, NEW l \in Line
  PROVE  /\ After(me, l) \in Line /\ After(me, l).receipt = l.receipt /\ After(me, l).id = l.id
         /\ After(me, l).amt = IF l \in Cut(me) THEN Moved(me, l) ELSE l.amt
<1>1. l = [id |-> l.id, receipt |-> l.receipt, bill |-> l.bill, amt |-> l.amt]
      /\ l.id \in LineIds /\ l.receipt \in Receipts /\ l.amt \in Nat \ {0}
  BY DEF Line
<1>2. CASE l \in Cut(me)
  <2>1. Moved(me, l) \in Nat \ {0}
    <3>1. l \in me.seen /\ Moved(me, l) > 0
      BY <1>2 DEF Cut, Taken
    <3>2. Moved(me, l) \in 0 .. l.amt
      BY <3>1, MovedIs
    <3>3. QED
      BY <1>1, <3>1, <3>2
  <2>2. PICK k : k = Moved(me, l)
    OBVIOUS
  <2>3. After(me, l) = [id |-> l.id, receipt |-> l.receipt, bill |-> me.bill, amt |-> k]
    <3>1. After(me, l) = [l EXCEPT !.bill = me.bill, !.amt = k]
      BY <1>2, <2>2 DEF After
    <3>2. QED
      BY <1>1, <3>1
  <2>4. QED
    BY <1>1, <1>2, <2>1, <2>2, <2>3 DEF Line
<1>3. CASE l \notin Cut(me)
  <2>1. After(me, l) = [l EXCEPT !.bill = me.bill] \/ After(me, l) = l
    BY <1>3 DEF After
  <2>2. [l EXCEPT !.bill = me.bill] = [id |-> l.id, receipt |-> l.receipt, bill |-> me.bill, amt |-> l.amt]
    BY <1>1
  <2>3. QED
    BY <1>1, <1>3, <2>1, <2>2 DEF Line
<1>4. QED
  BY <1>2, <1>3

(* Applying writes what each line becomes, and the rest of the one cut.    *)
LEMMA ApplyIs ==
  ASSUME LedgerInv, NEW d \in Desks, CommitApply(d)
  PROVE  LET me == desk[d]
         IN /\ me.at = "applying" /\ me.seen \subseteq lines /\ me.seen \in SUBSET Line /\ IsFiniteSet(me.seen)
            /\ me.parts[1].amt \in Nat /\ me.bill \in Bills
            /\ \A l, m \in me.seen : Same(l, m) => l = m
            /\ \A l \in Cut(me) : FreeIds(l.receipt) # {}
            /\ lines' = {After(me, l) : l \in lines} \cup {RestOf(me, l) : l \in Cut(me)}
            /\ Goes(d, At("posting", NoReceipt)) /\ UNCHANGED <<receipts, paid, owed>>
<1> DEFINE me == desk[d]
<1>1. /\ me.at = "applying" /\ me \in DeskRows /\ HasRead(me)
      /\ Goes(d, At("posting", NoReceipt)) /\ UNCHANGED <<receipts, paid, owed>>
  BY DEF CommitApply, LedgerInv, TablesInv
<1>2. me.seen \subseteq lines /\ me.bill \in Bills /\ me.parts # <<>> /\ me.parts \in Seq(Parts)
  BY <1>1 DEF HasRead, DeskRows
<1>3. me.seen \in SUBSET Line /\ IsFiniteSet(me.seen)
  BY <1>2, FS_Subset DEF LedgerInv, TablesInv
<1>4. me.parts[1].amt \in Nat
  <2>1. me.parts[1] \in Parts
    BY <1>2
  <2>2. QED
    BY <2>1 DEF Parts
<1>5. \A l, m \in lines : Same(l, m) => l = m
  BY DEF LedgerInv, TablesInv
<1>6. \A l \in Cut(me) : FreeIds(l.receipt) # {}
  BY DEF CommitApply, Cut, Taken
<1> DEFINE now(l) ==
             IF \E t \in Cut(me) : Same(t, l)
             THEN LET t == CHOOSE t \in Cut(me) : Same(t, l)
                  IN [l EXCEPT !.bill = me.bill, !.amt = Moved(me, t)]
             ELSE IF \E t \in Taken(me) : Same(t, l) THEN [l EXCEPT !.bill = me.bill] ELSE l
<1>7. lines' = {now(l) : l \in lines} \cup {RestOf(me, l) : l \in Cut(me)}
  BY DEF CommitApply, Cut, Taken, RestOf
<1> HIDE DEF me
<1>8. ASSUME NEW l \in lines PROVE now(l) = After(me, l)
  <2>1. \A t \in Taken(me) : Same(t, l) <=> t = l
    BY <1>2, <1>5, <1>8 DEF Taken, Same
  <2>2. Cut(me) \subseteq Taken(me)
    BY DEF Cut
  <2>3. CASE l \in Cut(me)
    <3>1. (CHOOSE t \in Cut(me) : Same(t, l)) = l
      BY <2>1, <2>2, <2>3
    <3>2. \E t \in Cut(me) : Same(t, l)
      BY <2>1, <2>2, <2>3
    <3>3. QED
      BY <2>3, <3>1, <3>2 DEF After
  <2>4. CASE l \notin Cut(me)
    <3>1. ~\E t \in Cut(me) : Same(t, l)
      BY <2>1, <2>2, <2>4
    <3>2. (\E t \in Taken(me) : Same(t, l)) <=> l \in Taken(me)
      BY <2>1
    <3>3. QED
      BY <2>4, <3>1, <3>2 DEF After
  <2>5. QED
    BY <2>3, <2>4
<1>9. {now(l) : l \in lines} = {After(me, l) : l \in lines}
  BY <1>8
<1> HIDE DEF now
<1>10. lines' = {After(me, l) : l \in lines} \cup {RestOf(me, l) : l \in Cut(me)}
  BY <1>7, <1>9
<1>11. \A l, m \in me.seen : Same(l, m) => l = m
  BY <1>2, <1>5
<1>12. QED
  BY <1>1, <1>2, <1>3, <1>4, <1>6, <1>10, <1>11 DEF me

(* A set of lines of one receipt is worth what it becomes, but for the one *)
(* that is cut.                                                            *)
LEMMA BecomesIs ==
  ASSUME NEW me, me.seen \in SUBSET Line, IsFiniteSet(me.seen), me.parts[1].amt \in Nat, me.bill \in Bills,
         NEW S \in SUBSET Line, IsFiniteSet(S), \A l, m \in S : Same(l, m) => l = m
  PROVE  LET N == {After(me, l) : l \in S}
             worth == [l \in S |-> After(me, l).amt]
         IN /\ N \subseteq Line /\ IsFiniteSet(N) /\ \A l, m \in N : Same(l, m) => l = m
            /\ Summable(worth, S) /\ LineTotal(N) = SumFunctionOnSet(worth, S)
<1> DEFINE N == {After(me, l) : l \in S}
           worth == [l \in S |-> After(me, l).amt]
           g == [l \in S |-> After(me, l)]
<1>1. \A l \in S : After(me, l) \in Line /\ After(me, l).receipt = l.receipt /\ After(me, l).id = l.id
  BY AfterIs
<1>2. N = Image(g, S)
  BY DEF Image
<1>3. \A l \in S : g[l] = After(me, l) /\ worth[l] = After(me, l).amt
  OBVIOUS
<1>4. Summable(worth, S)
  BY <1>1, <1>3, NumbersAre DEF Summable
<1> HIDE DEF g, worth
<1>5. Renames(g, S)
  BY <1>1, <1>3 DEF Renames, Same
<1>6. \A l \in S : LineAmounts[g[l]] = worth[l]
  BY <1>1, <1>3 DEF LineAmounts
<1>7. Summable(LineAmounts, Image(g, S)) /\ SumFunctionOnSet(LineAmounts, Image(g, S)) = SumFunctionOnSet(worth, S)
  BY <1>4, <1>5, <1>6, SumRenamed
<1>8. N \subseteq Line
  BY <1>1
<1>9. \A l, m \in N : Same(l, m) => l = m
  <2>1. ASSUME NEW l \in S, NEW m \in S, Same(After(me, l), After(me, m)) PROVE l = m
    BY <1>1, <2>1 DEF Same
  <2>2. QED
    BY <2>1
<1> HIDE DEF N
<1>10. IsFiniteSet(N) /\ LineTotal(N) = SumFunctionOnSet(worth, S)
  <2>1. IsFiniteSet(N) /\ SumFunctionOnSet(LineAmounts, N) = SumFunctionOnSet(worth, S)
    BY <1>2, <1>7 DEF Summable
  <2>2. QED
    BY <1>8, <2>1, LineTotalIs
<1>11. QED
  BY <1>4, <1>8, <1>9, <1>10 DEF N, worth

(* Where no line of a receipt is cut, its lines are worth the same.        *)
LEMMA WorthStays ==
  ASSUME NEW me, me.seen \in SUBSET Line, IsFiniteSet(me.seen), me.parts[1].amt \in Nat, me.bill \in Bills,
         NEW S \in SUBSET Line, IsFiniteSet(S), \A l, m \in S : Same(l, m) => l = m, S \cap Cut(me) = {}
  PROVE  LineTotal({After(me, l) : l \in S}) = LineTotal(S)
<1> DEFINE worth == [l \in S |-> After(me, l).amt]
<1>1. Summable(worth, S) /\ LineTotal({After(me, l) : l \in S}) = SumFunctionOnSet(worth, S)
  BY BecomesIs
<1>2. \A l \in S : worth[l] = LineAmounts[l]
  BY AfterIs DEF LineAmounts
<1> HIDE DEF worth
<1>3. Summable(LineAmounts, S) /\ LineTotal(S) = SumFunctionOnSet(LineAmounts, S)
  BY LineTotalIs
<1>4. SumFunctionOnSet(worth, S) = SumFunctionOnSet(LineAmounts, S)
  BY <1>2, <1>3, SumSame
<1>5. QED
  BY <1>1, <1>3, <1>4

(* Where one is, what is left of it makes up the difference.               *)
LEMMA WorthWithRest ==
  ASSUME NEW me, me.seen \in SUBSET Line, IsFiniteSet(me.seen), me.parts[1].amt \in Nat, me.bill \in Bills,
         NEW S \in SUBSET Line, IsFiniteSet(S), \A l, m \in S : Same(l, m) => l = m,
         NEW t \in S, S \cap Cut(me) = {t},
         NEW rest \in Line, rest.amt = t.amt - Moved(me, t), \A l \in S : ~Same(l, rest)
  PROVE  LineTotal({After(me, l) : l \in S} \cup {rest}) = LineTotal(S)
<1> DEFINE worth == [l \in S |-> After(me, l).amt]
           N == {After(me, l) : l \in S}
           U == N \cup {rest}
<1>1. /\ N \subseteq Line /\ IsFiniteSet(N)
      /\ Summable(worth, S) /\ LineTotal(N) = SumFunctionOnSet(worth, S)
  BY BecomesIs
<1>2. rest \notin N
  <2>1. \A l \in S : Same(l, After(me, l))
    BY AfterIs DEF Same
  <2>2. QED
    BY <2>1
<1>3. \A l \in S : worth[l] = IF l = t THEN Moved(me, t) ELSE LineAmounts[l]
  BY AfterIs DEF LineAmounts
<1> HIDE DEF worth, N
<1>4. Summable(LineAmounts, S) /\ LineTotal(S) = SumFunctionOnSet(LineAmounts, S) /\ LineTotal(S) \in Nat
  BY LineTotalIs
<1>5. SumFunctionOnSet(worth, S) = SumFunctionOnSet(LineAmounts, S) - LineAmounts[t] + worth[t]
  <2>1. \A l \in S \ {t} : worth[l] = LineAmounts[l]
    BY <1>3
  <2>2. QED
    BY <1>1, <1>4, <2>1, SumChanged
<1>6. U \in SUBSET Line /\ IsFiniteSet(U) /\ rest \in U /\ U \ {rest} = N
  <2>1. IsFiniteSet(U)
    BY <1>1, FS_AddElement
  <2>2. QED
    BY <1>1, <1>2, <2>1
<1> HIDE DEF U
<1>7. LineTotal(U) = LineAmounts[rest] + LineTotal(N)
  <2>1. Summable(LineAmounts, U) /\ LineTotal(U) = SumFunctionOnSet(LineAmounts, U)
    BY <1>6, LineTotalIs
  <2>2. SumFunctionOnSet(LineAmounts, U) = LineAmounts[rest] + SumFunctionOnSet(LineAmounts, U \ {rest})
    BY <1>6, <2>1, SumWithout
  <2>3. LineTotal(N) = SumFunctionOnSet(LineAmounts, N)
    BY <1>1, LineTotalIs
  <2>4. QED
    BY <1>6, <2>1, <2>2, <2>3
<1>8. LineAmounts[rest] = t.amt - Moved(me, t) /\ LineAmounts[t] = t.amt /\ worth[t] = Moved(me, t)
  BY <1>3 DEF LineAmounts
<1>9. t.amt \in Nat /\ Moved(me, t) \in 0 .. t.amt
  <2>1. t \in me.seen
    BY DEF Cut, Taken
  <2>2. QED
    BY <2>1, MovedIs, NumbersAre
<1>10. LineTotal(U) = LineTotal(S)
  BY <1>1, <1>4, <1>5, <1>7, <1>8, <1>9
<1>11. QED
  BY <1>10 DEF U, N

LEMMA ApplyKept ==
  ASSUME LedgerInv, NEW d \in Desks, CommitApply(d)
  PROVE  LedgerInv'
<1> DEFINE me == desk[d]
           rests == {RestOf(me, l) : l \in Cut(me)}
           nows == {After(me, l) : l \in lines}
<1>1. /\ me.at = "applying" /\ me.seen \subseteq lines /\ me.seen \in SUBSET Line /\ IsFiniteSet(me.seen)
      /\ me.parts[1].amt \in Nat /\ me.bill \in Bills
      /\ \A l, m \in me.seen : Same(l, m) => l = m
      /\ \A l \in Cut(me) : FreeIds(l.receipt) # {}
      /\ lines' = nows \cup rests
      /\ Goes(d, At("posting", NoReceipt)) /\ UNCHANGED <<receipts, paid, owed>>
  BY ApplyIs
<1>2. desk[d] # Idle /\ Applying(d)
  BY <1>1 DEF Idle, Applying
<1>3. lines \in SUBSET Line /\ IsFiniteSet(lines) /\ \A l, m \in lines : Same(l, m) => l = m
  BY DEF LedgerInv, TablesInv
<1> HIDE DEF me
<1>4. Cut(me) \subseteq lines /\ \A l, m \in Cut(me) : l = m
  BY <1>1, OneCut DEF Cut, Taken
<1>5. ASSUME NEW t \in Cut(me)
      PROVE  /\ RestOf(me, t) \in Line /\ RestOf(me, t).receipt = t.receipt
             /\ RestOf(me, t).amt = t.amt - Moved(me, t)
             /\ \A l \in lines : ~Same(l, RestOf(me, t))
  <2>1. t \in Line /\ t \in me.seen /\ Moved(me, t) < t.amt
    BY <1>3, <1>4 DEF Cut, Taken
  <2>2. t.receipt \in Receipts /\ t.amt \in Nat /\ Moved(me, t) \in 0 .. t.amt
    BY <1>1, <2>1, MovedIs, NumbersAre
  <2>3. FreeId(t.receipt) \in LineIds /\ \A l \in LinesOf(t.receipt) : l.id # FreeId(t.receipt)
    BY <1>1, FreeIdIs
  <2>4. t.amt - Moved(me, t) \in Nat \ {0}
    BY <2>1, <2>2
  <2>5. PICK k, a : k = FreeId(t.receipt) /\ a = t.amt - Moved(me, t)
    OBVIOUS
  <2>6. RestOf(me, t) = [id |-> k, receipt |-> t.receipt, bill |-> NoBill, amt |-> a]
    BY <2>5 DEF RestOf
  <2>7. RestOf(me, t) \in Line
    BY <2>2, <2>3, <2>4, <2>5, <2>6 DEF Line
  <2>8. \A l \in lines : ~Same(l, RestOf(me, t))
    BY <2>3, <2>5, <2>6 DEF LinesOf, Same
  <2>9. QED
    BY <2>5, <2>6, <2>7, <2>8
<1>6. /\ nows \subseteq Line /\ IsFiniteSet(nows) /\ \A l, m \in nows : Same(l, m) => l = m
  BY <1>1, <1>3, BecomesIs
<1>7. \A l \in lines : Same(l, After(me, l)) /\ After(me, l).receipt = l.receipt
  BY <1>1, <1>3, AfterIs DEF Same
<1>8. rests \subseteq Line /\ (\A l, m \in rests : l = m) /\ \A l \in nows, m \in rests : ~Same(l, m) /\ ~Same(m, l)
  <2>1. rests \subseteq Line /\ \A l, m \in rests : l = m
    BY <1>4, <1>5
  <2>2. ASSUME NEW l \in lines, NEW t \in Cut(me) PROVE ~Same(After(me, l), RestOf(me, t)) /\ ~Same(RestOf(me, t), After(me, l))
    <3>1. ~Same(l, RestOf(me, t)) /\ Same(l, After(me, l))
      BY <1>5, <1>7
    <3>2. QED
      BY <3>1 DEF Same
  <2>3. QED
    BY <2>1, <2>2
<1>9. IsFiniteSet(rests)
  <2>1. CASE rests = {}
    BY <2>1, FS_EmptySet
  <2>2. CASE rests # {}
    <3>1. PICK x : rests = {x}
      BY <1>8, <2>2
    <3>2. QED
      BY <3>1, FS_Singleton
  <2>3. QED
    BY <2>1, <2>2
<1>10. ASSUME NEW r \in Receipts
       PROVE  /\ LinesOf(r)' = {After(me, l) : l \in LinesOf(r)} \cup {RestOf(me, t) : t \in Cut(me) \cap LinesOf(r)}
              /\ LinesOf(r)' = {} <=> LinesOf(r) = {}
              /\ LineTotal(LinesOf(r)') = LineTotal(LinesOf(r))
  <2> DEFINE S == LinesOf(r)
             N == {After(me, l) : l \in S}
             Q == {RestOf(me, t) : t \in Cut(me) \cap S}
  <2>1. LinesOf(r)' = {l \in lines' : l.receipt = r} /\ S = {l \in lines : l.receipt = r}
    BY DEF LinesOf
  <2>2. {l \in nows : l.receipt = r} = N
    BY <1>7, <2>1
  <2>3. {l \in rests : l.receipt = r} = Q
    BY <1>4, <1>5, <2>1
  <2>4. LinesOf(r)' = N \cup Q
    <3> HIDE DEF S, N, Q, nows, rests
    <3>1. QED
      BY <1>1, <2>1, <2>2, <2>3
  <2>5. S \in SUBSET Line /\ IsFiniteSet(S) /\ S \subseteq lines /\ \A l, m \in S : Same(l, m) => l = m
    <3>1. S \subseteq lines
      BY <2>1
    <3>2. QED
      BY <1>3, <3>1, FS_Subset
  <2> HIDE DEF S
  <2>6. CASE S \cap Cut(me) = {}
    <3>1. Q = {}
      BY <2>6
    <3>2. LineTotal(N) = LineTotal(S)
      BY <1>1, <2>5, <2>6, WorthStays
    <3>3. LinesOf(r)' = N
      BY <2>4, <3>1
    <3>4. QED
      BY <2>4, <3>2, <3>3 DEF S
  <2>7. CASE S \cap Cut(me) # {}
    <3>1. PICK t \in S : S \cap Cut(me) = {t}
      BY <1>4, <2>7
    <3>2. t \in Cut(me) /\ Q = {RestOf(me, t)}
      BY <3>1
    <3> DEFINE rest == RestOf(me, t)
    <3>3. rest \in Line /\ rest.amt = t.amt - Moved(me, t) /\ \A l \in S : ~Same(l, rest)
      BY <1>5, <2>5, <3>2
    <3>4. LinesOf(r)' = N \cup {rest}
      BY <2>4, <3>2
    <3> HIDE DEF rest
    <3>5. LineTotal(N \cup {rest}) = LineTotal(S)
      BY <1>1, <2>5, <3>1, <3>3, WorthWithRest
    <3>6. QED
      BY <2>4, <2>7, <3>4, <3>5 DEF S
  <2>8. QED
    BY <2>6, <2>7
<1>11. lines' \subseteq Line /\ IsFiniteSet(lines') /\ \A l, m \in lines' : Same(l, m) => l = m
  <2> HIDE DEF nows, rests
  <2>1. IsFiniteSet(lines')
    BY <1>1, <1>6, <1>9, FS_Union
  <2>2. QED
    BY <1>1, <1>6, <1>8, <2>1
<1>12. NoLinesYet'
  BY <1>1, <1>10 DEF LedgerInv, NoLinesYet
<1>13. DeskReceiptsAddUp'
  BY <1>1, <1>10 DEF LedgerInv, DeskReceiptsAddUp
<1>14. At("posting", NoReceipt) \in DeskRows /\ At("posting", NoReceipt).at = "posting"
  BY RestingPlaces
<1>15. PaidIsWhatIsConfirmed'
  BY <1>1, <1>14, FiguresToRebuild
<1>16. /\ receipts' \in [Receipts -> [status : Statuses, source : Sources] \cup {Absent}]
       /\ \A q \in Receipts : receipts[q] # Absent => receipts'[q] # Absent
       /\ paid' \in [Bills -> Nat] /\ owed' \in BOOLEAN
  BY <1>1 DEF LedgerInv, TablesInv
<1>17. QED
  BY <1>1, <1>2, <1>11, <1>12, <1>13, <1>14, <1>15, <1>16, WriteEnds

LEMMA LedgerStep ==
  ASSUME ~RewritesOverlap, LedgerInv, [LedgerNext]_ledgerVars
  PROVE  LedgerInv'
<1>1. CASE UNCHANGED ledgerVars
  <2>1. UNCHANGED <<receipts, lines, paid, desk, owed>>
    BY <1>1 DEF ledgerVars
  <2>2. TablesInv' /\ Apart' /\ NoLinesYet'
    BY <2>1 DEF LedgerInv, TablesInv, Same, Apart, Repointing, Applying, NoLinesYet, LinesOf
  <2>5. \A r : LinesOf(r)' = LinesOf(r)
    BY <2>1 DEF LinesOf
  <2>6. \A b : Counted(b)' = Counted(b)
    BY <2>1 DEF Counted
  <2>7. DeskReceiptsAddUp' /\ PaidIsWhatIsConfirmed'
    BY <2>1, <2>5, <2>6 DEF LedgerInv, DeskReceiptsAddUp, PaidIsWhatIsConfirmed
  <2>3. \A d \in Desks : HasRead(desk[d])'
    BY <2>1 DEF LedgerInv, HasRead, LinesOf
  <2>4. QED
    BY <2>2, <2>3, <2>7 DEF LedgerInv
<1>2. ASSUME NEW d \in Desks, CommitRecord(d) PROVE LedgerInv'
  BY <1>2, RecordKept
<1>3. ASSUME NEW d \in Desks, DeleteLines(d) \/ InsertLines(d) PROVE LedgerInv'
  BY <1>3, DeleteKept, InsertKept
<1>4. ASSUME NEW d \in Desks, CommitConfirm(d) \/ CommitHold(d) \/ CommitReject(d) \/ CommitReverse(d) PROVE LedgerInv'
  BY <1>4, DecisionsKept
<1>5. ASSUME NEW d \in Desks, ReadCredit(d) \/ ReadBill(d) \/ CommitApply(d) PROVE LedgerInv'
  BY <1>5, CreditReadKept, BillReadKept, ApplyKept
<1>6. ASSUME NEW d \in Desks, Post(d) \/ Dies(d) PROVE LedgerInv'
  BY <1>6, PostKept, DiesKept
<1>7. ASSUME NEW d \in Desks, NEW r \in Receipts,
             ReadToConfirm(d, r) \/ ReadToHold(d, r) \/ ReadToReject(d, r) \/ ReadToReverse(d, r)
      PROVE  LedgerInv'
  BY <1>7, DecisionsReadKept
<1>8. ASSUME NEW d \in Desks, NEW r \in Receipts, NEW ins \in Orders, ReadFromField(d, r, ins) \/ ReadToRepoint(d, r, ins)
      PROVE  LedgerInv'
  BY <1>8, FromFieldKept, ToRepointKept
<1>9. ASSUME NEW d \in Desks, NEW r \in Receipts, NEW ins \in Orders, NEW s \in From[r], ReadToRecord(d, r, s, ins)
      PROVE  LedgerInv'
  BY <1>9, ToRecordKept
<1>10. CASE Nightly
  BY <1>10, NightlyKept
<1>11. QED
  BY <1>1, <1>2, <1>3, <1>4, <1>5, <1>6, <1>7, <1>8, <1>9, <1>10 DEF LedgerNext

LEMMA LedgerStarts == LedgerInit => LedgerInv
<1> SUFFICES ASSUME LedgerInit PROVE LedgerInv
  OBVIOUS
<1>1. Idle \in DeskRows /\ Idle.at = "idle"
  BY RestingPlaces
<1>2. TablesInv
  BY <1>1, FS_EmptySet DEF LedgerInit, TablesInv
<1>3. Apart /\ NoLinesYet
  BY <1>1 DEF LedgerInit, Apart, Applying, NoLinesYet, LinesOf
<1>4. \A d \in Desks : HasRead(desk[d])
  BY <1>1 DEF LedgerInit, HasRead
<1>5. DeskReceiptsAddUp
  BY DEF LedgerInit, DeskReceiptsAddUp
<1>6. \A b \in Bills : Counted(b) = 0
  <2>1. IsFiniteSet({}) /\ {} \in SUBSET Line
    BY FS_EmptySet
  <2>2. LineTotal({}) = SumFunctionOnSet(LineAmounts, {})
    BY <2>1, LineTotalIs
  <2>3. LineTotal({}) = 0
    BY <2>2, SumOfNone
  <2>4. \A b \in Bills : Counted(b) = LineTotal({})
    BY DEF LedgerInit, Counted
  <2>5. QED
    BY <2>3, <2>4
<1>7. PaidIsWhatIsConfirmed
  BY <1>6 DEF LedgerInit, PaidIsWhatIsConfirmed
<1>8. QED
  BY <1>2, <1>3, <1>4, <1>5, <1>7 DEF LedgerInv

(* Where re-pointing has the customer to itself and credit is applied by   *)
(* one desk at a time, everything said of the ledger and of what the desks *)
(* have read stays true, whatever else overlaps and wherever an operation  *)
(* stops (receipt-service.ts, on-account-service.ts, recompute.ts).        *)
THEOREM LedgerInvariance ==
  ASSUME ~RewritesOverlap
  PROVE  LedgerSpec => []LedgerInv
BY LedgerStarts, LedgerStep, PTL DEF LedgerSpec

(* Rows and operations stay well formed, and no two lines of a receipt     *)
(* have one number.                                                        *)
THEOREM LedgerTypeCorrect ==
  ASSUME ~RewritesOverlap
  PROVE  LedgerSpec => []LedgerTypeOK
<1>1. LedgerInv => LedgerTypeOK
  BY DEF LedgerInv, TablesInv, LedgerTypeOK, Sources, DeskRows
<1>2. QED
  BY <1>1, LedgerInvariance, PTL

(* A receipt taken at a desk is worth what its lines are worth, and a bill *)
(* shows the confirmed money against it but while an operation is about to *)
(* rebuild it or the nightly job owes it: for any bills, receipts, splits  *)
(* and desks.                                                              *)
THEOREM MoneyKept ==
  ASSUME ~RewritesOverlap
  PROVE  LedgerSpec => []MoneyIsKept
<1>1. LedgerInv => MoneyIsKept
  BY DEF LedgerInv, MoneyIsKept
<1>2. QED
  BY <1>1, LedgerInvariance, PTL

-----------------------------------------------------------------------------
(***************************************************************************)
(* The dispatch desk: its invariant, and the steps one by one.             *)
(***************************************************************************)
(* What a person may have in hand.                                         *)
Scans == [kind : {"scan"}, lines : SUBSET Lines, line : Lines, box : Boxes,
          way : {"matched", "allocate", "swap"}, from : Lots \cup {Nothing},
          into : BOOLEAN, substituted : BOOLEAN]
Labels == [kind : {"label"}, lines : SUBSET Lines, line : Lines, lot : Lots, need : Nat]
Edits == [kind : {"edit"}, lines : SUBSET Lines, line : Lines, lot : Lots, own : Nat, qty : Nat]
Releases == [kind : {"release"}, lines : SUBSET Lines, line : Lines, lot : Lots]
Unbills == [kind : {"unbill"}, lines : SUBSET Lines, order : OrderNos]
Verifies == [kind : {"verify"}, lines : SUBSET Lines, order : OrderNos]
Hands == {EmptyHand} \cup Scans \cup Labels \cup Edits \cup Releases \cup Unbills \cup Verifies
HandsInv == hand \in [Packers -> Hands]

(* A box that may be scanned is on no line.                                *)
BoxesInv == \A b \in Boxes : unit[b].status = "available" => unit[b] = NotOn

(* An override is approved by somebody other than whoever asked for it.    *)
Allowed(o) == o.decider \notin {Nothing, o.by}
OverridesInv ==
  \A b \in Boxes : \A l \in Lines :
    override[b][l].state \in {"Approved", "Used"} => Allowed(override[b][l])

(* A box in a scan's hands is still to be had, and is either what the line *)
(* asks for or was allowed there.  It is in one scan's hands.              *)
ScanInv(s) ==
  /\ s.way = "swap" \/ s.from = Nothing
  /\ unit[s.box] = NotOn
  /\ LineSku[s.line] # SkuOf(s.box) => s.substituted
  /\ s.substituted => override[s.box][s.line].state = "Approved"
ScansInv ==
  /\ \A p \in Packers : hand[p].kind = "scan" => ScanInv(hand[p])
  /\ \A p, q \in Packers :
       hand[p].kind = "scan" /\ hand[q].kind = "scan" /\ hand[p].box = hand[q].box => p = q

BoxesKept == BoxesInv /\ OverridesInv /\ ScansInv /\ WrongBoxesAreAllowed

(* Where requests do not cross, what one has read of its lines is so until *)
(* it writes.                                                              *)
Alone ==
  \A p, q \in Packers :
    p # q /\ hand[p] # EmptyHand /\ hand[q] # EmptyHand => hand[p].lines \cap hand[q].lines = {}

KnowsScan(s) ==
  LET lot == LotOf[s.box] IN
  /\ s.lines = {s.line} /\ Scanned(s.line) < Target[s.line]
  /\ s.into <=> alloc[s.line][lot] > 0
  /\ s.way = "matched" => HasLeft(s.line, lot)
  /\ s.way = "swap" => s.from \in Lots \ {lot} /\ HasLeft(s.line, s.from)
Knows(s) ==
  /\ s.kind = "scan" => KnowsScan(s)
  /\ s.kind \in {"label", "edit", "release"} => s.lines = {s.line}
  /\ s.kind = "edit" => s.own = alloc[s.line][s.lot]
  /\ s.kind = "release" => ScannedOfLot(s.line, s.lot) = 0
  /\ s.kind \in {"unbill", "verify"} => s.lines = LinesOn(s.order)
  /\ s.kind = "verify" => \A l \in LinesOn(s.order) : ~Held(l)
LinesKept ==
  ~crossing => /\ Alone /\ \A p \in Packers : Knows(hand[p])
               /\ LotsAreNotOverspent /\ BoxesAreSetAside /\ LinesAreNotOverfilled

DeskInv == DispatchTypeOK /\ HandsInv /\ BoxesKept /\ LinesKept
LEMMA HandKinds ==
  ASSUME NEW s \in Hands
  PROVE  /\ s.kind = "idle" <=> s = EmptyHand
         /\ s.kind = "scan" <=> s \in Scans
         /\ s.kind = "label" <=> s \in Labels
         /\ s.kind = "edit" <=> s \in Edits
         /\ s.kind = "release" <=> s \in Releases
         /\ s.kind = "unbill" <=> s \in Unbills
         /\ s.kind = "verify" <=> s \in Verifies
         /\ s # EmptyHand => s.lines \in SUBSET Lines
BY DEF Hands, EmptyHand, Scans, Labels, Edits, Releases, Unbills, Verifies

LEMMA SomeBoxes ==
  ASSUME NEW S, S \subseteq Boxes
  PROVE  IsFiniteSet(S) /\ Cardinality(S) \in Nat
BY DispatchAssumption, FS_Subset, FS_CardinalityType

(* What was set aside, as sums.                                            *)
LEMMA AllocatedIs ==
  ASSUME DispatchTypeOK, NEW l \in Lines
  PROVE  Allocated(l) \in Nat
<1>1. Summable(alloc[l], Lots)
  BY DispatchAssumption DEF Summable, DispatchTypeOK
<1>2. QED
  BY <1>1, SumTyped DEF Allocated

LEMMA FreeIs ==
  ASSUME DispatchTypeOK, NEW lot \in Lots
  PROVE  Free(lot) \in Int
<1> DEFINE f == [l \in Lines |-> alloc[l][lot]]
<1>1. Summable(f, Lines)
  BY DispatchAssumption DEF Summable, DispatchTypeOK
<1>2. SumFunctionOnSet(f, Lines) \in Nat
  <2> HIDE DEF f
  <2>1. QED
    BY <1>1, SumTyped
<1>3. QED
  BY <1>2, DispatchAssumption DEF Free

LEMMA FreeAfter ==
  ASSUME DispatchTypeOK, DispatchTypeOK', NEW lot \in Lots, NEW l \in Lines,
         \A k \in Lines \ {l} : alloc'[k][lot] = alloc[k][lot]
  PROVE  Free(lot)' = Free(lot) + alloc[l][lot] - alloc'[l][lot]
<1> DEFINE f == [k \in Lines |-> alloc[k][lot]]
           e == [k \in Lines |-> alloc'[k][lot]]
<1>1. Summable(f, Lines) /\ Summable(e, Lines)
  BY DispatchAssumption DEF Summable, DispatchTypeOK
<1>2. \A k \in Lines \ {l} : e[k] = f[k]
  OBVIOUS
<1>3. f[l] = alloc[l][lot] /\ e[l] = alloc'[l][lot] /\ f[l] \in Nat /\ e[l] \in Nat
  BY DEF DispatchTypeOK
<1>4. Free(lot) = Made[lot] - SumFunctionOnSet(f, Lines) /\ Free(lot)' = Made[lot] - SumFunctionOnSet(e, Lines)
  BY DEF Free
<1> HIDE DEF f, e
<1>5. SumFunctionOnSet(e, Lines) = SumFunctionOnSet(f, Lines) - f[l] + e[l]
  BY <1>1, <1>2, SumChanged
<1>6. SumFunctionOnSet(f, Lines) \in Nat /\ Made[lot] \in Nat
  BY <1>1, SumTyped, DispatchAssumption
<1>7. QED
  BY <1>3, <1>4, <1>5, <1>6
-----------------------------------------------------------------------------
(* What somebody has in hand is still so, if his lines were left alone.    *)
LEMMA KnowsStays ==
  ASSUME NEW s \in Hands, Knows(s), s # EmptyHand,
         \A l \in s.lines : On(l)' = On(l) /\ alloc'[l] = alloc[l]
  PROVE  Knows(s)'
<1>1. CASE s.kind = "scan"
  <2>1. s.lines = {s.line} /\ On(s.line)' = On(s.line) /\ alloc'[s.line] = alloc[s.line]
    BY <1>1 DEF Knows, KnowsScan
  <2>2. KnowsScan(s)'
    BY <1>1, <2>1 DEF Knows, KnowsScan, Scanned, HasLeft, ScannedOfLot, OnOfLot
  <2>3. QED
    BY <1>1, <2>2 DEF Knows
<1>2. CASE s.kind \in {"label", "edit", "release"}
  <2>1. s.lines = {s.line} /\ On(s.line)' = On(s.line) /\ alloc'[s.line] = alloc[s.line]
    BY <1>2 DEF Knows
  <2>2. QED
    BY <1>2, <2>1 DEF Knows, ScannedOfLot, OnOfLot
<1>3. CASE s.kind \in {"unbill", "verify"}
  <2>1. s.lines = LinesOn(s.order)
    BY <1>3 DEF Knows
  <2>2. ASSUME NEW l \in LinesOn(s.order), ~Held(l) PROVE ~Held(l)'
    <3>1. On(l)' = On(l) /\ alloc'[l] = alloc[l]
      BY <2>1
    <3>2. QED
      BY <2>2, <3>1 DEF Held, HasUnits, Allocated, Scanned
  <2>3. QED
    BY <1>3, <2>1, <2>2 DEF Knows
<1>4. QED
  BY <1>1, <1>2, <1>3 DEF Hands, Scans, Labels, Edits, Releases, Unbills, Verifies

LEMMA KnowsNothing == Knows(EmptyHand) /\ EmptyHand.kind = "idle"
BY DEF Knows, EmptyHand

(* A request begun.                                                        *)
LEMMA TakeKeeps ==
  ASSUME DeskInv, NEW p \in Packers, NEW w \in Hands, w # EmptyHand, Take(p, w),
         UNCHANGED <<unit, alloc, override, crossing>>,
         w.kind = "scan" => ScanInv(w) /\ ~Locked(w.box), ~crossing => Knows(w)
  PROVE  HandsInv' /\ BoxesKept' /\ LinesKept'
<1>1. HandsInv'
  BY DEF DeskInv, HandsInv, Take
<1>2. hand[p] = EmptyHand /\ \A q \in Packers : hand'[q] = IF q = p THEN w ELSE hand[q]
  BY DEF DeskInv, HandsInv, Take
<1>3. ScansInv'
  <2>1. ASSUME NEW q \in Packers, hand'[q].kind = "scan" PROVE ScanInv(hand[q])' 
    <3>1. CASE q = p
      BY <1>2, <2>1, <3>1 DEF ScanInv
    <3>2. CASE q # p
      BY <1>2, <2>1, <3>2 DEF DeskInv, BoxesKept, ScansInv, ScanInv
    <3>3. QED
      BY <3>1, <3>2
  <2>2. ASSUME NEW q \in Packers, NEW r \in Packers, hand'[q].kind = "scan", hand'[r].kind = "scan", hand'[q].box = hand'[r].box
        PROVE  q = r
    BY <1>2, <2>2 DEF DeskInv, BoxesKept, ScansInv, Locked
  <2>3. QED
    BY <2>1, <2>2 DEF ScansInv
<1>4. BoxesKept'
  BY <1>3 DEF DeskInv, BoxesKept, BoxesInv, OverridesInv, WrongBoxesAreAllowed
<1>5. ASSUME ~crossing PROVE Alone' /\ \A q \in Packers : Knows(hand[q])'
  <2>1. \A l \in w.lines : ~InHand(l)
    BY <1>5 DEF Take, MayTouch
  <2>2. ASSUME NEW q \in Packers, hand[q] # EmptyHand PROVE hand[q].lines \cap w.lines = {}
    <3>1. hand[q].kind # "idle"
      BY <2>2, HandKinds DEF DeskInv, HandsInv
    <3>2. QED
      BY <2>1, <3>1 DEF InHand
  <2>3. Alone'
    BY <1>2, <1>5, <2>2 DEF DeskInv, LinesKept, Alone
  <2>4. ASSUME NEW q \in Packers PROVE Knows(hand[q])'
    <3>1. PICK s : s = hand'[q]
      OBVIOUS
    <3>2. s \in Hands
      BY <1>1, <3>1 DEF HandsInv
    <3>3. Knows(s)
      BY <1>2, <1>5, <3>1 DEF DeskInv, LinesKept
    <3>4. Knows(s)'
      <4>1. CASE s = EmptyHand
        BY <4>1 DEF Knows, EmptyHand
      <4>2. CASE s # EmptyHand
        BY <3>2, <3>3, <4>2, KnowsStays DEF On
      <4>3. QED
        BY <4>1, <4>2
    <3>5. QED
      BY <3>1, <3>4 DEF Knows, KnowsScan
  <2>5. QED
    BY <2>3, <2>4
<1>6. LinesKept'
  BY <1>5 DEF DeskInv, LinesKept, LotsAreNotOverspent, Free, BoxesAreSetAside, ScannedOfLot, OnOfLot, On, LinesAreNotOverfilled, Scanned
<1>7. QED
  BY <1>1, <1>4, <1>6
-----------------------------------------------------------------------------
(* A request that has written is done, and the others go on.               *)
HandsDown == \A q \in Packers : hand'[q] \in {hand[q], EmptyHand}

LEMMA DoneHands ==
  ASSUME HandsInv, NEW p \in Packers, Done(p)
  PROVE  HandsInv' /\ HandsDown /\ hand'[p] = EmptyHand /\ \A q \in Packers : q # p => hand'[q] = hand[q]
BY DEF HandsInv, Done, HandsDown, Hands

LEMMA BoxesStay ==
  ASSUME BoxesKept, HandsInv, HandsDown, UNCHANGED <<unit, override>>
  PROVE  BoxesKept'
<1>1. \A q \in Packers : hand'[q].kind = "scan" => hand'[q] = hand[q]
  BY DEF HandsDown, EmptyHand
<1>2. ScansInv'
  BY <1>1 DEF BoxesKept, ScansInv, ScanInv
<1>3. QED
  BY <1>2 DEF BoxesKept, BoxesInv, OverridesInv, WrongBoxesAreAllowed

(* The lines of L alone are touched, and nobody else has them in hand.     *)
LEMMA HandsStay ==
  ASSUME HandsInv, HandsInv', HandsDown, NEW L, Alone, \A q \in Packers : Knows(hand[q]),
         \A q \in Packers : hand'[q] # EmptyHand => hand[q].lines \cap L = {},
         \A l \in Lines \ L : On(l)' = On(l) /\ alloc'[l] = alloc[l]
  PROVE  Alone' /\ \A q \in Packers : Knows(hand[q])'
<1>1. \A q \in Packers : hand'[q] # EmptyHand => hand'[q] = hand[q]
  BY DEF HandsDown
<1>2. Alone'
  BY <1>1 DEF Alone
<1>3. ASSUME NEW q \in Packers PROVE Knows(hand[q])'
  <2>1. PICK s : s = hand'[q]
    OBVIOUS
  <2>2. s \in Hands
    BY <2>1 DEF HandsInv
  <2>3. Knows(s)'
    <3>1. CASE s = EmptyHand
      BY <3>1 DEF Knows, EmptyHand
    <3>2. CASE s # EmptyHand
      <4>1. s = hand[q] /\ Knows(s)
        BY <1>1, <2>1, <3>2
      <4>2. s.lines \subseteq Lines \ L
        BY <2>1, <2>2, <3>2, <4>1, HandKinds
      <4>3. QED
        BY <2>2, <3>2, <4>1, <4>2, KnowsStays
    <3>3. QED
      BY <3>1, <3>2
  <2>4. QED
    BY <2>1, <2>3 DEF Knows, KnowsScan
<1>4. QED
  BY <1>2, <1>3

(* What is said of one line.                                               *)
Kept(l) ==
  /\ \A lot \in Lots : ScannedOfLot(l, lot) <= alloc[l][lot]
  /\ Scanned(l) <= Target[l]

LEMMA LinesByLine == (\A l \in Lines : Kept(l)) <=> BoxesAreSetAside /\ LinesAreNotOverfilled
BY DEF Kept, BoxesAreSetAside, LinesAreNotOverfilled

LEMMA LinesStay ==
  ASSUME DeskInv, HandsInv', HandsDown, NEW L, crossing' = crossing,
         ~crossing =>
           /\ \A q \in Packers : hand'[q] # EmptyHand => hand[q].lines \cap L = {}
           /\ \A l \in Lines \ L : On(l)' = On(l) /\ alloc'[l] = alloc[l]
           /\ \A l \in L \cap Lines : Kept(l)'
           /\ \A lot \in Lots : Free(lot)' >= 0
  PROVE  LinesKept'
<1> SUFFICES ASSUME ~crossing
             PROVE  /\ Alone' /\ \A q \in Packers : Knows(hand[q])'
                    /\ LotsAreNotOverspent' /\ BoxesAreSetAside' /\ LinesAreNotOverfilled'
  BY DEF LinesKept
<1>1. HandsInv /\ Alone /\ (\A q \in Packers : Knows(hand[q])) /\ \A l \in Lines : Kept(l)
  BY LinesByLine DEF DeskInv, LinesKept
<1>2. Alone' /\ \A q \in Packers : Knows(hand[q])'
  BY <1>1, HandsStay
<1>3. LotsAreNotOverspent'
  BY DEF LotsAreNotOverspent
<1>4. ASSUME NEW l \in Lines PROVE Kept(l)'
  <2>1. CASE l \in L
    BY <2>1
  <2>2. CASE l \notin L
    BY <1>1, <2>2 DEF Kept, ScannedOfLot, OnOfLot, Scanned
  <2>3. QED
    BY <2>1, <2>2
<1>5. QED
  BY <1>2, <1>3, <1>4, LinesByLine DEF Kept, BoxesAreSetAside, LinesAreNotOverfilled

(* What somebody has in hand, nobody else does; and what nobody has.       *)
LEMMA OthersApart ==
  ASSUME HandsInv, Alone, NEW p \in Packers, hand[p] # EmptyHand, Done(p)
  PROVE  \A q \in Packers : hand'[q] # EmptyHand => hand[q].lines \cap hand[p].lines = {}
<1>1. hand'[p] = EmptyHand /\ \A q \in Packers : q # p => hand'[q] = hand[q]
  BY DoneHands
<1>2. QED
  BY <1>1 DEF Alone

LEMMA FreeOfHands ==
  ASSUME HandsInv, ~crossing, NEW L, MayTouch(L)
  PROVE  \A q \in Packers : hand[q] # EmptyHand => hand[q].lines \cap L = {}
<1>1. ASSUME NEW q \in Packers, hand[q] # EmptyHand PROVE hand[q].kind # "idle"
  BY <1>1, HandKinds DEF HandsInv
<1>2. QED
  BY <1>1 DEF MayTouch, InHand

LEMMA FreeStays ==
  ASSUME alloc' = alloc, NEW lot PROVE Free(lot)' = Free(lot)
BY DEF Free

(* A box off the line or on it.                                            *)
LEMMA FewerOn ==
  ASSUME DispatchTypeOK, NEW l \in Lines, Kept(l), On(l)' \subseteq On(l), alloc' = alloc
  PROVE  Kept(l)'
<1>1. On(l) \subseteq Boxes
  BY DEF On
<1>2. Cardinality(On(l)') <= Cardinality(On(l)) /\ Cardinality(On(l)') \in Nat /\ Cardinality(On(l)) \in Nat
  BY <1>1, SomeBoxes, FS_Subset
<1>3. ASSUME NEW lot \in Lots
      PROVE  /\ Cardinality(OnOfLot(l, lot)') <= Cardinality(OnOfLot(l, lot))
             /\ Cardinality(OnOfLot(l, lot)') \in Nat /\ Cardinality(OnOfLot(l, lot)) \in Nat
  <2>1. OnOfLot(l, lot)' \subseteq OnOfLot(l, lot) /\ OnOfLot(l, lot) \subseteq Boxes
    BY <1>1 DEF OnOfLot
  <2>2. QED
    BY <2>1, SomeBoxes, FS_Subset
<1>4. Target[l] \in Nat /\ \A lot \in Lots : alloc[l][lot] \in Nat
  BY DispatchAssumption DEF DispatchTypeOK
<1>5. Scanned(l)' <= Target[l]
  BY <1>2, <1>4 DEF Kept, Scanned
<1>6. ASSUME NEW lot \in Lots PROVE ScannedOfLot(l, lot)' <= alloc'[l][lot]
  BY <1>3, <1>4 DEF Kept, ScannedOfLot
<1>7. QED
  BY <1>5, <1>6 DEF Kept
-----------------------------------------------------------------------------
TablesTyped ==
  /\ unit \in [Boxes -> [status : {"available", "scanned", "dispatched", "hold", "rejected", "returned"},
                         line : Lines \cup {Nothing}]]
  /\ alloc \in [Lines -> [Lots -> Nat]]
  /\ billing \in [OrderNos -> {"none", "Pending", "Approved", "Verified"}]
  /\ override \in [Boxes -> [Lines -> OverrideRows]]

(* One override of one box on one line.                                    *)
LEMMA OverrideIs ==
  ASSUME TablesTyped, NEW b \in Boxes, NEW l \in Lines, NEW o,
         o \in OverrideRows,
         override' = [override EXCEPT ![b][l] = o]
  PROVE  /\ override' \in [Boxes -> [Lines -> OverrideRows]]
         /\ override'[b][l] = o
         /\ \A x \in Boxes : \A y \in Lines : x # b \/ y # l => override'[x][y] = override[x][y]
BY DEF TablesTyped

Uses(b, l) == override' = [override EXCEPT ![b][l] = [@ EXCEPT !.state = "Used"]]

LEMMA UsedIs ==
  ASSUME TablesTyped, NEW b \in Boxes, NEW l \in Lines, Uses(b, l)
  PROVE  /\ override' \in [Boxes -> [Lines -> OverrideRows]]
         /\ override'[b][l].state = "Used"
         /\ override'[b][l].by = override[b][l].by /\ override'[b][l].decider = override[b][l].decider
         /\ \A x \in Boxes : \A y \in Lines : x # b \/ y # l => override'[x][y] = override[x][y]
<1>0. PICK k : k = override[b][l]
  OBVIOUS
<1>1. PICK o : k = override[b][l] /\ o = [k EXCEPT !.state = "Used"]
  BY <1>0
<1>2. k \in OverrideRows
  BY <1>1 DEF TablesTyped
<1>3. /\ o \in OverrideRows
      /\ o.state = "Used" /\ o.by = k.by /\ o.decider = k.decider
  BY <1>1, <1>2 DEF OverrideRows
<1>4. override' = [override EXCEPT ![b][l] = o]
  BY <1>1 DEF TablesTyped, Uses
<1>5. QED
  <2>1. /\ override' \in [Boxes -> [Lines -> OverrideRows]] /\ override'[b][l] = o
        /\ \A x \in Boxes : \A y \in Lines : x # b \/ y # l => override'[x][y] = override[x][y]
    BY ONLY TablesTyped, b \in Boxes, l \in Lines, <1>3, <1>4 DEF TablesTyped
  <2>2. QED
    BY <1>1, <1>3, <2>1

LEMMA Typed == DispatchTypeOK => TablesTyped
BY DEF DispatchTypeOK, TablesTyped

LEMMA TypedBy ==
  ASSUME HandsInv', TablesTyped' PROVE DispatchTypeOK'
<1>1. ASSUME NEW q \in Packers PROVE hand'[q] = EmptyHand \/ hand'[q].lines \subseteq Lines
  <2>1. PICK s : s = hand'[q]
    OBVIOUS
  <2>2. s \in Hands
    BY <2>1 DEF HandsInv
  <2>3. QED
    BY <2>1, <2>2, HandKinds
<1>2. QED
  BY <1>1 DEF DispatchTypeOK, TablesTyped

LEMMA DeskInitInv == DispatchInit => DeskInv
<1> SUFFICES ASSUME DispatchInit PROVE DeskInv
  OBVIOUS
<1>1. HandsInv /\ \A p \in Packers : hand[p] = EmptyHand /\ hand[p].kind = "idle"
  BY DEF DispatchInit, HandsInv, Hands, EmptyHand
<1>2. TablesTyped /\ \A b \in Boxes : unit[b] = NotOn
  BY DEF DispatchInit, TablesTyped, NotOn, NoOverride, OverrideRows
<1>3. DispatchTypeOK
  BY <1>1, <1>2 DEF DispatchTypeOK, TablesTyped
<1>4. BoxesKept
  <2>1. \A b \in Boxes : unit[b].line = Nothing
    BY <1>2 DEF NotOn
  <2>2. \A b \in Boxes : \A l \in Lines : override[b][l].state = "none"
    BY DEF DispatchInit, NoOverride
  <2>3. QED
    BY <1>1, <1>2, <2>1, <2>2, DispatchAssumption DEF BoxesKept, BoxesInv, OverridesInv, ScansInv, WrongBoxesAreAllowed
<1>5. \A l \in Lines : On(l) = {}
  BY <1>2, DispatchAssumption DEF On, NotOn
<1>6. BoxesAreSetAside /\ LinesAreNotOverfilled
  <2>1. \A l \in Lines : Scanned(l) = 0 /\ \A lot \in Lots : ScannedOfLot(l, lot) = 0
    BY <1>5, FS_EmptySet DEF Scanned, ScannedOfLot, OnOfLot
  <2>2. \A l \in Lines : Target[l] >= 0 /\ \A lot \in Lots : alloc[l][lot] = 0
    BY DispatchAssumption DEF DispatchInit
  <2>3. QED
    BY <2>1, <2>2 DEF BoxesAreSetAside, LinesAreNotOverfilled
<1>7. LotsAreNotOverspent
  <2>1. ASSUME NEW lot \in Lots PROVE Free(lot) >= 0
    <3> DEFINE f == [l \in Lines |-> alloc[l][lot]]
    <3>1. \A l \in Lines : f[l] = 0
      BY DEF DispatchInit
    <3>2. Free(lot) = Made[lot] - SumFunctionOnSet(f, Lines)
      BY DEF Free
    <3> HIDE DEF f
    <3>3. SumFunctionOnSet(f, Lines) = 0
      BY <3>1, SumOfZeros, DispatchAssumption
    <3>4. QED
      BY <3>2, <3>3, DispatchAssumption
  <2>2. QED
    BY <2>1 DEF LotsAreNotOverspent
<1>8. LinesKept
  BY <1>1, <1>6, <1>7 DEF LinesKept, Alone, Knows
<1>9. QED
  BY <1>1, <1>3, <1>4, <1>8 DEF DeskInv
-----------------------------------------------------------------------------
(* The requests that read.                                                 *)
LEMMA Began ==
  ASSUME DeskInv, NEW p \in Packers, NEW w \in Hands, w # EmptyHand, Take(p, w),
         UNCHANGED <<unit, alloc, billing, override, crossing>>,
         w.kind = "scan" => ScanInv(w) /\ ~Locked(w.box), ~crossing => Knows(w)
  PROVE  DeskInv'
<1>1. HandsInv' /\ BoxesKept' /\ LinesKept'
  BY TakeKeeps
<1>2. TablesTyped'
  BY Typed DEF DeskInv, TablesTyped
<1>3. QED
  BY <1>1, <1>2, TypedBy DEF DeskInv

LEMMA ScanBoxInv ==
  ASSUME DeskInv, NEW p \in Packers, NEW b \in Boxes, NEW o \in OrderNos, ScanBox(p, b, o)
  PROVE  DeskInv'
<1>0. PICK l \in LinesFor(b, o) : \E w \in AllocationFor(l, LotOf[b]) :
        Take(p, [kind |-> "scan", lines |-> {l}, line |-> l, box |-> b,
                 way |-> w.way, from |-> w.from, into |-> alloc[l][LotOf[b]] > 0,
                 substituted |-> l \in ApprovedFor(b, o) /\ LineSku[l] # SkuOf(b)])
  BY DEF ScanBox
<1>1. PICK w \in AllocationFor(l, LotOf[b]) :
        Take(p, [kind |-> "scan", lines |-> {l}, line |-> l, box |-> b,
                 way |-> w.way, from |-> w.from, into |-> alloc[l][LotOf[b]] > 0,
                 substituted |-> l \in ApprovedFor(b, o) /\ LineSku[l] # SkuOf(b)])
  BY <1>0
<1> DEFINE lot == LotOf[b]
           s == [kind |-> "scan", lines |-> {l}, line |-> l, box |-> b,
                 way |-> w.way, from |-> w.from, into |-> alloc[l][lot] > 0,
                 substituted |-> l \in ApprovedFor(b, o) /\ LineSku[l] # SkuOf(b)]
<1>2. l \in Lines /\ Scanned(l) < Target[l]
  BY DEF LinesFor, OpenLines, LinesOn
<1>3. LineSku[l] # SkuOf(b) => l \in ApprovedFor(b, o)
  BY DEF LinesFor
<1>4. /\ w.way \in {"matched", "allocate", "swap"} /\ w.from \in Lots \cup {Nothing}
      /\ w.way = "swap" \/ w.from = Nothing
      /\ w.way = "matched" => HasLeft(l, lot)
      /\ w.way = "swap" => w.from \in Lots \ {lot} /\ HasLeft(l, w.from)
  BY DEF AllocationFor, Givers
<1>5. s \in Scans
  BY <1>2, <1>4 DEF Scans
<1>6. s \in Hands /\ s # EmptyHand /\ s.kind = "scan"
  BY <1>5 DEF Hands, EmptyHand
<1>7. ScanInv(s)
  BY <1>3, <1>4 DEF ScanInv, ScanBox, DeskInv, BoxesKept, BoxesInv, ApprovedFor
<1>8. KnowsScan(s)
  BY <1>2, <1>4 DEF KnowsScan
<1>9. Take(p, s) /\ ~Locked(s.box) /\ UNCHANGED <<unit, alloc, billing, override, crossing>>
  BY <1>1 DEF ScanBox
<1>10. Knows(s)
  BY <1>6, <1>8 DEF Knows
<1> HIDE DEF s
<1>11. QED
  BY <1>6, <1>7, <1>9, <1>10, Began

LEMMA ScanLotInv ==
  ASSUME DeskInv, NEW p \in Packers, NEW lot \in Lots, NEW o \in OrderNos, ScanLot(p, lot, o)
  PROVE  DeskInv'
<1>1. PICK l \in OpenLines(o) :
        /\ Allocated(l) < Target[l]
        /\ Take(p, [kind |-> "label", lines |-> {l}, line |-> l, lot |-> lot, need |-> Target[l] - Allocated(l)])
  BY DEF ScanLot
<1> DEFINE s == [kind |-> "label", lines |-> {l}, line |-> l, lot |-> lot, need |-> Target[l] - Allocated(l)]
<1>2. l \in Lines
  BY DEF OpenLines, LinesOn
<1>3. Target[l] - Allocated(l) \in Nat
  <2>1. Target[l] \in Nat /\ Allocated(l) \in Nat
    BY <1>2, AllocatedIs, DispatchAssumption DEF DeskInv
  <2>2. QED
    BY <1>1, <2>1
<1>4. s \in Labels
  BY <1>2, <1>3 DEF Labels
<1>5. s \in Hands /\ s # EmptyHand /\ s.kind = "label"
  BY <1>4 DEF Hands, EmptyHand
<1>6. Knows(s)
  BY DEF Knows
<1>7. Take(p, s) /\ UNCHANGED <<unit, alloc, billing, override, crossing>>
  BY <1>1 DEF ScanLot
<1> HIDE DEF s
<1>8. QED
  BY <1>5, <1>6, <1>7, Began

LEMMA EditQuantityInv ==
  ASSUME DeskInv, NEW p \in Packers, NEW l \in Lines, NEW lot \in Lots, NEW n \in 1 .. Target[l], EditQuantity(p, l, lot, n)
  PROVE  DeskInv'
<1> DEFINE s == [kind |-> "edit", lines |-> {l}, line |-> l, lot |-> lot, own |-> alloc[l][lot], qty |-> n]
<1>1. s \in Edits
  BY DispatchAssumption DEF Edits, DeskInv, DispatchTypeOK
<1>2. s \in Hands /\ s # EmptyHand /\ s.kind = "edit"
  BY <1>1 DEF Hands, EmptyHand
<1>3. Knows(s)
  BY DEF Knows
<1>4. Take(p, s) /\ UNCHANGED <<unit, alloc, billing, override, crossing>>
  BY DEF EditQuantity
<1> HIDE DEF s
<1>5. QED
  BY <1>2, <1>3, <1>4, Began

LEMMA ReleaseLotInv ==
  ASSUME DeskInv, NEW p \in Packers, NEW l \in Lines, NEW lot \in Lots, ReleaseLot(p, l, lot)
  PROVE  DeskInv'
<1> DEFINE s == [kind |-> "release", lines |-> {l}, line |-> l, lot |-> lot]
<1>1. s \in Releases
  BY DEF Releases
<1>2. s \in Hands /\ s # EmptyHand /\ s.kind = "release"
  BY <1>1 DEF Hands, EmptyHand
<1>3. Knows(s)
  BY DEF Knows, ReleaseLot
<1>4. Take(p, s) /\ UNCHANGED <<unit, alloc, billing, override, crossing>>
  BY DEF ReleaseLot
<1> HIDE DEF s
<1>5. QED
  BY <1>2, <1>3, <1>4, Began

LEMMA UnbillInv ==
  ASSUME DeskInv, NEW p \in Packers, NEW o \in OrderNos, Unbill(p, o)
  PROVE  DeskInv'
<1> DEFINE s == [kind |-> "unbill", lines |-> LinesOn(o), order |-> o]
<1>1. s \in Unbills
  BY DEF Unbills, LinesOn
<1>2. s \in Hands /\ s # EmptyHand /\ s.kind = "unbill"
  BY <1>1 DEF Hands, EmptyHand
<1>3. Knows(s)
  BY DEF Knows
<1>4. Take(p, s) /\ UNCHANGED <<unit, alloc, billing, override, crossing>>
  BY DEF Unbill
<1> HIDE DEF s
<1>5. QED
  BY <1>2, <1>3, <1>4, Began

LEMMA VerifyInv ==
  ASSUME DeskInv, NEW p \in Packers, NEW o \in OrderNos, Verify(p, o)
  PROVE  DeskInv'
<1> DEFINE s == [kind |-> "verify", lines |-> LinesOn(o), order |-> o]
<1>1. s \in Verifies
  BY DEF Verifies, LinesOn
<1>2. s \in Hands /\ s # EmptyHand /\ s.kind = "verify"
  BY <1>1 DEF Hands, EmptyHand
<1>3. Knows(s)
  BY DEF Knows, Verify
<1>4. Take(p, s) /\ UNCHANGED <<unit, alloc, billing, override, crossing>>
  BY DEF Verify
<1> HIDE DEF s
<1>5. QED
  BY <1>2, <1>3, <1>4, Began
-----------------------------------------------------------------------------
(* The rest of a scan.                                                     *)
LEMMA GivenIs ==
  ASSUME TablesTyped, NEW s \in Scans, NEW lot \in Lots, alloc' = Given(s, lot),
         s.from = Nothing \/ alloc[s.line][s.from] > 0
  PROVE  /\ alloc' \in [Lines -> [Lots -> Nat]]
         /\ \A k \in Lines \ {s.line} : alloc'[k] = alloc[k]
         /\ \A x \in Lots : alloc'[s.line][x] =
              IF x = lot THEN alloc[s.line][x] + (IF s.into /\ alloc[s.line][lot] = 0 THEN 0 ELSE 1)
              ELSE IF x = s.from THEN alloc[s.line][x] - 1 ELSE alloc[s.line][x]
<1> DEFINE row == [x \in Lots |-> IF x = lot THEN alloc[s.line][x] + (IF s.into /\ alloc[s.line][lot] = 0 THEN 0 ELSE 1)
                                  ELSE IF x = s.from THEN alloc[s.line][x] - 1 ELSE alloc[s.line][x]]
<1>1. alloc' = [alloc EXCEPT ![s.line] = row]
  BY DEF Given
<1>2. s.line \in Lines /\ alloc[s.line] \in [Lots -> Nat]
  BY DEF Scans, TablesTyped
<1>3. row \in [Lots -> Nat]
  <2>1. ASSUME NEW x \in Lots PROVE row[x] \in Nat
    <3>1. alloc[s.line][x] \in Nat
      BY <1>2
    <3>2. x = s.from => alloc[s.line][x] > 0
      BY DispatchAssumption
    <3>3. QED
      BY <3>1, <3>2
  <2>2. QED
    BY <2>1
<1>4. \A x \in Lots : row[x] =
        IF x = lot THEN alloc[s.line][x] + (IF s.into /\ alloc[s.line][lot] = 0 THEN 0 ELSE 1)
        ELSE IF x = s.from THEN alloc[s.line][x] - 1 ELSE alloc[s.line][x]
  OBVIOUS
<1> HIDE DEF row
<1>5. alloc'[s.line] = row /\ \A k \in Lines \ {s.line} : alloc'[k] = alloc[k]
  BY <1>1, <1>2 DEF TablesTyped
<1>6. alloc' \in [Lines -> [Lots -> Nat]]
  BY <1>1, <1>3 DEF TablesTyped
<1>7. QED
  BY <1>4, <1>5, <1>6

LEMMA FinishScanTyped ==
  ASSUME DeskInv, NEW p \in Packers, FinishScan(p)
  PROVE  /\ hand[p] \in Scans /\ HandsInv' /\ TablesTyped' /\ ScanInv(hand[p])
         /\ (hand[p].way = "matched" /\ alloc' = alloc)
              \/ /\ hand[p].way # "matched" /\ Free(LotOf[hand[p].box]) >= 1
                 /\ hand[p].from = Nothing \/ alloc[hand[p].line][hand[p].from] > 0
                 /\ alloc' = Given(hand[p], LotOf[hand[p].box])
<1>1. PICK s : s = hand[p]
  OBVIOUS
<1>2. s \in Hands /\ s.kind = "scan"
  BY <1>1 DEF DeskInv, HandsInv, FinishScan
<1>3. s \in Scans /\ LotOf[s.box] \in Lots
  <2>1. s \in Scans
    BY <1>2, HandKinds
  <2>2. s.box \in Boxes
    BY <2>1 DEF Scans
  <2>3. QED
    BY <2>1, <2>2, DispatchAssumption
<1>4. ScanInv(s)
  BY <1>1, <1>2 DEF DeskInv, BoxesKept, ScansInv
<1>5. \/ s.way = "matched" /\ alloc' = alloc
      \/ /\ s.way # "matched" /\ Free(LotOf[s.box]) >= 1
         /\ s.from = Nothing \/ alloc[s.line][s.from] > 0
         /\ alloc' = Given(s, LotOf[s.box])
  BY <1>1, <1>4 DEF FinishScan, ScanInv
<1>6. HandsInv'
  BY DoneHands DEF DeskInv, FinishScan
<1>7. TablesTyped
  BY Typed DEF DeskInv
<1>8. alloc' \in [Lines -> [Lots -> Nat]]
  BY <1>3, <1>5, <1>7, GivenIs DEF TablesTyped
<1>9. unit' = [unit EXCEPT ![s.box] = [status |-> "scanned", line |-> s.line]] /\ s.line \in Lines
  BY <1>1, <1>3 DEF FinishScan, PutOn, Scans
<1>10. override' \in [Boxes -> [Lines -> OverrideRows]]
  <2>1. CASE s.substituted
    <3>1. Uses(s.box, s.line)
      BY <1>1, <2>1 DEF FinishScan, PutOn, Uses
    <3>2. QED
      BY <1>3, <1>7, <3>1, UsedIs DEF Scans
  <2>2. CASE ~s.substituted
    BY <1>1, <1>7, <2>2 DEF FinishScan, PutOn, TablesTyped
  <2>3. QED
    BY <2>1, <2>2
<1>11. TablesTyped'
  <2>1. s.box \in Boxes /\ billing' = billing
    BY <1>3 DEF Scans, FinishScan
  <2>2. QED
    BY <1>7, <1>8, <1>9, <1>10, <2>1 DEF TablesTyped
<1>12. QED
  BY <1>1, <1>3, <1>4, <1>5, <1>6, <1>11

LEMMA FinishScanBoxes ==
  ASSUME DeskInv, NEW p \in Packers, FinishScan(p)
  PROVE  BoxesKept'
<1>1. PICK s : s = hand[p]
  OBVIOUS
<1>2. s \in Scans /\ ScanInv(s) /\ TablesTyped /\ s.box \in Boxes /\ s.line \in Lines /\ s.kind = "scan"
  BY <1>1, FinishScanTyped, Typed DEF DeskInv, Scans
<1>3. unit'[s.box] = [status |-> "scanned", line |-> s.line] /\ \A b \in Boxes \ {s.box} : unit'[b] = unit[b]
  BY <1>1, <1>2 DEF FinishScan, PutOn, TablesTyped
<1>4. /\ \A b \in Boxes : \A l \in Lines : b # s.box \/ l # s.line => override'[b][l] = override[b][l]
      /\ ~s.substituted => override'[s.box][s.line] = override[s.box][s.line]
      /\ s.substituted =>
           /\ override'[s.box][s.line].state = "Used"
           /\ override'[s.box][s.line].by = override[s.box][s.line].by
           /\ override'[s.box][s.line].decider = override[s.box][s.line].decider
  <2>1. CASE s.substituted
    <3>1. Uses(s.box, s.line)
      BY <1>1, <2>1 DEF FinishScan, PutOn, Uses
    <3>2. /\ override'[s.box][s.line].state = "Used"
          /\ override'[s.box][s.line].by = override[s.box][s.line].by
          /\ override'[s.box][s.line].decider = override[s.box][s.line].decider
          /\ \A x \in Boxes : \A y \in Lines : x # s.box \/ y # s.line => override'[x][y] = override[x][y]
      BY <1>2, <3>1, UsedIs
    <3>3. QED
      BY <2>1, <3>2
  <2>2. CASE ~s.substituted
    BY <1>1, <2>2 DEF FinishScan, PutOn
  <2>3. QED
    BY <2>1, <2>2
<1>5. BoxesInv'
  BY <1>3 DEF BoxesInv, DeskInv, BoxesKept
<1>6. \A b \in Boxes : \A l \in Lines : Allowed(override'[b][l]) \/ override'[b][l] = override[b][l]
  BY <1>2, <1>4 DEF OverridesInv, DeskInv, BoxesKept, Allowed, ScanInv
<1>7. OverridesInv'
  BY <1>6 DEF OverridesInv, DeskInv, BoxesKept, Allowed
<1>8. WrongBoxesAreAllowed'
  <2>1. ASSUME NEW b \in Boxes, NEW l \in Lines, unit'[b].line = l, LineSku[l] # SkuOf(b)
        PROVE  override'[b][l].state = "Used" /\ override'[b][l].decider \notin {Nothing, override'[b][l].by}
    <3>1. CASE b = s.box
      <4>1. l = s.line
        BY <1>3, <2>1, <3>1
      <4>2. s.substituted
        BY <1>2, <2>1, <3>1, <4>1 DEF ScanInv
      <4>3. QED
        BY <1>2, <1>4, <3>1, <4>1, <4>2 DEF ScanInv, OverridesInv, DeskInv, BoxesKept, Allowed
    <3>2. CASE b # s.box
      BY <1>3, <1>4, <2>1, <3>2 DEF WrongBoxesAreAllowed, DeskInv, BoxesKept
    <3>3. QED
      BY <3>1, <3>2
  <2>2. QED
    BY <2>1 DEF WrongBoxesAreAllowed, SkuOf
<1>9. ScansInv'
  <2>1. hand'[p] = EmptyHand /\ \A q \in Packers : q # p => hand'[q] = hand[q]
    BY DoneHands DEF DeskInv, FinishScan
  <2>2. ASSUME NEW q \in Packers, hand'[q].kind = "scan"
        PROVE  q # p /\ hand'[q] = hand[q] /\ hand[q] \in Scans /\ hand[q].box # s.box
    <3>1. q # p /\ hand'[q] = hand[q]
      BY <2>1, <2>2 DEF EmptyHand
    <3>2. hand[q] \in Scans
      BY <2>2, <3>1, HandKinds DEF DeskInv, HandsInv
    <3>3. hand[q].box # s.box
      BY <1>1, <1>2, <2>2, <3>1 DEF DeskInv, BoxesKept, ScansInv
    <3>4. QED
      BY <3>1, <3>2, <3>3
  <2>3. ASSUME NEW q \in Packers, hand'[q].kind = "scan" PROVE ScanInv(hand[q])'
    <3>1. q # p /\ hand'[q] = hand[q] /\ hand[q] \in Scans /\ hand[q].box # s.box
      BY <2>2, <2>3
    <3>2. hand[q].box \in Boxes /\ hand[q].line \in Lines
      BY <3>1 DEF Scans
    <3>3. ScanInv(hand[q])
      BY <2>3, <3>1 DEF DeskInv, BoxesKept, ScansInv
    <3>4. QED
      BY <1>3, <1>4, <3>1, <3>2, <3>3 DEF ScanInv, SkuOf
  <2>4. ASSUME NEW q \in Packers, NEW r \in Packers, hand'[q].kind = "scan", hand'[r].kind = "scan", hand'[q].box = hand'[r].box
        PROVE  q = r
    BY <2>2, <2>4 DEF DeskInv, BoxesKept, ScansInv
  <2>5. QED
    BY <2>3, <2>4 DEF ScansInv
<1>10. QED
  BY <1>5, <1>7, <1>8, <1>9 DEF BoxesKept

LEMMA FinishScanLines ==
  ASSUME DeskInv, NEW p \in Packers, FinishScan(p), DispatchTypeOK'
  PROVE  LinesKept'
<1>1. PICK s : s = hand[p]
  OBVIOUS
<1>2. /\ s \in Scans /\ ScanInv(s) /\ TablesTyped /\ HandsInv' /\ s.box \in Boxes /\ s.line \in Lines
      /\ s.kind = "scan" /\ s # EmptyHand
  BY <1>1, FinishScanTyped, Typed DEF DeskInv, Scans, EmptyHand
<1>3. PICK lot : lot = LotOf[s.box]
  OBVIOUS
<1>4. lot \in Lots
  BY <1>2, <1>3, DispatchAssumption
<1>5. \/ s.way = "matched" /\ alloc' = alloc
      \/ /\ s.way # "matched" /\ Free(lot) >= 1
         /\ s.from = Nothing \/ alloc[s.line][s.from] > 0
         /\ alloc' = Given(s, lot)
  BY <1>1, <1>3, FinishScanTyped
<1>6. /\ \A k \in Lines \ {s.line} : alloc'[k] = alloc[k]
      /\ \A x \in Lots : alloc[s.line][x] \in Nat /\ alloc'[s.line][x] \in Nat
  BY <1>2, <1>4, <1>5, GivenIs DEF TablesTyped
<1>7. unit'[s.box] = [status |-> "scanned", line |-> s.line] /\ \A b \in Boxes \ {s.box} : unit'[b] = unit[b]
  BY <1>1, <1>2 DEF FinishScan, PutOn, TablesTyped
<1>8. unit[s.box].line = Nothing /\ Nothing \notin Lines
  BY <1>2, DispatchAssumption DEF ScanInv, NotOn
<1>9. ASSUME NEW l \in Lines PROVE On(l)' = IF l = s.line THEN On(l) \cup {s.box} ELSE On(l)
  BY <1>2, <1>7, <1>8, <1>9 DEF On
<1>10. s.box \notin On(s.line) /\ On(s.line) \subseteq Boxes
  BY <1>2, <1>8 DEF On
<1>11. ASSUME ~crossing
       PROVE  /\ \A q \in Packers : hand'[q] # EmptyHand => hand[q].lines \cap {s.line} = {}
              /\ KnowsScan(s) /\ Kept(s.line) /\ \A x \in Lots : Free(x) >= 0
  <2>1. Knows(s) /\ Alone /\ Kept(s.line) /\ \A x \in Lots : Free(x) >= 0
    BY <1>1, <1>2, <1>11, LinesByLine DEF DeskInv, LinesKept, LotsAreNotOverspent
  <2>2. KnowsScan(s)
    BY <1>2, <2>1 DEF Knows
  <2>3. \A q \in Packers : hand'[q] # EmptyHand => hand[q].lines \cap s.lines = {}
    BY <1>1, <1>2, <2>1, OthersApart DEF DeskInv, FinishScan
  <2>4. QED
    BY <2>1, <2>2, <2>3 DEF KnowsScan
<1>12. ASSUME ~crossing
       PROVE  \A x \in Lots : alloc'[s.line][x] =
                IF s.way = "matched" THEN alloc[s.line][x] 
                ELSE IF x = lot THEN alloc[s.line][x] + 1
                ELSE IF x = s.from THEN alloc[s.line][x] - 1 ELSE alloc[s.line][x]
  <2>1. CASE s.way = "matched"
    BY <1>5, <2>1
  <2>2. CASE s.way # "matched"
    <3>1. s.into <=> alloc[s.line][lot] > 0
      BY <1>3, <1>11, <1>12 DEF KnowsScan
    <3>2. alloc[s.line][lot] \in Nat /\ s.into \in BOOLEAN
      BY <1>2, <1>4, <1>6 DEF Scans
    <3>3. ~(s.into /\ alloc[s.line][lot] = 0)
      BY <3>1, <3>2
    <3>4. QED
      BY <1>2, <1>4, <1>5, <2>2, <3>3, GivenIs
  <2>3. QED
    BY <2>1, <2>2
<1>13. ASSUME ~crossing PROVE Kept(s.line)'
  <2>1. Scanned(s.line)' = Scanned(s.line) + 1 /\ Scanned(s.line) \in Nat
    BY <1>2, <1>9, <1>10, SomeBoxes, FS_AddElement DEF Scanned
  <2>2. Scanned(s.line)' <= Target[s.line]
    <3>1. Scanned(s.line) < Target[s.line] /\ Target[s.line] \in Nat
      BY <1>2, <1>11, <1>13, DispatchAssumption DEF KnowsScan
    <3>2. QED
      BY <2>1, <3>1
  <2>3. ASSUME NEW x \in Lots
        PROVE  /\ ScannedOfLot(s.line, x) \in Nat
               /\ ScannedOfLot(s.line, x)' = ScannedOfLot(s.line, x) + (IF x = lot THEN 1 ELSE 0)
    <3>1. OnOfLot(s.line, x)' = (IF x = lot THEN OnOfLot(s.line, x) \cup {s.box} ELSE OnOfLot(s.line, x))
      BY <1>2, <1>3, <1>9 DEF OnOfLot
    <3>2. OnOfLot(s.line, x) \subseteq Boxes /\ s.box \notin OnOfLot(s.line, x)
      BY <1>10 DEF OnOfLot
    <3>3. QED
      BY <3>1, <3>2, SomeBoxes, FS_AddElement DEF ScannedOfLot
  <2>4. ASSUME NEW x \in Lots PROVE ScannedOfLot(s.line, x)' <= alloc'[s.line][x]
    <3>1. ScannedOfLot(s.line, x) <= alloc[s.line][x] /\ alloc[s.line][x] \in Nat
      BY <1>6, <1>11, <1>13 DEF Kept
    <3>2. s.way = "matched" => ScannedOfLot(s.line, lot) < alloc[s.line][lot]
      BY <1>3, <1>11, <1>13 DEF KnowsScan, HasLeft
    <3>3. s.way # "matched" /\ x = s.from => x # lot /\ ScannedOfLot(s.line, x) < alloc[s.line][x]
      <4>1. s.way # "matched" /\ x = s.from => s.way = "swap"
        BY <1>2, DispatchAssumption DEF ScanInv, Scans
      <4>2. QED
        BY <1>3, <1>11, <1>13, <4>1 DEF KnowsScan, HasLeft
    <3>4. QED
      BY <1>12, <1>13, <2>3, <3>1, <3>2, <3>3
  <2>5. QED
    BY <2>2, <2>4 DEF Kept
<1>14. ASSUME ~crossing, NEW x \in Lots PROVE Free(x)' >= 0
  <2>1. Free(x)' = Free(x) + alloc[s.line][x] - alloc'[s.line][x] /\ Free(x) \in Int
    BY <1>2, <1>6, FreeAfter, FreeIs DEF DeskInv
  <2>2. Free(x) >= 0 /\ alloc[s.line][x] \in Nat /\ (s.way # "matched" => Free(lot) >= 1)
    BY <1>5, <1>6, <1>11, <1>14
  <2>3. CASE s.way = "matched"
    BY <1>12, <1>14, <2>1, <2>2, <2>3
  <2>4. CASE s.way # "matched"
    <3>1. CASE x = lot
      <4>1. alloc'[s.line][x] = alloc[s.line][x] + 1 /\ Free(x) >= 1
        BY <1>12, <1>14, <2>2, <2>4, <3>1
      <4>2. QED
        BY <2>1, <2>2, <4>1
    <3>2. CASE x # lot
      <4>1. alloc'[s.line][x] \in {alloc[s.line][x], alloc[s.line][x] - 1}
        BY <1>12, <1>14, <2>4, <3>2
      <4>2. QED
        BY <2>1, <2>2, <4>1
    <3>3. QED
      BY <3>1, <3>2
  <2>5. QED
    BY <2>3, <2>4
<1>15. HandsDown /\ crossing' = crossing
  BY DoneHands DEF DeskInv, FinishScan
<1>16. QED
  <2> DEFINE L == {s.line}
  <2>1. \A l \in Lines \ L : On(l)' = On(l) /\ alloc'[l] = alloc[l]
    BY <1>6, <1>9
  <2>2. ~crossing => \A l \in L \cap Lines : Kept(l)'
    BY <1>13
  <2>3. ~crossing => \A q \in Packers : hand'[q] # EmptyHand => hand[q].lines \cap L = {}
    BY <1>11
  <2> HIDE DEF L
  <2>4. QED
    BY <1>2, <1>14, <1>15, <2>1, <2>2, <2>3, LinesStay

LEMMA FinishScanInv ==
  ASSUME DeskInv, NEW p \in Packers, FinishScan(p)
  PROVE  DeskInv'
<1>1. HandsInv' /\ DispatchTypeOK'
  BY FinishScanTyped, TypedBy
<1>2. QED
  BY <1>1, FinishScanBoxes, FinishScanLines DEF DeskInv
-----------------------------------------------------------------------------
(* What changes only what is set aside for one line.                       *)
LEMMA AllocInv ==
  ASSUME DeskInv, HandsInv', HandsDown, UNCHANGED <<unit, billing, override, crossing>>,
         NEW l \in Lines, NEW lot \in Lots, NEW n \in Nat,
         alloc' = [alloc EXCEPT ![l][lot] = n],
         ~crossing =>
           /\ \A q \in Packers : hand'[q] # EmptyHand => hand[q].lines \cap {l} = {}
           /\ n >= ScannedOfLot(l, lot)
           /\ Free(lot) + alloc[l][lot] - n >= 0
  PROVE  DeskInv'
<1>1. TablesTyped
  BY Typed DEF DeskInv
<1>2. /\ alloc' \in [Lines -> [Lots -> Nat]] /\ alloc'[l][lot] = n
      /\ \A k \in Lines : \A x \in Lots : k # l \/ x # lot => alloc'[k][x] = alloc[k][x]
      /\ \A k \in Lines \ {l} : alloc'[k] = alloc[k]
  BY <1>1 DEF TablesTyped
<1>3. DispatchTypeOK'
  <2>1. TablesTyped'
    BY <1>1, <1>2 DEF TablesTyped
  <2>2. QED
    BY <2>1, TypedBy
<1>4. BoxesKept'
  BY BoxesStay DEF DeskInv
<1>5. \A k \in Lines : On(k)' = On(k)
  BY DEF On
<1>6. ASSUME ~crossing PROVE Kept(l)' /\ \A x \in Lots : Free(x)' >= 0
  <2>1. Kept(l) /\ \A x \in Lots : Free(x) >= 0 /\ Free(x) \in Int
    BY <1>6, LinesByLine, FreeIs DEF DeskInv, LinesKept, LotsAreNotOverspent
  <2>2. Kept(l)'
    <3>1. \A x \in Lots : ScannedOfLot(l, x)' = ScannedOfLot(l, x)
      BY <1>5 DEF ScannedOfLot, OnOfLot
    <3>2. Scanned(l)' = Scanned(l)
      BY <1>5 DEF Scanned
    <3>3. \A x \in Lots : x # lot => alloc'[l][x] = alloc[l][x]
      BY <1>2
    <3>4. QED
      BY <1>2, <1>6, <2>1, <3>1, <3>2, <3>3 DEF Kept
  <2>3. ASSUME NEW x \in Lots PROVE Free(x)' >= 0
    <3>1. Free(x)' = Free(x) + alloc[l][x] - alloc'[l][x]
      BY <1>2, <1>3, FreeAfter DEF DeskInv
    <3>2. alloc[l][x] \in Nat /\ alloc[l][lot] \in Nat
      BY <1>1 DEF TablesTyped
    <3>3. CASE x = lot
      BY <1>2, <1>6, <2>1, <3>1, <3>2, <3>3
    <3>4. CASE x # lot
      BY <1>2, <2>1, <3>1, <3>2, <3>4
    <3>5. QED
      BY <3>3, <3>4
  <2>4. QED
    BY <2>2, <2>3
<1>7. LinesKept'
  <2> DEFINE L == {l}
  <2>1. \A k \in Lines \ L : On(k)' = On(k) /\ alloc'[k] = alloc[k]
    BY <1>2, <1>5
  <2>2. ~crossing => \A k \in L \cap Lines : Kept(k)'
    BY <1>6
  <2>3. ~crossing => \A q \in Packers : hand'[q] # EmptyHand => hand[q].lines \cap L = {}
    OBVIOUS
  <2> HIDE DEF L
  <2>4. QED
    BY <1>6, <2>1, <2>2, <2>3, LinesStay
<1>8. QED
  BY <1>3, <1>4, <1>7 DEF DeskInv

(* What leaves every line as it was.                                       *)
LEMMA NoLineTouched ==
  ASSUME DeskInv, HandsInv', HandsDown, crossing' = crossing, alloc' = alloc, \A l \in Lines : On(l)' = On(l)
  PROVE  LinesKept'
<1>1. PICK L : L = {}
  OBVIOUS
<1>2. ~crossing => \A lot \in Lots : Free(lot)' >= 0
  BY FreeStays DEF DeskInv, LinesKept, LotsAreNotOverspent
<1>3. \A q \in Packers : hand'[q] # EmptyHand => hand[q].lines \cap L = {}
  BY <1>1
<1>4. \A l \in Lines \ L : On(l)' = On(l) /\ alloc'[l] = alloc[l]
  OBVIOUS
<1>5. \A l \in L \cap Lines : Kept(l)'
  BY <1>1
<1>6. QED
  BY <1>2, <1>3, <1>4, <1>5, LinesStay

(* What changes none of the tables but billing.                            *)
LEMMA NothingMoved ==
  ASSUME DeskInv, HandsInv', HandsDown, UNCHANGED <<unit, alloc, override, crossing>>, TablesTyped'
  PROVE  DeskInv'
<1>1. BoxesKept'
  BY BoxesStay DEF DeskInv
<1>2. LinesKept'
  <2>1. \A l \in Lines : On(l)' = On(l)
    BY DEF On
  <2>2. QED
    BY <2>1, NoLineTouched
<1>3. QED
  BY <1>1, <1>2, TypedBy DEF DeskInv

(* What is in hand once it is not a scan's.                                *)
LEMMA InMyHand ==
  ASSUME DeskInv, NEW p \in Packers, Done(p), hand[p].kind # "idle"
  PROVE  /\ HandsInv' /\ HandsDown /\ hand[p] \in Hands /\ hand[p] # EmptyHand
         /\ ~crossing => /\ Knows(hand[p])
                         /\ \A q \in Packers : hand'[q] # EmptyHand => hand[q].lines \cap hand[p].lines = {}
<1>1. hand[p] \in Hands
  BY DEF DeskInv, HandsInv
<1>2. hand[p] # EmptyHand
  BY DEF EmptyHand
<1>3. HandsInv' /\ HandsDown
  BY DoneHands DEF DeskInv
<1>4. ASSUME ~crossing PROVE \A q \in Packers : hand'[q] # EmptyHand => hand[q].lines \cap hand[p].lines = {}
  BY <1>2, <1>4, OthersApart DEF DeskInv, LinesKept
<1>5. QED
  BY <1>1, <1>2, <1>3, <1>4 DEF DeskInv, LinesKept

LEMMA ScannedIs == ASSUME NEW l, NEW lot PROVE ScannedOfLot(l, lot) \in Nat
<1>1. OnOfLot(l, lot) \subseteq Boxes
  BY DEF OnOfLot, On
<1>2. QED
  BY <1>1, SomeBoxes DEF ScannedOfLot

LEMMA DropScanInv == ASSUME DeskInv, NEW p \in Packers, DropScan(p) PROVE DeskInv'
<1>1. HandsInv' /\ HandsDown
  BY InMyHand DEF DropScan
<1>2. TablesTyped'
  BY Typed DEF DeskInv, TablesTyped, DropScan
<1>3. QED
  BY <1>1, <1>2, NothingMoved DEF DropScan

LEMMA FinishLotInv == ASSUME DeskInv, NEW p \in Packers, FinishLot(p) PROVE DeskInv'
<1>1. PICK s : s = hand[p]
  OBVIOUS
<1>2. /\ HandsInv' /\ HandsDown /\ s \in Hands
      /\ ~crossing => /\ Knows(s)
                      /\ \A q \in Packers : hand'[q] # EmptyHand => hand[q].lines \cap s.lines = {}
  BY <1>1, InMyHand DEF FinishLot
<1>3. s \in Labels /\ s.kind = "label"
  BY <1>1, <1>2, HandKinds DEF FinishLot
<1>4. PICK n : n = Min({s.need, Free(s.lot)})
  OBVIOUS
<1>5. alloc' = IF n < 1 THEN alloc ELSE [alloc EXCEPT ![s.line][s.lot] = @ + n]
  BY <1>1, <1>4 DEF FinishLot
<1>6. s.line \in Lines /\ s.lot \in Lots /\ s.need \in Nat /\ Free(s.lot) \in Int
  BY <1>3, FreeIs DEF Labels, DeskInv
<1>7. n \in Int /\ n <= Free(s.lot)
  <2>1. \E x \in {s.need, Free(s.lot)} : \A y \in {s.need, Free(s.lot)} : x <= y
    BY <1>6
  <2>2. n \in {s.need, Free(s.lot)} /\ \A y \in {s.need, Free(s.lot)} : n <= y
    BY <1>4, <2>1 DEF Min
  <2>3. QED
    BY <1>6, <2>2
<1>8. UNCHANGED <<unit, billing, override, crossing>>
  BY DEF FinishLot
<1>9. CASE n < 1
  <2>1. TablesTyped'
    BY <1>5, <1>8, <1>9, Typed DEF DeskInv, TablesTyped
  <2>2. QED
    BY <1>2, <1>5, <1>8, <1>9, <2>1, NothingMoved
<1>10. CASE ~(n < 1)
  <2>1. PICK m : m = alloc[s.line][s.lot] + n
    OBVIOUS
  <2>2. alloc[s.line][s.lot] \in Nat
    BY <1>6 DEF DeskInv, DispatchTypeOK
  <2>3. m \in Nat /\ m >= alloc[s.line][s.lot] /\ Free(s.lot) + alloc[s.line][s.lot] - m >= 0
    BY <1>6, <1>7, <1>10, <2>1, <2>2
  <2>4. alloc' = [alloc EXCEPT ![s.line][s.lot] = m]
    BY <1>5, <1>10, <2>1
  <2>5. ~crossing => m >= ScannedOfLot(s.line, s.lot)
    <3>1. ~crossing => ScannedOfLot(s.line, s.lot) <= alloc[s.line][s.lot]
      BY <1>6 DEF DeskInv, LinesKept, BoxesAreSetAside
    <3>2. QED
      BY <2>2, <2>3, <3>1, ScannedIs
  <2>6. ~crossing => \A q \in Packers : hand'[q] # EmptyHand => hand[q].lines \cap {s.line} = {}
    BY <1>2, <1>3 DEF Knows
  <2>7. QED
    BY <1>2, <1>6, <1>8, <2>3, <2>4, <2>5, <2>6, AllocInv
<1>11. QED
  BY <1>9, <1>10

LEMMA FinishEditInv == ASSUME DeskInv, NEW p \in Packers, FinishEdit(p) PROVE DeskInv'
<1>1. PICK s : s = hand[p]
  OBVIOUS
<1>2. /\ HandsInv' /\ HandsDown /\ s \in Hands
      /\ ~crossing => /\ Knows(s)
                      /\ \A q \in Packers : hand'[q] # EmptyHand => hand[q].lines \cap s.lines = {}
  BY <1>1, InMyHand DEF FinishEdit
<1>3. s \in Edits /\ s.kind = "edit"
  BY <1>1, <1>2, HandKinds DEF FinishEdit
<1>4. s.line \in Lines /\ s.lot \in Lots /\ s.qty \in Nat /\ s.own \in Nat /\ Free(s.lot) \in Int
  BY <1>3, FreeIs DEF Edits, DeskInv
<1>5. \/ alloc' = alloc
      \/ /\ s.qty >= ScannedOfLot(s.line, s.lot) /\ s.qty <= Free(s.lot) + s.own
         /\ alloc' = [alloc EXCEPT ![s.line][s.lot] = s.qty]
  BY <1>1 DEF FinishEdit
<1>6. UNCHANGED <<unit, billing, override, crossing>>
  BY DEF FinishEdit
<1>7. CASE alloc' = alloc
  <2>1. TablesTyped'
    BY <1>6, <1>7, Typed DEF DeskInv, TablesTyped
  <2>2. QED
    BY <1>2, <1>6, <1>7, <2>1, NothingMoved
<1>8. CASE alloc' # alloc
  <2>1. ~crossing => s.own = alloc[s.line][s.lot]
    BY <1>2, <1>3 DEF Knows
  <2>2. ~crossing => Free(s.lot) + alloc[s.line][s.lot] - s.qty >= 0
    BY <1>4, <1>5, <1>8, <2>1
  <2>3. ~crossing => \A q \in Packers : hand'[q] # EmptyHand => hand[q].lines \cap {s.line} = {}
    BY <1>2, <1>3 DEF Knows
  <2>4. QED
    BY <1>2, <1>4, <1>5, <1>6, <1>8, <2>2, <2>3, AllocInv
<1>9. QED
  BY <1>7, <1>8

LEMMA FinishReleaseInv == ASSUME DeskInv, NEW p \in Packers, FinishRelease(p) PROVE DeskInv'
<1>1. PICK s : s = hand[p]
  OBVIOUS
<1>2. /\ HandsInv' /\ HandsDown /\ s \in Hands
      /\ ~crossing => /\ Knows(s)
                      /\ \A q \in Packers : hand'[q] # EmptyHand => hand[q].lines \cap s.lines = {}
  BY <1>1, InMyHand DEF FinishRelease
<1>3. s \in Releases /\ s.kind = "release"
  BY <1>1, <1>2, HandKinds DEF FinishRelease
<1>4. s.line \in Lines /\ s.lot \in Lots /\ Free(s.lot) \in Int
  BY <1>3, FreeIs DEF Releases, DeskInv
<1>5. alloc[s.line][s.lot] \in Nat
  BY <1>4 DEF DeskInv, DispatchTypeOK
<1>6. UNCHANGED <<unit, billing, override, crossing>> /\ alloc' = [alloc EXCEPT ![s.line][s.lot] = 0]
  BY <1>1 DEF FinishRelease
<1>7. ~crossing => 0 >= ScannedOfLot(s.line, s.lot)
  BY <1>2, <1>3 DEF Knows
<1>8. ~crossing => Free(s.lot) + alloc[s.line][s.lot] - 0 >= 0
  BY <1>4, <1>5 DEF DeskInv, LinesKept, LotsAreNotOverspent
<1>9. ~crossing => \A q \in Packers : hand'[q] # EmptyHand => hand[q].lines \cap {s.line} = {}
  BY <1>2, <1>3 DEF Knows
<1>10. QED
  BY <1>2, <1>4, <1>6, <1>7, <1>8, <1>9, AllocInv

LEMMA AllocateByHandInv ==
  ASSUME DeskInv, NEW l \in Lines, NEW lot \in Lots, NEW n \in 1 .. Target[l], AllocateByHand(l, lot, n)
  PROVE  DeskInv'
<1>1. HandsInv' /\ HandsDown
  BY DEF AllocateByHand, DeskInv, HandsInv, HandsDown
<1>2. alloc[l][lot] \in Nat /\ Target[l] \in Nat /\ n \in Nat /\ Free(lot) \in Int
  BY DispatchAssumption, FreeIs DEF DeskInv, DispatchTypeOK
<1>3. PICK m : m = alloc[l][lot] + n
  OBVIOUS
<1>4. m \in Nat /\ Free(lot) + alloc[l][lot] - m >= 0 /\ m >= alloc[l][lot]
  BY <1>2, <1>3 DEF AllocateByHand
<1>5. alloc' = [alloc EXCEPT ![l][lot] = m] /\ UNCHANGED <<unit, billing, override, crossing>>
  BY <1>3 DEF AllocateByHand
<1>6. ~crossing => m >= ScannedOfLot(l, lot)
  <2>1. ~crossing => ScannedOfLot(l, lot) <= alloc[l][lot]
    BY DEF DeskInv, LinesKept, BoxesAreSetAside
  <2>2. QED
    BY <1>2, <1>4, <2>1, ScannedIs
<1>7. ~crossing => \A q \in Packers : hand'[q] # EmptyHand => hand[q].lines \cap {l} = {}
  <2>1. MayTouch({l}) /\ hand' = hand
    BY DEF AllocateByHand
  <2>2. ~crossing => \A q \in Packers : hand[q] # EmptyHand => hand[q].lines \cap {l} = {}
    BY <2>1, FreeOfHands DEF DeskInv
  <2>3. QED
    BY <2>1, <2>2
<1>8. QED
  BY <1>1, <1>4, <1>5, <1>6, <1>7, AllocInv
-----------------------------------------------------------------------------
(* Invoices.                                                               *)
LEMMA FinishUnbillInv == ASSUME DeskInv, NEW p \in Packers, FinishUnbill(p) PROVE DeskInv'
<1>1. HandsInv' /\ HandsDown
  BY InMyHand DEF FinishUnbill
<1>2. TablesTyped'
  BY Typed DEF DeskInv, TablesTyped, FinishUnbill
<1>3. QED
  BY <1>1, <1>2, NothingMoved DEF FinishUnbill

LEMMA BillOrderInv == ASSUME DeskInv, NEW o \in OrderNos, BillOrder(o) PROVE DeskInv'
<1>1. HandsInv' /\ HandsDown
  BY DEF BillOrder, DeskInv, HandsInv, HandsDown
<1>2. TablesTyped'
  BY Typed DEF DeskInv, TablesTyped, BillOrder
<1>3. QED
  BY <1>1, <1>2, NothingMoved DEF BillOrder

LEMMA CheckInvoiceInv ==
  ASSUME DeskInv, NEW o \in OrderNos, NEW how \in {"Pending", "Approved"}, CheckInvoice(o, how)
  PROVE  DeskInv'
<1>1. HandsInv' /\ HandsDown
  BY DEF CheckInvoice, DeskInv, HandsInv, HandsDown
<1>2. TablesTyped'
  BY Typed DEF DeskInv, TablesTyped, CheckInvoice
<1>3. QED
  BY <1>1, <1>2, NothingMoved DEF CheckInvoice
-----------------------------------------------------------------------------
(* A box taken off, held or sent back; nothing is scanned onto a line.     *)
LEMMA BoxMoved ==
  ASSUME DeskInv, NEW b \in Boxes, NEW to, ~Locked(b), MayTouch({unit[b].line}),
         to \in {"available", "hold", "rejected", "returned"},
         unit' = [unit EXCEPT ![b] = IF to = "available" THEN NotOn ELSE [@ EXCEPT !.status = to]],
         UNCHANGED <<alloc, billing, override, hand, crossing>>
  PROVE  DeskInv'
<1>1. TablesTyped /\ HandsInv' /\ HandsDown
  BY Typed DEF DeskInv, HandsInv, HandsDown
<1>2. PICK u : u = unit'[b]
  OBVIOUS
<1>3. /\ u \in [status : {"available", "scanned", "dispatched", "hold", "rejected", "returned"},
                line : Lines \cup {Nothing}]
      /\ u.status = to /\ u.line \in {unit[b].line, Nothing} /\ (to = "available" => u = NotOn)
  <2>1. PICK v : v = unit[b]
    OBVIOUS
  <2>2. v \in [status : {"available", "scanned", "dispatched", "hold", "rejected", "returned"},
               line : Lines \cup {Nothing}]
    BY <1>1, <2>1 DEF TablesTyped
  <2>3. u = IF to = "available" THEN NotOn ELSE [v EXCEPT !.status = to]
    BY <1>1, <1>2, <2>1 DEF TablesTyped
  <2>4. QED
    BY <2>1, <2>2, <2>3 DEF NotOn
<1>4. \A x \in Boxes \ {b} : unit'[x] = unit[x]
  BY <1>1 DEF TablesTyped
<1>5. DispatchTypeOK'
  <2>1. unit' \in [Boxes -> [status : {"available", "scanned", "dispatched", "hold", "rejected", "returned"},
                             line : Lines \cup {Nothing}]]
    <3>1. \A x \in Boxes : unit'[x] \in [status : {"available", "scanned", "dispatched", "hold", "rejected", "returned"},
                                         line : Lines \cup {Nothing}]
      BY <1>1, <1>2, <1>3, <1>4 DEF TablesTyped
    <3>2. unit' = [x \in Boxes |-> unit'[x]]
      BY <1>1 DEF TablesTyped
    <3>3. QED
      BY <3>1, <3>2
  <2>2. TablesTyped'
    BY <1>1, <2>1 DEF TablesTyped
  <2>3. QED
    BY <1>1, <2>2, TypedBy
<1>6. BoxesKept'
  <2>1. BoxesInv'
    BY <1>2, <1>3, <1>4 DEF BoxesInv, DeskInv, BoxesKept
  <2>2. OverridesInv'
    BY DEF OverridesInv, DeskInv, BoxesKept
  <2>3. ScansInv'
    <3>1. ASSUME NEW p \in Packers, hand[p].kind = "scan" PROVE ScanInv(hand[p])'
      <4>1. hand[p] \in Scans /\ ScanInv(hand[p])
        BY <3>1, HandKinds DEF DeskInv, HandsInv, BoxesKept, ScansInv
      <4>2. hand[p].box \in Boxes /\ hand[p].box # b
        BY <3>1, <4>1 DEF Scans, Locked
      <4>3. QED
        BY <1>4, <4>1, <4>2 DEF ScanInv
    <3>2. QED
      BY <3>1 DEF ScansInv, DeskInv, BoxesKept
  <2>4. WrongBoxesAreAllowed'
    BY <1>2, <1>3, <1>4, DispatchAssumption DEF WrongBoxesAreAllowed, DeskInv, BoxesKept
  <2>5. QED
    BY <2>1, <2>2, <2>3, <2>4 DEF BoxesKept
<1>7. \A l \in Lines : On(l)' \subseteq On(l) /\ (l # unit[b].line => On(l)' = On(l))
  BY <1>2, <1>3, <1>4, DispatchAssumption DEF On
<1>8. LinesKept'
  <2> DEFINE L == {unit[b].line}
  <2>1. \A l \in Lines \ L : On(l)' = On(l) /\ alloc'[l] = alloc[l]
    BY <1>7
  <2>2. ~crossing => \A l \in L \cap Lines : Kept(l)'
    BY <1>7, FewerOn, LinesByLine DEF DeskInv, LinesKept
  <2>3. ~crossing => \A q \in Packers : hand'[q] # EmptyHand => hand[q].lines \cap L = {}
    BY FreeOfHands DEF DeskInv
  <2>4. ~crossing => \A lot \in Lots : Free(lot)' >= 0
    BY FreeStays DEF DeskInv, LinesKept, LotsAreNotOverspent
  <2> HIDE DEF L
  <2>5. QED
    BY <1>1, <2>1, <2>2, <2>3, <2>4, LinesStay
<1>9. QED
  BY <1>1, <1>5, <1>6, <1>8 DEF DeskInv

LEMMA UnscanInv == ASSUME DeskInv, NEW b \in Boxes, Unscan(b) PROVE DeskInv'
<1>1. unit' = [unit EXCEPT ![b] = IF "available" = "available" THEN NotOn ELSE [@ EXCEPT !.status = "available"]]
  BY DEF Unscan
<1>2. ~Locked(b) /\ MayTouch({unit[b].line}) /\ UNCHANGED <<alloc, billing, override, hand, crossing>>
  BY DEF Unscan
<1>3. PICK to : to = "available"
  OBVIOUS
<1>4. unit' = [unit EXCEPT ![b] = IF to = "available" THEN NotOn ELSE [@ EXCEPT !.status = to]]
  BY <1>1, <1>3
<1>5. QED
  BY <1>2, <1>3, <1>4, BoxMoved

LEMMA MoveInv ==
  ASSUME DeskInv, NEW b \in Boxes, NEW to \in {"available", "hold", "rejected", "returned"}, Move(b, to)
  PROVE  DeskInv'
BY BoxMoved DEF Move

(* verify: the boxes of the order's lines have left, and are on them still. *)
LEMMA FinishVerifyInv == ASSUME DeskInv, NEW p \in Packers, FinishVerify(p) PROVE DeskInv'
<1>1. PICK o : o = hand[p].order
  OBVIOUS
<1>2. HandsInv' /\ HandsDown /\ hand[p] \in Verifies
  BY InMyHand, HandKinds DEF FinishVerify
<1>3. o \in OrderNos /\ TablesTyped
  BY <1>1, <1>2, Typed DEF DeskInv, Verifies
<1>4. ASSUME NEW b \in Boxes
      PROVE  /\ unit'[b] \in [status : {"available", "scanned", "dispatched", "hold", "rejected", "returned"},
                              line : Lines \cup {Nothing}]
             /\ unit'[b].line = unit[b].line
             /\ \/ unit'[b] = unit[b]
                \/ unit[b].status = "scanned" /\ unit'[b].status = "dispatched"
  <2>1. PICK v : v = unit[b]
    OBVIOUS
  <2>2. v \in [status : {"available", "scanned", "dispatched", "hold", "rejected", "returned"},
               line : Lines \cup {Nothing}]
    BY <1>3, <2>1 DEF TablesTyped
  <2>3. unit'[b] = IF v.status = "scanned" /\ v.line \in LinesOn(o) THEN [v EXCEPT !.status = "dispatched"] ELSE v
    BY <1>1, <2>1 DEF FinishVerify
  <2>4. QED
    BY <2>1, <2>2, <2>3
<1>5. billing' \in [OrderNos -> {"none", "Pending", "Approved", "Verified"}]
  BY <1>1, <1>3 DEF FinishVerify, TablesTyped
<1>6. UNCHANGED <<alloc, override, crossing>>
  BY DEF FinishVerify
<1>7. DispatchTypeOK'
  <2>1. unit' = [b \in Boxes |-> unit'[b]]
    BY DEF FinishVerify
  <2>2. unit' \in [Boxes -> [status : {"available", "scanned", "dispatched", "hold", "rejected", "returned"},
                             line : Lines \cup {Nothing}]]
    BY <1>4, <2>1
  <2>3. TablesTyped'
    BY <1>3, <1>5, <1>6, <2>2 DEF TablesTyped
  <2>4. QED
    BY <1>2, <2>3, TypedBy
<1>8. BoxesKept'
  <2>1. BoxesInv'
    BY <1>4 DEF BoxesInv, DeskInv, BoxesKept
  <2>2. OverridesInv'
    BY <1>6 DEF OverridesInv, DeskInv, BoxesKept
  <2>3. WrongBoxesAreAllowed'
    BY <1>4, <1>6 DEF WrongBoxesAreAllowed, DeskInv, BoxesKept
  <2>4. ScansInv'
    <3>1. ASSUME NEW q \in Packers, hand'[q].kind = "scan" PROVE hand'[q] = hand[q] /\ ScanInv(hand[q])'
      <4>1. hand'[q] = hand[q]
        BY <1>2, <3>1 DEF HandsDown, EmptyHand
      <4>2. hand[q] \in Scans /\ ScanInv(hand[q])
        BY <3>1, <4>1, HandKinds DEF DeskInv, HandsInv, BoxesKept, ScansInv
      <4>3. hand[q].box \in Boxes /\ unit[hand[q].box].status = "available"
        BY <4>2 DEF Scans, ScanInv, NotOn
      <4>4. unit'[hand[q].box] = unit[hand[q].box]
        BY <1>4, <4>3
      <4>5. QED
        BY <1>6, <4>1, <4>2, <4>4 DEF ScanInv
    <3>2. QED
      BY <3>1 DEF ScansInv, DeskInv, BoxesKept
  <2>5. QED
    BY <2>1, <2>2, <2>3, <2>4 DEF BoxesKept
<1>9. LinesKept'
  <2>1. \A l \in Lines : On(l)' = On(l)
    <3>1. \A b \in Boxes : unit'[b].line = unit[b].line
                         /\ (unit'[b].status \in {"scanned", "dispatched"} <=> unit[b].status \in {"scanned", "dispatched"})
      BY <1>4
    <3>2. QED
      BY <3>1 DEF On
  <2>2. QED
    BY <1>2, <1>6, <2>1, NoLineTouched
<1>10. QED
  BY <1>2, <1>7, <1>8, <1>9 DEF DeskInv
-----------------------------------------------------------------------------
(* Overrides.  One is asked for of a box on no line, and decided only      *)
(* while it waits.                                                         *)
LEMMA OverrideInv ==
  ASSUME DeskInv, UNCHANGED <<unit, alloc, billing, hand, crossing>>,
         NEW b \in Boxes, NEW l \in Lines, NEW o \in OverrideRows,
         override' = [override EXCEPT ![b][l] = o],
         o.state \in {"Approved", "Used"} => Allowed(o),
         override[b][l].state \notin {"Approved", "Used"} \/ (unit[b].status = "available" /\ override[b][l].state # "Approved")
  PROVE  DeskInv'
<1>1. TablesTyped
  BY Typed DEF DeskInv
<1>2. /\ override' \in [Boxes -> [Lines -> OverrideRows]] /\ override'[b][l] = o
      /\ \A x \in Boxes : \A y \in Lines : x # b \/ y # l => override'[x][y] = override[x][y]
  BY <1>1 DEF TablesTyped
<1>3. HandsInv' /\ HandsDown
  BY DEF DeskInv, HandsInv, HandsDown
<1>4. DispatchTypeOK'
  <2>1. TablesTyped'
    BY <1>1, <1>2 DEF TablesTyped
  <2>2. QED
    BY <1>3, <2>1, TypedBy
<1>5. BoxesKept'
  <2>1. BoxesInv'
    BY DEF BoxesInv, DeskInv, BoxesKept
  <2>2. OverridesInv'
    BY <1>2 DEF OverridesInv, Allowed, DeskInv, BoxesKept
  <2>3. ScansInv'
    <3>1. ASSUME NEW q \in Packers, hand[q].kind = "scan" PROVE ScanInv(hand[q])'
      <4>1. hand[q] \in Scans /\ ScanInv(hand[q])
        BY <3>1, HandKinds DEF DeskInv, HandsInv, BoxesKept, ScansInv
      <4>2. hand[q].box \in Boxes /\ hand[q].line \in Lines
        BY <4>1 DEF Scans
      <4>3. hand[q].substituted => hand[q].box # b \/ hand[q].line # l
        BY <4>1, <4>2 DEF ScanInv
      <4>4. QED
        BY <1>2, <4>1, <4>2, <4>3 DEF ScanInv
    <3>2. QED
      BY <3>1 DEF ScansInv, DeskInv, BoxesKept
  <2>4. WrongBoxesAreAllowed'
    <3>1. ASSUME NEW x \in Boxes, NEW y \in Lines, unit[x].line = y, LineSku[y] # SkuOf(x)
          PROVE  x # b \/ y # l
      <4>1. override[x][y].state = "Used" /\ unit[x].line # Nothing
        BY <3>1, DispatchAssumption DEF DeskInv, BoxesKept, WrongBoxesAreAllowed
      <4>2. unit[x].status # "available"
        BY <4>1 DEF DeskInv, BoxesKept, BoxesInv, NotOn
      <4>3. QED
        BY <4>1, <4>2
    <3>2. QED
      BY <1>2, <3>1 DEF WrongBoxesAreAllowed, DeskInv, BoxesKept
  <2>5. QED
    BY <2>1, <2>2, <2>3, <2>4 DEF BoxesKept
<1>6. LinesKept'
  <2>1. \A k \in Lines : On(k)' = On(k)
    BY DEF On
  <2>2. QED
    BY <1>3, <2>1, NoLineTouched
<1>7. QED
  BY <1>3, <1>4, <1>5, <1>6 DEF DeskInv

LEMMA RequestOverrideInv ==
  ASSUME DeskInv, NEW p \in Packers, NEW b \in Boxes, NEW l \in Lines, RequestOverride(p, b, l)
  PROVE  DeskInv'
<1>1. PICK o : o = [state |-> "Pending", by |-> p, decider |-> Nothing]
  OBVIOUS
<1>2. o \in OverrideRows /\ o.state = "Pending"
  BY <1>1 DEF OverrideRows
<1>3. override' = [override EXCEPT ![b][l] = o] /\ UNCHANGED <<unit, alloc, billing, hand, crossing>>
  BY <1>1 DEF RequestOverride
<1>4. unit[b].status = "available" /\ override[b][l].state # "Approved"
  BY DEF RequestOverride
<1>5. QED
  BY <1>2, <1>3, <1>4, OverrideInv

LEMMA DecideOverrideInv ==
  ASSUME DeskInv, NEW p \in Packers, NEW b \in Boxes, NEW l \in Lines, NEW how \in {"Approved", "Declined"},
         DecideOverride(p, b, l, how)
  PROVE  DeskInv'
<1>1. PICK o : o = [state |-> how, by |-> override[b][l].by, decider |-> p]
  OBVIOUS
<1>2. override[b][l].by \in Packers \cup {Nothing} /\ override[b][l].by # p
  BY Typed DEF DeskInv, TablesTyped, OverrideRows, DecideOverride
<1>3. o \in OverrideRows /\ Allowed(o)
  BY <1>1, <1>2, DispatchAssumption DEF OverrideRows, Allowed
<1>4. override' = [override EXCEPT ![b][l] = o] /\ UNCHANGED <<unit, alloc, billing, hand, crossing>>
  BY <1>1 DEF DecideOverride
<1>5. override[b][l].state \notin {"Approved", "Used"}
  BY DEF DecideOverride
<1>6. QED
  BY <1>3, <1>4, <1>5, OverrideInv
-----------------------------------------------------------------------------
LEMMA DeskStepInv == DeskInv /\ [DispatchNext]_deskVars => DeskInv'
<1> SUFFICES ASSUME DeskInv, [DispatchNext]_deskVars PROVE DeskInv'
  OBVIOUS
<1>1. ASSUME NEW p \in Packers, NEW b \in Boxes, NEW o \in OrderNos, ScanBox(p, b, o) PROVE DeskInv'
  BY <1>1, ScanBoxInv
<1>2. ASSUME NEW p \in Packers, NEW lot \in Lots, NEW o \in OrderNos, ScanLot(p, lot, o) PROVE DeskInv'
  BY <1>2, ScanLotInv
<1>3. ASSUME NEW p \in Packers,
             \/ FinishScan(p) \/ DropScan(p) \/ FinishLot(p) \/ FinishEdit(p) \/ FinishRelease(p)
             \/ FinishUnbill(p) \/ FinishVerify(p)
      PROVE  DeskInv'
  BY <1>3, FinishScanInv, DropScanInv, FinishLotInv, FinishEditInv, FinishReleaseInv, FinishUnbillInv, FinishVerifyInv
<1>4. ASSUME NEW p \in Packers, NEW b \in Boxes, NEW l \in Lines,
             RequestOverride(p, b, l) \/ \E how \in {"Approved", "Declined"} : DecideOverride(p, b, l, how)
      PROVE  DeskInv'
  BY <1>4, RequestOverrideInv, DecideOverrideInv
<1>5. ASSUME NEW p \in Packers, NEW l \in Lines, NEW lot \in Lots,
             (\E n \in 1..Target[l] : EditQuantity(p, l, lot, n)) \/ ReleaseLot(p, l, lot)
      PROVE  DeskInv'
  BY <1>5, EditQuantityInv, ReleaseLotInv
<1>6. ASSUME NEW p \in Packers, NEW o \in OrderNos, Unbill(p, o) \/ Verify(p, o) PROVE DeskInv'
  BY <1>6, UnbillInv, VerifyInv
<1>7. ASSUME NEW b \in Boxes,
             Unscan(b) \/ \E to \in {"available", "hold", "rejected", "returned"} : Move(b, to)
      PROVE  DeskInv'
  BY <1>7, UnscanInv, MoveInv
<1>8. ASSUME NEW l \in Lines, NEW lot \in Lots, NEW n \in 1..Target[l], AllocateByHand(l, lot, n) PROVE DeskInv'
  BY <1>8, AllocateByHandInv
<1>9. ASSUME NEW o \in OrderNos, BillOrder(o) \/ \E how \in {"Pending", "Approved"} : CheckInvoice(o, how)
      PROVE  DeskInv'
  BY <1>9, BillOrderInv, CheckInvoiceInv
<1>10. CASE UNCHANGED deskVars
  <2>1. HandsInv' /\ HandsDown /\ TablesTyped' /\ UNCHANGED <<unit, alloc, override, crossing>>
    BY <1>10, Typed DEF DeskInv, HandsInv, HandsDown, TablesTyped, deskVars
  <2>2. QED
    BY <2>1, NothingMoved
<1>11. QED
  BY <1>1, <1>2, <1>3, <1>4, <1>5, <1>6, <1>7, <1>8, <1>9, <1>10 DEF DispatchNext

(* The dispatch desk, however its requests interleave, crossing or not.    *)
THEOREM DispatchInvariance == DispatchSpec => []DeskInv
BY DeskInitInv, DeskStepInv, PTL DEF DispatchSpec

(* Every row of the desk is well formed (erp_units, erp_batch_codes,       *)
(* erp_order_details, the overrides).                                      *)
THEOREM DispatchTypeCorrect == DispatchSpec => []DispatchTypeOK
<1>1. DeskInv => DispatchTypeOK
  BY DEF DeskInv
<1>2. QED
  BY <1>1, DispatchInvariance, PTL

(* Where requests do not cross on a line, no lot has more set aside than   *)
(* was packed, every box on a line is one set aside for it, and no line    *)
(* has more boxes than it takes (lockLot, lotFree, scanVerdict).           *)
THEOREM SetAside == DispatchSpec => []StockIsSetAside
<1>1. DeskInv => StockIsSetAside
  BY DEF DeskInv, LinesKept, StockIsSetAside
<1>2. QED
  BY <1>1, DispatchInvariance, PTL
-----------------------------------------------------------------------------
(* Which actions touch boxes and which let an order go.                    *)
LEMMA BoxesTouched ==
  ASSUME [DispatchNext]_deskVars
  PROVE  \/ unit' = unit
         \/ \E p \in Packers : FinishScan(p) \/ FinishVerify(p)
         \/ \E b \in Boxes : Unscan(b) \/ \E to \in {"available", "hold", "rejected", "returned"} : Move(b, to)
<1>1. ASSUME NEW p \in Packers, NEW b \in Boxes, NEW o \in OrderNos, ScanBox(p, b, o) PROVE unit' = unit
  BY <1>1 DEF ScanBox
<1>2. ASSUME NEW p \in Packers, NEW lot \in Lots, NEW o \in OrderNos, ScanLot(p, lot, o) PROVE unit' = unit
  BY <1>2 DEF ScanLot
<1>3. ASSUME NEW p \in Packers, DropScan(p) \/ FinishLot(p) \/ FinishEdit(p) \/ FinishRelease(p) \/ FinishUnbill(p)
      PROVE  unit' = unit
  BY <1>3 DEF DropScan, FinishLot, FinishEdit, FinishRelease, FinishUnbill
<1>4. ASSUME NEW p \in Packers, NEW b \in Boxes, NEW l \in Lines,
             RequestOverride(p, b, l) \/ \E how \in {"Approved", "Declined"} : DecideOverride(p, b, l, how)
      PROVE  unit' = unit
  BY <1>4 DEF RequestOverride, DecideOverride
<1>5. ASSUME NEW p \in Packers, NEW l \in Lines, NEW lot \in Lots,
             (\E n \in 1..Target[l] : EditQuantity(p, l, lot, n)) \/ ReleaseLot(p, l, lot)
      PROVE  unit' = unit
  BY <1>5 DEF EditQuantity, ReleaseLot
<1>6. ASSUME NEW p \in Packers, NEW o \in OrderNos, Unbill(p, o) \/ Verify(p, o) PROVE unit' = unit
  BY <1>6 DEF Unbill, Verify
<1>7. ASSUME NEW l \in Lines, NEW lot \in Lots, NEW n \in 1..Target[l], AllocateByHand(l, lot, n) PROVE unit' = unit
  BY <1>7 DEF AllocateByHand
<1>8. ASSUME NEW o \in OrderNos, BillOrder(o) \/ \E how \in {"Pending", "Approved"} : CheckInvoice(o, how)
      PROVE  unit' = unit
  BY <1>8 DEF BillOrder, CheckInvoice
<1>9. UNCHANGED deskVars => unit' = unit
  BY DEF deskVars
<1>10. QED
  BY <1>1, <1>2, <1>3, <1>4, <1>5, <1>6, <1>7, <1>8, <1>9 DEF DispatchNext

LEMMA OrdersLet ==
  ASSUME [DispatchNext]_deskVars, TablesTyped, NEW o \in OrderNos, billing'[o] = "Verified", billing[o] # "Verified"
  PROVE  \E p \in Packers : FinishVerify(p) /\ hand[p].order = o
<1>1. ASSUME NEW x \in OrderNos, BillOrder(x) PROVE FALSE
  BY <1>1 DEF BillOrder, TablesTyped
<1>2. ASSUME NEW x \in OrderNos, NEW how \in {"Pending", "Approved"}, CheckInvoice(x, how) PROVE FALSE
  BY <1>2 DEF CheckInvoice, TablesTyped
<1>3. ASSUME NEW p \in Packers, FinishUnbill(p) PROVE FALSE
  BY <1>3 DEF FinishUnbill, TablesTyped
<1>4. ASSUME NEW p \in Packers, FinishVerify(p) PROVE hand[p].order = o
  BY <1>4 DEF FinishVerify, TablesTyped
<1>5. \/ billing' = billing
      \/ \E x \in OrderNos : BillOrder(x) \/ \E how \in {"Pending", "Approved"} : CheckInvoice(x, how)
      \/ \E p \in Packers : FinishUnbill(p) \/ FinishVerify(p)
  <2>1. ASSUME NEW p \in Packers, NEW b \in Boxes, NEW x \in OrderNos, ScanBox(p, b, x) PROVE billing' = billing
    BY <2>1 DEF ScanBox
  <2>2. ASSUME NEW p \in Packers, NEW lot \in Lots, NEW x \in OrderNos, ScanLot(p, lot, x) PROVE billing' = billing
    BY <2>2 DEF ScanLot
  <2>3. ASSUME NEW p \in Packers, FinishScan(p) \/ DropScan(p) \/ FinishLot(p) \/ FinishEdit(p) \/ FinishRelease(p)
        PROVE  billing' = billing
    BY <2>3 DEF FinishScan, DropScan, FinishLot, FinishEdit, FinishRelease
  <2>4. ASSUME NEW p \in Packers, NEW b \in Boxes, NEW l \in Lines,
               RequestOverride(p, b, l) \/ \E how \in {"Approved", "Declined"} : DecideOverride(p, b, l, how)
        PROVE  billing' = billing
    BY <2>4 DEF RequestOverride, DecideOverride
  <2>5. ASSUME NEW p \in Packers, NEW l \in Lines, NEW lot \in Lots,
               (\E n \in 1..Target[l] : EditQuantity(p, l, lot, n)) \/ ReleaseLot(p, l, lot)
        PROVE  billing' = billing
    BY <2>5 DEF EditQuantity, ReleaseLot
  <2>6. ASSUME NEW p \in Packers, NEW x \in OrderNos, Unbill(p, x) \/ Verify(p, x) PROVE billing' = billing
    BY <2>6 DEF Unbill, Verify
  <2>7. ASSUME NEW l \in Lines, NEW lot \in Lots, NEW n \in 1..Target[l], AllocateByHand(l, lot, n) PROVE billing' = billing
    BY <2>7 DEF AllocateByHand
  <2>8. ASSUME NEW b \in Boxes,
               Unscan(b) \/ \E to \in {"available", "hold", "rejected", "returned"} : Move(b, to)
        PROVE  billing' = billing
    BY <2>8 DEF Unscan, Move
  <2>9. UNCHANGED deskVars => billing' = billing
    BY DEF deskVars
  <2>10. QED
    BY <2>1, <2>2, <2>3, <2>4, <2>5, <2>6, <2>7, <2>8, <2>9 DEF DispatchNext
<1>6. QED
  BY <1>1, <1>2, <1>3, <1>4, <1>5

LEMMA OnOneLine == ASSUME DeskInv, [DispatchNext]_deskVars PROVE CountedOnce
<1>1. TablesTyped
  BY Typed DEF DeskInv
<1>2. ASSUME NEW b \in Boxes, unit[b].line # Nothing PROVE unit'[b].line \in {unit[b].line, Nothing}
  <2>1. CASE unit' = unit
    BY <2>1
  <2>2. ASSUME NEW p \in Packers, FinishScan(p) PROVE unit'[b] = unit[b]
    <3>1. hand[p] \in Scans /\ ScanInv(hand[p])
      BY <2>2, FinishScanTyped
    <3>2. b # hand[p].box
      BY <1>2, <3>1 DEF ScanInv, NotOn
    <3>3. QED
      BY <1>1, <2>2, <3>1, <3>2 DEF FinishScan, PutOn, TablesTyped
  <2>3. ASSUME NEW p \in Packers, FinishVerify(p) PROVE unit'[b].line = unit[b].line
    <3>1. PICK v : v = unit[b]
      OBVIOUS
    <3>2. v \in [status : {"available", "scanned", "dispatched", "hold", "rejected", "returned"}, line : Lines \cup {Nothing}]
      BY <1>1, <3>1 DEF TablesTyped
    <3>3. unit'[b] = v \/ unit'[b] = [v EXCEPT !.status = "dispatched"]
      BY <2>3, <3>1 DEF FinishVerify
    <3>4. QED
      BY <3>1, <3>2, <3>3
  <2>4. ASSUME NEW c \in Boxes, Unscan(c) PROVE unit'[b].line \in {unit[b].line, Nothing}
    BY <1>1, <2>4 DEF Unscan, TablesTyped, NotOn
  <2>5. ASSUME NEW c \in Boxes, NEW to \in {"available", "hold", "rejected", "returned"}, Move(c, to)
        PROVE  unit'[b].line \in {unit[b].line, Nothing}
    <3>1. PICK v : v = unit[b]
      OBVIOUS
    <3>2. v \in [status : {"available", "scanned", "dispatched", "hold", "rejected", "returned"}, line : Lines \cup {Nothing}]
      BY <1>1, <3>1 DEF TablesTyped
    <3>3. unit'[b] \in {v, NotOn, [v EXCEPT !.status = to]}
      BY <1>1, <2>5, <3>1 DEF Move, TablesTyped
    <3>4. QED
      BY <3>1, <3>2, <3>3 DEF NotOn
  <2>6. QED
    BY <2>1, <2>2, <2>3, <2>4, <2>5, BoxesTouched
<1>3. QED
  BY <1>2 DEF CountedOnce

LEMMA LeftWhole ==
  ASSUME DeskInv, ~crossing, NEW p \in Packers, FinishVerify(p)
  PROVE  LeavesWhole(hand[p].order)
<1>1. PICK s : s = hand[p]
  OBVIOUS
<1>2. s \in Hands /\ s.kind = "verify" /\ Knows(s) /\ TablesTyped
  BY <1>1, Typed DEF DeskInv, HandsInv, LinesKept, FinishVerify
<1>3. \A l \in LinesOn(s.order) : ~Held(l) /\ Scanned(l) <= Target[l]
  BY <1>2 DEF Knows, DeskInv, LinesKept, LinesAreNotOverfilled, LinesOn
<1>4. ASSUME NEW b \in Boxes
      PROVE  /\ unit[b] = [status |-> unit[b].status, line |-> unit[b].line]
             /\ unit'[b] = IF unit[b].status = "scanned" /\ unit[b].line \in LinesOn(s.order)
                           THEN [status |-> "dispatched", line |-> unit[b].line] ELSE unit[b]
  <2>1. PICK v : v = unit[b]
    OBVIOUS
  <2>2. v \in [status : {"available", "scanned", "dispatched", "hold", "rejected", "returned"}, line : Lines \cup {Nothing}]
    BY <1>2, <2>1 DEF TablesTyped
  <2>3. unit'[b] = IF v.status = "scanned" /\ v.line \in LinesOn(s.order) THEN [v EXCEPT !.status = "dispatched"] ELSE v
    BY <1>1, <2>1 DEF FinishVerify
  <2>4. v = [status |-> v.status, line |-> v.line] /\ [v EXCEPT !.status = "dispatched"] = [status |-> "dispatched", line |-> v.line]
    BY <2>2
  <2>5. QED
    BY <2>1, <2>3, <2>4
<1>5. ASSUME NEW l \in LinesOn(s.order), HasUnits(l)
      PROVE  Cardinality({b \in Boxes : unit'[b] = [status |-> "dispatched", line |-> l]}) = Target[l]
  <2>1. On(l) \subseteq Boxes /\ l \in Lines
    BY DEF On, LinesOn
  <2>2. Scanned(l) = Target[l]
    <3>1. Scanned(l) \in Nat /\ Target[l] \in Nat
      BY <2>1, SomeBoxes, DispatchAssumption DEF Scanned
    <3>2. QED
      BY <1>3, <1>5, <3>1 DEF Held
  <2>3. ASSUME NEW b \in Boxes
        PROVE  unit'[b] = [status |-> "dispatched", line |-> l] <=> b \in On(l)
    <3>1. PICK st, li : st = unit[b].status /\ li = unit[b].line /\ unit[b] = [status |-> st, line |-> li]
      BY <1>4
    <3>2. unit'[b] = IF st = "scanned" /\ li \in LinesOn(s.order) THEN [status |-> "dispatched", line |-> li]
                     ELSE [status |-> st, line |-> li]
      BY <1>4, <3>1
    <3>3. b \in On(l) <=> li = l /\ st \in {"scanned", "dispatched"}
      BY <3>1 DEF On
    <3>4. QED
      BY <1>5, <3>2, <3>3
  <2>4. {b \in Boxes : unit'[b] = [status |-> "dispatched", line |-> l]} = On(l)
    BY <2>1, <2>3
  <2>5. QED
    BY <2>2, <2>4 DEF Scanned
<1>6. ASSUME NEW l \in LinesOn(s.order), NEW b \in Boxes PROVE unit'[b] # [status |-> "scanned", line |-> l]
  <2>1. PICK st, li : st = unit[b].status /\ li = unit[b].line /\ unit[b] = [status |-> st, line |-> li]
    BY <1>4
  <2>2. unit'[b] = IF st = "scanned" /\ li \in LinesOn(s.order) THEN [status |-> "dispatched", line |-> li]
                   ELSE [status |-> st, line |-> li]
    BY <1>4, <2>1
  <2>3. QED
    BY <1>6, <2>2
<1>7. LeavesWhole(s.order)
  BY <1>5, <1>6 DEF LeavesWhole
<1>8. QED
  BY <1>1, <1>7

(* However requests cross, a box that is not what a line asks for is on it *)
(* only by an override somebody else approved, and no box goes from one    *)
(* line to another without being taken off; where they do not cross, an    *)
(* order leaves with every box of its lines (scanGate, markDispatched).    *)
THEOREM RightBoxesLeave == DispatchSpec => BoxesLeaveRight
<1>1. ASSUME DeskInv, DeskInv', [DispatchNext]_deskVars
      PROVE  /\ [WrongBoxesAreAllowed' /\ CountedOnce]_deskVars
             /\ [\A o \in OrderNos :
                   ~crossing /\ billing'[o] = "Verified" /\ billing[o] # "Verified" => LeavesWhole(o)]_deskVars
  <2>1. WrongBoxesAreAllowed' /\ CountedOnce
    BY <1>1, OnOneLine DEF DeskInv, BoxesKept
  <2>2. ASSUME NEW o \in OrderNos, ~crossing, billing'[o] = "Verified", billing[o] # "Verified" PROVE LeavesWhole(o)
    <3>1. PICK p \in Packers : FinishVerify(p) /\ hand[p].order = o
      BY <1>1, <2>2, OrdersLet, Typed DEF DeskInv
    <3>2. QED
      BY <1>1, <2>2, <3>1, LeftWhole
  <2>3. QED
    BY <2>1, <2>2
<1>2. DispatchSpec => [][WrongBoxesAreAllowed' /\ CountedOnce]_deskVars
  BY <1>1, DispatchInvariance, PTL DEF DispatchSpec
<1>3. DispatchSpec => [][\A o \in OrderNos :
         ~crossing /\ billing'[o] = "Verified" /\ billing[o] # "Verified" => LeavesWhole(o)]_deskVars
  BY <1>1, DispatchInvariance, PTL DEF DispatchSpec
<1>4. QED
  BY <1>2, <1>3 DEF BoxesLeaveRight, BoxesGoWhereTheyMay, OrdersLeaveWhole
=============================================================================
