------------------------------ MODULE CentSums ------------------------------
(***************************************************************************)
(* Sums of cents over rows or calls, any number of which may add or owe    *)
(* nothing.  A sum is the number of cents to have less the number of cents *)
(* owed, counted as <<x, k>> pairs, which makes its laws facts about       *)
(* cardinalities: one row's change changes the sum by as much.             *)
(***************************************************************************)
EXTENDS Integers, FiniteSetTheorems, FunctionTheorems, TLAPS

(* The cents that x stands for, none when n is not positive. *)
Pile(x, n) == {x} \X (1 .. n)

Heap(S, f) == UNION {Pile(x, f[x]) : x \in S}
Negated(S, f) == [x \in S |-> - f[x]]

(* Only finitely many of the rows count. *)
Summable(S, f) == IsFiniteSet(Heap(S, f)) /\ IsFiniteSet(Heap(S, Negated(S, f)))

SumOf(S, f) == Cardinality(Heap(S, f)) - Cardinality(Heap(S, Negated(S, f)))

Positive(n) == IF n > 0 THEN n ELSE 0

-----------------------------------------------------------------------------
LEMMA PileSize ==
  ASSUME NEW x, NEW n \in Int
  PROVE  /\ IsFiniteSet(Pile(x, n))
         /\ Cardinality(Pile(x, n)) = Positive(n)
<1> DEFINE f == [k \in 1 .. n |-> <<x, k>>]
<1>1. IsFiniteSet(1 .. n) /\ Cardinality(1 .. n) = Positive(n)
  <2>1. /\ IsFiniteSet(1 .. n)
        /\ Cardinality(1 .. n) = IF 1 > n THEN 0 ELSE n - 1 + 1
    BY FS_Interval
  <2> QED BY <2>1 DEF Positive
<1>2. f \in Bijection(1 .. n, Pile(x, n))
  <2>1. f \in [1 .. n -> Pile(x, n)]
    BY DEF Pile
  <2>2. \A a, b \in 1 .. n : f[a] = f[b] => a = b
    OBVIOUS
  <2>3. \A u \in Pile(x, n) : \E k \in 1 .. n : f[k] = u
    BY DEF Pile
  <2> HIDE DEF f
  <2> QED BY <2>1, <2>2, <2>3, Fun_IsBij
<1>3. ExistsBijection(1 .. n, Pile(x, n))
  BY <1>2 DEF ExistsBijection
<1> HIDE DEF f
<1> QED BY <1>1, <1>3, FS_Bijection

(* Taking one row's pile out of the heap and putting another back. *)
LEMMA HeapChange ==
  ASSUME NEW S, NEW f \in [S -> Int], NEW g \in [S -> Int], NEW x \in S,
         \A y \in S \ {x} : g[y] = f[y],
         IsFiniteSet(Heap(S, f))
  PROVE  /\ IsFiniteSet(Heap(S, g))
         /\ Cardinality(Heap(S, g))
              = Cardinality(Heap(S, f)) - Positive(f[x]) + Positive(g[x])
<1> DEFINE rest == Heap(S \ {x}, f)
<1>1. /\ Heap(S, f) = rest \cup Pile(x, f[x])
      /\ Heap(S, g) = rest \cup Pile(x, g[x])
  BY DEF Heap
<1>2. rest \cap Pile(x, f[x]) = {} /\ rest \cap Pile(x, g[x]) = {}
  BY DEF Heap, Pile
<1>3. f[x] \in Int /\ g[x] \in Int
  OBVIOUS
<1> HIDE DEF rest
<1>4. /\ IsFiniteSet(Pile(x, f[x])) /\ Cardinality(Pile(x, f[x])) = Positive(f[x])
      /\ IsFiniteSet(Pile(x, g[x])) /\ Cardinality(Pile(x, g[x])) = Positive(g[x])
  BY <1>3, PileSize
<1>5. IsFiniteSet(rest)
  BY <1>1, FS_Subset
<1>6. Cardinality({}) = 0 /\ Cardinality(rest) \in Nat
  BY <1>5, FS_EmptySet, FS_CardinalityType
<1>7. Positive(f[x]) \in Nat /\ Positive(g[x]) \in Nat
  BY <1>3 DEF Positive
<1>8. /\ IsFiniteSet(rest \cup Pile(x, f[x]))
      /\ Cardinality(rest \cup Pile(x, f[x])) = Cardinality(rest) + Positive(f[x]) - 0
  BY <1>2, <1>4, <1>5, <1>6, FS_Union
<1>9. /\ IsFiniteSet(rest \cup Pile(x, g[x]))
      /\ Cardinality(rest \cup Pile(x, g[x])) = Cardinality(rest) + Positive(g[x]) - 0
  BY <1>2, <1>4, <1>5, <1>6, FS_Union
<1> QED BY <1>1, <1>6, <1>7, <1>8, <1>9

(* The law the proofs rest on: a sum moves with the one row that does. *)
LEMMA SumChange ==
  ASSUME NEW S, NEW f \in [S -> Int], NEW g \in [S -> Int], NEW x \in S,
         \A y \in S \ {x} : g[y] = f[y],
         Summable(S, f)
  PROVE  /\ Summable(S, g)
         /\ SumOf(S, g) = SumOf(S, f) - f[x] + g[x]
<1> DEFINE nf == Negated(S, f)
           ng == Negated(S, g)
<1>1. /\ nf \in [S -> Int] /\ ng \in [S -> Int]
      /\ nf[x] = - f[x] /\ ng[x] = - g[x]
      /\ \A y \in S \ {x} : ng[y] = nf[y]
  BY DEF Negated
<1>2. IsFiniteSet(Heap(S, f)) /\ IsFiniteSet(Heap(S, nf))
  BY DEF Summable
<1> HIDE DEF nf, ng
<1>3. /\ IsFiniteSet(Heap(S, g))
      /\ Cardinality(Heap(S, g))
           = Cardinality(Heap(S, f)) - Positive(f[x]) + Positive(g[x])
  BY <1>2, HeapChange
<1>4. /\ IsFiniteSet(Heap(S, ng))
      /\ Cardinality(Heap(S, ng))
           = Cardinality(Heap(S, nf)) - Positive(nf[x]) + Positive(ng[x])
  BY <1>1, <1>2, HeapChange
<1>5. /\ Cardinality(Heap(S, f)) \in Nat /\ Cardinality(Heap(S, nf)) \in Nat
      /\ f[x] \in Int /\ g[x] \in Int
  BY <1>2, FS_CardinalityType
<1>6. /\ Positive(f[x]) - Positive(nf[x]) = f[x]
      /\ Positive(g[x]) - Positive(ng[x]) = g[x]
      /\ Positive(f[x]) \in Nat /\ Positive(nf[x]) \in Nat
      /\ Positive(g[x]) \in Nat /\ Positive(ng[x]) \in Nat
  BY <1>1, <1>5 DEF Positive
<1>7. /\ SumOf(S, f) = Cardinality(Heap(S, f)) - Cardinality(Heap(S, nf))
      /\ SumOf(S, g) = Cardinality(Heap(S, g)) - Cardinality(Heap(S, ng))
  BY DEF SumOf, nf, ng
<1>8. Summable(S, g)
  BY <1>3, <1>4 DEF Summable, ng
<1>9. SumOf(S, g) = SumOf(S, f) - f[x] + g[x]
  <2> DEFINE cf == Cardinality(Heap(S, f))
             cnf == Cardinality(Heap(S, nf))
             cg == Cardinality(Heap(S, g))
             cng == Cardinality(Heap(S, ng))
  <2>1. /\ cg = cf - Positive(f[x]) + Positive(g[x])
        /\ cng = cnf - Positive(nf[x]) + Positive(ng[x])
        /\ SumOf(S, f) = cf - cnf /\ SumOf(S, g) = cg - cng
        /\ cf \in Nat /\ cnf \in Nat
    BY <1>3, <1>4, <1>5, <1>7
  <2> HIDE DEF cf, cnf, cg, cng
  <2> QED BY <1>5, <1>6, <2>1
<1> QED BY <1>8, <1>9

LEMMA SumType ==
  ASSUME NEW S, NEW f, Summable(S, f)
  PROVE  SumOf(S, f) \in Int
BY FS_CardinalityType DEF Summable, SumOf

(* Rows that are worth nothing add up to nothing. *)
LEMMA SumNothing ==
  ASSUME NEW S, NEW f \in [S -> Int], \A x \in S : f[x] = 0
  PROVE  Summable(S, f) /\ SumOf(S, f) = 0
<1>1. Heap(S, f) = {} /\ Heap(S, Negated(S, f)) = {}
  BY DEF Heap, Pile, Negated
<1>2. IsFiniteSet({}) /\ Cardinality({}) = 0
  BY FS_EmptySet
<1> QED BY <1>1, <1>2 DEF Summable, SumOf

(* No row is worth more than the sum of rows that are all worth something. *)
LEMMA SumBounds ==
  ASSUME NEW S, NEW f \in [S -> Int], \A x \in S : f[x] >= 0, Summable(S, f)
  PROVE  /\ SumOf(S, f) \in Nat
         /\ \A x \in S : f[x] =< SumOf(S, f)
<1>1. Heap(S, Negated(S, f)) = {}
  BY DEF Heap, Pile, Negated
<1>2. Cardinality({}) = 0
  BY FS_EmptySet
<1>3. IsFiniteSet(Heap(S, f)) /\ Cardinality(Heap(S, f)) \in Nat
  BY FS_CardinalityType DEF Summable
<1>4. SumOf(S, f) = Cardinality(Heap(S, f))
  BY <1>1, <1>2, <1>3 DEF SumOf
<1>5. ASSUME NEW x \in S
      PROVE  f[x] =< SumOf(S, f)
  <2>1. f[x] \in Int /\ f[x] >= 0
    OBVIOUS
  <2>2. Pile(x, f[x]) \in SUBSET Heap(S, f)
    BY DEF Heap
  <2>3. Cardinality(Pile(x, f[x])) = f[x]
    BY <2>1, PileSize DEF Positive
  <2>4. Cardinality(Pile(x, f[x])) =< Cardinality(Heap(S, f))
    BY <1>3, <2>2, FS_Subset
  <2> QED BY <1>4, <2>3, <2>4
<1> QED BY <1>3, <1>4, <1>5
=============================================================================
