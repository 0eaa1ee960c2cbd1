------------------------- MODULE EscrowMoney_proofs ------------------------
(***************************************************************************)
(* The laws of Total: a sum of amounts is a natural number, adds up over   *)
(* disjoint sets, and only grows with the set.                             *)
(***************************************************************************)
EXTENDS EscrowMoney, FiniteSetTheorems, FunctionTheorems, TLAPS

(* The units of one intent number its amount. *)
LEMMA UnitsOfOne ==
  ASSUME NEW i \in Intents
  PROVE  /\ IsFiniteSet(Units({i}))
         /\ Total({i}) = Amount[i]
<1> DEFINE n == Amount[i]
           f == [k \in 1 .. n |-> <<i, k>>]
<1>1. n \in Nat
  BY MoneyAssumption
<1>2. Units({i}) = {i} \X (1 .. n)
  BY DEF Units
<1>3. IsFiniteSet(1 .. n) /\ Cardinality(1 .. n) = n
  <2>1. /\ IsFiniteSet(1 .. n)
        /\ Cardinality(1 .. n) = IF 1 > n THEN 0 ELSE n - 1 + 1
    BY <1>1, FS_Interval
  <2> QED BY <2>1, <1>1
<1>4. f \in Bijection(1 .. n, {i} \X (1 .. n))
  <2>1. f \in [1 .. n -> {i} \X (1 .. n)]
    OBVIOUS
  <2>2. \A a, b \in 1 .. n : f[a] = f[b] => a = b
    OBVIOUS
  <2>3. \A t \in {i} \X (1 .. n) : \E k \in 1 .. n : f[k] = t
    OBVIOUS
  <2> HIDE DEF f
  <2> QED BY <2>1, <2>2, <2>3, Fun_IsBij
<1>5. ExistsBijection(1 .. n, {i} \X (1 .. n))
  BY <1>4 DEF ExistsBijection
<1> HIDE DEF n, f
<1>6. /\ IsFiniteSet({i} \X (1 .. n))
      /\ Cardinality({i} \X (1 .. n)) = Cardinality(1 .. n)
  BY <1>3, <1>5, FS_Bijection
<1> QED BY <1>2, <1>3, <1>6 DEF Total, n

(* Only finitely many units are in question. *)
LEMMA UnitsFinite ==
  ASSUME NEW S \in SUBSET Intents
  PROVE  IsFiniteSet(Units(S))
<1> DEFINE f == [i \in S |-> {i} \X (1 .. Amount[i])]
           T == {{i} \X (1 .. Amount[i]) : i \in S}
<1>1. IsFiniteSet(S)
  BY MoneyAssumption, FS_Subset
<1>2. f \in Surjection(S, T)
  BY DEF Surjection
<1>3. IsFiniteSet(T)
  <2> HIDE DEF f, T
  <2> QED BY <1>1, <1>2, FS_Surjection
<1>4. ASSUME NEW t \in T
      PROVE  IsFiniteSet(t)
  <2>1. PICK i \in S : t = {i} \X (1 .. Amount[i])
    OBVIOUS
  <2>2. Units({i}) = {i} \X (1 .. Amount[i])
    BY DEF Units
  <2> QED BY <2>1, <2>2, UnitsOfOne
<1>5. Units(S) = UNION T
  BY DEF Units
<1> HIDE DEF T
<1> QED BY <1>3, <1>4, <1>5, FS_UNION

LEMMA TotalType ==
  ASSUME NEW S \in SUBSET Intents
  PROVE  Total(S) \in Nat
BY UnitsFinite, FS_CardinalityType DEF Total

(* Amounts of different intents add up. *)
LEMMA TotalDisjoint ==
  ASSUME NEW S \in SUBSET Intents, NEW T \in SUBSET Intents, S \cap T = {}
  PROVE  Total(S \cup T) = Total(S) + Total(T)
<1>1. Units(S \cup T) = Units(S) \cup Units(T)
  BY DEF Units
<1>2. Units(S) \cap Units(T) = {}
  BY DEF Units
<1>3. IsFiniteSet(Units(S)) /\ IsFiniteSet(Units(T))
  BY UnitsFinite
<1>4. Cardinality({}) = 0
  BY FS_EmptySet
<1>5. /\ Cardinality(Units(S)) \in Nat
      /\ Cardinality(Units(T)) \in Nat
  BY <1>3, FS_CardinalityType
<1>6. Cardinality(Units(S) \cup Units(T)) =
        Cardinality(Units(S)) + Cardinality(Units(T))
          - Cardinality(Units(S) \cap Units(T))
  BY <1>3, FS_Union
<1>7. Cardinality(Units(S) \cap Units(T)) = 0
  BY <1>2, <1>4, Zenon
<1>8. Total(S \cup T) = Cardinality(Units(S) \cup Units(T))
  BY <1>1, Zenon DEF Total
<1>9. Total(S) = Cardinality(Units(S)) /\ Total(T) = Cardinality(Units(T))
  BY Zenon DEF Total
<1> QED BY <1>5, <1>6, <1>7, <1>8, <1>9

LEMMA TotalMonotone ==
  ASSUME NEW T \in SUBSET Intents, NEW S \in SUBSET T
  PROVE  Total(S) =< Total(T)
<1>1. Total(S) \in Nat /\ Total(T \ S) \in Nat
  BY TotalType
<1>2. Total(S \cup (T \ S)) = Total(S) + Total(T \ S)
  BY TotalDisjoint
<1>3. S \cup (T \ S) = T
  OBVIOUS
<1>4. Total(T) = Total(S) + Total(T \ S)
  BY <1>2, <1>3, Zenon
<1> QED BY <1>1, <1>4

LEMMA TotalAdd ==
  ASSUME NEW S \in SUBSET Intents, NEW i \in Intents \ S
  PROVE  Total(S \cup {i}) = Total(S) + Amount[i]
BY TotalDisjoint, UnitsOfOne

LEMMA TotalUnion ==
  ASSUME NEW S \in SUBSET Intents, NEW T \in SUBSET Intents
  PROVE  Total(S \cup T) =< Total(S) + Total(T)
<1>1. Total(S \cup (T \ S)) = Total(S) + Total(T \ S)
  BY TotalDisjoint
<1>2. Total(T \ S) =< Total(T)
  BY TotalMonotone
<1>3. S \cup (T \ S) = S \cup T
  OBVIOUS
<1>4. Total(S \cup T) = Total(S) + Total(T \ S)
  BY <1>1, <1>3, Zenon
<1>5. Total(S) \in Nat /\ Total(T) \in Nat /\ Total(T \ S) \in Nat
  BY TotalType
<1> QED BY <1>2, <1>4, <1>5

(* A fraction of a natural number, floored, is no more than the number. *)
LEMMA FlooredShare ==
  ASSUME NEW u \in Nat, NEW d \in Nat \ {0}, NEW n \in 0 .. d
  PROVE  (u * n) \div d \in Nat /\ (u * n) \div d =< u
<1>1. u * n =< u * d /\ u * n \in Nat /\ u * d \in Nat
  OBVIOUS
<1> QED BY <1>1

(* What a holder earned is a natural number. *)
LEMMA NetType ==
  ASSUME NEW h \in Holders
  PROVE  Net(h) \in Nat
<1>1. Gross[h] \in Nat /\ TaxDen \in Nat \ {0} /\ TaxNum \in 0 .. TaxDen
  BY MoneyAssumption
<1>2. /\ WithholdingUnitsOn(Gross[h]) \in Nat
      /\ WithholdingUnitsOn(Gross[h]) =< Gross[h]
  BY <1>1, FlooredShare DEF WithholdingUnitsOn
<1> QED BY <1>1, <1>2 DEF Net
=============================================================================
