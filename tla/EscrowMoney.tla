---------------------------- MODULE EscrowMoney ----------------------------
(***************************************************************************)
(* The money vocabulary of the escrow withdrawal path: withdrawal intents, *)
(* the holder and the amount of each, and what a holder has earned.        *)
(*                                                                         *)
(* A sum of amounts is the number of units the amounts stand for, counted  *)
(* as <<intent, k>> pairs.  The SQL sums of migration 0058 and the BigInt  *)
(* reductions of src/lib/escrow/balance.ts are both this count.            *)
(***************************************************************************)
EXTENDS Integers, FiniteSets

CONSTANTS
  Intents,    \* ids of the withdrawal attempts (randomUUID per request)
  Holders,    \* rights holders
  HolderOf,   \* HolderOf[i]: the holder whose escrow intent i debits
  Amount,     \* Amount[i]: the gross debit of intent i, in ledger units
  Gross,      \* Gross[h]: sum of the settlement grossShare entries of h
  TaxNum,     \* the engine's withholding rate as the exact
  TaxDen      \* fraction TaxNum / TaxDen (0.24 is 24 / 100)

ASSUME MoneyAssumption ==
  /\ IsFiniteSet(Intents)
  /\ HolderOf \in [Intents -> Holders]
  /\ Amount \in [Intents -> Nat \ {0}]
  /\ Gross \in [Holders -> Nat]
  /\ TaxDen \in Nat \ {0}
  /\ TaxNum \in 0 .. TaxDen

(* withholdingUnitsOn: the exact product, floored. *)
WithholdingUnitsOn(units) == (units * TaxNum) \div TaxDen

(* What the holder earned after withholding, before any payout. *)
Net(h) == Gross[h] - WithholdingUnitsOn(Gross[h])

Units(S) == UNION {{i} \X (1 .. Amount[i]) : i \in S}

Total(S) == Cardinality(Units(S))

Of(h, S) == {i \in S : HolderOf[i] = h}
=============================================================================
