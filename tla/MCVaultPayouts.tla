--------------------------- MODULE MCVaultPayouts --------------------------
(* Instances of VaultPayouts for TLC. *)
EXTENDS VaultPayouts, TLC

CONSTANTS t1, t2, h1, h2, r1

(* Each payout asks for 2 cents of the 2 available and 1 pending. *)
MCAmount == [t \in Payouts |-> 2]
MCFunds == [available |-> 2, pending |-> 1]

(* Single cents: one to pay out and one pending, so that a second debit of *)
(* the same payout finds money. *)
MCUnitAmount == [t \in Payouts |-> 1]
MCUnitFunds == [available |-> 1, pending |-> 1]

Symmetric == Permutations(Handlers)
=============================================================================
