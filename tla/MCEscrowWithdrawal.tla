------------------------- MODULE MCEscrowWithdrawal ------------------------
(* Instances of EscrowWithdrawal for TLC. *)
EXTENDS EscrowWithdrawal

CONSTANTS w1, w2, h1, r1, r2

(* One holder, who earned 4 units and owes a quarter in withholding: the   *)
(* two withdrawals of 2 units compete for 3.                               *)
MCHolderOf == [i \in Intents |-> h1]
MCAmount == [i \in Intents |-> 2]
MCGross == [h \in Holders |-> 4]
=============================================================================
