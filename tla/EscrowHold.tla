---------------------------- MODULE EscrowHold -----------------------------
(***************************************************************************)
(* What the intent-first withdrawal promises (audit notes #4 and #5 in     *)
(* migration 0058): funds are committed before any money moves, a          *)
(* commitment is dropped only when no money is out on the rail, and a      *)
(* commitment is made only where it fits beside every other hold in what a *)
(* look at the payouts had left of the holder's earnings.  The look may be *)
(* out of date when it is used.  EscrowWithdrawal, the code's own steps,   *)
(* implements this specification.                                          *)
(***************************************************************************)
EXTENDS EscrowMoney

VARIABLES
  hold,    \* hold[i]: "none", "held", "paid" or "void"
  money,   \* money[i]: "in" escrow, "out" on the rail, or "back"
  room     \* room[i]: what a look left for i, 0 without one

vars == <<hold, money, room>>

Held(h) == Of(h, {i \in Intents : hold[i] = "held"})
Spent(h) == Of(h, {i \in Intents : hold[i] = "paid" /\ money[i] # "back"})

Init ==
  /\ hold = [i \in Intents |-> "none"]
  /\ money = [i \in Intents |-> "in"]
  /\ room = [i \in Intents |-> 0]

(* A look never leaves more than the payouts do; money that is written off *)
(* already, or not yet known to be back, leaves less.                      *)
Look(i) ==
  /\ hold[i] = "none"
  /\ room' = [room EXCEPT ![i] = room'[i]]
  /\ room'[i] + Total(Spent(HolderOf[i])) =< Net(HolderOf[i])
  /\ UNCHANGED <<hold, money>>

(* A commitment fits beside every other hold, or is not made. *)
Reserve(i) ==
  /\ hold[i] = "none"
  /\ Total(Held(HolderOf[i])) + Amount[i] =< room[i]
  /\ hold' = [hold EXCEPT ![i] = "held"]
  /\ room' = [room EXCEPT ![i] = 0]
  /\ UNCHANGED money

Refuse(i) ==
  /\ hold[i] = "none"
  /\ room' = [room EXCEPT ![i] = 0]
  /\ UNCHANGED <<hold, money>>

Send(i) ==
  /\ hold[i] = "held"
  /\ money[i] = "in"
  /\ money' = [money EXCEPT ![i] = "out"]
  /\ UNCHANGED <<hold, room>>

Return(i) ==
  /\ money[i] = "out"
  /\ money' = [money EXCEPT ![i] = "back"]
  /\ UNCHANGED <<hold, room>>

Settle(i) ==
  /\ hold[i] = "held"
  /\ money[i] # "in"
  /\ hold' = [hold EXCEPT ![i] = "paid"]
  /\ UNCHANGED <<money, room>>

(* The hold is dropped only while the money is not out. *)
Void(i) ==
  /\ hold[i] = "held"
  /\ money[i] # "out"
  /\ hold' = [hold EXCEPT ![i] = "void"]
  /\ UNCHANGED <<money, room>>

Next ==
  \E i \in Intents :
    \/ Look(i) \/ Reserve(i) \/ Refuse(i)
    \/ Send(i) \/ Return(i) \/ Settle(i) \/ Void(i)

Spec == Init /\ [][Next]_vars
=============================================================================
