--------------------------- MODULE MCJournalChain --------------------------
(* Instances of JournalChain for TLC. *)
EXTENDS JournalChain, TLC

CONSTANTS p1, p2, p3, skewed

(* Two legs that balance; the legs of "skewed" do not. *)
Debit(cents) == [account |-> "fbo_cash", debit_cents |-> cents, credit_cents |-> 0]
Credit(cents) == [account |-> "vault", debit_cents |-> 0, credit_cents |-> cents]
MCLegs == {Debit(2), Credit(2), Credit(1)}
MCLegsOf == [p \in Posts |-> IF p = skewed THEN <<Debit(2), Credit(1)>>
                                           ELSE <<Debit(2), Credit(2)>>]

Symmetric == Permutations({p1, p2, p3} \cap Posts)
=============================================================================
