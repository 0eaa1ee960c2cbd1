------------------------ MODULE VaultPayouts_proofs ------------------------
(***************************************************************************)
(* For any number of payouts, deliveries and releases, any amounts and any *)
(* crash: no bucket of the vault goes negative, no transfer is credited    *)
(* back twice, and the journals of calls that ran to their end give the    *)
(* vault to the cent.  Until a delivery strays or a release is hasty, held *)
(* money is there, only settled payouts leave the vault, and the rows of a *)
(* payout agree with the bank.                                             *)
(***************************************************************************)
EXTENDS VaultPayouts, CentSums

(* A busy delivery has a record whose fields are in range. *)
LEMMA BusyHandler ==
  ASSUME TypeOK, NEW h \in Handlers, handler[h].step # "idle"
  PROVE  /\ handler[h] \in Handling
         /\ handler[h].payout \in Payouts
         /\ Amount[handler[h].payout] \in Nat \ {0}
BY VaultAssumption DEF TypeOK, IdleHandler, Handling

(* A busy delivery may move to any step of its work. *)
LEMMA StepType ==
  ASSUME TypeOK, NEW h \in Handlers, handler[h].step # "idle",
         NEW to \in HandlerSteps, handler' = [handler EXCEPT ![h].step = to]
  PROVE  handler' \in [Handlers -> Handling \cup {IdleHandler}]
<1>1. [handler[h] EXCEPT !.step = to] \in Handling
  BY BusyHandler DEF Handling
<1>2. handler' = [handler EXCEPT ![h] = [handler[h] EXCEPT !.step = to]]
  OBVIOUS
<1> QED BY <1>1, <1>2 DEF TypeOK

(* A delivery may give up at any step. *)
LEMMA HangType ==
  ASSUME TypeOK, NEW h \in Handlers, Hang(h)
  PROVE  handler' \in [Handlers -> Handling \cup {IdleHandler}]
BY DEF Hang, TypeOK

(* Cents moved by the guarded statement leave both buckets natural. *)
LEMMA MoveType ==
  ASSUME TypeOK, NEW a \in Int, NEW p \in Int, Move(a, p)
  PROVE  vault' \in [available : Nat, pending : Nat]
BY DEF TypeOK, Move, Covers, Plus

LEMMA BookType ==
  ASSUME TypeOK, NEW a \in Int, NEW p \in Int, Book(a, p)
  PROVE  books' \in [available : Int, pending : Int]
BY DEF TypeOK, Book, Plus

(* A sum of amounts is a natural number. *)
LEMMA TotalFinite ==
  ASSUME NEW S \in SUBSET Payouts
  PROVE  IsFiniteSet(Units(S))
<1> DEFINE f == [t \in S |-> {t} \X (1 .. Amount[t])]
           T == {{t} \X (1 .. Amount[t]) : t \in S}
<1>1. IsFiniteSet(S)
  BY VaultAssumption, FS_Subset
<1>2. f \in Surjection(S, T)
  BY DEF Surjection
<1>3. IsFiniteSet(T)
  <2> HIDE DEF f, T
  <2> QED BY <1>1, <1>2, FS_Surjection
<1>4. ASSUME NEW u \in T
      PROVE  IsFiniteSet(u)
  <2>1. PICK t \in S : u = {t} \X (1 .. Amount[t])
    OBVIOUS
  <2>2. IsFiniteSet({t}) /\ IsFiniteSet(1 .. Amount[t])
    <3>1. 1 \in Int /\ Amount[t] \in Int
      BY VaultAssumption
    <3> QED BY <3>1, FS_Singleton, FS_Interval
  <2> QED BY <2>1, <2>2, FS_Product
<1>5. Units(S) = UNION T
  BY DEF Units
<1> HIDE DEF T
<1> QED BY <1>3, <1>4, <1>5, FS_UNION

LEMMA TotalType ==
  ASSUME NEW S \in SUBSET Payouts
  PROVE  Total(S) \in Nat
BY TotalFinite, FS_CardinalityType DEF Total

LEMMA TypePay ==
  ASSUME TypeOK, NEW t \in Payouts, Pay(t)
  PROVE  TypeOK'
<1> USE DEF rows, bank, notes, Go
<1>0. payout' \in [Payouts -> PayoutSteps]
  BY DEF Pay, HoldFunds, InsertLedger, DispatchAccepted, Register,
         DispatchRefused, DispatchUnanswered, Rollback, FailLedger, RecordTransfer, InsertHold,
         JournalHold, PayoutFails, TypeOK, PayoutSteps
<1>a. Amount[t] \in Int /\ - Amount[t] \in Int
  BY VaultAssumption
<1>1. CASE HoldFunds(t)
  <2>1. vault' \in [available : Nat, pending : Nat]
    BY <1>1, <1>a, MoveType DEF HoldFunds
  <2> QED BY <1>0, <1>1, <2>1 DEF HoldFunds, TypeOK
<1>2. CASE InsertLedger(t)
  BY <1>0, <1>2 DEF InsertLedger, TypeOK
<1>3. CASE DispatchAccepted(t)
  BY <1>0, <1>3 DEF DispatchAccepted, TypeOK
<1>4. CASE Register(t)
  BY <1>0, <1>4 DEF Register, TypeOK
<1>5. CASE DispatchRefused(t) \/ DispatchUnanswered(t)
  BY <1>0, <1>5 DEF DispatchRefused, DispatchUnanswered, TypeOK
<1>6. CASE Rollback(t)
  <2>1. vault' \in [available : Nat, pending : Nat]
    BY <1>6, <1>a, MoveType DEF Rollback, TypeOK
  <2>2. cut' \in BOOLEAN
    BY <1>6 DEF Rollback, TypeOK
  <2> QED BY <1>0, <1>6, <2>1, <2>2 DEF Rollback, TypeOK
<1>7. CASE FailLedger(t)
  BY <1>0, <1>7 DEF FailLedger, TypeOK
<1>8. CASE RecordTransfer(t)
  BY <1>0, <1>8 DEF RecordTransfer, TypeOK
<1>9. CASE InsertHold(t)
  BY <1>0, <1>9 DEF InsertHold, TypeOK, HoldStatus
<1>10. CASE JournalHold(t)
  <2>1. books' \in [available : Int, pending : Int]
    BY <1>10, <1>a, BookType DEF JournalHold
  <2> QED BY <1>0, <1>10, <2>1 DEF JournalHold, TypeOK
<1>11. CASE PayoutFails(t)
  BY <1>0, <1>11 DEF PayoutFails, TypeOK
<1> QED BY <1>1, <1>2, <1>3, <1>4, <1>5, <1>6, <1>7, <1>8, <1>9, <1>10, <1>11
        DEF Pay
(* What a delivery does outside settleVaultPayout and reverseVaultPayout,  *)
(* and the tail the two share.                                             *)
LEMMA TypeDelivery ==
  ASSUME TypeOK, NEW h \in Handlers,
         \/ RecordEvent(h) \/ HandlerFails(h) \/ MarkTransfer(h)
         \/ MarkLedger(h) \/ PostVerdict(h)
  PROVE  TypeOK'
<1> USE DEF rows, bank, notes
<1>1. CASE RecordEvent(h)
  <2>1. handler[h] \in Handling
    BY <1>1, BusyHandler DEF RecordEvent
  <2>2. handler' \in [Handlers -> Handling \cup {IdleHandler}]
    BY <1>1, HangType DEF RecordEvent
  <2>3. seen' \subseteq Payouts \X Events /\ bells' \subseteq Payouts \X Events
    BY <1>1, <2>1 DEF RecordEvent, TypeOK, Handling
  <2> QED BY <1>1, <2>2, <2>3 DEF RecordEvent, TypeOK
<1>2. CASE HandlerFails(h)
  <2>1. handler' \in [Handlers -> Handling \cup {IdleHandler}]
    BY <1>2, HangType DEF HandlerFails
  <2>2. handler[h] \in Handling
    BY <1>2, BusyHandler DEF HandlerFails
  <2>3. handler[h].payout \in Payouts
    BY <2>2 DEF Handling
  <2>4. strayed' \subseteq Payouts
    BY <1>2, <2>3 DEF HandlerFails, TypeOK
  <2> QED BY <1>2, <2>1, <2>4 DEF HandlerFails, TypeOK
<1>3. CASE MarkTransfer(h)
  <2>1. handler' \in [Handlers -> Handling \cup {IdleHandler}]
    BY <1>3, StepType DEF MarkTransfer, Step, HandlerSteps
  <2>2. handler[h].event \in Events
    BY <1>3, BusyHandler DEF MarkTransfer, Step, Handling
  <2>3. StatusOf(handler[h].event) \in {"settled", "failed", "returned"}
    BY <2>2 DEF StatusOf, Events
  <2> QED BY <1>3, <2>1, <2>3 DEF MarkTransfer, TypeOK
<1>4. CASE MarkLedger(h)
  <2>1. handler' \in [Handlers -> Handling \cup {IdleHandler}]
    BY <1>4, StepType DEF MarkLedger, Step, HandlerSteps
  <2> QED BY <1>4, <2>1 DEF MarkLedger, TypeOK
<1>5. CASE PostVerdict(h)
  <2>1. handler' \in [Handlers -> Handling \cup {IdleHandler}]
    BY <1>5, StepType DEF PostVerdict, Step, HandlerSteps
  <2>2. Amount[handler[h].payout] \in Int
    BY <1>5, BusyHandler DEF PostVerdict, Step
  <2>3. books' \in [available : Int, pending : Int]
    <3> DEFINE n == Amount[handler[h].payout]
    <3>1. n \in Int /\ - n \in Int /\ 0 \in Int
      BY <2>2
    <3>2. Book(0, - n) \/ Book(n, - n) \/ Book(n, 0)
      BY <1>5 DEF PostVerdict
    <3> HIDE DEF n
    <3> QED BY <3>1, <3>2, BookType
  <2> QED BY <1>5, <2>1, <2>3 DEF PostVerdict, TypeOK
<1> QED BY <1>1, <1>2, <1>3, <1>4, <1>5

LEMMA TypeSettle ==
  ASSUME TypeOK, NEW h \in Handlers, Settle(h)
  PROVE  TypeOK'
<1> USE DEF rows, bank, notes
<1>1. CASE ReadHold(h)
  <2>1. handler[h] \in Handling /\ hold[handler[h].payout] \in HoldStatus
    BY <1>1, BusyHandler DEF ReadHold, TypeOK
  <2> DEFINE new == [handler[h] EXCEPT !.step = "vault",
                                       !.hold = hold[handler[h].payout]]
  <2>2. new \in Handling
    BY <2>1 DEF Handling, HandlerSteps
  <2>3. handler' = [handler EXCEPT ![h] = new]
    BY <1>1 DEF ReadHold
  <2> HIDE DEF new
  <2>4. handler' \in [Handlers -> Handling \cup {IdleHandler}]
    BY <2>2, <2>3 DEF TypeOK
  <2> QED BY <1>1, <2>4 DEF ReadHold, TypeOK
<1>2. CASE ReadVault(h)
  <2>1. handler[h].hold \in HoldStatus
    BY <1>2, BusyHandler DEF ReadVault, Handling
  <2>2. Settling(handler[h].hold) # "refused"
          => Settling(handler[h].hold) \in HandlerSteps
    BY <2>1 DEF Settling, HoldStatus, HandlerSteps
  <2>3. handler' \in [Handlers -> Handling \cup {IdleHandler}]
    <3>1. CASE Hang(h)
      BY <3>1, HangType
    <3>2. CASE ~ Hang(h)
      BY <1>2, <2>2, <3>2, StepType DEF ReadVault, Step
    <3> QED BY <3>1, <3>2
  <2> QED BY <1>2, <2>3 DEF ReadVault, TypeOK
<1>3. CASE Backfill(h)
  <2> DEFINE t == handler[h].payout
             new(to, status) == [handler[h] EXCEPT !.step = to, !.hold = status]
  <2>1. handler[h] \in Handling /\ hold[t] \in HoldStatus
    BY <1>3, BusyHandler DEF Backfill, TypeOK
  <2>2. ASSUME NEW to \in HandlerSteps, NEW status \in HoldStatus,
               handler' = [handler EXCEPT ![h].step = to, ![h].hold = status]
        PROVE  handler' \in [Handlers -> Handling \cup {IdleHandler}]
    <3>1. new(to, status) \in Handling
      BY <2>1 DEF Handling
    <3>2. handler' = [handler EXCEPT ![h] = new(to, status)]
      BY <2>2
    <3> HIDE DEF new
    <3> QED BY <3>1, <3>2 DEF TypeOK
  <2>3. \A status \in HoldStatus :
          Settling(status) # "refused" => Settling(status) \in HandlerSteps
    BY DEF Settling, HoldStatus, HandlerSteps
  <2>4. handler' \in [Handlers -> Handling \cup {IdleHandler}]
    <3>1. CASE Hang(h)
      BY <3>1, HangType
    <3>2. CASE ~ Hang(h)
      <4>1. \E to \in HandlerSteps, status \in HoldStatus :
              handler' = [handler EXCEPT ![h].step = to, ![h].hold = status]
        <5>1. "debit" \in HandlerSteps /\ "in_flight" \in HoldStatus
                /\ "settled" \in HoldStatus
          BY DEF HandlerSteps, HoldStatus
        <5> QED BY <1>3, <2>1, <2>3, <3>2, <5>1 DEF Backfill
      <4> QED BY <2>2, <4>1
    <3> QED BY <3>1, <3>2
  <2>5. hold' \in [Payouts -> HoldStatus] /\ cut' \in BOOLEAN
    BY <1>3 DEF Backfill, TypeOK, HoldStatus
  <2> QED BY <1>3, <2>4, <2>5 DEF Backfill, TypeOK
<1>4. CASE Debit(h)
  <2>1. Amount[handler[h].payout] \in Nat \ {0}
    BY <1>4, BusyHandler DEF Debit
  <2>2. handler' \in [Handlers -> Handling \cup {IdleHandler}]
    BY <1>4, StepType, HangType DEF Debit, Step, HandlerSteps
  <2>3. vault' \in [available : Nat, pending : Nat]
    BY <1>4, <2>1, MoveType DEF Debit, TypeOK
  <2> QED BY <1>4, <2>2, <2>3 DEF Debit, TypeOK
<1>5. CASE MarkHold(h)
  <2>1. handler' \in [Handlers -> Handling \cup {IdleHandler}]
    BY <1>5, StepType DEF MarkHold, Step, HandlerSteps
  <2> QED BY <1>5, <2>1 DEF MarkHold, TypeOK, HoldStatus
<1> QED BY <1>1, <1>2, <1>3, <1>4, <1>5 DEF Settle

LEMMA TypeReverse ==
  ASSUME TypeOK, NEW h \in Handlers, Reverse(h)
  PROVE  TypeOK'
<1> USE DEF rows, bank, notes
<1>1. CASE ReadReversal(h)
  <2>1. handler' \in [Handlers -> Handling \cup {IdleHandler}]
    BY <1>1, StepType DEF ReadReversal, Step, HandlerSteps
  <2> QED BY <1>1, <2>1 DEF ReadReversal, TypeOK
<1>2. CASE ReadView(h)
  <2>1. handler[h] \in Handling
    BY <1>2, BusyHandler DEF ReadView
  <2> DEFINE seesIt == Covers(vault, 0, - Amount[handler[h].payout])
             new == [handler[h] EXCEPT !.step = "held", !.covered = seesIt]
  <2>2. seesIt \in BOOLEAN
    BY DEF Covers
  <2>3. new \in Handling
    BY <2>1, <2>2 DEF Handling, HandlerSteps
  <2>4. handler' = [handler EXCEPT ![h] = new]
    BY <1>2 DEF ReadView
  <2> HIDE DEF new
  <2>5. handler' \in [Handlers -> Handling \cup {IdleHandler}]
    BY <2>3, <2>4 DEF TypeOK
  <2> QED BY <1>2, <2>5 DEF ReadView, TypeOK
<1>3. CASE ReadHeld(h)
  <2>1. handler[h] \in Handling /\ hold[handler[h].payout] \in HoldStatus
    BY <1>3, BusyHandler DEF ReadHeld, TypeOK
  <2> DEFINE new == [handler[h] EXCEPT !.step = "lock",
                                       !.hold = hold[handler[h].payout]]
  <2>2. new \in Handling
    BY <2>1 DEF Handling, HandlerSteps
  <2>3. handler' = [handler EXCEPT ![h] = new]
    BY <1>3 DEF ReadHeld
  <2> HIDE DEF new
  <2>4. handler' \in [Handlers -> Handling \cup {IdleHandler}]
    BY <2>2, <2>3 DEF TypeOK
  <2> QED BY <1>3, <2>4 DEF ReadHeld, TypeOK
<1>4. CASE Lock(h)
  <2>1. handler[h].payout \in Payouts
    BY <1>4, BusyHandler DEF Lock, Step
  <2>2. handler' \in [Handlers -> Handling \cup {IdleHandler}]
    BY <1>4, StepType DEF Lock, Step, HandlerSteps
  <2>3. cut' \in BOOLEAN
    BY <1>4 DEF Lock, TypeOK
  <2> QED BY <1>4, <2>1, <2>2, <2>3 DEF Lock, TypeOK
<1>5. CASE FindWinner(h)
  <2>1. handler' \in [Handlers -> Handling \cup {IdleHandler}]
    BY <1>5, StepType, HangType DEF FindWinner, Step, HandlerSteps
  <2> QED BY <1>5, <2>1 DEF FindWinner, TypeOK
<1>6. CASE Unlock(h)
  <2>1. handler' \in [Handlers -> Handling \cup {IdleHandler}]
    BY <1>6, HangType DEF Unlock
  <2> QED BY <1>6, <2>1 DEF Unlock, TypeOK
<1>7. CASE Credit(h)
  <2> DEFINE n == Amount[handler[h].payout]
             taken == TakenFromPending(handler[h])
  <2>1. n \in Int /\ - taken \in Int
    BY <1>7, BusyHandler DEF Credit, TakenFromPending
  <2>2. handler' \in [Handlers -> Handling \cup {IdleHandler}]
    BY <1>7, StepType DEF Credit, Step, HandlerSteps
  <2>3. vault' \in [available : Nat, pending : Nat]
    <3>1. Move(n, - taken) \/ vault' = vault
      BY <1>7 DEF Credit
    <3> HIDE DEF n, taken
    <3> QED BY <2>1, <3>1, MoveType DEF TypeOK
  <2>4. credits' \in [Payouts -> Nat]
    BY <1>7 DEF Credit, TypeOK
  <2> QED BY <1>7, <2>2, <2>3, <2>4 DEF Credit, TypeOK
<1>8. CASE Unhold(h)
  <2>1. handler' \in [Handlers -> Handling \cup {IdleHandler}]
    BY <1>8, StepType DEF Unhold, Step, HandlerSteps
  <2> QED BY <1>8, <2>1 DEF Unhold, TypeOK, HoldStatus
<1> QED BY <1>1, <1>2, <1>3, <1>4, <1>5, <1>6, <1>7, <1>8 DEF Reverse

LEMMA TypeRelease ==
  ASSUME TypeOK, NEW r \in Releasers,
         ReleaseRead(r) \/ Release(r) \/ ReleaseFails(r)
  PROVE  TypeOK'
<1> USE DEF rows, bank, notes
<1>e. EndRelease(r) => release' \in [Releasers ->
         [step : {"idle", "sum", "move", "journal"}, view : Nat, cents : Nat]]
  BY DEF EndRelease, IdleRelease, TypeOK
<1>1. CASE ReleaseRead(r)
  BY <1>1 DEF ReleaseRead, IdleRelease, TypeOK
<1>2. CASE ReleaseSum(r)
  <2>1. SumInFlightPayoutHolds \in Nat
    BY TotalType DEF SumInFlightPayoutHolds
  <2>2. release[r].view - SumInFlightPayoutHolds \in Int
    BY <2>1 DEF TypeOK
  <2>3. CASE EndRelease(r)
    BY <1>2, <1>e, <2>3 DEF ReleaseSum, TypeOK
  <2>4. CASE ~ EndRelease(r)
    <3>1. PICK cents \in 1 .. release[r].view - SumInFlightPayoutHolds :
            release' = [release EXCEPT ![r] =
              [IdleRelease EXCEPT !.step = "move", !.cents = cents]]
      BY <1>2, <2>4 DEF ReleaseSum
    <3>2. cents \in Nat
      BY <2>2, <3>1
    <3> QED BY <1>2, <3>1, <3>2 DEF ReleaseSum, IdleRelease, TypeOK
  <2> QED BY <2>3, <2>4
<1>3. CASE ReleaseMove(r)
  <2>1. release[r].cents \in Int /\ - release[r].cents \in Int
    BY DEF TypeOK
  <2>2. vault' \in [available : Nat, pending : Nat]
    BY <1>3, <2>1, MoveType DEF ReleaseMove, TypeOK
  <2>3. release' \in [Releasers ->
          [step : {"idle", "sum", "move", "journal"}, view : Nat, cents : Nat]]
    BY <1>3, <1>e DEF ReleaseMove, TypeOK
  <2> QED BY <1>3, <2>2, <2>3 DEF ReleaseMove, TypeOK
<1>4. CASE ReleaseJournal(r)
  <2>1. release[r].cents \in Int /\ - release[r].cents \in Int
    BY DEF TypeOK
  <2>2. books' \in [available : Int, pending : Int]
    BY <1>4, <2>1, BookType DEF ReleaseJournal
  <2> QED BY <1>4, <1>e, <2>2 DEF ReleaseJournal, TypeOK
<1>5. CASE ReleaseFails(r)
  BY <1>5, <1>e DEF ReleaseFails, TypeOK
<1> QED BY <1>1, <1>2, <1>3, <1>4, <1>5 DEF Release

LEMMA TypeReceive ==
  ASSUME TypeOK, NEW h \in Handlers, NEW t \in Payouts, NEW event \in Events,
         Receive(h, t, event)
  PROVE  TypeOK'
<1> DEFINE to == IF event = "payout.settled" THEN "hold" ELSE "reversal"
           new == [IdleHandler EXCEPT !.payout = t, !.event = event, !.step = to]
<1>1. new \in Handling
  BY DEF IdleHandler, Handling, HandlerSteps, HoldStatus
<1>2. handler' = [handler EXCEPT ![h] = new]
  BY DEF Receive
<1> HIDE DEF new
<1> QED BY <1>1, <1>2 DEF Receive, TypeOK, rows, bank

LEMMA TypeStep == TypeOK /\ [Next]_vars => TypeOK'
<1> SUFFICES ASSUME TypeOK, [Next]_vars PROVE TypeOK'
  OBVIOUS
<1>1. ASSUME NEW t \in Payouts, NEW event \in Events,
             NEW to \in {"paid", "failed", "returned"}, Decide(t, to, event)
      PROVE  TypeOK'
  BY <1>1 DEF Decide, TypeOK, rows, calls, notes
<1>2. ASSUME NEW t \in Payouts, NEW event \in Events, Replay(t, event)
      PROVE  TypeOK'
  BY <1>2 DEF Replay, TypeOK, rows, calls, notes
<1>3. CASE UNCHANGED vars
  BY <1>3 DEF vars, TypeOK, rows, calls, bank, notes
<1> QED BY <1>1, <1>2, <1>3, TypePay, TypeReceive, TypeSettle, TypeReverse,
        TypeDelivery, TypeRelease DEF Next, Handle

LEMMA TypeInit == Init => TypeOK
<1> SUFFICES ASSUME Init PROVE TypeOK
  OBVIOUS
<1>1. vault \in [available : Nat, pending : Nat]
  BY VaultAssumption DEF Init
<1>2. books \in [available : Int, pending : Int]
  BY <1>1 DEF Init
<1> QED BY <1>1, <1>2 DEF Init, TypeOK, IdleRelease, HoldStatus, PayoutSteps

(* No bucket is ever negative, and every variable keeps its values. *)
THEOREM TypeCorrect == Spec => []TypeOK
<1> QED BY TypeInit, TypeStep, PTL DEF Spec
-----------------------------------------------------------------------------
(* The lock has one owner per transfer, and an owner has not paid yet.     *)

(* A step that takes no lock, and touches neither the reversals nor the    *)
(* credits, keeps it.                                                      *)
LEMMA NoLockTaken ==
  ASSUME OneReversal, reversals' = reversals, credits' = credits,
         \A h \in Handlers :
           HasLock(h)' => HasLock(h) /\ handler'[h].payout = handler[h].payout
  PROVE  OneReversal'
BY DEF OneReversal

(* The other deliveries are not touched by a step of one. *)
LEMMA OneMoves ==
  ASSUME TypeOK, NEW h \in Handlers, handler[h].step # "idle",
         \/ Hang(h)
         \/ \E to \in HandlerSteps \ {"credit", "unlock"} :
              handler' = [handler EXCEPT ![h].step = to]
         \/ handler[h].step = "credit" /\ Step(h, "credit", "unlock")
  PROVE  \A k \in Handlers :
           HasLock(k)' => HasLock(k) /\ handler'[k].payout = handler[k].payout
BY DEF Hang, Step, HasLock, IdleHandler, TypeOK, HandlerSteps, Handling

LEMMA ReversalReverse ==
  ASSUME TypeOK, OneReversal, NEW h \in Handlers, Reverse(h)
  PROVE  OneReversal'
<1> USE DEF rows, bank, notes
<1>1. CASE ReadReversal(h)
  BY <1>1, OneMoves, NoLockTaken DEF ReadReversal, Step, HandlerSteps
<1>2. CASE ReadView(h) \/ ReadHeld(h)
  <2>1. /\ reversals' = reversals /\ credits' = credits
        /\ handler'[h].step \in {"held", "lock"}
        /\ \A k \in Handlers \ {h} : handler'[k] = handler[k]
    BY <1>2, BusyHandler DEF ReadView, ReadHeld, TypeOK, Handling
  <2> QED BY <2>1, NoLockTaken DEF HasLock
<1>3. CASE Lock(h)
  <2> DEFINE t == handler[h].payout
  <2>1. t \in Payouts /\ handler[h] \in Handling
    BY <1>3, BusyHandler DEF Lock, Step
  <2>2. /\ credits' = credits /\ reversals' = reversals \cup {t}
        /\ handler'[h].payout = t
        /\ \A k \in Handlers \ {h} : handler'[k] = handler[k]
    BY <1>3, <2>1 DEF Lock, Step, TypeOK, Handling
  <2>3. CASE t \in reversals
    <3>1. handler' = [handler EXCEPT ![h].step = "lost"] /\ handler[h].step = "lock"
      BY <1>3, <2>3 DEF Lock, Step, Taken
    <3>2. reversals' = reversals
      BY <2>2, <2>3
    <3> QED BY <2>2, <3>1, <3>2, OneMoves, NoLockTaken DEF HandlerSteps
  <2>4. CASE t \notin reversals
    <3>1. credits[t] = 0
      <4>1. credits[t] \in Nat /\ credits[t] =< 1
        BY <2>1 DEF OneReversal, TypeOK
      <4>2. credits[t] # 1
        BY <2>1, <2>4 DEF OneReversal
      <4> HIDE DEF t
      <4> QED BY <4>1, <4>2
    <3>2. \A k \in Handlers : HasLock(k) => handler[k].payout # t
      BY <2>4 DEF OneReversal
    <3>3. \A k \in Handlers \ {h} : HasLock(k)' <=> HasLock(k)
      BY <2>2 DEF HasLock
    <3> QED BY <2>1, <2>2, <3>1, <3>2, <3>3 DEF OneReversal
  <2> QED BY <2>3, <2>4
<1>4. CASE FindWinner(h)
  BY <1>4, OneMoves, NoLockTaken DEF FindWinner, Step, HandlerSteps
<1>5. CASE Unlock(h)
  <2> DEFINE t == handler[h].payout
  <2>1. t \in Payouts /\ HasLock(h)
    BY <1>5, BusyHandler DEF Unlock, HasLock
  <2>2. credits[t] = 0 /\ \A k \in Handlers \ {h} : HasLock(k) => handler[k].payout # t
    BY <2>1 DEF OneReversal
  <2>3. /\ credits' = credits /\ reversals' = reversals \ {t}
        /\ handler'[h] = IdleHandler
        /\ \A k \in Handlers \ {h} : handler'[k] = handler[k]
    BY <1>5 DEF Unlock, Hang, TypeOK
  <2>4. ~ HasLock(h)' /\ \A k \in Handlers \ {h} : HasLock(k)' <=> HasLock(k)
    BY <2>3 DEF HasLock, IdleHandler
  <2> QED BY <2>2, <2>3, <2>4 DEF OneReversal
<1>6. CASE Credit(h)
  <2> DEFINE t == handler[h].payout
  <2>1. t \in Payouts /\ HasLock(h) /\ handler[h] \in Handling
    BY <1>6, BusyHandler DEF Credit, HasLock
  <2>2. /\ t \in reversals /\ credits[t] = 0
        /\ \A k \in Handlers \ {h} : HasLock(k) => handler[k].payout # t
    BY <2>1 DEF OneReversal
  <2>3. CASE Covers(vault, Amount[t], - TakenFromPending(handler[h]))
    <3>1. /\ reversals' = reversals /\ credits' = [credits EXCEPT ![t] = @ + 1]
          /\ handler'[h].step \in {"unhold", "transfer"}
          /\ \A k \in Handlers \ {h} : handler'[k] = handler[k]
      BY <1>6, <2>1, <2>3 DEF Credit, Step, TypeOK, Handling
    <3>2. ~ HasLock(h)' /\ \A k \in Handlers \ {h} : HasLock(k)' <=> HasLock(k)
      BY <3>1 DEF HasLock
    <3>3. credits'[t] = 1 /\ \A u \in Payouts \ {t} : credits'[u] = credits[u]
      BY <2>1, <2>2, <3>1 DEF TypeOK
    <3>4. \A k \in Handlers : HasLock(k) => handler[k].payout \in Payouts
      BY BusyHandler DEF HasLock
    <3> QED BY <2>2, <3>1, <3>2, <3>3, <3>4 DEF OneReversal
  <2>4. CASE ~ Covers(vault, Amount[t], - TakenFromPending(handler[h]))
    BY <1>6, <2>4, OneMoves, NoLockTaken DEF Credit, Step
  <2> QED BY <2>3, <2>4
<1>7. CASE Unhold(h)
  BY <1>7, OneMoves, NoLockTaken DEF Unhold, Step, HandlerSteps
<1> QED BY <1>1, <1>2, <1>3, <1>4, <1>5, <1>6, <1>7 DEF Reverse

LEMMA ReversalOther ==
  ASSUME TypeOK, OneReversal, NEW h \in Handlers,
         \/ Settle(h) \/ MarkTransfer(h) \/ MarkLedger(h) \/ PostVerdict(h)
         \/ RecordEvent(h) \/ HandlerFails(h)
  PROVE  OneReversal'
<1> USE DEF rows, bank, notes
<1>1. reversals' = reversals /\ credits' = credits
  BY DEF Settle, ReadHold, ReadVault, Backfill, Debit, MarkHold, MarkTransfer,
         MarkLedger, PostVerdict, RecordEvent, HandlerFails
<1>2. CASE Settle(h) /\ ~ Hang(h)
  <2>1. \A k \in Handlers \ {h} : handler'[k] = handler[k]
    BY <1>2 DEF Settle, ReadHold, ReadVault, Backfill, Debit, MarkHold, Step,
       TypeOK
  <2>2. handler[h].step # "idle" /\ handler[h] \in Handling
    BY <1>2, BusyHandler DEF Settle, ReadHold, ReadVault, Backfill, Debit, MarkHold, Step
  <2>3. \A status \in HoldStatus : Settling(status) \notin {"credit", "unlock"}
    BY DEF Settling, HoldStatus
  <2>4. handler'[h].step \notin {"credit", "unlock"}
    BY <1>2, <2>2, <2>3 DEF Settle, ReadHold, ReadVault, Backfill, Debit,
       MarkHold, Step, TypeOK, Handling, HoldStatus
  <2> QED BY <1>1, <2>1, <2>4, NoLockTaken DEF HasLock
<1>3. CASE Settle(h) /\ Hang(h)
  <2>1. handler[h].step # "idle"
    BY <1>3 DEF Settle, ReadHold, ReadVault, Backfill, Debit, MarkHold, Step
  <2> QED BY <1>1, <1>3, <2>1, OneMoves, NoLockTaken
<1>4. CASE MarkTransfer(h) \/ MarkLedger(h) \/ PostVerdict(h)
  BY <1>1, <1>4, OneMoves, NoLockTaken DEF MarkTransfer, MarkLedger,
     PostVerdict, Step, HandlerSteps
<1>5. CASE RecordEvent(h) \/ HandlerFails(h)
  BY <1>1, <1>5, OneMoves, NoLockTaken DEF RecordEvent, HandlerFails
<1> QED BY <1>2, <1>3, <1>4, <1>5

LEMMA ReversalStep == TypeOK /\ OneReversal /\ [Next]_vars => OneReversal'
<1> SUFFICES ASSUME TypeOK, OneReversal, [Next]_vars PROVE OneReversal'
  OBVIOUS
<1> USE DEF rows, bank, notes, calls
<1>1. ASSUME handler' = handler, reversals' = reversals, credits' = credits
      PROVE  OneReversal'
  BY <1>1, NoLockTaken DEF HasLock
<1>2. ASSUME NEW t \in Payouts, Pay(t)
      PROVE  OneReversal'
  BY <1>1, <1>2 DEF Pay, HoldFunds, InsertLedger, DispatchAccepted,
     Register, DispatchRefused, DispatchUnanswered, Rollback, FailLedger, RecordTransfer,
     InsertHold, JournalHold, PayoutFails
<1>3. ASSUME NEW t \in Payouts, NEW event \in Events,
             Replay(t, event) \/ \E to \in {"paid", "failed", "returned"} :
                                   Decide(t, to, event)
      PROVE  OneReversal'
  BY <1>1, <1>3 DEF Replay, Decide
<1>4. ASSUME NEW t \in Payouts, NEW event \in Events, NEW h \in Handlers,
             Receive(h, t, event)
      PROVE  OneReversal'
  <2>1. /\ handler'[h].step \in {"hold", "reversal"}
        /\ \A k \in Handlers \ {h} : handler'[k] = handler[k]
        /\ reversals' = reversals /\ credits' = credits
    BY <1>4 DEF Receive, IdleHandler, TypeOK
  <2> QED BY <2>1, NoLockTaken DEF HasLock
<1>5. ASSUME NEW r \in Releasers, ReleaseRead(r) \/ Release(r) \/ ReleaseFails(r)
      PROVE  OneReversal'
  BY <1>1, <1>5 DEF Release, ReleaseRead, ReleaseSum, ReleaseMove,
     ReleaseJournal, ReleaseFails
<1>6. CASE UNCHANGED vars
  BY <1>1, <1>6 DEF vars
<1> QED BY <1>2, <1>3, <1>4, <1>5, <1>6, ReversalReverse, ReversalOther
        DEF Next, Handle

LEMMA ReversalInit == Init => OneReversal
BY DEF Init, OneReversal, HasLock, IdleHandler

(* A transfer is credited back at most once, whatever is replayed, races,  *)
(* crashes or is unlocked.                                                 *)
THEOREM CreditedOnce == Spec => []OneReversal
<1> QED BY TypeInit, TypeStep, ReversalInit, ReversalStep, PTL DEF Spec

-----------------------------------------------------------------------------
(* The books follow the vault: between the two lies what the calls under   *)
(* way have moved and not yet posted.                                      *)

(* What the requests have moved from available to pending. *)
Pledged ==
  [t \in Payouts |->
     IF payout[t] \in {"ledger", "dispatch", "register", "record", "holdRow",
                       "journal", "rollback"}
       THEN Amount[t] ELSE 0]

(* A settlement that has debited pending, a reversal that has credited. *)
Debited(c) ==
  /\ c.step \in {"markHold", "transfer", "ledger", "journal"}
  /\ c.event = "payout.settled" /\ c.hold = "in_flight"
Credited(c) ==
  /\ c.step \in {"unhold", "transfer", "ledger", "journal"}
  /\ c.event # "payout.settled"

(* What the deliveries have put into available and taken from pending. *)
PutBack ==
  [h \in Handlers |->
     IF Credited(handler[h]) THEN Amount[handler[h].payout] ELSE 0]
TakenAway ==
  [h \in Handlers |->
     IF Debited(handler[h]) THEN Amount[handler[h].payout]
     ELSE IF Credited(handler[h]) THEN TakenFromPending(handler[h]) ELSE 0]

(* What the releases have moved from pending to available. *)
LetGo ==
  [r \in Releasers |->
     IF release[r].step = "journal" THEN release[r].cents ELSE 0]

Unposted ==
  /\ Summable(Payouts, Pledged) /\ Summable(Releasers, LetGo)
  /\ Summable(Handlers, PutBack) /\ Summable(Handlers, TakenAway)
  /\ vault.available = books.available - SumOf(Payouts, Pledged)
                         + SumOf(Handlers, PutBack) + SumOf(Releasers, LetGo)
  /\ vault.pending = books.pending + SumOf(Payouts, Pledged)
                       - SumOf(Handlers, TakenAway) - SumOf(Releasers, LetGo)

(* Where a delivery is says what it is for and, once it has debited, that  *)
(* the hold it acts on was in flight.                                      *)
Path(c) ==
  /\ c.step \in {"hold", "vault", "backfill", "debit", "markHold"}
       => c.event = "payout.settled"
  /\ c.step \in {"reversal", "view", "held", "lock", "lost", "unlock", "credit",
                  "unhold"}
       => c.event # "payout.settled"
  /\ c.step \in {"debit", "markHold"} => c.hold = "in_flight"
  /\ c.event = "payout.settled" =>
       /\ c.step \in {"transfer", "ledger"} => c.hold \in {"in_flight", "settled"}
       /\ c.step = "journal" => c.hold = "in_flight"

Paths == \A h \in Handlers : Path(handler[h])

Shares ==
  /\ Pledged \in [Payouts -> Int] /\ LetGo \in [Releasers -> Int]
  /\ PutBack \in [Handlers -> Int] /\ TakenAway \in [Handlers -> Int]

LEMMA SharesType == TypeOK => Shares
<1> SUFFICES ASSUME TypeOK PROVE Shares
  OBVIOUS
<1>1. \A t \in Payouts : Amount[t] \in Int
  BY VaultAssumption
<1>2. Pledged \in [Payouts -> Int] /\ LetGo \in [Releasers -> Int]
  BY <1>1 DEF Pledged, LetGo, TypeOK
<1>3. \A h \in Handlers : Debited(handler[h]) \/ Credited(handler[h])
        => Amount[handler[h].payout] \in Int
  BY BusyHandler DEF Debited, Credited
<1>4. PutBack \in [Handlers -> Int] /\ TakenAway \in [Handlers -> Int]
  BY <1>3 DEF PutBack, TakenAway, TakenFromPending
<1> QED BY <1>2, <1>4 DEF Shares

LEMMA UnpostedSums ==
  ASSUME Unposted
  PROVE  /\ SumOf(Payouts, Pledged) \in Int /\ SumOf(Releasers, LetGo) \in Int
         /\ SumOf(Handlers, PutBack) \in Int /\ SumOf(Handlers, TakenAway) \in Int
BY SumType DEF Unposted

(* A step of one request moves its own share, in the vault or the books. *)
LEMMA RequestMoves ==
  ASSUME TypeOK, TypeOK', Unposted, NEW t \in Payouts,
         handler' = handler, release' = release,
         \A u \in Payouts \ {t} : payout'[u] = payout[u],
         vault'.available - books'.available
           = vault.available - books.available + Pledged[t] - Pledged'[t],
         vault'.pending - books'.pending
           = vault.pending - books.pending - Pledged[t] + Pledged'[t]
  PROVE  Unposted'
<1>1. PutBack' = PutBack /\ TakenAway' = TakenAway /\ LetGo' = LetGo
  BY DEF PutBack, TakenAway, LetGo
<1>2. \A u \in Payouts \ {t} : Pledged'[u] = Pledged[u]
  BY DEF Pledged
<1>3. Pledged \in [Payouts -> Int] /\ Pledged' \in [Payouts -> Int]
  <2>1. (TypeOK => Shares)'
    BY SharesType, PTL
  <2> QED BY <2>1, SharesType DEF Shares
<1>4. Summable(Payouts, Pledged)
  BY DEF Unposted
<1>5. /\ Summable(Payouts, Pledged')
      /\ SumOf(Payouts, Pledged') = SumOf(Payouts, Pledged) - Pledged[t] + Pledged'[t]
  BY <1>2, <1>3, <1>4, SumChange
<1>6. Pledged[t] \in Int /\ Pledged'[t] \in Int
  BY <1>3
<1>7. /\ vault.available \in Int /\ vault'.available \in Int
      /\ books.available \in Int /\ books'.available \in Int
      /\ vault.pending \in Int /\ vault'.pending \in Int
      /\ books.pending \in Int /\ books'.pending \in Int
  BY DEF TypeOK
<1> QED BY <1>1, <1>5, <1>6, <1>7, UnpostedSums DEF Unposted

(* The same of one delivery. *)
LEMMA DeliveryMoves ==
  ASSUME TypeOK, TypeOK', Unposted, NEW h \in Handlers,
         payout' = payout, release' = release,
         \A k \in Handlers \ {h} : handler'[k] = handler[k],
         vault'.available - books'.available
           = vault.available - books.available - PutBack[h] + PutBack'[h],
         vault'.pending - books'.pending
           = vault.pending - books.pending + TakenAway[h] - TakenAway'[h]
  PROVE  Unposted'
<1>1. Pledged' = Pledged /\ LetGo' = LetGo
  BY DEF Pledged, LetGo
<1>2. \A k \in Handlers \ {h} : PutBack'[k] = PutBack[k] /\ TakenAway'[k] = TakenAway[k]
  BY DEF PutBack, TakenAway, Debited, Credited, TakenFromPending
<1>3. /\ PutBack \in [Handlers -> Int] /\ PutBack' \in [Handlers -> Int]
      /\ TakenAway \in [Handlers -> Int] /\ TakenAway' \in [Handlers -> Int]
  <2>1. (TypeOK => Shares)'
    BY SharesType, PTL
  <2> QED BY <2>1, SharesType DEF Shares
<1>4. Summable(Handlers, PutBack) /\ Summable(Handlers, TakenAway)
  BY DEF Unposted
<1>5. /\ Summable(Handlers, PutBack')
      /\ SumOf(Handlers, PutBack') = SumOf(Handlers, PutBack) - PutBack[h] + PutBack'[h]
  BY <1>2, <1>3, <1>4, SumChange
<1>6. /\ Summable(Handlers, TakenAway')
      /\ SumOf(Handlers, TakenAway')
           = SumOf(Handlers, TakenAway) - TakenAway[h] + TakenAway'[h]
  BY <1>2, <1>3, <1>4, SumChange
<1>7. /\ PutBack[h] \in Int /\ PutBack'[h] \in Int
      /\ TakenAway[h] \in Int /\ TakenAway'[h] \in Int
  BY <1>3
<1>8. /\ vault.available \in Int /\ vault'.available \in Int
      /\ books.available \in Int /\ books'.available \in Int
      /\ vault.pending \in Int /\ vault'.pending \in Int
      /\ books.pending \in Int /\ books'.pending \in Int
  BY DEF TypeOK
<1>9. /\ SumOf(Payouts, Pledged) \in Int /\ SumOf(Releasers, LetGo) \in Int
      /\ SumOf(Handlers, PutBack) \in Int /\ SumOf(Handlers, TakenAway) \in Int
  BY UnpostedSums
<1>10. /\ vault.available = books.available - SumOf(Payouts, Pledged)
                             + SumOf(Handlers, PutBack) + SumOf(Releasers, LetGo)
       /\ vault.pending = books.pending + SumOf(Payouts, Pledged)
                           - SumOf(Handlers, TakenAway) - SumOf(Releasers, LetGo)
  BY DEF Unposted
<1>11. vault'.available = books'.available - SumOf(Payouts, Pledged)
         + SumOf(Handlers, PutBack') + SumOf(Releasers, LetGo)
  <2> DEFINE p == SumOf(Payouts, Pledged)
             s == SumOf(Handlers, PutBack)
             q == SumOf(Handlers, PutBack')
             g == SumOf(Releasers, LetGo)
             x == PutBack[h]
             y == PutBack'[h]
             v == vault.available
             b == books.available
             w == vault'.available
             c == books'.available
  <2>1. /\ w - c = v - b - x + y /\ v = b - p + s + g /\ q = s - x + y
        /\ p \in Int /\ s \in Int /\ g \in Int /\ x \in Int /\ y \in Int
        /\ v \in Int /\ b \in Int /\ w \in Int /\ c \in Int
    BY <1>5, <1>7, <1>8, <1>9, <1>10
  <2>2. w = c - p + q + g
    <3> HIDE DEF p, s, q, g, x, y, v, b, w, c
    <3> QED BY ONLY <2>1
  <2> QED BY <2>2
<1>12. vault'.pending = books'.pending + SumOf(Payouts, Pledged)
         - SumOf(Handlers, TakenAway') - SumOf(Releasers, LetGo)
  BY <1>6, <1>7, <1>8, <1>9, <1>10
<1>13. Summable(Payouts, Pledged) /\ Summable(Releasers, LetGo)
  BY DEF Unposted
<1> QED BY <1>1, <1>5, <1>6, <1>11, <1>12, <1>13 DEF Unposted

(* And of one release. *)
LEMMA ReleaseMoves ==
  ASSUME TypeOK, TypeOK', Unposted, NEW r \in Releasers,
         payout' = payout, handler' = handler,
         \A q \in Releasers \ {r} : release'[q] = release[q],
         vault'.available - books'.available
           = vault.available - books.available - LetGo[r] + LetGo'[r],
         vault'.pending - books'.pending
           = vault.pending - books.pending + LetGo[r] - LetGo'[r]
  PROVE  Unposted'
<1>1. PutBack' = PutBack /\ TakenAway' = TakenAway /\ Pledged' = Pledged
  BY DEF PutBack, TakenAway, Pledged
<1>2. \A q \in Releasers \ {r} : LetGo'[q] = LetGo[q]
  BY DEF LetGo
<1>3. LetGo \in [Releasers -> Int] /\ LetGo' \in [Releasers -> Int]
  <2>1. (TypeOK => Shares)'
    BY SharesType, PTL
  <2> QED BY <2>1, SharesType DEF Shares
<1>4. Summable(Releasers, LetGo)
  BY DEF Unposted
<1>5. /\ Summable(Releasers, LetGo')
      /\ SumOf(Releasers, LetGo') = SumOf(Releasers, LetGo) - LetGo[r] + LetGo'[r]
  BY <1>2, <1>3, <1>4, SumChange
<1>6. LetGo[r] \in Int /\ LetGo'[r] \in Int
  BY <1>3
<1>7. /\ vault.available \in Int /\ vault'.available \in Int
      /\ books.available \in Int /\ books'.available \in Int
      /\ vault.pending \in Int /\ vault'.pending \in Int
      /\ books.pending \in Int /\ books'.pending \in Int
  BY DEF TypeOK
<1> QED BY <1>1, <1>5, <1>6, <1>7, UnpostedSums DEF Unposted

(* What cents moved by one statement, or posted by one journal, change.    *)
LEMMA Moved ==
  ASSUME TypeOK, NEW a \in Int, NEW p \in Int
  PROVE  /\ Move(a, p) => /\ vault'.available = vault.available + a
                          /\ vault'.pending = vault.pending + p
         /\ Book(a, p) => /\ books'.available = books.available + a
                          /\ books'.pending = books.pending + p
BY DEF Move, Book, Plus

LEMMA UnpostedPay ==
  ASSUME TypeOK, TypeOK', Unposted, NEW t \in Payouts, Pay(t), ~ cut'
  PROVE  Unposted'
<1> USE DEF rows, bank, notes, Go
<1>1. Amount[t] \in Int /\ - Amount[t] \in Int
  BY VaultAssumption
<1>2. /\ vault.available \in Int /\ vault.pending \in Int
      /\ books.available \in Int /\ books.pending \in Int
      /\ payout \in [Payouts -> PayoutSteps]
  BY DEF TypeOK
<1>3. /\ handler' = handler /\ release' = release
      /\ \A u \in Payouts \ {t} : payout'[u] = payout[u]
  BY <1>2 DEF Pay, HoldFunds, InsertLedger, DispatchAccepted, Register,
     DispatchRefused, DispatchUnanswered, Rollback, FailLedger, RecordTransfer, InsertHold,
     JournalHold, PayoutFails
<1>4. CASE HoldFunds(t)
  <2>1. Pledged[t] = 0 /\ Pledged'[t] = Amount[t]
    BY <1>2, <1>4 DEF HoldFunds, Pledged
  <2>2. /\ vault'.available = vault.available - Amount[t]
        /\ vault'.pending = vault.pending + Amount[t] /\ books' = books
    BY <1>1, <1>2, <1>4, Moved DEF HoldFunds
  <2> QED BY <1>1, <1>2, <1>3, <2>1, <2>2, RequestMoves
<1>5. CASE \/ InsertLedger(t) \/ DispatchAccepted(t) \/ Register(t)
           \/ DispatchRefused(t) \/ DispatchUnanswered(t) \/ RecordTransfer(t) \/ InsertHold(t)
           \/ FailLedger(t)
  <2>1. Pledged'[t] = Pledged[t] /\ Pledged[t] \in Int
    BY <1>1, <1>2, <1>5 DEF InsertLedger, DispatchAccepted, Register,
       DispatchRefused, DispatchUnanswered, RecordTransfer, InsertHold, FailLedger, Pledged
  <2>2. vault' = vault /\ books' = books
    BY <1>5 DEF InsertLedger, DispatchAccepted, Register, DispatchRefused, DispatchUnanswered,
       RecordTransfer, InsertHold, FailLedger
  <2> QED BY <1>2, <1>3, <2>1, <2>2, RequestMoves
<1>6. CASE Rollback(t)
  <2>1. Move(Amount[t], - Amount[t]) /\ books' = books
        /\ payout[t] = "rollback" /\ payout'[t] = "failLedger"
    BY <1>2, <1>6 DEF Rollback
  <2>2. Pledged[t] = Amount[t] /\ Pledged'[t] = 0
    BY <2>1 DEF Pledged
  <2>3. /\ vault'.available = vault.available + Amount[t]
        /\ vault'.pending = vault.pending - Amount[t]
    BY <1>1, <1>2, <2>1, Moved
  <2> QED BY <1>1, <1>2, <1>3, <2>1, <2>2, <2>3, RequestMoves
<1>7. CASE JournalHold(t)
  <2>1. Pledged[t] = Amount[t] /\ Pledged'[t] = 0
    BY <1>2, <1>7 DEF JournalHold, Pledged
  <2>2. /\ books'.available = books.available - Amount[t]
        /\ books'.pending = books.pending + Amount[t] /\ vault' = vault
    BY <1>1, <1>2, <1>7, Moved DEF JournalHold
  <2> QED BY <1>1, <1>2, <1>3, <2>1, <2>2, RequestMoves
<1>8. CASE PayoutFails(t)
  BY <1>8 DEF PayoutFails
<1> QED BY <1>4, <1>5, <1>6, <1>7, <1>8 DEF Pay

(* A delivery goes where its path allows. *)
LEMMA PathsStep ==
  ASSUME TypeOK, Paths, NEW h \in Handlers, Handle(h) \/ HandlerFails(h)
  PROVE  Paths'
<1> USE DEF rows, bank, notes
<1>1. /\ handler[h] \in Handling /\ handler[h].step # "idle"
      /\ hold[handler[h].payout] \in HoldStatus
      /\ handler \in [Handlers -> Handling \cup {IdleHandler}]
  <2>1. handler[h].step # "idle"
    BY DEF Handle, Settle, Reverse, ReadHold, ReadVault, Backfill, Debit, MarkHold,
       ReadReversal, ReadView, ReadHeld, Lock, FindWinner, Unlock, Credit,
       Unhold, MarkTransfer, MarkLedger, PostVerdict, RecordEvent,
       HandlerFails, Step
  <2> QED BY <2>1, BusyHandler DEF TypeOK
<1>2. Path(handler[h])
  BY DEF Paths
<1>3. ASSUME Hang(h) PROVE Paths'
  BY <1>1, <1>3 DEF Hang, IdleHandler, Paths, Path
<1>4. ASSUME NEW c \in Handling, handler' = [handler EXCEPT ![h] = c], Path(c)
      PROVE  Paths'
  BY <1>1, <1>4 DEF Paths
<1>5. ASSUME NEW to \in HandlerSteps, handler' = [handler EXCEPT ![h].step = to],
             Path([handler[h] EXCEPT !.step = to])
      PROVE  Paths'
  <2> DEFINE c == [handler[h] EXCEPT !.step = to]
  <2>1. c \in Handling /\ handler' = [handler EXCEPT ![h] = c] /\ Path(c)
    BY <1>1, <1>5 DEF Handling
  <2> HIDE DEF c
  <2> QED BY <1>4, <2>1
<1>6. ASSUME NEW to \in HandlerSteps, NEW status \in HoldStatus,
             handler' = [handler EXCEPT ![h].step = to, ![h].hold = status],
             Path([handler[h] EXCEPT !.step = to, !.hold = status])
      PROVE  Paths'
  <2> DEFINE c == [handler[h] EXCEPT !.step = to, !.hold = status]
  <2>1. c \in Handling /\ handler' = [handler EXCEPT ![h] = c] /\ Path(c)
    BY <1>1, <1>6 DEF Handling
  <2> HIDE DEF c
  <2> QED BY <1>4, <2>1
<1>7. CASE ReadHold(h)
  <2>1. Path([handler[h] EXCEPT !.step = "vault", !.hold = hold[handler[h].payout]])
    BY <1>1, <1>2, <1>7 DEF ReadHold, Path, Handling
  <2> QED BY <1>1, <1>6, <1>7, <2>1 DEF ReadHold, HandlerSteps
<1>8. CASE ReadVault(h) /\ ~ Hang(h)
  <2> DEFINE to == Settling(handler[h].hold)
  <2>1. /\ handler[h].step = "vault" /\ to # "refused"
        /\ handler' = [handler EXCEPT ![h].step = to]
    BY <1>8 DEF ReadVault, Step
  <2>2. to \in {"backfill", "debit", "transfer"}
        /\ (to = "debit" => handler[h].hold = "in_flight")
        /\ (to = "transfer" => handler[h].hold = "settled")
    BY <1>1, <2>1 DEF Settling, HoldStatus, Handling
  <2>3. Path([handler[h] EXCEPT !.step = to]) /\ to \in HandlerSteps
    BY <1>1, <1>2, <2>1, <2>2 DEF Path, Handling, HandlerSteps
  <2> QED BY <1>5, <2>1, <2>3
<1>9. CASE Backfill(h) /\ ~ Hang(h)
  <2>1. handler[h].step = "backfill" /\ handler[h].event = "payout.settled"
    BY <1>2, <1>9 DEF Backfill, Path
  <2>2. ASSUME NEW status \in {"in_flight", "settled"}
        PROVE  /\ status \in HoldStatus /\ Settling(status) \in HandlerSteps
               /\ Path([handler[h] EXCEPT !.step = Settling(status), !.hold = status])
    BY <1>1, <2>1 DEF Path, Handling, Settling, HandlerSteps, HoldStatus
  <2>3. Settling("in_flight") = "debit" /\ Settling("settled") = "transfer"
        /\ Settling("reversed") = "refused"
    BY DEF Settling
  <2>4. \E status \in {"in_flight", "settled"} :
          handler' = [handler EXCEPT ![h].step = Settling(status), ![h].hold = status]
    <3>1. CASE hold[handler[h].payout] = "none"
      BY <1>9, <2>3, <3>1 DEF Backfill
    <3>2. CASE hold[handler[h].payout] # "none"
      <4>1. hold[handler[h].payout] \in {"in_flight", "settled", "reversed"}
        BY <1>1, <3>2 DEF HoldStatus
      <4> QED BY <1>9, <2>3, <3>2, <4>1 DEF Backfill
    <3> QED BY <3>1, <3>2
  <2> QED BY <1>6, <2>2, <2>4
<1>10. CASE Debit(h) /\ ~ Hang(h)
  <2>1. /\ handler[h].step = "debit"
        /\ handler' = [handler EXCEPT ![h].step = "markHold"]
    BY <1>10 DEF Debit, Step
  <2>2. Path([handler[h] EXCEPT !.step = "markHold"])
    BY <1>1, <1>2, <2>1 DEF Path, Handling
  <2> QED BY <1>5, <2>1, <2>2 DEF HandlerSteps
<1>11. CASE \/ MarkHold(h) \/ Unhold(h) \/ MarkTransfer(h) \/ MarkLedger(h)
            \/ PostVerdict(h) \/ ReadReversal(h) \/ Lock(h)
            \/ (FindWinner(h) \/ Credit(h)) /\ ~ Hang(h)
  <2>1. \E to \in HandlerSteps :
          /\ handler' = [handler EXCEPT ![h].step = to]
          /\ Path([handler[h] EXCEPT !.step = to])
    <3>1. CASE MarkHold(h)
      BY <1>1, <1>2, <3>1 DEF MarkHold, Step, Path, Handling, HandlerSteps
    <3>2. CASE Unhold(h)
      BY <1>1, <1>2, <3>2 DEF Unhold, Step, Path, Handling, HandlerSteps
    <3>3. CASE MarkTransfer(h)
      BY <1>1, <1>2, <3>3 DEF MarkTransfer, Step, Path, Handling, HandlerSteps
    <3>4. CASE MarkLedger(h)
      <4>1. \E to \in {"event", "journal"} :
              /\ handler' = [handler EXCEPT ![h].step = to]
              /\ handler[h].step = "ledger"
              /\ to = "journal" /\ handler[h].event = "payout.settled"
                   => handler[h].hold # "settled"
        BY <3>4 DEF MarkLedger, Step
      <4> QED BY <1>1, <1>2, <4>1 DEF Path, Handling, HandlerSteps
    <3>5. CASE PostVerdict(h)
      BY <1>1, <1>2, <3>5 DEF PostVerdict, Step, Path, Handling, HandlerSteps
    <3>6. CASE ReadReversal(h)
      <4>1. \E to \in {"event", "view"} :
              /\ handler' = [handler EXCEPT ![h].step = to]
              /\ handler[h].step = "reversal"
        BY <3>6 DEF ReadReversal, Step
      <4> QED BY <1>1, <1>2, <4>1 DEF Path, Handling, HandlerSteps
    <3>7. CASE Lock(h)
      BY <1>1, <1>2, <3>7 DEF Lock, Step, Path, Handling, HandlerSteps
    <3>8. CASE FindWinner(h) /\ ~ Hang(h)
      BY <1>1, <1>2, <3>8 DEF FindWinner, Step, Path, Handling, HandlerSteps
    <3>9. CASE Credit(h) /\ ~ Hang(h)
      BY <1>1, <1>2, <3>9 DEF Credit, Step, Path, Handling, HandlerSteps
    <3> QED BY <1>11, <3>1, <3>2, <3>3, <3>4, <3>5, <3>6, <3>7, <3>8, <3>9
  <2> QED BY <1>5, <2>1
<1>12. CASE ReadView(h)
  <2> DEFINE c == [handler[h] EXCEPT !.step = "held",
                     !.covered = Covers(vault, 0, - Amount[handler[h].payout])]
  <2>1. c \in Handling /\ Path(c)
    BY <1>1, <1>2, <1>12 DEF ReadView, Handling, HandlerSteps, Path, Covers
  <2>2. handler' = [handler EXCEPT ![h] = c]
    BY <1>12 DEF ReadView
  <2> HIDE DEF c
  <2> QED BY <1>4, <2>1, <2>2
<1>13. CASE ReadHeld(h)
  <2>1. Path([handler[h] EXCEPT !.step = "lock", !.hold = hold[handler[h].payout]])
    BY <1>1, <1>2, <1>13 DEF ReadHeld, Path, Handling
  <2> QED BY <1>1, <1>6, <1>13, <2>1 DEF ReadHeld, HandlerSteps
<1>14. CASE Unlock(h) \/ RecordEvent(h) \/ HandlerFails(h)
  BY <1>3, <1>14 DEF Unlock, RecordEvent, HandlerFails
<1> QED
  BY <1>3, <1>7, <1>8, <1>9, <1>10, <1>11, <1>12, <1>13, <1>14
     DEF Handle, Settle, Reverse

LEMMA UnpostedHandle ==
  ASSUME TypeOK, TypeOK', Paths, Unposted, NEW h \in Handlers, Handle(h), ~ cut'
  PROVE  Unposted'
<1> USE DEF rows, bank, notes
<1> DEFINE c == handler[h]
           n == Amount[handler[h].payout]
<1>1. handler[h].step # "idle" /\ payout' = payout /\ release' = release
  BY DEF Handle, Settle, Reverse, ReadHold, ReadVault, Backfill, Debit, MarkHold,
     ReadReversal, ReadView, ReadHeld, Lock, FindWinner, Unlock, Credit,
     Unhold, MarkTransfer, MarkLedger, PostVerdict, RecordEvent, Step
<1>2. /\ handler[h] \in Handling /\ n \in Nat
      /\ handler \in [Handlers -> Handling \cup {IdleHandler}]
      /\ vault.available \in Int /\ vault.pending \in Int
      /\ books.available \in Int /\ books.pending \in Int
  BY <1>1, BusyHandler DEF TypeOK
<1>3. \A k \in Handlers \ {h} : handler'[k] = handler[k]
  BY <1>2 DEF Handle, Settle, Reverse, ReadHold, ReadVault, Backfill, Debit,
     MarkHold, ReadReversal, ReadView, ReadHeld, Lock, FindWinner, Unlock,
     Credit, Unhold, MarkTransfer, MarkLedger, PostVerdict, RecordEvent, Step, Hang
<1>4. Path(handler[h])
  BY DEF Paths
<1>5. /\ PutBack[h] = IF Credited(c) THEN n ELSE 0
      /\ TakenAway[h] = IF Debited(c) THEN n
                        ELSE IF Credited(c) THEN TakenFromPending(c) ELSE 0
      /\ PutBack'[h] = IF Credited(c)' THEN Amount[c.payout'] ELSE 0
      /\ TakenAway'[h] = IF Debited(c)' THEN Amount[c.payout']
                         ELSE IF Credited(c)' THEN TakenFromPending(c)' ELSE 0
  BY DEF PutBack, TakenAway
<1>6. PutBack[h] \in Int /\ TakenAway[h] \in Int
  BY SharesType DEF Shares
(* Reads, marks, and the ends of a delivery that has nothing unposted. *)
<1>7. ASSUME vault' = vault, books' = books,
             \/ ~ Credited(c) /\ ~ Debited(c) /\ ~ Credited(c)' /\ ~ Debited(c)'
             \/ /\ Credited(c)' = Credited(c) /\ Debited(c)' = Debited(c)
                /\ c'.payout = c.payout /\ c'.hold = c.hold
      PROVE  Unposted'
  <2>1. PutBack'[h] = PutBack[h] /\ TakenAway'[h] = TakenAway[h]
    BY <1>5, <1>7 DEF TakenFromPending
  <2> QED BY <1>1, <1>2, <1>3, <1>6, <1>7, <2>1, DeliveryMoves
<1>8. CASE \/ ReadHold(h) \/ ReadVault(h) \/ Backfill(h)
           \/ ReadReversal(h) \/ ReadView(h) \/ ReadHeld(h) \/ Lock(h)
           \/ FindWinner(h) \/ Unlock(h) \/ RecordEvent(h)
           \/ Debit(h) /\ ~ Covers(vault, 0, - n)
           \/ Credit(h) /\ ~ Covers(vault, n, - TakenFromPending(c))
  <2>1. vault' = vault /\ books' = books
    BY <1>8 DEF ReadHold, ReadVault, Backfill, ReadReversal, ReadView, ReadHeld,
       Lock, FindWinner, Unlock, RecordEvent, Debit, Credit
  <2>2. ~ Credited(c) /\ ~ Debited(c)
    BY <1>8 DEF ReadHold, ReadVault, Backfill, ReadReversal, ReadView, ReadHeld,
       Lock, FindWinner, Unlock, RecordEvent, Debit, Credit, Credited, Debited, Step
  <2>3. CASE ReadHold(h) \/ ReadView(h) \/ ReadHeld(h)
    <3>1. handler'[h].step \in {"vault", "held", "lock"}
      BY <1>2, <2>3 DEF ReadHold, ReadView, ReadHeld, Handling
    <3> QED BY <1>7, <2>1, <2>2, <3>1 DEF Credited, Debited
  <2>4. CASE Hang(h)
    <3>1. handler'[h] = IdleHandler
      BY <1>2, <2>4 DEF Hang
    <3> QED BY <1>7, <2>1, <2>2, <3>1 DEF Credited, Debited, IdleHandler
  <2>5. CASE ReadVault(h) /\ ~ Hang(h)
    <3> DEFINE to == Settling(c.hold)
    <3>1. /\ c.step = "vault" /\ to # "refused"
          /\ handler' = [handler EXCEPT ![h].step = to]
      BY <2>5 DEF ReadVault, Step
    <3>2. /\ handler'[h].step = to /\ handler'[h].hold = c.hold
          /\ handler'[h].event = c.event
      BY <1>2, <3>1 DEF Handling
    <3>3. c.event = "payout.settled"
      BY <1>4, <3>1 DEF Path
    <3>4. to \in {"backfill", "debit"} \/ (to = "transfer" /\ c.hold = "settled")
      BY <1>2, <3>1 DEF Settling, HoldStatus, Handling
    <3> HIDE DEF to
    <3> QED BY <1>7, <2>1, <2>2, <3>2, <3>3, <3>4 DEF Credited, Debited
  <2>6. CASE Backfill(h) /\ ~ Hang(h)
    <3>1. c.step = "backfill" /\ hold[c.payout] \in HoldStatus
      BY <1>2, <2>6 DEF Backfill, TypeOK, Handling
    <3>2. Settling("settled") = "transfer" /\ Settling("in_flight") = "debit"
          /\ Settling("reversed") = "refused"
      BY DEF Settling
    <3>3. \/ handler' = [handler EXCEPT ![h].step = "debit", ![h].hold = "in_flight"]
          \/ handler' = [handler EXCEPT ![h].step = "transfer", ![h].hold = "settled"]
      <4>1. CASE hold[c.payout] = "none"
        BY <2>6, <3>2, <4>1 DEF Backfill
      <4>2. CASE hold[c.payout] # "none"
        <5>1. hold[c.payout] \in {"in_flight", "settled", "reversed"}
          BY <3>1, <4>2 DEF HoldStatus
        <5> QED BY <2>6, <3>2, <4>2, <5>1 DEF Backfill
      <4> QED BY <4>1, <4>2
    <3>4. /\ handler'[h].event = c.event
          /\ \/ handler'[h].step = "debit"
             \/ handler'[h].step = "transfer" /\ handler'[h].hold = "settled"
      BY <1>2, <3>3 DEF Handling
    <3>5. c.event = "payout.settled"
      BY <1>4, <3>1 DEF Path
    <3> QED BY <1>7, <2>1, <2>2, <3>4, <3>5 DEF Credited, Debited
  <2>7. CASE /\ \/ ReadReversal(h) \/ Lock(h) \/ FindWinner(h)
                \/ Credit(h) /\ ~ Covers(vault, n, - TakenFromPending(c))
             /\ ~ Hang(h)
    <3>1. handler'[h].step \in {"event", "view", "unlock", "credit", "lost"}
      BY <1>2, <2>7 DEF ReadReversal, Lock, FindWinner, Credit, Step, Handling
    <3> QED BY <1>7, <2>1, <2>2, <3>1 DEF Credited, Debited
  <2> QED
    BY <1>8, <2>3, <2>4, <2>5, <2>6, <2>7 DEF Unlock, RecordEvent, Debit
<1>9. CASE MarkHold(h) \/ Unhold(h) \/ MarkTransfer(h) \/ MarkLedger(h)
  <2>1. vault' = vault /\ books' = books
    BY <1>9 DEF MarkHold, Unhold, MarkTransfer, MarkLedger
  <2>2. /\ handler'[h].event = c.event /\ handler'[h].hold = c.hold
        /\ handler'[h].payout = c.payout
        /\ c.step \in {"markHold", "unhold", "transfer", "ledger"}
        /\ \/ handler'[h].step \in {"transfer", "ledger", "journal"}
           \/ /\ handler'[h].step = "event" /\ c.step = "ledger"
              /\ c.event = "payout.settled" /\ c.hold = "settled"
    BY <1>2, <1>9 DEF MarkHold, Unhold, MarkTransfer, MarkLedger, Step, Handling
  <2>3. Credited(c)' = Credited(c) /\ Debited(c)' = Debited(c)
    BY <1>4, <2>2 DEF Credited, Debited, Path
  <2> QED BY <1>7, <2>1, <2>2, <2>3
<1>10. CASE Debit(h) /\ Covers(vault, 0, - n)
  <2>1. Move(0, - n) /\ c.step = "debit" /\ books' = books
        /\ handler' = [handler EXCEPT ![h].step = "markHold"]
    BY <1>10 DEF Debit, Step
  <2>2. /\ ~ Credited(c) /\ ~ Debited(c) /\ ~ Credited(c)' /\ Debited(c)'
        /\ c'.payout = c.payout
    BY <1>2, <1>4, <2>1 DEF Credited, Debited, Path, Handling
  <2>3. /\ PutBack[h] = 0 /\ PutBack'[h] = 0
        /\ TakenAway[h] = 0 /\ TakenAway'[h] = n
    BY <1>5, <2>2
  <2>4. vault'.available = vault.available + 0 /\ vault'.pending = vault.pending + (- n)
    <3>1. 0 \in Int /\ - n \in Int
      BY <1>2
    <3> HIDE DEF n
    <3> QED BY <2>1, <3>1, Moved
  <2> HIDE DEF c
  <2> QED BY <1>1, <1>2, <1>3, <2>1, <2>3, <2>4, DeliveryMoves
<1>11. CASE Credit(h) /\ Covers(vault, n, - TakenFromPending(c))
  <2> DEFINE m == TakenFromPending(c)
  <2>1. Move(n, - m) /\ c.step = "credit" /\ books' = books
        /\ \E to \in {"unhold", "transfer"} :
              handler' = [handler EXCEPT ![h].step = to]
    BY <1>11 DEF Credit, Step
  <2>2. /\ ~ Credited(c) /\ ~ Debited(c) /\ Credited(c)' /\ ~ Debited(c)'
        /\ c'.payout = c.payout /\ c'.hold = c.hold
    BY <1>2, <1>4, <2>1 DEF Credited, Debited, Path, Handling
  <2>3. m \in Nat
    BY <1>2 DEF TakenFromPending
  <2>4. /\ PutBack[h] = 0 /\ PutBack'[h] = n
        /\ TakenAway[h] = 0 /\ TakenAway'[h] = m
    BY <1>5, <2>2 DEF TakenFromPending
  <2>5. vault'.available = vault.available + n /\ vault'.pending = vault.pending + (- m)
    <3>1. n \in Int /\ - m \in Int
      BY <1>2, <2>3
    <3> HIDE DEF n, m
    <3> QED BY <2>1, <3>1, Moved
  <2> HIDE DEF c, m
  <2> QED BY <1>1, <1>2, <1>3, <2>1, <2>3, <2>4, <2>5, DeliveryMoves
<1>12. CASE PostVerdict(h)
  <2>1. /\ c.step = "journal" /\ vault' = vault
        /\ handler' = [handler EXCEPT ![h].step = "event"]
    BY <1>12 DEF PostVerdict, Step
  <2>2. ~ Credited(c)' /\ ~ Debited(c)'
    BY <1>2, <2>1 DEF Credited, Debited, Handling
  <2>3. PutBack'[h] = 0 /\ TakenAway'[h] = 0
    BY <1>5, <2>2
  <2>4. CASE c.event = "payout.settled"
    <3>1. Book(0, - n) /\ Debited(c) /\ ~ Credited(c)
      BY <1>4, <1>12, <2>1, <2>4 DEF PostVerdict, Debited, Credited, Path
    <3>2. books'.available = books.available + 0 /\ books'.pending = books.pending + (- n)
      <4>1. 0 \in Int /\ - n \in Int
        BY <1>2
      <4> HIDE DEF n
      <4> QED BY <3>1, <4>1, Moved
    <3>3. PutBack[h] = 0 /\ TakenAway[h] = n
      BY <1>5, <3>1
    <3> HIDE DEF c
    <3> QED BY <1>1, <1>2, <1>3, <2>1, <2>3, <3>2, <3>3, DeliveryMoves
  <2>5. CASE c.event # "payout.settled"
    <3> DEFINE m == TakenFromPending(c)
    <3>1. Credited(c) /\ ~ Debited(c)
      BY <2>1, <2>5 DEF Debited, Credited
    <3>2. m \in Nat /\ PutBack[h] = n /\ TakenAway[h] = m
      BY <1>2, <1>5, <3>1 DEF TakenFromPending
    <3>3. n \in Int /\ - n \in Int /\ 0 \in Int
      BY <1>2
    <3>4. books'.available = books.available + n /\ books'.pending = books.pending - m
      <4>1. CASE c.hold = "in_flight"
        <5>1. Book(n, - n) /\ m = n
          BY <1>12, <2>5, <4>1 DEF PostVerdict, TakenFromPending
        <5> HIDE DEF n, m
        <5>2. books'.available = books.available + n /\ books'.pending = books.pending + (- n)
          BY <3>3, <5>1, Moved
        <5> QED BY <1>2, <3>2, <5>1, <5>2
      <4>2. CASE c.hold # "in_flight"
        <5>1. Book(n, 0) /\ m = 0
          BY <1>12, <2>5, <4>2 DEF PostVerdict, TakenFromPending
        <5> HIDE DEF n, m
        <5>2. books'.available = books.available + n /\ books'.pending = books.pending + 0
          BY <3>3, <5>1, Moved
        <5> QED BY <1>2, <3>2, <5>1, <5>2
      <4> QED BY <4>1, <4>2
    <3> HIDE DEF c, m
    <3> QED BY <1>1, <1>2, <1>3, <2>1, <2>3, <3>2, <3>4, DeliveryMoves
  <2> QED BY <2>4, <2>5
<1> QED
  BY <1>8, <1>9, <1>10, <1>11, <1>12 DEF Handle, Settle, Reverse

(* What a release that looks at the holds goes on to do. *)
LEMMA SumGoesOn ==
  ASSUME NEW r \in Releasers, ReleaseSum(r)
  PROVE  /\ release[r].step = "sum" /\ UNCHANGED <<vault, books, payout, handler>>
         /\ \E next : /\ release' = [release EXCEPT ![r] = next]
                      /\ next.step \in {"idle", "move"}
<1> DEFINE left == release[r].view - SumInFlightPayoutHolds
<1>1. /\ release[r].step = "sum" /\ UNCHANGED <<vault, books, payout, handler>>
      /\ IF left =< 0
          THEN EndRelease(r)
          ELSE \E cents \in 1 .. left :
                 release' = [release EXCEPT ![r] =
                   [IdleRelease EXCEPT !.step = "move", !.cents = cents]]
  BY DEF ReleaseSum
<1> HIDE DEF left
<1>2. CASE left =< 0
  <2>1. release' = [release EXCEPT ![r] = IdleRelease] /\ IdleRelease.step = "idle"
    BY <1>1, <1>2 DEF EndRelease, IdleRelease
  <2> QED BY <1>1, <2>1
<1>3. CASE ~ (left =< 0)
  <2>1. PICK cents \in 1 .. left :
          release' = [release EXCEPT ![r] =
            [IdleRelease EXCEPT !.step = "move", !.cents = cents]]
    BY <1>1, <1>3
  <2>2. [IdleRelease EXCEPT !.step = "move", !.cents = cents].step = "move"
    BY DEF IdleRelease
  <2> QED BY <1>1, <2>1, <2>2
<1> QED BY <1>2, <1>3

LEMMA UnpostedRelease ==
  ASSUME TypeOK, TypeOK', Unposted, NEW r \in Releasers, ~ cut',
         ReleaseRead(r) \/ Release(r) \/ ReleaseFails(r)
  PROVE  Unposted'
<1> USE DEF rows, bank, notes
<1> DEFINE n == release[r].cents
<1>1. /\ payout' = payout /\ handler' = handler
      /\ \A q \in Releasers \ {r} : release'[q] = release[q]
  <2>1. CASE ReleaseSum(r)
    BY <2>1, SumGoesOn DEF TypeOK
  <2>2. CASE ~ ReleaseSum(r)
    BY <2>2 DEF Release, ReleaseRead, ReleaseMove, ReleaseJournal,
       ReleaseFails, EndRelease, TypeOK
  <2> QED BY <2>1, <2>2
<1>2. /\ vault.available \in Int /\ vault.pending \in Int
      /\ books.available \in Int /\ books.pending \in Int
      /\ n \in Int /\ - n \in Int
      /\ release \in [Releasers -> [step : {"idle", "sum", "move", "journal"},
                                    view : Nat, cents : Nat]]
  BY DEF TypeOK
<1>3. /\ LetGo[r] = IF release[r].step = "journal" THEN n ELSE 0
      /\ LetGo'[r] = IF release'[r].step = "journal" THEN release'[r].cents ELSE 0
  BY DEF LetGo
<1>4. ASSUME vault' = vault, books' = books, release[r].step # "journal",
             release'[r].step # "journal"
      PROVE  Unposted'
  BY <1>1, <1>2, <1>3, <1>4, ReleaseMoves
<1>5. CASE EndRelease(r) /\ vault' = vault /\ books' = books
           /\ release[r].step # "journal"
  <2>1. release'[r].step = "idle"
    BY <1>2, <1>5 DEF EndRelease, IdleRelease
  <2> QED BY <1>4, <1>5, <2>1
<1>6. CASE ReleaseRead(r)
  <2>1. release[r].step # "journal" /\ release'[r].step # "journal"
    BY <1>2, <1>6 DEF ReleaseRead, IdleRelease
  <2> QED BY <1>4, <1>6, <2>1 DEF ReleaseRead
<1>7. CASE ReleaseSum(r)
  <2>1. release[r].step # "journal" /\ release'[r].step # "journal"
    BY <1>2, <1>7, SumGoesOn
  <2> QED BY <1>4, <1>7, <2>1, SumGoesOn
<1>8. CASE ReleaseMove(r) /\ Move(n, - n)
           /\ release' = [release EXCEPT ![r].step = "journal"]
  <2>1. books' = books /\ release[r].step = "move"
    BY <1>8 DEF ReleaseMove
  <2>2. LetGo[r] = 0 /\ LetGo'[r] = n
    BY <1>2, <1>3, <1>8, <2>1
  <2>3. vault'.available = vault.available + n /\ vault'.pending = vault.pending + (- n)
    <3> HIDE DEF n
    <3> QED BY <1>2, <1>8, Moved
  <2> HIDE DEF n
  <2> QED BY <1>1, <1>2, <2>1, <2>2, <2>3, ReleaseMoves
<1>9. CASE ReleaseJournal(r)
  <2>1. /\ Book(n, - n) /\ vault' = vault
        /\ release[r].step = "journal" /\ release'[r].step = "idle"
    BY <1>2, <1>9 DEF ReleaseJournal, EndRelease, IdleRelease
  <2>2. LetGo[r] = n /\ LetGo'[r] = 0
    BY <1>3, <2>1
  <2>3. books'.available = books.available + n /\ books'.pending = books.pending + (- n)
    <3> HIDE DEF n
    <3> QED BY <1>2, <2>1, Moved
  <2> HIDE DEF n
  <2> QED BY <1>1, <1>2, <2>1, <2>2, <2>3, ReleaseMoves
<1> QED
  BY <1>5, <1>6, <1>7, <1>8, <1>9 DEF Release, ReleaseMove, ReleaseFails

(* Once a call has ended with work undone nothing is said any more.        *)
FollowInv == Paths /\ (~ cut => Unposted)

LEMMA FollowStep ==
  ASSUME TypeOK, TypeOK', FollowInv, [Next]_vars
  PROVE  FollowInv'
<1> USE DEF rows, calls, bank, notes
<1>1. ~ cut' => ~ cut
  <2>1. ASSUME NEW t \in Payouts, Pay(t) PROVE ~ cut' => ~ cut
    BY <2>1 DEF Pay, HoldFunds, InsertLedger, DispatchAccepted, Register,
       DispatchRefused, DispatchUnanswered, Rollback, FailLedger, RecordTransfer, InsertHold,
       JournalHold, PayoutFails
  <2>2. ASSUME NEW h \in Handlers, Handle(h) \/ HandlerFails(h)
        PROVE  ~ cut' => ~ cut
    BY <2>2 DEF Handle, Settle, Reverse, ReadHold, ReadVault, Backfill, Debit,
       MarkHold, ReadReversal, ReadView, ReadHeld, Lock, FindWinner, Unlock,
       Credit, Unhold, MarkTransfer, MarkLedger, PostVerdict, RecordEvent,
       HandlerFails
  <2>3. ASSUME NEW r \in Releasers, ReleaseRead(r) \/ Release(r) \/ ReleaseFails(r)
        PROVE  ~ cut' => ~ cut
    BY <2>3 DEF Release, ReleaseRead, ReleaseSum, ReleaseMove, ReleaseJournal,
       ReleaseFails
  <2> QED BY <2>1, <2>2, <2>3 DEF Next, Decide, Replay, Receive, vars
<1>2. Paths /\ (~ cut' => Unposted)
  BY <1>1 DEF FollowInv
<1>3. ASSUME NEW t \in Payouts, Pay(t) PROVE FollowInv'
  <2>1. handler' = handler
    BY <1>3 DEF Pay, HoldFunds, InsertLedger, DispatchAccepted, Register,
       DispatchRefused, DispatchUnanswered, Rollback, FailLedger, RecordTransfer, InsertHold,
       JournalHold, PayoutFails
  <2> QED BY <1>2, <1>3, <2>1, UnpostedPay DEF FollowInv, Paths
<1>4. ASSUME NEW h \in Handlers, Handle(h) \/ HandlerFails(h) PROVE FollowInv'
  <2>1. Paths'
    BY <1>2, <1>4, PathsStep
  <2>2. CASE Handle(h)
    BY <1>2, <2>1, <2>2, UnpostedHandle DEF FollowInv
  <2>3. CASE HandlerFails(h)
    BY <2>1, <2>3 DEF HandlerFails, FollowInv
  <2> QED BY <1>4, <2>2, <2>3
<1>5. ASSUME NEW r \in Releasers, ReleaseRead(r) \/ Release(r) \/ ReleaseFails(r)
      PROVE  FollowInv'
  <2>1. handler' = handler
    BY <1>5 DEF Release, ReleaseRead, ReleaseSum, ReleaseMove, ReleaseJournal,
       ReleaseFails
  <2> QED BY <1>2, <1>5, <2>1, UnpostedRelease DEF FollowInv, Paths
<1>6. ASSUME vault' = vault, books' = books, calls' = calls PROVE FollowInv'
  BY <1>2, <1>6 DEF FollowInv, Paths, Unposted, Pledged, PutBack, TakenAway, LetGo
<1>7. ASSUME NEW t \in Payouts, NEW event \in Events, NEW h \in Handlers,
             Receive(h, t, event)
      PROVE  FollowInv'
  <2> DEFINE to == IF event = "payout.settled" THEN "hold" ELSE "reversal"
  <2>1. /\ handler[h] = IdleHandler /\ vault' = vault /\ books' = books
        /\ payout' = payout /\ release' = release
        /\ handler' = [handler EXCEPT ![h] =
             [IdleHandler EXCEPT !.payout = t, !.event = event, !.step = to]]
    BY <1>7 DEF Receive
  <2>2. /\ handler'[h].step = to /\ handler'[h].event = event
        /\ \A k \in Handlers \ {h} : handler'[k] = handler[k]
    BY <2>1 DEF TypeOK, IdleHandler
  <2>3. Path(handler'[h])
    BY <2>2 DEF Path
  <2>4. Paths'
    BY <1>2, <2>2, <2>3 DEF Paths
  <2>5. /\ ~ Credited(handler[h]) /\ ~ Debited(handler[h])
        /\ ~ Credited(handler'[h]) /\ ~ Debited(handler'[h])
    BY <2>1, <2>2 DEF Credited, Debited, IdleHandler
  <2>6. /\ PutBack[h] = 0 /\ PutBack'[h] = 0
        /\ TakenAway[h] = 0 /\ TakenAway'[h] = 0
    BY <2>5 DEF PutBack, TakenAway
  <2>7. /\ vault.available \in Int /\ vault.pending \in Int
        /\ books.available \in Int /\ books.pending \in Int
    BY DEF TypeOK
  <2>8. ~ cut' => Unposted'
    BY <1>2, <2>1, <2>2, <2>6, <2>7, DeliveryMoves
  <2> QED BY <2>4, <2>8 DEF FollowInv
<1> QED BY <1>3, <1>4, <1>5, <1>6, <1>7 DEF Next, Decide, Replay, vars

LEMMA FollowInit == Init => FollowInv
<1> SUFFICES ASSUME Init PROVE FollowInv
  OBVIOUS
<1>1. Shares
  BY TypeInit, SharesType
<1>2. /\ \A t \in Payouts : Pledged[t] = 0
      /\ \A h \in Handlers : PutBack[h] = 0 /\ TakenAway[h] = 0
      /\ \A r \in Releasers : LetGo[r] = 0
  BY DEF Init, Pledged, PutBack, TakenAway, LetGo, Credited, Debited,
     IdleHandler, IdleRelease
<1>3. /\ Summable(Payouts, Pledged) /\ SumOf(Payouts, Pledged) = 0
      /\ Summable(Handlers, PutBack) /\ SumOf(Handlers, PutBack) = 0
      /\ Summable(Handlers, TakenAway) /\ SumOf(Handlers, TakenAway) = 0
      /\ Summable(Releasers, LetGo) /\ SumOf(Releasers, LetGo) = 0
  BY <1>1, <1>2, SumNothing DEF Shares
<1>4. /\ vault.available = books.available /\ vault.pending = books.pending
      /\ vault.available \in Int /\ vault.pending \in Int
  BY VaultAssumption DEF Init
<1>5. Paths
  BY DEF Init, Paths, Path, IdleHandler
<1> QED BY <1>3, <1>4, <1>5 DEF FollowInv, Unposted

(* At rest nothing is under way, so nothing lies between the two.          *)
LEMMA FollowImplies == TypeOK /\ FollowInv => BooksFollowVault
<1> SUFFICES ASSUME TypeOK, FollowInv, AtRest, ~ cut PROVE books = vault
  BY DEF BooksFollowVault
<1>1. Shares
  BY SharesType
<1>2. \A t \in Payouts : Pledged[t] = 0
  BY DEF Pledged, AtRest, Resting
<1>3. \A h \in Handlers : PutBack[h] = 0 /\ TakenAway[h] = 0
  <2> SUFFICES ASSUME NEW h \in Handlers
               PROVE  PutBack[h] = 0 /\ TakenAway[h] = 0
    OBVIOUS
  <2>1. handler[h].payout \notin Payouts
    BY DEF AtRest, Resting
  <2>2. handler[h] = IdleHandler
    BY <2>1 DEF TypeOK, Handling
  <2> QED BY <2>2 DEF PutBack, TakenAway, Credited, Debited, IdleHandler
<1>4. \A r \in Releasers : LetGo[r] = 0
  BY DEF LetGo, AtRest, ReleasesRest
<1>5. /\ SumOf(Payouts, Pledged) = 0 /\ SumOf(Releasers, LetGo) = 0
      /\ SumOf(Handlers, PutBack) = 0 /\ SumOf(Handlers, TakenAway) = 0
  BY <1>1, <1>2, <1>3, <1>4, SumNothing DEF Shares
<1>6. /\ vault \in [available : Int, pending : Int]
      /\ books \in [available : Int, pending : Int]
  BY DEF TypeOK
<1>7. vault.available = books.available /\ vault.pending = books.pending
  BY <1>5, <1>6 DEF FollowInv, Unposted
<1> QED BY <1>6, <1>7

(* When no call is under way and none was cut short, the posted journals   *)
(* give the vault's buckets exactly.                                       *)
THEOREM PostedInFull == Spec => []BooksFollowVault
<1>1. TypeOK /\ FollowInv /\ [Next]_vars => (TypeOK /\ FollowInv)'
  BY TypeStep, FollowStep
<1> QED BY <1>1, TypeInit, FollowInit, FollowImplies, PTL DEF Spec

-----------------------------------------------------------------------------
(* Where the rows of a payout stand that has not strayed, step by step,    *)
(* and the money with them, through overlaps, deaths and redeliveries.     *)

InFlight(t) == hold[t] = "in_flight"
Unseen(t) == \A event \in Events : <<t, event>> \notin seen
Handled(t) == \E h \in Handlers : handler[h].payout = t

(* What the bank says of a transfer goes with where its money is. *)
Fits(where, event) ==
  CASE event = "payout.settled" -> where \in {"paid", "returned"}
    [] event = "payout.failed" -> where = "failed"
    [] event = "payout.returned" -> where = "returned"

Truthful ==
  /\ \A t \in Payouts : payout[t] \in {"idle", "ledger", "dispatch"} => rail[t] = "none"
  /\ \A t \in Payouts, event \in Events :
       <<t, event>> \in bells \cup seen => Fits(rail[t], event)
  /\ \A h \in Handlers : handler[h].step # "idle" =>
       Fits(rail[handler[h].payout], handler[h].event)

(* The rows of a payout no delivery is at: before its hold row is there    *)
(* (which its request may never insert), sent, paid, or reversed.          *)
Listed(t) == payout[t] \in {"journal", "done"}

Starting(t) ==
  /\ payout[t] # "journal" /\ hold[t] = "none"
  /\ t \notin reversals /\ Unseen(t)

Sent(t) == Listed(t) /\ InFlight(t) /\ Unseen(t)

Paid(t) ==
  /\ Listed(t) /\ hold[t] = "settled"
  /\ \A event \in Events : <<t, event>> \in seen =>
       event = "payout.settled" /\ transfer[t] = "settled" /\ ledger[t] = "settled"

Open(t) == (Sent(t) \/ Paid(t)) /\ t \notin reversals
Locked(t) == (Sent(t) \/ Paid(t)) /\ t \in reversals

Back(t) ==
  /\ Listed(t) /\ hold[t] = "reversed" /\ t \in reversals
  /\ rail[t] \in Undone /\ transfer[t] = rail[t] /\ ledger[t] = "failed"

Quiet(t) == Starting(t) \/ Open(t) \/ Back(t)

(* The rows of a payout while delivery c is at them. *)
Settles(c) ==
  LET t == c.payout IN
  /\ c.step \in {"hold", "vault", "debit", "markHold", "transfer", "ledger", "journal", "event"}
  /\ <<t, "payout.settled">> \notin seen
  /\ c.step \in {"hold", "vault"} => Open(t) \/ Back(t)
  /\ c.step = "vault" => c.hold = hold[t]
  /\ c.step \in {"debit", "markHold"} => Open(t) /\ InFlight(t) /\ c.hold = "in_flight"
  /\ c.step \in {"transfer", "ledger", "journal", "event"} => Open(t) /\ hold[t] = "settled"
  /\ c.step \in {"ledger", "journal", "event"} => transfer[t] = "settled"
  /\ c.step \in {"journal", "event"} => ledger[t] = "settled"

Reverses(c) ==
  LET t == c.payout IN
  /\ c.step \in {"reversal", "view", "held", "lock", "credit", "unlock", "unhold",
                 "transfer", "ledger", "journal", "event"}
  /\ c.step = "reversal" => Open(t) \/ Back(t)
  /\ c.step \in {"view", "held", "lock"} => Open(t)
  /\ c.step \in {"lock", "credit", "unhold"} => c.hold = hold[t]
  /\ c.step \in {"credit", "unlock", "unhold"} => Locked(t)
  /\ c.step \in {"transfer", "ledger", "journal", "event"} =>
       Listed(t) /\ hold[t] = "reversed" /\ t \in reversals
  /\ c.step \in {"ledger", "journal", "event"} => transfer[t] = rail[t]
  /\ c.step \in {"journal", "event"} => ledger[t] = "failed"

Under(c) == IF c.event = "payout.settled" THEN Settles(c) ELSE Reverses(c)

Staged ==
  /\ \A t \in Payouts \ strayed : Handled(t) \/ Quiet(t)
  /\ \A h \in Handlers :
       handler[h].payout \in Payouts \ strayed => Under(handler[h])

(* What has not strayed has one delivery at a time, and there is one       *)
(* release at a time while none was hasty.                                 *)
Alone ==
  /\ \A h, k \in Handlers :
       handler[h].payout = handler[k].payout /\ handler[h].payout \in Payouts \ strayed
         => h = k
  /\ ~ hasty => \A q, r \in Releasers :
       release[q].step # "idle" /\ release[r].step # "idle" => q = r

-----------------------------------------------------------------------------
LEMMA HandledIs ==
  TypeOK => \A h \in Handlers : handler[h].payout \in Payouts <=> handler[h].step # "idle"
BY VaultAssumption DEF TypeOK, Handling, IdleHandler, HandlerSteps

LEMMA DeliveryAt ==
  ASSUME TypeOK, Staged, NEW h \in Handlers, handler[h].step # "idle"
  PROVE  /\ handler[h] \in Handling /\ handler[h].payout \in Payouts
         /\ handler[h].payout \notin strayed =>
              Under(handler[h]) /\ Listed(handler[h].payout)
<1>1. handler[h] \in Handling
  BY BusyHandler
<1>2. handler[h].payout \in Payouts
  BY <1>1 DEF Handling
<1>3. ASSUME handler[h].payout \notin strayed
      PROVE  Under(handler[h]) /\ Listed(handler[h].payout)
  <2>1. Under(handler[h])
    BY <1>2, <1>3 DEF Staged
  <2> QED BY <2>1 DEF Under, Settles, Reverses, Open, Locked, Back, Sent, Paid
<1> QED BY <1>1, <1>2, <1>3

(* The rows of u are left alone, but for the end of its request. *)
Left(u) ==
  /\ \/ payout'[u] = payout[u]
     \/ payout[u] = "journal" /\ payout'[u] = "done"
  /\ hold'[u] = hold[u] /\ transfer'[u] = transfer[u]
  /\ ledger'[u] = ledger[u] /\ rail'[u] = rail[u]
  /\ u \in reversals' <=> u \in reversals
  /\ \A event \in Events : <<u, event>> \in seen' <=> <<u, event>> \in seen

LEMMA LeftAlone ==
  ASSUME NEW u \in Payouts, Left(u)
  PROVE  /\ Starting(u) => Starting(u)'
         /\ Sent(u) => Sent(u)'
         /\ Paid(u) => Paid(u)'
         /\ Open(u) => Open(u)'
         /\ Locked(u) => Locked(u)'
         /\ Back(u) => Back(u)'
         /\ Quiet(u) => Quiet(u)'
         /\ Listed(u) => Listed(u)'
BY DEF Left, Starting, Sent, Paid, Open, Locked, Back, Quiet, Listed, Unseen, InFlight

LEMMA LeftUnder ==
  ASSUME NEW u \in Payouts, Left(u), NEW k \in Handlers, handler'[k] = handler[k],
         handler[k].payout = u, Under(handler[k])
  PROVE  Under(handler[k])'
<1>1. /\ Open(u) => Open(u)'
      /\ Locked(u) => Locked(u)'
      /\ Back(u) => Back(u)'
      /\ Listed(u) => Listed(u)'
  BY LeftAlone
<1>2. "payout.settled" \in Events
  BY DEF Events
<1>3. Settles(handler[k]) => Settles(handler[k])'
  BY <1>1, <1>2 DEF Left, Settles, InFlight
<1>4. Reverses(handler[k]) => Reverses(handler[k])'
  BY <1>1 DEF Left, Reverses
<1> QED BY <1>3, <1>4 DEF Under

(* A step on one payout, which may stray by it. *)
LEMMA StagedStep ==
  ASSUME TypeOK, Staged, NEW t \in Payouts, strayed \subseteq strayed',
         \A u \in Payouts \ {t} : Left(u),
         \A k \in Handlers :
           handler[k].payout \in Payouts \ {t} \/ handler'[k].payout \in Payouts \ {t}
             => handler'[k] = handler[k],
         t \notin strayed' =>
           /\ Handled(t)' \/ Quiet(t)'
           /\ \A k \in Handlers : handler'[k].payout = t => Under(handler[k])'
  PROVE  Staged'
<1>1. ASSUME NEW u \in Payouts \ strayed' PROVE Handled(u)' \/ Quiet(u)'
  <2>1. CASE u = t
    BY <1>1, <2>1
  <2>2. CASE u # t
    <3>1. Handled(u) => Handled(u)'
      BY <2>2 DEF Handled
    <3>2. Handled(u) \/ Quiet(u)
      BY <1>1 DEF Staged
    <3> QED BY <2>2, <3>1, <3>2, LeftAlone
  <2> QED BY <2>1, <2>2
<1>2. ASSUME NEW k \in Handlers, handler'[k].payout \in Payouts \ strayed'
      PROVE  Under(handler[k])'
  <2>1. CASE handler'[k].payout = t
    BY <1>2, <2>1
  <2>2. CASE handler'[k].payout # t
    <3>1. handler'[k] = handler[k] /\ handler[k].payout \in Payouts \ strayed
      BY <1>2, <2>2
    <3>2. Under(handler[k])
      BY <3>1 DEF Staged
    <3>3. PICK u \in Payouts : u = handler[k].payout
      BY <3>1
    <3>4. Left(u)
      BY <2>2, <3>1, <3>3
    <3> QED BY <3>1, <3>2, <3>3, <3>4, LeftUnder
  <2> QED BY <2>1, <2>2
<1> QED BY <1>1, <1>2 DEF Staged

(* A step of one delivery on its payout. *)
LEMMA StagedDelivery ==
  ASSUME TypeOK, Staged, Alone, NEW h \in Handlers, NEW t \in Payouts,
         handler[h].payout = t, strayed \subseteq strayed',
         \A k \in Handlers \ {h} : handler'[k] = handler[k],
         \A u \in Payouts \ {t} : Left(u),
         handler'[h].payout \in {t, NoPayout},
         t \notin strayed' =>
           \/ handler'[h] = IdleHandler /\ Quiet(t)'
           \/ handler'[h].payout = t /\ Under(handler[h])'
  PROVE  Staged'
<1>1. \A k \in Handlers :
        handler[k].payout \in Payouts \ {t} \/ handler'[k].payout \in Payouts \ {t}
          => handler'[k] = handler[k]
  BY VaultAssumption
<1>2. ASSUME t \notin strayed'
      PROVE  /\ Handled(t)' \/ Quiet(t)'
             /\ \A k \in Handlers : handler'[k].payout = t => Under(handler[k])'
  <2>1. \A k \in Handlers \ {h} : handler[k].payout # t
    BY <1>2 DEF Alone
  <2>2. ASSUME NEW k \in Handlers, handler'[k].payout = t PROVE Under(handler[k])'
    <3>1. k = h
      BY <2>1, <2>2
    <3>2. handler'[h] # IdleHandler
      BY <2>2, <3>1, VaultAssumption DEF IdleHandler
    <3> QED BY <1>2, <3>1, <3>2
  <2>3. Handled(t)' \/ Quiet(t)'
    BY <1>2 DEF Handled
  <2> QED BY <2>2, <2>3
<1> QED BY <1>1, <1>2, StagedStep

(* The request. *)
LEMMA StagedPay ==
  ASSUME TypeOK, Staged, NEW t \in Payouts, Pay(t)
  PROVE  Staged'
<1> USE DEF rows, bank, notes, Go
<1>1. /\ payout[t] # "done" /\ handler' = handler /\ strayed' = strayed
      /\ \A u \in Payouts \ {t} : Left(u)
      /\ reversals' = reversals /\ seen' = seen
  BY DEF Pay, HoldFunds, InsertLedger, DispatchAccepted, Register,
     DispatchRefused, DispatchUnanswered, Rollback, FailLedger, RecordTransfer,
     InsertHold, JournalHold, PayoutFails, TypeOK, Left
<1>2. CASE payout[t] = "journal"
  <2>1. Left(t)
    BY <1>1, <1>2 DEF Pay, HoldFunds, InsertLedger, DispatchAccepted, Register,
       DispatchRefused, DispatchUnanswered, Rollback, FailLedger, RecordTransfer,
       InsertHold, JournalHold, PayoutFails, TypeOK, Left
  <2>2. ASSUME t \notin strayed PROVE Handled(t)' \/ Quiet(t)'
    BY <1>1, <2>1, <2>2, LeftAlone DEF Staged, Handled
  <2>3. ASSUME t \notin strayed, NEW k \in Handlers, handler'[k].payout = t
        PROVE  Under(handler[k])'
    BY <1>1, <2>1, <2>3, LeftUnder DEF Staged
  <2> QED BY <1>1, <2>2, <2>3, StagedStep
<1>3. CASE payout[t] # "journal"
  <2>1. SUFFICES ASSUME t \notin strayed
                 PROVE  /\ Quiet(t)'
                        /\ \A k \in Handlers : handler[k].payout # t
    BY <1>1, <2>1, StagedStep
  <2>2. \A k \in Handlers : handler[k].payout # t
    BY <1>1, <1>3, <2>1, HandledIs, DeliveryAt DEF Listed
  <2>3. Starting(t)
    BY <1>1, <1>3, <2>1, <2>2 DEF Staged, Handled, Quiet, Open, Sent, Paid, Back, Listed
  <2>4. CASE InsertHold(t)
    <3>1. /\ payout'[t] = "journal" /\ hold'[t] = "in_flight"
      BY <2>3, <2>4 DEF InsertHold, Starting, TypeOK
    <3> QED BY <1>1, <2>2, <2>3, <3>1 DEF Quiet, Open, Sent, Listed, InFlight, Starting, Unseen
  <2>5. CASE ~ InsertHold(t)
    <3>1. payout'[t] # "journal" /\ hold' = hold
      BY <1>3, <2>5 DEF Pay, HoldFunds, InsertLedger, DispatchAccepted, Register,
         DispatchRefused, DispatchUnanswered, Rollback, FailLedger, RecordTransfer,
         JournalHold, PayoutFails, TypeOK
    <3> QED BY <1>1, <2>2, <2>3, <3>1 DEF Quiet, Starting, Unseen
  <2> QED BY <2>4, <2>5
<1> QED BY <1>2, <1>3

(* The bank, whose word on a transfer it sends back is its last. *)
LEMMA StagedDecide ==
  ASSUME TypeOK, Staged, Truthful, NEW t \in Payouts, NEW to, NEW event,
         Decide(t, to, event)
  PROVE  Staged'
<1> USE DEF rows, calls, notes
<1>1. /\ handler' = handler /\ payout' = payout /\ hold' = hold /\ transfer' = transfer
      /\ ledger' = ledger /\ reversals' = reversals /\ seen' = seen /\ strayed' = strayed
      /\ rail[t] \in {"moving", "paid"}
      /\ \A u \in Payouts \ {t} : rail'[u] = rail[u]
  BY DEF Decide, TypeOK
<1>2. \A u \in Payouts \ {t} : Left(u)
  BY <1>1 DEF Left
<1>3. /\ ~ Back(t)
      /\ Starting(t) => Starting(t)'
      /\ Open(t) => Open(t)'
  BY <1>1 DEF Back, Undone, Starting, Open, Sent, Paid, Listed, Unseen, InFlight
<1>4. ASSUME t \notin strayed PROVE Handled(t)' \/ Quiet(t)'
  BY <1>1, <1>3, <1>4 DEF Staged, Handled, Quiet
<1>5. ASSUME t \notin strayed, NEW k \in Handlers, handler[k].payout = t
      PROVE  Under(handler[k])'
  <2>1. handler[k].step # "idle" /\ handler[k].event \in Events /\ Under(handler[k])
    BY <1>5, HandledIs, BusyHandler DEF Handling, Staged
  <2>2. Fits(rail[t], handler[k].event)
    BY <1>5, <2>1 DEF Truthful
  <2>3. handler[k].event = "payout.settled"
    BY <1>1, <2>1, <2>2 DEF Fits, Events
  <2>4. Settles(handler[k])
    BY <2>1, <2>3 DEF Under
  <2>5. Settles(handler[k])'
    BY <1>1, <1>3, <1>5, <2>4 DEF Settles, InFlight
  <2> QED BY <1>1, <2>3, <2>5 DEF Under
<1> QED BY <1>1, <1>2, <1>4, <1>5, StagedStep

LEMMA StagedReceive ==
  ASSUME TypeOK, Staged, NEW t \in Payouts, NEW event \in Events, NEW h \in Handlers,
         Receive(h, t, event)
  PROVE  Staged'
<1> USE DEF rows, bank, notes
<1>1. /\ handler[h] = IdleHandler /\ <<t, event>> \notin seen
      /\ \A u \in Payouts : Left(u)
      /\ strayed' = IF Crosses(t) THEN strayed \cup {t} ELSE strayed
      /\ seen' = seen
      /\ handler' = [handler EXCEPT ![h] =
           [IdleHandler EXCEPT !.payout = t, !.event = event,
              !.step = IF event = "payout.settled" THEN "hold" ELSE "reversal"]]
  BY DEF Receive, Left
<1>2. /\ \A k \in Handlers \ {h} : handler'[k] = handler[k]
      /\ handler'[h].payout = t /\ handler'[h].event = event
      /\ handler'[h].step = IF event = "payout.settled" THEN "hold" ELSE "reversal"
  BY <1>1 DEF TypeOK, IdleHandler
<1>3. ASSUME t \notin strayed'
      PROVE  /\ Handled(t)' \/ Quiet(t)'
             /\ \A k \in Handlers : handler'[k].payout = t => Under(handler[k])'
  <2>1. ~ Crosses(t) /\ t \notin strayed
    BY <1>1, <1>3
  <2>2. hold[t] # "none" /\ \A k \in Handlers : handler[k].payout # t
    BY <2>1 DEF Crosses
  <2>3. Open(t) \/ Back(t)
    BY <2>1, <2>2 DEF Staged, Handled, Quiet, Starting
  <2>4. Open(t)' \/ Back(t)'
    BY <1>1, <2>3, LeftAlone
  <2>5. Under(handler[h])'
    BY <1>1, <1>2, <2>4 DEF Under, Settles, Reverses
  <2>6. \A k \in Handlers : handler'[k].payout = t => k = h
    BY <1>2, <2>2
  <2> QED BY <2>4, <2>5, <2>6 DEF Quiet
<1>4. \A k \in Handlers :
        handler[k].payout \in Payouts \ {t} \/ handler'[k].payout \in Payouts \ {t}
          => handler'[k] = handler[k]
  BY <1>1, <1>2, VaultAssumption DEF IdleHandler
<1> QED BY <1>1, <1>3, <1>4, StagedStep

(* The steps of a delivery that settles, and of one that reverses: what    *)
(* each leaves of the rows of its payout.                                  *)
LEMMA StagedSettle ==
  ASSUME TypeOK, Staged, Alone, NEW h \in Handlers, Settle(h)
  PROVE  Staged'
<1> USE DEF rows, bank, notes
<1>1. handler[h].step # "idle"
  BY DEF Settle, ReadHold, ReadVault, Backfill, Debit, MarkHold, Step
<1>2. PICK t \in Payouts : t = handler[h].payout
  BY <1>1, DeliveryAt
<1>3. handler[h] \in Handling
  BY <1>1, DeliveryAt
<1>4. /\ payout' = payout /\ transfer' = transfer /\ ledger' = ledger
      /\ reversals' = reversals /\ seen' = seen /\ rail' = rail /\ strayed' = strayed
      /\ \A k \in Handlers \ {h} : handler'[k] = handler[k]
      /\ handler'[h].payout \in {t, NoPayout}
  BY <1>2, <1>3 DEF Settle, ReadHold, ReadVault, Backfill, Debit, MarkHold, Step, Hang,
     TypeOK, IdleHandler, Handling
<1>5. \A u \in Payouts \ {t} : Left(u)
  BY <1>2, <1>4 DEF Settle, ReadHold, ReadVault, Backfill, Debit, MarkHold, TypeOK, Left
<1>6. SUFFICES ASSUME t \notin strayed
               PROVE  \/ handler'[h] = IdleHandler /\ Quiet(t)'
                      \/ handler'[h].payout = t /\ Under(handler[h])'
  BY <1>2, <1>4, <1>5, StagedDelivery
<1>7. Under(handler[h]) /\ Listed(t)
  BY <1>1, <1>2, <1>6, DeliveryAt
<1>8. /\ handler[h].step \in {"hold", "vault", "debit", "markHold"}
      /\ Settles(handler[h]) /\ handler[h].event = "payout.settled"
  <2>1. handler[h].step # "backfill"
    BY <1>7 DEF Under, Settles, Reverses
  <2>2. handler[h].step \in {"hold", "vault", "debit", "markHold"}
    BY <2>1 DEF Settle, ReadHold, ReadVault, Backfill, Debit, MarkHold, Step
  <2> QED BY <1>7, <2>2 DEF Under, Reverses
<1>9. Listed(t)' /\ <<t, "payout.settled">> \notin seen'
  BY <1>2, <1>4, <1>7, <1>8 DEF Listed, Settles
<1>10. CASE ReadHold(h) \/ ReadVault(h)
  <2>1. Left(t) /\ hold' = hold
    BY <1>4, <1>10 DEF ReadHold, ReadVault, Left
  <2>2. Open(t) \/ Back(t)
    BY <1>2, <1>8, <1>10 DEF ReadHold, ReadVault, Settles
  <2>3. Open(t)' \/ Back(t)'
    BY <2>1, <2>2, LeftAlone
  <2>4. CASE ReadHold(h)
    <3>1. /\ handler'[h].step = "vault" /\ handler'[h].payout = t
          /\ handler'[h].event = "payout.settled" /\ handler'[h].hold = hold'[t]
      BY <1>2, <1>3, <1>8, <2>1, <2>4 DEF ReadHold, TypeOK, Handling
    <3> QED BY <1>9, <2>3, <3>1 DEF Under, Settles
  <2>5. CASE ReadVault(h) /\ handler'[h] = IdleHandler
    BY <2>3, <2>5 DEF Quiet
  <2>6. CASE ReadVault(h) /\ handler'[h] # IdleHandler
    <3>1. /\ handler[h].step = "vault" /\ handler[h].hold = hold[t]
          /\ Settling(handler[h].hold) # "refused"
          /\ Step(h, "vault", Settling(handler[h].hold))
      BY <1>2, <1>8, <2>6 DEF ReadVault, Hang, TypeOK, Settles
    <3>2. Open(t) /\ handler[h].hold \in {"in_flight", "settled"}
      BY <2>2, <3>1 DEF Open, Sent, Paid, Back, InFlight, Settling
    <3>3. Open(t)'
      BY <2>1, <3>2, LeftAlone
    <3>4. /\ handler'[h].payout = t /\ handler'[h].hold = hold'[t]
          /\ handler'[h].event = "payout.settled"
          /\ handler'[h].step = IF hold[t] = "in_flight" THEN "debit" ELSE "transfer"
      BY <1>2, <1>3, <1>8, <2>1, <3>1, <3>2 DEF Step, Settling, TypeOK, Handling
    <3> QED BY <1>9, <2>1, <3>1, <3>2, <3>3, <3>4 DEF Under, Settles, InFlight
  <2> QED BY <1>10, <2>4, <2>5, <2>6
<1>11. CASE Debit(h)
  <2>1. /\ Left(t) /\ hold' = hold /\ Open(t) /\ InFlight(t) /\ handler[h].hold = "in_flight"
    BY <1>2, <1>4, <1>8, <1>11 DEF Debit, Left, Settles
  <2>2. Open(t)' /\ InFlight(t)'
    BY <2>1, LeftAlone DEF InFlight
  <2>3. \/ handler'[h] = IdleHandler
        \/ /\ handler'[h].step = "markHold" /\ handler'[h].payout = t
           /\ handler'[h].event = "payout.settled" /\ handler'[h].hold = "in_flight"
    BY <1>2, <1>3, <1>8, <1>11, <2>1 DEF Debit, Step, Hang, TypeOK, Handling
  <2> QED BY <1>9, <2>2, <2>3 DEF Under, Settles, Quiet
<1>12. CASE MarkHold(h)
  <2>1. Open(t) /\ InFlight(t)
    BY <1>2, <1>8, <1>12 DEF MarkHold, Step, Settles
  <2>2. /\ handler'[h].step = "transfer" /\ handler'[h].payout = t
        /\ handler'[h].event = "payout.settled" /\ hold'[t] = "settled"
    BY <1>2, <1>3, <1>8, <1>12, <2>1 DEF MarkHold, Step, TypeOK, Handling
  <2>3. Open(t)'
    BY <1>4, <1>9, <2>1, <2>2 DEF Open, Sent, Paid, InFlight, Unseen
  <2> QED BY <1>9, <2>2, <2>3 DEF Under, Settles
<1> QED BY <1>8, <1>10, <1>11, <1>12 DEF Settle, Backfill

LEMMA StagedReverse ==
  ASSUME TypeOK, Staged, Alone, NEW h \in Handlers, Reverse(h)
  PROVE  Staged'
<1> USE DEF rows, bank, notes
<1>1. handler[h].step # "idle"
  BY DEF Reverse, ReadReversal, ReadView, ReadHeld, Lock, FindWinner, Unlock, Credit, Unhold, Step
<1>2. PICK t \in Payouts : t = handler[h].payout
  BY <1>1, DeliveryAt
<1>3. handler[h] \in Handling
  BY <1>1, DeliveryAt
<1>4. /\ payout' = payout /\ transfer' = transfer /\ ledger' = ledger
      /\ seen' = seen /\ rail' = rail /\ strayed \subseteq strayed'
      /\ \A k \in Handlers \ {h} : handler'[k] = handler[k]
      /\ handler'[h].payout \in {t, NoPayout}
  BY <1>2, <1>3 DEF Reverse, ReadReversal, ReadView, ReadHeld, Lock, FindWinner, Unlock,
     Credit, Unhold, Step, Hang, TypeOK, IdleHandler, Handling
<1>5. \A u \in Payouts \ {t} : Left(u)
  BY <1>2, <1>4 DEF Reverse, ReadReversal, ReadView, ReadHeld, Lock, FindWinner, Unlock, Credit,
     Unhold, TypeOK, Left
<1>6. SUFFICES ASSUME t \notin strayed'
               PROVE  \/ handler'[h] = IdleHandler /\ Quiet(t)'
                      \/ handler'[h].payout = t /\ Under(handler[h])'
  BY <1>2, <1>4, <1>5, StagedDelivery
<1>7. Under(handler[h]) /\ Listed(t)
  BY <1>1, <1>2, <1>4, <1>6, DeliveryAt
<1>8. /\ handler[h].step \in {"reversal", "view", "held", "lock", "credit", "unlock", "unhold"}
      /\ Reverses(handler[h]) /\ handler[h].event # "payout.settled"
  <2>1. handler[h].step \in {"reversal", "view", "held", "lock", "lost", "unlock", "credit", "unhold"}
    BY DEF Reverse, ReadReversal, ReadView, ReadHeld, Lock, FindWinner, Unlock, Credit, Unhold, Step
  <2> QED BY <1>7, <2>1 DEF Under, Settles, Reverses
<1>9. Listed(t)'
  BY <1>4, <1>7 DEF Listed
<1>10. CASE ReadReversal(h) \/ ReadView(h) \/ ReadHeld(h)
  <2>1. Left(t) /\ hold' = hold /\ reversals' = reversals
    BY <1>4, <1>10 DEF ReadReversal, ReadView, ReadHeld, Left
  <2>2. handler'[h].payout = t /\ handler'[h].event = handler[h].event
    BY <1>2, <1>3, <1>10 DEF ReadReversal, ReadView, ReadHeld, Step, TypeOK, Handling
  <2>3. CASE ReadReversal(h)
    <3>1. handler[h].step = "reversal"
            /\ handler'[h].step = IF t \in reversals THEN "event" ELSE "view"
      BY <1>2, <1>3, <2>3 DEF ReadReversal, Step, TypeOK, Handling
    <3>2. Open(t) \/ Back(t)
      BY <1>2, <1>8, <3>1 DEF Reverses
    <3>3. CASE t \in reversals
      <4>1. Back(t)'
        BY <2>1, <3>2, <3>3, LeftAlone DEF Open
      <4> QED BY <1>8, <1>9, <2>2, <3>1, <3>3, <4>1 DEF Under, Reverses, Back
    <3>4. CASE t \notin reversals
      <4>1. Open(t)'
        BY <2>1, <3>2, <3>4, LeftAlone DEF Back
      <4> QED BY <1>8, <2>2, <3>1, <3>4, <4>1 DEF Under, Reverses
    <3> QED BY <3>3, <3>4
  <2>4. CASE ReadView(h)
    <3>1. handler[h].step = "view" /\ handler'[h].step = "held"
      BY <1>2, <1>3, <2>4 DEF ReadView, TypeOK, Handling
    <3>2. Open(t)'
      BY <1>2, <1>8, <2>1, <3>1, LeftAlone DEF Reverses
    <3> QED BY <1>8, <2>2, <3>1, <3>2 DEF Under, Reverses
  <2>5. CASE ReadHeld(h)
    <3>1. /\ handler[h].step = "held" /\ handler'[h].step = "lock"
          /\ handler'[h].hold = hold'[t]
      BY <1>2, <1>3, <2>1, <2>5 DEF ReadHeld, TypeOK, Handling
    <3>2. Open(t)'
      BY <1>2, <1>8, <2>1, <3>1, LeftAlone DEF Reverses
    <3> QED BY <1>8, <2>2, <3>1, <3>2 DEF Under, Reverses
  <2> QED BY <1>10, <2>3, <2>4, <2>5
<1>11. CASE Lock(h)
  <2>1. handler[h].step = "lock" /\ Open(t) /\ handler[h].hold = hold[t]
    BY <1>2, <1>8, <1>11 DEF Lock, Step, Reverses
  <2>2. ~ Taken(t) /\ hold' = hold /\ reversals' = reversals \cup {t}
    BY <1>2, <1>11, <2>1 DEF Open, Taken, Lock
  <2>3. /\ handler'[h].step \in {"credit", "unlock"} /\ handler'[h].payout = t
        /\ handler'[h].event = handler[h].event /\ handler'[h].hold = hold'[t]
    BY <1>2, <1>3, <1>6, <1>11, <2>1, <2>2 DEF Lock, Step, TypeOK, Handling
  <2>4. Locked(t)'
    BY <1>4, <1>9, <2>1, <2>2 DEF Locked, Open, Sent, Paid, Unseen, InFlight
  <2> QED BY <1>8, <2>3, <2>4 DEF Under, Reverses
<1>12. CASE Unlock(h)
  <2>1. /\ handler[h].step = "unlock" /\ handler'[h] = IdleHandler /\ hold' = hold
        /\ reversals' = reversals \ {t} /\ Locked(t)
    BY <1>2, <1>8, <1>12 DEF Unlock, Hang, TypeOK, Reverses
  <2>2. Open(t)'
    BY <1>4, <1>9, <2>1 DEF Locked, Open, Sent, Paid, Unseen, InFlight
  <2> QED BY <2>1, <2>2 DEF Quiet
<1>13. CASE Credit(h)
  <2>1. /\ handler[h].step = "credit" /\ handler[h].hold = hold[t] /\ Locked(t)
        /\ Left(t) /\ hold' = hold
    BY <1>2, <1>4, <1>8, <1>13 DEF Credit, Reverses, Left
  <2>2. hold[t] \in {"in_flight", "settled"}
    BY <2>1 DEF Locked, Sent, Paid, InFlight
  <2>3. /\ handler'[h].step \in {"unhold", "unlock"} /\ handler'[h].payout = t
        /\ handler'[h].event = handler[h].event /\ handler'[h].hold = hold'[t]
    BY <1>2, <1>3, <1>13, <2>1, <2>2 DEF Credit, Step, TypeOK, Handling
  <2>4. Locked(t)'
    BY <2>1, LeftAlone
  <2> QED BY <1>8, <2>3, <2>4 DEF Under, Reverses
<1>14. CASE Unhold(h)
  <2>1. /\ handler[h].step = "unhold" /\ reversals' = reversals
        /\ handler'[h].step = "transfer" /\ handler'[h].payout = t
        /\ handler'[h].event = handler[h].event /\ hold'[t] = "reversed"
    BY <1>2, <1>3, <1>14 DEF Unhold, Step, TypeOK, Handling
  <2>2. t \in reversals
    BY <1>2, <1>8, <2>1 DEF Reverses, Locked
  <2> QED BY <1>8, <1>9, <2>1, <2>2 DEF Under, Reverses
<1> QED BY <1>8, <1>10, <1>11, <1>12, <1>13, <1>14 DEF Reverse, FindWinner, Step

(* The tail the two share, and the death of a delivery. *)
LEMMA StagedTail ==
  ASSUME TypeOK, Staged, Truthful, Alone, NEW h \in Handlers,
         MarkTransfer(h) \/ MarkLedger(h) \/ PostVerdict(h) \/ RecordEvent(h) \/ HandlerFails(h)
  PROVE  Staged'
<1> USE DEF rows, bank, notes
<1>1. handler[h].step # "idle"
  BY DEF MarkTransfer, MarkLedger, PostVerdict, RecordEvent, HandlerFails, Step
<1>2. PICK t \in Payouts : t = handler[h].payout
  BY <1>1, DeliveryAt
<1>3. handler[h] \in Handling
  BY <1>1, DeliveryAt
<1>4. /\ payout' = payout /\ hold' = hold /\ reversals' = reversals /\ rail' = rail
      /\ strayed \subseteq strayed'
      /\ \A k \in Handlers \ {h} : handler'[k] = handler[k]
      /\ handler'[h].payout \in {t, NoPayout}
  BY <1>2, <1>3 DEF MarkTransfer, MarkLedger, PostVerdict, RecordEvent, HandlerFails, Step,
     Hang, TypeOK, IdleHandler, Handling
<1>5. \A u \in Payouts \ {t} : Left(u)
  BY <1>2, <1>4 DEF MarkTransfer, MarkLedger, PostVerdict, RecordEvent, HandlerFails, TypeOK, Left
<1>6. SUFFICES ASSUME t \notin strayed'
               PROVE  \/ handler'[h] = IdleHandler /\ Quiet(t)'
                      \/ handler'[h].payout = t /\ Under(handler[h])'
  BY <1>2, <1>4, <1>5, StagedDelivery
<1>7. Under(handler[h]) /\ Listed(t)
  BY <1>1, <1>2, <1>4, <1>6, DeliveryAt
<1>8. /\ IF handler[h].event = "payout.settled" THEN Settles(handler[h]) ELSE Reverses(handler[h])
      /\ Listed(t)' /\ (InFlight(t)' <=> InFlight(t))
  BY <1>4, <1>7 DEF Under, Listed, InFlight
<1>9. ASSUME handler[h].event # "payout.settled"
      PROVE  rail[t] \in Undone /\ StatusOf(handler[h].event) = rail[t]
  <2>1. Fits(rail[t], handler[h].event) /\ handler[h].event \in Events
    BY <1>1, <1>2, <1>3 DEF Truthful, Handling
  <2> QED BY <1>9, <2>1 DEF Fits, Events, Undone, StatusOf
<1>10. /\ handler[h].event \in Events /\ "payout.settled" \in Events
       /\ RecordEvent(h) => seen' = seen \cup {<<t, handler[h].event>>}
       /\ ~ RecordEvent(h) => seen' = seen
  BY <1>2, <1>3 DEF MarkTransfer, MarkLedger, PostVerdict, RecordEvent, HandlerFails, Handling,
     Events
<1>11. CASE MarkTransfer(h) \/ MarkLedger(h) \/ PostVerdict(h)
  <2>1. /\ handler'[h].payout = t /\ handler'[h].event = handler[h].event
        /\ seen' = seen /\ handler[h].step \in {"transfer", "ledger", "journal"}
        /\ handler[h].step = "transfer" =>
             /\ handler'[h].step = "ledger" /\ ledger' = ledger
             /\ transfer'[t] = StatusOf(handler[h].event)
        /\ handler[h].step # "transfer" => transfer' = transfer
        /\ handler[h].step = "ledger" =>
             /\ handler'[h].step \in {"event", "journal"}
             /\ ledger'[t] = IF handler[h].event = "payout.settled" THEN "settled" ELSE "failed"
        /\ handler[h].step = "journal" => handler'[h].step = "event" /\ ledger' = ledger
    BY <1>2, <1>3, <1>11 DEF MarkTransfer, MarkLedger, PostVerdict, Step, TypeOK, Handling
  <2>2. CASE handler[h].event = "payout.settled"
    <3>1. Open(t) /\ hold[t] = "settled" /\ <<t, "payout.settled">> \notin seen
      BY <1>2, <1>8, <2>1, <2>2 DEF Settles
    <3>2. Open(t)'
      BY <1>4, <1>8, <2>1, <3>1 DEF Open, Sent, Paid, InFlight
    <3>3. /\ handler'[h].step \in {"ledger", "journal", "event"} => transfer'[t] = "settled"
          /\ handler'[h].step \in {"journal", "event"} => ledger'[t] = "settled"
      BY <1>2, <1>8, <2>1, <2>2 DEF Settles, StatusOf
    <3> QED BY <1>4, <2>1, <2>2, <3>1, <3>2, <3>3 DEF Under, Settles
  <2>3. CASE handler[h].event # "payout.settled"
    <3>1. hold[t] = "reversed" /\ t \in reversals
      BY <1>2, <1>8, <2>1, <2>3 DEF Reverses
    <3>2. /\ handler'[h].step \in {"ledger", "journal", "event"} => transfer'[t] = rail'[t]
          /\ handler'[h].step \in {"journal", "event"} => ledger'[t] = "failed"
      BY <1>2, <1>4, <1>8, <1>9, <2>1, <2>3 DEF Reverses
    <3> QED BY <1>4, <1>8, <2>1, <2>3, <3>1, <3>2 DEF Under, Reverses
  <2> QED BY <2>2, <2>3
<1>12. CASE RecordEvent(h)
  <2>1. /\ handler[h].step = "event" /\ handler'[h] = IdleHandler
        /\ ledger' = ledger /\ transfer' = transfer
    BY <1>12 DEF RecordEvent, Hang, TypeOK
  <2>2. CASE handler[h].event = "payout.settled"
    <3>1. Open(t) /\ hold[t] = "settled" /\ transfer[t] = "settled" /\ ledger[t] = "settled"
      BY <1>2, <1>8, <2>1, <2>2 DEF Settles
    <3>2. Paid(t)' /\ t \notin reversals'
      BY <1>4, <1>8, <1>10, <2>1, <2>2, <3>1 DEF Open, Sent, Paid, InFlight
    <3> QED BY <2>1, <3>2 DEF Quiet, Open
  <2>3. CASE handler[h].event # "payout.settled"
    <3>1. Back(t)'
      BY <1>2, <1>4, <1>8, <1>9, <2>1, <2>3 DEF Back, Reverses
    <3> QED BY <2>1, <3>1 DEF Quiet
  <2> QED BY <2>2, <2>3
<1>13. CASE HandlerFails(h)
  <2>1. /\ handler'[h] = IdleHandler /\ ~ Midway(handler[h])
        /\ ledger' = ledger /\ transfer' = transfer /\ seen' = seen
    BY <1>2, <1>6, <1>13 DEF HandlerFails, Hang, TypeOK
  <2>2. Left(t)
    BY <1>4, <2>1 DEF Left
  <2>3. Open(t) \/ Back(t)
    BY <1>2, <1>8, <1>9, <2>1 DEF Midway, Settles, Reverses, Back, Listed
  <2> QED BY <2>1, <2>2, <2>3, LeftAlone DEF Quiet
<1> QED BY <1>11, <1>12, <1>13

(* What a step of a delivery does to itself, and leaves alone. *)
LEMMA OneDelivery ==
  ASSUME TypeOK, NEW h \in Handlers, Handle(h) \/ HandlerFails(h)
  PROVE  /\ handler[h].step # "idle" /\ handler[h] \in Handling
         /\ handler[h].payout \in Payouts
         /\ rail' = rail /\ payout' = payout /\ release' = release /\ hasty' = hasty
         /\ strayed \subseteq strayed'
         /\ \A k \in Handlers \ {h} : handler'[k] = handler[k]
         /\ handler'[h].payout \in {handler[h].payout, NoPayout}
         /\ handler'[h].step # "idle" =>
              /\ handler'[h].payout = handler[h].payout
              /\ handler'[h].event = handler[h].event
<1> USE DEF rows, bank, notes
<1>1. handler \in [Handlers -> Handling \cup {IdleHandler}]
  BY DEF TypeOK
<1>2. handler[h].step # "idle"
  BY DEF Handle, Settle, Reverse, ReadHold, ReadVault, Backfill, Debit,
     MarkHold, ReadReversal, ReadView, ReadHeld, Lock, FindWinner, Unlock,
     Credit, Unhold, MarkTransfer, MarkLedger, PostVerdict, RecordEvent,
     HandlerFails, Step
<1>3. handler[h] \in Handling /\ handler[h].payout \in Payouts
  BY <1>2, BusyHandler DEF Handling
<1>4. CASE Settle(h)
  BY <1>1, <1>2, <1>3, <1>4 DEF Settle, ReadHold, ReadVault, Backfill, Debit, MarkHold,
     Step, Hang, IdleHandler, Handling
<1>5. CASE Reverse(h)
  BY <1>1, <1>2, <1>3, <1>5 DEF Reverse, ReadReversal, ReadView, ReadHeld, Lock, FindWinner,
     Unlock, Credit, Unhold, Step, Hang, IdleHandler, Handling
<1>6. CASE MarkTransfer(h) \/ MarkLedger(h) \/ PostVerdict(h) \/ RecordEvent(h)
  BY <1>1, <1>2, <1>3, <1>6 DEF MarkTransfer, MarkLedger, PostVerdict, RecordEvent,
     Step, Hang, IdleHandler, Handling
<1>7. CASE HandlerFails(h)
  BY <1>1, <1>2, <1>3, <1>7 DEF HandlerFails, Hang, IdleHandler, Handling
<1> QED BY <1>4, <1>5, <1>6, <1>7 DEF Handle

(* What the deliveries have received goes with where the money is. *)
LEMMA TruthfulStep ==
  ASSUME TypeOK, Truthful, [Next]_vars
  PROVE  Truthful'
<1> USE DEF rows, calls, bank, notes
<1>1. ASSUME rail' = rail, seen' = seen, bells' = bells, payout' = payout,
             \A h \in Handlers :
               /\ handler'[h].step # "idle" => handler[h].step # "idle"
               /\ handler'[h].step # "idle" =>
                    /\ handler'[h].payout = handler[h].payout
                    /\ handler'[h].event = handler[h].event
      PROVE  Truthful'
  BY <1>1 DEF Truthful
<1>2. ASSUME NEW t \in Payouts, Pay(t) PROVE Truthful'
  <2>1. /\ seen' = seen /\ bells' = bells /\ handler' = handler
        /\ \A u \in Payouts \ {t} : rail'[u] = rail[u] /\ payout'[u] = payout[u]
    BY <1>2 DEF Pay, HoldFunds, InsertLedger, DispatchAccepted, Register,
       DispatchRefused, DispatchUnanswered, Rollback, FailLedger, RecordTransfer,
       InsertHold, JournalHold, PayoutFails, Go, TypeOK
  <2>2. CASE DispatchAccepted(t) \/ DispatchUnanswered(t)
    <3>1. payout[t] = "dispatch" /\ payout'[t] \in {"register", "rollback"}
      BY <2>2 DEF DispatchAccepted, DispatchUnanswered, Go, TypeOK
    <3>2. rail[t] = "none"
      BY <3>1 DEF Truthful
    <3>3. \A event \in Events : ~ Fits(rail[t], event)
      BY <3>2 DEF Fits, Events
    <3>4. \A h \in Handlers : handler[h].step # "idle" =>
            handler[h].payout \in Payouts \ {t}
      <4> SUFFICES ASSUME NEW h \in Handlers, handler[h].step # "idle"
                   PROVE  handler[h].payout \in Payouts \ {t}
        OBVIOUS
      <4>1. /\ handler[h].payout \in Payouts /\ handler[h].event \in Events
            /\ Fits(rail[handler[h].payout], handler[h].event)
        BY BusyHandler DEF Handling, Truthful
      <4> QED BY <3>3, <4>1
    <3>5. \A u \in Payouts : payout'[u] \in {"idle", "ledger", "dispatch"} => rail'[u] = "none"
      BY <2>1, <3>1 DEF Truthful
    <3>6. \A u \in Payouts, event \in Events :
            <<u, event>> \in bells' \cup seen' => Fits(rail'[u], event)
      BY <2>1, <3>3 DEF Truthful
    <3>7. \A h \in Handlers : handler'[h].step # "idle" =>
            Fits(rail'[handler'[h].payout], handler'[h].event)
      BY <2>1, <3>4 DEF Truthful
    <3> QED BY <3>5, <3>6, <3>7 DEF Truthful
  <2>3. CASE ~ (DispatchAccepted(t) \/ DispatchUnanswered(t))
    <3>1. /\ rail' = rail
          /\ payout'[t] \in {"idle", "ledger", "dispatch"} =>
               payout[t] \in {"idle", "ledger", "dispatch"}
      BY <1>2, <2>3 DEF Pay, HoldFunds, InsertLedger, Register,
         DispatchRefused, Rollback, FailLedger, RecordTransfer, InsertHold,
         JournalHold, PayoutFails, Go, TypeOK
    <3> QED BY <2>1, <3>1 DEF Truthful
  <2> QED BY <2>2, <2>3
<1>3. ASSUME NEW t \in Payouts, NEW to, NEW event \in Events, Decide(t, to, event)
      PROVE  Truthful'
  <2>1. /\ handler' = handler /\ seen' = seen /\ bells' = bells \cup {<<t, event>>}
        /\ payout' = payout
        /\ rail'[t] = to /\ \A u \in Payouts \ {t} : rail'[u] = rail[u]
        /\ Fits(to, event)
        /\ \/ rail[t] = "moving"
           \/ rail[t] = "paid" /\ to = "returned"
    BY <1>3 DEF Decide, TypeOK, Fits
  <2>2. \A e \in Events : Fits(rail[t], e) => Fits(to, e)
    BY <2>1 DEF Fits, Events
  <2>3. \A h \in Handlers : handler[h].step # "idle" =>
          handler[h].payout \in Payouts /\ handler[h].event \in Events
    BY BusyHandler DEF Handling
  <2>4. \A u \in Payouts : payout'[u] \in {"idle", "ledger", "dispatch"} => rail'[u] = "none"
    BY <2>1 DEF Truthful
  <2>5. \A u \in Payouts, e \in Events :
          <<u, e>> \in bells' \cup seen' => Fits(rail'[u], e)
    BY <2>1, <2>2 DEF Truthful
  <2>6. \A h \in Handlers : handler'[h].step # "idle" =>
          Fits(rail'[handler'[h].payout], handler'[h].event)
    BY <2>1, <2>2, <2>3 DEF Truthful
  <2> QED BY <2>4, <2>5, <2>6 DEF Truthful
<1>4. ASSUME NEW t \in Payouts, NEW event \in Events, Replay(t, event)
      PROVE  Truthful'
  BY <1>4 DEF Replay, Truthful
<1>5. ASSUME NEW t \in Payouts, NEW event \in Events, NEW h \in Handlers,
             Receive(h, t, event)
      PROVE  Truthful'
  <2>1. /\ rail' = rail /\ seen' = seen /\ bells' = bells /\ <<t, event>> \in bells
        /\ payout' = payout
        /\ \A k \in Handlers \ {h} : handler'[k] = handler[k]
        /\ handler'[h].payout = t /\ handler'[h].event = event
    BY <1>5 DEF Receive, TypeOK, IdleHandler
  <2> QED BY <2>1 DEF Truthful
<1>6. ASSUME NEW h \in Handlers, Handle(h) \/ HandlerFails(h) PROVE Truthful'
  <2>1. /\ rail' = rail /\ payout' = payout /\ handler[h].step # "idle"
        /\ \A k \in Handlers \ {h} : handler'[k] = handler[k]
        /\ handler'[h].step # "idle" =>
             /\ handler'[h].payout = handler[h].payout
             /\ handler'[h].event = handler[h].event
    BY <1>6, OneDelivery
  <2>2. CASE RecordEvent(h)
    <3>1. /\ seen' = seen \cup {<<handler[h].payout, handler[h].event>>}
          /\ bells' \subseteq bells
      BY <2>2 DEF RecordEvent
    <3>2. Fits(rail[handler[h].payout], handler[h].event)
      BY <2>1 DEF Truthful
    <3> QED BY <2>1, <3>1, <3>2 DEF Truthful
  <2>3. CASE ~ RecordEvent(h)
    <3>1. seen' = seen /\ bells' = bells
      BY <1>6, <2>3 DEF Handle, Settle, Reverse, ReadHold, ReadVault, Backfill, Debit,
         MarkHold, ReadReversal, ReadView, ReadHeld, Lock, FindWinner, Unlock,
         Credit, Unhold, MarkTransfer, MarkLedger, PostVerdict, HandlerFails
    <3> QED BY <2>1, <3>1 DEF Truthful
  <2> QED BY <2>2, <2>3
<1>7. ASSUME NEW r \in Releasers, ReleaseRead(r) \/ Release(r) \/ ReleaseFails(r)
      PROVE  Truthful'
  BY <1>1, <1>7 DEF Release, ReleaseRead, ReleaseSum, ReleaseMove, ReleaseJournal,
     ReleaseFails
<1>8. UNCHANGED vars => Truthful'
  BY <1>1 DEF vars
<1> QED BY <1>2, <1>3, <1>4, <1>5, <1>6, <1>7, <1>8 DEF Next

(* A delivery that finds another at work strays its transfer, and a        *)
(* release that begins beside another is hasty.                            *)
LEMMA AloneStep ==
  ASSUME TypeOK, Alone, [Next]_vars
  PROVE  Alone'
<1> USE DEF rows, calls, bank, notes
<1>1. ASSUME handler' = handler, release' = release, strayed' = strayed, hasty' = hasty
      PROVE  Alone'
  BY <1>1 DEF Alone
<1>2. ASSUME NEW t \in Payouts, Pay(t) PROVE Alone'
  BY <1>1, <1>2 DEF Pay, HoldFunds, InsertLedger, DispatchAccepted, Register,
     DispatchRefused, DispatchUnanswered, Rollback, FailLedger, RecordTransfer,
     InsertHold, JournalHold, PayoutFails
<1>3. ASSUME NEW h \in Handlers, Handle(h) \/ HandlerFails(h) PROVE Alone'
  <2>1. /\ release' = release /\ hasty' = hasty /\ strayed \subseteq strayed'
        /\ \A k \in Handlers : handler'[k].payout \in {handler[k].payout, NoPayout}
    BY <1>3, OneDelivery
  <2> QED BY <2>1, VaultAssumption DEF Alone
<1>4. ASSUME NEW t \in Payouts, NEW event \in Events, NEW h \in Handlers,
             Receive(h, t, event)
      PROVE  Alone'
  <2>1. /\ release' = release /\ hasty' = hasty
        /\ strayed' = IF Crosses(t) THEN strayed \cup {t} ELSE strayed
        /\ \A k \in Handlers \ {h} : handler'[k] = handler[k]
        /\ handler'[h].payout = t
    BY <1>4 DEF Receive, TypeOK, IdleHandler
  <2>2. t \notin strayed' => \A k \in Handlers : handler[k].payout # t
    BY <2>1 DEF Crosses
  <2> QED BY <2>1, <2>2 DEF Alone
<1>5. ASSUME NEW r \in Releasers, ReleaseRead(r) \/ Release(r) \/ ReleaseFails(r) PROVE Alone'
  <2>1. /\ handler' = handler /\ strayed' = strayed
        /\ \A q \in Releasers \ {r} : release'[q] = release[q]
        /\ hasty => hasty'
    BY <1>5 DEF Release, ReleaseRead, ReleaseSum, ReleaseMove, ReleaseJournal,
       ReleaseFails, EndRelease, TypeOK
  <2>2. CASE ReleaseRead(r)
    <3>1. ~ hasty' => ReleasesRest
      BY <2>2 DEF ReleaseRead
    <3> QED BY <2>1, <3>1 DEF Alone, ReleasesRest
  <2>3. CASE ~ ReleaseRead(r)
    <3>1. release[r].step # "idle"
      BY <1>5, <2>3 DEF Release, ReleaseSum, ReleaseMove, ReleaseJournal, ReleaseFails
    <3> QED BY <2>1, <3>1 DEF Alone
  <2> QED BY <2>2, <2>3
<1> QED BY <1>1, <1>2, <1>3, <1>4, <1>5 DEF Next, Decide, Replay, vars

-----------------------------------------------------------------------------
(* Sums of amounts. *)

Share(t, S) == IF t \in S THEN Amount[t] ELSE 0

LEMMA TotalWith ==
  ASSUME NEW S \in SUBSET Payouts, NEW t \in Payouts \ S
  PROVE  Total(S \cup {t}) = Total(S) + Amount[t]
<1> DEFINE one == {t} \X (1 .. Amount[t])
<1>1. Units(S \cup {t}) = Units(S) \cup one
  BY DEF Units
<1>2. Units(S) \cap one = {}
  BY DEF Units
<1>3. IsFiniteSet(Units(S))
  BY TotalFinite
<1>4. IsFiniteSet(one) /\ Cardinality(one) = Amount[t] /\ Amount[t] \in Nat
  <2>1. Amount[t] \in Nat /\ Amount[t] > 0
    BY VaultAssumption
  <2>2. IsFiniteSet(Pile(t, Amount[t])) /\ Cardinality(Pile(t, Amount[t])) = Positive(Amount[t])
    BY <2>1, PileSize
  <2> QED BY <2>1, <2>2 DEF Pile, Positive
<1>5. IsFiniteSet({}) /\ Cardinality({}) = 0
  BY FS_EmptySet
<1>6. Cardinality(Units(S)) \in Nat /\ Cardinality(one) \in Nat
  BY <1>3, <1>4, FS_CardinalityType
<1>7. Cardinality(Units(S) \cup one)
        = Cardinality(Units(S)) + Cardinality(one) - Cardinality(Units(S) \cap one)
  BY <1>3, <1>4, FS_Union
<1> HIDE DEF one
<1>8. Cardinality(Units(S \cup {t}))
        = Cardinality(Units(S)) + Cardinality(one) - Cardinality(Units(S) \cap one)
  BY <1>1, <1>7, Zenon
<1>9. Cardinality(Units(S) \cap one) = 0
  BY <1>2, <1>5
<1> DEFINE all == Cardinality(Units(S \cup {t}))
           some == Cardinality(Units(S))
           more == Cardinality(one)
           both == Cardinality(Units(S) \cap one)
<1>10. all = some + more - both /\ both = 0 /\ some \in Nat /\ more \in Nat /\ more = Amount[t]
  BY <1>4, <1>6, <1>8, <1>9
<1>11. Total(S \cup {t}) = all /\ Total(S) = some
  BY DEF Total
<1> HIDE DEF all, some, more, both
<1> QED BY <1>10, <1>11

LEMMA TotalChange ==
  ASSUME NEW S \in SUBSET Payouts, NEW T \in SUBSET Payouts, NEW t \in Payouts,
         \A u \in Payouts \ {t} : u \in T <=> u \in S
  PROVE  Total(T) = Total(S) - Share(t, S) + Share(t, T)
<1> DEFINE rest == S \ {t}
<1>1. rest \in SUBSET Payouts /\ t \in Payouts \ rest /\ Amount[t] \in Nat
  BY VaultAssumption
<1>2. Total(rest \cup {t}) = Total(rest) + Amount[t] /\ Total(rest) \in Nat
  BY <1>1, TotalWith, TotalType
<1>3. /\ t \in S => S = rest \cup {t}
      /\ t \notin S => S = rest
      /\ t \in T => T = rest \cup {t}
      /\ t \notin T => T = rest
  OBVIOUS
<1>4. /\ t \in S => Total(S) = Total(rest \cup {t}) /\ Share(t, S) = Amount[t]
      /\ t \notin S => Total(S) = Total(rest) /\ Share(t, S) = 0
      /\ t \in T => Total(T) = Total(rest \cup {t}) /\ Share(t, T) = Amount[t]
      /\ t \notin T => Total(T) = Total(rest) /\ Share(t, T) = 0
  BY <1>3 DEF Share
<1> DEFINE less == Total(rest)
           more == Total(rest \cup {t})
           old == Total(S)
           new == Total(T)
           was == Share(t, S)
           is == Share(t, T)
           n == Amount[t]
<1>5. /\ more = less + n /\ less \in Nat /\ n \in Nat
      /\ (old = more /\ was = n) \/ (old = less /\ was = 0)
      /\ (new = more /\ is = n) \/ (new = less /\ is = 0)
  BY <1>1, <1>2, <1>4
<1>6. new = old - was + is
  <2> HIDE DEF less, more, old, new, was, is, n
  <2> QED BY ONLY <1>5
<1> QED BY <1>6

LEMMA TotalMonotone ==
  ASSUME NEW S \in SUBSET Payouts, NEW T \in SUBSET S
  PROVE  Total(T) =< Total(S)
<1>1. IsFiniteSet(Units(S)) /\ Units(T) \in SUBSET Units(S)
  BY TotalFinite DEF Units
<1> QED BY <1>1, FS_Subset DEF Total

-----------------------------------------------------------------------------
(* The payouts whose money is out of the vault. *)
Gone ==
  {t \in Payouts :
     \/ \E h \in Handlers : handler[h].payout = t /\ handler[h].step = "markHold"
     \/ /\ hold[t] = "settled"
        /\ \A h \in Handlers : handler[h].payout = t => handler[h].step # "unhold"}

Kept ==
  vault.available + vault.pending + Total(Gone) = Funds.available + Funds.pending

(* What a release is about to move is not set aside. *)
Backed ==
  /\ Total(SetAside) =< vault.pending
  /\ \A r \in Releasers :
       release[r].step = "move" => release[r].cents =< vault.pending - Total(SetAside)

(* What a step on one payout does to the money, next to what is set aside  *)
(* and what is gone.                                                       *)
LEMMA MoneyMoves ==
  ASSUME TypeOK, TypeOK', NEW t \in Payouts, release' = release,
         \A u \in Payouts \ {t} :
           /\ payout'[u] = payout[u] /\ hold'[u] = hold[u]
           /\ \A k \in Handlers :
                handler'[k].payout = u \/ handler[k].payout = u => handler'[k] = handler[k],
         vault'.pending - vault.pending >= Share(t, SetAside') - Share(t, SetAside),
         vault'.available + vault'.pending + Share(t, Gone')
           = vault.available + vault.pending + Share(t, Gone)
  PROVE  (Kept => Kept') /\ (Backed => Backed')
<1>1. /\ SetAside \in SUBSET Payouts /\ SetAside' \in SUBSET Payouts
      /\ Gone \in SUBSET Payouts /\ Gone' \in SUBSET Payouts
  BY DEF SetAside, Unlisted, Gone
<1>2. \A u \in Payouts \ {t} : u \in SetAside' <=> u \in SetAside
  BY DEF SetAside, Unlisted
<1>3. \A u \in Payouts \ {t} : u \in Gone' <=> u \in Gone
  BY DEF Gone
<1>4. /\ Total(SetAside') = Total(SetAside) - Share(t, SetAside) + Share(t, SetAside')
      /\ Total(Gone') = Total(Gone) - Share(t, Gone) + Share(t, Gone')
  BY <1>1, <1>2, <1>3, TotalChange
<1>5. /\ Total(SetAside) \in Nat /\ Total(SetAside') \in Nat
      /\ Total(Gone) \in Nat /\ Total(Gone') \in Nat
  BY <1>1, TotalType
<1>6. /\ Share(t, SetAside) \in Int /\ Share(t, SetAside') \in Int
      /\ Share(t, Gone) \in Int /\ Share(t, Gone') \in Int
  BY VaultAssumption DEF Share
<1>7. /\ vault.available \in Int /\ vault.pending \in Int
      /\ vault'.available \in Int /\ vault'.pending \in Int
      /\ \A r \in Releasers : release[r].cents \in Int
  BY DEF TypeOK
<1>8. Funds.available \in Int /\ Funds.pending \in Int
  BY VaultAssumption
<1> DEFINE a == vault.available
           p == vault.pending
           an == vault'.available
           pn == vault'.pending
           s == Total(SetAside)
           sn == Total(SetAside')
           g == Total(Gone)
           gn == Total(Gone')
           sh == Share(t, SetAside)
           shn == Share(t, SetAside')
           gh == Share(t, Gone)
           ghn == Share(t, Gone')
           f == Funds.available + Funds.pending
<1>9. /\ a \in Int /\ p \in Int /\ an \in Int /\ pn \in Int
      /\ s \in Int /\ sn \in Int /\ g \in Int /\ gn \in Int
      /\ sh \in Int /\ shn \in Int /\ gh \in Int /\ ghn \in Int /\ f \in Int
      /\ sn = s - sh + shn /\ gn = g - gh + ghn
      /\ pn - p >= shn - sh /\ an + pn + ghn = a + p + gh
  BY <1>4, <1>5, <1>6, <1>7, <1>8
<1>10. /\ a + p + g = f => an + pn + gn = f
       /\ s =< p => sn =< pn
       /\ \A c \in Int : c =< p - s => c =< pn - sn
  <2> HIDE DEF a, p, an, pn, s, sn, g, gn, sh, shn, gh, ghn, f
  <2> QED BY ONLY <1>9
<1>11. Total(SetAside)' = Total(SetAside') /\ Total(Gone)' = Total(Gone')
  BY DEF Total, Units
<1>12. Kept => Kept'
  BY <1>10, <1>11 DEF Kept
<1>13. Backed => Backed'
  BY <1>7, <1>10, <1>11 DEF Backed
<1> QED BY <1>12, <1>13

LEMMA MoneyStill ==
  ASSUME SetAside' = SetAside, Gone' = Gone, vault' = vault, release' = release
  PROVE  (Kept => Kept') /\ (Backed => Backed')
<1>1. Total(SetAside)' = Total(SetAside) /\ Total(Gone)' = Total(Gone)
  BY DEF Total, Units
<1> QED BY <1>1 DEF Kept, Backed

LEMMA MoneyPay ==
  ASSUME TypeOK, TypeOK', Staged, NEW t \in Payouts, t \notin strayed, Pay(t)
  PROVE  (Kept => Kept') /\ (Backed => Backed')
<1> USE DEF rows, bank, notes, Go
<1>1. /\ payout[t] # "done" /\ handler' = handler /\ release' = release
      /\ \A u \in Payouts \ {t} : payout'[u] = payout[u] /\ hold'[u] = hold[u]
  BY DEF Pay, HoldFunds, InsertLedger, DispatchAccepted, Register,
     DispatchRefused, DispatchUnanswered, Rollback, FailLedger, RecordTransfer,
     InsertHold, JournalHold, PayoutFails, TypeOK
<1>2. CASE payout[t] = "journal"
  <2>1. /\ vault' = vault /\ hold' = hold /\ payout'[t] = "done"
        /\ \A u \in Payouts \ {t} : payout'[u] = payout[u]
    BY <1>2 DEF Pay, HoldFunds, InsertLedger, DispatchAccepted, Register,
       DispatchRefused, DispatchUnanswered, Rollback, FailLedger, RecordTransfer,
       InsertHold, JournalHold, PayoutFails, TypeOK
  <2>2. Unlisted' = Unlisted
    BY <1>2, <2>1 DEF Unlisted
  <2>3. SetAside' = SetAside /\ Gone' = Gone
    BY <1>1, <2>1, <2>2 DEF SetAside, Gone
  <2> QED BY <1>1, <2>1, <2>3, MoneyStill
<1>3. CASE payout[t] # "journal"
  <2>1. \A k \in Handlers : handler[k].payout # t /\ handler'[k].payout # t
    BY <1>1, <1>3, HandledIs, DeliveryAt DEF Listed
  <2>2. Starting(t)
    BY <1>1, <1>3, <2>1 DEF Staged, Handled, Quiet, Open, Sent, Paid, Back, Listed
  <2>3. t \notin Gone /\ (hold'[t] # "settled" => t \notin Gone')
    BY <2>1, <2>2 DEF Gone, Starting
  <2>4. /\ t \in SetAside <=> \/ payout[t] \in {"ledger", "dispatch", "register", "record",
                                                "holdRow", "rollback"}
                              \/ hold[t] = "in_flight"
        /\ t \in SetAside' <=> \/ payout'[t] \in {"ledger", "dispatch", "register", "record",
                                                  "holdRow", "rollback"}
                               \/ hold'[t] = "in_flight"
    BY <2>1 DEF SetAside, Unlisted
  <2>5. /\ Amount[t] \in Nat \ {0} /\ vault.available \in Nat /\ vault.pending \in Nat
        /\ hold[t] = "none"
    BY <2>2, VaultAssumption DEF TypeOK, Starting
  <2>6. CASE HoldFunds(t)
    <3>1. t \notin SetAside /\ t \in SetAside' /\ t \notin Gone'
      BY <2>2, <2>3, <2>4, <2>6 DEF HoldFunds, Starting, TypeOK
    <3>2. /\ vault'.available = vault.available - Amount[t]
          /\ vault'.pending = vault.pending + Amount[t]
      BY <2>5, <2>6 DEF HoldFunds, Move, Plus
    <3>3. /\ Share(t, SetAside) = 0 /\ Share(t, SetAside') = Amount[t]
          /\ Share(t, Gone) = 0 /\ Share(t, Gone') = 0
      BY <2>3, <3>1 DEF Share
    <3> QED BY <1>1, <2>5, <3>2, <3>3, MoneyMoves
  <2>7. ASSUME Rollback(t), Covers(vault, Amount[t], - Amount[t])
        PROVE  (Kept => Kept') /\ (Backed => Backed')
    <3>1. /\ vault'.available = vault.available + Amount[t]
          /\ vault'.pending = vault.pending - Amount[t]
          /\ payout'[t] = "failLedger" /\ hold' = hold /\ payout[t] = "rollback"
      BY <2>5, <2>7 DEF Rollback, Move, Plus, TypeOK
    <3>2. t \in SetAside /\ t \notin SetAside' /\ t \notin Gone'
      BY <2>3, <2>4, <2>5, <3>1
    <3>3. /\ Share(t, SetAside) = Amount[t] /\ Share(t, SetAside') = 0
          /\ Share(t, Gone) = 0 /\ Share(t, Gone') = 0
      BY <2>3, <3>2 DEF Share
    <3> QED BY <1>1, <2>5, <3>1, <3>3, MoneyMoves
  <2>8. ASSUME vault' = vault, hold'[t] # "settled", t \in SetAside' => t \in SetAside
        PROVE  (Kept => Kept') /\ (Backed => Backed')
    <3>1. /\ Share(t, SetAside) \in Int /\ Share(t, SetAside') \in Int
          /\ Share(t, SetAside') =< Share(t, SetAside)
          /\ Share(t, Gone) = 0 /\ Share(t, Gone') = 0
      BY <2>3, <2>5, <2>8 DEF Share
    <3> QED BY <1>1, <2>5, <2>8, <3>1, MoneyMoves
  <2>9. CASE PayoutFails(t) \/ Rollback(t)
    <3>1. ASSUME vault' = vault /\ hold' = hold /\ payout'[t] = "done"
          PROVE  (Kept => Kept') /\ (Backed => Backed')
      BY <2>4, <2>5, <2>8, <3>1
    <3>2. CASE PayoutFails(t)
      BY <3>1, <3>2 DEF PayoutFails, TypeOK
    <3>3. CASE Rollback(t)
      <4>1. CASE ~ Covers(vault, Amount[t], - Amount[t])
        BY <3>1, <3>3, <4>1 DEF Rollback, TypeOK
      <4> QED BY <2>7, <3>3, <4>1
    <3> QED BY <2>9, <3>2, <3>3
  <2>10. CASE InsertLedger(t) \/ DispatchAccepted(t) \/ DispatchUnanswered(t) \/ Register(t)
    <3>1. /\ vault' = vault /\ hold' = hold
          /\ payout[t] \in {"ledger", "dispatch", "register"}
      BY <2>10 DEF InsertLedger, DispatchAccepted, DispatchUnanswered, Register
    <3> QED BY <2>4, <2>5, <2>8, <3>1
  <2>11. CASE RecordTransfer(t) \/ DispatchRefused(t) \/ FailLedger(t)
    <3>1. /\ vault' = vault /\ hold' = hold
          /\ \/ payout[t] \in {"record", "dispatch"}
             \/ payout[t] = "failLedger" /\ payout'[t] = "done"
      BY <2>11 DEF RecordTransfer, DispatchRefused, FailLedger, TypeOK
    <3> QED BY <2>4, <2>5, <2>8, <3>1
  <2>12. CASE InsertHold(t)
    <3>1. vault' = vault /\ hold'[t] = "in_flight" /\ payout[t] = "holdRow"
      BY <2>5, <2>12 DEF InsertHold, TypeOK
    <3> QED BY <2>4, <2>8, <3>1
  <2>13. ~ JournalHold(t)
    BY <1>3 DEF JournalHold
  <2> QED BY <2>6, <2>9, <2>10, <2>11, <2>12, <2>13 DEF Pay
<1> QED BY <1>2, <1>3

(* What the one delivery of a payout says of its money. *)
LEMMA DeliveryShare ==
  ASSUME NEW h \in Handlers, NEW t \in Payouts, handler[h].payout = t, Listed(t),
         \A k \in Handlers \ {h} : handler[k].payout # t
  PROVE  /\ t \in SetAside <=>
              hold[t] = "in_flight" /\ handler[h].step \notin {"markHold", "unhold"}
         /\ t \in Gone <=> \/ handler[h].step = "markHold"
                           \/ hold[t] = "settled" /\ handler[h].step # "unhold"
BY DEF SetAside, Unlisted, Gone, Listed

(* A delivery takes its payout out of pending once, when it settles, and   *)
(* brings it back to available once, from pending or from the bank.        *)
LEMMA MoneyHandle ==
  ASSUME TypeOK, TypeOK', Staged, Alone, NEW h \in Handlers, Handle(h) \/ HandlerFails(h),
         strayed' = {}
  PROVE  (Kept => Kept') /\ (Backed => Backed')
<1> USE DEF rows, bank, notes
<1>1. /\ handler[h].step # "idle" /\ payout' = payout /\ release' = release
      /\ strayed = {}
      /\ \A k \in Handlers \ {h} : handler'[k] = handler[k]
      /\ handler'[h].payout \in {handler[h].payout, NoPayout}
  BY OneDelivery
<1>2. PICK t \in Payouts : t = handler[h].payout
  BY <1>1, DeliveryAt
<1>3. /\ handler[h] \in Handling /\ handler[h].payout = t /\ Listed(t) /\ Listed(t)'
      /\ IF handler[h].event = "payout.settled" THEN Settles(handler[h]) ELSE Reverses(handler[h])
  BY <1>1, <1>2, DeliveryAt DEF Under, Listed
<1>4. ~ Backfill(h)
  BY <1>3 DEF Backfill, Settles, Reverses
<1>5. /\ \A u \in Payouts \ {t} : hold'[u] = hold[u]
      /\ handler'[h].payout \in {t, NoPayout}
  <2> USE <1>1, <1>2 DEF TypeOK
  <2>1. CASE Settle(h)
    BY <1>4, <2>1 DEF Settle, ReadHold, ReadVault, Debit, MarkHold
  <2>2. CASE Reverse(h)
    BY <2>2 DEF Reverse, ReadReversal, ReadView, ReadHeld, Lock, FindWinner, Unlock, Credit,
       Unhold
  <2>3. CASE MarkTransfer(h) \/ MarkLedger(h) \/ PostVerdict(h) \/ RecordEvent(h)
                \/ HandlerFails(h)
    BY <2>3 DEF MarkTransfer, MarkLedger, PostVerdict, RecordEvent, HandlerFails
  <2> QED BY <2>1, <2>2, <2>3 DEF Handle
<1>6. \A k \in Handlers \ {h} : handler[k].payout # t /\ handler'[k].payout # t
  BY <1>1, <1>3, <1>5 DEF Alone
<1>7. \A u \in Payouts \ {t} :
        /\ payout'[u] = payout[u] /\ hold'[u] = hold[u]
        /\ \A k \in Handlers :
             handler'[k].payout = u \/ handler[k].payout = u => handler'[k] = handler[k]
  BY <1>1, <1>3, <1>5, VaultAssumption
<1>8. /\ t \in SetAside <=>
           hold[t] = "in_flight" /\ handler[h].step \notin {"markHold", "unhold"}
      /\ t \in Gone <=> \/ handler[h].step = "markHold"
                        \/ hold[t] = "settled" /\ handler[h].step # "unhold"
  BY <1>3, <1>6, DeliveryShare
<1>9. /\ t \in SetAside' <=>
           /\ hold'[t] = "in_flight"
           /\ handler'[h].payout = t => handler'[h].step \notin {"markHold", "unhold"}
      /\ t \in Gone' <=>
           \/ handler'[h].payout = t /\ handler'[h].step = "markHold"
           \/ /\ hold'[t] = "settled"
              /\ handler'[h].payout = t => handler'[h].step # "unhold"
  BY <1>3, <1>6 DEF SetAside, Unlisted, Gone, Listed
<1>10. /\ Amount[t] \in Nat \ {0} /\ vault.available \in Nat /\ vault.pending \in Nat
       /\ Share(t, SetAside) \in Int /\ Share(t, Gone) \in Int
  BY VaultAssumption DEF TypeOK, Share
<1>11. ASSUME vault' = vault,
              t \in SetAside' <=> t \in SetAside, t \in Gone' <=> t \in Gone
       PROVE  (Kept => Kept') /\ (Backed => Backed')
  <2>1. Share(t, SetAside') = Share(t, SetAside) /\ Share(t, Gone') = Share(t, Gone)
    BY <1>11 DEF Share
  <2> QED BY <1>1, <1>7, <1>10, <1>11, <2>1, MoneyMoves
<1>12. ASSUME vault' = vault, hold' = hold,
              handler[h].step \notin {"markHold", "unhold"},
              handler'[h].step \notin {"markHold", "unhold"}
       PROVE  (Kept => Kept') /\ (Backed => Backed')
  BY <1>8, <1>9, <1>11, <1>12
<1>13. CASE ReadHold(h) \/ ReadVault(h)
  <2>1. vault' = vault /\ hold' = hold /\ handler[h].step \notin {"markHold", "unhold"}
    BY <1>13 DEF ReadHold, ReadVault
  <2>2. handler'[h].step \notin {"markHold", "unhold"}
    BY <1>3, <1>13 DEF ReadHold, ReadVault, Settling, Step, Hang, IdleHandler, TypeOK,
       Handling, HoldStatus
  <2> QED BY <1>12, <2>1, <2>2
<1>14. CASE Debit(h)
  <2>1. /\ handler[h].step = "debit" /\ hold' = hold /\ hold[t] = "in_flight"
    BY <1>3, <1>14 DEF Debit, Settles, Reverses, InFlight
  <2>2. CASE ~ Covers(vault, 0, - Amount[t])
    <3>1. vault' = vault /\ handler'[h] = IdleHandler
      BY <1>3, <1>14, <2>2 DEF Debit, Hang, TypeOK
    <3> QED BY <1>12, <2>1, <3>1 DEF IdleHandler
  <2>3. CASE Covers(vault, 0, - Amount[t])
    <3>1. /\ vault' = Plus(vault, 0, - Amount[t])
          /\ handler'[h].step = "markHold" /\ handler'[h].payout = t
      BY <1>3, <1>14, <2>3 DEF Debit, Move, Step, TypeOK, Handling
    <3>2. vault'.available = vault.available /\ vault'.pending = vault.pending - Amount[t]
      BY <1>10, <3>1 DEF Plus
    <3>3. t \in SetAside /\ t \notin SetAside' /\ t \notin Gone /\ t \in Gone'
      BY <1>8, <1>9, <2>1, <3>1
    <3>4. /\ Share(t, SetAside) = Amount[t] /\ Share(t, SetAside') = 0
          /\ Share(t, Gone) = 0 /\ Share(t, Gone') = Amount[t]
      BY <3>3 DEF Share
    <3> QED BY <1>1, <1>7, <1>10, <3>2, <3>4, MoneyMoves
  <2> QED BY <2>2, <2>3
<1>15. CASE MarkHold(h)
  <2>1. /\ handler[h].step = "markHold" /\ vault' = vault /\ hold[t] = "in_flight"
        /\ hold'[t] = "settled" /\ handler'[h].step = "transfer"
    BY <1>3, <1>15 DEF MarkHold, Step, Settles, Reverses, InFlight, TypeOK, Handling
  <2> QED BY <1>8, <1>9, <1>11, <2>1
<1>16. CASE ReadReversal(h) \/ ReadView(h) \/ ReadHeld(h) \/ Lock(h) \/ FindWinner(h) \/ Unlock(h)
  <2>1. vault' = vault /\ hold' = hold /\ handler[h].step \notin {"markHold", "unhold"}
    BY <1>16 DEF ReadReversal, ReadView, ReadHeld, Lock, FindWinner, Unlock, Step
  <2>2. handler'[h].step \notin {"markHold", "unhold"}
    BY <1>3, <1>16 DEF ReadReversal, ReadView, ReadHeld, Lock, FindWinner, Unlock, Step, Hang,
       IdleHandler, TypeOK, Handling
  <2> QED BY <1>12, <2>1, <2>2
<1>17. CASE Credit(h)
  <2>1. /\ handler[h].step = "credit" /\ hold' = hold /\ handler[h].hold = hold[t]
        /\ hold[t] \in {"in_flight", "settled"}
    BY <1>3, <1>17 DEF Credit, Settles, Reverses, Locked, Sent, Paid, InFlight
  <2>2. CASE ~ Covers(vault, Amount[t], - TakenFromPending(handler[h]))
    <3>1. vault' = vault /\ handler'[h].step = "unlock"
      BY <1>3, <1>17, <2>2 DEF Credit, Step, TypeOK, Handling
    <3> QED BY <1>12, <2>1, <3>1
  <2>3. CASE Covers(vault, Amount[t], - TakenFromPending(handler[h]))
    <3>1. /\ vault' = Plus(vault, Amount[t], - TakenFromPending(handler[h]))
          /\ handler'[h].step = "unhold" /\ handler'[h].payout = t
      BY <1>3, <1>17, <2>1, <2>3 DEF Credit, Move, Step, TypeOK, Handling
    <3>2. t \notin SetAside' /\ t \notin Gone'
      BY <1>9, <2>1, <3>1
    <3>3. CASE hold[t] = "in_flight"
      <4>1. /\ vault'.available = vault.available + Amount[t]
            /\ vault'.pending = vault.pending - Amount[t]
        BY <1>3, <1>10, <2>1, <3>1, <3>3 DEF Plus, TakenFromPending
      <4>2. t \in SetAside /\ t \notin Gone
        BY <1>8, <2>1, <3>3
      <4>3. /\ Share(t, SetAside) = Amount[t] /\ Share(t, SetAside') = 0
            /\ Share(t, Gone) = 0 /\ Share(t, Gone') = 0
        BY <3>2, <4>2 DEF Share
      <4> QED BY <1>1, <1>7, <1>10, <4>1, <4>3, MoneyMoves
    <3>4. CASE hold[t] = "settled"
      <4>1. /\ vault'.available = vault.available + Amount[t]
            /\ vault'.pending = vault.pending
        BY <1>3, <1>10, <2>1, <3>1, <3>4 DEF Plus, TakenFromPending
      <4>2. t \notin SetAside /\ t \in Gone
        BY <1>8, <2>1, <3>4
      <4>3. /\ Share(t, SetAside) = 0 /\ Share(t, SetAside') = 0
            /\ Share(t, Gone) = Amount[t] /\ Share(t, Gone') = 0
        BY <3>2, <4>2 DEF Share
      <4> QED BY <1>1, <1>7, <1>10, <4>1, <4>3, MoneyMoves
    <3> QED BY <2>1, <3>3, <3>4
  <2> QED BY <2>2, <2>3
<1>18. CASE Unhold(h)
  <2>1. /\ handler[h].step = "unhold" /\ vault' = vault /\ hold'[t] = "reversed"
        /\ handler'[h].step = "transfer"
    BY <1>3, <1>18 DEF Unhold, Step, TypeOK, Handling
  <2> QED BY <1>8, <1>9, <1>11, <2>1
<1>19. CASE MarkTransfer(h) \/ MarkLedger(h) \/ PostVerdict(h) \/ RecordEvent(h)
  <2>1. vault' = vault /\ hold' = hold /\ handler[h].step \notin {"markHold", "unhold"}
    BY <1>19 DEF MarkTransfer, MarkLedger, PostVerdict, RecordEvent, Step
  <2>2. handler'[h].step \notin {"markHold", "unhold"}
    BY <1>3, <1>19 DEF MarkTransfer, MarkLedger, PostVerdict, RecordEvent, Step, Hang,
       IdleHandler, TypeOK, Handling
  <2> QED BY <1>12, <2>1, <2>2
<1>20. CASE HandlerFails(h)
  <2>1. /\ vault' = vault /\ hold' = hold /\ handler'[h] = IdleHandler
        /\ strayed' = IF Midway(handler[h]) THEN strayed \cup {t} ELSE strayed
    BY <1>3, <1>20 DEF HandlerFails, Hang, TypeOK
  <2>2. handler[h].step \notin {"markHold", "unhold"}
    BY <2>1 DEF Midway
  <2> QED BY <1>12, <2>1, <2>2 DEF IdleHandler
<1> QED BY <1>4, <1>13, <1>14, <1>15, <1>16, <1>17, <1>18, <1>19, <1>20 DEF Handle, Settle, Reverse

LEMMA MoneyReceive ==
  ASSUME TypeOK, NEW t \in Payouts, NEW event \in Events, NEW h \in Handlers,
         Receive(h, t, event), strayed' = {}
  PROVE  (Kept => Kept') /\ (Backed => Backed')
<1> USE DEF rows, bank, notes
<1>1. /\ handler[h] = IdleHandler /\ vault' = vault /\ hold' = hold
      /\ payout' = payout /\ release' = release
      /\ \A k \in Handlers \ {h} : handler'[k] = handler[k]
      /\ handler'[h].payout = t /\ handler'[h].step \notin {"markHold", "unhold"}
      /\ strayed' = IF Crosses(t) THEN strayed \cup {t} ELSE strayed
  BY DEF Receive, TypeOK, IdleHandler
<1>2. /\ handler[h].payout = NoPayout /\ handler[h].step = "idle"
      /\ \A k \in Handlers : handler[k].payout # t
  BY <1>1 DEF IdleHandler, Crosses
<1>3. /\ \A u \in Payouts, k \in Handlers : handler'[k].payout = u
            => \/ handler'[k] = handler[k]
               \/ k = h /\ u = t /\ handler'[k].step \notin {"markHold", "unhold"}
      /\ \A u \in Payouts, k \in Handlers : handler[k].payout = u
            => handler'[k] = handler[k]
  BY <1>1, <1>2, VaultAssumption
<1>4. SetAside' = SetAside
  BY <1>1, <1>3 DEF SetAside, Unlisted
<1>5. Gone' = Gone
  BY <1>1, <1>3 DEF Gone
<1> QED BY <1>1, <1>4, <1>5, MoneyStill

(* A release that is not hasty takes out of pending what no hold has a     *)
(* claim to: it saw every hold, and the money left to it never shrinks.    *)
LEMMA MoneyRelease ==
  ASSUME TypeOK, TypeOK', Alone, NEW r \in Releasers,
         ReleaseRead(r) \/ Release(r) \/ ReleaseFails(r)
  PROVE  (Kept => Kept') /\ (~ hasty' /\ Backed => Backed')
<1> USE DEF rows, bank, notes
<1>1. /\ hold' = hold /\ payout' = payout /\ handler' = handler
      /\ \A q \in Releasers \ {r} : release'[q] = release[q]
      /\ hasty => hasty'
  BY DEF ReleaseRead, Release, ReleaseSum, ReleaseMove, ReleaseJournal, ReleaseFails,
     EndRelease, TypeOK
<1>2. ~ hasty' /\ release[r].step # "idle" => \A q \in Releasers \ {r} : release[q].step = "idle"
  BY <1>1 DEF Alone
<1>3. SetAside' = SetAside /\ Gone' = Gone
  BY <1>1 DEF SetAside, Unlisted, Gone
<1>4. Total(SetAside)' = Total(SetAside) /\ Total(Gone)' = Total(Gone)
  BY <1>3 DEF Total, Units
<1>5. Total(SetAside) \in Nat /\ Total(Gone) \in Nat /\ SetAside \in SUBSET Payouts
  <2>1. SetAside \in SUBSET Payouts /\ Gone \in SUBSET Payouts
    BY DEF SetAside, Unlisted, Gone
  <2> QED BY <2>1, TotalType
<1>6. /\ vault.available \in Nat /\ vault.pending \in Nat
      /\ release[r].cents \in Nat /\ release[r].view \in Nat
  BY DEF TypeOK
<1>7. ASSUME vault' = vault, release'[r].step # "move"
      PROVE  (Kept => Kept') /\ (Backed => Backed')
  BY <1>1, <1>4, <1>7 DEF Kept, Backed
<1>8. CASE ReleaseRead(r) \/ ReleaseJournal(r) \/ ReleaseFails(r)
  <2>1. CASE ReleaseRead(r)
    BY <1>7, <2>1 DEF ReleaseRead, IdleRelease, TypeOK
  <2>2. CASE ReleaseJournal(r) \/ ReleaseFails(r)
    BY <1>7, <2>2 DEF ReleaseJournal, ReleaseFails, EndRelease, IdleRelease, TypeOK
  <2> QED BY <1>8, <2>1, <2>2
<1>9. CASE ReleaseSum(r)
  <2>1. vault' = vault
    BY <1>9 DEF ReleaseSum
  <2>2. Kept => Kept'
    BY <1>4, <2>1 DEF Kept
  <2>3. ASSUME ~ hasty', Backed PROVE Backed'
    <3>1. Unlisted = {} /\ release[r].view = vault.pending
      BY <1>9, <2>3 DEF ReleaseSum
    <3> DEFINE held == {t \in Payouts : hold[t] = "in_flight"}
    <3>2. SetAside \in SUBSET held /\ held \in SUBSET Payouts
      BY <3>1 DEF SetAside
    <3>3. Total(SetAside) =< Total(held) /\ Total(held) \in Nat
      BY <3>2, TotalMonotone, TotalType
    <3>4. SumInFlightPayoutHolds = Total(held)
      BY DEF SumInFlightPayoutHolds
    <3>5. \/ release'[r] = IdleRelease
          \/ \E cents \in 1 .. release[r].view - SumInFlightPayoutHolds :
               release'[r] = [IdleRelease EXCEPT !.step = "move", !.cents = cents]
      <4>1. \/ release' = [release EXCEPT ![r] = IdleRelease]
            \/ \E cents \in 1 .. release[r].view - SumInFlightPayoutHolds :
                 release' = [release EXCEPT ![r] =
                   [IdleRelease EXCEPT !.step = "move", !.cents = cents]]
        BY <1>9 DEF ReleaseSum, EndRelease
      <4>2. DOMAIN release = Releasers
        BY DEF TypeOK
      <4> QED BY <4>1, <4>2
    <3>6. release'[r].step = "move" => release'[r].cents =< vault.pending - Total(SetAside)
      <4>1. CASE release'[r] = IdleRelease
        BY <4>1 DEF IdleRelease
      <4>2. ASSUME NEW cents \in 1 .. release[r].view - SumInFlightPayoutHolds,
                   release'[r] = [IdleRelease EXCEPT !.step = "move", !.cents = cents]
            PROVE  release'[r].cents =< vault.pending - Total(SetAside)
        <5>1. release'[r].cents = cents
          BY <4>2 DEF IdleRelease
        <5>2. cents \in 1 .. vault.pending - Total(held)
          BY <3>1, <3>4, <4>2
        <5> HIDE DEF held
        <5> QED BY <1>5, <1>6, <3>3, <5>1, <5>2
      <4> QED BY <3>5, <4>1, <4>2
    <3> QED BY <1>1, <1>4, <2>1, <2>3, <3>6 DEF Backed
  <2> QED BY <2>2, <2>3
<1>10. CASE ReleaseMove(r)
  <2>1. release[r].step = "move" /\ release'[r].step # "move"
    BY <1>10 DEF ReleaseMove, EndRelease, IdleRelease, TypeOK
  <2>2. \/ vault' = vault
        \/ /\ vault'.available = vault.available + release[r].cents
           /\ vault'.pending = vault.pending - release[r].cents
    BY <1>6, <1>10 DEF ReleaseMove, Move, Plus
  <2>3. vault'.available + vault'.pending = vault.available + vault.pending
    BY <1>6, <2>2
  <2>4. Kept => Kept'
    BY <1>4, <2>3 DEF Kept
  <2>5. ASSUME ~ hasty', Backed PROVE Backed'
    <3>1. Total(SetAside) =< vault'.pending
      BY <1>5, <1>6, <2>1, <2>2, <2>5 DEF Backed
    <3>2. \A q \in Releasers : release'[q].step # "move"
      BY <1>1, <1>2, <2>1, <2>5
    <3> QED BY <1>4, <3>1, <3>2 DEF Backed
  <2> QED BY <2>4, <2>5
<1> QED BY <1>8, <1>9, <1>10 DEF Release

-----------------------------------------------------------------------------
VaultInv ==
  /\ Truthful /\ Staged /\ Alone
  /\ strayed = {} => Kept
  /\ strayed = {} /\ ~ hasty => Backed

LEMMA VaultInit ==
  ASSUME Init
  PROVE  VaultInv
<1> USE DEF Init
<1>1. \A h \in Handlers : handler[h].step = "idle" /\ handler[h].payout = NoPayout
  BY DEF IdleHandler
<1>2. \A t \in Payouts : Starting(t)
  BY DEF Starting, Unseen
<1>3. Truthful /\ Staged
  BY <1>1, <1>2, VaultAssumption DEF Truthful, Staged, Quiet
<1>4. \A r \in Releasers : release[r].step = "idle"
  BY DEF IdleRelease
<1>5. Alone
  BY <1>1, <1>4, VaultAssumption DEF Alone
<1>6. SetAside = {} /\ Gone = {}
  BY <1>1 DEF SetAside, Unlisted, Gone
<1>7. Total({}) = 0
  <2>1. Units({}) = {}
    BY DEF Units
  <2> QED BY <2>1, FS_EmptySet DEF Total
<1>8. Funds.available \in Nat /\ Funds.pending \in Nat
  BY VaultAssumption
<1>9. Kept /\ Backed
  BY <1>4, <1>6, <1>7, <1>8 DEF Kept, Backed
<1> QED BY <1>3, <1>5, <1>9 DEF VaultInv

(* Every action leaves the rows in their stages and the money in its place. *)
LEMMA VaultStep ==
  ASSUME TypeOK, TypeOK', VaultInv, [Next]_vars
  PROVE  VaultInv'
<1>1. Truthful /\ Staged /\ Alone
  BY DEF VaultInv
<1>2. Truthful' /\ Alone'
  BY <1>1, TruthfulStep, AloneStep
<1>3. ASSUME handler' = handler, strayed' = strayed, \A u \in Payouts : Left(u)
      PROVE  Staged'
  <2>1. \A u \in Payouts \ strayed' : Handled(u)' \/ Quiet(u)'
    BY <1>1, <1>3, LeftAlone DEF Staged, Handled
  <2>2. ASSUME NEW k \in Handlers, handler'[k].payout \in Payouts \ strayed'
        PROVE  Under(handler[k])'
    <3>1. PICK u \in Payouts : u = handler[k].payout
      BY <1>3, <2>2
    <3>2. Left(u) /\ Under(handler[k])
      BY <1>1, <1>3, <2>2, <3>1 DEF Staged
    <3> QED BY <1>3, <3>1, <3>2, LeftUnder
  <2> QED BY <2>1, <2>2 DEF Staged
<1> DEFINE Goes ==
      /\ Staged' /\ strayed \subseteq strayed' /\ (hasty => hasty')
      /\ strayed' = {} => (Kept => Kept')
      /\ strayed' = {} /\ ~ hasty' => (Backed => Backed')
<1>4. ASSUME NEW t \in Payouts, Pay(t) PROVE Goes
  <2>1. strayed' = strayed /\ hasty' = hasty
    BY <1>4 DEF Pay, HoldFunds, InsertLedger, DispatchAccepted, Register,
       DispatchRefused, DispatchUnanswered, Rollback, FailLedger, RecordTransfer,
       InsertHold, JournalHold, PayoutFails, notes
  <2> QED BY <1>1, <1>4, <2>1, StagedPay, MoneyPay
<1>5. ASSUME NEW t \in Payouts, NEW to \in {"paid", "failed", "returned"},
             NEW event \in Events, Decide(t, to, event)
      PROVE  Goes
  <2>1. Staged'
    BY <1>1, <1>5, StagedDecide
  <2>2. /\ vault' = vault /\ release' = release /\ handler' = handler
        /\ hold' = hold /\ payout' = payout /\ strayed' = strayed /\ hasty' = hasty
    BY <1>5 DEF Decide, rows, calls, notes
  <2>3. SetAside' = SetAside /\ Gone' = Gone
    BY <2>2 DEF SetAside, Unlisted, Gone
  <2> QED BY <2>1, <2>2, <2>3, MoneyStill
<1>6. ASSUME UNCHANGED <<vault, books, rows, calls, rail, credits, notes>>
      PROVE  Goes
  <2>1. /\ vault' = vault /\ release' = release /\ handler' = handler
        /\ hold' = hold /\ payout' = payout /\ strayed' = strayed /\ hasty' = hasty
        /\ \A u \in Payouts : Left(u)
    BY <1>6 DEF rows, calls, notes, Left
  <2>2. SetAside' = SetAside /\ Gone' = Gone
    BY <2>1 DEF SetAside, Unlisted, Gone
  <2> QED BY <1>3, <2>1, <2>2, MoneyStill
<1>7. ASSUME NEW t \in Payouts, NEW event \in Events, Replay(t, event) PROVE Goes
  BY <1>6, <1>7 DEF Replay
<1>8. ASSUME NEW t \in Payouts, NEW event \in Events, NEW h \in Handlers, Receive(h, t, event)
      PROVE  Goes
  <2>1. strayed \subseteq strayed' /\ hasty' = hasty
    BY <1>8 DEF Receive
  <2> QED BY <1>1, <1>8, <2>1, StagedReceive, MoneyReceive
<1>9. ASSUME NEW h \in Handlers, Handle(h) \/ HandlerFails(h) PROVE Goes
  <2>1. Staged'
    BY <1>1, <1>9, StagedSettle, StagedReverse, StagedTail DEF Handle
  <2> QED BY <1>1, <1>9, <2>1, OneDelivery, MoneyHandle
<1>10. ASSUME NEW r \in Releasers, ReleaseRead(r) \/ Release(r) \/ ReleaseFails(r) PROVE Goes
  <2>1. /\ handler' = handler /\ payout' = payout /\ rows' = rows /\ rail' = rail
        /\ strayed' = strayed /\ (hasty => hasty')
    <3> USE DEF bank, notes
    <3>1. CASE ReleaseRead(r)
      BY <3>1 DEF ReleaseRead
    <3>2. CASE ReleaseSum(r)
      BY <3>2 DEF ReleaseSum
    <3>3. CASE ReleaseMove(r) \/ ReleaseJournal(r) \/ ReleaseFails(r)
      BY <3>3 DEF ReleaseMove, ReleaseJournal, ReleaseFails
    <3> QED BY <1>10, <3>1, <3>2, <3>3 DEF Release
  <2>2. \A u \in Payouts : Left(u)
    BY <2>1 DEF rows, Left
  <2> QED BY <1>1, <1>3, <1>10, <2>1, <2>2, MoneyRelease
<1>11. ASSUME UNCHANGED vars PROVE Goes
  BY <1>6, <1>11 DEF vars, bank
<1>12. Goes
  BY <1>4, <1>5, <1>7, <1>8, <1>9, <1>10, <1>11 DEF Next
<1>13. hasty \in BOOLEAN /\ hasty' \in BOOLEAN
  BY DEF TypeOK
<1> QED BY <1>2, <1>12, <1>13 DEF VaultInv

LEMMA VaultAlways == Spec => [](TypeOK /\ VaultInv)
<1>1. TypeOK /\ VaultInv /\ [Next]_vars => (TypeOK /\ VaultInv)'
  BY TypeStep, VaultStep
<1> QED BY <1>1, TypeInit, VaultInit, PTL DEF Spec

(* Whatever overlaps, dies or is redelivered: until a delivery strays or a *)
(* release is hasty, the pending bucket holds the cents of every payout    *)
(* between its hold and its verdict, so no debit or reversal of one is     *)
(* refused for want of money (vaults/engine.ts: payoutFromVault,           *)
(* settleVaultPayout, reverseVaultPayout, releaseVaultPending).            *)
THEOREM HeldStaysBacked == Spec => []HeldIsBacked
<1>1. VaultInv => HeldIsBacked
  BY DEF VaultInv, Backed, HeldIsBacked
<1> QED BY <1>1, VaultAlways, PTL

LEMMA InvAccounts ==
  ASSUME VaultInv
  PROVE  MoneyAccountedFor
<1>1. SUFFICES ASSUME AtRest
               PROVE  Total(Gone) = Total({t \in Payouts : hold[t] = "settled"})
  BY <1>1 DEF VaultInv, Kept, MoneyAccountedFor
<1>2. Gone = {t \in Payouts : hold[t] = "settled"}
  BY <1>1 DEF Gone, AtRest, Resting
<1> QED BY <1>2

(* Whenever no call is under way, the vault is short of exactly the        *)
(* payouts whose hold is settled, whatever order the bank's events came    *)
(* in, however often each was sent and wherever requests, releases and     *)
(* deliveries died, as long as no delivery strayed (vaults/engine.ts:      *)
(* settleVaultPayout, reverseVaultPayout).                                 *)
THEOREM MoneyIsAccountedFor == Spec => []MoneyAccountedFor
BY VaultAlways, InvAccounts, PTL

LEMMA InvAgrees ==
  ASSUME TypeOK, VaultInv
  PROVE  StatusesAgree
<1>1. SUFFICES ASSUME NEW t \in Payouts \ strayed, Resting(t)
               PROVE  /\ (rail[t] = "paid" /\ <<t, "payout.settled">> \in seen)
                           => hold[t] = "settled" /\ transfer[t] = "settled" /\ ledger[t] = "settled"
                      /\ \A to \in Undone :
                           (rail[t] = to /\ \E e \in seen : e[1] = t /\ e[2] # "payout.settled")
                             => hold[t] = "reversed" /\ transfer[t] = to /\ ledger[t] = "failed"
  BY DEF StatusesAgree
<1>2. Starting(t) \/ Sent(t) \/ Paid(t) \/ Back(t)
  BY <1>1 DEF VaultInv, Staged, Resting, Handled, Quiet, Open
<1>3. /\ "payout.settled" \in Events
      /\ \A e \in seen : e[1] = t => e[2] \in Events /\ <<t, e[2]>> \in seen
  BY DEF Events, TypeOK
<1>4. CASE Starting(t) \/ Sent(t)
  BY <1>3, <1>4 DEF Starting, Sent, Unseen
<1>5. CASE Paid(t)
  BY <1>3, <1>5 DEF Paid
<1>6. CASE Back(t)
  BY <1>6 DEF Back, Undone
<1> QED BY <1>2, <1>4, <1>5, <1>6

(* Once the bank's last word on a transfer is answered, its hold, transfer *)
(* and ledger rows agree with it, for every transfer no delivery of which  *)
(* strayed, whatever happens to the others (lib/server/webhooks.ts:        *)
(* ingestBaasWebhook).                                                     *)
THEOREM StatusesSettle == Spec => []StatusesAgree
BY VaultAlways, InvAgrees, PTL
=============================================================================
