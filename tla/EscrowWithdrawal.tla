-------------------------- MODULE EscrowWithdrawal -------------------------
(***************************************************************************)
(* Escrow withdrawals step by step: the withdraw route, the two            *)
(* reconcilers (transfer webhook and stale-hold sweep) that share          *)
(* reconcileTransferOutcome, and the payout rail.  Every await that        *)
(* touches the database or the rail is a step of its own, so requests,     *)
(* webhooks and sweeps interleave as they do on separate server instances. *)
(*                                                                         *)
(* Rail statuses are grouped by what outcomeForTransferStatus tells apart: *)
(* "posted" stands for posted | settled, "failed" for failed | cancelled.  *)
(***************************************************************************)
EXTENDS EscrowMoney

CONSTANTS
  Resolvers,   \* reconciler invocations that may run at the same time
  NoIntent     \* the intent of an idle resolver

ASSUME WithdrawalAssumption == NoIntent \notin Intents

VARIABLES
  status,     \* escrow_withdrawal_intents.status; "none" before the row
  stamped,    \* intents whose plaid_transfer_id column is set
  debits,     \* intents whose ESCROW-PAYOUT-<id> ledger row exists
  reversals,  \* intents whose ESCROW-PAYOUT-<id>-REVERSAL row exists
  route,      \* route[i]: the next step of the request that reserves i
  counted,    \* counted[i]: what the reserve RPC for i read in the ledger
  slipped,    \* history: holders for whom a reserve went through on a ledger
              \* sum from which a debit has since been taken
  rail,       \* rail[i]: the transfer's status at Plaid
  bells,      \* bells[i]: status notifications not yet answered with a 200
  job         \* job[r]: what resolver r is doing

tables == <<status, stamped, debits, reversals>>
plaid == <<rail, bells>>
rpc == <<counted, slipped>>
vars == <<tables, route, rpc, plaid, job>>

RouteSteps == {"idle", "counted", "authorize", "create", "stamp", "record",
               "settle", "release", "done"}
RailStatus == {"none", "pending", "posted", "failed", "reversed"}
Notified == {"posted", "failed", "reversed"}
Live == {"pending", "posted"}
Dead == {"failed", "reversed"}
Outcomes == {"settle", "release", "null"}

Jobs == [step : {"locate", "fetch", "read", "debit", "find", "reverse", "flip", "answer"},
         intent : Intents,
         bell : Notified \cup {"sweep"},
         outcome : Outcomes,
         seen : {"none", "pending", "settled", "released"}]
Idle == [step |-> "idle", intent |-> NoIntent, bell |-> "sweep",
         outcome |-> "null", seen |-> "none"]

TypeOK ==
  /\ status \in [Intents -> {"none", "pending", "settled", "released"}]
  /\ stamped \subseteq Intents
  /\ debits \subseteq Intents
  /\ reversals \subseteq Intents
  /\ route \in [Intents -> RouteSteps]
  /\ counted \in [Intents -> Int]
  /\ slipped \subseteq Holders
  /\ rail \in [Intents -> RailStatus]
  /\ bells \in [Intents -> SUBSET Notified]
  /\ job \in [Resolvers -> Jobs \cup {Idle}]

Pending == {i \in Intents : status[i] = "pending"}

(* Mutant: a balance before withholding. *)
LedgerUnitsBeforeTax(h) ==
  Gross[h] - (Total(Of(h, debits)) - Total(Of(h, reversals)))

(* v_gross_units - v_tax_units - v_payout_units of the reserve RPC, where  *)
(* a reversal is a negative payoutAmount.                                  *)
LedgerUnits(h) == Net(h) - (Total(Of(h, debits)) - Total(Of(h, reversals)))

(* Mutant: audit #4, a balance that does not see the holds in flight. *)
AvailableIgnoringHolds(h, ledger) == ledger

(* v_available: the ledger's part less v_pending_units. *)
Available(h, ledger) == ledger - Total(Of(h, Pending))

(* Mutant: a stale hold is released although its transfer is still out. *)
OutcomeForStale(s) == IF s = "posted" THEN "settle" ELSE "release"

OutcomeFor(s) ==
  CASE s = "posted" -> "settle"
    [] s \in Dead -> "release"
    [] OTHER -> "null"

Init ==
  /\ status = [i \in Intents |-> "none"]
  /\ stamped = {} /\ debits = {} /\ reversals = {}
  /\ route = [i \in Intents |-> "idle"]
  /\ counted = [i \in Intents |-> 0]
  /\ slipped = {}
  /\ rail = [i \in Intents |-> "none"]
  /\ bells = [i \in Intents |-> {}]
  /\ job = [r \in Resolvers |-> Idle]

-----------------------------------------------------------------------------
(* The guarded updates: UPDATE ... WHERE id = i AND status = 'pending'. *)

(* Mutant: the UPDATE without AND status = 'pending'. *)
FlipUnguarded(i, to) == status' = [status EXCEPT ![i] = to]

Flip(i, to) ==
  status' = [status EXCEPT ![i] = IF @ = "pending" THEN to ELSE @]

(* settleEscrowWithdrawal writes plaid_transfer_id with the status. *)
SettleEscrowWithdrawal(i) ==
  /\ Flip(i, "settled")
  /\ stamped' = IF i \in Pending THEN stamped \cup {i} ELSE stamped

ReleaseEscrowWithdrawal(i) == Flip(i, "released") /\ UNCHANGED stamped

-----------------------------------------------------------------------------
(* The withdraw route.  A refusal by the advisory balance check or by the  *)
(* RPC changes nothing.                                                    *)

RouteStep(i, from, to) ==
  /\ route[i] = from
  /\ route' = [route EXCEPT ![i] = to]

(* reserve_escrow_withdrawal takes the holder's advisory lock and sums the *)
(* ledger.  Under READ COMMITTED each of its statements sees what is       *)
(* committed when that statement starts, and only other reserves take the  *)
(* lock: settlements and releases go on between the two sums.              *)
CountLedger(i) ==
  /\ \A k \in Intents : HolderOf[k] = HolderOf[i] => route[k] # "counted"
  /\ RouteStep(i, "idle", "counted")
  /\ counted' = [counted EXCEPT ![i] = LedgerUnits(HolderOf[i])]
  /\ UNCHANGED <<tables, slipped, plaid, job>>

(* Then it sums the holds and inserts the row if the amount fits; the reply *)
(* may be lost after the row is committed, and the request ends there.     *)
Reserve(i) ==
  /\ Amount[i] =< Available(HolderOf[i], counted[i])
  /\ \E to \in {"authorize", "done"} : RouteStep(i, "counted", to)
  /\ counted' = [counted EXCEPT ![i] = 0]
  /\ slipped' = IF counted[i] > LedgerUnits(HolderOf[i])
                  THEN slipped \cup {HolderOf[i]} ELSE slipped
  /\ status' = [status EXCEPT ![i] = "pending"]
  /\ UNCHANGED <<stamped, debits, reversals, plaid, job>>

(* A refusal or a failure of the RPC rolls everything back. *)
RefuseReserve(i) ==
  /\ RouteStep(i, "counted", "idle")
  /\ counted' = [counted EXCEPT ![i] = 0]
  /\ UNCHANGED <<tables, slipped, plaid, job>>

(* A refusal, an unreadable reply or an exception before transfer/create. *)
Authorize(i) ==
  /\ \E to \in {"create", "release"} : RouteStep(i, "authorize", to)
  /\ UNCHANGED <<tables, rpc, plaid, job>>

(* Mutant: a lost reply is taken for a refusal, and the hold is released. *)
CreateAcceptedReleasing(i) ==
  /\ \E to \in {"stamp", "release"} : RouteStep(i, "create", to)
  /\ rail' = [rail EXCEPT ![i] = "pending"]
  /\ UNCHANGED <<tables, rpc, bells, job>>

(* The rail takes the transfer; the reply with its id may not arrive, and  *)
(* then the hold stays pending.                                            *)
CreateAccepted(i) ==
  /\ \E to \in {"stamp", "done"} : RouteStep(i, "create", to)
  /\ rail' = [rail EXCEPT ![i] = "pending"]
  /\ UNCHANGED <<tables, rpc, bells, job>>

(* A non-2xx reply: the route takes it that no transfer exists. *)
CreateRefused(i) ==
  /\ RouteStep(i, "create", "release")
  /\ UNCHANGED <<tables, rpc, plaid, job>>

(* recordWithdrawalTransferId is best effort: a failed stamp goes on. *)
Stamp(i) ==
  /\ RouteStep(i, "stamp", "record")
  /\ \/ stamped' = IF i \in Pending THEN stamped \cup {i} ELSE stamped
     \/ UNCHANGED stamped
  /\ UNCHANGED <<status, debits, reversals, rpc, plaid, job>>

(* Mutant: the insert's error is ignored and the hold is settled. *)
RecordDebitUnchecked(i) ==
  /\ RouteStep(i, "record", "settle")
  /\ debits' \in {debits, debits \cup {i}}
  /\ UNCHANGED <<status, stamped, reversals, rpc, plaid, job>>

(* The ledger's UNIQUE(transaction_id) refuses a second row: a 502. *)
RecordDebit(i) ==
  /\ RouteStep(i, "record", IF i \in debits THEN "done" ELSE "settle")
  /\ debits' = debits \cup {i}
  /\ UNCHANGED <<status, stamped, reversals, rpc, plaid, job>>

SettleHold(i) ==
  /\ RouteStep(i, "settle", "done")
  /\ SettleEscrowWithdrawal(i)
  /\ UNCHANGED <<debits, reversals, rpc, plaid, job>>

ReleaseHold(i) ==
  /\ RouteStep(i, "release", "done")
  /\ ReleaseEscrowWithdrawal(i)
  /\ UNCHANGED <<debits, reversals, rpc, plaid, job>>

(* The awaited write fails or the process dies: the request ends. *)
RouteFails(i) ==
  /\ route[i] \notin {"idle", "counted", "done"}
  /\ RouteStep(i, route[i], "done")
  /\ UNCHANGED <<tables, rpc, plaid, job>>

Route(i) ==
  \/ CountLedger(i) \/ Reserve(i) \/ RefuseReserve(i)
  \/ Authorize(i) \/ CreateAccepted(i) \/ CreateRefused(i)
  \/ Stamp(i) \/ RecordDebit(i) \/ SettleHold(i) \/ ReleaseHold(i)
  \/ RouteFails(i)

-----------------------------------------------------------------------------
(* The rail, outside the repository: an ACH credit posts or fails, and may *)
(* come back after it posted.  Every change rings the webhook's bell.      *)

RailMoves(i, to) ==
  /\ \/ rail[i] = "pending" /\ to \in {"posted", "failed"}
     \/ rail[i] = "posted" /\ to = "reversed"
  /\ rail' = [rail EXCEPT ![i] = to]
  /\ bells' = [bells EXCEPT ![i] = @ \cup {to}]
  /\ UNCHANGED <<tables, route, rpc, job>>

-----------------------------------------------------------------------------
(* The two reconcilers. *)

Step(r, from, to) ==
  /\ job[r].step = from
  /\ job' = [job EXCEPT ![r].step = to]

(* An idle resolver starts on i, for a notification or for the sweep. *)
Take(r, i, bell, step) ==
  /\ job[r] = Idle
  /\ job' = [job EXCEPT ![r] = [Idle EXCEPT !.step = step, !.intent = i,
                                            !.bell = bell]]

(* A bell for an id no row carries: 200 noted, Plaid stops retrying. *)
WebhookUnmapped(i, e) ==
  /\ e \in bells[i]
  /\ i \notin stamped
  /\ bells' = [bells EXCEPT ![i] = @ \ {e}]
  /\ UNCHANGED <<tables, route, rpc, rail, job>>

(* Mutant: the delivery goes on when no row carries the transfer id. *)
WebhookTakesUnchecked(r, i, e) ==
  /\ e \in bells[i]
  /\ Take(r, IF i \in stamped THEN i ELSE NoIntent, e, "fetch")
  /\ UNCHANGED <<tables, route, rpc, plaid>>

(* findIntentByTransferId; the bell stays until the delivery is answered. *)
WebhookTakes(r, i, e) ==
  /\ e \in bells[i]
  /\ i \in stamped
  /\ Take(r, i, e, "fetch")
  /\ UNCHANGED <<tables, route, rpc, plaid>>

(* The sweep read i among its batch of pending rows: the query has no      *)
(* ORDER BY, any pending row may be among them, or left out.  A row is     *)
(* worked on after the rows before it, with the stamp read here.           *)
SweepTakes(r, i) ==
  /\ i \in Pending
  /\ Take(r, i, "sweep", IF i \in stamped THEN "fetch" ELSE "locate")
  /\ UNCHANGED <<tables, route, rpc, plaid>>

(* findTransferIdForIntent: the debit row carries the id, or there is none *)
(* and the row is reported unresolved.                                     *)
Locate(r) ==
  /\ job[r].step = "locate"
  /\ job' = [job EXCEPT ![r] = IF @.intent \in debits
                                 THEN [@ EXCEPT !.step = "fetch"] ELSE Idle]
  /\ UNCHANGED <<tables, route, rpc, plaid>>

(* /transfer/get: the verdict; a null outcome keeps the hold. *)
FetchStatus(r) ==
  /\ job[r].step = "fetch"
  /\ LET outcome == OutcomeFor(rail[job[r].intent])
     IN job' = [job EXCEPT ![r].outcome = outcome,
                           ![r].step = IF outcome = "null" THEN "answer" ELSE "read"]
  /\ UNCHANGED <<tables, route, rpc, plaid>>

(* Mutant: the hold is flipped and the debit left for later. *)
NextStepFlipFirst(outcome, seen) ==
  CASE outcome = "settle" /\ seen = "settled" -> "answer"
    [] outcome = "settle" /\ seen # "settled" -> "flip"
    [] outcome = "release" /\ seen = "pending" -> "find"
    [] outcome = "release" /\ seen = "settled" -> "reverse"
    [] OTHER -> "answer"

(* Mutant: an intent that is no longer pending is never looked at again. *)
NextStepPendingOnly(outcome, seen) ==
  CASE outcome = "settle" /\ seen = "pending" -> "debit"
    [] outcome = "release" /\ seen = "pending" -> "find"
    [] OTHER -> "answer"

(* reconcileTransferOutcome reads the intent's status once and acts on it. *)
NextStep(outcome, seen) ==
  CASE outcome = "settle" /\ seen = "settled" -> "answer"
    [] outcome = "settle" /\ seen # "settled" -> "debit"
    [] outcome = "release" /\ seen = "pending" -> "find"
    [] outcome = "release" /\ seen = "settled" -> "reverse"
    [] OTHER -> "answer"

ReadIntent(r) ==
  /\ job[r].step = "read"
  /\ LET seen == status[job[r].intent]
     IN job' = [job EXCEPT ![r].seen = seen,
                           ![r].step = NextStep(job[r].outcome, seen)]
  /\ UNCHANGED <<tables, route, rpc, plaid>>

AfterLedger(r) == IF job[r].seen = "pending" THEN "flip" ELSE "answer"

(* completeDebit: a found row and a duplicate id both converge. *)
CompleteDebit(r) ==
  /\ Step(r, "debit", AfterLedger(r))
  /\ debits' = debits \cup {job[r].intent}
  /\ UNCHANGED <<status, stamped, reversals, route, rpc, plaid>>

FindDebit(r) ==
  /\ Step(r, "find", IF job[r].intent \in debits THEN "reverse" ELSE "flip")
  /\ UNCHANGED <<tables, route, rpc, plaid>>

(* writeReversal does nothing without a debit row. *)
WriteReversal(r) ==
  /\ Step(r, "reverse", AfterLedger(r))
  /\ reversals' = reversals \cup ({job[r].intent} \cap debits)
  /\ UNCHANGED <<status, stamped, debits, route, rpc, plaid>>

FlipHold(r) ==
  /\ Step(r, "flip", "answer")
  /\ IF job[r].outcome = "settle"
       THEN SettleEscrowWithdrawal(job[r].intent)
       ELSE ReleaseEscrowWithdrawal(job[r].intent)
  /\ UNCHANGED <<debits, reversals, route, rpc, plaid>>

(* The 200 that ends a delivery, or the sweep going on to its next row. *)
Answer(r) ==
  /\ job[r].step = "answer"
  /\ bells' = [bells EXCEPT ![job[r].intent] = @ \ {job[r].bell}]
  /\ job' = [job EXCEPT ![r] = Idle]
  /\ UNCHANGED <<tables, route, rpc, rail>>

(* Mutant: the failure is logged and answered with a 200. *)
ResolverFailsNoted(r) ==
  /\ job[r] # Idle
  /\ bells' = [bells EXCEPT ![job[r].intent] = @ \ {job[r].bell}]
  /\ job' = [job EXCEPT ![r] = Idle]
  /\ UNCHANGED <<tables, route, rpc, rail>>

(* A read or write fails, or the process dies: a 503 and a redelivery, or  *)
(* an unresolved entry of the sweep.                                       *)
ResolverFails(r) ==
  /\ job[r] # Idle
  /\ job' = [job EXCEPT ![r] = Idle]
  /\ UNCHANGED <<tables, route, rpc, plaid>>

Resolve(r) ==
  \/ Locate(r) \/ FetchStatus(r) \/ ReadIntent(r) \/ CompleteDebit(r)
  \/ FindDebit(r) \/ WriteReversal(r) \/ FlipHold(r) \/ Answer(r)

-----------------------------------------------------------------------------
Next ==
  \/ \E i \in Intents :
       \/ Route(i)
       \/ \E s \in Notified : RailMoves(i, s) \/ WebhookUnmapped(i, s)
       \/ \E r \in Resolvers :
            SweepTakes(r, i) \/ \E s \in Notified : WebhookTakes(r, i, s)
  \/ \E r \in Resolvers : Resolve(r) \/ ResolverFails(r)

Spec == Init /\ [][Next]_vars

-----------------------------------------------------------------------------
(* Fairness.  A request ends, by finishing or failing.  The rail decides   *)
(* every transfer.  Plaid redelivers a notification until it is answered;  *)
(* a delivery may find every resolver busy, so it is strongly fair.        *)
(* Reconciliation may fail any number of times, not for ever.  Nothing     *)
(* runs the sweep but an operator, and nothing is asked of it.             *)

RailDecides(i) == rail[i] = "pending" /\ \E s \in Notified : RailMoves(i, s)

Deliver(i) ==
  \E e \in Notified :
    WebhookUnmapped(i, e) \/ \E r \in Resolvers : WebhookTakes(r, i, e)

Fairness ==
  /\ \A i \in Intents :
       /\ WF_vars(route[i] # "idle" /\ Route(i))
       /\ WF_vars(RailDecides(i))
       /\ SF_vars(Deliver(i))
  /\ \A r \in Resolvers : WF_vars(Resolve(r))
  /\ <>[][\A r \in Resolvers : ResolverFails(r) => Resolve(r)]_vars

FairSpec == Spec /\ Fairness

-----------------------------------------------------------------------------
(* Safety. *)

(* What is held for a holder never exceeds what the holder earned: of      *)
(* concurrent withdrawals of the same funds one reserves and the others    *)
(* are refused (the double spend of audit #4).                             *)
HeldWithinEarnings == \A h \in Holders : Total(Of(h, Pending)) =< Net(h)

(* The intents whose transfer the rail still carries or has paid. *)
Moving(h) == Of(h, {i \in Intents : rail[i] \in Live})

(* The money out on the rail for a holder never exceeds what the holder    *)
(* earned after withholding, however requests and reconcilers interleave,  *)
(* unless a reserve went through on a ledger sum that had gone down since: *)
(* the two sums of the reserve RPC are the only way to pay too much.       *)
NeverOverPaid ==
  \A h \in Holders \ slipped : Total(Moving(h)) =< Net(h)

(* What the withdraw route says of its gate: of two withdrawals of the     *)
(* same funds the second refuses, so the money out never exceeds what the  *)
(* holder earned.  A settlement between the two sums of the second reserve *)
(* takes the first hold away after its debit was not yet seen.             *)
SecondRefuses == \A h \in Holders : Total(Moving(h)) =< Net(h)

(* Funds that may have moved are never released: no released intent has a  *)
(* transfer the rail still carries or has paid.                            *)
NeverReleasedWhileMoving ==
  \A i \in Intents : status[i] = "released" => rail[i] \notin Live

(* A payout never un-blocks itself unrecorded: a settled intent has its    *)
(* ledger debit, and so a hold or a debit stands for every live transfer.  *)
SettledIsRecorded ==
  \A i \in Intents : status[i] = "settled" => i \in debits \cap stamped

(* A compensating entry is written only for a debit of record whose        *)
(* transfer the rail has failed or returned, never for money still out.    *)
ReversalIsDue ==
  \A i \in reversals : i \in debits /\ rail[i] \in Dead

(* The flip's rowcount decides one winner: a resolved intent is never      *)
(* resolved again, and its hold never comes back.                          *)
OneResolution ==
  [][\A i \in Intents :
       status[i] \in {"settled", "released"} => status'[i] = status[i]]_vars

-----------------------------------------------------------------------------
(* The inductive invariant behind the safety properties. *)

(* How far the request for i can be, given its row and its transfer. *)
RequestInv(i) ==
  /\ status[i] = "none" <=> route[i] \in {"idle", "counted"}
  /\ status[i] = "none" => rail[i] = "none"
  /\ route[i] \in {"authorize", "create", "release"}
       => status[i] = "pending" /\ rail[i] = "none"
  /\ route[i] \in {"stamp", "record", "settle"} => rail[i] # "none"
  /\ route[i] = "settle" => i \in debits
  /\ route[i] = "counted" => counted[i] =< Net(HolderOf[i])

(* What the rows of i say about its transfer. *)
RowInv(i) ==
  /\ i \in stamped \cup debits => rail[i] # "none"
  /\ status[i] = "settled" => i \in debits \cap stamped
  /\ status[i] = "released" => rail[i] \notin Live
  /\ i \in reversals => i \in debits /\ rail[i] \in Dead

(* What a resolver has verified before it writes. *)
JobInv(r) ==
  LET i == job[r].intent
  IN /\ job[r].step = "locate" => job[r].outcome = "null"
     /\ job[r].step \notin {"idle", "locate"} =>
          /\ rail[i] # "none"
          /\ job[r].outcome = "release" => rail[i] \in Dead
          /\ job[r].step = "debit" => job[r].outcome = "settle"
          /\ job[r].step \in {"find", "reverse"} => job[r].outcome = "release"
          /\ job[r].step = "read" => job[r].outcome # "null"
          /\ job[r].step = "flip" =>
               \/ job[r].outcome = "release"
               \/ job[r].outcome = "settle" /\ i \in debits

(* The intents whose funds are committed: a hold, or a payout not returned. *)
Committed ==
  {i \in Intents : \/ status[i] = "pending"
                   \/ status[i] = "settled" /\ rail[i] \notin Dead}

(* No commitment is made past what the holder earned, unless a reserve     *)
(* went through on a ledger sum that had gone down since.                  *)
BudgetInv ==
  \A h \in Holders \ slipped : Total(Of(h, Committed)) =< Net(h)

HoldInv ==
  /\ \A i \in Intents : RequestInv(i) /\ RowInv(i)
  /\ \A r \in Resolvers : JobInv(r)
  /\ HeldWithinEarnings
  /\ BudgetInv

-----------------------------------------------------------------------------
(* Refinement: the status is the hold, the rail says where the money is,   *)
(* and what a reserve counted in the ledger is the room it has seen.       *)

HoldOf(i) ==
  CASE status[i] = "pending" -> "held"
    [] status[i] = "settled" -> "paid"
    [] status[i] = "released" -> "void"
    [] OTHER -> "none"

MoneyOf(i) ==
  CASE rail[i] \in Live -> "out"
    [] rail[i] \in Dead -> "back"
    [] OTHER -> "in"

Hold == INSTANCE EscrowHold WITH hold <- [i \in Intents |-> HoldOf(i)],
                                 money <- [i \in Intents |-> MoneyOf(i)],
                                 room <- counted

(* The route and its reconcilers keep the promise of the intent-first      *)
(* withdrawal: funds are committed before they are sent, a commitment is   *)
(* made only where it fits, and dropped only while no money is out.        *)
ImplementsHold == Hold!Spec

-----------------------------------------------------------------------------
(* Liveness. *)

(* Every hold whose transfer the database knows is settled or released     *)
(* once Plaid has a final status to notify: a failed delivery is answered  *)
(* with a 503 and comes again.                                             *)
NotifiedHoldResolves ==
  \A i \in Intents :
    (i \in Pending /\ i \in stamped /\ bells[i] # {}) ~> (i \notin Pending)

(* A payout that comes back after its intent settled is restored: the late *)
(* return's notification leads to the reversal entry.                      *)
LateReturnIsRestored ==
  \A i \in Intents :
    []((status[i] = "settled" /\ rail[i] = "posted")
         => [](rail[i] = "reversed" => <>(i \in reversals)))
=============================================================================
