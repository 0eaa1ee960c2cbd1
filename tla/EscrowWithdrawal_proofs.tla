----------------------- MODULE EscrowWithdrawal_proofs ---------------------
(***************************************************************************)
(* The escrow withdrawal keeps its invariants and its promise for any      *)
(* number of withdrawals, holders, amounts, rates and concurrent           *)
(* reconcilers: type correctness, the inductive invariant HoldInv, the     *)
(* safety properties that follow, and the refinement of EscrowHold.        *)
(***************************************************************************)
EXTENDS EscrowWithdrawal, EscrowMoney_proofs

USE DEF RouteSteps, RailStatus, Notified, Live, Dead, Outcomes, rpc

ActiveSteps == {"locate", "fetch", "read", "debit", "find", "reverse", "flip", "answer"}

(* A busy resolver has a job record whose fields are in range. *)
LEMMA BusyJob ==
  ASSUME TypeOK, NEW r \in Resolvers, job[r].step # "idle"
  PROVE  job[r] \in Jobs
BY DEF TypeOK, Idle

(* A busy resolver may move to any step of its work. *)
LEMMA StepType ==
  ASSUME TypeOK, NEW r \in Resolvers, job[r].step # "idle",
         NEW to \in ActiveSteps, job' = [job EXCEPT ![r].step = to]
  PROVE  job' \in [Resolvers -> Jobs \cup {Idle}]
<1>1. job[r] \in Jobs
  BY BusyJob
<1>2. [job[r] EXCEPT !.step = to] \in Jobs
  BY <1>1 DEF Jobs, ActiveSteps
<1>3. job' = [job EXCEPT ![r] = [job[r] EXCEPT !.step = to]]
  OBVIOUS
<1> QED BY <1>2, <1>3 DEF TypeOK

(* The RPC's ledger sum is a number, at most what the holder earned when   *)
(* reversals only undo debits.                                             *)
LEMMA LedgerUnitsType ==
  ASSUME TypeOK, NEW h \in Holders
  PROVE  LedgerUnits(h) \in Int
<1>1. Of(h, debits) \in SUBSET Intents /\ Of(h, reversals) \in SUBSET Intents
  BY DEF Of, TypeOK
<1>2. Total(Of(h, debits)) \in Nat /\ Total(Of(h, reversals)) \in Nat
  BY <1>1, TotalType
<1> QED BY <1>2, NetType DEF LedgerUnits

LEMMA TypeRoute ==
  ASSUME TypeOK, NEW i \in Intents, Route(i)
  PROVE  TypeOK'
<1> USE DEF TypeOK, RouteStep, tables, plaid
<1>1. CASE Reserve(i)
  <2>1. HolderOf[i] \in Holders
    BY MoneyAssumption
  <2>2. slipped' \subseteq Holders
    BY <1>1, <2>1 DEF Reserve
  <2>3. counted' \in [Intents -> Int]
    BY <1>1 DEF Reserve
  <2> QED BY <1>1, <2>2, <2>3 DEF Reserve
<1>2. CASE Authorize(i)
  BY <1>2 DEF Authorize
<1>3. CASE CreateAccepted(i)
  BY <1>3 DEF CreateAccepted
<1>4. CASE CreateRefused(i)
  BY <1>4 DEF CreateRefused
<1>5. CASE Stamp(i)
  BY <1>5 DEF Stamp, Pending
<1>6. CASE RecordDebit(i)
  BY <1>6 DEF RecordDebit
<1>7. CASE SettleHold(i)
  BY <1>7 DEF SettleHold, SettleEscrowWithdrawal, Flip
<1>8. CASE ReleaseHold(i)
  BY <1>8 DEF ReleaseHold, ReleaseEscrowWithdrawal, Flip
<1>9. CASE RouteFails(i)
  BY <1>9 DEF RouteFails
<1>10. CASE CountLedger(i)
  <2>1. LedgerUnits(HolderOf[i]) \in Int
    BY MoneyAssumption, LedgerUnitsType
  <2> QED BY <1>10, <2>1 DEF CountLedger
<1>11. CASE RefuseReserve(i)
  BY <1>11 DEF RefuseReserve
<1> QED BY <1>1, <1>2, <1>3, <1>4, <1>5, <1>6, <1>7, <1>8, <1>9, <1>10, <1>11
        DEF Route

(* A new job for an idle resolver. *)
LEMMA TakeType ==
  ASSUME TypeOK, NEW r \in Resolvers, NEW i \in Intents,
         NEW e \in Notified \cup {"sweep"}, NEW to \in ActiveSteps,
         Take(r, i, e, to)
  PROVE  job' \in [Resolvers -> Jobs \cup {Idle}]
<1>1. [Idle EXCEPT !.step = to, !.intent = i, !.bell = e] \in Jobs
  BY DEF Idle, Jobs, ActiveSteps
<1> QED BY <1>1 DEF TypeOK, Take

LEMMA TypeTakes ==
  ASSUME TypeOK, NEW r \in Resolvers, NEW i \in Intents,
         SweepTakes(r, i) \/ \E e \in Notified : WebhookTakes(r, i, e)
  PROVE  TypeOK'
<1>1. CASE SweepTakes(r, i)
  <2>1. job' \in [Resolvers -> Jobs \cup {Idle}]
    BY <1>1, TakeType DEF SweepTakes, ActiveSteps
  <2> QED BY <1>1, <2>1 DEF SweepTakes, TypeOK, tables, plaid
<1>2. ASSUME NEW e \in Notified, WebhookTakes(r, i, e)
      PROVE  TypeOK'
  <2>1. job' \in [Resolvers -> Jobs \cup {Idle}]
    BY <1>2, TakeType DEF WebhookTakes, ActiveSteps
  <2> QED BY <1>2, <2>1 DEF WebhookTakes, TypeOK, tables, plaid
<1> QED BY <1>1, <1>2

LEMMA TypeResolve ==
  ASSUME TypeOK, NEW r \in Resolvers, Resolve(r) \/ ResolverFails(r)
  PROVE  TypeOK'
<1> USE DEF tables, plaid
<1>1. CASE FetchStatus(r)
  <2>1. job[r] \in Jobs
    BY <1>1, BusyJob DEF FetchStatus
  <2> DEFINE out == OutcomeFor(rail[job[r].intent])
             new == [job[r] EXCEPT !.outcome = out,
                       !.step = IF out = "null" THEN "answer" ELSE "read"]
  <2>2. out \in Outcomes
    BY DEF OutcomeFor
  <2>3. new \in Jobs
    BY <2>1, <2>2 DEF Jobs
  <2>4. job' = [job EXCEPT ![r] = new]
    BY <1>1 DEF FetchStatus
  <2> HIDE DEF new
  <2> QED BY <1>1, <2>3, <2>4 DEF FetchStatus, TypeOK
<1>2. CASE ReadIntent(r)
  <2>1. job[r] \in Jobs
    BY <1>2, BusyJob DEF ReadIntent
  <2> DEFINE seen == status[job[r].intent]
             new == [job[r] EXCEPT !.seen = seen,
                       !.step = NextStep(job[r].outcome, seen)]
  <2>2. NextStep(job[r].outcome, seen) \in ActiveSteps
    BY DEF NextStep, ActiveSteps
  <2>3. seen \in {"none", "pending", "settled", "released"}
    BY <2>1 DEF TypeOK, Jobs
  <2>4. new \in Jobs
    BY <2>1, <2>2, <2>3 DEF Jobs, ActiveSteps
  <2>5. job' = [job EXCEPT ![r] = new]
    BY <1>2 DEF ReadIntent
  <2> HIDE DEF new, seen
  <2>6. job' \in [Resolvers -> Jobs \cup {Idle}]
    BY <2>4, <2>5 DEF TypeOK
  <2> QED BY <1>2, <2>6 DEF ReadIntent, TypeOK
<1>3. CASE CompleteDebit(r)
  <2>1. job[r].intent \in Intents
    BY <1>3, BusyJob DEF CompleteDebit, Step, Jobs
  <2>2. job' \in [Resolvers -> Jobs \cup {Idle}]
    BY <1>3, StepType DEF CompleteDebit, Step, AfterLedger, ActiveSteps
  <2> QED BY <1>3, <2>1, <2>2 DEF CompleteDebit, TypeOK
<1>4. CASE FindDebit(r)
  <2>1. job' \in [Resolvers -> Jobs \cup {Idle}]
    BY <1>4, StepType DEF FindDebit, Step, ActiveSteps
  <2> QED BY <1>4, <2>1 DEF FindDebit, TypeOK
<1>5. CASE WriteReversal(r)
  <2>1. job' \in [Resolvers -> Jobs \cup {Idle}]
    BY <1>5, StepType DEF WriteReversal, Step, AfterLedger, ActiveSteps
  <2> QED BY <1>5, <2>1 DEF WriteReversal, TypeOK
<1>6. CASE FlipHold(r)
  <2>1. job' \in [Resolvers -> Jobs \cup {Idle}]
    BY <1>6, StepType DEF FlipHold, Step, ActiveSteps
  <2>2. status' \in [Intents -> {"none", "pending", "settled", "released"}]
    BY <1>6 DEF FlipHold, SettleEscrowWithdrawal, ReleaseEscrowWithdrawal,
                Flip, TypeOK
  <2>3. stamped' \subseteq Intents
    BY <1>6 DEF FlipHold, SettleEscrowWithdrawal, ReleaseEscrowWithdrawal,
                Pending, TypeOK
  <2> QED BY <1>6, <2>1, <2>2, <2>3 DEF FlipHold, TypeOK
<1>7. CASE Answer(r)
  BY <1>7 DEF Answer, TypeOK
<1>8. CASE ResolverFails(r)
  BY <1>8 DEF ResolverFails, TypeOK
<1>9. CASE Locate(r)
  <2>1. [job[r] EXCEPT !.step = "fetch"] \in Jobs
    BY <1>9, BusyJob DEF Locate, Jobs
  <2>2. job' \in [Resolvers -> Jobs \cup {Idle}]
    BY <1>9, <2>1 DEF Locate, TypeOK
  <2> QED BY <1>9, <2>2 DEF Locate, TypeOK
<1> QED BY <1>1, <1>2, <1>3, <1>4, <1>5, <1>6, <1>7, <1>8, <1>9 DEF Resolve

LEMMA TypeStep == TypeOK /\ [Next]_vars => TypeOK'
<1> SUFFICES ASSUME TypeOK, [Next]_vars PROVE TypeOK'
  OBVIOUS
<1>1. ASSUME NEW i \in Intents, NEW s \in Notified, RailMoves(i, s)
      PROVE  TypeOK'
  BY <1>1 DEF RailMoves, TypeOK, tables
<1>2. ASSUME NEW i \in Intents, NEW s \in Notified, WebhookUnmapped(i, s)
      PROVE  TypeOK'
  BY <1>2 DEF WebhookUnmapped, TypeOK, tables
<1>3. CASE UNCHANGED vars
  BY <1>3 DEF vars, TypeOK, tables, plaid
<1> QED BY <1>1, <1>2, <1>3, TypeRoute, TypeTakes, TypeResolve DEF Next

LEMMA TypeInit == Init => TypeOK
BY DEF Init, TypeOK

(* Every variable keeps the values the columns and the processes can have. *)
THEOREM TypeCorrect == Spec => []TypeOK
<1> QED BY TypeInit, TypeStep, PTL DEF Spec
-----------------------------------------------------------------------------
(* Transfers only move forward and ledger rows are never removed. *)

RailForward ==
  \A i \in Intents : /\ rail[i] # "none" => rail'[i] # "none"
                     /\ rail[i] \in Dead => rail'[i] = rail[i]

RowsInv == \A i \in Intents : RequestInv(i) /\ RowInv(i)
JobsInv == \A r \in Resolvers : JobInv(r)

LEMMA Forward ==
  ASSUME TypeOK, RowsInv, [Next]_vars
  PROVE  RailForward /\ debits \subseteq debits'
<1>1. ASSUME NEW i \in Intents, Route(i)
      PROVE  RailForward /\ debits \subseteq debits'
  <2>1. CASE CreateAccepted(i)
    BY <2>1 DEF RailForward, RowsInv, RequestInv, CreateAccepted, RouteStep,
                TypeOK, tables
  <2>2. CASE ~ CreateAccepted(i)
    BY <1>1, <2>2 DEF Route, CountLedger, Reserve, RefuseReserve, Authorize, CreateRefused, Stamp,
       RecordDebit, SettleHold, ReleaseHold, RouteFails, plaid, tables,
       RailForward
  <2> QED BY <2>1, <2>2
<1>2. ASSUME NEW i \in Intents, NEW s \in Notified, RailMoves(i, s)
      PROVE  RailForward /\ debits \subseteq debits'
  BY <1>2 DEF RailMoves, RailForward, TypeOK, tables
<1>3. ASSUME NEW i \in Intents, NEW s \in Notified, WebhookUnmapped(i, s)
      PROVE  RailForward /\ debits \subseteq debits'
  BY <1>3 DEF WebhookUnmapped, RailForward, tables
<1>4. ASSUME NEW i \in Intents, NEW r \in Resolvers,
             SweepTakes(r, i) \/ \E s \in Notified : WebhookTakes(r, i, s)
      PROVE  RailForward /\ debits \subseteq debits'
  BY <1>4 DEF SweepTakes, WebhookTakes, RailForward, tables, plaid
<1>5. ASSUME NEW r \in Resolvers, Resolve(r) \/ ResolverFails(r)
      PROVE  RailForward /\ debits \subseteq debits'
  BY <1>5 DEF Resolve, Locate, FetchStatus, ReadIntent, CompleteDebit,
     FindDebit, WriteReversal, FlipHold, Answer, ResolverFails, RailForward, tables, plaid
<1>6. CASE UNCHANGED vars
  BY <1>6 DEF vars, RailForward, tables, plaid
<1> QED BY <1>1, <1>2, <1>3, <1>4, <1>5, <1>6 DEF Next

(* What a resolver has verified stays true while it does not move. *)
LEMMA JobFrame ==
  ASSUME TypeOK, RailForward, debits \subseteq debits',
         NEW r \in Resolvers, JobInv(r), job'[r] = job[r]
  PROVE  JobInv(r)'
<1> SUFFICES ASSUME job[r].step \notin {"idle", "locate"} PROVE JobInv(r)'
  BY DEF JobInv
<1>1. job[r].intent \in Intents
  BY BusyJob DEF Jobs
<1> QED BY <1>1 DEF JobInv, RailForward

LEMMA LedgerUnitsBound ==
  ASSUME TypeOK, RowsInv, NEW h \in Holders
  PROVE  LedgerUnits(h) =< Net(h)
<1>1. Of(h, debits) \in SUBSET Intents /\ Of(h, reversals) \in SUBSET Intents
  BY DEF Of, TypeOK
<1>2. Of(h, reversals) \in SUBSET Of(h, debits)
  BY DEF Of, RowsInv, RowInv, TypeOK
<1>3. Total(Of(h, reversals)) =< Total(Of(h, debits))
  BY <1>1, <1>2, TotalMonotone
<1>4. Total(Of(h, debits)) \in Nat /\ Total(Of(h, reversals)) \in Nat
  BY <1>1, TotalType
<1> QED BY <1>3, <1>4, NetType DEF LedgerUnits

LEMMA RowsRoute ==
  ASSUME TypeOK, RowsInv, NEW i \in Intents, Route(i)
  PROVE  RowsInv'
<1> SUFFICES ASSUME NEW k \in Intents PROVE RequestInv(k)' /\ RowInv(k)'
  BY DEF RowsInv
<1>0. RequestInv(k) /\ RowInv(k) /\ RequestInv(i) /\ RowInv(i)
  BY DEF RowsInv
<1> USE DEF TypeOK, RouteStep, tables, plaid, RequestInv, RowInv
<1>1. CASE Reserve(i)
  BY <1>0, <1>1 DEF Reserve
<1>2. CASE Authorize(i)
  BY <1>0, <1>2 DEF Authorize
<1>3. CASE CreateAccepted(i)
  BY <1>0, <1>3 DEF CreateAccepted
<1>4. CASE CreateRefused(i)
  BY <1>0, <1>4 DEF CreateRefused
<1>5. CASE Stamp(i)
  BY <1>0, <1>5 DEF Stamp, Pending
<1>6. CASE RecordDebit(i)
  BY <1>0, <1>6 DEF RecordDebit
<1>7. CASE SettleHold(i)
  BY <1>0, <1>7 DEF SettleHold, SettleEscrowWithdrawal, Flip, Pending
<1>8. CASE ReleaseHold(i)
  BY <1>0, <1>8 DEF ReleaseHold, ReleaseEscrowWithdrawal, Flip
<1>9. CASE RouteFails(i)
  BY <1>0, <1>9 DEF RouteFails
<1>10. CASE CountLedger(i)
  <2>1. LedgerUnits(HolderOf[i]) =< Net(HolderOf[i])
    BY MoneyAssumption, LedgerUnitsBound
  <2> QED BY <1>0, <1>10, <2>1 DEF CountLedger
<1>11. CASE RefuseReserve(i)
  BY <1>0, <1>11 DEF RefuseReserve
<1> QED BY <1>1, <1>2, <1>3, <1>4, <1>5, <1>6, <1>7, <1>8, <1>9, <1>10, <1>11
        DEF Route

LEMMA RowsResolve ==
  ASSUME TypeOK, RowsInv, JobsInv, NEW r \in Resolvers,
         Resolve(r) \/ ResolverFails(r)
  PROVE  RowsInv'
<1> SUFFICES ASSUME NEW k \in Intents PROVE RequestInv(k)' /\ RowInv(k)'
  BY DEF RowsInv
<1>0. RequestInv(k) /\ RowInv(k) /\ JobInv(r)
  BY DEF RowsInv, JobsInv
<1> USE DEF tables, plaid, RequestInv, RowInv
<1>1. CASE CompleteDebit(r)
  BY <1>0, <1>1 DEF CompleteDebit, Step, JobInv
<1>2. CASE WriteReversal(r)
  BY <1>0, <1>2 DEF WriteReversal, Step, JobInv
<1>3. CASE FlipHold(r)
  <2>1. job[r].intent \in Intents
    BY <1>3, BusyJob DEF FlipHold, Step, Jobs
  <2>2. CASE job[r].outcome = "settle"
    BY <1>0, <1>3, <2>1, <2>2 DEF FlipHold, Step, JobInv, TypeOK,
       SettleEscrowWithdrawal, Flip, Pending
  <2>3. CASE job[r].outcome # "settle"
    BY <1>0, <1>3, <2>1, <2>3 DEF FlipHold, Step, JobInv, TypeOK,
       ReleaseEscrowWithdrawal, Flip
  <2> QED BY <2>2, <2>3
<1>4. CASE \/ Locate(r) \/ FetchStatus(r) \/ ReadIntent(r) \/ FindDebit(r)
           \/ Answer(r) \/ ResolverFails(r)
  BY <1>0, <1>4 DEF Locate, FetchStatus, ReadIntent, FindDebit, Answer, ResolverFails
<1> QED BY <1>1, <1>2, <1>3, <1>4 DEF Resolve

LEMMA RowsStep ==
  ASSUME TypeOK, RowsInv, JobsInv, [Next]_vars
  PROVE  RowsInv'
<1>1. ASSUME NEW i \in Intents, NEW s \in Notified, RailMoves(i, s)
      PROVE  RowsInv'
  BY <1>1 DEF RailMoves, RowsInv, RequestInv, RowInv, TypeOK, tables
<1>2. ASSUME NEW i \in Intents, NEW s \in Notified, WebhookUnmapped(i, s)
      PROVE  RowsInv'
  BY <1>2 DEF WebhookUnmapped, RowsInv, RequestInv, RowInv, tables
<1>3. ASSUME NEW i \in Intents, NEW r \in Resolvers,
             SweepTakes(r, i) \/ \E s \in Notified : WebhookTakes(r, i, s)
      PROVE  RowsInv'
  BY <1>3 DEF SweepTakes, WebhookTakes, RowsInv, RequestInv, RowInv, tables,
     plaid
<1>4. CASE UNCHANGED vars
  BY <1>4 DEF vars, RowsInv, RequestInv, RowInv, tables, plaid
<1> QED BY <1>1, <1>2, <1>3, <1>4, RowsRoute, RowsResolve DEF Next

LEMMA JobsStep ==
  ASSUME TypeOK, RowsInv, JobsInv, [Next]_vars
  PROVE  JobsInv'
<1>1. RailForward /\ debits \subseteq debits'
  BY Forward
<1>2. ASSUME job' = job
      PROVE  JobsInv'
  BY <1>1, <1>2, JobFrame DEF JobsInv
<1>3. ASSUME NEW r \in Resolvers, JobInv(r)',
             \A q \in Resolvers \ {r} : job'[q] = job[q]
      PROVE  JobsInv'
  BY <1>1, <1>3, JobFrame DEF JobsInv
<1>4. ASSUME NEW i \in Intents, Route(i)
      PROVE  JobsInv'
  <2>1. job' = job
    BY <1>4 DEF Route, CountLedger, Reserve, RefuseReserve, Authorize,
       CreateAccepted, CreateRefused, Stamp, RecordDebit, SettleHold, ReleaseHold, RouteFails
  <2> QED BY <1>2, <2>1
<1>5. ASSUME NEW i \in Intents, NEW s \in Notified,
             RailMoves(i, s) \/ WebhookUnmapped(i, s)
      PROVE  JobsInv'
  BY <1>2, <1>5 DEF RailMoves, WebhookUnmapped
<1>6. ASSUME NEW i \in Intents, NEW r \in Resolvers,
             SweepTakes(r, i) \/ \E s \in Notified : WebhookTakes(r, i, s)
      PROVE  JobsInv'
  <2>1. PICK e \in Notified \cup {"sweep"}, to \in {"locate", "fetch"} :
          Take(r, i, e, to) /\ (to = "fetch" => i \in stamped)
    BY <1>6 DEF SweepTakes, WebhookTakes
  <2>2. \A q \in Resolvers \ {r} : job'[q] = job[q]
    BY <2>1 DEF Take, TypeOK
  <2>3. /\ job'[r].step = to /\ job'[r].intent = i
        /\ job'[r].outcome = "null"
    BY <2>1 DEF Take, TypeOK, Idle
  <2>4. to = "fetch" => rail[i] # "none"
    BY <2>1 DEF RowsInv, RowInv
  <2>5. rail' = rail
    BY <1>6 DEF SweepTakes, WebhookTakes, plaid
  <2>6. JobInv(r)'
    BY <2>3, <2>4, <2>5 DEF JobInv
  <2> QED BY <1>3, <2>2, <2>6
<1>7. ASSUME NEW r \in Resolvers, Resolve(r) \/ ResolverFails(r)
      PROVE  JobsInv'
  <2>0. JobInv(r) /\ (job[r].step # "idle" => job[r] \in Jobs)
    BY BusyJob DEF JobsInv
  <2>1. CASE FetchStatus(r)
    <3>1. /\ job'[r].intent = job[r].intent /\ rail' = rail
          /\ job'[r].outcome = OutcomeFor(rail[job[r].intent])
          /\ job'[r].step = IF job'[r].outcome = "null" THEN "answer" ELSE "read"
      BY <2>1, <2>0 DEF FetchStatus, TypeOK, Jobs, plaid
    <3>2. JobInv(r)'
      BY <2>0, <2>1, <3>1 DEF FetchStatus, JobInv, OutcomeFor
    <3> QED BY <1>3, <2>1, <3>2 DEF FetchStatus, TypeOK
  <2>2. CASE ReadIntent(r)
    <3>1. /\ job'[r].intent = job[r].intent /\ rail' = rail
          /\ job'[r].outcome = job[r].outcome
          /\ job'[r].step = NextStep(job[r].outcome, job'[r].seen)
      BY <2>2, <2>0 DEF ReadIntent, TypeOK, Jobs, plaid
    <3>2. JobInv(r)'
      BY <2>0, <2>2, <3>1 DEF ReadIntent, JobInv, NextStep
    <3> QED BY <1>3, <2>2, <3>2 DEF ReadIntent, TypeOK
  <2>3. CASE CompleteDebit(r)
    <3>1. /\ job'[r].intent = job[r].intent /\ rail' = rail
          /\ job'[r].outcome = job[r].outcome
          /\ job'[r].step = AfterLedger(r)
          /\ job[r].intent \in debits'
      BY <2>3, <2>0 DEF CompleteDebit, Step, TypeOK, Jobs, plaid
    <3>2. JobInv(r)'
      BY <2>0, <2>3, <3>1 DEF CompleteDebit, Step, JobInv, AfterLedger
    <3> QED BY <1>3, <2>3, <3>2 DEF CompleteDebit, Step, TypeOK
  <2>4. CASE FindDebit(r)
    <3>1. /\ job'[r].intent = job[r].intent /\ rail' = rail
          /\ job'[r].outcome = job[r].outcome
          /\ job'[r].step \in {"reverse", "flip"}
      BY <2>4, <2>0 DEF FindDebit, Step, TypeOK, Jobs, plaid
    <3>2. JobInv(r)'
      BY <2>0, <2>4, <3>1 DEF FindDebit, Step, JobInv
    <3> QED BY <1>3, <2>4, <3>2 DEF FindDebit, Step, TypeOK
  <2>5. CASE WriteReversal(r)
    <3>1. /\ job'[r].intent = job[r].intent /\ rail' = rail
          /\ job'[r].outcome = job[r].outcome
          /\ job'[r].step = AfterLedger(r)
      BY <2>5, <2>0 DEF WriteReversal, Step, TypeOK, Jobs, plaid
    <3>2. JobInv(r)'
      BY <2>0, <2>5, <3>1 DEF WriteReversal, Step, JobInv, AfterLedger
    <3> QED BY <1>3, <2>5, <3>2 DEF WriteReversal, Step, TypeOK
  <2>6. CASE FlipHold(r)
    <3>1. /\ job'[r].intent = job[r].intent /\ rail' = rail
          /\ job'[r].outcome = job[r].outcome
          /\ job'[r].step = "answer"
      BY <2>6, <2>0 DEF FlipHold, Step, TypeOK, Jobs, plaid
    <3>2. JobInv(r)'
      BY <2>0, <2>6, <3>1 DEF FlipHold, Step, JobInv
    <3> QED BY <1>3, <2>6, <3>2 DEF FlipHold, Step, TypeOK
  <2>7. CASE Answer(r) \/ ResolverFails(r)
    <3>1. job' = [job EXCEPT ![r] = Idle]
      BY <2>7 DEF Answer, ResolverFails
    <3>2. job'[r].step = "idle"
      BY <3>1 DEF TypeOK, Idle
    <3>3. JobInv(r)'
      BY <3>2 DEF JobInv
    <3> QED BY <1>3, <3>1, <3>3 DEF TypeOK
  <2>8. CASE Locate(r)
    <3>1. ASSUME job[r].intent \in debits
          PROVE  JobInv(r)'
      <4>1. /\ job'[r].intent = job[r].intent /\ rail' = rail
            /\ job'[r].outcome = job[r].outcome
            /\ job'[r].step = "fetch"
        BY <2>8, <2>0, <3>1 DEF Locate, TypeOK, Jobs, plaid
      <4>2. rail[job[r].intent] # "none"
        BY <2>0, <2>8, <3>1 DEF Locate, RowsInv, RowInv, Jobs
      <4>3. job[r].outcome = "null"
        BY <2>0, <2>8 DEF Locate, JobInv
      <4> QED BY <4>1, <4>2, <4>3 DEF JobInv
    <3>2. ASSUME job[r].intent \notin debits
          PROVE  JobInv(r)'
      <4>1. job'[r].step = "idle"
        BY <2>8, <3>2 DEF Locate, TypeOK, Idle
      <4> QED BY <4>1 DEF JobInv
    <3>3. \A q \in Resolvers \ {r} : job'[q] = job[q]
      BY <2>8 DEF Locate, TypeOK
    <3>4. JobInv(r)'
      BY <3>1, <3>2
    <3> QED BY <1>3, <3>3, <3>4
  <2> QED BY <1>7, <2>1, <2>2, <2>3, <2>4, <2>5, <2>6, <2>7, <2>8 DEF Resolve
<1>8. CASE UNCHANGED vars
  BY <1>2, <1>8 DEF vars
<1> QED BY <1>4, <1>5, <1>6, <1>7, <1>8 DEF Next

-----------------------------------------------------------------------------
(* The budget: commitments grow by reservation only, and a reservation     *)
(* that the RPC lets through fits beside every other commitment.           *)

(* What a step may do to the status of an intent. *)
StatusForward(k) ==
  \/ status'[k] = status[k]
  \/ status[k] = "pending" /\ status'[k] \in {"settled", "released"}

LEMMA StatusStep ==
  ASSUME TypeOK, [Next]_vars,
         NEW k \in Intents, ~ Reserve(k)
  PROVE  StatusForward(k)
<1> USE DEF StatusForward, tables, plaid
<1>1. ASSUME NEW i \in Intents, Route(i)
      PROVE  StatusForward(k)
  <2>1. CASE Reserve(i)
    BY <2>1 DEF Reserve, TypeOK
  <2>2. CASE SettleHold(i) \/ ReleaseHold(i)
    BY <2>2 DEF SettleHold, ReleaseHold, SettleEscrowWithdrawal,
       ReleaseEscrowWithdrawal, Flip, TypeOK
  <2>3. CASE \/ CountLedger(i) \/ RefuseReserve(i) \/ Authorize(i)
             \/ CreateAccepted(i) \/ CreateRefused(i) \/ Stamp(i)
             \/ RecordDebit(i) \/ RouteFails(i)
    BY <2>3 DEF CountLedger, RefuseReserve, Authorize, CreateAccepted, CreateRefused, Stamp, RecordDebit,
       RouteFails
  <2> QED BY <1>1, <2>1, <2>2, <2>3 DEF Route
<1>2. ASSUME NEW r \in Resolvers, Resolve(r) \/ ResolverFails(r)
      PROVE  StatusForward(k)
  <2>1. CASE FlipHold(r)
    BY <2>1 DEF FlipHold, SettleEscrowWithdrawal, ReleaseEscrowWithdrawal,
       Flip, TypeOK
  <2>2. CASE ~ FlipHold(r)
    BY <1>2, <2>2 DEF Resolve, Locate, FetchStatus, ReadIntent, CompleteDebit,
       FindDebit, WriteReversal, Answer, ResolverFails
  <2> QED BY <2>1, <2>2
<1>3. ASSUME NEW i \in Intents,
             \/ \E s \in Notified : RailMoves(i, s) \/ WebhookUnmapped(i, s)
             \/ \E r \in Resolvers :
                  SweepTakes(r, i) \/ \E s \in Notified : WebhookTakes(r, i, s)
      PROVE  StatusForward(k)
  BY <1>3 DEF RailMoves, WebhookUnmapped, SweepTakes, WebhookTakes
<1>4. CASE UNCHANGED vars
  BY <1>4 DEF vars
<1> QED BY <1>1, <1>2, <1>3, <1>4 DEF Next

LEMMA CommittedKept ==
  ASSUME TypeOK, RowsInv, [Next]_vars, NEW k \in Intents, ~ Reserve(k),
         k \in Committed'
  PROVE  k \in Committed
BY StatusStep, Forward DEF StatusForward, RailForward, Committed

(* Every commitment is a hold or an unreversed debit, as the RPC counts. *)
LEMMA CommittedIsCounted ==
  ASSUME TypeOK, RowsInv, NEW h \in Holders
  PROVE  Total(Of(h, Committed)) =<
           Net(h) - Available(h, LedgerUnits(h))
<1> DEFINE D == Of(h, debits)
           R == Of(h, reversals)
           P == Of(h, Pending)
           C == Of(h, Committed)
           avail == Available(h, LedgerUnits(h))
<1>1. /\ D \in SUBSET Intents /\ R \in SUBSET Intents /\ P \in SUBSET Intents
      /\ D \ R \in SUBSET Intents /\ P \cup (D \ R) \in SUBSET Intents
  BY DEF Of, Pending, TypeOK
<1>2. R \subseteq D
  BY DEF Of, RowsInv, RowInv, TypeOK
<1>3. C \in SUBSET (P \cup (D \ R))
  BY DEF Of, RowsInv, RowInv, Committed, Pending
<1>4. avail = (Net(h) - (Total(D) - Total(R))) - Total(P)
  BY DEF Available, LedgerUnits
<1> HIDE DEF D, R, P, C, avail
<1>5. (D \ R) \cup R = D /\ (D \ R) \cap R = {}
  BY <1>2
<1>6. Total((D \ R) \cup R) = Total(D \ R) + Total(R)
  BY <1>1, <1>5, TotalDisjoint
<1>7. Total(D) = Total(D \ R) + Total(R)
  BY <1>5, <1>6, Zenon
<1>8. Total(P \cup (D \ R)) =< Total(P) + Total(D \ R)
  BY <1>1, TotalUnion
<1>9. Total(C) =< Total(P \cup (D \ R))
  BY <1>1, <1>3, TotalMonotone
<1>10. C \in SUBSET Intents
  BY <1>1, <1>3
<1>11. /\ Total(C) \in Nat /\ Total(D) \in Nat /\ Total(R) \in Nat
       /\ Total(P) \in Nat /\ Total(D \ R) \in Nat
       /\ Total(P \cup (D \ R)) \in Nat
  BY <1>1, <1>10, TotalType
<1>12. Total(C) =< Net(h) - avail
  BY <1>4, <1>7, <1>8, <1>9, <1>11, NetType
<1> QED BY <1>12 DEF C, avail

(* Unless the ledger's sum had gone down since it was read, a reservation  *)
(* fits beside every commitment.                                           *)
LEMMA ReserveFits ==
  ASSUME TypeOK, RowsInv, NEW i \in Intents, Reserve(i),
         HolderOf[i] \notin slipped'
  PROVE  Total(Of(HolderOf[i], Committed)) + Amount[i] =< Net(HolderOf[i])
<1> DEFINE h == HolderOf[i]
           held == Total(Of(h, Pending))
           avail == Available(h, LedgerUnits(h))
<1>1. h \in Holders /\ Amount[i] \in Nat
  BY MoneyAssumption
<1>2. Total(Of(h, Committed)) =< Net(h) - avail
  BY <1>1, CommittedIsCounted
<1>3. Of(h, Pending) \in SUBSET Intents /\ Of(h, Committed) \in SUBSET Intents
  BY DEF Of, Pending, Committed
<1>4. /\ held \in Nat /\ Total(Of(h, Committed)) \in Nat
      /\ LedgerUnits(h) \in Int /\ Net(h) \in Int /\ counted[i] \in Int
  BY <1>1, <1>3, TotalType, NetType, LedgerUnitsType DEF TypeOK
<1>5. ~ (counted[i] > LedgerUnits(h))
  BY DEF Reserve
<1>6. Amount[i] =< counted[i] - held
  BY DEF Reserve, Available
<1>7. avail = LedgerUnits(h) - held
  BY DEF Available
<1> HIDE DEF h, avail, held
<1>8. Total(Of(h, Committed)) + Amount[i] =< Net(h)
  BY <1>1, <1>2, <1>4, <1>5, <1>6, <1>7
<1> QED BY <1>8 DEF h

(* Whatever slipped in between, a reservation fits beside every hold. *)
LEMMA ReserveFitsHolds ==
  ASSUME TypeOK, RowsInv, NEW i \in Intents, Reserve(i)
  PROVE  Total(Of(HolderOf[i], Pending)) + Amount[i] =< Net(HolderOf[i])
<1> DEFINE h == HolderOf[i]
<1>1. h \in Holders /\ Amount[i] \in Nat
  BY MoneyAssumption
<1>2. counted[i] \in Int
  BY DEF TypeOK
<1>3. counted[i] =< Net(h)
  BY DEF RowsInv, RequestInv, Reserve, RouteStep
<1>4. Amount[i] =< Available(h, counted[i])
  BY DEF Reserve
<1>5. Of(h, Pending) \in SUBSET Intents
  BY DEF Of, Pending
<1>6. Total(Of(h, Pending)) \in Nat
  BY <1>5, TotalType
<1> HIDE DEF h
<1>7. Amount[i] =< counted[i] - Total(Of(h, Pending))
  BY <1>4 DEF Available
<1>8. Total(Of(h, Pending)) + Amount[i] =< Net(h)
  BY <1>1, <1>2, <1>3, <1>6, <1>7, NetType
<1> QED BY <1>8 DEF h

(* One reservation at a time adds one intent to a set of a holder's. *)
LEMMA OneMore ==
  ASSUME NEW S \in SUBSET Intents, NEW T \in SUBSET Intents,
         NEW h \in Holders, NEW i \in Of(h, Intents) \ S,
         T \subseteq S \cup {i},
         Total(Of(h, S)) + Amount[i] =< Net(h)
  PROVE  Total(Of(h, T)) =< Net(h)
<1>1. /\ i \in Intents /\ Of(h, S) \in SUBSET Intents
      /\ Of(h, T) \in SUBSET Intents /\ i \notin Of(h, S)
      /\ Of(h, T) \in SUBSET (Of(h, S) \cup {i})
  BY DEF Of
<1>2. Total(Of(h, T)) =< Total(Of(h, S) \cup {i})
  BY <1>1, TotalMonotone
<1>3. Total(Of(h, S) \cup {i}) = Total(Of(h, S)) + Amount[i]
  BY <1>1, TotalAdd
<1>4. /\ Total(Of(h, T)) \in Nat /\ Total(Of(h, S)) \in Nat
      /\ Amount[i] \in Nat /\ Net(h) \in Nat
  BY <1>1, TotalType, NetType, MoneyAssumption
<1> QED BY <1>2, <1>3, <1>4

LEMMA Fewer ==
  ASSUME NEW S \in SUBSET Intents, NEW T \in SUBSET Intents,
         NEW h \in Holders,
         Of(h, T) \subseteq Of(h, S), Total(Of(h, S)) =< Net(h)
  PROVE  Total(Of(h, T)) =< Net(h)
<1>1. /\ Of(h, S) \in SUBSET Intents /\ Of(h, T) \in SUBSET Intents
      /\ Of(h, T) \in SUBSET Of(h, S)
  BY DEF Of
<1>2. Total(Of(h, T)) =< Total(Of(h, S))
  BY <1>1, TotalMonotone
<1>3. Total(Of(h, T)) \in Nat /\ Total(Of(h, S)) \in Nat /\ Net(h) \in Nat
  BY <1>1, TotalType, NetType
<1> QED BY <1>2, <1>3

(* Two requests never reserve in one step. *)
LEMMA ReserveAlone ==
  ASSUME TypeOK, NEW i \in Intents, Reserve(i), NEW k \in Intents \ {i}
  PROVE  ~ Reserve(k)
BY DEF Reserve, RouteStep, TypeOK

(* A holder whose reserve slipped stays one. *)
LEMMA SlippedStays ==
  ASSUME [Next]_vars
  PROVE  slipped \subseteq slipped'
<1>1. ASSUME NEW i \in Intents, Route(i)
      PROVE  slipped \subseteq slipped'
  BY <1>1 DEF Route, CountLedger, Reserve, RefuseReserve, Authorize,
     CreateAccepted, CreateRefused, Stamp, RecordDebit, SettleHold,
     ReleaseHold, RouteFails
<1>2. ASSUME NEW i \in Intents,
             \/ \E s \in Notified : RailMoves(i, s) \/ WebhookUnmapped(i, s)
             \/ \E r \in Resolvers :
                  SweepTakes(r, i) \/ \E s \in Notified : WebhookTakes(r, i, s)
      PROVE  slipped \subseteq slipped'
  BY <1>2 DEF RailMoves, WebhookUnmapped, SweepTakes, WebhookTakes
<1>3. ASSUME NEW r \in Resolvers, Resolve(r) \/ ResolverFails(r)
      PROVE  slipped \subseteq slipped'
  BY <1>3 DEF Resolve, Locate, FetchStatus, ReadIntent, CompleteDebit,
     FindDebit, WriteReversal, FlipHold, Answer, ResolverFails
<1>4. CASE UNCHANGED vars
  BY <1>4 DEF vars
<1> QED BY <1>1, <1>2, <1>3, <1>4 DEF Next

LEMMA BudgetStep ==
  ASSUME TypeOK, RowsInv, BudgetInv, [Next]_vars
  PROVE  BudgetInv'
<1> SUFFICES ASSUME NEW h \in Holders \ slipped'
             PROVE  Total(Of(h, Committed')) =< Net(h)
  BY DEF BudgetInv
<1>1. Total(Of(h, Committed)) =< Net(h)
  BY SlippedStays DEF BudgetInv
<1>2. Committed \in SUBSET Intents /\ Committed' \in SUBSET Intents
  BY DEF Committed
<1>3. CASE Of(h, Committed') \subseteq Of(h, Committed)
  BY <1>1, <1>2, <1>3, Fewer
<1>4. CASE ~ (Of(h, Committed') \subseteq Of(h, Committed))
  <2>1. PICK i \in Of(h, Committed') : i \notin Of(h, Committed)
    BY <1>4
  <2>2. /\ i \in Of(h, Intents) \ Committed /\ HolderOf[i] = h
        /\ i \in Intents /\ i \in Committed'
    BY <1>2, <2>1 DEF Of
  <2>3. Reserve(i)
    BY <2>2, CommittedKept
  <2>4. Committed' \subseteq Committed \cup {i}
    BY <1>2, <2>2, <2>3, ReserveAlone, CommittedKept
  <2>5. Total(Of(h, Committed)) + Amount[i] =< Net(h)
    BY <2>2, <2>3, ReserveFits
  <2> QED BY <1>2, <2>2, <2>4, <2>5, OneMore
<1> QED BY <1>3, <1>4

LEMMA HeldStep ==
  ASSUME TypeOK, RowsInv, HeldWithinEarnings, [Next]_vars
  PROVE  HeldWithinEarnings'
<1> SUFFICES ASSUME NEW h \in Holders
             PROVE  Total(Of(h, Pending')) =< Net(h)
  BY DEF HeldWithinEarnings
<1>1. Total(Of(h, Pending)) =< Net(h)
  BY DEF HeldWithinEarnings
<1>2. Pending \in SUBSET Intents /\ Pending' \in SUBSET Intents
  BY DEF Pending
<1>3. \A k \in Intents : ~ Reserve(k) /\ k \in Pending' => k \in Pending
  BY StatusStep DEF StatusForward, Pending
<1>4. CASE Of(h, Pending') \subseteq Of(h, Pending)
  BY <1>1, <1>2, <1>4, Fewer
<1>5. CASE ~ (Of(h, Pending') \subseteq Of(h, Pending))
  <2>1. PICK i \in Of(h, Pending') : i \notin Of(h, Pending)
    BY <1>5
  <2>2. /\ i \in Of(h, Intents) \ Pending /\ HolderOf[i] = h
        /\ i \in Intents /\ i \in Pending'
    BY <1>2, <2>1 DEF Of
  <2>3. Reserve(i)
    BY <2>2, <1>3
  <2>4. Pending' \subseteq Pending \cup {i}
    BY <1>2, <1>3, <2>2, <2>3, ReserveAlone
  <2>5. Total(Of(h, Pending)) + Amount[i] =< Net(h)
    BY <2>2, <2>3, ReserveFitsHolds
  <2> QED BY <1>2, <2>2, <2>4, <2>5, OneMore
<1> QED BY <1>4, <1>5

-----------------------------------------------------------------------------
LEMMA HoldInvInit == Init => HoldInv
<1> SUFFICES ASSUME Init PROVE HoldInv
  OBVIOUS
<1>1. \A i \in Intents : RequestInv(i) /\ RowInv(i)
  BY DEF Init, RequestInv, RowInv
<1>2. \A r \in Resolvers : JobInv(r)
  BY DEF Init, JobInv, Idle
<1>3. ASSUME NEW h \in Holders
      PROVE  Total(Of(h, {})) =< Net(h)
  <2>1. Of(h, {}) = {} /\ Units({}) = {}
    BY DEF Of, Units
  <2>2. Total(Of(h, {})) = 0
    BY <2>1, FS_EmptySet, Zenon DEF Total
  <2> QED BY <2>2, NetType
<1>4. Committed = {} /\ Pending = {}
  BY DEF Init, Committed, Pending
<1>5. HeldWithinEarnings /\ BudgetInv
  BY <1>3, <1>4, Zenon DEF HeldWithinEarnings, BudgetInv
<1> QED BY <1>1, <1>2, <1>5 DEF HoldInv

LEMMA HoldInvStep == TypeOK /\ HoldInv /\ [Next]_vars => HoldInv'
BY RowsStep, JobsStep, HeldStep, BudgetStep DEF HoldInv, RowsInv, JobsInv

(* The strengthening that carries the safety properties: how far each      *)
(* request is, what its rows say about its transfer, what each reconciler  *)
(* has verified, and that commitments fit what the holder earned.          *)
THEOREM HoldInvariant == Spec => []HoldInv
BY TypeInit, TypeStep, HoldInvInit, HoldInvStep, PTL DEF Spec

(* Of concurrent withdrawals of the same funds only as many hold as fit.   *)
THEOREM HoldsFit == Spec => []HeldWithinEarnings
<1>1. HoldInv => HeldWithinEarnings
  BY DEF HoldInv
<1> QED BY <1>1, HoldInvariant, PTL

(* The two sums of the reserve are the only way to over-pay a holder:      *)
(* until one goes through on a ledger sum that has gone down since,        *)
(* concurrent withdrawals and reconciliations never have more out on the   *)
(* rail than the holder earned.                                            *)
THEOREM NoOverPayment == Spec => []NeverOverPaid
<1>1. TypeOK /\ HoldInv => NeverOverPaid
  <2> SUFFICES ASSUME TypeOK, HoldInv, NEW h \in Holders \ slipped
               PROVE  Total(Of(h, {i \in Intents : rail[i] \in Live})) =< Net(h)
    BY DEF NeverOverPaid, Moving
  <2> DEFINE out == {i \in Intents : rail[i] \in Live}
  <2>1. out \in SUBSET Intents /\ Committed \in SUBSET Intents
    BY DEF Committed
  <2>2. Of(h, out) \subseteq Of(h, Committed)
    BY DEF HoldInv, RequestInv, RowInv, Of, Committed, TypeOK
  <2>3. Total(Of(h, Committed)) =< Net(h)
    BY DEF HoldInv, BudgetInv
  <2> HIDE DEF out
  <2>4. Total(Of(h, out)) =< Net(h)
    BY <2>1, <2>2, <2>3, Fewer
  <2> QED BY <2>4 DEF out
<1> QED BY <1>1, TypeCorrect, HoldInvariant, PTL

(* A released hold never has money out on the rail.                        *)
THEOREM NoReleaseWhileMoving == Spec => []NeverReleasedWhileMoving
<1>1. HoldInv => NeverReleasedWhileMoving
  BY DEF HoldInv, RowInv, NeverReleasedWhileMoving
<1> QED BY <1>1, HoldInvariant, PTL

(* A settled hold has handed its blocking over to a ledger debit.          *)
THEOREM SettlementRecorded == Spec => []SettledIsRecorded
<1>1. HoldInv => SettledIsRecorded
  BY DEF HoldInv, RowInv, SettledIsRecorded
<1> QED BY <1>1, HoldInvariant, PTL

(* No compensating entry is written while the payout stands.               *)
THEOREM ReversalsAreDue == Spec => []ReversalIsDue
<1>1. TypeOK /\ HoldInv => ReversalIsDue
  BY DEF HoldInv, RowInv, ReversalIsDue, TypeOK
<1> QED BY <1>1, TypeCorrect, HoldInvariant, PTL

(* Of racing settlements and releases exactly one wins, for good.          *)
THEOREM ResolvedOnce == Spec => OneResolution
<1> DEFINE Stays == \A i \in Intents :
             status[i] \in {"settled", "released"} => status'[i] = status[i]
<1>1. TypeOK /\ HoldInv /\ [Next]_vars => [Stays]_vars
  <2> SUFFICES ASSUME TypeOK, HoldInv, [Next]_vars, NEW i \in Intents,
                      status[i] \in {"settled", "released"}
               PROVE  status'[i] = status[i]
    OBVIOUS
  <2>1. ~ Reserve(i)
    BY DEF Reserve, RouteStep, HoldInv, RequestInv
  <2> QED BY <2>1, StatusStep DEF StatusForward
<1> QED BY <1>1, TypeCorrect, HoldInvariant, PTL DEF Spec, OneResolution

-----------------------------------------------------------------------------
(* Refinement of EscrowHold. *)

(* The rail of one intent changes by these steps only. *)
RailKept(k) == rail'[k] = rail[k]
StatusKept(k) == status'[k] = status[k]
Others(i) == \A k \in Intents \ {i} : RailKept(k) /\ StatusKept(k)

RoomKept == counted' = counted

(* The sums of the abstract specification are those of the code's. *)
LEMMA HoldSums ==
  /\ \A h \in Holders : /\ Hold!Held(h) = Of(h, Pending)
                         /\ Hold!Spent(h) \subseteq Of(h, Committed \ Pending)
                         /\ Hold!Net(h) = Net(h)
  /\ \A S : Hold!Total(S) = Total(S)
<1>1. ASSUME NEW h \in Holders
      PROVE  Hold!Held(h) = Of(h, Pending)
  BY DEF Hold!Held, Hold!Of, Of, Pending, HoldOf
<1>2. ASSUME NEW h \in Holders
      PROVE  Hold!Spent(h) \subseteq Of(h, Committed \ Pending)
  BY DEF Hold!Spent, Hold!Of, Of, Pending, Committed, HoldOf, MoneyOf
<1>3. \A h : Hold!Net(h) = Net(h)
  BY Zenon DEF Hold!Net, Net, Hold!WithholdingUnitsOn, WithholdingUnitsOn
<1>4. \A S : Hold!Units(S) = Units(S)
  BY DEF Hold!Units, Units
<1>5. \A S : Hold!Total(S) = Total(S)
  BY <1>4 DEF Hold!Total, Total, Hold!Cardinality, Cardinality
<1> QED BY <1>1, <1>2, <1>3, <1>5

(* What the ledger leaves a holder does not exceed what the payouts do:    *)
(* every payout of record is an unreversed debit.                          *)
LEMMA LedgerUnitsRoom ==
  ASSUME TypeOK, RowsInv, NEW h \in Holders
  PROVE  LedgerUnits(h) + Total(Of(h, Committed \ Pending)) =< Net(h)
<1> DEFINE D == Of(h, debits)
           R == Of(h, reversals)
           C == Of(h, Committed \ Pending)
<1>1. /\ D \in SUBSET Intents /\ R \in SUBSET Intents
      /\ D \ R \in SUBSET Intents
  BY DEF Of, TypeOK
<1>2. R \subseteq D
  BY DEF Of, RowsInv, RowInv, TypeOK
<1>3. C \in SUBSET (D \ R)
  BY DEF Of, RowsInv, RowInv, Committed, Pending
<1>4. LedgerUnits(h) = Net(h) - (Total(D) - Total(R))
  BY DEF LedgerUnits
<1> HIDE DEF D, R, C
<1>5. (D \ R) \cup R = D /\ (D \ R) \cap R = {}
  BY <1>2
<1>6. Total((D \ R) \cup R) = Total(D \ R) + Total(R)
  BY <1>1, <1>5, TotalDisjoint
<1>7. Total(D) = Total(D \ R) + Total(R)
  BY <1>5, <1>6, Zenon
<1>8. Total(C) =< Total(D \ R)
  BY <1>1, <1>3, TotalMonotone
<1>9. C \in SUBSET Intents
  BY <1>1, <1>3
<1>10. /\ Total(C) \in Nat /\ Total(D) \in Nat /\ Total(R) \in Nat
       /\ Total(D \ R) \in Nat
  BY <1>1, <1>9, TotalType
<1>11. LedgerUnits(h) + Total(C) =< Net(h)
  BY <1>4, <1>7, <1>8, <1>10, NetType
<1> QED BY <1>11 DEF C

(* A step that touches neither a status, a transfer nor a sum is a stutter. *)
LEMMA HoldStutter ==
  ASSUME \A k \in Intents : RailKept(k) /\ StatusKept(k), RoomKept
  PROVE  UNCHANGED Hold!vars
BY DEF Hold!vars, HoldOf, MoneyOf, RailKept, StatusKept, RoomKept

(* A step that touches the status of i alone moves the hold of i alone. *)
LEMMA HoldMoves ==
  ASSUME NEW i \in Intents, Others(i), RailKept(i)
  PROVE  /\ [k \in Intents |-> HoldOf(k)]' =
              [[k \in Intents |-> HoldOf(k)] EXCEPT ![i] = HoldOf(i)']
         /\ [k \in Intents |-> MoneyOf(k)]' = [k \in Intents |-> MoneyOf(k)]
BY DEF HoldOf, MoneyOf, RailKept, StatusKept, Others

(* A step that touches the transfer of i alone moves its money alone. *)
LEMMA MoneyMoves ==
  ASSUME NEW i \in Intents, Others(i), StatusKept(i)
  PROVE  /\ [k \in Intents |-> MoneyOf(k)]' =
              [[k \in Intents |-> MoneyOf(k)] EXCEPT ![i] = MoneyOf(i)']
         /\ [k \in Intents |-> HoldOf(k)]' = [k \in Intents |-> HoldOf(k)]
BY DEF HoldOf, MoneyOf, RailKept, StatusKept, Others

(* A request looks at the ledger, reserves or is refused. *)
LEMMA HoldReserve ==
  ASSUME TypeOK, HoldInv, NEW i \in Intents,
         CountLedger(i) \/ Reserve(i) \/ RefuseReserve(i)
  PROVE  Hold!Next
<1> DEFINE h == HolderOf[i]
<1>0. RequestInv(i) /\ h \in Holders /\ Amount[i] \in Nat
  BY MoneyAssumption DEF HoldInv
<1> USE DEF RouteStep, tables, plaid
<1>1. status[i] = "none" /\ HoldOf(i) = "none" /\ Others(i) /\ RailKept(i)
  BY <1>0 DEF CountLedger, Reserve, RefuseReserve, RequestInv, HoldOf, Others,
     RailKept, StatusKept, TypeOK
<1>2. CASE CountLedger(i)
  <2>1. /\ Of(h, Committed \ Pending) \in SUBSET Intents
        /\ Hold!Spent(h) \in SUBSET Of(h, Committed \ Pending)
    BY <1>0, HoldSums DEF Of, Committed
  <2>2. /\ Total(Hold!Spent(h)) \in Nat
        /\ Total(Of(h, Committed \ Pending)) \in Nat
        /\ LedgerUnits(h) \in Int /\ Net(h) \in Int
        /\ Total(Hold!Spent(h)) =< Total(Of(h, Committed \ Pending))
    <3> HIDE DEF h
    <3>1. LedgerUnits(h) \in Int /\ Net(h) \in Int
      BY <1>0, LedgerUnitsType, NetType
    <3>2. Hold!Spent(h) \in SUBSET Intents
      BY <2>1
    <3>3. Total(Hold!Spent(h)) \in Nat
      BY <3>2, TotalType
    <3>4. Total(Of(h, Committed \ Pending)) \in Nat
      BY <2>1, TotalType
    <3>5. Total(Hold!Spent(h)) =< Total(Of(h, Committed \ Pending))
      BY <2>1, TotalMonotone
    <3> QED BY <3>1, <3>3, <3>4, <3>5
  <2>3. LedgerUnits(h) + Total(Of(h, Committed \ Pending)) =< Net(h)
    BY <1>0, LedgerUnitsRoom DEF HoldInv, RowsInv
  <2>4. LedgerUnits(h) + Total(Hold!Spent(h)) =< Net(h)
    BY <2>2, <2>3
  <2>5. LedgerUnits(h) + Hold!Total(Hold!Spent(h)) =< Hold!Net(h)
    BY <1>0, <2>4, HoldSums
  <2>6. counted' = [counted EXCEPT ![i] = counted'[i]] /\ counted'[i] = LedgerUnits(h)
    BY <1>2 DEF CountLedger, TypeOK
  <2>7. \A k \in Intents : RailKept(k) /\ StatusKept(k)
    BY <1>2 DEF CountLedger, RailKept, StatusKept
  <2>8. UNCHANGED <<[k \in Intents |-> HoldOf(k)], [k \in Intents |-> MoneyOf(k)]>>
    BY <2>7 DEF HoldOf, MoneyOf, RailKept, StatusKept
  <2>9. Hold!Look(i)
    BY <1>1, <2>5, <2>6, <2>8 DEF Hold!Look
  <2> QED BY <2>9 DEF Hold!Next
<1>3. CASE Reserve(i)
  <2>1. Total(Of(h, Pending)) + Amount[i] =< counted[i]
    <3>1. Of(h, Pending) \in SUBSET Intents
      BY DEF Of, Pending
    <3>2. Total(Of(h, Pending)) \in Nat /\ counted[i] \in Int
      BY <3>1, TotalType DEF TypeOK
    <3>3. Amount[i] =< counted[i] - Total(Of(h, Pending))
      BY <1>3 DEF Reserve, Available
    <3> QED BY <1>0, <3>2, <3>3
  <2>2. Hold!Total(Hold!Held(h)) + Amount[i] =< counted[i]
    BY <1>0, <2>1, HoldSums
  <2>3. HoldOf(i)' = "held" /\ counted' = [counted EXCEPT ![i] = 0]
    BY <1>3 DEF Reserve, HoldOf, TypeOK
  <2>4. Hold!Reserve(i)
    BY <1>1, <2>2, <2>3, HoldMoves DEF Hold!Reserve
  <2> QED BY <2>4 DEF Hold!Next
<1>4. CASE RefuseReserve(i)
  <2>1. \A k \in Intents : RailKept(k) /\ StatusKept(k)
    BY <1>4 DEF RefuseReserve, RailKept, StatusKept
  <2>2. UNCHANGED <<[k \in Intents |-> HoldOf(k)], [k \in Intents |-> MoneyOf(k)]>>
    BY <2>1 DEF HoldOf, MoneyOf, RailKept, StatusKept
  <2>3. Hold!Refuse(i)
    BY <1>1, <1>4, <2>2 DEF Hold!Refuse, RefuseReserve
  <2> QED BY <2>3 DEF Hold!Next
<1> QED BY <1>2, <1>3, <1>4

LEMMA HoldRoute ==
  ASSUME TypeOK, HoldInv, NEW i \in Intents, Route(i)
  PROVE  [Hold!Next]_(Hold!vars)
<1>0. RequestInv(i) /\ RowInv(i)
  BY DEF HoldInv
<1> USE DEF RouteStep, tables, plaid, TypeOK
<1>1. CASE CountLedger(i) \/ Reserve(i) \/ RefuseReserve(i)
  BY <1>1, HoldReserve
<1>2. CASE CreateAccepted(i)
  <2>1. /\ RoomKept /\ Others(i) /\ StatusKept(i)
        /\ rail[i] = "none" /\ rail'[i] = "pending" /\ status[i] = "pending"
    BY <1>0, <1>2 DEF CreateAccepted, Others, RailKept, StatusKept, RoomKept, RequestInv
  <2>2. HoldOf(i) = "held" /\ MoneyOf(i) = "in" /\ MoneyOf(i)' = "out"
    BY <2>1 DEF HoldOf, MoneyOf
  <2>3. Hold!Send(i)
    BY <2>1, <2>2, MoneyMoves DEF Hold!Send, RoomKept
  <2> QED BY <2>3 DEF Hold!Next
<1>3. CASE SettleHold(i) /\ status[i] = "pending"
  <2>1. /\ RoomKept /\ Others(i) /\ RailKept(i)
        /\ rail[i] # "none" /\ status'[i] = "settled"
    BY <1>0, <1>3 DEF SettleHold, SettleEscrowWithdrawal, Flip, Others,
       RailKept, StatusKept, RoomKept, RequestInv
  <2>2. HoldOf(i) = "held" /\ HoldOf(i)' = "paid" /\ MoneyOf(i) # "in"
    BY <1>3, <2>1 DEF HoldOf, MoneyOf
  <2>3. Hold!Settle(i)
    BY <2>1, <2>2, HoldMoves DEF Hold!Settle, RoomKept
  <2> QED BY <2>3 DEF Hold!Next
<1>4. CASE ReleaseHold(i) /\ status[i] = "pending"
  <2>1. /\ RoomKept /\ Others(i) /\ RailKept(i)
        /\ rail[i] = "none" /\ status'[i] = "released"
    BY <1>0, <1>4 DEF ReleaseHold, ReleaseEscrowWithdrawal, Flip, Others,
       RailKept, StatusKept, RoomKept, RequestInv
  <2>2. HoldOf(i) = "held" /\ HoldOf(i)' = "void" /\ MoneyOf(i) # "out"
    BY <1>4, <2>1 DEF HoldOf, MoneyOf
  <2>3. Hold!Void(i)
    BY <2>1, <2>2, HoldMoves DEF Hold!Void, RoomKept
  <2> QED BY <2>3 DEF Hold!Next
<1>5. CASE (SettleHold(i) \/ ReleaseHold(i)) /\ status[i] # "pending"
  <2>1. RoomKept /\ \A k \in Intents : RailKept(k) /\ StatusKept(k)
    BY <1>5 DEF SettleHold, ReleaseHold, SettleEscrowWithdrawal,
       ReleaseEscrowWithdrawal, Flip, RailKept, StatusKept, RoomKept
  <2> QED BY <2>1, HoldStutter
<1>6. CASE \/ Authorize(i) \/ CreateRefused(i) \/ Stamp(i)
           \/ RecordDebit(i) \/ RouteFails(i)
  <2>1. RoomKept /\ \A k \in Intents : RailKept(k) /\ StatusKept(k)
    BY <1>6 DEF Authorize, CreateRefused, Stamp, RecordDebit, RouteFails,
       RailKept, StatusKept, RoomKept
  <2> QED BY <2>1, HoldStutter
<1> QED BY <1>1, <1>2, <1>3, <1>4, <1>5, <1>6 DEF Route

LEMMA HoldResolve ==
  ASSUME TypeOK, HoldInv, NEW r \in Resolvers, Resolve(r) \/ ResolverFails(r)
  PROVE  [Hold!Next]_(Hold!vars)
<1> USE DEF tables, plaid
<1>1. CASE FlipHold(r)
  <2>0. PICK i \in Intents : i = job[r].intent
    BY <1>1, BusyJob DEF FlipHold, Step, Jobs
  <2>1. RoomKept /\ Others(i) /\ RailKept(i) /\ JobInv(r) /\ job[r].step = "flip"
    BY <1>1, <2>0 DEF FlipHold, Step, SettleEscrowWithdrawal,
       ReleaseEscrowWithdrawal, Flip, Others, RailKept, StatusKept, RoomKept, TypeOK,
       HoldInv
  <2>2. CASE status[i] = "pending" /\ job[r].outcome = "settle"
    <3>1. status'[i] = "settled" /\ rail[i] \in RailStatus \ {"none"}
      BY <1>1, <2>0, <2>1, <2>2 DEF FlipHold, SettleEscrowWithdrawal, Flip,
         JobInv, TypeOK
    <3>2. HoldOf(i) = "held" /\ HoldOf(i)' = "paid" /\ MoneyOf(i) # "in"
      BY <2>2, <3>1 DEF HoldOf, MoneyOf
    <3>3. Hold!Settle(i)
      BY <2>1, <3>2, HoldMoves DEF Hold!Settle, RoomKept
    <3> QED BY <3>3 DEF Hold!Next
  <2>3. CASE status[i] = "pending" /\ job[r].outcome # "settle"
    <3>1. status'[i] = "released" /\ rail[i] \in Dead
      BY <1>1, <2>0, <2>1, <2>3 DEF FlipHold, ReleaseEscrowWithdrawal, Flip,
         JobInv, TypeOK
    <3>2. HoldOf(i) = "held" /\ HoldOf(i)' = "void" /\ MoneyOf(i) # "out"
      BY <2>3, <3>1 DEF HoldOf, MoneyOf
    <3>3. Hold!Void(i)
      BY <2>1, <3>2, HoldMoves DEF Hold!Void, RoomKept
    <3> QED BY <3>3 DEF Hold!Next
  <2>4. CASE status[i] # "pending"
    <3>1. StatusKept(i)
      BY <1>1, <2>0, <2>4 DEF FlipHold, SettleEscrowWithdrawal,
         ReleaseEscrowWithdrawal, Flip, StatusKept, TypeOK
    <3> QED BY <2>1, <3>1, HoldStutter DEF Others
  <2> QED BY <2>2, <2>3, <2>4
<1>2. CASE \/ Locate(r) \/ FetchStatus(r) \/ ReadIntent(r) \/ CompleteDebit(r)
           \/ FindDebit(r) \/ WriteReversal(r) \/ Answer(r) \/ ResolverFails(r)
  <2>1. RoomKept /\ \A k \in Intents : RailKept(k) /\ StatusKept(k)
    BY <1>2 DEF Locate, FetchStatus, ReadIntent, CompleteDebit, FindDebit,
       WriteReversal, Answer, ResolverFails, RailKept, StatusKept, RoomKept
  <2> QED BY <2>1, HoldStutter
<1> QED BY <1>1, <1>2 DEF Resolve

LEMMA HoldRail ==
  ASSUME TypeOK, HoldInv, NEW i \in Intents, NEW s \in Notified,
         RailMoves(i, s)
  PROVE  [Hold!Next]_(Hold!vars)
<1>1. RoomKept /\ Others(i) /\ StatusKept(i)
  BY DEF RailMoves, Others, RailKept, StatusKept, RoomKept, TypeOK, tables
<1>2. rail[i] \in Live /\ rail'[i] = s
  BY DEF RailMoves, TypeOK
<1>3. CASE s = "posted"
  <2>1. MoneyOf(i)' = MoneyOf(i)
    BY <1>2, <1>3 DEF MoneyOf
  <2>2. [k \in Intents |-> MoneyOf(k)]' = [k \in Intents |-> MoneyOf(k)]
    BY <1>1, <2>1 DEF MoneyOf, Others, RailKept
  <2> QED BY <1>1, <2>2, MoneyMoves DEF Hold!vars, RoomKept
<1>4. CASE s \in Dead
  <2>1. MoneyOf(i) = "out" /\ MoneyOf(i)' = "back"
    BY <1>2, <1>4 DEF MoneyOf
  <2>2. Hold!Return(i)
    BY <1>1, <2>1, MoneyMoves DEF Hold!Return, RoomKept
  <2> QED BY <2>2 DEF Hold!Next
<1> QED BY <1>3, <1>4

LEMMA HoldStep ==
  TypeOK /\ HoldInv /\ [Next]_vars => [Hold!Next]_(Hold!vars)
<1> SUFFICES ASSUME TypeOK, HoldInv, [Next]_vars
             PROVE  [Hold!Next]_(Hold!vars)
  OBVIOUS
<1>1. ASSUME NEW i \in Intents,
             \/ \E s \in Notified : WebhookUnmapped(i, s)
             \/ \E r \in Resolvers :
                  SweepTakes(r, i) \/ \E s \in Notified : WebhookTakes(r, i, s)
      PROVE  [Hold!Next]_(Hold!vars)
  <2>1. RoomKept /\ \A k \in Intents : RailKept(k) /\ StatusKept(k)
    BY <1>1 DEF WebhookUnmapped, SweepTakes, WebhookTakes, tables, plaid,
       RailKept, StatusKept, RoomKept
  <2> QED BY <2>1, HoldStutter
<1>2. CASE UNCHANGED vars
  <2>1. RoomKept /\ \A k \in Intents : RailKept(k) /\ StatusKept(k)
    BY <1>2 DEF vars, tables, plaid, RailKept, StatusKept, RoomKept
  <2> QED BY <2>1, HoldStutter
<1> QED BY <1>1, <1>2, HoldRoute, HoldResolve, HoldRail DEF Next

LEMMA HoldInit == Init => Hold!Init
BY DEF Init, Hold!Init, HoldOf, MoneyOf

(* The route, its reserve RPC of two sums and its reconcilers keep the     *)
(* intent-first promise that EscrowHold states.                            *)
THEOREM Implementation == Spec => ImplementsHold
BY HoldInit, HoldStep, TypeCorrect, HoldInvariant, PTL
   DEF Spec, ImplementsHold, Hold!Spec
=============================================================================
