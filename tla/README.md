# Covnant in TLA+

Covnant is a settlement platform for rights holders: royalty reports become
split runs, split runs credit vaults, vaults and escrow balances are paid out
over bank rails, money nobody can be paid yet is held, and every move is posted
to a hash-chained general ledger. The server is stateless; many instances of
its route handlers and workers share one Postgres database, reached statement
by statement over PostgREST, and talk to payment rails that answer late, twice,
or not at all. There are no transactions across calls. What can go wrong is
what one handler does between two `await`s while another one runs, and what a
crash leaves behind.

The specifications here model those handlers at the grain of one step per
database or rail call, check them with TLC on small instances, and prove the
main results with TLAPS for every value of the constants.

Paths below are relative to `src/` of the repository root (so `src/lib` is
the application's library directory).

## 1. Inventory

### Escrow withdrawals - modelled
*Code* `src/app/api/payouts/withdraw/route.ts`,
`src/app/api/payouts/withdraw/reconcile/route.ts`,
`src/app/api/payouts/webhooks/plaid/route.ts`, `src/lib/escrow/*`,
`supabase/migrations/0058_escrow_withdrawal_intents.sql`.
*State* `escrow_withdrawal_intents` (status, transfer id), the
`ESCROW-PAYOUT-<id>` debit and `-REVERSAL` rows of the ledger, the transfer at
Plaid and its undelivered notifications.
*Operations* reserve a hold (an RPC under a per-holder advisory lock),
authorize and create the transfer, stamp its id, record the debit, settle or
release; reconcile one intent from a webhook or from the sweep.
*Hard* two requests for the same funds; a webhook, a sweep and the route on one
intent; a lost create reply; a crash at any await; a return after settlement.
*Correct when* holds fit what the holder earned, money is out only against a
hold or a debit, a hold is released only when no money is out, resolutions
happen once, and a hold Plaid has a verdict for is resolved.

### General ledger: journal chain and audit - modelled
*Code* `src/modules/ledger/{engine,chain,journal,audit}.ts`, the
`UNIQUE (sequence)` of `supabase/migrations/0009_concurrency_guards.sql`.
*State* `gl_journals` (sequence, previous hash, own hash), `gl_entries`.
*Operations* `postJournal` (validate, read the latest, insert the header under
the unique sequence with five turns, insert the legs), `auditLedger`.
*Hard* racing posters, a retry that cannot tell a lost reply from a lost race,
a crash between header and legs, an audit in the middle of a post.
*Correct when* the chain never forks, an answered post is complete, an audit
blames exactly the journals that do not read back as they were hashed, and
contention loses no post.

### Vault payouts - modelled in part
*Code* `src/modules/vaults/engine.ts`, `balances.ts`,
`src/lib/server/webhooks.ts` (`ingestBaasWebhook`),
`src/services/baas/*`, `apply_vault_delta` of 0009.
*State* a vault's available, pending and reserve buckets, `payout_holds`,
`payout_reversals`, transfers, webhook events.
*Operations* credit, release pending, pay out (hold, ledger row, dispatch,
hold row, journal), settle, reverse.
*Hard* the hold row is written after the dispatch (a release or a webhook in
that gap), a dispatch whose answer is lost counts as refused, deliveries of one
transfer overlap, statuses are read before the guarded debit, the reversal row
is both lock and replay guard.
*Correct when* buckets never go negative, a transfer is debited and credited
back once, no money is paid twice, and the books follow the vault.

### Split-run saga and reversal - modelled in part
*Code* `src/lib/server/udrSplits.ts`, `splitReversal.ts`, `taxUnwind.ts`,
`src/modules/recoupment/engine.ts`, `src/modules/compliance/engine.ts`.
*State* `split_runs` (status, idempotency key), tax escrow rows and
year-to-date totals, the payee's and the company's buckets, the advance, the
`royalty_ingest` and `royalty_reversal` journals, `split_reversals`.
*Operations* `executeSplit` (insert, withhold, look for a lock, sweep the
advance, credit, post), `compensateFailedSaga`, `reverseSplitRun` (claim, claw
back, roll the advance back, post, unwind the tax, record).
*Hard* no transaction anywhere: a journal that fails after all the credits,
with nothing, some or all of its legs stored, a payee who spends before the compensation, reversals that race, a lock that
comes between a run and its reversal, an advance that is read and written
whole.
*Correct when* what failed leaves nothing behind but what it reports, a run is
reversed once, and vault, books, advance and tax rows agree when calls end.

### Vault dispute locks - modelled in part
*Code* `src/modules/vaults/dispute.ts`. *State* `vault_disputes` (locked, what
was frozen from which bucket). *Operations* lock (sweep available and pending
into reserve, post, remember), unlock (sweep back, post, forget);
`isIncomingFrozen` sends new credits to reserve (for a lock on the work, too),
`isPayoutFrozen` refuses payouts. *Hard* two calls on one row, a vault read
before the row it is compared with, a journal that throws between the money and
the row, credits and reversals in the reserve that holds the frozen money. *Correct when* what was frozen is there to thaw.

### Reconciliation job queue - modelled in part
*Code* `src/workers/recon/{worker,matchQueue,posting}.ts`,
`src/lib/server/{unclaimedHolding,identifierHoldEscrow}.ts` (the posts), the
store's `claimReconJob`, `completeReconJob`, `failReconJob`, migrations 0011
and 0064. *State* `royalty_recon_jobs` (status, attempts, claimed_at),
`match_queue`, holding rows and their journals.
*Operations* claim with a retry budget and stale-claim takeover, one pass over
a statement (record a line, post its money to a holding), complete, fail.
*Hard* a claim carries no token: a worker that was overtaken works on and ends
the job; posts are guarded by a read; a worker dies anywhere.
*Left out* the other lanes a pass may take: `worker.ts:181-405` dispatches by
the statement's sender to some eighteen of them (podcast, gaming, livestream,
webtoon, merch, books, art, theatrical, licensing, NIL, spatial, fitness, food,
service, developer, hardware, energy, sports; a vision engine behind them), each
with accumulators or holdings of its own. What is modelled is the job table
around any of them and the deterministic statement lane inside; the AI lane's
posts are in `Holdings`.
*Correct when* a job gets one verdict within its budget, a completed job left
no line behind, and no line's money is credited twice.

### Unclaimed and identifier holdings - modelled in part
*Code* `src/lib/server/{unclaimedHolding,identifierHoldEscrow}.ts`,
`src/workers/recon/{aiDisputes,aiPosting}.ts`.
*State* the status of holding rows, `ai_training_disputes`, registry links,
release journals. *Operations* post, freeze and thaw a model's credits while a
training dispute is active, release a credit to its parties, release an
identifier hold into a fresh credit.
*Hard* disputes filed, resolved and posted under at once, each with a sweep of
its own; a release whose gates take several awaits; a stop after the
settlement. *Correct when* disputed credits stay, undisputed ones leave once
and whole, and no dispute leaves credits frozen behind it.

### Not modelled
- *Audit-escrow families and cascades* (`nilAuditEscrow.ts`, `filmEscrow.ts`,
  `promoterSettlement.ts` and some forty settlement calculators): arithmetic
  per contract form over the vault, withholding and journal calls above; their
  interleavings are those of `VaultPayouts`, `SplitRuns` and `JournalChain`.
- *Waterfall and dust arithmetic*: sums over lists of any length, which the
  proof system cannot induct over and TLC would check on toy inputs only;
  `SplitRuns` takes what they return as constants.
- *Store back ends* (`sqliteStore.ts`, `supabaseStore.ts`, `inMemoryStore.ts`,
  `store.ts`: a quarter of the code): one method per table that maps rows. The
  methods the modelled handlers call are part of their actions, with their
  constraints and guarded updates; of the rest nothing is left to model once
  the data is abstracted.
- *Bank linking, other webhooks, signature checks*: no protocol of several
  steps. *Rate limits, caches, telemetry*: per instance, best effort.
- *Identifiers, registry, contracts, sync licences, agent; SDK, MCP server,
  user interface*: record keeping around single writes, parsers, pages.

The map therefore covers a small share of the repository's lines: those where
an order of steps decides something. `PROJECT.json` lists every part with its
reason.

### How the parts interact
Withdrawals read balances the settlement code wrote and write
`udr_ledger`-style rows of their own; they do not post to the journal chain.
Vault payouts, dispute locks, the saga, its reversal and the releases of
holdings all move money through `apply_vault_delta` and then call
`postJournal`: the vault and its journal are two writes. The reconciliation
queue posts statement money to the holdings, which is how it enters the books
before anybody can be paid; the holdings' releases credit vaults. A dispute
lock decides which bucket the saga and the sweeps credit, and stops payouts but
no release of pending. Webhooks enter through route handlers, are redelivered
until answered with a 2xx, and call the same engines.

## 2. Modules

| Module | Models |
| --- | --- |
| `EscrowMoney` | intents, holders, amounts, withholding, sums of amounts |
| `EscrowHold` | abstract: what an intent-first withdrawal promises |
| `EscrowWithdrawal` | route, RPC, webhook, sweep and rail, step by step |
| `JournalChain` | `postJournal` and `auditLedger` |
| `VaultPayouts` | payouts, webhook deliveries and releases over one vault |
| `JobBoard` | abstract: what the reconciliation queue promises for its jobs |
| `ReconQueue` | the job table, workers and their passes; implements `JobBoard` |
| `Holdings` | training disputes, posting passes and releases over held rows |
| `SplitRuns` | split sagas, reversals and dispute locks over one payee's vault |
| `CentSums` | sums of cents over any number of rows, and their laws |
| `MC...` | instances for TLC |
| `..._proofs` | theorems and proofs of the module they extend |

### EscrowWithdrawal and the code
`status`, `stamped`, `debits`, `reversals` are the database: the intent's
status column, whether `plaid_transfer_id` is set, whether the two ledger rows
exist. `route[i]` is the next step of the request that made intent *i*,
`counted[i]` the ledger sum its RPC has read, `rail` and `bells` are Plaid, and
`job[r]` is what a reconciler (a webhook delivery or a sweep's row) has read.

| Action | Code |
| --- | --- |
| `CountLedger`, `Reserve`, `RefuseReserve` | `reserve_escrow_withdrawal`: two `SELECT SUM`s, then the insert |
| `Authorize`, `CreateAccepted`, `CreateRefused`, `Stamp`, `RecordDebit`, `SettleHold`, `ReleaseHold`, `RouteFails` | the awaits of the withdraw route, and its early ends |
| `RailMoves`, `WebhookTakes`, `WebhookUnmapped` | Plaid and the webhook route |
| `SweepTakes`, `Locate` | the sweep's batch and `findTransferIdForIntent` |
| `FetchStatus`, `ReadIntent`, `CompleteDebit`, `FindDebit`, `WriteReversal`, `FlipHold`, `Answer`, `ResolverFails` | `reconcileTransferOutcome` |

Abstractions: rail statuses are grouped by what `outcomeForTransferStatus`
tells apart; a find followed by an insert under a UNIQUE id that tolerates the
duplicate is one step, since rows are never deleted; refusals before the
reserve change nothing and are left out; any pending row may be swept (the
30-minute floor only removes behaviours); what a holder earned is constant
during a run. The RPC is `volatile` PL/pgSQL under READ COMMITTED, so each of
its statements has a snapshot of its own: `CountLedger` and `Reserve` are two
steps, and what settlements and reversals commit in between is seen by the
second only. `slipped` is history: the holders for whom a reserve went through
on a ledger sum that had gone down since.

### JournalChain and the code
`journals` and `entries` are the two tables; `step`, `attempt`, `last` are the
position, turn and last read of each call of `postJournal`; `audit` is what a
running `auditLedger` has read. A hash is the record of what was hashed
(SHA-256 taken to be injective). A row's id is the call and the turn that made
it (a fresh UUID per insert). A timestamp is an instant and its notation,
because the hash covers the string. `Faults` lets requests fail before or after
they took effect and servers stop. `store` is the back end, chosen at the
start: `SupabaseStore`, whose timestamps come back in another notation than
they were written in, or one of the local stores, which return the string.

### VaultPayouts and the code
`vault` is the row of `sovereign_vaults` (available and pending), `books` what
the posted journals say of the same buckets, `hold`, `transfer`, `ledger`,
`reversals` and `seen` the rows of a payout. `payout[t]`, `handler[h]` and
`release[r]` are the next step of a request, a webhook delivery and a release,
with what each has read; `rail` and `bells` are the bank. The rest is history:
`credits` counts how often a transfer was credited back, `cut` says that some
call has ended with work undone, `strayed` holds the transfers of which a
delivery came before the hold row or while another was at work, lost the
reversal row it had inserted, or died where no redelivery finishes, and `hasty`
says that a release saw money whose hold row was still to come, went by a
pending balance that had changed, or began beside another release.

| Action | Code |
| --- | --- |
| `Covers`, `Move` | `apply_vault_delta`: floors and update in one statement |
| `HoldFunds`, `InsertLedger`, `DispatchAccepted`, `Register`, `DispatchRefused`, `DispatchUnanswered`, `Rollback`, `FailLedger`, `RecordTransfer`, `InsertHold`, `JournalHold`, `PayoutFails` | the awaits of `payoutFromVault`; `Register` is the adapter's transfer row, `DispatchUnanswered` a dispatch that took effect and whose answer `lithic.ts:142-171` turns into a refusal |
| `Receive`, `Replay`, `RecordEvent`, `HandlerFails` | `ingestBaasWebhook` |
| `ReadHold`, `ReadVault`, `Backfill`, `Debit`, `MarkHold`, `MarkTransfer`, `MarkLedger`, `PostVerdict` | `settleVaultPayout` |
| `ReadReversal`, `ReadView`, `ReadHeld`, `Lock`, `FindWinner`, `Unlock`, `Credit`, `Unhold`, and the last three above | `reverseVaultPayout` |
| `ReleaseRead`, `ReleaseSum`, `ReleaseMove`, `ReleaseJournal`, `ReleaseFails` | `releaseVaultPending` |

Abstractions: checks of a balance that the guarded statement repeats can only
refuse earlier and are left out, except where a lock is taken in between
(`covered`); a journal is one step (its chain is `JournalChain`); a lost insert
and the read that finds the row are one step where rows are never deleted. The
vault starts after its credits; reserve and the payout freeze are in
`SplitRuns`; a transfer is never settled on creation.

### ReconQueue and the code
`status`, `attempts` and `stale` are `royalty_recon_jobs` (`stale`: claimed
more than thirty minutes ago), `queue` is `match_queue`, `credits` and
`journals` the holding rows of the ledger and their journals, each with the job
and attempt that wrote it. `worker[w]` is the next step of a worker and what it
has read: the lines still to look up, those a verified asset carried, those to
post. `known` is the registry; `disturbed` is history (see `CreditedOnce`).

| Action | Code |
| --- | --- |
| `CreateReconJob`, `GoStale` | the enqueue; time |
| `ClaimReconJob` | `claim_royalty_recon_job` of 0064: one transaction that skips locked rows, fails a spent job, or counts the attempt |
| `Register`, `WriteLine` | the registry between passes; `writeLinesToMatchQueue` per line |
| `CheckPosted`, `InsertCredit`, `PostJournal` | a post to either holding: replay guard, row, journal |
| `Throw`, `Drop` | any call that raises; the process or `failReconJob` itself dying |
| `ReadForComplete`, `CompleteReconJob`, `ReadForFail`, `FailReconJob` | the store's reads and guarded updates |

Abstractions: parsing is not modelled, a job has its lines; matched lines are
posted before identified ones, in any order among themselves; of the lanes a
pass may take only the deterministic one is there (section 1), the film lane in
it posts nothing, and the AI lane posts in `Holdings`; the callback route is
called by the workers' own transition and asks for a row that is terminal already, so
that both of its updates are no-ops. `JobBoard` is the promise: bounded tries,
one verdict, failure only of a spent budget, no line of a completed job left
behind. `Overtaking = FALSE` would let only dead workers' claims go stale.

### Holdings and the code
`row[e]` is the status of a ledger row: a holding credit of one AI model's
scope (`Legs`), an identifier hold (`Locks`), or the fresh credit a released
identifier hold becomes. `dispute` is `ai_training_disputes`; `sweeping`,
`resolver`, `pass`, `release` are the next steps of the four kinds of calls;
`paid` counts the party credits of a release and `released` its journal.

| Action | Code |
| --- | --- |
| `FileAiTrainingDispute`, `Sweep`, `FilerStops` | `fileAiTrainingDispute`: the insert under its unique claim, then `freezeUnauthorizedTrainingHolds` |
| `Resolve`, `ListFiled`, `Thaw`, `ResolverStops` | `resolveAiTrainingDisputeVerified`: guarded update, list of what is still filed, `thawUnauthorizedTrainingHolds` |
| `BeginPass`, `PostLeg`, `EndPass`, `PassStops` | `postAiLinesToHolding`: one read of the disputes, the posts, the freeze |
| `PostIdentifierHold`, `PingRegistry` | the post of a hold and its verification |
| `ReadRow`, `Settle`, `PayParty`, `InsertFresh`, `PostReleaseJournal`, `ReleaseStops` | `releaseUnclaimedHolding` and `releaseIdentifierHoldEscrow` |

Abstractions: a post's row and journal are one step, their replay being
`ReconQueue`'s; the gates between a release's read and its settlement change
nothing, they can only end it (`ReleaseStops`, possible without faults before
the settlement); a party's credit stands for its withholding, recoupment and
dust; the filed row is insert or replay, whichever the unique claim gives.

### SplitRuns and the code
One payee, whose buckets and the company's two are `bal`; `books` is what the
journals say of the same accounts. `status`, `escrow`, `ingested`, `stored`,
`undone`, `reversal` are a run's row, its net tax rows (one row and its
year-to-date amount are one), its ingest journal and the legs that journal has,
its reversal journals and its `split_reversals` row.
`advance` is `recoupment_current_cents`, `dispute` the dispute row. `saga[r]`
is what the run's saga does next and what it read (`plan`: the advance its legs
were computed from, `frozen`: whether a lock was on), `call[v]` and `locker[l]`
the same for a reversal and a dispute call. `owed` (refused debit-backs),
`lost` (what posts that threw had stored), `broken`, `flaws` are history.

A run has up to five legs (tax, recouped, excess, share, dust). `Amount` and
`Account` give cents and bucket of a leg from what the saga read, so that the
credits, the journal, the compensation and the reversal of a run all speak of
the same legs, as they do in the code: `compensateFailedSaga` walks the list of
credits made, and a reversal inverts the stored journal, so that it takes only
legs the journal has (`Taken`) and its own journal is refused when they do not
balance (`Complete`). A post that throws leaves nothing, the header, or the
header and any number of legs in the order they are inserted (`Torn`). `Order`
is the order in which each walk meets them; legs without an amount are skipped.

| Action | Code |
| --- | --- |
| `Begin`, `ApplyWithholding`, `IsIncomingFrozen`, `ReadAdvance`, `Sweep`, `CreditVault`, `PostIngest`, `IngestThrows` | `executeSplit` and `applyRecoupmentSweep` |
| `DebitBack`, `RereadAdvance`, `SweepBack`, `UnwindEscrowRow` | `compensateFailedSaga` |
| `Claim`, `Clawback`, `ReadRollback`, `Rollback`, `PostReversal`, `ReversalThrows`, `UnwindEscrowForRun`, `InsertSplitReversal` | `reverseSplitRun` |
| `Recredit`, `ReapplyRollback`, `RevertClaim` | its two ways back |
| `ReadVault`, `DecideLock`, `DecideUnlock`, `MoveFrozen`, `PostSweep`, `SweepThrows`, `UpsertDispute` | `applyDisputeLock` |
| `ReleaseVaultPending`, `PayoutFromVault` | what else moves the payee's money, in one step each (`VaultPayouts` has the rest) |

Abstractions: a call that dies is one that takes no further step, and every
action may be the last one, so crashes need no action of their own; reads of
`reverseSplitRun` that only refuse are merged into the claim that arbitrates
them, and its pre-validation is left out, since each guarded clawback repeats
it and the way back is the same; marking settlement rows is left out; a lock
freezes all that is there (the default); a lock on the work (a catalog dispute)
is that `IsIncomingFrozen` may say yes at any time; the tax computation is a
constant; the legs of a post that does not throw appear at once, so that no
reversal reads them half inserted (it would claw those back, be refused its
journal and put them back). `Bounded = TRUE` keeps the instance small: one torn
post in all, none beside or before a dispute call, and no failed reversal after
one that put a recoupment back. The theorems do not assume it.

## 3. Runs

| Run | Instance | States | Shows |
| --- | --- | --- | --- |
| `EscrowRace` | 1 intent, 2 reconcilers, fair | 34,157 | the single-intent safety properties under every interleaving of the route with webhooks and sweeps; a stamped hold with a notification resolves, late returns are reversed |
| `EscrowHolds` | 2 intents of one holder, 1 reconciler | 465,293 | holds fit the earnings, the money out does unless a reserve slipped; the inductive invariant; every step is one of `EscrowHold` |
| `LedgerChain` | 2 balanced posts and an unbalanced one (symmetric), 3 turns, faults, audits, either store | 889,988 | linear chain, complete answers, exact blame |
| `LedgerContention` | 3 posts, 3 turns, no faults, fair | 132,138 | contention alone loses no post |
| `VaultRace` | 1 payout, 2 deliveries (symmetric), faults at every await | 381,500 | no negative bucket, one credit per transfer, books equal to the vault when calls end, every cent accounted for, the rows of a payout agree |
| `VaultHolds` | 1 payout, 1 delivery, 1 release, faults at every await, fair | 504,390 | held money stays in pending, what comes back is credited |
| `ReconRace` | 1 job of 2 lines, 2 workers, 3 attempts, faults and overtaking, fair | 628,781 | one verdict within the budget, no line dropped, no double post, every job ends |
| `HoldingsRace` | 2 disputes, 1 filer, 2 resolvers, 2 passes, 1 credit, 1 identifier hold, 2 releases, 2 parties, faults (symmetric) | 373,658 | freeze, thaw and releases keep out of each other's way |
| `SplitRace` | 2 runs, 2 reversals, 1 dispute caller, with or without an advance, posts that throw with nothing, some or all of their legs stored (symmetric) | 2,733,202 | compensation and reversal are exact, vaults and journals differ by what is reported or torn, a run is reversed once, a lock's money is there to thaw |

Every run is of the code as it is: no constant takes an overlap, a fault or a
statement boundary away that the code has, except `Bounded` (section 2) and
`Faults = FALSE` in `LedgerContention`, which is about contention alone.

Why the bounds are enough. A conflict on one intent needs the route and two
reconcilers that act on one stale read; each may take the intent again later
and find what they left. Competition for funds needs two
intents: the holder earns 4, owes a quarter of it, and each intent asks for 2,
so either fits and both do not, and the withholding decides. Contention on the
chain needs as many posters as turns (a loser can lose every turn but the
last); three turns stand for the five of `MAX_SEQUENCE_ATTEMPTS`, and the
proof covers every number. A vault conflict is between two deliveries of one transfer around its request,
which is `VaultRace` (its spare pending cent is what a second debit of the same
payout takes), or between a delivery, a request and a release, which is
`VaultHolds`; there a pending cent is nobody's, so that a release is possible
beside a payout and the money of a return can be released and held again.

A claim has one worker that was overtaken and one that overtook it, so two
workers suffice; three attempts leave one between the first and the last, as
`RECON_MAX_ATTEMPTS` does; of the two lines one is identified and one is not,
so both holdings and a line that changes holding between passes occur. Two jobs
of one ingest (1,282,693 states) were run once for safety without a violation.
The thaw is decided between two resolutions, a freeze missed by a pass that
looked before the filing or thawed after it: two disputes, two resolvers, two
passes. Sweeps treat a model's credits alike, so one credit is enough for them;
two releases race for it, and two parties make a release that can stop half
way. The two runs of `SplitRace` share one advance and one target, so that the
second meets a target the first has used up, and what one compensation or
reversal puts back the other has read; each of the two may be reversed by
either reversal. Larger instances were run once without a violation: one
operator's reversal with two cents a run and dust (8,564,446 states), and two
dispute callers on one run (407,331 states).

Deadlock checking is off: requests end, and when every request and delivery is
done the system rightly rests.

Three runs end in a counterexample, against a statement of the code's own
comments or tests (`PROJECT.json`, "findings"):

- `EscrowOverPay`: the first withdrawal is debited and settled between the two
  sums of the second's reserve. Its debit is too late for the ledger sum, its
  hold is gone from the other, and the same funds are paid twice, where
  `withdraw/route.ts:201` says that the second "refuses".
- `LedgerUnverified`: over `SupabaseStore` an audit blames the first journal of
  a complete chain. `timestamptz` comes back from PostgREST as `+00:00` where
  the hash was over `Z`, so no stored journal verifies, where `chain.ts:53` says
  that verification "matches exactly what postJournal posted".
- `VaultDoublePay`: a release between the pending credit and the hold row of a
  payout releases the held money, and it is paid out twice.

Some behaviours of the code follow from single actions or short traces, or
were seen with TLC on the way, and have no run of their own. Where a property
leaves one of them out, its history variable names it.

- *Escrow.* A notification for an intent without a stamp is answered 200 and
  not redelivered (`WebhookUnmapped`), so such an intent cannot "also still be
  settled by a webhook" (`reconcile/route.ts:31`): it waits for an operator who
  calls the reconcile route, since `vercel.json` schedules nothing but the
  ledger audit. `NotifiedHoldResolves` speaks of stamped intents. The sweep's
  batch has a limit and no order, so rows that cannot be addressed may fill
  every batch; nothing is promised of a row that is not read. Any non-2xx reply
  to `transfer/create` counts as a refusal: the rail of the model answers so
  only when it took no transfer, but a gateway's 502 or 504 may hide one, and
  then `NeverReleasedWhileMoving` would fail. A webhook may release a hold
  before the route records its debit; nothing reverses that debit.
- *Ledger.* An insert whose reply is lost is retried like a lost race; the
  first header stays without legs, and `AuditBlame` says that the audit lists
  exactly such rows when its store returns what was hashed.
- *Vault.* Two deliveries of one settlement debit pending twice when pending
  covers it; a return whose reads come before the hold row credits available
  while the amount stays in pending, and the late row stays in flight; a release
  between the check and the debit of a backfilled hold leaves it settled and
  undebited; a crash after the reversal row and before the credit makes each
  redelivery an idempotent success that credits nothing. All of these are
  behaviours of both vault runs; `strayed` and `hasty` record them, and the
  properties say what holds of all other payouts. A dispatch that times out,
  loses its reply or answers an unreadable 2xx is reported as refused, so the
  hold is rolled back while the transfer is under way (`DispatchUnanswered`):
  the vault's own accounts stay in order (`MoneyAccountedFor` counts settled
  holds), the payee has the money twice, and the bank's events find no transfer.
  An accepted transfer whose row was not inserted (`Register`) is as unknown.
- *Queue.* Two workers past the replay guard of one line both write a row, and
  so does a retry after a crash between row and journal: the line is then
  credited once per attempt (`JournalsHaveCredits`), with a journal for each
  that lived (`disturbed`).
- *Holdings.* A pass that read the disputes before a filing leaves its credits
  releasable until the next sweep (`missed`). A pass or a filer that sweeps
  after the thaw leaves credits frozen with no dispute that could thaw them,
  and so does a resolution that stops before its thaw, since the retry finds
  the dispute resolved (`strayed`); and a resolved claim is never filed again.
  A release that stops after its settlement keeps the rest from its payees,
  and no retry gets past the settlement (`cut`).
- *Split runs.* A compensation is refused where the payee has spent the money;
  the amount is in the failure's message (`owed`). A post that throws with its
  header stored is compensated all the same: the run has a journal, with some of
  its legs or all, and nothing in the vault. With all of them it can be
  reversed, with fewer a reversal is begun, refused its unbalanced journal and
  walked back; a reversal whose post throws that way leaves its journal behind
  and can be posted again. Nothing removes these journals (`lost`, `broken`).
  After a crash behind the insert, the key refuses every
  retry and the writes made so far stay; having no journal, the run cannot be
  reversed. The advance is read and written whole, so overlapping sweeps,
  compensations and rollbacks lose each other's cents (`overlap`); a reversal
  that fails puts its part back on top of what others recouped meanwhile, past
  the target (`reapplied`). Two dispute calls that overlap lose what one of
  them froze (`relock`). An unlock is refused when the vault, read before the dispute row,
  did not have what the row says in reserve. Credits that a lock routed to reserve are not part of
  what an unlock moves back. A dispute call whose journal throws stops before
  its row: what it froze stays in reserve and no unlock gives it back, what it
  thawed may be thawed again, and its journal is missing or torn (`cut`). A "zero-amount freeze moves nothing and posts nothing"
  (`dispute.ts:201`), but the split of an amount of zero takes what available
  owes out of pending: over a bucket in debt next to one in credit, the two
  move and no journal says so. In the model this cannot happen, because a
  payee's credits all go through available or all through pending as long as no
  advance is granted between runs (`OneBucket`). On Postgres the `CHECK` of
  migration 0063 refuses negative buckets, so that there an operator's
  `allowNegativeReceivable` raises; `Operating = TRUE` is the stores without
  it.

## 4. Fairness

Only liveness properties need any. In `EscrowRace`, *requests end*: a
serverless request finishes or fails (`WF` on the route's steps after it began,
on a reconciler's steps). *The rail decides*: every accepted transfer posts or
fails. *Plaid redelivers* until it gets a 200: strong fairness, because a
delivery may find all reconcilers busy at any one moment. *Failures cease*: any
number of reconciliations may fail, not all for ever. The sweep is assumed to
do nothing, since no schedule runs it: what resolves is what a notification
resolves. In `LedgerContention` each post runs to its end; audits are not fair,
nothing depends on them. In `VaultHolds` requests, deliveries and releases that
have begun run on (a fault is one of their ends), the bank decides every
transfer, and repeats an event until it is answered (strong fairness, the
deliveries may be busy); deliveries do not die for ever. Payouts and releases
need not be asked for, and a payout may be refused at the bank. In `ReconRace` the loop of `runWorkerLoop`
claims and runs on (`WF` per worker on the claim and on the steps of a pass),
and thirty minutes pass on a claim nobody works on; faults, overtaken claims
and registrations are never forced. Nothing else is assumed: a worker may die
in every pass, and the retry budget still brings its job to an end.

## 5. Proofs

Every safety property that a passing run checks is also a theorem, for every
value of the constants. Each proof has an inductive invariant stronger than the
property; below is what had to be added. Three of them
(`HoldInv`, `ChainInv`, `ContentionInv`) are also invariants of a run.

Sums are cardinalities, since the provers cannot induct. `EscrowMoney_proofs`
has the arithmetic of escrow: amounts are unit sets, finite, monotone and
additive over disjoint intents. `CentSums` generalises it to functions with
negative values over sets that need not be finite: `SumOf(S, f)` counts the
cents to have less the cents owed, as long as both are finitely many. Its laws
are facts about cardinalities: a change of one row changes the sum by as much
(`SumChange`), rows that are all zero sum to zero (`SumNothing`), and a sum of
non-negative rows bounds each of them (`SumBounds`).

`EscrowWithdrawal_proofs`, for any number of intents, holders and reconcilers:

- `TypeCorrect`, `HoldInvariant`: the inductive invariant `HoldInv`. The safety
  properties are not inductive alone: that a reconciler may release depends on
  what it verified at the rail before (`JobInv`), that a request may release
  depends on not having sent anything (`RequestInv`), and the rows say which
  transfers exist (`RowInv`). `BudgetInv` adds the holds and the unreturned
  payouts of a holder, and is what a reserve preserves unless its ledger sum has
  gone down since it was read.
- `HoldsFit`, `NoReleaseWhileMoving`, `SettlementRecorded`,
  `ReversalsAreDue`, `ResolvedOnce`: the safety properties. That holds fit does
  not need a fresh ledger sum: no sum exceeds the earnings, and the holds are
  read in the statement that inserts (`counted` is bounded in `RequestInv`).
- `NoOverPayment`: nobody is paid past the earnings but the holders in
  `slipped`. The two snapshots of the RPC are the only cause: whatever else
  overlaps or dies is covered by the budget.
- `Implementation`: every step is one of `EscrowHold`, which promises what the
  two-statement RPC gives: a commitment fits beside the other holds in what an
  earlier look left, and the look is the sum the RPC has read (`room`).

`JournalChain_proofs`, for any posts, legs and number of turns:

- `ChainInvariant`, `ChainNeverForks`, `AnsweredPostIsComplete`: a row's
  predecessor is the one with the sequence below it, because the unique
  sequence admits a row only on top of a gapless chain read earlier; faults,
  retries and crashes included.
- `AuditBlamesUnverifiable`, for either kind of store: the rows an audit listed
  are a gapless prefix, so each link it checks is present, and a hash is broken
  by missing legs or by the notation of the timestamp, and by nothing else.
- `ContentionAloneIsSurvived` (assuming no faults and at least as many turns as
  posts): a call in turn *n* + 1 knows *n* headers, all of other posts, one
  each, and there are not that many other posts.
- `TypeCorrect`, `LostTurnsAreOthersHeaders`: the same accounting as an
  invariant of its own, stated of every call at every turn.

`VaultPayouts_proofs`, for any payouts, amounts, deliveries and releases, with
faults and full overlap:

- `TypeCorrect`: no bucket goes negative. Every move is one guarded statement,
  so the property is inductive as it stands.
- `CreditedOnce`: a transfer is credited back at most once. The invariant says
  more than that, for the unlock of a refused reversal gives the row away
  again: whoever has the lock is the only one, the row is there, and the credit
  is not; a credit leaves the row without an owner who could remove it.
- `PostedInFull`: as long as no call was cut short, vault and books differ, in
  each bucket, by what the calls under way have moved and not posted
  (`Unposted`): what requests pledged from available to pending, what
  settlements took, what reversals put back, what releases let go. Each step
  changes the difference by what it moves, or takes its own part out when it
  posts; at rest the four sums are empty. That a delivery posts with the branch
  it moved by, although the rows change under it, is what it carries along
  (`hold`).

The other three have no hypothesis either; what overlaps and dies is in
`strayed` and `hasty`, transfer by transfer, and `VaultInv` is about the others.
It follows a payout through its stages (`Staged`): the request has not ended
(`Starting`), the transfer is sent and unanswered (`Sent`), settled (`Paid`) or
reversed (`Back`), or one delivery is at it, and then the rows are where that
delivery has brought them (`Settles`, `Reverses`). A delivery or a release that
dies where it may leaves a payout in one of these stages. What the bank has said
fits where the money is (`Truthful`): a settlement may be late, a failure or
return is its last word. A transfer that has not strayed has one delivery, and
until one was hasty there is one release (`Alone`).

- `HeldStaysBacked`: what is set aside is covered by pending (`Backed`). A
  release takes no more than is spare between its reads and its move, and a
  delivery's debit or credit takes its own payout's share.
- `MoneyIsAccountedFor`: vault and payouts that are out (`Gone`) make up the
  funds at every step, not only at rest (`Kept`).
- `StatusesSettle`: the stages themselves, for each transfer that has not
  strayed, whatever happened to the others.

`ReconQueue_proofs`, for any jobs, workers, lines and shared ingests, with
faults and overtaking:

- `TypeCorrect`: no claim goes past the budget.
- `NoDoublePost`, `BooksHaveRows`: the invariant relates what each worker has in
  hand to rows and journals. A worker between row and journal is the one that
  wrote its row; an attempt of a job belongs to one worker, since each claim
  counts it up; an undisturbed line has at most one worker past its guard, and
  a row without a journal only while that worker has it.
- `Implementation`: every step of the queue is one of `JobBoard`. What a worker
  has yet to look up and to post is all that an open job may be missing, so a
  complete by whichever worker drops no line; a verdict is written only over an
  open row, and the attempts it read for a failure can only be too low.

`Holdings_proofs`, for any rows, disputes and calls of each kind:

- `FreezeHolds`, `ThawHolds`: the invariants are the properties together with
  what a call under way has decided: a resolution that is about to thaw found
  no dispute filed, and one that has just resolved still has to list.
- `ReleasesOnce`: the guarded settlement has one winner; what it still owes is
  the difference between what it holds and what was paid.
- `FrozenUntilResolved`: an action property, one case per action.

`SplitRuns_proofs`, for any runs, reversals, dispute calls, amounts and faults,
without the bounds of the instance:

- `TypeCorrect`: no guarded debit takes a bucket below zero, in whatever order
  compensations, reversals, locks, releases and payouts meet; only an
  operator's reversal does. A dispute call needs more than the floors of its
  own statement: an unlock adds what the dispute row says, so the row and what
  a call has read must not be negative (`Signs`), and a reversal's legs are
  those of a run it holds (`Held`). That each walk has a next step is a fact
  about the least step that is needed, from the well-foundedness of the
  naturals.
- `ReversesOnce`: `Held` (a call under way has its run alone: the guarded
  claim) and `Whole`, which says for every run how mode, journals, tax rows and
  status go together, with what a reversal under way still has to do. What a
  torn post leaves is in `stored`: that a reversal posts only for a complete
  journal, and that a run without torn posts is whole, is part of it.
- `BooksMatchVaults`: without exception. Between a bucket, what was refused of
  it added (`Cleared`), and its books, what throwing posts stored taken off
  (`Kept`), lies for each run the legs its saga has credited and not posted, and
  less those its reversal has clawed back and not posted (`Gap`), and for each
  dispute call what it has moved and not posted (`Swing`). `Bridged` is that
  equation, as a sum over all runs and calls; each step changes both sides
  alike, and at rest every gap is empty.
- `RecoupmentMatches`: the advance and the company's recoupment are each the
  sum of the recouped parts that stand (`AdvanceStands`, `Recoupment`). The
  clamp at zero never binds: a part that is taken back is one of those the sum
  counts. A sweep recoups no more than the target leaves (`Planned`).
- `FrozenStays`: the reserve less what stands of the runs in it is exactly what
  the dispute row remembers, or what the one call that changes it has moved
  (`Reserved`), so neither a compensation nor a clawback reaches the frozen
  money.
  `OneBucket` is needed for a payee in debt: an unlock puts back what was
  frozen, never a negative part of it.

They are of the runs, whatever their number, and of every interleaving with
releases, payouts and torn posts; what `RecoupmentMatches` and `FrozenStays`
leave out is what the properties name (`broken`, `overlap`, `reapplied`,
`relock`, `cut`).

The constants' assumptions (`MoneyAssumption`, `WithdrawalAssumption`,
`ChainAssumption`, `VaultAssumption`, `QueueAssumption`, `HoldingsAssumption`,
`SplitAssumption`) are evaluated by every run of the module. Two theorems
assume more of the constants, and say so: the two on contention of the journal
chain, no faults and turns enough for the posts, as in `LedgerContention`.

Only model-checked: liveness (`NotifiedHoldResolves`, `LateReturnIsRestored`,
`BalancedIsPosted`, `ReturnsComeBack`, `EveryJobEnds`), which rests on fairness
and is out of the prover's reach; and the counterexamples of `EscrowOverPay`,
`LedgerUnverified` and `VaultDoublePay`.

## 6. Plan

1. A dispute lock that takes in-flight payout holds out of pending: `SplitRuns`
   composed with `VaultPayouts` over three buckets.
2. An abstract vault that promises one verdict per payout, implemented by
   `VaultPayouts` for the payouts that have not strayed; the stages of
   `VaultInv` are its mapping.
3. `settle = true`: direct payouts of a run and the payout reversals that a
   reversal of the run starts with.
4. Composition of `VaultPayouts` with `JournalChain`: a post that raises after
   its vault delta, and what the audit's `books_reconcile` then says.
5. An advance that is granted between runs, which takes `OneBucket` away
   (section 3, zero-amount freezes).
