---------------------------- MODULE VaultPayouts ---------------------------
(***************************************************************************)
(* One payee's sovereign vault: payouts through a banking rail, the        *)
(* webhook deliveries that settle or reverse them, and releases of pending *)
(* money.  Every await of the vault engine is a step; the money itself     *)
(* moves in single guarded statements (apply_vault_delta).  reserve is     *)
(* left alone by these operations and is not represented.                  *)
(***************************************************************************)
EXTENDS Integers, FiniteSets

CONSTANTS
  Payouts,    \* calls of payoutFromVault, and the transfers they dispatch
  Amount,     \* Amount[t]: the cents of t
  Funds,      \* the vault before any payout: available and pending cents
  Handlers,   \* webhook deliveries that may be processed at the same time
  Releasers,  \* calls of releaseVaultPending that may run at the same time
  NoPayout,   \* the payout of an idle handler
  Faults      \* TRUE: calls may fail or die, and replies be lost, at any await

ASSUME VaultAssumption ==
  /\ IsFiniteSet(Payouts)
  /\ Amount \in [Payouts -> Nat \ {0}]
  /\ Funds \in [available : Nat, pending : Nat]
  /\ NoPayout \notin Payouts
  /\ Faults \in BOOLEAN

VARIABLES
  vault,      \* sovereign_vaults: the two buckets
  books,      \* the same buckets as the posted journals have them
  hold,       \* hold[t]: payout_holds.status; "none" without a row
  transfer,   \* transfer[t]: baas_transfers.status; "none" without a row
  ledger,     \* ledger[t]: the payout's ledger row
  reversals,  \* transfers with a payout_reversals row
  seen,       \* baas_webhook_events: the events recorded
  payout,     \* payout[t]: the next step of the request for t
  handler,    \* handler[h]: what delivery h is doing and has read
  release,    \* release[r]: the same of release call r
  rail,       \* rail[t]: where the money is at the bank
  bells,      \* events the bank has not had a 2xx for
  credits,    \* history: how often t was credited back
  cut,        \* history: some call has ended with work undone
  strayed,    \* history: the transfers of which a delivery found no hold row
              \* or another delivery at work, or died midway
  hasty       \* history: a release went by reads that were stale, or saw
              \* money whose hold row was still to come

rows == <<hold, transfer, ledger, reversals, seen>>
calls == <<payout, handler, release>>
bank == <<rail, bells>>
notes == <<cut, strayed, hasty>>
vars == <<vault, books, rows, calls, bank, credits, notes>>

Events == {"payout.settled", "payout.failed", "payout.returned"}
Undone == {"failed", "returned"}

IdleHandler == [step |-> "idle", payout |-> NoPayout,
                event |-> "payout.settled", hold |-> "none", covered |-> FALSE]
IdleRelease == [step |-> "idle", view |-> 0, cents |-> 0]

Init ==
  /\ vault = Funds /\ books = Funds
  /\ hold = [t \in Payouts |-> "none"]
  /\ transfer = [t \in Payouts |-> "none"]
  /\ ledger = [t \in Payouts |-> "none"]
  /\ reversals = {} /\ seen = {}
  /\ payout = [t \in Payouts |-> "idle"]
  /\ handler = [h \in Handlers |-> IdleHandler]
  /\ release = [r \in Releasers |-> IdleRelease]
  /\ rail = [t \in Payouts |-> "none"]
  /\ bells = {}
  /\ credits = [t \in Payouts |-> 0]
  /\ cut = FALSE /\ strayed = {} /\ hasty = FALSE

-----------------------------------------------------------------------------
(* apply_vault_delta: one statement moves the cents and checks the floors. *)

Plus(v, available, pending) ==
  [available |-> v.available + available, pending |-> v.pending + pending]

(* Mutant: the floors are not checked. *)
NoFloors(v, available, pending) == TRUE

Covers(v, available, pending) ==
  v.available + available >= 0 /\ v.pending + pending >= 0

Move(available, pending) ==
  /\ Covers(vault, available, pending)
  /\ vault' = Plus(vault, available, pending)

(* The vault legs of a journal; postJournal as one step. *)
Book(available, pending) == books' = Plus(books, available, pending)

Units(S) == UNION {{t} \X (1 .. Amount[t]) : t \in S}
Total(S) == Cardinality(Units(S))

(* Mutant: the holds in flight are not looked at. *)
HoldsIgnored == 0

SumInFlightPayoutHolds == Total({t \in Payouts : hold[t] = "in_flight"})

-----------------------------------------------------------------------------
(* What is under way. *)

ReleasesRest == \A r \in Releasers : release[r].step = "idle"
Resting(t) ==
  payout[t] \in {"idle", "done"} /\ \A h \in Handlers : handler[h].payout # t

-----------------------------------------------------------------------------
(* payoutFromVault *)

Go(t, from, to) == payout[t] = from /\ payout' = [payout EXCEPT ![t] = to]

(* A refused hold changes nothing. *)
HoldFunds(t) ==
  /\ Go(t, "idle", "ledger")
  /\ Move(- Amount[t], Amount[t])
  /\ UNCHANGED <<books, rows, handler, release, bank, credits, notes>>

InsertLedger(t) ==
  /\ Go(t, "ledger", "dispatch")
  /\ ledger' = [ledger EXCEPT ![t] = "submitted"]
  /\ UNCHANGED <<vault, books, hold, transfer, reversals, seen, handler,
                 release, bank, credits, notes>>

(* The bank takes the transfer; then the adapter inserts its row.  A       *)
(* failure in between is an exception that leaves money moving unrecorded. *)
DispatchAccepted(t) ==
  /\ Go(t, "dispatch", "register")
  /\ rail' = [rail EXCEPT ![t] = "moving"]
  /\ UNCHANGED <<vault, books, rows, handler, release, bells, credits, notes>>

Register(t) ==
  /\ Go(t, "register", "record")
  /\ transfer' = [transfer EXCEPT ![t] = "submitted"]
  /\ UNCHANGED <<vault, books, hold, ledger, reversals, seen, handler,
                 release, bank, credits, notes>>

DispatchRefused(t) ==
  /\ Go(t, "dispatch", "rollback")
  /\ UNCHANGED <<vault, books, rows, handler, release, bank, credits, notes>>

(* The bank takes the transfer, and its answer is late, lost or unreadable: *)
(* the adapter reports a refusal.                                          *)
DispatchUnanswered(t) ==
  /\ Faults
  /\ Go(t, "dispatch", "rollback")
  /\ rail' = [rail EXCEPT ![t] = "moving"]
  /\ UNCHANGED <<vault, books, rows, handler, release, bells, credits, notes>>

(* The inverse delta; when it is refused the call throws. *)
Rollback(t) ==
  /\ IF Covers(vault, Amount[t], - Amount[t])
       THEN /\ Go(t, "rollback", "failLedger")
            /\ Move(Amount[t], - Amount[t])
            /\ UNCHANGED cut
       ELSE /\ Go(t, "rollback", "done")
            /\ UNCHANGED vault
            /\ cut' = TRUE
  /\ UNCHANGED <<books, rows, handler, release, bank, credits, strayed, hasty>>

FailLedger(t) ==
  /\ Go(t, "failLedger", "done")
  /\ ledger' = [ledger EXCEPT ![t] = "failed"]
  /\ UNCHANGED <<vault, books, hold, transfer, reversals, seen, handler,
                 release, bank, credits, notes>>

(* updateLedgerSettlement writes "submitted" over whatever is there. *)
RecordTransfer(t) ==
  /\ Go(t, "record", "holdRow")
  /\ ledger' = [ledger EXCEPT ![t] = "submitted"]
  /\ UNCHANGED <<vault, books, hold, transfer, reversals, seen, handler,
                 release, bank, credits, notes>>

(* A row that a settlement backfilled is left as it is. *)
InsertHold(t) ==
  /\ Go(t, "holdRow", "journal")
  /\ hold' = [hold EXCEPT ![t] = IF @ = "none" THEN "in_flight" ELSE @]
  /\ UNCHANGED <<vault, books, transfer, ledger, reversals, seen, handler,
                 release, bank, credits, notes>>

JournalHold(t) ==
  /\ Go(t, "journal", "done")
  /\ Book(- Amount[t], Amount[t])
  /\ UNCHANGED <<vault, rows, handler, release, bank, credits, notes>>

PayoutFails(t) ==
  /\ Faults
  /\ payout[t] \notin {"idle", "done"}
  /\ Go(t, payout[t], "done")
  /\ cut' = TRUE
  /\ UNCHANGED <<vault, books, rows, handler, release, bank, credits, strayed, hasty>>

Pay(t) ==
  \/ HoldFunds(t) \/ InsertLedger(t) \/ DispatchAccepted(t)
  \/ DispatchRefused(t) \/ DispatchUnanswered(t) \/ Register(t) \/ Rollback(t)
  \/ FailLedger(t) \/ RecordTransfer(t) \/ InsertHold(t) \/ JournalHold(t)
  \/ PayoutFails(t)

-----------------------------------------------------------------------------
(* The bank, outside the repository: it settles a transfer or fails it,    *)
(* may return it after or instead, and repeats each event until a 2xx.     *)

Decide(t, to, event) ==
  /\ \/ rail[t] = "moving" /\ to \in {"paid", "failed", "returned"}
     \/ rail[t] = "paid" /\ to = "returned"
  /\ <<to, event>> \in {<<"paid", "payout.settled">>,
                        <<"failed", "payout.failed">>,
                        <<"returned", "payout.returned">>}
  /\ rail' = [rail EXCEPT ![t] = to]
  /\ bells' = bells \cup {<<t, event>>}
  /\ UNCHANGED <<vault, books, rows, calls, credits, notes>>

-----------------------------------------------------------------------------
(* ingestBaasWebhook *)

Step(h, from, to) ==
  /\ handler[h].step = from
  /\ handler' = [handler EXCEPT ![h].step = to]

Hang(h) == handler' = [handler EXCEPT ![h] = IdleHandler]

(* The transfer is known; an event on record is answered at once. *)
Replay(t, event) ==
  /\ <<t, event>> \in bells \cap seen
  /\ bells' = bells \ {<<t, event>>}
  /\ UNCHANGED <<vault, books, rows, calls, rail, credits, notes>>

(* A delivery that comes before the hold row, or while another is at work. *)
Crosses(t) == hold[t] = "none" \/ \E k \in Handlers : handler[k].payout = t

(* Mutant: an event is known by its transfer alone. *)
ReceiveFirstOnly(h, t, event) ==
  /\ <<t, event>> \in bells
  /\ \A e \in seen : e[1] # t
  /\ transfer[t] # "none"
  /\ handler[h] = IdleHandler
  /\ handler' = [handler EXCEPT ![h] =
       [IdleHandler EXCEPT !.payout = t, !.event = event,
          !.step = IF event = "payout.settled" THEN "hold" ELSE "reversal"]]
  /\ strayed' = IF Crosses(t) THEN strayed \cup {t} ELSE strayed
  /\ UNCHANGED <<vault, books, rows, payout, release, bank, credits, cut, hasty>>

Receive(h, t, event) ==
  /\ <<t, event>> \in bells \ seen
  /\ transfer[t] # "none"
  /\ handler[h] = IdleHandler
  /\ handler' = [handler EXCEPT ![h] =
       [IdleHandler EXCEPT !.payout = t, !.event = event,
          !.step = IF event = "payout.settled" THEN "hold" ELSE "reversal"]]
  /\ strayed' = IF Crosses(t) THEN strayed \cup {t} ELSE strayed
  /\ UNCHANGED <<vault, books, rows, payout, release, bank, credits, cut, hasty>>

(* The event row and the 200, which may not arrive.  UNIQUE (event_id)     *)
(* makes an exception of a second row, and the event comes again.          *)
RecordEvent(h) ==
  LET e == <<handler[h].payout, handler[h].event>>
  IN /\ handler[h].step = "event"
     /\ Hang(h)
     /\ seen' = seen \cup {e}
     /\ \/ e \notin seen /\ bells' = bells \ {e}
        \/ (e \in seen \/ Faults) /\ UNCHANGED bells
     /\ UNCHANGED <<vault, books, hold, transfer, ledger, reversals, payout,
                    release, rail, credits, notes>>

(* Where a delivery dies with a payout that no redelivery finishes. *)
Midway(c) ==
  \/ c.step \in {"markHold", "credit", "unhold", "unlock"}
  \/ c.step \in {"transfer", "ledger"} /\ c.event # "payout.settled"

HandlerFails(h) ==
  LET c == handler[h]
  IN /\ Faults
     /\ c.step # "idle"
     /\ Hang(h)
     /\ cut' = TRUE
     /\ strayed' = IF Midway(c) THEN strayed \cup {c.payout} ELSE strayed
     /\ UNCHANGED <<vault, books, rows, payout, release, bank, credits, hasty>>

-----------------------------------------------------------------------------
(* settleVaultPayout *)

ReadHold(h) ==
  /\ handler[h].step = "hold"
  /\ handler' = [handler EXCEPT ![h].step = "vault",
                                ![h].hold = hold[handler[h].payout]]
  /\ UNCHANGED <<vault, books, rows, payout, release, bank, credits, notes>>

(* Mutant: a reversed payout is settled after all. *)
SettlingReversed(status) ==
  CASE status = "none" -> "backfill"
    [] status \in {"in_flight", "reversed"} -> "debit"
    [] status = "settled" -> "transfer"

(* Where a settlement goes on, from the hold status it has. *)
Settling(status) ==
  CASE status = "none" -> "backfill"
    [] status = "in_flight" -> "debit"
    [] status = "settled" -> "transfer"
    [] status = "reversed" -> "refused"

(* Without a hold row, or with one in flight, pending has to cover it. *)
ReadVault(h) ==
  LET c == handler[h]
      to == Settling(c.hold)
  IN /\ c.step = "vault"
     /\ IF \/ to = "refused"
           \/ to \in {"backfill", "debit"} /\ ~ Covers(vault, 0, - Amount[c.payout])
          THEN Hang(h)
          ELSE Step(h, "vault", to)
     /\ UNCHANGED <<vault, books, rows, payout, release, bank, credits, notes>>

(* The insert is the lock; the loser goes by the row it finds.  A lost     *)
(* reply makes a loser of the winner.                                      *)
Backfill(h) ==
  LET t == handler[h].payout
      Found(status) ==
        IF Settling(status) = "refused"
          THEN Hang(h)
          ELSE handler' = [handler EXCEPT ![h].step = Settling(status),
                                          ![h].hold = status]
  IN /\ handler[h].step = "backfill"
     /\ IF hold[t] = "none"
          THEN /\ hold' = [hold EXCEPT ![t] = "settled"]
               /\ \/ /\ handler' = [handler EXCEPT ![h].step = "debit",
                                                   ![h].hold = "in_flight"]
                     /\ UNCHANGED cut
                  \/ Faults /\ Found("settled") /\ cut' = TRUE
          ELSE Found(hold[t]) /\ UNCHANGED <<hold, cut>>
     /\ UNCHANGED <<vault, books, transfer, ledger, reversals, seen, payout,
                    release, bank, credits, strayed, hasty>>

Debit(h) ==
  LET cents == Amount[handler[h].payout]
  IN /\ handler[h].step = "debit"
     /\ IF Covers(vault, 0, - cents)
          THEN Move(0, - cents) /\ Step(h, "debit", "markHold")
          ELSE Hang(h) /\ UNCHANGED vault
     /\ UNCHANGED <<books, rows, payout, release, bank, credits, notes>>

MarkHold(h) ==
  /\ Step(h, "markHold", "transfer")
  /\ hold' = [hold EXCEPT ![handler[h].payout] = "settled"]
  /\ UNCHANGED <<vault, books, transfer, ledger, reversals, seen, payout,
                 release, bank, credits, notes>>

(* The status a transfer and its ledger row get from an event. *)
StatusOf(event) ==
  CASE event = "payout.settled" -> "settled"
    [] event = "payout.failed" -> "failed"
    [] event = "payout.returned" -> "returned"

MarkTransfer(h) ==
  /\ Step(h, "transfer", "ledger")
  /\ transfer' = [transfer EXCEPT ![handler[h].payout] = StatusOf(handler[h].event)]
  /\ UNCHANGED <<vault, books, hold, ledger, reversals, seen, payout,
                 release, bank, credits, notes>>

(* A settlement that found its hold settled posts no journal. *)
MarkLedger(h) ==
  LET c == handler[h]
      settles == c.event = "payout.settled"
  IN /\ Step(h, "ledger", IF settles /\ c.hold = "settled" THEN "event" ELSE "journal")
     /\ ledger' = [ledger EXCEPT ![c.payout] = IF settles THEN "settled" ELSE "failed"]
     /\ UNCHANGED <<vault, books, hold, transfer, reversals, seen, payout,
                    release, bank, credits, notes>>

(* Mutant: a return always goes back to the FBO account. *)
PostFboOnly(h) ==
  LET c == handler[h]
      cents == Amount[c.payout]
  IN /\ Step(h, "journal", "event")
     /\ IF c.event = "payout.settled" THEN Book(0, - cents) ELSE Book(cents, 0)
     /\ UNCHANGED <<vault, rows, payout, release, bank, credits, notes>>

PostVerdict(h) ==
  LET c == handler[h]
      cents == Amount[c.payout]
  IN /\ Step(h, "journal", "event")
     /\ CASE c.event = "payout.settled" -> Book(0, - cents)
          [] c.event # "payout.settled" /\ c.hold = "in_flight" -> Book(cents, - cents)
          [] OTHER -> Book(cents, 0)
     /\ UNCHANGED <<vault, rows, payout, release, bank, credits, notes>>

Settle(h) ==
  \/ ReadHold(h) \/ ReadVault(h) \/ Backfill(h) \/ Debit(h) \/ MarkHold(h)

-----------------------------------------------------------------------------
(* reverseVaultPayout *)

ReadReversal(h) ==
  /\ Step(h, "reversal",
          IF handler[h].payout \in reversals THEN "event" ELSE "view")
  /\ UNCHANGED <<vault, books, rows, payout, release, bank, credits, notes>>

ReadView(h) ==
  /\ handler[h].step = "view"
  /\ handler' = [handler EXCEPT ![h].step = "held",
        ![h].covered = Covers(vault, 0, - Amount[handler[h].payout])]
  /\ UNCHANGED <<vault, books, rows, payout, release, bank, credits, notes>>

ReadHeld(h) ==
  /\ handler[h].step = "held"
  /\ handler' = [handler EXCEPT ![h].step = "lock",
                                ![h].hold = hold[handler[h].payout]]
  /\ UNCHANGED <<vault, books, rows, payout, release, bank, credits, notes>>

(* Mutant: payout_reversals without UNIQUE (transfer_id). *)
NeverTaken(t) == FALSE

(* UNIQUE (transfer_id) refuses the row. *)
Taken(t) == t \in reversals

(* The reversal row is the lock.  Whoever finds it taken has lost, and so  *)
(* has the winner whose reply is lost.                                     *)
Lock(h) ==
  LET c == handler[h]
  IN /\ \/ /\ ~ Taken(c.payout)
           /\ Step(h, "lock", IF c.hold = "in_flight" /\ ~ c.covered
                                THEN "unlock" ELSE "credit")
           /\ UNCHANGED <<cut, strayed>>
        \/ /\ Taken(c.payout)
           /\ Step(h, "lock", "lost")
           /\ UNCHANGED <<cut, strayed>>
        \/ /\ Faults /\ ~ Taken(c.payout)
           /\ Step(h, "lock", "lost")
           /\ cut' = TRUE /\ strayed' = strayed \cup {c.payout}
     /\ reversals' = reversals \cup {c.payout}
     /\ UNCHANGED <<vault, books, hold, transfer, ledger, seen, payout,
                    release, bank, credits, hasty>>

(* The loser answers with the winner's row, or throws when it is gone. *)
FindWinner(h) ==
  /\ handler[h].step = "lost"
  /\ IF handler[h].payout \in reversals THEN Step(h, "lost", "event") ELSE Hang(h)
  /\ UNCHANGED <<vault, books, rows, payout, release, bank, credits, notes>>

(* Money never moved: the lock is dropped and the delivery refused. *)
Unlock(h) ==
  /\ handler[h].step = "unlock"
  /\ Hang(h)
  /\ reversals' = reversals \ {handler[h].payout}
  /\ UNCHANGED <<vault, books, hold, transfer, ledger, seen, payout,
                 release, bank, credits, notes>>

(* Mutant: the hold's share of pending is left where it is. *)
TakenFromPendingNone(c) == 0

(* A hold in flight goes back from pending, any other payout from the FBO. *)
TakenFromPending(c) == IF c.hold = "in_flight" THEN Amount[c.payout] ELSE 0

Credit(h) ==
  LET c == handler[h]
      t == c.payout
  IN /\ handler[h].step = "credit"
     /\ IF Covers(vault, Amount[t], - TakenFromPending(c))
          THEN /\ Move(Amount[t], - TakenFromPending(c))
               /\ Step(h, "credit", IF c.hold \in {"in_flight", "settled"}
                                      THEN "unhold" ELSE "transfer")
               /\ credits' = [credits EXCEPT ![t] = @ + 1]
          ELSE /\ Step(h, "credit", "unlock")
               /\ UNCHANGED <<vault, credits>>
     /\ UNCHANGED <<books, rows, payout, release, bank, notes>>

Unhold(h) ==
  /\ Step(h, "unhold", "transfer")
  /\ hold' = [hold EXCEPT ![handler[h].payout] = "reversed"]
  /\ UNCHANGED <<vault, books, transfer, ledger, reversals, seen, payout,
                 release, bank, credits, notes>>

Reverse(h) ==
  \/ ReadReversal(h) \/ ReadView(h) \/ ReadHeld(h) \/ Lock(h) \/ FindWinner(h)
  \/ Unlock(h) \/ Credit(h) \/ Unhold(h)

Handle(h) ==
  \/ Settle(h) \/ Reverse(h)
  \/ MarkTransfer(h) \/ MarkLedger(h) \/ PostVerdict(h) \/ RecordEvent(h)

-----------------------------------------------------------------------------
(* releaseVaultPending *)

EndRelease(r) == release' = [release EXCEPT ![r] = IdleRelease]

ReleaseRead(r) ==
  /\ release[r] = IdleRelease
  /\ release' = [release EXCEPT ![r] = [IdleRelease EXCEPT !.step = "sum",
                                                   !.view = vault.pending]]
  /\ hasty' = (hasty \/ ~ ReleasesRest)
  /\ UNCHANGED <<vault, books, rows, payout, handler, bank, credits, cut, strayed>>

(* The payouts whose money is in pending and whose hold row is to come. *)
Unlisted ==
  {t \in Payouts : payout[t] \in {"ledger", "dispatch", "register", "record",
                                  "holdRow", "rollback"}}

(* The in-flight holds are excluded from what may be released. *)
ReleaseSum(r) ==
  LET releasable == release[r].view - SumInFlightPayoutHolds
  IN /\ release[r].step = "sum"
     /\ IF releasable =< 0
          THEN EndRelease(r)
          ELSE \E cents \in 1 .. releasable :
                 release' = [release EXCEPT ![r] =
                   [IdleRelease EXCEPT !.step = "move", !.cents = cents]]
     /\ hasty' = (hasty \/ Unlisted # {} \/ release[r].view # vault.pending)
     /\ UNCHANGED <<vault, books, rows, payout, handler, bank, credits, cut, strayed>>

ReleaseMove(r) ==
  LET cents == release[r].cents
  IN /\ release[r].step = "move"
     /\ IF Covers(vault, cents, - cents)
          THEN /\ Move(cents, - cents)
               /\ release' = [release EXCEPT ![r].step = "journal"]
          ELSE EndRelease(r) /\ UNCHANGED vault
     /\ UNCHANGED <<books, rows, payout, handler, bank, credits, notes>>

ReleaseJournal(r) ==
  /\ release[r].step = "journal"
  /\ Book(release[r].cents, - release[r].cents)
  /\ EndRelease(r)
  /\ UNCHANGED <<vault, rows, payout, handler, bank, credits, notes>>

ReleaseFails(r) ==
  /\ Faults
  /\ release[r].step # "idle"
  /\ EndRelease(r)
  /\ cut' = TRUE
  /\ UNCHANGED <<vault, books, rows, payout, handler, bank, credits, strayed, hasty>>

Release(r) == ReleaseSum(r) \/ ReleaseMove(r) \/ ReleaseJournal(r)

-----------------------------------------------------------------------------
Next ==
  \/ \E t \in Payouts :
       \/ Pay(t)
       \/ \E event \in Events :
            \/ \E to \in {"paid", "failed", "returned"} : Decide(t, to, event)
            \/ Replay(t, event)
            \/ \E h \in Handlers : Receive(h, t, event)
  \/ \E h \in Handlers : Handle(h) \/ HandlerFails(h)
  \/ \E r \in Releasers : ReleaseRead(r) \/ Release(r) \/ ReleaseFails(r)

Spec == Init /\ [][Next]_vars

(* Fairness.  Calls that have begun run on; the bank decides every         *)
(* transfer and repeats an event until it is answered, which may find all  *)
(* deliveries busy.  Deliveries do not go on dying for ever.               *)

Deliver(t) ==
  \E event \in Events :
    \/ Replay(t, event)
    \/ \E h \in Handlers : Receive(h, t, event)

Fairness ==
  /\ \A t \in Payouts :
       /\ WF_vars(payout[t] # "idle" /\ Pay(t))
       /\ WF_vars(rail[t] = "moving" /\ \E to \in {"paid", "failed", "returned"},
                                           event \in Events : Decide(t, to, event))
       /\ SF_vars(Deliver(t))
  /\ \A h \in Handlers : WF_vars(Handle(h))
  /\ \A r \in Releasers : WF_vars(Release(r))

FairSpec == Spec /\ Fairness /\ <>[][\A h \in Handlers : ~ HandlerFails(h)]_vars

-----------------------------------------------------------------------------
(* Properties *)

PayoutSteps == {"idle", "ledger", "dispatch", "register", "record", "holdRow",
                "journal", "rollback", "failLedger", "done"}
HandlerSteps == {"hold", "vault", "backfill", "debit", "markHold", "transfer",
                 "ledger", "journal", "event", "reversal", "view", "held",
                 "lock", "lost", "unlock", "credit", "unhold"}
HoldStatus == {"none", "in_flight", "settled", "reversed"}

Handling == [step : HandlerSteps, payout : Payouts, event : Events,
             hold : HoldStatus, covered : BOOLEAN]

(* No bucket of the vault is ever negative, whatever races: the floors are *)
(* checked by the statement that moves the money.                          *)
TypeOK ==
  /\ vault \in [available : Nat, pending : Nat]
  /\ books \in [available : Int, pending : Int]
  /\ hold \in [Payouts -> HoldStatus]
  /\ transfer \in [Payouts -> {"none", "submitted", "settled", "failed", "returned"}]
  /\ ledger \in [Payouts -> {"none", "submitted", "settled", "failed"}]
  /\ reversals \subseteq Payouts
  /\ seen \subseteq Payouts \X Events
  /\ payout \in [Payouts -> PayoutSteps]
  /\ handler \in [Handlers -> Handling \cup {IdleHandler}]
  /\ release \in [Releasers -> [step : {"idle", "sum", "move", "journal"},
                                view : Nat, cents : Nat]]
  /\ rail \in [Payouts -> {"none", "moving", "paid", "failed", "returned"}]
  /\ bells \subseteq Payouts \X Events
  /\ credits \in [Payouts -> Nat]
  /\ cut \in BOOLEAN
  /\ strayed \subseteq Payouts
  /\ hasty \in BOOLEAN

(* Delivery h has the reversal lock of its transfer and has not used it. *)
HasLock(h) == handler[h].step \in {"credit", "unlock"}

(* A transfer is credited back at most once, and the reversal row that     *)
(* guards it stays: replayed and concurrent deliveries, lost replies and   *)
(* the unlock of a refused reversal never open it to a second credit.      *)
OneReversal ==
  /\ \A t \in Payouts : credits[t] =< 1 /\ (credits[t] = 1 => t \in reversals)
  /\ \A h \in Handlers :
       HasLock(h) => /\ handler[h].payout \in reversals
                     /\ credits[handler[h].payout] = 0
                     /\ \A k \in Handlers :
                          HasLock(k) /\ handler[k].payout = handler[h].payout => k = h

AtRest == ReleasesRest /\ \A t \in Payouts : Resting(t)

(* The books follow the vault: when no call is under way and none has been *)
(* cut short, the journals give the buckets exactly, however the calls     *)
(* were interleaved and whichever branch each one took.                    *)
BooksFollowVault == AtRest /\ ~ cut => books = vault

(* The payouts whose money is set aside in pending. *)
SetAside ==
  Unlisted \cup
  {t \in Payouts :
     /\ hold[t] = "in_flight"
     /\ \A h \in Handlers :
          handler[h].payout = t => handler[h].step \notin {"markHold", "unhold"}}

(* Held money stays in pending until its transfer is decided, while        *)
(* payouts, deliveries and releases overlap and calls die.  Exempt is what *)
(* comes after a strayed delivery or a hasty release.                      *)
HeldIsBacked == strayed = {} /\ ~ hasty => Total(SetAside) =< vault.pending

(* Money leaves the vault for the payouts whose hold settled and no        *)
(* others, whatever requests, deliveries and releases died or overlapped,  *)
(* as long as no delivery strayed.                                         *)
MoneyAccountedFor ==
  AtRest /\ strayed = {} =>
    vault.available + vault.pending + Total({t \in Payouts : hold[t] = "settled"})
      = Funds.available + Funds.pending

(* Once the bank's last word on a transfer is answered, its hold, its      *)
(* transfer and its ledger row say the same, in whatever order the events  *)
(* came, how often they were redelivered and whatever else failed.  Exempt *)
(* are the strayed transfers.                                              *)
StatusesAgree ==
  \A t \in Payouts \ strayed :
    Resting(t) =>
      /\ (rail[t] = "paid" /\ <<t, "payout.settled">> \in seen)
           => hold[t] = "settled" /\ transfer[t] = "settled" /\ ledger[t] = "settled"
      /\ \A to \in Undone :
           (rail[t] = to /\ \E e \in seen : e[1] = t /\ e[2] # "payout.settled")
             => hold[t] = "reversed" /\ transfer[t] = to /\ ledger[t] = "failed"

(* What the bank fails or returns is credited back in the end, once calls  *)
(* have stopped dying: by a redelivery if need be.  Exempt are transfers    *)
(* without a row, which no event reaches, and what comes after a strayed    *)
(* delivery or a hasty release.                                            *)
ReturnsComeBack ==
  \A t \in Payouts :
    rail[t] \in Undone /\ transfer[t] # "none"
      ~> credits[t] = 1 \/ strayed # {} \/ hasty

-----------------------------------------------------------------------------
(* "700 is locked in an in-flight payout hold - only 300 may release"      *)
(* (vaults/__tests__/engine.test.ts:61): money held for a payout is not    *)
(* released and paid out again.                                            *)
HeldIsNotReleased ==
  Total({t \in Payouts : rail[t] \in {"moving", "paid"}})
    =< Funds.available + Funds.pending
=============================================================================
