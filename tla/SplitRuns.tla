----------------------------- MODULE SplitRuns -----------------------------
(***************************************************************************)
(* Royalty split runs of one payee: the saga that books a run (tax escrow, *)
(* vault credits, recoupment of an advance, then the journal) and undoes   *)
(* it when the journal fails; the reversal of a posted run; and the        *)
(* dispute lock that freezes the payee's vault meanwhile.  Each await that *)
(* another call can tell apart is a step; a call that dies between two is  *)
(* one that takes no further step.                                         *)
(***************************************************************************)
EXTENDS Integers, Sequences

CONSTANTS
  Runs,       \* split runs, by their idempotency keys
  Reversals,  \* calls of reverseSplitRun
  Operating,  \* TRUE: a reversal may be called with allowNegativeReceivable
  Lockers,    \* calls of applyDisputeLock
  Net,        \* the payee's share of a run after withholding
  Withheld,   \* the tax withheld from it
  Cut,        \* the recoupment rate's part of Net
  Dust,       \* what the allocation leaves to the company
  Target,     \* recoupment_target_cents of the payee's advance
  NoAdvance,  \* the payee has no advance
  NoRun,      \* the run of an idle reversal
  Faults,     \* "throw": a journal post throws with nothing stored; "torn": with
              \* its header and some of its legs stored, or all of them
  Bounded     \* TRUE: one torn post in all, and no dispute call beside or after
              \* it; no failed reversal after one that put a recoupment back

ASSUME SplitAssumption ==
  /\ Net \in Nat \ {0} /\ Withheld \in Nat /\ Dust \in Nat /\ Target \in Nat
  /\ Cut \in 0..Net
  /\ Operating \in BOOLEAN
  /\ NoAdvance \notin Int /\ NoRun \notin Runs
  /\ Faults \subseteq {"throw", "torn"} /\ Bounded \in BOOLEAN

VARIABLES
  bal,        \* bal[a]: apply_vault_delta's balance of the bucket a
  books,      \* books[a]: the journals' balance of vault:...:a
  advance,    \* recoupment_current_cents, or NoAdvance
  escrow,     \* escrow[r]: net tax escrow rows (and year to date) of the run
  status,     \* status[r]: split_runs.status, "none" before the insert
  saga,       \* saga[r]: what the run's saga does next, and what it read
  ingested,   \* runs with a royalty_ingest journal
  stored,     \* stored[r]: the legs that journal has
  call,       \* call[v]: what a reversal does next, and to which run
  undone,     \* undone[r]: royalty_reversal journals of the run
  reversal,   \* runs with a split_reversals row
  dispute,    \* the payee's vault_disputes row
  locker,     \* locker[l]: what a lock or unlock does next
  owed,       \* history: owed[a]: refused debit-backs of failed sagas
  lost,       \* history: lost[a]: what posts that threw left in the journals
  broken,     \* history: runs with a journal stored by a call that threw
  flaws       \* history: what TLC shows to go wrong, by kind

money == <<bal, books, lost>>
runs == <<escrow, status, saga, ingested, stored, owed>>
undo == <<call, undone, reversal>>
lock == <<dispute, locker>>
vars == <<money, advance, runs, undo, lock, broken, flaws>>

(* The payee's three buckets, the company's available and pending ones. *)
Accounts == {"available", "pending", "reserve", "platform", "house"}
Vault(a) ==
  IF a \in {"platform", "house"} THEN {"platform", "house"}
  ELSE {"available", "pending", "reserve"}
Nothing == [a \in Accounts |-> 0]
Least(x, y) == IF x < y THEN x ELSE y
Most(x, y) == IF x < y THEN y ELSE x

Idle == [mode |-> "idle", step |-> "idle", run |-> NoRun, seen |-> NoAdvance,
         floorless |-> FALSE]
Free == [step |-> "idle", locked |-> FALSE, available |-> 0, pending |-> 0,
         reserve |-> 0]
Unborn == [mode |-> "none", step |-> "none", frozen |-> FALSE,
           plan |-> NoAdvance, seen |-> NoAdvance]

Init ==
  /\ bal = Nothing /\ books = Nothing /\ owed = Nothing /\ lost = Nothing
  /\ advance \in {NoAdvance, 0}
  /\ escrow = [r \in Runs |-> 0]
  /\ status = [r \in Runs |-> "none"]
  /\ saga = [r \in Runs |-> Unborn]
  /\ ingested = {} /\ stored = [r \in Runs |-> {}]
  /\ reversal = {} /\ broken = {} /\ flaws = {}
  /\ call = [v \in Reversals |-> Idle]
  /\ undone = [r \in Runs |-> 0]
  /\ dispute = [locked |-> FALSE, available |-> 0, pending |-> 0]
  /\ locker = [l \in Lockers |-> Free]

-----------------------------------------------------------------------------
(* The legs of a run, fixed by what its saga read: the advance (its plan)  *)
(* and whether incoming money was frozen.                                  *)

(* Mutant: the rate alone. *)
RecoupedByRate(current) == Cut

Recouped(current) == Least(Cut, Most(0, Target - current))

Amount(plan, leg) ==
  CASE leg = "tax" -> Withheld
    [] leg = "dust" -> Dust
    [] leg = "share" -> IF plan = NoAdvance THEN Net ELSE 0
    [] leg = "recouped" -> IF plan = NoAdvance THEN 0 ELSE Recouped(plan)
    [] leg = "excess" -> IF plan = NoAdvance THEN 0 ELSE Net - Recouped(plan)

(* Mutant: the bucket is looked up again, by today's lock. *)
AccountNow(frozen, leg) ==
  CASE leg = "tax" -> "reserve"
    [] leg = "dust" -> "house"
    [] leg = "recouped" -> "platform"
    [] leg = "share" -> IF dispute.locked THEN "reserve" ELSE "pending"
    [] leg = "excess" -> IF dispute.locked THEN "reserve" ELSE "available"

Account(frozen, leg) ==
  CASE leg = "tax" -> "reserve"
    [] leg = "dust" -> "house"
    [] leg = "recouped" -> "platform"
    [] leg = "share" -> IF frozen THEN "reserve" ELSE "pending"
    [] leg = "excess" -> IF frozen THEN "reserve" ELSE "available"

(* Some legs of the run's journal, by account. *)
Posted(r, legs) ==
  LET On(leg, a) == IF leg \in legs /\ Account(saga[r].frozen, leg) = a
                    THEN Amount(saga[r].plan, leg) ELSE 0
  IN [a \in Accounts |-> On("tax", a) + On("recouped", a) + On("excess", a)
                         + On("share", a) + On("dust", a)]

LegNames == {"tax", "recouped", "excess", "share", "dust"}
Legs(r) == Posted(r, LegNames)
Due(r) == {leg \in LegNames : Amount(saga[r].plan, leg) > 0}

(* The legs of a post that threw: they are inserted one by one, in order.  *)
Torn ==
  LET order == <<"tax", "recouped", "excess", "share", "dust">>
  IN {{order[i] : i \in 1..n} : n \in 0..Len(order)}

-----------------------------------------------------------------------------
(* The orders in which the calls go through their steps; a leg without an  *)
(* amount is passed over.                                                  *)

Order ==
  [book |-> <<"begin", "tax", "look", "advance", "sweep", "recouped",
              "excess", "share", "dust", "journal">>,
   compensate |-> <<"begin", "tax", "share", "dust", "recouped", "advance",
                    "sweep", "excess", "withhold">>,
   claw |-> <<"begin", "tax", "recouped", "excess", "share", "dust",
              "advance", "sweep", "journal">>,
   refund |-> <<"dust", "share", "excess", "recouped", "tax", "revert">>,
   unwind |-> <<"begin", "dust", "share", "excess", "recouped", "tax",
                "advance", "sweep", "revert">>]

(* A saga reads the advance to know what it recoups, and sweeps only that; *)
(* a reversal rewrites the advance of every run that met one.              *)
Needed(mode, plan, step) ==
  CASE step \in LegNames -> Amount(plan, step) > 0
    [] step = "advance" /\ mode = "book" -> TRUE
    [] step \in {"advance", "sweep"} /\ mode \in {"book", "compensate"} ->
         Amount(plan, "recouped") > 0
    [] step \in {"advance", "sweep"} -> plan # NoAdvance
    [] OTHER -> TRUE

(* The step that comes after the given one. *)
After(mode, plan, step) ==
  LET order == Order[mode]
      here == CHOOSE i \in DOMAIN order : order[i] = step
      next == CHOOSE i \in here + 1..Len(order) :
                /\ Needed(mode, plan, order[i])
                /\ \A j \in here + 1..i - 1 : ~Needed(mode, plan, order[j])
  IN order[next]

MayTear == "torn" \in Faults /\ (Bounded => broken = {} /\ "cut" \notin flaws)
MayBreak == MayTear /\ (Bounded => \A l \in Lockers : locker[l] = Free)

Plus(f, a, n) == [f EXCEPT ![a] = @ + n]
Add(f, g) == [a \in Accounts |-> f[a] + g[a]]
Sub(f, g) == [a \in Accounts |-> f[a] - g[a]]

(* upsertRecoupmentAdvance with a total computed from an earlier read. *)
Upsert(seen, total) ==
  /\ advance' = total
  /\ flaws' = IF advance = seen THEN flaws ELSE flaws \cup {"overlap"}

-----------------------------------------------------------------------------
(* The saga: executeSplit. *)

Do(r, mode, step) == saga[r].mode = mode /\ saga[r].step = step
Onward(r) == [saga EXCEPT ![r].step = After(saga[r].mode, saga[r].plan, @)]

(* The insert takes the idempotency key: a second try is refused. *)
Begin(r) ==
  /\ status[r] = "none"
  /\ status' = [status EXCEPT ![r] = "posted"]
  /\ saga' = [saga EXCEPT ![r].mode = "begin"]
  /\ UNCHANGED <<money, advance, escrow, ingested, stored, owed, undo, lock, broken, flaws>>

ApplyWithholding(r) ==
  /\ saga[r].mode = "begin"
  /\ escrow' = [escrow EXCEPT ![r] = @ + 1]
  /\ saga' = [saga EXCEPT ![r].mode = "book",
                          ![r].step = After("book", saga[r].plan, "begin")]
  /\ UNCHANGED <<money, advance, status, ingested, stored, owed, undo, lock, broken, flaws>>

(* By the payee's lock, or by one on the work (a catalog dispute).         *)
IsIncomingFrozen(r) ==
  /\ Do(r, "book", "look")
  /\ \E frozen \in {dispute.locked, TRUE} :
       saga' = [saga EXCEPT ![r].frozen = frozen, ![r].step = "advance"]
  /\ UNCHANGED <<money, advance, escrow, status, ingested, stored, owed, undo, lock, broken, flaws>>

(* The rest of the run follows from the advance read here. *)
ReadAdvance(r) ==
  /\ Do(r, "book", "advance")
  /\ saga' = [saga EXCEPT ![r].plan = advance, ![r].seen = advance,
                          ![r].step = After("book", advance, "advance")]
  /\ UNCHANGED <<money, advance, escrow, status, ingested, stored, owed, undo, lock, broken, flaws>>

Sweep(r) ==
  /\ Do(r, "book", "sweep") /\ saga[r].seen # NoAdvance
  /\ Upsert(saga[r].seen, saga[r].seen + Amount(saga[r].plan, "recouped"))
  /\ saga' = Onward(r)
  /\ UNCHANGED <<money, escrow, status, ingested, stored, owed, undo, lock, broken>>

CreditVault(r) ==
  /\ saga[r].mode = "book" /\ saga[r].step \in LegNames
  /\ bal' = Plus(bal, Account(saga[r].frozen, saga[r].step),
                      Amount(saga[r].plan, saga[r].step))
  /\ saga' = Onward(r)
  /\ UNCHANGED <<books, lost, advance, escrow, status, ingested, stored, owed, undo, lock, broken, flaws>>

PostIngest(r) ==
  /\ Do(r, "book", "journal")
  /\ books' = Add(books, Legs(r))
  /\ ingested' = ingested \cup {r}
  /\ stored' = [stored EXCEPT ![r] = Due(r)]
  /\ saga' = [saga EXCEPT ![r].mode = "done", ![r].step = "none"]
  /\ UNCHANGED <<bal, lost, advance, escrow, status, owed, undo, lock, broken, flaws>>

(* postJournal throws: nothing is stored, or the header and some legs are, *)
(* or the whole journal is and the answer was lost.                        *)
IngestThrows(r) ==
  /\ Do(r, "book", "journal")
  /\ saga' = [saga EXCEPT ![r].mode = "compensate",
                          ![r].step = After("compensate", saga[r].plan, "begin")]
  /\ \/ "throw" \in Faults /\ UNCHANGED <<books, lost, ingested, stored, broken>>
     \/ /\ MayBreak
        /\ \E legs \in Torn :
             /\ books' = Add(books, Posted(r, legs))
             /\ lost' = Add(lost, Posted(r, legs))
             /\ stored' = [stored EXCEPT ![r] = legs \cap Due(r)]
        /\ ingested' = ingested \cup {r}
        /\ broken' = broken \cup {r}
  /\ UNCHANGED <<bal, advance, escrow, status, owed, undo, lock, flaws>>

-----------------------------------------------------------------------------
(* compensateFailedSaga: what the credits put in is debited again, guarded *)
(* by the bucket's floor; a refusal is reported and the walk goes on.      *)

(* Mutant: the debit goes ahead without its floor. *)
AnyBacks(a, n) == TRUE

(* The floor holds for every bucket of the debited vault. *)
Backs(a, n) ==
  /\ bal[a] >= n
  /\ \A b \in Vault(a) \ {a} : bal[b] >= 0

DebitBack(r) ==
  LET a == Account(saga[r].frozen, saga[r].step)
      n == Amount(saga[r].plan, saga[r].step)
  IN
  /\ saga[r].mode = "compensate" /\ saga[r].step \in LegNames
  /\ IF Backs(a, n) THEN bal' = Plus(bal, a, -n) /\ UNCHANGED owed
                    ELSE owed' = Plus(owed, a, n) /\ UNCHANGED bal
  /\ saga' = Onward(r)
  /\ UNCHANGED <<books, lost, advance, escrow, status, ingested, stored, undo, lock, broken, flaws>>

RereadAdvance(r) ==
  /\ Do(r, "compensate", "advance")
  /\ saga' = [saga EXCEPT ![r].seen = advance, ![r].step = "sweep"]
  /\ UNCHANGED <<money, advance, escrow, status, ingested, stored, owed, undo, lock, broken, flaws>>

SweepBack(r) ==
  /\ Do(r, "compensate", "sweep") /\ saga[r].seen # NoAdvance
  /\ Upsert(saga[r].seen, Most(0, saga[r].seen - Amount(saga[r].plan, "recouped")))
  /\ saga' = Onward(r)
  /\ UNCHANGED <<money, escrow, status, ingested, stored, owed, undo, lock, broken>>

UnwindEscrowRow(r) ==
  /\ Do(r, "compensate", "withhold")
  /\ escrow' = [escrow EXCEPT ![r] = @ - 1]
  /\ saga' = [saga EXCEPT ![r].mode = "failed", ![r].step = "none"]
  /\ UNCHANGED <<money, advance, status, ingested, stored, owed, undo, lock, broken, flaws>>

Saga(r) ==
  \/ Begin(r) \/ ApplyWithholding(r) \/ IsIncomingFrozen(r) \/ ReadAdvance(r)
  \/ Sweep(r) \/ CreditVault(r) \/ PostIngest(r) \/ IngestThrows(r)
  \/ DebitBack(r) \/ RereadAdvance(r) \/ SweepBack(r) \/ UnwindEscrowRow(r)

-----------------------------------------------------------------------------
(* reverseSplitRun.  What it reads before the claim only refuses, and the  *)
(* claim arbitrates; so does each clawback what its pre-validation reads.  *)

At(v, modes, steps) == call[v].mode \in modes /\ call[v].step \in steps
Plan(v) == saga[call[v].run].plan
(* Only what the journal has is clawed back. *)
Taken(v) ==
  IF call[v].step \in stored[call[v].run] THEN Amount(Plan(v), call[v].step) ELSE 0
Forward(v) == [call EXCEPT ![v].step = After(call[v].mode, Plan(v), @)]

(* Mutant: the transition does not look at the status it leaves. *)
AnyClaim(r) == status[r] # "none"

Claimable(r) == status[r] = "posted"

Claim(v, r) ==
  /\ call[v] = Idle
  /\ r \in ingested /\ r \notin reversal
  /\ Claimable(r)
  /\ status' = [status EXCEPT ![r] = "reversed"]
  /\ \E floorless \in {FALSE, Operating} :
       call' = [call EXCEPT ![v] =
         [mode |-> "claw", step |-> After("claw", saga[r].plan, "begin"),
          run |-> r, seen |-> NoAdvance, floorless |-> floorless]]
  /\ UNCHANGED <<money, advance, escrow, saga, ingested, stored, owed, undone, reversal,
                 lock, broken, flaws>>

(* A refused leg sends the reversal back over the ones before it. *)
Clawback(v) ==
  LET a == Account(saga[call[v].run].frozen, call[v].step)
      n == Taken(v)
  IN
  /\ At(v, {"claw"}, LegNames)
  /\ IF n = 0 \/ call[v].floorless \/ Backs(a, n)
     THEN /\ bal' = Plus(bal, a, -n)
          /\ flaws' = IF n = 0 \/ bal[a] >= n THEN flaws ELSE flaws \cup {"receivable"}
          /\ call' = Forward(v)
     ELSE /\ call' = [call EXCEPT ![v].mode = "refund",
                                  ![v].step = After("refund", Plan(v), @)]
          /\ UNCHANGED <<bal, flaws>>
  /\ UNCHANGED <<books, lost, advance, runs, undone, reversal, lock, broken>>

(* Mutant: the re-credit forgets the leg's bucket. *)
RecreditAvailable(v) ==
  /\ At(v, {"refund", "unwind"}, LegNames)
  /\ bal' = Plus(bal, "available", Taken(v))
  /\ call' = Forward(v)
  /\ UNCHANGED <<books, lost, advance, runs, undone, reversal, lock, broken, flaws>>

Recredit(v) ==
  /\ At(v, {"refund", "unwind"}, LegNames)
  /\ bal' = Plus(bal, Account(saga[call[v].run].frozen, call[v].step), Taken(v))
  /\ call' = Forward(v)
  /\ UNCHANGED <<books, lost, advance, runs, undone, reversal, lock, broken, flaws>>

ReadRollback(v) ==
  /\ At(v, {"claw", "unwind"}, {"advance"})
  /\ call' = [call EXCEPT ![v].seen = advance, ![v].step = "sweep"]
  /\ UNCHANGED <<money, advance, runs, undone, reversal, lock, broken, flaws>>

Rollback(v) ==
  /\ At(v, {"claw"}, {"sweep"}) /\ call[v].seen # NoAdvance
  /\ Upsert(call[v].seen, Most(0, call[v].seen - Amount(Plan(v), "recouped")))
  /\ call' = Forward(v)
  /\ UNCHANGED <<money, runs, undone, reversal, lock, broken>>

(* Sagas may have swept into the room the rollback made. *)
ReapplyRollback(v) ==
  /\ At(v, {"unwind"}, {"sweep"}) /\ call[v].seen # NoAdvance
  /\ advance' = call[v].seen + Amount(Plan(v), "recouped")
  /\ flaws' = flaws \cup {"reapplied"}
                    \cup (IF advance = call[v].seen THEN {} ELSE {"overlap"})
  /\ call' = Forward(v)
  /\ UNCHANGED <<money, runs, undone, reversal, lock, broken>>

(* A journal that is not balanced is refused: one that lacks legs.         *)
Complete(r) == Due(r) \subseteq stored[r]

PostReversal(v) ==
  LET r == call[v].run IN
  /\ At(v, {"claw"}, {"journal"}) /\ Complete(r)
  /\ books' = Sub(books, Legs(r))
  /\ undone' = [undone EXCEPT ![r] = @ + 1]
  /\ call' = [call EXCEPT ![v].mode = "close", ![v].step = "withhold"]
  /\ UNCHANGED <<bal, lost, advance, runs, reversal, lock, broken, flaws>>

ReversalThrows(v) ==
  LET r == call[v].run IN
  /\ Bounded => "reapplied" \notin flaws
  /\ At(v, {"claw"}, {"journal"})
  /\ call' = [call EXCEPT ![v].mode = "unwind",
                          ![v].step = After("unwind", Plan(v), "begin")]
  /\ \/ /\ "throw" \in Faults \/ ~Complete(r)
        /\ UNCHANGED <<books, lost, undone, broken>>
     \/ /\ MayBreak /\ Complete(r)
        /\ \E legs \in Torn : /\ books' = Sub(books, Posted(r, legs))
                              /\ lost' = Sub(lost, Posted(r, legs))
        /\ undone' = [undone EXCEPT ![r] = @ + 1]
        /\ broken' = broken \cup {r}
  /\ UNCHANGED <<bal, advance, runs, reversal, lock, flaws>>

RevertClaim(v) ==
  LET r == call[v].run IN
  /\ At(v, {"refund", "unwind"}, {"revert"})
  /\ status' = [status EXCEPT ![r] = IF @ = "reversed" THEN "posted" ELSE @]
  /\ call' = [call EXCEPT ![v] = Idle]
  /\ UNCHANGED <<money, advance, escrow, saga, ingested, stored, owed, undone, reversal,
                 lock, broken, flaws>>

(* Every row of the run is negated, earlier corrections too. *)
UnwindEscrowForRun(v) ==
  /\ At(v, {"close"}, {"withhold"})
  /\ escrow' = [escrow EXCEPT ![call[v].run] = 0]
  /\ call' = [call EXCEPT ![v].step = "row"]
  /\ UNCHANGED <<money, advance, status, saga, ingested, stored, owed, undone, reversal,
                 lock, broken, flaws>>

InsertSplitReversal(v) ==
  /\ At(v, {"close"}, {"row"})
  /\ reversal' = reversal \cup {call[v].run}
  /\ call' = [call EXCEPT ![v] = Idle]
  /\ UNCHANGED <<money, advance, runs, undone, lock, broken, flaws>>

Reverse(v) ==
  \/ \E r \in Runs : Claim(v, r)
  \/ Clawback(v) \/ Recredit(v) \/ ReadRollback(v) \/ Rollback(v)
  \/ ReapplyRollback(v) \/ PostReversal(v) \/ ReversalThrows(v)
  \/ RevertClaim(v) \/ UnwindEscrowForRun(v) \/ InsertSplitReversal(v)

-----------------------------------------------------------------------------
(* applyDisputeLock, with the default amount: all that is available and    *)
(* pending.                                                                *)

Underway == {"move", "journal", "upsert"}

ReadVault(l, locked) ==
  /\ Bounded => broken = {} /\ "cut" \notin flaws
  /\ locker[l] = Free
  /\ locker' = [locker EXCEPT ![l] =
       IF locked
       THEN [step |-> "read", locked |-> TRUE, available |-> bal["available"],
             pending |-> bal["pending"], reserve |-> 0]
       ELSE [step |-> "read", locked |-> FALSE, available |-> 0, pending |-> 0,
             reserve |-> bal["reserve"]]]
  /\ UNCHANGED <<money, advance, runs, undo, dispute, broken, flaws>>

(* Two calls that act on one dispute row. *)
Begun(l) ==
  flaws' = IF \E k \in Lockers \ {l} : locker[k].step \in Underway
           THEN flaws \cup {"relock"} ELSE flaws

(* A vault that cannot cover the freeze, with a pending bucket in debt.    *)
DecideLock(l) ==
  LET vault == locker[l]
      amount == vault.available + vault.pending
      available == Least(amount, vault.available)
      pending == amount - available
  IN
  /\ locker[l].step = "read" /\ locker[l].locked
  /\ IF dispute.locked \/ amount < 0 \/ pending > vault.pending
     THEN locker' = [locker EXCEPT ![l] = Free] /\ UNCHANGED flaws
     ELSE /\ locker' = [locker EXCEPT ![l] = [step |-> "move", locked |-> TRUE,
                          available |-> available, pending |-> pending,
                          reserve |-> 0]]
          /\ Begun(l)
  /\ UNCHANGED <<money, advance, runs, undo, dispute, broken>>

(* The unlock moves what the dispute row remembers; it is refused when the *)
(* vault, read before the row, did not have that in reserve.               *)
DecideUnlock(l) ==
  LET frozen == dispute.available + dispute.pending
      thaws == dispute.locked /\ frozen > 0
  IN
  /\ locker[l].step = "read" /\ ~locker[l].locked
  /\ IF thaws /\ locker[l].reserve < frozen
     THEN locker' = [locker EXCEPT ![l] = Free] /\ UNCHANGED flaws
     ELSE /\ locker' = [locker EXCEPT ![l] =
               [step |-> IF thaws THEN "move" ELSE "upsert", locked |-> FALSE,
                available |-> IF thaws THEN dispute.available ELSE 0,
                pending |-> IF thaws THEN dispute.pending ELSE 0, reserve |-> 0]]
          /\ Begun(l)
  /\ UNCHANGED <<money, advance, runs, undo, dispute, broken>>

(* A lock's delta, and its inverse for an unlock. *)
Swept(f, l) ==
  LET way == IF locker[l].locked THEN 1 ELSE -1
      available == way * locker[l].available
      pending == way * locker[l].pending
  IN [f EXCEPT !["available"] = @ - available, !["pending"] = @ - pending,
               !["reserve"] = @ + available + pending]

Covered(l) ==
  IF locker[l].locked
  THEN bal["available"] >= locker[l].available /\ bal["pending"] >= locker[l].pending
  ELSE bal["reserve"] >= locker[l].available + locker[l].pending

MoveFrozen(l) ==
  /\ locker[l].step = "move"
  /\ IF Covered(l)
     THEN /\ bal' = Swept(bal, l)
          /\ locker' = [locker EXCEPT ![l].step =
               IF locker[l].available + locker[l].pending > 0
               THEN "journal" ELSE "upsert"]
     ELSE /\ locker' = [locker EXCEPT ![l] = Free]
          /\ UNCHANGED bal
  /\ UNCHANGED <<books, lost, advance, runs, undo, dispute, broken, flaws>>

PostSweep(l) ==
  /\ locker[l].step = "journal"
  /\ books' = Swept(books, l)
  /\ locker' = [locker EXCEPT ![l].step = "upsert"]
  /\ UNCHANGED <<bal, lost, advance, runs, undo, dispute, broken, flaws>>

(* Its journal throws, with some legs stored or none: the money has moved, *)
(* and neither the journals nor the dispute row follow.                    *)
SweepThrows(l) ==
  LET order == IF locker[l].locked THEN <<"available", "pending", "reserve">>
                                   ELSE <<"reserve", "available", "pending">>
  IN
  /\ MayTear
  /\ locker[l].step = "journal"
  /\ \E n \in 0..3 :
       books' = [a \in Accounts |-> IF \E i \in 1..n : order[i] = a
                                    THEN Swept(books, l)[a] ELSE books[a]]
  /\ lost' = [a \in Accounts |-> lost[a] + books'[a] - Swept(books, l)[a]]
  /\ locker' = [locker EXCEPT ![l] = Free]
  /\ flaws' = flaws \cup {"cut"}
  /\ UNCHANGED <<bal, advance, runs, undo, dispute, broken>>

UpsertDispute(l) ==
  /\ locker[l].step = "upsert"
  /\ dispute' =
       IF locker[l].locked
       THEN [locked |-> TRUE, available |-> locker[l].available,
             pending |-> locker[l].pending]
       ELSE [locked |-> FALSE, available |-> 0, pending |-> 0]
  /\ locker' = [locker EXCEPT ![l] = Free]
  /\ UNCHANGED <<money, advance, runs, undo, broken, flaws>>

Lock(l) ==
  \/ \E locked \in BOOLEAN : ReadVault(l, locked)
  \/ DecideLock(l) \/ DecideUnlock(l) \/ MoveFrozen(l) \/ PostSweep(l)
  \/ SweepThrows(l) \/ UpsertDispute(l)

-----------------------------------------------------------------------------
(* What else moves the payee's money (VaultPayouts): a pending release,    *)
(* which no lock refuses, and a payout.                                    *)

ReleaseVaultPending ==
  LET n == bal["pending"] IN
  /\ n > 0
  /\ bal' = Plus(Plus(bal, "pending", -n), "available", n)
  /\ books' = Plus(Plus(books, "pending", -n), "available", n)
  /\ UNCHANGED <<lost, advance, runs, undo, lock, broken, flaws>>

PayoutFromVault ==
  LET n == bal["available"] IN
  /\ n > 0 /\ ~dispute.locked
  /\ bal' = Plus(bal, "available", -n)
  /\ books' = Plus(books, "available", -n)
  /\ UNCHANGED <<lost, advance, runs, undo, lock, broken, flaws>>

Next ==
  \/ \E r \in Runs : Saga(r)
  \/ \E v \in Reversals : Reverse(v)
  \/ \E l \in Lockers : Lock(l)
  \/ ReleaseVaultPending \/ PayoutFromVault

Spec == Init /\ [][Next]_vars

-----------------------------------------------------------------------------
(* Properties *)

Ended(r) == saga[r].mode \in {"none", "done", "failed"}
Quiet ==
  /\ \A r \in Runs : Ended(r)
  /\ \A v \in Reversals : call[v] = Idle
  /\ \A l \in Lockers : locker[l].step \in {"idle", "read"}

Plans == Nat \cup {NoAdvance}
Steps == LegNames \cup {"none", "idle", "begin", "look", "advance", "sweep",
                        "journal", "withhold", "revert", "row"}
SagaModes == {"none", "begin", "book", "compensate", "done", "failed"}
CallModes == {"idle", "claw", "refund", "unwind", "close"}

(* Types; and no guarded debit of a saga, a reversal, a lock or a payout   *)
(* ever takes a bucket below zero: only an operator's reversal does, and   *)
(* says so (splitReversal.ts:167).                                         *)
TypeOK ==
  /\ bal \in [Accounts -> Int] /\ books \in [Accounts -> Int]
  /\ owed \in [Accounts -> Nat] /\ lost \in [Accounts -> Int]
  /\ advance \in Plans
  /\ status \in [Runs -> {"none", "posted", "reversed"}]
  /\ escrow \in [Runs -> Int] /\ undone \in [Runs -> Nat]
  /\ stored \in [Runs -> SUBSET LegNames]
  /\ ingested \subseteq Runs /\ reversal \subseteq Runs /\ broken \subseteq Runs
  /\ flaws \subseteq {"overlap", "relock", "receivable", "reapplied", "cut"}
  /\ saga \in [Runs -> [mode : SagaModes, step : Steps, frozen : BOOLEAN,
                         plan : Plans, seen : Plans]]
  /\ call \in [Reversals -> [mode : CallModes, step : Steps, run : Runs \cup {NoRun},
                              seen : Plans, floorless : BOOLEAN]]
  /\ locker \in [Lockers -> [step : {"idle", "read"} \cup Underway, locked : BOOLEAN,
                              available : Int, pending : Int, reserve : Int]]
  /\ dispute \in [locked : BOOLEAN, available : Int, pending : Int]
  /\ "receivable" \notin flaws => \A a \in Accounts : bal[a] >= 0

(* When every call has ended, the vault and the journals differ by exactly *)
(* what a failed saga's message names as not debited back                  *)
(* (udrSplits.ts:108) and by what journal posts that threw had stored,     *)
(* wholly or in part (ledger/engine.ts:90); also when a run whose journal  *)
(* is incomplete was compensated, or a reversal of it was begun and        *)
(* refused.                                                                *)
VaultsMatchBooks ==
  Quiet => bal = [a \in Accounts |-> books[a] - lost[a] + owed[a]]

(* A run is reversed at most once: one call holds the claim, and only a    *)
(* run whose journal is complete is reversed.  Unless a post of one of its *)
(* journals threw with something stored (broken), it is booked whole or    *)
(* not at all; one that says reversed with no call on it has its journal,  *)
(* its row and no tax left, one that says posted has none of them and its  *)
(* tax (splitReversal.ts:220).                                             *)
ReversedOnce ==
  \A r \in Runs :
    LET holders == {v \in Reversals : call[v].run = r} IN
    /\ \A v, w \in holders : v = w
    /\ undone[r] > 0 \/ r \in reversal => r \in ingested /\ Complete(r)
    /\ r \notin broken =>
         /\ saga[r].mode = "failed" => r \notin ingested /\ escrow[r] = 0
         /\ r \in ingested => Complete(r)
         /\ undone[r] <= 1 /\ (undone[r] = 1 => status[r] = "reversed")
         /\ saga[r].mode = "done" /\ holders = {} =>
              /\ status[r] = "posted" => undone[r] = 0 /\ escrow[r] = 1
              /\ status[r] = "reversed" =>
                   undone[r] = 1 /\ escrow[r] = 0 /\ r \in reversal

(* The advance stands at what the company has recouped, through sweeps,    *)
(* compensations and reversals; unless two calls rewrite it at once, it is *)
(* an absolute upsert (recoupment/engine.ts:108).  No payee is swept       *)
(* beyond the target, unless a failed reversal puts its part back after    *)
(* others used the room (splitReversal.ts:133).                            *)
RecoupedMatches ==
  advance # NoAdvance /\ "overlap" \notin flaws /\ broken = {} =>
    /\ Quiet => advance = bal["platform"]
    /\ "reapplied" \notin flaws => advance <= Target

(* While a payee is locked and no dispute call is past its reads, the      *)
(* reserve holds what the dispute row says was frozen, next to taxes and   *)
(* incoming credits that sagas add to it and reversals take from it        *)
(* (dispute.ts:93); unless dispute calls overlapped, or a journal threw.   *)
FrozenAccounted ==
  /\ dispute.locked /\ broken = {} /\ flaws \cap {"relock", "cut"} = {}
  /\ \A l \in Lockers : locker[l].step \in {"idle", "read"}
  => bal["reserve"] >= dispute.available + dispute.pending
=============================================================================
