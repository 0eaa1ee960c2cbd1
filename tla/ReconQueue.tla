---------------------------- MODULE ReconQueue -----------------------------
(***************************************************************************)
(* The reconciliation job queue and the workers that run it: claims with a *)
(* retry budget and stale-claim recovery, the pass that records the lines  *)
(* of a statement in match_queue and posts their money to a holding, and   *)
(* the guarded transitions that end it.  Every await is a step, so workers *)
(* overlap, die and are overtaken between any two of them.  A claim        *)
(* carries no token: whoever holds the id of a job may end it.             *)
(***************************************************************************)
EXTENDS Naturals

CONSTANTS
  Jobs,         \* rows of royalty_recon_jobs
  Workers,      \* worker processes
  Lines,        \* statement lines, by their event_id
  LinesOf,      \* LinesOf[j]: the lines of the ingest of j; ingests may be shared
  Postable,     \* lines with rights, a positive gross and no adjustment
  Identified,   \* lines with a primary identifier
  MaxAttempts,  \* RECON_MAX_ATTEMPTS
  NoJob,        \* the job of an idle worker
  NoLine,       \* the line of a worker between lines
  Faults,       \* TRUE: store calls may throw and workers may die
  Overtaking    \* TRUE: a claim may go stale while its worker still runs

ASSUME QueueAssumption ==
  /\ LinesOf \in [Jobs -> (SUBSET Lines) \ {{}}]
  /\ Postable \subseteq Lines
  /\ Identified \subseteq Lines
  /\ MaxAttempts \in Nat \ {0}
  /\ NoJob \notin Jobs /\ NoLine \notin Lines
  /\ Faults \in BOOLEAN
  /\ Overtaking \in BOOLEAN

VARIABLES
  status,     \* status[j]: royalty_recon_jobs.status; "none" before the insert
  attempts,   \* attempts[j]: the column
  stale,      \* processing jobs claimed more than 30 minutes ago
  worker,     \* worker[w]: what w is doing and has read
  known,      \* lines whose identifiers a verified vault asset carries
  queue,      \* match_queue: the event_ids with a row
  credits,    \* holding rows of the ledger, by line, kind, job and attempt
  journals,   \* their journals, with ref ("match_queue", line)
  disturbed   \* history: lines whose post was cut short or ran twice at once

table == <<status, attempts, stale>>
ledger == <<credits, journals>>
vars == <<table, worker, known, queue, ledger, disturbed>>

Terminal == {"completed", "failed"}
Open == {"pending", "processing"}
Kinds == {"unclaimed_holding", "unclaimed_identifier_hold"}

Idle == [step |-> "idle", job |-> NoJob, attempt |-> 0, seen |-> 0,
         left |-> {}, hits |-> {}, todo |-> {}, line |-> NoLine]

Init ==
  /\ status = [j \in Jobs |-> "none"]
  /\ attempts = [j \in Jobs |-> 0]
  /\ stale = {}
  /\ worker = [w \in Workers |-> Idle]
  /\ known = {}
  /\ queue = {}
  /\ credits = {} /\ journals = {}
  /\ disturbed = {}

-----------------------------------------------------------------------------
(* The table of jobs. *)

CreateReconJob(j) ==
  /\ status[j] = "none"
  /\ status' = [status EXCEPT ![j] = "pending"]
  /\ UNCHANGED <<attempts, stale, worker, known, queue, ledger, disturbed>>

(* Thirty minutes pass on a claim. *)
GoStale(j) ==
  /\ status[j] = "processing" /\ j \notin stale
  /\ Overtaking \/ \A w \in Workers : worker[w].job # j
  /\ stale' = stale \cup {j}
  /\ UNCHANGED <<status, attempts, worker, known, queue, ledger, disturbed>>

(* Mutant: a dead worker's claim is never taken over. *)
PendingOnly(j) == status[j] = "pending"

(* Rows another claim has locked are skipped, so any of these may come up. *)
Claimable(j) == status[j] = "pending" \/ j \in stale

(* Mutant: migration 0011's claim, which looks at no budget. *)
NoBudget(j) == FALSE

Spent(j) == attempts[j] >= MaxAttempts

(* claim_royalty_recon_job: one transaction. *)
ClaimReconJob(w) ==
  /\ worker[w] = Idle
  /\ \E j \in Jobs :
       /\ Claimable(j)
       /\ stale' = stale \ {j}
       /\ IF Spent(j)
          THEN /\ status' = [status EXCEPT ![j] = "failed"]
               /\ UNCHANGED <<attempts, worker>>
          ELSE /\ status' = [status EXCEPT ![j] = "processing"]
               /\ attempts' = [attempts EXCEPT ![j] = @ + 1]
               /\ worker' = [worker EXCEPT ![w] =
                    [Idle EXCEPT !.step = "pass", !.job = j,
                                 !.attempt = attempts[j] + 1,
                                 !.left = LinesOf[j]]]
  /\ UNCHANGED <<known, queue, ledger, disturbed>>

-----------------------------------------------------------------------------
(* One pass over a statement. *)

At(w, step) == worker[w].step = step
Go(w, to) == worker' = [worker EXCEPT ![w].step = to]

Kind(w, e) ==
  IF e \in worker[w].hits THEN "unclaimed_holding"
                          ELSE "unclaimed_identifier_hold"

(* A vault asset with the line's identifiers is registered and verified. *)
Register(e) ==
  /\ e \notin known
  /\ known' = known \cup {e}
  /\ UNCHANGED <<table, worker, queue, ledger, disturbed>>

(* writeLinesToMatchQueue looks the line up and inserts its row; the row   *)
(* of an earlier pass stays as it is and the line goes on all the same.    *)
(* What is matched posts to the unclaimed holding, what is not but has an  *)
(* identifier to the hold of that identifier.                              *)
WriteLine(w) ==
  /\ At(w, "pass")
  /\ \E e \in worker[w].left :
       LET hit == e \in known
           post == e \in Postable /\ (hit \/ e \in Identified)
       IN  /\ queue' = queue \cup {e}
           /\ worker' = [worker EXCEPT
                ![w].left = @ \ {e},
                ![w].hits = IF hit THEN @ \cup {e} ELSE @,
                ![w].todo = IF post THEN @ \cup {e} ELSE @]
  /\ UNCHANGED <<table, known, ledger, disturbed>>

(* The lines whose turn it is: matched lines are posted first. *)
Turn(w) ==
  {e \in worker[w].todo :
     e \in worker[w].hits \/ worker[w].todo \cap worker[w].hits = {}}

(* Mutant: the two holdings look for different journals. *)
PostedAsKind(w, e) == \E p \in journals : p.line = e /\ p.kind = Kind(w, e)

(* The replay guard of both holdings: a journal with the event's ref. *)
Posted(w, e) == \E p \in journals : p.line = e

(* Other workers that are past the guard for e. *)
Past(w, e) == {v \in Workers \ {w} : worker[v].line = e}

CheckPosted(w) ==
  /\ At(w, "pass") /\ worker[w].left = {}
  /\ \E e \in Turn(w) :
       IF Posted(w, e)
       THEN /\ worker' = [worker EXCEPT ![w].todo = @ \ {e}]
            /\ UNCHANGED disturbed
       ELSE /\ worker' = [worker EXCEPT ![w].step = "row", ![w].line = e]
            /\ disturbed' = IF Past(w, e) = {} THEN disturbed
                                               ELSE disturbed \cup {e}
  /\ UNCHANGED <<table, known, queue, ledger>>

Post(w) ==
  [line |-> worker[w].line, kind |-> Kind(w, worker[w].line),
   job |-> worker[w].job, attempt |-> worker[w].attempt]

(* Mutant: a row that could not be written goes unnoticed. *)
InsertCreditUnchecked(w) ==
  /\ At(w, "row")
  /\ credits' \in {credits, credits \cup {Post(w)}}
  /\ Go(w, "journal")
  /\ UNCHANGED <<table, known, queue, journals, disturbed>>

InsertCredit(w) ==
  /\ At(w, "row")
  /\ credits' = credits \cup {Post(w)}
  /\ Go(w, "journal")
  /\ UNCHANGED <<table, known, queue, journals, disturbed>>

PostJournal(w) ==
  /\ At(w, "journal")
  /\ journals' = journals \cup {Post(w)}
  /\ worker' = [worker EXCEPT ![w].step = "pass", ![w].line = NoLine,
                              ![w].todo = @ \ {worker[w].line}]
  /\ UNCHANGED <<table, known, queue, credits, disturbed>>

(* A post that stops between its row and its journal. *)
CutShort(w) ==
  disturbed' = IF At(w, "journal") THEN disturbed \cup {worker[w].line}
                                   ELSE disturbed

(* Anything the pass throws leads to failReconJob; so does completeReconJob *)
(* itself.  A reply lost after its effect is the next call's throw.         *)
Throw(w) ==
  /\ Faults
  /\ worker[w].step \in {"pass", "row", "journal", "complete"}
  /\ worker' = [worker EXCEPT ![w].step = "fail", ![w].left = {},
                  ![w].hits = {}, ![w].todo = {}, ![w].line = NoLine]
  /\ CutShort(w)
  /\ UNCHANGED <<table, known, queue, ledger>>

(* The process dies, or failReconJob throws and the loop goes on. *)
Drop(w) ==
  /\ Faults
  /\ worker[w] # Idle
  /\ worker' = [worker EXCEPT ![w] = Idle]
  /\ CutShort(w)
  /\ UNCHANGED <<table, known, queue, ledger>>

-----------------------------------------------------------------------------
(* completeReconJob and failReconJob: a read, then an update guarded by    *)
(* the status alone.                                                       *)

Done(w) == At(w, "pass") /\ worker[w].left = {} /\ worker[w].todo = {}

End(w) == worker' = [worker EXCEPT ![w] = Idle]

ReadForComplete(w) ==
  /\ Done(w)
  /\ IF status[worker[w].job] \in Terminal THEN End(w) ELSE Go(w, "complete")
  /\ UNCHANGED <<table, known, queue, ledger, disturbed>>

(* Mutant: the update trusts the read. *)
Unguarded(j) == TRUE

StillOpen(j) == status[j] \in Open

(* The row keeps claimed_at and a completed job is never claimable. *)
CompleteReconJob(w) ==
  LET j == worker[w].job
  IN  /\ At(w, "complete")
      /\ End(w)
      /\ IF StillOpen(j)
         THEN /\ status' = [status EXCEPT ![j] = "completed"]
              /\ stale' = stale \ {j}
         ELSE UNCHANGED <<status, stale>>
      /\ UNCHANGED <<attempts, known, queue, ledger, disturbed>>

ReadForFail(w) ==
  /\ At(w, "fail")
  /\ IF status[worker[w].job] \in Terminal
     THEN End(w)
     ELSE worker' = [worker EXCEPT ![w].step = "refuse",
                                   ![w].seen = attempts[worker[w].job]]
  /\ UNCHANGED <<table, known, queue, ledger, disturbed>>

(* Mutant: one try too few. *)
LastTryMiscounted(n) == n + 1 >= MaxAttempts

LastTry(n) == n >= MaxAttempts

(* The patch is chosen by the attempts that were read. *)
FailReconJob(w) ==
  LET j == worker[w].job
  IN  /\ At(w, "refuse")
      /\ End(w)
      /\ IF StillOpen(j)
         THEN /\ status' = [status EXCEPT ![j] =
                   IF LastTry(worker[w].seen) THEN "failed" ELSE "pending"]
              /\ stale' = stale \ {j}
         ELSE UNCHANGED <<status, stale>>
      /\ UNCHANGED <<attempts, known, queue, ledger, disturbed>>

-----------------------------------------------------------------------------
Pass(w) ==
  \/ WriteLine(w) \/ CheckPosted(w) \/ InsertCredit(w) \/ PostJournal(w)
  \/ ReadForComplete(w) \/ CompleteReconJob(w)
  \/ ReadForFail(w) \/ FailReconJob(w)

Next ==
  \/ \E j \in Jobs : CreateReconJob(j) \/ GoStale(j)
  \/ \E e \in Lines : Register(e)
  \/ \E w \in Workers : ClaimReconJob(w) \/ Pass(w) \/ Throw(w) \/ Drop(w)

Spec == Init /\ [][Next]_vars

(* The loop of runWorkerLoop polls and runs on, and time passes.  Nothing  *)
(* forces a fault, an overtaken claim or a registration.                   *)
Abandoned(j) == \A w \in Workers : worker[w].job # j

Fairness ==
  /\ \A w \in Workers : WF_vars(ClaimReconJob(w)) /\ WF_vars(Pass(w))
  /\ \A j \in Jobs : WF_vars(Abandoned(j) /\ GoStale(j))

FairSpec == Spec /\ Fairness

-----------------------------------------------------------------------------
Posts == [line : Lines, kind : Kinds, job : Jobs, attempt : 1 .. MaxAttempts]

Busy ==
  [step : {"pass", "row", "journal", "complete", "fail", "refuse"},
   job : Jobs, attempt : 1 .. MaxAttempts, seen : 0 .. MaxAttempts,
   left : SUBSET Lines, hits : SUBSET Lines, todo : SUBSET Lines,
   line : Lines \cup {NoLine}]

(* The types of the variables; a line is in hand exactly past the guard. *)
TypeOK ==
  /\ status \in [Jobs -> {"none"} \cup Open \cup Terminal]
  /\ attempts \in [Jobs -> 0 .. MaxAttempts]
  /\ stale \subseteq {j \in Jobs : status[j] = "processing"}
  /\ worker \in [Workers -> Busy \cup {Idle}]
  /\ \A w \in Workers : worker[w].line # NoLine <=> worker[w].step \in {"row", "journal"}
  /\ known \subseteq Lines
  /\ queue \subseteq Lines
  /\ credits \subseteq Posts /\ journals \subseteq Posts
  /\ disturbed \subseteq Lines

(* "Never a double post" (worker.ts:1583): whichever of the passes of      *)
(* whichever jobs get at a line, through whichever of the two holdings,    *)
(* its money is credited once, as long as no post of it was cut short      *)
(* between row and journal and no two workers were past its guard at once. *)
CreditedOnce ==
  \A a, b \in credits : a.line = b.line /\ a.line \notin disturbed => a = b

(* Even a disturbed line is credited at most once per attempt, and every   *)
(* journal of a holding has its credit: the books never show held money    *)
(* that no row can release.                                                *)
JournalsHaveCredits ==
  /\ journals \subseteq credits
  /\ \A a, b \in credits :
       a.line = b.line /\ a.job = b.job /\ a.attempt = b.attempt => a = b

(* The lines that no pass may leave without a journal. *)
Due == Postable \cap Identified

Secured == {e \in queue : e \in Due => \E p \in journals : p.line = e}

(* Every step of the queue is a step of JobBoard: one verdict per job,     *)
(* failure only of a spent budget, and no line of a completed job dropped, *)
(* whoever's late complete or fail arrives when.                           *)
Board == INSTANCE JobBoard WITH
  LinesOf <- LinesOf,
  tries <- attempts,
  verdict <- [j \in Jobs |-> IF status[j] \in Terminal THEN status[j] ELSE "none"],
  secured <- Secured

ImplementsBoard == Board!Spec

(* Every job that was created ends, though workers die at any step. *)
EveryJobEnds == \A j \in Jobs : status[j] = "pending" ~> status[j] \in Terminal
=============================================================================
