---------------------------- MODULE JournalChain ---------------------------
(***************************************************************************)
(* The hash-chained general ledger: concurrent calls of postJournal, each  *)
(* reading the latest journal, inserting its header under the UNIQUE       *)
(* sequence of migration 0009 and then its legs one by one, and the ledger *)
(* audit that re-computes the chain while they go on.                      *)
(*                                                                         *)
(* SHA-256 is taken to be injective: a hash is the record of what was      *)
(* hashed.  A timestamp is the post it was taken for and its notation.     *)
(***************************************************************************)
EXTENDS Integers, Sequences, FiniteSetsExt

CONSTANTS
  Posts,        \* calls of postJournal
  Legs,         \* gl_entries rows: records with debit_cents, credit_cents
  LegsOf,       \* LegsOf[p]: the legs of call p
  MaxAttempts,  \* MAX_SEQUENCE_ATTEMPTS
  Faults        \* TRUE: requests to the database may fail, servers may die

ASSUME ChainAssumption ==
  /\ IsFiniteSet(Posts)
  /\ LegsOf \in [Posts -> Seq(Legs)]
  /\ MaxAttempts \in Nat \ {0}
  /\ Faults \in BOOLEAN

VARIABLES
  journals,  \* gl_journals
  entries,   \* entries[id]: the gl_entries of journal id, in insertion order
  step,      \* step[p]: the next step of call p
  attempt,   \* attempt[p]: its turn of the sequence loop
  last,      \* last[p]: the latest journal it read, a set of at most one row
  store,     \* the store behind both: SupabaseStore when deployed, else the
             \* SQLite or memory store; it never changes
  audit      \* the ledger audit: its step, the rows it listed, the legs it
             \* read for them, and the broken_at it reported (0 is null)

vars == <<journals, entries, step, attempt, last, store, audit>>

Ids == Posts \X (1 .. MaxAttempts)
Genesis == "GL_GENESIS_HASH"

(* toISOString when posted; the timestamptz column of Postgres gives back  *)
(* the same instant in another notation, the local stores' TEXT the same   *)
(* string.                                                                 *)
CreatedAt(p) == <<"iso", p>>
ReadBack(t) == IF store = "supabase" THEN <<"postgrest", t[2]>> ELSE t

HashJournal(p, legs, created_at, sequence, prev_hash) ==
  [post |-> p, legs |-> legs, created_at |-> created_at,
   sequence |-> sequence, prev_hash |-> prev_hash]

(* validateJournal: the two sides meet exactly and money moves. *)
Debits(legs) == MapThenSumSet(LAMBDA k : legs[k].debit_cents, DOMAIN legs)
Credits(legs) == MapThenSumSet(LAMBDA k : legs[k].credit_cents, DOMAIN legs)
Balanced(legs) == Debits(legs) = Credits(legs) /\ Debits(legs) > 0

(* The row with the highest sequence, if there are rows. *)
Latest(rows) == {j \in rows : \A k \in rows : k.sequence =< j.sequence}

TheRow(latest) == CHOOSE j \in latest : TRUE

NextSequence(latest) == IF latest = {} THEN 1 ELSE TheRow(latest).sequence + 1

LinkTo(latest) == IF latest = {} THEN Genesis ELSE TheRow(latest).entry_hash

Init ==
  /\ journals = {}
  /\ entries = [id \in Ids |-> << >>]
  /\ step = [p \in Posts |-> "validate"]
  /\ attempt = [p \in Posts |-> 1]
  /\ last = [p \in Posts |-> {}]
  /\ store \in {"supabase", "local"}
  /\ audit = [step |-> "idle", rows |-> {}, legs |-> << >>, broken_at |-> 0]

-----------------------------------------------------------------------------
(* postJournal *)

Go(p, from, to) == step[p] = from /\ step' = [step EXCEPT ![p] = to]

(* A refused journal persists nothing. *)
Validate(p) ==
  /\ Go(p, "validate", IF Balanced(LegsOf[p]) THEN "latest" ELSE "refused")
  /\ UNCHANGED <<journals, entries, attempt, last, audit>>

(* Mutant: the latest journal is read once, before the loop. *)
ReadLatestOnce(p) ==
  /\ Go(p, "latest", "insert")
  /\ last' = IF attempt[p] > 1 THEN last ELSE [last EXCEPT ![p] = Latest(journals)]
  /\ UNCHANGED <<journals, entries, attempt, audit>>

(* getLatestGlJournal, in every turn of the loop. *)
ReadLatest(p) ==
  /\ Go(p, "latest", "insert")
  /\ last' = [last EXCEPT ![p] = Latest(journals)]
  /\ UNCHANGED <<journals, entries, attempt, audit>>

NewRow(p) ==
  LET sequence == NextSequence(last[p])
      prev_hash == LinkTo(last[p])
  IN [id |-> <<p, attempt[p]>>, post |-> p, created_at |-> CreatedAt(p),
      sequence |-> sequence, prev_hash |-> prev_hash,
      entry_hash |-> HashJournal(p, LegsOf[p], CreatedAt(p), sequence, prev_hash)]

(* Mutant: gl_journals without UNIQUE (sequence). *)
NeverTaken(s) == FALSE

(* UNIQUE (sequence) refuses the row. *)
Taken(s) == \E j \in journals : j.sequence = s

(* Mutant: the loop over the legs stops one short. *)
LegsDoneEarly(p, n) == n + 1 >= Len(LegsOf[p])

LegsDone(p, n) == n = Len(LegsOf[p])

InsertJournal(p) ==
  /\ Go(p, "insert", IF LegsDone(p, 0) THEN "posted" ELSE "legs")
  /\ ~ Taken(NextSequence(last[p]))
  /\ journals' = journals \cup {NewRow(p)}
  /\ UNCHANGED <<entries, attempt, last, audit>>

(* Mutant: the last failure is retried as well. *)
RetryForEver(p) ==
  /\ Go(p, "insert", "latest")
  /\ attempt' = [attempt EXCEPT ![p] = @ + 1]

(* Mutant: one turn too few. *)
RetryOneLess(p) ==
  /\ Go(p, "insert", IF attempt[p] + 1 >= MaxAttempts THEN "raised" ELSE "latest")
  /\ attempt' = [attempt EXCEPT ![p] = IF @ + 1 >= MaxAttempts THEN @ ELSE @ + 1]

(* The catch: any error of the insert is retried, the last one raised. *)
Retry(p) ==
  /\ Go(p, "insert", IF attempt[p] = MaxAttempts THEN "raised" ELSE "latest")
  /\ attempt' = [attempt EXCEPT ![p] = IF @ = MaxAttempts THEN @ ELSE @ + 1]

InsertConflict(p) ==
  /\ Taken(NextSequence(last[p]))
  /\ Retry(p)
  /\ UNCHANGED <<journals, entries, last, audit>>

(* The request fails before the row is committed, or its reply is lost     *)
(* after; the catch cannot tell.                                           *)
InsertFails(p) ==
  /\ Faults
  /\ Retry(p)
  /\ \/ UNCHANGED journals
     \/ ~ Taken(NextSequence(last[p])) /\ journals' = journals \cup {NewRow(p)}
  /\ UNCHANGED <<entries, last, audit>>

(* The journal whose insert succeeded, and its legs so far. *)
Made(p) == <<p, attempt[p]>>
WithNextLeg(p) == Append(entries[Made(p)], LegsOf[p][Len(entries[Made(p)]) + 1])

InsertLeg(p) ==
  /\ Go(p, "legs", IF LegsDone(p, Len(WithNextLeg(p))) THEN "posted" ELSE "legs")
  /\ entries' = [entries EXCEPT ![Made(p)] = WithNextLeg(p)]
  /\ UNCHANGED <<journals, attempt, last, audit>>

(* A read or a leg's insert fails, its row committed or not, or the server *)
(* dies: the call ends, what it wrote stays.                               *)
PostFails(p) ==
  /\ Faults
  /\ \E from \in {"latest", "insert", "legs"} : Go(p, from, "raised")
  /\ \/ UNCHANGED entries
     \/ step[p] = "legs" /\ entries' = [entries EXCEPT ![Made(p)] = WithNextLeg(p)]
  /\ UNCHANGED <<journals, attempt, last, audit>>

Post(p) ==
  /\ \/ Validate(p) \/ ReadLatest(p) \/ InsertJournal(p) \/ InsertConflict(p)
     \/ InsertFails(p) \/ InsertLeg(p) \/ PostFails(p)
  /\ UNCHANGED store

-----------------------------------------------------------------------------
(* auditLedger: the journals in one read, then the legs of each. *)

AuditJournals ==
  /\ audit.step \in {"idle", "done"}
  /\ audit' = [step |-> "legs", rows |-> journals, legs |-> << >>, broken_at |-> 0]
  /\ UNCHANGED <<journals, entries, step, attempt, last>>

Unread == {j \in audit.rows : j.id \notin DOMAIN audit.legs}

(* The rows in ascending sequence. *)
AuditLegs ==
  /\ audit.step = "legs"
  /\ \E j \in Unread :
       /\ \A k \in Unread : j.sequence =< k.sequence
       /\ audit' = [audit EXCEPT !.legs =
                      [id \in {j.id} \cup DOMAIN @ |->
                         IF id = j.id THEN entries[id] ELSE @[id]]]
  /\ UNCHANGED <<journals, entries, step, attempt, last>>

(* Mutant: the links are checked, the hashes are not. *)
VerifiesLinkOnly(j, rows, legs) ==
  j.prev_hash = LinkTo(Latest({k \in rows : k.sequence < j.sequence}))

(* verifyHashChain, one row: its link to the row before it, and its hash. *)
Verifies(j, rows, legs) ==
  /\ j.prev_hash = LinkTo(Latest({k \in rows : k.sequence < j.sequence}))
  /\ j.entry_hash = HashJournal(j.post, legs[j.id], ReadBack(j.created_at),
                                j.sequence, j.prev_hash)

FirstOf(rows) ==
  IF rows = {} THEN 0
  ELSE CHOOSE s \in {j.sequence : j \in rows} : \A j \in rows : s =< j.sequence

BrokenAt(rows, legs) == FirstOf({j \in rows : ~ Verifies(j, rows, legs)})

AuditVerdict ==
  /\ audit.step = "legs"
  /\ Unread = {}
  /\ audit' = [audit EXCEPT !.step = "done",
                            !.broken_at = BrokenAt(audit.rows, audit.legs)]
  /\ UNCHANGED <<journals, entries, step, attempt, last>>

Audit == (AuditJournals \/ AuditLegs \/ AuditVerdict) /\ UNCHANGED store

Next == Audit \/ \E p \in Posts : Post(p)

Spec == Init /\ [][Next]_vars

(* Each call runs to its end on its server.  Nothing depends on audits. *)
FairSpec == Spec /\ \A p \in Posts : WF_vars(Post(p))

-----------------------------------------------------------------------------
(* Properties *)

Steps == {"validate", "refused", "latest", "insert", "legs", "posted", "raised"}

TypeOK ==
  /\ \A j \in journals :
       /\ j.id \in Ids /\ j.post \in Posts
       /\ j.created_at = CreatedAt(j.post) /\ j.sequence \in Nat \ {0}
  /\ entries \in [Ids -> Seq(Legs)]
  /\ step \in [Posts -> Steps]
  /\ attempt \in [Posts -> 1 .. MaxAttempts]
  /\ last \in [Posts -> SUBSET journals]
  /\ store \in {"supabase", "local"}
  /\ audit \in [step : {"idle", "legs", "done"}, rows : SUBSET journals,
               legs : [DOMAIN audit.legs -> Seq(Legs)], broken_at : Nat]

(* The chain never forks and has no gap: one journal per sequence, each    *)
(* linked to the hash of the one before it, the first to the genesis hash, *)
(* and each hash covers its own row and the legs it was posted for -       *)
(* however posts race, fail and retry.                                     *)
ChainLinked ==
  \A j \in journals :
    /\ \A k \in journals : k.sequence = j.sequence => k = j
    /\ \/ j.sequence = 1 /\ j.prev_hash = Genesis
       \/ \E k \in journals :
            k.sequence + 1 = j.sequence /\ j.prev_hash = k.entry_hash
    /\ j.entry_hash = HashJournal(j.post, LegsOf[j.post], j.created_at,
                                  j.sequence, j.prev_hash)

(* A call that answered ok has a journal with all its legs, and they       *)
(* balance: no ok for a header whose legs are missing.                     *)
PostedComplete ==
  \A p \in Posts :
    step[p] = "posted" =>
      /\ \E j \in journals : j.id = Made(p) /\ entries[j.id] = LegsOf[j.post]
      /\ Balanced(LegsOf[p])

(* The listed journals that do not read back as they were hashed: those    *)
(* whose legs were not all there when the audit read them, and with        *)
(* SupabaseStore, whose timestamps come back in another notation, all.     *)
Unverifiable ==
  {j \in audit.rows : store = "supabase" \/ audit.legs[j.id] # LegsOf[j.post]}

(* The audit blames the first journal that does not read back as it was    *)
(* hashed, and no other: posts and failures that go on meanwhile never     *)
(* hide such a journal, put the blame on a complete one of a local store,  *)
(* or make it find a fork or a gap.                                        *)
AuditBlame == audit.step = "done" => audit.broken_at = FirstOf(Unverifiable)

(* What chain.ts says of verifyHashChain: it matches what postJournal      *)
(* posted, so an audit that found every leg of every journal blames none.  *)
PostedVerifies ==
  (audit.step = "done" /\ \A j \in audit.rows : audit.legs[j.id] = LegsOf[j.post])
    => audit.broken_at = 0

(* Without faults a post is not lost to contention as long as there are no *)
(* more concurrent posts than turns: a lost turn is another post's header. *)
NeverExhausted == \A p \in Posts : step[p] # "raised"

(* The inductive invariant behind ChainLinked, PostedComplete, AuditBlame. *)

(* What is on record for the rows and for the call that made each. *)
RecordInv(p) ==
  /\ \A a \in 1 .. MaxAttempts :
       /\ Len(entries[<<p, a>>]) =< Len(LegsOf[p])
       /\ \A n \in 1 .. Len(entries[<<p, a>>]) : entries[<<p, a>>][n] = LegsOf[p][n]
       /\ (step[p] \in {"validate", "latest", "insert"} /\ attempt[p] =< a)
            => entries[<<p, a>>] = << >> /\ \A j \in journals : j.id # <<p, a>>
  /\ step[p] \in {"legs", "posted"} => \E j \in journals : j.id = Made(p)
  /\ step[p] \in {"latest", "insert", "legs", "posted"} => Balanced(LegsOf[p])
  /\ step[p] = "legs" => Len(entries[Made(p)]) < Len(LegsOf[p])
  /\ step[p] = "posted" => Len(entries[Made(p)]) = Len(LegsOf[p])

(* No sequence below a row's is missing among the given rows. *)
Gapless(rows) ==
  \A j \in rows : \A s \in 1 .. j.sequence : \E k \in rows : k.sequence = s

ChainInv ==
  /\ \A j \in journals : j.id[1] = j.post
  /\ \A p \in Posts : RecordInv(p)
  /\ ChainLinked
  /\ Gapless(journals)
  /\ Gapless(audit.rows)

(* What a post that has lost a turn can tell: the sequences up to its turn *)
(* are taken, by other posts, each with one header.                        *)
ContentionInv ==
  /\ \A j, k \in journals : j.post = k.post => j = k
  /\ \A p \in Posts :
       /\ step[p] \notin {"legs", "posted"} => \A j \in journals : j.post # p
       /\ step[p] \in {"validate", "latest"} =>
            attempt[p] = 1 \/ \E j \in journals : attempt[p] - 1 =< j.sequence
       /\ step[p] = "insert" => attempt[p] =< NextSequence(last[p])

(* A balanced journal is posted: the losers of a sequence rebuild and get  *)
(* their turn.                                                             *)
BalancedIsPosted ==
  \A p \in Posts : Balanced(LegsOf[p]) => <>(step[p] = "posted")

=============================================================================
