------------------------- MODULE JournalChain_proofs -----------------------
(***************************************************************************)
(* The journal chain never forks, an answered post is complete, the audit  *)
(* blames only a journal whose legs are missing, and contention alone      *)
(* exhausts no post: for any posts, legs and number of turns.              *)
(***************************************************************************)
EXTENDS JournalChain, SequenceTheorems, FiniteSetTheorems, WellFoundedInduction, TLAPS

-----------------------------------------------------------------------------
(* A set of naturals that is not empty has a least element. *)
LEMMA Least ==
  ASSUME NEW S \in SUBSET Nat, S # {}
  PROVE  \E s \in S : \A t \in S : s =< t
<1>1. PICK s \in S : \A t \in S : ~ (<<t, s>> \in OpToRel(<, Nat))
  BY NatLessThanWellFounded, WFMin
<1>2. \A t \in S : ~ (t < s)
  BY <1>1 DEF OpToRel
<1> QED BY <1>2

LEMMA FirstOfType ==
  ASSUME NEW rows, \A j \in rows : j.sequence \in Nat
  PROVE  FirstOf(rows) \in Nat
<1> DEFINE S == {j.sequence : j \in rows}
<1>1. CASE rows = {}
  BY <1>1 DEF FirstOf
<1>2. CASE rows # {}
  <2>1. \E s \in S : \A t \in S : s =< t
    BY <1>2, Least
  <2>2. \E s \in S : \A j \in rows : s =< j.sequence
    BY <2>1
  <2> QED BY <1>2, <2>2 DEF FirstOf
<1> QED BY <1>1, <1>2

-----------------------------------------------------------------------------
(* What a post reads and writes. *)

(* The highest row of a chain is the one the reader finds. *)
LEMMA LatestOf ==
  ASSUME NEW rows, NEW j \in rows,
         \A k \in rows : k.sequence \in Nat,
         \A k, l \in rows : k.sequence = l.sequence => k = l,
         \A k \in rows : k.sequence =< j.sequence
  PROVE  Latest(rows) = {j} /\ TheRow(Latest(rows)) = j
<1>1. Latest(rows) = {j}
  BY DEF Latest
<1> QED BY <1>1 DEF TheRow

(* What one poster read is a row of the chain or nothing. *)
LEMMA LinkRead ==
  ASSUME NEW rows, NEW latest, latest \subseteq rows,
         \A k \in rows : k.sequence \in Nat \ {0}
  PROVE  \/ latest = {} /\ NextSequence(latest) = 1 /\ LinkTo(latest) = Genesis
         \/ \E k \in rows : /\ k \in latest
                            /\ NextSequence(latest) = k.sequence + 1
                            /\ LinkTo(latest) = k.entry_hash
<1>1. CASE latest = {}
  BY <1>1 DEF NextSequence, LinkTo
<1>2. CASE latest # {}
  <2>1. TheRow(latest) \in latest
    BY <1>2 DEF TheRow
  <2> QED BY <2>1, <1>2 DEF NextSequence, LinkTo
<1> QED BY <1>1, <1>2

LEMMA NextSequenceType ==
  ASSUME TypeOK, NEW p \in Posts
  PROVE  NextSequence(last[p]) \in Nat \ {0}
<1>1. last[p] \subseteq journals /\ \A k \in journals : k.sequence \in Nat \ {0}
  BY DEF TypeOK
<1>2. CASE last[p] = {}
  BY <1>2 DEF NextSequence
<1>3. CASE last[p] # {}
  BY <1>1, <1>3, LinkRead
<1> QED BY <1>2, <1>3

(* A step of a call either leaves the journals alone or adds the row it    *)
(* prepared, at a free sequence.                                           *)
Inserts(p) ==
  /\ step[p] = "insert"
  /\ ~ Taken(NextSequence(last[p]))
  /\ journals' = journals \cup {NewRow(p)}

LEMMA PostJournals ==
  ASSUME NEW p \in Posts, Post(p)
  PROVE  (journals' = journals \/ Inserts(p)) /\ audit' = audit
BY DEF Post, Validate, ReadLatest, InsertJournal, InsertConflict, InsertFails,
       InsertLeg, PostFails, Inserts, Retry, Go

LEMMA NextLegType ==
  ASSUME TypeOK, ChainAssumption, NEW p \in Posts,
         Len(entries[Made(p)]) < Len(LegsOf[p])
  PROVE  /\ WithNextLeg(p) \in Seq(Legs)
         /\ Len(WithNextLeg(p)) = Len(entries[Made(p)]) + 1
         /\ \A n \in 1 .. Len(entries[Made(p)]) : WithNextLeg(p)[n] = entries[Made(p)][n]
         /\ WithNextLeg(p)[Len(entries[Made(p)]) + 1] = LegsOf[p][Len(entries[Made(p)]) + 1]
<1>1. entries[Made(p)] \in Seq(Legs) /\ LegsOf[p] \in Seq(Legs)
  BY DEF TypeOK, ChainAssumption, Made, Ids
<1>2. LegsOf[p][Len(entries[Made(p)]) + 1] \in Legs
  BY <1>1
<1> QED BY <1>1, <1>2 DEF WithNextLeg

-----------------------------------------------------------------------------
(* Type correctness; it needs RecordInv for the legs that are left. *)

LEMMA TypeInit == Init => TypeOK
BY ChainAssumption DEF Init, TypeOK, Ids, Steps, ChainAssumption

LEMMA TypeNext ==
  ASSUME TypeOK, ChainInv, [Next]_vars
  PROVE  TypeOK'
<1> USE DEF TypeOK
<1>1. ASSUME NEW p \in Posts, Post(p)
      PROVE  TypeOK'
  <2>0. store' = store
    BY <1>1 DEF Post
  <2> USE <2>0
  <2>1. CASE Validate(p)
    BY <2>1 DEF Validate, Go, Steps
  <2>2. CASE ReadLatest(p)
    BY <2>2 DEF ReadLatest, Go, Steps, Latest
  <2>3. NewRow(p).id = <<p, attempt[p]>> /\ NewRow(p).post = p
        /\ NewRow(p).created_at = CreatedAt(p)
        /\ NewRow(p).sequence = NextSequence(last[p])
    BY DEF NewRow
  <2>4. NextSequence(last[p]) \in Nat \ {0}
    BY NextSequenceType
  <2>5. NewRow(p).id \in Ids
    BY <2>3 DEF Ids
  <2>6. CASE InsertJournal(p)
    <3>1. step' \in [Posts -> Steps]
      BY <2>6 DEF InsertJournal, Go, Steps
    <3> QED BY <2>3, <2>4, <2>5, <2>6, <3>1 DEF InsertJournal
  <2>7. ASSUME Retry(p)
        PROVE  step' \in [Posts -> Steps] /\ attempt' \in [Posts -> 1 .. MaxAttempts]
    <3>1. step' \in [Posts -> Steps]
      BY <2>7 DEF Retry, Go, Steps
    <3>2. attempt' \in [Posts -> 1 .. MaxAttempts]
      BY <2>7, ChainAssumption DEF Retry, ChainAssumption
    <3> QED BY <3>1, <3>2
  <2>8. CASE InsertConflict(p)
    BY <2>7, <2>8 DEF InsertConflict
  <2>9. CASE InsertFails(p)
    <3>1. journals' = journals \/ journals' = journals \cup {NewRow(p)}
      BY <2>9 DEF InsertFails
    <3>2. UNCHANGED <<entries, last, audit>> /\ Retry(p)
      BY <2>9 DEF InsertFails
    <3> QED BY <2>3, <2>4, <2>5, <2>7, <3>1, <3>2
  <2>10. ASSUME step[p] = "legs"
         PROVE  [entries EXCEPT ![Made(p)] = WithNextLeg(p)] \in [Ids -> Seq(Legs)]
    <3>1. Len(entries[Made(p)]) < Len(LegsOf[p])
      BY <2>10 DEF ChainInv, RecordInv
    <3> QED BY <3>1, NextLegType, ChainAssumption
  <2>11. CASE InsertLeg(p)
    <3>1. step' \in [Posts -> Steps]
      BY <2>11 DEF InsertLeg, Go, Steps
    <3>2. entries' \in [Ids -> Seq(Legs)]
      BY <2>10, <2>11 DEF InsertLeg, Go
    <3> QED BY <2>11, <3>1, <3>2 DEF InsertLeg
  <2>12. CASE PostFails(p)
    <3>1. step' \in [Posts -> Steps]
      BY <2>12 DEF PostFails, Go, Steps
    <3>2. entries' \in [Ids -> Seq(Legs)]
      BY <2>10, <2>12 DEF PostFails
    <3> QED BY <2>12, <3>1, <3>2 DEF PostFails
  <2> QED BY <1>1, <2>1, <2>2, <2>6, <2>8, <2>9, <2>11, <2>12 DEF Post
<1>2. CASE AuditJournals /\ UNCHANGED store
  <2>1. audit'.legs \in [DOMAIN audit'.legs -> Seq(Legs)]
    <3>1. audit'.legs = << >>
      BY <1>2 DEF AuditJournals
    <3> QED BY <3>1
  <2> QED BY <1>2, <2>1 DEF AuditJournals
<1>3. CASE AuditLegs /\ UNCHANGED store
  <2>1. PICK j \in Unread :
          audit' = [audit EXCEPT !.legs =
                     [id \in {j.id} \cup DOMAIN @ |->
                        IF id = j.id THEN entries[id] ELSE @[id]]]
    BY <1>3 DEF AuditLegs
  <2>2. j.id \in Ids
    BY DEF Unread
  <2>3. audit'.legs = [id \in {j.id} \cup DOMAIN audit.legs |->
                         IF id = j.id THEN entries[id] ELSE audit.legs[id]]
    BY <2>1
  <2>4. audit'.legs \in [DOMAIN audit'.legs -> Seq(Legs)]
    BY <2>2, <2>3
  <2> QED BY <1>3, <2>1, <2>4 DEF AuditLegs
<1>4. CASE AuditVerdict /\ UNCHANGED store
  <2>1. BrokenAt(audit.rows, audit.legs) \in Nat
    <3> DEFINE rows == {j \in audit.rows : ~ Verifies(j, audit.rows, audit.legs)}
    <3>1. FirstOf(rows) \in Nat
      BY FirstOfType
    <3> QED BY <3>1 DEF BrokenAt
  <2> QED BY <1>4, <2>1 DEF AuditVerdict
<1>5. CASE UNCHANGED vars
  BY <1>5 DEF vars
<1> QED BY <1>1, <1>2, <1>3, <1>4, <1>5 DEF Next, Audit

-----------------------------------------------------------------------------
(* The inductive invariant. *)

LEMMA InvInit == Init => ChainInv
<1> SUFFICES ASSUME Init PROVE ChainInv
  OBVIOUS
<1>1. journals = {} /\ audit.rows = {}
  BY DEF Init
<1>2. ASSUME NEW p \in Posts PROVE RecordInv(p)
  <2>1. step[p] = "validate"
    BY DEF Init
  <2>2. ASSUME NEW a \in 1 .. MaxAttempts
        PROVE  entries[<<p, a>>] = << >>
    BY DEF Init, Ids
  <2>3. LegsOf[p] \in Seq(Legs) /\ Len(LegsOf[p]) \in Nat
    BY ChainAssumption DEF ChainAssumption
  <2> QED BY <1>1, <2>1, <2>2, <2>3 DEF RecordInv
<1> QED BY <1>1, <1>2 DEF ChainInv, ChainLinked, Gapless

(* The row a call inserts extends the chain by one. *)
LEMMA LinkInsert ==
  ASSUME TypeOK, ChainInv, NEW p \in Posts,
         journals' = journals \/ Inserts(p)
  PROVE  /\ ChainLinked'
         /\ Gapless(journals)'
         /\ \A j \in journals' : j.id[1] = j.post
<1>1. CASE journals' = journals
  BY <1>1 DEF ChainInv, ChainLinked, Gapless
<1>2. CASE Inserts(p)
  <2> DEFINE new == NewRow(p)
             n == NextSequence(last[p])
  <2>1. /\ journals' = journals \cup {new}
        /\ \A j \in journals : j.sequence # n
    BY <1>2 DEF Inserts, Taken
  <2>2. /\ new.sequence = n /\ new.prev_hash = LinkTo(last[p])
        /\ new.post = p /\ new.id = <<p, attempt[p]>>
        /\ new.entry_hash = HashJournal(p, LegsOf[p], new.created_at, n, new.prev_hash)
    BY DEF NewRow
  <2>3. \/ n = 1 /\ new.prev_hash = Genesis
        \/ \E k \in journals : n = k.sequence + 1 /\ new.prev_hash = k.entry_hash
    <3>1. last[p] \subseteq journals /\ \A k \in journals : k.sequence \in Nat \ {0}
      BY DEF TypeOK
    <3>2. \/ n = 1 /\ LinkTo(last[p]) = Genesis
          \/ \E k \in journals : n = k.sequence + 1 /\ LinkTo(last[p]) = k.entry_hash
      BY <3>1, LinkRead
    <3> QED BY <2>2, <3>2
  <2>4. \A j \in journals : j.sequence \in Nat \ {0}
    BY DEF TypeOK
  <2>5. ChainLinked'
    <3> SUFFICES ASSUME NEW j \in journals'
                 PROVE  /\ \A k \in journals' : k.sequence = j.sequence => k = j
                        /\ \/ j.sequence = 1 /\ j.prev_hash = Genesis
                           \/ \E k \in journals' : /\ k.sequence + 1 = j.sequence
                                                   /\ j.prev_hash = k.entry_hash
                        /\ j.entry_hash = HashJournal(j.post, LegsOf[j.post], j.created_at,
                                                      j.sequence, j.prev_hash)
      BY DEF ChainLinked
    <3>1. CASE j \in journals
      BY <2>1, <2>2, <3>1 DEF ChainInv, ChainLinked
    <3>2. CASE j = new
      BY <2>1, <2>2, <2>3, <3>2
    <3> QED BY <2>1, <3>1, <3>2
  <2>6. Gapless(journals)'
    <3> SUFFICES ASSUME NEW j \in journals', NEW s \in 1 .. j.sequence
                 PROVE  \E k \in journals' : k.sequence = s
      BY DEF Gapless
    <3>1. CASE j \in journals
      BY <2>1, <3>1 DEF ChainInv, Gapless
    <3>2. CASE j = new /\ s = n
      BY <2>1, <2>2, <3>2
    <3>3. CASE j = new /\ s # n
      <4>1. PICK k \in journals : n = k.sequence + 1
        BY <2>2, <2>3, <3>3
      <4>2. s \in 1 .. k.sequence
        BY <2>2, <2>4, <3>3, <4>1
      <4> QED BY <2>1, <4>2 DEF ChainInv, Gapless
    <3> QED BY <2>1, <3>1, <3>2, <3>3
  <2>7. \A j \in journals' : j.id[1] = j.post
    BY <2>1, <2>2 DEF ChainInv
  <2> QED BY <2>5, <2>6, <2>7
<1> QED BY <1>1, <1>2

(* A call does not touch what is on record for another. *)
LEMMA RecordOther ==
  ASSUME TypeOK, ChainInv, NEW p \in Posts, Post(p), NEW q \in Posts, q # p
  PROVE  RecordInv(q)'
<1>1. /\ step'[q] = step[q] /\ attempt'[q] = attempt[q]
      /\ \A a \in 1 .. MaxAttempts : entries'[<<q, a>>] = entries[<<q, a>>]
  BY DEF Post, Validate, ReadLatest, InsertJournal, InsertConflict, InsertFails,
         InsertLeg, PostFails, Retry, Go, TypeOK, Made, Ids
<1>2. /\ journals \subseteq journals'
      /\ \A j \in journals' : j \in journals \/ j.id = <<p, attempt[p]>>
  BY PostJournals DEF Inserts, NewRow
<1>3. RecordInv(q)
  BY DEF ChainInv
<1>4. Made(q)' = Made(q) /\ entries'[Made(q)] = entries[Made(q)]
  BY <1>1 DEF Made, TypeOK
<1> QED BY <1>1, <1>2, <1>3, <1>4 DEF RecordInv

LEMMA RecordOwn ==
  ASSUME TypeOK, ChainInv, NEW p \in Posts, Post(p)
  PROVE  RecordInv(p)'
<1> USE DEF TypeOK
<1>1. RecordInv(p) /\ attempt[p] \in 1 .. MaxAttempts
  BY DEF ChainInv
<1>2. MaxAttempts \in Nat /\ LegsOf[p] \in Seq(Legs)
  BY ChainAssumption DEF ChainAssumption
<1>3. CASE Validate(p)
  BY <1>1, <1>3 DEF Validate, Go, RecordInv
<1>4. CASE ReadLatest(p)
  BY <1>1, <1>4 DEF ReadLatest, Go, RecordInv
<1>5. CASE InsertJournal(p)
  <2>1. /\ step[p] = "insert" /\ UNCHANGED <<entries, attempt>>
        /\ step'[p] = IF LegsDone(p, 0) THEN "posted" ELSE "legs"
        /\ journals' = journals \cup {NewRow(p)}
    BY <1>5 DEF InsertJournal, Go
  <2>2. NewRow(p).id = Made(p)
    BY DEF NewRow, Made
  <2>3. Made(p)' = Made(p) /\ entries'[Made(p)] = << >>
    BY <1>1, <2>1 DEF Made, RecordInv
  <2>4. CASE LegsDone(p, 0)
    BY <1>1, <1>2, <2>1, <2>2, <2>3, <2>4 DEF RecordInv, LegsDone
  <2>5. CASE ~ LegsDone(p, 0)
    BY <1>1, <1>2, <2>1, <2>2, <2>3, <2>5 DEF RecordInv, LegsDone
  <2> QED BY <2>4, <2>5
<1>6. CASE InsertConflict(p)
  <2>1. UNCHANGED <<journals, entries>> /\ Retry(p)
    BY <1>6 DEF InsertConflict
  <2> QED BY <1>1, <1>2, <2>1 DEF Retry, Go, RecordInv
<1>7. CASE InsertFails(p)
  <2>1. /\ Retry(p) /\ UNCHANGED entries
        /\ \A j \in journals' : j \in journals \/ j.id = <<p, attempt[p]>>
    BY <1>7 DEF InsertFails, NewRow
  <2>2. CASE attempt[p] = MaxAttempts
    BY <1>1, <2>1, <2>2 DEF Retry, Go, RecordInv
  <2>3. CASE attempt[p] # MaxAttempts
    <3>1. attempt'[p] = attempt[p] + 1 /\ step'[p] = "latest" /\ step[p] = "insert"
      BY <2>1, <2>3 DEF Retry, Go
    <3>2. ASSUME NEW a \in 1 .. MaxAttempts, attempt'[p] =< a
          PROVE  entries'[<<p, a>>] = << >> /\ \A j \in journals' : j.id # <<p, a>>
      <4>1. attempt[p] =< a /\ a # attempt[p]
        BY <1>1, <3>1, <3>2
      <4> QED BY <1>1, <2>1, <3>1, <4>1 DEF RecordInv
    <3> QED BY <1>1, <2>1, <3>1, <3>2 DEF RecordInv
  <2> QED BY <2>2, <2>3
<1>8. ASSUME step[p] = "legs", attempt' = attempt, journals' = journals,
             entries' = [entries EXCEPT ![Made(p)] = WithNextLeg(p)],
             \/ step'[p] = "raised"
             \/ step'[p] = IF LegsDone(p, Len(WithNextLeg(p))) THEN "posted" ELSE "legs"
      PROVE  RecordInv(p)'
  <2>1. Len(entries[Made(p)]) < Len(LegsOf[p])
    BY <1>1, <1>8 DEF RecordInv
  <2> DEFINE done == entries[Made(p)]
             next == WithNextLeg(p)
  <2>2. /\ Len(next) = Len(done) + 1
        /\ \A n \in 1 .. Len(done) : next[n] = done[n]
        /\ next[Len(done) + 1] = LegsOf[p][Len(done) + 1]
    BY <2>1, NextLegType, ChainAssumption
  <2>3. Made(p) = <<p, attempt[p]>> /\ Made(p) \in Ids /\ Made(p)' = Made(p)
    BY <1>1, <1>8 DEF Made, Ids
  <2>4. done \in Seq(Legs) /\ Len(done) \in Nat /\ Len(LegsOf[p]) \in Nat
    BY <1>2, <2>3
  <2>5. \A n \in 1 .. Len(done) : done[n] = LegsOf[p][n]
    BY <1>1, <2>3 DEF RecordInv
  <2>6. /\ Len(next) =< Len(LegsOf[p])
        /\ \A n \in 1 .. Len(next) : next[n] = LegsOf[p][n]
    <3> HIDE DEF done, next
    <3>1. Len(done) < Len(LegsOf[p])
      BY <2>1 DEF done
    <3>2. Len(next) =< Len(LegsOf[p]) /\ Len(next) \in Nat
      BY ONLY <2>2, <2>4, <3>1
    <3>3. ASSUME NEW n \in 1 .. Len(next)
          PROVE  next[n] = LegsOf[p][n]
      <4>1. CASE n \in 1 .. Len(done)
        BY <2>2, <2>5, <4>1
      <4>2. CASE n = Len(done) + 1
        BY <2>2, <4>2
      <4> QED BY <2>2, <2>4, <4>1, <4>2
    <3> QED BY <3>2, <3>3
  <2>7. entries'[Made(p)] = next
    BY <1>8, <2>3
  <2>8. ASSUME NEW a \in 1 .. MaxAttempts
        PROVE  /\ Len(entries'[<<p, a>>]) =< Len(LegsOf[p])
               /\ \A n \in 1 .. Len(entries'[<<p, a>>]) : entries'[<<p, a>>][n] = LegsOf[p][n]
    <3>1. CASE a = attempt[p]
      BY <2>3, <2>6, <2>7, <3>1
    <3>2. CASE a # attempt[p]
      <4>1. entries'[<<p, a>>] = entries[<<p, a>>]
        BY <1>8, <2>3, <3>2 DEF Ids
      <4> QED BY <1>1, <4>1 DEF RecordInv
    <3> QED BY <3>1, <3>2
  <2>9. step'[p] \in {"legs", "posted"} => \E j \in journals' : j.id = Made(p)'
    BY <1>1, <1>8, <2>3 DEF RecordInv
  <2>10. Balanced(LegsOf[p])
    BY <1>1, <1>8 DEF RecordInv
  <2>11. /\ step'[p] = "legs" => Len(next) < Len(LegsOf[p])
         /\ step'[p] = "posted" => Len(next) = Len(LegsOf[p])
    BY <1>8, <2>2, <2>4, <2>6 DEF LegsDone
  <2>12. step'[p] \notin {"validate", "latest", "insert"}
    BY <1>8
  <2> QED BY <2>3, <2>7, <2>8, <2>9, <2>10, <2>11, <2>12 DEF RecordInv
<1>9. CASE InsertLeg(p)
  BY <1>8, <1>9 DEF InsertLeg, Go
<1>10. CASE PostFails(p)
  <2>1. step'[p] = "raised" /\ UNCHANGED <<journals, attempt>>
    BY <1>10 DEF PostFails, Go
  <2>2. CASE UNCHANGED entries
    BY <1>1, <2>1, <2>2 DEF RecordInv
  <2>3. CASE step[p] = "legs" /\ entries' = [entries EXCEPT ![Made(p)] = WithNextLeg(p)]
    BY <1>8, <2>1, <2>3
  <2> QED BY <1>10, <2>2, <2>3 DEF PostFails
<1> QED BY <1>3, <1>4, <1>5, <1>6, <1>7, <1>9, <1>10 DEF Post

LEMMA InvNext ==
  ASSUME TypeOK, ChainInv, [Next]_vars
  PROVE  ChainInv'
<1>1. ASSUME NEW p \in Posts, Post(p)
      PROVE  ChainInv'
  <2>1. ASSUME NEW q \in Posts PROVE RecordInv(q)'
    BY <1>1, RecordOther, RecordOwn
  <2>2. (journals' = journals \/ Inserts(p)) /\ audit' = audit
    BY <1>1, PostJournals
  <2>3. ChainLinked' /\ Gapless(journals)' /\ \A j \in journals' : j.id[1] = j.post
    BY <2>2, LinkInsert
  <2>4. Gapless(audit.rows)'
    BY <2>2 DEF ChainInv, Gapless
  <2> QED BY <2>1, <2>3, <2>4 DEF ChainInv
<1>2. ASSUME UNCHANGED <<journals, entries, step, attempt, last>>,
             audit'.rows = audit.rows \/ audit'.rows = journals
      PROVE  ChainInv'
  <2>1. ASSUME NEW q \in Posts PROVE RecordInv(q)'
    BY <1>2 DEF ChainInv, RecordInv, Made
  <2>2. Gapless(audit.rows)'
    BY <1>2 DEF ChainInv, Gapless
  <2> QED BY <1>2, <2>1, <2>2 DEF ChainInv, ChainLinked, Gapless
<1>3. CASE Audit
  <2>1. audit'.rows = audit.rows \/ audit'.rows = journals
    <3>1. audit \in [step : {"idle", "legs", "done"}, rows : SUBSET journals,
                     legs : [DOMAIN audit.legs -> Seq(Legs)], broken_at : Nat]
      BY DEF TypeOK
    <3>2. CASE AuditJournals
      BY <3>2 DEF AuditJournals
    <3>3. CASE AuditLegs
      <4>1. \E legs : audit' = [audit EXCEPT !.legs = legs]
        BY <3>3 DEF AuditLegs
      <4> QED BY <3>1, <4>1
    <3>4. CASE AuditVerdict
      <4>1. \E b : audit' = [audit EXCEPT !.step = "done", !.broken_at = b]
        BY <3>4 DEF AuditVerdict
      <4> QED BY <3>1, <4>1
    <3> QED BY <1>3, <3>2, <3>3, <3>4 DEF Audit
  <2> QED BY <1>2, <1>3, <2>1 DEF Audit, AuditJournals, AuditLegs, AuditVerdict
<1>4. CASE UNCHANGED vars
  BY <1>2, <1>4 DEF vars
<1> QED BY <1>1, <1>3, <1>4 DEF Next

(* Every variable keeps the values of its columns and processes, and the   *)
(* inductive invariant of the chain holds: what rows, legs and calls say   *)
(* of each other, whatever races and fails.                                *)
THEOREM ChainInvariant == Spec => [](TypeOK /\ ChainInv)
<1>1. Init => TypeOK /\ ChainInv
  BY TypeInit, InvInit
<1>2. TypeOK /\ ChainInv /\ [Next]_vars => (TypeOK /\ ChainInv)'
  BY TypeNext, InvNext
<1> QED BY <1>1, <1>2, PTL DEF Spec

(* The chain of gl_journals never forks or skips, and each hash covers the *)
(* The rows, the calls and the audit's copies keep to their types: the     *)
(* sequences are positive, no call takes more turns than it has, and what  *)
(* a call or the audit has read is still on record.                        *)
THEOREM TypeCorrect == Spec => []TypeOK
BY ChainInvariant, PTL

(* row, its legs and the link to the row before it.                        *)
THEOREM ChainNeverForks == Spec => []ChainLinked
<1>1. TypeOK /\ ChainInv => ChainLinked
  BY DEF ChainInv
<1> QED BY <1>1, ChainInvariant, PTL

(* A post that answered ok has its journal with every leg, in balance.     *)
THEOREM AnsweredPostIsComplete == Spec => []PostedComplete
<1>1. TypeOK /\ ChainInv => PostedComplete
  <2> SUFFICES ASSUME TypeOK, ChainInv, NEW p \in Posts, step[p] = "posted"
               PROVE  /\ \E j \in journals : j.id = Made(p) /\ entries[j.id] = LegsOf[j.post]
                      /\ Balanced(LegsOf[p])
    BY DEF PostedComplete
  <2>1. RecordInv(p) /\ Made(p) = <<p, attempt[p]>> /\ Made(p) \in Ids
    BY DEF ChainInv, Made, TypeOK, Ids
  <2>2. PICK j \in journals : j.id = Made(p)
    BY <2>1 DEF RecordInv
  <2>3. j.post = p
    BY <2>1, <2>2 DEF ChainInv
  <2>4. entries[Made(p)] \in Seq(Legs) /\ LegsOf[p] \in Seq(Legs)
    BY <2>1, ChainAssumption DEF TypeOK, ChainAssumption
  <2>5. entries[Made(p)] = LegsOf[p]
    <3>1. /\ Len(entries[Made(p)]) = Len(LegsOf[p])
          /\ \A n \in 1 .. Len(entries[Made(p)]) : entries[Made(p)][n] = LegsOf[p][n]
      <4>1. attempt[p] \in 1 .. MaxAttempts
        BY DEF TypeOK
      <4>2. Len(entries[Made(p)]) = Len(LegsOf[p])
        BY <2>1 DEF RecordInv
      <4>3. \A n \in 1 .. Len(entries[<<p, attempt[p]>>]) :
              entries[<<p, attempt[p]>>][n] = LegsOf[p][n]
        BY <2>1, <4>1 DEF RecordInv
      <4> QED BY <2>1, <4>2, <4>3
    <3> QED BY <2>4, <3>1, SeqEqual
  <2> QED BY <2>1, <2>2, <2>3, <2>5 DEF RecordInv
<1> QED BY <1>1, ChainInvariant, PTL

-----------------------------------------------------------------------------
(* The audit. *)

(* In a linked chain without gaps a row's link is to the row before it, so *)
(* verifyHashChain refuses a row exactly when its legs, or the notation of *)
(* its timestamp, are not those it was posted with.                        *)
LEMMA VerifiesIffComplete ==
  ASSUME TypeOK, ChainInv, NEW j \in audit.rows
  PROVE  ~ Verifies(j, audit.rows, audit.legs) <=> j \in Unverifiable
<1> DEFINE rows == audit.rows
           before == {k \in rows : k.sequence < j.sequence}
<1>1. rows \subseteq journals /\ \A k \in journals : k.sequence \in Nat \ {0}
  BY DEF TypeOK
<1>2. \A k, l \in rows : k.sequence = l.sequence => k = l
  BY <1>1 DEF ChainInv, ChainLinked
<1>3. j.prev_hash = LinkTo(Latest(before))
  <2>1. CASE j.sequence = 1
    <3>1. before = {}
      BY <1>1, <2>1
    <3>2. Latest(before) = {}
      BY <3>1 DEF Latest
    <3>3. j.prev_hash = Genesis
      BY <1>1, <2>1 DEF ChainInv, ChainLinked
    <3> QED BY <3>2, <3>3 DEF LinkTo
  <2>2. CASE j.sequence # 1
    <3>1. PICK k \in journals : k.sequence + 1 = j.sequence /\ j.prev_hash = k.entry_hash
      BY <1>1, <2>2 DEF ChainInv, ChainLinked
    <3>2. k.sequence \in 1 .. j.sequence
      BY <1>1, <3>1
    <3>3. PICK l \in rows : l.sequence = k.sequence
      BY <3>2 DEF ChainInv, Gapless
    <3>4. l = k
      BY <1>1, <3>3 DEF ChainInv, ChainLinked
    <3>5. k \in before /\ \A m \in before : m.sequence =< k.sequence
      BY <1>1, <3>1, <3>3, <3>4
    <3>6. Latest(before) = {k} /\ TheRow(Latest(before)) = k
      <4>1. \A m \in before : m.sequence \in Nat
        BY <1>1
      <4>2. \A m, o \in before : m.sequence = o.sequence => m = o
        BY <1>2
      <4> HIDE DEF before
      <4> QED BY <3>5, <4>1, <4>2, LatestOf
    <3> QED BY <3>1, <3>6 DEF LinkTo
  <2> QED BY <2>1, <2>2
<1>4. j.entry_hash = HashJournal(j.post, LegsOf[j.post], j.created_at,
                                 j.sequence, j.prev_hash)
  BY <1>1 DEF ChainInv, ChainLinked
<1>5. j.created_at = <<"iso", j.post>>
  BY <1>1 DEF TypeOK, CreatedAt
<1>6. ReadBack(j.created_at) = j.created_at <=> store # "supabase"
  BY <1>5 DEF ReadBack
<1>7. HashJournal(j.post, audit.legs[j.id], ReadBack(j.created_at),
                  j.sequence, j.prev_hash) = j.entry_hash
        <=> /\ audit.legs[j.id] = LegsOf[j.post]
            /\ ReadBack(j.created_at) = j.created_at
  BY <1>4 DEF HashJournal
<1> QED BY <1>3, <1>6, <1>7 DEF Verifies, Unverifiable

(* The audit reports the first journal that does not read back as it was   *)
(* hashed, whatever the store, and nothing when there is none.             *)
THEOREM AuditBlamesUnverifiable == Spec => []AuditBlame
<1>1. Init => AuditBlame
  BY DEF Init, AuditBlame
<1>2. ASSUME TypeOK, ChainInv, AuditBlame, [Next]_vars
      PROVE  AuditBlame'
  <2>0. audit \in [step : {"idle", "legs", "done"}, rows : SUBSET journals,
                   legs : [DOMAIN audit.legs -> Seq(Legs)], broken_at : Nat]
    BY <1>2 DEF TypeOK
  <2>1. CASE audit' = audit /\ store' = store
    BY <1>2, <2>1 DEF AuditBlame, Unverifiable
  <2>2. CASE AuditJournals
    BY <2>2 DEF AuditJournals, AuditBlame
  <2>3. CASE AuditLegs
    <3>1. audit.step = "legs" /\ \E legs : audit' = [audit EXCEPT !.legs = legs]
      BY <2>3 DEF AuditLegs
    <3>2. audit'.step = "legs"
      BY <2>0, <3>1
    <3> QED BY <3>2 DEF AuditBlame
  <2>4. CASE AuditVerdict /\ UNCHANGED store
    <3> DEFINE b == BrokenAt(audit.rows, audit.legs)
    <3>1. audit' = [audit EXCEPT !.step = "done", !.broken_at = b]
      BY <2>4 DEF AuditVerdict
    <3>2. audit'.rows = audit.rows /\ audit'.legs = audit.legs /\ audit'.broken_at = b
      <4> HIDE DEF b
      <4> QED BY <2>0, <3>1
    <3>3. {j \in audit.rows : ~ Verifies(j, audit.rows, audit.legs)}
            = Unverifiable
      BY <1>2, VerifiesIffComplete DEF Unverifiable
    <3>4. Unverifiable' = Unverifiable
      BY <2>4, <3>2 DEF Unverifiable
    <3> QED BY <3>2, <3>3, <3>4 DEF BrokenAt, AuditBlame
  <2>5. CASE UNCHANGED vars
    BY <2>1, <2>5 DEF vars
  <2>6. ASSUME NEW p \in Posts, Post(p) PROVE AuditBlame'
    BY <2>1, <2>6, PostJournals DEF Post
  <2> QED BY <1>2, <2>2, <2>3, <2>4, <2>5, <2>6 DEF Next, Audit
<1> QED BY <1>1, <1>2, ChainInvariant, PTL DEF Spec

-----------------------------------------------------------------------------
(* Contention without faults. *)

(* A call that loses its last turn has lost one to each of MaxAttempts     *)
(* other calls.                                                            *)
LEMMA LastTurnIsWon ==
  ASSUME TypeOK, ChainInv, ContentionInv, Cardinality(Posts) =< MaxAttempts,
         NEW p \in Posts, step[p] = "insert", attempt[p] = MaxAttempts,
         Taken(NextSequence(last[p]))
  PROVE  FALSE
<1>1. MaxAttempts \in Nat /\ IsFiniteSet(Posts)
  BY ChainAssumption DEF ChainAssumption
<1>2. NextSequence(last[p]) \in Nat /\ MaxAttempts =< NextSequence(last[p])
  BY NextSequenceType DEF ContentionInv
<1>3. \A s \in 1 .. MaxAttempts : \E j \in journals : j.sequence = s
  BY <1>1, <1>2 DEF Taken, ChainInv, Gapless
<1> DEFINE row(s) == CHOOSE j \in journals : j.sequence = s
           others == Posts \ {p}
           winner == [s \in 1 .. MaxAttempts |-> row(s).post]
<1>4. \A s \in 1 .. MaxAttempts : row(s) \in journals /\ row(s).sequence = s
  BY <1>3
<1>5. \A j \in journals : j.post \in others
  BY DEF TypeOK, ContentionInv
<1>6. winner \in [1 .. MaxAttempts -> others]
  <2> HIDE DEF row, others
  <2> QED BY <1>4, <1>5
<1>7. ASSUME NEW s \in 1 .. MaxAttempts, NEW t \in 1 .. MaxAttempts, s # t
      PROVE  winner[s] # winner[t]
  <2>1. row(s).post = row(t).post => row(s) = row(t)
    BY <1>4 DEF ContentionInv
  <2> HIDE DEF row
  <2> QED BY <1>4, <1>7, <2>1
<1>8. IsFiniteSet(1 .. MaxAttempts) /\ Cardinality(1 .. MaxAttempts) = MaxAttempts
  BY <1>1, FS_Interval
<1>9. IsFiniteSet(others) /\ Cardinality(others) = Cardinality(Posts) - 1
  BY <1>1, FS_RemoveElement
<1> DEFINE turns == 1 .. MaxAttempts
<1>10. Cardinality(others) < Cardinality(turns)
  BY <1>1, <1>8, <1>9, FS_CardinalityType
<1> HIDE DEF winner, others, row, turns
<1>11. \E s, t \in turns : s # t /\ winner[s] = winner[t]
  <2>1. winner \in [turns -> others] /\ IsFiniteSet(turns) /\ IsFiniteSet(others)
    BY <1>6, <1>8, <1>9 DEF turns
  <2> QED BY <2>1, <1>10, FS_PigeonHole
<1> USE DEF turns
<1> QED BY <1>7, <1>11

(* Only finitely many rows have been inserted. *)
Bounded == \E n \in Nat : \A j \in journals : j.sequence =< n

LEMMA BoundedNext ==
  ASSUME TypeOK, Bounded, [Next]_vars
  PROVE  Bounded'
<1>1. CASE journals' = journals
  BY <1>1 DEF Bounded
<1>2. ASSUME NEW p \in Posts, Inserts(p)
      PROVE  Bounded'
  <2> DEFINE new == NextSequence(last[p])
  <2>1. PICK n \in Nat : \A j \in journals : j.sequence =< n
    BY DEF Bounded
  <2>2. new \in Nat /\ NewRow(p).sequence = new /\ journals' = journals \cup {NewRow(p)}
    BY <1>2, NextSequenceType DEF Inserts, NewRow
  <2>3. \A j \in journals : j.sequence \in Nat
    BY DEF TypeOK
  <2> HIDE DEF new
  <2>4. n + new \in Nat /\ \A j \in journals' : j.sequence =< n + new
    BY <2>1, <2>2, <2>3
  <2> QED BY <2>4 DEF Bounded
<1> QED BY <1>1, <1>2, PostJournals
        DEF Next, Audit, AuditJournals, AuditLegs, AuditVerdict, vars

(* There is a latest row as soon as there are rows. *)
LEMMA LatestExists ==
  ASSUME TypeOK, ChainInv, Bounded, NEW j \in journals
  PROVE  \E k \in journals : /\ Latest(journals) = {k}
                             /\ NextSequence(Latest(journals)) = k.sequence + 1
                             /\ j.sequence =< k.sequence
<1> DEFINE bounds == {n \in Nat : \A k \in journals : k.sequence =< n}
<1>1. \A k \in journals : k.sequence \in Nat \ {0}
  BY DEF TypeOK
<1>2. PICK n \in bounds : \A b \in bounds : n =< b
  <2>1. bounds \in SUBSET Nat /\ bounds # {}
    BY DEF Bounded
  <2> HIDE DEF bounds
  <2> QED BY <2>1, Least
<1>3. PICK k \in journals : k.sequence = n
  <2>1. SUFFICES ASSUME \A k \in journals : k.sequence # n PROVE FALSE
    OBVIOUS
  <2>2. n - 1 \in bounds
    BY <1>1, <2>1
  <2> QED BY <1>2, <2>2
<1>4. \A l \in journals : l.sequence =< k.sequence
  BY <1>2, <1>3
<1>5. \A l, m \in journals : l.sequence = m.sequence => l = m
  BY DEF ChainInv, ChainLinked
<1>6. Latest(journals) = {k} /\ TheRow(Latest(journals)) = k
  BY <1>1, <1>4, <1>5, LatestOf
<1> QED BY <1>4, <1>6 DEF NextSequence

(* A call reads, in each turn, a sequence it has not lost yet. *)
LEMMA TurnsAreBelowLatest ==
  ASSUME TypeOK, ChainInv, ContentionInv, Bounded,
         NEW p \in Posts, step[p] = "latest"
  PROVE  attempt[p] =< NextSequence(Latest(journals))
<1>1. attempt[p] \in Nat
  BY ChainAssumption DEF TypeOK, ChainAssumption
<1>2. CASE \E j \in journals : attempt[p] - 1 =< j.sequence
  <2>1. PICK j \in journals : attempt[p] - 1 =< j.sequence
    BY <1>2
  <2>2. PICK k \in journals : /\ NextSequence(Latest(journals)) = k.sequence + 1
                             /\ j.sequence =< k.sequence
    BY LatestExists
  <2>3. j.sequence \in Nat /\ k.sequence \in Nat
    BY DEF TypeOK
  <2> QED BY <1>1, <2>1, <2>2, <2>3
<1>3. CASE attempt[p] = 1
  <2>1. Latest(journals) \subseteq journals /\ \A k \in journals : k.sequence \in Nat \ {0}
    BY DEF Latest, TypeOK
  <2>2. \/ NextSequence(Latest(journals)) = 1
        \/ \E k \in journals : NextSequence(Latest(journals)) = k.sequence + 1
    BY <2>1, LinkRead
  <2> QED BY <1>3, <2>1, <2>2
<1> QED BY <1>2, <1>3 DEF ContentionInv

LEMMA ContentionInit == Init => ContentionInv /\ NeverExhausted
BY DEF Init, ContentionInv, NeverExhausted

LEMMA ContentionNext ==
  ASSUME ~ Faults, Cardinality(Posts) =< MaxAttempts,
         TypeOK, ChainInv, ContentionInv, Bounded, NeverExhausted, [Next]_vars
  PROVE  ContentionInv' /\ NeverExhausted'
<1> USE DEF ContentionInv, NeverExhausted
<1>1. CASE UNCHANGED <<journals, entries, step, attempt, last>>
  BY <1>1
<1>2. ASSUME NEW p \in Posts, Post(p)
      PROVE  ContentionInv' /\ NeverExhausted'
  <2> USE DEF TypeOK
  <2>1. CASE Validate(p)
    BY <2>1 DEF Validate, Go, RecordInv, ChainInv
  <2>2. CASE ReadLatest(p)
    <3> DEFINE latest == Latest(journals)
    <3>1. /\ step[p] = "latest" /\ UNCHANGED <<journals, attempt>>
          /\ step' = [step EXCEPT ![p] = "insert"] /\ last' = [last EXCEPT ![p] = latest]
      BY <2>2 DEF ReadLatest, Go
    <3>2. attempt[p] =< NextSequence(latest)
      BY <3>1, TurnsAreBelowLatest
    <3> HIDE DEF latest
    <3>3. ASSUME NEW q \in Posts, step'[q] = "insert"
          PROVE  attempt[q] =< NextSequence(last'[q])
      <4>1. CASE q = p
        BY <3>1, <3>2, <4>1
      <4>2. CASE q # p
        <5>1. last'[q] = last[q] /\ step[q] = "insert"
          BY <3>1, <3>3, <4>2
        <5> QED BY <5>1
      <4> QED BY <4>1, <4>2
    <3> QED BY <3>1, <3>3
  <2>3. CASE InsertJournal(p)
    <3>1. /\ step[p] = "insert" /\ UNCHANGED <<attempt, last>>
          /\ step'[p] \in {"legs", "posted"}
          /\ \A q \in Posts \ {p} : step'[q] = step[q]
          /\ journals' = journals \cup {NewRow(p)} /\ NewRow(p).post = p
      BY <2>3 DEF InsertJournal, Go, NewRow
    <3>2. \A j \in journals : j.post # p
      BY <3>1
    <3>3. ASSUME NEW j \in journals', NEW k \in journals', j.post = k.post
          PROVE  j = k
      BY <3>1, <3>2, <3>3
    <3>4. ASSUME NEW q \in Posts
          PROVE  /\ step'[q] \notin {"legs", "posted"} => \A j \in journals' : j.post # q
                 /\ step'[q] \in {"validate", "latest"} =>
                      attempt'[q] = 1 \/ \E j \in journals' : attempt'[q] - 1 =< j.sequence
                 /\ step'[q] = "insert" => attempt'[q] =< NextSequence(last[q])
                 /\ step'[q] # "raised"
      <4>1. CASE q = p
        BY <3>1, <4>1
      <4>2. CASE q # p
        <5>1. step'[q] = step[q] /\ attempt'[q] = attempt[q]
          BY <3>1, <4>2
        <5>2. journals \subseteq journals'
          BY <3>1
        <5>3. step[q] \notin {"legs", "posted"} => \A j \in journals' : j.post # q
          BY <3>1, <4>2
        <5> QED BY <5>1, <5>2, <5>3
      <4> QED BY <4>1, <4>2
    <3>5. last' = last
      BY <3>1
    <3> QED BY <3>3, <3>4, <3>5
  <2>4. CASE InsertConflict(p)
    <3>1. step[p] = "insert" /\ UNCHANGED <<journals, last>> /\ Retry(p)
      BY <2>4 DEF InsertConflict, Retry, Go
    <3>2. attempt[p] # MaxAttempts
      BY <2>4, <3>1, LastTurnIsWon DEF InsertConflict
    <3>3. /\ step' = [step EXCEPT ![p] = "latest"]
          /\ attempt' = [attempt EXCEPT ![p] = attempt[p] + 1]
      BY <3>1, <3>2 DEF Retry, Go
    <3>4. \E j \in journals : attempt[p] =< j.sequence
      BY <2>4, <3>1 DEF InsertConflict, Taken
    <3>5. attempt[p] \in Nat
      BY ChainAssumption DEF ChainAssumption
    <3> QED BY <3>1, <3>3, <3>4, <3>5
  <2>5. CASE InsertLeg(p)
    BY <2>5 DEF InsertLeg, Go
  <2>6. ~ InsertFails(p) /\ ~ PostFails(p)
    BY DEF InsertFails, PostFails
  <2> QED BY <1>2, <2>1, <2>2, <2>3, <2>4, <2>5, <2>6 DEF Post
<1> QED BY <1>1, <1>2 DEF Next, Audit, AuditJournals, AuditLegs, AuditVerdict, vars

(* The state of a contention, and that it is survived.                     *)
LEMMA ContentionHolds ==
  ASSUME ~ Faults, Cardinality(Posts) =< MaxAttempts
  PROVE  Spec => [](ContentionInv /\ NeverExhausted)
<1>1. Init => ContentionInv /\ NeverExhausted /\ Bounded
  <2>1. Init => Bounded
    BY DEF Init, Bounded
  <2> QED BY <2>1, ContentionInit
<1>2. TypeOK /\ ChainInv /\ ContentionInv /\ NeverExhausted /\ Bounded /\ [Next]_vars
        => ContentionInv' /\ NeverExhausted' /\ Bounded'
  BY ContentionNext, BoundedNext
<1> QED BY <1>1, <1>2, ChainInvariant, PTL DEF Spec

(* Without faults, and with no more posts than turns, a call that has lost *)
(* a turn has lost it to the one header of another call: the sequences up  *)
(* to its turn are all taken.                                              *)
THEOREM LostTurnsAreOthersHeaders ==
  ASSUME ~ Faults, Cardinality(Posts) =< MaxAttempts
  PROVE  Spec => []ContentionInv
BY ContentionHolds, PTL

(* Without faults no post is given up as long as there are no more         *)
(* concurrent posts than turns, MAX_SEQUENCE_ATTEMPTS of the code.         *)
THEOREM ContentionAloneIsSurvived ==
  ASSUME ~ Faults, Cardinality(Posts) =< MaxAttempts
  PROVE  Spec => []NeverExhausted
BY ContentionHolds, PTL
=============================================================================
