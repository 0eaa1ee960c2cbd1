-------------------------- MODULE SplitRuns_proofs --------------------------
(***************************************************************************)
(* Split runs for any number of runs, reversals and dispute calls, with    *)
(* journals that fail and replies that are lost: what the buckets' floors  *)
(* keep; that a run is booked once and reversed once; and that vault,      *)
(* books, advance and dispute row agree when the calls have ended.         *)
(***************************************************************************)
EXTENDS SplitRuns, WellFoundedInduction, TLAPS, CentSums

(* A reversal under way has its run to itself: it claimed it.              *)
Held ==
  /\ \A v \in Reversals :
       IF call[v].mode = "idle" THEN call[v] = Idle
       ELSE /\ call[v].run \in ingested
            /\ status[call[v].run] = "reversed"
  /\ \A v, w \in Reversals :
       call[v].run = call[w].run /\ call[v].run # NoRun => v = w

(* What a dispute call read or froze is never negative either.             *)
Signs ==
  "receivable" \notin flaws =>
    /\ dispute.available >= 0 /\ dispute.pending >= 0
    /\ \A l \in Lockers : locker[l].available >= 0 /\ locker[l].pending >= 0

(* Reversals, in a table c of calls, that may still put everything of the  *)
(* run back, and those that have not unwound its tax.                      *)
OpenIn(c, r) ==
  \E v \in Reversals : c[v].run = r /\ c[v].mode \in {"claw", "refund", "unwind"}
TaxedIn(c, r) ==
  \/ OpenIn(c, r)
  \/ \E v \in Reversals :
       c[v].run = r /\ c[v].mode = "close" /\ c[v].step = "withhold"
ClaimedIn(c, r) == \E v \in Reversals : c[v].run = r
ClosingIn(c, r) == \E v \in Reversals : c[v].run = r /\ c[v].mode = "close"

Sound(r) ==
  /\ r \in ingested <=> saga[r].mode = "done"
  /\ r \in ingested => Complete(r)
  /\ escrow[r] = IF \/ saga[r].mode \in {"book", "compensate"}
                    \/ saga[r].mode = "done" /\ (status[r] = "posted" \/ TaxedIn(call, r))
                 THEN 1 ELSE 0
  /\ undone[r] = IF status[r] = "reversed" /\ ~OpenIn(call, r) THEN 1 ELSE 0
  /\ status[r] = "reversed" /\ ~ClaimedIn(call, r) => r \in reversal

WholeRun(r) ==
  /\ status[r] = "none" <=> saga[r].mode = "none"
  /\ saga[r].mode \in {"none", "begin", "book"} => r \notin ingested
  /\ status[r] = "reversed" => r \in ingested
  /\ r \in reversal \/ ClosingIn(call, r) => undone[r] > 0
  /\ undone[r] > 0 => r \in ingested /\ Complete(r)
  /\ r \notin broken => Sound(r)

Whole == \A r \in Runs : WholeRun(r)

IInv == TypeOK /\ Held /\ Signs /\ Whole

SagaStep == \E r \in Runs : Saga(r)
ReverseStep == \E v \in Reversals : Reverse(v)
OtherStep == (\E l \in Lockers : Lock(l)) \/ ReleaseVaultPending \/ PayoutFromVault

-----------------------------------------------------------------------------
(* The legs, and the walk through the steps. *)

LEMMA AmountType ==
  ASSUME NEW plan \in Plans, NEW leg \in LegNames
  PROVE  Amount(plan, leg) \in Nat
<1>1. plan # NoAdvance => plan \in Nat BY DEF Plans
<1>2. plan # NoAdvance => Recouped(plan) \in 0..Net
  BY <1>1, SplitAssumption DEF Recouped, Least, Most
<1>3. plan # NoAdvance => Recouped(plan) \in Nat /\ Net - Recouped(plan) \in Nat
  BY <1>2, SplitAssumption
<1>4. CASE leg = "tax" BY <1>4, SplitAssumption DEF Amount
<1>5. CASE leg = "dust" BY <1>5, SplitAssumption DEF Amount
<1>6. CASE leg = "share" BY <1>6, SplitAssumption DEF Amount
<1>7. CASE leg = "recouped" BY <1>3, <1>7 DEF Amount
<1>8. CASE leg = "excess" BY <1>3, <1>8 DEF Amount
<1> QED BY <1>4, <1>5, <1>6, <1>7, <1>8 DEF LegNames

LEMMA AccountType ==
  ASSUME NEW frozen, NEW leg \in LegNames
  PROVE  Account(frozen, leg) \in Accounts
BY DEF LegNames, Account, Accounts

LEMMA LegsType ==
  ASSUME TypeOK, NEW r \in Runs, NEW legs, NEW f \in [Accounts -> Int]
  PROVE  /\ Posted(r, legs) \in [Accounts -> Nat]
         /\ Add(f, Posted(r, legs)) \in [Accounts -> Int]
         /\ Sub(f, Posted(r, legs)) \in [Accounts -> Int]
<1>1. saga[r].plan \in Plans BY DEF TypeOK
<1>2. \A leg \in LegNames : Amount(saga[r].plan, leg) \in Nat BY <1>1, AmountType
<1>3. /\ Amount(saga[r].plan, "tax") \in Nat
      /\ Amount(saga[r].plan, "recouped") \in Nat
      /\ Amount(saga[r].plan, "excess") \in Nat
      /\ Amount(saga[r].plan, "share") \in Nat
      /\ Amount(saga[r].plan, "dust") \in Nat
  BY <1>2 DEF LegNames
<1>4. Posted(r, legs) \in [Accounts -> Nat]
  BY <1>3 DEF Posted
<1>5. \A a \in Accounts : f[a] \in Int /\ Posted(r, legs)[a] \in Int
  BY <1>4
<1> QED BY <1>4, <1>5 DEF Add, Sub

LEMMA OrderType ==
  ASSUME NEW mode \in {"book", "compensate", "claw", "refund", "unwind"}
  PROVE  /\ Order[mode] \in Seq(Steps)
         /\ Len(Order[mode]) \in Nat \ {0}
         /\ Order[mode][Len(Order[mode])] \in {"journal", "withhold", "revert"}
<1>1. CASE mode = "book" BY <1>1 DEF Order, Steps, LegNames
<1>2. CASE mode = "compensate" BY <1>2 DEF Order, Steps, LegNames
<1>3. CASE mode = "claw" BY <1>3 DEF Order, Steps, LegNames
<1>4. CASE mode = "refund" BY <1>4 DEF Order, Steps, LegNames
<1>5. CASE mode = "unwind" BY <1>5 DEF Order, Steps, LegNames
<1> QED BY <1>1, <1>2, <1>3, <1>4, <1>5

(* From any step of an order but the last there is a next one. *)
LEMMA AfterType ==
  ASSUME NEW mode \in {"book", "compensate", "claw", "refund", "unwind"},
         NEW plan, NEW step,
         \E i \in DOMAIN Order[mode] : Order[mode][i] = step,
         step \notin {"journal", "withhold", "revert"}
  PROVE  After(mode, plan, step) \in Steps
<1> DEFINE order == Order[mode]
           here == CHOOSE i \in DOMAIN order : order[i] = step
           later == {i \in here + 1..Len(order) : Needed(mode, plan, order[i])}
<1>1. /\ order \in Seq(Steps) /\ Len(order) \in Nat \ {0}
      /\ order[Len(order)] \in {"journal", "withhold", "revert"}
  BY OrderType
<1>2. here \in DOMAIN order /\ order[here] = step OBVIOUS
<1>3. DOMAIN order = 1..Len(order) BY <1>1
<1>4. here \in 1..Len(order) /\ here # Len(order) BY <1>1, <1>2, <1>3
<1>5. Needed(mode, plan, order[Len(order)])
  BY <1>1 DEF Needed, LegNames
<1>6. later \subseteq Nat /\ Len(order) \in later
  BY <1>1, <1>4, <1>5
<1>7. PICK i \in later : \A j \in later : ~(<<j, i>> \in OpToRel(<, Nat))
  BY <1>6, WFMin, NatLessThanWellFounded
<1>8. \A j \in later : ~(j < i)
  BY <1>6, <1>7 DEF OpToRel
<1>9. i \in here + 1..Len(order) /\ Needed(mode, plan, order[i]) OBVIOUS
<1>10. \A j \in here + 1..i - 1 : ~Needed(mode, plan, order[j])
  BY <1>4, <1>8, <1>9
<1> DEFINE next == CHOOSE k \in here + 1..Len(order) :
                     /\ Needed(mode, plan, order[k])
                     /\ \A j \in here + 1..k - 1 : ~Needed(mode, plan, order[j])
<1>11. next \in here + 1..Len(order) BY <1>9, <1>10
<1>12. here + 1..Len(order) \subseteq 1..Len(order) BY <1>1, <1>4
<1>13. \A s \in Seq(Steps) : \A k \in 1..Len(s) : s[k] \in Steps OBVIOUS
<1>14. next \in 1..Len(order) BY <1>11, <1>12
<1> HIDE DEF next, order
<1>15. order[next] \in Steps BY <1>1, <1>13, <1>14
<1> USE DEF next, order
<1> QED BY <1>15 DEF After

(* The walks the calls take. *)
LEMMA Walks ==
  ASSUME NEW plan
  PROVE  /\ After("book", plan, "begin") \in Steps
         /\ After("book", plan, "advance") \in Steps
         /\ After("book", plan, "sweep") \in Steps
         /\ After("compensate", plan, "begin") \in Steps
         /\ After("compensate", plan, "sweep") \in Steps
         /\ After("claw", plan, "begin") \in Steps
         /\ After("claw", plan, "sweep") \in Steps
         /\ After("unwind", plan, "begin") \in Steps
         /\ After("unwind", plan, "sweep") \in Steps
         /\ \A leg \in LegNames :
              /\ After("book", plan, leg) \in Steps
              /\ After("compensate", plan, leg) \in Steps
              /\ After("claw", plan, leg) \in Steps
              /\ After("refund", plan, leg) \in Steps
              /\ After("unwind", plan, leg) \in Steps
<1> DEFINE Past(mode) == {s \in Steps \ {"journal", "withhold", "revert"} :
                            \E i \in DOMAIN Order[mode] : Order[mode][i] = s}
<1>1. \A mode \in {"book", "compensate", "claw", "refund", "unwind"} :
        \A s \in Past(mode) : After(mode, plan, s) \in Steps
  BY AfterType
<1>2. LegNames \cup {"begin", "advance", "sweep"} \subseteq Past("book")
  <2>1. Order["book"] = Order.book OBVIOUS
  <2>2. /\ Order.book[1] = "begin" /\ Order.book[2] = "tax"
        /\ Order.book[4] = "advance" /\ Order.book[5] = "sweep"
        /\ Order.book[6] = "recouped" /\ Order.book[7] = "excess"
        /\ Order.book[8] = "share" /\ Order.book[9] = "dust"
        /\ 1..9 \subseteq DOMAIN Order.book
    BY DEF Order
  <2> QED BY <2>1, <2>2 DEF LegNames, Steps
<1>3. LegNames \cup {"begin", "advance", "sweep"} \subseteq Past("compensate")
  <2>1. /\ Order.compensate[1] = "begin" /\ Order.compensate[2] = "tax"
        /\ Order.compensate[3] = "share" /\ Order.compensate[4] = "dust"
        /\ Order.compensate[5] = "recouped" /\ Order.compensate[6] = "advance"
        /\ Order.compensate[7] = "sweep" /\ Order.compensate[8] = "excess"
        /\ 1..8 \subseteq DOMAIN Order.compensate
    BY DEF Order
  <2> QED BY <2>1 DEF LegNames, Steps
<1>4. LegNames \cup {"begin", "advance", "sweep"} \subseteq Past("claw")
  <2>1. /\ Order.claw[1] = "begin" /\ Order.claw[2] = "tax"
        /\ Order.claw[3] = "recouped" /\ Order.claw[4] = "excess"
        /\ Order.claw[5] = "share" /\ Order.claw[6] = "dust"
        /\ Order.claw[7] = "advance" /\ Order.claw[8] = "sweep"
        /\ 1..8 \subseteq DOMAIN Order.claw
    BY DEF Order
  <2> QED BY <2>1 DEF LegNames, Steps
<1>5. LegNames \subseteq Past("refund")
  <2>1. /\ Order.refund[1] = "dust" /\ Order.refund[2] = "share"
        /\ Order.refund[3] = "excess" /\ Order.refund[4] = "recouped"
        /\ Order.refund[5] = "tax"
        /\ 1..5 \subseteq DOMAIN Order.refund
    BY DEF Order
  <2> QED BY <2>1 DEF LegNames, Steps
<1>6. LegNames \cup {"begin", "advance", "sweep"} \subseteq Past("unwind")
  <2>1. /\ Order.unwind[1] = "begin" /\ Order.unwind[2] = "dust"
        /\ Order.unwind[3] = "share" /\ Order.unwind[4] = "excess"
        /\ Order.unwind[5] = "recouped" /\ Order.unwind[6] = "tax"
        /\ Order.unwind[7] = "advance" /\ Order.unwind[8] = "sweep"
        /\ 1..8 \subseteq DOMAIN Order.unwind
    BY DEF Order
  <2> QED BY <2>1 DEF LegNames, Steps
<1> HIDE DEF Past
<1> QED BY <1>1, <1>2, <1>3, <1>4, <1>5, <1>6

-----------------------------------------------------------------------------
(* Type correctness, with the floors of the buckets. *)

(* What a saga's or a reversal's step moves. *)
LEMMA LegType ==
  ASSUME TypeOK, NEW r \in Runs, NEW leg \in LegNames
  PROVE  /\ Account(saga[r].frozen, leg) \in Accounts
         /\ Amount(saga[r].plan, leg) \in Nat
BY AccountType, AmountType DEF TypeOK

LEMMA PlusType ==
  ASSUME NEW f \in [Accounts -> Int], NEW a \in Accounts, NEW n \in Int
  PROVE  /\ Plus(f, a, n) \in [Accounts -> Int]
         /\ Plus(f, a, n)[a] = f[a] + n
         /\ \A b \in Accounts \ {a} : Plus(f, a, n)[b] = f[b]
BY DEF Plus

Money ==
  /\ bal \in [Accounts -> Int]
  /\ "receivable" \notin flaws => \A a \in Accounts : bal[a] >= 0

Shape ==
  /\ saga \in [Runs -> [mode : SagaModes, step : Steps, frozen : BOOLEAN,
                         plan : Plans, seen : Plans]]
  /\ call \in [Reversals -> [mode : CallModes, step : Steps, run : Runs \cup {NoRun},
                              seen : Plans, floorless : BOOLEAN]]
  /\ locker \in [Lockers -> [step : {"idle", "read"} \cup Underway, locked : BOOLEAN,
                              available : Int, pending : Int, reserve : Int]]
  /\ dispute \in [locked : BOOLEAN, available : Int, pending : Int]

Totals ==
  /\ books \in [Accounts -> Int] /\ owed \in [Accounts -> Nat]
  /\ lost \in [Accounts -> Int]
  /\ advance \in Plans
  /\ status \in [Runs -> {"none", "posted", "reversed"}]
  /\ escrow \in [Runs -> Int] /\ undone \in [Runs -> Nat]
  /\ stored \in [Runs -> SUBSET LegNames]
  /\ ingested \subseteq Runs /\ reversal \subseteq Runs /\ broken \subseteq Runs
  /\ flaws \subseteq {"overlap", "relock", "receivable", "reapplied", "cut"}

LEMMA TypeParts == TypeOK <=> Money /\ Shape /\ Totals
BY DEF TypeOK, Money, Shape, Totals

(* What the steps of a saga do to its record. *)
SagaRec == [mode : SagaModes, step : Steps, frozen : BOOLEAN, plan : Plans, seen : Plans]

LEMMA SagaRecord ==
  ASSUME NEW f \in [Runs -> SagaRec], NEW r \in Runs, NEW m \in SagaModes,
         NEW s \in Steps, NEW b \in BOOLEAN, NEW p \in Plans
  PROVE  /\ [f EXCEPT ![r].mode = m] \in [Runs -> SagaRec]
         /\ [f EXCEPT ![r].step = s] \in [Runs -> SagaRec]
         /\ [f EXCEPT ![r].mode = m, ![r].step = s] \in [Runs -> SagaRec]
         /\ [f EXCEPT ![r].frozen = b, ![r].step = s] \in [Runs -> SagaRec]
         /\ [f EXCEPT ![r].seen = p, ![r].step = s] \in [Runs -> SagaRec]
         /\ [f EXCEPT ![r].plan = p, ![r].seen = p, ![r].step = s] \in [Runs -> SagaRec]
<1>1. [f EXCEPT ![r].mode = m] \in [Runs -> SagaRec] BY DEF SagaRec
<1>2. [f EXCEPT ![r].step = s] \in [Runs -> SagaRec] BY DEF SagaRec
<1>3. [f EXCEPT ![r].mode = m, ![r].step = s] \in [Runs -> SagaRec] BY DEF SagaRec
<1>4. [f EXCEPT ![r].frozen = b, ![r].step = s] \in [Runs -> SagaRec] BY DEF SagaRec
<1>5. [f EXCEPT ![r].seen = p, ![r].step = s] \in [Runs -> SagaRec] BY DEF SagaRec
<1>6. [f EXCEPT ![r].plan = p, ![r].seen = p, ![r].step = s] \in [Runs -> SagaRec]
  BY DEF SagaRec
<1> QED BY <1>1, <1>2, <1>3, <1>4, <1>5, <1>6

LEMMA ShapeSaga ==
  ASSUME TypeOK, SagaStep
  PROVE  Shape'
<1>1. PICK r \in Runs : Saga(r) BY DEF SagaStep
<1> DEFINE plan == saga[r].plan
<1>2. saga \in [Runs -> SagaRec] BY DEF TypeOK, SagaRec
<1>3. plan \in Plans /\ advance \in Plans /\ dispute.locked \in BOOLEAN
  BY DEF TypeOK
<1>4. /\ After("book", plan, "begin") \in Steps
      /\ After("compensate", plan, "begin") \in Steps
      /\ After("book", plan, "sweep") \in Steps
      /\ After("compensate", plan, "sweep") \in Steps
      /\ \A leg \in LegNames : /\ After("book", plan, leg) \in Steps
                              /\ After("compensate", plan, leg) \in Steps
      /\ After("book", advance, "advance") \in Steps
  BY Walks
<1>5. {"none", "advance", "sweep"} \subseteq Steps BY DEF Steps
<1>6. {"begin", "book", "compensate", "done", "failed"} \subseteq SagaModes
  BY DEF SagaModes
<1>7. Onward(r) = [saga EXCEPT ![r].step = After(saga[r].mode, plan, saga[r].step)]
  BY <1>2 DEF Onward
<1>8. saga' \in [Runs -> SagaRec]
  <2>1. CASE Begin(r)
    BY <1>2, <1>3, <1>5, <1>6, <2>1, SagaRecord DEF Begin
  <2>2. CASE ApplyWithholding(r)
    BY <1>2, <1>3, <1>4, <1>6, <2>2, SagaRecord DEF ApplyWithholding
  <2>3. CASE IsIncomingFrozen(r)
    <3>1. PICK frozen \in {dispute.locked, TRUE} :
            saga' = [saga EXCEPT ![r].frozen = frozen, ![r].step = "advance"]
      BY <2>3 DEF IsIncomingFrozen
    <3>2. frozen \in BOOLEAN BY <1>3, <3>1
    <3> QED BY <1>2, <1>3, <1>5, <1>6, <3>1, <3>2, SagaRecord
  <2>4. CASE ReadAdvance(r)
    BY <1>2, <1>3, <1>4, <1>6, <2>4, SagaRecord DEF ReadAdvance
  <2>5. CASE Sweep(r) \/ SweepBack(r) \/ CreditVault(r) \/ DebitBack(r)
    <3>1. /\ saga' = Onward(r)
          /\ After(saga[r].mode, plan, saga[r].step) \in Steps
      BY <1>4, <2>5 DEF Sweep, SweepBack, CreditVault, DebitBack, Do
    <3> DEFINE t == After(saga[r].mode, plan, saga[r].step)
    <3>2. t \in Steps /\ saga' = [saga EXCEPT ![r].step = t] BY <1>7, <3>1
    <3> HIDE DEF t
    <3> QED BY <1>2, <1>3, <1>6, <3>2, SagaRecord
  <2>6. CASE PostIngest(r) \/ UnwindEscrowRow(r)
    <3>1. \/ saga' = [saga EXCEPT ![r].mode = "done", ![r].step = "none"]
          \/ saga' = [saga EXCEPT ![r].mode = "failed", ![r].step = "none"]
      BY <2>6 DEF PostIngest, UnwindEscrowRow
    <3>2. "done" \in SagaModes /\ "failed" \in SagaModes /\ "none" \in Steps
      BY <1>5, <1>6
    <3>3. [saga EXCEPT ![r].mode = "done", ![r].step = "none"] \in [Runs -> SagaRec]
      BY <1>2, <1>3, <3>2, SagaRecord
    <3>4. [saga EXCEPT ![r].mode = "failed", ![r].step = "none"] \in [Runs -> SagaRec]
      BY <1>2, <1>3, <3>2, SagaRecord
    <3> QED BY <3>1, <3>3, <3>4
  <2>7. CASE IngestThrows(r)
    <3>1. saga' = [saga EXCEPT ![r].mode = "compensate",
                               ![r].step = After("compensate", plan, "begin")]
      BY <2>7 DEF IngestThrows
    <3> QED BY <1>2, <1>3, <1>4, <1>6, <3>1, SagaRecord
  <2>8. CASE RereadAdvance(r)
    BY <1>2, <1>3, <1>5, <1>6, <2>8, SagaRecord DEF RereadAdvance
  <2> QED
    BY <1>1, <2>1, <2>2, <2>3, <2>4, <2>5, <2>6, <2>7, <2>8 DEF Saga
<1>9. UNCHANGED <<call, locker, dispute>>
  BY <1>1 DEF Saga, Begin, ApplyWithholding, IsIncomingFrozen, ReadAdvance, Sweep,
     CreditVault, PostIngest, IngestThrows, DebitBack, RereadAdvance, SweepBack,
     UnwindEscrowRow, undo, lock
<1> QED BY <1>8, <1>9 DEF TypeOK, Shape, SagaRec

LEMMA TotalsSaga ==
  ASSUME TypeOK, SagaStep
  PROVE  Totals'
<1>1. PICK r \in Runs : Saga(r) BY DEF SagaStep
<1>2. \A leg \in LegNames : /\ Account(saga[r].frozen, leg) \in Accounts
                            /\ Amount(saga[r].plan, leg) \in Nat
  BY LegType
<1>3. "recouped" \in LegNames BY DEF LegNames
<1>4. saga[r].seen # NoAdvance => saga[r].seen \in Nat BY DEF TypeOK, Plans
<1>5. CASE Begin(r)
  BY <1>5 DEF Begin, TypeOK, Totals, money, undo, lock
<1>6. CASE ApplyWithholding(r)
  BY <1>6 DEF ApplyWithholding, TypeOK, Totals, money, undo, lock
<1>7. CASE IsIncomingFrozen(r) \/ ReadAdvance(r) \/ RereadAdvance(r)
  BY <1>7 DEF IsIncomingFrozen, ReadAdvance, RereadAdvance, TypeOK, Totals, money, undo, lock
<1>8. CASE Sweep(r)
  BY <1>2, <1>3, <1>4, <1>8 DEF Sweep, Upsert, TypeOK, Totals, Plans, money, undo, lock
<1>9. CASE CreditVault(r)
  BY <1>9 DEF CreditVault, TypeOK, Totals, undo, lock
<1>10. CASE PostIngest(r)
  <2>1. books \in [Accounts -> Int] BY DEF TypeOK
  <2>2. books' \in [Accounts -> Int] BY <1>10, <2>1, LegsType DEF PostIngest, Legs
  <2>3. stored' \in [Runs -> SUBSET LegNames] BY <1>10 DEF PostIngest, Due, TypeOK
  <2> QED BY <1>10, <2>2, <2>3 DEF PostIngest, TypeOK, Totals, undo, lock
<1>11. CASE IngestThrows(r)
  <2>1. books \in [Accounts -> Int] /\ lost \in [Accounts -> Int] BY DEF TypeOK
  <2>2. /\ books' \in [Accounts -> Int] /\ lost' \in [Accounts -> Int]
        /\ stored' \in [Runs -> SUBSET LegNames]
    <3>1. CASE UNCHANGED <<books, lost, stored>> BY <3>1 DEF TypeOK
    <3>2. ASSUME NEW legs, books' = Add(books, Posted(r, legs)),
                 lost' = Add(lost, Posted(r, legs)),
                 stored' = [stored EXCEPT ![r] = legs \cap Due(r)]
          PROVE  /\ books' \in [Accounts -> Int] /\ lost' \in [Accounts -> Int]
                 /\ stored' \in [Runs -> SUBSET LegNames]
      <4>1. books' \in [Accounts -> Int] BY <2>1, <3>2, LegsType
      <4>2. lost' \in [Accounts -> Int] BY <2>1, <3>2, LegsType
      <4>3. stored' \in [Runs -> SUBSET LegNames] BY <3>2 DEF Due, TypeOK
      <4> QED BY <4>1, <4>2, <4>3
    <3> QED BY <1>11, <3>1, <3>2 DEF IngestThrows
  <2> QED BY <1>11, <2>2 DEF IngestThrows, TypeOK, Totals, undo, lock
<1>12. CASE DebitBack(r)
  <2> DEFINE a == Account(saga[r].frozen, saga[r].step)
             n == Amount(saga[r].plan, saga[r].step)
  <2>1. a \in Accounts /\ n \in Nat BY <1>2, <1>12 DEF DebitBack
  <2>2. owed' = owed \/ owed' = Plus(owed, a, n) BY <1>12 DEF DebitBack
  <2> HIDE DEF a, n
  <2>3. owed' \in [Accounts -> Nat] BY <2>1, <2>2 DEF TypeOK, Plus
  <2> QED BY <1>12, <2>3 DEF DebitBack, TypeOK, Totals, undo, lock
<1>13. CASE SweepBack(r)
  BY <1>2, <1>3, <1>4, <1>13
     DEF SweepBack, Upsert, Most, TypeOK, Totals, Plans, money, undo, lock
<1>14. CASE UnwindEscrowRow(r)
  BY <1>14 DEF UnwindEscrowRow, TypeOK, Totals, money, undo, lock
<1> QED
  BY <1>1, <1>5, <1>6, <1>7, <1>8, <1>9, <1>10, <1>11, <1>12, <1>13, <1>14 DEF Saga

LEMMA MoneySaga ==
  ASSUME TypeOK, SagaStep
  PROVE  Money'
<1>1. PICK r \in Runs : Saga(r) BY DEF SagaStep
<1>2. \A leg \in LegNames : /\ Account(saga[r].frozen, leg) \in Accounts
                            /\ Amount(saga[r].plan, leg) \in Nat
  BY LegType
<1> DEFINE a == Account(saga[r].frozen, saga[r].step)
           n == Amount(saga[r].plan, saga[r].step)
<1>3. "receivable" \notin flaws' => "receivable" \notin flaws
  BY <1>1 DEF Saga, Begin, ApplyWithholding, IsIncomingFrozen, ReadAdvance, Sweep,
     CreditVault, PostIngest, IngestThrows, DebitBack, RereadAdvance, SweepBack,
     UnwindEscrowRow, Upsert
<1>4. CASE CreditVault(r)
  <2>1. a \in Accounts /\ n \in Nat /\ bal' = Plus(bal, a, n)
    BY <1>2, <1>4 DEF CreditVault
  <2> HIDE DEF a, n
  <2>2. /\ bal' \in [Accounts -> Int] /\ bal'[a] = bal[a] + n
        /\ \A b \in Accounts \ {a} : bal'[b] = bal[b]
    BY <2>1, PlusType DEF TypeOK
  <2> QED BY <1>3, <2>1, <2>2 DEF TypeOK, Money
<1>5. CASE DebitBack(r)
  <2>1. a \in Accounts /\ n \in Nat BY <1>2, <1>5 DEF DebitBack
  <2>2. bal' = bal \/ (bal[a] >= n /\ bal' = Plus(bal, a, -n))
    BY <1>5 DEF DebitBack, Backs
  <2> HIDE DEF a, n
  <2>3. bal \in [Accounts -> Int] /\ bal[a] \in Int /\ -n \in Int
    BY <2>1 DEF TypeOK
  <2>4. /\ Plus(bal, a, -n)[a] = bal[a] + (-n)
        /\ Plus(bal, a, -n) \in [Accounts -> Int]
        /\ \A b \in Accounts \ {a} : Plus(bal, a, -n)[b] = bal[b]
    <3> DEFINE m == -n
    <3> HIDE DEF m
    <3>1. m \in Int BY <2>3 DEF m
    <3>2. /\ Plus(bal, a, m)[a] = bal[a] + m
          /\ Plus(bal, a, m) \in [Accounts -> Int]
          /\ \A b \in Accounts \ {a} : Plus(bal, a, m)[b] = bal[b]
      BY <2>1, <2>3, <3>1, PlusType
    <3> QED BY <3>2 DEF m
  <2> QED BY <1>3, <2>1, <2>2, <2>3, <2>4 DEF TypeOK, Money
<1>6. CASE bal' = bal BY <1>3, <1>6 DEF TypeOK, Money
<1> QED
  BY <1>1, <1>4, <1>5, <1>6 DEF Saga, Begin, ApplyWithholding, IsIncomingFrozen,
     ReadAdvance, Sweep, PostIngest, IngestThrows, RereadAdvance, SweepBack,
     UnwindEscrowRow, money

(* The same for a reversal, which holds the run it works on. *)
CallRec == [mode : CallModes, step : Steps, run : Runs \cup {NoRun}, seen : Plans,
            floorless : BOOLEAN]

LEMMA CallStep ==
  ASSUME NEW f \in [Reversals -> CallRec], NEW v \in Reversals, NEW s \in Steps
  PROVE  [f EXCEPT ![v].step = s] \in [Reversals -> CallRec]
BY DEF CallRec

LEMMA CallRecord ==
  ASSUME NEW f \in [Reversals -> CallRec], NEW v \in Reversals,
         NEW m \in CallModes, NEW s \in Steps, NEW p \in Plans
  PROVE  /\ [f EXCEPT ![v].mode = m, ![v].step = s] \in [Reversals -> CallRec]
         /\ [f EXCEPT ![v].seen = p, ![v].step = s] \in [Reversals -> CallRec]
<1>1. [f EXCEPT ![v].mode = m, ![v].step = s] \in [Reversals -> CallRec] BY DEF CallRec
<1>2. [f EXCEPT ![v].seen = p, ![v].step = s] \in [Reversals -> CallRec] BY DEF CallRec
<1> QED BY <1>1, <1>2

LEMMA TakenType ==
  ASSUME TypeOK, NEW v \in Reversals, call[v].run \in Runs, call[v].step \in LegNames
  PROVE  Taken(v) \in Nat
BY LegType DEF Taken, Plan

LEMMA IdleType == Idle \in CallRec
BY DEF Idle, CallRec, CallModes, Steps, Plans

LEMMA HeldRun ==
  ASSUME TypeOK, Held, NEW v \in Reversals, call[v].mode # "idle"
  PROVE  call[v].run \in Runs /\ call[v].run \in ingested /\ call[v].run # NoRun
<1>1. call[v].run \in ingested /\ ingested \subseteq Runs BY DEF Held, TypeOK
<1> QED BY <1>1, SplitAssumption

LEMMA ShapeReverse ==
  ASSUME TypeOK, Held, ReverseStep
  PROVE  Shape'
<1>1. PICK v \in Reversals : Reverse(v) BY DEF ReverseStep
<1> DEFINE plan == Plan(v)
<1>2. call \in [Reversals -> CallRec] BY DEF TypeOK, CallRec
<1>3. advance \in Plans BY DEF TypeOK
<1>4. /\ After("claw", plan, "sweep") \in Steps
      /\ After("unwind", plan, "begin") \in Steps
      /\ After("unwind", plan, "sweep") \in Steps
      /\ \A leg \in LegNames : /\ After("claw", plan, leg) \in Steps
                              /\ After("refund", plan, leg) \in Steps
                              /\ After("unwind", plan, leg) \in Steps
  BY Walks
<1>5. {"sweep", "withhold", "row"} \subseteq Steps BY DEF Steps
<1>6. {"claw", "refund", "unwind", "close"} \subseteq CallModes BY DEF CallModes
<1>7. Forward(v) = [call EXCEPT ![v].step = After(call[v].mode, plan, call[v].step)]
  BY <1>2 DEF Forward
<1>8. call' \in [Reversals -> CallRec]
  <2>1. CASE \E r \in Runs : Claim(v, r)
    <3>1. PICK r \in Runs : Claim(v, r) BY <2>1
    <3>2. PICK floorless \in {FALSE, Operating} :
            call' = [call EXCEPT ![v] =
              [mode |-> "claw", step |-> After("claw", saga[r].plan, "begin"),
               run |-> r, seen |-> NoAdvance, floorless |-> floorless]]
      BY <3>1 DEF Claim
    <3>3. After("claw", saga[r].plan, "begin") \in Steps BY Walks
    <3> DEFINE t == After("claw", saga[r].plan, "begin")
               c == [mode |-> "claw", step |-> t, run |-> r, seen |-> NoAdvance,
                     floorless |-> floorless]
    <3>4. t \in Steps /\ call' = [call EXCEPT ![v] = c] BY <3>2, <3>3
    <3>5. c \in CallRec
      <4> HIDE DEF t
      <4> QED BY <1>6, <3>4, SplitAssumption DEF CallRec, Plans
    <3> HIDE DEF c
    <3> QED BY <1>2, <3>4, <3>5
  <2>2. CASE \/ Clawback(v) /\ call' = Forward(v)
             \/ Recredit(v) \/ Rollback(v) \/ ReapplyRollback(v)
    <3> DEFINE t == After(call[v].mode, plan, call[v].step)
    <3>1. t \in Steps
      BY <1>4, <2>2 DEF Clawback, Recredit, Rollback, ReapplyRollback, At
    <3>2. call' = [call EXCEPT ![v].step = t]
      BY <1>7, <2>2 DEF Recredit, Rollback, ReapplyRollback
    <3> HIDE DEF t
    <3> QED BY <1>2, <3>1, <3>2, CallStep
  <2>3. CASE Clawback(v) /\ call' # Forward(v)
    <3> DEFINE t == After("refund", plan, call[v].step)
    <3>1. t \in Steps /\ call' = [call EXCEPT ![v].mode = "refund", ![v].step = t]
      BY <1>2, <1>4, <2>3 DEF Clawback, At
    <3>2. "refund" \in CallModes BY <1>6
    <3> HIDE DEF t
    <3> QED BY <1>2, <1>3, <3>1, <3>2, CallRecord
  <2>4. CASE ReadRollback(v)
    BY <1>2, <1>3, <1>5, <1>6, <2>4, CallRecord DEF ReadRollback
  <2>5. CASE PostReversal(v)
    BY <1>2, <1>3, <1>5, <1>6, <2>5, CallRecord DEF PostReversal
  <2>6. CASE ReversalThrows(v)
    BY <1>2, <1>3, <1>4, <1>6, <2>6, CallRecord DEF ReversalThrows
  <2>7. CASE RevertClaim(v) \/ InsertSplitReversal(v)
    BY <1>2, <2>7, IdleType DEF RevertClaim, InsertSplitReversal
  <2>8. CASE UnwindEscrowForRun(v)
    BY <1>2, <1>5, <2>8, CallStep DEF UnwindEscrowForRun
  <2> QED BY <1>1, <2>1, <2>2, <2>3, <2>4, <2>5, <2>6, <2>7, <2>8 DEF Reverse
<1>9. UNCHANGED <<saga, locker, dispute>>
  BY <1>1 DEF Reverse, Claim, Clawback, Recredit, ReadRollback, Rollback,
     ReapplyRollback, PostReversal, ReversalThrows, RevertClaim, UnwindEscrowForRun,
     InsertSplitReversal, runs, lock
<1> QED BY <1>8, <1>9 DEF TypeOK, Shape, CallRec

LEMMA TotalsReverse ==
  ASSUME TypeOK, Held, ReverseStep
  PROVE  Totals'
<1>1. PICK v \in Reversals : Reverse(v) BY DEF ReverseStep
<1>2. call[v].seen # NoAdvance => call[v].seen \in Nat BY DEF TypeOK, Plans
<1>3. "recouped" \in LegNames BY DEF LegNames
<1>4. CASE \E r \in Runs : Claim(v, r)
  BY <1>4 DEF Claim, TypeOK, Totals, money, lock
<1>5. CASE Clawback(v) \/ Recredit(v) \/ ReadRollback(v)
  BY <1>5 DEF Clawback, Recredit, ReadRollback, TypeOK, Totals, money, runs, lock
<1>6. CASE Rollback(v) \/ ReapplyRollback(v)
  <2>1. call[v].run \in Runs BY <1>6, HeldRun DEF Rollback, ReapplyRollback, At
  <2>2. Amount(Plan(v), "recouped") \in Nat BY <1>3, <2>1, LegType DEF Plan
  <2>3. call[v].seen \in Nat BY <1>2, <1>6 DEF Rollback, ReapplyRollback
  <2>4. advance' \in Nat
    BY <1>6, <2>2, <2>3 DEF Rollback, ReapplyRollback, Upsert, Most
  <2> QED
    BY <1>6, <2>4 DEF Rollback, ReapplyRollback, Upsert, TypeOK, Totals, Plans,
       money, runs, lock
<1>7. CASE PostReversal(v) \/ ReversalThrows(v)
  <2>1. call[v].run \in Runs BY <1>7, HeldRun DEF PostReversal, ReversalThrows, At
  <2>2. /\ books' \in [Accounts -> Int] /\ lost' \in [Accounts -> Int]
        /\ stored' = stored
    <3>1. books \in [Accounts -> Int] /\ lost \in [Accounts -> Int] BY DEF TypeOK
    <3>2. CASE PostReversal(v)
      BY <2>1, <3>1, <3>2, LegsType DEF PostReversal, Legs, runs
    <3>3. CASE ReversalThrows(v) /\ UNCHANGED <<books, lost>>
      BY <3>1, <3>3 DEF ReversalThrows, runs
    <3>4. ASSUME NEW legs, books' = Sub(books, Posted(call[v].run, legs)),
                 lost' = Sub(lost, Posted(call[v].run, legs))
          PROVE  books' \in [Accounts -> Int] /\ lost' \in [Accounts -> Int]
      <4>1. books' \in [Accounts -> Int] BY <2>1, <3>1, <3>4, LegsType
      <4>2. lost' \in [Accounts -> Int] BY <2>1, <3>1, <3>4, LegsType
      <4> QED BY <4>1, <4>2
    <3>5. ReversalThrows(v) => stored' = stored BY DEF ReversalThrows, runs
    <3> QED BY <1>7, <3>2, <3>3, <3>4, <3>5 DEF ReversalThrows
  <2> DEFINE r == call[v].run
  <2>3. /\ undone' = undone \/ undone' = [undone EXCEPT ![r] = @ + 1]
        /\ broken' = broken \/ broken' = broken \cup {r}
    BY <1>7 DEF PostReversal, ReversalThrows
  <2>4. r \in Runs /\ undone \in [Runs -> Nat] /\ broken \subseteq Runs
    BY <2>1 DEF TypeOK
  <2> HIDE DEF r
  <2>5. undone' \in [Runs -> Nat] /\ broken' \subseteq Runs BY <2>3, <2>4
  <2> QED
    BY <1>7, <2>2, <2>5 DEF PostReversal, ReversalThrows, TypeOK, Totals, runs, lock
<1>8. CASE RevertClaim(v)
  BY <1>8 DEF RevertClaim, TypeOK, Totals, money, lock
<1>9. CASE UnwindEscrowForRun(v)
  <2>1. escrow \in [Runs -> Int] /\ 0 \in Int BY DEF TypeOK
  <2>2. \E r : escrow' = [escrow EXCEPT ![r] = 0] BY <1>9 DEF UnwindEscrowForRun
  <2>3. escrow' \in [Runs -> Int] BY <2>1, <2>2
  <2> QED BY <1>9, <2>3 DEF UnwindEscrowForRun, TypeOK, Totals, money, lock
<1>10. CASE InsertSplitReversal(v)
  <2>1. call[v].run \in Runs BY <1>10, HeldRun DEF InsertSplitReversal, At
  <2> QED BY <1>10, <2>1 DEF InsertSplitReversal, TypeOK, Totals, money, runs, lock
<1> QED BY <1>1, <1>4, <1>5, <1>6, <1>7, <1>8, <1>9, <1>10 DEF Reverse

LEMMA MinusType ==
  ASSUME NEW f \in [Accounts -> Int], NEW a \in Accounts, NEW n \in Int
  PROVE  /\ Plus(f, a, -n) \in [Accounts -> Int]
         /\ Plus(f, a, -n)[a] = f[a] - n
         /\ \A b \in Accounts \ {a} : Plus(f, a, -n)[b] = f[b]
<1> DEFINE m == -n
<1>1. m \in Int OBVIOUS
<1> HIDE DEF m
<1>2. /\ Plus(f, a, m) \in [Accounts -> Int] /\ Plus(f, a, m)[a] = f[a] + m
      /\ \A b \in Accounts \ {a} : Plus(f, a, m)[b] = f[b]
  BY <1>1, PlusType
<1> QED BY <1>2 DEF m

LEMMA MoneyReverse ==
  ASSUME TypeOK, Held, ReverseStep
  PROVE  Money'
<1>1. PICK v \in Reversals : Reverse(v) BY DEF ReverseStep
<1> DEFINE a == Account(saga[call[v].run].frozen, call[v].step)
           n == Taken(v)
<1>2. "receivable" \notin flaws' => "receivable" \notin flaws
  BY <1>1 DEF Reverse, Claim, Clawback, Recredit, ReadRollback, Rollback,
     ReapplyRollback, PostReversal, ReversalThrows, RevertClaim, UnwindEscrowForRun,
     InsertSplitReversal, Upsert
<1>3. Clawback(v) \/ Recredit(v) => a \in Accounts /\ n \in Nat
  <2> SUFFICES ASSUME Clawback(v) \/ Recredit(v) PROVE a \in Accounts /\ n \in Nat
    OBVIOUS
  <2>1. call[v].mode # "idle" /\ call[v].step \in LegNames
    BY DEF Clawback, Recredit, At
  <2> QED BY <2>1, HeldRun, LegType, TakenType
<1>4. CASE Recredit(v)
  <2>1. a \in Accounts /\ n \in Nat /\ bal' = Plus(bal, a, n)
    BY <1>3, <1>4 DEF Recredit
  <2> HIDE DEF a, n
  <2>2. bal \in [Accounts -> Int] /\ bal[a] \in Int /\ n \in Int
    BY <2>1 DEF TypeOK
  <2>3. /\ bal' \in [Accounts -> Int] /\ bal'[a] = bal[a] + n
        /\ \A b \in Accounts \ {a} : bal'[b] = bal[b]
    BY <2>1, <2>2, PlusType
  <2> QED BY <1>2, <2>1, <2>2, <2>3 DEF TypeOK, Money
<1>5. CASE Clawback(v)
  <2>1. a \in Accounts /\ n \in Nat BY <1>3, <1>5
  <2>2. \/ bal' = bal
        \/ /\ bal' = Plus(bal, a, -n)
           /\ flaws' = IF n = 0 \/ bal[a] >= n THEN flaws ELSE flaws \cup {"receivable"}
    BY <1>5 DEF Clawback
  <2> HIDE DEF a, n
  <2>3. bal[a] \in Int /\ bal \in [Accounts -> Int] /\ n \in Int BY <2>1 DEF TypeOK
  <2>4. /\ Plus(bal, a, -n) \in [Accounts -> Int] /\ Plus(bal, a, -n)[a] = bal[a] - n
        /\ \A b \in Accounts \ {a} : Plus(bal, a, -n)[b] = bal[b]
    BY <2>1, <2>3, MinusType
  <2> QED BY <1>2, <2>1, <2>2, <2>3, <2>4 DEF TypeOK, Money
<1>6. CASE bal' = bal BY <1>2, <1>6 DEF TypeOK, Money
<1> QED
  BY <1>1, <1>4, <1>5, <1>6 DEF Reverse, Claim, ReadRollback, Rollback,
     ReapplyRollback, PostReversal, ReversalThrows, RevertClaim, UnwindEscrowForRun,
     InsertSplitReversal, money

(* Dispute calls, releases and payouts. *)
LockRec == [step : {"idle", "read"} \cup Underway, locked : BOOLEAN,
            available : Int, pending : Int, reserve : Int]

LEMMA LockRecord ==
  ASSUME NEW f \in [Lockers -> LockRec], NEW l \in Lockers, NEW c \in LockRec,
         NEW s \in {"idle", "read"} \cup Underway
  PROVE  /\ [f EXCEPT ![l] = c] \in [Lockers -> LockRec]
         /\ [f EXCEPT ![l].step = s] \in [Lockers -> LockRec]
<1>1. [f EXCEPT ![l] = c] \in [Lockers -> LockRec] OBVIOUS
<1>2. [f EXCEPT ![l].step = s] \in [Lockers -> LockRec] BY DEF LockRec
<1> QED BY <1>1, <1>2

(* What DecideLock decides to freeze, of what it read. *)
LEMMA FreezeSplit ==
  ASSUME NEW available \in Int, NEW pending \in Int
  PROVE  LET amount == available + pending
             taken == Least(amount, available)
         IN /\ taken \in Int /\ amount - taken \in Int
            /\ available >= 0 /\ pending >= 0 => taken >= 0 /\ amount - taken >= 0
BY DEF Least

LEMMA FreeType == Free \in LockRec /\ Free.available = 0 /\ Free.pending = 0
BY DEF Free, LockRec, Underway

LEMMA ShapeOther ==
  ASSUME TypeOK, OtherStep
  PROVE  Shape'
<1>1. locker \in [Lockers -> LockRec] BY DEF TypeOK, LockRec
<1>2. dispute \in [locked : BOOLEAN, available : Int, pending : Int] BY DEF TypeOK
<1>3. UNCHANGED <<saga, call>>
  BY DEF OtherStep, Lock, ReadVault, DecideLock, DecideUnlock, MoveFrozen, PostSweep,
     SweepThrows, UpsertDispute, ReleaseVaultPending, PayoutFromVault, runs, undo
<1>4. /\ locker' \in [Lockers -> LockRec]
      /\ dispute' \in [locked : BOOLEAN, available : Int, pending : Int]
  <2>1. CASE ReleaseVaultPending \/ PayoutFromVault
    BY <1>1, <1>2, <2>1 DEF ReleaseVaultPending, PayoutFromVault, lock
  <2>2. ASSUME NEW l \in Lockers, Lock(l)
        PROVE  /\ locker' \in [Lockers -> LockRec]
               /\ dispute' \in [locked : BOOLEAN, available : Int, pending : Int]
    <3>1. /\ locker[l].locked \in BOOLEAN
          /\ locker[l].available \in Int /\ locker[l].pending \in Int
      BY <1>1 DEF LockRec
    <3>2. CASE \E locked \in BOOLEAN : ReadVault(l, locked)
      <4>1. /\ bal["available"] \in Int /\ bal["pending"] \in Int
            /\ bal["reserve"] \in Int
        BY DEF TypeOK, Accounts
      <4>2. PICK locked \in BOOLEAN : ReadVault(l, locked) BY <3>2
      <4> DEFINE c == IF locked
                      THEN [step |-> "read", locked |-> TRUE, available |-> bal["available"],
                            pending |-> bal["pending"], reserve |-> 0]
                      ELSE [step |-> "read", locked |-> FALSE, available |-> 0,
                            pending |-> 0, reserve |-> bal["reserve"]]
      <4>3. c \in LockRec BY <4>1 DEF LockRec
      <4>4. locker' = [locker EXCEPT ![l] = c] /\ dispute' = dispute
        BY <4>2 DEF ReadVault
      <4> HIDE DEF c
      <4> QED BY <1>1, <1>2, <4>3, <4>4
    <3>3. CASE DecideLock(l)
      <4> DEFINE amount == locker[l].available + locker[l].pending
                 taken == Least(amount, locker[l].available)
                 c == [step |-> "move", locked |-> TRUE, available |-> taken,
                       pending |-> amount - taken, reserve |-> 0]
      <4>1. taken \in Int /\ amount - taken \in Int BY <3>1, FreezeSplit
      <4>2. c \in LockRec
        <5> HIDE DEF taken, amount
        <5> QED BY <4>1 DEF LockRec, Underway
      <4>3. /\ \/ locker' = [locker EXCEPT ![l] = Free]
               \/ locker' = [locker EXCEPT ![l] = c]
            /\ dispute' = dispute
        BY <3>3 DEF DecideLock
      <4> HIDE DEF c
      <4> QED BY <1>1, <1>2, <4>2, <4>3, FreeType
    <3>4. CASE DecideUnlock(l)
      <4> DEFINE c == [step |-> "move", locked |-> FALSE,
                       available |-> dispute.available, pending |-> dispute.pending,
                       reserve |-> 0]
                 d == [step |-> "upsert", locked |-> FALSE, available |-> 0, pending |-> 0,
                       reserve |-> 0]
      <4>1. c \in LockRec BY <1>2 DEF LockRec, Underway
      <4>2. d \in LockRec BY DEF LockRec, Underway
      <4>3. /\ \/ locker' = [locker EXCEPT ![l] = c]
               \/ locker' = [locker EXCEPT ![l] = d]
               \/ locker' = [locker EXCEPT ![l] = Free]
            /\ dispute' = dispute
        BY <3>4 DEF DecideUnlock
      <4> HIDE DEF c, d
      <4> QED BY <1>1, <1>2, <4>1, <4>2, <4>3, FreeType
    <3>5. CASE MoveFrozen(l) \/ PostSweep(l) \/ SweepThrows(l)
      <4>1. /\ \/ locker' = [locker EXCEPT ![l] = Free]
               \/ \E t \in {"journal", "upsert"} : locker' = [locker EXCEPT ![l].step = t]
            /\ dispute' = dispute
        BY <3>5 DEF MoveFrozen, PostSweep, SweepThrows
      <4>2. {"journal", "upsert"} \subseteq Underway BY DEF Underway
      <4> QED BY <1>1, <1>2, <4>1, <4>2, FreeType, LockRecord
    <3>6. CASE UpsertDispute(l)
      BY <1>1, <3>1, <3>6, FreeType DEF UpsertDispute
    <3> QED BY <2>2, <3>2, <3>3, <3>4, <3>5, <3>6 DEF Lock
  <2> QED BY <2>1, <2>2 DEF OtherStep
<1> QED BY <1>3, <1>4 DEF TypeOK, Shape, LockRec

LEMMA SweptType ==
  ASSUME TypeOK, NEW f \in [Accounts -> Int], NEW l \in Lockers
  PROVE  LET way == IF locker[l].locked THEN 1 ELSE -1
             available == way * locker[l].available
             pending == way * locker[l].pending
         IN /\ Swept(f, l) \in [Accounts -> Int]
            /\ Swept(f, l)["available"] = f["available"] - available
            /\ Swept(f, l)["pending"] = f["pending"] - pending
            /\ Swept(f, l)["reserve"] = f["reserve"] + available + pending
            /\ Swept(f, l)["platform"] = f["platform"]
            /\ Swept(f, l)["house"] = f["house"]
<1> DEFINE way == IF locker[l].locked THEN 1 ELSE -1
           available == way * locker[l].available
           pending == way * locker[l].pending
<1>1. locker[l].available \in Int /\ locker[l].pending \in Int BY DEF TypeOK
<1>2. available \in Int /\ pending \in Int BY <1>1
<1>3. Swept(f, l) = [f EXCEPT !["available"] = @ - available,
                              !["pending"] = @ - pending,
                              !["reserve"] = @ + available + pending]
  BY DEF Swept
<1> HIDE DEF available, pending
<1> QED BY <1>2, <1>3 DEF Accounts, available, pending

(* A release and a payout, bucket by bucket. *)
LEMMA MoveType ==
  ASSUME NEW f \in [Accounts -> Int], NEW n \in Int
  PROVE  /\ Plus(f, "available", -n) \in [Accounts -> Int]
         /\ Plus(Plus(f, "pending", -n), "available", n) \in [Accounts -> Int]
         /\ LET g == Plus(Plus(f, "pending", -n), "available", n)
            IN /\ g["pending"] = f["pending"] - n
               /\ g["available"] = f["available"] + n
               /\ \A b \in Accounts \ {"pending", "available"} : g[b] = f[b]
         /\ LET g == Plus(f, "available", -n)
            IN /\ g["available"] = f["available"] - n
               /\ \A b \in Accounts \ {"available"} : g[b] = f[b]
<1>1. "available" \in Accounts /\ "pending" \in Accounts BY DEF Accounts
<1>2. /\ Plus(f, "available", -n) \in [Accounts -> Int]
      /\ Plus(f, "available", -n)["available"] = f["available"] - n
      /\ \A b \in Accounts \ {"available"} : Plus(f, "available", -n)[b] = f[b]
  BY <1>1, MinusType
<1> DEFINE g == Plus(f, "pending", -n)
<1>3. /\ g \in [Accounts -> Int] /\ g["pending"] = f["pending"] - n
      /\ \A b \in Accounts \ {"pending"} : g[b] = f[b]
  BY <1>1, MinusType
<1> HIDE DEF g
<1>4. /\ Plus(g, "available", n) \in [Accounts -> Int]
      /\ Plus(g, "available", n)["available"] = g["available"] + n
      /\ \A b \in Accounts \ {"available"} : Plus(g, "available", n)[b] = g[b]
  BY <1>1, <1>3, PlusType
<1>5. Plus(g, "available", n)["available"] = f["available"] + n
  BY <1>1, <1>3, <1>4
<1>6. Plus(g, "available", n)["pending"] = f["pending"] - n
  BY <1>1, <1>3, <1>4
<1>7. \A b \in Accounts \ {"pending", "available"} : Plus(g, "available", n)[b] = f[b]
  BY <1>3, <1>4
<1> QED BY <1>2, <1>4, <1>5, <1>6, <1>7 DEF g

LEMMA TotalsOther ==
  ASSUME TypeOK, OtherStep
  PROVE  Totals'
<1>1. books \in [Accounts -> Int] /\ bal \in [Accounts -> Int] BY DEF TypeOK
<1>2. bal["pending"] \in Int /\ bal["available"] \in Int BY <1>1 DEF Accounts
<1>3. books' \in [Accounts -> Int]
  <2>1. CASE ReleaseVaultPending
    <3> DEFINE n == bal["pending"]
    <3>1. books' = Plus(Plus(books, "pending", -n), "available", n) /\ n \in Int
      BY <1>2, <2>1 DEF ReleaseVaultPending
    <3> HIDE DEF n
    <3> QED BY <1>1, <3>1, MoveType
  <2>2. CASE PayoutFromVault
    <3> DEFINE n == bal["available"]
    <3>1. books' = Plus(books, "available", -n) /\ n \in Int
      BY <1>2, <2>2 DEF PayoutFromVault
    <3> HIDE DEF n
    <3> QED BY <1>1, <3>1, MoveType
  <2>3. ASSUME NEW l \in Lockers, Lock(l) PROVE books' \in [Accounts -> Int]
    <3>1. CASE SweepThrows(l)
      <4>1. PICK order : \E n \in 0..3 :
              books' = [a \in Accounts |-> IF \E i \in 1..n : order[i] = a
                                           THEN Swept(books, l)[a] ELSE books[a]]
        BY <3>1 DEF SweepThrows
      <4>2. Swept(books, l) \in [Accounts -> Int] BY <1>1, SweptType
      <4> QED BY <1>1, <4>1, <4>2
    <3>2. CASE books' = books \/ books' = Swept(books, l) BY <1>1, <3>2, SweptType
    <3> QED
      BY <2>3, <3>1, <3>2 DEF Lock, ReadVault, DecideLock, DecideUnlock, MoveFrozen,
         PostSweep, UpsertDispute, money
  <2> QED BY <2>1, <2>2, <2>3 DEF OtherStep
<1>6. lost' \in [Accounts -> Int]
  <2>1. ASSUME NEW l \in Lockers, SweepThrows(l) PROVE lost' \in [Accounts -> Int]
    <3>1. lost' = [a \in Accounts |-> lost[a] + books'[a] - Swept(books, l)[a]]
      BY <2>1 DEF SweepThrows
    <3>2. Swept(books, l) \in [Accounts -> Int] BY <1>1, SweptType
    <3>3. lost \in [Accounts -> Int] BY DEF TypeOK
    <3> QED BY <1>3, <3>1, <3>2, <3>3
  <2>2. CASE lost' = lost BY <2>2 DEF TypeOK
  <2> QED
    BY <2>1, <2>2 DEF OtherStep, Lock, ReadVault, DecideLock, DecideUnlock, MoveFrozen,
       PostSweep, UpsertDispute, ReleaseVaultPending, PayoutFromVault, money
<1>4. UNCHANGED <<owed, stored, advance, status, escrow, undone, ingested, reversal, broken>>
  BY DEF OtherStep, Lock, ReadVault, DecideLock, DecideUnlock, MoveFrozen, PostSweep,
     SweepThrows, UpsertDispute, ReleaseVaultPending, PayoutFromVault, runs, undo
<1>5. flaws' \subseteq flaws \cup {"relock", "cut"}
  BY DEF OtherStep, Lock, ReadVault, DecideLock, DecideUnlock, MoveFrozen, PostSweep,
     SweepThrows, UpsertDispute, ReleaseVaultPending, PayoutFromVault, Begun
<1> QED BY <1>3, <1>4, <1>5, <1>6 DEF TypeOK, Totals

LEMMA MoneyOther ==
  ASSUME TypeOK, Signs, OtherStep
  PROVE  Money'
<1>1. bal \in [Accounts -> Int] BY DEF TypeOK
<1>2. /\ bal["pending"] \in Int /\ bal["available"] \in Int /\ bal["reserve"] \in Int
  BY <1>1 DEF Accounts
<1>3. "receivable" \notin flaws' => "receivable" \notin flaws
  BY DEF OtherStep, Lock, ReadVault, DecideLock, DecideUnlock, MoveFrozen, PostSweep,
     SweepThrows, UpsertDispute, ReleaseVaultPending, PayoutFromVault, Begun
<1>4. "receivable" \notin flaws => \A a \in Accounts : bal[a] >= 0 BY DEF TypeOK
<1>5. CASE ReleaseVaultPending
  <2> DEFINE n == bal["pending"]
  <2>1. bal' = Plus(Plus(bal, "pending", -n), "available", n) /\ n \in Int /\ n > 0
    BY <1>2, <1>5 DEF ReleaseVaultPending
  <2>2. n = bal["pending"] OBVIOUS
  <2> HIDE DEF n
  <2>3. /\ bal' \in [Accounts -> Int]
        /\ bal'["pending"] = bal["pending"] - n
        /\ bal'["available"] = bal["available"] + n
        /\ \A b \in Accounts \ {"pending", "available"} : bal'[b] = bal[b]
    BY <1>1, <2>1, MoveType
  <2>4. bal'["pending"] = 0 BY <1>2, <2>2, <2>3
  <2>5. "receivable" \notin flaws => bal'["available"] >= 0
    BY <1>2, <1>4, <2>1, <2>3 DEF Accounts
  <2> QED BY <1>3, <1>4, <2>3, <2>4, <2>5 DEF Money, Accounts
<1>6. CASE PayoutFromVault
  <2> DEFINE n == bal["available"]
  <2>1. bal' = Plus(bal, "available", -n) /\ n \in Int
    BY <1>2, <1>6 DEF PayoutFromVault
  <2>2. n = bal["available"] OBVIOUS
  <2> HIDE DEF n
  <2>3. /\ bal' \in [Accounts -> Int]
        /\ bal'["available"] = bal["available"] - n
        /\ \A b \in Accounts \ {"available"} : bal'[b] = bal[b]
    BY <1>1, <2>1, MoveType
  <2>4. bal'["available"] = 0 BY <1>2, <2>2, <2>3
  <2> QED BY <1>3, <1>4, <2>3, <2>4 DEF Money, Accounts
<1>7. ASSUME NEW l \in Lockers, MoveFrozen(l), Covered(l) PROVE Money'
  <2> DEFINE way == IF locker[l].locked THEN 1 ELSE -1
             available == way * locker[l].available
             pending == way * locker[l].pending
  <2>1. bal' = Swept(bal, l) BY <1>7 DEF MoveFrozen
  <2>2. /\ bal' \in [Accounts -> Int]
        /\ bal'["available"] = bal["available"] - available
        /\ bal'["pending"] = bal["pending"] - pending
        /\ bal'["reserve"] = bal["reserve"] + available + pending
        /\ bal'["platform"] = bal["platform"] /\ bal'["house"] = bal["house"]
    BY <1>1, <2>1, SweptType
  <2>3. locker[l].available \in Int /\ locker[l].pending \in Int BY DEF TypeOK
  <2>4. "receivable" \notin flaws => locker[l].available >= 0 /\ locker[l].pending >= 0
    BY DEF Signs
  <2>5. ASSUME "receivable" \notin flaws
        PROVE  /\ bal'["available"] >= 0 /\ bal'["pending"] >= 0
               /\ bal'["reserve"] >= 0
    <3>1. bal["available"] >= 0 /\ bal["pending"] >= 0 /\ bal["reserve"] >= 0
      BY <1>4, <2>5 DEF Accounts
    <3>2. CASE locker[l].locked
      <4>1. available = locker[l].available /\ pending = locker[l].pending
        BY <2>3, <3>2
      <4>2. bal["available"] >= locker[l].available /\ bal["pending"] >= locker[l].pending
        BY <1>7, <3>2 DEF Covered
      <4> HIDE DEF available, pending
      <4> QED BY <1>2, <2>2, <2>3, <2>4, <2>5, <3>1, <4>1, <4>2
    <3>3. CASE ~locker[l].locked
      <4>1. available = -locker[l].available /\ pending = -locker[l].pending
        BY <2>3, <3>3
      <4>2. bal["reserve"] >= locker[l].available + locker[l].pending
        BY <1>7, <3>3 DEF Covered
      <4> HIDE DEF available, pending
      <4> QED BY <1>2, <2>2, <2>3, <2>4, <2>5, <3>1, <4>1, <4>2
    <3> QED BY <3>2, <3>3
  <2> QED BY <1>3, <1>4, <2>2, <2>5 DEF Money, Accounts
<1>8. ASSUME NEW l \in Lockers, Lock(l), ~(MoveFrozen(l) /\ Covered(l)) PROVE Money'
  <2>1. bal' = bal
    BY <1>8 DEF Lock, ReadVault, DecideLock, DecideUnlock, MoveFrozen, PostSweep,
       SweepThrows, UpsertDispute, money
  <2> QED BY <1>1, <1>3, <1>4, <2>1 DEF Money
<1> QED BY <1>5, <1>6, <1>7, <1>8 DEF OtherStep

LEMMA SignsStep ==
  ASSUME TypeOK, Signs, Next
  PROVE  Signs'
<1>1. "receivable" \notin flaws' => "receivable" \notin flaws
  BY DEF Next, Saga, Begin, ApplyWithholding, IsIncomingFrozen, ReadAdvance, Sweep,
     CreditVault, PostIngest, IngestThrows, DebitBack, RereadAdvance, SweepBack,
     UnwindEscrowRow, Reverse, Claim, Clawback, Recredit, ReadRollback, Rollback,
     ReapplyRollback, PostReversal, ReversalThrows, RevertClaim, UnwindEscrowForRun,
     InsertSplitReversal, Upsert, Lock, ReadVault, DecideLock, DecideUnlock, MoveFrozen,
     PostSweep, SweepThrows, UpsertDispute, ReleaseVaultPending, PayoutFromVault, Begun
<1> SUFFICES ASSUME "receivable" \notin flaws, "receivable" \notin flaws'
             PROVE  Signs'
  BY <1>1 DEF Signs
<1>2. /\ dispute.available >= 0 /\ dispute.pending >= 0
      /\ \A l \in Lockers : locker[l].available >= 0 /\ locker[l].pending >= 0
  BY DEF Signs
<1>3. \A a \in Accounts : bal[a] >= 0 BY DEF TypeOK
<1>4. locker \in [Lockers -> LockRec] BY DEF TypeOK, LockRec
<1>5. CASE UNCHANGED <<dispute, locker>> BY <1>2, <1>5 DEF Signs
<1>6. ASSUME NEW l \in Lockers, Lock(l) PROVE Signs'
  <2>1. locker[l].available \in Int /\ locker[l].pending \in Int
    BY <1>4 DEF LockRec
  <2>2. CASE \E locked \in BOOLEAN : ReadVault(l, locked)
    BY <1>2, <1>3, <1>4, <2>2 DEF ReadVault, Signs, Accounts
  <2>3. CASE DecideLock(l)
    <3> DEFINE amount == locker[l].available + locker[l].pending
               taken == Least(amount, locker[l].available)
    <3>1. taken >= 0 /\ amount - taken >= 0 BY <1>2, <2>1, FreezeSplit
    <3>2. /\ \/ locker' = [locker EXCEPT ![l] = Free]
             \/ locker' = [locker EXCEPT ![l] =
                  [step |-> "move", locked |-> TRUE, available |-> taken,
                   pending |-> amount - taken, reserve |-> 0]]
          /\ dispute' = dispute
      BY <2>3 DEF DecideLock
    <3> HIDE DEF amount, taken
    <3> QED BY <1>2, <1>4, <3>1, <3>2, FreeType DEF Signs
  <2>4. CASE DecideUnlock(l)
    BY <1>2, <1>4, <2>4, FreeType DEF DecideUnlock, Signs
  <2>5. CASE MoveFrozen(l) \/ PostSweep(l) \/ SweepThrows(l)
    <3>1. /\ \/ locker' = [locker EXCEPT ![l] = Free]
             \/ \E t : locker' = [locker EXCEPT ![l].step = t]
          /\ dispute' = dispute
      BY <2>5 DEF MoveFrozen, PostSweep, SweepThrows
    <3> QED BY <1>2, <1>4, <3>1, FreeType DEF Signs, LockRec
  <2>6. CASE UpsertDispute(l)
    BY <1>2, <1>4, <2>6, FreeType DEF UpsertDispute, Signs
  <2> QED BY <1>6, <2>2, <2>3, <2>4, <2>5, <2>6 DEF Lock
<1>7. ASSUME NEW r \in Runs, Saga(r) PROVE UNCHANGED <<dispute, locker>>
  BY <1>7 DEF Saga, Begin, ApplyWithholding, IsIncomingFrozen, ReadAdvance, Sweep,
     CreditVault, PostIngest, IngestThrows, DebitBack, RereadAdvance, SweepBack,
     UnwindEscrowRow, lock
<1>8. ASSUME NEW v \in Reversals, Reverse(v) PROVE UNCHANGED <<dispute, locker>>
  BY <1>8 DEF Reverse, Claim, Clawback, Recredit, ReadRollback, Rollback,
     ReapplyRollback, PostReversal, ReversalThrows, RevertClaim, UnwindEscrowForRun,
     InsertSplitReversal, lock
<1>9. CASE ReleaseVaultPending \/ PayoutFromVault
  BY <1>5, <1>9 DEF ReleaseVaultPending, PayoutFromVault, lock
<1> QED BY <1>5, <1>6, <1>7, <1>8, <1>9 DEF Next

-----------------------------------------------------------------------------
(* A reversal under way has its run to itself. *)

LEMMA HeldStep ==
  ASSUME TypeOK, Held, Next
  PROVE  Held'
<1>1. call \in [Reversals -> CallRec] /\ ingested \subseteq Runs
  BY DEF TypeOK, CallRec
<1>2. status \in [Runs -> {"none", "posted", "reversed"}] BY DEF TypeOK
<1>3. Idle.mode = "idle" /\ Idle.run = NoRun BY DEF Idle
<1>4. CASE /\ call' = call /\ ingested \subseteq ingested'
           /\ \A r \in Runs : status[r] = "reversed" => status'[r] = "reversed"
  BY <1>1, <1>4 DEF Held
<1>5. ASSUME NEW r \in Runs, Saga(r) PROVE Held'
  <2>1. call' = call /\ ingested \subseteq ingested'
    BY <1>5 DEF Saga, Begin, ApplyWithholding, IsIncomingFrozen, ReadAdvance, Sweep,
       CreditVault, PostIngest, IngestThrows, DebitBack, RereadAdvance, SweepBack,
       UnwindEscrowRow, undo
  <2>2. \A q \in Runs : status[q] = "reversed" => status'[q] = "reversed"
    BY <1>2, <1>5 DEF Saga, Begin, ApplyWithholding, IsIncomingFrozen, ReadAdvance,
       Sweep, CreditVault, PostIngest, IngestThrows, DebitBack, RereadAdvance,
       SweepBack, UnwindEscrowRow
  <2> QED BY <1>4, <2>1, <2>2
<1>6. ASSUME NEW v \in Reversals, NEW r \in Runs, Claim(v, r) PROVE Held'
  <2>1. /\ call[v] = Idle /\ r \in ingested /\ status[r] = "posted"
        /\ status' = [status EXCEPT ![r] = "reversed"]
        /\ ingested' = ingested
        /\ \A w \in Reversals \ {v} : call'[w] = call[w]
        /\ call'[v].run = r /\ call'[v].mode = "claw"
    BY <1>1, <1>6 DEF Claim, Claimable
  <2>2. r # NoRun BY SplitAssumption
  <2>3. \A w \in Reversals : call[w].run # r BY <1>3, <2>1, <2>2 DEF Held
  <2>4. \A q \in Runs : status[q] = "reversed" => status'[q] = "reversed"
    BY <1>2, <2>1
  <2>5. status'[r] = "reversed" BY <1>2, <2>1
  <2>6. ASSUME NEW w \in Reversals
        PROVE IF call'[w].mode = "idle" THEN call'[w] = Idle
              ELSE call'[w].run \in ingested' /\ status'[call'[w].run] = "reversed"
    <3>1. CASE w = v BY <2>1, <2>5, <3>1
    <3>2. CASE w # v BY <1>1, <2>1, <2>4, <3>2 DEF Held
    <3> QED BY <3>1, <3>2
  <2>7. \A w, x \in Reversals :
          call'[w].run = call'[x].run /\ call'[w].run # NoRun => w = x
    BY <2>1, <2>3 DEF Held
  <2> QED BY <2>6, <2>7 DEF Held
<1>7. ASSUME NEW v \in Reversals, RevertClaim(v) \/ InsertSplitReversal(v) PROVE Held'
  <2> DEFINE r == call[v].run
  <2>1. call[v].mode # "idle" BY <1>7 DEF RevertClaim, InsertSplitReversal, At
  <2>2. r \in Runs /\ r # NoRun BY <2>1, HeldRun
  <2>3. /\ call' = [call EXCEPT ![v] = Idle] /\ ingested' = ingested
        /\ \A q \in Runs \ {r} : status'[q] = status[q]
    BY <1>2, <1>7 DEF RevertClaim, InsertSplitReversal, runs
  <2>4. \A w \in Reversals \ {v} : call'[w] = call[w] /\ call[w].run # r
    BY <1>1, <2>2, <2>3 DEF Held
  <2>5. call'[v] = Idle BY <1>1, <2>3
  <2>6. ASSUME NEW w \in Reversals
        PROVE IF call'[w].mode = "idle" THEN call'[w] = Idle
              ELSE call'[w].run \in ingested' /\ status'[call'[w].run] = "reversed"
    <3>1. CASE w = v BY <1>3, <2>5, <3>1
    <3>2. CASE w # v BY <1>1, <2>3, <2>4, <3>2 DEF Held
    <3> QED BY <3>1, <3>2
  <2>7. \A w, x \in Reversals :
          call'[w].run = call'[x].run /\ call'[w].run # NoRun => w = x
    BY <1>3, <2>4, <2>5 DEF Held
  <2> QED BY <2>6, <2>7 DEF Held
<1>8. ASSUME NEW v \in Reversals, call'[v].run = call[v].run, call'[v].mode # "idle",
             call[v].mode # "idle", \A w \in Reversals \ {v} : call'[w] = call[w],
             UNCHANGED <<ingested, status>>
      PROVE  Held'
  <2>1. ASSUME NEW w \in Reversals
        PROVE IF call'[w].mode = "idle" THEN call'[w] = Idle
              ELSE call'[w].run \in ingested' /\ status'[call'[w].run] = "reversed"
    <3>1. CASE w = v BY <1>8, <3>1 DEF Held
    <3>2. CASE w # v BY <1>8, <3>2 DEF Held
    <3> QED BY <3>1, <3>2
  <2>2. \A w \in Reversals : call'[w].run = call[w].run BY <1>8
  <2> QED BY <2>1, <2>2 DEF Held
<1>9. ASSUME NEW v \in Reversals, Reverse(v),
             ~(\E r \in Runs : Claim(v, r)), ~RevertClaim(v), ~InsertSplitReversal(v)
      PROVE  Held'
  <2>1. CASE \/ Clawback(v) \/ Recredit(v) \/ Rollback(v) \/ ReapplyRollback(v)
             \/ ReadRollback(v) \/ ReversalThrows(v)
    <3>1. call[v].mode \in {"claw", "refund", "unwind"}
      BY <2>1 DEF Clawback, Recredit, Rollback, ReapplyRollback, ReadRollback,
         ReversalThrows, At
    <3>2. \/ \E t : call' = [call EXCEPT ![v].step = t]
          \/ \E t : call' = [call EXCEPT ![v].mode = "refund", ![v].step = t]
          \/ \E t : call' = [call EXCEPT ![v].mode = "unwind", ![v].step = t]
          \/ \E p : call' = [call EXCEPT ![v].seen = p, ![v].step = "sweep"]
      <4> HIDE DEF At
      <4> QED BY <2>1 DEF Clawback, Recredit, Rollback, ReapplyRollback, ReadRollback,
             ReversalThrows, Forward
    <3>3. /\ call'[v].run = call[v].run /\ call'[v].mode # "idle"
          /\ \A w \in Reversals \ {v} : call'[w] = call[w]
      BY <1>1, <3>1, <3>2 DEF CallRec
    <3>4. UNCHANGED <<ingested, status>>
      BY <2>1 DEF Clawback, Recredit, Rollback, ReapplyRollback, ReadRollback,
         ReversalThrows, runs
    <3> QED BY <1>8, <3>1, <3>3, <3>4
  <2>2. CASE PostReversal(v) \/ UnwindEscrowForRun(v)
    <3>1. /\ call[v].mode \in {"claw", "close"}
          /\ \/ call' = [call EXCEPT ![v].mode = "close", ![v].step = "withhold"]
             \/ call' = [call EXCEPT ![v].step = "row"]
          /\ UNCHANGED <<ingested, status>>
      BY <2>2 DEF PostReversal, UnwindEscrowForRun, At, runs
    <3>2. /\ call'[v].run = call[v].run /\ call'[v].mode # "idle"
          /\ \A w \in Reversals \ {v} : call'[w] = call[w]
      BY <1>1, <3>1 DEF CallRec
    <3> QED BY <1>8, <3>1, <3>2
  <2> QED BY <1>9, <2>1, <2>2 DEF Reverse
<1>10. CASE OtherStep
  <2>1. UNCHANGED <<call, ingested, status>>
    BY <1>10 DEF OtherStep, Lock, ReadVault, DecideLock, DecideUnlock, MoveFrozen,
       PostSweep, SweepThrows, UpsertDispute, ReleaseVaultPending, PayoutFromVault, runs, undo
  <2> QED BY <1>4, <2>1
<1> QED BY <1>5, <1>6, <1>7, <1>9, <1>10 DEF Next, OtherStep, Reverse

-----------------------------------------------------------------------------
(* A run is booked whole or not at all, and reversed once. *)

(* What the one call that holds a run says of it. *)
LEMMA Holder ==
  ASSUME NEW c, NEW r, NEW v \in Reversals, c[v].run = r,
         \A w \in Reversals : c[w].run = r => w = v
  PROVE  /\ ClaimedIn(c, r)
         /\ ClosingIn(c, r) <=> c[v].mode = "close"
         /\ OpenIn(c, r) <=> c[v].mode \in {"claw", "refund", "unwind"}
         /\ TaxedIn(c, r) <=> \/ c[v].mode \in {"claw", "refund", "unwind"}
                              \/ c[v].mode = "close" /\ c[v].step = "withhold"
BY DEF ClaimedIn, OpenIn, TaxedIn, ClosingIn

LEMMA NoHolder ==
  ASSUME NEW c, NEW r, \A w \in Reversals : c[w].run # r
  PROVE  ~ClaimedIn(c, r) /\ ~OpenIn(c, r) /\ ~TaxedIn(c, r) /\ ~ClosingIn(c, r)
BY DEF ClaimedIn, OpenIn, TaxedIn, ClosingIn

LEMMA SameHolder ==
  ASSUME NEW c, NEW d, NEW r,
         \A w \in Reversals : c[w] = d[w] \/ (c[w].run # r /\ d[w].run # r)
  PROVE  /\ ClaimedIn(c, r) <=> ClaimedIn(d, r)
         /\ OpenIn(c, r) <=> OpenIn(d, r)
         /\ TaxedIn(c, r) <=> TaxedIn(d, r)
         /\ ClosingIn(c, r) <=> ClosingIn(d, r)
BY DEF ClaimedIn, OpenIn, TaxedIn, ClosingIn

LEMMA CompleteSame ==
  ASSUME NEW r, stored'[r] = stored[r], saga'[r].plan = saga[r].plan
  PROVE  Complete(r)' <=> Complete(r)
BY DEF Complete, Due

(* A step that leaves a run alone. *)
LEMMA RunFrame ==
  ASSUME NEW r \in Runs, WholeRun(r),
         status'[r] = status[r], saga'[r].mode = saga[r].mode,
         escrow'[r] = escrow[r], undone'[r] = undone[r],
         r \in ingested' <=> r \in ingested, r \in reversal' <=> r \in reversal,
         r \in ingested => (Complete(r)' <=> Complete(r)),
         r \in broken => r \in broken',
         ClaimedIn(call', r) <=> ClaimedIn(call, r),
         OpenIn(call', r) <=> OpenIn(call, r),
         TaxedIn(call', r) <=> TaxedIn(call, r),
         ClosingIn(call', r) <=> ClosingIn(call, r)
  PROVE  WholeRun(r)'
BY DEF WholeRun, Sound

LEMMA WholeSaga ==
  ASSUME TypeOK, Whole, SagaStep
  PROVE  Whole'
<1>1. PICK r \in Runs : Saga(r) BY DEF SagaStep
<1>2. call' = call /\ undone' = undone /\ reversal' = reversal
  BY <1>1 DEF Saga, Begin, ApplyWithholding, IsIncomingFrozen, ReadAdvance, Sweep,
     CreditVault, PostIngest, IngestThrows, DebitBack, RereadAdvance, SweepBack,
     UnwindEscrowRow, undo
<1>3. /\ saga \in [Runs -> SagaRec] /\ escrow \in [Runs -> Int]
      /\ stored \in [Runs -> SUBSET LegNames] /\ undone[r] \in Nat
      /\ status \in [Runs -> {"none", "posted", "reversed"}]
  BY DEF TypeOK, SagaRec
<1>4. ASSUME NEW q \in Runs, q # r PROVE WholeRun(q)'
  <2>1. saga'[q] = saga[q]
    BY <1>1, <1>3, <1>4 DEF Saga, Begin, ApplyWithholding, IsIncomingFrozen,
       ReadAdvance, Sweep, CreditVault, PostIngest, IngestThrows, DebitBack,
       RereadAdvance, SweepBack, UnwindEscrowRow, Onward
  <2>2. /\ status'[q] = status[q] /\ escrow'[q] = escrow[q] /\ stored'[q] = stored[q]
        /\ q \in ingested' <=> q \in ingested
        /\ q \in broken => q \in broken'
    BY <1>1, <1>3, <1>4 DEF Saga, Begin, ApplyWithholding, IsIncomingFrozen,
       ReadAdvance, Sweep, CreditVault, PostIngest, IngestThrows, DebitBack,
       RereadAdvance, SweepBack, UnwindEscrowRow
  <2>3. Complete(q)' <=> Complete(q) BY <2>1, <2>2, CompleteSame
  <2> QED BY <1>2, <2>1, <2>2, <2>3, RunFrame DEF Whole
<1>5. WholeRun(r) BY DEF Whole
<1>6. WholeRun(r)'
  <2>1. CASE Begin(r)
    <3>1. /\ status[r] = "none" /\ status'[r] = "posted" /\ saga'[r].mode = "begin"
          /\ escrow' = escrow /\ ingested' = ingested /\ broken' = broken
      BY <1>3, <2>1 DEF Begin, SagaRec
    <3> QED BY <1>2, <1>5, <3>1 DEF WholeRun, Sound
  <2>2. CASE ApplyWithholding(r)
    <3>1. /\ saga[r].mode = "begin" /\ saga'[r].mode = "book"
          /\ escrow'[r] = escrow[r] + 1
          /\ status' = status /\ ingested' = ingested /\ broken' = broken
      BY <1>3, <2>2 DEF ApplyWithholding, SagaRec
    <3> QED BY <1>2, <1>5, <3>1 DEF WholeRun, Sound
  <2>3. CASE PostIngest(r)
    <3>1. /\ saga[r].mode = "book" /\ saga'[r].mode = "done"
          /\ ingested' = ingested \cup {r}
          /\ status' = status /\ escrow' = escrow /\ broken' = broken
          /\ saga'[r].plan = saga[r].plan /\ stored'[r] = Due(r)
      BY <1>3, <2>3 DEF PostIngest, Do, SagaRec
    <3>2. status[r] = "posted" BY <1>3, <1>5, <3>1 DEF WholeRun
    <3>3. Complete(r)' BY <3>1 DEF Complete, Due
    <3> QED BY <1>2, <1>3, <1>5, <3>1, <3>2, <3>3 DEF WholeRun, Sound
  <2>4. CASE IngestThrows(r)
    <3>1. /\ saga[r].mode = "book" /\ saga'[r].mode = "compensate"
          /\ \/ ingested' = ingested /\ broken' = broken
             \/ ingested' = ingested \cup {r} /\ broken' = broken \cup {r}
          /\ status' = status /\ escrow' = escrow
      BY <1>3, <2>4 DEF IngestThrows, Do, SagaRec
    <3>2. status[r] = "posted" BY <1>3, <1>5, <3>1 DEF WholeRun
    <3> QED BY <1>2, <1>3, <1>5, <3>1, <3>2 DEF WholeRun, Sound
  <2>5. CASE UnwindEscrowRow(r)
    <3>1. /\ saga[r].mode = "compensate" /\ saga'[r].mode = "failed"
          /\ escrow'[r] = escrow[r] - 1
          /\ status' = status /\ ingested' = ingested /\ broken' = broken
          /\ saga'[r].plan = saga[r].plan /\ stored' = stored
      BY <1>3, <2>5 DEF UnwindEscrowRow, Do, SagaRec
    <3>2. Complete(r)' <=> Complete(r) BY <3>1, CompleteSame
    <3> QED BY <1>2, <1>5, <3>1, <3>2 DEF WholeRun, Sound
  <2>6. CASE \/ IsIncomingFrozen(r) \/ ReadAdvance(r) \/ Sweep(r) \/ CreditVault(r)
             \/ DebitBack(r) \/ RereadAdvance(r) \/ SweepBack(r)
    <3>1. saga'[r].mode = saga[r].mode
      BY <1>3, <2>6 DEF IsIncomingFrozen, ReadAdvance, Sweep, CreditVault, DebitBack,
         RereadAdvance, SweepBack, Onward, SagaRec
    <3>2. UNCHANGED <<status, escrow, ingested, broken>>
      BY <2>6 DEF IsIncomingFrozen, ReadAdvance, Sweep, CreditVault, DebitBack,
         RereadAdvance, SweepBack
    <3>3. stored' = stored
      BY <2>6 DEF IsIncomingFrozen, ReadAdvance, Sweep, CreditVault, DebitBack,
         RereadAdvance, SweepBack
    <3>4. r \in ingested => saga'[r].plan = saga[r].plan
      BY <1>3, <1>5, <2>6 DEF IsIncomingFrozen, ReadAdvance, Sweep, CreditVault,
         DebitBack, RereadAdvance, SweepBack, Onward, Do, SagaRec, WholeRun
    <3>5. r \in ingested => (Complete(r)' <=> Complete(r))
      BY <3>3, <3>4, CompleteSame
    <3> QED BY <1>2, <1>5, <3>1, <3>2, <3>5, RunFrame
  <2> QED BY <1>1, <2>1, <2>2, <2>3, <2>4, <2>5, <2>6 DEF Saga
<1> QED BY <1>4, <1>6 DEF Whole

LEMMA WholeReverse ==
  ASSUME TypeOK, Held, Whole, ReverseStep, Held'
  PROVE  Whole'
<1>1. PICK v \in Reversals : Reverse(v) BY DEF ReverseStep
<1>2. /\ call \in [Reversals -> CallRec] /\ escrow \in [Runs -> Int]
      /\ undone \in [Runs -> Nat]
      /\ status \in [Runs -> {"none", "posted", "reversed"}]
  BY DEF TypeOK, CallRec
<1>3. saga' = saga /\ ingested' = ingested /\ stored' = stored
  BY <1>1 DEF Reverse, Claim, Clawback, Recredit, ReadRollback, Rollback,
     ReapplyRollback, PostReversal, ReversalThrows, RevertClaim, UnwindEscrowForRun,
     InsertSplitReversal, runs
<1>4. Idle.run = NoRun /\ Idle.mode = "idle" BY DEF Idle
<1>9. \A q \in Runs : Complete(q)' <=> Complete(q)
  <2> SUFFICES ASSUME NEW q \in Runs PROVE Complete(q)' <=> Complete(q) OBVIOUS
  <2> QED BY <1>3, CompleteSame
(* The run the call is about, before and after the step. *)
<1>5. ASSUME NEW r \in Runs, WholeRun(r)',
             call[v].run \in {r, NoRun}, call'[v].run \in {r, NoRun},
             \A w \in Reversals \ {v} : call'[w] = call[w],
             \A q \in Runs \ {r} : /\ status'[q] = status[q] /\ escrow'[q] = escrow[q]
                                   /\ undone'[q] = undone[q],
             reversal \subseteq reversal', reversal' \subseteq reversal \cup {r},
             broken \subseteq broken'
      PROVE  Whole'
  <2>1. ASSUME NEW q \in Runs, q # r PROVE WholeRun(q)'
    <3>1. q # NoRun BY SplitAssumption
    <3>2. \A w \in Reversals :
            call'[w] = call[w] \/ (call'[w].run # q /\ call[w].run # q)
      BY <1>5, <2>1, <3>1
    <3>3. /\ ClaimedIn(call', q) <=> ClaimedIn(call, q)
          /\ OpenIn(call', q) <=> OpenIn(call, q)
          /\ TaxedIn(call', q) <=> TaxedIn(call, q)
          /\ ClosingIn(call', q) <=> ClosingIn(call, q)
      BY <3>2, SameHolder
    <3>4. q \in reversal' <=> q \in reversal BY <1>5, <2>1
    <3> QED BY <1>3, <1>5, <1>9, <2>1, <3>3, <3>4, RunFrame DEF Whole
  <2> QED BY <1>5, <2>1 DEF Whole
<1>6. ASSUME NEW r \in Runs, Claim(v, r) PROVE Whole'
  <2>1. /\ call[v] = Idle /\ r \in ingested /\ status[r] = "posted"
        /\ status' = [status EXCEPT ![r] = "reversed"]
        /\ UNCHANGED <<escrow, undone, reversal, broken>>
        /\ \A w \in Reversals \ {v} : call'[w] = call[w]
        /\ call'[v].run = r /\ call'[v].mode = "claw"
    BY <1>2, <1>6 DEF Claim, Claimable
  <2>2. r # NoRun BY SplitAssumption
  <2>3. \A w \in Reversals : call[w].run # r BY <1>4, <2>1, <2>2 DEF Held
  <2>4. ~ClaimedIn(call, r) /\ ~OpenIn(call, r) /\ ~TaxedIn(call, r)
        /\ ~ClosingIn(call, r)
    BY <2>3, NoHolder
  <2>5. \A w \in Reversals : call'[w].run = r => w = v BY <2>1, <2>3
  <2>6. ClaimedIn(call', r) /\ OpenIn(call', r) /\ TaxedIn(call', r)
        /\ ~ClosingIn(call', r)
    BY <2>1, <2>5, Holder
  <2>7. status'[r] = "reversed" BY <1>2, <2>1
  <2>8. WholeRun(r) BY DEF Whole
  <2>9. WholeRun(r)'
    BY <1>3, <1>9, <2>1, <2>4, <2>6, <2>7, <2>8 DEF WholeRun, Sound
  <2> QED BY <1>2, <1>4, <1>5, <2>1, <2>9
<1>7. CASE ~\E r \in Runs : Claim(v, r)
  <2>0. PICK r : r = call[v].run OBVIOUS
  <2>1. call[v].mode # "idle"
    BY <1>1, <1>7 DEF Reverse, Clawback, Recredit, ReadRollback, Rollback,
       ReapplyRollback, PostReversal, ReversalThrows, RevertClaim, UnwindEscrowForRun,
       InsertSplitReversal, At
  <2>2. r \in Runs /\ r \in ingested /\ r # NoRun BY <2>0, <2>1, HeldRun
  <2>3. status[r] = "reversed" BY <2>0, <2>1 DEF Held
  <2>4. \A w \in Reversals : call[w].run = r => w = v BY <2>0, <2>2 DEF Held
  <2>5. /\ ClaimedIn(call, r)
        /\ ClosingIn(call, r) <=> call[v].mode = "close"
        /\ OpenIn(call, r) <=> call[v].mode \in {"claw", "refund", "unwind"}
        /\ TaxedIn(call, r) <=> \/ call[v].mode \in {"claw", "refund", "unwind"}
                                \/ call[v].mode = "close" /\ call[v].step = "withhold"
    BY <2>0, <2>4, Holder
  <2>6. WholeRun(r) BY <2>2 DEF Whole
  <2>7. CASE /\ call'[v].run = r /\ call[v].mode \in {"claw", "refund", "unwind"}
             /\ call'[v].mode \in {"claw", "refund", "unwind"}
             /\ \A w \in Reversals \ {v} : call'[w] = call[w]
             /\ UNCHANGED <<status, escrow, reversal>>
             /\ \/ undone' = undone /\ broken' = broken
                \/ /\ undone' = [undone EXCEPT ![r] = @ + 1]
                   /\ broken' = broken \cup {r} /\ Complete(r)
    <3>1. \A w \in Reversals : call'[w].run = r => w = v BY <2>4, <2>7
    <3>2. ClaimedIn(call', r) /\ OpenIn(call', r) /\ TaxedIn(call', r)
          /\ ~ClosingIn(call', r)
      BY <2>7, <3>1, Holder
    <3>5. undone[r] \in Nat /\ undone'[r] \in {undone[r], undone[r] + 1}
          /\ (undone'[r] # undone[r] => Complete(r) /\ r \in broken')
      BY <1>2, <2>2, <2>7
    <3>3. WholeRun(r)'
      <4>1. r \in reversal' \/ ClosingIn(call', r) => undone'[r] > 0
        BY <2>6, <2>7, <3>2, <3>5 DEF WholeRun
      <4>2. undone'[r] > 0 => r \in ingested' /\ Complete(r)'
        BY <1>3, <1>9, <2>2, <2>6, <3>5 DEF WholeRun
      <4>3. r \notin broken' => Sound(r)'
        BY <1>3, <1>9, <2>2, <2>3, <2>5, <2>6, <2>7, <3>2, <3>5 DEF WholeRun, Sound
      <4> QED BY <1>3, <2>6, <2>7, <4>1, <4>2, <4>3 DEF WholeRun
    <3>4. \A q \in Runs \ {r} : undone'[q] = undone[q] BY <1>2, <2>7
    <3> QED BY <1>5, <2>0, <2>2, <2>7, <3>3, <3>4
  <2>8. CASE \/ Clawback(v) \/ Recredit(v) \/ Rollback(v) \/ ReapplyRollback(v)
             \/ ReadRollback(v) \/ ReversalThrows(v)
    <3>1. call[v].mode \in {"claw", "refund", "unwind"}
      BY <2>8 DEF Clawback, Recredit, Rollback, ReapplyRollback, ReadRollback,
         ReversalThrows, At
    <3>2. \/ \E t : call' = [call EXCEPT ![v].step = t]
          \/ \E t : call' = [call EXCEPT ![v].mode = "refund", ![v].step = t]
          \/ \E t : call' = [call EXCEPT ![v].mode = "unwind", ![v].step = t]
          \/ \E p : call' = [call EXCEPT ![v].seen = p, ![v].step = "sweep"]
      BY <2>8 DEF Clawback, Recredit, Rollback, ReapplyRollback, ReadRollback,
         ReversalThrows, Forward
    <3>3. /\ call'[v].run = r /\ call'[v].mode \in {"claw", "refund", "unwind"}
          /\ \A w \in Reversals \ {v} : call'[w] = call[w]
      BY <1>2, <2>0, <3>1, <3>2 DEF CallRec
    <3>4. /\ UNCHANGED <<status, escrow, reversal>>
          /\ \/ undone' = undone /\ broken' = broken
             \/ /\ undone' = [undone EXCEPT ![r] = @ + 1]
                /\ broken' = broken \cup {r} /\ Complete(r)
      BY <2>0, <2>8 DEF Clawback, Recredit, Rollback, ReapplyRollback, ReadRollback,
         ReversalThrows, runs
    <3> QED BY <2>7, <3>1, <3>3, <3>4
  <2>9. CASE PostReversal(v)
    <3>1. /\ call[v].mode = "claw"
          /\ call' = [call EXCEPT ![v].mode = "close", ![v].step = "withhold"]
          /\ undone' = [undone EXCEPT ![r] = @ + 1]
          /\ UNCHANGED <<status, escrow, reversal, broken>> /\ Complete(r)
      BY <2>0, <2>9 DEF PostReversal, At, runs
    <3>2. /\ call'[v].run = r /\ call'[v].mode = "close" /\ call'[v].step = "withhold"
          /\ \A w \in Reversals \ {v} : call'[w] = call[w]
      BY <1>2, <2>0, <3>1 DEF CallRec
    <3>3. \A w \in Reversals : call'[w].run = r => w = v BY <2>4, <3>2
    <3>4. ClaimedIn(call', r) /\ ~OpenIn(call', r) /\ TaxedIn(call', r)
          /\ ClosingIn(call', r)
      BY <3>2, <3>3, Holder
    <3>5. undone[r] \in Nat /\ undone'[r] = undone[r] + 1 /\ \A q \in Runs \ {r} : undone'[q] = undone[q]
      BY <1>2, <2>2, <3>1
    <3>6. WholeRun(r)'
      <4>1. r \in reversal' \/ ClosingIn(call', r) => undone'[r] > 0
        BY <1>3, <1>9, <2>2, <2>3, <2>5, <2>6, <3>1, <3>4, <3>5 DEF WholeRun
      <4>2. undone'[r] > 0 => r \in ingested' /\ Complete(r)'
        BY <1>3, <1>9, <2>2, <2>3, <2>5, <2>6, <3>1, <3>4, <3>5 DEF WholeRun
      <4>3. r \notin broken' => Sound(r)'
        BY <1>3, <1>9, <2>2, <2>3, <2>5, <2>6, <3>1, <3>4, <3>5 DEF WholeRun, Sound
      <4>4. status'[r] = "reversed" => r \in ingested'
        BY <1>3, <1>9, <2>2, <2>3, <2>5, <2>6, <3>1, <3>4, <3>5 DEF WholeRun
      <4>5. status'[r] # "none" /\ status[r] # "none"
        BY <1>3, <1>9, <2>2, <2>3, <2>5, <2>6, <3>1, <3>4, <3>5
      <4> QED BY <1>3, <2>6, <4>1, <4>2, <4>3, <4>4, <4>5 DEF WholeRun
    <3> QED BY <1>5, <2>0, <2>2, <3>1, <3>2, <3>5, <3>6
  <2>10. CASE RevertClaim(v)
    <3>1. /\ call[v].mode \in {"refund", "unwind"}
          /\ call' = [call EXCEPT ![v] = Idle]
          /\ status' = [status EXCEPT ![r] = IF @ = "reversed" THEN "posted" ELSE @]
          /\ UNCHANGED <<escrow, undone, reversal, broken>>
      BY <2>0, <2>10 DEF RevertClaim, At
    <3>2. /\ status'[r] = "posted"
          /\ \A q \in Runs \ {r} : status'[q] = status[q]
      BY <1>2, <2>2, <2>3, <3>1
    <3>3. call'[v] = Idle /\ \A w \in Reversals \ {v} : call'[w] = call[w]
      BY <1>2, <3>1
    <3>4. \A w \in Reversals : call'[w].run # r BY <1>4, <2>2, <2>4, <3>3
    <3>5. ~ClaimedIn(call', r) /\ ~OpenIn(call', r) /\ ~TaxedIn(call', r)
          /\ ~ClosingIn(call', r)
      BY <3>4, NoHolder
    <3>6. WholeRun(r)'
      <4>1. r \in reversal' \/ ClosingIn(call', r) => undone'[r] > 0
        BY <1>3, <1>9, <2>2, <2>3, <2>5, <2>6, <3>1, <3>2, <3>5 DEF WholeRun
      <4>2. undone'[r] > 0 => r \in ingested' /\ Complete(r)'
        BY <1>3, <1>9, <2>2, <2>3, <2>5, <2>6, <3>1, <3>2, <3>5 DEF WholeRun
      <4>3. r \notin broken' => Sound(r)'
        BY <1>3, <1>9, <2>2, <2>3, <2>5, <2>6, <3>1, <3>2, <3>5 DEF WholeRun, Sound
      <4>4. status'[r] = "reversed" => r \in ingested'
        BY <1>3, <1>9, <2>2, <2>3, <2>5, <2>6, <3>1, <3>2, <3>5 DEF WholeRun
      <4>5. status'[r] # "none" /\ status[r] # "none"
        BY <1>3, <1>9, <2>2, <2>3, <2>5, <2>6, <3>1, <3>2, <3>5
      <4> QED BY <1>3, <2>6, <4>1, <4>2, <4>3, <4>4, <4>5 DEF WholeRun
    <3> QED BY <1>4, <1>5, <2>0, <2>2, <3>1, <3>2, <3>3, <3>6
  <2>11. CASE UnwindEscrowForRun(v)
    <3>1. /\ call[v].mode = "close" /\ call[v].step = "withhold"
          /\ call' = [call EXCEPT ![v].step = "row"]
          /\ escrow' = [escrow EXCEPT ![r] = 0]
          /\ UNCHANGED <<status, undone, reversal, broken>>
      BY <2>0, <2>11 DEF UnwindEscrowForRun, At
    <3>2. /\ call'[v].run = r /\ call'[v].mode = "close" /\ call'[v].step = "row"
          /\ \A w \in Reversals \ {v} : call'[w] = call[w]
      BY <1>2, <2>0, <3>1 DEF CallRec
    <3>3. \A w \in Reversals : call'[w].run = r => w = v BY <2>4, <3>2
    <3>4. ClaimedIn(call', r) /\ ~OpenIn(call', r) /\ ~TaxedIn(call', r)
          /\ ClosingIn(call', r)
      BY <3>2, <3>3, Holder
    <3>5. escrow'[r] = 0 /\ \A q \in Runs \ {r} : escrow'[q] = escrow[q]
      BY <1>2, <2>2, <3>1
    <3>6. WholeRun(r)'
      BY <1>3, <1>9, <2>2, <2>3, <2>5, <2>6, <3>1, <3>4, <3>5 DEF WholeRun, Sound
    <3> QED BY <1>5, <2>0, <2>2, <3>1, <3>2, <3>5, <3>6
  <2>12. CASE InsertSplitReversal(v)
    <3>1. /\ call[v].mode = "close" /\ call[v].step = "row"
          /\ call' = [call EXCEPT ![v] = Idle]
          /\ reversal' = reversal \cup {r}
          /\ UNCHANGED <<status, escrow, undone, broken>>
      BY <2>0, <2>12 DEF InsertSplitReversal, At, runs
    <3>2. call'[v] = Idle /\ \A w \in Reversals \ {v} : call'[w] = call[w]
      BY <1>2, <3>1
    <3>3. \A w \in Reversals : call'[w].run # r BY <1>4, <2>2, <2>4, <3>2
    <3>4. ~ClaimedIn(call', r) /\ ~OpenIn(call', r) /\ ~TaxedIn(call', r)
          /\ ~ClosingIn(call', r)
      BY <3>3, NoHolder
    <3>5. WholeRun(r)'
      <4>1. r \in reversal' \/ ClosingIn(call', r) => undone'[r] > 0
        BY <1>3, <1>9, <2>2, <2>3, <2>5, <2>6, <3>1, <3>4 DEF WholeRun
      <4>2. undone'[r] > 0 => r \in ingested' /\ Complete(r)'
        BY <1>3, <1>9, <2>2, <2>3, <2>5, <2>6, <3>1, <3>4 DEF WholeRun
      <4>3. r \notin broken' => Sound(r)'
        BY <1>3, <1>9, <2>2, <2>3, <2>5, <2>6, <3>1, <3>4 DEF WholeRun, Sound
      <4>4. status'[r] = "reversed" => r \in ingested'
        BY <1>3, <1>9, <2>2, <2>3, <2>5, <2>6, <3>1, <3>4 DEF WholeRun
      <4>5. status'[r] # "none" /\ status[r] # "none"
        BY <1>3, <1>9, <2>2, <2>3, <2>5, <2>6, <3>1, <3>4
      <4> QED BY <1>3, <2>6, <4>1, <4>2, <4>3, <4>4, <4>5 DEF WholeRun
    <3> QED BY <1>4, <1>5, <2>0, <2>2, <3>1, <3>2, <3>5
  <2> QED BY <1>1, <1>7, <2>8, <2>9, <2>10, <2>11, <2>12 DEF Reverse
<1> QED BY <1>6, <1>7

LEMMA WholeOther ==
  ASSUME Whole, OtherStep
  PROVE  Whole'
<1>1. UNCHANGED <<status, saga, escrow, undone, ingested, stored, reversal, broken, call>>
  BY DEF OtherStep, Lock, ReadVault, DecideLock, DecideUnlock, MoveFrozen, PostSweep,
     SweepThrows, UpsertDispute, ReleaseVaultPending, PayoutFromVault, runs, undo
<1>2. ASSUME NEW r \in Runs PROVE WholeRun(r)'
  <2>1. Complete(r)' <=> Complete(r) BY <1>1, CompleteSame
  <2> QED BY <1>1, <2>1, RunFrame DEF Whole
<1> QED BY <1>2 DEF Whole

-----------------------------------------------------------------------------
(* The theorems. *)

LEMMA Inductive == Spec => []IInv
<1>1. Init => IInv
  <2> SUFFICES ASSUME Init PROVE IInv OBVIOUS
  <2>1. TypeOK
    BY SplitAssumption DEF Init, TypeOK, Nothing, Unborn, Idle, Free, Plans, Steps,
       SagaModes, CallModes, Accounts
  <2>2. Held BY DEF Init, Held, Idle
  <2>3. Signs BY DEF Init, Signs, Free
  <2>4. Whole
    <3> SUFFICES ASSUME NEW r \in Runs PROVE WholeRun(r) BY DEF Whole
    <3>1. \A v \in Reversals : call[v].run # r BY SplitAssumption DEF Init, Idle
    <3>2. ~ClaimedIn(call, r) /\ ~OpenIn(call, r) /\ ~TaxedIn(call, r)
          /\ ~ClosingIn(call, r)
      BY <3>1, NoHolder
    <3> QED BY <3>2 DEF Init, WholeRun, Sound, Unborn
  <2> QED BY <2>1, <2>2, <2>3, <2>4 DEF IInv
<1>2. IInv /\ [Next]_vars => IInv'
  <2> SUFFICES ASSUME IInv, [Next]_vars PROVE IInv' OBVIOUS
  <2> USE DEF IInv
  <2>1. CASE Next
    <3>1. Held' /\ Signs' BY <2>1, HeldStep, SignsStep
    <3>2. CASE SagaStep
      BY <3>1, <3>2, ShapeSaga, TotalsSaga, MoneySaga, WholeSaga, TypeParts DEF TypeOK,
         Shape, Totals, Money
    <3>3. CASE ReverseStep
      BY <3>1, <3>3, ShapeReverse, TotalsReverse, MoneyReverse, WholeReverse DEF TypeOK,
         Shape, Totals, Money
    <3>4. CASE OtherStep
      BY <3>1, <3>4, ShapeOther, TotalsOther, MoneyOther, WholeOther DEF TypeOK,
         Shape, Totals, Money
    <3> QED BY <2>1, <3>2, <3>3, <3>4 DEF Next, SagaStep, ReverseStep, OtherStep
  <2>2. CASE UNCHANGED vars
    BY <2>2 DEF vars, money, runs, undo, lock, TypeOK, Held, Signs, Whole, WholeRun,
       Sound, ClaimedIn, OpenIn, TaxedIn, ClosingIn, Complete, Due
  <2> QED BY <2>1, <2>2
<1> QED BY <1>1, <1>2, PTL DEF Spec

(* No guarded debit of a saga's compensation, a reversal, a dispute lock   *)
(* or a payout takes a bucket below zero, in whatever order they meet;     *)
(* only an operator's reversal does (splitReversal.ts:167).                *)
THEOREM TypeCorrect == Spec => []TypeOK
<1>1. IInv => TypeOK BY DEF IInv
<1> QED BY <1>1, Inductive, PTL

(* However many reversals race for it and whichever journal throws, only a *)
(* run whose journal is complete is ever reversed; and a run none of whose *)
(* posts threw with something stored is booked whole or not at all, and    *)
(* reversed at most once (splitReversal.ts:220).                           *)
THEOREM ReversesOnce == Spec => []ReversedOnce
<1>1. IInv => ReversedOnce
  <2> SUFFICES ASSUME IInv, NEW r \in Runs
               PROVE LET holders == {v \in Reversals : call[v].run = r} IN
                 /\ \A v, w \in holders : v = w
                 /\ undone[r] > 0 \/ r \in reversal => r \in ingested /\ Complete(r)
                 /\ r \notin broken =>
                      /\ saga[r].mode = "failed" => r \notin ingested /\ escrow[r] = 0
                      /\ r \in ingested => Complete(r)
                      /\ undone[r] <= 1 /\ (undone[r] = 1 => status[r] = "reversed")
                      /\ saga[r].mode = "done" /\ holders = {} =>
                           /\ status[r] = "posted" => undone[r] = 0 /\ escrow[r] = 1
                           /\ status[r] = "reversed" =>
                                undone[r] = 1 /\ escrow[r] = 0 /\ r \in reversal
    BY DEF ReversedOnce
  <2> DEFINE holders == {v \in Reversals : call[v].run = r}
  <2>1. r # NoRun BY SplitAssumption
  <2>2. \A v, w \in holders : v = w BY <2>1 DEF IInv, Held
  <2>3. WholeRun(r) BY DEF IInv, Whole
  <2>4. ASSUME holders = {}
        PROVE ~ClaimedIn(call, r) /\ ~OpenIn(call, r) /\ ~TaxedIn(call, r)
    <3>1. \A v \in Reversals : call[v].run # r BY <2>4
    <3> QED BY <3>1, NoHolder
  <2>5. r \notin broken => Sound(r) BY <2>3 DEF WholeRun
  <2>6. undone[r] > 0 \/ r \in reversal => r \in ingested /\ Complete(r)
    BY <2>3 DEF WholeRun
  <2> QED BY <2>2, <2>4, <2>5, <2>6 DEF Sound
<1> QED BY <1>1, Inductive, PTL


-----------------------------------------------------------------------------
(* What stands of a run: its credits and its sweep, where they went and as *)
(* long as nothing has taken them back.                                    *)

Items == LegNames \cup {"sweep"}
Purses == Accounts \cup {"advance"}

Place(mode, step) == CHOOSE i \in DOMAIN Order[mode] : Order[mode][i] = step
Walked(mode, step) == {Order[mode][i] : i \in 1 .. Place(mode, step) - 1}

(* A reversal that may still be put back has taken what it has walked, or  *)
(* has put back what it has walked; a refund never got as far as the sweep.*)
Leaves(c, x) ==
  \/ c.mode = "claw" /\ x \notin Walked("claw", c.step)
  \/ c.mode = "unwind" /\ x \in Walked("unwind", c.step)
  \/ c.mode = "refund" /\ (x = "sweep" \/ x \in Walked("refund", c.step))

In(r, x) ==
  \/ saga[r].mode = "book" /\ x \in Walked("book", saga[r].step)
  \/ saga[r].mode = "compensate" /\ x \notin Walked("compensate", saga[r].step)
  \/ /\ saga[r].mode = "done"
     /\ \/ ~OpenIn(call, r) /\ undone[r] = 0
        \/ \E v \in Reversals : call[v].run = r /\ Leaves(call[v], x)

Heft(plan, x) == Amount(plan, IF x = "sweep" THEN "recouped" ELSE x)
Lands(frozen, x) == IF x = "sweep" THEN "advance" ELSE Account(frozen, x)

Stand(r, x, a) ==
  IF In(r, x) /\ Lands(saga[r].frozen, x) = a THEN Heft(saga[r].plan, x) ELSE 0

Stands(r, a) ==
  Stand(r, "tax", a) + Stand(r, "recouped", a) + Stand(r, "excess", a)
    + Stand(r, "share", a) + Stand(r, "dust", a) + Stand(r, "sweep", a)

(* A bucket as it would be had no compensation been refused. *)
Cleared(a) == bal[a] - owed[a]

Standing(a) == [r \in Runs |-> Stands(r, a)]

(* A bucket holds what stands of the runs, and no debit of it was refused. *)
Covers(a) ==
  /\ owed[a] = 0 /\ Summable(Runs, Standing(a))
  /\ bal[a] = SumOf(Runs, Standing(a))

(* The company's recoupment is what stands of it, and so is the advance.   *)
AdvanceStands ==
  /\ Summable(Runs, Standing("advance"))
  /\ advance # NoAdvance /\ "overlap" \notin flaws =>
       /\ advance = SumOf(Runs, Standing("advance"))
       /\ "reapplied" \notin flaws => advance <= Target

Recoupment == Covers("platform") /\ Covers("house") /\ AdvanceStands

(* What a saga sweeps by is what it read. *)
Planned ==
  \A r \in Runs : saga[r].mode \in {"none", "begin", "book"} => saga[r].seen = saga[r].plan

(* The reserve holds what disputes froze and what stands of the runs: what *)
(* the row remembers, or what the one call that changes it has moved.      *)
Total(d) == d.available + d.pending
Remembered == IF dispute.locked THEN Total(dispute) ELSE 0
Frozen == Cleared("reserve") - SumOf(Runs, Standing("reserve"))
Moved(l) == locker[l].step \in {"journal", "upsert"}

Reserved ==
  /\ Summable(Runs, Standing("reserve")) /\ Remembered >= 0
  /\ \A k, l \in Lockers :
       locker[k].step \in Underway /\ locker[l].step \in Underway => k = l
  /\ \A l \in Lockers :
       /\ locker[l].step \in Underway =>
            IF locker[l].locked THEN ~dispute.locked /\ Total(locker[l]) >= 0
            ELSE Total(locker[l]) = Remembered
       /\ Moved(l) => Frozen = IF locker[l].locked THEN Total(locker[l]) ELSE 0
  /\ (\A l \in Lockers : ~Moved(l)) => Frozen = Remembered

(* A payee without an advance is paid through pending, one with an advance *)
(* straight to available; so no freeze takes from one bucket what it puts  *)
(* in the other, whatever an operator's reversal left in debt.             *)
Begins == {"begin", "tax", "look", "advance"}
HasRead(r) ==
  \/ saga[r].mode = "book" /\ saga[r].step \notin Begins
  \/ saga[r].mode \in {"compensate", "done", "failed"}

Unadvanced ==
  /\ \A r \in Runs : saga[r].plan = NoAdvance /\ saga[r].seen = NoAdvance
  /\ \A v \in Reversals : call[v].seen = NoAdvance
  /\ bal["available"] >= 0
  /\ \A l \in Lockers : locker[l].step = "read" => locker[l].available >= 0

Advanced ==
  /\ \A r \in Runs : HasRead(r) => saga[r].plan # NoAdvance
  /\ bal["pending"] = 0 /\ dispute.pending = 0
  /\ \A l \in Lockers : locker[l].pending = 0

Downward ==
  /\ dispute.available >= 0 /\ dispute.pending >= 0
  /\ \A l \in Lockers :
       locker[l].step \in Underway => locker[l].available >= 0 /\ locker[l].pending >= 0

OneBucket == Downward /\ IF advance = NoAdvance THEN Unadvanced ELSE Advanced

Settled ==
  broken = {} =>
    /\ Planned
    /\ Recoupment
    /\ flaws \cap {"relock", "cut"} = {} => Reserved

Modes == {"book", "compensate", "claw", "refund", "unwind"}

LEMMA Distinct ==
  ASSUME NEW mode \in Modes, NEW i \in DOMAIN Order[mode], NEW j \in DOMAIN Order[mode],
         Order[mode][i] = Order[mode][j]
  PROVE  i = j
<1>1. CASE mode = "book"
  BY <1>1 DEF Order
<1>2. CASE mode = "compensate" BY <1>2 DEF Order
<1>3. CASE mode = "claw" BY <1>3 DEF Order
<1>4. CASE mode = "refund" BY <1>4 DEF Order
<1>5. CASE mode = "unwind" BY <1>5 DEF Order
<1> QED BY <1>1, <1>2, <1>3, <1>4, <1>5 DEF Modes

LEMMA PlaceIs ==
  ASSUME NEW mode \in Modes, NEW i \in DOMAIN Order[mode]
  PROVE  Place(mode, Order[mode][i]) = i
BY Distinct DEF Place

(* Where a walk goes next, and what it passes over. *)
LEMMA AfterNext ==
  ASSUME NEW mode \in Modes, NEW plan, NEW step,
         \E i \in DOMAIN Order[mode] : Order[mode][i] = step,
         step \notin {"journal", "withhold", "revert"}
  PROVE  /\ Place(mode, step) \in DOMAIN Order[mode]
         /\ Order[mode][Place(mode, step)] = step
         /\ \E next \in Place(mode, step) + 1 .. Len(Order[mode]) :
              /\ After(mode, plan, step) = Order[mode][next]
              /\ next \in DOMAIN Order[mode]
              /\ \A j \in Place(mode, step) + 1 .. next - 1 :
                   ~Needed(mode, plan, Order[mode][j])
<1> DEFINE order == Order[mode]
           here == Place(mode, step)
           later == {i \in here + 1..Len(order) : Needed(mode, plan, order[i])}
<1>1. /\ order \in Seq(Steps) /\ Len(order) \in Nat \ {0}
      /\ order[Len(order)] \in {"journal", "withhold", "revert"}
  BY OrderType DEF Modes
<1>2. here \in DOMAIN order /\ order[here] = step BY DEF Place
<1>3. DOMAIN order = 1..Len(order) BY <1>1
<1>4. here \in 1..Len(order) /\ here # Len(order) BY <1>1, <1>2, <1>3
<1>5. Needed(mode, plan, order[Len(order)])
  BY <1>1 DEF Needed, LegNames
<1>6. later \subseteq Nat /\ Len(order) \in later
  BY <1>1, <1>4, <1>5
<1>7. PICK i \in later : \A j \in later : ~(<<j, i>> \in OpToRel(<, Nat))
  BY <1>6, WFMin, NatLessThanWellFounded
<1>8. \A j \in later : ~(j < i)
  BY <1>6, <1>7 DEF OpToRel
<1>9. i \in here + 1..Len(order) /\ Needed(mode, plan, order[i]) OBVIOUS
<1>10. \A j \in here + 1..i - 1 : ~Needed(mode, plan, order[j])
  BY <1>4, <1>8, <1>9
<1> DEFINE next == CHOOSE k \in here + 1..Len(order) :
                     /\ Needed(mode, plan, order[k])
                     /\ \A j \in here + 1..k - 1 : ~Needed(mode, plan, order[j])
<1>11. /\ next \in here + 1..Len(order)
       /\ \A j \in here + 1..next - 1 : ~Needed(mode, plan, order[j])
  BY <1>9, <1>10
<1>12. here + 1..Len(order) \subseteq 1..Len(order) BY <1>1, <1>4
<1>13. After(mode, plan, step) = order[next] BY DEF After, Place
<1> HIDE DEF next, order, here
<1> QED BY <1>2, <1>3, <1>11, <1>12, <1>13 DEF order, here

(* What has an amount is not passed over. *)
LEMMA HeftNeeded ==
  ASSUME NEW mode \in Modes, NEW plan \in Plans, NEW x \in Items, Heft(plan, x) > 0
  PROVE  Needed(mode, plan, x)
<1>1. CASE x \in LegNames
  BY <1>1 DEF Heft, Needed, LegNames
<1>2. CASE x = "sweep"
  <2>1. Amount(plan, "recouped") > 0
    BY <1>2 DEF Heft
  <2>2. plan # NoAdvance
    BY <2>1 DEF Amount
  <2> QED BY <1>2, <2>1, <2>2 DEF Needed, Modes, LegNames
<1> QED BY <1>1, <1>2 DEF Items

(* A walk that leaves a step has walked what it had, and that step. *)
LEMMA Pass ==
  ASSUME NEW mode \in Modes, NEW plan \in Plans, NEW step,
         \E i \in DOMAIN Order[mode] : Order[mode][i] = step,
         step \notin {"journal", "withhold", "revert"},
         NEW x \in Items, Heft(plan, x) > 0
  PROVE  x \in Walked(mode, After(mode, plan, step))
           <=> x \in Walked(mode, step) \/ x = step
<1> DEFINE order == Order[mode]
           here == Place(mode, step)
<1>1. here \in DOMAIN order /\ order[here] = step
  BY AfterNext
<1>2. PICK next \in here + 1 .. Len(order) :
        /\ After(mode, plan, step) = order[next]
        /\ next \in DOMAIN order
        /\ \A j \in here + 1 .. next - 1 : ~Needed(mode, plan, order[j])
  BY AfterNext
<1>3. Place(mode, order[next]) = next
  BY <1>2, PlaceIs
<1>4. Needed(mode, plan, x)
  BY HeftNeeded
<1>5. order \in Seq(Steps) /\ Len(order) \in Nat
  BY OrderType DEF Modes
<1>6. DOMAIN order = 1 .. Len(order)
  BY <1>5
<1>7. Walked(mode, After(mode, plan, step)) = {order[i] : i \in 1 .. next - 1}
  BY <1>2, <1>3 DEF Walked
<1>8. Walked(mode, step) = {order[i] : i \in 1 .. here - 1}
  BY DEF Walked
<1> HIDE DEF order, here
<1>9. here \in Nat /\ next \in Nat /\ 1 =< here /\ here < next
  BY <1>1, <1>2, <1>5, <1>6
<1> QED BY <1>1, <1>2, <1>4, <1>7, <1>8, <1>9

(* Where the steps of a walk are. *)
LEMMA Places ==
  /\ Len(Order.book) = 10 /\ Order.book = Order["book"]
  /\ Order.book[1] = "begin" /\ Order.book[2] = "tax" /\ Order.book[3] = "look"
  /\ Order.book[4] = "advance" /\ Order.book[5] = "sweep" /\ Order.book[6] = "recouped"
  /\ Order.book[7] = "excess" /\ Order.book[8] = "share" /\ Order.book[9] = "dust"
  /\ Order.book[10] = "journal"
  /\ Len(Order.compensate) = 9 /\ Order.compensate = Order["compensate"]
  /\ Order.compensate[1] = "begin" /\ Order.compensate[2] = "tax" /\ Order.compensate[3] = "share"
  /\ Order.compensate[4] = "dust" /\ Order.compensate[5] = "recouped" /\ Order.compensate[6] = "advance"
  /\ Order.compensate[7] = "sweep" /\ Order.compensate[8] = "excess" /\ Order.compensate[9] = "withhold"
  /\ Len(Order.claw) = 9 /\ Order.claw = Order["claw"]
  /\ Order.claw[1] = "begin" /\ Order.claw[2] = "tax" /\ Order.claw[3] = "recouped"
  /\ Order.claw[4] = "excess" /\ Order.claw[5] = "share" /\ Order.claw[6] = "dust"
  /\ Order.claw[7] = "advance" /\ Order.claw[8] = "sweep" /\ Order.claw[9] = "journal"
  /\ Len(Order.refund) = 6 /\ Order.refund = Order["refund"]
  /\ Order.refund[1] = "dust" /\ Order.refund[2] = "share" /\ Order.refund[3] = "excess"
  /\ Order.refund[4] = "recouped" /\ Order.refund[5] = "tax" /\ Order.refund[6] = "revert"
  /\ Len(Order.unwind) = 9 /\ Order.unwind = Order["unwind"]
  /\ Order.unwind[1] = "begin" /\ Order.unwind[2] = "dust" /\ Order.unwind[3] = "share"
  /\ Order.unwind[4] = "excess" /\ Order.unwind[5] = "recouped" /\ Order.unwind[6] = "tax"
  /\ Order.unwind[7] = "advance" /\ Order.unwind[8] = "sweep" /\ Order.unwind[9] = "revert"
BY DEF Order

LEMMA WalkedTo ==
  ASSUME NEW mode \in Modes, NEW i \in DOMAIN Order[mode]
  PROVE  Walked(mode, Order[mode][i]) = {Order[mode][j] : j \in 1 .. i - 1}
BY PlaceIs DEF Walked

LEMMA WalkBegins ==
  ASSUME NEW mode \in {"book", "compensate", "claw", "unwind"}
  PROVE  /\ Walked(mode, "begin") = {}
         /\ \E i \in DOMAIN Order[mode] : Order[mode][i] = "begin"
<1>1. 1 \in DOMAIN Order[mode] /\ Order[mode][1] = "begin"
  BY DEF Order
<1>2. mode \in Modes
  BY DEF Modes
<1>3. \A i \in DOMAIN Order[mode] :
        Walked(mode, Order[mode][i]) = {Order[mode][j] : j \in 1 .. i - 1}
  BY <1>2, WalkedTo
<1>4. 1 .. 1 - 1 = {}
  OBVIOUS
<1>5. Walked(mode, Order[mode][1]) = {Order[mode][j] : j \in {}}
  BY <1>1, <1>3, <1>4, Zenon
<1> QED BY <1>1, <1>5

(* What is next is not yet walked. *)
LEMMA NotYet ==
  ASSUME NEW mode \in Modes, NEW i \in DOMAIN Order[mode]
  PROVE  Order[mode][i] \notin Walked(mode, Order[mode][i])
<1>1. \A j \in 1 .. i - 1 : j \in DOMAIN Order[mode] /\ i \in Nat
  <2>1. DOMAIN Order[mode] = 1 .. Len(Order[mode]) /\ Len(Order[mode]) \in Nat
    BY OrderType DEF Modes
  <2> QED BY <2>1
<1>2. Walked(mode, Order[mode][i]) = {Order[mode][j] : j \in 1 .. i - 1}
  BY WalkedTo
<1>3. \A j \in 1 .. i - 1 : j # i
  BY <1>1
<1> QED BY <1>1, <1>2, <1>3, Distinct

LEMMA OneLess ==
  /\ 2 - 1 = 1 /\ 3 - 1 = 2 /\ 4 - 1 = 3 /\ 5 - 1 = 4
  /\ 6 - 1 = 5 /\ 7 - 1 = 6 /\ 8 - 1 = 7 /\ 9 - 1 = 8
  /\ 10 - 1 = 9 /\ {3, 4, 10} \subseteq 1 .. 10
  /\ {1, 2, 3, 4, 5, 6} \subseteq 1 .. 6
  /\ {1, 2, 3, 4, 5, 6, 7, 8, 9} \subseteq 1 .. 9
OBVIOUS

LEMMA BookWalk ==
  /\ Walked("book", "look") = {"begin", "tax"}
  /\ Walked("book", "advance") = {"begin", "tax", "look"}
  /\ Items \subseteq Walked("book", "journal")
<1>1. DOMAIN Order["book"] = 1 .. 10
  BY DEF Order
<1>2. \A i \in 1 .. 10 : Walked("book", Order["book"][i]) = {Order["book"][j] : j \in 1 .. i - 1}
  BY <1>1, WalkedTo DEF Modes
<1>3. Walked("book", Order["book"][3]) = {Order["book"][j] : j \in 1 .. 2}
  BY <1>2, OneLess, Zenon
<1>4. /\ Walked("book", Order["book"][4]) = {Order["book"][j] : j \in 1 .. 3}
      /\ Walked("book", Order["book"][10]) = {Order["book"][j] : j \in 1 .. 9}
  BY <1>2, OneLess, Zenon
<1>5. {Order["book"][j] : j \in 1 .. 2} = {"begin", "tax"}
  BY DEF Order
<1>6. {Order["book"][j] : j \in 1 .. 3} = {"begin", "tax", "look"}
  BY DEF Order
<1>7. Items \subseteq {Order["book"][j] : j \in 1 .. 9}
  BY DEF Order, Items, LegNames
<1> QED BY <1>3, <1>4, <1>5, <1>6, <1>7, Places

LEMMA CompensateWalk ==
  /\ \A x \in Items : x \in Walked("compensate", "sweep")
                        <=> x \in Walked("compensate", "advance")
  /\ Items \subseteq Walked("compensate", "withhold")
<1>1. DOMAIN Order["compensate"] = 1 .. 9
  BY DEF Order
<1>2. \A i \in 1 .. 9 : Walked("compensate", Order["compensate"][i]) = {Order["compensate"][j] : j \in 1 .. i - 1}
  BY <1>1, WalkedTo DEF Modes
<1>3. /\ Walked("compensate", Order["compensate"][6]) = {Order["compensate"][j] : j \in 1 .. 5}
      /\ Walked("compensate", Order["compensate"][7]) = {Order["compensate"][j] : j \in 1 .. 6}
      /\ Walked("compensate", Order["compensate"][9]) = {Order["compensate"][j] : j \in 1 .. 8}
  BY <1>2, OneLess, Zenon
<1>4. Order["compensate"][6] \notin Items
  BY Places DEF Items, LegNames
<1>5. Items \subseteq {Order["compensate"][j] : j \in 1 .. 8}
  BY DEF Order, Items, LegNames
<1> QED BY <1>3, <1>4, <1>5, Places

LEMMA ClawWalk ==
  /\ \A x \in Items : x \in Walked("claw", "sweep") <=> x \in Walked("claw", "advance")
  /\ Items \subseteq Walked("claw", "journal")
<1>1. DOMAIN Order["claw"] = 1 .. 9
  BY DEF Order
<1>2. \A i \in 1 .. 9 : Walked("claw", Order["claw"][i]) = {Order["claw"][j] : j \in 1 .. i - 1}
  BY <1>1, WalkedTo DEF Modes
<1>3. /\ Walked("claw", Order["claw"][7]) = {Order["claw"][j] : j \in 1 .. 6}
      /\ Walked("claw", Order["claw"][8]) = {Order["claw"][j] : j \in 1 .. 7}
      /\ Walked("claw", Order["claw"][9]) = {Order["claw"][j] : j \in 1 .. 8}
  BY <1>2, OneLess, Zenon
<1>4. Order["claw"][7] \notin Items
  BY Places DEF Items, LegNames
<1>5. Items \subseteq {Order["claw"][j] : j \in 1 .. 8}
  BY DEF Order, Items, LegNames
<1> QED BY <1>3, <1>4, <1>5, Places

LEMMA UnwindWalk ==
  /\ \A x \in Items : x \in Walked("unwind", "sweep") <=> x \in Walked("unwind", "advance")
  /\ Items \subseteq Walked("unwind", "revert")
  /\ LegNames \subseteq Walked("refund", "revert")
<1>1. DOMAIN Order["unwind"] = 1 .. 9 /\ DOMAIN Order["refund"] = 1 .. 6
  BY DEF Order
<1>2. /\ \A i \in 1 .. 9 : Walked("unwind", Order["unwind"][i]) = {Order["unwind"][j] : j \in 1 .. i - 1}
      /\ \A i \in 1 .. 6 : Walked("refund", Order["refund"][i]) = {Order["refund"][j] : j \in 1 .. i - 1}
  BY <1>1, WalkedTo DEF Modes
<1>3. /\ Walked("unwind", Order["unwind"][7]) = {Order["unwind"][j] : j \in 1 .. 6}
      /\ Walked("unwind", Order["unwind"][8]) = {Order["unwind"][j] : j \in 1 .. 7}
      /\ Walked("unwind", Order["unwind"][9]) = {Order["unwind"][j] : j \in 1 .. 8}
      /\ Walked("refund", Order["refund"][6]) = {Order["refund"][j] : j \in 1 .. 5}
  BY <1>2, OneLess, Zenon
<1>4. Order["unwind"][7] \notin Items
  BY Places DEF Items, LegNames
<1>5. /\ Items \subseteq {Order["unwind"][j] : j \in 1 .. 8}
      /\ LegNames \subseteq {Order["refund"][j] : j \in 1 .. 5}
  BY DEF Order, Items, LegNames
<1> QED BY <1>3, <1>4, <1>5, Places

(* A refund walks back what was clawed. *)
LEMMA WalkBack ==
  ASSUME NEW leg \in LegNames
  PROVE  /\ "sweep" \notin Walked("claw", leg)
         /\ \A x \in LegNames :
              x \in Walked("refund", leg) \/ x = leg <=> x \notin Walked("claw", leg)
<1>1. DOMAIN Order["claw"] = 1 .. 9 /\ DOMAIN Order["refund"] = 1 .. 6
  BY DEF Order
<1>2. /\ \A i \in 1 .. 9 : Walked("claw", Order["claw"][i]) = {Order["claw"][j] : j \in 1 .. i - 1}
      /\ \A i \in 1 .. 6 : Walked("refund", Order["refund"][i]) = {Order["refund"][j] : j \in 1 .. i - 1}
  BY <1>1, WalkedTo DEF Modes
<1>3. /\ Walked("claw", Order["claw"][2]) = {Order["claw"][j] : j \in 1 .. 1}
      /\ Walked("claw", Order["claw"][3]) = {Order["claw"][j] : j \in 1 .. 2}
      /\ Walked("claw", Order["claw"][4]) = {Order["claw"][j] : j \in 1 .. 3}
      /\ Walked("claw", Order["claw"][5]) = {Order["claw"][j] : j \in 1 .. 4}
      /\ Walked("claw", Order["claw"][6]) = {Order["claw"][j] : j \in 1 .. 5}
  BY <1>2, OneLess, Zenon
<1>4. /\ Walked("refund", Order["refund"][1]) = {Order["refund"][j] : j \in 1 .. 1 - 1}
      /\ Walked("refund", Order["refund"][2]) = {Order["refund"][j] : j \in 1 .. 1}
      /\ Walked("refund", Order["refund"][3]) = {Order["refund"][j] : j \in 1 .. 2}
      /\ Walked("refund", Order["refund"][4]) = {Order["refund"][j] : j \in 1 .. 3}
      /\ Walked("refund", Order["refund"][5]) = {Order["refund"][j] : j \in 1 .. 4}
  BY <1>2, OneLess, Zenon
<1>5. /\ Walked("claw", "tax") = {"begin"}
      /\ Walked("claw", "recouped") = {"begin", "tax"}
      /\ Walked("claw", "excess") = {"begin", "tax", "recouped"}
      /\ Walked("claw", "share") = {"begin", "tax", "recouped", "excess"}
      /\ Walked("claw", "dust") = {"begin", "tax", "recouped", "excess", "share"}
  BY <1>3, Places DEF Order
<1>6. /\ Walked("refund", "dust") = {}
      /\ Walked("refund", "share") = {"dust"}
      /\ Walked("refund", "excess") = {"dust", "share"}
      /\ Walked("refund", "recouped") = {"dust", "share", "excess"}
      /\ Walked("refund", "tax") = {"dust", "share", "excess", "recouped"}
  BY <1>4, Places DEF Order
<1> QED BY <1>5, <1>6 DEF LegNames


(* Which steps a walk has. *)
LEMMA OnWalk ==
  /\ \A mode \in Modes : \A leg \in LegNames :
       \E i \in DOMAIN Order[mode] : Order[mode][i] = leg
  /\ \A mode \in Modes \ {"refund"} : \A step \in {"begin", "advance", "sweep"} :
       \E i \in DOMAIN Order[mode] : Order[mode][i] = step
<1>1. ASSUME NEW mode \in Modes, NEW leg \in LegNames
      PROVE  \E i \in DOMAIN Order[mode] : Order[mode][i] = leg
  <2>1. /\ DOMAIN Order["book"] = 1 .. 10 /\ DOMAIN Order["compensate"] = 1 .. 9
        /\ DOMAIN Order["claw"] = 1 .. 9 /\ DOMAIN Order["refund"] = 1 .. 6
        /\ DOMAIN Order["unwind"] = 1 .. 9
    BY DEF Order
  <2>2. CASE mode = "book" BY <2>1, <2>2, Places DEF LegNames
  <2>3. CASE mode = "compensate" BY <2>1, <2>3, Places DEF LegNames
  <2>4. CASE mode = "claw" BY <2>1, <2>4, Places DEF LegNames
  <2>5. CASE mode = "refund" BY <2>1, <2>5, Places DEF LegNames
  <2>6. CASE mode = "unwind" BY <2>1, <2>6, Places DEF LegNames
  <2> QED BY <2>2, <2>3, <2>4, <2>5, <2>6 DEF Modes
<1>2. ASSUME NEW mode \in Modes \ {"refund"}, NEW step \in {"begin", "advance", "sweep"}
      PROVE  \E i \in DOMAIN Order[mode] : Order[mode][i] = step
  <2>1. /\ DOMAIN Order["book"] = 1 .. 10 /\ DOMAIN Order["compensate"] = 1 .. 9
        /\ DOMAIN Order["claw"] = 1 .. 9 /\ DOMAIN Order["unwind"] = 1 .. 9
    BY DEF Order
  <2>2. CASE mode = "book" BY <2>1, <2>2, Places
  <2>3. CASE mode = "compensate" BY <2>1, <2>3, Places
  <2>4. CASE mode = "claw" BY <2>1, <2>4, Places
  <2>5. CASE mode = "unwind" BY <2>1, <2>5, Places
  <2> QED BY <2>2, <2>3, <2>4, <2>5 DEF Modes
<1> QED BY <1>1, <1>2

(* What a walk leaves for its next step: an item there is not yet walked,  *)
(* and what is walked next is what was walked before and that item.        *)
LEMMA NextItem ==
  ASSUME NEW mode \in Modes, NEW plan \in Plans, NEW step,
         \/ step \in LegNames
         \/ step \in {"begin", "advance", "sweep"} /\ mode # "refund"
  PROVE  /\ step \notin Walked(mode, step)
         /\ \A x \in Items :
              Heft(plan, x) > 0 =>
                (x \in Walked(mode, After(mode, plan, step))
                   <=> x \in Walked(mode, step) \/ x = step)
<1>1. \E i \in DOMAIN Order[mode] : Order[mode][i] = step
  BY OnWalk
<1>2. step \notin {"journal", "withhold", "revert"}
  BY DEF LegNames
<1> QED BY <1>1, <1>2, NotYet, Pass

-----------------------------------------------------------------------------
(* What stands, and what the steps of a run do to it. *)

LEMMA HeftType ==
  ASSUME NEW plan \in Plans, NEW x \in Items
  PROVE  Heft(plan, x) \in Nat
BY AmountType DEF Heft, Items, LegNames

StandsNat ==
  \A r \in Runs, a \in Purses :
    /\ \A x \in Items : Stand(r, x, a) \in Nat
    /\ Stands(r, a) \in Nat

LEMMA StandType == TypeOK => StandsNat
<1> SUFFICES ASSUME TypeOK, NEW r \in Runs, NEW a \in Purses
             PROVE  /\ \A x \in Items : Stand(r, x, a) \in Nat
                    /\ Stands(r, a) \in Nat
  BY DEF StandsNat
<1>1. saga[r].plan \in Plans
  BY DEF TypeOK
<1>2. \A x \in Items : Stand(r, x, a) \in Nat
  BY <1>1, HeftType DEF Stand
<1> QED BY <1>2 DEF Stands, Items, LegNames

(* What stands of a run, by where its saga is and, once it is done, as the *)
(* reversal that holds it leaves it.                                       *)
Tells(r, x) ==
  /\ saga[r].mode = "book" => (In(r, x) <=> x \in Walked("book", saga[r].step))
  /\ saga[r].mode = "compensate" =>
       (In(r, x) <=> x \notin Walked("compensate", saga[r].step))
  /\ saga[r].mode \notin {"book", "compensate", "done"} => ~In(r, x)
  /\ saga[r].mode = "done" /\ ~OpenIn(call, r) => (In(r, x) <=> undone[r] = 0)
  /\ \A v \in Reversals :
       /\ saga[r].mode = "done" /\ call[v].run = r
       /\ call[v].mode \in {"claw", "refund", "unwind"}
       => (In(r, x) <=> Leaves(call[v], x))

AllTell == \A r \in Runs, x \in Items : Tells(r, x)

LEMMA InCases == TypeOK /\ Held => AllTell
<1> SUFFICES ASSUME TypeOK, Held, NEW r \in Runs, NEW x \in Items
             PROVE  Tells(r, x)
  BY DEF AllTell
<1>1. r # NoRun
  BY SplitAssumption
<1>2. \A v, w \in Reversals : call[v].run = r /\ call[w].run = r => v = w
  BY <1>1 DEF Held
<1>3. \A v \in Reversals : Leaves(call[v], x) => call[v].mode \in {"claw", "refund", "unwind"}
  BY DEF Leaves
<1>4. ~OpenIn(call, r) => \A v \in Reversals : ~(call[v].run = r /\ Leaves(call[v], x))
  BY <1>3 DEF OpenIn
<1>5. ASSUME NEW v \in Reversals, saga[r].mode = "done", call[v].run = r,
             call[v].mode \in {"claw", "refund", "unwind"}
      PROVE  In(r, x) <=> Leaves(call[v], x)
  BY <1>2, <1>5 DEF In, OpenIn
<1> QED BY <1>4, <1>5 DEF In, Tells

LEMMA InCasesNext ==
  ASSUME TypeOK, Held, TypeOK', Held', NEW r \in Runs, NEW x \in Items
  PROVE  Tells(r, x) /\ Tells(r, x)'
<1>1. (TypeOK /\ Held => AllTell)'
  BY InCases, PTL
<1> QED BY <1>1, InCases DEF AllTell

(* What a step may do to the standing of a run. *)
Part(r, x, a) == IF Lands(saga[r].frozen, x) = a THEN Heft(saga[r].plan, x) ELSE 0

Stays(r) == \A a \in Purses : Stands(r, a)' = Stands(r, a)
Grows(r, x) == \A a \in Purses : Stands(r, a)' = Stands(r, a) + Part(r, x, a)
Shrinks(r, x) == \A a \in Purses : Stands(r, a)' = Stands(r, a) - Part(r, x, a)

LEMMA AllItems ==
  ASSUME NEW r \in Runs, NEW a, NEW x \in Items, NEW n \in Int,
         \A y \in Items : Stand(r, y, a) \in Int,
         \A y \in Items \ {x} : Stand(r, y, a)' = Stand(r, y, a),
         Stand(r, x, a)' = Stand(r, x, a) + n
  PROVE  Stands(r, a)' = Stands(r, a) + n
<1> DEFINE Old(y) == Stand(r, y, a)
           New(y) == Stand(r, y, a)'
<1>1. \A y \in {"tax", "recouped", "excess", "share", "dust", "sweep"} :
        Old(y) \in Int /\ New(y) = IF y = x THEN Old(y) + n ELSE Old(y)
  BY DEF Items, LegNames
<1>2. x \in {"tax", "recouped", "excess", "share", "dust", "sweep"}
  BY DEF Items, LegNames
<1>3. New("tax") + New("recouped") + New("excess") + New("share") + New("dust") + New("sweep")
      = Old("tax") + Old("recouped") + Old("excess") + Old("share") + Old("dust") + Old("sweep") + n
  <2> HIDE DEF Old, New
  <2> QED BY <1>1, <1>2
<1> QED BY <1>3 DEF Stands

LEMMA Turned ==
  ASSUME TypeOK, TypeOK', NEW r \in Runs,
         saga'[r].plan = saga[r].plan, saga'[r].frozen = saga[r].frozen
  PROVE  /\ (\A y \in Items : Heft(saga[r].plan, y) > 0 => (In(r, y)' <=> In(r, y)))
              => Stays(r)
         /\ \A x \in Items :
              /\ ~In(r, x)
              /\ \A y \in Items : Heft(saga[r].plan, y) > 0 =>
                                    (In(r, y)' <=> In(r, y) \/ y = x)
              => Grows(r, x)
         /\ \A x \in Items :
              /\ In(r, x)
              /\ \A y \in Items : Heft(saga[r].plan, y) > 0 =>
                                    (In(r, y)' <=> In(r, y) /\ y # x)
              => Shrinks(r, x)
<1> DEFINE plan == saga[r].plan
           frozen == saga[r].frozen
<1>1. plan \in Plans
  BY DEF TypeOK
<1>2. \A y \in Items : Heft(plan, y) \in Nat
  BY <1>1, HeftType
<1>3. \A y \in Items, a \in Purses :
        /\ Stand(r, y, a) = IF In(r, y) /\ Lands(frozen, y) = a THEN Heft(plan, y) ELSE 0
        /\ Stand(r, y, a)' = IF In(r, y)' /\ Lands(frozen, y) = a THEN Heft(plan, y) ELSE 0
        /\ Stand(r, y, a) \in Int
        /\ Part(r, y, a) = IF Lands(frozen, y) = a THEN Heft(plan, y) ELSE 0
        /\ Part(r, y, a) \in Int /\ - Part(r, y, a) \in Int
  BY <1>2 DEF Stand, Part
<1> HIDE DEF plan, frozen
<1>4. ASSUME \A y \in Items : Heft(plan, y) > 0 => (In(r, y)' <=> In(r, y))
      PROVE  Stays(r)
  <2> SUFFICES ASSUME NEW a \in Purses PROVE Stands(r, a)' = Stands(r, a)
    BY DEF Stays
  <2>1. \A y \in Items : Stand(r, y, a)' = Stand(r, y, a)
    BY <1>2, <1>3, <1>4
  <2> QED BY <2>1 DEF Stands, Items, LegNames
<1>5. ASSUME NEW x \in Items, ~In(r, x),
             \A y \in Items : Heft(plan, y) > 0 => (In(r, y)' <=> In(r, y) \/ y = x)
      PROVE  Grows(r, x)
  <2> SUFFICES ASSUME NEW a \in Purses
               PROVE  Stands(r, a)' = Stands(r, a) + Part(r, x, a)
    BY DEF Grows
  <2>1. \A y \in Items \ {x} : Stand(r, y, a)' = Stand(r, y, a)
    BY <1>2, <1>3, <1>5
  <2>2. Stand(r, x, a)' = Stand(r, x, a) + Part(r, x, a)
    BY <1>2, <1>3, <1>5
  <2> QED BY <1>3, <2>1, <2>2, AllItems
<1>6. ASSUME NEW x \in Items, In(r, x),
             \A y \in Items : Heft(plan, y) > 0 => (In(r, y)' <=> In(r, y) /\ y # x)
      PROVE  Shrinks(r, x)
  <2> SUFFICES ASSUME NEW a \in Purses
               PROVE  Stands(r, a)' = Stands(r, a) - Part(r, x, a)
    BY DEF Shrinks
  <2>1. \A y \in Items \ {x} : Stand(r, y, a)' = Stand(r, y, a)
    BY <1>2, <1>3, <1>6
  <2>2. Stand(r, x, a)' = Stand(r, x, a) + (- Part(r, x, a))
    BY <1>2, <1>3, <1>6
  <2>3. Stands(r, a)' = Stands(r, a) + (- Part(r, x, a))
    BY <1>3, <2>1, <2>2, AllItems
  <2>4. Stands(r, a) \in Int /\ Part(r, x, a) \in Int
    BY <1>3, StandType DEF StandsNat
  <2> QED BY <2>3, <2>4
<1> QED BY <1>4, <1>5, <1>6 DEF plan

(* What stands of a run that a step leaves alone. *)
LEMMA StandFrame ==
  ASSUME NEW r \in Runs, saga'[r] = saga[r], undone'[r] = undone[r],
         \A v \in Reversals : call'[v] = call[v] \/ (call[v].run # r /\ call'[v].run # r)
  PROVE  Stays(r)
<1>1. OpenIn(call, r)' <=> OpenIn(call, r)
  BY DEF OpenIn
<1>2. \A x : In(r, x)' <=> In(r, x)
  BY <1>1 DEF In, Leaves
<1>3. \A x, a : Stand(r, x, a)' = Stand(r, x, a)
  BY <1>2 DEF Stand
<1> QED BY <1>3 DEF Stays, Stands

(* The saga puts in what it credits or sweeps and takes out what it debits *)
(* back or sweeps back; nothing else it does changes what stands.          *)
LEMMA SagaStanding ==
  ASSUME TypeOK, Held, Whole, TypeOK', Held', NEW r \in Runs, Saga(r), broken' = {}
  PROVE  /\ \A q \in Runs \ {r} : Stays(q)
         /\ CreditVault(r) => Grows(r, saga[r].step)
         /\ Sweep(r) => Grows(r, "sweep")
         /\ DebitBack(r) => Shrinks(r, saga[r].step)
         /\ SweepBack(r) => Shrinks(r, "sweep")
         /\ ~(CreditVault(r) \/ Sweep(r) \/ DebitBack(r) \/ SweepBack(r)) => Stays(r)
<1> DEFINE plan == saga[r].plan
           step == saga[r].step
<1>1. /\ saga \in [Runs -> SagaRec] /\ plan \in Plans /\ advance \in Plans
  BY DEF TypeOK, SagaRec
<1>2. call' = call /\ undone' = undone
  BY DEF Saga, Begin, ApplyWithholding, IsIncomingFrozen, ReadAdvance, Sweep,
     CreditVault, PostIngest, IngestThrows, DebitBack, RereadAdvance, SweepBack,
     UnwindEscrowRow, undo
<1>3. \A q \in Runs \ {r} : saga'[q] = saga[q]
  BY <1>1 DEF Saga, Begin, ApplyWithholding, IsIncomingFrozen, ReadAdvance, Sweep,
     CreditVault, PostIngest, IngestThrows, DebitBack, RereadAdvance, SweepBack,
     UnwindEscrowRow, Onward
<1>4. \A q \in Runs \ {r} : Stays(q)
  BY <1>2, <1>3, StandFrame
<1>5. \A y \in Items :
           /\ saga[r].mode = "book" => (In(r, y) <=> y \in Walked("book", step))
           /\ saga[r].mode = "compensate" =>
                (In(r, y) <=> y \notin Walked("compensate", step))
           /\ saga[r].mode \in {"none", "begin"} => ~In(r, y)
           /\ saga'[r].mode = "book" => (In(r, y)' <=> y \in Walked("book", saga'[r].step))
           /\ saga'[r].mode = "compensate" =>
                (In(r, y)' <=> y \notin Walked("compensate", saga'[r].step))
           /\ saga'[r].mode \in {"none", "begin", "failed"} => ~In(r, y)'
           /\ saga'[r].mode = "done" /\ ~OpenIn(call', r) => (In(r, y)' <=> undone'[r] = 0)
  BY InCasesNext DEF Tells, OpenIn
<1>6. "book" \in Modes /\ "compensate" \in Modes
  BY DEF Modes
<1>7. CASE CreditVault(r) \/ Sweep(r)
  <2>1. /\ saga[r].mode = "book" /\ step \in Items
        /\ CreditVault(r) => step \in LegNames
        /\ Sweep(r) => step = "sweep"
        /\ saga' = [saga EXCEPT ![r].step = After("book", plan, step)]
    BY <1>7 DEF CreditVault, Sweep, Do, Onward, Items
  <2>2. /\ saga'[r].mode = "book" /\ saga'[r].plan = plan
        /\ saga'[r].frozen = saga[r].frozen
        /\ saga'[r].step = After("book", plan, step)
    BY <1>1, <2>1 DEF SagaRec
  <2>3. /\ step \notin Walked("book", step)
        /\ \A x \in Items : Heft(plan, x) > 0 =>
             (x \in Walked("book", After("book", plan, step))
                <=> x \in Walked("book", step) \/ x = step)
    BY <1>1, <1>6, <2>1, NextItem DEF Items
  <2>4. Grows(r, step)
    <3> HIDE DEF step
    <3> QED BY <1>5, <2>1, <2>2, <2>3, Turned
  <2>5. ~DebitBack(r) /\ ~SweepBack(r)
    BY <2>1 DEF DebitBack, SweepBack, Do
  <2>6. CreditVault(r) /\ Sweep(r) => FALSE
    BY <2>1 DEF LegNames
  <2> QED BY <1>4, <1>7, <2>1, <2>4, <2>5, <2>6
<1>8. CASE DebitBack(r) \/ SweepBack(r)
  <2>1. /\ saga[r].mode = "compensate" /\ step \in Items
        /\ DebitBack(r) => step \in LegNames
        /\ SweepBack(r) => step = "sweep"
        /\ saga' = [saga EXCEPT ![r].step = After("compensate", plan, step)]
    BY <1>8 DEF DebitBack, SweepBack, Do, Onward, Items
  <2>2. /\ saga'[r].mode = "compensate" /\ saga'[r].plan = plan
        /\ saga'[r].frozen = saga[r].frozen
        /\ saga'[r].step = After("compensate", plan, step)
    BY <1>1, <2>1 DEF SagaRec
  <2>3. /\ step \notin Walked("compensate", step)
        /\ \A x \in Items : Heft(plan, x) > 0 =>
             (x \in Walked("compensate", After("compensate", plan, step))
                <=> x \in Walked("compensate", step) \/ x = step)
    BY <1>1, <1>6, <2>1, NextItem DEF Items
  <2>4. Shrinks(r, step)
    <3> HIDE DEF step
    <3> QED BY <1>5, <2>1, <2>2, <2>3, Turned
  <2>5. ~CreditVault(r) /\ ~Sweep(r)
    BY <2>1 DEF CreditVault, Sweep, Do
  <2>6. DebitBack(r) /\ SweepBack(r) => FALSE
    BY <2>1 DEF LegNames
  <2> QED BY <1>4, <1>8, <2>1, <2>4, <2>5, <2>6
<1>9. CASE Begin(r) \/ ApplyWithholding(r) \/ RereadAdvance(r) \/ UnwindEscrowRow(r)
           \/ PostIngest(r) \/ IngestThrows(r)
  <2>1. saga'[r].plan = plan /\ saga'[r].frozen = saga[r].frozen
    BY <1>1, <1>9 DEF Begin, ApplyWithholding, RereadAdvance, UnwindEscrowRow,
       PostIngest, IngestThrows, SagaRec
  <2>2. \A y \in Items : Heft(plan, y) > 0 => (In(r, y)' <=> In(r, y))
    <3>1. CASE Begin(r)
      <4>1. status[r] = "none" /\ saga'[r].mode = "begin"
        BY <1>1, <3>1 DEF Begin, SagaRec
      <4>2. saga[r].mode = "none"
        BY <4>1 DEF Whole, WholeRun
      <4> QED BY <1>5, <4>1, <4>2
    <3>2. CASE ApplyWithholding(r)
      <4>1. /\ saga[r].mode = "begin" /\ saga'[r].mode = "book"
            /\ saga'[r].step = After("book", plan, "begin")
        BY <1>1, <3>2 DEF ApplyWithholding, SagaRec
      <4>2. \A y \in Items : Heft(plan, y) > 0 => y \notin Walked("book", saga'[r].step)
        <5>1. Walked("book", "begin") = {} /\ "begin" \notin Items
          BY WalkBegins DEF Items, LegNames
        <5> HIDE DEF plan
        <5> QED BY <1>1, <1>6, <4>1, <5>1, NextItem
      <4> QED BY <1>5, <4>1, <4>2
    <3>3. CASE RereadAdvance(r)
      <4>1. /\ saga[r].mode = "compensate" /\ saga'[r].mode = "compensate"
            /\ step = "advance" /\ saga'[r].step = "sweep"
        BY <1>1, <3>3 DEF RereadAdvance, Do, SagaRec
      <4> QED BY <1>5, <4>1, CompensateWalk
    <3>4. CASE UnwindEscrowRow(r)
      <4>1. /\ saga[r].mode = "compensate" /\ saga'[r].mode = "failed"
            /\ step = "withhold"
        BY <1>1, <3>4 DEF UnwindEscrowRow, Do, SagaRec
      <4> QED BY <1>5, <4>1, CompensateWalk
    <3>5. CASE PostIngest(r)
      <4>1. /\ saga[r].mode = "book" /\ saga'[r].mode = "done"
            /\ step = "journal"
        BY <1>1, <3>5 DEF PostIngest, Do, SagaRec
      <4>2. undone'[r] = 0 /\ ~OpenIn(call', r)
        <5>1. r \notin ingested /\ status[r] # "reversed" /\ r \notin broken
          <6>1. broken = {}
            BY <3>5 DEF PostIngest
          <6> QED BY <4>1, <6>1 DEF Whole, WholeRun
        <5>2. undone[r] = 0
          BY <5>1 DEF Whole, WholeRun, Sound
        <5>3. \A v \in Reversals : call[v].run # r
          BY <5>1, SplitAssumption DEF Held, Idle
        <5> QED BY <1>2, <5>2, <5>3, NoHolder
      <4>3. \A y \in Items : In(r, y) /\ In(r, y)'
        BY <1>5, <4>1, <4>2, BookWalk
      <4> QED BY <4>3
    <3>6. CASE IngestThrows(r)
      <4>1. /\ saga[r].mode = "book" /\ saga'[r].mode = "compensate"
            /\ step = "journal" /\ saga'[r].step = After("compensate", plan, "begin")
        BY <1>1, <3>6 DEF IngestThrows, Do, SagaRec
      <4>2. \A y \in Items : Heft(plan, y) > 0 =>
              y \notin Walked("compensate", saga'[r].step)
        <5>1. Walked("compensate", "begin") = {} /\ "begin" \notin Items
          BY WalkBegins DEF Items, LegNames
        <5> HIDE DEF plan
        <5> QED BY <1>1, <1>6, <4>1, <5>1, NextItem
      <4> QED BY <1>5, <4>1, <4>2, BookWalk
    <3> QED BY <1>9, <3>1, <3>2, <3>3, <3>4, <3>5, <3>6
  <2>3. Stays(r)
    BY <2>1, <2>2, Turned
  <2>4. ~(CreditVault(r) \/ Sweep(r) \/ DebitBack(r) \/ SweepBack(r))
    <3>1. CASE Begin(r)
      <4>1. saga[r].mode = "none"
        BY <3>1 DEF Begin, Whole, WholeRun
      <4> QED BY <4>1 DEF CreditVault, Sweep, DebitBack, SweepBack, Do
    <3>2. CASE ~Begin(r)
      BY <1>9, <3>2 DEF ApplyWithholding, RereadAdvance, UnwindEscrowRow, PostIngest,
         IngestThrows, CreditVault, Sweep, DebitBack, SweepBack, Do, LegNames
    <3> QED BY <3>1, <3>2
  <2> QED BY <1>4, <2>3, <2>4
<1>10. CASE IsIncomingFrozen(r) \/ ReadAdvance(r)
  <2>1. /\ saga[r].mode = "book" /\ saga'[r].mode = "book"
        /\ step \in {"look", "advance"}
    BY <1>1, <1>10 DEF IsIncomingFrozen, ReadAdvance, Do, SagaRec
  <2>2. \A y \in Items : In(r, y) <=> y = "tax"
    BY <1>5, <2>1, BookWalk DEF Items, LegNames
  <2>3. \A y \in Items : Heft(saga'[r].plan, y) > 0 => (In(r, y)' <=> y = "tax")
    <3>1. CASE IsIncomingFrozen(r)
      <4>1. saga'[r].step = "advance"
        BY <1>1, <3>1 DEF IsIncomingFrozen, SagaRec
      <4> QED BY <1>5, <2>1, <4>1, BookWalk DEF Items, LegNames
    <3>2. CASE ReadAdvance(r)
      <4>1. saga'[r].step = After("book", advance, "advance") /\ saga'[r].plan = advance
        BY <1>1, <3>2 DEF ReadAdvance, SagaRec
      <4>2. "advance" \notin Items /\ "look" \notin Items /\ "begin" \notin Items
        BY DEF Items, LegNames
      <4>3. \A y \in Items : Heft(advance, y) > 0 =>
              (y \in Walked("book", After("book", advance, "advance"))
                 <=> y \in Walked("book", "advance") \/ y = "advance")
        BY <1>1, <1>6, NextItem
      <4> QED BY <1>5, <2>1, <4>1, <4>2, <4>3, BookWalk
    <3> QED BY <1>10, <3>1, <3>2
  <2>4. \A p, f : Heft(p, "tax") = Withheld /\ Lands(f, "tax") = "reserve"
    BY DEF Heft, Lands, Amount, Account
  <2>5. saga'[r].plan \in Plans
    BY DEF TypeOK
  <2>6. \A y \in Items : \A a : Stand(r, y, a)' = Stand(r, y, a)
    <3> SUFFICES ASSUME NEW y \in Items, NEW a PROVE Stand(r, y, a)' = Stand(r, y, a)
      OBVIOUS
    <3>1. CASE y = "tax"
      <4>1. Stand(r, y, a) = IF "reserve" = a THEN Withheld ELSE 0
        BY <2>2, <2>4, <3>1 DEF Stand
      <4>2. Stand(r, y, a)' = IF "reserve" = a THEN Withheld ELSE 0
        <5>1. CASE Withheld > 0
          BY <2>3, <2>4, <3>1, <5>1 DEF Stand
        <5>2. CASE Withheld = 0
          BY <2>4, <3>1, <5>2 DEF Stand
        <5> QED BY <5>1, <5>2, SplitAssumption
      <4> QED BY <4>1, <4>2
    <3>2. CASE y # "tax"
      <4>1. Stand(r, y, a) = 0
        BY <2>2, <3>2 DEF Stand
      <4>2. Heft(saga'[r].plan, y) \in Nat
        BY <2>5, HeftType
      <4>3. Stand(r, y, a)' = 0
        BY <2>3, <3>2, <4>2 DEF Stand
      <4> QED BY <4>1, <4>3
    <3> QED BY <3>1, <3>2
  <2>7. Stays(r)
    BY <2>6 DEF Stays, Stands, Items, LegNames
  <2>8. ~(CreditVault(r) \/ Sweep(r) \/ DebitBack(r) \/ SweepBack(r))
    BY <2>1 DEF CreditVault, Sweep, DebitBack, SweepBack, Do, LegNames
  <2> QED BY <1>4, <2>7, <2>8
<1> QED BY <1>7, <1>8, <1>9, <1>10 DEF Saga

(* A reversal takes out what it claws or rolls back and puts in what it    *)
(* recredits or reapplies; nothing else it does changes what stands.       *)
Claws(v) == Clawback(v) /\ call'[v].mode = "claw"
Moves(v) == Claws(v) \/ Rollback(v) \/ Recredit(v) \/ ReapplyRollback(v)

LEMMA HeldDone ==
  ASSUME TypeOK, Held, Whole, broken = {}, NEW v \in Reversals, call[v].mode # "idle"
  PROVE  /\ call[v].run \in Runs /\ call[v].run \in ingested
         /\ saga[call[v].run].mode = "done" /\ status[call[v].run] = "reversed"
         /\ \A w \in Reversals \ {v} : call[w].run # call[v].run
         /\ OpenIn(call, call[v].run) <=> call[v].mode \in {"claw", "refund", "unwind"}
         /\ undone[call[v].run] = IF OpenIn(call, call[v].run) THEN 0 ELSE 1
<1> DEFINE r == call[v].run
<1>1. r \in Runs /\ r \in ingested /\ r # NoRun
  BY HeldRun
<1>2. status[r] = "reversed" /\ \A w \in Reversals : call[w].run = r => w = v
  BY <1>1 DEF Held
<1>3. OpenIn(call, r) <=> call[v].mode \in {"claw", "refund", "unwind"}
  BY <1>2, Holder
<1>4. Sound(r)
  BY <1>1 DEF Whole, WholeRun
<1>5. saga[r].mode = "done" /\ undone[r] = IF OpenIn(call, r) THEN 0 ELSE 1
  BY <1>1, <1>2, <1>4 DEF Sound
<1> QED BY <1>1, <1>2, <1>3, <1>5

LEMMA ClaimStanding ==
  ASSUME TypeOK, Held, Whole, TypeOK', Held', NEW v \in Reversals, NEW q \in Runs,
         Claim(v, q), broken' = {}
  PROVE  \A p \in Runs : Stays(p)
<1> USE DEF runs
<1>0. /\ saga \in [Runs -> SagaRec] /\ call \in [Reversals -> CallRec]
      /\ undone \in [Runs -> Nat] /\ saga' = saga /\ broken = {}
  BY DEF TypeOK, SagaRec, CallRec, Claim
<1>2. /\ call[v] = Idle /\ q \in ingested /\ status[q] = "posted"
      /\ undone' = undone
      /\ \A w \in Reversals \ {v} : call'[w] = call[w]
      /\ call'[v].mode = "claw" /\ call'[v].run = q
      /\ call'[v].step = After("claw", saga[q].plan, "begin")
  BY <1>0 DEF Claim, Claimable, CallRec
<1>3. q # NoRun /\ \A w \in Reversals : call[w].run # q
  BY <1>2, SplitAssumption DEF Held, Idle
<1>4. ~OpenIn(call, q) /\ Sound(q)
  BY <1>0, <1>3, NoHolder DEF Whole, WholeRun
<1>5. saga[q].mode = "done" /\ undone[q] = 0
  BY <1>2, <1>4 DEF Sound
<1>6. \A y \in Items : Tells(q, y) /\ Tells(q, y)'
  BY InCasesNext
<1>7. \A y \in Items : In(q, y)
  BY <1>4, <1>5, <1>6 DEF Tells
<1>8. saga[q].plan \in Plans
  BY <1>0 DEF SagaRec
<1>9. \A y \in Items : Heft(saga[q].plan, y) > 0 => In(q, y)'
  <2>1. "claw" \in Modes /\ Walked("claw", "begin") = {} /\ "begin" \notin Items
    BY WalkBegins DEF Modes, Items, LegNames
  <2>2. \A y \in Items : Heft(saga[q].plan, y) > 0 => y \notin Walked("claw", call'[v].step)
    BY <1>2, <1>8, <2>1, NextItem
  <2>3. \A y \in Items : In(q, y)' <=> y \notin Walked("claw", call'[v].step)
    BY <1>0, <1>2, <1>5, <1>6 DEF Tells, Leaves
  <2> QED BY <2>2, <2>3
<1>10. Stays(q)
  BY <1>0, <1>7, <1>9, Turned
<1>11. \A p \in Runs \ {q} : Stays(p)
  <2>1. \A p \in Runs \ {q} : call[v].run # p /\ call'[v].run # p
    BY <1>2, SplitAssumption DEF Idle
  <2> QED BY <1>0, <1>2, <2>1, StandFrame
<1> QED BY <1>10, <1>11

LEMMA CallStanding ==
  ASSUME TypeOK, Held, Whole, TypeOK', Held', NEW v \in Reversals, Reverse(v),
         NEW r \in Runs, call[v].run = r, broken' = {}
  PROVE  /\ \A q \in Runs \ {r} : Stays(q)
         /\ Claws(v) => Shrinks(r, call[v].step)
         /\ Rollback(v) => Shrinks(r, "sweep")
         /\ Recredit(v) => Grows(r, call[v].step)
         /\ ReapplyRollback(v) => Grows(r, "sweep")
         /\ ~Moves(v) => Stays(r)
<1> DEFINE plan == saga[r].plan
           mode == call[v].mode
           step == call[v].step
<1> USE DEF runs
<1>0. /\ saga \in [Runs -> SagaRec] /\ call \in [Reversals -> CallRec]
      /\ undone \in [Runs -> Nat] /\ saga' = saga /\ broken = {}
  BY DEF TypeOK, SagaRec, CallRec, Reverse, Claim, Clawback, Recredit, ReadRollback,
     Rollback, ReapplyRollback, PostReversal, ReversalThrows, RevertClaim,
     UnwindEscrowForRun, InsertSplitReversal
<1>a. r # NoRun /\ ~\E q \in Runs : Claim(v, q)
  BY SplitAssumption DEF Claim, Idle
<1>1. /\ mode # "idle"
      /\ \A w \in Reversals \ {v} : call'[w] = call[w]
      /\ call'[v].run \in {r, NoRun}
      /\ \A q \in Runs \ {r} : undone'[q] = undone[q]
  BY <1>0, <1>a DEF CallRec, Reverse, Clawback, Recredit, ReadRollback,
     Rollback, ReapplyRollback, PostReversal, ReversalThrows, RevertClaim,
     UnwindEscrowForRun, InsertSplitReversal, At, Forward, Idle
<1>2. /\ r \in Runs /\ r # NoRun /\ saga[r].mode = "done"
      /\ \A w \in Reversals \ {v} : call[w].run # r
      /\ OpenIn(call, r) <=> mode \in {"claw", "refund", "unwind"}
      /\ undone[r] = IF OpenIn(call, r) THEN 0 ELSE 1
  BY <1>0, <1>1, HeldDone, SplitAssumption
<1>3. \A q \in Runs \ {r} : Stays(q)
  <2>1. \A q \in Runs \ {r} : call[v].run # q /\ call'[v].run # q
    BY <1>1, SplitAssumption
  <2> QED BY <1>0, <1>1, <2>1, StandFrame
<1>4. \A y \in Items : Tells(r, y) /\ Tells(r, y)'
  BY <1>2, InCasesNext
<1>5. mode \in {"claw", "refund", "unwind"} =>
        \A y \in Items : In(r, y) <=> Leaves(call[v], y)
  BY <1>2, <1>4 DEF Tells
<1>6. /\ call'[v].run = r /\ call'[v].mode \in {"claw", "refund", "unwind"} =>
           \A y \in Items : In(r, y)' <=> Leaves(call'[v], y)
      /\ call'[v].run # r \/ call'[v].mode \notin {"claw", "refund", "unwind"} =>
           \A y \in Items : In(r, y)' <=> undone'[r] = 0
  <2>1. call'[v].run # r \/ call'[v].mode \notin {"claw", "refund", "unwind"} =>
          ~OpenIn(call', r)
    BY <1>1, <1>2 DEF OpenIn
  <2>2. OpenIn(call, r)' <=> OpenIn(call', r)
    BY DEF OpenIn
  <2>3. \A y \in Items : Leaves(call[v], y)' <=> Leaves(call'[v], y)
    BY DEF Leaves
  <2> QED BY <1>0, <1>2, <1>4, <2>1, <2>2, <2>3 DEF Tells
<1>7. plan \in Plans /\ saga'[r].plan = plan /\ saga'[r].frozen = saga[r].frozen
  BY <1>0, <1>2 DEF SagaRec
<1>8. {"claw", "refund", "unwind"} \subseteq Modes
  BY DEF Modes
<1>9. CASE Claws(v) \/ Rollback(v)
  <2>1. /\ mode = "claw" /\ step \in Items
        /\ Claws(v) => step \in LegNames
        /\ Rollback(v) => step = "sweep"
        /\ call'[v].run = r /\ call'[v].mode = "claw"
        /\ call'[v].step = After("claw", plan, step)
    <3>1. CASE Claws(v)
      <4>1. mode = "claw" /\ step \in LegNames
        BY <3>1 DEF Claws, Clawback, At
      <4>2. call' = Forward(v)
        <5>1. CASE call' = [call EXCEPT ![v].mode = "refund",
                                        ![v].step = After("refund", Plan(v), @)]
          <6>1. call'[v].mode = "refund"
            BY <1>0, <5>1 DEF CallRec
          <6> QED BY <3>1, <6>1 DEF Claws
        <5> QED BY <3>1, <5>1 DEF Claws, Clawback
      <4>3. call'[v].step = After(mode, plan, step) /\ call'[v].run = r
        BY <1>0, <4>2 DEF Forward, Plan, CallRec
      <4>4. ~Rollback(v)
        BY <4>1 DEF Rollback, At, LegNames
      <4> QED BY <3>1, <4>1, <4>3, <4>4 DEF Claws, Items
    <3>2. CASE Rollback(v)
      BY <1>0, <3>2 DEF Rollback, At, Forward, Plan, Items, CallRec, LegNames, Claws, Clawback
    <3> QED BY <1>9, <3>1, <3>2
  <2>2. /\ step \notin Walked("claw", step)
        /\ \A x \in Items : Heft(plan, x) > 0 =>
             (x \in Walked("claw", After("claw", plan, step))
                <=> x \in Walked("claw", step) \/ x = step)
    BY <1>7, <1>8, <2>1, NextItem DEF Items
  <2>3. \A y \in Items : /\ In(r, y) <=> y \notin Walked("claw", step)
                         /\ In(r, y)' <=> y \notin Walked("claw", call'[v].step)
    BY <1>5, <1>6, <2>1 DEF Leaves
  <2>4. Shrinks(r, step)
    <3> HIDE DEF step, plan
    <3> QED BY <1>2, <1>7, <2>1, <2>2, <2>3, Turned DEF plan
  <2>5. ~Recredit(v) /\ ~ReapplyRollback(v) /\ (Claws(v) /\ Rollback(v) => FALSE)
    BY <2>1 DEF Recredit, ReapplyRollback, At, LegNames
  <2> QED BY <1>3, <1>9, <2>1, <2>4, <2>5 DEF Moves
<1>10. CASE Recredit(v) \/ ReapplyRollback(v)
  <2>1. /\ mode \in {"refund", "unwind"} /\ step \in Items
        /\ Recredit(v) => step \in LegNames
        /\ ReapplyRollback(v) => step = "sweep" /\ mode = "unwind"
        /\ call'[v].run = r /\ call'[v].mode = mode
        /\ call'[v].step = After(mode, plan, step)
    <3>1. CASE Recredit(v)
      BY <1>0, <3>1 DEF Recredit, ReapplyRollback, LegNames, At, Forward, Plan, Items, CallRec
    <3>2. CASE ReapplyRollback(v)
      BY <1>0, <3>2 DEF Recredit, ReapplyRollback, LegNames, At, Forward, Plan, Items, CallRec
    <3> QED BY <1>10, <3>1, <3>2
  <2>2. mode = "refund" => step \in LegNames
    BY <1>10, <2>1
  <2>3. /\ step \notin Walked(mode, step)
        /\ \A x \in Items : Heft(plan, x) > 0 =>
             (x \in Walked(mode, After(mode, plan, step))
                <=> x \in Walked(mode, step) \/ x = step)
    <3>1. \/ step \in LegNames
          \/ step \in {"begin", "advance", "sweep"} /\ mode # "refund"
      BY <2>1, <2>2 DEF Items
    <3> HIDE DEF step, plan
    <3> QED BY <1>7, <1>8, <2>1, <3>1, NextItem
  <2>4. \A y \in Items :
          /\ In(r, y) <=> y \in Walked(mode, step) \/ (mode = "refund" /\ y = "sweep")
          /\ In(r, y)' <=> y \in Walked(mode, call'[v].step)
                             \/ (mode = "refund" /\ y = "sweep")
    BY <1>5, <1>6, <2>1 DEF Leaves
  <2>5. Grows(r, step)
    <3>1. ~(mode = "refund" /\ step = "sweep")
      BY <2>2 DEF LegNames
    <3>2. /\ ~In(r, step)
          /\ \A y \in Items : Heft(plan, y) > 0 => (In(r, y)' <=> In(r, y) \/ y = step)
      <4> HIDE DEF step, plan
      <4> QED BY <2>1, <2>3, <2>4, <3>1
    <3> HIDE DEF step
    <3> QED BY <1>2, <1>7, <2>1, <3>2, Turned
  <2>6. ~Claws(v) /\ ~Rollback(v) /\ (Recredit(v) /\ ReapplyRollback(v) => FALSE)
    BY <2>1 DEF Claws, Clawback, Rollback, At, LegNames
  <2> QED BY <1>3, <1>10, <2>1, <2>5, <2>6 DEF Moves
<1>11. CASE ~Moves(v)
  <2>1. \A y \in Items : Heft(plan, y) > 0 => (In(r, y)' <=> In(r, y))
    <3>1. CASE Clawback(v)
      <4>1. /\ mode = "claw" /\ step \in LegNames
            /\ call'[v].run = r /\ call'[v].mode = "refund"
            /\ call'[v].step = After("refund", plan, step)
        BY <1>0, <1>11, <3>1 DEF Moves, Claws, Clawback, At, Forward, Plan, CallRec
      <4>2. \A x \in Items : Heft(plan, x) > 0 =>
               (x \in Walked("refund", After("refund", plan, step))
                  <=> x \in Walked("refund", step) \/ x = step)
        BY <1>7, <1>8, <4>1, NextItem
      <4>3. \A y \in Items :
              /\ In(r, y) <=> y \notin Walked("claw", step)
              /\ In(r, y)' <=> y = "sweep" \/ y \in Walked("refund", call'[v].step)
        BY <1>5, <1>6, <4>1 DEF Leaves
      <4> HIDE DEF step, plan
      <4> QED BY <4>1, <4>2, <4>3, WalkBack DEF Items
    <3>2. CASE ReadRollback(v)
      <4>1. /\ mode \in {"claw", "unwind"} /\ step = "advance"
            /\ call'[v].run = r /\ call'[v].mode = mode /\ call'[v].step = "sweep"
        BY <1>0, <3>2 DEF ReadRollback, At, CallRec
      <4> QED BY <1>5, <1>6, <4>1, ClawWalk, UnwindWalk DEF Leaves
    <3>3. CASE PostReversal(v)
      <4>1. /\ mode = "claw" /\ step = "journal" /\ call'[v].mode = "close"
            /\ undone'[r] = undone[r] + 1 /\ undone[r] \in Nat
        BY <1>0, <1>2, <3>3 DEF PostReversal, At, CallRec
      <4> QED BY <1>5, <1>6, <4>1, ClawWalk DEF Leaves
    <3>4. CASE ReversalThrows(v)
      <4>1. /\ mode = "claw" /\ step = "journal"
            /\ call'[v].run = r /\ call'[v].mode = "unwind"
            /\ call'[v].step = After("unwind", plan, "begin")
        BY <1>0, <3>4 DEF ReversalThrows, At, CallRec, Plan
      <4>2. Walked("unwind", "begin") = {} /\ "begin" \notin Items
        BY WalkBegins DEF Items, LegNames
      <4>3. \A y \in Items : Heft(plan, y) > 0 => y \notin Walked("unwind", call'[v].step)
        <5> HIDE DEF plan
        <5> QED BY <1>7, <1>8, <4>1, <4>2, NextItem
      <4> QED BY <1>5, <1>6, <4>1, <4>3, ClawWalk DEF Leaves
    <3>5. CASE RevertClaim(v)
      <4>1. /\ mode \in {"refund", "unwind"} /\ step = "revert"
            /\ call'[v].run = NoRun /\ undone' = undone
        BY <1>0, <3>5 DEF RevertClaim, At, Idle
      <4>2. \A y \in Items : In(r, y)
        BY <1>5, <4>1, UnwindWalk DEF Leaves, Items
      <4> QED BY <1>2, <1>6, <4>1, <4>2
    <3>6. CASE UnwindEscrowForRun(v) \/ InsertSplitReversal(v)
      <4>1. /\ mode = "close" /\ undone' = undone
            /\ call'[v].mode \in {"close", "idle"}
        BY <1>0, <3>6 DEF UnwindEscrowForRun, InsertSplitReversal, At, Idle, CallRec
      <4>2. \A y \in Items : ~In(r, y)
        BY <1>2, <1>4, <4>1 DEF Tells
      <4> QED BY <1>2, <1>6, <4>1, <4>2
    <3> QED BY <1>a, <1>11, <3>1, <3>2, <3>3, <3>4, <3>5, <3>6 DEF Reverse, Moves
  <2>2. Stays(r)
    <3> QED BY <1>2, <1>7, <2>1, Turned
  <2> QED BY <1>3, <1>11, <2>2 DEF Moves
<1> QED BY <1>9, <1>10, <1>11 DEF Moves
-----------------------------------------------------------------------------
(* What the steps of a run do to the vault. *)

Numbers ==
  \A a \in Accounts :
    /\ bal[a] \in Int /\ owed[a] \in Nat /\ Cleared(a) \in Int
    /\ \A r \in Runs : Stands(r, a) \in Nat /\ Stands(r, "advance") \in Nat

LEMMA NumbersType == TypeOK => Numbers
<1> SUFFICES ASSUME TypeOK, NEW a \in Accounts
             PROVE  /\ bal[a] \in Int /\ owed[a] \in Nat /\ Cleared(a) \in Int
                    /\ \A r \in Runs : Stands(r, a) \in Nat /\ Stands(r, "advance") \in Nat
  BY DEF Numbers
<1>1. bal[a] \in Int /\ owed[a] \in Nat
  BY DEF TypeOK
<1>2. \A r \in Runs : Stands(r, a) \in Nat /\ Stands(r, "advance") \in Nat
  BY StandType DEF StandsNat, Purses
<1> QED BY <1>1, <1>2 DEF Cleared

LEMMA NumbersNext ==
  ASSUME TypeOK, TypeOK'
  PROVE  Numbers /\ Numbers'
<1>1. (TypeOK => Numbers)'
  BY NumbersType, PTL
<1> QED BY <1>1, NumbersType

(* What a leg or a sweep is worth to an account. *)
LEMMA PartIs ==
  ASSUME TypeOK, NEW r \in Runs
  PROVE  /\ \A leg \in LegNames, a \in Accounts :
              Part(r, leg, a) = IF Account(saga[r].frozen, leg) = a
                                THEN Amount(saga[r].plan, leg) ELSE 0
         /\ \A a \in Accounts : Part(r, "sweep", a) = 0
         /\ \A leg \in LegNames : Part(r, leg, "advance") = 0
         /\ Part(r, "sweep", "advance") = Amount(saga[r].plan, "recouped")
         /\ \A x \in Items, a \in Purses : Part(r, x, a) \in Nat
<1>1. "sweep" \notin LegNames /\ "advance" \notin Accounts
  BY DEF LegNames, Accounts
<1>2. \A leg \in LegNames : Account(saga[r].frozen, leg) \in Accounts
  BY LegType
<1>3. \A x \in Items : Heft(saga[r].plan, x) \in Nat
  BY HeftType DEF TypeOK
<1> QED BY <1>1, <1>2, <1>3 DEF Part, Lands, Heft

ClearedMoves(r) == \A a \in Accounts : Cleared(a)' = Cleared(a) + Stands(r, a)' - Stands(r, a)

LEMMA SagaMoney ==
  ASSUME TypeOK, Held, Whole, TypeOK', Held', NEW r \in Runs, Saga(r), broken' = {}
  PROVE  ClearedMoves(r)
<1> SUFFICES ASSUME NEW a \in Accounts
             PROVE  Cleared(a)' = Cleared(a) + Stands(r, a)' - Stands(r, a)
  BY DEF ClearedMoves
<1> DEFINE step == saga[r].step
           b == Account(saga[r].frozen, step)
           n == Amount(saga[r].plan, step)
           old == Stands(r, a)
           new == Stands(r, a)'
<1>1. /\ bal[a] \in Int /\ owed[a] \in Int /\ bal'[a] \in Int /\ owed'[a] \in Int
      /\ old \in Int /\ new \in Int
      /\ bal \in [Accounts -> Int] /\ owed \in [Accounts -> Nat]
  BY NumbersNext DEF Numbers, TypeOK
<1>2. a \in Purses
  BY DEF Purses
<1>3. step \in LegNames => b \in Accounts /\ n \in Nat
  BY LegType
<1>4. step \in LegNames => Part(r, step, a) = IF b = a THEN n ELSE 0
  BY PartIs
<1>5. Part(r, "sweep", a) = 0
  BY PartIs
<1>6. CASE CreditVault(r)
  <2>1. new = old + Part(r, step, a)
    BY <1>2, <1>6, SagaStanding DEF Grows
  <2>2. step \in LegNames /\ bal' = Plus(bal, b, n) /\ owed' = owed
    BY <1>6 DEF CreditVault
  <2>3. bal'[a] = bal[a] + (IF b = a THEN n ELSE 0)
    <3> HIDE DEF b, n
    <3> QED BY <1>1, <1>3, <2>2 DEF Plus
  <2> HIDE DEF b, n, step, old, new
  <2>4. bal'[a] - owed'[a] = bal[a] - owed[a] + new - old
    BY <1>1, <1>3, <1>4, <2>1, <2>2, <2>3
  <2> QED BY <2>4 DEF Cleared, old, new
<1>7. CASE DebitBack(r)
  <2>1. new = old - Part(r, step, a)
    BY <1>2, <1>7, SagaStanding DEF Shrinks
  <2>2. /\ step \in LegNames
        /\ \/ bal' = Plus(bal, b, -n) /\ owed' = owed
           \/ owed' = Plus(owed, b, n) /\ bal' = bal
    BY <1>7 DEF DebitBack
  <2>3. bal'[a] - owed'[a] = bal[a] - owed[a] - (IF b = a THEN n ELSE 0)
    <3> HIDE DEF b, n
    <3> QED BY <1>1, <1>3, <2>2 DEF Plus
  <2> HIDE DEF b, n, step, old, new
  <2>4. bal'[a] - owed'[a] = bal[a] - owed[a] + new - old
    BY <1>1, <1>3, <1>4, <2>1, <2>2, <2>3
  <2> QED BY <2>4 DEF Cleared, old, new
<1>8. CASE ~CreditVault(r) /\ ~DebitBack(r)
  <2>1. bal' = bal /\ owed' = owed
    BY <1>8 DEF Saga, Begin, ApplyWithholding, IsIncomingFrozen, ReadAdvance, Sweep,
       PostIngest, IngestThrows, RereadAdvance, SweepBack, UnwindEscrowRow, money
  <2>2. new = old
    <3>1. CASE Sweep(r)
      <4>1. new = old + Part(r, "sweep", a)
        BY <1>2, <3>1, SagaStanding DEF Grows
      <4> HIDE DEF old, new
      <4> QED BY <1>1, <1>5, <4>1
    <3>2. CASE SweepBack(r)
      <4>1. new = old - Part(r, "sweep", a)
        BY <1>2, <3>2, SagaStanding DEF Shrinks
      <4> HIDE DEF old, new
      <4> QED BY <1>1, <1>5, <4>1
    <3>3. CASE ~Sweep(r) /\ ~SweepBack(r)
      BY <1>2, <1>8, <3>3, SagaStanding DEF Stays
    <3> QED BY <3>1, <3>2, <3>3
  <2> HIDE DEF old, new
  <2>3. bal'[a] - owed'[a] = bal[a] - owed[a] + new - old
    BY <1>1, <2>1, <2>2
  <2> QED BY <2>3 DEF Cleared, old, new
<1> QED BY <1>6, <1>7, <1>8

(* A journal that is complete is clawed back leg by leg. *)
LEMMA TakenAll ==
  ASSUME TypeOK, Held, Whole, broken' = {}, NEW v \in Reversals, Reverse(v),
         call[v].mode # "idle", call[v].step \in LegNames
  PROVE  Taken(v) = Amount(saga[call[v].run].plan, call[v].step)
<1> DEFINE r == call[v].run
           step == call[v].step
<1>1. broken = {}
  BY DEF Reverse, Claim, Clawback, Recredit, ReadRollback, Rollback,
     ReapplyRollback, PostReversal, ReversalThrows, RevertClaim, UnwindEscrowForRun,
     InsertSplitReversal
<1>2. r \in Runs /\ r \in ingested
  BY <1>1, HeldDone
<1>3. Complete(r)
  BY <1>1, <1>2 DEF Whole, WholeRun, Sound
<1>4. Amount(saga[r].plan, step) \in Nat
  BY <1>2, LegType
<1>5. Amount(saga[r].plan, step) > 0 => step \in stored[r]
  BY <1>3 DEF Complete, Due
<1> QED BY <1>4, <1>5 DEF Taken, Plan

LEMMA CallMoney ==
  ASSUME TypeOK, Held, Whole, TypeOK', Held', NEW v \in Reversals, Reverse(v),
         NEW r \in Runs, call[v].run = r, broken' = {}
  PROVE  ClearedMoves(r)
<1> SUFFICES ASSUME NEW a \in Accounts
             PROVE  Cleared(a)' = Cleared(a) + Stands(r, a)' - Stands(r, a)
  BY DEF ClearedMoves
<1> DEFINE step == call[v].step
           b == Account(saga[r].frozen, step)
           n == Amount(saga[r].plan, step)
           old == Stands(r, a)
           new == Stands(r, a)'
<1>1. /\ bal[a] \in Int /\ owed[a] \in Int /\ bal'[a] \in Int /\ owed'[a] \in Int
      /\ old \in Int /\ new \in Int
      /\ bal \in [Accounts -> Int]
  BY NumbersNext DEF Numbers, TypeOK
<1>a. step \in LegNames /\ call[v].mode # "idle" => Taken(v) = n
  BY TakenAll
<1>2. a \in Purses /\ owed' = owed
  BY DEF Purses, Reverse, Claim, Clawback, Recredit, ReadRollback, Rollback,
     ReapplyRollback, PostReversal, ReversalThrows, RevertClaim, UnwindEscrowForRun,
     InsertSplitReversal, runs
<1>3. step \in LegNames => b \in Accounts /\ n \in Nat
  BY LegType
<1>4. step \in LegNames => Part(r, step, a) = IF b = a THEN n ELSE 0
  BY PartIs
<1>5. Part(r, "sweep", a) = 0
  BY PartIs
<1>6. CASE Recredit(v)
  <2>1. new = old + Part(r, step, a)
    BY <1>2, <1>6, CallStanding DEF Grows
  <2>2. step \in LegNames /\ bal' = Plus(bal, b, n)
    BY <1>a, <1>6 DEF Recredit, At
  <2>3. bal'[a] = bal[a] + (IF b = a THEN n ELSE 0)
    <3> HIDE DEF b, n
    <3> QED BY <1>1, <1>3, <2>2 DEF Plus
  <2> HIDE DEF b, n, step, old, new
  <2>4. bal'[a] - owed'[a] = bal[a] - owed[a] + new - old
    BY <1>1, <1>2, <1>3, <1>4, <2>1, <2>2, <2>3
  <2> QED BY <2>4 DEF Cleared, old, new
<1>7. CASE Claws(v)
  <2>1. new = old - Part(r, step, a)
    BY <1>2, <1>7, CallStanding DEF Shrinks
  <2>2. step \in LegNames /\ bal' = Plus(bal, b, -n)
    <3>1. call \in [Reversals -> CallRec] /\ Clawback(v) /\ call'[v].mode = "claw"
      BY <1>7 DEF TypeOK, CallRec, Claws
    <3>2. call' # [call EXCEPT ![v].mode = "refund",
                               ![v].step = After("refund", Plan(v), @)]
      BY <3>1 DEF CallRec
    <3> QED BY <1>a, <3>1, <3>2 DEF Clawback, At
  <2>3. bal'[a] = bal[a] - (IF b = a THEN n ELSE 0)
    <3> HIDE DEF b, n
    <3> QED BY <1>1, <1>3, <2>2 DEF Plus
  <2> HIDE DEF b, n, step, old, new
  <2>4. bal'[a] - owed'[a] = bal[a] - owed[a] + new - old
    BY <1>1, <1>2, <1>3, <1>4, <2>1, <2>2, <2>3
  <2> QED BY <2>4 DEF Cleared, old, new
<1>8. CASE ~Recredit(v) /\ ~Claws(v)
  <2>1. bal' = bal
    <3>1. CASE Clawback(v)
      <4>1. call'[v].mode # "claw"
        BY <1>8, <3>1 DEF Claws
      <4>2. call' # Forward(v)
        BY <3>1, <4>1 DEF Clawback, At, Forward, TypeOK
      <4> QED BY <3>1, <4>2 DEF Clawback
    <3>2. CASE ~Clawback(v)
      BY <1>8, <3>2 DEF Reverse, Claim, ReadRollback, Rollback,
         ReapplyRollback, PostReversal, ReversalThrows, RevertClaim, UnwindEscrowForRun,
         InsertSplitReversal, money
    <3> QED BY <3>1, <3>2
  <2>2. new = old
    <3>1. CASE ReapplyRollback(v)
      <4>1. new = old + Part(r, "sweep", a)
        BY <1>2, <3>1, CallStanding DEF Grows
      <4> HIDE DEF old, new
      <4> QED BY <1>1, <1>5, <4>1
    <3>2. CASE Rollback(v)
      <4>1. new = old - Part(r, "sweep", a)
        BY <1>2, <3>2, CallStanding DEF Shrinks
      <4> HIDE DEF old, new
      <4> QED BY <1>1, <1>5, <4>1
    <3>3. CASE ~Rollback(v) /\ ~ReapplyRollback(v)
      BY <1>2, <1>8, <3>3, CallStanding DEF Stays, Moves
    <3> QED BY <3>1, <3>2, <3>3
  <2> HIDE DEF old, new
  <2>3. bal'[a] - owed'[a] = bal[a] - owed[a] + new - old
    BY <1>1, <1>2, <2>1, <2>2
  <2> QED BY <2>3 DEF Cleared, old, new
<1> QED BY <1>6, <1>7, <1>8

(* A claim moves nothing, nor do the other calls move what stands. *)
LEMMA ClaimMoney ==
  ASSUME TypeOK, Held, Whole, TypeOK', Held', NEW v \in Reversals, Reverse(v),
         call[v].run \notin Runs, broken' = {}
  PROVE  /\ UNCHANGED <<bal, owed, advance, flaws>>
         /\ \A q \in Runs : Stays(q)
<1>1. call[v].mode = "idle"
  BY DEF Held, TypeOK
<1>2. PICK r \in Runs : Claim(v, r)
  BY <1>1 DEF Reverse, Clawback, Recredit, ReadRollback, Rollback, ReapplyRollback,
     PostReversal, ReversalThrows, RevertClaim, UnwindEscrowForRun, InsertSplitReversal, At
<1>3. UNCHANGED <<bal, owed, advance, flaws>>
  BY <1>2 DEF Claim, money, runs
<1> QED BY <1>2, <1>3, ClaimStanding

LEMMA OtherStanding ==
  ASSUME OtherStep
  PROVE  /\ UNCHANGED <<owed, advance, broken>>
         /\ \A q \in Runs : Stays(q)
<1>1. UNCHANGED <<owed, advance, saga, undone, call, broken>>
  BY DEF OtherStep, Lock, ReadVault, DecideLock, DecideUnlock, MoveFrozen, PostSweep,
     SweepThrows, UpsertDispute, ReleaseVaultPending, PayoutFromVault, runs, undo
<1>2. \A q \in Runs : Stays(q)
  BY <1>1, StandFrame
<1> QED BY <1>1, <1>2
-----------------------------------------------------------------------------
LEMMA BeginsWalk ==
  ASSUME NEW plan \in Plans, NEW step \in {"begin", "tax"}
  PROVE  After("book", plan, step) \in {"tax", "look"}
<1>1. /\ Order["book"][1] = "begin" /\ Order["book"][2] = "tax" /\ Order["book"][3] = "look"
      /\ DOMAIN Order["book"] = 1 .. 10
  BY DEF Order
<1>2. Place("book", "begin") = 1 /\ Place("book", "tax") = 2
  BY <1>1, PlaceIs DEF Modes
<1>3. \E i \in DOMAIN Order["book"] : Order["book"][i] = step
  BY <1>1
<1>4. PICK next \in Place("book", step) + 1 .. Len(Order["book"]) :
        /\ After("book", plan, step) = Order["book"][next]
        /\ next \in DOMAIN Order["book"]
        /\ \A j \in Place("book", step) + 1 .. next - 1 : ~Needed("book", plan, Order["book"][j])
  BY <1>3, AfterNext DEF Modes
<1>5. Needed("book", plan, Order["book"][3])
  BY <1>1 DEF Needed, LegNames
<1>6. next \in 2 .. 3
  BY <1>1, <1>2, <1>4, <1>5
<1> QED BY <1>1, <1>4, <1>6

(* An advance there is not is not written, and one there is stays.         *)
LEMMA AdvanceKept ==
  ASSUME TypeOK, Held, OneBucket, Next
  PROVE  advance' = NoAdvance <=> advance = NoAdvance
<1>1. CASE advance' = advance
  BY <1>1
<1>2. ASSUME NEW seen \in Plans, NEW plan \in Plans, seen # NoAdvance,
             \/ advance' = seen + Amount(plan, "recouped")
             \/ advance' = Most(0, seen - Amount(plan, "recouped"))
      PROVE  advance' # NoAdvance
  <2>1. seen \in Nat /\ Amount(plan, "recouped") \in Nat
    BY <1>2, AmountType DEF Plans, LegNames
  <2>2. advance' \in Int
    <3> DEFINE n == Amount(plan, "recouped")
    <3>1. n \in Nat /\ (advance' = seen + n \/ advance' = Most(0, seen - n))
      BY <1>2, <2>1
    <3> HIDE DEF n
    <3> QED BY <2>1, <3>1 DEF Most
  <2> QED BY <2>2, SplitAssumption
<1>3. ASSUME NEW r \in Runs, Sweep(r) \/ SweepBack(r)
      PROVE  advance' # NoAdvance /\ advance # NoAdvance
  <2>1. saga[r].seen \in Plans /\ saga[r].plan \in Plans
    BY DEF TypeOK
  <2>2. /\ saga[r].seen # NoAdvance
        /\ \/ advance' = saga[r].seen + Amount(saga[r].plan, "recouped")
           \/ advance' = Most(0, saga[r].seen - Amount(saga[r].plan, "recouped"))
    BY <1>3 DEF Sweep, SweepBack, Upsert
  <2> QED BY <1>2, <2>1, <2>2 DEF OneBucket, Unadvanced
<1>4. ASSUME NEW v \in Reversals, Rollback(v) \/ ReapplyRollback(v)
      PROVE  advance' # NoAdvance /\ advance # NoAdvance
  <2>1. call[v].seen \in Plans /\ Plan(v) \in Plans
    <3>1. call[v].mode # "idle"
      BY <1>4 DEF Rollback, ReapplyRollback, At
    <3>2. call[v].run \in Runs
      BY <1>4, <3>1, HeldRun
    <3> QED BY <3>2 DEF TypeOK, Plan
  <2>2. /\ call[v].seen # NoAdvance
        /\ \/ advance' = call[v].seen + Amount(Plan(v), "recouped")
           \/ advance' = Most(0, call[v].seen - Amount(Plan(v), "recouped"))
    BY <1>4 DEF Rollback, ReapplyRollback, Upsert
  <2> QED BY <1>2, <2>1, <2>2 DEF OneBucket, Unadvanced
<1>5. ASSUME NEW r \in Runs, Saga(r), ~Sweep(r), ~SweepBack(r)
      PROVE  advance' = advance
  BY <1>5 DEF Saga, Begin, ApplyWithholding, IsIncomingFrozen, ReadAdvance, CreditVault,
     PostIngest, IngestThrows, DebitBack, RereadAdvance, UnwindEscrowRow
<1>6. ASSUME NEW v \in Reversals, Reverse(v), ~Rollback(v), ~ReapplyRollback(v)
      PROVE  advance' = advance
  BY <1>6 DEF Reverse, Claim, Clawback, Recredit, ReadRollback, PostReversal,
     ReversalThrows, RevertClaim, UnwindEscrowForRun, InsertSplitReversal
<1>7. CASE OtherStep
  BY <1>7, OtherStanding
<1> QED BY <1>1, <1>3, <1>4, <1>5, <1>6, <1>7 DEF Next, OtherStep

(* The bucket that a payee's runs do not use. *)
LEMMA UnusedBucket ==
  ASSUME TypeOK, Held, Whole, OneBucket, SagaStep \/ ReverseStep
  PROVE  bal'[IF advance = NoAdvance THEN "available" ELSE "pending"]
           = bal[IF advance = NoAdvance THEN "available" ELSE "pending"]
<1> DEFINE a == IF advance = NoAdvance THEN "available" ELSE "pending"
<1>1. a \in Accounts /\ bal \in [Accounts -> Int]
  BY DEF Accounts, TypeOK
<1>2. ASSUME NEW r \in Runs, NEW leg \in LegNames, Account(saga[r].frozen, leg) = a,
             leg # "tax" => HasRead(r)
      PROVE  Amount(saga[r].plan, leg) = 0
  BY <1>2 DEF Account, LegNames, Amount, OneBucket, Unadvanced, Advanced
<1>3. ASSUME NEW r \in Runs, Saga(r) PROVE bal'[a] = bal[a]
  <2>1. CASE CreditVault(r) \/ DebitBack(r)
    <3> DEFINE step == saga[r].step
               b == Account(saga[r].frozen, step)
               n == Amount(saga[r].plan, step)
    <3>1. /\ step \in LegNames /\ (step # "tax" => HasRead(r))
          /\ bal' = Plus(bal, b, n) \/ bal' = Plus(bal, b, -n) \/ bal' = bal
      BY <2>1 DEF CreditVault, DebitBack, HasRead, Begins, LegNames
    <3>2. n \in Nat /\ b \in Accounts /\ (b = a => n = 0)
      BY <1>2, <3>1, LegType
    <3> HIDE DEF step, b, n, a
    <3> QED BY <1>1, <3>1, <3>2 DEF Plus
  <2>2. CASE ~CreditVault(r) /\ ~DebitBack(r)
    BY <1>3, <2>2 DEF Saga, Begin, ApplyWithholding, IsIncomingFrozen, ReadAdvance, Sweep,
       PostIngest, IngestThrows, RereadAdvance, SweepBack, UnwindEscrowRow, money
  <2> QED BY <2>1, <2>2
<1>4. ASSUME NEW v \in Reversals, Reverse(v) PROVE bal'[a] = bal[a]
  <2>1. CASE Clawback(v) \/ Recredit(v)
    <3> DEFINE r == call[v].run
               step == call[v].step
               b == Account(saga[r].frozen, step)
               n == Taken(v)
    <3>1. /\ step \in LegNames /\ call[v].mode # "idle"
          /\ bal' = Plus(bal, b, n) \/ bal' = Plus(bal, b, -n) \/ bal' = bal
      BY <2>1 DEF Clawback, Recredit, At
    <3>2. r \in Runs /\ r \in ingested
      BY <3>1, HeldRun
    <3>3. HasRead(r)
      BY <3>2 DEF HasRead, Whole, WholeRun, TypeOK, SagaModes
    <3>4. n \in Nat /\ b \in Accounts /\ (b = a => n = 0)
      BY <1>2, <3>1, <3>2, <3>3, LegType DEF Taken, Plan
    <3> HIDE DEF step, b, n, a
    <3> QED BY <1>1, <3>1, <3>4 DEF Plus
  <2>2. CASE ~Clawback(v) /\ ~Recredit(v)
    BY <1>4, <2>2 DEF Reverse, Claim, ReadRollback, Rollback, ReapplyRollback, PostReversal,
       ReversalThrows, RevertClaim, UnwindEscrowForRun, InsertSplitReversal, money
  <2> QED BY <2>1, <2>2
<1> QED BY <1>3, <1>4 DEF SagaStep, ReverseStep

LEMMA BucketSaga ==
  ASSUME TypeOK, TypeOK', Held, Whole, OneBucket, NEW r \in Runs, Saga(r)
  PROVE  OneBucket'
<1>1. saga \in [Runs -> SagaRec]
  BY DEF TypeOK, SagaRec
<1>2. /\ advance' = NoAdvance <=> advance = NoAdvance
      /\ bal'[IF advance = NoAdvance THEN "available" ELSE "pending"]
           = bal[IF advance = NoAdvance THEN "available" ELSE "pending"]
  BY AdvanceKept, UnusedBucket DEF Next, SagaStep
<1>3. UNCHANGED <<call, locker, dispute>>
  BY DEF Saga, Begin, ApplyWithholding, IsIncomingFrozen, ReadAdvance, Sweep,
     CreditVault, PostIngest, IngestThrows, DebitBack, RereadAdvance, SweepBack,
     UnwindEscrowRow, undo, lock
<1>4. \A q \in Runs \ {r} : saga'[q] = saga[q]
  BY <1>1 DEF Saga, Begin, ApplyWithholding, IsIncomingFrozen, ReadAdvance, Sweep,
     CreditVault, PostIngest, IngestThrows, DebitBack, RereadAdvance, SweepBack,
     UnwindEscrowRow, Onward
<1>5. /\ saga'[r].plan = advance \/ saga'[r].plan = saga[r].plan
      /\ saga'[r].seen = advance \/ saga'[r].seen = saga[r].seen
  BY <1>1 DEF Saga, Begin, ApplyWithholding, IsIncomingFrozen, ReadAdvance, Sweep,
     CreditVault, PostIngest, IngestThrows, DebitBack, RereadAdvance, SweepBack,
     UnwindEscrowRow, Onward, SagaRec
<1>6. ASSUME HasRead(r)'
      PROVE  saga'[r].plan = advance \/ (saga'[r].plan = saga[r].plan /\ HasRead(r))
  <2>1. saga[r].plan \in Plans
    BY DEF TypeOK
  <2>2. CASE Begin(r)
    BY <1>1, <1>6, <2>2 DEF Begin, HasRead, SagaRec
  <2>3. CASE ApplyWithholding(r)
    <3>1. saga'[r].mode = "book" /\ saga'[r].step \in {"tax", "look"}
      BY <1>1, <2>1, <2>3, BeginsWalk DEF ApplyWithholding, SagaRec
    <3> QED BY <1>6, <3>1 DEF HasRead, Begins
  <2>4. CASE IsIncomingFrozen(r)
    BY <1>1, <1>6, <2>4 DEF IsIncomingFrozen, Do, HasRead, Begins, SagaRec
  <2>5. CASE ReadAdvance(r)
    BY <1>1, <2>5 DEF ReadAdvance, SagaRec
  <2>6. CASE CreditVault(r)
    <3>1. /\ saga[r].mode = "book" /\ saga[r].step \in LegNames
          /\ saga'[r].mode = "book" /\ saga'[r].plan = saga[r].plan
          /\ saga'[r].step = After("book", saga[r].plan, saga[r].step)
      BY <1>1, <2>6 DEF CreditVault, Onward, SagaRec
    <3>2. CASE saga[r].step = "tax"
      <4>1. saga'[r].step \in {"tax", "look"}
        BY <2>1, <3>1, <3>2, BeginsWalk
      <4> QED BY <1>6, <3>1, <4>1 DEF HasRead, Begins
    <3>3. CASE saga[r].step # "tax"
      BY <3>1, <3>3 DEF HasRead, Begins, LegNames
    <3> QED BY <3>2, <3>3
  <2>7. CASE Sweep(r) \/ PostIngest(r) \/ IngestThrows(r)
    BY <1>1, <2>7 DEF Sweep, PostIngest, IngestThrows, Do, Onward, HasRead, Begins, SagaRec
  <2>8. CASE DebitBack(r) \/ RereadAdvance(r) \/ SweepBack(r) \/ UnwindEscrowRow(r)
    BY <1>1, <2>8 DEF DebitBack, RereadAdvance, SweepBack, UnwindEscrowRow, Do, Onward,
       HasRead, SagaRec
  <2> QED BY <2>2, <2>3, <2>4, <2>5, <2>6, <2>7, <2>8 DEF Saga
<1>7. CASE advance = NoAdvance
  BY <1>2, <1>3, <1>4, <1>5, <1>7 DEF OneBucket, Downward, Unadvanced
<1>8. CASE advance # NoAdvance
  <2>1. \A q \in Runs : HasRead(q)' => saga'[q].plan # NoAdvance
    BY <1>4, <1>6, <1>8 DEF OneBucket, Advanced, HasRead
  <2> QED BY <1>2, <1>3, <1>8, <2>1 DEF OneBucket, Downward, Advanced
<1> QED BY <1>7, <1>8

LEMMA BucketReverse ==
  ASSUME TypeOK, TypeOK', Held, Whole, OneBucket, NEW v \in Reversals, Reverse(v)
  PROVE  OneBucket'
<1>1. /\ advance' = NoAdvance <=> advance = NoAdvance
      /\ bal'[IF advance = NoAdvance THEN "available" ELSE "pending"]
           = bal[IF advance = NoAdvance THEN "available" ELSE "pending"]
  BY AdvanceKept, UnusedBucket DEF Next, ReverseStep
<1>2. UNCHANGED <<saga, locker, dispute>>
  BY DEF Reverse, Claim, Clawback, Recredit, ReadRollback, Rollback,
     ReapplyRollback, PostReversal, ReversalThrows, RevertClaim, UnwindEscrowForRun,
     InsertSplitReversal, lock, runs
<1>3. \A w \in Reversals :
        call'[w].seen \in {call[w].seen, advance, NoAdvance}
  <2>1. call \in [Reversals -> CallRec]
    BY DEF TypeOK, CallRec
  <2> QED BY <2>1 DEF Reverse, Claim, Clawback, Recredit, ReadRollback, Rollback,
     ReapplyRollback, PostReversal, ReversalThrows, RevertClaim, UnwindEscrowForRun,
     InsertSplitReversal, Forward, Idle, CallRec
<1>4. CASE advance = NoAdvance
  BY <1>1, <1>2, <1>3, <1>4 DEF OneBucket, Downward, Unadvanced
<1>5. CASE advance # NoAdvance
  BY <1>1, <1>2, <1>5 DEF OneBucket, Downward, Advanced, HasRead
<1> QED BY <1>4, <1>5

LEMMA BucketLock ==
  ASSUME TypeOK, TypeOK', OneBucket, NEW l \in Lockers, Lock(l)
  PROVE  OneBucket'
<1>1. /\ locker \in [Lockers -> LockRec] /\ bal \in [Accounts -> Int]
      /\ dispute \in [locked : BOOLEAN, available : Int, pending : Int]
      /\ {"available", "pending"} \subseteq Accounts
      /\ UNCHANGED <<saga, call, advance>>
  BY DEF TypeOK, LockRec, Accounts, Lock, ReadVault, DecideLock, DecideUnlock, MoveFrozen,
     PostSweep, SweepThrows, UpsertDispute, runs, undo
<1>2. /\ bal["available"] \in Int /\ bal["pending"] \in Int
      /\ locker[l].available \in Int /\ locker[l].pending \in Int
      /\ dispute.available \in Int /\ dispute.pending \in Int
  BY <1>1 DEF LockRec
<1>3. \A k \in Lockers \ {l} : locker'[k] = locker[k]
  BY <1>1 DEF Lock, ReadVault, DecideLock, DecideUnlock, MoveFrozen, PostSweep,
     SweepThrows, UpsertDispute
<1>4. SUFFICES
        /\ dispute'.available >= 0 /\ dispute'.pending >= 0
        /\ locker'[l].step \in Underway => locker'[l].available >= 0 /\ locker'[l].pending >= 0
        /\ advance = NoAdvance =>
             /\ bal'["available"] >= 0
             /\ locker'[l].step = "read" => locker'[l].available >= 0
        /\ advance # NoAdvance =>
             bal'["pending"] = 0 /\ dispute'.pending = 0 /\ locker'[l].pending = 0
  BY <1>1, <1>3 DEF OneBucket, Downward, Unadvanced, Advanced, HasRead
<1>5. /\ dispute.available >= 0 /\ dispute.pending >= 0
      /\ locker[l].step \in Underway => locker[l].available >= 0 /\ locker[l].pending >= 0
      /\ advance = NoAdvance =>
           bal["available"] >= 0 /\ (locker[l].step = "read" => locker[l].available >= 0)
      /\ advance # NoAdvance =>
           bal["pending"] = 0 /\ dispute.pending = 0 /\ locker[l].pending = 0
  BY DEF OneBucket, Downward, Unadvanced, Advanced
<1>6. CASE \E locked \in BOOLEAN : ReadVault(l, locked)
  <2>1. /\ bal' = bal /\ dispute' = dispute /\ locker'[l].step = "read"
        /\ \/ locker'[l].available = bal["available"] /\ locker'[l].pending = bal["pending"]
           \/ locker'[l].available = 0 /\ locker'[l].pending = 0
    BY <1>1, <1>6 DEF ReadVault, money
  <2> QED BY <1>5, <2>1 DEF Underway
<1>7. CASE DecideLock(l)
  <2> DEFINE had == locker[l].available
             amount == locker[l].available + locker[l].pending
             available == Least(amount, had)
             pending == amount - available
  <2>1. /\ bal' = bal /\ dispute' = dispute /\ locker[l].step = "read"
        /\ \/ locker'[l] = Free
           \/ /\ amount >= 0 /\ pending =< locker[l].pending
              /\ locker'[l].step = "move"
              /\ locker'[l].available = available /\ locker'[l].pending = pending
    <3>1. /\ locker[l].step = "read" /\ bal' = bal /\ dispute' = dispute
          /\ IF dispute.locked \/ amount < 0 \/ pending > locker[l].pending
             THEN locker' = [locker EXCEPT ![l] = Free]
             ELSE locker' = [locker EXCEPT ![l] = [step |-> "move", locked |-> TRUE,
                                available |-> available, pending |-> pending, reserve |-> 0]]
      BY <1>7 DEF DecideLock, money
    <3> HIDE DEF amount, available, pending, had
    <3>2. /\ locker[l].pending \in Int /\ amount \in Int /\ pending \in Int
      BY <1>2 DEF amount, available, pending, had, Least
    <3>3. CASE dispute.locked \/ amount < 0 \/ pending > locker[l].pending
      BY <1>1, <3>1, <3>3
    <3>4. CASE ~(dispute.locked \/ amount < 0 \/ pending > locker[l].pending)
      <4>1. amount >= 0 /\ pending =< locker[l].pending
        BY <1>2, <3>2, <3>4
      <4>2. locker'[l] = [step |-> "move", locked |-> TRUE,
                            available |-> available, pending |-> pending, reserve |-> 0]
        BY <1>1, <3>1, <3>4
      <4> QED BY <3>1, <4>1, <4>2
    <3> QED BY <3>3, <3>4
  <2>2. CASE locker'[l] = Free
    BY <1>5, <2>1, <2>2 DEF Free, Underway
  <2>3. CASE amount >= 0 /\ locker'[l].available = available /\ locker'[l].pending = pending
    <3>1. advance = NoAdvance \/ locker[l].pending = 0
      BY <1>5
    <3>2. /\ available = IF amount < had THEN amount ELSE had
          /\ pending = amount - available
      BY DEF Least
    <3>3. /\ amount \in Int /\ had \in Int /\ amount = had + locker[l].pending
          /\ amount >= 0 /\ (advance = NoAdvance => had >= 0)
      BY <1>2, <1>5, <2>1, <2>3
    <3> HIDE DEF amount, available, pending, had
    <3>4. available >= 0 /\ pending >= 0 /\ (locker[l].pending = 0 => pending = 0)
      BY <1>2, <3>1, <3>2, <3>3
    <3> QED BY <1>5, <2>1, <2>3, <3>4 DEF Free
  <2> QED BY <2>1, <2>2, <2>3
<1>8. CASE DecideUnlock(l)
  <2>1. /\ bal' = bal /\ dispute' = dispute
        /\ locker'[l].step # "read"
        /\ \/ locker'[l].available = dispute.available /\ locker'[l].pending = dispute.pending
           \/ locker'[l].available = 0 /\ locker'[l].pending = 0
    BY <1>1, <1>8 DEF DecideUnlock, Free, money
  <2> QED BY <1>5, <2>1
<1>9. CASE MoveFrozen(l)
  <2>1. /\ dispute' = dispute /\ locker[l].step \in Underway
        /\ \/ bal' = bal /\ locker'[l] = Free
           \/ /\ bal' = Swept(bal, l) /\ Covered(l)
              /\ locker'[l].step # "read"
              /\ locker'[l].available = locker[l].available
              /\ locker'[l].pending = locker[l].pending
    BY <1>1, <1>9 DEF MoveFrozen, Underway, LockRec
  <2>2. CASE bal' = bal /\ locker'[l] = Free
    BY <1>5, <2>1, <2>2 DEF Free, Underway
  <2>3. CASE /\ bal' = Swept(bal, l) /\ Covered(l) /\ locker'[l].step # "read"
             /\ locker'[l].available = locker[l].available
             /\ locker'[l].pending = locker[l].pending
    <3>1. /\ locker[l].locked => bal'["available"] = bal["available"] - locker[l].available
                               /\ bal'["pending"] = bal["pending"] - locker[l].pending
          /\ ~locker[l].locked => bal'["available"] = bal["available"] + locker[l].available
                               /\ bal'["pending"] = bal["pending"] + locker[l].pending
      BY <1>1, <1>2, <2>3 DEF Swept
    <3>2. locker[l].locked => bal["available"] >= locker[l].available
      BY <2>3 DEF Covered
    <3>3. /\ advance = NoAdvance => bal'["available"] >= 0
          /\ advance # NoAdvance => bal'["pending"] = 0
      BY <1>2, <1>5, <2>1, <3>1, <3>2
    <3> QED BY <1>5, <2>1, <2>3, <3>3
  <2> QED BY <2>1, <2>2, <2>3
<1>10. CASE PostSweep(l)
  BY <1>1, <1>5, <1>10 DEF PostSweep, Underway, LockRec
<1>11. CASE UpsertDispute(l)
  <2>1. /\ bal' = bal /\ locker[l].step \in Underway /\ locker'[l] = Free
        /\ \/ dispute'.available = locker[l].available /\ dispute'.pending = locker[l].pending
           \/ dispute'.available = 0 /\ dispute'.pending = 0
    BY <1>1, <1>11 DEF UpsertDispute, Underway, money
  <2> QED BY <1>5, <2>1 DEF Free, Underway
<1>12. CASE SweepThrows(l)
  <2>1. bal' = bal /\ dispute' = dispute /\ locker'[l] = Free
    BY <1>1, <1>12 DEF SweepThrows
  <2> QED BY <1>5, <2>1 DEF Free, Underway
<1> QED BY <1>6, <1>7, <1>8, <1>9, <1>10, <1>11, <1>12 DEF Lock

LEMMA BucketOther ==
  ASSUME TypeOK, TypeOK', OneBucket, OtherStep
  PROVE  OneBucket'
<1>1. CASE \E l \in Lockers : Lock(l)
  BY <1>1, BucketLock
<1>2. CASE ReleaseVaultPending \/ PayoutFromVault
  <2>1. /\ UNCHANGED <<saga, call, advance, locker, dispute>>
        /\ bal \in [Accounts -> Int] /\ {"available", "pending"} \subseteq Accounts
    BY <1>2 DEF ReleaseVaultPending, PayoutFromVault, runs, undo, lock, TypeOK, Accounts
  <2>2. /\ bal["available"] >= 0 => bal'["available"] >= 0
        /\ bal["pending"] = 0 => bal'["pending"] = 0
    <3>1. CASE ReleaseVaultPending
      <4>1. PICK n \in Int : /\ n = bal["pending"] /\ n > 0
                            /\ bal' = Plus(Plus(bal, "pending", -n), "available", n)
        BY <2>1, <3>1 DEF ReleaseVaultPending
      <4> QED BY <2>1, <4>1 DEF Plus
    <3>2. CASE PayoutFromVault
      <4>1. PICK n \in Int : n = bal["available"] /\ bal' = Plus(bal, "available", -n)
        BY <2>1, <3>2 DEF PayoutFromVault
      <4> QED BY <2>1, <4>1 DEF Plus
    <3> QED BY <1>2, <3>1, <3>2
  <2> QED BY <2>1, <2>2 DEF OneBucket, Downward, Unadvanced, Advanced, HasRead
<1> QED BY <1>1, <1>2 DEF OtherStep

LEMMA BucketAlways == Spec => []OneBucket
<1>1. Init => OneBucket
  BY DEF Init, OneBucket, Downward, Unadvanced, Advanced, HasRead, Unborn, Free, Idle,
     Underway, Nothing, Accounts
<1>2. IInv /\ IInv' /\ OneBucket /\ [Next]_vars => OneBucket'
  <2> SUFFICES ASSUME IInv, IInv', OneBucket, [Next]_vars PROVE OneBucket'
    OBVIOUS
  <2>1. CASE Next
    BY <2>1, BucketSaga, BucketReverse, BucketOther DEF Next, OtherStep, IInv
  <2>2. CASE UNCHANGED vars
    BY <2>2 DEF vars, money, runs, undo, lock, OneBucket, Downward, Unadvanced, Advanced, HasRead
  <2> QED BY <2>1, <2>2
<1> QED BY <1>1, <1>2, Inductive, PTL DEF Spec

-----------------------------------------------------------------------------
(* What the company recouped, and what the reserve holds. *)

LEMMA StandSum ==
  ASSUME TypeOK, TypeOK', NEW a \in Purses, NEW r \in Runs,
         \A q \in Runs \ {r} : Stays(q), Summable(Runs, Standing(a))
  PROVE  /\ Summable(Runs, Standing(a)')
         /\ SumOf(Runs, Standing(a)')
              = SumOf(Runs, Standing(a)) - Stands(r, a) + Stands(r, a)'
<1> DEFINE f == Standing(a)
           g == Standing(a)'
<1>1. (TypeOK => StandsNat)'
  BY StandType, PTL
<1>2. \A q \in Runs : Stands(q, a) \in Int /\ Stands(q, a)' \in Int
  BY <1>1, StandType DEF StandsNat
<1>3. /\ f \in [Runs -> Int] /\ g \in [Runs -> Int]
      /\ f[r] = Stands(r, a) /\ g[r] = Stands(r, a)'
  BY <1>2 DEF Standing
<1>4. \A q \in Runs \ {r} : g[q] = f[q]
  BY DEF Standing, Stays
<1>5. Summable(Runs, f)
  OBVIOUS
<1> HIDE DEF f, g
<1>6. Summable(Runs, g) /\ SumOf(Runs, g) = SumOf(Runs, f) - f[r] + g[r]
  BY <1>3, <1>4, <1>5, SumChange
<1> QED BY <1>3, <1>6 DEF f, g

LEMMA StandSame ==
  ASSUME NEW a \in Purses, \A q \in Runs : Stays(q)
  PROVE  Standing(a)' = Standing(a)
BY DEF Standing, Stays

LEMMA StandBound ==
  ASSUME TypeOK, NEW a \in Purses, Summable(Runs, Standing(a))
  PROVE  /\ SumOf(Runs, Standing(a)) \in Nat
         /\ \A r \in Runs : /\ Stands(r, a) \in Nat
                            /\ Stands(r, a) =< SumOf(Runs, Standing(a))
<1> DEFINE f == Standing(a)
<1>1. \A r \in Runs : Stands(r, a) \in Nat /\ f[r] = Stands(r, a)
  BY StandType DEF StandsNat, Standing
<1>2. f \in [Runs -> Int] /\ \A r \in Runs : f[r] >= 0
  BY <1>1 DEF Standing
<1>3. Summable(Runs, f)
  OBVIOUS
<1> HIDE DEF f
<1>4. SumOf(Runs, f) \in Nat /\ \A r \in Runs : f[r] =< SumOf(Runs, f)
  BY <1>2, <1>3, SumBounds
<1> QED BY <1>1, <1>4 DEF f

(* What the company's buckets cover, no compensation is refused. *)
LEMMA CoversSaga ==
  ASSUME TypeOK, Held, Whole, TypeOK', Held', NEW r \in Runs, Saga(r), broken' = {},
         Covers("platform"), Covers("house"), NEW a \in {"platform", "house"}
  PROVE  Covers(a)'
<1>1. /\ \A b \in {"platform", "house"} : b \in Purses /\ b \in Accounts /\ Covers(b)
      /\ Vault(a) = {"platform", "house"}
  BY DEF Purses, Accounts, Vault
<1>2. \A q \in Runs \ {r} : Stays(q)
  BY SagaStanding
<1>3. \A b \in {"platform", "house"} :
        Summable(Runs, Standing(b)) /\ bal[b] = SumOf(Runs, Standing(b)) /\ owed[b] = 0
  BY <1>1 DEF Covers
<1>4. /\ Summable(Runs, Standing(a)')
      /\ SumOf(Runs, Standing(a)')
           = SumOf(Runs, Standing(a)) - Stands(r, a) + Stands(r, a)'
  BY <1>1, <1>2, <1>3, StandSum
<1>5. \A b \in {"platform", "house"} :
        /\ SumOf(Runs, Standing(b)) \in Nat /\ Stands(r, b) \in Nat
        /\ Stands(r, b) =< SumOf(Runs, Standing(b))
  BY <1>1, <1>3, StandBound
<1>6. /\ bal[a]' \in Int /\ Stands(r, a)' \in Nat
  BY <1>1, NumbersNext DEF Numbers
<1>7. owed[a]' = 0
  <2>1. CASE DebitBack(r)
    <3> DEFINE step == saga[r].step
               b == Account(saga[r].frozen, step)
               n == Amount(saga[r].plan, step)
    <3>1. /\ step \in LegNames /\ owed \in [Accounts -> Nat]
          /\ IF Backs(b, n) THEN owed' = owed ELSE owed' = Plus(owed, b, n)
      BY <2>1 DEF DebitBack, TypeOK
    <3>2. b \in Accounts /\ n \in Nat /\ Part(r, step, a) = IF b = a THEN n ELSE 0
      BY <1>1, <3>1, LegType, PartIs
    <3>3. Stands(r, a)' = Stands(r, a) - Part(r, step, a)
      BY <1>1, <2>1, SagaStanding DEF Shrinks
    <3> HIDE DEF b, n, step
    <3>4. CASE b = a
      <4>1. n =< Stands(r, a)
        BY <1>5, <1>6, <3>2, <3>3, <3>4
      <4>2. bal[a] >= n /\ \A c \in {"platform", "house"} : bal[c] >= 0
        BY <1>3, <1>5, <3>2, <4>1
      <4>3. Backs(b, n)
        BY <1>1, <3>4, <4>2 DEF Backs
      <4> QED BY <1>3, <3>1, <4>3
    <3>5. CASE b # a
      BY <1>1, <1>3, <3>1, <3>2, <3>5 DEF Plus
    <3> QED BY <3>4, <3>5
  <2>2. CASE ~DebitBack(r)
    BY <1>3, <2>2 DEF Saga, Begin, ApplyWithholding, IsIncomingFrozen, ReadAdvance, Sweep,
       CreditVault, PostIngest, IngestThrows, RereadAdvance, SweepBack, UnwindEscrowRow
  <2> QED BY <2>1, <2>2
<1>8. bal[a]' - owed[a]' = bal[a] - owed[a] + Stands(r, a)' - Stands(r, a)
  BY <1>1, SagaMoney DEF ClearedMoves, Cleared
<1>9. bal[a]' = SumOf(Runs, Standing(a)')
  BY <1>3, <1>4, <1>5, <1>6, <1>7, <1>8
<1> QED BY <1>4, <1>7, <1>9 DEF Covers

LEMMA CoversCall ==
  ASSUME TypeOK, Held, Whole, TypeOK', Held', NEW v \in Reversals, Reverse(v), broken' = {},
         NEW a \in Accounts, Covers(a)
  PROVE  Covers(a)'
<1>1. a \in Purses
  BY DEF Purses
<1>2. CASE call[v].run \notin Runs
  BY <1>1, <1>2, ClaimMoney, StandSame DEF Covers
<1>3. CASE call[v].run \in Runs
  <2>1. PICK r \in Runs : call[v].run = r
    BY <1>3
  <2>2. \A q \in Runs \ {r} : Stays(q)
    BY <2>1, CallStanding
  <2>3. Summable(Runs, Standing(a)) /\ bal[a] = SumOf(Runs, Standing(a)) /\ owed[a] = 0
    BY DEF Covers
  <2>4. /\ Summable(Runs, Standing(a)')
        /\ SumOf(Runs, Standing(a)')
             = SumOf(Runs, Standing(a)) - Stands(r, a) + Stands(r, a)'
    BY <1>1, <2>2, <2>3, StandSum
  <2>5. SumOf(Runs, Standing(a)) \in Nat /\ Stands(r, a) \in Nat
    BY <1>1, <2>3, StandBound
  <2>6. bal[a]' \in Int /\ Stands(r, a)' \in Nat
    BY NumbersNext DEF Numbers
  <2>7. owed' = owed
    BY DEF Reverse, Claim, Clawback, Recredit, ReadRollback, Rollback,
       ReapplyRollback, PostReversal, ReversalThrows, RevertClaim, UnwindEscrowForRun,
       InsertSplitReversal, runs
  <2>8. bal[a]' - owed[a]' = bal[a] - owed[a] + Stands(r, a)' - Stands(r, a)
    BY <2>1, CallMoney DEF ClearedMoves, Cleared
  <2>9. bal[a]' = SumOf(Runs, Standing(a)')
    BY <2>3, <2>4, <2>5, <2>6, <2>7, <2>8
  <2> QED BY <2>3, <2>4, <2>7, <2>9 DEF Covers
<1> QED BY <1>2, <1>3

(* The advance moves with what stands of it, or an overlap is noted. *)
AdvanceMoves(r) ==
  LET old == Stands(r, "advance")
      new == Stands(r, "advance")'
  IN
  /\ flaws \cap {"overlap", "reapplied"} \subseteq flaws'
  /\ \/ "overlap" \in flaws'
     \/ advance' = advance /\ new = old
     \/ /\ advance \in Nat
        /\ \E n \in Nat :
             /\ new = old + n /\ advance' = advance + n
             /\ advance =< Target => advance' =< Target \/ "reapplied" \in flaws'
     \/ /\ advance \in Nat
        /\ \E n \in Nat : new = old - n /\ advance' = Most(0, advance - n)

LEMMA RecoupedType ==
  ASSUME NEW plan \in Nat
  PROVE  /\ Amount(plan, "recouped") \in Nat
         /\ plan =< Target => plan + Amount(plan, "recouped") =< Target
<1>1. plan # NoAdvance
  BY SplitAssumption
<1>2. Amount(plan, "recouped") = Recouped(plan)
  BY <1>1 DEF Amount
<1> QED BY <1>2, SplitAssumption DEF Recouped, Least, Most

LEMMA SagaAdvance ==
  ASSUME TypeOK, Held, Whole, Planned, TypeOK', Held', NEW r \in Runs, Saga(r), broken' = {}
  PROVE  AdvanceMoves(r)
<1> DEFINE old == Stands(r, "advance")
           new == Stands(r, "advance")'
           n == Amount(saga[r].plan, "recouped")
<1>1. "advance" \in Purses /\ old \in Nat /\ new \in Nat
  <2>1. (TypeOK => StandsNat)'
    BY StandType, PTL
  <2> QED BY <2>1, StandType DEF StandsNat, Purses
<1>2. saga[r].plan \in Plans /\ advance \in Plans /\ saga[r].seen \in Plans
  BY DEF TypeOK
<1>3. n \in Nat /\ Part(r, "sweep", "advance") = n
  BY <1>2, AmountType, PartIs DEF LegNames
<1>4. CASE Sweep(r)
  <2>1. /\ saga[r].seen \in Nat
        /\ advance' = saga[r].seen + n
        /\ flaws' = IF advance = saga[r].seen THEN flaws ELSE flaws \cup {"overlap"}
        /\ saga[r].seen = saga[r].plan
    BY <1>2, <1>4 DEF Sweep, Upsert, Plans, Planned, Do
  <2>2. new = old + n
    BY <1>1, <1>3, <1>4, SagaStanding DEF Grows
  <2>3. saga[r].plan =< Target => saga[r].plan + n =< Target
    BY <2>1, RecoupedType
  <2> HIDE DEF old, new, n
  <2> QED BY <1>3, <2>1, <2>2, <2>3 DEF AdvanceMoves, old, new
<1>5. CASE SweepBack(r)
  <2>1. /\ saga[r].seen \in Nat
        /\ advance' = Most(0, saga[r].seen - n)
        /\ flaws' = IF advance = saga[r].seen THEN flaws ELSE flaws \cup {"overlap"}
    BY <1>2, <1>5 DEF SweepBack, Upsert, Plans
  <2>2. new = old - n
    BY <1>1, <1>3, <1>5, SagaStanding DEF Shrinks
  <2> HIDE DEF old, new, n
  <2> QED BY <1>3, <2>1, <2>2 DEF AdvanceMoves, old, new
<1>6. CASE ~Sweep(r) /\ ~SweepBack(r)
  <2>1. advance' = advance /\ flaws' = flaws
    BY <1>6 DEF Saga, Begin, ApplyWithholding, IsIncomingFrozen, ReadAdvance, CreditVault,
       PostIngest, IngestThrows, DebitBack, RereadAdvance, UnwindEscrowRow
  <2>2. new = old
    <3>1. saga[r].step \in LegNames => Part(r, saga[r].step, "advance") = 0
      BY PartIs
    <3>2. CASE CreditVault(r)
      <4>1. new = old + Part(r, saga[r].step, "advance") /\ saga[r].step \in LegNames
        BY <1>1, <3>2, SagaStanding DEF Grows, CreditVault
      <4> HIDE DEF old, new
      <4> QED BY <1>1, <3>1, <4>1
    <3>3. CASE DebitBack(r)
      <4>1. new = old - Part(r, saga[r].step, "advance") /\ saga[r].step \in LegNames
        BY <1>1, <3>3, SagaStanding DEF Shrinks, DebitBack
      <4> HIDE DEF old, new
      <4> QED BY <1>1, <3>1, <4>1
    <3>4. CASE ~CreditVault(r) /\ ~DebitBack(r)
      BY <1>1, <1>6, <3>4, SagaStanding DEF Stays
    <3> QED BY <3>2, <3>3, <3>4
  <2> QED BY <2>1, <2>2 DEF AdvanceMoves
<1> QED BY <1>4, <1>5, <1>6

LEMMA CallAdvance ==
  ASSUME TypeOK, Held, Whole, TypeOK', Held', NEW v \in Reversals, Reverse(v),
         NEW r \in Runs, call[v].run = r, broken' = {}
  PROVE  AdvanceMoves(r)
<1> DEFINE old == Stands(r, "advance")
           new == Stands(r, "advance")'
           n == Amount(saga[r].plan, "recouped")
           seen == call[v].seen
<1>1. "advance" \in Purses /\ old \in Nat /\ new \in Nat
  <2>1. (TypeOK => StandsNat)'
    BY StandType, PTL
  <2> QED BY <2>1, StandType DEF StandsNat, Purses
<1>2. saga[r].plan \in Plans /\ advance \in Plans /\ seen \in Plans
  BY DEF TypeOK
<1>3. n \in Nat /\ Part(r, "sweep", "advance") = n
  BY <1>2, AmountType, PartIs DEF LegNames
<1>4. CASE Rollback(v)
  <2>1. /\ seen \in Nat
        /\ advance' = Most(0, seen - n)
        /\ flaws' = IF advance = seen THEN flaws ELSE flaws \cup {"overlap"}
    BY <1>2, <1>4 DEF Rollback, Upsert, Plans, Plan
  <2>2. new = old - n
    BY <1>1, <1>3, <1>4, CallStanding DEF Shrinks
  <2> HIDE DEF old, new, n, seen
  <2> QED BY <1>3, <2>1, <2>2 DEF AdvanceMoves, old, new
<1>5. CASE ReapplyRollback(v)
  <2>1. /\ seen \in Nat
        /\ advance' = seen + n
        /\ flaws' = flaws \cup {"reapplied"} \cup (IF advance = seen THEN {} ELSE {"overlap"})
    BY <1>2, <1>5 DEF ReapplyRollback, Plans, Plan
  <2>2. new = old + n
    BY <1>1, <1>3, <1>5, CallStanding DEF Grows
  <2> HIDE DEF old, new, n, seen
  <2> QED BY <1>3, <2>1, <2>2 DEF AdvanceMoves, old, new
<1>6. CASE ~Rollback(v) /\ ~ReapplyRollback(v)
  <2>1. advance' = advance /\ flaws \subseteq flaws'
    BY <1>6 DEF Reverse, Claim, Clawback, Recredit, ReadRollback, PostReversal,
       ReversalThrows, RevertClaim, UnwindEscrowForRun, InsertSplitReversal
  <2>2. new = old
    <3>1. call[v].step \in LegNames => Part(r, call[v].step, "advance") = 0
      BY PartIs
    <3>2. CASE Recredit(v)
      <4>1. new = old + Part(r, call[v].step, "advance") /\ call[v].step \in LegNames
        BY <1>1, <3>2, CallStanding DEF Grows, Recredit, At
      <4> HIDE DEF old, new
      <4> QED BY <1>1, <3>1, <4>1
    <3>3. CASE Claws(v)
      <4>1. new = old - Part(r, call[v].step, "advance") /\ call[v].step \in LegNames
        BY <1>1, <3>3, CallStanding DEF Shrinks, Claws, Clawback, At
      <4> HIDE DEF old, new
      <4> QED BY <1>1, <3>1, <4>1
    <3>4. CASE ~Recredit(v) /\ ~Claws(v)
      BY <1>1, <1>6, <3>4, CallStanding DEF Stays, Moves
    <3> QED BY <3>2, <3>3, <3>4
  <2> QED BY <2>1, <2>2 DEF AdvanceMoves
<1> QED BY <1>4, <1>5, <1>6

LEMMA AdvanceStep ==
  ASSUME TypeOK, TypeOK', NEW r \in Runs, AdvanceMoves(r),
         \A q \in Runs \ {r} : Stays(q), AdvanceStands
  PROVE  AdvanceStands'
<1> DEFINE old == Stands(r, "advance")
           new == Stands(r, "advance")'
           sum == SumOf(Runs, Standing("advance"))
           next == SumOf(Runs, Standing("advance")')
<1>1. "advance" \in Purses
  BY DEF Purses
<1>2. Summable(Runs, Standing("advance")') /\ next = sum - old + new
  BY <1>1, StandSum DEF AdvanceStands
<1>3. sum \in Nat /\ old \in Nat /\ old =< sum
  BY <1>1, StandBound DEF AdvanceStands
<1>4. new \in Nat
  <2>1. (TypeOK => StandsNat)'
    BY StandType, PTL
  <2> QED BY <1>1, <2>1 DEF StandsNat
<1>5. SUFFICES ASSUME advance' # NoAdvance, "overlap" \notin flaws'
               PROVE  /\ advance' = next
                      /\ "reapplied" \notin flaws' => advance' =< Target
  BY <1>2 DEF AdvanceStands
<1>6. /\ "overlap" \notin flaws
      /\ "reapplied" \notin flaws' => "reapplied" \notin flaws
      /\ advance # NoAdvance => advance = sum /\ ("reapplied" \notin flaws => advance =< Target)
  BY <1>5 DEF AdvanceMoves, AdvanceStands
<1>7. \A n \in Nat : n # NoAdvance
  BY SplitAssumption
<1>8. \/ advance' = advance /\ new = old
      \/ /\ advance \in Nat
         /\ \E n \in Nat :
              /\ new = old + n /\ advance' = advance + n
              /\ advance =< Target => advance' =< Target \/ "reapplied" \in flaws'
      \/ /\ advance \in Nat
         /\ \E n \in Nat : new = old - n /\ advance' = Most(0, advance - n)
  BY <1>5 DEF AdvanceMoves
<1> HIDE DEF old, new, sum, next
<1>9. CASE advance' = advance /\ new = old
  BY <1>2, <1>3, <1>4, <1>5, <1>6, <1>9
<1>10. ASSUME advance \in Nat, NEW n \in Nat, new = old + n, advance' = advance + n,
              advance =< Target => advance' =< Target \/ "reapplied" \in flaws'
       PROVE  advance' = next /\ ("reapplied" \notin flaws' => advance' =< Target)
  BY <1>2, <1>3, <1>4, <1>6, <1>7, <1>10
<1>11. ASSUME advance \in Nat, NEW n \in Nat, new = old - n, advance' = Most(0, advance - n)
       PROVE  advance' = next /\ ("reapplied" \notin flaws' => advance' =< Target)
  BY <1>2, <1>3, <1>4, <1>6, <1>7, <1>11, SplitAssumption DEF Most
<1> QED BY <1>8, <1>9, <1>10, <1>11

LEMMA PlannedStep ==
  ASSUME TypeOK, Whole, Planned, Next
  PROVE  Planned'
<1>1. saga \in [Runs -> SagaRec]
  BY DEF TypeOK, SagaRec
<1>2. ASSUME NEW r \in Runs, Saga(r) PROVE Planned'
  <2>1. \A q \in Runs \ {r} : saga'[q] = saga[q]
    BY <1>1, <1>2 DEF Saga, Begin, ApplyWithholding, IsIncomingFrozen, ReadAdvance, Sweep,
       CreditVault, PostIngest, IngestThrows, DebitBack, RereadAdvance, SweepBack,
       UnwindEscrowRow, Onward
  <2>2. saga'[r].mode \in {"none", "begin", "book"} =>
          \/ saga'[r].plan = advance /\ saga'[r].seen = advance
          \/ /\ saga[r].mode \in {"none", "begin", "book"}
             /\ saga'[r].plan = saga[r].plan /\ saga'[r].seen = saga[r].seen
    <3>1. CASE Begin(r) \/ ApplyWithholding(r)
      <4>1. saga[r].mode \in {"none", "begin"}
        BY <3>1 DEF Begin, ApplyWithholding, Whole, WholeRun
      <4> QED BY <1>1, <3>1, <4>1 DEF Begin, ApplyWithholding, SagaRec
    <3>2. CASE IsIncomingFrozen(r) \/ ReadAdvance(r) \/ Sweep(r) \/ CreditVault(r)
      BY <1>1, <3>2 DEF IsIncomingFrozen, ReadAdvance, Sweep, CreditVault, Do, Onward, SagaRec
    <3>3. CASE PostIngest(r) \/ IngestThrows(r) \/ UnwindEscrowRow(r)
      BY <1>1, <3>3 DEF PostIngest, IngestThrows, UnwindEscrowRow, SagaRec
    <3>4. CASE DebitBack(r) \/ RereadAdvance(r) \/ SweepBack(r)
      BY <1>1, <3>4 DEF DebitBack, RereadAdvance, SweepBack, Do, Onward, SagaRec
    <3> QED BY <1>2, <3>1, <3>2, <3>3, <3>4 DEF Saga
  <2> QED BY <2>1, <2>2 DEF Planned
<1>3. CASE ReverseStep
  <2>1. saga' = saga
    BY <1>3 DEF ReverseStep, Reverse, Claim, Clawback, Recredit, ReadRollback, Rollback,
       ReapplyRollback, PostReversal, ReversalThrows, RevertClaim, UnwindEscrowForRun,
       InsertSplitReversal, runs
  <2> QED BY <2>1 DEF Planned
<1>4. CASE OtherStep
  <2>1. saga' = saga
    BY <1>4 DEF OtherStep, Lock, ReadVault, DecideLock, DecideUnlock, MoveFrozen, PostSweep,
       SweepThrows, UpsertDispute, ReleaseVaultPending, PayoutFromVault, runs
  <2> QED BY <2>1 DEF Planned
<1> QED BY <1>2, <1>3, <1>4 DEF Next, ReverseStep, OtherStep

(* The reserve, through the steps of runs and of dispute calls. *)
LEMMA FrozenType ==
  ASSUME TypeOK, Reserved
  PROVE  /\ Remembered \in Nat /\ Frozen \in Nat
         /\ \A l \in Lockers : Total(locker[l]) \in Int
<1>1. /\ \A l \in Lockers : Total(locker[l]) \in Int
      /\ Remembered \in Int
  BY DEF Total, Remembered, TypeOK
<1>2. Remembered \in Nat
  BY <1>1 DEF Reserved
<1>3. CASE \E l \in Lockers : Moved(l)
  <2>1. PICK l \in Lockers : Moved(l)
    BY <1>3
  <2>2. /\ Frozen = IF locker[l].locked THEN Total(locker[l]) ELSE 0
        /\ locker[l].step \in Underway
    BY <2>1 DEF Reserved, Moved, Underway
  <2>3. locker[l].locked => Total(locker[l]) >= 0
    BY <2>2 DEF Reserved
  <2>4. Frozen \in Nat
    BY <1>1, <2>2, <2>3
  <2> QED BY <1>1, <1>2, <2>4
<1>4. CASE \A l \in Lockers : ~Moved(l)
  BY <1>1, <1>2, <1>4 DEF Reserved
<1> QED BY <1>1, <1>2, <1>3, <1>4

LEMMA ReservedRuns ==
  ASSUME Reserved, UNCHANGED lock, Summable(Runs, Standing("reserve")'), Frozen' = Frozen
  PROVE  Reserved'
<1>1. locker' = locker /\ dispute' = dispute
  BY DEF lock
<1>2. Remembered' = Remembered /\ \A l \in Lockers :
        (Moved(l)' <=> Moved(l)) /\ Total(locker[l])' = Total(locker[l])
  BY <1>1 DEF Moved, Total, Remembered
<1> QED BY <1>1, <1>2 DEF Reserved

LEMMA FrozenRun ==
  ASSUME TypeOK, TypeOK', Reserved, NEW r \in Runs, ClearedMoves(r),
         \A q \in Runs \ {r} : Stays(q)
  PROVE  Summable(Runs, Standing("reserve")') /\ Frozen' = Frozen
<1> DEFINE old == SumOf(Runs, Standing("reserve"))
           new == SumOf(Runs, Standing("reserve")')
<1>1. "reserve" \in Accounts /\ "reserve" \in Purses
  BY DEF Accounts, Purses
<1>2. /\ Summable(Runs, Standing("reserve")) /\ Summable(Runs, Standing("reserve")')
      /\ new = old - Stands(r, "reserve") + Stands(r, "reserve")'
  BY <1>1, StandSum DEF Reserved
<1>3. /\ Cleared("reserve")' = Cleared("reserve") + Stands(r, "reserve")' - Stands(r, "reserve")
      /\ Cleared("reserve") \in Int /\ Cleared("reserve")' \in Int
      /\ Stands(r, "reserve") \in Int /\ Stands(r, "reserve")' \in Int
  BY <1>1, NumbersNext DEF ClearedMoves, Numbers
<1>4. old \in Int /\ new \in Int
  BY <1>2, SumType
<1> HIDE DEF old, new
<1>5. Cleared("reserve")' - new = Cleared("reserve") - old
  BY <1>2, <1>3, <1>4
<1> QED BY <1>2, <1>5 DEF Frozen, old, new

LEMMA ReservedLock ==
  ASSUME TypeOK, TypeOK', Reserved, NEW l \in Lockers, Lock(l), flaws' \cap {"relock", "cut"} = {}
  PROVE  Reserved'
<1> DEFINE sum == SumOf(Runs, Standing("reserve"))
<1>1. /\ locker \in [Lockers -> LockRec] /\ bal \in [Accounts -> Int]
      /\ dispute \in [locked : BOOLEAN, available : Int, pending : Int]
      /\ "reserve" \in Accounts /\ "reserve" \in Purses
  BY DEF TypeOK, LockRec, Accounts, Purses
<1>2. /\ \A k \in Lockers \ {l} : locker'[k] = locker[k]
      /\ owed' = owed /\ Standing("reserve")' = Standing("reserve")
  <2>1. OtherStep
    BY DEF OtherStep
  <2>2. Standing("reserve")' = Standing("reserve")
    BY <1>1, <2>1, OtherStanding, StandSame
  <2> QED BY <1>1, <2>1, <2>2, OtherStanding DEF Lock, ReadVault, DecideLock, DecideUnlock,
          MoveFrozen, PostSweep, SweepThrows, UpsertDispute
<1>3. \A k \in Lockers \ {l} :
        (Moved(k)' <=> Moved(k)) /\ Total(locker[k])' = Total(locker[k])
  BY <1>2 DEF Moved, Total
<1>4. /\ Remembered \in Nat /\ Frozen \in Nat /\ Total(locker[l]) \in Int
      /\ sum \in Int /\ bal["reserve"] \in Int /\ owed["reserve"] \in Int
      /\ Frozen = bal["reserve"] - owed["reserve"] - sum
      /\ Frozen' = bal'["reserve"] - owed["reserve"] - sum
  <2>1. sum \in Int
    BY SumType DEF Reserved
  <2>2. owed["reserve"] \in Int
    BY <1>1 DEF TypeOK
  <2> QED BY <1>1, <1>2, <2>1, <2>2, FrozenType DEF Frozen, Cleared
<1> HIDE DEF sum
<1>5. CASE \E locked \in BOOLEAN : ReadVault(l, locked)
  <2>1. /\ bal' = bal /\ dispute' = dispute
        /\ locker[l].step = "idle" /\ locker'[l].step = "read"
    BY <1>1, <1>5 DEF ReadVault, Free, money
  <2>2. ~Moved(l) /\ ~Moved(l)' /\ Remembered' = Remembered /\ Frozen' = Frozen
    BY <1>4, <2>1 DEF Moved, Remembered, Total
  <2> QED BY <1>2, <1>3, <1>4, <2>1, <2>2 DEF Reserved, Underway
<1>6. CASE DecideLock(l)
  <2>1. /\ bal' = bal /\ dispute' = dispute /\ locker[l].step = "read"
        /\ \/ locker'[l].step = "idle"
           \/ /\ locker'[l].step = "move" /\ locker'[l].locked
              /\ ~dispute.locked /\ Total(locker[l])' >= 0
              /\ \A k \in Lockers \ {l} : locker[k].step \notin Underway
    BY <1>1, <1>6 DEF DecideLock, Begun, Free, Total, LockRec, Least, money
  <2>2. ~Moved(l) /\ ~Moved(l)' /\ Remembered' = Remembered /\ Frozen' = Frozen
    BY <1>4, <2>1 DEF Moved, Remembered, Total
  <2> QED BY <1>2, <1>3, <1>4, <2>1, <2>2 DEF Reserved, Underway
<1>7. CASE DecideUnlock(l)
  <2> DEFINE frozen == dispute.available + dispute.pending
  <2>0. CASE locker'[l] = Free
    <3>1. /\ bal' = bal /\ dispute' = dispute /\ locker[l].step = "read"
          /\ locker'[l].step = "idle"
      BY <1>7, <2>0 DEF DecideUnlock, Free, money
    <3>2. ~Moved(l) /\ ~Moved(l)' /\ Remembered' = Remembered /\ Frozen' = Frozen
      BY <1>4, <3>1 DEF Moved, Remembered, Total
    <3> QED BY <1>2, <1>3, <1>4, <3>1, <3>2 DEF Reserved, Underway
  <2> SUFFICES ASSUME locker'[l] # Free PROVE Reserved'
    BY <2>0
  <2>1. /\ bal' = bal /\ dispute' = dispute /\ locker[l].step = "read"
        /\ ~locker'[l].locked
        /\ \/ locker'[l].step = "move" /\ Total(locker[l])' = Remembered
           \/ /\ locker'[l].step = "upsert" /\ Total(locker[l])' = 0
              /\ ~(dispute.locked /\ frozen > 0)
        /\ \A k \in Lockers \ {l} : locker[k].step \notin Underway
    BY <1>1, <1>7 DEF DecideUnlock, Begun, Total, Remembered, money
  <2>2. ~Moved(l) /\ Remembered' = Remembered /\ Frozen' = Frozen
    BY <1>4, <2>1 DEF Moved, Remembered, Total
  <2>3. \A k \in Lockers \ {l} : ~Moved(k) /\ ~Moved(k)' /\ locker'[k].step \notin Underway
    BY <1>2, <1>3, <2>1 DEF Moved, Underway
  <2>4. Frozen = Remembered
    BY <2>2, <2>3 DEF Reserved
  <2>5. locker'[l].step = "upsert" => Remembered = 0
    BY <1>4, <2>1 DEF Remembered, Total
  <2>6. Moved(l)' <=> locker'[l].step = "upsert"
    BY <2>1 DEF Moved
  <2> QED BY <1>2, <1>4, <2>1, <2>2, <2>3, <2>4, <2>5, <2>6 DEF Reserved
<1>8. CASE MoveFrozen(l)
  <2>1. /\ dispute' = dispute /\ locker[l].step = "move" /\ locker[l].step \in Underway
    BY <1>8 DEF MoveFrozen, Underway
  <2>2. /\ \A k \in Lockers \ {l} : ~Moved(k) /\ ~Moved(k)'
                                    /\ locker'[k].step \notin Underway
        /\ ~Moved(l) /\ Remembered' = Remembered
    BY <1>2, <1>3, <2>1 DEF Reserved, Moved, Underway, Remembered, Total
  <2>3. Frozen = Remembered
    BY <2>2 DEF Reserved
  <2>4. CASE Covered(l)
    <3>1. /\ bal' = Swept(bal, l)
          /\ locker'[l].locked = locker[l].locked
          /\ locker'[l].available = locker[l].available
          /\ locker'[l].pending = locker[l].pending
          /\ Moved(l)' /\ locker'[l].step \in Underway
      BY <1>1, <1>8, <2>4 DEF MoveFrozen, LockRec, Moved, Underway
    <3>2. /\ locker[l].available \in Int /\ locker[l].pending \in Int
          /\ Total(locker[l])' = Total(locker[l])
      BY <1>1, <3>1 DEF LockRec, Total
    <3>3. bal'["reserve"] = IF locker[l].locked THEN bal["reserve"] + Total(locker[l])
                            ELSE bal["reserve"] - Total(locker[l])
      BY <1>1, <3>1, <3>2 DEF Swept, Total, Accounts
    <3>4. IF locker[l].locked THEN ~dispute.locked /\ Total(locker[l]) >= 0
          ELSE Total(locker[l]) = Remembered
      BY <2>1 DEF Reserved
    <3>5. Frozen' = IF locker[l].locked THEN Total(locker[l]) ELSE 0
      BY <1>4, <2>3, <3>3, <3>4 DEF Remembered
    <3> QED BY <1>2, <1>4, <2>1, <2>2, <3>1, <3>2, <3>4, <3>5 DEF Reserved
  <2>5. CASE ~Covered(l)
    <3>1. bal' = bal /\ locker'[l].step = "idle" /\ ~Moved(l)'
      BY <1>1, <1>8, <2>5 DEF MoveFrozen, Free, Moved
    <3> QED BY <1>2, <1>4, <2>1, <2>2, <2>3, <3>1 DEF Reserved, Underway
  <2> QED BY <2>4, <2>5
<1>9. CASE PostSweep(l)
  <2>1. /\ bal' = bal /\ dispute' = dispute /\ Moved(l) /\ Moved(l)'
        /\ locker[l].step \in Underway /\ locker'[l].step \in Underway
        /\ locker'[l].locked = locker[l].locked
        /\ Total(locker[l])' = Total(locker[l])
    BY <1>1, <1>9 DEF PostSweep, Moved, Underway, Total, LockRec
  <2>2. Remembered' = Remembered /\ Frozen' = Frozen
    BY <1>4, <2>1 DEF Remembered, Total
  <2> QED BY <1>2, <1>3, <1>4, <2>1, <2>2 DEF Reserved
<1>10. CASE UpsertDispute(l)
  <2>1. /\ bal' = bal /\ Moved(l) /\ ~Moved(l)' /\ locker'[l].step = "idle"
        /\ locker[l].step \in Underway
        /\ Remembered' = IF locker[l].locked THEN Total(locker[l]) ELSE 0
    <3>1. /\ bal' = bal /\ locker[l].step = "upsert"
          /\ locker' = [locker EXCEPT ![l] = Free]
          /\ dispute' = IF locker[l].locked
                        THEN [locked |-> TRUE, available |-> locker[l].available,
                              pending |-> locker[l].pending]
                        ELSE [locked |-> FALSE, available |-> 0, pending |-> 0]
      BY <1>10 DEF UpsertDispute, money
    <3>2. locker'[l] = Free
      BY <1>1, <3>1
    <3>3. Remembered' = IF locker[l].locked THEN Total(locker[l]) ELSE 0
      BY <3>1 DEF Remembered, Total
    <3> QED BY <3>1, <3>2, <3>3 DEF Moved, Underway, Free
  <2>2. \A k \in Lockers \ {l} : ~Moved(k)' /\ locker'[k].step \notin Underway
    BY <1>2, <2>1 DEF Reserved, Moved, Underway
  <2>3. Frozen' = Remembered' /\ Remembered' >= 0
    BY <1>4, <2>1 DEF Reserved
  <2> QED BY <1>2, <1>4, <2>1, <2>2, <2>3 DEF Reserved, Underway
<1>11. CASE SweepThrows(l)
  BY <1>11 DEF SweepThrows
<1> QED BY <1>5, <1>6, <1>7, <1>8, <1>9, <1>10, <1>11 DEF Lock

-----------------------------------------------------------------------------
(* The theorems of the money. *)

LEMMA Onwards ==
  ASSUME TypeOK, Next
  PROVE  broken \subseteq broken' /\ flaws \subseteq flaws'
<1>1. CASE SagaStep
  BY <1>1 DEF SagaStep, Saga, Begin, ApplyWithholding, IsIncomingFrozen, ReadAdvance, Sweep,
     CreditVault, PostIngest, IngestThrows, DebitBack, RereadAdvance, SweepBack,
     UnwindEscrowRow, Upsert
<1>2. CASE ReverseStep
  BY <1>2 DEF ReverseStep, Reverse, Claim, Clawback, Recredit, ReadRollback, Rollback,
     ReapplyRollback, PostReversal, ReversalThrows, RevertClaim, UnwindEscrowForRun,
     InsertSplitReversal, Upsert
<1>3. CASE OtherStep
  BY <1>3 DEF OtherStep, Lock, ReadVault, DecideLock, DecideUnlock, MoveFrozen, PostSweep,
     SweepThrows, UpsertDispute, ReleaseVaultPending, PayoutFromVault, Begun
<1> QED BY <1>1, <1>2, <1>3 DEF Next, SagaStep, ReverseStep, OtherStep

LEMMA SettledSaga ==
  ASSUME IInv, IInv', Settled, NEW r \in Runs, Saga(r), broken' = {}
  PROVE  Settled'
<1> USE DEF IInv
<1>1. Next
  BY DEF Next
<1>2. broken = {} /\ flaws \subseteq flaws'
  BY <1>1, Onwards
<1>3. Planned'
  BY <1>1, <1>2, PlannedStep DEF Settled
<1>4. ClearedMoves(r) /\ \A q \in Runs \ {r} : Stays(q)
  BY SagaMoney, SagaStanding
<1>5. UNCHANGED lock
  BY DEF Saga, Begin, ApplyWithholding, IsIncomingFrozen, ReadAdvance, Sweep,
     CreditVault, PostIngest, IngestThrows, DebitBack, RereadAdvance, SweepBack,
     UnwindEscrowRow
<1>6. Recoupment'
  <2>1. Covers("platform") /\ Covers("house") /\ AdvanceStands
    BY <1>2 DEF Settled, Recoupment
  <2>2. Covers("platform")' /\ Covers("house")'
    BY <2>1, CoversSaga
  <2>3. AdvanceMoves(r)
    BY <1>2, SagaAdvance DEF Settled
  <2>4. AdvanceStands'
    BY <1>4, <2>1, <2>3, AdvanceStep
  <2> QED BY <2>2, <2>4 DEF Recoupment
<1>7. ASSUME flaws' \cap {"relock", "cut"} = {} PROVE Reserved'
  <2>1. Reserved
    BY <1>2, <1>7 DEF Settled
  <2> QED BY <1>4, <1>5, <2>1, FrozenRun, ReservedRuns
<1> QED BY <1>3, <1>6, <1>7 DEF Settled

LEMMA SettledReverse ==
  ASSUME IInv, IInv', Settled, NEW v \in Reversals, Reverse(v), broken' = {}
  PROVE  Settled'
<1> USE DEF IInv
<1>1. Next
  BY DEF Next
<1>2. broken = {} /\ flaws \subseteq flaws'
  BY <1>1, Onwards
<1>3. Planned'
  BY <1>1, <1>2, PlannedStep DEF Settled
<1>4. UNCHANGED lock
  BY DEF Reverse, Claim, Clawback, Recredit, ReadRollback, Rollback,
     ReapplyRollback, PostReversal, ReversalThrows, RevertClaim, UnwindEscrowForRun,
     InsertSplitReversal
<1>5. Covers("platform") /\ Covers("house") /\ AdvanceStands
  BY <1>2 DEF Settled, Recoupment
<1>6. Covers("platform")' /\ Covers("house")'
  BY <1>5, CoversCall DEF Accounts
<1>7. CASE call[v].run \in Runs
  <2>1. PICK r \in Runs : call[v].run = r
    BY <1>7
  <2>2. ClearedMoves(r) /\ \A q \in Runs \ {r} : Stays(q)
    BY <2>1, CallMoney, CallStanding
  <2>3. AdvanceMoves(r)
    BY <2>1, CallAdvance
  <2>4. AdvanceStands'
    BY <1>5, <2>2, <2>3, AdvanceStep
  <2>5. ASSUME flaws' \cap {"relock", "cut"} = {} PROVE Reserved'
    <3>1. Reserved
      BY <1>2, <2>5 DEF Settled
    <3> QED BY <1>4, <2>2, <3>1, FrozenRun, ReservedRuns
  <2> QED BY <1>3, <1>6, <2>4, <2>5 DEF Settled, Recoupment
<1>8. CASE call[v].run \notin Runs
  <2>1. UNCHANGED <<bal, owed, advance, flaws>> /\ \A q \in Runs : Stays(q)
    BY <1>8, ClaimMoney
  <2>2. \A a \in Purses : Standing(a)' = Standing(a)
    BY <2>1, StandSame
  <2>3. AdvanceStands'
    BY <1>5, <2>1, <2>2 DEF AdvanceStands, Purses
  <2>4. Reserved => Reserved'
    <3>1. Standing("reserve")' = Standing("reserve")
      BY <2>2 DEF Purses, Accounts
    <3>2. Frozen' = Frozen
      BY <2>1, <3>1 DEF Frozen, Cleared
    <3> QED BY <1>4, <3>1, <3>2, ReservedRuns DEF Reserved
  <2> QED BY <1>2, <1>3, <1>6, <2>1, <2>3, <2>4 DEF Settled, Recoupment
<1> QED BY <1>7, <1>8

LEMMA SettledOther ==
  ASSUME IInv, IInv', Settled, OtherStep, broken' = {}
  PROVE  Settled'
<1> USE DEF IInv
<1>1. Next
  BY DEF Next, OtherStep
<1>2. broken = {} /\ flaws \subseteq flaws'
  BY <1>1, Onwards
<1>3. Planned'
  BY <1>1, <1>2, PlannedStep DEF Settled
<1>4. /\ UNCHANGED <<owed, advance>>
      /\ \A a \in Purses : Standing(a)' = Standing(a)
  BY OtherStanding, StandSame
<1>5. bal'["platform"] = bal["platform"] /\ bal'["house"] = bal["house"]
  <2>1. bal \in [Accounts -> Int]
    BY DEF TypeOK
  <2>2. ASSUME NEW l \in Lockers, Lock(l)
        PROVE  bal' = bal \/ bal' = Swept(bal, l)
    BY <2>2 DEF Lock, ReadVault, DecideLock, DecideUnlock, MoveFrozen, PostSweep,
       SweepThrows, UpsertDispute, money
  <2>3. CASE ReleaseVaultPending \/ PayoutFromVault
    BY <2>1, <2>3 DEF ReleaseVaultPending, PayoutFromVault, Plus, Accounts
  <2> QED BY <2>1, <2>2, <2>3 DEF OtherStep, Swept, Accounts
<1>6. Recoupment'
  <2>1. "overlap" \in flaws => "overlap" \in flaws'
    BY <1>2
  <2>2. Covers("platform") /\ Covers("house") /\ AdvanceStands
    BY <1>2 DEF Settled, Recoupment
  <2>3. Covers("platform")' /\ Covers("house")' /\ AdvanceStands'
    BY <1>2, <1>4, <1>5, <2>2 DEF Covers, AdvanceStands, Purses, Accounts
  <2> QED BY <2>3 DEF Recoupment
<1>7. ASSUME flaws' \cap {"relock", "cut"} = {} PROVE Reserved'
  <2>1. Reserved
    BY <1>2, <1>7 DEF Settled
  <2>2. CASE \E l \in Lockers : Lock(l)
    BY <1>7, <2>1, <2>2, ReservedLock
  <2>3. CASE ReleaseVaultPending \/ PayoutFromVault
    <3>1. bal'["reserve"] = bal["reserve"]
      BY <2>3 DEF ReleaseVaultPending, PayoutFromVault, Plus, Accounts, TypeOK
    <3>2. UNCHANGED lock
      BY <2>3 DEF ReleaseVaultPending, PayoutFromVault
    <3>3. Standing("reserve")' = Standing("reserve")
      BY <1>4 DEF Purses, Accounts
    <3>4. Frozen' = Frozen
      BY <1>4, <3>1, <3>3 DEF Frozen, Cleared
    <3> QED BY <2>1, <3>2, <3>3, <3>4, ReservedRuns DEF Reserved
  <2> QED BY <2>2, <2>3 DEF OtherStep
<1> QED BY <1>3, <1>6, <1>7 DEF Settled

LEMMA SettlesAlways == Spec => []Settled
<1>1. Init => Settled
  <2> SUFFICES ASSUME Init PROVE Settled
    OBVIOUS
  <2>1. \A r \in Runs, x \in Items : ~In(r, x)
    BY DEF Init, In, Unborn
  <2>2. \A r \in Runs, a \in Purses : Stands(r, a) = 0
    BY <2>1 DEF Stands, Stand, Items, LegNames
  <2>3. \A a \in Accounts : bal[a] = 0 /\ owed[a] = 0 /\ a \in Purses
    BY DEF Init, Nothing, Purses
  <2>4. \A a \in Purses : Summable(Runs, Standing(a)) /\ SumOf(Runs, Standing(a)) = 0
    <3> SUFFICES ASSUME NEW a \in Purses
                 PROVE  Summable(Runs, Standing(a)) /\ SumOf(Runs, Standing(a)) = 0
      OBVIOUS
    <3> DEFINE f == Standing(a)
    <3>1. f \in [Runs -> Int] /\ \A r \in Runs : f[r] = 0
      BY <2>2 DEF Standing
    <3> HIDE DEF f
    <3>2. Summable(Runs, f) /\ SumOf(Runs, f) = 0
      BY <3>1, SumNothing
    <3> QED BY <3>2 DEF f
  <2>5. Recoupment
    BY <2>3, <2>4, SplitAssumption DEF Init, Recoupment, Covers, AdvanceStands, Purses, Accounts
  <2>6. Reserved
    BY <2>3, <2>4 DEF Init, Reserved, Remembered, Frozen, Cleared, Moved, Free, Underway,
       Purses, Accounts
  <2>7. Planned
    BY DEF Init, Planned, Unborn
  <2> QED BY <2>5, <2>6, <2>7 DEF Settled
<1>2. IInv /\ IInv' /\ Settled /\ [Next]_vars => Settled'
  <2> SUFFICES ASSUME IInv, IInv', Settled, [Next]_vars PROVE Settled'
    OBVIOUS
  <2>1. CASE Next /\ broken' = {}
    BY <2>1, SettledSaga, SettledReverse, SettledOther DEF Next, OtherStep
  <2>2. CASE broken' # {}
    BY <2>2 DEF Settled
  <2>3. CASE UNCHANGED vars
    <3>1. UNCHANGED <<bal, owed, advance, saga, call, undone, locker, dispute, broken, flaws>>
      BY <2>3 DEF vars, money, runs, undo, lock
    <3>2. \A q \in Runs : Stays(q)
      BY <3>1, StandFrame
    <3>3. \A a \in Purses : Standing(a)' = Standing(a)
      BY <3>2, StandSame
    <3>4. Recoupment => Recoupment'
      BY <3>1, <3>3 DEF Recoupment, Covers, AdvanceStands, Purses, Accounts
    <3>5. Reserved => Reserved'
      <4>1. Standing("reserve")' = Standing("reserve")
        BY <3>3 DEF Purses, Accounts
      <4>2. Frozen' = Frozen
        BY <3>1, <4>1 DEF Frozen, Cleared
      <4> QED BY <3>1, <4>1, <4>2, ReservedRuns DEF Reserved, lock
    <3>6. Planned => Planned'
      BY <3>1 DEF Planned
    <3> QED BY <3>1, <3>4, <3>5, <3>6 DEF Settled
  <2> QED BY <2>1, <2>2, <2>3
<1> QED BY <1>1, <1>2, Inductive, PTL DEF Spec

-----------------------------------------------------------------------------
(* When no call is under way, what stands of a run in the company's vault  *)
(* stands in the advance.                                                  *)
LEMMA WholeOrNot ==
  ASSUME TypeOK, Held, Whole, broken = {}, NEW r \in Runs, Ended(r),
         \A v \in Reversals : call[v] = Idle
  PROVE  Stands(r, "advance") = Stands(r, "platform")
<1>1. r # NoRun /\ ~OpenIn(call, r)
  BY SplitAssumption DEF OpenIn, Idle
<1>2. Sound(r) /\ saga[r].mode \in {"none", "done", "failed"}
  BY DEF Whole, WholeRun, Ended
<1>3. \A x \in Items : In(r, x) <=> (r \in ingested /\ undone[r] = 0)
  BY <1>1, <1>2, InCases DEF AllTell, Tells, Sound
<1>4. \A x \in Items, a \in Purses : Stand(r, x, a) = IF In(r, x) THEN Part(r, x, a) ELSE 0
  BY DEF Stand, Part
<1>5. Items = {"tax", "recouped", "excess", "share", "dust", "sweep"}
  BY DEF Items, LegNames
<1>6. CASE ~(r \in ingested /\ undone[r] = 0)
  <2>1. \A a \in Purses : Stands(r, a) = 0
    BY <1>3, <1>4, <1>5, <1>6 DEF Stands
  <2> QED BY <2>1 DEF Purses, Accounts
<1>7. CASE r \in ingested /\ undone[r] = 0
  <2>1. \A x \in Items, a \in Purses : Stand(r, x, a) = Part(r, x, a) /\ Part(r, x, a) \in Nat
    BY <1>3, <1>4, <1>7, PartIs
  <2>2. \A a \in Purses :
          Stands(r, a) = Part(r, "tax", a) + Part(r, "recouped", a) + Part(r, "excess", a)
                           + Part(r, "share", a) + Part(r, "dust", a) + Part(r, "sweep", a)
    BY <1>5, <2>1 DEF Stands
  <2>3. /\ Part(r, "tax", "platform") = 0 /\ Part(r, "excess", "platform") = 0
        /\ Part(r, "share", "platform") = 0 /\ Part(r, "dust", "platform") = 0
        /\ Part(r, "sweep", "platform") = 0
        /\ Part(r, "recouped", "platform") = Amount(saga[r].plan, "recouped")
    BY PartIs DEF Account, LegNames, Accounts
  <2>4. /\ Part(r, "tax", "advance") = 0 /\ Part(r, "excess", "advance") = 0
        /\ Part(r, "share", "advance") = 0 /\ Part(r, "dust", "advance") = 0
        /\ Part(r, "recouped", "advance") = 0
        /\ Part(r, "sweep", "advance") = Amount(saga[r].plan, "recouped")
    BY PartIs DEF LegNames
  <2>5. Amount(saga[r].plan, "recouped") \in Nat
    BY AmountType DEF TypeOK, LegNames
  <2> QED BY <2>2, <2>3, <2>4, <2>5 DEF Purses, Accounts
<1> QED BY <1>6, <1>7

(* What the advance says was recouped is what the company's vault received *)
(* for it, and is never more than the target unless a reversal was put     *)
(* back twice (modules/recoupment/engine.ts:108).                          *)
THEOREM RecoupmentMatches == Spec => []RecoupedMatches
<1>1. IInv /\ Settled => RecoupedMatches
  <2> SUFFICES ASSUME IInv, Settled, advance # NoAdvance, "overlap" \notin flaws, broken = {}
               PROVE  /\ Quiet => advance = bal["platform"]
                      /\ "reapplied" \notin flaws => advance <= Target
    BY DEF RecoupedMatches
  <2> USE DEF IInv
  <2>1. /\ advance = SumOf(Runs, Standing("advance"))
        /\ "reapplied" \notin flaws => advance <= Target
        /\ Summable(Runs, Standing("platform"))
        /\ bal["platform"] = SumOf(Runs, Standing("platform"))
    BY DEF Settled, Recoupment, Covers, AdvanceStands
  <2>2. ASSUME Quiet PROVE Standing("advance") = Standing("platform")
    BY <2>2, WholeOrNot DEF Quiet, Standing
  <2>3. SumOf(Runs, Standing("platform")) \in Int
    BY <2>1, SumType
  <2> QED BY <2>1, <2>2, <2>3
<1> QED BY <1>1, Inductive, SettlesAlways, PTL

(* While a payee is locked and no dispute call is past its reads, the      *)
(* reserve holds at least what the dispute row says was frozen             *)
(* (dispute.ts:93).                                                        *)
THEOREM FrozenStays == Spec => []FrozenAccounted
<1>1. IInv /\ Settled => FrozenAccounted
  <2> SUFFICES ASSUME IInv, Settled, dispute.locked, broken = {},
                      flaws \cap {"relock", "cut"} = {},
                      \A l \in Lockers : locker[l].step \in {"idle", "read"}
               PROVE  bal["reserve"] >= dispute.available + dispute.pending
    BY DEF FrozenAccounted
  <2> USE DEF IInv
  <2>1. Reserved /\ \A l \in Lockers : ~Moved(l)
    BY DEF Settled, Moved
  <2>2. bal["reserve"] - owed["reserve"] - SumOf(Runs, Standing("reserve"))
          = dispute.available + dispute.pending
    BY <2>1 DEF Reserved, Frozen, Cleared, Remembered, Total
  <2>3. SumOf(Runs, Standing("reserve")) \in Nat
    BY <2>1, StandBound DEF Reserved, Purses, Accounts
  <2>4. /\ bal["reserve"] \in Int /\ owed["reserve"] \in Nat
        /\ dispute.available \in Int /\ dispute.pending \in Int
    BY DEF TypeOK, Accounts
  <2> QED BY <2>2, <2>3, <2>4
<1> QED BY <1>1, Inductive, SettlesAlways, PTL
-----------------------------------------------------------------------------
(* The bridge between the vault and the books.                             *)

(* What some legs of a run are worth to an account. *)
Bit(plan, frozen, leg, a) == IF Account(frozen, leg) = a THEN Amount(plan, leg) ELSE 0

Worth(plan, frozen, legs, a) ==
  LET On(leg) == IF leg \in legs THEN Bit(plan, frozen, leg, a) ELSE 0
  IN On("tax") + On("recouped") + On("excess") + On("share") + On("dust")

(* The same legs, but for those without an amount. *)
Alike(plan, S, T) ==
  \A leg \in LegNames : Amount(plan, leg) > 0 => (leg \in S <=> leg \in T)

(* The legs a saga has credited and neither posted nor debited back, and   *)
(* those of its journal that a reversal has clawed back and not posted.    *)
Carried(r) ==
  {leg \in LegNames :
     \/ saga[r].mode = "book" /\ leg \in Walked("book", saga[r].step)
     \/ saga[r].mode = "compensate" /\ leg \notin Walked("compensate", saga[r].step)}

Takes(c, leg) ==
  \/ c.mode = "claw" /\ leg \in Walked("claw", c.step)
  \/ c.mode \in {"refund", "unwind"} /\ leg \notin Walked(c.mode, c.step)

Clawed(r) ==
  {leg \in stored[r] : \E v \in Reversals : call[v].run = r /\ Takes(call[v], leg)}

Gap(r, a) == Worth(saga[r].plan, saga[r].frozen, Carried(r), a)
             - Worth(saga[r].plan, saga[r].frozen, Clawed(r), a)

(* What a dispute call has moved and not posted. *)
Swing(l, a) == IF locker[l].step = "journal" THEN Swept(Nothing, l)[a] ELSE 0

(* The journals, without what the posts that threw had stored. *)
Kept(a) == books[a] - lost[a]

RunGap(a) == [r \in Runs |-> Gap(r, a)]
LockGap(a) == [l \in Lockers |-> Swing(l, a)]

(* Between the vault and the books lies what calls under way have moved    *)
(* and not posted, next to what compensations could not take back.         *)
Bridged ==
  \A a \in Accounts :
    /\ Summable(Runs, RunGap(a)) /\ Summable(Lockers, LockGap(a))
    /\ Cleared(a) - Kept(a) = SumOf(Runs, RunGap(a)) + SumOf(Lockers, LockGap(a))

LEMMA WorthLaws ==
  ASSUME NEW plan \in Plans, NEW frozen, NEW a, NEW S, NEW T
  PROVE  /\ Worth(plan, frozen, S, a) \in Nat
         /\ Alike(plan, S, T) => Worth(plan, frozen, T, a) = Worth(plan, frozen, S, a)
         /\ \A x \in LegNames :
              /\ Bit(plan, frozen, x, a) \in Nat
              /\ x \notin S /\ Alike(plan, S \cup {x}, T)
                 => Worth(plan, frozen, T, a) = Worth(plan, frozen, S, a) + Bit(plan, frozen, x, a)
<1> DEFINE B(leg) == Bit(plan, frozen, leg, a)
           On(legs, leg) == IF leg \in legs THEN B(leg) ELSE 0
<1>1. \A leg \in LegNames : B(leg) \in Nat /\ (Amount(plan, leg) > 0 \/ B(leg) = 0)
  <2>1. \A leg \in LegNames : Amount(plan, leg) \in Nat
    BY AmountType
  <2> QED BY <2>1 DEF Bit
<1>2. /\ Worth(plan, frozen, S, a) = On(S, "tax") + On(S, "recouped") + On(S, "excess")
                                       + On(S, "share") + On(S, "dust")
      /\ Worth(plan, frozen, T, a) = On(T, "tax") + On(T, "recouped") + On(T, "excess")
                                       + On(T, "share") + On(T, "dust")
  BY DEF Worth
<1>3. LegNames = {"tax", "recouped", "excess", "share", "dust"}
  BY DEF LegNames
<1>4. \A leg \in LegNames : On(S, leg) \in Nat /\ On(T, leg) \in Nat
  BY <1>1
<1>5. Worth(plan, frozen, S, a) \in Nat
  <2> HIDE DEF On
  <2> QED BY <1>2, <1>3, <1>4
<1>6. ASSUME Alike(plan, S, T)
      PROVE  Worth(plan, frozen, T, a) = Worth(plan, frozen, S, a)
  <2>1. \A leg \in LegNames : On(S, leg) = On(T, leg)
    BY <1>1, <1>6 DEF Alike
  <2> HIDE DEF On
  <2> QED BY <1>2, <1>3, <2>1
<1>7. ASSUME NEW x \in LegNames, x \notin S, Alike(plan, S \cup {x}, T)
      PROVE  Worth(plan, frozen, T, a) = Worth(plan, frozen, S, a) + B(x)
  <2>1. \A leg \in LegNames : On(T, leg) = IF leg = x THEN On(S, leg) + B(x) ELSE On(S, leg)
    BY <1>1, <1>7 DEF Alike
  <2>2. B(x) \in Nat
    BY <1>1
  <2> HIDE DEF On, B
  <2> QED BY <1>2, <1>3, <1>4, <2>1, <2>2
<1> QED BY <1>1, <1>5, <1>6, <1>7

LEMMA PostedWorth ==
  ASSUME NEW r, NEW legs, NEW a \in Accounts
  PROVE  Posted(r, legs)[a] = Worth(saga[r].plan, saga[r].frozen, legs, a)
BY DEF Posted, Worth, Bit

LEMMA NothingWorth ==
  ASSUME NEW plan \in Plans, NEW frozen, NEW a, NEW S,
         \A leg \in LegNames : Amount(plan, leg) > 0 => leg \notin S
  PROVE  Worth(plan, frozen, S, a) = 0
<1>1. \A leg \in LegNames : Amount(plan, leg) \in Nat
  BY AmountType
<1>2. \A leg \in LegNames : leg \in S => Bit(plan, frozen, leg, a) = 0
  BY <1>1 DEF Bit
<1> QED BY <1>2 DEF Worth, LegNames

(* The next leg of a walk. *)
LEMMA NextLeg ==
  ASSUME NEW mode \in Modes, NEW plan \in Plans, NEW step,
         \/ step \in LegNames
         \/ step \in {"begin", "advance", "sweep"} /\ mode # "refund"
  PROVE  /\ step \notin Walked(mode, step)
         /\ \A leg \in LegNames :
              Amount(plan, leg) > 0 =>
                (leg \in Walked(mode, After(mode, plan, step))
                   <=> leg \in Walked(mode, step) \/ leg = step)
<1>1. \A leg \in LegNames : leg \in Items /\ Heft(plan, leg) = Amount(plan, leg)
  BY DEF Items, Heft, LegNames
<1> QED BY <1>1, NextItem

LEMMA GapType ==
  ASSUME TypeOK
  PROVE  /\ \A r \in Runs, a \in Accounts : Gap(r, a) \in Int
         /\ \A l \in Lockers, a \in Accounts : Swing(l, a) \in Int
         /\ \A a \in Accounts : Kept(a) \in Int /\ books[a] \in Int /\ lost[a] \in Int
<1>1. \A r \in Runs, a \in Accounts : Gap(r, a) \in Int
  <2> SUFFICES ASSUME NEW r \in Runs, NEW a \in Accounts PROVE Gap(r, a) \in Int
    OBVIOUS
  <2>1. saga[r].plan \in Plans
    BY DEF TypeOK
  <2>2. /\ Worth(saga[r].plan, saga[r].frozen, Carried(r), a) \in Nat
        /\ Worth(saga[r].plan, saga[r].frozen, Clawed(r), a) \in Nat
    BY <2>1, WorthLaws
  <2> QED BY <2>2 DEF Gap
<1>2. ASSUME NEW l \in Lockers, NEW a \in Accounts PROVE Swing(l, a) \in Int
  <2>1. locker[l].available \in Int /\ locker[l].pending \in Int
    BY DEF TypeOK
  <2> QED BY <2>1 DEF Swing, Swept, Nothing, Accounts
<1>3. \A a \in Accounts : Kept(a) \in Int /\ books[a] \in Int /\ lost[a] \in Int
  <2>1. \A a \in Accounts : books[a] \in Int /\ lost[a] \in Int
    BY DEF TypeOK
  <2> QED BY <2>1 DEF Kept
<1> QED BY <1>1, <1>2, <1>3

GapNumbers ==
  /\ \A r \in Runs, a \in Accounts : Gap(r, a) \in Int
  /\ \A l \in Lockers, a \in Accounts : Swing(l, a) \in Int
  /\ \A a \in Accounts : Kept(a) \in Int /\ Cleared(a) \in Int

LEMMA GapNumbersType == TypeOK => GapNumbers
<1> SUFFICES ASSUME TypeOK PROVE GapNumbers
  OBVIOUS
<1>1. \A a \in Accounts : Cleared(a) \in Int
  BY NumbersType DEF Numbers
<1>2. /\ \A r \in Runs, a \in Accounts : Gap(r, a) \in Int
      /\ \A l \in Lockers, a \in Accounts : Swing(l, a) \in Int
      /\ \A a \in Accounts : Kept(a) \in Int
  BY GapType
<1> QED BY <1>1, <1>2 DEF GapNumbers

LEMMA GapNext ==
  ASSUME TypeOK, TypeOK'
  PROVE  GapNumbers /\ GapNumbers'
<1>1. (TypeOK => GapNumbers)'
  BY GapNumbersType, PTL
<1> QED BY <1>1, GapNumbersType

(* A run that a step leaves alone. *)
LEMMA GapFrame ==
  ASSUME NEW r \in Runs, saga'[r] = saga[r], stored'[r] = stored[r],
         \A v \in Reversals : call'[v] = call[v] \/ (call[v].run # r /\ call'[v].run # r)
  PROVE  \A a : Gap(r, a)' = Gap(r, a)
<1>1. Carried(r)' = Carried(r)
  BY DEF Carried
<1>2. Clawed(r)' = Clawed(r)
  BY DEF Clawed, Takes
<1> QED BY <1>1, <1>2 DEF Gap

(* A step that moves the vault and the books by what it adds to a gap.     *)
GapMoves(r) ==
  /\ \A q \in Runs \ {r}, a \in Accounts : Gap(q, a)' = Gap(q, a)
  /\ \A a \in Accounts :
       Cleared(a)' - Kept(a)' = Cleared(a) - Kept(a) + Gap(r, a)' - Gap(r, a)

LEMMA BridgeRun ==
  ASSUME TypeOK, TypeOK', Bridged, NEW r \in Runs, locker' = locker, GapMoves(r)
  PROVE  Bridged'
<1> SUFFICES ASSUME NEW a \in Accounts
             PROVE  /\ Summable(Runs, RunGap(a)') /\ Summable(Lockers, LockGap(a)')
                    /\ Cleared(a)' - Kept(a)'
                         = SumOf(Runs, RunGap(a)') + SumOf(Lockers, LockGap(a)')
  BY DEF Bridged
<1> DEFINE f == RunGap(a)
           g == RunGap(a)'
           h == LockGap(a)
<1>1. LockGap(a)' = h
  BY DEF LockGap, Swing, Swept
<1>2. /\ f \in [Runs -> Int] /\ g \in [Runs -> Int]
      /\ f[r] = Gap(r, a) /\ g[r] = Gap(r, a)'
  BY GapNext DEF GapNumbers, RunGap
<1>3. \A q \in Runs \ {r} : g[q] = f[q]
  BY DEF RunGap, GapMoves
<1>4. /\ Summable(Runs, f) /\ Summable(Lockers, h)
      /\ Cleared(a) - Kept(a) = SumOf(Runs, f) + SumOf(Lockers, h)
  BY DEF Bridged
<1>5. Cleared(a)' - Kept(a)' = Cleared(a) - Kept(a) + g[r] - f[r]
  BY <1>2 DEF GapMoves
<1> HIDE DEF f, g, h
<1>6. Summable(Runs, g) /\ SumOf(Runs, g) = SumOf(Runs, f) - f[r] + g[r]
  BY <1>2, <1>3, <1>4, SumChange
<1>7. SumOf(Runs, f) \in Int /\ SumOf(Lockers, h) \in Int /\ f[r] \in Int /\ g[r] \in Int
  BY <1>2, <1>4, SumType
<1>8. Cleared(a)' - Kept(a)' = SumOf(Runs, g) + SumOf(Lockers, h)
  BY <1>4, <1>5, <1>6, <1>7
<1> QED BY <1>1, <1>4, <1>6, <1>8 DEF g, h

LEMMA BridgeLock ==
  ASSUME TypeOK, TypeOK', Bridged, NEW l \in Lockers,
         \A k \in Lockers \ {l} : locker'[k] = locker[k],
         \A q \in Runs, a \in Accounts : Gap(q, a)' = Gap(q, a),
         \A a \in Accounts :
           Cleared(a)' - Kept(a)' = Cleared(a) - Kept(a) + Swing(l, a)' - Swing(l, a)
  PROVE  Bridged'
<1> SUFFICES ASSUME NEW a \in Accounts
             PROVE  /\ Summable(Runs, RunGap(a)') /\ Summable(Lockers, LockGap(a)')
                    /\ Cleared(a)' - Kept(a)'
                         = SumOf(Runs, RunGap(a)') + SumOf(Lockers, LockGap(a)')
  BY DEF Bridged
<1> DEFINE f == LockGap(a)
           g == LockGap(a)'
           h == RunGap(a)
<1>1. RunGap(a)' = h
  BY DEF RunGap
<1>2. /\ f \in [Lockers -> Int] /\ g \in [Lockers -> Int]
      /\ f[l] = Swing(l, a) /\ g[l] = Swing(l, a)'
  BY GapNext DEF GapNumbers, LockGap
<1>3. \A k \in Lockers \ {l} : g[k] = f[k]
  <2>1. ASSUME NEW k \in Lockers \ {l} PROVE Swing(k, a)' = Swing(k, a)
    <3>1. locker'[k] = locker[k]
      OBVIOUS
    <3>2. Swept(Nothing, k)' = Swept(Nothing, k)
      BY <3>1 DEF Swept, Nothing
    <3> QED BY <3>1, <3>2 DEF Swing
  <2> QED BY <2>1 DEF LockGap
<1>4. /\ Summable(Runs, h) /\ Summable(Lockers, f)
      /\ Cleared(a) - Kept(a) = SumOf(Runs, h) + SumOf(Lockers, f)
  BY DEF Bridged
<1>5. Cleared(a)' - Kept(a)' = Cleared(a) - Kept(a) + g[l] - f[l]
  BY <1>2
<1> HIDE DEF f, g, h
<1>6. Summable(Lockers, g) /\ SumOf(Lockers, g) = SumOf(Lockers, f) - f[l] + g[l]
  BY <1>2, <1>3, <1>4, SumChange
<1>7. SumOf(Lockers, f) \in Int /\ SumOf(Runs, h) \in Int /\ f[l] \in Int /\ g[l] \in Int
  BY <1>2, <1>4, SumType
<1>8. Cleared(a)' - Kept(a)' = SumOf(Runs, h) + SumOf(Lockers, g)
  BY <1>4, <1>5, <1>6, <1>7
<1> QED BY <1>1, <1>4, <1>6, <1>8 DEF g, h

(* A run whose tax alone is credited, before its saga has read the advance. *)
LEMMA TaxWorth ==
  ASSUME NEW plan \in Plans, NEW frozen, NEW a, NEW S,
         \A leg \in LegNames : Amount(plan, leg) > 0 => (leg \in S <=> leg = "tax")
  PROVE  Worth(plan, frozen, S, a) = IF "reserve" = a THEN Withheld ELSE 0
<1> DEFINE On(leg) == IF leg \in S THEN Bit(plan, frozen, leg, a) ELSE 0
<1>1. \A leg \in LegNames : Amount(plan, leg) \in Nat
  BY AmountType
<1>2. \A leg \in LegNames \ {"tax"} : On(leg) = 0
  BY <1>1 DEF Bit
<1>3. /\ Amount(plan, "tax") = Withheld /\ Account(frozen, "tax") = "reserve"
      /\ Withheld \in Nat /\ "tax" \in LegNames
  BY SplitAssumption DEF Amount, Account, LegNames
<1>4. On("tax") = IF "reserve" = a THEN Withheld ELSE 0
  <2>1. CASE Withheld > 0 BY <1>3, <2>1 DEF Bit
  <2>2. CASE Withheld = 0 BY <1>3, <2>2 DEF Bit
  <2> QED BY <1>3, <2>1, <2>2
<1>5. Worth(plan, frozen, S, a)
        = On("tax") + On("recouped") + On("excess") + On("share") + On("dust")
  BY DEF Worth
<1> HIDE DEF On
<1> QED BY <1>2, <1>3, <1>4, <1>5 DEF LegNames

LEMMA GapSaga ==
  ASSUME TypeOK, Held, Whole, TypeOK', NEW r \in Runs, Saga(r)
  PROVE  GapMoves(r)
<1> DEFINE plan == saga[r].plan
           frozen == saga[r].frozen
           step == saga[r].step
           W(S, a) == Worth(plan, frozen, S, a)
<1>1. /\ saga \in [Runs -> SagaRec] /\ plan \in Plans /\ advance \in Plans
      /\ call' = call
      /\ \A q \in Runs \ {r} : saga'[q] = saga[q] /\ stored'[q] = stored[q]
  BY DEF TypeOK, SagaRec, Saga, Begin, ApplyWithholding, IsIncomingFrozen, ReadAdvance,
     Sweep, CreditVault, PostIngest, IngestThrows, DebitBack, RereadAdvance, SweepBack,
     UnwindEscrowRow, Onward, undo
<1>2. \A q \in Runs \ {r}, a \in Accounts : Gap(q, a)' = Gap(q, a)
  BY <1>1, GapFrame
<1>3. \A a \in Accounts :
        /\ bal[a] \in Int /\ owed[a] \in Int /\ books[a] \in Int /\ lost[a] \in Int
        /\ Cleared(a) \in Int /\ Kept(a) \in Int /\ Gap(r, a) \in Int /\ Gap(r, a)' \in Int
        /\ Cleared(a)' \in Int /\ Kept(a)' \in Int
  BY GapNext DEF GapNumbers, TypeOK
<1>4. saga[r].mode \in {"none", "begin", "book"} => Clawed(r) = {} /\ Clawed(r)' = {}
  <2> SUFFICES ASSUME saga[r].mode \in {"none", "begin", "book"}
               PROVE  Clawed(r) = {} /\ Clawed(r)' = {}
    OBVIOUS
  <2>1. r \notin ingested
    BY DEF Whole, WholeRun
  <2>2. \A v \in Reversals : call[v].run # r
    BY <2>1, SplitAssumption DEF Held, Idle
  <2> QED BY <1>1, <2>2 DEF Clawed
<1>5. saga[r].mode = "compensate" => Clawed(r)' = Clawed(r)
  <2>1. saga[r].mode = "compensate" => stored' = stored
    BY DEF Saga, Begin, ApplyWithholding, IsIncomingFrozen, ReadAdvance,
       Sweep, CreditVault, PostIngest, IngestThrows, DebitBack, RereadAdvance, SweepBack,
       UnwindEscrowRow, Do
  <2> QED BY <1>1, <2>1 DEF Clawed, Takes
<1>6. ASSUME saga'[r].plan = plan, saga'[r].frozen = frozen, Clawed(r)' = Clawed(r)
      PROVE  \A a \in Accounts :
               /\ Gap(r, a)' - Gap(r, a) = W(Carried(r)', a) - W(Carried(r), a)
               /\ W(Carried(r)', a) \in Nat /\ W(Carried(r), a) \in Nat
  <2> SUFFICES ASSUME NEW a \in Accounts
               PROVE  /\ Gap(r, a)' - Gap(r, a) = W(Carried(r)', a) - W(Carried(r), a)
                      /\ W(Carried(r)', a) \in Nat /\ W(Carried(r), a) \in Nat
    OBVIOUS
  <2>1. Gap(r, a) = W(Carried(r), a) - W(Clawed(r), a)
    BY DEF Gap
  <2>2. Gap(r, a)' = W(Carried(r)', a) - W(Clawed(r), a)
    BY <1>6 DEF Gap
  <2>3. W(Carried(r), a) \in Nat /\ W(Carried(r)', a) \in Nat /\ W(Clawed(r), a) \in Nat
    BY <1>1, WorthLaws
  <2> HIDE DEF W
  <2> QED BY <2>1, <2>2, <2>3
<1>7. ASSUME saga'[r].plan = plan, saga'[r].frozen = frozen, Clawed(r)' = Clawed(r),
             Alike(plan, Carried(r), Carried(r)'),
             \A a \in Accounts : Cleared(a)' - Kept(a)' = Cleared(a) - Kept(a)
      PROVE  GapMoves(r)
  <2>1. \A a \in Accounts : W(Carried(r)', a) = W(Carried(r), a)
    BY <1>1, <1>7, WorthLaws
  <2>2. \A a \in Accounts : Gap(r, a)' - Gap(r, a) = 0
    <3> HIDE DEF W
    <3> QED BY <1>6, <1>7, <2>1
  <2> QED BY <1>2, <1>3, <1>7, <2>2 DEF GapMoves
<1>8. "book" \in Modes /\ "compensate" \in Modes /\ "sweep" \notin LegNames /\ "begin" \notin LegNames
      /\ "advance" \notin LegNames
  BY DEF Modes, LegNames
<1>9. CASE \/ Begin(r) \/ ApplyWithholding(r) \/ Sweep(r) \/ SweepBack(r)
           \/ RereadAdvance(r) \/ UnwindEscrowRow(r)
  <2>1. /\ saga'[r].plan = plan /\ saga'[r].frozen = frozen
        /\ UNCHANGED <<bal, books, lost, owed, stored>>
    BY <1>1, <1>9 DEF Begin, ApplyWithholding, Sweep, SweepBack, RereadAdvance,
       UnwindEscrowRow, Onward, SagaRec, money
  <2>2. \A a \in Accounts : Cleared(a)' - Kept(a)' = Cleared(a) - Kept(a)
    BY <2>1 DEF Cleared, Kept
  <2>3. Clawed(r)' = Clawed(r)
    BY <1>1, <2>1 DEF Clawed, Takes
  <2>4. Alike(plan, Carried(r), Carried(r)')
    <3>1. CASE Begin(r)
      <4>1. status[r] = "none" /\ saga'[r].mode = "begin"
        BY <1>1, <3>1 DEF Begin, SagaRec
      <4>2. saga[r].mode = "none"
        BY <4>1 DEF Whole, WholeRun
      <4> QED BY <4>1, <4>2 DEF Alike, Carried
    <3>2. CASE ApplyWithholding(r)
      <4>1. /\ saga[r].mode = "begin" /\ saga'[r].mode = "book"
            /\ saga'[r].step = After("book", plan, "begin")
        BY <1>1, <3>2 DEF ApplyWithholding, SagaRec
      <4>2. Walked("book", "begin") = {}
        BY WalkBegins
      <4>3. \A leg \in LegNames : Amount(plan, leg) > 0 => leg \notin Walked("book", saga'[r].step)
        <5> HIDE DEF plan
        <5> QED BY <1>1, <1>8, <4>1, <4>2, NextLeg
      <4> QED BY <4>1, <4>3 DEF Alike, Carried
    <3>3. CASE Sweep(r)
      <4>1. /\ saga[r].mode = "book" /\ saga'[r].mode = "book" /\ step = "sweep"
            /\ saga'[r].step = After("book", plan, "sweep")
        BY <1>1, <3>3 DEF Sweep, Do, Onward, SagaRec
      <4>2. \A leg \in LegNames : Amount(plan, leg) > 0 =>
              (leg \in Walked("book", saga'[r].step) <=> leg \in Walked("book", "sweep"))
        <5> HIDE DEF plan
        <5> QED BY <1>1, <1>8, <4>1, NextLeg
      <4> QED BY <4>1, <4>2 DEF Alike, Carried
    <3>4. CASE SweepBack(r)
      <4>1. /\ saga[r].mode = "compensate" /\ saga'[r].mode = "compensate" /\ step = "sweep"
            /\ saga'[r].step = After("compensate", plan, "sweep")
        BY <1>1, <3>4 DEF SweepBack, Do, Onward, SagaRec
      <4>2. \A leg \in LegNames : Amount(plan, leg) > 0 =>
              (leg \in Walked("compensate", saga'[r].step)
                 <=> leg \in Walked("compensate", "sweep"))
        <5> HIDE DEF plan
        <5> QED BY <1>1, <1>8, <4>1, NextLeg
      <4> QED BY <4>1, <4>2 DEF Alike, Carried
    <3>5. CASE RereadAdvance(r)
      <4>1. /\ saga[r].mode = "compensate" /\ saga'[r].mode = "compensate"
            /\ step = "advance" /\ saga'[r].step = "sweep"
        BY <1>1, <3>5 DEF RereadAdvance, Do, SagaRec
      <4> QED BY <4>1, CompensateWalk DEF Alike, Carried, Items
    <3>6. CASE UnwindEscrowRow(r)
      <4>1. /\ saga[r].mode = "compensate" /\ saga'[r].mode = "failed"
            /\ step = "withhold"
        BY <1>1, <3>6 DEF UnwindEscrowRow, Do, SagaRec
      <4> QED BY <4>1, CompensateWalk DEF Alike, Carried, Items
    <3> QED BY <1>9, <3>1, <3>2, <3>3, <3>4, <3>5, <3>6
  <2> QED BY <1>7, <2>1, <2>2, <2>3, <2>4
<1>10. CASE IsIncomingFrozen(r) \/ ReadAdvance(r)
  <2>1. /\ saga[r].mode = "book" /\ saga'[r].mode = "book"
        /\ step \in {"look", "advance"} /\ saga'[r].plan \in Plans
        /\ UNCHANGED <<bal, books, lost, owed>>
    BY <1>1, <1>10 DEF IsIncomingFrozen, ReadAdvance, Do, SagaRec, money
  <2>2. \A leg \in LegNames : leg \in Carried(r) <=> leg = "tax"
    BY <1>8, <2>1, BookWalk DEF Carried, LegNames
  <2>3. \A leg \in LegNames : Amount(saga'[r].plan, leg) > 0 => (leg \in Carried(r)' <=> leg = "tax")
    <3>1. CASE IsIncomingFrozen(r)
      <4>1. saga'[r].step = "advance"
        BY <1>1, <3>1 DEF IsIncomingFrozen, SagaRec
      <4> QED BY <2>1, <4>1, BookWalk DEF Carried, LegNames
    <3>2. CASE ReadAdvance(r)
      <4>1. saga'[r].step = After("book", advance, "advance") /\ saga'[r].plan = advance
        BY <1>1, <3>2 DEF ReadAdvance, SagaRec
      <4>2. \A leg \in LegNames : Amount(advance, leg) > 0 =>
              (leg \in Walked("book", After("book", advance, "advance"))
                 <=> leg \in Walked("book", "advance"))
        BY <1>1, <1>8, NextLeg
      <4> QED BY <2>1, <4>1, <4>2, BookWalk DEF Carried, LegNames
    <3> QED BY <1>10, <3>1, <3>2
  <2>4. \A a \in Accounts : Gap(r, a)' = Gap(r, a)
    <3> SUFFICES ASSUME NEW a \in Accounts PROVE Gap(r, a)' = Gap(r, a)
      OBVIOUS
    <3>1. Worth(plan, frozen, Carried(r), a) = IF "reserve" = a THEN Withheld ELSE 0
      BY <1>1, <2>2, TaxWorth
    <3>2. Worth(saga'[r].plan, saga'[r].frozen, Carried(r)', a)
            = IF "reserve" = a THEN Withheld ELSE 0
      BY <2>1, <2>3, TaxWorth
    <3>3. /\ Worth(plan, frozen, Clawed(r), a) = 0
          /\ Worth(saga'[r].plan, saga'[r].frozen, Clawed(r)', a) = 0
      <4>1. Clawed(r) = {} /\ Clawed(r)' = {}
        BY <1>4, <2>1
      <4>2. \A f : \A p \in Plans : Worth(p, f, {}, a) = 0
        BY NothingWorth
      <4> QED BY <1>1, <2>1, <4>1, <4>2
    <3> QED BY <3>1, <3>2, <3>3 DEF Gap
  <2>5. \A a \in Accounts : Cleared(a)' = Cleared(a) /\ Kept(a)' = Kept(a)
    BY <2>1 DEF Cleared, Kept
  <2> QED BY <1>2, <1>3, <2>4, <2>5 DEF GapMoves
<1>11. CASE CreditVault(r) \/ DebitBack(r)
  <2> DEFINE b == Account(frozen, step)
             n == Amount(plan, step)
  <2>1. /\ step \in LegNames /\ saga'[r].plan = plan /\ saga'[r].frozen = frozen
        /\ saga'[r].mode = saga[r].mode /\ saga[r].mode \in {"book", "compensate"}
        /\ saga'[r].step = After(saga[r].mode, plan, step)
        /\ UNCHANGED <<books, lost, stored>>
        /\ CreditVault(r) => saga[r].mode = "book" /\ bal' = Plus(bal, b, n) /\ owed' = owed
        /\ DebitBack(r) => /\ saga[r].mode = "compensate"
                           /\ \/ bal' = Plus(bal, b, -n) /\ owed' = owed
                              \/ owed' = Plus(owed, b, n) /\ bal' = bal
    BY <1>1, <1>11 DEF CreditVault, DebitBack, Onward, SagaRec
  <2>2. b \in Accounts /\ n \in Nat
    BY <2>1, LegType
  <2>3. \A a \in Accounts :
          Bit(plan, frozen, step, a) = (IF b = a THEN n ELSE 0)
          /\ Bit(plan, frozen, step, a) \in Nat
    BY <2>2 DEF Bit
  <2>4. /\ step \notin Walked(saga[r].mode, step)
        /\ \A leg \in LegNames : Amount(plan, leg) > 0 =>
             (leg \in Walked(saga[r].mode, saga'[r].step)
                <=> leg \in Walked(saga[r].mode, step) \/ leg = step)
    <3>1. saga[r].mode \in Modes
      BY <1>8, <2>1
    <3> HIDE DEF plan, step
    <3> QED BY <1>1, <2>1, <3>1, NextLeg
  <2>5. Clawed(r)' = Clawed(r)
    BY <1>4, <1>5, <2>1
  <2>6. CASE CreditVault(r)
    <3>1. \A a \in Accounts : Cleared(a)' = Cleared(a) + Bit(plan, frozen, step, a)
      <4> SUFFICES ASSUME NEW a \in Accounts
                   PROVE  Cleared(a)' = Cleared(a) + Bit(plan, frozen, step, a)
        OBVIOUS
      <4>1. bal'[a] = bal[a] + (IF b = a THEN n ELSE 0) /\ owed'[a] = owed[a]
        <5>1. bal \in [Accounts -> Int]
          BY DEF TypeOK
        <5> HIDE DEF b, n
        <5> QED BY <2>1, <2>2, <2>6, <5>1 DEF Plus
      <4> HIDE DEF b, n
      <4> QED BY <1>3, <2>2, <2>3, <4>1 DEF Cleared
    <3>2. step \notin Carried(r) /\ Alike(plan, Carried(r) \cup {step}, Carried(r)')
      <4>1. saga[r].mode = "book" /\ saga'[r].mode = "book"
        BY <2>1, <2>6
      <4> HIDE DEF plan, step
      <4> QED BY <2>4, <4>1 DEF Alike, Carried, step, plan
    <3>3. \A a \in Accounts : W(Carried(r)', a) = W(Carried(r), a) + Bit(plan, frozen, step, a)
      BY <1>1, <2>1, <3>2, WorthLaws
    <3>4. \A a \in Accounts : Kept(a)' = Kept(a)
      BY <2>1 DEF Kept
    <3>5. \A a \in Accounts :
            /\ Gap(r, a)' - Gap(r, a) = W(Carried(r)', a) - W(Carried(r), a)
            /\ W(Carried(r)', a) \in Nat /\ W(Carried(r), a) \in Nat
      BY <1>6, <2>1, <2>5
    <3>6. \A a \in Accounts : Cleared(a)' - Kept(a)' = Cleared(a) - Kept(a) + Gap(r, a)' - Gap(r, a)
      <4> HIDE DEF W, plan, frozen, step
      <4> QED BY <1>3, <2>3, <3>1, <3>3, <3>4, <3>5
    <3> QED BY <1>2, <3>6 DEF GapMoves
  <2>7. CASE DebitBack(r)
    <3>1. \A a \in Accounts : Cleared(a)' = Cleared(a) - Bit(plan, frozen, step, a)
      <4> SUFFICES ASSUME NEW a \in Accounts
                   PROVE  Cleared(a)' = Cleared(a) - Bit(plan, frozen, step, a)
        OBVIOUS
      <4>1. bal'[a] - owed'[a] = bal[a] - owed[a] - (IF b = a THEN n ELSE 0)
        <5>1. bal \in [Accounts -> Int] /\ owed \in [Accounts -> Nat]
          BY DEF TypeOK
        <5> HIDE DEF b, n
        <5> QED BY <2>1, <2>2, <2>7, <5>1 DEF Plus
      <4> HIDE DEF b, n
      <4> QED BY <1>3, <2>2, <2>3, <4>1 DEF Cleared
    <3>2. step \notin Carried(r)' \cap Due(r) /\ Alike(plan, (Carried(r)' \ {step}) \cup {step}, Carried(r))
      <4>1. saga[r].mode = "compensate" /\ saga'[r].mode = "compensate"
        BY <2>1, <2>7
      <4>2. \A leg \in LegNames :
              /\ leg \in Carried(r) <=> leg \notin Walked("compensate", step)
              /\ leg \in Carried(r)' <=> leg \notin Walked("compensate", saga'[r].step)
        BY <4>1 DEF Carried
      <4>3. \A leg \in Due(r) : leg \in LegNames /\ Amount(plan, leg) > 0
        BY DEF Due
      <4> HIDE DEF plan, step
      <4> QED BY <2>1, <2>4, <4>1, <4>2, <4>3 DEF Alike
    <3>3. \A a \in Accounts : W(Carried(r), a) = W(Carried(r)', a) + Bit(plan, frozen, step, a)
      <4>1. Alike(plan, Carried(r)', Carried(r)' \ {step})
        BY <3>2 DEF Alike, Due
      <4> SUFFICES ASSUME NEW a \in Accounts
                   PROVE  W(Carried(r), a) = W(Carried(r)', a) + Bit(plan, frozen, step, a)
        OBVIOUS
      <4>2. W(Carried(r)' \ {step}, a) = W(Carried(r)', a)
        BY <1>1, <4>1, WorthLaws
      <4>3. W(Carried(r), a) = W(Carried(r)' \ {step}, a) + Bit(plan, frozen, step, a)
        <5> DEFINE S == Carried(r)' \ {step}
                   T == Carried(r)
        <5>1. step \notin S /\ Alike(plan, S \cup {step}, T) /\ step \in LegNames /\ plan \in Plans
          BY <1>1, <2>1, <3>2
        <5> HIDE DEF S, T, plan, frozen, step
        <5>2. Worth(plan, frozen, T, a) = Worth(plan, frozen, S, a) + Bit(plan, frozen, step, a)
          BY <5>1, WorthLaws
        <5> QED BY <5>2 DEF S, T
      <4> QED BY <4>2, <4>3
    <3>4. \A a \in Accounts : Kept(a)' = Kept(a)
      BY <2>1 DEF Kept
    <3>5. \A a \in Accounts :
            /\ Gap(r, a)' - Gap(r, a) = W(Carried(r)', a) - W(Carried(r), a)
            /\ W(Carried(r)', a) \in Nat /\ W(Carried(r), a) \in Nat
      BY <1>6, <2>1, <2>5
    <3>6. \A a \in Accounts : Cleared(a)' - Kept(a)' = Cleared(a) - Kept(a) + Gap(r, a)' - Gap(r, a)
      <4> HIDE DEF W, plan, frozen, step
      <4> QED BY <1>3, <2>3, <3>1, <3>3, <3>4, <3>5
    <3> QED BY <1>2, <3>6 DEF GapMoves
  <2> QED BY <1>11, <2>6, <2>7
<1>12. CASE PostIngest(r) \/ IngestThrows(r)
  <2>1. /\ saga[r].mode = "book" /\ step = "journal"
        /\ saga'[r].plan = plan /\ saga'[r].frozen = frozen
        /\ bal' = bal /\ owed' = owed
    BY <1>1, <1>12 DEF PostIngest, IngestThrows, Do, SagaRec
  <2>2. Clawed(r)' = Clawed(r)
    BY <1>4, <2>1
  <2>3. LegNames \subseteq Carried(r)
    BY <2>1, BookWalk DEF Carried, Items
  <2>4. \A a \in Accounts : Cleared(a)' = Cleared(a)
    BY <2>1 DEF Cleared
  <2>5. CASE PostIngest(r)
    <3>1. saga'[r].mode = "done" /\ books' = Add(books, Legs(r)) /\ lost' = lost
      BY <1>1, <2>5 DEF PostIngest, SagaRec
    <3>2. \A a \in Accounts : Legs(r)[a] = W(Carried(r), a)
      <4> SUFFICES ASSUME NEW a \in Accounts PROVE Legs(r)[a] = W(Carried(r), a)
        OBVIOUS
      <4>1. Legs(r)[a] = W(LegNames, a)
        BY PostedWorth DEF Legs
      <4>2. Alike(plan, LegNames, Carried(r))
        BY <2>3 DEF Alike
      <4> QED BY <1>1, <4>1, <4>2, WorthLaws
    <3>3. \A a \in Accounts : W(Carried(r)', a) = 0
      <4>1. Carried(r)' = {}
        BY <3>1 DEF Carried
      <4> QED BY <1>1, <4>1, NothingWorth
    <3>4. \A a \in Accounts :
            /\ Gap(r, a)' - Gap(r, a) = W(Carried(r)', a) - W(Carried(r), a)
            /\ W(Carried(r)', a) \in Nat /\ W(Carried(r), a) \in Nat
      BY <1>6, <2>1, <2>2
    <3>5. \A a \in Accounts : Kept(a)' = Kept(a) + Legs(r)[a]
      <4>1. \A a \in Accounts : books'[a] = books[a] + Legs(r)[a] /\ lost'[a] = lost[a]
        BY <3>1 DEF Add
      <4>2. \A a \in Accounts : Legs(r)[a] \in Nat
        <5> HIDE DEF W
        <5> QED BY <3>2, <3>4
      <4> QED BY <1>3, <4>1, <4>2 DEF Kept
    <3>6. \A a \in Accounts : Cleared(a)' - Kept(a)' = Cleared(a) - Kept(a) + Gap(r, a)' - Gap(r, a)
      <4> HIDE DEF W
      <4> QED BY <1>3, <2>4, <3>2, <3>3, <3>4, <3>5
    <3> QED BY <1>2, <3>6 DEF GapMoves
  <2>6. CASE IngestThrows(r)
    <3>1. saga'[r].mode = "compensate" /\ saga'[r].step = After("compensate", plan, "begin")
      BY <1>1, <2>6 DEF IngestThrows, SagaRec
    <3>2. Walked("compensate", "begin") = {}
      BY WalkBegins
    <3>3. \A leg \in LegNames : Amount(plan, leg) > 0 => leg \notin Walked("compensate", saga'[r].step)
      <4> HIDE DEF plan
      <4> QED BY <1>1, <1>8, <3>1, <3>2, NextLeg
    <3>4. Alike(plan, Carried(r), Carried(r)')
      BY <2>3, <3>1, <3>3 DEF Alike, Carried
    <3>5. \A a \in Accounts : Kept(a)' = Kept(a)
      <4>1. CASE books' = books /\ lost' = lost
        BY <4>1 DEF Kept
      <4>2. ASSUME NEW legs, books' = Add(books, Posted(r, legs)),
                   lost' = Add(lost, Posted(r, legs))
            PROVE  \A a \in Accounts : Kept(a)' = Kept(a)
        <5>1. \A a \in Accounts : Posted(r, legs)[a] \in Nat
          <6>1. books \in [Accounts -> Int]
            BY DEF TypeOK
          <6>2. Posted(r, legs) \in [Accounts -> Nat]
            BY <6>1, LegsType
          <6> QED BY <6>2
        <5>2. \A a \in Accounts : /\ books'[a] = books[a] + Posted(r, legs)[a]
                                  /\ lost'[a] = lost[a] + Posted(r, legs)[a]
          BY <4>2 DEF Add
        <5> QED BY <1>3, <5>1, <5>2 DEF Kept
      <4> QED BY <2>6, <4>1, <4>2 DEF IngestThrows
    <3> QED BY <1>3, <1>7, <2>1, <2>2, <2>4, <3>4, <3>5
  <2> QED BY <1>12, <2>5, <2>6
<1> QED BY <1>9, <1>10, <1>11, <1>12 DEF Saga

LEMMA WorthMore ==
  ASSUME NEW plan \in Plans, NEW frozen, NEW a, NEW S, NEW T, NEW x \in LegNames,
         \A leg \in LegNames : Amount(plan, leg) > 0 => (leg \in T <=> leg \in S \/ leg = x),
         Amount(plan, x) > 0 => x \notin S
  PROVE  /\ Worth(plan, frozen, T, a) = Worth(plan, frozen, S, a) + Bit(plan, frozen, x, a)
         /\ Bit(plan, frozen, x, a) \in Nat
<1> DEFINE R == S \ {x}
<1>1. x \notin R /\ Alike(plan, S, R) /\ Alike(plan, R \cup {x}, T)
  BY DEF Alike
<1> HIDE DEF R
<1>2. Worth(plan, frozen, R, a) = Worth(plan, frozen, S, a)
  BY <1>1, WorthLaws
<1>3. /\ Worth(plan, frozen, T, a) = Worth(plan, frozen, R, a) + Bit(plan, frozen, x, a)
      /\ Bit(plan, frozen, x, a) \in Nat
  BY <1>1, WorthLaws
<1> QED BY <1>2, <1>3

(* The steps of a reversal. *)
LEMMA GapReverse ==
  ASSUME TypeOK, Held, TypeOK', NEW v \in Reversals, Reverse(v),
         NEW r \in Runs, call[v].run = r
  PROVE  GapMoves(r)
<1> DEFINE plan == saga[r].plan
           frozen == saga[r].frozen
           mode == call[v].mode
           step == call[v].step
           W(S, a) == Worth(plan, frozen, S, a)
<1>1. /\ call \in [Reversals -> CallRec] /\ plan \in Plans
      /\ saga' = saga /\ stored' = stored /\ owed' = owed
  BY DEF TypeOK, CallRec, Reverse, Claim, Clawback, Recredit, ReadRollback,
     Rollback, ReapplyRollback, PostReversal, ReversalThrows, RevertClaim,
     UnwindEscrowForRun, InsertSplitReversal, runs
<1>2. r # NoRun /\ ~\E q \in Runs : Claim(v, q)
  BY SplitAssumption DEF Claim, Idle
<1>3. /\ \A w \in Reversals \ {v} : call'[w] = call[w] /\ call[w].run # r
      /\ call'[v].run \in {r, NoRun}
  <2>1. \A w \in Reversals \ {v} : call[w].run # r
    BY <1>2 DEF Held
  <2> QED BY <1>1, <1>2, <2>1 DEF CallRec, Reverse, Clawback, Recredit, ReadRollback,
     Rollback, ReapplyRollback, PostReversal, ReversalThrows, RevertClaim,
     UnwindEscrowForRun, InsertSplitReversal, At, Forward, Idle
<1>4. \A q \in Runs \ {r}, a \in Accounts : Gap(q, a)' = Gap(q, a)
  <2>1. \A q \in Runs \ {r} : call[v].run # q /\ call'[v].run # q
    BY <1>3, SplitAssumption
  <2> QED BY <1>1, <1>3, <2>1, GapFrame
<1>5. \A a \in Accounts :
        /\ bal[a] \in Int /\ owed[a] \in Int /\ books[a] \in Int /\ lost[a] \in Int
        /\ Cleared(a) \in Int /\ Kept(a) \in Int /\ Gap(r, a) \in Int /\ Gap(r, a)' \in Int
        /\ Cleared(a)' \in Int /\ Kept(a)' \in Int
  BY GapNext DEF GapNumbers, TypeOK
<1>6. \A leg : leg \in Clawed(r) <=> leg \in stored[r] /\ Takes(call[v], leg)
  BY <1>3 DEF Clawed
<1>7. /\ call'[v].run = r =>
           \A leg : leg \in Clawed(r)' <=> leg \in stored[r] /\ Takes(call'[v], leg)
      /\ call'[v].run # r => Clawed(r)' = {}
  <2>1. Clawed(r)' = {leg \in stored[r] : \E w \in Reversals : call'[w].run = r /\ Takes(call'[w], leg)}
    BY <1>1 DEF Clawed, Takes
  <2> QED BY <1>3, <2>1
<1>8. \A a \in Accounts :
        /\ Gap(r, a)' - Gap(r, a) = W(Clawed(r), a) - W(Clawed(r)', a)
        /\ W(Clawed(r), a) \in Nat /\ W(Clawed(r)', a) \in Nat
  <2> SUFFICES ASSUME NEW a \in Accounts
               PROVE  /\ Gap(r, a)' - Gap(r, a) = W(Clawed(r), a) - W(Clawed(r)', a)
                      /\ W(Clawed(r), a) \in Nat /\ W(Clawed(r)', a) \in Nat
    OBVIOUS
  <2>1. Carried(r)' = Carried(r)
    BY <1>1 DEF Carried
  <2>2. Gap(r, a) = W(Carried(r), a) - W(Clawed(r), a)
    BY DEF Gap
  <2>3. Gap(r, a)' = W(Carried(r), a) - W(Clawed(r)', a)
    BY <1>1, <2>1 DEF Gap
  <2>4. W(Carried(r), a) \in Nat /\ W(Clawed(r), a) \in Nat /\ W(Clawed(r)', a) \in Nat
    BY <1>1, WorthLaws
  <2> HIDE DEF W
  <2> QED BY <2>2, <2>3, <2>4
<1>9. ASSUME \A leg \in LegNames : Amount(plan, leg) > 0 => (leg \in Clawed(r)' <=> leg \in Clawed(r)),
             bal' = bal, \A a \in Accounts : Kept(a)' = Kept(a)
      PROVE  GapMoves(r)
  <2>1. \A a \in Accounts : W(Clawed(r)', a) = W(Clawed(r), a)
    <3>1. Alike(plan, Clawed(r), Clawed(r)')
      BY <1>9 DEF Alike
    <3> QED BY <1>1, <3>1, WorthLaws
  <2>2. \A a \in Accounts : Cleared(a)' = Cleared(a)
    BY <1>1, <1>9 DEF Cleared
  <2>3. \A a \in Accounts : Cleared(a)' - Kept(a)' = Cleared(a) - Kept(a) + Gap(r, a)' - Gap(r, a)
    <3> HIDE DEF W
    <3> QED BY <1>5, <1>8, <1>9, <2>1, <2>2
  <2> QED BY <1>4, <2>3 DEF GapMoves
<1>10. {"claw", "refund", "unwind"} \subseteq Modes /\ "sweep" \notin LegNames
       /\ "begin" \notin LegNames /\ stored[r] \subseteq LegNames
  BY DEF Modes, LegNames, TypeOK
<1>11. CASE Clawback(v) \/ Recredit(v)
  <2> DEFINE b == Account(frozen, step)
             n == Amount(plan, step)
  <2>1. step \in LegNames /\ mode \in {"claw", "refund", "unwind"}
        /\ books' = books /\ lost' = lost
    BY <1>11 DEF Clawback, Recredit, At
  <2>2. b \in Accounts /\ n \in Nat
    BY <2>1, LegType
  <2>3. \A a \in Accounts : Bit(plan, frozen, step, a) = (IF b = a THEN n ELSE 0)
    BY DEF Bit
  <2>4. \A a \in Accounts : Kept(a)' = Kept(a)
    BY <2>1 DEF Kept
  <2>5. Taken(v) = IF step \in stored[r] THEN n ELSE 0
    BY DEF Taken, Plan
  <2>6. /\ step \notin Walked(mode, step)
        /\ \A leg \in LegNames : Amount(plan, leg) > 0 =>
             (leg \in Walked(mode, After(mode, plan, step))
                <=> leg \in Walked(mode, step) \/ leg = step)
    <3> HIDE DEF plan, step, mode
    <3> QED BY <1>1, <1>10, <2>1, NextLeg
  <2>7. CASE Clawback(v)
    <3>1. mode = "claw"
      BY <2>7 DEF Clawback, At
    <3>2. CASE call' = Forward(v) /\ bal' = Plus(bal, b, -Taken(v))
      <4>1. /\ call'[v].run = r /\ call'[v].mode = "claw"
            /\ call'[v].step = After("claw", plan, step)
        BY <1>1, <3>1, <3>2 DEF Forward, Plan, CallRec
      <4>2. \A leg \in LegNames : Amount(plan, leg) > 0 =>
              (leg \in Clawed(r)' <=> leg \in stored[r] /\ (leg \in Clawed(r) \/ leg = step))
        BY <1>6, <1>7, <2>6, <3>1, <4>1 DEF Takes
      <4>3. step \notin Clawed(r)
        BY <1>6, <2>6, <3>1 DEF Takes
      <4>4. CASE step \in stored[r]
        <5>1. \A leg \in LegNames : Amount(plan, leg) > 0 =>
                (leg \in Clawed(r)' <=> leg \in Clawed(r) \/ leg = step)
          BY <1>6, <4>2, <4>4
        <5>2. \A a \in Accounts :
                /\ W(Clawed(r)', a) = W(Clawed(r), a) + Bit(plan, frozen, step, a)
                /\ Bit(plan, frozen, step, a) \in Nat
          <6> SUFFICES ASSUME NEW a \in Accounts
                       PROVE  /\ W(Clawed(r)', a) = W(Clawed(r), a) + Bit(plan, frozen, step, a)
                              /\ Bit(plan, frozen, step, a) \in Nat
            OBVIOUS
          <6> DEFINE S == Clawed(r)
                     T == Clawed(r)'
          <6>1. /\ \A leg \in LegNames : Amount(plan, leg) > 0 => (leg \in T <=> leg \in S \/ leg = step)
                /\ step \notin S /\ step \in LegNames /\ plan \in Plans
            BY <1>1, <2>1, <4>3, <5>1
          <6> HIDE DEF S, T, plan, frozen, step
          <6>2. /\ Worth(plan, frozen, T, a) = Worth(plan, frozen, S, a) + Bit(plan, frozen, step, a)
                /\ Bit(plan, frozen, step, a) \in Nat
            BY <6>1, WorthMore
          <6> QED BY <6>2 DEF S, T
        <5>3. \A a \in Accounts : Cleared(a)' = Cleared(a) - Bit(plan, frozen, step, a)
          <6> SUFFICES ASSUME NEW a \in Accounts
                       PROVE  Cleared(a)' = Cleared(a) - Bit(plan, frozen, step, a)
            OBVIOUS
          <6>1. bal'[a] = bal[a] - (IF b = a THEN n ELSE 0) /\ owed'[a] = owed[a]
            <7>1. bal \in [Accounts -> Int] /\ bal' = Plus(bal, b, -n)
              BY <2>5, <3>2, <4>4 DEF TypeOK
            <7> HIDE DEF b, n
            <7> QED BY <1>1, <2>2, <7>1 DEF Plus
          <6> HIDE DEF b, n
          <6> QED BY <1>5, <2>2, <2>3, <6>1 DEF Cleared
        <5>4. \A a \in Accounts :
                Cleared(a)' - Kept(a)' = Cleared(a) - Kept(a) + Gap(r, a)' - Gap(r, a)
          <6> HIDE DEF W, plan, frozen, step
          <6> QED BY <1>5, <1>8, <2>4, <5>2, <5>3
        <5> QED BY <1>4, <5>4 DEF GapMoves
      <4>5. CASE step \notin stored[r]
        <5>1. bal' = bal
          <6>1. bal \in [Accounts -> Int] /\ bal' = Plus(bal, b, -0)
            BY <2>5, <3>2, <4>5 DEF TypeOK
          <6> HIDE DEF b
          <6> QED BY <2>2, <6>1 DEF Plus
        <5>2. \A leg \in LegNames : Amount(plan, leg) > 0 => (leg \in Clawed(r)' <=> leg \in Clawed(r))
          BY <1>6, <4>2, <4>5
        <5> QED BY <1>9, <2>4, <5>1, <5>2
      <4> QED BY <4>4, <4>5
    <3>3. CASE /\ call' = [call EXCEPT ![v].mode = "refund",
                                       ![v].step = After("refund", Plan(v), @)]
               /\ bal' = bal
      <4>1. /\ call'[v].run = r /\ call'[v].mode = "refund"
            /\ call'[v].step = After("refund", plan, step)
        BY <1>1, <3>3 DEF Plan, CallRec
      <4>2. \A leg \in LegNames : Amount(plan, leg) > 0 =>
              (leg \in Walked("refund", After("refund", plan, step))
                 <=> leg \in Walked("refund", step) \/ leg = step)
        <5> HIDE DEF plan, step
        <5> QED BY <1>1, <1>10, <2>1, NextLeg
      <4>3. \A leg \in LegNames :
              leg \in Walked("refund", step) \/ leg = step <=> leg \notin Walked("claw", step)
        BY <2>1, WalkBack
      <4>4. \A leg \in LegNames : Amount(plan, leg) > 0 => (leg \in Clawed(r)' <=> leg \in Clawed(r))
        BY <1>6, <1>7, <3>1, <4>1, <4>2, <4>3 DEF Takes
      <4> QED BY <1>9, <2>4, <3>3, <4>4
    <3> QED BY <2>7, <3>2, <3>3 DEF Clawback
  <2>8. CASE Recredit(v)
    <3>1. /\ mode \in {"refund", "unwind"} /\ call' = Forward(v)
          /\ bal' = Plus(bal, b, Taken(v))
      BY <2>8 DEF Recredit, At
    <3>2. /\ call'[v].run = r /\ call'[v].mode = mode
          /\ call'[v].step = After(mode, plan, step)
      BY <1>1, <3>1 DEF Forward, Plan, CallRec
    <3>3. /\ \A leg : leg \in Clawed(r) <=> leg \in stored[r] /\ leg \notin Walked(mode, step)
          /\ \A leg : leg \in Clawed(r)' <=>
                        leg \in stored[r] /\ leg \notin Walked(mode, After(mode, plan, step))
      BY <1>6, <1>7, <3>1, <3>2 DEF Takes
    <3>4. CASE step \in stored[r]
      <4>1. /\ \A leg \in LegNames : Amount(plan, leg) > 0 =>
                 (leg \in Clawed(r) <=> leg \in Clawed(r)' \/ leg = step)
            /\ Amount(plan, step) > 0 => step \notin Clawed(r)'
        BY <2>1, <2>6, <3>3, <3>4
      <4>2. \A a \in Accounts :
              /\ W(Clawed(r), a) = W(Clawed(r)', a) + Bit(plan, frozen, step, a)
              /\ Bit(plan, frozen, step, a) \in Nat
        <5> SUFFICES ASSUME NEW a \in Accounts
                     PROVE  /\ W(Clawed(r), a) = W(Clawed(r)', a) + Bit(plan, frozen, step, a)
                            /\ Bit(plan, frozen, step, a) \in Nat
          OBVIOUS
        <5> DEFINE S == Clawed(r)'
                   T == Clawed(r)
        <5>1. /\ \A leg \in LegNames : Amount(plan, leg) > 0 => (leg \in T <=> leg \in S \/ leg = step)
              /\ Amount(plan, step) > 0 => step \notin S
              /\ step \in LegNames /\ plan \in Plans
          BY <1>1, <2>1, <4>1
        <5> HIDE DEF S, T, plan, frozen, step
        <5>2. /\ Worth(plan, frozen, T, a) = Worth(plan, frozen, S, a) + Bit(plan, frozen, step, a)
              /\ Bit(plan, frozen, step, a) \in Nat
          BY <5>1, WorthMore
        <5> QED BY <5>2 DEF S, T
      <4>3. \A a \in Accounts : Cleared(a)' = Cleared(a) + Bit(plan, frozen, step, a)
        <5> SUFFICES ASSUME NEW a \in Accounts
                     PROVE  Cleared(a)' = Cleared(a) + Bit(plan, frozen, step, a)
          OBVIOUS
        <5>1. bal'[a] = bal[a] + (IF b = a THEN n ELSE 0) /\ owed'[a] = owed[a]
          <6>1. bal \in [Accounts -> Int] /\ bal' = Plus(bal, b, n)
            BY <2>5, <3>1, <3>4 DEF TypeOK
          <6> HIDE DEF b, n
          <6> QED BY <1>1, <2>2, <6>1 DEF Plus
        <5> HIDE DEF b, n
        <5> QED BY <1>5, <2>2, <2>3, <5>1 DEF Cleared
      <4>4. \A a \in Accounts :
              Cleared(a)' - Kept(a)' = Cleared(a) - Kept(a) + Gap(r, a)' - Gap(r, a)
        <5> HIDE DEF W, plan, frozen, step
        <5> QED BY <1>5, <1>8, <2>4, <4>2, <4>3
      <4> QED BY <1>4, <4>4 DEF GapMoves
    <3>5. CASE step \notin stored[r]
      <4>1. bal' = bal
        <5>1. bal \in [Accounts -> Int] /\ bal' = Plus(bal, b, 0)
          BY <2>5, <3>1, <3>5 DEF TypeOK
        <5> HIDE DEF b
        <5> QED BY <2>2, <5>1 DEF Plus
      <4>2. \A leg \in LegNames : Amount(plan, leg) > 0 => (leg \in Clawed(r)' <=> leg \in Clawed(r))
        BY <2>6, <3>3, <3>5
      <4> QED BY <1>9, <2>4, <4>1, <4>2
    <3> QED BY <3>4, <3>5
  <2> QED BY <1>11, <2>7, <2>8
<1>12. CASE ReadRollback(v) \/ Rollback(v) \/ ReapplyRollback(v)
  <2>1. bal' = bal /\ books' = books /\ lost' = lost
    BY <1>12 DEF ReadRollback, Rollback, ReapplyRollback, money
  <2>2. \A a \in Accounts : Kept(a)' = Kept(a)
    BY <2>1 DEF Kept
  <2>3. /\ call'[v].run = r /\ call'[v].mode = mode /\ mode \in {"claw", "unwind"}
        /\ \/ step = "advance" /\ call'[v].step = "sweep"
           \/ step = "sweep" /\ call'[v].step = After(mode, plan, "sweep")
    BY <1>1, <1>12 DEF ReadRollback, Rollback, ReapplyRollback, At, Forward, Plan, CallRec
  <2>4. \A leg \in LegNames : Amount(plan, leg) > 0 =>
          (leg \in Walked(mode, call'[v].step) <=> leg \in Walked(mode, step))
    <3>1. CASE step = "advance" /\ call'[v].step = "sweep"
      BY <2>3, <3>1, ClawWalk, UnwindWalk DEF Items
    <3>2. CASE step = "sweep" /\ call'[v].step = After(mode, plan, "sweep")
      <4> HIDE DEF plan, mode
      <4> QED BY <1>1, <1>10, <2>3, <3>2, NextLeg
    <3> QED BY <2>3, <3>1, <3>2
  <2>5. \A leg \in LegNames : Amount(plan, leg) > 0 => (leg \in Clawed(r)' <=> leg \in Clawed(r))
    BY <1>6, <1>7, <2>3, <2>4 DEF Takes
  <2> QED BY <1>9, <2>1, <2>2, <2>5
<1>13. CASE PostReversal(v) \/ ReversalThrows(v)
  <2>1. bal' = bal /\ mode = "claw" /\ step = "journal"
    BY <1>13 DEF PostReversal, ReversalThrows, At
  <2>2. \A leg \in LegNames : leg \in Clawed(r) <=> leg \in stored[r]
    BY <1>6, <2>1, ClawWalk DEF Takes, Items
  <2>3. CASE PostReversal(v)
    <3>1. /\ Complete(r) /\ books' = Sub(books, Legs(r)) /\ lost' = lost
          /\ call'[v].mode = "close"
      BY <1>1, <2>3 DEF PostReversal, CallRec
    <3>2. \A a \in Accounts : Legs(r)[a] = W(Clawed(r), a)
      <4> SUFFICES ASSUME NEW a \in Accounts PROVE Legs(r)[a] = W(Clawed(r), a)
        OBVIOUS
      <4>1. Legs(r)[a] = W(LegNames, a)
        BY PostedWorth DEF Legs
      <4>2. Alike(plan, LegNames, Clawed(r))
        BY <2>2, <3>1 DEF Alike, Complete, Due
      <4> QED BY <1>1, <4>1, <4>2, WorthLaws
    <3>3. \A a \in Accounts : W(Clawed(r)', a) = 0
      <4>1. Clawed(r)' = {}
        BY <1>7, <3>1 DEF Takes
      <4> QED BY <1>1, <4>1, NothingWorth
    <3>4. \A a \in Accounts : Kept(a)' = Kept(a) - Legs(r)[a]
      <4>1. \A a \in Accounts : books'[a] = books[a] - Legs(r)[a] /\ lost'[a] = lost[a]
        BY <3>1 DEF Sub
      <4>2. \A a \in Accounts : Legs(r)[a] \in Nat
        <5> HIDE DEF W
        <5> QED BY <1>8, <3>2
      <4> QED BY <1>5, <4>1, <4>2 DEF Kept
    <3>5. \A a \in Accounts : Cleared(a)' = Cleared(a)
      BY <1>1, <2>1 DEF Cleared
    <3>6. \A a \in Accounts :
            Cleared(a)' - Kept(a)' = Cleared(a) - Kept(a) + Gap(r, a)' - Gap(r, a)
      <4> HIDE DEF W
      <4> QED BY <1>5, <1>8, <3>2, <3>3, <3>4, <3>5
    <3> QED BY <1>4, <3>6 DEF GapMoves
  <2>4. CASE ReversalThrows(v)
    <3>1. /\ call'[v].run = r /\ call'[v].mode = "unwind"
          /\ call'[v].step = After("unwind", plan, "begin")
      BY <1>1, <2>4 DEF ReversalThrows, Plan, CallRec
    <3>2. Walked("unwind", "begin") = {}
      BY WalkBegins
    <3>3. \A leg \in LegNames : Amount(plan, leg) > 0 => leg \notin Walked("unwind", call'[v].step)
      <4> HIDE DEF plan
      <4> QED BY <1>1, <1>10, <3>1, <3>2, NextLeg
    <3>4. \A leg \in LegNames : Amount(plan, leg) > 0 => (leg \in Clawed(r)' <=> leg \in Clawed(r))
      BY <1>7, <2>2, <3>1, <3>3 DEF Takes
    <3>5. \A a \in Accounts : Kept(a)' = Kept(a)
      <4>1. CASE books' = books /\ lost' = lost
        BY <4>1 DEF Kept
      <4>2. ASSUME NEW legs, books' = Sub(books, Posted(r, legs)),
                   lost' = Sub(lost, Posted(r, legs))
            PROVE  \A a \in Accounts : Kept(a)' = Kept(a)
        <5>1. \A a \in Accounts : Posted(r, legs)[a] \in Nat
          <6>1. books \in [Accounts -> Int]
            BY DEF TypeOK
          <6>2. Posted(r, legs) \in [Accounts -> Nat]
            BY <6>1, LegsType
          <6> QED BY <6>2
        <5>2. \A a \in Accounts : /\ books'[a] = books[a] - Posted(r, legs)[a]
                                  /\ lost'[a] = lost[a] - Posted(r, legs)[a]
          BY <4>2 DEF Sub
        <5> QED BY <1>5, <5>1, <5>2 DEF Kept
      <4> QED BY <2>4, <4>1, <4>2 DEF ReversalThrows
    <3> QED BY <1>9, <2>1, <3>4, <3>5
  <2> QED BY <1>13, <2>3, <2>4
<1>14. CASE RevertClaim(v) \/ UnwindEscrowForRun(v) \/ InsertSplitReversal(v)
  <2>1. bal' = bal /\ books' = books /\ lost' = lost
    BY <1>14 DEF RevertClaim, UnwindEscrowForRun, InsertSplitReversal, money
  <2>2. \A a \in Accounts : Kept(a)' = Kept(a)
    BY <2>1 DEF Kept
  <2>3. Clawed(r) = {}
    <3>1. CASE RevertClaim(v)
      <4>1. mode \in {"refund", "unwind"} /\ step = "revert"
        BY <3>1 DEF RevertClaim, At
      <4> QED BY <1>6, <1>10, <4>1, UnwindWalk DEF Takes, Items
    <3>2. CASE UnwindEscrowForRun(v) \/ InsertSplitReversal(v)
      <4>1. mode = "close"
        BY <3>2 DEF UnwindEscrowForRun, InsertSplitReversal, At
      <4> QED BY <1>6, <4>1 DEF Takes
    <3> QED BY <1>14, <3>1, <3>2
  <2>4. Clawed(r)' = {}
    <3>1. call'[v].mode \in {"close", "idle"}
      BY <1>1, <1>14 DEF RevertClaim, UnwindEscrowForRun, InsertSplitReversal, At, Idle, CallRec
    <3> QED BY <1>7, <3>1 DEF Takes
  <2> QED BY <1>9, <2>1, <2>2, <2>3, <2>4
<1> QED BY <1>2, <1>11, <1>12, <1>13, <1>14 DEF Reverse

LEMMA GapClaim ==
  ASSUME TypeOK, Held, TypeOK', NEW v \in Reversals, NEW r \in Runs, Claim(v, r)
  PROVE  GapMoves(r)
<1> DEFINE plan == saga[r].plan
           frozen == saga[r].frozen
<1>1. /\ call \in [Reversals -> CallRec] /\ plan \in Plans
      /\ UNCHANGED <<saga, stored, owed, bal, books, lost>>
  BY DEF TypeOK, CallRec, Claim, money
<1>2. /\ call[v] = Idle /\ status[r] = "posted"
      /\ \A w \in Reversals \ {v} : call'[w] = call[w]
      /\ call'[v].mode = "claw" /\ call'[v].run = r
      /\ call'[v].step = After("claw", plan, "begin")
  BY <1>1 DEF Claim, Claimable, CallRec
<1>3. r # NoRun /\ \A w \in Reversals : call[w].run # r
  BY <1>2, SplitAssumption DEF Held, Idle
<1>4. \A q \in Runs \ {r}, a \in Accounts : Gap(q, a)' = Gap(q, a)
  <2>1. \A q \in Runs \ {r} : call[v].run # q /\ call'[v].run # q
    BY <1>2, SplitAssumption DEF Idle
  <2> QED BY <1>1, <1>2, <2>1, GapFrame
<1>5. Clawed(r) = {}
  BY <1>3 DEF Clawed
<1>6. \A leg \in LegNames : Amount(plan, leg) > 0 => leg \notin Clawed(r)'
  <2>1. Walked("claw", "begin") = {} /\ "claw" \in Modes /\ "begin" \notin LegNames
    BY WalkBegins DEF Modes, LegNames
  <2>2. \A leg \in LegNames : Amount(plan, leg) > 0 => leg \notin Walked("claw", call'[v].step)
    <3> HIDE DEF plan
    <3> QED BY <1>1, <1>2, <2>1, NextLeg
  <2>3. \A leg : leg \in Clawed(r)' => \E w \in Reversals : call'[w].run = r /\ Takes(call'[w], leg)
    BY DEF Clawed, Takes
  <2> QED BY <1>2, <1>3, <2>2, <2>3 DEF Takes
<1>7. \A a \in Accounts : Gap(r, a)' = Gap(r, a)
  <2> SUFFICES ASSUME NEW a \in Accounts PROVE Gap(r, a)' = Gap(r, a)
    OBVIOUS
  <2>1. Carried(r)' = Carried(r)
    BY <1>1 DEF Carried
  <2>2. Worth(plan, frozen, Clawed(r), a) = 0
    BY <1>1, <1>5, NothingWorth
  <2>3. Worth(plan, frozen, Clawed(r)', a) = 0
    BY <1>1, <1>6, NothingWorth
  <2> QED BY <1>1, <2>1, <2>2, <2>3 DEF Gap
<1>8. \A a \in Accounts :
        /\ Cleared(a)' = Cleared(a) /\ Kept(a)' = Kept(a)
        /\ Cleared(a) \in Int /\ Kept(a) \in Int /\ Gap(r, a) \in Int
  <2>1. \A a \in Accounts : Cleared(a) \in Int /\ Kept(a) \in Int /\ Gap(r, a) \in Int
    BY GapNext DEF GapNumbers
  <2> QED BY <1>1, <2>1 DEF Cleared, Kept
<1> QED BY <1>4, <1>7, <1>8 DEF GapMoves

LEMMA SweptAdds ==
  ASSUME NEW l \in Lockers, NEW f \in [Accounts -> Int], NEW a \in Accounts,
         locker[l].available \in Int, locker[l].pending \in Int
  PROVE  Swept(f, l)[a] = f[a] + Swept(Nothing, l)[a]
BY DEF Swept, Nothing, Accounts

(* The dispute calls, releases and payouts. *)
LEMMA BridgeOther ==
  ASSUME TypeOK, TypeOK', Downward, Bridged, OtherStep
  PROVE  Bridged'
<1>1. owed' = owed /\ \A q \in Runs, a \in Accounts : Gap(q, a)' = Gap(q, a)
  <2>1. UNCHANGED <<owed, saga, call, stored>>
    BY DEF OtherStep, Lock, ReadVault, DecideLock, DecideUnlock, MoveFrozen, PostSweep,
       SweepThrows, UpsertDispute, ReleaseVaultPending, PayoutFromVault, runs, undo
  <2> QED BY <2>1, GapFrame
<1>2. \A a \in Accounts :
        /\ bal[a] \in Int /\ books[a] \in Int /\ lost[a] \in Int /\ owed[a] \in Int
        /\ bal[a]' \in Int /\ books[a]' \in Int /\ lost[a]' \in Int
  BY DEF TypeOK
<1>3. ASSUME NEW l \in Lockers, Lock(l) PROVE Bridged'
  <2>1. /\ locker \in [Lockers -> LockRec] /\ books \in [Accounts -> Int]
        /\ bal \in [Accounts -> Int] /\ lost \in [Accounts -> Int]
        /\ locker[l].available \in Int /\ locker[l].pending \in Int
        /\ locker[l].step \in Underway => locker[l].available >= 0 /\ locker[l].pending >= 0
    BY DEF TypeOK, LockRec, Downward
  <2>2. \A k \in Lockers \ {l} : locker'[k] = locker[k]
    BY <1>3, <2>1 DEF Lock, ReadVault, DecideLock, DecideUnlock, MoveFrozen, PostSweep,
       SweepThrows, UpsertDispute
  <2>3. \A a \in Accounts : Swept(Nothing, l)[a] \in Int
    BY <2>1 DEF Swept, Nothing, Accounts
  <2>4. \A a \in Accounts :
          /\ Swing(l, a) \in Int /\ Swing(l, a)' \in Int
          /\ bal[a]' - (books[a]' - lost[a]')
               = bal[a] - (books[a] - lost[a]) + Swing(l, a)' - Swing(l, a)
    <3>1. CASE MoveFrozen(l) /\ Covered(l)
      <4>1. /\ bal' = Swept(bal, l) /\ books' = books /\ lost' = lost
            /\ locker[l].step = "move"
            /\ locker'[l].locked = locker[l].locked
            /\ locker'[l].available = locker[l].available
            /\ locker'[l].pending = locker[l].pending
            /\ locker'[l].step = IF locker[l].available + locker[l].pending > 0
                                 THEN "journal" ELSE "upsert"
        BY <2>1, <3>1 DEF MoveFrozen, LockRec
      <4>2. \A a \in Accounts : Swing(l, a) = 0 /\ bal'[a] = bal[a] + Swept(Nothing, l)[a]
        BY <2>1, <4>1, SweptAdds DEF Swing
      <4>3. \A a \in Accounts : Swing(l, a)' = Swept(Nothing, l)[a]
        <5>1. Swept(Nothing, l)' = Swept(Nothing, l)
          BY <4>1 DEF Swept, Nothing
        <5>2. CASE locker[l].available + locker[l].pending > 0
          BY <4>1, <5>1, <5>2 DEF Swing
        <5>3. CASE locker[l].available = 0 /\ locker[l].pending = 0
          <6>1. \A a \in Accounts : Swept(Nothing, l)[a] = 0
            BY <5>3 DEF Swept, Nothing, Accounts
          <6> QED BY <4>1, <5>3, <6>1 DEF Swing
        <5>4. locker[l].available >= 0 /\ locker[l].pending >= 0
          BY <2>1, <4>1 DEF Underway
        <5> QED BY <2>1, <5>2, <5>3, <5>4
      <4> QED BY <1>2, <2>3, <4>1, <4>2, <4>3
    <3>2. CASE PostSweep(l)
      <4>1. /\ books' = Swept(books, l) /\ bal' = bal /\ lost' = lost
            /\ locker[l].step = "journal" /\ locker'[l].step = "upsert"
        BY <2>1, <3>2 DEF PostSweep, LockRec
      <4>2. \A a \in Accounts :
              /\ Swing(l, a) = Swept(Nothing, l)[a] /\ Swing(l, a)' = 0
              /\ books'[a] = books[a] + Swept(Nothing, l)[a]
        BY <2>1, <4>1, SweptAdds DEF Swing
      <4> QED BY <1>2, <2>3, <4>1, <4>2
    <3>3. CASE SweepThrows(l)
      <4>1. /\ bal' = bal /\ locker[l].step = "journal" /\ locker'[l].step = "idle"
            /\ \A a \in Accounts : lost'[a] = lost[a] + books'[a] - Swept(books, l)[a]
        BY <2>1, <3>3 DEF SweepThrows, LockRec, Free
      <4>2. \A a \in Accounts :
              /\ Swing(l, a) = Swept(Nothing, l)[a] /\ Swing(l, a)' = 0
              /\ Swept(books, l)[a] = books[a] + Swept(Nothing, l)[a]
        BY <2>1, <4>1, SweptAdds DEF Swing
      <4> QED BY <1>2, <2>3, <4>1, <4>2
    <3>4. CASE ~(MoveFrozen(l) /\ Covered(l)) /\ ~PostSweep(l) /\ ~SweepThrows(l)
      <4>1. /\ UNCHANGED <<bal, books, lost>>
            /\ locker[l].step # "journal" /\ locker'[l].step # "journal"
        BY <1>3, <2>1, <3>4 DEF Lock, ReadVault, DecideLock, DecideUnlock, MoveFrozen,
           PostSweep, UpsertDispute, money, LockRec, Free
      <4>2. \A a \in Accounts : Swing(l, a) = 0 /\ Swing(l, a)' = 0
        BY <4>1 DEF Swing
      <4> QED BY <1>2, <4>1, <4>2
    <3> QED BY <3>1, <3>2, <3>3, <3>4
  <2>5. \A a \in Accounts :
          Cleared(a)' - Kept(a)' = Cleared(a) - Kept(a) + Swing(l, a)' - Swing(l, a)
    <3> SUFFICES ASSUME NEW a \in Accounts
                 PROVE  Cleared(a)' - Kept(a)' = Cleared(a) - Kept(a) + Swing(l, a)' - Swing(l, a)
      OBVIOUS
    <3>1. bal[a]' - owed[a] - (books[a]' - lost[a]')
            = bal[a] - owed[a] - (books[a] - lost[a]) + Swing(l, a)' - Swing(l, a)
      BY <1>2, <2>4
    <3> QED BY <1>1, <3>1 DEF Cleared, Kept
  <2> QED BY <1>1, <2>2, <2>5, BridgeLock
<1>4. CASE ReleaseVaultPending \/ PayoutFromVault
  <2>1. locker' = locker /\ lost' = lost
    BY <1>4 DEF ReleaseVaultPending, PayoutFromVault, lock
  <2>2. \A a \in Accounts : bal[a]' - books[a]' = bal[a] - books[a]
    <3>1. CASE ReleaseVaultPending
      <4> DEFINE n == bal["pending"]
      <4>1. /\ bal' = Plus(Plus(bal, "pending", -n), "available", n)
            /\ books' = Plus(Plus(books, "pending", -n), "available", n)
            /\ n \in Int /\ bal \in [Accounts -> Int] /\ books \in [Accounts -> Int]
        BY <3>1 DEF ReleaseVaultPending, TypeOK, Accounts
      <4> HIDE DEF n
      <4> QED BY <1>2, <4>1 DEF Plus, Accounts
    <3>2. CASE PayoutFromVault
      BY <1>2, <3>2 DEF PayoutFromVault, Plus, TypeOK, Accounts
    <3> QED BY <1>4, <3>1, <3>2
  <2>3. \A a \in Accounts : /\ RunGap(a)' = RunGap(a) /\ LockGap(a)' = LockGap(a)
                            /\ Cleared(a)' - Kept(a)' = Cleared(a) - Kept(a)
    <3> SUFFICES ASSUME NEW a \in Accounts
                 PROVE  /\ RunGap(a)' = RunGap(a) /\ LockGap(a)' = LockGap(a)
                        /\ Cleared(a)' - Kept(a)' = Cleared(a) - Kept(a)
      OBVIOUS
    <3>1. RunGap(a)' = RunGap(a)
      BY <1>1 DEF RunGap
    <3>2. LockGap(a)' = LockGap(a)
      BY <2>1 DEF LockGap, Swing, Swept
    <3>3. bal[a]' - owed[a]' - (books[a]' - lost[a]') = bal[a] - owed[a] - (books[a] - lost[a])
      BY <1>1, <1>2, <2>1, <2>2
    <3> QED BY <3>1, <3>2, <3>3 DEF Cleared, Kept
  <2> QED BY <2>3 DEF Bridged
<1> QED BY <1>3, <1>4 DEF OtherStep

LEMMA BridgedAlways == Spec => []Bridged
<1>1. Init => Bridged
  <2> SUFFICES ASSUME Init, NEW a \in Accounts
               PROVE  /\ Summable(Runs, RunGap(a)) /\ Summable(Lockers, LockGap(a))
                      /\ Cleared(a) - Kept(a) = SumOf(Runs, RunGap(a)) + SumOf(Lockers, LockGap(a))
    BY DEF Bridged
  <2> DEFINE f == RunGap(a)
             h == LockGap(a)
  <2>1. f \in [Runs -> Int] /\ \A r \in Runs : f[r] = 0
    <3> SUFFICES ASSUME NEW r \in Runs PROVE Gap(r, a) = 0
      BY DEF RunGap
    <3>1. Carried(r) = {} /\ Clawed(r) = {}
      BY DEF Init, Carried, Clawed, Unborn
    <3>2. saga[r].plan \in Plans
      BY DEF Init, Unborn, Plans
    <3>3. Worth(saga[r].plan, saga[r].frozen, {}, a) = 0
      BY <3>2, NothingWorth
    <3> QED BY <3>1, <3>3 DEF Gap
  <2>2. h \in [Lockers -> Int] /\ \A l \in Lockers : h[l] = 0
    BY DEF Init, LockGap, Swing, Free
  <2>3. Cleared(a) - Kept(a) = 0
    BY DEF Init, Cleared, Kept, Nothing
  <2> HIDE DEF f, h
  <2>4. Summable(Runs, f) /\ SumOf(Runs, f) = 0
    BY <2>1, SumNothing
  <2>5. Summable(Lockers, h) /\ SumOf(Lockers, h) = 0
    BY <2>2, SumNothing
  <2> QED BY <2>3, <2>4, <2>5 DEF f, h
<1>2. IInv /\ IInv' /\ OneBucket /\ Bridged /\ [Next]_vars => Bridged'
  <2> SUFFICES ASSUME IInv, IInv', OneBucket, Bridged, [Next]_vars PROVE Bridged'
    OBVIOUS
  <2> USE DEF IInv
  <2>1. ASSUME NEW r \in Runs, Saga(r) PROVE Bridged'
    <3>1. locker' = locker
      BY <2>1 DEF Saga, Begin, ApplyWithholding, IsIncomingFrozen, ReadAdvance, Sweep,
         CreditVault, PostIngest, IngestThrows, DebitBack, RereadAdvance, SweepBack,
         UnwindEscrowRow, lock
    <3> QED BY <2>1, <3>1, GapSaga, BridgeRun
  <2>2. ASSUME NEW v \in Reversals, Reverse(v) PROVE Bridged'
    <3>1. locker' = locker
      BY <2>2 DEF Reverse, Claim, Clawback, Recredit, ReadRollback, Rollback,
         ReapplyRollback, PostReversal, ReversalThrows, RevertClaim, UnwindEscrowForRun,
         InsertSplitReversal, lock
    <3>2. CASE call[v].run \in Runs
      BY <2>2, <3>1, <3>2, GapReverse, BridgeRun
    <3>3. CASE call[v].run \notin Runs
      <4>1. call[v].mode = "idle"
        BY <3>3 DEF Held, TypeOK
      <4>2. PICK r \in Runs : Claim(v, r)
        BY <2>2, <4>1 DEF Reverse, Clawback, Recredit, ReadRollback, Rollback,
           ReapplyRollback, PostReversal, ReversalThrows, RevertClaim, UnwindEscrowForRun,
           InsertSplitReversal, At
      <4> QED BY <3>1, <4>2, GapClaim, BridgeRun
    <3> QED BY <3>2, <3>3
  <2>3. CASE OtherStep
    BY <2>3, BridgeOther DEF OneBucket
  <2>4. CASE UNCHANGED vars
    <3>1. UNCHANGED <<bal, books, owed, lost, saga, call, stored, locker>>
      BY <2>4 DEF vars, money, runs, undo, lock
    <3>2. \A r \in Runs : \A a : Gap(r, a)' = Gap(r, a)
      BY <3>1, GapFrame
    <3>3. \A a : Cleared(a)' = Cleared(a) /\ Kept(a)' = Kept(a)
      BY <3>1 DEF Cleared, Kept
    <3>4. \A a : RunGap(a)' = RunGap(a) /\ LockGap(a)' = LockGap(a)
      BY <3>1, <3>2 DEF RunGap, LockGap, Swing, Swept
    <3> QED BY <3>3, <3>4 DEF Bridged
  <2> QED BY <2>1, <2>2, <2>3, <2>4 DEF Next, OtherStep
<1> QED BY <1>1, <1>2, Inductive, BucketAlways, PTL DEF Spec

(* Whatever failed, was refused or was stored in part: once every call has *)
(* ended, vault and journals differ by what the failed sagas' messages     *)
(* name as not debited back (udrSplits.ts:108) and by what posts that      *)
(* threw had stored (ledger/engine.ts:90), and by nothing else.            *)
THEOREM BooksMatchVaults == Spec => []VaultsMatchBooks
<1>1. IInv /\ Bridged => VaultsMatchBooks
  <2> SUFFICES ASSUME IInv, Bridged, Quiet
               PROVE  bal = [a \in Accounts |-> books[a] - lost[a] + owed[a]]
    BY DEF VaultsMatchBooks
  <2> USE DEF IInv
  <2>1. \A r \in Runs : Carried(r) = {} /\ Clawed(r) = {}
    <3>1. \A r \in Runs : Carried(r) = {}
      BY DEF Quiet, Ended, Carried
    <3>2. \A r \in Runs, v \in Reversals : call[v].run # r
      BY SplitAssumption DEF Quiet, Idle
    <3> QED BY <3>1, <3>2 DEF Clawed
  <2>2. ASSUME NEW a \in Accounts PROVE bal[a] = books[a] - lost[a] + owed[a]
    <3> DEFINE f == RunGap(a)
               h == LockGap(a)
    <3>1. f \in [Runs -> Int] /\ \A r \in Runs : f[r] = 0
      <4> SUFFICES ASSUME NEW r \in Runs PROVE Gap(r, a) = 0
        BY DEF RunGap
      <4>1. saga[r].plan \in Plans
        BY DEF TypeOK
      <4>2. Worth(saga[r].plan, saga[r].frozen, {}, a) = 0
        BY <4>1, NothingWorth
      <4> QED BY <2>1, <4>2 DEF Gap
    <3>2. h \in [Lockers -> Int] /\ \A l \in Lockers : h[l] = 0
      BY DEF Quiet, LockGap, Swing
    <3>3. Cleared(a) - Kept(a) = SumOf(Runs, f) + SumOf(Lockers, h)
      BY DEF Bridged
    <3>4. bal[a] \in Int /\ books[a] \in Int /\ lost[a] \in Int /\ owed[a] \in Int
      BY DEF TypeOK
    <3> HIDE DEF f, h
    <3>5. SumOf(Runs, f) = 0 /\ SumOf(Lockers, h) = 0
      BY <3>1, <3>2, SumNothing
    <3> QED BY <3>3, <3>4, <3>5 DEF Cleared, Kept
  <2>3. bal \in [Accounts -> Int]
    BY DEF TypeOK
  <2> QED BY <2>2, <2>3
<1> QED BY <1>1, Inductive, BridgedAlways, PTL
=============================================================================
