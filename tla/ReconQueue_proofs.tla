-------------------------- MODULE ReconQueue_proofs ------------------------
(***************************************************************************)
(* The reconciliation queue keeps its books for any number of jobs,        *)
(* workers and lines, any overlap of ingests and any sharing of lines: a   *)
(* line is credited once unless a post of it was disturbed, every journal  *)
(* has its credit, and the queue implements JobBoard.                      *)
(***************************************************************************)
EXTENDS ReconQueue, TLAPS

Active(w) == worker[w].step # "idle"

(* A claim is identified by its job and attempt, which are never reused.   *)
Claims ==
  /\ \A w \in Workers : Active(w) => worker[w].attempt <= attempts[worker[w].job]
  /\ \A w \in Workers : At(w, "refuse") => worker[w].seen <= attempts[worker[w].job]
  /\ \A w, v \in Workers :
       Active(w) /\ Active(v) /\ worker[w].job = worker[v].job
         /\ worker[w].attempt = worker[v].attempt => w = v
  /\ \A c \in credits : c.attempt <= attempts[c.job]

(* What a pass has left to do and what it has done.                        *)
Progress(w) ==
  /\ worker[w].left \cap worker[w].todo = {}
  /\ worker[w].todo \subseteq queue
  /\ worker[w].step # "pass" => worker[w].left = {}
  /\ worker[w].step \in {"complete", "fail", "refuse"} => worker[w].todo = {}
  /\ worker[w].step \in {"row", "journal"} => worker[w].line \in worker[w].todo
  /\ worker[w].step \in {"pass", "row", "journal", "complete"} =>
       LinesOf[worker[w].job] \subseteq worker[w].left \cup worker[w].todo \cup Secured

(* Of the lines it has not finished, a claim has credited at most the one  *)
(* whose journal comes next.                                               *)
Own(w) ==
  /\ At(w, "journal") => Post(w) \in credits
  /\ \A c \in credits :
       /\ c.job = worker[w].job /\ c.attempt = worker[w].attempt
       /\ c.line \in worker[w].left \cup worker[w].todo
       => At(w, "journal") /\ c = Post(w)

Passes == \A w \in Workers : Active(w) => Progress(w) /\ Own(w)

(* An undisturbed line is in the hands of one worker at most, and a credit *)
(* of it has its journal or a worker about to write it.                    *)
Alone ==
  /\ \A w, v \in Workers :
       worker[w].line = worker[v].line /\ worker[w].line \in Lines \ disturbed => w = v
  /\ \A w \in Workers : worker[w].line \in Lines \ disturbed =>
       /\ ~Posted(w, worker[w].line)
       /\ At(w, "row") => \A c \in credits : c.line # worker[w].line
  /\ \A c \in credits : c.line \notin disturbed =>
       \/ \E p \in journals : p.line = c.line
       \/ \E w \in Workers : At(w, "journal") /\ worker[w].line = c.line

IInv ==
  /\ TypeOK /\ Claims /\ Passes /\ Alone
  /\ JournalsHaveCredits /\ CreditedOnce
-----------------------------------------------------------------------------
(* Shapes of a worker's record. *)

LEMMA ActiveType ==
  ASSUME TypeOK, NEW w \in Workers
  PROVE  /\ worker[w] = Idle <=> ~Active(w)
         /\ Active(w) => worker[w] \in Busy
         /\ worker[w].line \in Lines \cup {NoLine}
         /\ worker[w].job = NoJob <=> ~Active(w)
BY QueueAssumption DEF TypeOK, Active, Idle, Busy

(* A new record of one worker keeps the type of all. *)
LEMMA WorkerType ==
  ASSUME TypeOK, NEW w \in Workers, NEW new \in Busy \cup {Idle},
         worker' = [worker EXCEPT ![w] = new],
         new.line # NoLine <=> new.step \in {"row", "journal"}
  PROVE  /\ worker' \in [Workers -> Busy \cup {Idle}]
         /\ \A v \in Workers :
              worker'[v].line # NoLine <=> worker'[v].step \in {"row", "journal"}
BY DEF TypeOK

LEMMA PostType ==
  ASSUME TypeOK, NEW w \in Workers, worker[w].step \in {"row", "journal"}
  PROVE  /\ Post(w) \in Posts
         /\ Post(w).line = worker[w].line
         /\ Post(w).job = worker[w].job
         /\ Post(w).attempt = worker[w].attempt
<1>1. worker[w] \in Busy
  BY ActiveType DEF Active
<1>2. worker[w].line \in Lines
  BY <1>1 DEF TypeOK, Busy
<1> QED BY <1>1, <1>2 DEF Post, Posts, Kind, Kinds, Busy

-----------------------------------------------------------------------------
(* Type correctness. *)

LEMMA TypeTable ==
  ASSUME TypeOK, NEW j \in Jobs, CreateReconJob(j) \/ GoStale(j)
  PROVE  TypeOK'
BY DEF TypeOK, CreateReconJob, GoStale, ledger, Open, Terminal

LEMMA TypeRegister ==
  ASSUME TypeOK, NEW e \in Lines, Register(e)
  PROVE  TypeOK'
BY DEF TypeOK, Register, table, ledger

LEMMA TypeClaim ==
  ASSUME TypeOK, NEW w \in Workers, ClaimReconJob(w)
  PROVE  TypeOK'
<1>1. PICK j \in Jobs :
        /\ Claimable(j)
        /\ stale' = stale \ {j}
        /\ IF Spent(j)
           THEN /\ status' = [status EXCEPT ![j] = "failed"]
                /\ UNCHANGED <<attempts, worker>>
           ELSE /\ status' = [status EXCEPT ![j] = "processing"]
                /\ attempts' = [attempts EXCEPT ![j] = @ + 1]
                /\ worker' = [worker EXCEPT ![w] =
                     [Idle EXCEPT !.step = "pass", !.job = j,
                                  !.attempt = attempts[j] + 1,
                                  !.left = LinesOf[j]]]
  BY DEF ClaimReconJob
<1>2. UNCHANGED <<known, queue, credits, journals, disturbed>>
  BY DEF ClaimReconJob, ledger
<1>3. CASE Spent(j)
  BY <1>1, <1>2, <1>3 DEF TypeOK, Terminal
<1>4. CASE ~Spent(j)
  <2> DEFINE new == [Idle EXCEPT !.step = "pass", !.job = j,
                       !.attempt = attempts[j] + 1, !.left = LinesOf[j]]
  <2>1. attempts[j] + 1 \in 1 .. MaxAttempts
    BY <1>4, QueueAssumption DEF TypeOK, Spent
  <2>0. LinesOf[j] \in SUBSET Lines
    BY QueueAssumption
  <2>2. new \in Busy /\ new.line = NoLine /\ new.step = "pass"
    <3>1. 0 \in 0 .. MaxAttempts
      BY QueueAssumption
    <3>2. new \in Busy
      BY <2>0, <2>1, <3>1 DEF Idle, Busy
    <3>3. new.line = NoLine /\ new.step = "pass"
      BY DEF Idle
    <3> QED BY <3>2, <3>3
  <2>3. worker' = [worker EXCEPT ![w] = new]
    BY <1>1, <1>4
  <2> HIDE DEF new
  <2>4. /\ worker' \in [Workers -> Busy \cup {Idle}]
        /\ \A v \in Workers :
             worker'[v].line # NoLine <=> worker'[v].step \in {"row", "journal"}
    BY <2>2, <2>3, WorkerType
  <2>5. /\ status' \in [Jobs -> {"none"} \cup Open \cup Terminal]
        /\ attempts' \in [Jobs -> 0 .. MaxAttempts]
    BY <1>1, <1>4, <2>1 DEF TypeOK, Open
  <2>6. stale' \subseteq {i \in Jobs : status'[i] = "processing"}
    BY <1>1, <1>4 DEF TypeOK
  <2> QED BY <1>2, <2>4, <2>5, <2>6 DEF TypeOK
<1> QED BY <1>3, <1>4

LEMMA TypePass ==
  ASSUME TypeOK, NEW w \in Workers, Pass(w)
  PROVE  TypeOK'
<1> USE DEF At, table, ledger
<1>a. worker[w] \in Busy
  BY ActiveType DEF Active, Pass, WriteLine, CheckPosted, InsertCredit, PostJournal,
     ReadForComplete, Done, CompleteReconJob, ReadForFail, FailReconJob
<1>b. Idle.line = NoLine /\ Idle.step = "idle"
  BY DEF Idle
<1>1. CASE WriteLine(w)
  <2>1. PICK e \in worker[w].left :
          LET hit == e \in known
              post == e \in Postable /\ (hit \/ e \in Identified)
          IN  /\ queue' = queue \cup {e}
              /\ worker' = [worker EXCEPT
                   ![w].left = @ \ {e},
                   ![w].hits = IF hit THEN @ \cup {e} ELSE @,
                   ![w].todo = IF post THEN @ \cup {e} ELSE @]
    BY <1>1 DEF WriteLine
  <2> DEFINE new == [worker[w] EXCEPT
               !.left = @ \ {e},
               !.hits = IF e \in known THEN @ \cup {e} ELSE @,
               !.todo = IF e \in Postable /\ (e \in known \/ e \in Identified)
                        THEN @ \cup {e} ELSE @]
  <2>2. e \in Lines
    BY <1>a DEF Busy
  <2>3. new \in Busy /\ new.line = worker[w].line /\ new.step = worker[w].step
    BY <1>a, <2>2 DEF Busy
  <2>4. worker' = [worker EXCEPT ![w] = new]
    BY <2>1 DEF TypeOK
  <2> HIDE DEF new
  <2>5. new.line # NoLine <=> new.step \in {"row", "journal"}
    BY <2>3 DEF TypeOK
  <2> QED BY <1>1, <2>1, <2>2, <2>3, <2>4, <2>5, WorkerType DEF TypeOK, WriteLine
<1>2. CASE CheckPosted(w)
  <2>1. PICK e \in Turn(w) :
       IF Posted(w, e)
       THEN /\ worker' = [worker EXCEPT ![w].todo = @ \ {e}]
            /\ UNCHANGED disturbed
       ELSE /\ worker' = [worker EXCEPT ![w].step = "row", ![w].line = e]
            /\ disturbed' = IF Past(w, e) = {} THEN disturbed
                                               ELSE disturbed \cup {e}
    BY <1>2 DEF CheckPosted
  <2>2. e \in Lines /\ e # NoLine
    BY <1>a, QueueAssumption DEF Turn, Busy
  <2> DEFINE new == IF Posted(w, e) THEN [worker[w] EXCEPT !.todo = @ \ {e}]
                    ELSE [worker[w] EXCEPT !.step = "row", !.line = e]
  <2>3. new \in Busy /\ (new.line # NoLine <=> new.step \in {"row", "journal"})
    BY <1>2, <1>a, <2>2 DEF Busy, TypeOK, CheckPosted
  <2>4. worker' = [worker EXCEPT ![w] = new]
    BY <2>1 DEF TypeOK
  <2> HIDE DEF new
  <2>5. disturbed' \subseteq Lines
    BY <2>1, <2>2 DEF TypeOK
  <2> QED BY <1>2, <2>3, <2>4, <2>5, WorkerType DEF TypeOK, CheckPosted
<1>3. CASE InsertCredit(w)
  <2> DEFINE new == [worker[w] EXCEPT !.step = "journal"]
  <2>1. new \in Busy /\ new.line = worker[w].line /\ new.step = "journal"
    BY <1>a DEF Busy
  <2>2. worker' = [worker EXCEPT ![w] = new]
    BY <1>3 DEF InsertCredit, Go
  <2>3. new.line # NoLine
    BY <1>3, <2>1 DEF TypeOK, InsertCredit
  <2> HIDE DEF new
  <2>4. credits' \subseteq Posts
    BY <1>3, PostType DEF InsertCredit, TypeOK
  <2> QED BY <1>3, <2>1, <2>2, <2>3, <2>4, WorkerType DEF TypeOK, InsertCredit
<1>4. CASE PostJournal(w)
  <2> DEFINE new == [worker[w] EXCEPT !.step = "pass", !.line = NoLine,
                                      !.todo = @ \ {worker[w].line}]
  <2>1. new \in Busy /\ new.line = NoLine /\ new.step = "pass"
    BY <1>a DEF Busy
  <2>2. worker' = [worker EXCEPT ![w] = new]
    BY <1>4 DEF PostJournal, TypeOK
  <2> HIDE DEF new
  <2>4. journals' \subseteq Posts
    BY <1>4, PostType DEF PostJournal, TypeOK
  <2> QED BY <1>4, <2>1, <2>2, <2>4, WorkerType DEF TypeOK, PostJournal
<1>5. CASE ReadForComplete(w)
  <2> DEFINE new == IF status[worker[w].job] \in Terminal THEN Idle
                    ELSE [worker[w] EXCEPT !.step = "complete"]
  <2>1. new \in Busy \cup {Idle} /\ new.line = NoLine
        /\ new.step \in {"idle", "complete"}
    BY <1>a, <1>b, <1>5 DEF Busy, ReadForComplete, Done, TypeOK
  <2>2. worker' = [worker EXCEPT ![w] = new]
    BY <1>5 DEF ReadForComplete, Go, End
  <2> HIDE DEF new
  <2> QED BY <1>5, <2>1, <2>2, WorkerType DEF TypeOK, ReadForComplete
<1>6. CASE CompleteReconJob(w)
  <2>1. /\ worker' \in [Workers -> Busy \cup {Idle}]
        /\ \A v \in Workers :
             worker'[v].line # NoLine <=> worker'[v].step \in {"row", "journal"}
    BY <1>6, <1>b, WorkerType DEF CompleteReconJob, End
  <2> QED BY <1>6, <1>a, <2>1 DEF TypeOK, CompleteReconJob, Terminal, Busy
<1>7. CASE ReadForFail(w)
  <2> DEFINE new == IF status[worker[w].job] \in Terminal THEN Idle
                    ELSE [worker[w] EXCEPT !.step = "refuse",
                                           !.seen = attempts[worker[w].job]]
  <2>0. attempts[worker[w].job] \in 0 .. MaxAttempts
    BY <1>a DEF TypeOK, Busy
  <2>1. new \in Busy \cup {Idle} /\ new.line = NoLine
        /\ new.step \in {"idle", "refuse"}
    BY <1>a, <1>b, <1>7, <2>0 DEF Busy, ReadForFail, TypeOK
  <2>2. worker' = [worker EXCEPT ![w] = new]
    BY <1>7 DEF ReadForFail, End, TypeOK
  <2> HIDE DEF new
  <2> QED BY <1>7, <2>1, <2>2, WorkerType DEF TypeOK, ReadForFail
<1>8. CASE FailReconJob(w)
  <2>1. /\ worker' \in [Workers -> Busy \cup {Idle}]
        /\ \A v \in Workers :
             worker'[v].line # NoLine <=> worker'[v].step \in {"row", "journal"}
    BY <1>8, <1>b, WorkerType DEF FailReconJob, End
  <2> QED BY <1>8, <1>a, <2>1 DEF TypeOK, FailReconJob, Terminal, Open, Busy
<1> QED BY <1>1, <1>2, <1>3, <1>4, <1>5, <1>6, <1>7, <1>8 DEF Pass

LEMMA TypeFault ==
  ASSUME TypeOK, NEW w \in Workers, Throw(w) \/ Drop(w)
  PROVE  TypeOK'
<1> USE DEF At, table, ledger
<1>1. disturbed' \subseteq Lines
  BY QueueAssumption, ActiveType DEF TypeOK, Throw, Drop, CutShort
<1>2. CASE Throw(w)
  <2> DEFINE new == [worker[w] EXCEPT !.step = "fail", !.left = {},
                       !.hits = {}, !.todo = {}, !.line = NoLine]
  <2>1. worker[w] \in Busy
    BY <1>2, ActiveType DEF Throw, Active
  <2>2. new \in Busy /\ new.line = NoLine /\ new.step = "fail"
    BY <2>1 DEF Busy
  <2>3. worker' = [worker EXCEPT ![w] = new]
    BY <1>2 DEF Throw, TypeOK
  <2> HIDE DEF new
  <2> QED BY <1>1, <1>2, <2>2, <2>3, WorkerType DEF TypeOK, Throw
<1>3. CASE Drop(w)
  <2>1. Idle.line = NoLine /\ Idle.step = "idle"
    BY DEF Idle
  <2> QED BY <1>1, <1>3, <2>1, WorkerType DEF TypeOK, Drop
<1> QED BY <1>2, <1>3

LEMMA TypeInit == Init => TypeOK
BY QueueAssumption DEF Init, TypeOK, Open, Terminal, Idle

LEMMA TypeStep == TypeOK /\ [Next]_vars => TypeOK'
<1> SUFFICES ASSUME TypeOK, [Next]_vars PROVE TypeOK'
  OBVIOUS
<1>1. CASE UNCHANGED vars
  BY <1>1 DEF TypeOK, vars, table, ledger
<1>2. CASE Next
  BY <1>2, TypeTable, TypeRegister, TypeClaim, TypePass, TypeFault DEF Next
<1> QED BY <1>1, <1>2

(* Every variable keeps the values of its column or process, whatever the  *)
(* number of jobs, workers and lines: no claim goes past the budget.       *)
THEOREM TypeCorrect == Spec => []TypeOK
BY TypeInit, TypeStep, PTL DEF Spec

-----------------------------------------------------------------------------
(* The inductive invariant. *)

(* A worker that gives its pass up, ends it or goes on to its verdict.     *)
LEMMA Retire ==
  ASSUME IInv, NEW w \in Workers, NEW new,
         worker' = [worker EXCEPT ![w] = new],
         new.line = NoLine, new.left = {}, new.todo = {},
         new.step \in {"idle", "complete", "fail", "refuse"},
         new.step # "idle" => /\ Active(w) /\ new.job = worker[w].job
                              /\ new.attempt = worker[w].attempt,
         new.step = "complete" => LinesOf[worker[w].job] \subseteq Secured,
         new.step = "refuse" => new.seen <= attempts[worker[w].job],
         UNCHANGED <<attempts, queue, credits, journals>>, CutShort(w)
  PROVE  Claims' /\ Passes' /\ Alone' /\ JournalsHaveCredits' /\ CreditedOnce'
<1>1. /\ worker'[w] = new
      /\ \A v \in Workers \ {w} : worker'[v] = worker[v]
  BY DEF IInv, TypeOK
<1>2. disturbed \subseteq disturbed'
  BY DEF CutShort
<1>3. Claims'
  BY <1>1 DEF IInv, Claims, Active, At
<1>4. Secured' = Secured
  BY DEF Secured
<1>5. ASSUME NEW v \in Workers, Active(v)'
      PROVE  Progress(v)' /\ Own(v)'
  <2>1. CASE v = w
    BY <1>1, <1>4, <2>1 DEF Progress, Own, At, Active
  <2>2. CASE v # w
    <3>1. Progress(v) /\ Own(v) /\ worker'[v] = worker[v]
      BY <1>1, <1>5, <2>2 DEF IInv, Passes, Active
    <3>2. Progress(v)'
      BY <3>1, <1>4 DEF Progress
    <3> QED BY <3>1, <3>2 DEF Own, At, Post, Kind
  <2> QED BY <2>1, <2>2
<1>6. Passes'
  BY <1>5 DEF Passes
<1>7. Alone'
  <2>1. \A v, u \in Workers :
          worker'[v].line = worker'[u].line /\ worker'[v].line \in Lines \ disturbed' => v = u
    BY <1>1, <1>2, QueueAssumption DEF IInv, Alone
  <2>2. \A v \in Workers : worker'[v].line \in Lines \ disturbed' =>
          /\ v # w
          /\ worker[v].line \in Lines \ disturbed /\ worker'[v] = worker[v]
    BY <1>1, <1>2, QueueAssumption
  <2>3. \A v \in Workers : worker'[v].line \in Lines \ disturbed' =>
          /\ ~Posted(v, worker[v].line)'
          /\ At(v, "row")' => \A c \in credits' : c.line # worker'[v].line
    BY <2>2 DEF IInv, Alone, Posted, At
  <2>4. ASSUME NEW c \in credits, c.line \notin disturbed'
        PROVE  \/ \E p \in journals' : p.line = c.line
               \/ \E v \in Workers : At(v, "journal")' /\ worker'[v].line = c.line
    <3>1. c.line \notin disturbed
      BY <1>2, <2>4
    <3>2. CASE \E p \in journals : p.line = c.line
      BY <3>2
    <3>3. CASE \E v \in Workers : At(v, "journal") /\ worker[v].line = c.line
      <4>1. PICK v \in Workers : At(v, "journal") /\ worker[v].line = c.line
        BY <3>3
      <4>2. v # w
        BY <4>1, <2>4 DEF CutShort
      <4> QED BY <1>1, <4>1, <4>2 DEF At
    <3> QED BY <3>1, <3>2, <3>3 DEF IInv, Alone
  <2> QED BY <2>1, <2>2, <2>3, <2>4 DEF Alone
<1>8. JournalsHaveCredits'
  BY DEF IInv, JournalsHaveCredits
<1>9. CreditedOnce'
  BY <1>2 DEF IInv, CreditedOnce
<1> QED BY <1>3, <1>6, <1>7, <1>8, <1>9

(* What a worker reads of the others when it is the only one that moves.   *)
LEMMA OthersKeep ==
  ASSUME IInv, NEW w \in Workers, NEW v \in Workers \ {w},
         worker'[v] = worker[v], Active(v)', attempts' = attempts,
         queue \subseteq queue', journals \subseteq journals',
         \A c \in credits' \ credits :
           c.job = worker[w].job /\ c.attempt = worker[w].attempt,
         credits \subseteq credits', Active(w)
  PROVE  Progress(v)' /\ Own(v)'
<1>1. Progress(v) /\ Own(v) /\ Active(v)
  BY DEF IInv, Passes, Active
<1>2. Secured \subseteq Secured'
  BY DEF Secured
<1>3. Progress(v)'
  BY <1>1, <1>2 DEF Progress
<1>4. Post(v)' = Post(v)
  BY DEF Post, Kind
<1>5. \A c \in credits' \ credits :
        ~(c.job = worker[v].job /\ c.attempt = worker[v].attempt)
  BY <1>1 DEF IInv, Claims
<1>6. Own(v)'
  BY <1>1, <1>4, <1>5 DEF Own, At
<1> QED BY <1>3, <1>6

LEMMA IClaim ==
  ASSUME IInv, TypeOK', NEW w \in Workers, ClaimReconJob(w)
  PROVE  Claims' /\ Passes' /\ Alone' /\ JournalsHaveCredits' /\ CreditedOnce'
<1>1. PICK j \in Jobs :
        /\ Claimable(j)
        /\ IF Spent(j)
           THEN UNCHANGED <<attempts, worker>>
           ELSE /\ attempts' = [attempts EXCEPT ![j] = @ + 1]
                /\ worker' = [worker EXCEPT ![w] =
                     [Idle EXCEPT !.step = "pass", !.job = j,
                                  !.attempt = attempts[j] + 1,
                                  !.left = LinesOf[j]]]
  BY DEF ClaimReconJob
<1>2. UNCHANGED <<queue, credits, journals, disturbed>> /\ ~Active(w)
  BY DEF ClaimReconJob, ledger, Active, Idle
<1>3. CASE Spent(j)
  BY <1>1, <1>2, <1>3 DEF IInv, Claims, Passes, Progress, Own, Alone, Active, At,
     Post, Kind, Posted, Secured, JournalsHaveCredits, CreditedOnce
<1>4. CASE ~Spent(j)
  <2> DEFINE new == [Idle EXCEPT !.step = "pass", !.job = j,
                       !.attempt = attempts[j] + 1, !.left = LinesOf[j]]
  <2>1. /\ new.step = "pass" /\ new.job = j /\ new.attempt = attempts[j] + 1
        /\ new.left = LinesOf[j] /\ new.todo = {} /\ new.line = NoLine
    BY DEF Idle
  <2>2. worker' = [worker EXCEPT ![w] = new] /\ attempts' = [attempts EXCEPT ![j] = @ + 1]
    BY <1>1, <1>4
  <2> HIDE DEF new
  <2>3. /\ worker'[w] = new
        /\ \A v \in Workers \ {w} : worker'[v] = worker[v]
    BY <2>2 DEF IInv, TypeOK
  <2>4. /\ attempts \in [Jobs -> Nat] /\ attempts' \in [Jobs -> Nat]
        /\ attempts'[j] = attempts[j] + 1
        /\ \A i \in Jobs : attempts[i] <= attempts'[i]
    BY <2>2, QueueAssumption DEF IInv, TypeOK
  <2>5. /\ \A v \in Workers : Active(v) => worker[v].job \in Jobs /\ worker[v].attempt \in Nat
                                           /\ worker[v].seen \in Nat
        /\ \A c \in credits : c.job \in Jobs /\ c.attempt \in Nat
    BY ActiveType, QueueAssumption DEF IInv, TypeOK, Busy, Posts
  <2>6. Claims'
    <3>1. \A v \in Workers : Active(v)' => worker'[v].attempt <= attempts'[worker'[v].job]
      BY <2>1, <2>3, <2>4, <2>5 DEF IInv, Claims, Active
    <3>2. \A v \in Workers : At(v, "refuse")' => worker'[v].seen <= attempts'[worker'[v].job]
      BY <2>1, <2>3, <2>4, <2>5 DEF IInv, Claims, Active, At
    <3>3. \A c \in credits' : c.attempt <= attempts'[c.job]
      BY <1>2, <2>4, <2>5 DEF IInv, Claims
    <3>4. \A v, u \in Workers :
            Active(v)' /\ Active(u)' /\ worker'[v].job = worker'[u].job
              /\ worker'[v].attempt = worker'[u].attempt => v = u
      <4>1. \A v \in Workers \ {w} : Active(v) /\ worker[v].job = j =>
              worker[v].attempt # attempts[j] + 1
        BY <2>4, <2>5 DEF IInv, Claims
      <4> QED BY <4>1, <2>1, <2>3 DEF IInv, Claims, Active
    <3> QED BY <3>1, <3>2, <3>3, <3>4 DEF Claims
  <2>7. Secured' = Secured
    BY <1>2 DEF Secured
  <2>8. ASSUME NEW v \in Workers, Active(v)'
        PROVE  Progress(v)' /\ Own(v)'
    <3>1. CASE v = w
      <4>1. Progress(v)'
        BY <2>1, <2>3, <3>1 DEF Progress
      <4>2. \A c \in credits : ~(c.job = j /\ c.attempt = attempts[j] + 1)
        BY <2>4, <2>5 DEF IInv, Claims
      <4> QED BY <1>2, <2>1, <2>3, <3>1, <4>1, <4>2 DEF Own, At
    <3>2. CASE v # w
      <4>1. Progress(v) /\ Own(v) /\ worker'[v] = worker[v]
        BY <2>3, <2>8, <3>2 DEF IInv, Passes, Active
      <4>2. Progress(v)'
        BY <1>2, <2>7, <4>1 DEF Progress
      <4> QED BY <1>2, <4>1, <4>2 DEF Own, At, Post, Kind
    <3> QED BY <3>1, <3>2
  <2>9. Passes'
    BY <2>8 DEF Passes
  <2>10. Alone'
    <3>1. /\ worker'[w].line \notin Lines /\ ~At(w, "journal")
          /\ \A v \in Workers \ {w} : worker'[v] = worker[v]
      BY <1>2, <2>1, <2>3, QueueAssumption DEF At, Active
    <3>2. \A v, u \in Workers :
            worker'[v].line = worker'[u].line /\ worker'[v].line \in Lines \ disturbed' => v = u
      BY <3>1, <1>2 DEF IInv, Alone
    <3>3. \A v \in Workers : worker'[v].line \in Lines \ disturbed' =>
            /\ ~Posted(v, worker[v].line)'
            /\ At(v, "row")' => \A c \in credits' : c.line # worker'[v].line
      BY <3>1, <1>2 DEF IInv, Alone, Posted, At
    <3>4. \A c \in credits' : c.line \notin disturbed' =>
            \/ \E p \in journals' : p.line = c.line
            \/ \E v \in Workers : At(v, "journal")' /\ worker'[v].line = c.line
      BY <3>1, <1>2 DEF IInv, Alone, At
    <3> QED BY <3>2, <3>3, <3>4 DEF Alone
  <2>11. JournalsHaveCredits' /\ CreditedOnce'
    BY <1>2 DEF IInv, JournalsHaveCredits, CreditedOnce
  <2> QED BY <2>6, <2>9, <2>10, <2>11
<1> QED BY <1>3, <1>4

LEMMA IWriteLine ==
  ASSUME IInv, TypeOK', NEW w \in Workers, WriteLine(w)
  PROVE  Claims' /\ Passes' /\ Alone' /\ JournalsHaveCredits' /\ CreditedOnce'
<1>1. PICK e \in worker[w].left :
        /\ queue' = queue \cup {e}
        /\ worker' = [worker EXCEPT
             ![w].left = @ \ {e},
             ![w].hits = IF e \in known THEN @ \cup {e} ELSE @,
             ![w].todo = IF e \in Postable /\ (e \in known \/ e \in Identified)
                         THEN @ \cup {e} ELSE @]
  BY DEF WriteLine
<1>2. /\ UNCHANGED <<attempts, credits, journals, disturbed>>
      /\ worker[w].step = "pass" /\ Active(w) /\ worker[w] \in Busy
  BY ActiveType DEF WriteLine, table, ledger, At, Active, IInv
<1>3. /\ worker'[w].step = "pass" /\ worker'[w].job = worker[w].job
      /\ worker'[w].attempt = worker[w].attempt /\ worker'[w].line = worker[w].line
      /\ worker'[w].left = worker[w].left \ {e}
      /\ worker'[w].todo = IF e \in Postable /\ (e \in known \/ e \in Identified)
                           THEN worker[w].todo \cup {e} ELSE worker[w].todo
      /\ \A v \in Workers \ {w} : worker'[v] = worker[v]
  BY <1>1, <1>2 DEF IInv, TypeOK, Busy
<1>4. Claims'
  BY <1>2, <1>3 DEF IInv, Claims, Active, At
<1>5. Progress(w) /\ Own(w)
  BY <1>2 DEF IInv, Passes
<1>6. Progress(w)'
  <2>1. Secured \subseteq Secured'
    BY <1>1, <1>2 DEF Secured
  <2>2. e \in worker'[w].todo \/ e \in Secured'
    BY <1>1, <1>3 DEF Secured, Due
  <2>3. worker'[w].left \cap worker'[w].todo = {}
    BY <1>3, <1>5 DEF Progress
  <2>4. worker'[w].todo \subseteq queue'
    BY <1>1, <1>3, <1>5 DEF Progress
  <2>5. LinesOf[worker'[w].job] \subseteq worker'[w].left \cup worker'[w].todo \cup Secured'
    BY <1>2, <1>3, <1>5, <2>1, <2>2 DEF Progress
  <2> QED BY <1>3, <2>3, <2>4, <2>5 DEF Progress
<1>7. Own(w)'
  <2>1. worker'[w].left \cup worker'[w].todo \subseteq worker[w].left \cup worker[w].todo
    BY <1>3
  <2> QED BY <1>2, <1>3, <1>5, <2>1 DEF Own, At
<1>8. \A v \in Workers \ {w} : Active(v)' => Progress(v)' /\ Own(v)'
  BY <1>1, <1>2, <1>3, OthersKeep
<1>9. Passes'
  BY <1>6, <1>7, <1>8 DEF Passes
<1>10. \A v \in Workers : worker'[v].line = worker[v].line /\ worker'[v].step = worker[v].step
  BY <1>2, <1>3
<1>11. Alone'
  BY <1>2, <1>10 DEF IInv, Alone, Posted, At
<1>12. JournalsHaveCredits' /\ CreditedOnce'
  BY <1>2 DEF IInv, JournalsHaveCredits, CreditedOnce
<1> QED BY <1>4, <1>9, <1>11, <1>12

LEMMA ICheckPosted ==
  ASSUME IInv, TypeOK', NEW w \in Workers, CheckPosted(w)
  PROVE  Claims' /\ Passes' /\ Alone' /\ JournalsHaveCredits' /\ CreditedOnce'
<1>1. PICK e \in Turn(w) :
        IF Posted(w, e)
        THEN /\ worker' = [worker EXCEPT ![w].todo = @ \ {e}]
             /\ UNCHANGED disturbed
        ELSE /\ worker' = [worker EXCEPT ![w].step = "row", ![w].line = e]
             /\ disturbed' = IF Past(w, e) = {} THEN disturbed
                                                ELSE disturbed \cup {e}
  BY DEF CheckPosted
<1>2. /\ UNCHANGED <<attempts, queue, credits, journals>>
      /\ worker[w].step = "pass" /\ Active(w) /\ worker[w] \in Busy
      /\ worker[w].left = {} /\ worker[w].line = NoLine
  BY ActiveType DEF CheckPosted, table, ledger, At, Active, IInv, TypeOK
<1>3. e \in worker[w].todo /\ e \in Lines
  BY <1>2 DEF Turn, Busy
<1>4. /\ worker'[w].job = worker[w].job /\ worker'[w].attempt = worker[w].attempt
      /\ worker'[w].left = {}
      /\ \A v \in Workers \ {w} : worker'[v] = worker[v]
  BY <1>1, <1>2 DEF IInv, TypeOK, Busy
<1>5. CASE Posted(w, e)
  <2>1. /\ worker'[w].step = "pass" /\ worker'[w].line = NoLine
        /\ worker'[w].todo = worker[w].todo \ {e}
        /\ disturbed' = disturbed
    BY <1>1, <1>2, <1>5 DEF IInv, TypeOK, Busy
  <2>2. e \in Secured /\ Secured' = Secured
    BY <1>2, <1>3, <1>5 DEF Secured, Posted, IInv, Passes, Progress
  <2>3. Claims'
    BY <1>2, <1>4, <2>1 DEF IInv, Claims, Active, At
  <2>4. Progress(w)' /\ Own(w)'
    BY <1>2, <1>4, <2>1, <2>2 DEF IInv, Passes, Progress, Own, At
  <2>5. Passes'
    BY <1>2, <1>4, <2>4, OthersKeep DEF Passes
  <2>6. Alone'
    BY <1>2, <1>4, <2>1 DEF IInv, Alone, Posted, At
  <2> QED BY <1>2, <2>1, <2>3, <2>5, <2>6 DEF IInv, JournalsHaveCredits, CreditedOnce
<1>6. CASE ~Posted(w, e)
  <2>1. /\ worker'[w].step = "row" /\ worker'[w].line = e
        /\ worker'[w].todo = worker[w].todo
        /\ disturbed' = IF Past(w, e) = {} THEN disturbed ELSE disturbed \cup {e}
    BY <1>1, <1>2, <1>6 DEF IInv, TypeOK, Busy
  <2>2. Secured' = Secured /\ disturbed \subseteq disturbed'
    BY <1>2, <2>1 DEF Secured
  <2>3. Claims'
    BY <1>2, <1>4, <2>1 DEF IInv, Claims, Active, At
  <2>4. Progress(w)' /\ Own(w)'
    BY <1>2, <1>3, <1>4, <2>1, <2>2 DEF IInv, Passes, Progress, Own, At
  <2>5. Passes'
    BY <1>2, <1>4, <2>4, OthersKeep DEF Passes
  <2>6. e \notin disturbed' => \A v \in Workers \ {w} : worker[v].line # e
    BY <2>1 DEF Past
  <2>7. e \notin disturbed' => \A c \in credits : c.line # e
    <3> SUFFICES ASSUME e \notin disturbed', NEW c \in credits, c.line = e
                 PROVE  FALSE
      OBVIOUS
    <3>1. PICK v \in Workers : At(v, "journal") /\ worker[v].line = e
      BY <1>6, <2>2 DEF IInv, Alone, Posted
    <3> QED BY <1>2, <2>6, <3>1 DEF At
  <2>8. Alone'
    <3>1. \A v, u \in Workers :
            worker'[v].line = worker'[u].line /\ worker'[v].line \in Lines \ disturbed' => v = u
      BY <1>4, <2>1, <2>2, <2>6 DEF IInv, Alone
    <3>2. \A v \in Workers : worker'[v].line \in Lines \ disturbed' =>
            /\ ~Posted(v, worker[v].line)'
            /\ At(v, "row")' => \A c \in credits' : c.line # worker'[v].line
      BY <1>2, <1>4, <1>6, <2>1, <2>2, <2>7 DEF IInv, Alone, Posted, At
    <3>3. \A c \in credits' : c.line \notin disturbed' =>
            \/ \E p \in journals' : p.line = c.line
            \/ \E v \in Workers : At(v, "journal")' /\ worker'[v].line = c.line
      BY <1>2, <1>4, <2>2 DEF IInv, Alone, At
    <3> QED BY <3>1, <3>2, <3>3 DEF Alone
  <2> QED BY <1>2, <2>2, <2>3, <2>5, <2>8 DEF IInv, JournalsHaveCredits, CreditedOnce
<1> QED BY <1>5, <1>6

LEMMA IInsertCredit ==
  ASSUME IInv, TypeOK', NEW w \in Workers, InsertCredit(w)
  PROVE  Claims' /\ Passes' /\ Alone' /\ JournalsHaveCredits' /\ CreditedOnce'
<1> DEFINE post == Post(w)
<1>1. /\ UNCHANGED <<attempts, queue, journals, disturbed>>
      /\ credits' = credits \cup {post}
      /\ worker[w].step = "row" /\ Active(w) /\ worker[w] \in Busy
  BY ActiveType DEF InsertCredit, table, At, Active, IInv
<1>0. worker'[w] = [worker[w] EXCEPT !.step = "journal"]
  BY DEF InsertCredit, Go, IInv, TypeOK
<1>2. \A v \in Workers \ {w} : worker'[v] = worker[v]
  BY DEF InsertCredit, Go, IInv, TypeOK
<1>3. /\ worker'[w].step = "journal" /\ worker'[w].job = worker[w].job
      /\ worker'[w].attempt = worker[w].attempt /\ worker'[w].line = worker[w].line
      /\ worker'[w].left = worker[w].left /\ worker'[w].todo = worker[w].todo
      /\ worker'[w].hits = worker[w].hits
  BY <1>0, <1>1 DEF Busy
<1>4. /\ post \in Posts /\ post.line = worker[w].line /\ post.job = worker[w].job
      /\ post.attempt = worker[w].attempt /\ worker[w].line \in Lines
  BY <1>1, PostType DEF IInv, Posts
<1>5. Post(w)' = post
  BY <1>3 DEF Post, Kind
<1>6. Progress(w) /\ Own(w) /\ worker[w].attempt <= attempts[worker[w].job]
  BY <1>1 DEF IInv, Passes, Claims
<1> HIDE DEF post
<1>7. Claims'
  BY <1>1, <1>2, <1>3, <1>4, <1>6 DEF IInv, Claims, Active, At
<1>8. Secured' = Secured
  BY <1>1 DEF Secured
<1>9. Progress(w)'
  BY <1>1, <1>3, <1>6, <1>8 DEF Progress
<1>10. worker[w].line \in worker[w].todo
  BY <1>1, <1>6 DEF Progress
<1>11. \A c \in credits :
         ~(c.job = post.job /\ c.attempt = post.attempt /\ c.line \in worker[w].left \cup worker[w].todo)
  BY <1>1, <1>4, <1>6 DEF Own, At
<1>12. Own(w)'
  BY <1>1, <1>3, <1>4, <1>5, <1>11 DEF Own, At
<1>13. Passes'
  BY <1>1, <1>2, <1>4, <1>9, <1>12, OthersKeep DEF Passes
<1>14. Alone'
  <2>1. \A v, u \in Workers :
          worker'[v].line = worker'[u].line /\ worker'[v].line \in Lines \ disturbed' => v = u
    BY <1>1, <1>2, <1>3 DEF IInv, Alone
  <2>2. \A v \in Workers : worker'[v].line \in Lines \ disturbed' =>
          /\ ~Posted(v, worker[v].line)'
          /\ At(v, "row")' => \A c \in credits' : c.line # worker'[v].line
    BY <1>1, <1>2, <1>3, <1>4 DEF IInv, Alone, Posted, At
  <2>3. \A c \in credits' : c.line \notin disturbed' =>
          \/ \E p \in journals' : p.line = c.line
          \/ \E v \in Workers : At(v, "journal")' /\ worker'[v].line = c.line
    <3>1. At(w, "journal")' /\ worker'[w].line = post.line
      BY <1>3, <1>4 DEF At
    <3>2. \A v \in Workers : At(v, "journal") => worker'[v] = worker[v]
      BY <1>1, <1>2 DEF At
    <3> QED BY <1>1, <3>1, <3>2 DEF IInv, Alone, At
  <2> QED BY <2>1, <2>2, <2>3 DEF Alone
<1>15. JournalsHaveCredits'
  BY <1>1, <1>4, <1>10, <1>11 DEF IInv, JournalsHaveCredits
<1>16. CreditedOnce'
  <2>1. post.line \notin disturbed => \A c \in credits : c.line # post.line
    BY <1>1, <1>4 DEF IInv, Alone, At
  <2> QED BY <1>1, <2>1 DEF IInv, CreditedOnce
<1> QED BY <1>7, <1>13, <1>14, <1>15, <1>16

LEMMA IPostJournal ==
  ASSUME IInv, TypeOK', NEW w \in Workers, PostJournal(w)
  PROVE  Claims' /\ Passes' /\ Alone' /\ JournalsHaveCredits' /\ CreditedOnce'
<1> DEFINE post == Post(w)
           e == worker[w].line
<1>1. /\ UNCHANGED <<attempts, queue, credits, disturbed>>
      /\ journals' = journals \cup {post}
      /\ worker[w].step = "journal" /\ Active(w) /\ worker[w] \in Busy
  BY ActiveType DEF PostJournal, table, At, Active, IInv
<1>2. /\ worker'[w].step = "pass" /\ worker'[w].line = NoLine
      /\ worker'[w].job = worker[w].job /\ worker'[w].attempt = worker[w].attempt
      /\ worker'[w].left = worker[w].left /\ worker'[w].todo = worker[w].todo \ {e}
      /\ \A v \in Workers \ {w} : worker'[v] = worker[v]
  BY <1>1 DEF PostJournal, IInv, TypeOK, Busy
<1>3. Progress(w) /\ Own(w)
  BY <1>1 DEF IInv, Passes
<1>4. post \in credits /\ post.line = e /\ e \in Lines
  BY <1>1, <1>3, PostType DEF Own, At, IInv, Posts
<1> HIDE DEF post, e
<1>5. Claims'
  BY <1>1, <1>2 DEF IInv, Claims, Active, At
<1>6. Secured \subseteq Secured'
  BY <1>1 DEF Secured
<1>7. worker[w].left = {} /\ e \in worker[w].todo /\ e \in Secured'
  BY <1>1, <1>3, <1>4 DEF Progress, Secured, e
<1>8. Progress(w)'
  BY <1>1, <1>2, <1>3, <1>6, <1>7 DEF Progress
<1>9. Own(w)'
  <2>1. \A c \in credits : c.job = worker[w].job /\ c.attempt = worker[w].attempt
          /\ c.line \in worker[w].left \cup worker[w].todo => c = post
    BY <1>3 DEF Own, post
  <2> QED BY <1>1, <1>2, <1>4, <1>7, <2>1 DEF Own, At
<1>10. Passes'
  BY <1>1, <1>2, <1>8, <1>9, OthersKeep DEF Passes
<1>11. Alone'
  <2>1. \A v, u \in Workers :
          worker'[v].line = worker'[u].line /\ worker'[v].line \in Lines \ disturbed' => v = u
    BY <1>1, <1>2, QueueAssumption DEF IInv, Alone
  <2>2. \A v \in Workers : worker'[v].line \in Lines \ disturbed' =>
          v # w /\ worker'[v] = worker[v] /\ worker[v].line # e
    BY <1>1, <1>2, QueueAssumption DEF IInv, Alone, e
  <2>3. \A v \in Workers : worker'[v].line \in Lines \ disturbed' =>
          /\ ~Posted(v, worker[v].line)'
          /\ At(v, "row")' => \A c \in credits' : c.line # worker'[v].line
    BY <1>1, <1>4, <2>2 DEF IInv, Alone, Posted, At
  <2>4. \A c \in credits' : c.line \notin disturbed' =>
          \/ \E p \in journals' : p.line = c.line
          \/ \E v \in Workers : At(v, "journal")' /\ worker'[v].line = c.line
    BY <1>1, <1>2, <1>4 DEF IInv, Alone, At, e
  <2> QED BY <2>1, <2>3, <2>4 DEF Alone
<1>12. JournalsHaveCredits' /\ CreditedOnce'
  BY <1>1, <1>4 DEF IInv, JournalsHaveCredits, CreditedOnce
<1> QED BY <1>5, <1>10, <1>11, <1>12

(* The five ways a worker leaves its pass or comes to its verdict.         *)
LEMMA IEnds ==
  ASSUME IInv, NEW w \in Workers,
         \/ Throw(w) \/ Drop(w)
         \/ ReadForComplete(w) \/ CompleteReconJob(w)
         \/ ReadForFail(w) \/ FailReconJob(w)
  PROVE  Claims' /\ Passes' /\ Alone' /\ JournalsHaveCredits' /\ CreditedOnce'
<1> USE DEF At, table, ledger
<1>a. /\ Idle.line = NoLine /\ Idle.left = {} /\ Idle.todo = {} /\ Idle.step = "idle"
  BY DEF Idle
<1>b. Active(w) /\ worker[w] \in Busy
  BY ActiveType DEF IInv, Active, Throw, Drop, ReadForComplete, Done,
     CompleteReconJob, ReadForFail, FailReconJob
<1>c. UNCHANGED <<attempts, queue, credits, journals>>
  BY DEF Throw, Drop, ReadForComplete, CompleteReconJob, ReadForFail, FailReconJob
<1>d. CutShort(w)
  BY DEF CutShort, Throw, Drop, ReadForComplete, Done, CompleteReconJob, ReadForFail,
     FailReconJob
<1>e. Progress(w) /\ (worker[w].line # NoLine <=> worker[w].step \in {"row", "journal"})
  BY <1>b DEF IInv, Passes, TypeOK
<1>1. CASE worker' = [worker EXCEPT ![w] = Idle]
  BY <1>1, <1>a, <1>c, <1>d, Retire
<1>2. CASE Throw(w)
  <2> DEFINE new == [worker[w] EXCEPT !.step = "fail", !.left = {},
                       !.hits = {}, !.todo = {}, !.line = NoLine]
  <2>1. /\ new.step = "fail" /\ new.left = {} /\ new.todo = {} /\ new.line = NoLine
        /\ new.job = worker[w].job /\ new.attempt = worker[w].attempt
    BY <1>b DEF Busy
  <2>2. worker' = [worker EXCEPT ![w] = new]
    BY <1>2 DEF Throw, IInv, TypeOK
  <2> HIDE DEF new
  <2> QED BY <1>b, <1>c, <1>d, <2>1, <2>2, Retire
<1>3. CASE ReadForComplete(w) /\ Go(w, "complete")
  <2> DEFINE new == [worker[w] EXCEPT !.step = "complete"]
  <2>1. /\ new.step = "complete" /\ new.left = {} /\ new.todo = {} /\ new.line = NoLine
        /\ new.job = worker[w].job /\ new.attempt = worker[w].attempt
    BY <1>3, <1>b, <1>e DEF Busy, ReadForComplete, Done
  <2>2. worker' = [worker EXCEPT ![w] = new]
    BY <1>3 DEF Go, IInv, TypeOK
  <2>3. LinesOf[worker[w].job] \subseteq Secured
    BY <1>3, <1>e DEF ReadForComplete, Done, Progress
  <2> HIDE DEF new
  <2> QED BY <1>b, <1>c, <1>d, <2>1, <2>2, <2>3, Retire
<1>4. CASE ReadForFail(w) /\ status[worker[w].job] \notin Terminal
  <2> DEFINE new == [worker[w] EXCEPT !.step = "refuse", !.seen = attempts[worker[w].job]]
  <2>0. worker[w].left = {} /\ worker[w].todo = {} /\ attempts[worker[w].job] \in Nat
    BY <1>4, <1>b, <1>e, QueueAssumption DEF ReadForFail, Progress, Busy, IInv, TypeOK
  <2>1. /\ new.step = "refuse" /\ new.left = {} /\ new.todo = {} /\ new.line = NoLine
        /\ new.job = worker[w].job /\ new.attempt = worker[w].attempt
        /\ new.seen = attempts[worker[w].job]
    BY <1>4, <1>b, <1>e, <2>0 DEF Busy, ReadForFail
  <2>2. worker' = [worker EXCEPT ![w] = new]
    BY <1>4 DEF ReadForFail, IInv, TypeOK
  <2>3. new.seen <= attempts[worker[w].job]
    BY <2>0, <2>1
  <2> HIDE DEF new
  <2> QED BY <1>b, <1>c, <1>d, <2>1, <2>2, <2>3, Retire
<1> QED BY <1>1, <1>2, <1>3, <1>4 DEF Drop, ReadForComplete, CompleteReconJob,
           ReadForFail, FailReconJob, End

LEMMA IInit == Init => IInv
<1> SUFFICES ASSUME Init PROVE IInv
  OBVIOUS
<1>1. \A w \in Workers : worker[w].step = "idle" /\ worker[w].line = NoLine
  BY DEF Init, Idle
<1> QED BY <1>1, TypeInit, QueueAssumption DEF Init, IInv, Claims, Passes, Alone,
     Active, At, JournalsHaveCredits, CreditedOnce

LEMMA IStep == IInv /\ [Next]_vars => IInv'
<1> SUFFICES ASSUME IInv, [Next]_vars PROVE IInv'
  OBVIOUS
<1>1. TypeOK'
  BY TypeStep DEF IInv
<1>2. CASE UNCHANGED <<attempts, worker, queue, credits, journals, disturbed>>
  BY <1>1, <1>2 DEF IInv, Claims, Passes, Progress, Own, Alone, Active, At, Post, Kind,
     Posted, Secured, JournalsHaveCredits, CreditedOnce
<1>3. CASE Next
  <2>1. ASSUME NEW j \in Jobs, CreateReconJob(j) \/ GoStale(j)
        PROVE  IInv'
    BY <1>2, <2>1 DEF CreateReconJob, GoStale, ledger
  <2>2. ASSUME NEW e \in Lines, Register(e)
        PROVE  IInv'
    BY <1>2, <2>2 DEF Register, table, ledger
  <2>3. ASSUME NEW w \in Workers, ClaimReconJob(w)
        PROVE  IInv'
    BY <1>1, <2>3, IClaim DEF IInv
  <2>4. ASSUME NEW w \in Workers, Pass(w) \/ Throw(w) \/ Drop(w)
        PROVE  IInv'
    BY <1>1, <2>4, IWriteLine, ICheckPosted, IInsertCredit, IPostJournal, IEnds
       DEF Pass, IInv
  <2> QED BY <1>3, <2>1, <2>2, <2>3, <2>4 DEF Next
<1> QED BY <1>2, <1>3 DEF vars, table, ledger

LEMMA Inductive == Spec => []IInv
BY IInit, IStep, PTL DEF Spec

(* worker.ts:1583, "never a double post", for any overlap of claims and of *)
(* ingests: the money of a line nothing disturbed is credited once.        *)
THEOREM NoDoublePost == Spec => []CreditedOnce
BY Inductive, PTL DEF IInv

(* No journal of a holding without its row, and one credit per attempt.    *)
THEOREM BooksHaveRows == Spec => []JournalsHaveCredits
BY Inductive, PTL DEF IInv

-----------------------------------------------------------------------------
(* The refinement of JobBoard. *)

Verdict(j) == IF status[j] \in Terminal THEN status[j] ELSE "none"

(* Steps that end, fail or try no job and secure at most one line.         *)
LEMMA Quiet ==
  ASSUME attempts' = attempts, \A j \in Jobs : Verdict(j)' = Verdict(j),
         NEW e \in Lines, Secured' \in {Secured, Secured \cup {e}}
  PROVE  [Board!Next]_(Board!vars)
<1>1. [j \in Jobs |-> Verdict(j)]' = [j \in Jobs |-> Verdict(j)]
  OBVIOUS
<1>2. CASE Secured' = Secured
  BY <1>1, <1>2 DEF Board!vars, Verdict
<1>3. CASE Secured' = Secured \cup {e}
  <2>1. Board!Secure(e)
    BY <1>1, <1>3 DEF Board!Secure, Verdict
  <2> QED BY <2>1 DEF Board!Next
<1> QED BY <1>2, <1>3

LEMMA BoardInit == Init => Board!Init
BY DEF Init, Board!Init, Secured, Terminal

LEMMA BoardClaim ==
  ASSUME IInv, NEW w \in Workers, ClaimReconJob(w)
  PROVE  [Board!Next]_(Board!vars)
<1>1. PICK j \in Jobs :
        /\ Claimable(j)
        /\ IF Spent(j)
           THEN /\ status' = [status EXCEPT ![j] = "failed"]
                /\ UNCHANGED attempts
           ELSE /\ status' = [status EXCEPT ![j] = "processing"]
                /\ attempts' = [attempts EXCEPT ![j] = @ + 1]
  BY DEF ClaimReconJob
<1>2. Secured' = Secured
  BY DEF ClaimReconJob, ledger, Secured
<1>3. Verdict(j) = "none"
  BY <1>1 DEF Verdict, Claimable, Terminal, IInv, TypeOK
<1>4. CASE Spent(j)
  <2>1. attempts[j] = MaxAttempts
    BY <1>4, QueueAssumption DEF Spent, IInv, TypeOK
  <2>2. [i \in Jobs |-> Verdict(i)]' = [[i \in Jobs |-> Verdict(i)] EXCEPT ![j] = "failed"]
    BY <1>1, <1>4 DEF Verdict, Terminal, IInv, TypeOK
  <2>3. Board!GiveUp(j)
    BY <1>1, <1>2, <1>3, <1>4, <2>1, <2>2 DEF Board!GiveUp, Verdict
  <2> QED BY <2>3 DEF Board!Next
<1>5. CASE ~Spent(j)
  <2>1. attempts[j] < MaxAttempts
    BY <1>5, QueueAssumption DEF Spent, IInv, TypeOK
  <2>2. [i \in Jobs |-> Verdict(i)]' = [i \in Jobs |-> Verdict(i)]
    BY <1>1, <1>3, <1>5 DEF Verdict, Terminal, IInv, TypeOK
  <2>3. Board!Try(j)
    BY <1>1, <1>2, <1>3, <1>5, <2>1, <2>2 DEF Board!Try, Verdict
  <2> QED BY <2>3 DEF Board!Next
<1> QED BY <1>4, <1>5

LEMMA BoardPass ==
  ASSUME IInv, TypeOK', NEW w \in Workers,
         WriteLine(w) \/ CheckPosted(w) \/ InsertCredit(w) \/ PostJournal(w)
  PROVE  [Board!Next]_(Board!vars)
<1> USE DEF table, ledger
<1>1. UNCHANGED <<attempts, status>>
  BY DEF WriteLine, CheckPosted, InsertCredit, PostJournal
<1>2. \A j \in Jobs : Verdict(j)' = Verdict(j)
  BY <1>1 DEF Verdict
<1>3. \E e \in Lines : Secured' \in {Secured, Secured \cup {e}}
  <2>a. worker[w] \in Busy
    BY ActiveType DEF IInv, Active, WriteLine, CheckPosted, InsertCredit, PostJournal, At
  <2>1. CASE WriteLine(w)
    <3>1. PICK e \in worker[w].left : queue' = queue \cup {e} /\ journals' = journals
      BY <2>1 DEF WriteLine
    <3>2. Secured' \in {Secured, Secured \cup {e}} /\ e \in Lines
      BY <3>1, <2>a DEF Secured, Busy
    <3> QED BY <3>2
  <2>2. CASE CheckPosted(w)
    <3>1. PICK e \in Turn(w) : TRUE
      BY <2>2 DEF CheckPosted
    <3>2. e \in Lines /\ Secured' = Secured
      BY <2>2, <2>a DEF Secured, Turn, Busy, CheckPosted
    <3> QED BY <3>2
  <2>3. CASE InsertCredit(w)
    <3>1. Secured' = Secured /\ worker[w].line \in Lines
      BY <2>3, PostType DEF InsertCredit, Secured, Posts, At, IInv
    <3> QED BY <3>1
  <2>4. CASE PostJournal(w)
    <3>1. /\ queue' = queue /\ journals' = journals \cup {Post(w)}
          /\ Post(w).line \in Lines
      BY <2>4, PostType DEF PostJournal, Posts, At, IInv
    <3>2. Secured' \in {Secured, Secured \cup {Post(w).line}}
      BY <3>1 DEF Secured
    <3> QED BY <3>1, <3>2
  <2> QED BY <2>1, <2>2, <2>3, <2>4
<1> QED BY <1>1, <1>2, <1>3, Quiet

LEMMA BoardComplete ==
  ASSUME IInv, NEW w \in Workers, CompleteReconJob(w)
  PROVE  [Board!Next]_(Board!vars)
<1>1. worker[w] \in Busy /\ Active(w)
  BY ActiveType DEF IInv, Active, CompleteReconJob, At
<1>0. PICK j \in Jobs : j = worker[w].job
  BY <1>1 DEF Busy
<1>2. LinesOf[j] \subseteq Secured /\ attempts[j] > 0
  <2>1. Progress(w) /\ worker[w].attempt <= attempts[j]
    BY <1>0, <1>1 DEF IInv, Passes, Claims
  <2> QED BY <1>0, <1>1, <2>1, QueueAssumption DEF Progress, CompleteReconJob, At, Busy, IInv, TypeOK
<1>3. Secured' = Secured /\ attempts' = attempts
  BY DEF CompleteReconJob, ledger, Secured
<1>4. CASE StillOpen(j)
  <2>1. status' = [status EXCEPT ![j] = "completed"]
    BY <1>0, <1>4 DEF CompleteReconJob
  <2>2. Verdict(j) = "none"
    BY <1>4 DEF StillOpen, Verdict, Open, Terminal
  <2>3. [i \in Jobs |-> Verdict(i)]' = [[i \in Jobs |-> Verdict(i)] EXCEPT ![j] = "completed"]
    BY <1>1, <2>1 DEF Verdict, Terminal, IInv, TypeOK
  <2>4. Board!Complete(j)
    BY <1>1, <1>2, <1>3, <2>2, <2>3 DEF Board!Complete, Verdict
  <2> QED BY <1>1, <2>4 DEF Board!Next
<1>5. CASE ~StillOpen(j)
  BY <1>0, <1>3, <1>5 DEF CompleteReconJob, Board!vars
<1> QED BY <1>4, <1>5

LEMMA BoardFail ==
  ASSUME IInv, NEW w \in Workers, FailReconJob(w)
  PROVE  [Board!Next]_(Board!vars)
<1>1. worker[w] \in Busy /\ Active(w)
  BY ActiveType DEF IInv, Active, FailReconJob, At
<1>0. PICK j \in Jobs : j = worker[w].job
  BY <1>1 DEF Busy
<1>2. worker[w].seen <= attempts[j]
  BY <1>0 DEF IInv, Claims, FailReconJob
<1>3. Secured' = Secured /\ attempts' = attempts
  BY DEF FailReconJob, ledger, Secured
<1>4. CASE StillOpen(j)
  <2>1. Verdict(j) = "none"
    BY <1>4 DEF StillOpen, Verdict, Open, Terminal
  <2>2. CASE LastTry(worker[w].seen)
    <3>1. status' = [status EXCEPT ![j] = "failed"]
      BY <1>0, <1>4, <2>2 DEF FailReconJob
    <3>2. attempts[j] = MaxAttempts
      BY <1>1, <1>2, <2>2, QueueAssumption DEF LastTry, IInv, TypeOK, Busy
    <3>3. [i \in Jobs |-> Verdict(i)]' = [[i \in Jobs |-> Verdict(i)] EXCEPT ![j] = "failed"]
      BY <1>1, <3>1 DEF Verdict, Terminal, IInv, TypeOK
    <3>4. Board!GiveUp(j)
      BY <1>1, <1>3, <2>1, <3>2, <3>3 DEF Board!GiveUp, Verdict
    <3> QED BY <1>1, <3>4 DEF Board!Next
  <2>3. CASE ~LastTry(worker[w].seen)
    <3>1. status' = [status EXCEPT ![j] = "pending"]
      BY <1>0, <1>4, <2>3 DEF FailReconJob
    <3>2. [i \in Jobs |-> Verdict(i)]' = [i \in Jobs |-> Verdict(i)]
      BY <1>1, <2>1, <3>1 DEF Verdict, Terminal, IInv, TypeOK
    <3> QED BY <1>3, <3>2 DEF Board!vars, Verdict
  <2> QED BY <2>2, <2>3
<1>5. CASE ~StillOpen(j)
  BY <1>0, <1>3, <1>5 DEF FailReconJob, Board!vars
<1> QED BY <1>4, <1>5

LEMMA BoardStep == IInv /\ TypeOK' /\ [Next]_vars => [Board!Next]_(Board!vars)
<1> SUFFICES ASSUME IInv, TypeOK', [Next]_vars PROVE [Board!Next]_(Board!vars)
  OBVIOUS
<1>1. CASE UNCHANGED <<attempts, queue, journals>> /\ \A j \in Jobs : Verdict(j)' = Verdict(j)
  <2>1. [j \in Jobs |-> Verdict(j)]' = [j \in Jobs |-> Verdict(j)]
    BY <1>1
  <2> QED BY <1>1, <2>1 DEF Board!vars, Verdict, Secured
<1>2. CASE Next
  <2> USE DEF table, ledger
  <2>1. ASSUME NEW j \in Jobs, CreateReconJob(j)
        PROVE  [Board!Next]_(Board!vars)
    BY <1>1, <2>1 DEF CreateReconJob, Verdict, Terminal, IInv, TypeOK
  <2>2. ASSUME NEW j \in Jobs, GoStale(j)
        PROVE  [Board!Next]_(Board!vars)
    BY <1>1, <2>2 DEF GoStale, Verdict
  <2>3. ASSUME NEW e \in Lines, Register(e)
        PROVE  [Board!Next]_(Board!vars)
    BY <1>1, <2>3 DEF Register, Verdict
  <2>4. ASSUME NEW w \in Workers,
               Throw(w) \/ Drop(w) \/ ReadForComplete(w) \/ ReadForFail(w)
        PROVE  [Board!Next]_(Board!vars)
    BY <1>1, <2>4 DEF Throw, Drop, ReadForComplete, ReadForFail, Verdict
  <2> QED BY <1>2, <2>1, <2>2, <2>3, <2>4, BoardClaim, BoardPass, BoardComplete, BoardFail
          DEF Next, Pass
<1>3. CASE UNCHANGED vars
  BY <1>1, <1>3 DEF vars, table, ledger, Verdict
<1> QED BY <1>2, <1>3

(* Whoever's complete or fail arrives when, a job gets one verdict, fails  *)
(* only with its budget spent, and completes only with its lines secured.  *)
THEOREM Implementation == Spec => ImplementsBoard
BY BoardInit, BoardStep, TypeCorrect, Inductive, PTL DEF Spec, ImplementsBoard, Board!Spec
=============================================================================
