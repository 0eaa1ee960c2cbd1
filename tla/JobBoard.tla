------------------------------ MODULE JobBoard -----------------------------
(***************************************************************************)
(* What the reconciliation queue promises for its jobs (migrations 0011    *)
(* and 0064, the header of posting.ts): a job is tried a bounded number of *)
(* times and gets one verdict, failure only when the tries are used up,    *)
(* and a completed job has left nothing of its statement behind.           *)
(* ReconQueue, the code's own steps, implements this specification.        *)
(***************************************************************************)
EXTENDS Naturals

CONSTANTS
  Jobs,         \* reconciliation jobs
  Lines,        \* lines of statements
  LinesOf,      \* LinesOf[j]: the lines of j's statement
  MaxAttempts   \* how often a job may be tried

VARIABLES
  tries,     \* tries[j]: how often j was handed out
  verdict,   \* verdict[j]: "none", "completed" or "failed"
  secured    \* lines recorded, and posted if they carry postable money

vars == <<tries, verdict, secured>>

Init ==
  /\ tries = [j \in Jobs |-> 0]
  /\ verdict = [j \in Jobs |-> "none"]
  /\ secured = {}

Try(j) ==
  /\ verdict[j] = "none" /\ tries[j] < MaxAttempts
  /\ tries' = [tries EXCEPT ![j] = @ + 1]
  /\ UNCHANGED <<verdict, secured>>

(* A line is secured for good. *)
Secure(e) ==
  /\ secured' = secured \cup {e}
  /\ UNCHANGED <<tries, verdict>>

Complete(j) ==
  /\ verdict[j] = "none" /\ tries[j] > 0
  /\ LinesOf[j] \subseteq secured
  /\ verdict' = [verdict EXCEPT ![j] = "completed"]
  /\ UNCHANGED <<tries, secured>>

GiveUp(j) ==
  /\ verdict[j] = "none" /\ tries[j] = MaxAttempts
  /\ verdict' = [verdict EXCEPT ![j] = "failed"]
  /\ UNCHANGED <<tries, secured>>

Next ==
  \/ \E j \in Jobs : Try(j) \/ Complete(j) \/ GiveUp(j)
  \/ \E e \in Lines : Secure(e)

Spec == Init /\ [][Next]_vars
=============================================================================
