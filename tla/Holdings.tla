------------------------------ MODULE Holdings -----------------------------
(***************************************************************************)
(* Money held for payees nobody has verified yet, and how it leaves: the   *)
(* release of a holding credit, the release of an identifier hold into a   *)
(* fresh holding credit, and the freeze of one model's credits while a     *)
(* training dispute is active.  A leg or a lock stands for one row of the  *)
(* ledger; each await is a step.                                           *)
(***************************************************************************)
EXTENDS Naturals

CONSTANTS
  Legs,       \* holding credits of one AI model's ledger scope
  Locks,      \* identifier holds
  Disputes,   \* training disputes against the model, by their unique claim
  Filers,     \* calls of fileAiTrainingDispute
  Resolvers,  \* calls of resolveAiTrainingDisputeVerified
  Passes,     \* calls of postAiLinesToHolding
  Releases,   \* calls of the two releases
  Parties,    \* how many payees share a released credit
  NoRow,      \* the row of an idle release
  Faults      \* TRUE: a call may stop at any await

(* The holding credit that a released lock becomes.                        *)
Fresh(k) == <<k, "fresh">>

Credits == Legs \cup {Fresh(k) : k \in Locks}
Rows == Credits \cup Locks

ASSUME HoldingsAssumption ==
  /\ Parties \in Nat \ {0}
  /\ Faults \in BOOLEAN
  /\ NoRow \notin Rows
  /\ Credits \cap Locks = {}
  /\ \A k \in Locks : Fresh(k) \notin Legs

VARIABLES
  row,        \* row[e]: ledger_transactions.status, "none" before the insert
  dispute,    \* dispute[d]: ai_training_disputes.status
  verified,   \* locks whose identifier has a registry-attested link
  sweeping,   \* filers that have their dispute and not yet swept
  resolver,   \* resolver[x]: the next step of a resolution
  pass,       \* pass[p]: what an open posting pass found when it began
  release,    \* release[r]: the next step of a release, and its row
  paid,       \* paid[e]: party credits made for a released credit
  released,   \* rows with a release journal
  missed,     \* history: a freeze may have missed credits of the model
  strayed,    \* history: a freeze may come after the thaw
  cut         \* history: rows whose release stopped after its settlement

rows == <<row, verified>>
claims == <<dispute, sweeping, resolver>>
payout == <<release, paid, released, cut>>
vars == <<rows, claims, pass, payout, missed, strayed>>

Idle == [step |-> "idle", row |-> NoRow]
Statuses == {"none", "unclaimed_holding", "unauthorized_training_hold",
             "unclaimed_identifier_hold", "settled"}

Init ==
  /\ row = [e \in Rows |-> "none"]
  /\ dispute = [d \in Disputes |-> "none"]
  /\ verified = {}
  /\ sweeping = {}
  /\ resolver = [x \in Resolvers |-> "idle"]
  /\ pass = [p \in Passes |-> "idle"]
  /\ release = [r \in Releases |-> Idle]
  /\ paid = [e \in Rows |-> 0]
  /\ released = {} /\ cut = {}
  /\ missed = FALSE /\ strayed = FALSE

Filed == {d \in Disputes : dispute[d] = "filed"}

-----------------------------------------------------------------------------
(* The sweeps: one update each, by scope and status. *)

(* Mutant: the sweep looks at the scope alone. *)
FreezeScope ==
  [e \in Rows |-> IF e \in Legs /\ row[e] # "none"
                  THEN "unauthorized_training_hold" ELSE row[e]]

FreezeUnauthorizedTrainingHolds ==
  [e \in Rows |-> IF e \in Legs /\ row[e] = "unclaimed_holding"
                  THEN "unauthorized_training_hold" ELSE row[e]]

ThawUnauthorizedTrainingHolds ==
  [e \in Rows |-> IF e \in Legs /\ row[e] = "unauthorized_training_hold"
                  THEN "unclaimed_holding" ELSE row[e]]

(* Passes that found no dispute, and resolutions that found none left: what *)
(* they still do, a dispute filed meanwhile does not stop.                  *)
Blind == {p \in Passes : pass[p] = "clear"}
Thawing == {x \in Resolvers : resolver[x] = "thaw"}

(* Calls that will freeze, whatever is resolved meanwhile. *)
Freezing(s, q) == s # {} \/ \E p \in Passes : q[p] = "frozen"

(* A freeze leaves no credit behind; only blind calls can add one. *)
Freeze ==
  /\ row' = FreezeUnauthorizedTrainingHolds
  /\ missed' = (missed /\ (Blind # {} \/ Thawing # {}))

-----------------------------------------------------------------------------
(* fileAiTrainingDispute: the insert, or the filed row it collides with;   *)
(* then the sweep.  The claim of a resolved dispute is refused for good.   *)

FileAiTrainingDispute(f, d) ==
  /\ f \notin sweeping
  /\ dispute[d] \in {"none", "filed"}
  /\ dispute' = [dispute EXCEPT ![d] = "filed"]
  /\ sweeping' = sweeping \cup {f}
  /\ missed' = (missed \/ (dispute[d] = "none" /\ (Blind # {} \/ Thawing # {})))
  /\ UNCHANGED <<rows, resolver, pass, payout, strayed>>

Sweep(f) ==
  /\ f \in sweeping
  /\ sweeping' = sweeping \ {f}
  /\ Freeze
  /\ UNCHANGED <<dispute, verified, resolver, pass, payout, strayed>>

FilerStops(f) ==
  /\ Faults
  /\ f \in sweeping
  /\ sweeping' = sweeping \ {f}
  /\ missed' = TRUE
  /\ UNCHANGED <<rows, dispute, resolver, pass, payout, strayed>>

-----------------------------------------------------------------------------
(* resolveAiTrainingDisputeVerified: the guarded update, the list of what  *)
(* is still filed, and the thaw when that is empty.                        *)

Resolve(x, d) ==
  /\ resolver[x] = "idle"
  /\ dispute[d] = "filed"
  /\ dispute' = [dispute EXCEPT ![d] = "resolved"]
  /\ resolver' = [resolver EXCEPT ![x] = "list"]
  /\ strayed' = (strayed \/ (Filed = {d} /\ Freezing(sweeping, pass)))
  /\ UNCHANGED <<rows, sweeping, pass, payout, missed>>

(* Mutant: the list counts the resolved ones too. *)
StillKnown == {d \in Disputes : dispute[d] # "none"}

StillFiled == Filed

ListFiled(x) ==
  /\ resolver[x] = "list"
  /\ resolver' = [resolver EXCEPT ![x] = IF StillFiled = {} THEN "thaw" ELSE "idle"]
  /\ UNCHANGED <<rows, dispute, sweeping, pass, payout, missed, strayed>>

Thaw(x) ==
  /\ resolver[x] = "thaw"
  /\ resolver' = [resolver EXCEPT ![x] = "idle"]
  /\ row' = ThawUnauthorizedTrainingHolds
  /\ strayed' = (strayed /\ Freezing(sweeping, pass))
  /\ UNCHANGED <<verified, dispute, sweeping, pass, payout, missed>>

(* The dispute is resolved already: no later call runs the thaw. *)
ResolverStops(x) ==
  /\ Faults
  /\ resolver[x] # "idle"
  /\ resolver' = [resolver EXCEPT ![x] = "idle"]
  /\ strayed' = TRUE
  /\ UNCHANGED <<rows, dispute, sweeping, pass, payout, missed>>

-----------------------------------------------------------------------------
(* postAiLinesToHolding: one read of the active disputes, any of the       *)
(* model's legs that have no row yet, and the freeze if the read found one. *)

(* Mutant: the pass does not look. *)
NeverDisputed == FALSE

Disputed == Filed # {}

BeginPass(p) ==
  /\ pass[p] = "idle"
  /\ pass' = [pass EXCEPT ![p] = IF Disputed THEN "frozen" ELSE "clear"]
  /\ UNCHANGED <<rows, claims, payout, missed, strayed>>

PostLeg(p, e) ==
  /\ pass[p] # "idle"
  /\ row[e] = "none"
  /\ row' = [row EXCEPT ![e] = "unclaimed_holding"]
  /\ UNCHANGED <<verified, claims, pass, payout, missed, strayed>>

EndPass(p) ==
  /\ pass[p] # "idle"
  /\ pass' = [pass EXCEPT ![p] = "idle"]
  /\ IF pass[p] = "frozen" THEN Freeze ELSE UNCHANGED <<row, missed>>
  /\ UNCHANGED <<verified, claims, payout, strayed>>

(* A retry of the job is a pass of its own. *)
PassStops(p) ==
  /\ Faults
  /\ pass[p] # "idle"
  /\ pass' = [pass EXCEPT ![p] = "idle"]
  /\ missed' = (missed \/ pass[p] = "frozen")
  /\ UNCHANGED <<rows, claims, payout, strayed>>

-----------------------------------------------------------------------------
(* Identifier holds: the post (see ReconQueue) and the registry's word.    *)

PostIdentifierHold(k) ==
  /\ row[k] = "none"
  /\ row' = [row EXCEPT ![k] = "unclaimed_identifier_hold"]
  /\ UNCHANGED <<verified, claims, pass, payout, missed, strayed>>

PingRegistry(k) ==
  /\ row[k] = "unclaimed_identifier_hold"
  /\ verified' = verified \cup {k}
  /\ UNCHANGED <<row, claims, pass, payout, missed, strayed>>

-----------------------------------------------------------------------------
(* The two releases: a read, the gates, the guarded settlement, the money, *)
(* the journal.  A refusal at a gate changes nothing.                      *)

Releasable(e) ==
  IF e \in Locks THEN row[e] = "unclaimed_identifier_hold"
                 ELSE row[e] = "unclaimed_holding"

ReadRow(r, e) ==
  /\ release[r] = Idle
  /\ Releasable(e)
  /\ release' = [release EXCEPT ![r] = [step |-> "settle", row |-> e]]
  /\ UNCHANGED <<rows, claims, pass, paid, released, cut, missed, strayed>>

(* Mutant: the settlement trusts the read. *)
ReadBefore(e) == TRUE

StillHeld(e) == Releasable(e)

Settle(r) ==
  LET e == release[r].row
  IN  /\ release[r].step = "settle"
      /\ IF StillHeld(e)
         THEN /\ e \in Locks => e \in verified
              /\ row' = [row EXCEPT ![e] = "settled"]
              /\ release' = [release EXCEPT ![r].step = "move"]
         ELSE /\ release' = [release EXCEPT ![r] = Idle]
              /\ UNCHANGED row
      /\ UNCHANGED <<verified, claims, pass, paid, released, cut, missed, strayed>>

(* Mutant: the loop over the parties runs once too often. *)
OwedOneMore(e) == paid[e] <= Parties

Owed(e) == paid[e] < Parties

PayParty(r) ==
  LET e == release[r].row
  IN  /\ release[r].step = "move" /\ e \in Credits
      /\ Owed(e)
      /\ paid' = [paid EXCEPT ![e] = @ + 1]
      /\ UNCHANGED <<rows, claims, pass, release, released, cut, missed, strayed>>

(* Mutant: the journal is posted without the fresh credit. *)
InsertNone(r) ==
  LET k == release[r].row
  IN  /\ release[r].step = "move" /\ k \in Locks
      /\ release' = [release EXCEPT ![r].step = "journal"]
      /\ UNCHANGED <<rows, claims, pass, paid, released, cut, missed, strayed>>

InsertFresh(r) ==
  LET k == release[r].row
  IN  /\ release[r].step = "move" /\ k \in Locks
      /\ row' = [row EXCEPT ![Fresh(k)] = "unclaimed_holding"]
      /\ release' = [release EXCEPT ![r].step = "journal"]
      /\ UNCHANGED <<verified, claims, pass, paid, released, cut, missed, strayed>>

PostReleaseJournal(r) ==
  LET e == release[r].row
  IN  /\ \/ release[r].step = "journal"
         \/ release[r].step = "move" /\ e \in Credits /\ ~Owed(e)
      /\ released' = released \cup {e}
      /\ release' = [release EXCEPT ![r] = Idle]
      /\ UNCHANGED <<rows, claims, pass, paid, cut, missed, strayed>>

ReleaseStops(r) ==
  /\ Faults \/ release[r].step = "settle"
  /\ release[r] # Idle
  /\ release' = [release EXCEPT ![r] = Idle]
  /\ cut' = IF release[r].step = "settle" THEN cut ELSE cut \cup {release[r].row}
  /\ UNCHANGED <<rows, claims, pass, paid, released, missed, strayed>>

-----------------------------------------------------------------------------
Next ==
  \/ \E f \in Filers :
       (\E d \in Disputes : FileAiTrainingDispute(f, d)) \/ Sweep(f) \/ FilerStops(f)
  \/ \E x \in Resolvers :
       (\E d \in Disputes : Resolve(x, d)) \/ ListFiled(x) \/ Thaw(x) \/ ResolverStops(x)
  \/ \E p \in Passes :
       BeginPass(p) \/ (\E e \in Legs : PostLeg(p, e)) \/ EndPass(p) \/ PassStops(p)
  \/ \E k \in Locks : PostIdentifierHold(k) \/ PingRegistry(k)
  \/ \E r \in Releases :
       \/ \E e \in Rows : ReadRow(r, e)
       \/ Settle(r) \/ PayParty(r) \/ InsertFresh(r) \/ PostReleaseJournal(r)
       \/ ReleaseStops(r)

Spec == Init /\ [][Next]_vars

-----------------------------------------------------------------------------
(* The types of the variables; no credit is shared by more than its parties. *)
TypeOK ==
  /\ row \in [Rows -> Statuses]
  /\ dispute \in [Disputes -> {"none", "filed", "resolved"}]
  /\ verified \subseteq Locks
  /\ sweeping \subseteq Filers
  /\ resolver \in [Resolvers -> {"idle", "list", "thaw"}]
  /\ pass \in [Passes -> {"idle", "clear", "frozen"}]
  /\ release \in [Releases -> {Idle} \cup
                    [step : {"settle", "move", "journal"}, row : Rows]]
  /\ paid \in [Rows -> 0 .. Parties]
  /\ released \subseteq Rows /\ cut \subseteq Rows
  /\ missed \in BOOLEAN /\ strayed \in BOOLEAN

(* Under an active dispute a releasable credit of the model is one that a  *)
(* call under way will freeze.  Exempt is what TLC shows to slip: a pass   *)
(* that looked before the filing, a thaw decided before it, a call that    *)
(* stopped; and the next sweep makes up for each (aiPosting.ts:462).       *)
FrozenWhileDisputed ==
  Filed # {} /\ ~missed =>
    \A e \in Legs : row[e] = "unclaimed_holding" => Freezing(sweeping, pass)

(* Once the last dispute is resolved, a frozen credit is one that a        *)
(* resolution under way will thaw, unless a freeze was still to come or a  *)
(* resolution stopped (aiDisputes.ts:172).  Two resolutions never leave    *)
(* the thaw to each other.                                                 *)
ThawedAfterwards ==
  Filed = {} /\ ~strayed =>
    \A e \in Legs : row[e] = "unauthorized_training_hold" =>
      \E x \in Resolvers : resolver[x] # "idle"

(* The money of a row moves for one release, after its settlement, and a   *)
(* journal says so only when all of it moved: a credit to each party, or a *)
(* lock to its fresh credit.  What settled without a journal is in the     *)
(* hands of exactly one release or was cut short.                          *)
InHand(e) == {r \in Releases : release[r].row = e /\ release[r].step # "settle"}

ReleasedOnce ==
  /\ \A e \in Credits :
       /\ paid[e] > 0 => row[e] = "settled"
       /\ e \in released => row[e] = "settled" /\ paid[e] = Parties
  /\ \A k \in Locks :
       /\ row[Fresh(k)] # "none" => row[k] = "settled"
       /\ k \in released => row[Fresh(k)] # "none"
  /\ \A e \in Rows :
       /\ row[e] = "settled" /\ e \notin released \cup cut => InHand(e) # {}
       /\ \A r, s \in InHand(e) : r = s

(* A frozen credit is never released, only thawed by a resolution; a       *)
(* settled row is settled for good, whatever sweeps pass over it.          *)
OnlyVerifiedExits ==
  [][\A e \in Rows :
       /\ row[e] = "unauthorized_training_hold" /\ row'[e] # row[e] =>
            row'[e] = "unclaimed_holding" /\ Thawing # {}
       /\ row[e] = "settled" => row'[e] = "settled"]_vars
=============================================================================
