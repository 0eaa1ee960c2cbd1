--------------------------- MODULE Holdings_proofs --------------------------
(***************************************************************************)
(* The freeze, the thaw and the releases for any number of credits, locks, *)
(* disputes and overlapping calls, with calls that stop at any await.      *)
(***************************************************************************)
EXTENDS Holdings, TLAPS

(* Under a dispute that every sweep and pass took into account no call is  *)
(* left that could still add a releasable credit.                          *)
Covered ==
  /\ FrozenWhileDisputed
  /\ Filed # {} /\ ~missed => Blind = {} /\ Thawing = {}

(* Without a dispute no freeze is left to come.                            *)
Cleared ==
  /\ ThawedAfterwards
  /\ Filed = {} /\ ~strayed => ~Freezing(sweeping, pass)

(* A release in hand has settled its row and nobody journalled it; a lock's *)
(* fresh credit exists exactly once the release has inserted it.           *)
Hand(r) ==
  LET e == release[r].row
  IN  /\ release[r].step \in {"move", "journal"} =>
           row[e] = "settled" /\ e \notin released
      /\ release[r].step = "move" /\ e \in Locks => row[Fresh(e)] = "none"
      /\ release[r].step = "journal" => e \in Locks /\ row[Fresh(e)] # "none"

Handled == ReleasedOnce /\ \A r \in Releases : Hand(r)

IInv == TypeOK /\ Covered /\ Cleared /\ Handled

Calls ==
  \/ \E f \in Filers, d \in Disputes : FileAiTrainingDispute(f, d)
  \/ \E f \in Filers : Sweep(f) \/ FilerStops(f)
  \/ \E x \in Resolvers, d \in Disputes : Resolve(x, d)
  \/ \E x \in Resolvers : ListFiled(x) \/ Thaw(x) \/ ResolverStops(x)
  \/ \E p \in Passes, e \in Legs : PostLeg(p, e)
  \/ \E p \in Passes : BeginPass(p) \/ EndPass(p) \/ PassStops(p)

Exits ==
  \/ \E k \in Locks : PostIdentifierHold(k) \/ PingRegistry(k)
  \/ \E r \in Releases, e \in Rows : ReadRow(r, e)
  \/ \E r \in Releases :
       Settle(r) \/ PayParty(r) \/ InsertFresh(r) \/ PostReleaseJournal(r) \/ ReleaseStops(r)

LEMMA TwoSides == Next <=> Calls \/ Exits
BY DEF Next, Calls, Exits

-----------------------------------------------------------------------------
(* Legs, locks and fresh credits are different rows. *)
LEMMA RowKinds ==
  /\ Legs \subseteq Rows /\ Locks \subseteq Rows /\ Credits \subseteq Rows
  /\ Legs \subseteq Credits
  /\ \A k \in Locks : Fresh(k) \in Credits /\ Fresh(k) \notin Legs /\ Fresh(k) \notin Locks
  /\ \A k, l \in Locks : Fresh(k) = Fresh(l) => k = l
  /\ \A e \in Legs : e \notin Locks
  /\ \A e \in Rows : e \notin Credits => e \in Locks
  /\ NoRow \notin Rows
BY HoldingsAssumption DEF Rows, Credits, Fresh

(* A sweep changes nothing but a leg between holding and frozen. *)
LEMMA SweepKeeps ==
  ASSUME TypeOK,
         \/ row' = FreezeUnauthorizedTrainingHolds
         \/ row' = ThawUnauthorizedTrainingHolds
  PROVE  /\ row' \in [Rows -> Statuses]
         /\ \A e \in Rows :
              /\ row'[e] = "settled" <=> row[e] = "settled"
              /\ row'[e] = "none" <=> row[e] = "none"
              /\ e \notin Legs => row'[e] = row[e]
BY RowKinds
   DEF TypeOK, Statuses, FreezeUnauthorizedTrainingHolds, ThawUnauthorizedTrainingHolds

(* What the release's record says. *)
LEMMA ReleaseType ==
  ASSUME TypeOK, NEW r \in Releases
  PROVE  /\ release[r] # Idle => release[r].row \in Rows
                                   /\ release[r].step \in {"settle", "move", "journal"}
         /\ release[r].step = "idle" <=> release[r] = Idle
         /\ release[r] = Idle => release[r].row = NoRow
BY DEF TypeOK, Idle

-----------------------------------------------------------------------------
(* Type correctness. *)

LEMMA TypeCalls ==
  ASSUME TypeOK, Calls
  PROVE  TypeOK'
<1>1. ASSUME NEW f \in Filers, NEW d \in Disputes, FileAiTrainingDispute(f, d)
      PROVE  TypeOK'
  BY <1>1 DEF TypeOK, FileAiTrainingDispute, rows, payout
<1>2. ASSUME NEW f \in Filers, Sweep(f) PROVE TypeOK'
  BY <1>2, SweepKeeps DEF TypeOK, Sweep, Freeze, payout
<1>3. ASSUME NEW f \in Filers, FilerStops(f) PROVE TypeOK'
  BY <1>3 DEF TypeOK, FilerStops, rows, payout
<1>4. ASSUME NEW x \in Resolvers, NEW d \in Disputes, Resolve(x, d) PROVE TypeOK'
  BY <1>4 DEF TypeOK, Resolve, rows, payout, Freezing
<1>5. ASSUME NEW x \in Resolvers, ListFiled(x) PROVE TypeOK'
  BY <1>5 DEF TypeOK, ListFiled, rows, payout
<1>6. ASSUME NEW x \in Resolvers, Thaw(x) PROVE TypeOK'
  BY <1>6, SweepKeeps DEF TypeOK, Thaw, payout, Freezing
<1>7. ASSUME NEW x \in Resolvers, ResolverStops(x) PROVE TypeOK'
  BY <1>7 DEF TypeOK, ResolverStops, rows, payout
<1>8. ASSUME NEW p \in Passes, NEW e \in Legs, PostLeg(p, e) PROVE TypeOK'
  BY <1>8, RowKinds DEF TypeOK, PostLeg, claims, payout, Statuses
<1>9. ASSUME NEW p \in Passes, BeginPass(p) PROVE TypeOK'
  BY <1>9 DEF TypeOK, BeginPass, rows, claims, payout
<1>10. ASSUME NEW p \in Passes, EndPass(p) PROVE TypeOK'
  BY <1>10, SweepKeeps DEF TypeOK, EndPass, Freeze, claims, payout
<1>11. ASSUME NEW p \in Passes, PassStops(p) PROVE TypeOK'
  BY <1>11 DEF TypeOK, PassStops, rows, claims, payout
<1> QED
  BY <1>1, <1>2, <1>3, <1>4, <1>5, <1>6, <1>7, <1>8, <1>9, <1>10, <1>11 DEF Calls

LEMMA TypeExits ==
  ASSUME TypeOK, Exits
  PROVE  TypeOK'
<1>1. ASSUME NEW k \in Locks, PostIdentifierHold(k) PROVE TypeOK'
  BY <1>1, RowKinds DEF TypeOK, PostIdentifierHold, claims, payout, Statuses
<1>2. ASSUME NEW k \in Locks, PingRegistry(k) PROVE TypeOK'
  BY <1>2 DEF TypeOK, PingRegistry, claims, payout
<1>3. ASSUME NEW r \in Releases, NEW e \in Rows, ReadRow(r, e) PROVE TypeOK'
  <2>1. [step |-> "settle", row |-> e] \in
          {Idle} \cup [step : {"settle", "move", "journal"}, row : Rows]
    OBVIOUS
  <2> QED BY <1>3, <2>1 DEF TypeOK, ReadRow, rows, claims
<1>4. ASSUME NEW r \in Releases, Settle(r) PROVE TypeOK'
  <2>1. release[r].row \in Rows /\ release[r] # Idle BY <1>4, ReleaseType DEF Settle, Idle
  <2>2. [release[r] EXCEPT !.step = "move"] \in
          [step : {"settle", "move", "journal"}, row : Rows]
    BY <2>1 DEF TypeOK
  <2>3. row' \in [Rows -> Statuses] BY <1>4, <2>1 DEF TypeOK, Settle, Statuses
  <2>4. release' \in [Releases -> {Idle} \cup
                        [step : {"settle", "move", "journal"}, row : Rows]]
    BY <1>4, <2>2 DEF TypeOK, Settle
  <2> QED BY <1>4, <2>3, <2>4 DEF TypeOK, Settle, claims
<1>5. ASSUME NEW r \in Releases, PayParty(r) PROVE TypeOK'
  <2>1. release[r].row \in Rows BY <1>5, RowKinds DEF PayParty
  <2>2. paid' \in [Rows -> 0 .. Parties]
    BY <1>5, <2>1, HoldingsAssumption DEF TypeOK, PayParty, Owed
  <2> QED BY <1>5, <2>2 DEF TypeOK, PayParty, rows, claims
<1>6. ASSUME NEW r \in Releases, InsertFresh(r) PROVE TypeOK'
  <2>1. release[r] # Idle /\ release[r].row \in Rows
    BY <1>6, ReleaseType DEF InsertFresh, Idle
  <2>2. [release[r] EXCEPT !.step = "journal"] \in
          [step : {"settle", "move", "journal"}, row : Rows]
    BY <2>1 DEF TypeOK
  <2>3. row' \in [Rows -> Statuses] BY <1>6 DEF TypeOK, InsertFresh, Statuses
  <2>4. release' \in [Releases -> {Idle} \cup
                        [step : {"settle", "move", "journal"}, row : Rows]]
    BY <1>6, <2>2 DEF TypeOK, InsertFresh
  <2> QED BY <1>6, <2>3, <2>4 DEF TypeOK, InsertFresh, claims
<1>7. ASSUME NEW r \in Releases, PostReleaseJournal(r) PROVE TypeOK'
  <2>1. release[r].row \in Rows BY <1>7, ReleaseType DEF PostReleaseJournal, Idle
  <2> QED BY <1>7, <2>1 DEF TypeOK, PostReleaseJournal, rows, claims
<1>8. ASSUME NEW r \in Releases, ReleaseStops(r) PROVE TypeOK'
  <2>1. release[r].row \in Rows BY <1>8, ReleaseType DEF ReleaseStops
  <2> QED BY <1>8, <2>1 DEF TypeOK, ReleaseStops, rows, claims
<1> QED BY <1>1, <1>2, <1>3, <1>4, <1>5, <1>6, <1>7, <1>8 DEF Exits

-----------------------------------------------------------------------------
(* The freeze. *)

(* A freeze leaves no releasable leg, and with nobody left who could add   *)
(* one nothing is missed.                                                  *)
LEMMA FreezeCovers ==
  ASSUME TypeOK, Covered, Freeze,
         UNCHANGED dispute, Blind' \subseteq Blind, Thawing' = Thawing
  PROVE  Covered'
<1>1. \A e \in Legs : row'[e] # "unclaimed_holding"
  BY RowKinds DEF Freeze, FreezeUnauthorizedTrainingHolds
<1>2. Filed' = Filed BY DEF Filed
<1>3. Filed' # {} /\ ~missed' => Blind' = {} /\ Thawing' = {}
  BY <1>2 DEF Covered, Freeze
<1> QED BY <1>1, <1>3 DEF Covered, FrozenWhileDisputed

LEMMA CoveredCalls ==
  ASSUME TypeOK, Covered, Calls
  PROVE  Covered'
<1>1. ASSUME NEW f \in Filers, NEW d \in Disputes, FileAiTrainingDispute(f, d)
      PROVE  Covered'
  <2>1. sweeping' # {} BY <1>1 DEF FileAiTrainingDispute
  <2>2. Blind' = Blind /\ Thawing' = Thawing
    BY <1>1 DEF FileAiTrainingDispute, Blind, Thawing
  <2>3. CASE dispute[d] = "none"
    BY <1>1, <2>1, <2>2, <2>3
       DEF FileAiTrainingDispute, Covered, FrozenWhileDisputed, Freezing
  <2>4. CASE dispute[d] = "filed"
    <3>1. Filed # {} BY <2>4 DEF Filed
    <3> QED BY <1>1, <2>1, <2>2, <2>4, <3>1
       DEF FileAiTrainingDispute, Covered, FrozenWhileDisputed, Freezing
  <2> QED BY <1>1, <2>3, <2>4 DEF FileAiTrainingDispute
<1>2. ASSUME NEW f \in Filers, Sweep(f) PROVE Covered'
  BY <1>2, FreezeCovers DEF Sweep, Blind, Thawing
<1>3. ASSUME NEW f \in Filers, FilerStops(f) PROVE Covered'
  BY <1>3 DEF FilerStops, Covered, FrozenWhileDisputed
<1>4. ASSUME NEW x \in Resolvers, NEW d \in Disputes, Resolve(x, d) PROVE Covered'
  <2>1. Filed' \subseteq Filed BY <1>4 DEF Resolve, Filed, TypeOK
  <2>2. Thawing' = Thawing BY <1>4 DEF Resolve, Thawing, TypeOK
  <2>3. Blind' = Blind BY <1>4 DEF Resolve, Blind
  <2> QED BY <1>4, <2>1, <2>2, <2>3
          DEF Resolve, Covered, FrozenWhileDisputed, rows
<1>5. ASSUME NEW x \in Resolvers, ListFiled(x) PROVE Covered'
  <2>1. Filed' = Filed /\ Blind' = Blind BY <1>5 DEF ListFiled, Filed, Blind
  <2>2. Filed # {} => Thawing' \subseteq Thawing
    BY <1>5 DEF ListFiled, Thawing, TypeOK, StillFiled
  <2> QED BY <1>5, <2>1, <2>2
          DEF ListFiled, Covered, FrozenWhileDisputed, rows
<1>6. ASSUME NEW x \in Resolvers, Thaw(x) PROVE Covered'
  <2>1. Thawing # {} BY <1>6 DEF Thaw, Thawing
  <2>2. Filed' = Filed BY <1>6 DEF Thaw, Filed
  <2> QED BY <1>6, <2>1, <2>2 DEF Thaw, Covered, FrozenWhileDisputed
<1>7. ASSUME NEW x \in Resolvers, ResolverStops(x) PROVE Covered'
  <2>1. Filed' = Filed /\ Blind' = Blind BY <1>7 DEF ResolverStops, Filed, Blind
  <2>2. Thawing' \subseteq Thawing BY <1>7 DEF ResolverStops, Thawing, TypeOK
  <2> QED BY <1>7, <2>1, <2>2
          DEF ResolverStops, Covered, FrozenWhileDisputed, rows
<1>8. ASSUME NEW p \in Passes, NEW e \in Legs, PostLeg(p, e) PROVE Covered'
  <2>1. Filed' = Filed /\ Blind' = Blind /\ Thawing' = Thawing
    BY <1>8 DEF PostLeg, Filed, Blind, Thawing, claims
  <2>2. Filed # {} /\ ~missed => pass[p] = "frozen"
    BY <1>8 DEF PostLeg, Covered, Blind, TypeOK
  <2> QED BY <1>8, <2>1, <2>2
          DEF PostLeg, Covered, FrozenWhileDisputed, Freezing, claims
<1>9. ASSUME NEW p \in Passes, BeginPass(p) PROVE Covered'
  <2>1. Filed' = Filed /\ Thawing' = Thawing BY <1>9 DEF BeginPass, Filed, Thawing, claims
  <2>2. Filed # {} => Blind' \subseteq Blind
    BY <1>9 DEF BeginPass, Blind, Disputed, TypeOK
  <2>3. (\E q \in Passes : pass[q] = "frozen") => \E q \in Passes : pass'[q] = "frozen"
    BY <1>9 DEF BeginPass, TypeOK
  <2> QED BY <1>9, <2>1, <2>2, <2>3
          DEF BeginPass, Covered, FrozenWhileDisputed, Freezing, rows, claims
<1>10. ASSUME NEW p \in Passes, EndPass(p) PROVE Covered'
  <2>1. Filed' = Filed /\ Thawing' = Thawing /\ UNCHANGED dispute
    BY <1>10 DEF EndPass, Filed, Thawing, claims
  <2>2. Blind' \subseteq Blind BY <1>10 DEF EndPass, Blind, TypeOK
  <2>3. CASE pass[p] = "frozen" BY <1>10, <2>1, <2>2, <2>3, FreezeCovers DEF EndPass
  <2>4. CASE pass[p] # "frozen"
    <3>1. (\E q \in Passes : pass[q] = "frozen") => \E q \in Passes : pass'[q] = "frozen"
      BY <1>10, <2>4 DEF EndPass, TypeOK
    <3> QED BY <1>10, <2>1, <2>2, <2>4, <3>1
            DEF EndPass, Covered, FrozenWhileDisputed, Freezing, claims
  <2> QED BY <2>3, <2>4
<1>11. ASSUME NEW p \in Passes, PassStops(p) PROVE Covered'
  <2>1. Filed' = Filed /\ Thawing' = Thawing BY <1>11 DEF PassStops, Filed, Thawing, claims
  <2>2. Blind' \subseteq Blind BY <1>11 DEF PassStops, Blind, TypeOK
  <2>3. ~missed' => ~missed /\ pass[p] # "frozen" BY <1>11 DEF PassStops
  <2>4. pass[p] # "frozen" /\ (\E q \in Passes : pass[q] = "frozen") =>
          \E q \in Passes : pass'[q] = "frozen"
    BY <1>11 DEF PassStops, TypeOK
  <2> QED BY <1>11, <2>1, <2>2, <2>3, <2>4
          DEF PassStops, Covered, FrozenWhileDisputed, Freezing, rows, claims
<1> QED
  BY <1>1, <1>2, <1>3, <1>4, <1>5, <1>6, <1>7, <1>8, <1>9, <1>10, <1>11 DEF Calls

(* A step that touches neither disputes nor calls, and turns no leg into a *)
(* releasable or a frozen one, keeps both.                                 *)
LEMMA Aside ==
  ASSUME Covered, Cleared, UNCHANGED <<claims, pass, missed, strayed>>,
         \A e \in Legs : row'[e] = row[e] \/ row'[e] = "settled"
  PROVE  Covered' /\ Cleared'
<1>1. Filed' = Filed /\ Thawing' = Thawing /\ Blind' = Blind
  BY DEF claims, Filed, Thawing, Blind
<1>2. Freezing(sweeping, pass)' <=> Freezing(sweeping, pass)
  BY DEF claims, Freezing
<1>3. \A e \in Legs : /\ row'[e] = "unclaimed_holding" => row[e] = "unclaimed_holding"
                      /\ row'[e] = "unauthorized_training_hold" =>
                           row[e] = "unauthorized_training_hold"
  OBVIOUS
<1>4. Covered' BY <1>1, <1>2, <1>3 DEF Covered, FrozenWhileDisputed
<1>5. (\E x \in Resolvers : resolver[x] # "idle")' <=> \E x \in Resolvers : resolver[x] # "idle"
  BY DEF claims
<1> QED BY <1>1, <1>2, <1>3, <1>4, <1>5 DEF Cleared, ThawedAfterwards

LEMMA AsideExits ==
  ASSUME TypeOK, Covered, Cleared, Exits
  PROVE  Covered' /\ Cleared'
<1>1. UNCHANGED <<claims, pass, missed, strayed>>
  BY DEF Exits, PostIdentifierHold, PingRegistry, ReadRow, Settle, PayParty, InsertFresh,
         PostReleaseJournal, ReleaseStops
<1>2. \A e \in Legs : row'[e] = row[e] \/ row'[e] = "settled"
  <2>1. ASSUME NEW k \in Locks, PostIdentifierHold(k)
        PROVE  \A e \in Legs : row'[e] = row[e]
    BY <2>1, RowKinds DEF PostIdentifierHold, TypeOK
  <2>2. ASSUME NEW r \in Releases, Settle(r)
        PROVE  \A e \in Legs : row'[e] = row[e] \/ row'[e] = "settled"
    BY <2>2, RowKinds DEF Settle, TypeOK
  <2>3. ASSUME NEW r \in Releases, InsertFresh(r)
        PROVE  \A e \in Legs : row'[e] = row[e]
    BY <2>3, RowKinds DEF InsertFresh, TypeOK
  <2> QED BY <2>1, <2>2, <2>3
          DEF Exits, PingRegistry, ReadRow, PayParty, PostReleaseJournal, ReleaseStops, rows
<1> QED BY <1>1, <1>2, Aside

-----------------------------------------------------------------------------
(* The thaw. *)

(* A freeze comes under a dispute or is one that had strayed.              *)
LEMMA FreezeCleared ==
  ASSUME Cleared, Freezing(sweeping, pass), UNCHANGED <<dispute, strayed>>
  PROVE  Cleared'
<1>1. Filed' = Filed BY DEF Filed
<1> QED BY <1>1 DEF Cleared, ThawedAfterwards

LEMMA ClearedCalls ==
  ASSUME TypeOK, Cleared, Calls
  PROVE  Cleared'
<1>1. ASSUME NEW f \in Filers, NEW d \in Disputes, FileAiTrainingDispute(f, d)
      PROVE  Cleared'
  <2>1. Filed' # {} BY <1>1 DEF FileAiTrainingDispute, Filed, TypeOK
  <2> QED BY <2>1 DEF Cleared, ThawedAfterwards
<1>2. ASSUME NEW f \in Filers, Sweep(f) PROVE Cleared'
  BY <1>2, FreezeCleared DEF Sweep, Freezing
<1>3. ASSUME NEW f \in Filers, FilerStops(f) PROVE Cleared'
  BY <1>3, FreezeCleared DEF FilerStops, Freezing
<1>4. ASSUME NEW x \in Resolvers, NEW d \in Disputes, Resolve(x, d) PROVE Cleared'
  <2>1. resolver'[x] = "list" BY <1>4 DEF Resolve, TypeOK
  <2>2. Filed' = Filed \ {d} BY <1>4 DEF Resolve, Filed, TypeOK
  <2>3. d \in Filed BY <1>4 DEF Resolve, Filed
  <2>4. Filed' = {} => Filed = {d} BY <2>2, <2>3
  <2>5. UNCHANGED <<sweeping, pass>> BY <1>4 DEF Resolve
  <2>6. Filed' = {} /\ ~strayed' => ~Freezing(sweeping, pass)
    BY <1>4, <2>4 DEF Resolve
  <2> QED BY <2>1, <2>5, <2>6 DEF Cleared, ThawedAfterwards
<1>5. ASSUME NEW x \in Resolvers, ListFiled(x) PROVE Cleared'
  <2>1. Filed' = Filed BY <1>5 DEF ListFiled, Filed
  <2>2. Filed = {} => resolver'[x] = "thaw" BY <1>5 DEF ListFiled, StillFiled, TypeOK
  <2> QED BY <1>5, <2>1, <2>2 DEF ListFiled, Cleared, ThawedAfterwards, rows
<1>6. ASSUME NEW x \in Resolvers, Thaw(x) PROVE Cleared'
  <2>1. \A e \in Legs : row'[e] # "unauthorized_training_hold"
    BY <1>6, RowKinds DEF Thaw, ThawUnauthorizedTrainingHolds
  <2>2. Filed' = Filed BY <1>6 DEF Thaw, Filed
  <2> QED BY <1>6, <2>1, <2>2 DEF Thaw, Cleared, ThawedAfterwards
<1>7. ASSUME NEW x \in Resolvers, ResolverStops(x) PROVE Cleared'
  BY <1>7 DEF ResolverStops, Cleared, ThawedAfterwards
<1>8. ASSUME NEW p \in Passes, NEW e \in Legs, PostLeg(p, e) PROVE Cleared'
  <2>1. \A g \in Legs : row'[g] = "unauthorized_training_hold" =>
          row[g] = "unauthorized_training_hold"
    BY <1>8, RowKinds DEF PostLeg, TypeOK
  <2>2. Filed' = Filed BY <1>8 DEF PostLeg, Filed, claims
  <2> QED BY <1>8, <2>1, <2>2 DEF PostLeg, Cleared, ThawedAfterwards, claims
<1>9. ASSUME NEW p \in Passes, BeginPass(p) PROVE Cleared'
  <2>1. Filed' = Filed BY <1>9 DEF BeginPass, Filed, claims
  <2>2. Filed = {} => (Freezing(sweeping, pass)' => Freezing(sweeping, pass))
    BY <1>9 DEF BeginPass, Disputed, Freezing, TypeOK, claims
  <2> QED BY <1>9, <2>1, <2>2 DEF BeginPass, Cleared, ThawedAfterwards, rows, claims
<1>10. ASSUME NEW p \in Passes, EndPass(p) PROVE Cleared'
  <2>1. CASE pass[p] = "frozen"
    BY <1>10, <2>1, FreezeCleared DEF EndPass, Freezing, claims
  <2>2. CASE pass[p] # "frozen"
    <3>1. Filed' = Filed BY <1>10 DEF EndPass, Filed, claims
    <3>2. Freezing(sweeping, pass)' => Freezing(sweeping, pass)
      BY <1>10 DEF EndPass, Freezing, TypeOK, claims
    <3> QED BY <1>10, <2>2, <3>1, <3>2 DEF EndPass, Cleared, ThawedAfterwards, claims
  <2> QED BY <2>1, <2>2
<1>11. ASSUME NEW p \in Passes, PassStops(p) PROVE Cleared'
  <2>1. Filed' = Filed BY <1>11 DEF PassStops, Filed, claims
  <2>2. Freezing(sweeping, pass)' => Freezing(sweeping, pass)
    BY <1>11 DEF PassStops, Freezing, TypeOK, claims
  <2> QED BY <1>11, <2>1, <2>2 DEF PassStops, Cleared, ThawedAfterwards, rows, claims
<1> QED
  BY <1>1, <1>2, <1>3, <1>4, <1>5, <1>6, <1>7, <1>8, <1>9, <1>10, <1>11 DEF Calls

-----------------------------------------------------------------------------
(* The releases. *)

(* Sweeps, passes and posts settle nothing and make no fresh credit. *)
LEMMA Elsewhere ==
  ASSUME TypeOK, Handled, UNCHANGED payout,
         \A e \in Rows : row'[e] = "settled" <=> row[e] = "settled",
         \A k \in Locks : row'[Fresh(k)] = "none" <=> row[Fresh(k)] = "none"
  PROVE  Handled'
<1>1. UNCHANGED <<release, paid, released, cut>> BY DEF payout
<1>2. \A e : InHand(e)' = InHand(e) BY <1>1 DEF InHand
<1>3. ReleasedOnce'
  <2>1. \A k \in Locks : Fresh(k) \in Rows /\ k \in Rows BY RowKinds
  <2>2. \A e \in Credits : e \in Rows BY RowKinds
  <2> QED BY <1>1, <1>2, <2>1, <2>2 DEF Handled, ReleasedOnce
<1>4. ASSUME NEW r \in Releases PROVE Hand(r)'
  <2>1. release[r].step \in {"move", "journal"} => release[r].row \in Rows
    BY ReleaseType DEF Idle
  <2>2. Hand(r) BY DEF Handled
  <2> QED BY <1>1, <2>1, <2>2 DEF Hand
<1> QED BY <1>3, <1>4 DEF Handled

LEMMA HandledCalls ==
  ASSUME TypeOK, Handled, Calls
  PROVE  Handled'
<1>1. UNCHANGED payout
  BY DEF Calls, FileAiTrainingDispute, Sweep, FilerStops, Resolve, ListFiled, Thaw,
         ResolverStops, PostLeg, BeginPass, EndPass, PassStops
<1>2. \/ UNCHANGED row
      \/ row' = FreezeUnauthorizedTrainingHolds
      \/ row' = ThawUnauthorizedTrainingHolds
      \/ \E e \in Legs : row[e] = "none" /\ row' = [row EXCEPT ![e] = "unclaimed_holding"]
  BY DEF Calls, FileAiTrainingDispute, Sweep, FilerStops, Resolve, ListFiled, Thaw,
         ResolverStops, PostLeg, BeginPass, EndPass, PassStops, Freeze, rows
<1>3. CASE UNCHANGED row BY <1>1, <1>3, Elsewhere
<1>4. CASE \/ row' = FreezeUnauthorizedTrainingHolds
           \/ row' = ThawUnauthorizedTrainingHolds
  <2>1. \A k \in Locks : Fresh(k) \in Rows BY RowKinds
  <2>2. \A e \in Rows : /\ row'[e] = "settled" <=> row[e] = "settled"
                        /\ row'[e] = "none" <=> row[e] = "none"
    BY <1>4, SweepKeeps
  <2> QED BY <1>1, <2>1, <2>2, Elsewhere
<1>5. ASSUME NEW e \in Legs, row[e] = "none", row' = [row EXCEPT ![e] = "unclaimed_holding"]
      PROVE  Handled'
  <2>1. \A g \in Rows : row'[g] = "settled" <=> row[g] = "settled"
    BY <1>5, RowKinds DEF TypeOK
  <2>2. \A k \in Locks : row'[Fresh(k)] = row[Fresh(k)]
    BY <1>5, RowKinds DEF TypeOK
  <2> QED BY <1>1, <2>1, <2>2, Elsewhere
<1> QED BY <1>2, <1>3, <1>4, <1>5

(* Of the releases of a row at most one is in hand, and only of a settled one. *)
LEMMA OneHand ==
  ASSUME TypeOK, Handled, NEW r \in Releases, release[r].step \in {"move", "journal"}
  PROVE  /\ release[r].row \in Rows
         /\ r \in InHand(release[r].row)
         /\ \A s \in Releases :
              release[s].row = release[r].row /\ release[s].step \in {"move", "journal"} => s = r
<1>1. \A s \in Releases : release[s].step \in {"move", "journal"} =>
        release[s].row \in Rows /\ s \in InHand(release[s].row)
  BY ReleaseType DEF InHand, Idle
<1> QED BY <1>1 DEF Handled, ReleasedOnce

LEMMA HandSteps ==
  ASSUME TypeOK, NEW e \in Rows, NEW r \in InHand(e)
  PROVE  r \in Releases /\ release[r].row = e /\ release[r].step \in {"move", "journal"}
BY ReleaseType, RowKinds DEF InHand, Idle

LEMMA HandledExits ==
  ASSUME TypeOK, Handled, TypeOK', Exits
  PROVE  Handled'
<1>1. ASSUME NEW k \in Locks, PostIdentifierHold(k) PROVE Handled'
  <2>1. \A e \in Rows : row'[e] = "settled" <=> row[e] = "settled"
    BY <1>1, RowKinds DEF PostIdentifierHold, TypeOK
  <2>2. \A l \in Locks : row'[Fresh(l)] = row[Fresh(l)]
    BY <1>1, RowKinds DEF PostIdentifierHold, TypeOK
  <2> QED BY <1>1, <2>1, <2>2, Elsewhere DEF PostIdentifierHold
<1>2. ASSUME NEW k \in Locks, PingRegistry(k) PROVE Handled'
  BY <1>2, Elsewhere DEF PingRegistry
<1>3. ASSUME NEW r \in Releases, NEW e \in Rows, ReadRow(r, e) PROVE Handled'
  <2>1. UNCHANGED <<row, paid, released, cut>> BY <1>3 DEF ReadRow, rows
  <2>2. \A s \in Releases : s # r => release'[s] = release[s]
    BY <1>3 DEF ReadRow, TypeOK
  <2>3. release'[r].step = "settle" /\ release'[r].row = e BY <1>3 DEF ReadRow, TypeOK
  <2>4. release[r].step = "idle" /\ release[r].row \notin Rows
    BY <1>3, RowKinds DEF ReadRow, Idle
  <2>5. \A g \in Rows : InHand(g)' = InHand(g)
    BY <2>2, <2>3, <2>4 DEF InHand
  <2>6. ReleasedOnce' BY <2>1, <2>5 DEF Handled, ReleasedOnce
  <2>7. \A s \in Releases : Hand(s)' BY <2>1, <2>2, <2>3 DEF Handled, Hand
  <2> QED BY <2>6, <2>7 DEF Handled
<1>4. ASSUME NEW r \in Releases, Settle(r) PROVE Handled'
  <2>a. release[r].row \in Rows BY <1>4, ReleaseType DEF Settle, Idle
  <2>b. PICK e \in Rows : e = release[r].row BY <2>a
  <2>0. release[r].step = "settle" BY <1>4 DEF Settle
  <2>1. UNCHANGED <<paid, released, cut>> BY <1>4 DEF Settle
  <2>2. \A s \in Releases : s # r => release'[s] = release[s]
    BY <1>4 DEF Settle, TypeOK
  <2>3. CASE ~StillHeld(e)
    <3>1. row' = row /\ release'[r] = Idle BY <1>4, <2>b, <2>3 DEF Settle, TypeOK
    <3>2. \A g \in Rows : InHand(g)' = InHand(g)
      BY <2>b, <2>0, <2>2, <3>1, RowKinds DEF InHand, Idle
    <3>3. ReleasedOnce' BY <2>1, <3>1, <3>2 DEF Handled, ReleasedOnce
    <3>4. \A s \in Releases : Hand(s)' BY <2>1, <2>2, <3>1 DEF Handled, Hand, Idle
    <3> QED BY <3>3, <3>4 DEF Handled
  <2>4. CASE StillHeld(e)
    <3>1. release'[r].step = "move" /\ release'[r].row = e
      <4>1. release[r] \in [step : {"settle", "move", "journal"}, row : Rows]
        BY <2>0 DEF TypeOK, Idle
      <4>2. release' = [release EXCEPT ![r].step = "move"] BY <1>4, <2>4, <2>b DEF Settle
      <4> QED BY <2>b, <4>1, <4>2 DEF TypeOK
    <3>2. row'[e] = "settled" /\ \A g \in Rows : g # e => row'[g] = row[g]
      BY <1>4, <2>b, <2>4 DEF Settle, TypeOK
    <3>3. row[e] \notin {"settled", "none"}
      BY <2>4 DEF StillHeld, Releasable
    <3>4. InHand(e) = {}
      BY <3>3, HandSteps DEF Handled, Hand
    <3>5. InHand(e)' = {r} BY <2>b, <2>0, <2>2, <3>1, <3>4 DEF InHand
    <3>6. \A g \in Rows : g # e => InHand(g)' = InHand(g)
      BY <2>b, <2>0, <2>2, <3>1 DEF InHand
    <3>7. e \in Locks => row[Fresh(e)] = "none" /\ row'[Fresh(e)] = "none"
      <4>1. e \in Locks => row[Fresh(e)] = "none" BY <3>3 DEF Handled, ReleasedOnce
      <4>2. e \in Locks => Fresh(e) \in Rows /\ Fresh(e) # e BY RowKinds
      <4> QED BY <3>2, <4>1, <4>2
    <3>8. \A g \in Rows : g \in released => g # e
      <4>1. SUFFICES ASSUME e \in released PROVE FALSE OBVIOUS
      <4>2. CASE e \in Locks BY <3>7, <4>1, <4>2 DEF Handled, ReleasedOnce
      <4>3. CASE e \in Credits BY <3>3, <4>1, <4>3 DEF Handled, ReleasedOnce
      <4> QED BY <4>2, <4>3, RowKinds
    <3>9. \A g \in Credits : /\ paid'[g] > 0 => row'[g] = "settled"
                             /\ g \in released' => row'[g] = "settled" /\ paid'[g] = Parties
      BY <2>1, <3>2, RowKinds DEF Handled, ReleasedOnce
    <3>10. \A k \in Locks : /\ row'[Fresh(k)] # "none" => row'[k] = "settled"
                            /\ k \in released' => row'[Fresh(k)] # "none"
      <4> SUFFICES ASSUME NEW k \in Locks
                   PROVE  /\ row'[Fresh(k)] # "none" => row'[k] = "settled"
                          /\ k \in released' => row'[Fresh(k)] # "none"
        OBVIOUS
      <4>1. k \in Rows /\ Fresh(k) \in Rows BY RowKinds
      <4>2. row[Fresh(k)] # "none" => row[k] = "settled" BY DEF Handled, ReleasedOnce
      <4>3. k \in released => row[Fresh(k)] # "none" BY DEF Handled, ReleasedOnce
      <4>4. row'[Fresh(k)] # "none" <=> row[Fresh(k)] # "none" BY <3>2, <3>3, <4>1
      <4> QED BY <2>1, <3>2, <4>1, <4>2, <4>3, <4>4
    <3>11. \A g \in Rows :
             /\ row'[g] = "settled" /\ g \notin released' \cup cut' => InHand(g)' # {}
             /\ \A s, t \in InHand(g)' : s = t
      BY <2>1, <3>2, <3>5, <3>6 DEF Handled, ReleasedOnce
    <3>12. ReleasedOnce' BY <3>9, <3>10, <3>11 DEF ReleasedOnce
    <3>13. ASSUME NEW s \in Releases PROVE Hand(s)'
      <4>1. CASE s = r BY <2>b, <2>0, <2>1, <3>1, <3>2, <3>7, <3>8, <4>1 DEF Hand
      <4>2. CASE s # r
        <5>1. release'[s] = release[s] BY <2>2, <4>2
        <5>2. Hand(s) BY DEF Handled
        <5>3. release[s].step \in {"move", "journal"} =>
                release[s].row \in Rows /\ release[s].row # e
          BY <3>3, <5>2, ReleaseType DEF Hand, Idle
        <5>4. release[s].row \in Locks => Fresh(release[s].row) \in Rows BY RowKinds
        <5>5. release[s].row \in Locks =>
                (row'[Fresh(release[s].row)] = "none" <=> row[Fresh(release[s].row)] = "none")
          BY <3>2, <3>3, <5>4
        <5> QED BY <2>1, <3>2, <5>1, <5>2, <5>3, <5>5 DEF Hand
      <4> QED BY <4>1, <4>2
    <3> QED BY <3>12, <3>13 DEF Handled
  <2> QED BY <2>3, <2>4
<1>5. ASSUME NEW r \in Releases, PayParty(r) PROVE Handled'
  <2> DEFINE e == release[r].row
  <2>1. e \in Credits /\ e \in Rows /\ release[r].step = "move" BY <1>5, RowKinds DEF PayParty
  <2>2. UNCHANGED <<row, release, released, cut>> BY <1>5 DEF PayParty, rows
  <2>3. row[e] = "settled" /\ e \notin released BY <2>1 DEF Handled, Hand
  <2>4. \A g \in Rows : g # e => paid'[g] = paid[g] BY <1>5 DEF PayParty, TypeOK
  <2>5. \A g \in Rows : InHand(g)' = InHand(g) BY <2>2 DEF InHand
  <2>6. \A g \in Credits : /\ paid'[g] > 0 => row[g] = "settled"
                           /\ g \in released => row[g] = "settled" /\ paid'[g] = Parties
    BY <2>3, <2>4, RowKinds DEF Handled, ReleasedOnce
  <2>7. ReleasedOnce' BY <2>2, <2>5, <2>6 DEF Handled, ReleasedOnce
  <2>8. \A s \in Releases : Hand(s)' BY <2>2 DEF Handled, Hand
  <2> QED BY <2>7, <2>8 DEF Handled
<1>6. ASSUME NEW r \in Releases, InsertFresh(r) PROVE Handled'
  <2> DEFINE k == release[r].row
  <2>1. k \in Locks /\ release[r].step = "move" BY <1>6 DEF InsertFresh
  <2>2. k \in Rows /\ Fresh(k) \in Rows /\ Fresh(k) \in Credits /\ Fresh(k) # k
    BY <2>1, RowKinds
  <2>3. UNCHANGED <<paid, released, cut>> BY <1>6 DEF InsertFresh
  <2>4. \A s \in Releases : s # r => release'[s] = release[s]
    BY <1>6 DEF InsertFresh, TypeOK
  <2>5. release'[r].step = "journal" /\ release'[r].row = k
    BY <1>6 DEF InsertFresh, TypeOK
  <2>6. row'[Fresh(k)] = "unclaimed_holding" /\ \A g \in Rows : g # Fresh(k) => row'[g] = row[g]
    BY <1>6, <2>2 DEF InsertFresh, TypeOK
  <2>7. row[k] = "settled" /\ k \notin released /\ row[Fresh(k)] = "none"
    BY <2>1 DEF Handled, Hand
  <2>8. \A g \in Rows : InHand(g)' = InHand(g) BY <2>1, <2>4, <2>5 DEF InHand
  <2>9. \A g \in Rows : row'[g] = "settled" <=> row[g] = "settled" BY <2>6, <2>7
  <2>10. ReleasedOnce'
    <3>1. \A g \in Credits : /\ paid'[g] > 0 => row'[g] = "settled"
                             /\ g \in released' => row'[g] = "settled" /\ paid'[g] = Parties
      BY <2>3, <2>9, RowKinds DEF Handled, ReleasedOnce
    <3>2. \A l \in Locks : /\ row'[Fresh(l)] # "none" => row'[l] = "settled"
                           /\ l \in released' => row'[Fresh(l)] # "none"
      <4> SUFFICES ASSUME NEW l \in Locks
                   PROVE  /\ row'[Fresh(l)] # "none" => row'[l] = "settled"
                          /\ l \in released' => row'[Fresh(l)] # "none"
        OBVIOUS
      <4>1. l \in Rows /\ Fresh(l) \in Rows BY RowKinds
      <4>2. /\ row[Fresh(l)] # "none" => row[l] = "settled"
            /\ l \in released => row[Fresh(l)] # "none"
        BY DEF Handled, ReleasedOnce
      <4>3. Fresh(l) = Fresh(k) => l = k BY <2>1, RowKinds
      <4> QED BY <2>3, <2>6, <2>7, <2>9, <4>1, <4>2, <4>3
    <3>3. \A g \in Rows :
            /\ row'[g] = "settled" /\ g \notin released' \cup cut' => InHand(g)' # {}
            /\ \A s, t \in InHand(g)' : s = t
      BY <2>3, <2>8, <2>9 DEF Handled, ReleasedOnce
    <3> QED BY <3>1, <3>2, <3>3 DEF ReleasedOnce
  <2>11. ASSUME NEW s \in Releases PROVE Hand(s)'
    <3>1. CASE s = r BY <2>1, <2>2, <2>3, <2>5, <2>6, <2>7, <3>1 DEF Hand
    <3>2. CASE s # r
      <4>1. release'[s] = release[s] BY <2>4, <3>2
      <4>2. Hand(s) BY DEF Handled
      <4>3. release[s].step \in {"move", "journal"} =>
              release[s].row \in Rows /\ release[s].row # k
        BY <2>1, <3>2, ReleaseType, OneHand DEF Idle
      <4>4. release[s].row \in Locks /\ release[s].row # k =>
              Fresh(release[s].row) \in Rows /\ Fresh(release[s].row) # Fresh(k)
        BY <2>1, RowKinds
      <4>5. release[s].row \in Locks /\ release[s].row # k =>
              row'[Fresh(release[s].row)] = row[Fresh(release[s].row)]
        BY <2>6, <4>4
      <4> QED BY <2>3, <2>9, <4>1, <4>2, <4>3, <4>5 DEF Hand
    <3> QED BY <3>1, <3>2
  <2> QED BY <2>10, <2>11 DEF Handled
<1>7. ASSUME NEW r \in Releases, PostReleaseJournal(r) PROVE Handled'
  <2>1. release[r].step \in {"move", "journal"} BY <1>7 DEF PostReleaseJournal
  <2>a. PICK e \in Rows : e = release[r].row BY <2>1, OneHand
  <2>2. /\ r \in InHand(e)
        /\ \A s \in Releases : release[s].row = e /\ release[s].step \in {"move", "journal"}
                                  => s = r
    BY <2>1, <2>a, OneHand
  <2>3. UNCHANGED <<row, paid, cut>> /\ released' = released \cup {e}
    BY <1>7, <2>a DEF PostReleaseJournal, rows
  <2>4. release'[r] = Idle /\ \A s \in Releases : s # r => release'[s] = release[s]
    BY <1>7 DEF PostReleaseJournal, TypeOK
  <2>5. \A g \in Rows : g # e => InHand(g)' = InHand(g)
    BY <2>a, <2>2, <2>4, RowKinds DEF InHand, Idle
  <2>6. InHand(e)' = {}
    <3>1. InHand(e) \subseteq {r} BY <2>2, HandSteps
    <3> QED BY <2>4, <3>1, RowKinds DEF InHand, Idle
  <2>7. row[e] = "settled" BY <2>a, <2>1 DEF Handled, Hand
  <2>8. e \in Credits => paid[e] = Parties
    <3>1. SUFFICES ASSUME e \in Credits PROVE paid[e] = Parties OBVIOUS
    <3>2. release[r].step # "journal" BY <2>a, <3>1, RowKinds DEF Handled, Hand, Credits
    <3>3. paid[e] \in 0 .. Parties /\ ~Owed(e) BY <1>7, <2>a, <3>2 DEF PostReleaseJournal, TypeOK
    <3> QED BY <3>3, HoldingsAssumption DEF Owed
  <2>9. e \in Locks => row[Fresh(e)] # "none"
    <3>1. e \in Locks => release[r].step = "journal"
      BY <1>7, <2>a, HoldingsAssumption DEF PostReleaseJournal
    <3> QED BY <2>a, <3>1 DEF Handled, Hand
  <2>10. ReleasedOnce'
    <3>1. \A g \in Rows :
            /\ row'[g] = "settled" /\ g \notin released' \cup cut' => InHand(g)' # {}
            /\ \A s, t \in InHand(g)' : s = t
      BY <2>3, <2>5, <2>6 DEF Handled, ReleasedOnce
    <3>2. \A g \in Credits : /\ paid'[g] > 0 => row'[g] = "settled"
                             /\ g \in released' => row'[g] = "settled" /\ paid'[g] = Parties
      BY <2>3, <2>7, <2>8 DEF Handled, ReleasedOnce
    <3>3. \A k \in Locks : /\ row'[Fresh(k)] # "none" => row'[k] = "settled"
                           /\ k \in released' => row'[Fresh(k)] # "none"
      BY <2>3, <2>9 DEF Handled, ReleasedOnce
    <3> QED BY <3>1, <3>2, <3>3 DEF ReleasedOnce
  <2>11. ASSUME NEW s \in Releases PROVE Hand(s)'
    <3>1. CASE s = r BY <2>4, <3>1 DEF Hand, Idle
    <3>2. CASE s # r BY <2>a, <2>2, <2>3, <2>4, <3>2 DEF Handled, Hand
    <3> QED BY <3>1, <3>2
  <2> QED BY <2>10, <2>11 DEF Handled
<1>8. ASSUME NEW r \in Releases, ReleaseStops(r) PROVE Handled'
  <2>1. UNCHANGED <<row, paid, released>> BY <1>8 DEF ReleaseStops, rows
  <2>2. release'[r] = Idle /\ \A s \in Releases : s # r => release'[s] = release[s]
    BY <1>8 DEF ReleaseStops, TypeOK
  <2>3. \A s \in Releases : Hand(s)' BY <2>1, <2>2 DEF Handled, Hand, Idle
  <2>4. \A g \in Rows : InHand(g)' = InHand(g) \ {r} BY <2>2, RowKinds DEF InHand, Idle
  <2>5. \A g \in Rows : r \in InHand(g) => g \in cut'
    BY <1>8, HandSteps DEF ReleaseStops
  <2>6. cut \subseteq cut' BY <1>8 DEF ReleaseStops
  <2>7. \A g \in Rows :
          /\ row'[g] = "settled" /\ g \notin released' \cup cut' => InHand(g)' # {}
          /\ \A s, t \in InHand(g)' : s = t
    BY <2>1, <2>4, <2>5, <2>6 DEF Handled, ReleasedOnce
  <2>8. ReleasedOnce' BY <2>1, <2>7 DEF Handled, ReleasedOnce
  <2> QED BY <2>3, <2>8 DEF Handled
<1> QED BY <1>1, <1>2, <1>3, <1>4, <1>5, <1>6, <1>7, <1>8 DEF Exits

-----------------------------------------------------------------------------
(* The invariant and the theorems. *)

LEMMA InitInvariant == Init => IInv
<1> SUFFICES ASSUME Init PROVE IInv OBVIOUS
<1>1. TypeOK
  <2>1. paid \in [Rows -> 0 .. Parties] BY HoldingsAssumption DEF Init
  <2>2. row \in [Rows -> Statuses] BY DEF Init, Statuses
  <2> QED BY <2>1, <2>2 DEF Init, TypeOK
<1>2. Covered BY RowKinds DEF Init, Covered, FrozenWhileDisputed, Filed
<1>3. Cleared BY RowKinds DEF Init, Cleared, ThawedAfterwards, Freezing
<1>4. \A e \in Rows : InHand(e) = {} BY RowKinds DEF Init, InHand, Idle
<1>5. ReleasedOnce BY <1>4, RowKinds DEF Init, ReleasedOnce
<1>6. \A r \in Releases : Hand(r) BY DEF Init, Hand, Idle
<1> QED BY <1>1, <1>2, <1>3, <1>5, <1>6 DEF IInv, Handled

LEMMA StepInvariant ==
  ASSUME IInv, [Next]_vars
  PROVE  IInv'
<1>1. CASE Calls
  BY <1>1, TypeCalls, CoveredCalls, ClearedCalls, HandledCalls DEF IInv
<1>2. CASE Exits
  BY <1>2, TypeExits, AsideExits, HandledExits DEF IInv
<1>3. CASE UNCHANGED vars
  <2>1. TypeOK' BY <1>3 DEF IInv, TypeOK, vars, rows, claims, payout
  <2>2. UNCHANGED <<claims, pass, missed, strayed>> /\ row' = row
    BY <1>3 DEF vars, rows
  <2>3. Covered' /\ Cleared' BY <2>2, Aside DEF IInv
  <2>4. Handled' BY <1>3, Elsewhere DEF IInv, vars, rows
  <2> QED BY <2>1, <2>3, <2>4 DEF IInv
<1> QED BY <1>1, <1>2, <1>3, TwoSides

(* The inductive invariant.  Each of the first two parts needs to know     *)
(* which calls are left that act on what they read before (Covered,        *)
(* Cleared); the releases, what each of them has in hand (Hand).           *)
THEOREM Invariance == Spec => []IInv
<1>1. Init => IInv BY InitInvariant
<1>2. IInv /\ [Next]_vars => IInv' BY StepInvariant
<1> QED BY <1>1, <1>2, PTL DEF Spec

(* Types, for any number of parties, rows and calls.                       *)
THEOREM TypeCorrect == Spec => []TypeOK
BY Invariance, PTL DEF IInv

(* Under an active dispute every releasable credit of the model is one a   *)
(* call under way will freeze (fileAiTrainingDispute and the re-freeze of  *)
(* postAiLinesToHolding), unless a sweep was missed.                       *)
THEOREM FreezeHolds == Spec => []FrozenWhileDisputed
<1>1. IInv => FrozenWhileDisputed BY DEF IInv, Covered
<1> QED BY <1>1, Invariance, PTL

(* With no dispute left every frozen credit is one a resolution under way  *)
(* will thaw (resolveAiTrainingDisputeVerified), unless a freeze strayed.  *)
THEOREM ThawHolds == Spec => []ThawedAfterwards
<1>1. IInv => ThawedAfterwards BY DEF IInv, Cleared
<1> QED BY <1>1, Invariance, PTL

(* One settlement per row; a release journal stands for money that moved   *)
(* (releaseUnclaimedHolding, releaseIdentifierHoldEscrow).                 *)
THEOREM ReleasesOnce == Spec => []ReleasedOnce
<1>1. IInv => ReleasedOnce BY DEF IInv, Handled
<1> QED BY <1>1, Invariance, PTL

LEMMA ExitStep ==
  ASSUME IInv, [Next]_vars, NEW e \in Rows
  PROVE  /\ row[e] = "unauthorized_training_hold" /\ row'[e] # row[e] =>
              row'[e] = "unclaimed_holding" /\ Thawing # {}
         /\ row[e] = "settled" => row'[e] = "settled"
<1>1. CASE Calls
  <2>1. \/ row' = FreezeUnauthorizedTrainingHolds
        \/ row' = ThawUnauthorizedTrainingHolds /\ Thawing # {}
        \/ UNCHANGED row
        \/ \E g \in Legs : row[g] = "none" /\ row' = [row EXCEPT ![g] = "unclaimed_holding"]
    BY <1>1 DEF Calls, FileAiTrainingDispute, Sweep, FilerStops, Resolve, ListFiled, Thaw,
       ResolverStops, PostLeg, BeginPass, EndPass, PassStops, Freeze, rows, Thawing
  <2> QED BY <2>1 DEF IInv, TypeOK, FreezeUnauthorizedTrainingHolds,
                      ThawUnauthorizedTrainingHolds
<1>2. CASE Exits
  <2>1. \A r \in Releases : release[r].step = "move" /\ release[r].row \in Locks =>
          row[Fresh(release[r].row)] = "none"
    BY DEF IInv, Handled, Hand
  <2>2. \/ UNCHANGED row
        \/ \E k \in Locks : row[k] = "none" /\ row' = [row EXCEPT ![k] = "unclaimed_identifier_hold"]
        \/ \E g \in Rows : Releasable(g) /\ row' = [row EXCEPT ![g] = "settled"]
        \/ \E k \in Locks : row[Fresh(k)] = "none"
                              /\ row' = [row EXCEPT ![Fresh(k)] = "unclaimed_holding"]
    <3>1. ASSUME NEW r \in Releases, Settle(r)
          PROVE  \/ UNCHANGED row
                 \/ \E g \in Rows : Releasable(g) /\ row' = [row EXCEPT ![g] = "settled"]
      BY <3>1, ReleaseType DEF IInv, Settle, StillHeld, Idle
    <3>2. ASSUME NEW r \in Releases, InsertFresh(r)
          PROVE  \E k \in Locks : row[Fresh(k)] = "none"
                                    /\ row' = [row EXCEPT ![Fresh(k)] = "unclaimed_holding"]
      BY <2>1, <3>2 DEF InsertFresh
    <3> QED BY <1>2, <3>1, <3>2
            DEF Exits, PostIdentifierHold, PingRegistry, ReadRow, PayParty,
                PostReleaseJournal, ReleaseStops, rows
  <2>3. row \in [Rows -> Statuses] BY DEF IInv, TypeOK
  <2> QED BY <2>2, <2>3, RowKinds DEF Releasable
<1>3. CASE UNCHANGED vars BY <1>3 DEF vars, rows
<1> QED BY <1>1, <1>2, <1>3, TwoSides

(* A frozen credit leaves only by the thaw of a resolution; a settled row  *)
(* stays settled under every sweep and release.                            *)
THEOREM FrozenUntilResolved == Spec => OnlyVerifiedExits
<1>1. IInv /\ [Next]_vars =>
        [\A e \in Rows :
           /\ row[e] = "unauthorized_training_hold" /\ row'[e] # row[e] =>
                row'[e] = "unclaimed_holding" /\ Thawing # {}
           /\ row[e] = "settled" => row'[e] = "settled"]_vars
  BY ExitStep
<1> QED BY <1>1, Invariance, PTL DEF Spec, OnlyVerifiedExits
=============================================================================
