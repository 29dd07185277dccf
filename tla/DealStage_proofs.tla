--------------------------- MODULE DealStage_proofs ---------------------------
(***************************************************************************)
(* Theorems about DealStage, for any set of deals and of requests, and     *)
(* about Serial, where deals, offers and envelopes are served one request  *)
(* at a time.                                                              *)
(***************************************************************************)
EXTENDS Serial, Naturals, TLAPS

(***************************************************************************)
(* Type correctness.                                                       *)
(***************************************************************************)

\* The gates an actor opens are gates.
LEMMA OpenedType ==
  ASSUME NEW from, NEW to, NEW role, NEW reasoned
  PROVE  Opened(from, to, role, reasoned) \in SUBSET LC!Gates
BY DEF Opened, LC!GatesOf

\* A request starts for a member with some role and reason, or for the system.
LEMMA StartIsStart ==
  ASSUME NEW p, NEW d, NEW to,
         StartTransition(p, d, to) \/ StartSystemTransition(p, d, to)
  PROVE  \E role \in Roles, reasoned \in BOOLEAN :
           Start(p, d, to, role, reasoned)
<1>1. CASE StartTransition(p, d, to)
  BY <1>1 DEF StartTransition
<1>2. CASE StartSystemTransition(p, d, to)
  <2>1. "system" \in Roles /\ FALSE \in BOOLEAN
    BY DEF Roles
  <2> QED BY <1>2, <2>1 DEF StartSystemTransition
<1> QED BY <1>1, <1>2

\* A step keeps every variable of DealStage in its type.
LEMMA TypeStep == TypeOK /\ [Next]_vars => TypeOK'
<1> SUFFICES ASSUME TypeOK, [Next]_vars PROVE TypeOK'
  OBVIOUS
<1> USE DEF TypeOK, Idle, Busy, dealVars, auditVars, historyVars
<1>1. ASSUME NEW p \in Requests, NEW d \in Deals, NEW to \in Stages,
             NEW role \in Roles, NEW reasoned \in BOOLEAN,
             Start(p, d, to, role, reasoned)
      PROVE  TypeOK'
  <2>1. Opened(stage[d], to, role, reasoned) \in SUBSET LC!Gates
    BY OpenedType
  <2>2. Overrides(stage[d], to, role) \in BOOLEAN
    BY DEF Overrides, GuardPasses
  <2> QED BY <1>1, <2>1, <2>2 DEF Start
<1>2. ASSUME NEW p \in Requests, WriteStage(p) PROVE TypeOK'
  <2>1. req[p] \in Busy
    BY <1>2 DEF WriteStage
  <2>2. stage' \in [Deals -> Stages] /\ passed' \in [Deals -> SUBSET LC!Gates]
    BY <1>2, <2>1 DEF WriteStage
  <2>3. req' \in [Requests -> {Idle} \cup Busy]
    BY <1>2, <2>1 DEF WriteStage
  <2> QED BY <1>2, <2>1, <2>2, <2>3 DEF WriteStage
<1>3. ASSUME NEW p \in Requests, AuditStage(p) PROVE TypeOK'
  <2>1. req[p] \in Busy
    BY <1>3 DEF AuditStage
  <2>2. req' \in [Requests -> {Idle} \cup Busy]
    BY <1>3, <2>1 DEF AuditStage
  <2> QED BY <1>3, <2>1, <2>2 DEF AuditStage
<1>4. ASSUME NEW p \in Requests, AuditOverride(p) PROVE TypeOK'
  BY <1>4 DEF AuditOverride
<1>5. ASSUME NEW p \in Requests, Fail(p) PROVE TypeOK'
  BY <1>5 DEF Fail
<1>6. ASSUME NEW d \in Deals, NEW type \in DealTypes, UpdateDeal(d, type)
      PROVE  TypeOK'
  BY <1>6 DEF UpdateDeal
<1>7. CASE UNCHANGED vars
  BY <1>7 DEF vars
<1>8. ASSUME NEW p \in Requests, NEW d \in Deals, NEW to \in Stages,
             StartTransition(p, d, to) \/ StartSystemTransition(p, d, to)
      PROVE  TypeOK'
  <2> HIDE DEF TypeOK
  <2> QED BY <1>1, <1>8, StartIsStart
<1> HIDE DEF TypeOK, Idle, Busy, dealVars, auditVars, historyVars
<1> QED
  BY <1>2, <1>3, <1>4, <1>5, <1>6, <1>7, <1>8 DEF Next

\* Every variable of DealStage keeps its type.
THEOREM TypeCorrect == Spec => []TypeOK
<1>1. Init => TypeOK
  BY DEF Init, TypeOK, Idle, Stages, InitialStage
<1> QED
  BY <1>1, TypeStep, PTL DEF Spec

(***************************************************************************)
(* No gate is skipped, whatever the interleaving.                          *)
(***************************************************************************)

\* Clearance survives the opening of more gates.
LEMMA ClearedMonotone ==
  ASSUME NEW s, NEW G, NEW H, Cleared(s, G), G \subseteq H
  PROVE  Cleared(s, H)
BY DEF Cleared, ListingReviewed, ContractReviewed, ClosureAuthorised

\* A transition validateTransition allows from a cleared stage leads to a
\* stage that is cleared once the actor's own gates are added.
LEMMA AllowedCleared ==
  ASSUME NEW dt, NEW from \in Stages, NEW to \in Stages, NEW role \in Roles,
         NEW reasoned \in BOOLEAN, NEW G,
         Allowed(dt, from, to, role, reasoned), Cleared(from, G)
  PROVE  Cleared(to, G \cup Opened(from, to, role, reasoned))
<1> USE DEF Cleared, ListingReviewed, ContractReviewed, ClosureAuthorised,
            BeforeListingReview, AfterContractReview
<1>1. CASE <<from, to>> \in ReviewerEdges
  <2>1. role = "reviewer" \/ (role = "admin" /\ reasoned)
    BY <1>1 DEF Allowed, GuardPasses, IsAdminOverride
  <2>2. \A g \in {"listing_review", "contract_review"} :
          Entitled(g, role, reasoned)
    BY <2>1 DEF Entitled
  <2> QED BY <1>1, <2>2 DEF ReviewerEdges, Opened, LC!GatesOf, LC!Gates
<1>2. CASE <<from, to>> \in ClosureEdges
  <2>1. role \in {"agent", "admin"}
    BY <1>2 DEF Allowed, GuardPasses, IsAdminOverride
  <2>2. Entitled("closure", role, reasoned)
    BY <2>1 DEF Entitled
  <2> QED BY <1>2, <2>2 DEF ClosureEdges, Opened, LC!GatesOf, LC!Gates
<1>3. CASE <<from, to>> \in UnguardedEdges
  BY <1>3 DEF UnguardedEdges
<1> QED BY <1>1, <1>2, <1>3 DEF Allowed, Edges

\* The inductive invariant is preserved by every step.
LEMMA GateStep ==
  TypeOK /\ NoGateSkipped /\ PendingCleared /\ [Next]_vars
    => NoGateSkipped' /\ PendingCleared'
<1> SUFFICES ASSUME TypeOK, NoGateSkipped, PendingCleared, [Next]_vars
             PROVE  NoGateSkipped' /\ PendingCleared'
  OBVIOUS
<1> USE DEF TypeOK, Idle, Busy, dealVars, auditVars, historyVars
<1>1. ASSUME NEW p \in Requests, NEW d \in Deals, NEW to \in Stages,
             NEW role \in Roles, NEW reasoned \in BOOLEAN,
             Start(p, d, to, role, reasoned)
      PROVE  NoGateSkipped' /\ PendingCleared'
  <2>1. Cleared(to, passed[d] \cup Opened(stage[d], to, role, reasoned))
    BY <1>1, AllowedCleared DEF Start, NoGateSkipped
  <2>2. NoGateSkipped'
    BY <1>1 DEF Start, NoGateSkipped, Cleared, ListingReviewed,
                ContractReviewed, ClosureAuthorised
  <2>3. ASSUME NEW q \in Requests, req'[q].pc = "write"
        PROVE  Cleared(req'[q].to, passed'[req'[q].deal] \cup req'[q].opens)
    <3>1. CASE q = p
      BY <1>1, <2>1, <3>1 DEF Start
    <3>2. CASE q # p
      <4>1. req'[q] = req[q] /\ passed' = passed
        BY <1>1, <3>2 DEF Start
      <4> QED BY <2>3, <4>1 DEF PendingCleared
    <3> QED BY <3>1, <3>2
  <2>4. PendingCleared'
    BY <2>3 DEF PendingCleared, Cleared, ListingReviewed,
                ContractReviewed, ClosureAuthorised
  <2> QED BY <2>2, <2>4
<1>2. ASSUME NEW p \in Requests, WriteStage(p)
      PROVE  NoGateSkipped' /\ PendingCleared'
  <2> DEFINE r == req[p]
  <2>1. r \in Busy /\ r.pc = "write"
    BY <1>2 DEF WriteStage
  <2>2. Cleared(r.to, passed[r.deal] \cup r.opens)
    BY <2>1 DEF PendingCleared
  <2>3. \A d \in Deals : passed[d] \subseteq passed'[d]
    BY <1>2, <2>1 DEF WriteStage
  <2>4. ASSUME NEW d \in Deals PROVE Cleared(stage'[d], passed'[d])
    <3>1. CASE d = r.deal
      <4>1. stage'[d] = r.to /\ passed'[d] = passed[r.deal] \cup r.opens
        BY <1>2, <2>1, <3>1 DEF WriteStage
      <4> QED BY <2>2, <4>1
    <3>2. CASE d # r.deal
      <4>1. stage'[d] = stage[d] /\ passed'[d] = passed[d]
        BY <1>2, <2>1, <3>2 DEF WriteStage
      <4> QED BY <4>1 DEF NoGateSkipped
    <3> QED BY <3>1, <3>2
  <2>5. ASSUME NEW q \in Requests, req'[q].pc = "write"
        PROVE  Cleared(req'[q].to, passed'[req'[q].deal] \cup req'[q].opens)
    <3>1. q # p /\ req'[q] = req[q]
      BY <1>2, <2>1, <2>5 DEF WriteStage
    <3>2. req[q] \in Busy
      BY <2>5, <3>1
    <3>3. Cleared(req[q].to, passed[req[q].deal] \cup req[q].opens)
      BY <2>5, <3>1 DEF PendingCleared
    <3>4. passed[req[q].deal] \cup req[q].opens
            \subseteq passed'[req[q].deal] \cup req[q].opens
      BY <2>3, <3>2
    <3> HIDE <1>2
    <3> QED BY <3>1, <3>3, <3>4, ClearedMonotone
  <2>6. NoGateSkipped' /\ PendingCleared'
    BY <2>4, <2>5 DEF NoGateSkipped, PendingCleared, Cleared,
         ListingReviewed, ContractReviewed, ClosureAuthorised
  <2> QED BY <2>6
<1>3. ASSUME NEW p \in Requests,
             AuditStage(p) \/ AuditOverride(p) \/ Fail(p)
      PROVE  NoGateSkipped' /\ PendingCleared'
  <2>1. stage' = stage /\ passed' = passed
    BY <1>3 DEF AuditStage, AuditOverride, Fail
  <2>2. \A q \in Requests : req'[q] = req[q] \/ req'[q].pc # "write"
    BY <1>3 DEF AuditStage, AuditOverride, Fail
  <2> QED
    BY <2>1, <2>2 DEF NoGateSkipped, PendingCleared, Cleared,
         ListingReviewed, ContractReviewed, ClosureAuthorised
<1>4. ASSUME UNCHANGED <<stage, passed, req>>
      PROVE  NoGateSkipped' /\ PendingCleared'
  BY <1>4 DEF NoGateSkipped, PendingCleared, Cleared,
       ListingReviewed, ContractReviewed, ClosureAuthorised
<1>5. ASSUME NEW p \in Requests, NEW d \in Deals, NEW to \in Stages,
             StartTransition(p, d, to) \/ StartSystemTransition(p, d, to)
      PROVE  NoGateSkipped' /\ PendingCleared'
  <2> HIDE DEF TypeOK
  <2> QED BY <1>1, <1>5, StartIsStart
<1>6. UNCHANGED vars => UNCHANGED <<stage, passed, req>>
  BY DEF vars
<1>7. ASSUME NEW d \in Deals, NEW type \in DealTypes, UpdateDeal(d, type)
      PROVE  UNCHANGED <<stage, passed, req>>
  BY <1>7 DEF UpdateDeal
<1> HIDE DEF TypeOK, Idle, Busy, dealVars, auditVars, historyVars
<1> QED
  BY <1>2, <1>3, <1>4, <1>5, <1>6, <1>7 DEF Next

\* However requests interleave and fail, no deal is past a review or a closure
\* that nobody entitled to it let through (guards.ts, deals.service.ts).
THEOREM GatesNeverSkipped == Spec => []NoGateSkipped
<1>1. Init => NoGateSkipped /\ PendingCleared
  BY DEF Init, NoGateSkipped, PendingCleared, Cleared, ListingReviewed,
         ContractReviewed, ClosureAuthorised, BeforeListingReview,
         AfterContractReview, InitialStage, Idle
<1> QED
  BY <1>1, GateStep, TypeCorrect, PTL DEF Spec

(***************************************************************************)
(* The audit of overrides.                                                 *)
(***************************************************************************)

\* The accounting of overrides is preserved by every step.
LEMMA OverrideStep ==
  TypeOK /\ OverrideAccounted /\ OverridePending /\ [Next]_vars
    => OverrideAccounted' /\ OverridePending'
<1> SUFFICES ASSUME TypeOK, OverrideAccounted, OverridePending, [Next]_vars
             PROVE  OverrideAccounted' /\ OverridePending'
  OBVIOUS
<1> USE DEF TypeOK, Idle, Busy, dealVars, auditVars, historyVars,
            OverrideAccounted, OverridePending, InFlight
<1>1. ASSUME NEW p \in Requests, NEW d \in Deals, NEW to \in Stages,
             NEW role \in Roles, NEW reasoned \in BOOLEAN,
             Start(p, d, to, role, reasoned)
      PROVE  OverrideAccounted' /\ OverridePending'
  <2>1. \A q \in Requests \ {p} : req'[q] = req[q]
    BY <1>1 DEF Start
  <2>2. req'[p].pc = "write"
    BY <1>1 DEF Start
  <2> QED BY <1>1, <2>1, <2>2 DEF Start
<1>2. ASSUME NEW p \in Requests, WriteStage(p)
      PROVE  OverrideAccounted' /\ OverridePending'
  <2>1. /\ req[p] \in Busy
        /\ req'[p].pc = "audit"
        /\ req'[p].deal = req[p].deal
        /\ req'[p].override = req[p].override
    BY <1>2 DEF WriteStage
  <2>2. \A q \in Requests \ {p} : req'[q] = req[q]
    BY <1>2 DEF WriteStage
  <2>3. OverridePending'
    BY <1>2, <2>1, <2>2 DEF WriteStage
  <2>4. OverrideAccounted'
    BY <1>2, <2>1, <2>2 DEF WriteStage
  <2> QED BY <2>3, <2>4
<1>3. ASSUME NEW p \in Requests, AuditStage(p)
      PROVE  OverrideAccounted' /\ OverridePending'
  <2>1. \A q \in Requests \ {p} : req'[q] = req[q]
    BY <1>3 DEF AuditStage
  <2>2. /\ req[p] \in Busy /\ req[p].pc = "audit"
        /\ req[p].override =>
             /\ req'[p].pc = "auditOverride"
             /\ req'[p].deal = req[p].deal
             /\ req'[p].override
        /\ ~req[p].override => req'[p].pc = "idle"
    BY <1>3 DEF AuditStage
  <2> QED BY <1>3, <2>1, <2>2 DEF AuditStage
<1>4. ASSUME NEW p \in Requests, AuditOverride(p)
      PROVE  OverrideAccounted' /\ OverridePending'
  <2>1. \A q \in Requests \ {p} : req'[q] = req[q]
    BY <1>4 DEF AuditOverride
  <2>2. req[p] \in Busy /\ req[p].override /\ req'[p].pc = "idle"
    BY <1>4 DEF AuditOverride
  <2> QED BY <1>4, <2>1, <2>2 DEF AuditOverride
<1>5. ASSUME NEW p \in Requests, Fail(p)
      PROVE  OverrideAccounted' /\ OverridePending'
  <2>1. \A q \in Requests \ {p} : req'[q] = req[q]
    BY <1>5 DEF Fail
  <2>2. req[p] \in Busy /\ req'[p].pc = "idle"
    BY <1>5 DEF Fail
  <2> QED BY <1>5, <2>1, <2>2 DEF Fail
<1>6. ASSUME UNCHANGED <<req, overrideRow, overridden, lost>>
      PROVE  OverrideAccounted' /\ OverridePending'
  BY <1>6
<1>7. ASSUME NEW p \in Requests, NEW d \in Deals, NEW to \in Stages,
             StartTransition(p, d, to) \/ StartSystemTransition(p, d, to)
      PROVE  OverrideAccounted' /\ OverridePending'
  <2> HIDE DEF TypeOK, OverrideAccounted, OverridePending
  <2> QED BY <1>1, <1>7, StartIsStart
<1>8. UNCHANGED vars => UNCHANGED <<req, overrideRow, overridden, lost>>
  BY DEF vars
<1>9. ASSUME NEW d \in Deals, NEW type \in DealTypes, UpdateDeal(d, type)
      PROVE  UNCHANGED <<req, overrideRow, overridden, lost>>
  BY <1>9 DEF UpdateDeal
<1> HIDE DEF TypeOK, Idle, Busy, dealVars, auditVars, historyVars,
             OverrideAccounted, OverridePending, InFlight
<1> QED
  BY <1>2, <1>3, <1>4, <1>5, <1>6, <1>7, <1>8, <1>9 DEF Next

\* An admin override is on the audit trail, in progress, or its request died;
\* and the trail claims no override that was not made (deals.service.ts).
THEOREM OverridesAccounted == Spec => []OverrideAccounted
<1>1. Init => OverrideAccounted /\ OverridePending
  BY DEF Init, OverrideAccounted, OverridePending, Idle
<1> QED
  BY <1>1, OverrideStep, TypeCorrect, PTL DEF Spec

(***************************************************************************)
(* Refinement: one request at a time implements the life cycle.            *)
(***************************************************************************)

\* An allowed transition opens every gate of its edge: the guards ask for no
\* less than the authority Entitled asks for.
LEMMA AllowedOpensAll ==
  ASSUME NEW dt, NEW from \in Stages, NEW to \in Stages, NEW role \in Roles,
         NEW reasoned \in BOOLEAN,
         Allowed(dt, from, to, role, reasoned)
  PROVE  Opened(from, to, role, reasoned) = LC!GatesOf(from, to)
<1>1. CASE <<from, to>> \in ReviewerEdges
  BY <1>1 DEF Allowed, GuardPasses, IsAdminOverride, ReviewerEdges, Opened,
              Entitled, LC!GatesOf, LC!Gates
<1>2. CASE <<from, to>> \in ClosureEdges
  BY <1>2 DEF Allowed, GuardPasses, IsAdminOverride, ClosureEdges, Opened,
              Entitled, LC!GatesOf, LC!Gates
<1>3. CASE <<from, to>> \in UnguardedEdges
  <2>1. LC!GatesOf(from, to) = {}
    BY <1>3 DEF UnguardedEdges, LC!GatesOf
  <2> QED BY <2>1 DEF Opened
<1> QED BY <1>1, <1>2, <1>3 DEF Allowed, Edges

\* The life cycle speaks of the same workflow.
LEMMA SameWorkflow == LC!Stages = Stages /\ LC!Edges = Edges
BY DEF LC!Stages, Stages, LC!Edges, Edges, LC!ReviewerEdges, ReviewerEdges,
       LC!ClosureEdges, ClosureEdges, LC!UnguardedEdges, UnguardedEdges

\* With one request, every step keeps checks fresh and is a step, or a
\* stutter, of the life cycle.
LEMMA SerialStep ==
  ASSUME \A p, q \in Requests : p = q,
         TypeOK, NeverStale, [Next]_vars
  PROVE  NeverStale' /\ [LC!LifecycleNext]_(LC!lifecycleVars)
<1> USE DEF TypeOK, Idle, Busy, dealVars, auditVars, historyVars
<1>1. ASSUME NEW p \in Requests, NEW d \in Deals, NEW to \in Stages,
             NEW role \in Roles, NEW reasoned \in BOOLEAN,
             Start(p, d, to, role, reasoned)
      PROVE  NeverStale' /\ UNCHANGED <<stage, passed>>
  <2>1. Opened(stage[d], to, role, reasoned) = LC!GatesOf(stage[d], to)
    BY <1>1, AllowedOpensAll DEF Start
  <2>2. <<stage[d], to>> \in Edges
    BY <1>1 DEF Start, Allowed
  <2>3. /\ req'[p].from = stage[d] /\ req'[p].to = to /\ req'[p].deal = d
        /\ req'[p].opens = LC!GatesOf(stage[d], to)
        /\ stage' = stage
    BY <1>1, <2>1 DEF Start
  <2>4. \A q \in Requests : req'[q] = req'[p]
    OBVIOUS
  <2>5. NeverStale'
    BY <2>2, <2>3, <2>4 DEF NeverStale, LC!GatesOf, LC!Gates
  <2> QED BY <1>1, <2>5 DEF Start
<1>2. ASSUME NEW p \in Requests, WriteStage(p)
      PROVE  NeverStale' /\ LC!LifecycleNext
  <2>1. /\ req[p] \in Busy
        /\ req[p].from = stage[req[p].deal]
        /\ <<req[p].from, req[p].to>> \in Edges
        /\ req[p].opens = LC!GatesOf(req[p].from, req[p].to)
    BY <1>2 DEF WriteStage, NeverStale
  <2>2. LC!Move(req[p].deal, req[p].to)
    BY <1>2, <2>1, SameWorkflow DEF WriteStage, LC!Move
  <2>3. \A q \in Requests : req'[q].pc # "write"
    BY <1>2, <2>1 DEF WriteStage
  <2>4. NeverStale'
    BY <2>3 DEF NeverStale, LC!GatesOf, LC!Gates
  <2>5. req[p].deal \in Deals /\ req[p].to \in LC!Stages
    BY <2>1, SameWorkflow
  <2>6. LC!LifecycleNext
    BY <2>2, <2>5 DEF LC!LifecycleNext
  <2> QED BY <2>4, <2>6
<1>3. ASSUME NEW p \in Requests,
             AuditStage(p) \/ AuditOverride(p) \/ Fail(p)
      PROVE  NeverStale' /\ UNCHANGED <<stage, passed>>
  <2>1. UNCHANGED <<stage, passed>>
    BY <1>3 DEF AuditStage, AuditOverride, Fail
  <2>2. \A q \in Requests : req'[q].pc # "write"
    BY <1>3 DEF AuditStage, AuditOverride, Fail
  <2> QED BY <2>1, <2>2 DEF NeverStale
<1>4. ASSUME UNCHANGED <<stage, passed, req>>
      PROVE  NeverStale'
  BY <1>4 DEF NeverStale, LC!GatesOf, LC!Gates
<1>5. ASSUME NEW p \in Requests, NEW d \in Deals, NEW to \in Stages,
             StartTransition(p, d, to) \/ StartSystemTransition(p, d, to)
      PROVE  NeverStale' /\ UNCHANGED <<stage, passed>>
  <2> HIDE DEF TypeOK
  <2> QED BY <1>1, <1>5, StartIsStart
<1>6. UNCHANGED vars => UNCHANGED <<stage, passed, req>>
  BY DEF vars
<1>7. ASSUME NEW d \in Deals, NEW type \in DealTypes, UpdateDeal(d, type)
      PROVE  UNCHANGED <<stage, passed, req>>
  BY <1>7 DEF UpdateDeal
<1> HIDE DEF TypeOK, Idle, Busy, dealVars, auditVars, historyVars
<1>8. ASSUME Next
      PROVE  NeverStale' /\ (LC!LifecycleNext \/ UNCHANGED <<stage, passed>>)
  BY <1>2, <1>3, <1>4, <1>5, <1>7, <1>8 DEF Next
<1>9. CASE Next
  BY <1>8, <1>9 DEF LC!lifecycleVars
<1>10. CASE UNCHANGED vars
  BY <1>4, <1>6, <1>10 DEF LC!lifecycleVars
<1> QED
  BY <1>9, <1>10

\* An API that serves one request at a time implements the life cycle: the
\* stages move along the edges, each gate opened with authority.
THEOREM SerialImplementsLifecycle ==
  ASSUME \A p, q \in Requests : p = q
  PROVE  Spec => Lifecycle
<1>1. Init => NeverStale /\ LC!LifecycleInit
  BY DEF Init, NeverStale, LC!LifecycleInit, Idle, InitialStage, LC!InitialStage
<1>2. TypeOK /\ NeverStale /\ [Next]_vars
        => NeverStale' /\ [LC!LifecycleNext]_(LC!lifecycleVars)
  BY SerialStep
<1> QED
  BY <1>1, <1>2, TypeCorrect, PTL DEF Spec, Lifecycle, LC!LifecycleSpec

(***************************************************************************)
(* With one request at a time the audit trail tells the stage.             *)
(***************************************************************************)

\* A deal's newest row is behind its stage only while the request that wrote
\* the stage has the row still to write, and that row will say what is there.
RowFollows ==
  /\ \A d \in Deals : d \in lost \/ trail[d] = stage[d]
       \/ \E p \in Requests : req[p].pc = "audit" /\ req[p].deal = d
  /\ \A p \in Requests : req[p].pc = "audit" => stage[req[p].deal] = req[p].to

LEMMA RowStep ==
  ASSUME \A p, q \in Requests : p = q,
         TypeOK, RowFollows, [Next]_vars
  PROVE  RowFollows'
<1> USE DEF TypeOK, Idle, Busy, dealVars, auditVars, historyVars
<1>1. ASSUME NEW p \in Requests, NEW d \in Deals, NEW to \in Stages,
             NEW role \in Roles, NEW reasoned \in BOOLEAN,
             Start(p, d, to, role, reasoned)
      PROVE  RowFollows'
  <2>1. \A q \in Requests : req[q].pc = "idle" /\ req'[q].pc = "write"
    BY <1>1 DEF Start
  <2>2. UNCHANGED <<stage, trail, lost>>
    BY <1>1 DEF Start
  <2> HIDE DEF TypeOK
  <2> QED BY <2>1, <2>2 DEF RowFollows
<1>2. ASSUME NEW p \in Requests, WriteStage(p) PROVE RowFollows'
  <2>1. /\ req[p] \in Busy /\ req[p].pc = "write"
        /\ stage' = [stage EXCEPT ![req[p].deal] = req[p].to]
        /\ trail' = trail /\ lost' = lost
    BY <1>2 DEF WriteStage
  <2>2. /\ req'[p].pc = "audit" /\ req'[p].deal = req[p].deal
        /\ req'[p].to = req[p].to
    BY <1>2, <2>1 DEF WriteStage
  <2>3. \A q \in Requests : q = p
    OBVIOUS
  <2>4. stage'[req[p].deal] = req[p].to
          /\ \A d \in Deals \ {req[p].deal} : stage'[d] = stage[d]
    BY <2>1
  <2>5. \A d \in Deals \ {req[p].deal} : d \in lost \/ trail[d] = stage[d]
    BY <2>1, <2>3 DEF RowFollows
  <2> HIDE DEF TypeOK, Busy
  <2> QED BY <2>1, <2>2, <2>3, <2>4, <2>5 DEF RowFollows
<1>3. ASSUME NEW p \in Requests, AuditStage(p) PROVE RowFollows'
  <2>1. /\ req[p] \in Busy /\ req[p].pc = "audit"
        /\ trail' = [trail EXCEPT ![req[p].deal] = req[p].to]
        /\ stage' = stage /\ lost' = lost
    BY <1>3 DEF AuditStage
  <2>2. \A q \in Requests : q = p /\ req'[q].pc # "audit"
    BY <1>3, <2>1 DEF AuditStage
  <2>3. trail'[req[p].deal] = stage[req[p].deal]
          /\ \A d \in Deals \ {req[p].deal} : trail'[d] = trail[d]
    BY <2>1 DEF RowFollows
  <2>4. \A d \in Deals \ {req[p].deal} : d \in lost \/ trail[d] = stage[d]
    BY <2>2 DEF RowFollows
  <2> HIDE DEF TypeOK, Busy
  <2> QED BY <2>1, <2>2, <2>3, <2>4 DEF RowFollows
<1>4. ASSUME NEW p \in Requests, AuditOverride(p) PROVE RowFollows'
  <2>1. \A q \in Requests : req[q].pc # "audit" /\ req'[q].pc # "audit"
    BY <1>4 DEF AuditOverride
  <2>2. UNCHANGED <<stage, trail, lost>>
    BY <1>4 DEF AuditOverride
  <2> QED BY <2>1, <2>2 DEF RowFollows
<1>5. ASSUME NEW p \in Requests, Fail(p) PROVE RowFollows'
  <2>1. \A q \in Requests : q = p /\ req'[q].pc # "audit"
    BY <1>5 DEF Fail
  <2>2. UNCHANGED <<stage, trail>> /\ lost \subseteq lost'
          /\ (req[p].pc = "audit" => req[p].deal \in lost')
    BY <1>5 DEF Fail
  <2> QED BY <2>1, <2>2 DEF RowFollows
<1>6. ASSUME UNCHANGED <<stage, trail, lost, req>> PROVE RowFollows'
  BY <1>6 DEF RowFollows
<1>7. ASSUME NEW p \in Requests, NEW d \in Deals, NEW to \in Stages,
             StartTransition(p, d, to) \/ StartSystemTransition(p, d, to)
      PROVE  RowFollows'
  <2> HIDE DEF TypeOK
  <2> QED BY <1>1, <1>7, StartIsStart
<1>8. ASSUME NEW d \in Deals, NEW type \in DealTypes, UpdateDeal(d, type)
      PROVE  RowFollows'
  BY <1>6, <1>8 DEF UpdateDeal
<1>9. CASE UNCHANGED vars
  BY <1>6, <1>9 DEF vars
<1> HIDE DEF TypeOK, Idle, Busy, dealVars, auditVars, historyVars
<1> QED
  BY <1>2, <1>3, <1>4, <1>5, <1>7, <1>8, <1>9 DEF Next

\* An API that serves one request at a time leaves a trail whose newest row
\* tells the stage of every deal that lost no row.
THEOREM SerialNarrates ==
  ASSUME \A p, q \in Requests : p = q
  PROVE  Spec => []NarrativeCurrent
<1>1. Init => RowFollows
  BY DEF Init, RowFollows, Idle
<1>2. TypeOK /\ RowFollows /\ [Next]_vars => RowFollows'
  BY RowStep
<1>3. RowFollows => NarrativeCurrent
  BY DEF RowFollows, NarrativeCurrent, InFlight
<1> QED
  BY <1>1, <1>2, <1>3, TypeCorrect, PTL DEF Spec

(***************************************************************************)
(* Each component behaves in Serial as it does alone.                      *)
(***************************************************************************)

\* A step of Serial is a step of one of the three and none of the others'.
LEMMA Parts == SerialSpec => Spec /\ OfferSide!Spec /\ EnvSide!Spec
<1>1. SerialInit => Init /\ OfferSide!Init /\ EnvSide!Init
  BY DEF SerialInit
<1>2. ASSUME [SerialNext]_<<part, vars, offerSide, envSide>>
      PROVE  [Next]_vars /\ [OfferSide!Next]_(OfferSide!vars) /\ [EnvSide!Next]_(EnvSide!vars)
  <2>1. UNCHANGED offerSide <=> UNCHANGED OfferSide!vars
    BY DEF offerSide, OfferSide!vars
  <2>2. UNCHANGED envSide <=> UNCHANGED EnvSide!vars
    BY DEF envSide, EnvSide!vars, EnvSide!rowVars, EnvSide!dealVars, EnvSide!docusignVars
  <2> QED BY <1>2, <2>1, <2>2 DEF SerialNext
<1> QED BY <1>1, <1>2, PTL DEF SerialSpec, Spec, OfferSide!Spec, EnvSide!Spec

\* Beside deals and envelopes, too, one request at a time moves offers as the
\* abstract book has it (OffersService, AcceptanceService).
THEOREM OffersFollowBook ==
  ASSUME \A p, q \in Requests : p = q
  PROVE  SerialSpec => FollowsBook
<1>1. OfferSide!Spec => OfferSide!FollowsBook
  BY OfferSide!SerialFollowsBook
<1> QED BY <1>1, Parts, PTL DEF FollowsBook

\* Beside deals and offers, too, one request at a time and a DocuSign that answers
\* never move an envelope back (SignaturesService.syncEnvelopeStatus).
THEOREM EnvelopesMoveForward ==
  ASSUME \A p, q \in Requests : p = q
  PROVE  SerialSpec => EnvelopeForward
<1>1. {"sent_for_signature"} \subseteq EnvSide!Stages
  BY DEF EnvSide!Stages
<1>2. FALSE \in BOOLEAN /\ TRUE \in BOOLEAN /\ 1 \in Nat /\ ~FALSE
  OBVIOUS
<1>3. EnvSide!Spec => EnvSide!EnvelopeForward
  BY <1>1, <1>2, EnvSide!SerialMovesForward
<1> QED BY <1>3, Parts, PTL DEF EnvelopeForward
=============================================================================
