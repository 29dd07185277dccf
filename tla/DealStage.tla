------------------------------- MODULE DealStage ------------------------------
(***************************************************************************)
(* Stage transitions of deals, as the API performs them.                   *)
(*                                                                         *)
(* POST /deals/:id/transition (DealsService.transition) reads the deal,    *)
(* asks validateTransition, then awaits three separate database calls: the *)
(* unconditional update of the stage, the deal_stage_changed audit row     *)
(* and, when an admin overrode a guard, the admin_override row.  Nothing   *)
(* is transactional, so other requests run between two awaits and a        *)
(* request may die between any two of them.  The tryTransitionDeal helpers *)
(* of OffersService, AcceptanceService and SignaturesService do the same   *)
(* with the role 'system' and without a reason.                            *)
(***************************************************************************)
EXTENDS Workflow

CONSTANTS
  Deals,      \* the deals
  Requests    \* the requests the API process may be serving at one time

VARIABLES
  dealType,   \* Deal.dealType
  stage,      \* Deal.stage
  req,        \* where each request is between its awaits
  trail,      \* the stage each deal has in the newest row of its audit trail
  overrideRow,\* the deals with an admin_override audit row
  passed,     \* history: gates passed by someone entitled to open them
  overridden, \* history: deals moved by an admin override
  lost        \* history: deals with a stage change that lost an audit row

dealVars == <<dealType, stage>>
auditVars == <<trail, overrideRow>>
historyVars == <<passed, overridden, lost>>
vars == <<dealVars, req, auditVars, historyVars>>

LC == INSTANCE DealLifecycle

Idle == [pc |-> "idle"]

\* What a request keeps in its local variables between two awaits: the stage
\* it read, the one it asks for, result.override; and, for the history
\* variables, the gates its actor is entitled to open on that edge.
Busy == [pc : {"write", "audit", "auditOverride"}, deal : Deals,
         from : Stages, to : Stages, override : BOOLEAN,
         opens : SUBSET LC!Gates]

TypeOK ==
  /\ dealType \in [Deals -> DealTypes]
  /\ stage \in [Deals -> Stages]
  /\ req \in [Requests -> {Idle} \cup Busy]
  /\ trail \in [Deals -> Stages]
  /\ overrideRow \subseteq Deals
  /\ passed \in [Deals -> SUBSET LC!Gates]
  /\ overridden \subseteq Deals
  /\ lost \subseteq Deals

(***************************************************************************)
(* A deal is created at intake (DealsService.create); its trail starts     *)
(* with a row that says so.                                                *)
(***************************************************************************)
Init ==
  /\ dealType \in [Deals -> DealTypes]
  /\ stage = [d \in Deals |-> InitialStage]
  /\ req = [p \in Requests |-> Idle]
  /\ trail = [d \in Deals |-> InitialStage]
  /\ overrideRow = {}
  /\ passed = [d \in Deals |-> {}]
  /\ overridden = {}
  /\ lost = {}

\* The gates an edge opens for this actor: an audit of authority that does
\* not trust the guards of the code.
Entitled(g, role, reasoned) ==
  \/ g \in {"listing_review", "contract_review"} /\ role = "reviewer"
  \/ g = "closure" /\ role \in {"agent", "admin"}
  \/ role = "admin" /\ reasoned

Opened(from, to, role, reasoned) ==
  { g \in LC!GatesOf(from, to) : Entitled(g, role, reasoned) }

(***************************************************************************)
(* The actions of a request.                                               *)
(***************************************************************************)

\* findById and validateTransition: the guard is evaluated on the stage just
\* read, which the request keeps.  A refused request (422, or the silent
\* return of tryTransitionDeal) changes nothing and is a stuttering step.
Start(p, d, to, role, reasoned) ==
  /\ req[p].pc = "idle"
  /\ Allowed(dealType[d], stage[d], to, role, reasoned)
  /\ req' = [req EXCEPT ![p] =
       [pc |-> "write", deal |-> d, from |-> stage[d], to |-> to,
        override |-> Overrides(stage[d], to, role),
        opens |-> Opened(stage[d], to, role, reasoned)]]
  /\ UNCHANGED <<dealVars, auditVars, historyVars>>

\* DealsService.transition: a member of the workspace, with or without reason.
StartTransition(p, d, to) ==
  \E role \in Roles \ {"system"}, reasoned \in BOOLEAN :
    Start(p, d, to, role, reasoned)

\* The targets of the tryTransitionDeal calls in the other services.
SystemTargets ==
  { "offers_received", "offer_selected", "contract_drafting",
    "sent_for_signature", "partially_signed", "fully_signed" }

StartSystemTransition(p, d, to) ==
  /\ to \in SystemTargets
  /\ Start(p, d, to, "system", FALSE)

\* deal.update({ where: { id }, data: { stage } }): whatever the stage is now.
WriteStage(p) ==
  LET r == req[p] IN
  /\ r.pc = "write"
  /\ stage' = [stage EXCEPT ![r.deal] = r.to]
  /\ passed' = [passed EXCEPT ![r.deal] = @ \cup r.opens]
  /\ overridden' = IF r.override THEN overridden \cup {r.deal} ELSE overridden
  /\ req' = [req EXCEPT ![p].pc = "audit", ![p].opens = {}]
  /\ UNCHANGED <<dealType, auditVars, lost>>

\* Mutant of AuditStage: the row is written with before and after swapped.
AuditStageSwapped(p) ==
  LET r == req[p] IN
  /\ r.pc = "audit"
  /\ trail' = [trail EXCEPT ![r.deal] = r.from]
  /\ req' = [req EXCEPT ![p] =
       IF r.override THEN [r EXCEPT !.pc = "auditOverride"] ELSE Idle]
  /\ UNCHANGED <<dealVars, overrideRow, historyVars>>

\* Mutant of AuditStage: the handler returns before the admin_override row.
AuditStageOnly(p) ==
  LET r == req[p] IN
  /\ r.pc = "audit"
  /\ trail' = [trail EXCEPT ![r.deal] = r.to]
  /\ req' = [req EXCEPT ![p] = Idle]
  /\ UNCHANGED <<dealVars, overrideRow, historyVars>>

\* The deal_stage_changed (or stage_transitioned) row; before is the stage the
\* request read.
AuditStage(p) ==
  LET r == req[p] IN
  /\ r.pc = "audit"
  /\ trail' = [trail EXCEPT ![r.deal] = r.to]
  /\ req' = [req EXCEPT ![p] =
       IF r.override THEN [r EXCEPT !.pc = "auditOverride"] ELSE Idle]
  /\ UNCHANGED <<dealVars, overrideRow, historyVars>>

AuditOverride(p) ==
  LET r == req[p] IN
  /\ r.pc = "auditOverride"
  /\ overrideRow' = overrideRow \cup {r.deal}
  /\ req' = [req EXCEPT ![p] = Idle]
  /\ UNCHANGED <<dealVars, trail, historyVars>>

\* A database call of the request fails, or the process dies: what was
\* written stays, what was not is never written.
Fail(p) ==
  LET r == req[p] IN
  /\ r.pc # "idle"
  /\ lost' = IF r.pc = "write" THEN lost ELSE lost \cup {r.deal}
  /\ req' = [req EXCEPT ![p] = Idle]
  /\ UNCHANGED <<dealVars, auditVars, passed, overridden>>

\* Mutant of UpdateDeal: the schema lets a stage through as well.
UpdateDealStage(d, type) ==
  /\ dealType' = [dealType EXCEPT ![d] = type]
  /\ \E s \in Stages : stage' = [stage EXCEPT ![d] = s]
  /\ UNCHANGED <<req, auditVars, historyVars>>

\* PATCH /deals/:id: updateDealSchema accepts dealType (and no stage).
UpdateDeal(d, type) ==
  /\ dealType' = [dealType EXCEPT ![d] = type]
  /\ UNCHANGED <<stage, req, auditVars, historyVars>>

Next ==
  \/ \E p \in Requests :
       \/ \E d \in Deals, to \in Stages :
            StartTransition(p, d, to) \/ StartSystemTransition(p, d, to)
       \/ WriteStage(p)
       \/ AuditStage(p)
       \/ AuditOverride(p)
       \/ Fail(p)
  \/ \E d \in Deals, type \in DealTypes : UpdateDeal(d, type)

Spec == Init /\ [][Next]_vars

(***************************************************************************)
(* Properties.                                                             *)
(***************************************************************************)

InFlight(d) == { p \in Requests : req[p].pc # "idle" /\ req[p].deal = d }

\* The stages before the reviewer's first decision, and those that only the
\* contract review opens.
BeforeListingReview ==
  {"new_intake", "awaiting_info", "drafting_forms", "awaiting_review"}
AfterContractReview == {"contract_sent", "executed", "under_contract"}

ListingReviewed(s, opened) ==
  s \notin BeforeListingReview => "listing_review" \in opened
ContractReviewed(s, opened) ==
  s \in AfterContractReview => "contract_review" \in opened
ClosureAuthorised(s, opened) ==
  s = "closed" => "closure" \in opened

Cleared(s, opened) ==
  /\ ListingReviewed(s, opened)
  /\ ContractReviewed(s, opened)
  /\ ClosureAuthorised(s, opened)

\* No interleaving takes a deal past a gate nobody entitled ever opened for it:
\* to signature without a reviewer (or an admin with a reason), to a sent
\* contract without a second review, to closed without an agent or an admin
\* (guards.ts).  Stage writes are unconditional and their checks stale, so
\* this rests on the gates being on every path, not on one check per write.
NoGateSkipped == \A d \in Deals : Cleared(stage[d], passed[d])

\* The strengthening that makes NoGateSkipped inductive: a request about to
\* write carries the authority its target needs, however stale its check is,
\* because gates once opened stay open.
PendingCleared ==
  \A p \in Requests :
    req[p].pc = "write"
      => Cleared(req[p].to, passed[req[p].deal] \cup req[p].opens)

\* An admin override leaves its admin_override row (deals.service.ts), unless
\* the request that made it is still running or died on the way; and only an
\* override leaves one.
OverrideAccounted ==
  /\ overrideRow \subseteq overridden
  /\ \A d \in overridden :
       \/ d \in overrideRow \cup lost
       \/ \E p \in InFlight(d) : /\ req[p].pc \in {"audit", "auditOverride"}
                                 /\ req[p].override

\* The strengthening of OverrideAccounted: an override still to be recorded
\* was made, and only overrides reach their second row.
OverridePending ==
  \A p \in Requests :
    /\ req[p].pc = "auditOverride" => req[p].override
    /\ req[p].pc \in {"audit", "auditOverride"} /\ req[p].override
         => req[p].deal \in overridden

\* Read after the dust settles, the newest stage row of the audit trail tells
\* the stage of the deal (ADR 003: audit events carry the narrative), unless a
\* request died between the write and the row.
NarrativeCurrent ==
  \A d \in Deals : InFlight(d) = {} /\ d \notin lost => trail[d] = stage[d]

\* The stages of the deals behave as the life cycle says: one edge at a time,
\* every gate opened with authority.
Lifecycle == LC!LifecycleSpec

\* What serves requests one at a time buys: a check is never stale.
NeverStale ==
  \A p \in Requests :
    req[p].pc = "write" =>
      /\ req[p].from = stage[req[p].deal]
      /\ <<req[p].from, req[p].to>> \in Edges
      /\ req[p].opens = LC!GatesOf(req[p].from, req[p].to)

\* No transition leaves archived (listing.test.ts).
ArchivedIsFinal ==
  [][\A d \in Deals : stage[d] = "archived" => stage'[d] = "archived"]_vars
=============================================================================
