------------------------------- MODULE Workflow -------------------------------
(***************************************************************************)
(* The deal workflow of packages/workflow: the stages of a listing, the    *)
(* edges between them, the role guards on some edges and the decision      *)
(* function validateTransition.  The package is pure, so this module has   *)
(* no variables; the state machines that call it are DealStage, Offers     *)
(* and Signatures.                                                         *)
(***************************************************************************)

Stages ==
  { "new_intake", "awaiting_info", "drafting_forms", "awaiting_review",
    "sent_for_signature", "partially_signed", "fully_signed",
    "listing_prep", "active", "offers_received", "offer_selected",
    "contract_drafting", "contract_awaiting_review", "contract_sent",
    "executed", "under_contract", "closed", "archived" }

\* Mutant of InitialStage: a name that is no stage.
InitialStageTypo == "intake"

\* listingWorkflow.initialStage, and the stage deals.service.ts creates with.
InitialStage == "new_intake"

\* Only "listing" is in workflowRegistry.
DealTypes == {"listing", "buyer_rep", "contract_to_close"}

HasWorkflow(dealType) == dealType = "listing"

\* Membership roles, and the role the services use for their own moves.
Roles == {"admin", "agent", "reviewer", "system"}

\* Edges guarded by reviewerOrAdminGuard = requireRole(['reviewer']).
ReviewerEdges ==
  { <<"awaiting_review", "sent_for_signature">>,
    <<"awaiting_review", "drafting_forms">>,
    <<"contract_awaiting_review", "contract_sent">>,
    <<"contract_awaiting_review", "contract_drafting">> }

\* Edges guarded by requireListingClosureRoles = requireRole(['agent', 'admin']).
ClosureEdges ==
  { <<"active", "closed">>,
    <<"under_contract", "closed">> }

UnguardedEdges ==
  { <<"new_intake", "awaiting_info">>,
    <<"new_intake", "drafting_forms">>,
    <<"awaiting_info", "drafting_forms">>,
    <<"awaiting_info", "new_intake">>,
    <<"drafting_forms", "awaiting_review">>,
    <<"sent_for_signature", "partially_signed">>,
    <<"sent_for_signature", "fully_signed">>,
    <<"partially_signed", "fully_signed">>,
    <<"partially_signed", "sent_for_signature">>,
    <<"fully_signed", "listing_prep">>,
    <<"listing_prep", "active">>,
    <<"active", "offers_received">>,
    <<"active", "archived">>,
    <<"offers_received", "offer_selected">>,
    <<"offers_received", "active">>,
    <<"offer_selected", "contract_drafting">>,
    <<"contract_drafting", "contract_awaiting_review">>,
    <<"contract_sent", "executed">>,
    <<"executed", "under_contract">>,
    <<"closed", "archived">> }

Edges == ReviewerEdges \cup ClosureEdges \cup UnguardedEdges

\* Mutant of GuardPasses: the review edges are open to agents.
GuardPassesAgent(from, to, role) ==
  /\ <<from, to>> \in ReviewerEdges => role \in {"reviewer", "agent"}
  /\ <<from, to>> \in ClosureEdges => role \in {"agent", "admin"}

\* The guard of the edge, if it has one, lets this role through.
GuardPasses(from, to, role) ==
  /\ <<from, to>> \in ReviewerEdges => role = "reviewer"
  /\ <<from, to>> \in ClosureEdges => role \in {"agent", "admin"}

\* isAdminOverride: reasoned is whether a non-blank reason came with the call.
IsAdminOverride(role, reasoned) == role = "admin" /\ reasoned

\* validateTransition(...).allowed
Allowed(dealType, from, to, role, reasoned) ==
  /\ HasWorkflow(dealType)
  /\ <<from, to>> \in Edges
  /\ GuardPasses(from, to, role) \/ IsAdminOverride(role, reasoned)

\* validateTransition(...).override, for a transition that is allowed
Overrides(from, to, role) == ~GuardPasses(from, to, role)
=============================================================================
