----------------------------- MODULE MCDealStage ------------------------------
EXTENDS DealStage, TLC

\* Requests are interchangeable: no definition singles one out.
Symmetry == Permutations(Requests)

\* What the steps and the invariants of DealStageRace can tell apart: no action
\* reads the audit trail or the stage a request came from, and of a deal's type
\* only whether it has a workflow.
RaceView ==
  LET seen(r) ==
        IF r.pc = "idle" THEN r
        ELSE [pc |-> r.pc, deal |-> r.deal, to |-> r.to,
              override |-> r.override, opens |-> r.opens]
  IN  <<[d \in Deals |-> HasWorkflow(dealType[d])], stage,
        [p \in Requests |-> seen(req[p])], overrideRow, historyVars>>

\* A listing that went through its review and is on the market, with no request
\* under way.
ActiveInit ==
  /\ dealType = [d \in Deals |-> "listing"]
  /\ stage = [d \in Deals |-> "active"]
  /\ req = [p \in Requests |-> Idle]
  /\ trail = [d \in Deals |-> "active"]
  /\ overrideRow = {}
  /\ passed = [d \in Deals |-> {"listing_review"}]
  /\ overridden = {}
  /\ lost = {}

ActiveSpec == ActiveInit /\ [][Next]_vars
=============================================================================
