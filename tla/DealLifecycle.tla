---------------------------- MODULE DealLifecycle ----------------------------
(***************************************************************************)
(* What a deal's stage promises, without requests, database or time: a     *)
(* deal starts at intake, moves one workflow edge at a time, and passes a  *)
(* review or a closure only with the authority the edge asks for.          *)
(***************************************************************************)
EXTENDS Workflow

CONSTANT Deals   \* the deals of a workspace

VARIABLES
  stage,         \* the stage of each deal
  passed         \* the gates each deal has passed with the authority required

lifecycleVars == <<stage, passed>>

Gates == {"listing_review", "contract_review", "closure"}

\* The gates on an edge: none, except on the edges a role must open forward.
GatesOf(from, to) ==
  { g \in Gates :
      \/ /\ g = "listing_review"
         /\ from = "awaiting_review" /\ to = "sent_for_signature"
      \/ /\ g = "contract_review"
         /\ from = "contract_awaiting_review" /\ to = "contract_sent"
      \/ /\ g = "closure"
         /\ from \in {"active", "under_contract"} /\ to = "closed" }

LifecycleInit ==
  /\ stage = [d \in Deals |-> InitialStage]
  /\ passed = [d \in Deals |-> {}]

Move(d, to) ==
  /\ <<stage[d], to>> \in Edges
  /\ stage' = [stage EXCEPT ![d] = to]
  /\ passed' = [passed EXCEPT ![d] = @ \cup GatesOf(stage[d], to)]

LifecycleNext == \E d \in Deals, to \in Stages : Move(d, to)

LifecycleSpec == LifecycleInit /\ [][LifecycleNext]_lifecycleVars
=============================================================================
