------------------------------ MODULE OfferBook -------------------------------
(***************************************************************************)
(* What the offers of a deal promise: an offer comes in, is open for a     *)
(* while, may be chosen once every other offer is out, and never comes     *)
(* back once it is out.                                                    *)
(***************************************************************************)
CONSTANT Offers   \* the offers a deal may receive

VARIABLE phase    \* where each offer is

Phases == {"absent", "open", "chosen", "out"}

BookInit == phase = [o \in Offers |-> "absent"]

Receive(o) ==
  /\ phase[o] = "absent"
  /\ phase' = [phase EXCEPT ![o] = "open"]

\* Some offers are turned down or give way to another one.
Retire(S) ==
  /\ \A o \in S : phase[o] # "absent"
  /\ phase' = [o \in Offers |-> IF o \in S THEN "out" ELSE phase[o]]

\* The one offer the deal goes on with; every other one gave way before.
Choose(o) ==
  /\ phase[o] = "open"
  /\ \A x \in Offers \ {o} : phase[x] \in {"absent", "out"}
  /\ phase' = [phase EXCEPT ![o] = "chosen"]

BookNext ==
  \/ \E o \in Offers : Receive(o) \/ Choose(o)
  \/ \E S \in SUBSET Offers : Retire(S)

BookSpec == BookInit /\ [][BookNext]_phase
=============================================================================
