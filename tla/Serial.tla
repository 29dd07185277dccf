--------------------------------- MODULE Serial --------------------------------
(***************************************************************************)
(* Deals, offers and envelopes, each as a process that serves one request  *)
(* at a time: what the abstract specifications promise of the services     *)
(* when nothing overlaps.  One of the three components runs in a behaviour *)
(* and the others stay as they started.                                    *)
(***************************************************************************)
EXTENDS DealStage

CONSTANTS Offers, Envelopes, Docs, Signers

VARIABLES
  part,  \* the component that runs
  offerStatus, missing, offerStage, items, packets, offerReq, chosen,
  offerMoves, untracked,
  envStatus, provider, docsOf, recipients, docs, envStage, checklist, envReq,
  fails, sentOut, signed, pending, envMoves

offerSide == <<offerStatus, missing, offerStage, items, packets, offerReq,
               chosen, offerMoves, untracked>>
envSide == <<envStatus, provider, docsOf, recipients, docs, envStage, checklist,
             envReq, fails, sentOut, signed, pending, envMoves>>

\* Offers and envelopes come with their theorems, whose assumptions these values meet.
OfferSide == INSTANCE Offers_proofs WITH
  Fields <- {}, Selectors <- Requests, UserTargets <- {},
  status <- offerStatus, stage <- offerStage, req <- offerReq,
  autoStages <- offerMoves

\* A DocuSign that answers, and signers as quick as they like.
EnvSide == INSTANCE Signatures_proofs WITH
  UserTargets <- {"sent_for_signature"}, Lossy <- FALSE, EarlySigners <- TRUE,
  MaxFails <- 1,
  status <- envStatus, stage <- envStage, req <- envReq, autoStages <- envMoves

SerialInit ==
  /\ part \in {"deal", "offer", "envelope"}
  /\ Init /\ OfferSide!Init /\ EnvSide!Init
  /\ part = "deal" \/ \A d \in Deals : dealType[d] = "listing"

SerialNext ==
  /\ UNCHANGED part
  /\ \/ part = "deal" /\ Next /\ UNCHANGED <<offerSide, envSide>>
     \/ part = "offer" /\ OfferSide!Next /\ UNCHANGED <<vars, envSide>>
     \/ part = "envelope" /\ EnvSide!Next /\ UNCHANGED <<vars, offerSide>>

SerialSpec == SerialInit /\ [][SerialNext]_<<part, vars, offerSide, envSide>>

\* Offers are received, chosen and dropped as the abstract book has it
\* (OffersService and AcceptanceService).
FollowsBook == OfferSide!FollowsBook

\* An envelope's status never goes back (SignaturesService.syncEnvelopeStatus).
EnvelopeForward == EnvSide!EnvelopeForward
=============================================================================
