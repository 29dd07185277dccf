--------------------------------- MODULE WebApp --------------------------------
(***************************************************************************)
(* A tab's cache and the settings' cards are modelled apart: one of the    *)
(* two runs in a behaviour, the other stays as it started.                 *)
(***************************************************************************)
EXTENDS Web

CONSTANTS
  Texts,      \* the agent's names
  Brokers,    \* ids of responsible brokers
  NoBroker,
  MaxWrites   \* bound: the saves the server serves

ASSUME WebAppAssumption == MaxWrites \in Nat

VARIABLES
  part,       \* what runs
  profile, seen, load, failed, card, patch, drawer, create, ahead, writes

Settings == INSTANCE Cards WITH None <- NoBroker

settings == <<profile, seen, load, failed, card, patch, drawer, create, ahead, writes>>

RaceInit == part \in {"tab", "settings"} /\ Init /\ Settings!Init

RaceNext ==
  /\ UNCHANGED part
  /\ \/ part = "tab" /\ Next /\ UNCHANGED settings
     \/ part = "settings" /\ Settings!Next /\ UNCHANGED vars

RaceSpec == RaceInit /\ [][RaceNext]_<<part, vars, settings>>

\* The types of both parts' state.
TypesOK == TypeOK /\ Settings!TypeOK

\* A settings card opens on what it shows (BrokerInfoCard, PersonalAgentInfoCard).
DraftsSettle == Settings!DraftsSettle
================================================================================
