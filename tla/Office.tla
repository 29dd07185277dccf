--------------------------------- MODULE Office --------------------------------
(***************************************************************************)
(* Templates, accounts and the records of deals share no state: one of the *)
(* three runs in a behaviour, the others stay as they started.  The same   *)
(* sets name the rows, slugs and workspaces, the users, people and PDFs,   *)
(* and the requests of whichever it is.                                    *)
(***************************************************************************)
EXTENDS Desk

CONSTANTS
  FileNames, Declared,                               \* of Templates
  Names, Stamps, Sections, Broker, Values, MaxRows   \* of Accounts

\* Versions are numbered; "none" is no person and no name.
ASSUME OfficeAssumption ==
  /\ Declared \subseteq Nat /\ MaxRows \in Nat
  /\ "none" \notin Users \cup Names

VARIABLES
  part,       \* the component that runs
  template, versions, stored, fields, work, met,
  users, admin, slug, brokers, profile, accountCalls, saved, crossed

Tpl == INSTANCE Templates WITH
  Slugs <- Rows, Contents <- Users, Workers <- Calls

Acc == INSTANCE Accounts WITH
  People <- Users, Spaces <- Rows, calls <- accountCalls

templateSide == <<template, versions, stored, fields, work, met>>
accountSide == <<users, admin, slug, brokers, profile, accountCalls, saved, crossed>>

OfficeInit ==
  /\ part \in {"templates", "accounts", "desk"}
  /\ Init /\ Tpl!Init /\ Acc!Init

OfficeNext ==
  /\ UNCHANGED part
  /\ \/ part = "templates" /\ Tpl!Next /\ UNCHANGED <<accountSide, deskVars>>
     \/ part = "accounts" /\ Acc!Next /\ UNCHANGED <<templateSide, deskVars>>
     \/ part = "desk" /\ Next /\ UNCHANGED <<templateSide, accountSide>>

OfficeSpec == OfficeInit /\ [][OfficeNext]_<<part, templateSide, accountSide, deskVars>>

\* The types of the three components' state.
TypesOK == TypeOK /\ Tpl!TypeOK /\ Acc!TypeOK

\* Every version of a template has the PDF its row has the hash of
\* (TemplateIngestionService, TemplatesService).
PdfsMatchHash == Tpl!PdfsMatchHash

\* A version's fields are of one making and fit its PDF (duplicateTemplate,
\* TemplateFieldsService).
FieldsFit == Tpl!FieldsFit

\* Profiles are single and lose nothing (mergeAgentProfileMemory).
ProfileKeeps == Acc!ProfileKeeps
================================================================================
