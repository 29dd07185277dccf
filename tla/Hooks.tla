---------------------------------- MODULE Hooks --------------------------------
(***************************************************************************)
(* The query hooks of the web application (apps/web/src/lib/hooks): the    *)
(* keys under which a tab keeps the server's answers, the writes it can    *)
(* start, the keys each write's onSuccess invalidates, and, from the       *)
(* handlers of the API, the answers each write changes.  The parameters in *)
(* a key (the deal, the page, the filter) are left out: one deal, one list *)
(* of a kind.  Hooks that no page uses are left out too.                   *)
(***************************************************************************)
EXTENDS TLC

-----------------------------------------------------------------------------
(* The keys. *)

ShellKeys == {"workspace", "auth-me"}
DealKeys == {"deals", "deal", "dashboard"}
DealDataKeys == {"audit-events", "unresolved-items", "communications",
                 "memory-entries", "exceptions"}
OfferKeys == {"offers", "offer", "offer-comparison"}
DocumentKeys == {"documents", "document-versions", "document-viewer"}
FileKeys == {"folders", "folder-contents", "file-asset-meta"}
DealFileKeys == {"dealFolders", "folderFiles"}
TemplateKeys == {"templates", "template-detail", "workflow-definitions"}
UserKeys == {"auth-profile", "user-openai", "user-simulator"}
OtherKeys == {"signature-envelopes", "tasks", "review-tasks", "calendar-events",
              "debug-history", "integrations"}

Keys == ShellKeys \cup DealKeys \cup DealDataKeys \cup OfferKeys \cup DocumentKeys
        \cup FileKeys \cup DealFileKeys \cup TemplateKeys \cup UserKeys \cup OtherKeys

-----------------------------------------------------------------------------
(* What the hooks invalidate once their write has succeeded. *)

\* Mutant of DealHooks: the list of deals is forgotten.
DealHooksNoList == [createDeal |-> {"dashboard"}]

DealHooks == [createDeal |-> {"deals", "dashboard"}]

DealDataHooks ==
  [createMemory |-> {"memory-entries"},
   updateMemory |-> {"memory-entries"},
   updateException |-> {"exceptions"},
   askDeal |-> {},
   updateFields |-> {"deal"},
   resolveItem |-> {"unresolved-items", "deal"}]

OfferHooks ==
  [createOffer |-> {"offers", "offer-comparison", "deal"},
   actOnOffer |-> {"offers", "offer", "offer-comparison", "deal"},
   prepareAcceptance |-> {"offers", "offer", "deal"}]

DocumentHooks ==
  [generateDocuments |-> {"documents", "deal"},
   regenerateDocument |-> {"documents", "document-versions"}]

FileHooks ==
  [createFolder |-> {"folders", "folder-contents"},
   uploadFile |-> {"folders", "folder-contents"},
   deleteFile |-> {"folders", "folder-contents"},
   deleteFolder |-> {"folders", "folder-contents"}]

TaskHooks == [updateTask |-> {"tasks"}, activateListingPrep |-> {"tasks", "deal"}]

ReviewHooks == [reviewTask |-> {"review-tasks"}]

TemplateHooks ==
  [ingestTemplates |-> {"templates", "workflow-definitions"},
   uploadTemplate |-> {"templates"}]

CalendarHooks ==
  [createEvent |-> {"calendar-events"},
   extractKeyDates |-> {"calendar-events", "deal"},
   notifyParty |-> {}]

ProfileHooks ==
  [patchProfile |-> {"auth-profile", "auth-me"}, createBroker |-> {"auth-profile"}]

OpenAIHooks == [saveOpenAI |-> {"user-openai"}, clearOpenAI |-> {"user-openai"}]

SimulatorHooks ==
  [saveSimulator |-> {"user-simulator"}, clearSimulator |-> {"user-simulator"}]

DebugHooks == [simulate |-> {"debug-history"}, clearHistory |-> {"debug-history"}]

MessagingHooks == [sendMessage |-> {"communications"}]

Invalidates ==
  DealHooks @@ DealDataHooks @@ OfferHooks @@ DocumentHooks @@ FileHooks @@ TaskHooks
  @@ ReviewHooks @@ TemplateHooks @@ CalendarHooks @@ ProfileHooks @@ OpenAIHooks
  @@ SimulatorHooks @@ DebugHooks @@ MessagingHooks

Writes == DOMAIN Invalidates

-----------------------------------------------------------------------------
(* What the handlers of the API change.  A row of the audit log changes    *)
(* the log of the deal and the recent activity of the dashboard.  An offer *)
(* and a review task are answered with the stage of their deal             *)
(* (offers.service.ts:56, review-tasks.service.ts:39), the comparison with *)
(* its list price, a deal with the names of the users assigned to it, and  *)
(* the viewer with the fields of the document's template.                  *)

Audited == {"audit-events", "dashboard"}

DealChanges ==
  [createDeal |-> {"deals", "dashboard", "folders"},
   updateFields |-> {"deal", "offer-comparison"} \cup Audited]

ItemChanges == [resolveItem |-> {"unresolved-items"} \cup Audited]

MemoryChanges ==
  [createMemory |-> {"memory-entries"} \cup Audited,
   updateMemory |-> {"memory-entries"} \cup Audited]

ExceptionChanges == [updateException |-> {"exceptions"} \cup Audited]

OfferChanges ==
  [createOffer |-> OfferKeys \cup {"deal", "deals", "review-tasks"} \cup Audited,
   actOnOffer |-> OfferKeys \cup {"unresolved-items", "deal", "deals", "review-tasks"}
                  \cup Audited]

AcceptanceChanges ==
  [prepareAcceptance |-> DocumentKeys \cup {"offer", "review-tasks", "deal", "deals"}
                         \cup Audited]

DocumentChanges ==
  [generateDocuments |-> DocumentKeys \cup Audited,
   regenerateDocument |-> DocumentKeys \cup Audited]

FileChanges ==
  [createFolder |-> {"folders", "folder-contents", "dealFolders"} \cup Audited,
   uploadFile |-> {"folders", "folder-contents", "dealFolders", "folderFiles"} \cup Audited,
   deleteFile |-> {"folders", "folder-contents", "dealFolders", "folderFiles",
                   "file-asset-meta"} \cup Audited,
   deleteFolder |-> {"folders", "folder-contents", "dealFolders"} \cup Audited]

TaskChanges ==
  [updateTask |-> {"tasks"} \cup Audited, activateListingPrep |-> {"tasks"} \cup Audited]

ReviewChanges == [reviewTask |-> {"review-tasks"} \cup Audited]

TemplateChanges ==
  [ingestTemplates |-> TemplateKeys \cup {"document-viewer"},
   uploadTemplate |-> {"templates", "workflow-definitions"}]

CalendarChanges ==
  [createEvent |-> {"calendar-events"} \cup Audited,
   extractKeyDates |-> {"calendar-events"} \cup Audited,
   notifyParty |-> {"communications"} \cup Audited]

ProfileChanges ==
  [patchProfile |-> {"auth-profile", "auth-me", "deal"}, createBroker |-> {"auth-profile"}]

PreferenceChanges ==
  [saveOpenAI |-> {"user-openai"}, clearOpenAI |-> {"user-openai"},
   saveSimulator |-> {"user-simulator"}, clearSimulator |-> {"user-simulator"}]

SimulateChanges ==
  [simulate |-> {"debug-history", "deals", "deal", "folders", "communications",
                 "unresolved-items", "offer-comparison"} \cup Audited,
   clearHistory |-> {"debug-history"}]

SendChanges == [sendMessage |-> {"communications"} \cup Audited]

Changes ==
  DealChanges @@ ItemChanges @@ MemoryChanges @@ ExceptionChanges @@ OfferChanges
  @@ AcceptanceChanges @@ DocumentChanges @@ FileChanges @@ TaskChanges @@ ReviewChanges
  @@ TemplateChanges @@ CalendarChanges @@ ProfileChanges @@ PreferenceChanges
  @@ SimulateChanges @@ SendChanges @@ [askDeal |-> {}]
================================================================================
