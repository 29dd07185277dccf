---------------------------------- MODULE Pages --------------------------------
(***************************************************************************)
(* The pages and panels of the web application (apps/web/src/app and       *)
(* components), each reduced to the queries it shows and the writes it can *)
(* start.  A panel that renders a skeleton in place of its buttons offers  *)
(* no write before its query has come back; most panels render an error    *)
(* when the query has failed, a few render their buttons all the same.     *)
(***************************************************************************)
EXTENDS Hooks

\* A panel: what it shows; what it starts, after which queries have loaded and
\* which have loaded or failed.
Panel(shows, starts, after) ==
  [shows |-> shows,
   starts |-> {[write |-> w, after |-> after, tried |-> {}] : w \in starts}]

Shows(keys) == Panel(keys, {}, {})

\* Two panels on one page.
a ++ b == [shows |-> a.shows \cup b.shows, starts |-> a.starts \cup b.starts]

\* A panel that a page renders only when the query k has loaded.
Behind(k, p) ==
  [shows |-> {k} \cup p.shows,
   starts |-> {[s EXCEPT !.after = @ \cup {k}] : s \in p.starts}]

\* A panel that a page renders when the query k has loaded or failed.
Past(k, p) ==
  [shows |-> {k} \cup p.shows,
   starts |-> {[s EXCEPT !.tried = @ \cup {k}] : s \in p.starts}]

-----------------------------------------------------------------------------
(* The frame of every page but login and onboarding. *)

TopBar == Shows({"workspace", "auth-me"})

\* The simulator: it polls the history and answers in a conversation of its own.
PhoneSimulatorContent ==
  Panel({"debug-history", "user-simulator"}, {"simulate", "clearHistory"}, {})

\* Docked over any page of the shell while it is open and not minimised.
PhoneSimulatorOverlay(open) == IF open THEN PhoneSimulatorContent ELSE Shows({})

-----------------------------------------------------------------------------
(* The panels of a deal. *)

OpenItemsSummary == Shows({"unresolved-items"})
SignatureStatus == Shows({"signature-envelopes"})
OffersSummary == Shows({"offers"})
KeyDatesSummary == Shows({"calendar-events"})
OverviewTab == OffersSummary ++ KeyDatesSummary ++ OpenItemsSummary ++ SignatureStatus

FieldRowActions == Panel({}, {"updateFields"}, {"deal"})
UnresolvedCard == Panel({}, {"resolveItem"}, {"unresolved-items"})
IntakeTab == Behind("deal", FieldRowActions ++ UnresolvedCard ++ Shows({"unresolved-items"}))

NewOfferForm == Panel({}, {"createOffer"}, {})
OfferRow == Panel({}, {"actOnOffer", "prepareAcceptance"}, {})
OffersTab == Past("offers", NewOfferForm ++ OfferRow)

\* Both replace the list of offers inside the tab, whose query stays in use.
OfferDetailPanel == Shows({"offers", "offer"})
OfferComparisonView == Shows({"offers", "offer-comparison"})

RegenerateButton == Panel({}, {"regenerateDocument"}, {})
DocumentsTab == Behind("documents", RegenerateButton ++ Panel({}, {"generateDocuments"}, {}))
VersionDrawer == DocumentsTab ++ Shows({"document-versions"})

DealFilesTab == Shows({"dealFolders", "folderFiles"})

SendMessageForm == Panel({}, {"sendMessage"}, {})
CommunicationsTab == Behind("communications", SendMessageForm)

TaskItem == Panel({}, {"updateTask"}, {})
TasksTab == Behind("tasks", TaskItem ++ Panel({}, {"activateListingPrep"}, {}))

NewEventForm == Panel({}, {"createEvent"}, {})
CalendarTab ==
  Past("calendar-events", NewEventForm ++ Panel({}, {"extractKeyDates", "notifyParty"}, {}))

AuditTab == Shows({"audit-events"})

MemoryCard == Panel({}, {"updateMemory"}, {})
MemoryTab == Behind("memory-entries", MemoryCard ++ Panel({}, {"createMemory"}, {}))

ExceptionCard == Panel({}, {"updateException"}, {})
ExceptionsTab == Behind("exceptions", ExceptionCard)

DealQueryBar == Panel({}, {"askDeal"}, {})

\* The deal's page mounts one tab at a time, and none before the deal is loaded.
DealPage(tab) == Behind("deal", tab ++ DealQueryBar)

-----------------------------------------------------------------------------
(* The pages. *)

DashboardPage == Shows({"dashboard"})

NewDealForm == Panel({}, {"createDeal"}, {})
DealsPage == Behind("deals", NewDealForm)

DocumentViewerPage == Shows({"document-viewer"})

ReviewDetail == Panel({}, {"reviewTask"}, {})
ReviewQueuePage == Behind("review-tasks", ReviewDetail)

FolderTreeItem == Shows({"folders"})
ResizableFilesTable == Panel({}, {"deleteFile"}, {"folder-contents"})
FilesPage ==
  FolderTreeItem ++ ResizableFilesTable
  ++ Panel({"folder-contents"}, {"createFolder", "uploadFile", "deleteFolder"},
           {"folder-contents"})

FileAssetViewerPage == Shows({"file-asset-meta"})

AddTemplateModal == Panel({}, {"uploadTemplate"}, {})
TemplatesPage ==
  Panel({"templates", "workflow-definitions"}, {"ingestTemplates"}, {}) ++ AddTemplateModal

TemplatePdfViewerPage == Shows({"template-detail"})

\* The cards of the settings; a card shows its fields once the profile is there.
AddResponsibleBrokerDrawer == Panel({}, {"createBroker"}, {})
BrokerInfoCard ==
  Behind("auth-profile", AddResponsibleBrokerDrawer ++ Panel({}, {"patchProfile"}, {}))
PersonalAgentInfoCard == Behind("auth-profile", Panel({}, {"patchProfile"}, {}))
PhoneSimulatorSettingsCard ==
  Behind("user-simulator", Panel({}, {"saveSimulator", "clearSimulator"}, {}))
SettingsPage(cards) == Behind("workspace", cards)

\* "Connect" only remembers which provider was clicked: it starts no write.
OpenAISettingsCard == Behind("user-openai", Panel({}, {"saveOpenAI", "clearOpenAI"}, {}))
IntegrationsPage == Past("integrations", OpenAISettingsCard)

-----------------------------------------------------------------------------
(* Where a tab can be. *)

DealPages ==
  [overview |-> DealPage(OverviewTab), intake |-> DealPage(IntakeTab),
   offers |-> DealPage(OffersTab), offer |-> DealPage(OfferDetailPanel),
   comparison |-> DealPage(OfferComparisonView), documents |-> DealPage(DocumentsTab),
   versions |-> DealPage(VersionDrawer), dealFiles |-> DealPage(DealFilesTab),
   communications |-> DealPage(CommunicationsTab), tasks |-> DealPage(TasksTab),
   calendar |-> DealPage(CalendarTab), audit |-> DealPage(AuditTab),
   memory |-> DealPage(MemoryTab), exceptions |-> DealPage(ExceptionsTab)]

ShellPages ==
  [dashboard |-> DashboardPage, deals |-> DealsPage, document |-> DocumentViewerPage,
   review |-> ReviewQueuePage, files |-> FilesPage, file |-> FileAssetViewerPage,
   templates |-> TemplatesPage, template |-> TemplatePdfViewerPage,
   settings |-> SettingsPage(BrokerInfoCard ++ PersonalAgentInfoCard),
   configuration |-> SettingsPage(PhoneSimulatorSettingsCard),
   integrations |-> IntegrationsPage] @@ DealPages

AppShell(page, docked) ==
  TopBar ++ PhoneSimulatorOverlay(docked) ++ ShellPages[page]

Pages ==
  {AppShell(page, docked) : page \in DOMAIN ShellPages, docked \in BOOLEAN}
================================================================================
