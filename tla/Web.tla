----------------------------------- MODULE Web ---------------------------------
(***************************************************************************)
(* A tab of the web application: the workspace it is labelled with, the    *)
(* page it is on, its cache of the server's answers and the write it has   *)
(* under way (apps/web/src: lib/api.ts, lib/context/workspace-context.tsx, *)
(* app/providers.tsx, the hooks and the pages), with the other tabs of the *)
(* browser and the other users as its environment.  Tabs share only the    *)
(* browser's storage, which holds the ids every request is labelled with,  *)
(* and the server.                                                         *)
(*                                                                         *)
(* A behaviour follows one kind of write and one query whose answer that   *)
(* write changes; what a page is to the two is all the model keeps of it.  *)
(* A workspace stands for the pair of a workspace and the user in it.      *)
(***************************************************************************)
EXTENDS Pages, Naturals, FiniteSets

CONSTANTS
  Spaces,        \* the workspaces
  Outside,       \* no workspace
  MaxVersion,    \* bound: the writes served in a workspace
  MaxSwitches    \* bound: changes of workspace, by this tab or another

ASSUME WebAssumption == Outside \notin Spaces /\ MaxVersion \in Nat /\ MaxSwitches \in Nat

VARIABLES
  write, key,    \* the write and the query followed
  storage,       \* localStorage: the workspace that requests are labelled with
  label,         \* the tab's React state: the workspace it shows
  place,         \* what the tab's page is to the query and the write
  query,         \* the tab's cache entry
  sent,          \* the tab's write under way
  version,       \* how many writes the server has served in each workspace
  mine,          \* the last version the tab was told its own write made
  crossed,       \* another tab has changed the storage under this one
  switches

vars == <<write, key, storage, label, place, query, sent, version, mine, crossed, switches>>

NoCall == [at |-> "idle", space |-> Outside, version |-> 0]

\* A request carries what the storage holds when it is made.
Request(space) == [at |-> "asked", space |-> space, version |-> 0]

Nothing == [space |-> Outside, version |-> 0]

NewQuery == [data |-> Nothing, stale |-> FALSE, failed |-> FALSE, load |-> NoCall,
             missed |-> FALSE]

Busy(call) == call.at # "idle"
Has(q) == q.data # Nothing

\* What a page is to a write and a query: in the frame or not, whether it shows the
\* query, and when it offers the write.
Seen(page, w, k) ==
  [framed |-> TRUE,
   shows |-> k \in page.shows,
   offers |-> {IF k \in s.after THEN "loaded" ELSE IF k \in s.tried THEN "tried"
               ELSE "always" : s \in {start \in page.starts : start.write = w}}]

\* Where a tab can be, and where it is when it has entered a workspace.
Places == [w \in Writes |-> [k \in Keys |-> {Seen(page, w, k) : page \in Pages}]]

Dashboards ==
  [w \in Writes |-> [k \in Keys |->
     {Seen(AppShell("dashboard", docked), w, k) : docked \in BOOLEAN}]]

Login == [framed |-> FALSE, shows |-> FALSE, offers |-> {}]

\* The frame renders nothing in a tab without a workspace.
Shown == label # Outside /\ place.shows

-----------------------------------------------------------------------------
(* The query client.                                                        *)

\* A query fetched again drops the load under way, unless it is the first one.
Refetched(q, space) ==
  IF Busy(q.load) /\ ~Has(q) THEN [q EXCEPT !.missed = TRUE]
  ELSE [q EXCEPT !.load = Request(space), !.failed = FALSE, !.missed = FALSE]

\* invalidateQueries: a query in use is fetched again, another only marked.
Invalidated(q, space) ==
  LET marked == [q EXCEPT !.stale = TRUE]
  IN IF Shown THEN Refetched(marked, space) ELSE [marked EXCEPT !.missed = Busy(q.load)]

\* Mutant of Reset: invalidateQueries in its place.
ResetMarks(q, space) == Invalidated(q, space)

\* resetQueries: everything is dropped, and a query in use fetched afresh.
Reset(q, space) == [NewQuery EXCEPT !.load = IF Shown THEN Request(space) ELSE NoCall]

\* A page that shows the query fetches it if it is missing, marked or too old.
Mounted(q, page, space, old) ==
  IF page.shows /\ ~Busy(q.load) /\ (~Has(q) \/ q.stale \/ old)
  THEN [q EXCEPT !.load = Request(space), !.failed = FALSE, !.missed = FALSE]
  ELSE q

-----------------------------------------------------------------------------
(* The workspace. *)

\* setWorkspace, and the push of the dashboard that follows it.  The cache is
\* reset if the storage held another workspace, whatever the tab's label was.
SetWorkspace(space) ==
  LET kept == storage = space
      next == IF kept THEN query ELSE Reset(query, space)
  IN /\ switches < MaxSwitches
     /\ switches' = switches + 1
     /\ storage' = space
     /\ label' = space
     /\ mine' = IF kept /\ label = space THEN mine ELSE 0
     /\ crossed' = (crossed /\ kept)
     /\ place' \in Dashboards[write][key]
     /\ \E old \in BOOLEAN : query' = Mounted(next, place', space, old)
     /\ UNCHANGED <<write, key, sent, version>>

\* The login page: the session is entered with one of the user's workspaces.
Enter(space) == place = Login /\ SetWorkspace(space)

\* The switcher in the top bar.
SwitchTo(space) == place.framed /\ label # Outside /\ SetWorkspace(space)

\* The sidebar's logout: clearWorkspace, then the login page.
Logout ==
  /\ place.framed /\ label # Outside
  /\ storage' = Outside /\ label' = Outside /\ place' = Login
  /\ query' = Reset(query, Outside)
  /\ mine' = 0 /\ crossed' = FALSE
  /\ UNCHANGED <<write, key, sent, version, switches>>

\* The tab is loaded again: the label is read from the storage, the cache and
\* what was under way are gone.  A write on its way may still be served.
Reload ==
  /\ label' = storage
  /\ place' = IF storage = Outside THEN Login ELSE place
  /\ query' = Mounted(NewQuery, place', storage, FALSE)
  /\ sent' = NoCall /\ mine' = 0 /\ crossed' = FALSE
  /\ \/ UNCHANGED version
     \/ /\ sent.at = "asked" /\ sent.space # Outside /\ version[sent.space] < MaxVersion
        /\ version' = [version EXCEPT ![sent.space] = @ + 1]
  /\ UNCHANGED <<write, key, storage, switches>>

Navigate ==
  /\ place.framed /\ label # Outside
  /\ place' \in Places[write][key]
  /\ \E old \in BOOLEAN : query' = Mounted(query, place', storage, old)
  /\ UNCHANGED <<write, key, storage, label, sent, version, mine, crossed, switches>>

-----------------------------------------------------------------------------
(* Queries. *)

\* The history of the simulator is fetched every three seconds while shown.
Poll ==
  /\ key = "debug-history" /\ Shown /\ ~Busy(query.load)
  /\ query' = [query EXCEPT !.load = Request(storage), !.failed = FALSE, !.missed = FALSE]
  /\ UNCHANGED <<write, key, storage, label, place, sent, version, mine, crossed, switches>>

ServeLoad ==
  /\ query.load.at = "asked" /\ query.load.space # Outside
  /\ query' = [query EXCEPT !.load.at = "answered",
                            !.load.version = version[query.load.space]]
  /\ UNCHANGED <<write, key, storage, label, place, sent, version, mine, crossed, switches>>

\* An answer makes the query fresh, whatever was invalidated while it was away.
TakeLoad ==
  /\ query.load.at = "answered"
  /\ query' = [query EXCEPT !.data = [space |-> query.load.space,
                                      version |-> query.load.version],
                            !.stale = FALSE, !.failed = FALSE, !.load = NoCall]
  /\ UNCHANGED <<write, key, storage, label, place, sent, version, mine, crossed, switches>>

\* The request is lost, or refused because it names no workspace: it is made
\* again, as the storage then stands, and in the end given up.
LoadFails ==
  /\ Busy(query.load)
  /\ \/ query' = [query EXCEPT !.load = Request(storage), !.missed = FALSE]
     \/ query' = [query EXCEPT !.failed = TRUE, !.load = NoCall]
  /\ UNCHANGED <<write, key, storage, label, place, sent, version, mine, crossed, switches>>

-----------------------------------------------------------------------------
(* Writes. *)

Offered ==
  \/ "always" \in place.offers
  \/ "tried" \in place.offers /\ (Has(query) \/ query.failed)
  \/ "loaded" \in place.offers /\ Has(query) /\ ~query.failed

Submit ==
  /\ label # Outside /\ Offered /\ ~Busy(sent)
  /\ sent' = Request(storage)
  /\ UNCHANGED <<write, key, storage, label, place, query, version, mine, crossed, switches>>

ServeWrite ==
  /\ sent.at = "asked" /\ sent.space # Outside /\ version[sent.space] < MaxVersion
  /\ version' = [version EXCEPT ![sent.space] = @ + 1]
  /\ sent' = [sent EXCEPT !.at = "answered", !.version = version'[sent.space]]
  /\ UNCHANGED <<write, key, storage, label, place, query, mine, crossed, switches>>

\* onSuccess of the hook, which runs wherever the tab has gone meanwhile.
TakeWrite ==
  /\ sent.at = "answered"
  /\ query' = IF key \in Invalidates[write] THEN Invalidated(query, storage) ELSE query
  /\ mine' = IF sent.space = label THEN sent.version ELSE mine
  /\ sent' = NoCall
  /\ UNCHANGED <<write, key, storage, label, place, version, crossed, switches>>

\* The write is refused, or its answer is lost: the hooks have no onError.
WriteFails ==
  /\ Busy(sent)
  /\ sent' = NoCall
  /\ UNCHANGED <<write, key, storage, label, place, query, version, mine, crossed, switches>>

-----------------------------------------------------------------------------
(* The environment. *)

OtherTabSwitches(space) ==
  /\ switches < MaxSwitches /\ space # storage
  /\ switches' = switches + 1
  /\ storage' = space
  /\ crossed' = (crossed \/ space # label)
  /\ UNCHANGED <<write, key, label, place, query, sent, version, mine>>

OtherWrites(space) ==
  /\ version[space] < MaxVersion
  /\ version' = [version EXCEPT ![space] = @ + 1]
  /\ UNCHANGED <<write, key, storage, label, place, query, sent, mine, crossed, switches>>

-----------------------------------------------------------------------------

Init ==
  /\ write \in Writes
  /\ key \in Keys /\ key \in Changes[write] \cup Invalidates[write]
  /\ storage = Outside /\ label = Outside /\ place = Login
  /\ query = NewQuery /\ sent = NoCall
  /\ version = [space \in Spaces |-> 0]
  /\ mine = 0 /\ crossed = FALSE /\ switches = 0

Next ==
  \/ \E space \in Spaces : Enter(space) \/ SwitchTo(space) \/ OtherWrites(space)
  \/ \E space \in Spaces \cup {Outside} : OtherTabSwitches(space)
  \/ Logout \/ Reload \/ Navigate
  \/ Poll \/ ServeLoad \/ TakeLoad \/ LoadFails
  \/ Submit \/ ServeWrite \/ TakeWrite \/ WriteFails

Spec == Init /\ [][Next]_vars

-----------------------------------------------------------------------------

Calls == [at : {"idle", "asked", "answered"}, space : Spaces \cup {Outside},
          version : 0..MaxVersion]

\* The types of a tab's state.
TypeOK ==
  /\ key \in Keys /\ write \in Writes
  /\ storage \in Spaces \cup {Outside} /\ label \in Spaces \cup {Outside}
  /\ place \in [framed : BOOLEAN, shows : BOOLEAN, offers : SUBSET {"always", "tried", "loaded"}]
  /\ query \in [data : [space : Spaces \cup {Outside}, version : 0..MaxVersion],
                stale : BOOLEAN, failed : BOOLEAN, load : Calls, missed : BOOLEAN]
  /\ sent \in Calls
  /\ version \in [Spaces -> 0..MaxVersion]
  /\ mine \in 0..MaxVersion /\ crossed \in BOOLEAN /\ switches \in 0..MaxSwitches

\* Whatever the switches and the answers still on their way, a tab keeps and asks
\* for answers of the workspace it is labelled with only (setWorkspace,
\* clearWorkspace and tenantHeaders); but once another tab has changed the shared
\* storage, nothing tells this one before it is loaded again.
OwnWorkspace ==
  label # Outside /\ ~crossed =>
    /\ storage = label
    /\ Has(query) => query.data.space = label
    /\ Busy(query.load) => query.load.space = label

\* The answers a write changes and its hook does not invalidate: they stay as
\* they were until they are a minute old or the page is loaded again.
Forgotten ==
  (Writes \X {"audit-events"}) \cup ((Writes \ {"createDeal"}) \X {"dashboard"})
  \cup {<<"createDeal", "folders">>, <<"createOffer", "offer">>,
        <<"actOnOffer", "unresolved-items">>, <<"prepareAcceptance", "documents">>,
        <<"updateFields", "offer-comparison">>, <<"patchProfile", "deal">>,
        <<"ingestTemplates", "template-detail">>, <<"ingestTemplates", "document-viewer">>,
        <<"uploadTemplate", "workflow-definitions">>, <<"notifyParty", "communications">>}
  \cup ({"createOffer", "actOnOffer", "prepareAcceptance"} \X {"deals", "review-tasks"})
  \cup ({"prepareAcceptance", "generateDocuments"} \X {"document-versions", "document-viewer"})
  \cup {<<"regenerateDocument", "document-viewer">>}
  \cup ({"createFolder", "uploadFile", "deleteFile", "deleteFolder"} \X {"dealFolders"})
  \cup ({"uploadFile", "deleteFile"} \X {"folderFiles"}) \cup {<<"deleteFile", "file-asset-meta">>}
  \cup ({"simulate"} \X {"deals", "deal", "folders", "communications", "unresolved-items",
                         "offer-comparison"})

\* A tab that has been told its write succeeded and is fetching nothing shows the
\* write in every query on its page, but for the queries the hook forgets and for a
\* load that was under way when the write's answer came and that the invalidation
\* could not replace: the first of its query, or one of a query no page showed.
WritesShown ==
  Shown /\ Has(query) /\ ~Busy(query.load) /\ ~query.failed /\ ~crossed =>
    \/ query.data.version >= mine
    \/ query.missed
    \/ <<write, key>> \in Forgotten
================================================================================
