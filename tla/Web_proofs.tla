------------------------------- MODULE Web_proofs ------------------------------
(***************************************************************************)
(* Theorems about Web, for any set of workspaces and any bounds: a tab     *)
(* keeps to its own workspace, and shows the writes whose hooks invalidate *)
(* the query it shows; and about the settings' cards (Cards), for any      *)
(* names, brokers and saves: a card opens on what it shows.                *)
(***************************************************************************)
EXTENDS WebApp, TLAPS

(***************************************************************************)
(* Type correctness.                                                       *)
(***************************************************************************)

Offers == {"always", "tried", "loaded"}
PlaceType == [framed : BOOLEAN, shows : BOOLEAN, offers : SUBSET Offers]
QueryType ==
  [data : [space : Spaces \cup {Outside}, version : 0..MaxVersion],
   stale : BOOLEAN, failed : BOOLEAN, load : Calls, missed : BOOLEAN]

\* Wherever a tab goes is a place.
LEMMA PlacesType ==
  ASSUME NEW w \in Writes, NEW k \in Keys
  PROVE  /\ Places[w][k] \subseteq PlaceType
         /\ Dashboards[w][k] \subseteq PlaceType
         /\ Login \in PlaceType
<1>1. ASSUME NEW page PROVE Seen(page, w, k) \in PlaceType
  BY DEF Seen, PlaceType, Offers
<1>2. Places[w][k] = {Seen(page, w, k) : page \in Pages}
  BY DEF Places
<1>3. Dashboards[w][k] = {Seen(AppShell("dashboard", docked), w, k) : docked \in BOOLEAN}
  BY DEF Dashboards
<1>4. Login \in PlaceType
  BY DEF Login, PlaceType, Offers
<1> QED BY <1>1, <1>2, <1>3, <1>4

\* A request and no request are calls.
LEMMA RequestType ==
  /\ NoCall \in Calls
  /\ \A space \in Spaces \cup {Outside} : Request(space) \in Calls
  /\ NewQuery \in QueryType
BY WebAssumption DEF NoCall, Request, Calls, NewQuery, Nothing, QueryType

\* The query client's operators keep a query a query.
LEMMA RefetchedType ==
  ASSUME NEW q \in QueryType, NEW space \in Spaces \cup {Outside}
  PROVE  Refetched(q, space) \in QueryType
BY RequestType DEF Refetched, QueryType

LEMMA InvalidatedType ==
  ASSUME NEW q \in QueryType, NEW space \in Spaces \cup {Outside}
  PROVE  Invalidated(q, space) \in QueryType
<1>1. [q EXCEPT !.stale = TRUE] \in QueryType
  BY DEF QueryType
<1>2. Busy(q.load) \in BOOLEAN
  BY DEF Busy
<1> QED BY <1>1, <1>2, RefetchedType DEF Invalidated, QueryType

LEMMA ResetType ==
  ASSUME NEW q \in QueryType, NEW space \in Spaces \cup {Outside}
  PROVE  Reset(q, space) \in QueryType
BY RequestType DEF Reset, QueryType

LEMMA MountedType ==
  ASSUME NEW q \in QueryType, NEW space \in Spaces \cup {Outside}, NEW page, NEW old
  PROVE  Mounted(q, page, space, old) \in QueryType
BY RequestType DEF Mounted, QueryType

\* TypeOK in the terms of the lemmas.
LEMMA TypeParts ==
  TypeOK <=>
    /\ key \in Keys /\ write \in Writes
    /\ storage \in Spaces \cup {Outside} /\ label \in Spaces \cup {Outside}
    /\ place \in PlaceType /\ query \in QueryType /\ sent \in Calls
    /\ version \in [Spaces -> 0..MaxVersion]
    /\ mine \in 0..MaxVersion /\ crossed \in BOOLEAN /\ switches \in 0..MaxSwitches
BY DEF TypeOK, PlaceType, Offers, QueryType

LEMMA TypePartsNext ==
  TypeOK' <=>
    /\ key' \in Keys /\ write' \in Writes
    /\ storage' \in Spaces \cup {Outside} /\ label' \in Spaces \cup {Outside}
    /\ place' \in PlaceType /\ query' \in QueryType /\ sent' \in Calls
    /\ version' \in [Spaces -> 0..MaxVersion]
    /\ mine' \in 0..MaxVersion /\ crossed' \in BOOLEAN /\ switches' \in 0..MaxSwitches
BY DEF TypeOK, PlaceType, Offers, QueryType, Calls

LEMMA TypeInit == Init => TypeOK
<1> SUFFICES ASSUME Init PROVE TypeOK
  OBVIOUS
<1>1. key \in Keys /\ write \in Writes
  BY DEF Init
<1>2. place \in PlaceType
  BY DEF Init, PlaceType, Login, Offers
<1>3. query \in QueryType /\ sent \in Calls
  BY RequestType DEF Init
<1>4. version \in [Spaces -> 0..MaxVersion]
  BY WebAssumption DEF Init
<1>5. mine \in 0..MaxVersion /\ switches \in 0..MaxSwitches
  BY WebAssumption DEF Init
<1>6. crossed \in BOOLEAN
  BY Zenon DEF Init
<1> QED BY <1>1, <1>2, <1>3, <1>4, <1>5, <1>6, TypeParts DEF Init

\* What a change of workspace leaves well-typed.
LEMMA SetWorkspaceType ==
  ASSUME TypeOK, NEW space \in Spaces, SetWorkspace(space)
  PROVE  TypeOK'
<1> DEFINE next == IF storage = space THEN query ELSE Reset(query, space)
<1>1. query \in QueryType /\ write \in Writes /\ key \in Keys
  BY TypeParts
<1>2. next \in QueryType
  BY <1>1, ResetType
<1>3. place' \in PlaceType
  BY <1>1, PlacesType DEF SetWorkspace
<1>4. PICK old \in BOOLEAN : query' = Mounted(next, place', space, old)
  BY DEF SetWorkspace
<1>5. query' \in QueryType
  <2> HIDE DEF next
  <2> QED BY <1>2, <1>4, MountedType
<1>6. switches' \in 0..MaxSwitches
  BY TypeParts, WebAssumption DEF SetWorkspace
<1>7. mine' \in 0..MaxVersion /\ crossed' \in BOOLEAN
  BY TypeParts, WebAssumption DEF SetWorkspace
<1> QED BY <1>3, <1>5, <1>6, <1>7, TypeParts, TypePartsNext DEF SetWorkspace

LEMMA TypeStep == TypeOK /\ [Next]_vars => TypeOK'
<1> SUFFICES ASSUME TypeOK, [Next]_vars PROVE TypeOK'
  OBVIOUS
<1>t. /\ key \in Keys /\ write \in Writes
      /\ storage \in Spaces \cup {Outside} /\ label \in Spaces \cup {Outside}
      /\ place \in PlaceType /\ query \in QueryType /\ sent \in Calls
      /\ version \in [Spaces -> 0..MaxVersion]
      /\ mine \in 0..MaxVersion /\ crossed \in BOOLEAN /\ switches \in 0..MaxSwitches
  BY TypeParts
<1>r. \A space \in Spaces \cup {Outside} : Request(space) \in Calls
  BY RequestType
<1>n. NoCall \in Calls /\ NewQuery \in QueryType
  BY RequestType
<1>0. MaxVersion \in Nat /\ MaxSwitches \in Nat
  BY WebAssumption
<1>1. ASSUME NEW space \in Spaces, Enter(space) PROVE TypeOK'
  BY <1>1, SetWorkspaceType DEF Enter
<1>2. ASSUME NEW space \in Spaces, SwitchTo(space) PROVE TypeOK'
  BY <1>2, SetWorkspaceType DEF SwitchTo
<1>3. ASSUME NEW space \in Spaces, OtherWrites(space) PROVE TypeOK'
  BY <1>3, <1>t, <1>0, TypePartsNext DEF OtherWrites
<1>4. ASSUME NEW space \in Spaces \cup {Outside}, OtherTabSwitches(space) PROVE TypeOK'
  BY <1>4, <1>t, <1>0, TypePartsNext DEF OtherTabSwitches
<1>5. CASE Logout
  <2>1. query' \in QueryType /\ place' \in PlaceType
    BY <1>5, <1>t, ResetType, PlacesType DEF Logout
  <2>2. mine' \in 0..MaxVersion
    BY <1>5, <1>0 DEF Logout
  <2>3. crossed' \in BOOLEAN
    BY <1>5, Zenon DEF Logout
  <2> QED BY <1>5, <2>1, <2>2, <2>3, <1>t, TypePartsNext DEF Logout
<1>6. CASE Reload
  <2>1. place' \in PlaceType
    BY <1>6, <1>t, PlacesType DEF Reload
  <2>2. query' \in QueryType
    BY <1>6, <2>1, <1>t, <1>n, MountedType DEF Reload
  <2>3. version' \in [Spaces -> 0..MaxVersion]
    BY <1>6, <1>t, <1>0 DEF Reload
  <2>4. mine' \in 0..MaxVersion
    BY <1>6, <1>0 DEF Reload
  <2>5. crossed' \in BOOLEAN
    BY <1>6, Zenon DEF Reload
  <2> QED BY <1>6, <2>1, <2>2, <2>3, <2>4, <2>5, <1>t, <1>n, TypePartsNext DEF Reload
<1>7. CASE Navigate
  <2>1. place' \in PlaceType
    BY <1>7, <1>t, PlacesType DEF Navigate
  <2>2. query' \in QueryType
    BY <1>7, <2>1, <1>t, MountedType DEF Navigate
  <2> QED BY <1>7, <2>1, <2>2, <1>t, TypePartsNext DEF Navigate
<1>8. CASE Poll
  <2>1. query' \in QueryType
    BY <1>8, <1>t, <1>r DEF Poll, QueryType
  <2> QED BY <1>8, <2>1, <1>t, TypePartsNext DEF Poll
<1>9. CASE ServeLoad
  <2>1. version[query.load.space] \in 0..MaxVersion
    BY <1>9, <1>t DEF ServeLoad, QueryType, Calls
  <2>2. query' \in QueryType
    BY <1>9, <2>1, <1>t DEF ServeLoad, QueryType, Calls
  <2> QED BY <1>9, <2>2, <1>t, TypePartsNext DEF ServeLoad
<1>10. CASE TakeLoad
  <2>1. query' \in QueryType
    BY <1>10, <1>t, <1>n DEF TakeLoad, QueryType, Calls
  <2> QED BY <1>10, <2>1, <1>t, TypePartsNext DEF TakeLoad
<1>11. CASE LoadFails
  <2>1. query' \in QueryType
    BY <1>11, <1>t, <1>n, <1>r DEF LoadFails, QueryType
  <2> QED BY <1>11, <2>1, <1>t, TypePartsNext DEF LoadFails
<1>12. CASE Submit
  BY <1>12, <1>t, <1>r, TypePartsNext DEF Submit
<1>13. CASE ServeWrite
  <2>1. sent.space \in Spaces
    BY <1>13, <1>t DEF ServeWrite, Calls
  <2>2. version[sent.space] + 1 \in 0..MaxVersion
    BY <1>13, <2>1, <1>t, <1>0 DEF ServeWrite
  <2>3. version' \in [Spaces -> 0..MaxVersion]
    BY <1>13, <2>2, <1>t DEF ServeWrite
  <2>4. sent' \in Calls
    BY <1>13, <2>1, <2>3, <1>t DEF ServeWrite, Calls
  <2> QED BY <1>13, <2>3, <2>4, <1>t, TypePartsNext DEF ServeWrite
<1>14. CASE TakeWrite
  <2>1. query' \in QueryType
    BY <1>14, <1>t, InvalidatedType DEF TakeWrite
  <2>2. mine' \in 0..MaxVersion
    BY <1>14, <1>t DEF TakeWrite, Calls
  <2> QED BY <1>14, <2>1, <2>2, <1>t, <1>n, TypePartsNext DEF TakeWrite
<1>15. CASE WriteFails
  BY <1>15, <1>t, <1>n, TypePartsNext DEF WriteFails
<1>16. CASE UNCHANGED vars
  BY <1>16, <1>t, TypePartsNext DEF vars
<1> QED
  BY <1>1, <1>2, <1>3, <1>4, <1>5, <1>6, <1>7, <1>8, <1>9, <1>10, <1>11, <1>12,
     <1>13, <1>14, <1>15, <1>16 DEF Next

\* The types of a tab's state, whatever the tabs, the users and the answers do.
THEOREM TypeCorrect == Spec => []TypeOK
BY TypeInit, TypeStep, PTL DEF Spec

(***************************************************************************)
(* A tab keeps to its workspace.  The invariant drops the condition that   *)
(* the tab has one: without a workspace what it asks for, it asks for none.*)
(***************************************************************************)

\* A query's answer, and the answer it waits for, are of a workspace.
Of(q, space) ==
  /\ Has(q) => q.data.space = space
  /\ Busy(q.load) => q.load.space = space

Own == ~crossed => storage = label /\ Of(query, label)

\* What the query client makes of a query that is of a workspace, or of any.
LEMMA Requested ==
  ASSUME NEW space
  PROVE  /\ Busy(Request(space)) /\ Request(space).space = space
         /\ Request(space).at = "asked" /\ ~Busy(NoCall)
BY DEF Busy, Request, NoCall

LEMMA RefetchedOf ==
  ASSUME NEW q \in QueryType, NEW space, Of(q, space)
  PROVE  Of(Refetched(q, space), space)
BY Requested DEF Of, Refetched, Has, QueryType

LEMMA InvalidatedOf ==
  ASSUME NEW q \in QueryType, NEW space, Of(q, space)
  PROVE  Of(Invalidated(q, space), space)
<1> DEFINE marked == [q EXCEPT !.stale = TRUE]
<1>1. marked \in QueryType /\ Of(marked, space)
  BY DEF QueryType, Of, Has
<1>2. Of([marked EXCEPT !.missed = Busy(q.load)], space)
  BY <1>1 DEF QueryType, Of, Has
<1>3. Of(Refetched(marked, space), space)
  <2> HIDE DEF marked
  <2> QED BY <1>1, RefetchedOf
<1> QED BY <1>2, <1>3 DEF Invalidated

LEMMA ResetOf ==
  ASSUME NEW q, NEW space
  PROVE  Of(Reset(q, space), space) /\ Of(NewQuery, space)
BY Requested DEF Of, Reset, NewQuery, Has

LEMMA MountedOf ==
  ASSUME NEW q \in QueryType, NEW page, NEW old, NEW space, Of(q, space)
  PROVE  Of(Mounted(q, page, space, old), space)
BY Requested DEF Of, Mounted, Has, QueryType

LEMMA OwnSetWorkspace ==
  ASSUME TypeOK, Own, NEW space \in Spaces, SetWorkspace(space)
  PROVE  Own'
<1> DEFINE next == IF storage = space THEN query ELSE Reset(query, space)
<1>1. query \in QueryType
  BY TypeParts
<1>2. next \in QueryType
  BY <1>1, ResetType
<1>3. PICK old \in BOOLEAN : query' = Mounted(next, place', space, old)
  BY DEF SetWorkspace
<1>4. storage' = space /\ label' = space /\ crossed' = (crossed /\ storage = space)
  BY DEF SetWorkspace
<1>5. ~crossed' => Of(next, space)
  BY <1>4, ResetOf DEF Own
<1> HIDE DEF next
<1> QED BY <1>2, <1>3, <1>4, <1>5, MountedOf DEF Own

LEMMA OwnStep == TypeOK /\ Own /\ [Next]_vars => Own'
<1> SUFFICES ASSUME TypeOK, Own, [Next]_vars PROVE Own'
  OBVIOUS
<1>t. query \in QueryType /\ crossed \in BOOLEAN
  BY TypeParts
<1>1. ASSUME NEW space \in Spaces, Enter(space) PROVE Own'
  BY <1>1, OwnSetWorkspace DEF Enter
<1>2. ASSUME NEW space \in Spaces, SwitchTo(space) PROVE Own'
  BY <1>2, OwnSetWorkspace DEF SwitchTo
<1>3. ASSUME NEW space \in Spaces, OtherWrites(space) PROVE Own'
  BY <1>3 DEF OtherWrites, Own
<1>4. ASSUME NEW space \in Spaces \cup {Outside}, OtherTabSwitches(space) PROVE Own'
  BY <1>4 DEF OtherTabSwitches, Own
<1>5. CASE Logout
  BY <1>5, ResetOf DEF Logout, Own
<1>6. CASE Reload
  <2>1. Of(query', storage)
    BY <1>6, RequestType, ResetOf, MountedOf DEF Reload
  <2> QED BY <1>6, <2>1 DEF Reload, Own
<1>7. CASE Navigate
  <2>1. PICK old \in BOOLEAN : query' = Mounted(query, place', storage, old)
    BY <1>7 DEF Navigate
  <2> QED BY <1>7, <2>1, <1>t, MountedOf DEF Navigate, Own
<1>8. CASE Poll
  BY <1>8, <1>t, Requested DEF Poll, Own, Of, Has, QueryType
<1>9. CASE ServeLoad
  BY <1>9, <1>t DEF ServeLoad, Own, Of, Has, Busy, QueryType, Calls
<1>10. CASE TakeLoad
  BY <1>10, <1>t, Requested DEF TakeLoad, Own, Of, Has, Busy, QueryType
<1>11. CASE LoadFails
  BY <1>11, <1>t, Requested DEF LoadFails, Own, Of, Has, QueryType
<1>12. CASE Submit
  BY <1>12 DEF Submit, Own
<1>13. CASE ServeWrite
  BY <1>13 DEF ServeWrite, Own
<1>14. CASE TakeWrite
  BY <1>14, <1>t, InvalidatedOf DEF TakeWrite, Own
<1>15. CASE WriteFails
  BY <1>15 DEF WriteFails, Own
<1>16. CASE UNCHANGED vars
  BY <1>16 DEF vars, Own, Of, Has
<1> QED
  BY <1>1, <1>2, <1>3, <1>4, <1>5, <1>6, <1>7, <1>8, <1>9, <1>10, <1>11, <1>12,
     <1>13, <1>14, <1>15, <1>16 DEF Next

LEMMA OwnInit == Init => Own
BY ResetOf DEF Init, Own

\* A tab that no other has crossed keeps and asks for its own workspace's answers.
THEOREM KeepsToItsWorkspace == Spec => []OwnWorkspace
<1>1. Own => OwnWorkspace
  BY DEF Own, OwnWorkspace, Of
<1> QED BY <1>1, OwnInit, OwnStep, TypeInit, TypeStep, PTL DEF Spec

(***************************************************************************)
(* The writes a hook tells the cache of are shown.  Of the query, Current  *)
(* says that what is older than the version v is marked, missed, or about  *)
(* to be replaced; and Marked that a page leaves no marked query alone.    *)
(***************************************************************************)

Current(q, v) ==
  /\ q.load.at = "answered" => q.load.version >= v \/ q.missed
  /\ Has(q) /\ q.data.version < v => q.stale \/ q.missed \/ Busy(q.load) \/ q.failed

Marked(q, shown) == shown /\ q.stale => Busy(q.load) \/ q.failed

Told ==
  key \in Invalidates[write] =>
    /\ sent.at = "answered" => sent.space \in Spaces /\ sent.version <= version[sent.space]
    /\ ~crossed /\ label # Outside => mine <= version[label] /\ Current(query, mine)
    /\ Marked(query, Shown)

LEMMA InvalidatedCurrent ==
  ASSUME TypeOK, NEW space, NEW v \in Nat
  PROVE  Current(Invalidated(query, space), v) /\ Marked(Invalidated(query, space), Shown)
<1> DEFINE marked == [query EXCEPT !.stale = TRUE]
<1>1. query \in QueryType /\ Busy(query.load) \in BOOLEAN
  BY TypeParts DEF Busy
<1>2. CASE Shown
  <2>1. Invalidated(query, space) = Refetched(marked, space)
    BY <1>2 DEF Invalidated
  <2>2. Refetched(marked, space).stale /\ Busy(Refetched(marked, space).load)
    BY <1>1, Requested DEF Refetched, QueryType
  <2>3. \/ Refetched(marked, space).missed
        \/ Refetched(marked, space).load.at = "asked"
    BY <1>1, Requested DEF Refetched, QueryType
  <2> QED BY <2>1, <2>2, <2>3 DEF Current, Marked
<1>3. CASE ~Shown
  <2>1. Invalidated(query, space) = [marked EXCEPT !.missed = Busy(query.load)]
    BY <1>3 DEF Invalidated
  <2> QED BY <1>1, <1>3, <2>1 DEF Current, Marked, QueryType, Busy
<1> QED BY <1>2, <1>3

\* A query fetched or reset answers for every version, and a page mounted on one
\* leaves it as current as it was.
LEMMA MountedCurrent ==
  ASSUME NEW q \in QueryType, NEW page, NEW space, NEW old, NEW v \in Nat, Current(q, v)
  PROVE  Current(Mounted(q, page, space, old), v)
BY Requested DEF Current, Mounted, Has, QueryType

LEMMA MountedMarked ==
  ASSUME NEW q \in QueryType, NEW page, NEW space, NEW old
  PROVE  Marked(Mounted(q, page, space, old), page.shows)
BY Requested DEF Marked, Mounted, QueryType

LEMMA ResetCurrent ==
  ASSUME NEW q, NEW space
  PROVE  Current(Reset(q, space), 0) /\ Current(NewQuery, 0)
BY Requested DEF Current, Reset, NewQuery, Has, NoCall, Request

LEMMA ToldSetWorkspace ==
  ASSUME TypeOK, Own, Told, NEW space \in Spaces, SetWorkspace(space)
  PROVE  Told'
<1> DEFINE next == IF storage = space THEN query ELSE Reset(query, space)
<1> SUFFICES ASSUME key \in Invalidates[write] PROVE Told'
  BY DEF Told, SetWorkspace
<1>1. /\ query \in QueryType /\ mine \in Nat /\ version \in [Spaces -> Nat]
      /\ crossed \in BOOLEAN
  BY TypeParts, WebAssumption
<1>2. next \in QueryType
  BY <1>1, ResetType
<1>3. PICK old \in BOOLEAN : query' = Mounted(next, place', space, old)
  BY DEF SetWorkspace
<1>4. /\ label' = space /\ crossed' = (crossed /\ storage = space)
      /\ mine' = IF storage = space /\ label = space THEN mine ELSE 0
      /\ sent' = sent /\ version' = version /\ key' = key /\ write' = write
  BY DEF SetWorkspace
<1>5. space # Outside
  BY WebAssumption
<1>6. ASSUME ~crossed' PROVE mine' <= version[space] /\ Current(next, mine')
  <2>1. CASE storage = space
    BY <1>1, <1>4, <1>5, <1>6, <2>1 DEF Own, Told
  <2>2. CASE storage # space
    BY <1>1, <1>4, <2>2, ResetCurrent
  <2> QED BY <2>1, <2>2
<1>7. mine' \in Nat
  BY <1>1, <1>4
<1>8. Marked(query', place'.shows)
  <2> HIDE DEF next
  <2> QED BY <1>2, <1>3, MountedMarked
<1>9. ~crossed' => Current(query', mine')
  <2> HIDE DEF next
  <2> QED BY <1>2, <1>3, <1>6, <1>7, MountedCurrent
<1> QED BY <1>4, <1>6, <1>8, <1>9 DEF Told, Shown, Marked

\* A step that leaves the workspace and the writes alone may make the query no older.
LEMMA ToldQuery ==
  ASSUME TypeOK, Told,
         UNCHANGED <<write, key, label, sent, version, mine, crossed>>,
         key \in Invalidates[write] =>
           /\ ~crossed /\ label # Outside /\ Current(query, mine) => Current(query', mine)
           /\ Marked(query', Shown')
  PROVE  Told'
BY DEF Told

LEMMA ToldStep == TypeOK /\ Own /\ Told /\ [Next]_vars => Told'
<1> SUFFICES ASSUME TypeOK, Own, Told, [Next]_vars PROVE Told'
  OBVIOUS
<1>t. /\ query \in QueryType /\ crossed \in BOOLEAN /\ mine \in Nat /\ sent \in Calls
      /\ version \in [Spaces -> Nat] /\ label \in Spaces \cup {Outside}
  BY TypeParts, WebAssumption
<1>1. ASSUME NEW space \in Spaces, Enter(space) PROVE Told'
  BY <1>1, ToldSetWorkspace DEF Enter
<1>2. ASSUME NEW space \in Spaces, SwitchTo(space) PROVE Told'
  BY <1>2, ToldSetWorkspace DEF SwitchTo
<1>3. ASSUME NEW space \in Spaces, OtherWrites(space) PROVE Told'
  <2>1. \A s \in Spaces : version[s] <= version'[s]
    BY <1>3, <1>t DEF OtherWrites
  <2>2. sent.version \in Nat
    BY <1>t, WebAssumption DEF Calls
  <2>3. UNCHANGED <<write, key, label, place, query, sent, mine, crossed>>
    BY <1>3 DEF OtherWrites
  <2>4. version' \in [Spaces -> Nat]
    BY <1>3, <1>t DEF OtherWrites
  <2> QED BY <2>1, <2>2, <2>3, <2>4, <1>t DEF Told, Shown
<1>4. ASSUME NEW space \in Spaces \cup {Outside}, OtherTabSwitches(space) PROVE Told'
  BY <1>4, <1>t DEF OtherTabSwitches, Told, Shown
<1>5. CASE Logout
  BY <1>5 DEF Logout, Told, Login, Shown, Marked
<1>6. CASE Reload
  <2> DEFINE q == Mounted(NewQuery, place', storage, FALSE)
  <2>1. query' = q /\ label' = storage /\ mine' = 0
        /\ sent' = NoCall /\ write' = write /\ key' = key
    BY <1>6 DEF Reload
  <2>2. Current(q, 0)
    BY RequestType, ResetCurrent, MountedCurrent
  <2>3. Marked(q, place'.shows)
    BY RequestType, MountedMarked
  <2>4. \A s \in Spaces : version'[s] >= 0
    BY <1>6, <1>t DEF Reload
  <2>5. storage \in Spaces \cup {Outside}
    BY TypeParts
  <2> HIDE DEF q
  <2> QED BY <2>1, <2>2, <2>3, <2>4, <2>5 DEF Told, NoCall, Shown, Marked
<1>7. CASE Navigate
  <2>1. PICK old \in BOOLEAN : query' = Mounted(query, place', storage, old)
    BY <1>7 DEF Navigate
  <2>2. Marked(query', Shown')
    BY <2>1, <1>t, MountedMarked DEF Shown, Marked
  <2>3. Current(query, mine) => Current(query', mine)
    BY <2>1, <1>t, MountedCurrent
  <2> QED BY <1>7, <2>2, <2>3, ToldQuery DEF Navigate
<1>8. CASE Poll
  <2>1. query' = [query EXCEPT !.load = Request(storage), !.failed = FALSE, !.missed = FALSE]
    BY <1>8 DEF Poll
  <2>2. query'.load = Request(storage)
    BY <2>1, <1>t DEF QueryType
  <2>3. Current(query', mine) /\ Marked(query', Shown')
    BY <2>2, Requested DEF Current, Marked
  <2> QED BY <1>8, <2>3, ToldQuery DEF Poll
<1>9. CASE ServeLoad
  <2>1. query' = [query EXCEPT !.load.at = "answered",
                               !.load.version = version[query.load.space]]
    BY <1>9 DEF ServeLoad
  <2>2. Busy(query'.load)
    BY <2>1, <1>t DEF QueryType, Calls, Busy
  <2>3. ASSUME key \in Invalidates[write], ~crossed, label # Outside
        PROVE  Current(query', mine)
    <3>1. query.load.space = label
      BY <1>9, <2>3 DEF ServeLoad, Own, Of, Busy
    <3>2. mine <= version[label]
      BY <2>3 DEF Told
    <3>3. query'.load.version = version[label]
      BY <2>1, <3>1, <1>t DEF QueryType, Calls
    <3> QED BY <2>2, <3>2, <3>3, <1>t DEF Current
  <2> QED BY <1>9, <2>2, <2>3, ToldQuery DEF ServeLoad, Marked
<1>10. CASE TakeLoad
  <2>1. /\ query'.data.version = query.load.version
        /\ query'.stale = FALSE /\ query'.load = NoCall
        /\ query'.missed = query.missed
    BY <1>10, <1>t DEF TakeLoad, QueryType
  <2>2. query.load.version \in Nat
    BY <1>t, WebAssumption DEF QueryType, Calls
  <2>3. Current(query, mine) => Current(query', mine)
    BY <1>10, <1>t, <2>1, <2>2 DEF TakeLoad, Current, NoCall
  <2>4. Marked(query', Shown')
    BY <2>1 DEF Marked
  <2> QED BY <1>10, <2>3, <2>4, ToldQuery DEF TakeLoad
<1>11. CASE LoadFails
  <2>1. \/ query'.load = Request(storage)
        \/ query'.load = NoCall /\ query'.failed
    BY <1>11, <1>t DEF LoadFails, QueryType
  <2>2. Current(query', mine) /\ Marked(query', Shown')
    BY <2>1, Requested DEF Current, Marked, NoCall
  <2> QED BY <1>11, <2>2, ToldQuery DEF LoadFails
<1>12. CASE Submit
  BY <1>12, Requested DEF Submit, Told, Shown
<1>13. CASE ServeWrite
  <2>1. sent.space \in Spaces
    BY <1>13, <1>t DEF ServeWrite, Calls
  <2>2. /\ version' \in [Spaces -> Nat]
        /\ \A s \in Spaces : version[s] <= version'[s]
    BY <1>13, <2>1, <1>t DEF ServeWrite
  <2>3. sent'.space = sent.space /\ sent'.version = version'[sent.space]
    BY <1>13, <1>t DEF ServeWrite, Calls
  <2>4. UNCHANGED <<write, key, label, place, query, mine, crossed>>
    BY <1>13 DEF ServeWrite
  <2>5. version'[sent.space] <= version'[sent.space]
    BY <2>1, <2>2
  <2>6. key \in Invalidates[write] /\ ~crossed /\ label # Outside
          => mine <= version'[label]
    BY <2>2, <1>t DEF Told
  <2> QED BY <2>1, <2>3, <2>4, <2>5, <2>6 DEF Told, Shown
<1>14. CASE TakeWrite
  <2> SUFFICES ASSUME key \in Invalidates[write] PROVE Told'
    BY <1>14 DEF Told, TakeWrite
  <2>1. /\ query' = Invalidated(query, storage)
        /\ sent' = NoCall
        /\ mine' = IF sent.space = label THEN sent.version ELSE mine
        /\ UNCHANGED <<write, key, label, place, version, crossed>>
    BY <1>14 DEF TakeWrite
  <2>2. mine' \in Nat
    BY <2>1, <1>t, WebAssumption DEF Calls
  <2>3. Current(query', mine') /\ Marked(query', Shown)
    BY <2>1, <2>2, InvalidatedCurrent
  <2>4. ~crossed /\ label # Outside => mine' <= version[label]
    BY <1>14, <2>1 DEF Told, TakeWrite
  <2>5. Marked(query', Shown')
    BY <2>1, <2>3 DEF Marked, Shown
  <2>6. sent'.at # "answered"
    BY <2>1 DEF NoCall
  <2> QED BY <2>1, <2>3, <2>4, <2>5, <2>6 DEF Told
<1>15. CASE WriteFails
  BY <1>15 DEF WriteFails, Told, Shown, NoCall
<1>16. CASE UNCHANGED vars
  BY <1>16 DEF vars, Told, Shown
<1> QED
  BY <1>1, <1>2, <1>3, <1>4, <1>5, <1>6, <1>7, <1>8, <1>9, <1>10, <1>11, <1>12,
     <1>13, <1>14, <1>15, <1>16 DEF Next

LEMMA ToldInit == Init => Told
BY DEF Init, Told, NoCall, Shown, Marked, Login

\* A write whose hook invalidates the query is shown, but for a load that the
\* invalidation met and could not replace.
THEOREM InvalidatedWritesShown ==
  Spec => [](key \in Invalidates[write] => WritesShown)
<1>1. TypeOK /\ Told => (key \in Invalidates[write] => WritesShown)
  <2> SUFFICES ASSUME TypeOK, Told, key \in Invalidates[write], Shown, Has(query),
                      ~Busy(query.load), ~query.failed, ~crossed
               PROVE  query.data.version >= mine \/ query.missed
    BY DEF WritesShown
  <2>0. label # Outside
    BY DEF Shown
  <2>1. Current(query, mine) /\ Marked(query, Shown)
    BY <2>0 DEF Told
  <2>2. query.data.version \in Nat /\ mine \in Nat
    BY TypeParts, WebAssumption DEF QueryType
  <2> QED BY <2>1, <2>2 DEF Current, Marked
<1> QED BY <1>1, TypeInit, TypeStep, OwnInit, OwnStep, ToldInit, ToldStep, PTL DEF Spec

(***************************************************************************)
(* The settings' cards: their types, of which a card and its save are      *)
(* functions of the cards' names.                                          *)
(***************************************************************************)

CardValues(c) == IF c = "broker" THEN Brokers \cup {NoBroker} ELSE Texts

CardStates(c) == [editing : BOOLEAN, draft : CardValues(c)]

Saves(c) ==
  [at : {"idle"}] \cup [at : {"asked", "answered"}, value : CardValues(c), here : BOOLEAN]

Loads == [at : {"idle", "asked"}] \cup [at : {"answered"}, profile : Settings!Profiles]

Creates ==
  [at : {"idle"}] \cup [at : {"asked"}, here : BOOLEAN]
  \cup [at : {"answered"}, here : BOOLEAN, id : Brokers]

CardShape ==
  /\ profile \in Settings!Profiles /\ seen \in Settings!Profiles
  /\ load \in Loads /\ create \in Creates
  /\ failed => load.at = "idle"
  /\ failed \in BOOLEAN /\ drawer \in BOOLEAN /\ ahead \subseteq Settings!Names
  /\ DOMAIN card = Settings!Names /\ DOMAIN patch = Settings!Names
  /\ card = [c \in Settings!Names |-> card[c]] /\ patch = [c \in Settings!Names |-> patch[c]]
  /\ \A c \in Settings!Names : card[c] \in CardStates(c) /\ patch[c] \in Saves(c)
  /\ writes \in 0..MaxWrites

\* A profile is a function of the cards' names, and of the brokers to choose from.
LEMMA ProfileFields ==
  ASSUME NEW p \in Settings!Profiles, NEW c \in Settings!Names
  PROVE  /\ p[c] \in CardValues(c)
         /\ \A v \in CardValues(c) :
              /\ [p EXCEPT ![c] = v] \in Settings!Profiles
              /\ \A d \in Settings!Names : [p EXCEPT ![c] = v][d] = IF d = c THEN v ELSE p[d]
BY DEF Settings!Profiles, Settings!Names, CardValues

\* One card, or one save, is set; the others stay.
LEMMA CardSet ==
  ASSUME CardShape, NEW c \in Settings!Names, NEW s \in CardStates(c),
         card' = [card EXCEPT ![c] = s]
  PROVE  /\ DOMAIN card' = Settings!Names /\ card' = [d \in Settings!Names |-> card'[d]]
         /\ card'[c] = s /\ \A d \in Settings!Names \ {c} : card'[d] = card[d]
         /\ \A d \in Settings!Names : card'[d] \in CardStates(d)
BY DEF CardShape

\* One card's save is set; the other's stays.
LEMMA SaveSet ==
  ASSUME CardShape, NEW c \in Settings!Names, NEW s \in Saves(c),
         patch' = [patch EXCEPT ![c] = s]
  PROVE  /\ DOMAIN patch' = Settings!Names /\ patch' = [d \in Settings!Names |-> patch'[d]]
         /\ patch'[c] = s /\ \A d \in Settings!Names \ {c} : patch'[d] = patch[d]
         /\ \A d \in Settings!Names : patch'[d] \in Saves(d)
BY DEF CardShape

\* No request is a call of every kind, and not busy.
LEMMA NoRequests ==
  /\ Settings!Idle \in Loads /\ Settings!Idle \in Creates /\ [at |-> "asked"] \in Loads
  /\ \A c : Settings!Idle \in Saves(c)
  /\ ~Settings!Busy(Settings!Idle) /\ Settings!Idle.at = "idle"
BY DEF Settings!Idle, Loads, Creates, Saves, Settings!Busy

\* What a step of a card does to it.
LEMMA CardSteps ==
  ASSUME CardShape, NEW c \in Settings!Names,
         \/ Settings!Edit(c) \/ Settings!CancelEdit(c)
         \/ \E value \in Settings!Inputs(c) : Settings!Type(c, value)
  PROVE  /\ CardShape'
         /\ UNCHANGED <<profile, seen, load, failed, patch, drawer, create, writes>>
         /\ \E s \in CardStates(c) : card' = [card EXCEPT ![c] = s]
<1>1. UNCHANGED <<profile, seen, load, failed, patch, drawer, create, writes>>
  BY DEF Settings!Edit, Settings!CancelEdit, Settings!Type
<1>2. card[c] \in CardStates(c) /\ c \in DOMAIN card /\ seen[c] \in CardValues(c)
  BY ProfileFields DEF CardShape
<1>3. \E s \in CardStates(c) : card' = [card EXCEPT ![c] = s]
  <2>1. CASE Settings!Edit(c)
    <3>1. [card[c] EXCEPT !.editing = TRUE] \in CardStates(c)
      BY <1>2 DEF CardStates
    <3>2. card' = [card EXCEPT ![c] = [card[c] EXCEPT !.editing = TRUE]]
      BY <1>2, <2>1 DEF Settings!Edit
    <3> QED BY <3>1, <3>2
  <2>2. CASE Settings!CancelEdit(c)
    BY <1>2, <2>2 DEF Settings!CancelEdit, Settings!Fresh, Settings!Fields, CardStates
  <2>3. ASSUME NEW value \in Settings!Inputs(c), Settings!Type(c, value)
        PROVE  \E s \in CardStates(c) : card' = [card EXCEPT ![c] = s]
    <3>1. value \in CardValues(c)
      BY DEF CardShape, Settings!Inputs, Settings!Profiles, CardValues
    <3>2. [card[c] EXCEPT !.draft = value] \in CardStates(c)
      BY <1>2, <3>1 DEF CardStates
    <3>3. card' = [card EXCEPT ![c] = [card[c] EXCEPT !.draft = value]]
      BY <1>2, <2>3 DEF Settings!Type
    <3> QED BY <3>2, <3>3
  <2> QED BY <2>1, <2>2, <2>3
<1>4. ahead' \subseteq Settings!Names
  BY DEF CardShape, Settings!Edit, Settings!CancelEdit, Settings!Type
<1> QED BY <1>1, <1>3, <1>4, CardSet DEF CardShape

\* What a step of a save does to it.
LEMMA SaveSteps ==
  ASSUME CardShape, NEW c \in Settings!Names,
         \/ Settings!Save(c) \/ Settings!ServePatch(c)
         \/ Settings!TakePatch(c) \/ Settings!PatchFails(c)
  PROVE  /\ CardShape'
         /\ \E s \in Saves(c) : patch' = [patch EXCEPT ![c] = s]
<1>1. /\ card[c] \in CardStates(c) /\ c \in DOMAIN card
      /\ patch[c] \in Saves(c) /\ c \in DOMAIN patch
  BY DEF CardShape
<1>2. UNCHANGED <<seen, drawer, create, ahead>>
  BY DEF Settings!Save, Settings!ServePatch, Settings!TakePatch, Settings!PatchFails
<1>3. CASE Settings!Save(c)
  <2>1. [at |-> "asked", value |-> card[c].draft, here |-> TRUE] \in Saves(c)
    BY <1>1 DEF Saves, CardStates
  <2>2. /\ UNCHANGED <<profile, load, failed, card, writes>>
        /\ patch' = [patch EXCEPT ![c] = [at |-> "asked", value |-> card[c].draft, here |-> TRUE]]
    BY <1>3 DEF Settings!Save
  <2> QED BY <1>2, <2>1, <2>2, SaveSet DEF CardShape
<1>4. CASE Settings!ServePatch(c)
  <2>1. patch[c] \in [at : {"asked", "answered"}, value : CardValues(c), here : BOOLEAN]
    BY <1>1, <1>4 DEF Saves, Settings!ServePatch
  <2>2. [patch[c] EXCEPT !.at = "answered"] \in Saves(c) /\ patch[c].value \in CardValues(c)
    BY <2>1 DEF Saves
  <2>3. /\ patch' = [patch EXCEPT ![c] = [patch[c] EXCEPT !.at = "answered"]]
        /\ profile' = [profile EXCEPT ![c] = patch[c].value]
        /\ writes' \in 0..MaxWrites
        /\ UNCHANGED <<load, failed, card>>
    BY <1>1, <1>4, WebAppAssumption DEF Settings!ServePatch, CardShape
  <2>4. profile' \in Settings!Profiles
    BY <2>2, <2>3, ProfileFields DEF CardShape
  <2> QED BY <1>2, <2>2, <2>3, <2>4, SaveSet DEF CardShape
<1>5. CASE Settings!TakePatch(c)
  <2>1. PICK s : s = [card[c] EXCEPT !.editing = @ /\ ~patch[c].here]
    OBVIOUS
  <2>2. s \in CardStates(c)
    <3>1. (card[c].editing /\ ~patch[c].here) \in BOOLEAN
      OBVIOUS
    <3> QED BY <1>1, <2>1, <3>1 DEF CardStates
  <2>3. card' = [card EXCEPT ![c] = s] /\ patch' = [patch EXCEPT ![c] = Settings!Idle]
        /\ load' = [at |-> "asked"] /\ failed' = FALSE /\ UNCHANGED <<profile, writes>>
    BY <1>1, <1>5, <2>1 DEF Settings!TakePatch, Settings!Refetch
  <2> QED BY <1>2, <2>2, <2>3, CardSet, SaveSet, NoRequests DEF CardShape
<1>6. CASE Settings!PatchFails(c)
  <2>1. /\ patch' = [patch EXCEPT ![c] = Settings!Idle]
        /\ UNCHANGED <<profile, load, failed, card, writes>>
    BY <1>6 DEF Settings!PatchFails
  <2> QED BY <1>2, <2>1, SaveSet, NoRequests DEF CardShape
<1> QED BY <1>3, <1>4, <1>5, <1>6

\* The drawer's steps.
LEMMA DrawerSteps ==
  ASSUME CardShape,
         \/ Settings!OpenDrawer \/ Settings!CloseDrawer \/ Settings!SubmitBroker
         \/ Settings!TakeBroker \/ Settings!BrokerFails
         \/ \E id \in Brokers : Settings!ServeBroker(id)
  PROVE  CardShape'
<1>1. UNCHANGED <<seen, patch>>
  BY DEF Settings!OpenDrawer, Settings!CloseDrawer, Settings!SubmitBroker,
         Settings!TakeBroker, Settings!BrokerFails, Settings!ServeBroker
<1>2. CASE Settings!OpenDrawer \/ Settings!CloseDrawer
  <2>1. drawer' \in BOOLEAN /\ UNCHANGED <<profile, load, failed, card, create, ahead, writes>>
    BY <1>2 DEF Settings!OpenDrawer, Settings!CloseDrawer
  <2> QED BY <1>1, <2>1 DEF CardShape
<1>3. CASE Settings!SubmitBroker
  <2>1. [at |-> "asked", here |-> TRUE] \in Creates
    BY DEF Creates
  <2> QED BY <1>3, <2>1 DEF CardShape, Settings!SubmitBroker
<1>4. CASE Settings!BrokerFails
  BY <1>4, NoRequests DEF CardShape, Settings!BrokerFails
<1>5. ASSUME NEW id \in Brokers, Settings!ServeBroker(id)
      PROVE  CardShape'
  <2>1. create.here \in BOOLEAN
    BY <1>5 DEF CardShape, Creates, Settings!ServeBroker
  <2>2. create' \in Creates
    BY <1>5, <2>1 DEF Creates, Settings!ServeBroker
  <2>3. profile' \in Settings!Profiles
    BY <1>5 DEF CardShape, Settings!Profiles, Settings!ServeBroker
  <2>4. writes' \in 0..MaxWrites
    BY <1>5, WebAppAssumption DEF CardShape, Settings!ServeBroker
  <2> QED BY <1>5, <2>2, <2>3, <2>4 DEF CardShape, Settings!ServeBroker
<1>6. CASE Settings!TakeBroker
  <2>1. create.id \in Brokers
    BY <1>6 DEF CardShape, Creates, Settings!TakeBroker
  <2>2. create' \in Creates /\ load' \in Loads /\ failed' = FALSE
        /\ UNCHANGED <<profile, writes>>
    BY <1>6, NoRequests DEF Settings!TakeBroker, Settings!Refetch
  <2>3. "broker" \in Settings!Names
    BY DEF Settings!Names
  <2>4. CASE create.here
    <3>1. [card["broker"] EXCEPT !.draft = create.id] \in CardStates("broker")
      BY <2>1, <2>3 DEF CardShape, CardStates, CardValues
    <3>2. card' = [card EXCEPT !["broker"] = [card["broker"] EXCEPT !.draft = create.id]]
          /\ drawer' = FALSE /\ ahead' \subseteq ahead \cup {"broker"}
      BY <1>6, <2>3, <2>4 DEF CardShape, Settings!TakeBroker, Settings!Created
    <3>3. ahead' \subseteq Settings!Names
      BY <2>3, <3>2 DEF CardShape
    <3> QED BY <1>1, <2>2, <2>3, <3>1, <3>2, <3>3, CardSet DEF CardShape
  <2>5. CASE ~create.here
    <3>1. UNCHANGED <<card, ahead, drawer>>
      BY <1>6, <2>5 DEF Settings!TakeBroker
    <3> QED BY <1>1, <2>2, <3>1 DEF CardShape
  <2> QED BY <2>4, <2>5
<1> QED BY <1>2, <1>3, <1>4, <1>5, <1>6

\* What an arriving profile makes of a card.
Arrived(c) ==
  IF Settings!Watched(load.profile, c) # Settings!Watched(seen, c)
  THEN [card[c] EXCEPT !.draft = load.profile[c]] ELSE card[c]

\* What an arriving profile changes, for each card.
LEMMA Arrives ==
  ASSUME CardShape, Settings!TakeProfile
  PROVE  /\ load.at = "answered" /\ load.profile \in Settings!Profiles
         /\ seen' = load.profile /\ load' = Settings!Idle /\ failed' = FALSE
         /\ UNCHANGED <<profile, patch, drawer, create, writes>>
         /\ card' = [c \in Settings!Names |-> Arrived(c)]
         /\ \A c \in Settings!Names :
              /\ Arrived(c) \in CardStates(c) /\ Arrived(c).editing = card[c].editing
              /\ load.profile[c] # seen[c] =>
                   Settings!Watched(load.profile, c) # Settings!Watched(seen, c)
              /\ Arrived(c).draft = load.profile[c]
                 \/ /\ Settings!Watched(load.profile, c) = Settings!Watched(seen, c)
                    /\ Arrived(c).draft = card[c].draft
              /\ Settings!Watched(load.profile, c) = Settings!Watched(seen, c) =>
                   (c \in ahead' <=> c \in ahead)
              /\ Settings!Busy(patch[c]) => (c \in ahead' <=> c \in ahead)
         /\ ahead' \subseteq ahead
<1>1. /\ load.at = "answered" /\ seen' = load.profile /\ load' = Settings!Idle /\ failed' = FALSE
      /\ UNCHANGED <<profile, patch, drawer, create, writes>> /\ ahead' \subseteq ahead
  BY DEF Settings!TakeProfile
<1>2. load.profile \in Settings!Profiles
  BY <1>1 DEF CardShape, Loads
<1>3. card' = [c \in Settings!Names |-> Arrived(c)]
  BY DEF Settings!TakeProfile, Arrived, Settings!Fields
<1>4. ASSUME NEW c \in Settings!Names
      PROVE  /\ Arrived(c) \in CardStates(c) /\ Arrived(c).editing = card[c].editing
             /\ load.profile[c] # seen[c] =>
                  Settings!Watched(load.profile, c) # Settings!Watched(seen, c)
             /\ Arrived(c).draft = load.profile[c]
                \/ /\ Settings!Watched(load.profile, c) = Settings!Watched(seen, c)
                   /\ Arrived(c).draft = card[c].draft
             /\ Settings!Watched(load.profile, c) = Settings!Watched(seen, c) =>
                  (c \in ahead' <=> c \in ahead)
             /\ Settings!Busy(patch[c]) => (c \in ahead' <=> c \in ahead)
  <2>1. load.profile[c] \in CardValues(c) /\ card[c] \in CardStates(c)
    BY <1>2, ProfileFields DEF CardShape
  <2>2. load.profile[c] # seen[c] =>
          Settings!Watched(load.profile, c) # Settings!Watched(seen, c)
    BY <1>2 DEF Settings!Watched, Settings!Names, CardShape, Settings!Profiles
  <2>3. ahead' = ahead \ { d \in Settings!Names :
                             /\ Settings!Watched(load.profile, d) # Settings!Watched(seen, d)
                             /\ ~Settings!Busy(patch[d]) }
    BY DEF Settings!TakeProfile
  <2> QED BY <2>1, <2>2, <2>3 DEF Arrived, CardStates
<1> QED BY <1>1, <1>2, <1>3, <1>4

\* The profile is served and arrives, the page is left, or another tab saves.
LEMMA ProfileSteps ==
  ASSUME CardShape,
         \/ Settings!ServeProfile \/ Settings!TakeProfile \/ Settings!ProfileFails
         \/ Settings!Remount
         \/ \E c \in Settings!Names : \E value \in Settings!Inputs(c) :
              Settings!OtherTabSaves(c, value)
  PROVE  CardShape'
<1>1. CASE Settings!ServeProfile
  <2>1. load' \in Loads /\ ~failed'
    BY <1>1 DEF CardShape, Loads, Settings!ServeProfile, Settings!Idle
  <2> QED BY <1>1, <2>1 DEF CardShape, Settings!ServeProfile
<1>2. CASE Settings!TakeProfile
  BY <1>2, Arrives, NoRequests DEF CardShape
<1>3. CASE Settings!ProfileFails
  BY <1>3, NoRequests DEF CardShape, Settings!ProfileFails
<1>4. CASE Settings!Remount
  <2>1. card' = [c \in Settings!Names |-> [editing |-> FALSE, draft |-> seen[c]]]
        /\ drawer' = FALSE /\ ahead' = {} /\ UNCHANGED <<profile, seen, writes>>
    BY <1>4 DEF Settings!Remount, Settings!Fresh, Settings!Fields
  <2>2. \A c \in Settings!Names : card'[c] \in CardStates(c)
    BY <2>1, ProfileFields DEF CardShape, CardStates
  <2>3. patch' = [c \in Settings!Names |->
                    IF Settings!Busy(patch[c]) THEN [patch[c] EXCEPT !.here = FALSE]
                    ELSE patch[c]]
    BY <1>4 DEF Settings!Remount
  <2>4. \A c \in Settings!Names : patch'[c] \in Saves(c)
    BY <2>3 DEF CardShape, Saves, Settings!Busy
  <2>5. create' \in Creates
    BY <1>4 DEF CardShape, Settings!Remount, Creates, Settings!Busy
  <2>6. load' \in Loads /\ failed' \in BOOLEAN /\ (failed' => load'.at = "idle")
    BY <1>4, NoRequests DEF CardShape, Settings!Remount, Settings!Refetch, Settings!Busy
  <2> QED BY <2>1, <2>2, <2>3, <2>4, <2>5, <2>6 DEF CardShape
<1>5. ASSUME NEW c \in Settings!Names, NEW value \in Settings!Inputs(c),
             Settings!OtherTabSaves(c, value)
      PROVE  CardShape'
  <2>1. value \in CardValues(c)
    BY DEF CardShape, Settings!Inputs, Settings!Profiles, CardValues
  <2>2. profile' \in Settings!Profiles
    BY <1>5, <2>1, ProfileFields DEF CardShape, Settings!OtherTabSaves
  <2>3. writes' \in 0..MaxWrites /\ ahead' \subseteq Settings!Names
    BY <1>5, WebAppAssumption DEF CardShape, Settings!OtherTabSaves
  <2> QED BY <1>5, <2>2, <2>3 DEF CardShape, Settings!OtherTabSaves
<1> QED BY <1>1, <1>2, <1>3, <1>4, <1>5

\* Every step of the settings keeps the shape.
LEMMA CardShapeStep ==
  ASSUME CardShape, [Settings!Next]_(Settings!vars)
  PROVE  CardShape'
<1>1. CASE UNCHANGED Settings!vars
  BY <1>1 DEF CardShape, Settings!vars
<1>2. CASE Settings!Next
  BY <1>2, CardSteps, SaveSteps, DrawerSteps, ProfileSteps DEF Settings!Next
<1> QED BY <1>1, <1>2

LEMMA CardShapeInit == Settings!Init => CardShape
<1> SUFFICES ASSUME Settings!Init PROVE CardShape
  OBVIOUS
<1>1. profile \in Settings!Profiles /\ seen \in Settings!Profiles
  BY DEF Settings!Init, Settings!Profiles
<1>2. card = [c \in Settings!Names |-> [editing |-> FALSE, draft |-> profile[c]]]
  BY DEF Settings!Init, Settings!Fresh, Settings!Fields
<1>3. \A c \in Settings!Names : card[c] \in CardStates(c)
  BY <1>1, <1>2, ProfileFields DEF CardStates
<1>4. patch = [c \in Settings!Names |-> Settings!Idle]
  BY DEF Settings!Init
<1>5. writes \in 0..MaxWrites
  BY WebAppAssumption DEF Settings!Init
<1> QED BY <1>1, <1>2, <1>3, <1>4, <1>5, NoRequests DEF Settings!Init, CardShape

LEMMA CardShapeKept == Settings!Spec => []CardShape
BY CardShapeInit, CardShapeStep, PTL DEF Settings!Spec

\* The shape is enough for the types.
LEMMA CardShapeTypes == CardShape => Settings!TypeOK
BY DEF CardShape, Settings!TypeOK, CardStates, Saves, Loads, Creates, CardValues

(***************************************************************************)
(* What a card that is closed has as its draft.                            *)
(***************************************************************************)

\* The fetch under way, or still to come, brings the draft.
Coming(c) ==
  /\ profile[c] = card[c].draft
  /\ \/ load.at = "asked"
     \/ failed
     \/ load.at = "answered" /\ load.profile[c] = card[c].draft

\* The draft is the one that a save was made of.
Sent(c) ==
  /\ patch[c].here /\ card[c].draft = patch[c].value
  /\ patch[c].at = "answered" => profile[c] = patch[c].value

Settled(c) ==
  /\ Settings!Busy(patch[c]) /\ patch[c].here => card[c].editing
  /\ c \notin ahead =>
       /\ ~card[c].editing => card[c].draft = seen[c] \/ Coming(c)
       /\ Settings!Busy(patch[c]) => card[c].draft = seen[c] \/ Sent(c)

CardInv == \A c \in Settings!Names : Settled(c)

\* A step of one card leaves the other as it was.
LEMMA SettledElsewhere ==
  ASSUME NEW c \in Settings!Names, Settled(c),
         card'[c] = card[c], patch'[c] = patch[c], profile'[c] = profile[c],
         UNCHANGED <<seen, load, failed>>, c \in ahead => c \in ahead'
  PROVE  (Settled(c))'
BY DEF Settled, Coming, Sent

\* A fetch asked for brings what the server has.
LEMMA SettledAsked ==
  ASSUME NEW c \in Settings!Names, Settled(c),
         card'[c] = card[c], patch'[c] = patch[c], UNCHANGED <<profile, seen>>,
         load' = [at |-> "asked"], c \in ahead => c \in ahead'
  PROVE  (Settled(c))'
BY DEF Settled, Coming, Sent

\* A card that is edited, typed in or cancelled.
LEMMA SettledCards ==
  ASSUME CardShape, CardInv, NEW c \in Settings!Names,
         \/ Settings!Edit(c) \/ Settings!CancelEdit(c)
         \/ \E value \in Settings!Inputs(c) : Settings!Type(c, value)
  PROVE  CardInv'
<1>0. \A d \in Settings!Names : Settled(d)
  BY DEF CardInv
<1>1. UNCHANGED <<profile, seen, load, failed, patch>>
  BY CardSteps
<1>2. /\ \A d \in Settings!Names \ {c} : card'[d] = card[d]
      /\ card[c] \in CardStates(c) /\ c \in DOMAIN card
  <2>1. PICK s \in CardStates(c) : card' = [card EXCEPT ![c] = s]
    BY CardSteps
  <2> QED BY <2>1, CardSet DEF CardShape
<1>3. \A d \in Settings!Names \ {c} : d \in ahead => d \in ahead'
  BY DEF Settings!Edit, Settings!CancelEdit, Settings!Type
<1>4. \A d \in Settings!Names \ {c} : (Settled(d))'
  BY <1>0, <1>1, <1>2, <1>3, SettledElsewhere
<1>5. (Settled(c))'
  <2>1. CASE Settings!Edit(c)
    <3>1. /\ card'[c].editing = TRUE /\ card'[c].draft = card[c].draft
          /\ ahead' = ahead
      BY <1>2, <2>1 DEF Settings!Edit, CardStates
    <3> QED BY <1>0, <1>1, <3>1 DEF Settled, Sent
  <2>2. CASE Settings!CancelEdit(c)
    <3>1. /\ card'[c] = [editing |-> FALSE, draft |-> seen[c]]
          /\ ~(Settings!Busy(patch[c]) /\ patch[c].here)
      BY <1>2, <2>2 DEF Settings!CancelEdit, Settings!Fresh, Settings!Fields
    <3> QED BY <1>1, <3>1 DEF Settled
  <2>3. ASSUME NEW value \in Settings!Inputs(c), Settings!Type(c, value)
        PROVE  (Settled(c))'
    <3>1. card'[c].editing = TRUE
      BY <1>2, <2>3 DEF Settings!Type, CardStates
    <3>2. c \notin ahead' => ~Settings!Busy(patch[c])
      BY <2>3 DEF Settings!Type
    <3> QED BY <1>1, <3>1, <3>2 DEF Settled, Settings!Busy
  <2> QED BY <2>1, <2>2, <2>3
<1> QED BY <1>4, <1>5 DEF CardInv

\* A card that is saved.
LEMMA SettledSaves ==
  ASSUME CardShape, CardInv, NEW c \in Settings!Names,
         \/ Settings!Save(c) \/ Settings!ServePatch(c)
         \/ Settings!TakePatch(c) \/ Settings!PatchFails(c)
  PROVE  CardInv'
<1>0. \A d \in Settings!Names : Settled(d)
  BY DEF CardInv
<1>1. UNCHANGED <<seen, ahead>>
  BY DEF Settings!Save, Settings!ServePatch, Settings!TakePatch, Settings!PatchFails
<1>2. /\ \A d \in Settings!Names \ {c} : patch'[d] = patch[d]
      /\ card[c] \in CardStates(c) /\ c \in DOMAIN card
      /\ patch[c] \in Saves(c) /\ c \in DOMAIN patch
  <2>1. PICK s \in Saves(c) : patch' = [patch EXCEPT ![c] = s]
    BY SaveSteps
  <2> QED BY <2>1, SaveSet DEF CardShape
<1>3. CASE Settings!Save(c)
  <2>1. /\ card' = card /\ profile' = profile /\ UNCHANGED <<load, failed>>
        /\ patch'[c] = [at |-> "asked", value |-> card[c].draft, here |-> TRUE]
        /\ card[c].editing
    BY <1>2, <1>3 DEF Settings!Save
  <2>2. (Settled(c))'
    BY <1>0, <1>1, <2>1 DEF Settled, Sent
  <2> QED BY <1>0, <1>1, <1>2, <2>1, <2>2, SettledElsewhere DEF CardInv
<1>4. CASE Settings!ServePatch(c)
  <2>1. patch[c] \in [at : {"asked", "answered"}, value : CardValues(c), here : BOOLEAN]
    BY <1>2, <1>4 DEF Saves, Settings!ServePatch
  <2>2. /\ card' = card /\ UNCHANGED <<load, failed>>
        /\ profile' = [profile EXCEPT ![c] = patch[c].value]
        /\ patch'[c].at = "answered" /\ patch'[c].here = patch[c].here
        /\ patch'[c].value = patch[c].value /\ patch[c].at = "asked"
    BY <1>2, <1>4, <2>1 DEF Settings!ServePatch
  <2>3. profile'[c] = patch[c].value /\ \A d \in Settings!Names \ {c} : profile'[d] = profile[d]
    BY <2>1, <2>2, ProfileFields DEF CardShape
  <2>4. (Settled(c))'
    BY <1>0, <1>1, <2>2, <2>3 DEF Settled, Sent, Settings!Busy
  <2> QED BY <1>0, <1>1, <1>2, <2>2, <2>3, <2>4, SettledElsewhere DEF CardInv
<1>5. CASE Settings!TakePatch(c)
  <2>1. PICK s : s = [card[c] EXCEPT !.editing = @ /\ ~patch[c].here]
    OBVIOUS
  <2>2. s.draft = card[c].draft /\ (s.editing <=> card[c].editing /\ ~patch[c].here)
    BY <1>2, <2>1 DEF CardStates
  <2>3. /\ card' = [card EXCEPT ![c] = s] /\ patch' = [patch EXCEPT ![c] = Settings!Idle]
        /\ load' = [at |-> "asked"] /\ UNCHANGED profile /\ patch[c].at = "answered"
    BY <1>2, <1>5, <2>1 DEF Settings!TakePatch, Settings!Refetch
  <2>4. /\ card'[c] = s /\ patch'[c] = Settings!Idle
        /\ \A d \in Settings!Names \ {c} : card'[d] = card[d]
    BY <1>2, <2>3
  <2>5. c \notin ahead => card[c].draft = seen[c] \/ Sent(c)
    BY <1>0, <2>3 DEF Settled, Settings!Busy
  <2>6. (Settled(c))'
    <3>1. ~(Settings!Busy(patch[c]))'
      BY <2>4, NoRequests DEF Settings!Busy
    <3>2. c \notin ahead => s.draft = seen[c] \/ s.draft = profile[c]
      BY <2>2, <2>3, <2>5 DEF Sent
    <3> QED BY <1>1, <2>3, <2>4, <3>1, <3>2 DEF Settled, Coming
  <2> QED BY <1>0, <1>1, <1>2, <2>3, <2>4, <2>6, SettledAsked DEF CardInv
<1>6. CASE Settings!PatchFails(c)
  <2>1. /\ patch'[c] = Settings!Idle /\ UNCHANGED <<profile, load, failed, card>>
    BY <1>2, <1>6 DEF Settings!PatchFails
  <2>2. ~(Settings!Busy(patch[c]))'
    BY <2>1, NoRequests DEF Settings!Busy
  <2>3. (Settled(c))'
    BY <1>0, <1>1, <2>1, <2>2 DEF Settled, Coming
  <2> QED BY <1>0, <1>1, <1>2, <2>1, <2>3, SettledElsewhere DEF CardInv
<1> QED BY <1>3, <1>4, <1>5, <1>6

\* A broker is added, and chosen in the card's draft.
LEMMA SettledDrawer ==
  ASSUME CardShape, CardInv,
         \/ Settings!OpenDrawer \/ Settings!CloseDrawer \/ Settings!SubmitBroker
         \/ Settings!TakeBroker \/ Settings!BrokerFails
         \/ \E id \in Brokers : Settings!ServeBroker(id)
  PROVE  CardInv'
<1>0. \A c \in Settings!Names : Settled(c)
  BY DEF CardInv
<1>1. CASE \/ Settings!OpenDrawer \/ Settings!CloseDrawer \/ Settings!SubmitBroker
           \/ Settings!BrokerFails
  <2>1. UNCHANGED <<profile, seen, load, failed, card, patch, ahead>>
    BY <1>1 DEF Settings!OpenDrawer, Settings!CloseDrawer, Settings!SubmitBroker,
                Settings!BrokerFails
  <2> QED BY <1>0, <2>1, SettledElsewhere DEF CardInv
<1>2. ASSUME NEW id \in Brokers, Settings!ServeBroker(id)
      PROVE  CardInv'
  <2>1. UNCHANGED <<seen, load, failed, card, patch, ahead>>
        /\ profile' = [profile EXCEPT !.brokers = @ \cup {id}]
    BY <1>2 DEF Settings!ServeBroker
  <2>2. \A c \in Settings!Names : profile'[c] = profile[c]
    BY <2>1 DEF CardShape, Settings!Profiles, Settings!Names
  <2> QED BY <1>0, <2>1, <2>2, SettledElsewhere DEF CardInv
<1>3. CASE Settings!TakeBroker
  <2>1. /\ UNCHANGED <<profile, seen, patch>> /\ load' = [at |-> "asked"]
        /\ "broker" \in Settings!Names
    BY <1>3 DEF Settings!TakeBroker, Settings!Refetch, Settings!Names
  <2>2. CASE ~create.here
    <3>1. UNCHANGED <<card, ahead>>
      BY <1>3, <2>2 DEF Settings!TakeBroker
    <3> QED BY <1>0, <2>1, <3>1, SettledAsked DEF CardInv
  <2>3. CASE create.here
    <3>1. /\ card' = [card EXCEPT !["broker"].draft = create.id]
          /\ ahead' = IF card["broker"].editing /\ ~Settings!Busy(patch["broker"])
                      THEN ahead ELSE ahead \cup {"broker"}
      BY <1>3, <2>3 DEF Settings!TakeBroker, Settings!Created
    <3>2. /\ card'["broker"].editing = card["broker"].editing
          /\ \A c \in Settings!Names \ {"broker"} : card'[c] = card[c]
      BY <2>1, <3>1 DEF CardShape, CardStates
    <3>3. \A c \in Settings!Names \ {"broker"} : (Settled(c))'
      BY <1>0, <2>1, <3>1, <3>2, SettledAsked
    <3>4. (Settled("broker"))'
      BY <1>0, <2>1, <3>1, <3>2 DEF Settled, Settings!Busy
    <3> QED BY <3>3, <3>4 DEF CardInv
  <2> QED BY <2>2, <2>3
<1> QED BY <1>1, <1>2, <1>3

\* The profile is served and taken, the page left, or another tab saves.
LEMMA SettledProfile ==
  ASSUME CardShape, CardInv,
         \/ Settings!ServeProfile \/ Settings!TakeProfile \/ Settings!ProfileFails
         \/ Settings!Remount
         \/ \E c \in Settings!Names : \E value \in Settings!Inputs(c) :
              Settings!OtherTabSaves(c, value)
  PROVE  CardInv'
<1>0. \A c \in Settings!Names : Settled(c)
  BY DEF CardInv
<1>1. CASE Settings!ServeProfile
  <2>1. /\ load' = [at |-> "answered", profile |-> profile]
        /\ UNCHANGED <<profile, seen, failed, card, patch, ahead>>
    BY <1>1 DEF Settings!ServeProfile
  <2> QED BY <1>0, <2>1 DEF CardInv, Settled, Coming, Sent
<1>2. CASE Settings!TakeProfile
  <2> SUFFICES ASSUME NEW c \in Settings!Names PROVE (Settled(c))'
    BY DEF CardInv
  <2> DEFINE watched == Settings!Watched(load.profile, c) # Settings!Watched(seen, c)
  <2>1. /\ load.at = "answered" /\ seen' = load.profile
        /\ UNCHANGED <<profile, patch>> /\ card'[c] = Arrived(c)
        /\ Arrived(c).editing = card[c].editing
        /\ load.profile[c] # seen[c] => watched
        /\ Arrived(c).draft = load.profile[c] \/ (~watched /\ Arrived(c).draft = card[c].draft)
        /\ ~watched => (c \in ahead' <=> c \in ahead)
        /\ Settings!Busy(patch[c]) => (c \in ahead' <=> c \in ahead)
        /\ ~failed
    BY <1>2, Arrives DEF CardShape, Settings!Idle
  <2> HIDE DEF watched
  <2>2. CASE card'[c].draft = load.profile[c]
    BY <1>0, <2>1, <2>2 DEF Settled
  <2>3. CASE ~watched /\ card'[c].draft = card[c].draft
    BY <1>0, <2>1, <2>3 DEF Settled, Coming, Sent
  <2> QED BY <2>1, <2>2, <2>3
<1>3. CASE Settings!ProfileFails
  BY <1>0, <1>3 DEF Settings!ProfileFails, CardInv, Settled, Coming, Sent
<1>4. CASE Settings!Remount
  <2> SUFFICES ASSUME NEW c \in Settings!Names PROVE (Settled(c))'
    BY DEF CardInv
  <2>1. /\ UNCHANGED seen /\ card'[c] = [editing |-> FALSE, draft |-> seen[c]]
        /\ patch'[c] = IF Settings!Busy(patch[c]) THEN [patch[c] EXCEPT !.here = FALSE]
                       ELSE patch[c]
    BY <1>4 DEF Settings!Remount, Settings!Fresh, Settings!Fields
  <2>2. patch[c] \in Saves(c)
    BY DEF CardShape
  <2>3. Settings!Busy(patch[c]) => patch'[c].here = FALSE
    BY <2>1, <2>2 DEF Saves, Settings!Busy
  <2>4. (Settings!Busy(patch[c]))' => Settings!Busy(patch[c])
    BY <2>1 DEF Settings!Busy
  <2> QED BY <2>1, <2>3, <2>4 DEF Settled
<1>5. ASSUME NEW c \in Settings!Names, NEW value \in Settings!Inputs(c),
             Settings!OtherTabSaves(c, value)
      PROVE  CardInv'
  <2>1. /\ UNCHANGED <<seen, load, failed, card, patch>>
        /\ profile' = [profile EXCEPT ![c] = value]
        /\ ahead' = IF Settings!Busy(patch[c]) \/ profile[c] # seen[c]
                    THEN ahead \cup {c} ELSE ahead
    BY <1>5 DEF Settings!OtherTabSaves
  <2>2. value \in CardValues(c)
    BY DEF CardShape, Settings!Inputs, Settings!Profiles, CardValues
  <2>3. \A d \in Settings!Names \ {c} : profile'[d] = profile[d]
    BY <2>1, <2>2, ProfileFields DEF CardShape
  <2>4. (Settled(c))'
    BY <1>0, <2>1 DEF Settled, Coming, Sent, Settings!Busy
  <2> QED BY <1>0, <2>1, <2>3, <2>4, SettledElsewhere DEF CardInv
<1> QED BY <1>1, <1>2, <1>3, <1>4, <1>5

\* Every step of the settings keeps CardInv.
LEMMA CardInvStep ==
  ASSUME CardShape, CardInv, [Settings!Next]_(Settings!vars)
  PROVE  CardInv'
<1>1. CASE UNCHANGED Settings!vars
  BY <1>1 DEF CardInv, Settled, Coming, Sent, Settings!vars
<1>2. CASE Settings!Next
  BY <1>2, SettledCards, SettledSaves, SettledDrawer, SettledProfile DEF Settings!Next
<1> QED BY <1>1, <1>2

LEMMA CardInvKept == Settings!Spec => []CardInv
<1>1. Settings!Init => CardInv
  <2> SUFFICES ASSUME Settings!Init, NEW c \in Settings!Names PROVE Settled(c)
    BY DEF CardInv
  <2>1. card[c].draft = seen[c] /\ patch[c] = Settings!Idle
    BY DEF Settings!Init, Settings!Fresh, Settings!Fields
  <2> QED BY <2>1, NoRequests DEF Settled
<1>2. CardShape /\ CardInv /\ [Settings!Next]_(Settings!vars) => CardInv'
  BY CardInvStep
<1> QED BY <1>1, <1>2, CardShapeKept, PTL DEF Settings!Spec

(***************************************************************************)
(* A tab's cache and the settings, side by side.                           *)
(***************************************************************************)

\* A step of the application is a step of the tab or of the settings.
LEMMA Parts == RaceSpec => Spec /\ Settings!Spec
<1>1. RaceInit => Init /\ Settings!Init
  BY DEF RaceInit
<1>2. ASSUME [RaceNext]_<<part, vars, settings>>
      PROVE  [Next]_vars /\ [Settings!Next]_(Settings!vars)
  <2>1. UNCHANGED settings <=> UNCHANGED Settings!vars
    BY DEF settings, Settings!vars
  <2> QED BY <1>2, <2>1 DEF RaceNext
<1> QED BY <1>1, <1>2, PTL DEF RaceSpec, Spec, Settings!Spec

\* The state of a tab and of the settings has its type: among other things each
\* card's draft and save is of a value that the card can be set to.
THEOREM WebTypes == RaceSpec => []TypesOK
<1>1. TypeOK /\ CardShape => TypesOK
  BY CardShapeTypes DEF TypesOK
<1> QED BY <1>1, Parts, TypeCorrect, CardShapeKept, PTL

\* A card that is closed, with no fetch under way or failed, has the draft that the
\* cached profile gives it, for any names and brokers and any saves; only the three
\* ways a draft is left behind are left out (BrokerInfoCard, PersonalAgentInfoCard).
THEOREM DraftsStaySettled == RaceSpec => []DraftsSettle
<1>1. CardShape /\ CardInv => DraftsSettle
  BY DEF CardShape, Loads, CardInv, Settled, Coming, DraftsSettle, Settings!DraftsSettle,
         Settings!Fields, Settings!Busy
<1> QED BY <1>1, Parts, CardShapeKept, CardInvKept, PTL
================================================================================
