# Verification of the deal coordinator

TLA+ models of the deal coordinator, a TypeScript monorepo that takes a real
estate listing from intake to closing: `apps/api` (NestJS over Prisma and
Postgres) holds the logic, `packages/workflow` the stage machine,
`packages/shared` enums and schemas, `apps/web` the user interface; `apps/worker`
and `apps/gateway` are stubs.

What makes this system hard is one fact: **outside authentication no service
uses a transaction, a version column or a lock**. A request is a sequence of
awaited database calls, each of them atomic; other requests of the same process
run between any two; the process may die between any two; and every check is
made on a row read earlier. The models take that literally: one action per
awaited call, with the code up to the next one, any number of requests in
flight. The web application adds the same difficulty at the other end: a tab
labels its requests with ids from storage that all tabs share, and shows answers
from a cache that each write must remember to invalidate.

## Inventory

| Component | State | Operations | Talks to | Hard behaviour | What must be true |
|---|---|---|---|---|---|
| Workflow (`packages/workflow`) | none | `validateTransition` | called by every mover of a stage | none, it is pure | the graph has the gates its comments name |
| Deals | deal row, fields, audit trail | create, update, upsertFields, transition | workflow, audit, files | stale check, unconditional write, lost audit row | no gate is skipped; overrides are recorded |
| Offers, extraction, acceptance | offer rows, unresolved items, review tasks | create, update, shortlist, select, reject, extract, prepare | deals (stage), LLM extractor | two selects, late extraction, dying select | one selected offer; gaps are asked about; the deal is not ahead of its offers |
| Signatures | envelope rows, document status | send, webhook, sync | DocuSign, deals, tasks | repeated, late and early events, swallowed errors, resend | never ahead of the signers; nothing goes back; signatures arrive |
| Tasks, review tasks | task rows | create, update, checklist, resolve | signatures, acceptance | duplicate checklist | (covered where they are created) |
| Documents, form rules | documents, versions, stored text | generate, regenerate | file storage, signatures | version numbers, find-then-create, regenerating what is out for signature | a version row tells what its file holds |
| Files, folders | folders, assets, stored objects | create and delete folder, seed, migrate, view, upload, delete | storage | seeding that stops half way, migration under a creation, shared keys | every asset can be read; paths agree with the tree |
| Templates | templates, versions, fields | ingest, upload, duplicate, create, detect and replace fields | storage | partial creation, slugs claimed meanwhile, a source that gets a new version | a version's PDF and fields belong together |
| Messaging, inbound, chat | communications, deals, slugs, items, replies | inbound text, sandbox deal, create listing by chat, patch item | LLM, deals | two sandboxes, bases that run into one another's slugs, an answer that moves the text to another deal, late items | one slug, one deal; one message, one reply, in one deal; nothing supplied is asked for |
| LLM, the user's key | key | save, clear, parse, complete | OpenAI | the key goes between check and use | fake words never pass for OpenAI's |
| Accounts, workspaces | users, memberships, slugs, profile rows | register, create workspace, onboard, patch profile | auth provider | read, merge, write back; `Promise.all` answers early | a saved section stays saved |
| Calendar, key dates, tasks, reviews, exceptions, notifications, memory | rows, audit rows, external ids | create, update, checklist, key dates, connect, sync | Google, Microsoft, audit | audit rows out of order, double copies | the trail follows the record; one copy of an event |
| Web application | workspace label, page, query cache, drafts | navigate, switch, load, write, invalidate, edit a card | API, other tabs | storage shared by tabs, late answers, loads an invalidation cannot cancel | a tab shows its own workspace and what it wrote |
| PDF, comparison, UI package, seed, stubs | none | text, layout, demonstration rows | - | - | - |

`PROJECT.json` has the same list with sources and status, and under "hazards"
the lines where each of these behaviours bites.

## Modules

`Workflow` holds the stages, edges, guards and `Allowed`/`Overrides`, which are
`validateTransition(...).allowed` and `.override`. It is pure and shared.

`DealLifecycle` is the abstract specification of a deal's stage: it starts at
intake, moves one edge at a time and passes a gate (listing review, contract
review, closure) only with authority. `DealStage` is the code: `req[p]` is the
state of one HTTP request between its awaits (`write`, `audit`,
`auditOverride`), `Start` the read and the check, `WriteStage` the
unconditional `deal.update`, `AuditStage` and `AuditOverride` the audit rows,
`Fail` a request that dies. `StartSystemTransition` is the `tryTransitionDeal`
the other services have a copy of. `passed`, `overridden` and `lost` are history
variables. Under one request at a time `DealStage` implements `DealLifecycle`.

`OfferBook` is the abstract specification of the offers of a deal: absent, open,
chosen, out; one is chosen only when the others are out; none comes back.
`Offers` is `OffersService`, `OfferExtractionService` and the control of
`prepareAcceptancePackage`: `Supersede` and the `Write...` actions are the
writes of `select`, `shortlist` and `reject`; `Extract` and `Summarize` the read
and the write around the extractor's await; `TryMove` and `Move` the two halves
of `tryTransitionDeal`. `status[o]` is `Offer.status`, `missing[o]` the fields
among `Fields` that are null.

`Signatures` is sending a packet with DocuSign (`CreateRow`, `CreateAtProvider`,
`SendAtProvider`, then the shared `UpdateEnvelope`, `UpdateDocs`, `TryMove`,
`Move`) and the webhook with the sync it starts (`Webhook`, `Query`, the shared
writes, `ActivateChecklist`). DocuSign is external: `Sign` is a recipient who
signs, `pending` the events still to be delivered. A call to DocuSign may fail
silently (`Lossy`), because the provider class catches every error.

`FormRules` is `FormRulesService` and the gap list of `AcceptanceService`: which
documents a listing needs and what each must show, over facts ("the field is
filled in", "built before 1978") instead of strings. `Documents` is what
`generateForDeal`, `regenerateDocument` and `prepareAcceptancePackage` do for
one document type, any one: `Find` and `Create` look the row up or make it,
`StoreFile`, `AddVersion` and `UpdateDocument` are the three writes that follow,
`ReadFields` the late read of `regenerateDocument`. Documents of different types
share neither rows nor file names, so a generator's rounds for other types are
stuttering steps. `UpsertField` is one field of `DealsService.upsertFields`,
`MarkOut` what the signatures write to a document. An offer's own fields do not
change here; `Offers` has their changes. The storage is a function from names to
contents; its two back ends (disk, S3) both write over what has the name.

`Files` is `FilesService` on the folders and assets of one deal: `folder` and
`asset` are the rows, `object` the storage by key, and `fileReq[p]` where a
request is in creating a folder, in the migration, in seeding the template
(`ensureDefaultDealFolders`), in an upload (store, then insert) or in a delete
(check, remove, delete rows). Deleting a folder cascades as the schema says.
The page that makes a folder sends the deal of its parent; that the API would take
another deal is left out. The template that is seeded has no folders below its
leaves, so the walk over it never goes deeper than one level.

`Inbound` follows a text from the phone simulator through
`MessageProcessingService.processInbound`: finding or making the sandbox deal
with its slug, storing the communication, the two LLM calls, the deal the answer
names, the fields one by one, the items they settle, the question and the reply.
The chat's `create_deal_listing` and `DealsService.create` share the slugs and
the items. The slugs of a workspace are one set, whatever name or address they come
from: a slug is the sequence of its parts, the words and numbers between the
dashes, and `Candidate(base, n)` is the nth that is tried for a base, cut at the
maximum length, which is counted in parts. So the first slug of a unit on a street
may be the street's second one, and a slug at the maximum length loses its end
before it is numbered. `hasKey` is the user's key, which comes and goes: each LLM call looks
it up again.

`Templates` is ingestion, upload, duplication, blank templates and the rewriting
of a version's fields; `Accounts` registration, workspaces, onboarding and the
merged profile (the memory endpoints, whose page sends only the deals' own
entries, are left out of it); `Desk` the small records of a deal (tasks, review tasks,
exceptions, notes, notifications, events) with their audit rows, and the copies
of events in external calendars. They share no state with each other, nor with
the modules above: `Signatures` has the checklist only for its repetition.

`Hooks` is the web application's table of queries and writes: for each write
hook the keys its `onSuccess` invalidates, and, from the API's handlers, the
answers that write changes. `Pages` composes the panels of every page from what
they show and which writes they offer once what has loaded. `Web` is one tab:
`storage` is `localStorage`, `label` the React state that should equal it,
`query` one cache entry with its fetch, `sent` the write under way. The table is
followed one write and one query at a time, every pair that matters, since
queries do not touch each other. What the query library does is external:
an invalidation marks an entry stale and fetches it again if a page shows it,
cancelling a fetch in flight only when the entry already has an answer; `reset`
forgets the answer; an answer clears the mark; a failed fetch is tried again.
Dropping entries unused for five minutes and fetching again after reconnecting
are left out: both only fetch more. `Cards` is the settings page's profile cards
and the drawer that adds a responsible broker: one cached profile, a draft in
each card and the effects that copy the one into the other.

The `MC...` modules add symmetry sets for TLC and, where a run needs it, a view
that hides what neither a step nor a property of the run reads (the audit trail;
how an item was closed; objects no row names; the fields of a request its next
steps do not use). `Serial` (`DealStage`, `Offers`, `Signatures`), `Office`
(`Desk`, `Templates`, `Accounts`) and `WebApp` (`Web`, `Cards`) put components that
share no state into one run, one of them per behaviour. The `*_proofs` modules hold
the theorems.

## Runs

| Run | Instance | Shows |
|---|---|---|
| `DealStageRace` | 1 deal, 2 requests | `NoGateSkipped`: though the check is stale and the write unconditional, no interleaving gets a deal past a review or a closure nobody entitled opened. `OverrideAccounted` |
| `Serial` | 1 deal; 3 offers; 2 envelopes with 2 signers and a DocuSign that answers, where one request may die; 1 request | the refinements `Lifecycle` and `FollowsBook`, `NarrativeCurrent`, and `EnvelopeForward` |
| `DealStageArchived` | 1 active deal, 2 requests | *violated*: `ArchivedIsFinal`; both requests read 'active', one archives the deal, the slower one writes 'offers_received' over it |
| `OffersRace` | 2 offers, 1 field, 2 requests, one of which may select | `AtMostOneSelected`, `MissingInfoTracked`, `AutoMovesBacked` with late extractions and dying requests |
| `OffersTwoSelects` | 2 offers, 2 requests that may select | *violated*: `AtMostOneSelected`; two selects leave two selected offers |
| `SignaturesRace` | 2 envelopes, 2 signers, 1 document, 2 requests, DocuSign may fail | `NeverAheadOfSigners` |
| `SignaturesLive` | 2 envelopes for 1 document, 1 signer, 2 requests, one of which may die, a DocuSign that answers, fairness | `SignaturesArrive`, with a task that is sent again |
| `DocumentsRace` | 2 types, 2 rows, 2 requests, 1 changing field, 2 version numbers, 4 version rows (2 for acceptance documents) | `HistoryDense`, `StatusHonest` under any overlap; `FileFaithful`, `PublishedFixed` as long as no two requests met in a round |
| `FilesRace` | 3 folders, 2 assets, 1 name, 2 requests | `FilesReadable`, `PathsNest`, `SeedComplete`: the only ways to lose a file are a shared key and the migration's renamed one |
| `InboundRace` | 2 deals, 2 texts, 1 field, 2 requests; or 3 deals, 3 bases, slugs of at most 3 parts, 2 requests | `OneSandbox`, `ThreadAssigned`, `RepliesFollow`, `NeverSilentlyFake`, `FieldsSettle`, and `SlugsNeeded`: no slug is given twice, and every one tried before a deal's own is another deal's |
| `OfficeRace` | 2 templates and PDFs, or 2 workspaces and people, or 2 records and users; 2 requests | `PdfsMatchHash`, `FieldsFit`, `ProfileKeeps`, `ChangesTold`, `OneCopy`: what each loses by overlap, and only by overlap |
| `WebRace` | 2 workspaces, 2 versions, 2 switches, every write with every query that it changes or invalidates; 2 names, 3 saves in the settings | `OwnWorkspace`, `WritesShown`, `DraftsSettle` |

Every row's exact constants are in its `.cfg`. Two requests are what a race
needs: each race here is one request that writes between another's read and
write; two offers or envelopes are what one needs to push another aside. Three
offers in the serial run let one offer be superseded, another selected and a
third open at once. `MaxFails` bounds how many requests die (0 where the crash
is not the point of the run), `MaxVersion` in `Documents` the version numbers of
a document and `MaxRows` and `MaxPackage` its version rows: a listing's document
may have four, both numbers taken twice, an acceptance document, which also has
a choice of names, two. Three folders are a template's root, its one leaf and
one that somebody makes beside or below them, and `MaxDepth` 2 is that leaf's
depth. `InboundRace` has a constraint, `Scope`, that makes it two runs in one: texts and
chats with two deals, on the bases of one street and of the sandbox; or listings
posted and nothing else, up to three deals, on the bases of the street, of its unit 2,
whose slug the street's second deal would have, and of `MaxParts` 3 parts, which is
cut before it is numbered. Three deals let two of them push the third along; only
`SlugsNeeded` reads a slug. A post is a chat that has no items to raise. `SignaturesLive` has one signer:
a sync that finds only some of the signatures does not touch the documents, and
`SignaturesRace` has two. In `Accounts` `MaxRows` 2 is one profile row too many. In `Desk` a
checklist of two tasks (`ChecklistItems`; the code's has five) has a first, a
last and a point to die between them, and `MaxCopies` 1 per calendar still gives
an event up to four copies. In `Web` `MaxVersion` 2 writes per workspace and
`MaxSwitches` 2 give an older and a newer answer and a way there and back; in
`Cards` `MaxWrites` 3 is one save each by a card, the drawer and another tab.
`OfficeRace` has an action constraint, `Winding`: after the first overlap that
the properties excuse no new request starts; those under way go on to their end.
What comes later is a new round beside rows already excused.
Sets bound everything else, and no variable counts
without bound: `checklist` tells once from repeated, audit rows are kept as the
newest row per deal.

Not every property survives every adversity, and the gap is part of the result.
`NarrativeCurrent` (ADR 003: audit events carry the narrative) and both
refinements fail as soon as two requests overlap: the rows, and the writes, of
the two then come in any order. `EnvelopeForward` fails with two requests, or
with a DocuSign whose status call fails, because an error is reported as 'sent'.
`FileFaithful` and `PublishedFixed` fail when two requests meet: both then write
one file name, or make two documents of a type, and the row of the one records
what the file of the other replaced; hence the history variable `contended`.
`SignaturesArrive` fails when someone signs before the send handler has
returned (`EarlySigners`): its update of the documents to 'sent' then comes
after the sync's 'signed', and nothing corrects it. Nor does anything correct a task
that is sent again: the second send puts the documents of an envelope that everyone
has signed back to 'sent' (signatures.service.ts:277), for good if the second envelope
is never signed. `SignaturesArrive` therefore promises 'signed' only while no envelope
for the document that was sent lacks signatures (`StillOut`, which also holds of an
envelope that asks nobody: DocuSign has nothing to report of it, though the code
would call it completed).

In the newer runs the history variables say which overlaps are excused:
`tainted` and `renamed` in `Files`, `overlap` and `excused` in `Inbound`, `met`,
`crossed`, `muddled` and `strayed` in `OfficeRace`, `crossed` and the loads an
invalidation could not replace in `Web`, `ahead` in `Cards`. A property with an
excuse says that nothing else goes wrong; the hazards' notes say what the excuse
costs. `WritesShown` also excuses the pairs in `Forgotten`: writes whose hook
does not invalidate a query that they change, some of them at one remove: an offer
that moves the deal on changes the stage that every offer and every review task of
the deal is answered with, a new list price the comparison of the offers.

`CHECK_DEADLOCK FALSE` stands where the run's envelopes, rows, texts, writes or
failures are finite and the system may stop when they are used up. Deadlock is
checked in `Serial`, `DealStageRace`, `OffersRace` and `DocumentsRace`.

### Fairness

`SignaturesLive` assumes weak fairness of the calls of a request that has begun
(the event loop resumes every promise whose call returned) and strong fairness
of delivering an event DocuSign has pending, for every envelope (DocuSign retries
until it gets a success; the process is at times free to accept). Signing,
sending and failing are not fair: nobody must sign. `MaxFails` is finite, so
requests do not die for ever; with unbounded failure nothing would arrive.

## Proofs

TLAPS proves the following for all sets of deals, offers, envelopes, documents,
signers and requests, from the typing assumptions on the constants alone unless
one is named.

* `DealStage`: `TypeCorrect`; `GatesNeverSkipped`, from the invariant
  `PendingCleared`: a request about to write carries the authority its target
  needs, in the gates already open or in the one it opens itself, however stale
  its check is, because gates once open stay open; `OverridesAccounted`, from
  `OverridePending`; `SerialImplementsLifecycle`, for one request at a time,
  from `NeverStale`; `SerialNarrates`, for one request at a time, from
  `RowFollows`: the one request between its stage write and its audit row is the
  only reason for the newest row to be behind.
* `Serial`, in `DealStage_proofs`: `OffersFollowBook` and `EnvelopesMoveForward`,
  for one request at a time. A step of `Serial` is a step of one component and none
  of the others' (`Parts`); the rest are the theorems of `Offers` and `Signatures`,
  which `Serial` takes over with the modules and whose assumptions it meets.
* `Offers`: `TypeCorrect`; `OneSelected`, if only one request may select, from
  `SupersedeHolds` (whom select superseded is not selected when it writes) and
  `CallsFit`; `GapsTracked`, from `GapsKnown`; `MovesBacked`, from
  `MovesPending`; `SerialFollowsBook`, for one request at a time, from
  `NeverStale`.
* `Signatures`: `TypeCorrect`; `NeverAhead`, from `SeenIsTrue`: what a sync has
  seen is true and stays true, because nobody takes a signature back. This holds
  with a failing DocuSign and any overlap: errors only ever understate.
  `SerialMovesForward`, for one request at a time and a DocuSign that answers,
  from `WritesInOrder`.
* `Documents`: `TypeCorrect`; `HistoryStaysDense` and `StatusStaysHonest` for any
  overlap, from `RoundsGrounded` (what a request in a round knows of its document,
  the versions below its own and the row it made, stays true because rows are
  never deleted) and `RowsGrounded`; `FilesStayFaithful` and
  `PublishedStaysFixed` from `Solo`, which says that the one request in a round
  still has the document's number and finds its file as it stored it, so that it
  only ever writes a name no published version has.
* `Files`: `TypeCorrect`; `FilesStayReadable`, from `UploadsKept`: an upload about
  to insert its row finds its content under its key, and a delete that has read a
  key has spoilt every upload under it; `PathsStayNested`, from `RequestsKnow`:
  what a request knows of the folder it will write in stays true, because ids are
  not reused, folders keep their names and the only move is under the umbrella;
  `SeedStaysComplete`, from `SeedingKept`.
* `Inbound`: `TypeCorrect`, with `AllFit` (what the step a request is at says of
  the rest of it); `ThreadsAssigned`, `RepliesStayWithText` and `FakesOwnUp`, from
  `TextInv`: a request's stored text is there, in the deal the request goes on
  with, unanswered, and no other request has it; `ItemsSettle`, inductive with
  the types; `SlugsStayNeeded`, from `SlugInv`: a request has seen every slug before
  the one it tries taken, by deals of whatever base, slugs are never given back, and
  the insert refuses one taken since; `SandboxStaysOne`, from
  `OneInv`: a request that sets out to make the sandbox is alone and finds none.
* `Desk`: `TypeCorrect`; `TrailsFollow`, from `Trails`: the one update of a record
  under way finds it as told until it writes it, and then the trail is where it
  started from; `CopiesStaySingle`, from `Singles`: until its patch the one sync of
  an event finds every copy linked, before a post it finds none, and then the one
  it is about to link.
* `Office`: a step of it is a step of one of its components and none of the
  others' (`Parts`), so that what is proved of each alone holds in it:
  `OfficeTypes`, `PdfsStayRight`, `FieldsStayFit`, `ProfilesStayWhole`.
  - `Templates`: the types need `TplShape`: rows refer to rows that are there, a
    version's key carries its own number, a template with versions has a newest one,
    and the step a request is at tells what its request is made of. `PdfsMatchHash`
    and `FieldsFit` follow from `TplInv`, on every slug where no two requests met:
    storage and rows agree, each field batch is the only one of its version, one
    request at most is at work, and it knows enough (`TplKnows`). Until its row is
    in, its number is free and nothing has its PDF; before the row, storage has the
    PDF under its key; after it, the row has that PDF, and a rewrite that has deleted
    finds no fields. That a copy's source still has the version it read needs the
    source unmet too, for a request that met another there may have rewritten it.
  - `Accounts`: `AccShape` says among other things that whoever opens a workspace
    is registered and that a request for a profile has a workspace.
    `ProfileKeeps` follows from `AccInv`, where no two merges overlapped: the rows
    of a member are all one, with everything that was written; one request at most
    has its merge before it, answered or not, and one about to write has read the
    row there is, or that there is none, and all that was written (`AccMerging`).
    Without the last a late write could undo an earlier one.
* `Web`: `TypeCorrect`; `KeepsToItsWorkspace`, from `Own`, which adds to
  `OwnWorkspace` that a tab without a label keeps nothing and asks for nothing
  until a page is entered; `InvalidatedWritesShown`, from `Told`: for every write
  and every query its hook does invalidate, `WritesShown` holds, because an entry
  older than a write the tab was told of is marked stale, is being fetched again,
  or was being fetched when the answer came. Which queries a hook invalidates and
  which pairs are in `Forgotten` is a finite table that TLC goes through.
* `WebApp`, again by `Parts`: `WebTypes`, and `DraftsStaySettled` from `CardInv`.
  A closed card has the cached profile's draft, or the server has it and a fetch
  is asked for, has been answered with it, or has failed (`Coming`); a card whose
  save is under way has the cached draft or what it sent, which the server has
  once it has answered (`Sent`); and a save of a card that is still there keeps it
  open. `CardShape` adds to the types that a failed fetch is over.

The assumptions on the constants are named in the modules that declare them
(`DeskAssumption`: a checklist is not empty, and no provider is called as an unset
link is; `OfficeAssumption`: versions are numbers, and nobody and no name is
called `"none"`; `WebAppAssumption`: the bound on writes is a number), and every
run of such a module evaluates them. The theorems about `Office` also hold without
`Winding`, the constraint that keeps `OfficeRace` small.

The safety properties are not inductive because each speaks of what is stored,
and what is stored depends on what requests in flight are about to write; each
strengthening says what such a request may know.

Only model-checked: liveness (`SignaturesArrive`), since ENABLED and fairness are
out of the prover's reach, and the table behind `WritesShown`. Every other
property of the passing runs is a theorem; for those whose excuse a history variable
records (`met`, `crossed`, `strayed`, ...) the excuse is the same in both.

## Not modelled

* Text, layout and placement: PDF filling and merging, signature tabs, prompts,
  comparison tables, the wording of replies and narratives. A field is 'filled
  in' or not, an answer of the LLM is any of the outcomes the code tells apart.
* Authentication's token and password checks, and the guards that refuse a
  request: every modelled request was let in. Log in reads only.
* Single-row writes nothing else reads: edits of one template field, workflow
  links, a template's texts, workspace settings, uploading an offer's file.
* Code without a caller: `markOfferAccepted`, `updateStatus` of documents,
  `TasksService.create`; in the web application `useUpdateDeal`,
  `useTransitionDeal`, `useFiles`, `useFolders`, `useFileUrl`, `useGeneratePdf`,
  `useSyncCalendarEvent`, `useAcceptanceDocuments`, `useReviewTask`, and
  `connectCalendar`, which the integrations page's button never reaches.
* Webhook texts: they carry no workspace and `handleInbound` drops them.
* The web application's markup, filters, paging, the fields of its dialogs and
  the steps of onboarding. Its Skip button stays enabled while a step is saved and
  the two then move on twice: two handlers of one component, left out.
* The UI package, seed data, the gateway and worker stubs, and the fake
  signature provider of development.
