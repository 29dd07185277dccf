------------------------------- MODULE Documents -------------------------------
(***************************************************************************)
(* The documents of one deal and their versions: DocumentsService          *)
(* (generateForDeal, regenerateDocument), the document part of             *)
(* AcceptanceService.prepareAcceptancePackage, and what                    *)
(* SignaturesService writes to a document.                                 *)
(*                                                                         *)
(* All three generators go through the same awaited calls for each         *)
(* document, without a transaction: find the row or create it, store the   *)
(* file under a name made of the type and the next version number, create  *)
(* the version row, update the document row.  The number is the one read   *)
(* at the start plus one.                                                  *)
(*                                                                         *)
(* Rows are looked up and files are named by type, so the rounds of a      *)
(* generator for one type touch nothing of another.  The module follows    *)
(* one type, any one of Types; the rounds for the others are stuttering    *)
(* steps, and they may come between the fields being read and the round.   *)
(***************************************************************************)
EXTENDS FormRules, Naturals, FiniteSets

CONSTANTS
  Types,       \* the document types
  DocIds,      \* the ids rows may get
  Offers,      \* the offers acceptance packages are prepared for
  Incomplete,  \* those of them without a buyer's name, price or close date
  Editable,    \* the deal fields that change; the others stay filled in
  Requests,    \* the requests the API process may be serving at one time
  MaxVersion,  \* bound on version numbers
  MaxRows,     \* bound on the version rows of a listing's document type
  MaxPackage   \* the same for an acceptance type

ASSUME ConstantsAssumption ==
  /\ Types \subseteq ListingTypes \cup AcceptanceTypes
  /\ Editable \subseteq ListingFields
  /\ "listing" \notin Offers
  /\ Incomplete \subseteq Offers
  /\ MaxVersion \in Nat \ {0}
  /\ MaxRows \in Nat /\ MaxPackage \in Nat

VARIABLES
  type,        \* the document type this behaviour follows
  facts,       \* what the deal's fields say
  docs,        \* the Document rows of the type
  versions,    \* their DocumentVersion rows
  store,       \* the file storage: {} or the content stored under a name
  req,         \* where each request is between its awaits
  contended    \* history: two requests were in a round at one time

vars == <<type, facts, docs, versions, store, req, contended>>

\* A file's content, and the snapshot in its version row: the fields as the
\* generator read them.  Which offer it read is in the file's name, and what an
\* offer says stays the same here (Offers models its changes).
Contents == SUBSET Facts

\* Acceptance files are named after their offer, all others after nothing
\* but type and number.
Origins == {"listing"} \cup Offers
Urls == [origin : Origins, number : 1 .. MaxVersion]
NoUrl == [origin |-> "listing", number |-> 0]

Absent == [status |-> "absent", current |-> 0, url |-> NoUrl]
\* "out" stands for 'sent' and 'signed', which nothing here tells apart.
DocRows == [status : {"draft", "missing_info", "out"},
            current : 0 .. MaxVersion, url : Urls \cup {NoUrl}]

VersionRows == [doc : DocIds, number : 1 .. MaxVersion, url : Urls,
                content : Contents]

Idle == [pc |-> "idle"]

\* pc names the next call.  The number is that of the version before.
Waiting == [pc : {"find", "create"}, origin : Origins, content : Contents]
Reading == [pc : {"read"}, doc : DocIds, number : 0 .. MaxVersion - 1]
Writing == [pc : {"store", "row", "update"}, origin : Origins,
            content : Contents, doc : DocIds, number : 0 .. MaxVersion - 1]

TypeOK ==
  /\ type \in Types
  /\ facts \in SUBSET Facts
  /\ docs \in [DocIds -> DocRows \cup {Absent}]
  /\ versions \subseteq VersionRows
  /\ store \in [Urls -> SUBSET Contents]
  /\ req \in [Requests -> {Idle} \cup Waiting \cup Reading \cup Writing]
  /\ contended \in BOOLEAN

Init ==
  /\ type \in Types
  /\ facts = ListingFields \ Editable
  /\ docs = [d \in DocIds |-> Absent]
  /\ versions = {}
  /\ store = [u \in Urls |-> {}]
  /\ req = [p \in Requests |-> Idle]
  /\ contended = FALSE

Rows == { d \in DocIds : docs[d] # Absent }

\* The requests in the middle of a round.
InRound == { p \in Requests : req[p].pc \notin {"idle", "find"} }

\* A round starts.
Contend == contended' = (contended \/ InRound # {})

(***************************************************************************)
(* The three requests.  A request refused with a 404 or 422, or for a deal *)
(* that does not need the document, changes nothing (a stuttering step).   *)
(***************************************************************************)

\* generateForDeal: the deal and its fields are read once, for all documents.
Generate(p) ==
  /\ req[p].pc = "idle"
  /\ type \in RequiredDocuments(facts)
  /\ req' = [req EXCEPT ![p] =
       [pc |-> "find", origin |-> "listing", content |-> facts]]
  /\ UNCHANGED <<type, facts, docs, versions, store, contended>>

\* prepareAcceptancePackage, if the type has an active template.
Prepare(p, o) ==
  /\ req[p].pc = "idle"
  /\ type \in AcceptanceTypes
  /\ req' = [req EXCEPT ![p] =
       [pc |-> "find", origin |-> o, content |-> facts]]
  /\ UNCHANGED <<type, facts, docs, versions, store, contended>>

\* regenerateDocument reads the document first and the deal afterwards.
Regenerate(p, d) ==
  /\ req[p].pc = "idle"
  /\ d \in Rows
  /\ docs[d].current < MaxVersion
  /\ req' = [req EXCEPT ![p] =
       [pc |-> "read", doc |-> d, number |-> docs[d].current]]
  /\ Contend
  /\ UNCHANGED <<type, facts, docs, versions, store>>

ReadFields(p) ==
  LET r == req[p] IN
  /\ r.pc = "read"
  /\ req' = [req EXCEPT ![p] =
       [pc |-> "store", origin |-> "listing", content |-> facts,
        doc |-> r.doc, number |-> r.number]]
  /\ UNCHANGED <<type, facts, docs, versions, store, contended>>

(***************************************************************************)
(* The round.                                                              *)
(***************************************************************************)

Begin(p, d, number) ==
  req' = [req EXCEPT ![p] =
            [pc |-> "store", origin |-> req[p].origin,
             content |-> req[p].content, doc |-> d, number |-> number]]

\* document.findFirst: any row of the type, if there are several.
Find(p) ==
  /\ req[p].pc = "find"
  /\ \/ /\ Rows = {}
        /\ req' = [req EXCEPT ![p].pc = "create"]
     \/ \E d \in Rows : /\ docs[d].current < MaxVersion
                        /\ Begin(p, d, docs[d].current)
  /\ Contend
  /\ UNCHANGED <<type, facts, docs, versions, store>>

\* Of what an offer may lack, one field stands for all.
Lacks(o) == { f \in {"offerPrice"} : o \in Incomplete }

\* The status a generator gives: its own rule on the fields it read.
RuleStatus(origin, content) ==
  StatusOf(IF origin = "listing" THEN MissingFields(type, content)
           ELSE AcceptanceMissing(content, Lacks(origin)))

\* Mutant of NewDocument: it starts at the number a version row defaults to.
NewDocumentAtOne(r) == [status |-> "draft", current |-> 1, url |-> NoUrl]

\* generateForDeal creates a 'draft', prepareAcceptancePackage with the status
\* it has worked out.
NewDocument(r) ==
  [status |-> IF r.origin = "listing" THEN "draft"
              ELSE RuleStatus(r.origin, r.content),
   current |-> 0, url |-> NoUrl]

Create(p) ==
  /\ req[p].pc = "create"
  /\ \E d \in DocIds \ Rows :
       /\ docs' = [docs EXCEPT ![d] = NewDocument(req[p])]
       /\ Begin(p, d, 0)
  /\ UNCHANGED <<type, facts, versions, store, contended>>

\* Mutant of FileUrl: the name carries the number of the version before.
FileUrlBefore(r) ==
  [origin |-> r.origin, number |-> IF r.number = 0 THEN 1 ELSE r.number]

FileUrl(r) == [origin |-> r.origin, number |-> r.number + 1]

\* storeFile writes over whatever has that name.
StoreFile(p) ==
  LET r == req[p] IN
  /\ r.pc = "store"
  /\ store' = [store EXCEPT ![FileUrl(r)] = {r.content}]
  /\ req' = [req EXCEPT ![p].pc = "row"]
  /\ UNCHANGED <<type, facts, docs, versions, contended>>

\* Mutant of VersionRow: the snapshot is of the fields as they are by then.
VersionRowLate(r) ==
  [doc |-> r.doc, number |-> r.number + 1, url |-> FileUrl(r),
   content |-> facts]

VersionRow(r) ==
  [doc |-> r.doc, number |-> r.number + 1, url |-> FileUrl(r),
   content |-> r.content]

AddVersion(p) ==
  LET r == req[p] IN
  /\ r.pc = "row"
  /\ versions' = versions \cup {VersionRow(r)}
  /\ Cardinality(versions') <= IF type \in AcceptanceTypes THEN MaxPackage
                               ELSE MaxRows
  /\ req' = [req EXCEPT ![p].pc = "update"]
  /\ UNCHANGED <<type, facts, docs, store, contended>>

\* Mutant of Updated: the status is judged on the fields as they are by then.
UpdatedLate(r) ==
  [status |-> RuleStatus(r.origin, facts), current |-> r.number + 1,
   url |-> FileUrl(r)]

\* document.update by id: number, file and status, whatever they are by then,
\* 'sent' and 'signed' included.
Updated(r) ==
  [status |-> RuleStatus(r.origin, r.content), current |-> r.number + 1,
   url |-> FileUrl(r)]

UpdateDocument(p) ==
  LET r == req[p] IN
  /\ r.pc = "update"
  /\ docs' = [docs EXCEPT ![r.doc] = Updated(r)]
  /\ req' = [req EXCEPT ![p] = Idle]
  /\ UNCHANGED <<type, facts, versions, store, contended>>

\* A call fails or the process dies: what was written stays.
Fail(p) ==
  /\ req[p].pc # "idle"
  /\ req' = [req EXCEPT ![p] = Idle]
  /\ UNCHANGED <<type, facts, docs, versions, store, contended>>

(***************************************************************************)
(* What goes on meanwhile.                                                 *)
(***************************************************************************)

\* One field of upsertFields: each is an upsert of its own.
UpsertField(f) ==
  /\ \E now \in Readings(f) :
       facts' = (facts \ UNION Readings(f)) \cup now
  /\ UNCHANGED <<type, docs, versions, store, req, contended>>

\* sendEnvelope and syncEnvelopeStatus write 'sent' and later 'signed', here
\* both "out", to documents that had a file when the envelope was made.
MarkOut(d) ==
  /\ \E v \in versions : v.doc = d
  /\ docs' = [docs EXCEPT ![d].status = "out"]
  /\ UNCHANGED <<type, facts, versions, store, req, contended>>

Next ==
  \/ \E p \in Requests :
       \/ Generate(p)
       \/ \E o \in Offers : Prepare(p, o)
       \/ \E d \in DocIds : Regenerate(p, d)
       \/ ReadFields(p)
       \/ Find(p)
       \/ Create(p)
       \/ StoreFile(p)
       \/ AddVersion(p)
       \/ UpdateDocument(p)
       \/ Fail(p)
  \/ \E f \in Editable : UpsertField(f)
  \/ \E d \in DocIds : MarkOut(d)

Spec == Init /\ [][Next]_vars

(***************************************************************************)
(* Properties.                                                             *)
(***************************************************************************)

VersionsOf(d, n) == { v \in versions : v.doc = d /\ v.number = n }

\* However many requests take the same number, or die between the version row
\* and the document row, the history of a document has no gap: every number up
\* to the current one, and up to any version row, has a row.
HistoryDense ==
  /\ \A d \in DocIds : \A n \in 1 .. docs[d].current : VersionsOf(d, n) # {}
  /\ \A v \in versions : \A n \in 1 .. v.number : VersionsOf(v.doc, n) # {}

\* The status of a generated document is the one its generator's rule gives
\* for the fields recorded in a row of the current version, though fields
\* change and rivals write meanwhile: 'draft' never stands over fields that
\* lacked something.
StatusHonest ==
  \A d \in DocIds :
    docs[d].current > 0 /\ docs[d].status \in {"draft", "missing_info"}
      => \E v \in VersionsOf(d, docs[d].current) :
           /\ v.url = docs[d].url
           /\ docs[d].status = RuleStatus(v.url.origin, v.content)

\* Unless two requests worked on the type at one time, the deal has one
\* document of it, and the file it points to holds what its version row
\* records, even when requests died half way and their numbers were used again.
FileFaithful ==
  ~ contended =>
    \A d \in Rows :
      /\ Rows = {d}
      /\ docs[d].current > 0 =>
           \E v \in VersionsOf(d, docs[d].current) :
             v.url = docs[d].url /\ store[v.url] = {v.content}

\* A version that has become current is never written over, unless two
\* requests worked on its type at one time: what a dead request stored may be
\* replaced, what anybody could see may not.
PublishedFixed ==
  [][~ contended' =>
       \A v \in versions :
         v.number <= docs[v.doc].current => store'[v.url] = store[v.url]]_vars
=============================================================================
