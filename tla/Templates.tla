------------------------------- MODULE Templates -------------------------------
(***************************************************************************)
(* Document templates: TemplateIngestionService.ingestGlobalTemplates,     *)
(* createFromUpload, duplicateTemplate and createWorkspaceTemplate of      *)
(* TemplatesService, and the rewriting of a version's fields by            *)
(* TemplateFieldsService and TemplateFieldDetectionService.                *)
(*                                                                         *)
(* A request is a sequence of awaited calls without a transaction, each an *)
(* action with the code up to the next.  Templates are known by their      *)
(* slugs, which are unique over all workspaces, and contents by their      *)
(* hashes.  One file of an ingestion stands for the loop over all; edits   *)
(* of a single field row and workflow links are left out.                  *)
(***************************************************************************)
EXTENDS Naturals, FiniteSets

CONSTANTS
  Slugs,      \* the slugs of templates
  Contents,   \* the PDFs
  FileNames,  \* the names PDFs are stored under
  Declared,   \* the version numbers a sidecar may declare
  Workers     \* the requests and ingestions that may run at one time

VARIABLES
  template,   \* the Template rows: of the system, of the workspace, or none
  versions,   \* the TemplateVersion rows
  stored,     \* the object storage
  fields,     \* the TemplateField rows, by the rewrite that made them
  work,       \* where each request is between its awaits
  met         \* history: slugs on which two requests met

templateVars == <<template, versions, stored, fields, work, met>>

None == "none"

\* 'global-templates/...' or 'workspace-templates/...', slug, version, file name.
Keys == [dir : {"global", "workspace"}, slug : Slugs, number : Nat,
         name : FileNames]

VersionRows == [slug : Slugs, number : Nat, content : Contents, key : Keys]

\* on: the PDF the fields were placed on or found in; nth tells rewrites apart.
FieldRows == [slug : Slugs, number : Nat, on : Contents, nth : Nat]

Idle == [pc |-> "idle"]

\* from and of: the slug and the number of the version that is copied.
Busy == [kind : {"ingest", "upload", "copy", "blank", "replace", "detect"},
         pc : {"upsert", "hash", "slot", "max", "check", "insertTemplate", "put",
               "insertVersion", "copyFields", "read", "clear", "fill"},
         slug : Slugs, number : Nat, content : Contents \cup {None},
         name : FileNames \cup {None}, dir : {"global", "workspace"},
         from : Slugs \cup {None}, of : Nat]

TypeOK ==
  /\ template \in [Slugs -> {"none", "system", "workspace"}]
  /\ versions \subseteq VersionRows
  /\ stored \subseteq [key : Keys, content : Contents]
  /\ fields \subseteq FieldRows
  /\ work \in [Workers -> {Idle} \cup Busy]
  /\ met \subseteq Slugs

Init ==
  /\ template = [s \in Slugs |-> "none"]
  /\ versions = {} /\ stored = {} /\ fields = {}
  /\ work = [p \in Workers |-> Idle]
  /\ met = {}

VersionsOf(s) == { v \in versions : v.slug = s }
Numbered(s, n) == { v \in versions : v.slug = s /\ v.number = n }
Newest(s) == { v \in VersionsOf(s) : \A w \in VersionsOf(s) : w.number <= v.number }
Stored(key) == { o.content : o \in { x \in stored : x.key = key } }
Batches(s, n) == { f \in fields : f.slug = s /\ f.number = n }

KeyOf(r) == [dir |-> r.dir, slug |-> r.slug, number |-> r.number, name |-> r.name]

Goto(p, pc) == work' = [work EXCEPT ![p].pc = pc]
Become(p, r) == work' = [work EXCEPT ![p] = r]
Done(p) == work' = [work EXCEPT ![p] = Idle]

\* A request starts; the others on its slug are noted.
Begin(p, r) ==
  /\ work[p] = Idle
  /\ Become(p, r)
  /\ met' = IF \E q \in Workers : work[q] # Idle /\ work[q].slug = r.slug
            THEN met \cup {r.slug} ELSE met
  /\ UNCHANGED <<template, versions, stored, fields>>

Asked(kind, pc, s, n, c, name, dir) ==
  [kind |-> kind, pc |-> pc, slug |-> s, number |-> n, content |-> c,
   name |-> name, dir |-> dir, from |-> None, of |-> 0]

(***************************************************************************)
(* ingestGlobalTemplates.                                                  *)
(***************************************************************************)

\* One PDF of the repository, with the version its sidecar or its name declares.
Ingest(p, s, n, c, name) == Begin(p, Asked("ingest", "upsert", s, n, c, name, "global"))

\* The row of the slug, whosever it is.
Upsert(p) ==
  LET r == work[p] IN
  /\ r.pc = "upsert"
  /\ template' = [template EXCEPT ![r.slug] = IF @ = "none" THEN "system" ELSE @]
  /\ Goto(p, "hash")
  /\ UNCHANGED <<versions, stored, fields, met>>

\* A PDF that is there under any number is not stored again.
FindHash(p) ==
  LET r == work[p] IN
  /\ r.pc = "hash"
  /\ IF \E v \in VersionsOf(r.slug) : v.content = r.content
     THEN Done(p) ELSE Goto(p, "slot")
  /\ UNCHANGED <<template, versions, stored, fields, met>>

\* Mutant of FindSlot: the declared number, whatever has it.
FindSlotDeclared(p) ==
  /\ work[p].pc = "slot"
  /\ Goto(p, "put")
  /\ UNCHANGED <<template, versions, stored, fields, met>>

\* The declared number, if no other PDF has it ...
FindSlot(p) ==
  LET r == work[p] IN
  /\ r.pc = "slot"
  /\ Goto(p, IF \E v \in Numbered(r.slug, r.number) : v.content # r.content
             THEN "max" ELSE "put")
  /\ UNCHANGED <<template, versions, stored, fields, met>>

\* ... or the next after the newest.
FindMax(p) ==
  LET r == work[p] IN
  /\ r.pc = "max"
  /\ \/ \E v \in Newest(r.slug) :
          Become(p, [r EXCEPT !.number = v.number + 1, !.pc = "put"])
     \/ /\ Newest(r.slug) = {}
        /\ Become(p, [r EXCEPT !.number = 1, !.pc = "put"])
  /\ UNCHANGED <<template, versions, stored, fields, met>>

(***************************************************************************)
(* The templates members make.                                             *)
(***************************************************************************)

\* POST /templates/upload, for the workspace or, by an admin, for all.
Upload(p, s, c, name, dir) ==
  Begin(p, Asked("upload", "check", s, 1, c, name, dir))

\* POST /templates/:id/duplicate: the newest version of the source is read.
Duplicate(p, from, s) ==
  /\ \E v \in Newest(from) :
       Begin(p, [Asked("copy", "check", s, 1, v.content, v.key.name, "workspace")
                   EXCEPT !.from = from, !.of = v.number])

\* POST /templates: a template without a PDF.
Blank(p, s) == Begin(p, Asked("blank", "check", s, 0, None, None, "workspace"))

\* The slug is free, and of a source the PDF is read from the storage.
Check(p) ==
  LET r == work[p]
      source == UNION { Stored(v.key) : v \in Numbered(r.from, r.of) }
  IN
  /\ r.pc = "check"
  /\ \/ /\ template[r.slug] # "none" \/ (r.kind = "copy" /\ source = {})
        /\ Done(p)
     \/ /\ template[r.slug] = "none" /\ r.kind # "copy"
        /\ Goto(p, "insertTemplate")
     \/ /\ template[r.slug] = "none" /\ r.kind = "copy"
        /\ \E c \in source :
             Become(p, [r EXCEPT !.content = c, !.pc = "insertTemplate"])
  /\ UNCHANGED <<template, versions, stored, fields, met>>

\* The slug is unique.
InsertTemplate(p) ==
  LET r == work[p] IN
  /\ r.pc = "insertTemplate"
  /\ IF template[r.slug] = "none"
     THEN /\ template' = [template EXCEPT ![r.slug] =
                            IF r.dir = "global" THEN "system" ELSE "workspace"]
          /\ IF r.kind = "blank" THEN Done(p) ELSE Goto(p, "put")
     ELSE Done(p) /\ UNCHANGED template
  /\ UNCHANGED <<versions, stored, fields, met>>

(***************************************************************************)
(* The PDF and its row.                                                    *)
(***************************************************************************)

Put(p) ==
  LET key == KeyOf(work[p]) IN
  /\ work[p].pc = "put"
  /\ stored' = { o \in stored : o.key # key }
                 \cup {[key |-> key, content |-> work[p].content]}
  /\ Goto(p, "insertVersion")
  /\ UNCHANGED <<template, versions, fields, met>>

\* A template has a number once and a PDF once.
InsertVersion(p) ==
  LET r == work[p] IN
  /\ r.pc = "insertVersion"
  /\ IF \E v \in VersionsOf(r.slug) : v.number = r.number \/ v.content = r.content
     THEN Done(p) /\ UNCHANGED versions
     ELSE /\ versions' = versions \cup
               {[slug |-> r.slug, number |-> r.number, content |-> r.content,
                 key |-> KeyOf(r)]}
          /\ CASE r.kind = "ingest" -> Done(p)
               [] r.kind = "upload" -> Goto(p, "clear")
               [] r.kind = "copy" -> Goto(p, "copyFields")
  /\ UNCHANGED <<template, stored, fields, met>>

(***************************************************************************)
(* Fields.                                                                 *)
(***************************************************************************)

Batch(r, on, nth) == [slug |-> r.slug, number |-> r.number, on |-> on, nth |-> nth]

\* The fields of the version that was copied.
SourceFields(r) == Batches(r.from, r.of)

\* A copy gets the fields of its source, or those found in its PDF.
CopyFields(p) ==
  LET r == work[p] IN
  /\ r.pc = "copyFields"
  /\ IF SourceFields(r) # {}
     THEN /\ fields' = fields \cup { Batch(r, f.on, f.nth) : f \in SourceFields(r) }
          /\ Done(p)
     ELSE Goto(p, "clear") /\ UNCHANGED fields
  /\ met' = IF r.from \in met THEN met \cup {r.slug} ELSE met
  /\ UNCHANGED <<template, versions, stored>>

\* PUT .../fields with places on the version's PDF, and POST .../detect-fields.
Rewrite(p, kind) ==
  \E v \in versions :
    Begin(p, Asked(kind, IF kind = "detect" THEN "read" ELSE "clear",
                   v.slug, v.number, v.content, v.key.name, v.key.dir))

\* Detection works on what the storage has.
ReadPdf(p) ==
  LET r == work[p]
      pdf == UNION { Stored(v.key) : v \in Numbered(r.slug, r.number) }
  IN
  /\ r.pc = "read"
  /\ \/ \E c \in pdf : Become(p, [r EXCEPT !.content = c, !.pc = "clear"])
     \/ pdf = {} /\ Done(p)
  /\ UNCHANGED <<template, versions, stored, fields, met>>

\* Mutant of Cleared: the fields stay.
ClearedNot(r) == fields

Cleared(r) == fields \ Batches(r.slug, r.number)

\* deleteMany, and if there are fields to write, createMany.
Clear(p) ==
  /\ work[p].pc = "clear"
  /\ fields' = Cleared(work[p])
  /\ Goto(p, "fill") \/ Done(p)
  /\ UNCHANGED <<template, versions, stored, met>>

Fill(p) ==
  LET r == work[p] IN
  /\ r.pc = "fill"
  /\ fields' = fields \cup
       {Batch(r, r.content, Cardinality(Batches(r.slug, r.number)) + 1)}
  /\ Done(p)
  /\ UNCHANGED <<template, versions, stored, met>>

\* A call fails or the process dies: what was written stays.
Fail(p) ==
  /\ work[p] # Idle
  /\ Done(p)
  /\ UNCHANGED <<template, versions, stored, fields, met>>

Next ==
  \E p \in Workers :
    \/ \E s \in Slugs, c \in Contents, name \in FileNames :
         \/ \E n \in Declared : Ingest(p, s, n, c, name)
         \/ \E dir \in {"global", "workspace"} : Upload(p, s, c, name, dir)
    \/ \E s \in Slugs : Blank(p, s)
    \/ \E s, from \in Slugs : Duplicate(p, from, s)
    \/ \E kind \in {"replace", "detect"} : Rewrite(p, kind)
    \/ Upsert(p)
    \/ FindHash(p)
    \/ FindSlot(p)
    \/ FindMax(p)
    \/ Check(p)
    \/ InsertTemplate(p)
    \/ Put(p)
    \/ InsertVersion(p)
    \/ CopyFields(p)
    \/ ReadPdf(p)
    \/ Clear(p)
    \/ Fill(p)
    \/ Fail(p)

Spec == Init /\ [][Next]_templateVars

(***************************************************************************)
(* Properties.                                                             *)
(***************************************************************************)

\* The PDF of a version is the one its row has the hash of, though ingestions
\* repeat, change their files and die anywhere, and members claim slugs first;
\* only requests on one slug at one time may write over each other.
PdfsMatchHash ==
  \A v \in versions : v.slug \notin met => Stored(v.key) = {v.content}

\* The fields of a version come from one rewrite and are placed on its PDF, also
\* in a copy whose source gets new versions meanwhile.
FieldsFit ==
  \A f \in fields : f.slug \notin met =>
    /\ Batches(f.slug, f.number) = {f}
    /\ \E v \in Numbered(f.slug, f.number) : v.content = f.on
=============================================================================
