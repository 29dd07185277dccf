--------------------------- MODULE Documents_proofs ---------------------------
(***************************************************************************)
(* Theorems about Documents, for any sets of types, rows, offers and       *)
(* requests and any bounds.                                                *)
(***************************************************************************)
EXTENDS Documents, TLAPS

(***************************************************************************)
(* Type correctness.                                                       *)
(***************************************************************************)

\* The status a rule gives is one of two.
LEMMA RuleStatusType ==
  \A o, c : RuleStatus(o, c) \in {"draft", "missing_info"}
BY DEF RuleStatus, StatusOf

\* What a field may say are facts.
LEMMA ReadingsAreFacts ==
  ASSUME NEW f \in ListingFields, NEW now \in Readings(f)
  PROVE  now \subseteq Facts
<1>1. CASE f = "year_built"
  BY <1>1 DEF Readings, Facts, ListingFields
<1>2. CASE f = "hoa_flag"
  BY <1>2 DEF Readings, Facts, ListingFields
<1>3. CASE f # "year_built" /\ f # "hoa_flag"
  BY <1>3 DEF Readings, Facts, ListingFields
<1> QED BY <1>1, <1>2, <1>3

\* What pc says of the fields a request has.
LEMMA Shapes ==
  ASSUME TypeOK, NEW p \in Requests
  PROVE  /\ req[p].pc \in {"find", "create"} => req[p] \in Waiting
         /\ req[p].pc = "read" => req[p] \in Reading
         /\ req[p].pc \in {"store", "row", "update"} => req[p] \in Writing
BY DEF TypeOK, Idle, Waiting, Reading, Writing

\* The file of a version in the making has a name.
LEMMA FileUrlType ==
  ASSUME NEW r \in Writing
  PROVE  FileUrl(r) \in Urls /\ r.number + 1 \in 1 .. MaxVersion
BY ConstantsAssumption DEF FileUrl, Urls, Writing

\* A round begun on a document knows its id and number.
LEMMA BeginEffect ==
  ASSUME TypeOK, NEW p \in Requests, req[p] \in Waiting, NEW d \in DocIds,
         NEW n \in 0 .. MaxVersion - 1, Begin(p, d, n)
  PROVE  /\ req' \in [Requests -> {Idle} \cup Waiting \cup Reading \cup Writing]
         /\ \A q \in Requests \ {p} : req'[q] = req[q]
         /\ req'[p] \in Writing
         /\ req'[p].pc = "store"
         /\ req'[p].doc = d /\ req'[p].number = n
         /\ req'[p].origin = req[p].origin /\ req'[p].content = req[p].content
<1> DEFINE s == [pc |-> "store", origin |-> req[p].origin,
                 content |-> req[p].content, doc |-> d, number |-> n]
<1>1. s \in Writing
  BY DEF Waiting, Writing
<1>2. req' = [req EXCEPT ![p] = s]
  BY DEF Begin
<1> HIDE DEF s
<1>3. req' \in [Requests -> {Idle} \cup Waiting \cup Reading \cup Writing]
  BY <1>1, <1>2 DEF TypeOK
<1>4. req'[p] = s /\ \A q \in Requests \ {p} : req'[q] = req[q]
  BY <1>2 DEF TypeOK
<1>5. s.pc = "store" /\ s.doc = d /\ s.number = n
        /\ s.origin = req[p].origin /\ s.content = req[p].content
  BY DEF s
<1> QED BY <1>1, <1>3, <1>4, <1>5

\* A request that goes on with its round keeps what it knows.
LEMMA NextCallEffect ==
  ASSUME TypeOK, NEW p \in Requests, req[p] \in Writing,
         NEW pc \in {"row", "update"}, req' = [req EXCEPT ![p].pc = pc]
  PROVE  /\ req' \in [Requests -> {Idle} \cup Waiting \cup Reading \cup Writing]
         /\ \A q \in Requests \ {p} : req'[q] = req[q]
         /\ req'[p] \in Writing
         /\ req'[p].pc = pc
         /\ req'[p].doc = req[p].doc /\ req'[p].number = req[p].number
         /\ req'[p].origin = req[p].origin /\ req'[p].content = req[p].content
<1> DEFINE s == [req[p] EXCEPT !.pc = pc]
<1>1. s \in Writing
  BY DEF Writing
<1>2. req' = [req EXCEPT ![p] = s]
  OBVIOUS
<1>3. s.pc = pc /\ s.doc = req[p].doc /\ s.number = req[p].number
        /\ s.origin = req[p].origin /\ s.content = req[p].content
  BY DEF Writing
<1> HIDE DEF s
<1>4. req' \in [Requests -> {Idle} \cup Waiting \cup Reading \cup Writing]
  BY <1>1, <1>2 DEF TypeOK
<1>5. req'[p] = s /\ \A q \in Requests \ {p} : req'[q] = req[q]
  BY <1>2 DEF TypeOK
<1> QED BY <1>1, <1>3, <1>4, <1>5

\* A step keeps every variable of Documents in its type.
LEMMA TypeStep == TypeOK /\ [Next]_vars => TypeOK'
<1> SUFFICES ASSUME TypeOK, [Next]_vars PROVE TypeOK'
  OBVIOUS
<1> DEFINE Reqs == {Idle} \cup Waiting \cup Reading \cup Writing
<1>1. ASSUME NEW p \in Requests, Generate(p) PROVE TypeOK'
  <2>1. [pc |-> "find", origin |-> "listing", content |-> facts] \in Waiting
    BY DEF TypeOK, Waiting, Origins, Contents
  <2> QED BY <1>1, <2>1 DEF Generate, TypeOK
<1>2. ASSUME NEW p \in Requests, NEW o \in Offers, Prepare(p, o) PROVE TypeOK'
  <2>1. [pc |-> "find", origin |-> o, content |-> facts] \in Waiting
    BY DEF TypeOK, Waiting, Origins, Contents
  <2> QED BY <1>2, <2>1 DEF Prepare, TypeOK
<1>3. ASSUME NEW p \in Requests, NEW d \in DocIds, Regenerate(p, d)
      PROVE  TypeOK'
  <2>1. docs[d].current \in 0 .. MaxVersion - 1
    BY <1>3, ConstantsAssumption DEF Regenerate, Rows, TypeOK, DocRows
  <2>2. [pc |-> "read", doc |-> d, number |-> docs[d].current] \in Reading
    BY <2>1 DEF Reading
  <2>3. contended' \in BOOLEAN
    BY <1>3 DEF Regenerate, Contend
  <2> QED BY <1>3, <2>2, <2>3 DEF Regenerate, TypeOK
<1>4. ASSUME NEW p \in Requests, ReadFields(p) PROVE TypeOK'
  <2>1. req[p] \in Reading
    BY <1>4, Shapes DEF ReadFields
  <2>2. [pc |-> "store", origin |-> "listing", content |-> facts,
         doc |-> req[p].doc, number |-> req[p].number] \in Writing
    BY <2>1 DEF TypeOK, Reading, Writing, Origins, Contents
  <2> QED BY <1>4, <2>2 DEF ReadFields, TypeOK
<1>5. ASSUME NEW p \in Requests, Find(p) PROVE TypeOK'
  <2>1. req[p] \in Waiting
    BY <1>5, Shapes DEF Find
  <2>2. contended' \in BOOLEAN
    BY <1>5 DEF Find, Contend
  <2>3. req' \in [Requests -> Reqs]
    <3>1. CASE req' = [req EXCEPT ![p].pc = "create"]
      <4>1. [req[p] EXCEPT !.pc = "create"] \in Waiting
        BY <2>1 DEF Waiting
      <4> QED BY <3>1, <4>1 DEF TypeOK
    <3>2. ASSUME NEW d \in Rows, docs[d].current < MaxVersion,
                 Begin(p, d, docs[d].current)
          PROVE  req' \in [Requests -> Reqs]
      <4>1. d \in DocIds /\ docs[d].current \in 0 .. MaxVersion - 1
        BY <3>2, ConstantsAssumption DEF Rows, TypeOK, DocRows
      <4> QED BY <2>1, <3>2, <4>1, BeginEffect
    <3> QED BY <1>5, <3>1, <3>2 DEF Find
  <2> QED BY <1>5, <2>2, <2>3 DEF Find, TypeOK
<1>6. ASSUME NEW p \in Requests, Create(p) PROVE TypeOK'
  <2>1. req[p] \in Waiting
    BY <1>6, Shapes DEF Create
  <2>2. PICK d \in DocIds \ Rows :
          docs' = [docs EXCEPT ![d] = NewDocument(req[p])] /\ Begin(p, d, 0)
    BY <1>6 DEF Create
  <2>3. NewDocument(req[p]) \in DocRows
    BY RuleStatusType, ConstantsAssumption DEF NewDocument, DocRows
  <2>4. 0 \in 0 .. MaxVersion - 1
    BY ConstantsAssumption
  <2>5. req' \in [Requests -> Reqs]
    BY <2>1, <2>2, <2>4, BeginEffect
  <2> QED BY <1>6, <2>2, <2>3, <2>5 DEF Create, TypeOK
<1>7. ASSUME NEW p \in Requests, StoreFile(p) PROVE TypeOK'
  <2>1. req[p] \in Writing
    BY <1>7, Shapes DEF StoreFile
  <2>2. req' \in [Requests -> Reqs]
    BY <1>7, <2>1, NextCallEffect DEF StoreFile
  <2>3. store' \in [Urls -> SUBSET Contents]
    BY <1>7, <2>1 DEF StoreFile, TypeOK, Writing
  <2> QED BY <1>7, <2>2, <2>3 DEF StoreFile, TypeOK
<1>8. ASSUME NEW p \in Requests, AddVersion(p) PROVE TypeOK'
  <2>1. req[p] \in Writing
    BY <1>8, Shapes DEF AddVersion
  <2>2. req' \in [Requests -> Reqs]
    BY <1>8, <2>1, NextCallEffect DEF AddVersion
  <2>3. VersionRow(req[p]) \in VersionRows
    BY <2>1, FileUrlType DEF VersionRow, VersionRows, Writing
  <2> QED BY <1>8, <2>2, <2>3 DEF AddVersion, TypeOK
<1>9. ASSUME NEW p \in Requests, UpdateDocument(p) PROVE TypeOK'
  <2>1. req[p] \in Writing
    BY <1>9, Shapes DEF UpdateDocument
  <2>2. Updated(req[p]) \in DocRows
    BY <2>1, FileUrlType, RuleStatusType, ConstantsAssumption
    DEF Updated, DocRows
  <2> QED BY <1>9, <2>2 DEF UpdateDocument, TypeOK
<1>10. ASSUME NEW p \in Requests, Fail(p) PROVE TypeOK'
  BY <1>10 DEF Fail, TypeOK
<1>11. ASSUME NEW f \in Editable, UpsertField(f) PROVE TypeOK'
  <2>1. PICK now \in Readings(f) :
          facts' = (facts \ UNION Readings(f)) \cup now
    BY <1>11 DEF UpsertField
  <2>2. now \subseteq Facts
    BY ReadingsAreFacts, ConstantsAssumption
  <2> QED BY <1>11, <2>1, <2>2 DEF UpsertField, TypeOK
<1>12. ASSUME NEW d \in DocIds, MarkOut(d) PROVE TypeOK'
  <2>1. [docs[d] EXCEPT !.status = "out"] \in DocRows
    BY ConstantsAssumption DEF TypeOK, DocRows, Absent
  <2> QED BY <1>12, <2>1 DEF MarkOut, TypeOK
<1>13. CASE UNCHANGED vars
  BY <1>13 DEF vars, TypeOK
<1> QED BY <1>1, <1>2, <1>3, <1>4, <1>5, <1>6, <1>7, <1>8, <1>9, <1>10,
           <1>11, <1>12, <1>13 DEF Next

\* Every variable of Documents keeps its type.
THEOREM TypeCorrect == Spec => []TypeOK
<1>1. Init => TypeOK
  BY ConstantsAssumption DEF Init, TypeOK, Facts
<1> QED BY <1>1, TypeStep, PTL DEF Spec

(***************************************************************************)
(* The history of a document, under any overlap of requests.               *)
(***************************************************************************)

\* The requests that work on a document: they have read its number.
OnDocument == { p \in Requests : req[p].pc \in {"read", "store", "row", "update"} }

\* What a request in a round knows of its document is true for ever: the
\* versions up to the number it read have rows, and so has, before the document
\* row is updated, the version it is making.
Grounded(r) ==
  /\ r.doc \in Rows
  /\ \A n \in 1 .. r.number : VersionsOf(r.doc, n) # {}
  /\ r.pc = "update" => VersionRow(r) \in versions

RoundsGrounded == \A p \in OnDocument : Grounded(req[p])

\* A version row belongs to a document and is named after its number, and so
\* is the file of a document.
RowsGrounded ==
  /\ \A v \in versions : v.doc \in Rows /\ v.url.number = v.number
  /\ \A d \in DocIds : docs[d].url.number = docs[d].current

HistoryInv == TypeOK /\ RoundsGrounded /\ RowsGrounded /\ HistoryDense
                /\ StatusHonest

\* Rows are never deleted, so a request that stays where it was stays grounded.
LEMMA RoundsStep ==
  ASSUME RoundsGrounded, Rows \subseteq Rows', versions \subseteq versions',
         \A q \in OnDocument' : req'[q] = req[q] \/ Grounded(req[q])'
  PROVE  RoundsGrounded'
<1> SUFFICES ASSUME NEW q \in OnDocument', req'[q] = req[q]
             PROVE  Grounded(req[q])'
  BY DEF RoundsGrounded
<1>1. Grounded(req[q])
  BY DEF RoundsGrounded, OnDocument
<1>2. \A n : VersionsOf(req[q].doc, n) # {} => (VersionsOf(req[q].doc, n) # {})'
  BY DEF VersionsOf
<1> QED BY <1>1, <1>2 DEF Grounded, VersionRow, FileUrl

\* A step that only moves requests.
LEMMA HistoryKept ==
  ASSUME HistoryInv, TypeOK', UNCHANGED <<type, docs, versions>>,
         \A q \in OnDocument' : req'[q] = req[q] \/ Grounded(req[q])'
  PROVE  HistoryInv'
<1>1. RowsGrounded' /\ HistoryDense'
  BY DEF HistoryInv, RowsGrounded, HistoryDense, Rows, VersionsOf
<1>2. StatusHonest'
  BY DEF HistoryInv, StatusHonest, VersionsOf, RuleStatus
<1>3. Rows' = Rows
  BY DEF Rows
<1>4. RoundsGrounded'
  BY <1>3, RoundsStep DEF HistoryInv
<1> QED BY <1>1, <1>2, <1>4 DEF HistoryInv

LEMMA HistoryStep == HistoryInv /\ [Next]_vars => HistoryInv'
<1> SUFFICES ASSUME HistoryInv, [Next]_vars PROVE HistoryInv'
  OBVIOUS
<1>0. TypeOK /\ TypeOK'
  BY TypeStep DEF HistoryInv
<1>1. ASSUME NEW p \in Requests, Generate(p) PROVE HistoryInv'
  <2>1. \A q \in OnDocument' : req'[q] = req[q]
    BY <1>0, <1>1 DEF Generate, TypeOK, OnDocument
  <2> QED BY <1>0, <1>1, <2>1, HistoryKept DEF Generate
<1>2. ASSUME NEW p \in Requests, NEW o \in Offers, Prepare(p, o)
      PROVE  HistoryInv'
  <2>1. \A q \in OnDocument' : req'[q] = req[q]
    BY <1>0, <1>2 DEF Prepare, TypeOK, OnDocument
  <2> QED BY <1>0, <1>2, <2>1, HistoryKept DEF Prepare
<1>3. ASSUME NEW p \in Requests, NEW d \in DocIds, Regenerate(p, d)
      PROVE  HistoryInv'
  <2>1. \A q \in OnDocument' : q # p => req'[q] = req[q]
    BY <1>0, <1>3 DEF Regenerate, TypeOK, OnDocument
  <2>2. req'[p] = [pc |-> "read", doc |-> d, number |-> docs[d].current]
    BY <1>0, <1>3 DEF Regenerate, TypeOK
  <2>3. Grounded(req[p])'
    BY <1>3, <2>2 DEF Regenerate, Grounded, Rows, VersionsOf, HistoryInv,
       HistoryDense
  <2> QED BY <1>0, <1>3, <2>1, <2>3, HistoryKept DEF Regenerate
<1>4. ASSUME NEW p \in Requests, ReadFields(p) PROVE HistoryInv'
  <2>1. \A q \in OnDocument' : q # p => req'[q] = req[q]
    BY <1>0, <1>4 DEF ReadFields, TypeOK, OnDocument
  <2>2. /\ req'[p].doc = req[p].doc /\ req'[p].number = req[p].number
        /\ req'[p].pc = "store"
    BY <1>0, <1>4 DEF ReadFields, TypeOK
  <2>3. Grounded(req[p])
    BY <1>4 DEF HistoryInv, RoundsGrounded, OnDocument, ReadFields
  <2>4. Grounded(req[p])'
    BY <1>4, <2>2, <2>3 DEF ReadFields, Grounded, Rows, VersionsOf
  <2> QED BY <1>0, <1>4, <2>1, <2>4, HistoryKept DEF ReadFields
<1>5. ASSUME NEW p \in Requests, Find(p) PROVE HistoryInv'
  <2>1. UNCHANGED <<type, docs, versions>>
    BY <1>5 DEF Find
  <2>2. CASE req' = [req EXCEPT ![p].pc = "create"]
    <3>1. req[p] \in Waiting
      BY <1>0, <1>5, Shapes DEF Find
    <3>2. req'[p].pc = "create"
      BY <1>0, <2>2, <3>1 DEF TypeOK, Waiting
    <3>3. \A q \in OnDocument' : req'[q] = req[q]
      BY <1>0, <2>2, <3>2 DEF TypeOK, OnDocument
    <3> QED BY <1>0, <2>1, <3>3, HistoryKept
  <2>3. ASSUME NEW d \in Rows, docs[d].current < MaxVersion,
               Begin(p, d, docs[d].current)
        PROVE  HistoryInv'
    <3>1. d \in DocIds /\ docs[d].current \in 0 .. MaxVersion - 1
      BY <1>0, <2>3, ConstantsAssumption DEF Rows, TypeOK, DocRows
    <3>2. /\ \A q \in Requests \ {p} : req'[q] = req[q]
          /\ req'[p].pc = "store"
          /\ req'[p].doc = d /\ req'[p].number = docs[d].current
      BY <1>0, <1>5, <2>3, <3>1, BeginEffect, Shapes DEF Find
    <3>3. Grounded(req[p])'
      BY <2>1, <3>1, <3>2 DEF Grounded, Rows, VersionsOf, HistoryInv, HistoryDense
    <3>4. \A q \in OnDocument' : req'[q] = req[q] \/ Grounded(req[q])'
      BY <3>2, <3>3 DEF OnDocument
    <3> QED BY <1>0, <2>1, <3>4, HistoryKept
  <2> QED BY <1>5, <2>2, <2>3 DEF Find
<1>6. ASSUME NEW p \in Requests, Create(p) PROVE HistoryInv'
  <2>1. PICK d \in DocIds \ Rows :
          docs' = [docs EXCEPT ![d] = NewDocument(req[p])] /\ Begin(p, d, 0)
    BY <1>6 DEF Create
  <2>2. 0 \in 0 .. MaxVersion - 1 /\ req[p] \in Waiting
    BY <1>0, <1>6, Shapes, ConstantsAssumption DEF Create
  <2>3. /\ \A q \in Requests \ {p} : req'[q] = req[q]
        /\ req'[p].pc = "store" /\ req'[p].doc = d /\ req'[p].number = 0
    BY <1>0, <2>1, <2>2, BeginEffect
  <2>4. /\ docs'[d] # Absent
        /\ docs'[d].current = 0 /\ docs'[d].url.number = 0
        /\ \A e \in DocIds \ {d} : docs'[e] = docs[e]
    BY <1>0, <2>1, RuleStatusType DEF TypeOK, NewDocument, Absent, NoUrl
  <2>5. UNCHANGED <<type, versions>>
    BY <1>6 DEF Create
  <2>6. d \in Rows' /\ Rows \subseteq Rows'
    BY <2>4 DEF Rows
  <2>7. RowsGrounded'
    <3>1. \A e \in DocIds : docs'[e].url.number = docs'[e].current
      BY <2>4 DEF HistoryInv, RowsGrounded
    <3> QED BY <2>5, <2>6, <3>1 DEF HistoryInv, RowsGrounded
  <2>8. HistoryDense'
    BY <2>4, <2>5 DEF HistoryInv, HistoryDense, VersionsOf
  <2>9. StatusHonest'
    BY <2>4, <2>5 DEF HistoryInv, StatusHonest, VersionsOf, RuleStatus
  <2>10. RoundsGrounded'
    <3>1. Grounded(req[p])'
      BY <2>3, <2>6 DEF Grounded
    <3>2. \A q \in OnDocument' : req'[q] = req[q] \/ Grounded(req[q])'
      BY <2>3, <3>1 DEF OnDocument
    <3> QED BY <2>5, <2>6, <3>2, RoundsStep DEF HistoryInv
  <2> QED BY <1>0, <2>7, <2>8, <2>9, <2>10 DEF HistoryInv
<1>7. ASSUME NEW p \in Requests, StoreFile(p) PROVE HistoryInv'
  <2>1. /\ \A q \in Requests \ {p} : req'[q] = req[q]
        /\ req'[p].pc = "row" /\ req'[p].doc = req[p].doc
        /\ req'[p].number = req[p].number
    BY <1>0, <1>7, Shapes, NextCallEffect DEF StoreFile
  <2>2. Grounded(req[p])
    BY <1>7 DEF HistoryInv, RoundsGrounded, OnDocument, StoreFile
  <2>3. Grounded(req[p])'
    BY <1>7, <2>1, <2>2 DEF StoreFile, Grounded, Rows, VersionsOf
  <2>4. \A q \in OnDocument' : req'[q] = req[q] \/ Grounded(req[q])'
    BY <2>1, <2>3 DEF OnDocument
  <2> QED BY <1>0, <1>7, <2>4, HistoryKept DEF StoreFile
<1>8. ASSUME NEW p \in Requests, AddVersion(p) PROVE HistoryInv'
  <2>0. PICK v : v = VersionRow(req[p])
    OBVIOUS
  <2>1. /\ \A q \in Requests \ {p} : req'[q] = req[q]
        /\ req'[p].pc = "update" /\ req'[p].doc = req[p].doc
        /\ req'[p].number = req[p].number
        /\ req'[p].origin = req[p].origin /\ req'[p].content = req[p].content
        /\ req[p] \in Writing
    BY <1>0, <1>8, Shapes, NextCallEffect DEF AddVersion
  <2>2. Grounded(req[p])
    BY <1>8 DEF HistoryInv, RoundsGrounded, OnDocument, AddVersion
  <2>3. /\ v.doc = req[p].doc /\ v.number = req[p].number + 1
        /\ v.url.number = v.number
    BY <2>0 DEF VersionRow, FileUrl
  <2>4. versions' = versions \cup {v} /\ UNCHANGED <<type, docs>>
    BY <1>8, <2>0 DEF AddVersion
  <2>5. Rows' = Rows
    BY <2>4 DEF Rows
  <2>6. \A d, n : VersionsOf(d, n) \subseteq VersionsOf(d, n)'
    BY <2>4 DEF VersionsOf
  <2>7. RowsGrounded'
    BY <2>2, <2>3, <2>4, <2>5 DEF HistoryInv, RowsGrounded, Grounded
  <2>8. HistoryDense'
    <3>1. ASSUME NEW n \in 1 .. v.number PROVE (VersionsOf(v.doc, n) # {})'
      <4>1. CASE n = v.number
        BY <2>4, <4>1 DEF VersionsOf
      <4>2. CASE n # v.number
        <5>1. n \in 1 .. req[p].number
          BY <2>1, <2>3, <4>2 DEF Writing
        <5> QED BY <2>2, <2>3, <2>6, <5>1 DEF Grounded
      <4> QED BY <4>1, <4>2
    <3>2. ASSUME NEW w \in versions, NEW n \in 1 .. w.number
          PROVE  (VersionsOf(w.doc, n) # {})'
      BY <2>6, <3>2 DEF HistoryInv, HistoryDense
    <3>3. ASSUME NEW d \in DocIds, NEW n \in 1 .. docs'[d].current
          PROVE  (VersionsOf(d, n) # {})'
      BY <2>4, <2>6, <3>3 DEF HistoryInv, HistoryDense
    <3> QED BY <2>4, <3>1, <3>2, <3>3 DEF HistoryDense
  <2>9. StatusHonest'
    BY <2>4, <2>6 DEF HistoryInv, StatusHonest, RuleStatus
  <2>10. RoundsGrounded'
    <3>1. v = VersionRow(req[p])'
      BY <2>0, <2>1 DEF VersionRow, FileUrl
    <3>2. Grounded(req[p])'
      BY <2>1, <2>2, <2>4, <2>5, <2>6, <3>1 DEF Grounded
    <3>3. \A q \in OnDocument' : req'[q] = req[q] \/ Grounded(req[q])'
      BY <2>1, <3>2 DEF OnDocument
    <3> QED BY <2>4, <2>5, <3>3, RoundsStep DEF HistoryInv
  <2> QED BY <1>0, <2>7, <2>8, <2>9, <2>10 DEF HistoryInv
<1>9. ASSUME NEW p \in Requests, UpdateDocument(p) PROVE HistoryInv'
  <2> DEFINE r == req[p]
             v == VersionRow(r)
  <2>1. r \in Writing /\ r.doc \in DocIds
    BY <1>0, <1>9, Shapes DEF UpdateDocument, Writing
  <2>2. v \in versions
    BY <1>9 DEF HistoryInv, RoundsGrounded, OnDocument, UpdateDocument, Grounded
  <2>3. /\ v.doc = r.doc /\ v.number = r.number + 1 /\ v.url = FileUrl(r)
        /\ v.content = r.content /\ v.url.origin = r.origin
        /\ FileUrl(r).number = r.number + 1
    BY DEF VersionRow, FileUrl
  <2>4. /\ docs'[r.doc] = Updated(r)
        /\ \A d \in DocIds \ {r.doc} : docs'[d] = docs[d]
        /\ UNCHANGED <<type, versions>>
    BY <1>0, <1>9, <2>1 DEF UpdateDocument, TypeOK
  <2>5. \A q \in OnDocument' : req'[q] = req[q]
    BY <1>0, <1>9 DEF UpdateDocument, TypeOK, OnDocument, Idle
  <2>6. /\ Updated(r).current = r.number + 1 /\ Updated(r).url = FileUrl(r)
        /\ Updated(r).status = RuleStatus(r.origin, r.content)
        /\ Updated(r) # Absent
    BY RuleStatusType DEF Updated, Absent
  <2> HIDE DEF r, v
  <2>7. Rows \subseteq Rows'
    BY <2>1, <2>4, <2>6 DEF Rows
  <2>8. \A d, n : VersionsOf(d, n)' = VersionsOf(d, n)
    BY <2>4 DEF VersionsOf
  <2>9. RowsGrounded'
    BY <2>3, <2>4, <2>6, <2>7 DEF HistoryInv, RowsGrounded
  <2>10. HistoryDense'
    <3>1. \A n \in 1 .. docs'[r.doc].current : VersionsOf(r.doc, n) # {}
      BY <2>2, <2>3, <2>4, <2>6 DEF HistoryInv, HistoryDense
    <3>2. \A d \in DocIds \ {r.doc} : \A n \in 1 .. docs'[d].current :
            VersionsOf(d, n) # {}
      BY <2>4 DEF HistoryInv, HistoryDense
    <3>3. \A w \in versions : \A n \in 1 .. w.number : VersionsOf(w.doc, n) # {}
      BY DEF HistoryInv, HistoryDense
    <3> QED BY <2>4, <2>8, <3>1, <3>2, <3>3 DEF HistoryDense
  <2>11. StatusHonest'
    <3>1. v \in VersionsOf(r.doc, docs'[r.doc].current)
      BY <2>2, <2>3, <2>4, <2>6 DEF VersionsOf
    <3>2. /\ v.url = docs'[r.doc].url
          /\ docs'[r.doc].status = RuleStatus(v.url.origin, v.content)
      BY <2>3, <2>4, <2>6
    <3>3. \A o, c : RuleStatus(o, c)' = RuleStatus(o, c)
      BY <2>4 DEF RuleStatus
    <3> QED BY <2>4, <2>8, <3>1, <3>2, <3>3 DEF HistoryInv, StatusHonest
  <2>12. RoundsGrounded'
    BY <2>4, <2>5, <2>7, RoundsStep DEF HistoryInv
  <2> QED BY <1>0, <2>9, <2>10, <2>11, <2>12 DEF HistoryInv
<1>10. ASSUME NEW p \in Requests, Fail(p) PROVE HistoryInv'
  <2>1. \A q \in OnDocument' : req'[q] = req[q]
    BY <1>0, <1>10 DEF Fail, TypeOK, OnDocument, Idle
  <2> QED BY <1>0, <1>10, <2>1, HistoryKept DEF Fail
<1>11. ASSUME NEW f \in Editable, UpsertField(f) PROVE HistoryInv'
  BY <1>0, <1>11, HistoryKept DEF UpsertField
<1>12. ASSUME NEW d \in DocIds, MarkOut(d) PROVE HistoryInv'
  <2>1. d \in Rows
    BY <1>12 DEF MarkOut, HistoryInv, RowsGrounded
  <2>2. /\ docs'[d].status = "out" /\ docs'[d].current = docs[d].current
        /\ docs'[d].url = docs[d].url
        /\ \A e \in DocIds \ {d} : docs'[e] = docs[e]
    BY <1>0, <1>12 DEF MarkOut, TypeOK, DocRows, Absent
  <2>3. UNCHANGED <<type, versions, req>>
    BY <1>12 DEF MarkOut
  <2>4. Rows \subseteq Rows'
    BY <2>2 DEF Rows, Absent
  <2>5. RowsGrounded' /\ HistoryDense'
    BY <2>2, <2>3, <2>4 DEF HistoryInv, RowsGrounded, HistoryDense, VersionsOf
  <2>6. StatusHonest'
    BY <2>2, <2>3 DEF HistoryInv, StatusHonest, VersionsOf, RuleStatus
  <2>7. RoundsGrounded'
    BY <2>3, <2>4, RoundsStep DEF HistoryInv
  <2> QED BY <1>0, <2>5, <2>6, <2>7 DEF HistoryInv
<1>13. CASE UNCHANGED vars
  BY <1>0, <1>13, HistoryKept DEF vars
<1> QED BY <1>1, <1>2, <1>3, <1>4, <1>5, <1>6, <1>7, <1>8, <1>9, <1>10,
           <1>11, <1>12, <1>13 DEF Next

LEMMA InitHistory == Init => HistoryInv
<1> SUFFICES ASSUME Init PROVE HistoryInv
  OBVIOUS
<1>1. TypeOK
  BY ConstantsAssumption DEF Init, TypeOK, Facts
<1>2. \A d \in DocIds : docs[d].current = 0 /\ docs[d].url.number = 0
  BY DEF Init, Absent, NoUrl
<1>3. versions = {} /\ OnDocument = {}
  BY DEF Init, OnDocument, Idle
<1>4. RowsGrounded /\ HistoryDense /\ StatusHonest
  BY <1>2, <1>3 DEF RowsGrounded, HistoryDense, StatusHonest
<1>5. RoundsGrounded
  BY <1>3 DEF RoundsGrounded
<1> QED BY <1>1, <1>4, <1>5 DEF HistoryInv

LEMMA HistoryAlways == Spec => []HistoryInv
BY InitHistory, HistoryStep, PTL DEF Spec

\* No gap ever opens in the versions of a document (generateForDeal,
\* regenerateDocument, prepareAcceptancePackage), for any overlap of requests.
THEOREM HistoryStaysDense == Spec => []HistoryDense
<1>1. HistoryInv => HistoryDense
  BY DEF HistoryInv
<1> QED BY <1>1, HistoryAlways, PTL

\* The status of a generated document is never better or worse than the fields
\* of a row of its current version, for any overlap of requests.
THEOREM StatusStaysHonest == Spec => []StatusHonest
<1>1. HistoryInv => StatusHonest
  BY DEF HistoryInv
<1> QED BY <1>1, HistoryAlways, PTL

(***************************************************************************)
(* The files, while requests do not meet in a round.                       *)
(***************************************************************************)

OneRound == \A p, q \in InRound : p = q
OneRow == \A d, e \in Rows : d = e

\* Who is about to create the document is still right that there is none.
FirstIsFirst == \A p \in Requests : req[p].pc = "create" => Rows = {}

\* The number a request read is still the document's.
NumberCurrent ==
  \A p \in OnDocument : req[p].number = docs[req[p].doc].current

\* What a request stored is still there.
FileStored ==
  \A p \in Requests :
    req[p].pc \in {"row", "update"} => store[FileUrl(req[p])] = {req[p].content}

\* The file of a document holds what a row of its version records.
Pointed ==
  \A d \in Rows :
    docs[d].current > 0 =>
      \E v \in VersionsOf(d, docs[d].current) :
        v.url = docs[d].url /\ store[v.url] = {v.content}

Solo == /\ OneRound /\ OneRow /\ FirstIsFirst
        /\ NumberCurrent /\ FileStored /\ Pointed

FilesInv == HistoryInv /\ (~ contended => Solo)

\* A step that leaves rows and files alone and takes requests out of their
\* rounds, or none.
LEMMA SoloKept ==
  ASSUME Solo, UNCHANGED <<docs, versions, store>>,
         \A q \in InRound' : q \in InRound /\ req'[q] = req[q]
  PROVE  Solo'
<1>1. Rows' = Rows /\ \A d, n : VersionsOf(d, n)' = VersionsOf(d, n)
  BY DEF Rows, VersionsOf
<1>2. OneRound' /\ OneRow'
  BY <1>1 DEF Solo, OneRound, OneRow
<1>3. FirstIsFirst'
  BY <1>1 DEF Solo, FirstIsFirst, InRound
<1>4. NumberCurrent' /\ FileStored'
  BY <1>1 DEF Solo, NumberCurrent, FileStored, OnDocument, InRound, FileUrl
<1>5. Pointed'
  BY <1>1 DEF Solo, Pointed
<1> QED BY <1>2, <1>3, <1>4, <1>5 DEF Solo

\* A step of the only request in a round that leaves rows and files alone.
LEMMA SoloMoves ==
  ASSUME Solo, UNCHANGED <<docs, versions, store>>, NEW p \in Requests,
         InRound' \subseteq {p},
         req'[p].pc \in {"read", "store", "create"},
         req'[p].pc = "create" => Rows = {},
         req'[p].pc # "create" => req'[p].number = docs[req'[p].doc].current
  PROVE  Solo'
<1>1. Rows' = Rows /\ \A d, n : VersionsOf(d, n)' = VersionsOf(d, n)
  BY DEF Rows, VersionsOf
<1>2. \A q \in Requests : q # p => req'[q].pc \in {"idle", "find"}
  BY DEF InRound
<1>3. OneRound' /\ OneRow'
  BY <1>1 DEF Solo, OneRound, OneRow
<1>4. FirstIsFirst' /\ NumberCurrent' /\ FileStored'
  BY <1>1, <1>2 DEF FirstIsFirst, NumberCurrent, FileStored, OnDocument
<1>5. Pointed'
  BY <1>1 DEF Solo, Pointed
<1> QED BY <1>3, <1>4, <1>5 DEF Solo

\* In a round on its own, a request is the only one before and after its step.
LEMMA StaysAlone ==
  ASSUME Solo, NEW p \in InRound, \A q \in Requests \ {p} : req'[q] = req[q]
  PROVE  InRound' \subseteq {p}
BY DEF Solo, OneRound, InRound

LEMMA FilesStep == FilesInv /\ [Next]_vars => FilesInv'
<1> SUFFICES ASSUME FilesInv, [Next]_vars, ~ contended' PROVE Solo'
  BY HistoryStep DEF FilesInv
<1>0. TypeOK /\ HistoryInv /\ TypeOK' /\ HistoryInv'
  BY HistoryStep DEF FilesInv, HistoryInv
<1>1. ASSUME NEW p \in Requests, Generate(p) PROVE Solo'
  <2>1. \A q \in InRound' : q \in InRound /\ req'[q] = req[q]
    BY <1>0, <1>1 DEF Generate, TypeOK, InRound
  <2> QED BY <1>1, <2>1, SoloKept DEF Generate, FilesInv
<1>2. ASSUME NEW p \in Requests, NEW o \in Offers, Prepare(p, o) PROVE Solo'
  <2>1. \A q \in InRound' : q \in InRound /\ req'[q] = req[q]
    BY <1>0, <1>2 DEF Prepare, TypeOK, InRound
  <2> QED BY <1>2, <2>1, SoloKept DEF Prepare, FilesInv
<1>3. ASSUME NEW p \in Requests, NEW d \in DocIds, Regenerate(p, d)
      PROVE  Solo'
  <2>1. InRound = {} /\ ~ contended
    BY <1>3 DEF Regenerate, Contend
  <2>2. /\ req'[p] = [pc |-> "read", doc |-> d, number |-> docs[d].current]
        /\ InRound' \subseteq {p}
    BY <1>0, <1>3, <2>1 DEF Regenerate, TypeOK, InRound
  <2> QED BY <1>3, <2>1, <2>2, SoloMoves DEF Regenerate, FilesInv
<1>4. ASSUME NEW p \in Requests, ReadFields(p) PROVE Solo'
  <2>1. Solo
    BY <1>4 DEF ReadFields, FilesInv
  <2>2. p \in InRound /\ p \in OnDocument
    BY <1>4 DEF ReadFields, InRound, OnDocument
  <2>3. /\ req'[p].doc = req[p].doc /\ req'[p].number = req[p].number
        /\ req'[p].pc = "store"
        /\ \A q \in Requests \ {p} : req'[q] = req[q]
    BY <1>0, <1>4 DEF ReadFields, TypeOK
  <2>4. req'[p].number = docs[req'[p].doc].current
    BY <2>1, <2>2, <2>3 DEF Solo, NumberCurrent
  <2>5. InRound' \subseteq {p}
    BY <2>1, <2>2, <2>3, StaysAlone
  <2> QED BY <1>4, <2>1, <2>3, <2>4, <2>5, SoloMoves DEF ReadFields
<1>5. ASSUME NEW p \in Requests, Find(p) PROVE Solo'
  <2>1. InRound = {} /\ Solo
    BY <1>5 DEF Find, Contend, FilesInv
  <2>2. req[p] \in Waiting
    BY <1>0, <1>5, Shapes DEF Find
  <2>3. CASE Rows = {} /\ req' = [req EXCEPT ![p].pc = "create"]
    <3>1. req'[p].pc = "create" /\ InRound' \subseteq {p}
      BY <1>0, <2>1, <2>2, <2>3 DEF TypeOK, Waiting, InRound
    <3> QED BY <1>5, <2>1, <2>3, <3>1, SoloMoves DEF Find
  <2>4. ASSUME NEW d \in Rows, docs[d].current < MaxVersion,
               Begin(p, d, docs[d].current)
        PROVE  Solo'
    <3>1. d \in DocIds /\ docs[d].current \in 0 .. MaxVersion - 1
      BY <1>0, <2>4, ConstantsAssumption DEF Rows, TypeOK, DocRows
    <3>2. /\ \A q \in Requests \ {p} : req'[q] = req[q]
          /\ req'[p].pc = "store"
          /\ req'[p].doc = d /\ req'[p].number = docs[d].current
      BY <1>0, <2>2, <2>4, <3>1, BeginEffect
    <3>3. InRound' \subseteq {p}
      BY <2>1, <3>2 DEF InRound
    <3> QED BY <1>5, <2>1, <3>2, <3>3, SoloMoves DEF Find
  <2> QED BY <1>5, <2>3, <2>4 DEF Find
<1>6. ASSUME NEW p \in Requests, Create(p) PROVE Solo'
  <2>1. Solo /\ p \in InRound /\ Rows = {}
    BY <1>6 DEF Create, FilesInv, InRound, Solo, FirstIsFirst
  <2>2. PICK d \in DocIds \ Rows :
          docs' = [docs EXCEPT ![d] = NewDocument(req[p])] /\ Begin(p, d, 0)
    BY <1>6 DEF Create
  <2>3. 0 \in 0 .. MaxVersion - 1 /\ req[p] \in Waiting
    BY <1>0, <1>6, Shapes, ConstantsAssumption DEF Create
  <2>4. /\ \A q \in Requests \ {p} : req'[q] = req[q]
        /\ req'[p].pc = "store" /\ req'[p].doc = d /\ req'[p].number = 0
    BY <1>0, <2>2, <2>3, BeginEffect
  <2>5. /\ docs'[d].current = 0
        /\ \A e \in DocIds \ {d} : docs'[e] = docs[e]
    BY <1>0, <2>2 DEF TypeOK, NewDocument
  <2>6. Rows' \subseteq {d}
    BY <2>1, <2>5 DEF Rows
  <2>7. InRound' \subseteq {p}
    BY <2>1, <2>4, StaysAlone
  <2>8. \A q \in Requests : q # p => req'[q].pc \in {"idle", "find"}
    BY <2>7 DEF InRound
  <2>9. OneRound' /\ OneRow'
    BY <2>6, <2>7 DEF OneRound, OneRow
  <2>10. FirstIsFirst' /\ FileStored'
    BY <2>4, <2>8 DEF FirstIsFirst, FileStored
  <2>11. NumberCurrent'
    BY <2>4, <2>5, <2>8 DEF NumberCurrent, OnDocument
  <2>12. Pointed'
    BY <2>5, <2>6 DEF Pointed
  <2> QED BY <2>9, <2>10, <2>11, <2>12 DEF Solo
<1>7. ASSUME NEW p \in Requests, StoreFile(p) PROVE Solo'
  <2>0. PICK r : r = req[p]
    OBVIOUS
  <2>1. Solo /\ p \in InRound /\ p \in OnDocument
    BY <1>7 DEF StoreFile, FilesInv, InRound, OnDocument
  <2>2. r \in Writing /\ FileUrl(r) \in Urls
    BY <1>0, <1>7, <2>0, Shapes, FileUrlType DEF StoreFile
  <2>3. /\ \A q \in Requests \ {p} : req'[q] = req[q]
        /\ req'[p].pc = "row" /\ req'[p].doc = r.doc
        /\ req'[p].number = r.number /\ req'[p].origin = r.origin
        /\ req'[p].content = r.content
    BY <1>0, <1>7, <2>0, <2>2, NextCallEffect DEF StoreFile
  <2>4. /\ store'[FileUrl(r)] = {r.content}
        /\ \A u \in Urls : u # FileUrl(r) => store'[u] = store[u]
        /\ UNCHANGED <<docs, versions>>
    BY <1>0, <1>7, <2>0, <2>2 DEF StoreFile, TypeOK
  <2>5. Rows' = Rows /\ \A d, n : VersionsOf(d, n)' = VersionsOf(d, n)
    BY <2>4 DEF Rows, VersionsOf
  <2>6. InRound' \subseteq {p}
    BY <2>1, <2>3, StaysAlone
  <2>7. \A q \in Requests : q # p => req'[q].pc \in {"idle", "find"}
    BY <2>6 DEF InRound
  <2>8. r.doc \in Rows /\ r.number = docs[r.doc].current
    BY <1>0, <2>0, <2>1 DEF HistoryInv, RoundsGrounded, Grounded, Solo,
       NumberCurrent
  <2>9. OneRound' /\ OneRow' /\ FirstIsFirst'
    BY <2>1, <2>3, <2>5, <2>6, <2>7 DEF Solo, OneRound, OneRow, FirstIsFirst
  <2>10. NumberCurrent'
    BY <2>3, <2>4, <2>7, <2>8 DEF NumberCurrent, OnDocument
  <2>11. FileStored'
    BY <2>3, <2>4, <2>7 DEF FileStored, FileUrl
  <2>12. Pointed'
    <3> SUFFICES ASSUME NEW d \in Rows, docs[d].current > 0
                 PROVE  \E v \in VersionsOf(d, docs[d].current) :
                          v.url = docs[d].url /\ store'[v.url] = {v.content}
      BY <2>4, <2>5 DEF Pointed
    <3>1. d = r.doc
      BY <2>1, <2>8 DEF Solo, OneRow
    <3>2. PICK v \in VersionsOf(d, docs[d].current) :
            v.url = docs[d].url /\ store[v.url] = {v.content}
      BY <2>1 DEF Solo, Pointed
    <3>3. v.url \in Urls /\ v.url.number = v.number
      BY <1>0 DEF VersionsOf, TypeOK, VersionRows, HistoryInv, RowsGrounded
    <3>4. v.url # FileUrl(r)
      BY <2>2, <2>8, <3>1, <3>3 DEF VersionsOf, FileUrl, Writing
    <3> QED BY <2>4, <3>2, <3>3, <3>4
  <2> QED BY <2>9, <2>10, <2>11, <2>12 DEF Solo
<1>8. ASSUME NEW p \in Requests, AddVersion(p) PROVE Solo'
  <2>1. Solo /\ p \in InRound /\ p \in OnDocument
    BY <1>8 DEF AddVersion, FilesInv, InRound, OnDocument
  <2>2. /\ \A q \in Requests \ {p} : req'[q] = req[q]
        /\ req'[p].pc = "update" /\ req'[p].doc = req[p].doc
        /\ req'[p].number = req[p].number
        /\ req'[p].origin = req[p].origin /\ req'[p].content = req[p].content
    BY <1>0, <1>8, Shapes, NextCallEffect DEF AddVersion
  <2>3. UNCHANGED <<docs, store>> /\ versions \subseteq versions'
    BY <1>8 DEF AddVersion
  <2>4. Rows' = Rows
    BY <2>3 DEF Rows
  <2>5. InRound' \subseteq {p}
    BY <2>1, <2>2, StaysAlone
  <2>6. \A q \in Requests : q # p => req'[q].pc \in {"idle", "find"}
    BY <2>5 DEF InRound
  <2>7. OneRound' /\ OneRow' /\ FirstIsFirst'
    BY <2>1, <2>2, <2>4, <2>5, <2>6 DEF Solo, OneRound, OneRow, FirstIsFirst
  <2>8. NumberCurrent'
    BY <2>1, <2>2, <2>3, <2>6 DEF Solo, NumberCurrent, OnDocument
  <2>9. store[FileUrl(req[p])] = {req[p].content}
    BY <1>8, <2>1 DEF AddVersion, Solo, FileStored
  <2>10. FileStored'
    BY <2>2, <2>3, <2>6, <2>9 DEF FileStored, FileUrl
  <2>11. Pointed'
    BY <2>1, <2>3, <2>4 DEF Solo, Pointed, VersionsOf
  <2> QED BY <2>7, <2>8, <2>10, <2>11 DEF Solo
<1>9. ASSUME NEW p \in Requests, UpdateDocument(p) PROVE Solo'
  <2>0. PICK r : r = req[p]
    OBVIOUS
  <2>1. Solo /\ p \in InRound /\ p \in OnDocument
    BY <1>9 DEF UpdateDocument, FilesInv, InRound, OnDocument
  <2>2. r.doc \in Rows /\ VersionRow(r) \in versions
    BY <1>0, <1>9, <2>0, <2>1
    DEF UpdateDocument, HistoryInv, RoundsGrounded, Grounded
  <2>3. /\ req'[p] = Idle
        /\ \A q \in Requests \ {p} : req'[q] = req[q]
        /\ docs'[r.doc] = Updated(r)
        /\ \A d \in DocIds \ {r.doc} : docs'[d] = docs[d]
        /\ UNCHANGED <<versions, store>>
    BY <1>0, <1>9, <2>0, <2>2 DEF UpdateDocument, TypeOK, Rows
  <2>4. InRound' = {}
    BY <2>1, <2>3, StaysAlone DEF InRound, Idle
  <2>5. Rows' = {r.doc}
    <3>1. Updated(r) # Absent
      BY RuleStatusType DEF Updated, Absent
    <3>2. Rows = {r.doc}
      BY <2>1, <2>2 DEF Solo, OneRow
    <3> QED BY <2>2, <2>3, <3>1, <3>2 DEF Rows
  <2>6. OneRound' /\ OneRow' /\ FirstIsFirst' /\ NumberCurrent' /\ FileStored'
    BY <2>4, <2>5 DEF OneRound, OneRow, FirstIsFirst, NumberCurrent,
       FileStored, OnDocument, InRound
  <2>7. Pointed'
    <3>1. store[FileUrl(r)] = {r.content}
      BY <1>9, <2>0, <2>1 DEF UpdateDocument, Solo, FileStored
    <3>2. /\ VersionRow(r) \in VersionsOf(r.doc, r.number + 1)'
          /\ VersionRow(r).url = FileUrl(r) /\ VersionRow(r).content = r.content
      BY <2>2, <2>3 DEF VersionsOf, VersionRow
    <3>3. docs'[r.doc].current = r.number + 1 /\ docs'[r.doc].url = FileUrl(r)
      BY <2>3 DEF Updated
    <3> QED BY <2>3, <2>5, <3>1, <3>2, <3>3 DEF Pointed
  <2> QED BY <2>6, <2>7 DEF Solo
<1>10. ASSUME NEW p \in Requests, Fail(p) PROVE Solo'
  <2>1. \A q \in InRound' : q \in InRound /\ req'[q] = req[q]
    BY <1>0, <1>10 DEF Fail, TypeOK, InRound, Idle
  <2> QED BY <1>10, <2>1, SoloKept DEF Fail, FilesInv
<1>11. ASSUME NEW f \in Editable, UpsertField(f) PROVE Solo'
  <2>1. \A q \in InRound' : q \in InRound /\ req'[q] = req[q]
    BY <1>11 DEF UpsertField, InRound
  <2> QED BY <1>11, <2>1, SoloKept DEF UpsertField, FilesInv
<1>12. ASSUME NEW d \in DocIds, MarkOut(d) PROVE Solo'
  <2>1. Solo /\ d \in Rows
    BY <1>0, <1>12 DEF MarkOut, FilesInv, HistoryInv, RowsGrounded
  <2>2. /\ docs'[d].status = "out" /\ docs'[d].current = docs[d].current
        /\ docs'[d].url = docs[d].url
        /\ \A e \in DocIds \ {d} : docs'[e] = docs[e]
    BY <1>0, <1>12 DEF MarkOut, TypeOK, DocRows, Absent
  <2>3. UNCHANGED <<versions, store, req>>
    BY <1>12 DEF MarkOut
  <2>4. Rows' = Rows
    BY <2>1, <2>2 DEF Rows, Absent
  <2>5. OneRound' /\ OneRow' /\ FirstIsFirst' /\ FileStored'
    BY <2>1, <2>3, <2>4 DEF Solo, OneRound, OneRow, FirstIsFirst, FileStored,
       InRound, FileUrl
  <2>6. NumberCurrent'
    <3>1. \A p \in OnDocument : req[p].doc \in DocIds
      BY <1>0 DEF HistoryInv, RoundsGrounded, Grounded, Rows
    <3> QED BY <2>1, <2>2, <2>3, <3>1 DEF Solo, NumberCurrent, OnDocument
  <2>7. Pointed'
    BY <2>1, <2>2, <2>3, <2>4 DEF Solo, Pointed, VersionsOf, Rows
  <2> QED BY <2>5, <2>6, <2>7 DEF Solo
<1>13. CASE UNCHANGED vars
  <2>1. \A q \in InRound' : q \in InRound /\ req'[q] = req[q]
    BY <1>13 DEF vars, InRound
  <2> QED BY <1>13, <2>1, SoloKept DEF vars, FilesInv
<1> QED BY <1>1, <1>2, <1>3, <1>4, <1>5, <1>6, <1>7, <1>8, <1>9, <1>10,
           <1>11, <1>12, <1>13 DEF Next

LEMMA FilesAlways == Spec => []FilesInv
<1>1. Init => HistoryInv
  BY InitHistory
<1>2. Init => Solo
  BY DEF Init, Solo, OneRound, OneRow, FirstIsFirst, NumberCurrent, FileStored,
     Pointed, Rows, InRound, OnDocument, Idle
<1> QED BY <1>1, <1>2, FilesStep, PTL DEF Spec, FilesInv

\* While no two requests meet in a round, the deal has one document of the type
\* and its file holds what its version row records, whichever requests died.
THEOREM FilesStayFaithful == Spec => []FileFaithful
<1>1. FilesInv => FileFaithful
  BY DEF FilesInv, FileFaithful, Solo, OneRow, Pointed
<1> QED BY <1>1, FilesAlways, PTL

\* While no two requests meet in a round, no published version is written over.
THEOREM PublishedStaysFixed == Spec => PublishedFixed
<1>1. FilesInv /\ [Next]_vars =>
        (~ contended' => \A v \in versions :
           v.number <= docs[v.doc].current => store'[v.url] = store[v.url])
  <2> SUFFICES ASSUME FilesInv, [Next]_vars, ~ contended', NEW v \in versions,
                      v.number <= docs[v.doc].current
               PROVE  store'[v.url] = store[v.url]
    OBVIOUS
  <2>1. CASE store' = store
    BY <2>1
  <2>2. ASSUME NEW p \in Requests, StoreFile(p)
        PROVE  store'[v.url] = store[v.url]
    <3>1. Solo /\ TypeOK /\ p \in OnDocument
      BY <2>2 DEF StoreFile, FilesInv, HistoryInv, OnDocument
    <3>2. req[p] \in Writing
      BY <2>2, <3>1, Shapes DEF StoreFile
    <3>3. req[p].doc \in Rows /\ req[p].number = docs[req[p].doc].current
      BY <3>1 DEF FilesInv, HistoryInv, RoundsGrounded, Grounded, Solo,
         NumberCurrent
    <3>4. v.doc \in Rows /\ v.url \in Urls /\ v.url.number = v.number
      BY <3>1 DEF FilesInv, HistoryInv, RowsGrounded, TypeOK, VersionRows
    <3>5. v.doc = req[p].doc
      BY <3>1, <3>3, <3>4 DEF Solo, OneRow
    <3>6. v.url # FileUrl(req[p])
      BY <3>1, <3>2, <3>3, <3>4, <3>5
      DEF FileUrl, Writing, TypeOK, VersionRows
    <3> QED BY <2>2, <3>1, <3>4, <3>6 DEF StoreFile, TypeOK
  <2> QED BY <2>1, <2>2 DEF Next, vars, Generate, Prepare, Regenerate,
        ReadFields, Find, Create, AddVersion, UpdateDocument, Fail,
        UpsertField, MarkOut
<1> QED BY <1>1, FilesAlways, PTL DEF Spec, PublishedFixed
=============================================================================
