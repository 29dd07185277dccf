----------------------------- MODULE Office_proofs -----------------------------
(***************************************************************************)
(* Theorems about the records of deals (Desk), templates (Templates) and   *)
(* accounts (Accounts), alone and side by side in Office, for any rows,    *)
(* people, providers, PDFs and requests.                                   *)
(***************************************************************************)
EXTENDS Office, FiniteSetTheorems, SequenceTheorems, TLAPS


(***************************************************************************)
(* What a request is made of at each of its steps.                         *)
(***************************************************************************)

Inserts == [pc : {"insert"}, todo : Seq(Kinds) \ {<<>>}]

Changing == [pc : {"read", "write", "tell"}, row : Rows, was : {Untold} \cup Status,
             status : Status, todo : Seq(Kinds)]

Syncing == [pc : {"connection", "event", "patch", "post", "link"}, user : Users,
            event : Rows, at : Providers, copy : {Unlinked} \cup Links]

RowsFit ==
  /\ record \in [Rows -> {Absent} \cup [kind : Kinds, status : Status]]
  /\ \A x \in Rows : record[x].kind \in {"event", "notice"} => record[x].status = "open"
  /\ told \in [Rows -> {Untold} \cup Status]
  /\ gaps \subseteq Rows /\ muddled \subseteq Rows

LinksFit ==
  /\ connected \subseteq Users \X Providers /\ strayed \subseteq Rows
  /\ copies \subseteq Links /\ IsFiniteSet(copies)
  /\ link \in [Rows -> {Unlinked} \cup copies]
  /\ \A x \in Rows : link[x] # Unlinked => link[x].event = x

\* The row of an update is there, and of a kind that is updated; a copy that is
\* to be patched or linked is there, and of its event.
CallsFit ==
  /\ calls \in [Calls -> {Idle} \cup Inserts \cup Changing \cup Syncing]
  /\ \A p \in Calls : calls[p].pc \in {"read", "write"} =>
       record[calls[p].row].kind \in {"task", "case"}
  /\ \A p \in Calls : calls[p].pc \in {"patch", "link"} =>
       calls[p].copy \in copies /\ calls[p].copy.event = calls[p].event

Shape == RowsFit /\ LinksFit /\ CallsFit

\* The step a request is at tells what it is made of.
LEMMA Steps ==
  ASSUME NEW p \in Calls, CallsFit
  PROVE  /\ calls[p].pc = "insert" => calls[p] \in Inserts
         /\ calls[p].pc \in {"read", "write", "tell"} => calls[p] \in Changing
         /\ calls[p].pc \in {"connection", "event", "patch", "post", "link"} =>
              calls[p] \in Syncing
         /\ calls[p] # Idle => calls[p] \in Inserts \cup Changing \cup Syncing
BY DEF CallsFit, Inserts, Changing, Syncing, Idle

\* The deadlines that an offer gives are finitely many.
LEMMA DatesFinite ==
  ASSUME NEW dates \in Extractions
  PROVE  IsFiniteSet(dates)
<1> DEFINE all == {"closing_date"} \cup {"option_deadline"}
                   \cup {"earnest_money_deadline"} \cup {"financing_deadline"}
                   \cup {"appraisal_deadline"}
<1>1. dates \in SUBSET all
  BY DEF Extractions, KeyDates
<1>2. IsFiniteSet(all)
  <2>1. IsFiniteSet({"closing_date"})
    BY FS_Singleton
  <2>2. \A S, y : IsFiniteSet(S) => IsFiniteSet(S \cup {y})
    BY FS_AddElement
  <2>3. IsFiniteSet({"closing_date"} \cup {"option_deadline"}
                      \cup {"earnest_money_deadline"})
    BY <2>1, <2>2
  <2> QED BY <2>2, <2>3
<1> QED BY <1>1, <1>2, FS_Subset

\* An extraction that finds something has something to insert.
LEMMA DatesTodo ==
  ASSUME NEW dates \in Extractions, dates # {}
  PROVE  [i \in 1..Cardinality(dates) |-> "event"] \in Seq(Kinds) \ {<<>>}
<1> DEFINE n == Cardinality(dates)
           s == [i \in 1..n |-> "event"]
<1>1. n \in Nat /\ n # 0
  BY DatesFinite, FS_CardinalityType, FS_EmptySet
<1> HIDE DEF n
<1>2. s \in Seq(Kinds) /\ Len(s) = n
  BY <1>1 DEF Kinds
<1>3. s # <<>>
  BY <1>1, <1>2
<1> QED BY <1>2, <1>3 DEF n

LEMMA ChecklistTodo ==
  [i \in 1..ChecklistItems |-> "task"] \in Seq(Kinds) \ {<<>>}
<1> DEFINE s == [i \in 1..ChecklistItems |-> "task"]
<1>1. s \in Seq(Kinds) /\ Len(s) = ChecklistItems
  BY DeskAssumption DEF Kinds
<1>2. s # <<>>
  BY <1>1, DeskAssumption
<1> QED BY <1>1, <1>2

\* The rest of a request that has inserted a row.
LEMMA GoesOn ==
  ASSUME NEW p \in Calls, NEW todo \in Seq(Kinds), CallsFit, GoOn(p, todo)
  PROVE  \E r \in {Idle} \cup Inserts : calls' = [calls EXCEPT ![p] = r]
BY DEF GoOn, Become, Inserts

LEMMA RestTodo ==
  ASSUME NEW p \in Calls, CallsFit, calls[p].pc = "insert"
  PROVE  Head(calls[p].todo) \in Kinds /\ Tail(calls[p].todo) \in Seq(Kinds)
BY Steps, HeadTailProperties DEF Inserts

\* A request that inserted a row of another kind than a task tells of it.
Telling(p, x, rest) ==
  [pc |-> "tell", row |-> x, was |-> Untold, status |-> "open", todo |-> rest]

LEMMA InsertCases ==
  ASSUME NEW p \in Calls, CallsFit, Insert(p)
  PROVE  \E x \in Rows, kind \in Kinds, r \in {Idle} \cup Inserts \cup Changing :
           /\ record[x] = Absent
           /\ record' = [record EXCEPT ![x] = [kind |-> kind, status |-> "open"]]
           /\ calls' = [calls EXCEPT ![p] = r]
           /\ \/ kind = "task" /\ r \in {Idle} \cup Inserts
              \/ /\ kind # "task" /\ r \in Changing
                 /\ r.pc = "tell" /\ r.row = x /\ r.was = Untold /\ r.status = "open"
<1>1. PICK x \in Rows :
        LET kind == Head(calls[p].todo)
            rest == Tail(calls[p].todo)
        IN
        /\ record[x] = Absent
        /\ record' = [record EXCEPT ![x] = [kind |-> kind, status |-> "open"]]
        /\ IF kind = "task" THEN GoOn(p, rest)
           ELSE Become(p, Telling(p, x, rest))
  BY DEF Insert, Telling
<1> DEFINE kind == Head(calls[p].todo)
           rest == Tail(calls[p].todo)
<1>2. kind \in Kinds /\ rest \in Seq(Kinds)
  BY RestTodo DEF Insert
<1> HIDE DEF kind, rest
<1>3. CASE kind = "task"
  <2>1. GoOn(p, rest)
    BY <1>1, <1>3 DEF kind, rest
  <2>2. PICK r \in {Idle} \cup Inserts : calls' = [calls EXCEPT ![p] = r]
    BY <1>2, <2>1, GoesOn
  <2>3. record' = [record EXCEPT ![x] = [kind |-> kind, status |-> "open"]]
    BY <1>1 DEF kind
  <2>4. record[x] = Absent /\ kind = "task" /\ kind \in Kinds
    BY <1>1, <1>2, <1>3
  <2> HIDE DEF kind
  <2> QED BY <2>2, <2>3, <2>4
<1>4. CASE kind # "task"
  <2>1. Telling(p, x, rest) \in Changing
    BY <1>2 DEF Telling, Changing, Status
  <2>2. PICK r \in Changing :
          /\ calls' = [calls EXCEPT ![p] = r]
          /\ r.pc = "tell" /\ r.row = x /\ r.was = Untold /\ r.status = "open"
    BY <1>1, <1>4, <2>1 DEF kind, rest, Become, Telling
  <2>3. record' = [record EXCEPT ![x] = [kind |-> kind, status |-> "open"]]
    BY <1>1 DEF kind
  <2>4. record[x] = Absent /\ kind # "task" /\ kind \in Kinds
    BY <1>1, <1>2, <1>4
  <2> QED BY <2>2, <2>3, <2>4
<1> QED BY <1>3, <1>4

(***************************************************************************)
(* Type correctness.                                                       *)
(***************************************************************************)

Doing == Inserts \cup Changing \cup Syncing

\* A request goes on with r, which fits the rows and the copies there are now.
LEMMA CallsKept ==
  ASSUME CallsFit, NEW p \in Calls, NEW r \in {Idle} \cup Doing,
         calls' = [calls EXCEPT ![p] = r],
         copies \subseteq copies',
         \A x \in Rows : record[x].kind \in {"task", "case"} => record'[x].kind = record[x].kind,
         r.pc \in {"read", "write"} => record'[r.row].kind \in {"task", "case"},
         r.pc \in {"patch", "link"} => r.copy \in copies' /\ r.copy.event = r.event
  PROVE  CallsFit'
<1>1. calls' \in [Calls -> {Idle} \cup Inserts \cup Changing \cup Syncing]
  BY DEF CallsFit, Doing
<1>2. ASSUME NEW q \in Calls, calls'[q].pc \in {"read", "write"}
      PROVE  record'[calls'[q].row].kind \in {"task", "case"}
  <2>1. CASE q = p
    BY <1>2, <2>1 DEF CallsFit
  <2>2. CASE q # p
    <3>1. calls'[q] = calls[q] /\ calls[q] \in Changing
      BY <1>2, <2>2, Steps DEF CallsFit
    <3> QED BY <1>2, <3>1 DEF CallsFit, Changing
  <2> QED BY <2>1, <2>2
<1>3. ASSUME NEW q \in Calls, calls'[q].pc \in {"patch", "link"}
      PROVE  calls'[q].copy \in copies' /\ calls'[q].copy.event = calls'[q].event
  <2>1. CASE q = p
    BY <1>3, <2>1 DEF CallsFit
  <2>2. CASE q # p
    BY <1>3, <2>2 DEF CallsFit
  <2> QED BY <2>1, <2>2
<1> QED BY <1>1, <1>2, <1>3, Zenon DEF CallsFit

\* A request goes on and touches no row and no copy.
LEMMA CallsOnly ==
  ASSUME Shape, NEW p \in Calls, NEW r \in {Idle} \cup Doing,
         calls' = [calls EXCEPT ![p] = r],
         UNCHANGED <<record, told, gaps, connected, link, copies>>,
         muddled' \subseteq Rows, strayed' \subseteq Rows,
         r.pc \in {"read", "write"} => record[r.row].kind \in {"task", "case"},
         r.pc \in {"patch", "link"} => r.copy \in copies /\ r.copy.event = r.event
  PROVE  Shape'
<1>1. CallsFit'
  BY CallsKept DEF Shape
<1>2. RowsFit' /\ LinksFit'
  BY DEF Shape, RowsFit, LinksFit
<1> QED BY <1>1, <1>2 DEF Shape

\* A request starts.
LEMMA StartsShape ==
  ASSUME Shape, NEW p \in Calls,
         \/ ActivateListingPrepChecklist(p)
         \/ \E kind \in Kinds : Create(p, kind)
         \/ \E dates \in Extractions : ExtractKeyDates(p, dates)
         \/ \E x \in Rows, s \in Status : Update(p, x, s)
         \/ \E u \in Users, x \in Rows, at \in Providers : Sync(p, u, x, at)
  PROVE  Shape'
<1> USE DEF Become, rowVars, syncVars
<1>1. ASSUME NEW todo \in Seq(Kinds) \ {<<>>},
             Become(p, [pc |-> "insert", todo |-> todo]), UNCHANGED <<rowVars, syncVars>>
      PROVE  Shape'
  <2>1. [pc |-> "insert", todo |-> todo] \in {Idle} \cup Doing
    BY DEF Doing, Inserts
  <2>2. muddled \subseteq Rows /\ strayed \subseteq Rows
    BY DEF Shape, RowsFit, LinksFit
  <2> QED BY <1>1, <2>1, <2>2, CallsOnly
<1>2. CASE ActivateListingPrepChecklist(p)
  BY <1>1, <1>2, ChecklistTodo DEF ActivateListingPrepChecklist
<1>3. CASE \E kind \in Kinds : Create(p, kind)
  <2>1. PICK kind \in Kinds : Create(p, kind)
    BY <1>3
  <2>2. <<kind>> \in Seq(Kinds) \ {<<>>}
    BY <2>1
  <2> QED BY <1>1, <2>1, <2>2 DEF Create
<1>4. CASE \E dates \in Extractions : ExtractKeyDates(p, dates)
  BY <1>1, <1>4, DatesTodo DEF ExtractKeyDates
<1>5. CASE \E x \in Rows, s \in Status : Update(p, x, s)
  <2>1. PICK x \in Rows, s \in Status : Update(p, x, s)
    BY <1>5
  <2> DEFINE r == [pc |-> "read", row |-> x, was |-> Untold, status |-> s, todo |-> <<>>]
  <2>2. r \in {Idle} \cup Doing
    BY DEF Doing, Changing
  <2>3. muddled' \subseteq Rows /\ strayed' \subseteq Rows
    BY <2>1 DEF Update, Shape, RowsFit, LinksFit
  <2>4. r.pc = "read" /\ r.row = x
    OBVIOUS
  <2>5. calls' = [calls EXCEPT ![p] = r] /\ record[x].kind \in {"task", "case"}
        /\ UNCHANGED <<record, told, gaps, connected, link, copies>>
    BY <2>1 DEF Update
  <2> HIDE DEF r
  <2> QED BY <2>2, <2>3, <2>4, <2>5, CallsOnly
<1>6. CASE \E u \in Users, x \in Rows, at \in Providers : Sync(p, u, x, at)
  <2>1. PICK u \in Users, x \in Rows, at \in Providers : Sync(p, u, x, at)
    BY <1>6
  <2> DEFINE r == [pc |-> "connection", user |-> u, event |-> x, at |-> at,
                   copy |-> Unlinked]
  <2>2. r \in {Idle} \cup Doing
    BY DEF Doing, Syncing
  <2>3. muddled' \subseteq Rows /\ strayed' \subseteq Rows
    BY <2>1 DEF Sync, Shape, RowsFit, LinksFit
  <2>4. r.pc = "connection"
    OBVIOUS
  <2>5. calls' = [calls EXCEPT ![p] = r]
        /\ UNCHANGED <<record, told, gaps, connected, link, copies>>
    BY <2>1 DEF Sync
  <2> HIDE DEF r
  <2> QED BY <2>2, <2>3, <2>4, <2>5, CallsOnly
<1> QED BY <1>2, <1>3, <1>4, <1>5, <1>6

\* A row is inserted, updated or told of.
LEMMA RowsShape ==
  ASSUME Shape, NEW p \in Calls, Insert(p) \/ Read(p) \/ Write(p) \/ Tell(p)
  PROVE  Shape'
<1> USE DEF Become, Goto, rowVars, syncVars
<1>0. CallsFit /\ RowsFit /\ LinksFit /\ muddled \subseteq Rows /\ strayed \subseteq Rows
  BY DEF Shape, RowsFit, LinksFit
<1>1. CASE Insert(p)
  <2>1. PICK x \in Rows, kind \in Kinds, r \in {Idle} \cup Inserts \cup Changing :
           /\ record[x] = Absent
           /\ record' = [record EXCEPT ![x] = [kind |-> kind, status |-> "open"]]
           /\ calls' = [calls EXCEPT ![p] = r]
           /\ \/ kind = "task" /\ r \in {Idle} \cup Inserts
              \/ /\ kind # "task" /\ r \in Changing
                 /\ r.pc = "tell" /\ r.row = x /\ r.was = Untold /\ r.status = "open"
    BY <1>0, <1>1, InsertCases
  <2>2. UNCHANGED <<told, gaps, muddled, connected, link, copies, strayed>>
    BY <1>1 DEF Insert
  <2>3. r.pc \notin {"read", "write", "patch", "link"} /\ r \in {Idle} \cup Doing
    BY <2>1 DEF Idle, Inserts, Doing
  <2>4. \A y \in Rows : record[y].kind \in {"task", "case"} => record'[y].kind = record[y].kind
    BY <1>0, <2>1 DEF RowsFit, Absent
  <2>5. CallsFit'
    BY <1>0, <2>1, <2>2, <2>3, <2>4, CallsKept
  <2>6. RowsFit'
    BY <1>0, <2>1, <2>2 DEF RowsFit, Status
  <2>7. LinksFit'
    BY <1>0, <2>2 DEF LinksFit
  <2> QED BY <2>5, <2>6, <2>7 DEF Shape
<1>2. CASE Read(p)
  <2> DEFINE r == [calls[p] EXCEPT !.pc = "write", !.was = record[calls[p].row].status]
  <2>1. calls[p] \in Changing /\ calls[p].pc = "read"
    BY <1>0, <1>2, Steps DEF Read
  <2>2. record[calls[p].row].kind \in {"task", "case"}
    BY <1>0, <2>1 DEF CallsFit
  <2>3. record[calls[p].row].status \in Status
    BY <1>0, <2>1, <2>2 DEF RowsFit, Absent, Changing
  <2>4. r \in Doing /\ r.pc = "write" /\ r.row = calls[p].row
    BY <2>1, <2>3 DEF Doing, Changing
  <2>5. calls' = [calls EXCEPT ![p] = r]
        /\ UNCHANGED <<record, told, gaps, connected, link, copies, muddled, strayed>>
    BY <1>2 DEF Read
  <2> HIDE DEF r
  <2> QED BY <1>0, <2>2, <2>4, <2>5, CallsOnly
<1>3. CASE Write(p)
  <2> DEFINE r == [calls[p] EXCEPT !.pc = "tell"]
             x == calls[p].row
  <2>1. calls[p] \in Changing /\ calls[p].pc = "write"
    BY <1>0, <1>3, Steps DEF Write
  <2>2. x \in Rows /\ record[x].kind \in {"task", "case"} /\ calls[p].status \in Status
    BY <1>0, <2>1 DEF CallsFit, Changing
  <2>3. record[x] \in [kind : Kinds, status : Status]
    BY <1>0, <2>2 DEF RowsFit, Absent
  <2>4. r \in {Idle} \cup Doing /\ r.pc = "tell"
    BY <2>1 DEF Doing, Changing
  <2>5. /\ calls' = [calls EXCEPT ![p] = r]
        /\ record' = [record EXCEPT ![x].status = calls[p].status]
        /\ UNCHANGED <<told, gaps, connected, link, copies, muddled, strayed>>
    BY <1>3 DEF Write
  <2> HIDE DEF r, x
  <2>6. \A y \in Rows : record'[y].kind = record[y].kind
    BY <1>0, <2>2, <2>3, <2>5 DEF RowsFit
  <2>7. CallsFit'
    BY <1>0, <2>4, <2>5, <2>6, CallsKept
  <2>8. record' \in [Rows -> {Absent} \cup [kind : Kinds, status : Status]]
    BY <1>0, <2>2, <2>3, <2>5 DEF RowsFit
  <2>9. \A y \in Rows : record'[y].kind \in {"event", "notice"} => record'[y].status = "open"
    BY <1>0, <2>2, <2>3, <2>5, <2>6 DEF RowsFit
  <2>10. RowsFit' /\ LinksFit'
    BY <1>0, <2>5, <2>8, <2>9 DEF RowsFit, LinksFit
  <2> QED BY <2>7, <2>10 DEF Shape
<1>4. CASE Tell(p)
  <2>1. calls[p] \in Changing /\ calls[p].row \in Rows /\ calls[p].status \in Status
        /\ calls[p].todo \in Seq(Kinds)
    BY <1>0, <1>4, Steps DEF Tell, Changing
  <2>2. PICK r \in {Idle} \cup Inserts : calls' = [calls EXCEPT ![p] = r]
    BY <1>0, <1>4, <2>1, GoesOn DEF Tell
  <2>3. r.pc \notin {"read", "write", "patch", "link"} /\ r \in {Idle} \cup Doing
    BY <2>2 DEF Idle, Inserts, Doing
  <2>4. UNCHANGED <<record, muddled, connected, link, copies, strayed>>
    BY <1>4 DEF Tell
  <2>5. CallsFit'
    BY <1>0, <2>2, <2>3, <2>4, CallsKept
  <2>6. told' \in [Rows -> {Untold} \cup Status] /\ gaps' \subseteq Rows
    BY <1>0, <1>4, <2>1 DEF Tell, Told, RowsFit
  <2>7. RowsFit' /\ LinksFit'
    BY <1>0, <2>4, <2>6 DEF RowsFit, LinksFit
  <2> QED BY <2>5, <2>7 DEF Shape
<1> QED BY <1>1, <1>2, <1>3, <1>4

\* A step of a sync.
LEMMA SyncShape ==
  ASSUME Shape, NEW p \in Calls,
         FindConnection(p) \/ FindEvent(p) \/ Patch(p) \/ Post(p) \/ Link(p)
  PROVE  Shape'
<1> USE DEF Become, Goto, rowVars, syncVars
<1>0. CallsFit /\ RowsFit /\ LinksFit /\ muddled \subseteq Rows /\ strayed \subseteq Rows
  BY DEF Shape, RowsFit, LinksFit
<1>i. Idle \in {Idle} \cup Doing /\ Idle.pc = "idle"
  BY DEF Idle
<1>s. calls[p] \in Syncing
  BY <1>0, Steps DEF FindConnection, FindEvent, Patch, Post, Link
<1>1. CASE FindConnection(p)
  <2> DEFINE r == [calls[p] EXCEPT !.pc = "event"]
  <2>1. r \in Doing /\ r.pc = "event"
    BY <1>s DEF Doing, Syncing
  <2>2. calls' = [calls EXCEPT ![p] = r] \/ calls' = [calls EXCEPT ![p] = Idle]
    BY <1>1 DEF FindConnection
  <2>3. UNCHANGED <<record, told, gaps, connected, link, copies, muddled, strayed>>
    BY <1>1 DEF FindConnection
  <2> HIDE DEF r
  <2> QED BY <1>0, <1>i, <2>1, <2>2, <2>3, CallsOnly
<1>2. CASE FindEvent(p)
  <2>1. UNCHANGED <<record, told, gaps, connected, link, copies, muddled>>
    BY <1>2 DEF FindEvent
  <2>2. strayed' \subseteq Rows
    BY <1>0, <1>2, <1>s DEF FindEvent, Syncing
  <2>3. CASE Known(calls[p])
    <3> DEFINE r == [calls[p] EXCEPT !.pc = "patch", !.copy = link[calls[p].event]]
    <3>1. link[calls[p].event] \in copies /\ link[calls[p].event].event = calls[p].event
      BY <1>0, <1>s, <2>3 DEF Known, LinksFit, Syncing
    <3>2. r \in Doing /\ r.pc = "patch" /\ r.copy = link[calls[p].event]
          /\ r.event = calls[p].event
      BY <1>0, <1>s, <3>1 DEF Doing, Syncing, LinksFit
    <3>3. calls' = [calls EXCEPT ![p] = r]
      BY <1>2, <2>3 DEF FindEvent
    <3> HIDE DEF r
    <3> QED BY <1>0, <2>1, <2>2, <3>1, <3>2, <3>3, CallsOnly
  <2>4. CASE ~Known(calls[p])
    <3> DEFINE r == [calls[p] EXCEPT !.pc = "post"]
    <3>1. r \in Doing /\ r.pc = "post"
      BY <1>s DEF Doing, Syncing
    <3>2. calls' = [calls EXCEPT ![p] = r]
      BY <1>2, <2>4 DEF FindEvent
    <3> HIDE DEF r
    <3> QED BY <1>0, <2>1, <2>2, <3>1, <3>2, CallsOnly
  <2> QED BY <2>3, <2>4
<1>3. CASE Patch(p)
  <2> DEFINE r == [calls[p] EXCEPT !.pc = "link"]
  <2>1. r \in Doing /\ r.pc = "link" /\ r.copy = calls[p].copy /\ r.event = calls[p].event
    BY <1>s DEF Doing, Syncing
  <2>2. calls' = [calls EXCEPT ![p] = r] \/ calls' = [calls EXCEPT ![p] = Idle]
    BY <1>3 DEF Patch
  <2>3. UNCHANGED <<record, told, gaps, connected, link, copies, muddled, strayed>>
    BY <1>3 DEF Patch
  <2>4. calls[p].copy \in copies /\ calls[p].copy.event = calls[p].event
    BY <1>0, <1>3 DEF Patch, CallsFit
  <2> HIDE DEF r
  <2> QED BY <1>0, <1>i, <2>1, <2>2, <2>3, <2>4, CallsOnly
<1>4. CASE Post(p)
  <2> DEFINE n == Cardinality(Mine(calls[p])) + 1
             c == [at |-> calls[p].at, of |-> calls[p].user, event |-> calls[p].event,
                   nth |-> n]
             r == [calls[p] EXCEPT !.pc = "link", !.copy = c]
  <2>1. /\ n <= MaxCopies
        /\ copies' = copies \cup {c}
        /\ calls' = [calls EXCEPT ![p] = r]
        /\ UNCHANGED <<record, told, gaps, muddled, connected, link, strayed>>
    BY <1>4 DEF Post
  <2>2. n \in 1..MaxCopies
    <3>1. Mine(calls[p]) \in SUBSET copies
      BY DEF Mine
    <3>2. Cardinality(Mine(calls[p])) \in Nat
      BY <1>0, <3>1, FS_Subset, FS_CardinalityType DEF LinksFit
    <3> QED BY <2>1, <3>2, DeskAssumption
  <2> HIDE DEF n
  <2>3. c \in Links /\ c.event = calls[p].event
    BY <1>s, <2>2 DEF Links, Syncing
  <2> HIDE DEF c
  <2>4. r \in {Idle} \cup Doing /\ r.pc = "link" /\ r.copy = c /\ r.event = calls[p].event
    BY <1>s, <2>3 DEF Doing, Syncing
  <2> HIDE DEF r
  <2>5. CallsFit'
    BY <1>0, <2>1, <2>3, <2>4, CallsKept
  <2>6. IsFiniteSet(copies')
    BY <1>0, <2>1, FS_AddElement DEF LinksFit
  <2>7. RowsFit' /\ LinksFit'
    BY <1>0, <2>1, <2>3, <2>6 DEF RowsFit, LinksFit
  <2> QED BY <2>5, <2>7 DEF Shape
<1>5. CASE Link(p)
  <2>1. /\ link' = [link EXCEPT ![calls[p].event] = calls[p].copy]
        /\ calls' = [calls EXCEPT ![p] = Idle]
        /\ UNCHANGED <<record, told, gaps, muddled, connected, copies, strayed>>
    BY <1>5 DEF Link
  <2>2. calls[p].copy \in copies /\ calls[p].copy.event = calls[p].event
    BY <1>0, <1>5 DEF Link, CallsFit
  <2>3. CallsFit'
    BY <1>0, <1>i, <2>1, CallsKept
  <2>4. RowsFit' /\ LinksFit'
    BY <1>0, <1>s, <2>1, <2>2 DEF RowsFit, LinksFit, Syncing
  <2> QED BY <2>3, <2>4 DEF Shape
<1> QED BY <1>1, <1>2, <1>3, <1>4, <1>5

\* A step keeps what rows, copies and requests are made of.
LEMMA ShapeStep ==
  ASSUME Shape, [Next]_deskVars
  PROVE  Shape'
<1>1. ASSUME NEW p \in Calls, Fail(p) PROVE Shape'
  <2>1. Idle \in {Idle} \cup Doing /\ Idle.pc = "idle"
    BY DEF Idle
  <2>2. muddled' \subseteq Rows /\ strayed' \subseteq Rows
    <3>1. calls[p].pc = "tell" => calls[p].row \in Rows
      BY Steps DEF Shape, Changing
    <3>2. calls[p].pc = "link" => calls[p].event \in Rows
      BY Steps DEF Shape, Syncing
    <3> QED BY <1>1, <3>1, <3>2 DEF Fail, Shape, RowsFit, LinksFit
  <2>3. calls' = [calls EXCEPT ![p] = Idle]
        /\ UNCHANGED <<record, told, gaps, connected, link, copies>>
    BY <1>1 DEF Fail, Become
  <2> QED BY <2>1, <2>2, <2>3, CallsOnly
<1>2. ASSUME NEW u \in Users, NEW at \in Providers, ConnectProvider(u, at)
      PROVE  Shape'
  BY <1>2 DEF ConnectProvider, rowVars, Shape, RowsFit, LinksFit, CallsFit
<1>3. CASE UNCHANGED deskVars
  BY <1>3 DEF deskVars, Shape, RowsFit, LinksFit, CallsFit
<1> QED BY <1>1, <1>2, <1>3, StartsShape, RowsShape, SyncShape DEF Next

LEMMA ShapeInit == Init => Shape
BY FS_EmptySet DEF Init, Shape, RowsFit, LinksFit, CallsFit, Absent, Unlinked, Idle

LEMMA ShapeKept == Spec => []Shape
<1>1. Shape /\ [Next]_deskVars => Shape'
  BY ShapeStep
<1> QED BY <1>1, ShapeInit, PTL DEF Spec

\* Every variable of Desk keeps its type.
THEOREM TypeCorrect == Spec => []TypeOK
<1>1. Shape => TypeOK
  <2> SUFFICES ASSUME Shape PROVE TypeOK
    OBVIOUS
  <2>1. ASSUME NEW p \in Calls, calls[p] # Idle
        PROVE  calls[p].pc \in {"insert", "read", "write", "tell", "connection", "event",
                                "patch", "post", "link"}
    BY <2>1, Steps DEF Shape, Inserts, Changing, Syncing
  <2> QED BY <2>1 DEF Shape, RowsFit, LinksFit, TypeOK
<1> QED BY <1>1, ShapeKept, PTL

(***************************************************************************)
(* The audit trail follows its record.                                     *)
(***************************************************************************)

\* Request p is updating x, or telling of it.
At(p, x) == calls[p].pc \in {"read", "write", "tell"} /\ calls[p].row = x

\* The newest audit row tells what x is.
Settled(x) ==
  \/ told[x] = record[x].status
  \/ told[x] = Untold /\ record[x] = [kind |-> "task", status |-> "open"]

\* What the one update of x under way knows: before its write x is as told, and
\* what it read still holds; after it the trail is where it started from.
Knows(p, x) ==
  /\ calls[p].pc \in {"read", "write"} => Settled(x)
  /\ calls[p].pc = "write" => calls[p].was = record[x].status
  /\ calls[p].pc = "tell" => record[x].status = calls[p].status
                             /\ told[x] \in {Untold, calls[p].was}

Trail(x) ==
  /\ x \notin gaps
  /\ record[x] = Absent => told[x] = Untold /\ \A p \in Calls : ~At(p, x)
  /\ record[x] # Absent /\ (\A p \in Calls : ~At(p, x)) => Settled(x)
  /\ \A p, q \in Calls : At(p, x) /\ At(q, x) => p = q
  /\ \A p \in Calls : At(p, x) => Knows(p, x)

Trails == \A x \in Rows \ muddled : Trail(x)

\* Nothing of x changes, and no update of it goes on.
LEMMA TrailFrame ==
  ASSUME NEW x \in Rows, Trail(x),
         record'[x] = record[x], told'[x] = told[x], x \in gaps' => x \in gaps,
         \A q \in Calls : (At(q, x))' <=> At(q, x),
         \A q \in Calls : At(q, x) => calls'[q] = calls[q]
  PROVE  (Trail(x))'
<1>1. (Settled(x))' <=> Settled(x)
  BY DEF Settled
<1>2. \A q \in Calls : At(q, x) => ((Knows(q, x))' <=> Knows(q, x))
  BY <1>1 DEF Knows
<1> QED BY <1>1, <1>2 DEF Trail

\* One request moves between steps that do not touch x.
LEMMA TrailElsewhere ==
  ASSUME CallsFit, NEW x \in Rows, Trail(x), NEW p \in Calls, NEW r,
         calls' = [calls EXCEPT ![p] = r],
         record'[x] = record[x], told'[x] = told[x], x \in gaps' => x \in gaps,
         ~At(p, x), ~(r.pc \in {"read", "write", "tell"} /\ r.row = x)
  PROVE  (Trail(x))'
<1>1. \A q \in Calls : (At(q, x))' <=> At(q, x)
  BY DEF At, CallsFit
<1>2. \A q \in Calls : At(q, x) => calls'[q] = calls[q]
  BY DEF CallsFit
<1> QED BY <1>1, <1>2, TrailFrame

\* The one update of x moves to r.
LEMMA TrailHere ==
  ASSUME CallsFit, NEW x \in Rows, Trail(x), NEW p \in Calls, NEW r,
         calls' = [calls EXCEPT ![p] = r],
         record'[x] # Absent, x \notin gaps',
         \A q \in Calls \ {p} : ~At(q, x),
         \/ r.pc \in {"read", "write", "tell"} /\ r.row = x /\ (Knows(p, x))'
         \/ r.pc \notin {"read", "write", "tell"} /\ (Settled(x))'
  PROVE  (Trail(x))'
<1>1. calls'[p] = r /\ \A q \in Calls \ {p} : calls'[q] = calls[q]
  BY DEF CallsFit
<1>2. \A q \in Calls \ {p} : ~(At(q, x))'
  BY <1>1 DEF At
<1>3. CASE r.pc \in {"read", "write", "tell"} /\ r.row = x /\ (Knows(p, x))'
  <2>1. (At(p, x))'
    BY <1>1, <1>3 DEF At
  <2> QED BY <1>2, <1>3, <2>1 DEF Trail
<1>4. CASE r.pc \notin {"read", "write", "tell"} /\ (Settled(x))'
  <2>1. ~(At(p, x))'
    BY <1>1, <1>4 DEF At
  <2> QED BY <1>2, <1>4, <2>1 DEF Trail
<1> QED BY <1>3, <1>4

\* A request that starts.
LEMMA TrailStarts ==
  ASSUME Shape, Trails, NEW p \in Calls,
         \/ ActivateListingPrepChecklist(p)
         \/ \E kind \in Kinds : Create(p, kind)
         \/ \E dates \in Extractions : ExtractKeyDates(p, dates)
         \/ \E u \in Users, x \in Rows, at \in Providers : Sync(p, u, x, at)
         \/ \E y \in Rows, s \in Status : Update(p, y, s)
  PROVE  Trails'
<1> USE DEF Become, rowVars, syncVars
<1>0. CallsFit /\ Idle.pc = "idle"
  BY DEF Shape, Idle
<1>1. ASSUME NEW r, r.pc \notin {"read", "write", "tell"}, calls[p] = Idle,
             calls' = [calls EXCEPT ![p] = r], UNCHANGED rowVars
      PROVE  Trails'
  <2> SUFFICES ASSUME NEW x \in Rows \ muddled' PROVE (Trail(x))'
    BY DEF Trails
  <2>1. Trail(x)
    BY <1>1 DEF Trails
  <2>2. ~At(p, x)
    BY <1>0, <1>1 DEF At
  <2> QED BY <1>0, <1>1, <2>1, <2>2, TrailElsewhere
<1>2. CASE ActivateListingPrepChecklist(p)
  BY <1>1, <1>2 DEF ActivateListingPrepChecklist
<1>3. CASE \E kind \in Kinds : Create(p, kind)
  BY <1>1, <1>3 DEF Create
<1>4. CASE \E dates \in Extractions : ExtractKeyDates(p, dates)
  BY <1>1, <1>4 DEF ExtractKeyDates
<1>5. CASE \E u \in Users, x \in Rows, at \in Providers : Sync(p, u, x, at)
  BY <1>1, <1>5 DEF Sync
<1>6. CASE \E y \in Rows, s \in Status : Update(p, y, s)
  <2>1. PICK y \in Rows, s \in Status : Update(p, y, s)
    BY <1>6
  <2> DEFINE r == [pc |-> "read", row |-> y, was |-> Untold, status |-> s, todo |-> <<>>]
  <2>2. /\ calls[p] = Idle /\ calls' = [calls EXCEPT ![p] = r]
        /\ record[y].kind \in {"task", "case"}
        /\ UNCHANGED <<record, told, gaps>>
        /\ muddled' = IF Updates(y) # {} THEN muddled \cup {y} ELSE muddled
    BY <2>1 DEF Update
  <2>3. r.pc = "read" /\ r.row = y
    OBVIOUS
  <2> HIDE DEF r
  <2> SUFFICES ASSUME NEW x \in Rows \ muddled' PROVE (Trail(x))'
    BY DEF Trails
  <2>4. Trail(x) /\ ~At(p, x)
    BY <1>0, <2>2 DEF Trails, At
  <2>5. CASE x # y
    BY <1>0, <2>2, <2>3, <2>4, <2>5, TrailElsewhere
  <2>6. CASE x = y
    <3>1. \A q \in Calls : ~At(q, x)
      BY <2>2, <2>6 DEF Updates, At
    <3>2. record[x] # Absent
      BY <2>2, <2>6 DEF Absent
    <3>3. Settled(x) /\ x \notin gaps
      BY <2>4, <3>1, <3>2 DEF Trail
    <3>4. (Settled(x))'
      BY <2>2, <3>3 DEF Settled
    <3>5. (Knows(p, x))'
      BY <1>0, <2>2, <2>3, <3>4 DEF Knows, CallsFit
    <3> QED BY <1>0, <2>2, <2>3, <2>4, <2>6, <3>1, <3>2, <3>3, <3>5, TrailHere
  <2> QED BY <2>5, <2>6
<1> QED BY <1>2, <1>3, <1>4, <1>5, <1>6

\* A row is inserted, updated or told of.
LEMMA TrailRows ==
  ASSUME Shape, Trails, NEW p \in Calls, Insert(p) \/ Read(p) \/ Write(p) \/ Tell(p)
  PROVE  Trails'
<1> USE DEF Become, Goto, rowVars, syncVars
<1>0. CallsFit /\ RowsFit
  BY DEF Shape
<1> SUFFICES ASSUME NEW x \in Rows \ muddled' PROVE (Trail(x))'
  BY DEF Trails
<1>m. muddled' = muddled
  BY DEF Insert, Read, Write, Tell
<1>t. Trail(x)
  BY <1>m DEF Trails
<1>1. CASE Insert(p)
  <2>1. PICK y \in Rows, kind \in Kinds, r \in {Idle} \cup Inserts \cup Changing :
           /\ record[y] = Absent
           /\ record' = [record EXCEPT ![y] = [kind |-> kind, status |-> "open"]]
           /\ calls' = [calls EXCEPT ![p] = r]
           /\ \/ kind = "task" /\ r \in {Idle} \cup Inserts
              \/ /\ kind # "task" /\ r \in Changing
                 /\ r.pc = "tell" /\ r.row = y /\ r.was = Untold /\ r.status = "open"
    BY <1>0, <1>1, InsertCases
  <2>2. UNCHANGED <<told, gaps>> /\ calls[p].pc = "insert"
    BY <1>1 DEF Insert
  <2>3. ~At(p, x) /\ \A s \in {Idle} \cup Inserts : s.pc \notin {"read", "write", "tell"}
    BY <2>2 DEF At, Idle, Inserts
  <2>4. CASE x # y
    <3>1. record'[x] = record[x]
      BY <1>0, <2>1, <2>4 DEF RowsFit
    <3>2. ~(r.pc \in {"read", "write", "tell"} /\ r.row = x)
      BY <2>1, <2>3, <2>4
    <3> QED BY <1>0, <1>t, <2>1, <2>2, <2>3, <3>1, <3>2, TrailElsewhere
  <2>5. CASE x = y
    <3>1. told[x] = Untold /\ \A q \in Calls : ~At(q, x)
      BY <1>t, <2>1, <2>5 DEF Trail
    <3>2. record'[x] = [kind |-> kind, status |-> "open"]
      BY <1>0, <2>1, <2>5 DEF RowsFit
    <3>3. record'[x] # Absent /\ record'[x].status = "open"
      BY <3>2 DEF Absent
    <3>4. x \notin gaps' /\ told'[x] = Untold
      BY <1>t, <2>2, <3>1 DEF Trail
    <3>5. CASE kind = "task" /\ r \in {Idle} \cup Inserts
      <4>1. (Settled(x))'
        BY <3>2, <3>4, <3>5 DEF Settled
      <4> QED BY <1>0, <1>t, <2>1, <2>3, <3>1, <3>3, <3>4, <3>5, <4>1, TrailHere
    <3>6. CASE r.pc = "tell" /\ r.row = x /\ r.was = Untold /\ r.status = "open"
      <4>1. calls'[p] = r
        BY <1>0, <2>1 DEF CallsFit
      <4>2. (Knows(p, x))'
        BY <3>3, <3>4, <3>6, <4>1 DEF Knows
      <4> QED BY <1>0, <1>t, <2>1, <3>1, <3>3, <3>4, <3>6, <4>2, TrailHere
    <3> QED BY <2>1, <2>5, <3>5, <3>6
  <2> QED BY <2>4, <2>5
<1>c. ASSUME Read(p) \/ Write(p) \/ Tell(p)
      PROVE  /\ calls[p] \in Changing
             /\ At(p, x) <=> calls[p].row = x
             /\ calls[p].row # x => ~At(p, x)
  BY <1>0, <1>c, Steps DEF Read, Write, Tell, At
<1>h. ASSUME At(p, x)
      PROVE  /\ \A q \in Calls \ {p} : ~At(q, x)
             /\ record[x] # Absent /\ x \notin gaps /\ Knows(p, x)
  BY <1>h, <1>t DEF Trail
<1>2. CASE Read(p)
  <2> DEFINE r == [calls[p] EXCEPT !.pc = "write", !.was = record[calls[p].row].status]
  <2>1. /\ r.pc = "write" /\ r.row = calls[p].row
        /\ r.was = record[calls[p].row].status
    BY <1>2, <1>c DEF Changing
  <2>2. calls' = [calls EXCEPT ![p] = r] /\ UNCHANGED <<record, told, gaps>>
        /\ calls[p].pc = "read"
    BY <1>2 DEF Read
  <2> HIDE DEF r
  <2>3. CASE calls[p].row # x
    BY <1>0, <1>2, <1>c, <1>t, <2>1, <2>2, <2>3, TrailElsewhere
  <2>4. CASE calls[p].row = x
    <3>1. At(p, x)
      BY <1>2, <1>c, <2>4
    <3>2. (Settled(x))' /\ calls'[p] = r
      BY <1>0, <1>h, <2>2, <3>1 DEF Knows, Settled, CallsFit
    <3>3. (Knows(p, x))'
      BY <2>1, <2>2, <2>4, <3>2 DEF Knows
    <3> QED BY <1>0, <1>t, <1>h, <2>1, <2>2, <2>4, <3>1, <3>3, TrailHere
  <2> QED BY <2>3, <2>4
<1>3. CASE Write(p)
  <2> DEFINE r == [calls[p] EXCEPT !.pc = "tell"]
  <2>1. /\ r.pc = "tell" /\ r.row = calls[p].row /\ r.was = calls[p].was
        /\ r.status = calls[p].status /\ r.status \in Status /\ r.row \in Rows
    BY <1>3, <1>c DEF Changing
  <2>2. /\ calls' = [calls EXCEPT ![p] = r] /\ UNCHANGED <<told, gaps>>
        /\ calls[p].pc = "write"
        /\ record' = [record EXCEPT ![calls[p].row].status = calls[p].status]
    BY <1>3 DEF Write
  <2> HIDE DEF r
  <2>3. CASE calls[p].row # x
    <3>1. record'[x] = record[x]
      BY <1>0, <2>2, <2>3 DEF RowsFit
    <3> QED BY <1>0, <1>3, <1>c, <1>t, <2>1, <2>2, <2>3, <3>1, TrailElsewhere
  <2>4. CASE calls[p].row = x
    <3>1. At(p, x)
      BY <1>3, <1>c, <2>4
    <3>2. record[x] \in [kind : Kinds, status : Status] /\ calls'[p] = r
      BY <1>0, <1>h, <2>2, <3>1 DEF RowsFit, CallsFit
    <3>3. record'[x].status = r.status /\ record'[x].kind = record[x].kind
      BY <1>0, <2>1, <2>2, <2>4, <3>2 DEF RowsFit
    <3>4. record'[x] # Absent
      BY <3>2, <3>3 DEF Kinds, Absent
    <3>5. told[x] \in {Untold, calls[p].was}
      BY <1>h, <2>2, <3>1 DEF Knows, Settled
    <3>6. (Knows(p, x))'
      BY <2>1, <2>2, <3>2, <3>3, <3>5 DEF Knows
    <3> QED BY <1>0, <1>t, <1>h, <2>1, <2>2, <2>4, <3>1, <3>4, <3>6, TrailHere
  <2> QED BY <2>3, <2>4
<1>4. CASE Tell(p)
  <2>1. calls[p].todo \in Seq(Kinds) /\ calls[p].row \in Rows
    BY <1>4, <1>c DEF Changing
  <2>2. PICK r \in {Idle} \cup Inserts : calls' = [calls EXCEPT ![p] = r]
    BY <1>0, <1>4, <2>1, GoesOn DEF Tell
  <2>3. r.pc \notin {"read", "write", "tell"}
    BY <2>2 DEF Idle, Inserts
  <2>4. /\ told' = [told EXCEPT ![calls[p].row] = calls[p].status]
        /\ gaps' = IF told[calls[p].row] \in {Untold, calls[p].was} THEN gaps
                   ELSE gaps \cup {calls[p].row}
        /\ record' = record /\ calls[p].pc = "tell"
    BY <1>4 DEF Tell, Told
  <2>5. CASE calls[p].row # x
    <3>1. told'[x] = told[x] /\ (x \in gaps' => x \in gaps)
      BY <1>0, <2>4, <2>5 DEF RowsFit
    <3> QED BY <1>0, <1>4, <1>c, <1>t, <2>2, <2>3, <2>4, <2>5, <3>1, TrailElsewhere
  <2>6. CASE calls[p].row = x
    <3>1. At(p, x)
      BY <1>4, <1>c, <2>6
    <3>2. told'[x] = calls[p].status
      BY <1>0, <2>4, <2>6 DEF RowsFit
    <3>3. (Settled(x))' /\ x \notin gaps'
      BY <1>h, <2>4, <2>6, <3>1, <3>2 DEF Knows, Settled
    <3> QED BY <1>0, <1>t, <1>h, <2>2, <2>3, <2>4, <3>1, <3>3, TrailHere
  <2> QED BY <2>5, <2>6
<1> QED BY <1>1, <1>2, <1>3, <1>4

\* A sync, a connection or a failure.
LEMMA TrailOthers ==
  ASSUME Shape, Trails, NEW p \in Calls,
         FindConnection(p) \/ FindEvent(p) \/ Patch(p) \/ Post(p) \/ Link(p) \/ Fail(p)
  PROVE  Trails'
<1> USE DEF Become, Goto, rowVars, syncVars
<1>0. CallsFit /\ Idle.pc = "idle"
  BY DEF Shape, Idle
<1> SUFFICES ASSUME NEW x \in Rows \ muddled' PROVE (Trail(x))'
  BY DEF Trails
<1>1. CASE FindConnection(p) \/ FindEvent(p) \/ Patch(p) \/ Post(p) \/ Link(p)
  <2>1. calls[p] \in Syncing
    BY <1>0, <1>1, Steps DEF FindConnection, FindEvent, Patch, Post, Link
  <2>2. UNCHANGED <<record, told, gaps, muddled>>
    BY <1>1 DEF FindConnection, FindEvent, Patch, Post, Link
  <2>3. \E r : calls' = [calls EXCEPT ![p] = r] /\ r.pc \notin {"read", "write", "tell"}
    <3>1. CASE FindConnection(p)
      BY <1>0, <2>1, <3>1 DEF FindConnection, Syncing
    <3>2. CASE FindEvent(p)
      <4> DEFINE known == [calls[p] EXCEPT !.pc = "patch", !.copy = link[calls[p].event]]
                 new == [calls[p] EXCEPT !.pc = "post"]
      <4>1. known.pc = "patch" /\ new.pc = "post"
        BY <2>1 DEF Syncing
      <4>2. calls' = [calls EXCEPT ![p] = known] \/ calls' = [calls EXCEPT ![p] = new]
        BY <3>2 DEF FindEvent
      <4> HIDE DEF known, new
      <4> QED BY <4>1, <4>2
    <3>3. CASE Patch(p)
      BY <1>0, <2>1, <3>3 DEF Patch, Syncing
    <3>4. CASE Post(p)
      <4>1. PICK c : calls' = [calls EXCEPT ![p] = [calls[p] EXCEPT !.pc = "link", !.copy = c]]
        BY <3>4 DEF Post
      <4>2. [calls[p] EXCEPT !.pc = "link", !.copy = c].pc = "link"
        BY <2>1 DEF Syncing
      <4> QED BY <4>1, <4>2
    <3>5. CASE Link(p)
      BY <1>0, <3>5 DEF Link
    <3> QED BY <1>1, <3>1, <3>2, <3>3, <3>4, <3>5
  <2>4. PICK r : calls' = [calls EXCEPT ![p] = r] /\ r.pc \notin {"read", "write", "tell"}
    BY <2>3
  <2>5. Trail(x) /\ ~At(p, x)
    BY <2>1, <2>2 DEF Trails, At, Syncing
  <2> QED BY <1>0, <2>2, <2>4, <2>5, TrailElsewhere
<1>2. CASE Fail(p)
  <2>1. /\ calls' = [calls EXCEPT ![p] = Idle] /\ UNCHANGED <<record, told, gaps>>
        /\ muddled' = IF calls[p].pc = "tell" THEN muddled \cup {calls[p].row} ELSE muddled
    BY <1>2 DEF Fail
  <2>2. Trail(x)
    BY <2>1 DEF Trails
  <2>3. CASE ~At(p, x)
    BY <1>0, <2>1, <2>2, <2>3, TrailElsewhere
  <2>4. CASE At(p, x)
    <3>1. calls[p].pc \in {"read", "write"}
      BY <2>1, <2>4 DEF At
    <3>2. /\ \A q \in Calls \ {p} : ~At(q, x)
          /\ record[x] # Absent /\ x \notin gaps /\ Settled(x)
      BY <2>2, <2>4, <3>1 DEF Trail, Knows
    <3>3. (Settled(x))'
      BY <2>1, <3>2 DEF Settled
    <3> QED BY <1>0, <2>1, <2>2, <3>2, <3>3, TrailHere
  <2> QED BY <2>3, <2>4
<1> QED BY <1>1, <1>2

LEMMA TrailsStep ==
  ASSUME Shape, Trails, [Next]_deskVars
  PROVE  Trails'
<1>1. ASSUME UNCHANGED <<record, told, gaps, muddled, calls>> PROVE Trails'
  BY <1>1 DEF Trails, Trail, At, Settled, Knows
<1>2. ASSUME NEW u \in Users, NEW at \in Providers, ConnectProvider(u, at)
      PROVE  Trails'
  BY <1>1, <1>2 DEF ConnectProvider, rowVars
<1>3. CASE UNCHANGED deskVars
  BY <1>1, <1>3 DEF deskVars
<1> QED BY <1>2, <1>3, TrailStarts, TrailRows, TrailOthers DEF Next

\* The audit trail of every record follows it, for any number of rows and of
\* requests: two updates overlapped or one died before its audit row, or every row
\* starts from what the last one told and the newest tells what the record is.
THEOREM TrailsFollow == Spec => []ChangesTold
<1>1. Init => Trails
  BY DEF Init, Trails, Trail, At, Idle, Absent
<1>2. Trails => ChangesTold
  BY DEF Trails, Trail, ChangesTold, Updates, At, Settled
<1>3. Shape /\ Trails /\ [Next]_deskVars => Trails'
  BY TrailsStep
<1> QED BY <1>1, <1>2, <1>3, ShapeKept, PTL DEF Spec

(***************************************************************************)
(* One copy of an event.                                                   *)
(***************************************************************************)

\* Request p is syncing x.
On(p, x) ==
  calls[p].pc \in {"connection", "event", "patch", "post", "link"} /\ calls[p].event = x

\* The link knows every copy of x.
Linked(x) == \A c \in copies : c.event = x => c = link[x]

\* What the one sync of x under way knows: up to its patch the link knows every
\* copy, before a post there is none, and then there is the one about to be linked.
Finds(p, x) ==
  /\ calls[p].pc \in {"connection", "event", "patch"} => Linked(x)
  /\ calls[p].pc = "patch" => calls[p].copy = link[x]
  /\ calls[p].pc = "post" => \A c \in copies : c.event # x
  /\ calls[p].pc = "link" => \A c \in copies : c.event = x => c = calls[p].copy

Single(x) ==
  /\ \A c, d \in copies : c.event = x /\ d.event = x => c = d
  /\ (\A p \in Calls : ~On(p, x)) => Linked(x)
  /\ \A p, q \in Calls : On(p, x) /\ On(q, x) => p = q
  /\ \A p \in Calls : On(p, x) => Finds(p, x)

Singles == \A x \in Rows \ strayed : Single(x)

\* No copy nor link of x changes, and no sync of it goes on.
LEMMA SingleFrame ==
  ASSUME NEW x \in Rows, Single(x), link'[x] = link[x],
         \A c : c.event = x => (c \in copies' <=> c \in copies),
         \A q \in Calls : (On(q, x))' <=> On(q, x),
         \A q \in Calls : On(q, x) => calls'[q] = calls[q]
  PROVE  (Single(x))'
<1>1. (Linked(x))' <=> Linked(x)
  BY DEF Linked
<1>2. \A q \in Calls : On(q, x) => ((Finds(q, x))' <=> Finds(q, x))
  BY <1>1 DEF Finds
<1>3. \A c, d \in copies' : c.event = x /\ d.event = x => c = d
  BY DEF Single
<1> QED BY <1>1, <1>2, <1>3 DEF Single

\* One request moves between steps that do not touch x.
LEMMA SingleElsewhere ==
  ASSUME CallsFit, NEW x \in Rows, Single(x), NEW p \in Calls, NEW r,
         calls' = [calls EXCEPT ![p] = r], link'[x] = link[x],
         \A c : c.event = x => (c \in copies' <=> c \in copies),
         ~On(p, x),
         ~( /\ r.pc \in {"connection", "event", "patch", "post", "link"}
            /\ r.event = x )
  PROVE  (Single(x))'
<1>1. \A q \in Calls : (On(q, x))' <=> On(q, x)
  BY DEF On, CallsFit
<1>2. \A q \in Calls : On(q, x) => calls'[q] = calls[q]
  BY DEF CallsFit
<1> QED BY <1>1, <1>2, SingleFrame

\* The one sync of x moves to r.
LEMMA SingleHere ==
  ASSUME CallsFit, NEW x \in Rows, Single(x), NEW p \in Calls, NEW r,
         calls' = [calls EXCEPT ![p] = r],
         \A q \in Calls \ {p} : ~On(q, x),
         \A c, d \in copies' : c.event = x /\ d.event = x => c = d,
         \/ /\ r.pc \in {"connection", "event", "patch", "post", "link"}
            /\ r.event = x /\ (Finds(p, x))'
         \/ /\ r.pc \notin {"connection", "event", "patch", "post", "link"}
            /\ (Linked(x))'
  PROVE  (Single(x))'
<1>1. calls'[p] = r /\ \A q \in Calls \ {p} : calls'[q] = calls[q]
  BY DEF CallsFit
<1>2. \A q \in Calls \ {p} : ~(On(q, x))'
  BY <1>1 DEF On
<1>3. CASE /\ r.pc \in {"connection", "event", "patch", "post", "link"}
           /\ r.event = x /\ (Finds(p, x))'
  <2>1. (On(p, x))'
    BY <1>1, <1>3 DEF On
  <2> QED BY <1>2, <1>3, <2>1 DEF Single
<1>4. CASE /\ r.pc \notin {"connection", "event", "patch", "post", "link"}
           /\ (Linked(x))'
  <2>1. ~(On(p, x))'
    BY <1>1, <1>4 DEF On
  <2> QED BY <1>2, <1>4, <2>1 DEF Single
<1> QED BY <1>3, <1>4

\* Steps of requests that sync nothing.
LEMMA SingleOthers ==
  ASSUME Shape, Singles, NEW p \in Calls,
         \/ ActivateListingPrepChecklist(p)
         \/ \E kind \in Kinds : Create(p, kind)
         \/ \E dates \in Extractions : ExtractKeyDates(p, dates)
         \/ \E x \in Rows, s \in Status : Update(p, x, s)
         \/ Insert(p) \/ Read(p) \/ Write(p) \/ Tell(p)
  PROVE  Singles'
<1> USE DEF Become, Goto, rowVars, syncVars
<1> DEFINE steps == {"connection", "event", "patch", "post", "link"}
<1>0. CallsFit /\ Idle.pc = "idle"
  BY DEF Shape, Idle
<1>1. ASSUME NEW r, r.pc \notin steps, calls[p].pc \notin steps,
             calls' = [calls EXCEPT ![p] = r], UNCHANGED <<copies, link, strayed>>
      PROVE  Singles'
  <2> SUFFICES ASSUME NEW x \in Rows \ strayed' PROVE (Single(x))'
    BY DEF Singles
  <2>1. Single(x)
    BY <1>1 DEF Singles
  <2>2. ~On(p, x)
    BY <1>1 DEF On
  <2> QED BY <1>0, <1>1, <2>1, <2>2, SingleElsewhere
<1>2. CASE ActivateListingPrepChecklist(p)
  BY <1>0, <1>1, <1>2 DEF ActivateListingPrepChecklist
<1>3. CASE \E kind \in Kinds : Create(p, kind)
  BY <1>0, <1>1, <1>3 DEF Create
<1>4. CASE \E dates \in Extractions : ExtractKeyDates(p, dates)
  BY <1>0, <1>1, <1>4 DEF ExtractKeyDates
<1>5. CASE \E x \in Rows, s \in Status : Update(p, x, s)
  BY <1>0, <1>1, <1>5 DEF Update
<1>6. CASE Insert(p)
  <2>1. PICK r \in {Idle} \cup Inserts \cup Changing : calls' = [calls EXCEPT ![p] = r]
    BY <1>0, <1>6, InsertCases
  <2>2. r.pc \notin steps
    BY <1>0, <2>1 DEF Inserts, Changing
  <2> QED BY <1>1, <1>6, <2>1, <2>2 DEF Insert
<1>7. CASE Read(p)
  <2> DEFINE r == [calls[p] EXCEPT !.pc = "write", !.was = record[calls[p].row].status]
  <2>1. r.pc = "write"
    BY <1>0, <1>7, Steps DEF Read, Changing
  <2>2. calls' = [calls EXCEPT ![p] = r] /\ calls[p].pc = "read"
        /\ UNCHANGED <<copies, link, strayed>>
    BY <1>7 DEF Read
  <2> HIDE DEF r
  <2> QED BY <1>1, <2>1, <2>2
<1>8. CASE Write(p)
  <2> DEFINE r == [calls[p] EXCEPT !.pc = "tell"]
  <2>1. r.pc = "tell"
    BY <1>0, <1>8, Steps DEF Write, Changing
  <2>2. calls' = [calls EXCEPT ![p] = r] /\ calls[p].pc = "write"
        /\ UNCHANGED <<copies, link, strayed>>
    BY <1>8 DEF Write
  <2> HIDE DEF r
  <2> QED BY <1>1, <2>1, <2>2
<1>9. CASE Tell(p)
  <2>1. calls[p].todo \in Seq(Kinds)
    BY <1>0, <1>9, Steps DEF Tell, Changing
  <2>2. PICK r \in {Idle} \cup Inserts : calls' = [calls EXCEPT ![p] = r]
    BY <1>0, <1>9, <2>1, GoesOn DEF Tell
  <2>3. r.pc \notin steps
    BY <1>0, <2>2 DEF Inserts
  <2> QED BY <1>1, <1>9, <2>2, <2>3 DEF Tell
<1> QED BY <1>2, <1>3, <1>4, <1>5, <1>6, <1>7, <1>8, <1>9

\* A sync starts.
LEMMA SingleStarts ==
  ASSUME Shape, Singles, NEW p \in Calls, NEW u \in Users, NEW y \in Rows,
         NEW at \in Providers, Sync(p, u, y, at)
  PROVE  Singles'
<1> DEFINE r == [pc |-> "connection", user |-> u, event |-> y, at |-> at,
                 copy |-> Unlinked]
<1>0. CallsFit /\ Idle.pc = "idle"
  BY DEF Shape, Idle
<1>1. /\ calls[p] = Idle /\ calls' = [calls EXCEPT ![p] = r]
      /\ UNCHANGED <<copies, link>>
      /\ strayed' = IF Syncs(y) # {} THEN strayed \cup {y} ELSE strayed
  BY DEF Sync, Become
<1>2. r.pc = "connection" /\ r.event = y
  OBVIOUS
<1> HIDE DEF r
<1> SUFFICES ASSUME NEW x \in Rows \ strayed' PROVE (Single(x))'
  BY DEF Singles
<1>3. Single(x) /\ ~On(p, x)
  BY <1>0, <1>1 DEF Singles, On
<1>4. CASE x # y
  BY <1>0, <1>1, <1>2, <1>3, <1>4, SingleElsewhere
<1>5. CASE x = y
  <2>1. \A q \in Calls : ~On(q, x)
    BY <1>1, <1>5 DEF Syncs, On
  <2>2. (Linked(x))' /\ \A c, d \in copies' : c.event = x /\ d.event = x => c = d
    BY <1>1, <1>3, <2>1 DEF Single, Linked
  <2>3. (Finds(p, x))'
    BY <1>0, <1>1, <1>2, <2>2 DEF Finds, CallsFit
  <2> QED BY <1>0, <1>1, <1>2, <1>3, <1>5, <2>1, <2>2, <2>3, SingleHere
<1> QED BY <1>4, <1>5

\* A step of a sync.
LEMMA SingleSyncs ==
  ASSUME Shape, Singles, NEW p \in Calls,
         FindConnection(p) \/ FindEvent(p) \/ Patch(p) \/ Post(p) \/ Link(p)
  PROVE  Singles'
<1> USE DEF Become, Goto, rowVars, syncVars
<1> DEFINE steps == {"connection", "event", "patch", "post", "link"}
<1>0. CallsFit /\ LinksFit /\ Idle.pc = "idle"
  BY DEF Shape, Idle
<1>s. calls[p] \in Syncing /\ calls[p].event \in Rows
  BY <1>0, Steps DEF FindConnection, FindEvent, Patch, Post, Link, Syncing
<1> SUFFICES ASSUME NEW x \in Rows \ strayed' PROVE (Single(x))'
  BY DEF Singles
<1>t. x \notin strayed /\ Single(x)
  BY DEF Singles, FindConnection, FindEvent, Patch, Post, Link
<1>h. CASE calls[p].event # x
  <2>1. ~On(p, x)
    BY <1>h DEF On
  <2>2. ASSUME NEW r, calls' = [calls EXCEPT ![p] = r], r # Idle => r.event = calls[p].event,
               link'[x] = link[x],
               \A c : c.event = x => (c \in copies' <=> c \in copies)
        PROVE  (Single(x))'
    <3>1. ~(r.pc \in steps /\ r.event = x)
      BY <1>0, <1>h, <2>2
    <3> QED BY <1>0, <1>t, <2>1, <2>2, <3>1, SingleElsewhere
  <2>3. CASE FindConnection(p)
    <3>1. [calls[p] EXCEPT !.pc = "event"].event = calls[p].event
      BY <1>s DEF Syncing
    <3> QED BY <2>2, <2>3, <3>1 DEF FindConnection
  <2>4. CASE FindEvent(p)
    <3> DEFINE known == [calls[p] EXCEPT !.pc = "patch", !.copy = link[calls[p].event]]
               new == [calls[p] EXCEPT !.pc = "post"]
    <3>1. known.event = calls[p].event /\ new.event = calls[p].event
      BY <1>s DEF Syncing
    <3>2. calls' = [calls EXCEPT ![p] = known] \/ calls' = [calls EXCEPT ![p] = new]
      BY <2>4 DEF FindEvent
    <3>3. UNCHANGED <<link, copies>>
      BY <2>4 DEF FindEvent
    <3> HIDE DEF known, new
    <3> QED BY <2>2, <3>1, <3>2, <3>3
  <2>5. CASE Patch(p)
    <3>1. [calls[p] EXCEPT !.pc = "link"].event = calls[p].event
      BY <1>s DEF Syncing
    <3> QED BY <2>2, <2>5, <3>1 DEF Patch
  <2>6. CASE Post(p)
    <3> DEFINE c == [at |-> calls[p].at, of |-> calls[p].user, event |-> calls[p].event,
                     nth |-> Cardinality(Mine(calls[p])) + 1]
               r == [calls[p] EXCEPT !.pc = "link", !.copy = c]
    <3>1. r.event = calls[p].event /\ c.event = calls[p].event
      BY <1>s DEF Syncing
    <3>2. calls' = [calls EXCEPT ![p] = r] /\ copies' = copies \cup {c} /\ link' = link
      BY <2>6 DEF Post
    <3> HIDE DEF c, r
    <3> QED BY <1>h, <2>2, <3>1, <3>2
  <2>7. CASE Link(p)
    <3>1. link'[x] = link[x]
      BY <1>0, <1>h, <2>7 DEF Link, LinksFit
    <3> QED BY <2>2, <2>7, <3>1 DEF Link
  <2> QED BY <2>3, <2>4, <2>5, <2>6, <2>7
<1>i. CASE calls[p].event = x
  <2>1. On(p, x)
    BY <1>i, <1>s DEF On, Syncing
  <2>2. Finds(p, x) /\ \A q \in Calls \ {p} : ~On(q, x)
    BY <1>t, <2>1 DEF Single
  <2>3. \A c, d \in copies : c.event = x /\ d.event = x => c = d
    BY <1>t DEF Single
  <2>4. ASSUME NEW r, calls' = [calls EXCEPT ![p] = r], copies' = copies,
               \/ r.pc \in steps /\ r.event = x /\ (Finds(p, x))'
               \/ r.pc \notin steps /\ (Linked(x))'
        PROVE  (Single(x))'
    BY <1>0, <1>t, <2>2, <2>3, <2>4, SingleHere
  <2>5. CASE FindConnection(p)
    <3> DEFINE r == [calls[p] EXCEPT !.pc = "event"]
    <3>1. r.pc = "event" /\ r.event = x
      BY <1>i, <1>s DEF Syncing
    <3>2. Linked(x) /\ UNCHANGED <<copies, link>>
      BY <2>2, <2>5 DEF Finds, FindConnection
    <3>3. (Linked(x))'
      BY <3>2 DEF Linked
    <3>4. calls' = [calls EXCEPT ![p] = r] \/ calls' = [calls EXCEPT ![p] = Idle]
      BY <2>5 DEF FindConnection
    <3> HIDE DEF r
    <3>5. calls' = [calls EXCEPT ![p] = r] => (Finds(p, x))'
      BY <1>0, <3>1, <3>3 DEF Finds, CallsFit
    <3> QED BY <1>0, <2>4, <3>1, <3>2, <3>3, <3>4, <3>5
  <2>6. CASE FindEvent(p)
    <3>1. Linked(x) /\ UNCHANGED <<copies, link>>
      BY <2>2, <2>6 DEF Finds, FindEvent
    <3>2. (Linked(x))'
      BY <3>1 DEF Linked
    <3>3. CASE Known(calls[p])
      <4> DEFINE r == [calls[p] EXCEPT !.pc = "patch", !.copy = link[calls[p].event]]
      <4>1. r.pc = "patch" /\ r.event = x /\ r.copy = link[x]
        BY <1>i, <1>s DEF Syncing
      <4>2. calls' = [calls EXCEPT ![p] = r]
        BY <2>6, <3>3 DEF FindEvent
      <4> HIDE DEF r
      <4>3. (Finds(p, x))'
        BY <1>0, <3>1, <3>2, <4>1, <4>2 DEF Finds, CallsFit
      <4> QED BY <2>4, <3>1, <4>1, <4>2, <4>3
    <3>4. CASE ~Known(calls[p])
      <4> DEFINE r == [calls[p] EXCEPT !.pc = "post"]
      <4>1. r.pc = "post" /\ r.event = x
        BY <1>i, <1>s DEF Syncing
      <4>2. calls' = [calls EXCEPT ![p] = r]
            /\ strayed' = IF link[x].at \notin {Unlinked.at, calls[p].at}
                          THEN strayed \cup {x} ELSE strayed
        BY <1>i, <2>6, <3>4 DEF FindEvent
      <4>3. link[x].at \in {Unlinked.at, calls[p].at}
        BY <4>2
      <4>4. link[x] = Unlinked
        <5>1. link[x] # Unlinked => link[x].at \in Providers
          BY <1>0 DEF LinksFit, Links
        <5> QED BY <1>i, <3>4, <4>3, <5>1, DeskAssumption DEF Known, Unlinked
      <4>5. \A c \in copies : c # Unlinked
        <5>1. \A c \in copies : c.at \in Providers
          BY <1>0 DEF LinksFit, Links
        <5> QED BY <5>1, DeskAssumption DEF Unlinked
      <4>6. \A c \in copies : c.event # x
        BY <3>1, <4>4, <4>5 DEF Linked
      <4> HIDE DEF r
      <4>7. (Finds(p, x))'
        BY <1>0, <3>1, <4>1, <4>2, <4>6 DEF Finds, CallsFit
      <4> QED BY <2>4, <3>1, <4>1, <4>2, <4>7
    <3> QED BY <3>3, <3>4
  <2>7. CASE Patch(p)
    <3> DEFINE r == [calls[p] EXCEPT !.pc = "link"]
    <3>1. r.pc = "link" /\ r.event = x /\ r.copy = calls[p].copy
      BY <1>i, <1>s DEF Syncing
    <3>2. Linked(x) /\ calls[p].copy = link[x] /\ UNCHANGED <<copies, link>>
      BY <2>2, <2>7 DEF Finds, Patch
    <3>3. (Linked(x))'
      BY <3>2 DEF Linked
    <3>4. calls' = [calls EXCEPT ![p] = r] \/ calls' = [calls EXCEPT ![p] = Idle]
      BY <2>7 DEF Patch
    <3> HIDE DEF r
    <3>5. calls' = [calls EXCEPT ![p] = r] => (Finds(p, x))'
      BY <1>0, <3>1, <3>2, <3>3 DEF Finds, CallsFit, Linked
    <3> QED BY <1>0, <2>4, <3>1, <3>2, <3>3, <3>4, <3>5
  <2>8. CASE Post(p)
    <3> DEFINE c == [at |-> calls[p].at, of |-> calls[p].user, event |-> calls[p].event,
                     nth |-> Cardinality(Mine(calls[p])) + 1]
               r == [calls[p] EXCEPT !.pc = "link", !.copy = c]
    <3>1. r.pc = "link" /\ r.event = x /\ r.copy = c
      BY <1>i, <1>s DEF Syncing
    <3>2. calls' = [calls EXCEPT ![p] = r] /\ copies' = copies \cup {c} /\ link' = link
      BY <2>8 DEF Post
    <3>3. \A d \in copies : d.event # x
      BY <2>2, <2>8 DEF Finds, Post
    <3> HIDE DEF c, r
    <3>4. \A d \in copies' : d.event = x => d = c
      BY <3>2, <3>3
    <3>5. (Finds(p, x))'
      BY <1>0, <3>1, <3>2, <3>4 DEF Finds, CallsFit
    <3> QED BY <1>0, <1>t, <2>2, <3>1, <3>2, <3>4, <3>5, SingleHere
  <2>9. CASE Link(p)
    <3>1. /\ link' = [link EXCEPT ![x] = calls[p].copy] /\ copies' = copies
          /\ calls' = [calls EXCEPT ![p] = Idle] /\ calls[p].pc = "link"
      BY <1>i, <2>9 DEF Link
    <3>2. (Linked(x))'
      BY <1>0, <2>2, <3>1 DEF Linked, Finds, LinksFit
    <3> QED BY <1>0, <2>4, <3>1, <3>2
  <2> QED BY <2>5, <2>6, <2>7, <2>8, <2>9
<1> QED BY <1>h, <1>i

LEMMA SinglesStep ==
  ASSUME Shape, Singles, [Next]_deskVars
  PROVE  Singles'
<1>1. ASSUME UNCHANGED <<link, copies, calls, strayed>> PROVE Singles'
  BY <1>1 DEF Singles, Single, On, Linked, Finds
<1>2. ASSUME NEW u \in Users, NEW at \in Providers, ConnectProvider(u, at)
      PROVE  Singles'
  BY <1>1, <1>2 DEF ConnectProvider
<1>3. CASE UNCHANGED deskVars
  BY <1>1, <1>3 DEF deskVars
<1>4. ASSUME NEW p \in Calls, Fail(p) PROVE Singles'
  <2>0. CallsFit /\ Idle.pc = "idle"
    BY DEF Shape, Idle
  <2>1. /\ calls' = [calls EXCEPT ![p] = Idle] /\ UNCHANGED <<copies, link>>
        /\ strayed' = IF calls[p].pc = "link" THEN strayed \cup {calls[p].event} ELSE strayed
    BY <1>4 DEF Fail, Become
  <2> SUFFICES ASSUME NEW x \in Rows \ strayed' PROVE (Single(x))'
    BY DEF Singles
  <2>2. Single(x)
    BY <2>1 DEF Singles
  <2>3. CASE ~On(p, x)
    BY <2>0, <2>1, <2>2, <2>3, SingleElsewhere
  <2>4. CASE On(p, x)
    <3>1. calls[p].pc \in {"connection", "event", "patch", "post"}
      BY <2>1, <2>4 DEF On
    <3>2. Linked(x) /\ (\A q \in Calls \ {p} : ~On(q, x))
          /\ \A c, d \in copies : c.event = x /\ d.event = x => c = d
      BY <2>2, <2>4, <3>1 DEF Single, Finds, Linked
    <3>3. (Linked(x))'
      BY <2>1, <3>2 DEF Linked
    <3> QED BY <2>0, <2>1, <2>2, <3>2, <3>3, SingleHere
  <2> QED BY <2>3, <2>4
<1> QED BY <1>2, <1>3, <1>4, SingleOthers, SingleStarts, SingleSyncs DEF Next

\* An event has one copy in all calendars, and the link knows it once no sync is
\* on its way, for any users, providers and overlapping syncs of other events; only
\* syncs that overlap, die with the copy made or change the provider leave strays.
THEOREM CopiesStaySingle == Spec => []OneCopy
<1>1. Init => Singles
  BY DEF Init, Singles, Single, On, Linked, Idle
<1>2. Shape /\ Singles => OneCopy
  <2> SUFFICES ASSUME Shape, Singles, NEW x \in Rows \ strayed
               PROVE  LET made == { c \in copies : c.event = x } IN
                      /\ Cardinality(made) <= 1
                      /\ Syncs(x) = {} => made \subseteq {link[x]}
    BY DEF OneCopy
  <2> DEFINE made == { c \in copies : c.event = x }
  <2>1. Single(x)
    BY DEF Singles
  <2>2. \A c, d \in made : c = d
    BY <2>1 DEF Single
  <2>3. made = {} \/ \E c : made = {c}
    BY <2>2
  <2>4. Cardinality(made) <= 1
    <3> HIDE DEF made
    <3>1. CASE made = {}
      BY <3>1, FS_EmptySet
    <3>2. CASE \E c : made = {c}
      BY <3>2, FS_Singleton
    <3> QED BY <2>3, <3>1, <3>2
  <2>5. Syncs(x) = {} => made \subseteq {link[x]}
    BY <2>1 DEF Single, Syncs, On, Linked
  <2> QED BY <2>4, <2>5
<1>3. Shape /\ Singles /\ [Next]_deskVars => Singles'
  BY SinglesStep
<1> QED BY <1>1, <1>2, <1>3, ShapeKept, PTL DEF Spec

(***************************************************************************)
(* Templates: what a request is made of at each of its steps.              *)
(***************************************************************************)

Filed == {"slot", "max", "put", "insertVersion", "copyFields", "read", "clear", "fill", "hash"}

\* Which steps the kinds of requests take, and what they know by then.
TplRequest(r) ==
  /\ r.pc \in {"upsert", "hash", "slot", "max"} => r.kind = "ingest"
  /\ r.pc \in {"check", "insertTemplate"} => r.kind \in {"upload", "copy", "blank"}
  /\ r.pc \in {"put", "insertVersion"} => r.kind \in {"ingest", "upload", "copy"}
  /\ r.pc = "copyFields" => r.kind = "copy"
  /\ r.pc \notin {"check", "insertTemplate"} => r.kind # "blank"
  /\ r.kind # "blank" => r.content \in Users /\ r.name \in FileNames
  /\ r.kind = "copy" => r.from \in Rows
  /\ r.pc \in Filed => template[r.slug] # "none"
  /\ r.pc \in {"copyFields", "read", "clear", "fill"} => Tpl!Numbered(r.slug, r.number) # {}

\* Rows refer to rows that are there; a version's number is its own.
TplRows ==
  /\ \A v \in versions : template[v.slug] # "none"
  /\ \A v \in versions : v.key.slug = v.slug /\ v.key.number = v.number
  /\ \A v, w \in versions : v.slug = w.slug /\ v.number = w.number => v = w
  /\ \A f \in fields : Tpl!Numbered(f.slug, f.number) # {}
  /\ \A s \in Rows : Tpl!VersionsOf(s) # {} => Tpl!Newest(s) # {}

TplShape ==
  /\ Tpl!TypeOK
  /\ IsFiniteSet(fields)
  /\ TplRows
  /\ \A p \in Calls : work[p] # Tpl!Idle => TplRequest(work[p])

\* A request goes on, while the rows it relies on stay.
LEMMA TplGoesOn ==
  ASSUME TplShape, NEW p \in Calls, NEW r \in {Tpl!Idle} \cup Tpl!Busy,
         work' = [work EXCEPT ![p] = r],
         \A s \in Rows : template[s] # "none" => template'[s] # "none",
         versions \subseteq versions',
         r # Tpl!Idle => (TplRequest(r))'
  PROVE  /\ work' \in [Calls -> {Tpl!Idle} \cup Tpl!Busy]
         /\ \A q \in Calls : work'[q] # Tpl!Idle => (TplRequest(work[q]))'
<1>1. work' \in [Calls -> {Tpl!Idle} \cup Tpl!Busy]
  BY DEF TplShape, Tpl!TypeOK
<1>2. ASSUME NEW q \in Calls, work'[q] # Tpl!Idle
      PROVE  (TplRequest(work[q]))'
  <2>1. CASE q = p
    <3>1. work'[q] = r
      BY <2>1 DEF TplShape, Tpl!TypeOK
    <3> QED BY <1>2, <3>1 DEF TplRequest
  <2>2. CASE q # p
    <3>1. work'[q] = work[q] /\ work[q] \in Tpl!Busy /\ TplRequest(work[q])
      BY <1>2, <2>2 DEF TplShape, Tpl!TypeOK
    <3>2. work[q].slug \in Rows
      BY <3>1 DEF Tpl!Busy
    <3> QED BY <3>1, <3>2 DEF TplRequest, Tpl!Numbered
  <2> QED BY <2>1, <2>2
<1> QED BY <1>1, <1>2

\* Only a request goes on.
LEMMA TplMoves ==
  ASSUME TplShape, NEW p \in Calls, NEW r \in {Tpl!Idle} \cup Tpl!Busy,
         work' = [work EXCEPT ![p] = r],
         UNCHANGED <<template, versions, stored, fields>>, met' \subseteq Rows,
         r # Tpl!Idle => TplRequest(r)
  PROVE  TplShape'
<1>1. (TplRequest(r))' <=> TplRequest(r)
  BY DEF TplRequest, Tpl!Numbered
<1>2. /\ work' \in [Calls -> {Tpl!Idle} \cup Tpl!Busy]
      /\ \A q \in Calls : work'[q] # Tpl!Idle => (TplRequest(work[q]))'
  BY <1>1, TplGoesOn
<1>3. (TplRows)' <=> TplRows
  BY DEF TplRows, Tpl!Numbered, Tpl!VersionsOf, Tpl!Newest
<1> QED BY <1>2, <1>3 DEF TplShape, Tpl!TypeOK

\* A request that is over keeps the shape.
LEMMA TplStops ==
  ASSUME TplShape, NEW p \in Calls, Tpl!Done(p),
         UNCHANGED <<template, versions, stored, fields>>, met' \subseteq Rows
  PROVE  TplShape'
BY TplMoves DEF Tpl!Done

\* A request that takes a step is there.
LEMMA TplBusy ==
  ASSUME TplShape, NEW p \in Calls, work[p].pc # "idle"
  PROVE  work[p] \in Tpl!Busy /\ TplRequest(work[p]) /\ work[p].slug \in Rows
BY DEF TplShape, Tpl!TypeOK, Tpl!Idle, Tpl!Busy

\* Goto makes a request of a request.
LEMMA TplAt ==
  ASSUME TplShape, NEW p \in Calls, NEW pc \in {"hash", "slot", "put", "max", "insertTemplate",
           "insertVersion", "copyFields", "clear", "fill"},
         work[p] \in Tpl!Busy, Tpl!Goto(p, pc)
  PROVE  \E r \in Tpl!Busy :
           /\ work' = [work EXCEPT ![p] = r]
           /\ r = [work[p] EXCEPT !.pc = pc]
<1> DEFINE r == [work[p] EXCEPT !.pc = pc]
<1>1. r \in Tpl!Busy
  BY DEF Tpl!Busy
<1>2. work' = [work EXCEPT ![p] = r]
  BY DEF Tpl!Goto
<1> QED BY <1>1, <1>2

\* A request starts.
LEMMA TplBegins ==
  ASSUME TplShape, NEW p \in Calls, NEW r \in Tpl!Busy, Tpl!Begin(p, r), TplRequest(r)
  PROVE  TplShape'
<1>1. met' \subseteq Rows
  BY DEF Tpl!Begin, TplShape, Tpl!TypeOK, Tpl!Busy
<1> QED BY <1>1, TplMoves DEF Tpl!Begin, Tpl!Become

\* ingest, createTemplate, duplicateTemplate and a rewrite of fields start.
LEMMA TplStarts ==
  ASSUME TplShape, NEW p \in Calls,
         \/ \E s \in Rows, c \in Users, name \in FileNames, n \in Declared :
              Tpl!Ingest(p, s, n, c, name)
         \/ \E s \in Rows, c \in Users, name \in FileNames, dir \in {"global", "workspace"} :
              Tpl!Upload(p, s, c, name, dir)
         \/ \E s \in Rows : Tpl!Blank(p, s)
         \/ \E s, from \in Rows : Tpl!Duplicate(p, from, s)
         \/ \E kind \in {"replace", "detect"} : Tpl!Rewrite(p, kind)
  PROVE  TplShape'
<1>1. CASE \E s \in Rows, c \in Users, name \in FileNames, n \in Declared :
             Tpl!Ingest(p, s, n, c, name)
  <2>1. PICK s \in Rows, c \in Users, name \in FileNames, n \in Declared :
               Tpl!Ingest(p, s, n, c, name)
    BY <1>1
  <2> DEFINE r == Tpl!Asked("ingest", "upsert", s, n, c, name, "global")
  <2>2. r \in Tpl!Busy
    BY OfficeAssumption DEF Tpl!Asked, Tpl!Busy
  <2>3. TplRequest(r)
    BY DEF Tpl!Asked, TplRequest, Filed
  <2> QED BY <2>1, <2>2, <2>3, TplBegins DEF Tpl!Ingest
<1>2. CASE \E s \in Rows, c \in Users, name \in FileNames, dir \in {"global", "workspace"} :
             Tpl!Upload(p, s, c, name, dir)
  <2>1. PICK s \in Rows, c \in Users, name \in FileNames, dir \in {"global", "workspace"} :
               Tpl!Upload(p, s, c, name, dir)
    BY <1>2
  <2> DEFINE r == Tpl!Asked("upload", "check", s, 1, c, name, dir)
  <2>2. r \in Tpl!Busy
    BY DEF Tpl!Asked, Tpl!Busy
  <2>3. TplRequest(r)
    BY DEF Tpl!Asked, TplRequest, Filed
  <2> QED BY <2>1, <2>2, <2>3, TplBegins DEF Tpl!Upload
<1>3. CASE \E s \in Rows : Tpl!Blank(p, s)
  <2>1. PICK s \in Rows : Tpl!Blank(p, s)
    BY <1>3
  <2> DEFINE r == Tpl!Asked("blank", "check", s, 0, Tpl!None, Tpl!None, "workspace")
  <2>2. r \in Tpl!Busy
    BY DEF Tpl!Asked, Tpl!Busy
  <2>3. TplRequest(r)
    BY DEF Tpl!Asked, TplRequest, Filed
  <2> QED BY <2>1, <2>2, <2>3, TplBegins DEF Tpl!Blank
<1>4. CASE \E s, from \in Rows : Tpl!Duplicate(p, from, s)
  <2>1. PICK s \in Rows, from \in Rows : Tpl!Duplicate(p, from, s)
    BY <1>4
  <2> DEFINE r(v) == [Tpl!Asked("copy", "check", s, 1, v.content, v.key.name, "workspace")
                        EXCEPT !.from = from, !.of = v.number]
  <2>2. PICK v \in Tpl!Newest(from) : Tpl!Begin(p, r(v))
    BY <2>1 DEF Tpl!Duplicate
  <2>3. v \in Tpl!VersionRows
    BY DEF Tpl!Newest, Tpl!VersionsOf, TplShape, Tpl!TypeOK
  <2>4. r(v) \in Tpl!Busy
    BY <2>3 DEF Tpl!Asked, Tpl!Busy, Tpl!VersionRows, Tpl!Keys
  <2>5. TplRequest(r(v))
    BY <2>3 DEF Tpl!Asked, TplRequest, Filed, Tpl!VersionRows, Tpl!Keys
  <2> QED BY <2>2, <2>4, <2>5, TplBegins
<1>5. CASE \E kind \in {"replace", "detect"} : Tpl!Rewrite(p, kind)
  <2> DEFINE r(v, kind) == Tpl!Asked(kind, IF kind = "detect" THEN "read" ELSE "clear",
                             v.slug, v.number, v.content, v.key.name, v.key.dir)
  <2>1. PICK kind \in {"replace", "detect"}, v \in versions : Tpl!Begin(p, r(v, kind))
    BY <1>5 DEF Tpl!Rewrite
  <2>2. v \in Tpl!VersionRows /\ template[v.slug] # "none"
    BY DEF TplShape, Tpl!TypeOK, TplRows
  <2>3. r(v, kind) \in Tpl!Busy
    BY <2>2 DEF Tpl!Asked, Tpl!Busy, Tpl!VersionRows, Tpl!Keys
  <2>4. TplRequest(r(v, kind))
    BY <2>2 DEF Tpl!Asked, TplRequest, Filed, Tpl!VersionRows, Tpl!Keys, Tpl!Numbered
  <2> QED BY <2>1, <2>3, <2>4, TplBegins
<1> QED BY <1>1, <1>2, <1>3, <1>4, <1>5

\* A request looks something up.
LEMMA TplReads ==
  ASSUME TplShape, NEW p \in Calls,
         \/ Tpl!FindHash(p) \/ Tpl!FindSlot(p) \/ Tpl!FindMax(p) \/ Tpl!Check(p)
         \/ Tpl!ReadPdf(p) \/ Tpl!Fail(p)
  PROVE  TplShape'
<1> DEFINE q == work[p]
<1>m. met \subseteq Rows
  BY DEF TplShape, Tpl!TypeOK
<1>1. CASE Tpl!FindHash(p) \/ Tpl!FindSlot(p)
  <2>1. q \in Tpl!Busy /\ TplRequest(q)
    BY <1>1, TplBusy DEF Tpl!FindHash, Tpl!FindSlot
  <2>2. UNCHANGED <<template, versions, stored, fields, met>>
    BY <1>1 DEF Tpl!FindHash, Tpl!FindSlot
  <2>3. CASE Tpl!Done(p)
    BY <1>m, <2>2, <2>3, TplStops
  <2>4. ASSUME NEW pc \in {"slot", "max", "put"}, Tpl!Goto(p, pc) PROVE TplShape'
    <3>1. PICK r \in Tpl!Busy : work' = [work EXCEPT ![p] = r] /\ r = [q EXCEPT !.pc = pc]
      BY <2>1, <2>4, TplAt
    <3>2. TplRequest(r)
      BY <1>1, <2>1, <3>1 DEF TplRequest, Filed, Tpl!Busy, Tpl!FindHash, Tpl!FindSlot
    <3> QED BY <1>m, <2>2, <3>1, <3>2, TplMoves
  <2> QED BY <1>1, <2>3, <2>4 DEF Tpl!FindHash, Tpl!FindSlot
<1>2. CASE Tpl!FindMax(p)
  <2>1. q \in Tpl!Busy /\ TplRequest(q) /\ q.pc = "max"
    BY <1>2, TplBusy DEF Tpl!FindMax
  <2>2. PICK n \in Nat : work' = [work EXCEPT ![p] = [q EXCEPT !.number = n, !.pc = "put"]]
    <3>1. \A v \in Tpl!Newest(q.slug) : v.number + 1 \in Nat
      BY DEF TplShape, Tpl!TypeOK, Tpl!Newest, Tpl!VersionsOf, Tpl!VersionRows
    <3> QED BY <1>2, <3>1 DEF Tpl!FindMax, Tpl!Become
  <2> DEFINE r == [q EXCEPT !.number = n, !.pc = "put"]
  <2>3. r \in Tpl!Busy
    BY <2>1 DEF Tpl!Busy
  <2>4. TplRequest(r)
    BY <2>1 DEF TplRequest, Filed, Tpl!Busy
  <2>5. UNCHANGED <<template, versions, stored, fields, met>>
    BY <1>2 DEF Tpl!FindMax
  <2> HIDE DEF r
  <2> QED BY <1>m, <2>2, <2>3, <2>4, <2>5, TplMoves DEF r
<1>3. CASE Tpl!Check(p)
  <2>1. q \in Tpl!Busy /\ TplRequest(q) /\ q.pc = "check"
    BY <1>3, TplBusy DEF Tpl!Check
  <2>2. UNCHANGED <<template, versions, stored, fields, met>>
    BY <1>3 DEF Tpl!Check
  <2>3. CASE Tpl!Done(p)
    BY <1>m, <2>2, <2>3, TplStops
  <2>4. CASE Tpl!Goto(p, "insertTemplate")
    <3>1. PICK r \in Tpl!Busy :
            work' = [work EXCEPT ![p] = r] /\ r = [q EXCEPT !.pc = "insertTemplate"]
      BY <2>1, <2>4, TplAt
    <3>2. TplRequest(r)
      BY <2>1, <3>1 DEF TplRequest, Filed, Tpl!Busy
    <3> QED BY <1>m, <2>2, <3>1, <3>2, TplMoves
  <2>5. ASSUME NEW c \in Users,
               Tpl!Become(p, [q EXCEPT !.content = c, !.pc = "insertTemplate"])
        PROVE  TplShape'
    <3> DEFINE r == [q EXCEPT !.content = c, !.pc = "insertTemplate"]
    <3>1. r \in Tpl!Busy
      BY <2>1 DEF Tpl!Busy
    <3>2. TplRequest(r)
      BY <2>1 DEF TplRequest, Filed, Tpl!Busy
    <3>3. work' = [work EXCEPT ![p] = r]
      BY <2>5 DEF Tpl!Become
    <3> HIDE DEF r
    <3> QED BY <1>m, <2>2, <3>1, <3>2, <3>3, TplMoves
  <2>6. UNION { Tpl!Stored(v.key) : v \in Tpl!Numbered(q.from, q.of) } \subseteq Users
    BY DEF TplShape, Tpl!TypeOK, Tpl!Stored
  <2> QED BY <1>3, <2>3, <2>4, <2>5, <2>6 DEF Tpl!Check
<1>4. CASE Tpl!ReadPdf(p)
  <2>1. q \in Tpl!Busy /\ TplRequest(q) /\ q.pc = "read"
    BY <1>4, TplBusy DEF Tpl!ReadPdf
  <2>2. UNCHANGED <<template, versions, stored, fields, met>>
    BY <1>4 DEF Tpl!ReadPdf
  <2>3. CASE Tpl!Done(p)
    BY <1>m, <2>2, <2>3, TplStops
  <2>4. ASSUME NEW c \in Users, Tpl!Become(p, [q EXCEPT !.content = c, !.pc = "clear"])
        PROVE  TplShape'
    <3> DEFINE r == [q EXCEPT !.content = c, !.pc = "clear"]
    <3>1. r \in Tpl!Busy
      BY <2>1 DEF Tpl!Busy
    <3>2. TplRequest(r)
      BY <2>1 DEF TplRequest, Filed, Tpl!Busy
    <3>3. work' = [work EXCEPT ![p] = r]
      BY <2>4 DEF Tpl!Become
    <3> HIDE DEF r
    <3> QED BY <1>m, <2>2, <3>1, <3>2, <3>3, TplMoves
  <2>5. UNION { Tpl!Stored(v.key) : v \in Tpl!Numbered(q.slug, q.number) } \subseteq Users
    BY DEF TplShape, Tpl!TypeOK, Tpl!Stored
  <2> QED BY <1>4, <2>3, <2>4, <2>5 DEF Tpl!ReadPdf
<1>5. CASE Tpl!Fail(p)
  BY <1>m, <1>5, TplStops DEF Tpl!Fail
<1> QED BY <1>1, <1>2, <1>3, <1>4, <1>5

\* A request goes on and writes, and what the other requests rely on stays.
LEMMA TplChanges ==
  ASSUME TplShape, NEW p \in Calls, NEW r \in {Tpl!Idle} \cup Tpl!Busy,
         work' = [work EXCEPT ![p] = r],
         \A s \in Rows : template[s] # "none" => template'[s] # "none",
         versions \subseteq versions', met' \subseteq Rows,
         r # Tpl!Idle => (TplRequest(r))',
         template' \in [Rows -> {"none", "system", "workspace"}],
         versions' \subseteq Tpl!VersionRows,
         stored' \subseteq [key : Tpl!Keys, content : Users],
         fields' \subseteq Tpl!FieldRows, IsFiniteSet(fields'),
         TplRows'
  PROVE  TplShape'
<1>1. /\ work' \in [Calls -> {Tpl!Idle} \cup Tpl!Busy]
      /\ \A q \in Calls : work'[q] # Tpl!Idle => (TplRequest(work[q]))'
  BY TplGoesOn
<1> QED BY <1>1 DEF TplShape, Tpl!TypeOK

\* What the shape says of each variable.
LEMMA TplTypes ==
  TplShape =>
    /\ template \in [Rows -> {"none", "system", "workspace"}]
    /\ versions \subseteq Tpl!VersionRows /\ stored \subseteq [key : Tpl!Keys, content : Users]
    /\ fields \subseteq Tpl!FieldRows /\ IsFiniteSet(fields) /\ met \subseteq Rows
    /\ work \in [Calls -> {Tpl!Idle} \cup Tpl!Busy]
    /\ TplRows
BY DEF TplShape, Tpl!TypeOK

\* A template row comes to be.
LEMMA TplInserts ==
  ASSUME TplShape, NEW p \in Calls, Tpl!Upsert(p) \/ Tpl!InsertTemplate(p)
  PROVE  TplShape'
<1> DEFINE q == work[p]
<1>1. q \in Tpl!Busy /\ TplRequest(q) /\ q.slug \in Rows
  BY TplBusy DEF Tpl!Upsert, Tpl!InsertTemplate
<1>2. UNCHANGED <<versions, stored, fields, met>>
  BY DEF Tpl!Upsert, Tpl!InsertTemplate
<1>3. /\ template' \in [Rows -> {"none", "system", "workspace"}]
      /\ \A s \in Rows : template[s] # "none" => template'[s] # "none"
  BY <1>1, TplTypes DEF Tpl!Upsert, Tpl!InsertTemplate
<1>4. TplRows'
  <2>1. \A v \in versions : v.slug \in Rows
    BY TplTypes DEF Tpl!VersionRows
  <2> QED BY <1>2, <1>3, <2>1, TplTypes
        DEF TplRows, Tpl!Numbered, Tpl!VersionsOf, Tpl!Newest
<1>5. ASSUME NEW r \in {Tpl!Idle} \cup Tpl!Busy, work' = [work EXCEPT ![p] = r],
             r # Tpl!Idle => (TplRequest(r))'
      PROVE  TplShape'
  BY <1>2, <1>3, <1>4, <1>5, TplTypes, TplChanges
<1>6. CASE Tpl!Done(p)
  BY <1>5, <1>6 DEF Tpl!Done
<1>7. CASE Tpl!Upsert(p) /\ Tpl!Goto(p, "hash")
  <2>1. PICK r \in Tpl!Busy : work' = [work EXCEPT ![p] = r] /\ r = [q EXCEPT !.pc = "hash"]
    BY <1>1, <1>7, TplAt
  <2>2. template'[q.slug] # "none"
    BY <1>1, <1>7, TplTypes DEF Tpl!Upsert
  <2>3. (TplRequest(r))'
    BY <1>1, <1>7, <2>1, <2>2 DEF TplRequest, Filed, Tpl!Busy, Tpl!Upsert
  <2> QED BY <1>5, <2>1, <2>3
<1>8. CASE Tpl!InsertTemplate(p) /\ template[q.slug] = "none" /\ q.kind # "blank"
  <2>1. PICK r \in Tpl!Busy : work' = [work EXCEPT ![p] = r] /\ r = [q EXCEPT !.pc = "put"]
    BY <1>1, <1>8, TplAt DEF Tpl!InsertTemplate
  <2>2. template'[q.slug] # "none"
    BY <1>1, <1>8, TplTypes DEF Tpl!InsertTemplate
  <2>3. (TplRequest(r))'
    BY <1>1, <1>8, <2>1, <2>2 DEF TplRequest, Filed, Tpl!Busy, Tpl!InsertTemplate
  <2> QED BY <1>5, <2>1, <2>3
<1> QED BY <1>6, <1>7, <1>8 DEF Tpl!Upsert, Tpl!InsertTemplate

\* A PDF is put under a version's key.
LEMMA TplPuts ==
  ASSUME TplShape, NEW p \in Calls, Tpl!Put(p)
  PROVE  TplShape'
<1> DEFINE q == work[p]
<1>1. q \in Tpl!Busy /\ TplRequest(q) /\ q.pc = "put"
  BY TplBusy DEF Tpl!Put
<1>2. UNCHANGED <<template, versions, fields, met>>
  BY DEF Tpl!Put
<1>3. Tpl!KeyOf(q) \in Tpl!Keys /\ q.content \in Users
  BY <1>1 DEF Tpl!KeyOf, Tpl!Keys, Tpl!Busy, TplRequest
<1>4. stored' \subseteq [key : Tpl!Keys, content : Users]
  BY <1>3, TplTypes DEF Tpl!Put
<1>5. PICK r \in Tpl!Busy :
        work' = [work EXCEPT ![p] = r] /\ r = [q EXCEPT !.pc = "insertVersion"]
  BY <1>1, TplAt DEF Tpl!Put
<1>6. (TplRequest(r))'
  BY <1>1, <1>2, <1>5 DEF TplRequest, Filed, Tpl!Busy
<1>7. TplRows'
  BY <1>2, TplTypes DEF TplRows, Tpl!Numbered, Tpl!VersionsOf, Tpl!Newest
<1> QED BY <1>2, <1>4, <1>5, <1>6, <1>7, TplTypes, TplChanges

\* The row that InsertVersion writes.
TplVersion(r) ==
  [slug |-> r.slug, number |-> r.number, content |-> r.content, key |-> Tpl!KeyOf(r)]

\* A new version leaves a newest one.
LEMMA TplNewest ==
  ASSUME TplShape, NEW x \in Tpl!VersionRows, versions' = versions \cup {x},
         NEW s \in Rows, (Tpl!VersionsOf(s))' # {}
  PROVE  (Tpl!Newest(s))' # {}
<1>0. versions \subseteq Tpl!VersionRows /\ \A v \in versions' : v.number \in Nat
  BY TplTypes DEF Tpl!VersionRows
<1>1. CASE Tpl!VersionsOf(s) = {}
  <2>1. (Tpl!VersionsOf(s))' = {x}
    BY <1>1 DEF Tpl!VersionsOf
  <2>2. x \in (Tpl!Newest(s))'
    BY <1>0, <2>1 DEF Tpl!Newest
  <2> QED BY <2>2
<1>2. CASE Tpl!VersionsOf(s) # {}
  <2>1. PICK v \in Tpl!Newest(s) : TRUE
    BY <1>2, TplTypes DEF TplRows
  <2>2. v \in versions /\ v.slug = s /\ \A w \in versions : w.slug = s => w.number <= v.number
    BY <2>1 DEF Tpl!Newest, Tpl!VersionsOf
  <2>3. CASE x.slug = s /\ x.number > v.number
    <3>1. \A w \in versions' : w.slug = s => w.number <= x.number
      BY <1>0, <2>2, <2>3
    <3>2. x \in (Tpl!Newest(s))'
      BY <2>3, <3>1 DEF Tpl!Newest, Tpl!VersionsOf
    <3> QED BY <3>2
  <2>4. CASE ~(x.slug = s /\ x.number > v.number)
    <3>1. \A w \in versions' : w.slug = s => w.number <= v.number
      BY <1>0, <2>2, <2>4
    <3>2. v \in (Tpl!Newest(s))'
      BY <2>2, <3>1 DEF Tpl!Newest, Tpl!VersionsOf
    <3> QED BY <3>2
  <2> QED BY <2>3, <2>4
<1> QED BY <1>1, <1>2

\* What InsertVersion does.
LEMMA TplInsertion ==
  ASSUME TplShape, NEW p \in Calls, Tpl!InsertVersion(p)
  PROVE  LET q == work[p] IN
         /\ q \in Tpl!Busy /\ TplRequest(q) /\ q.pc = "insertVersion" /\ q.slug \in Rows
         /\ UNCHANGED <<template, stored, fields, met>>
         /\ \/ versions' = versions /\ work' = [work EXCEPT ![p] = Tpl!Idle]
            \/ /\ TplVersion(q) \in Tpl!VersionRows
               /\ \A v \in versions : v.slug = q.slug =>
                    v.number # q.number /\ v.content # q.content
               /\ versions' = versions \cup {TplVersion(q)}
               /\ \/ work' = [work EXCEPT ![p] = Tpl!Idle]
                  \/ \E pc \in {"clear", "copyFields"} : \E r \in Tpl!Busy :
                       /\ pc = "copyFields" <=> q.kind = "copy"
                       /\ work' = [work EXCEPT ![p] = r] /\ r = [q EXCEPT !.pc = pc]
<1> DEFINE q == work[p]
<1>1. q \in Tpl!Busy /\ TplRequest(q) /\ q.pc = "insertVersion" /\ q.slug \in Rows
  BY TplBusy DEF Tpl!InsertVersion
<1>2. UNCHANGED <<template, stored, fields, met>>
  BY DEF Tpl!InsertVersion
<1>3. TplVersion(q) \in Tpl!VersionRows
  BY <1>1 DEF TplVersion, Tpl!VersionRows, Tpl!KeyOf, Tpl!Keys, Tpl!Busy, TplRequest
<1>4. CASE \E v \in Tpl!VersionsOf(q.slug) : v.number = q.number \/ v.content = q.content
  BY <1>1, <1>2, <1>4 DEF Tpl!InsertVersion, Tpl!Done
<1>5. CASE ~ \E v \in Tpl!VersionsOf(q.slug) : v.number = q.number \/ v.content = q.content
  <2>1. \A v \in versions : v.slug = q.slug => v.number # q.number /\ v.content # q.content
    BY <1>5 DEF Tpl!VersionsOf
  <2>2. versions' = versions \cup {TplVersion(q)}
    BY <1>5 DEF Tpl!InsertVersion, TplVersion
  <2>3. q.kind \in {"ingest", "upload", "copy"}
    BY <1>1 DEF TplRequest
  <2>4. CASE q.kind = "ingest"
    <3>1. work' = [work EXCEPT ![p] = Tpl!Idle]
      BY <1>5, <2>4 DEF Tpl!InsertVersion, Tpl!Done
    <3> QED BY <1>1, <1>2, <1>3, <2>1, <2>2, <3>1
  <2>5. CASE q.kind = "upload"
    <3>1. Tpl!Goto(p, "clear")
      BY <1>5, <2>5 DEF Tpl!InsertVersion
    <3>2. PICK r \in Tpl!Busy : work' = [work EXCEPT ![p] = r] /\ r = [q EXCEPT !.pc = "clear"]
      BY <1>1, <3>1, TplAt
    <3> QED BY <1>1, <1>2, <1>3, <2>1, <2>2, <2>5, <3>2
  <2>6. CASE q.kind = "copy"
    <3>1. Tpl!Goto(p, "copyFields")
      BY <1>5, <2>6 DEF Tpl!InsertVersion
    <3>2. PICK r \in Tpl!Busy :
            work' = [work EXCEPT ![p] = r] /\ r = [q EXCEPT !.pc = "copyFields"]
      BY <1>1, <3>1, TplAt
    <3> QED BY <1>1, <1>2, <1>3, <2>1, <2>2, <2>6, <3>2
  <2> QED BY <2>3, <2>4, <2>5, <2>6
<1> QED BY <1>4, <1>5

\* A version's row is inserted.
LEMMA TplVersions ==
  ASSUME TplShape, NEW p \in Calls, Tpl!InsertVersion(p)
  PROVE  TplShape'
<1> DEFINE q == work[p]
<1>0. /\ q \in Tpl!Busy /\ TplRequest(q) /\ q.pc = "insertVersion" /\ q.slug \in Rows
      /\ UNCHANGED <<template, stored, fields, met>>
  BY TplInsertion
<1>1. CASE versions' = versions /\ work' = [work EXCEPT ![p] = Tpl!Idle]
  BY <1>0, <1>1, TplTypes, TplStops DEF Tpl!Done
<1>2. CASE /\ TplVersion(q) \in Tpl!VersionRows
           /\ \A v \in versions : v.slug = q.slug =>
                v.number # q.number /\ v.content # q.content
           /\ versions' = versions \cup {TplVersion(q)}
  <2>1. template[q.slug] # "none"
    BY <1>0 DEF TplRequest, Filed
  <2> DEFINE x == TplVersion(q)
  <2>2. /\ x.slug = q.slug /\ x.number = q.number
        /\ x.key.slug = q.slug /\ x.key.number = q.number
    BY DEF TplVersion, Tpl!KeyOf
  <2>3. x \in Tpl!VersionRows /\ versions' = versions \cup {x}
        /\ \A v \in versions : v.slug = x.slug => v.number # x.number
    BY <1>2, <2>2
  <2> HIDE DEF x
  <2>4. \A s \in Rows : (Tpl!VersionsOf(s))' # {} => (Tpl!Newest(s))' # {}
    BY <2>3, TplNewest
  <2>5. \A v \in versions' : template'[v.slug] # "none"
    BY <1>0, <2>1, <2>2, <2>3, TplTypes DEF TplRows
  <2>6. \A v \in versions' : v.key.slug = v.slug /\ v.key.number = v.number
    BY <2>2, <2>3, TplTypes DEF TplRows
  <2>7. \A v, w \in versions' : v.slug = w.slug /\ v.number = w.number => v = w
    BY <2>3, TplTypes DEF TplRows
  <2>8. \A f \in fields' : (Tpl!Numbered(f.slug, f.number))' # {}
    BY <1>0, <2>3, TplTypes DEF TplRows, Tpl!Numbered
  <2>9. TplRows'
    BY <2>4, <2>5, <2>6, <2>7, <2>8 DEF TplRows
  <2>10. versions' \subseteq Tpl!VersionRows
    BY <2>3, TplTypes
  <2>11. ASSUME NEW r \in {Tpl!Idle} \cup Tpl!Busy, work' = [work EXCEPT ![p] = r],
                r # Tpl!Idle => (TplRequest(r))'
         PROVE  TplShape'
    BY <1>0, <2>3, <2>9, <2>10, <2>11, TplTypes, TplChanges
  <2>12. CASE work' = [work EXCEPT ![p] = Tpl!Idle]
    BY <2>11, <2>12
  <2>13. ASSUME NEW pc \in {"clear", "copyFields"}, NEW r \in Tpl!Busy,
                pc = "copyFields" <=> q.kind = "copy",
                work' = [work EXCEPT ![p] = r], r = [q EXCEPT !.pc = pc]
         PROVE  TplShape'
    <3>1. \E v \in versions' : v.slug = q.slug /\ v.number = q.number
      BY <2>2, <2>3
    <3>2. r.slug = q.slug /\ r.number = q.number /\ r.kind = q.kind /\ r.pc = pc
          /\ r.content = q.content /\ r.name = q.name /\ r.from = q.from
      BY <1>0, <2>13 DEF Tpl!Busy
    <3>3. template'[r.slug] # "none" /\ (Tpl!Numbered(r.slug, r.number))' # {}
      BY <1>0, <2>1, <3>1, <3>2 DEF Tpl!Numbered
    <3>4. (TplRequest(r))'
      BY <1>0, <2>13, <3>2, <3>3, Zenon DEF TplRequest, Filed
    <3> QED BY <2>11, <2>13, <3>4
  <2> QED BY <1>2, <2>12, <2>13, TplInsertion
<1> QED BY <1>1, <1>2, TplInsertion

\* The copies of a version's fields.
TplCopied(r) == { Tpl!Batch(r, f.on, f.nth) : f \in Tpl!SourceFields(r) }

\* A copy of finitely many fields is finite.
LEMMA TplCopiedFinite ==
  ASSUME TplShape, NEW r \in Tpl!Busy
  PROVE  TplCopied(r) \subseteq Tpl!FieldRows /\ IsFiniteSet(TplCopied(r))
<1>1. Tpl!SourceFields(r) \in SUBSET fields /\ IsFiniteSet(fields)
  BY TplTypes DEF Tpl!SourceFields, Tpl!Batches
<1>2. IsFiniteSet(Tpl!SourceFields(r))
  BY <1>1, FS_Subset
<1> DEFINE g == [f \in Tpl!SourceFields(r) |-> Tpl!Batch(r, f.on, f.nth)]
<1>3. g \in Surjection(Tpl!SourceFields(r), TplCopied(r))
  BY DEF Surjection, TplCopied
<1>4. IsFiniteSet(TplCopied(r))
  BY <1>2, <1>3, FS_Surjection
<1>5. \A f \in Tpl!SourceFields(r) : f.on \in Users /\ f.nth \in Nat
  BY <1>1, TplTypes DEF Tpl!FieldRows
<1>6. TplCopied(r) \subseteq Tpl!FieldRows
  BY <1>5 DEF TplCopied, Tpl!Batch, Tpl!FieldRows, Tpl!Busy
<1> QED BY <1>4, <1>6

\* The instance's copy of FiniteSets is FiniteSets.
LEMMA TplCardinality == \A S : Tpl!Cardinality(S) = Cardinality(S)
BY Zenon DEF Tpl!Cardinality, Cardinality

\* Fields are copied, deleted or written.
LEMMA TplFields ==
  ASSUME TplShape, NEW p \in Calls,
         Tpl!CopyFields(p) \/ Tpl!Clear(p) \/ Tpl!Fill(p)
  PROVE  TplShape'
<1> DEFINE q == work[p]
<1>1. /\ q \in Tpl!Busy /\ TplRequest(q) /\ q.slug \in Rows
      /\ q.pc \in {"copyFields", "clear", "fill"}
  BY TplBusy DEF Tpl!CopyFields, Tpl!Clear, Tpl!Fill
<1>2. UNCHANGED <<template, versions, stored>> /\ met' \subseteq Rows
  BY <1>1, TplTypes DEF Tpl!CopyFields, Tpl!Clear, Tpl!Fill
<1>3. ASSUME NEW r \in {Tpl!Idle} \cup Tpl!Busy, work' = [work EXCEPT ![p] = r],
             r # Tpl!Idle => TplRequest(r),
             fields' \subseteq Tpl!FieldRows, IsFiniteSet(fields'),
             \A f \in fields' \ fields : f.slug = q.slug /\ f.number = q.number
      PROVE  TplShape'
  <2>1. Tpl!Numbered(q.slug, q.number) # {}
    BY <1>1 DEF TplRequest
  <2>2. \A f \in fields' : Tpl!Numbered(f.slug, f.number) # {}
    BY <1>3, <2>1, TplTypes DEF TplRows
  <2>3. TplRows'
    BY <1>2, <1>3, <2>2, TplTypes
    DEF TplRows, Tpl!Numbered, Tpl!VersionsOf, Tpl!Newest
  <2>4. r # Tpl!Idle => (TplRequest(r))'
    BY <1>2, <1>3 DEF TplRequest, Tpl!Numbered
  <2> QED BY <1>2, <1>3, <2>3, <2>4, TplTypes, TplChanges
<1>i. Tpl!Idle \in {Tpl!Idle} \cup Tpl!Busy
  OBVIOUS
<1>s. ASSUME NEW r \in {Tpl!Idle} \cup Tpl!Busy, work' = [work EXCEPT ![p] = r],
             r # Tpl!Idle => TplRequest(r), fields' \in SUBSET fields
      PROVE  TplShape'
  <2>1. IsFiniteSet(fields')
    BY <1>s, TplTypes, FS_Subset
  <2>2. fields' \subseteq Tpl!FieldRows /\ fields' \ fields = {}
    BY <1>s, TplTypes
  <2> QED BY <1>3, <1>s, <2>1, <2>2
<1>4. ASSUME NEW pc \in {"clear", "fill"}, Tpl!Goto(p, pc)
      PROVE  \E r \in Tpl!Busy : work' = [work EXCEPT ![p] = r] /\ TplRequest(r)
  <2>1. PICK r \in Tpl!Busy : work' = [work EXCEPT ![p] = r] /\ r = [q EXCEPT !.pc = pc]
    BY <1>1, <1>4, TplAt
  <2>2. TplRequest(r)
    BY <1>1, <2>1 DEF TplRequest, Filed, Tpl!Busy
  <2> QED BY <2>1, <2>2
<1>5. CASE Tpl!CopyFields(p)
  <2>1. CASE fields' = fields \cup TplCopied(q) /\ Tpl!Done(p)
    <3>1. TplCopied(q) \subseteq Tpl!FieldRows /\ IsFiniteSet(TplCopied(q))
      BY <1>1, TplCopiedFinite
    <3>2. IsFiniteSet(fields')
      BY <2>1, <3>1, TplTypes, FS_Union
    <3>3. fields' \subseteq Tpl!FieldRows
      BY <2>1, <3>1, TplTypes
    <3>4. \A f \in TplCopied(q) : f.slug = q.slug /\ f.number = q.number
      BY DEF TplCopied, Tpl!Batch
    <3>5. \A f \in fields' \ fields : f.slug = q.slug /\ f.number = q.number
      BY <2>1, <3>4
    <3> QED BY <1>3, <1>i, <2>1, <3>2, <3>3, <3>5 DEF Tpl!Done
  <2>2. CASE fields' = fields /\ Tpl!Goto(p, "clear")
    <3>1. PICK r \in Tpl!Busy : work' = [work EXCEPT ![p] = r] /\ TplRequest(r)
      BY <1>4, <2>2
    <3> QED BY <1>s, <2>2, <3>1
  <2> QED BY <1>5, <2>1, <2>2 DEF Tpl!CopyFields, TplCopied
<1>6. CASE Tpl!Clear(p)
  <2>1. fields' \in SUBSET fields
    BY <1>6 DEF Tpl!Clear, Tpl!Cleared
  <2>2. CASE Tpl!Done(p)
    BY <1>s, <1>i, <2>1, <2>2 DEF Tpl!Done
  <2>3. CASE Tpl!Goto(p, "fill")
    <3>1. PICK r \in Tpl!Busy : work' = [work EXCEPT ![p] = r] /\ TplRequest(r)
      BY <1>4, <2>3
    <3> QED BY <1>s, <2>1, <3>1
  <2> QED BY <1>6, <2>2, <2>3 DEF Tpl!Clear
<1>7. CASE Tpl!Fill(p)
  <2> DEFINE n == Tpl!Cardinality(Tpl!Batches(q.slug, q.number)) + 1
             new == Tpl!Batch(q, q.content, n)
  <2>1. n \in Nat
    <3>1. Tpl!Batches(q.slug, q.number) \in SUBSET fields
      BY DEF Tpl!Batches
    <3>2. Cardinality(Tpl!Batches(q.slug, q.number)) \in Nat
      BY <3>1, TplTypes, FS_Subset, FS_CardinalityType
    <3> QED BY <3>2, TplCardinality
  <2>2. fields' = fields \cup {new} /\ Tpl!Done(p)
    BY <1>7 DEF Tpl!Fill
  <2> HIDE DEF n
  <2>3. q.content \in Users
    BY <1>1 DEF TplRequest
  <2>4. new \in Tpl!FieldRows /\ new.slug = q.slug /\ new.number = q.number
    BY <1>1, <2>1, <2>3 DEF Tpl!Batch, Tpl!FieldRows, Tpl!Busy
  <2> HIDE DEF new
  <2>5. IsFiniteSet(fields')
    BY <2>2, TplTypes, FS_AddElement
  <2>6. fields' \subseteq Tpl!FieldRows
    BY <2>2, <2>4, TplTypes
  <2>7. \A f \in fields' \ fields : f.slug = q.slug /\ f.number = q.number
    BY <2>2, <2>4
  <2> QED BY <1>3, <1>i, <2>2, <2>5, <2>6, <2>7 DEF Tpl!Done
<1> QED BY <1>5, <1>6, <1>7

\* Every step of Templates keeps the shape.
LEMMA TplShapeStep ==
  ASSUME TplShape, [Tpl!Next]_(Tpl!templateVars)
  PROVE  TplShape'
<1>1. CASE UNCHANGED Tpl!templateVars
  <2>1. UNCHANGED <<template, versions, stored, fields, work, met>>
    BY <1>1 DEF Tpl!templateVars
  <2>2. (TplRows)' <=> TplRows
    BY <2>1 DEF TplRows, Tpl!Numbered, Tpl!VersionsOf, Tpl!Newest
  <2>3. \A p \in Calls : (TplRequest(work[p]))' <=> TplRequest(work[p])
    BY <2>1 DEF TplRequest, Tpl!Numbered
  <2> QED BY <2>1, <2>2, <2>3 DEF TplShape, Tpl!TypeOK
<1>2. CASE Tpl!Next
  BY <1>2, TplStarts, TplReads, TplInserts, TplPuts, TplVersions, TplFields DEF Tpl!Next
<1> QED BY <1>1, <1>2

LEMMA TplShapeInit == Tpl!Init => TplShape
<1>1. Tpl!Init => IsFiniteSet(fields)
  BY FS_EmptySet DEF Tpl!Init
<1> QED BY <1>1 DEF Tpl!Init, TplShape, Tpl!TypeOK, TplRows, Tpl!VersionsOf

LEMMA TplShapeKept == Tpl!Spec => []TplShape
BY TplShapeInit, TplShapeStep, PTL DEF Tpl!Spec

(***************************************************************************)
(* Templates: PDFs and fields, on slugs where no two requests met.         *)
(***************************************************************************)

TplWorks(p, s) == work[p] # Tpl!Idle /\ work[p].slug = s

\* What a request finds of its version as long as it is alone on the slug: until its
\* row is in, the number and the PDF are free and then the storage has the PDF; from
\* then on the row has that PDF, and a rewrite that has deleted finds no fields.
TplKnows(r) ==
  /\ r.pc \in {"slot", "max", "put", "insertVersion"} =>
       \A v \in Tpl!VersionsOf(r.slug) : v.content # r.content
  /\ r.pc \in {"put", "insertVersion"} => Tpl!Numbered(r.slug, r.number) = {}
  /\ r.pc = "insertVersion" => Tpl!Stored(Tpl!KeyOf(r)) = {r.content}
  /\ r.pc \in {"copyFields", "clear", "fill"} =>
       \E v \in Tpl!Numbered(r.slug, r.number) : v.content = r.content
  /\ r.pc \in {"copyFields", "fill"} => Tpl!Batches(r.slug, r.number) = {}
  /\ /\ r.kind = "copy" /\ r.from \notin met
     /\ r.pc \in {"insertTemplate", "put", "insertVersion", "copyFields"}
     => \E v \in Tpl!Numbered(r.from, r.of) : v.content = r.content

TplSettled(s) ==
  /\ \A v \in Tpl!VersionsOf(s) : Tpl!Stored(v.key) = {v.content}
  /\ \A f \in fields : f.slug = s =>
       /\ Tpl!Batches(s, f.number) = {f}
       /\ \E v \in Tpl!Numbered(s, f.number) : v.content = f.on

TplInv ==
  \A s \in Rows \ met :
    /\ TplSettled(s)
    /\ \A p, q \in Calls : TplWorks(p, s) /\ TplWorks(q, s) => p = q
    /\ \A p \in Calls : TplWorks(p, s) => TplKnows(work[p])

\* A step that changes slug s leaves what the others have and know.
LEMMA TplElsewhere ==
  ASSUME TplShape, TplInv, NEW s \in Rows,
         met \subseteq met',
         versions \subseteq versions', \A v \in versions' \ versions : v.slug = s,
         \A o \in stored \cup stored' : o.key.slug # s => (o \in stored <=> o \in stored'),
         \A f \in fields \cup fields' : f.slug # s => (f \in fields <=> f \in fields'),
         NEW t \in Rows \ met', t # s
  PROVE  /\ (TplSettled(t))'
         /\ \A r \in Tpl!Busy : r.slug = t /\ TplKnows(r) => (TplKnows(r))'
<1>1. TplSettled(t)
  BY DEF TplInv
<1>2. (Tpl!VersionsOf(t))' = Tpl!VersionsOf(t)
  BY DEF Tpl!VersionsOf
<1>3. \A n : (Tpl!Numbered(t, n))' = Tpl!Numbered(t, n)
  BY DEF Tpl!Numbered
<1>4. \A n : (Tpl!Batches(t, n))' = Tpl!Batches(t, n)
  BY DEF Tpl!Batches
<1>5. \A key : key.slug = t => (Tpl!Stored(key))' = Tpl!Stored(key)
  BY DEF Tpl!Stored
<1>6. \A v \in versions : v.key.slug = v.slug
  BY TplTypes DEF TplRows
<1>7. (TplSettled(t))'
  <2>1. \A v \in Tpl!VersionsOf(t) : (Tpl!Stored(v.key))' = Tpl!Stored(v.key)
    BY <1>5, <1>6 DEF Tpl!VersionsOf
  <2>2. \A f \in fields' : f.slug = t => f \in fields
    OBVIOUS
  <2> QED BY <1>1, <1>2, <1>3, <1>4, <2>1, <2>2 DEF TplSettled
<1>8. ASSUME NEW r \in Tpl!Busy, r.slug = t, TplKnows(r) PROVE (TplKnows(r))'
  <2>1. (Tpl!Stored(Tpl!KeyOf(r)))' = Tpl!Stored(Tpl!KeyOf(r))
    BY <1>5, <1>8 DEF Tpl!KeyOf
  <2>2. \A f, n : Tpl!Numbered(f, n) \subseteq (Tpl!Numbered(f, n))'
    BY DEF Tpl!Numbered
  <2> QED BY <1>2, <1>3, <1>4, <1>8, <2>1, <2>2 DEF TplKnows
<1> QED BY <1>7, <1>8

\* A step of request p on slug s, after which p does r.
LEMMA TplHere ==
  ASSUME TplShape, TplInv, NEW p \in Calls, NEW s \in Rows, NEW r \in {Tpl!Idle} \cup Tpl!Busy,
         work' = [work EXCEPT ![p] = r],
         work[p] # Tpl!Idle \/ r # Tpl!Idle,
         work[p] # Tpl!Idle => work[p].slug = s,
         r # Tpl!Idle => r.slug = s,
         met \subseteq met',
         versions \subseteq versions', \A v \in versions' \ versions : v.slug = s,
         \A o \in stored \cup stored' : o.key.slug # s => (o \in stored <=> o \in stored'),
         \A f \in fields \cup fields' : f.slug # s => (f \in fields <=> f \in fields'),
         s \notin met' =>
           /\ (TplSettled(s))'
           /\ r # Tpl!Idle => (TplKnows(r))'
           /\ work[p] = Tpl!Idle => \A q \in Calls : ~TplWorks(q, s)
  PROVE  TplInv'
<1>0. work \in [Calls -> {Tpl!Idle} \cup Tpl!Busy]
  BY TplTypes
<1>1. work'[p] = r /\ \A q \in Calls \ {p} : work'[q] = work[q]
  BY <1>0
<1> SUFFICES ASSUME NEW t \in Rows \ met'
             PROVE  /\ (TplSettled(t))'
                    /\ \A a, b \in Calls : (TplWorks(a, t))' /\ (TplWorks(b, t))' => a = b
                    /\ \A a \in Calls : (TplWorks(a, t))' => (TplKnows(work[a]))'
  BY DEF TplInv
<1>2. CASE t = s
  <2>1. \A q \in Calls \ {p} : ~TplWorks(q, s)
    BY <1>2 DEF TplInv, TplWorks
  <2>2. \A q \in Calls \ {p} : ~(TplWorks(q, s))'
    BY <1>1, <2>1 DEF TplWorks
  <2>3. (TplWorks(p, s))' => (TplKnows(work[p]))'
    BY <1>1, <1>2 DEF TplWorks, TplKnows
  <2> QED BY <1>2, <2>2, <2>3
<1>3. CASE t # s
  <2>1. /\ (TplSettled(t))'
        /\ \A x \in Tpl!Busy : x.slug = t /\ TplKnows(x) => (TplKnows(x))'
    BY <1>3, TplElsewhere
  <2>2. \A a \in Calls : (TplWorks(a, t))' => a # p /\ TplWorks(a, t) /\ work'[a] = work[a]
    BY <1>1, <1>3 DEF TplWorks
  <2>3. \A a, b \in Calls : TplWorks(a, t) /\ TplWorks(b, t) => a = b
    BY DEF TplInv
  <2>4. ASSUME NEW a \in Calls, (TplWorks(a, t))' PROVE (TplKnows(work[a]))'
    <3>1. TplWorks(a, t) /\ work'[a] = work[a] /\ work[a] \in Tpl!Busy /\ TplKnows(work[a])
      BY <1>0, <2>2, <2>4 DEF TplInv, TplWorks
    <3> DEFINE x == work[a]
    <3>2. PICK y \in Tpl!Busy : y = work[a]
      BY <3>1
    <3>3. (TplKnows(y))'
      BY <2>1, <3>1, <3>2 DEF TplWorks
    <3> QED BY <3>1, <3>2, <3>3 DEF TplKnows
  <2> QED BY <2>1, <2>2, <2>3, <2>4
<1> QED BY <1>2, <1>3

\* What is known and settled depends on the rows alone.
LEMMA TplSame ==
  ASSUME UNCHANGED <<versions, stored, fields>>, met \subseteq met'
  PROVE  /\ \A s : TplSettled(s) => (TplSettled(s))'
         /\ \A r : TplKnows(r) => (TplKnows(r))'
BY DEF TplSettled, TplKnows, Tpl!VersionsOf, Tpl!Numbered, Tpl!Stored, Tpl!Batches

\* A request goes on and writes no version, no PDF and no fields.
LEMMA TplQuiet ==
  ASSUME TplShape, TplInv, NEW p \in Calls, NEW r \in {Tpl!Idle} \cup Tpl!Busy,
         work' = [work EXCEPT ![p] = r], work[p] \in Tpl!Busy,
         UNCHANGED <<versions, stored, fields, met>>,
         r # Tpl!Idle => r.slug = work[p].slug,
         r # Tpl!Idle /\ work[p].slug \notin met /\ TplKnows(work[p])
                      /\ TplSettled(work[p].slug)
           => TplKnows(r)
  PROVE  TplInv'
<1>1. work[p] # Tpl!Idle /\ work[p].slug \in Rows
  BY DEF Tpl!Busy, Tpl!Idle
<1>2. PICK s \in Rows : s = work[p].slug
  BY <1>1
<1>3. s \notin met => TplKnows(work[p]) /\ TplSettled(s)
  BY <1>1, <1>2 DEF TplInv, TplWorks
<1>4. s \notin met' => (TplSettled(s))' /\ (r # Tpl!Idle => (TplKnows(r))')
  BY <1>2, <1>3, TplSame
<1> QED BY <1>1, <1>2, <1>4, TplHere

\* A request starts, and is alone or its slug is one on which two met.
LEMMA TplBeginsInv ==
  ASSUME TplShape, TplInv, NEW p \in Calls, NEW r \in Tpl!Busy, Tpl!Begin(p, r), TplKnows(r)
  PROVE  TplInv'
<1>1. PICK s \in Rows : s = r.slug
  BY DEF Tpl!Busy
<1>2. /\ work[p] = Tpl!Idle /\ r # Tpl!Idle /\ work' = [work EXCEPT ![p] = r]
      /\ UNCHANGED <<versions, stored, fields>> /\ met \subseteq met'
  BY DEF Tpl!Begin, Tpl!Become, Tpl!Busy, Tpl!Idle
<1>3. s \notin met' => \A q \in Calls : ~TplWorks(q, s)
  BY <1>1 DEF Tpl!Begin, TplWorks
<1>4. s \notin met' => (TplSettled(s))' /\ (TplKnows(r))'
  BY <1>2, TplSame DEF TplInv
<1> QED BY <1>1, <1>2, <1>3, <1>4, TplHere

\* A request that starts on a slug in use has met another.
LEMMA TplStartsInv ==
  ASSUME TplShape, TplInv, NEW p \in Calls,
         \/ \E s \in Rows, c \in Users, name \in FileNames, n \in Declared :
              Tpl!Ingest(p, s, n, c, name)
         \/ \E s \in Rows, c \in Users, name \in FileNames, dir \in {"global", "workspace"} :
              Tpl!Upload(p, s, c, name, dir)
         \/ \E s \in Rows : Tpl!Blank(p, s)
         \/ \E s, from \in Rows : Tpl!Duplicate(p, from, s)
         \/ \E kind \in {"replace", "detect"} : Tpl!Rewrite(p, kind)
  PROVE  TplInv'
<1>1. CASE \E s \in Rows, c \in Users, name \in FileNames, n \in Declared :
             Tpl!Ingest(p, s, n, c, name)
  <2>1. PICK s \in Rows, c \in Users, name \in FileNames, n \in Declared :
               Tpl!Ingest(p, s, n, c, name)
    BY <1>1
  <2> DEFINE r == Tpl!Asked("ingest", "upsert", s, n, c, name, "global")
  <2>2. r \in Tpl!Busy /\ TplKnows(r)
    BY OfficeAssumption DEF Tpl!Asked, Tpl!Busy, TplKnows
  <2> QED BY <2>1, <2>2, TplBeginsInv DEF Tpl!Ingest
<1>2. CASE \E s \in Rows, c \in Users, name \in FileNames, dir \in {"global", "workspace"} :
             Tpl!Upload(p, s, c, name, dir)
  <2>1. PICK s \in Rows, c \in Users, name \in FileNames, dir \in {"global", "workspace"} :
               Tpl!Upload(p, s, c, name, dir)
    BY <1>2
  <2> DEFINE r == Tpl!Asked("upload", "check", s, 1, c, name, dir)
  <2>2. r \in Tpl!Busy /\ TplKnows(r)
    BY DEF Tpl!Asked, Tpl!Busy, TplKnows
  <2> QED BY <2>1, <2>2, TplBeginsInv DEF Tpl!Upload
<1>3. CASE \E s \in Rows : Tpl!Blank(p, s)
  <2>1. PICK s \in Rows : Tpl!Blank(p, s)
    BY <1>3
  <2> DEFINE r == Tpl!Asked("blank", "check", s, 0, Tpl!None, Tpl!None, "workspace")
  <2>2. r \in Tpl!Busy /\ TplKnows(r)
    BY DEF Tpl!Asked, Tpl!Busy, TplKnows
  <2> QED BY <2>1, <2>2, TplBeginsInv DEF Tpl!Blank
<1>4. CASE \E s, from \in Rows : Tpl!Duplicate(p, from, s)
  <2>1. PICK s \in Rows, from \in Rows : Tpl!Duplicate(p, from, s)
    BY <1>4
  <2> DEFINE r(v) == [Tpl!Asked("copy", "check", s, 1, v.content, v.key.name, "workspace")
                        EXCEPT !.from = from, !.of = v.number]
  <2>2. PICK v \in Tpl!Newest(from) : Tpl!Begin(p, r(v))
    BY <2>1 DEF Tpl!Duplicate
  <2>3. v \in Tpl!VersionRows
    BY TplTypes DEF Tpl!Newest, Tpl!VersionsOf
  <2>4. r(v) \in Tpl!Busy
    BY <2>3 DEF Tpl!Asked, Tpl!Busy, Tpl!VersionRows, Tpl!Keys
  <2>5. r(v).pc = "check"
    BY DEF Tpl!Asked
  <2> HIDE DEF r
  <2>6. TplKnows(r(v))
    BY <2>5 DEF TplKnows
  <2> QED BY <2>2, <2>4, <2>6, TplBeginsInv
<1>5. CASE \E kind \in {"replace", "detect"} : Tpl!Rewrite(p, kind)
  <2> DEFINE r(v, kind) == Tpl!Asked(kind, IF kind = "detect" THEN "read" ELSE "clear",
                             v.slug, v.number, v.content, v.key.name, v.key.dir)
  <2>1. PICK kind \in {"replace", "detect"}, v \in versions : Tpl!Begin(p, r(v, kind))
    BY <1>5 DEF Tpl!Rewrite
  <2>2. v \in Tpl!VersionRows
    BY TplTypes
  <2>3. r(v, kind) \in Tpl!Busy
    BY <2>2 DEF Tpl!Asked, Tpl!Busy, Tpl!VersionRows, Tpl!Keys
  <2>4. \E w \in Tpl!Numbered(v.slug, v.number) : w.content = v.content
    BY DEF Tpl!Numbered
  <2>5. TplKnows(r(v, kind))
    BY <2>4 DEF Tpl!Asked, TplKnows
  <2> QED BY <2>1, <2>3, <2>5, TplBeginsInv
<1> QED BY <1>1, <1>2, <1>3, <1>4, <1>5

\* A request looks something up, or makes the template's row.
LEMMA TplReadsInv ==
  ASSUME TplShape, TplInv, NEW p \in Calls,
         \/ Tpl!Upsert(p) \/ Tpl!FindHash(p) \/ Tpl!FindSlot(p) \/ Tpl!FindMax(p)
         \/ Tpl!Check(p) \/ Tpl!InsertTemplate(p) \/ Tpl!ReadPdf(p) \/ Tpl!Fail(p)
  PROVE  TplInv'
<1> DEFINE q == work[p]
<1>0. q \in Tpl!Busy /\ TplRequest(q) /\ q.slug \in Rows
  <2>1. CASE Tpl!Fail(p)
    BY <2>1, TplTypes DEF Tpl!Fail, TplShape, Tpl!Busy
  <2> QED BY <2>1, TplBusy DEF Tpl!Upsert, Tpl!FindHash, Tpl!FindSlot, Tpl!FindMax,
            Tpl!Check, Tpl!InsertTemplate, Tpl!ReadPdf
<1>u. UNCHANGED <<versions, stored, fields, met>>
  BY DEF Tpl!Upsert, Tpl!FindHash, Tpl!FindSlot, Tpl!FindMax, Tpl!Check,
         Tpl!InsertTemplate, Tpl!ReadPdf, Tpl!Fail
<1>d. CASE Tpl!Done(p)
  BY <1>0, <1>d, <1>u, TplQuiet DEF Tpl!Done
<1>g. ASSUME NEW pc \in {"hash", "slot", "max", "put", "insertTemplate"},
             Tpl!Goto(p, pc),
             NEW r \in Tpl!Busy, r = [q EXCEPT !.pc = pc],
             TplKnows(q) /\ TplSettled(q.slug) => TplKnows(r)
      PROVE  TplInv'
  <2>1. PICK x \in Tpl!Busy : work' = [work EXCEPT ![p] = x] /\ x = [q EXCEPT !.pc = pc]
    BY <1>0, <1>g, TplAt
  <2>2. x.slug = q.slug /\ x = r
    BY <1>0, <1>g, <2>1 DEF Tpl!Busy
  <2> QED BY <1>0, <1>u, <1>g, <2>1, <2>2, TplQuiet
<1>r. ASSUME NEW pc \in {"hash", "slot", "max", "put", "insertTemplate"}
      PROVE  \E r \in Tpl!Busy :
               /\ r = [q EXCEPT !.pc = pc]
               /\ r.pc = pc /\ r.slug = q.slug /\ r.number = q.number
               /\ r.content = q.content /\ r.kind = q.kind /\ r.from = q.from /\ r.of = q.of
  <2> DEFINE x == [q EXCEPT !.pc = pc]
  <2>1. /\ x \in Tpl!Busy /\ x.pc = pc /\ x.slug = q.slug /\ x.number = q.number
        /\ x.content = q.content /\ x.kind = q.kind /\ x.from = q.from /\ x.of = q.of
    BY <1>0, <1>r DEF Tpl!Busy
  <2>2. x = [q EXCEPT !.pc = pc]
    OBVIOUS
  <2> HIDE DEF x
  <2> QED BY <2>1, <2>2
<1>1. CASE Tpl!Upsert(p)
  <2>1. PICK r \in Tpl!Busy : r = [q EXCEPT !.pc = "hash"] /\ r.pc = "hash"
    BY <1>r
  <2>2. TplKnows(r)
    BY <2>1 DEF TplKnows
  <2> QED BY <1>1, <1>g, <2>1, <2>2 DEF Tpl!Upsert
<1>2. CASE Tpl!FindHash(p) /\ ~Tpl!Done(p)
  <2>1. PICK r \in Tpl!Busy :
               /\ r = [q EXCEPT !.pc = "slot"]
               /\ r.pc = "slot" /\ r.slug = q.slug /\ r.content = q.content
    BY <1>r
  <2>2. \A v \in Tpl!VersionsOf(q.slug) : v.content # q.content
    BY <1>2 DEF Tpl!FindHash
  <2>3. TplKnows(r)
    BY <2>1, <2>2 DEF TplKnows
  <2> QED BY <1>2, <1>g, <2>1, <2>3 DEF Tpl!FindHash
<1>3. CASE Tpl!FindSlot(p)
  <2>1. CASE \E v \in Tpl!Numbered(q.slug, q.number) : v.content # q.content
    <3>1. PICK r \in Tpl!Busy :
               /\ r = [q EXCEPT !.pc = "max"]
               /\ r.pc = "max" /\ r.slug = q.slug /\ r.content = q.content
      BY <1>r
    <3>2. TplKnows(q) => TplKnows(r)
      BY <1>3, <3>1 DEF TplKnows, Tpl!FindSlot
    <3> QED BY <1>3, <1>g, <2>1, <3>1, <3>2 DEF Tpl!FindSlot
  <2>2. CASE ~ \E v \in Tpl!Numbered(q.slug, q.number) : v.content # q.content
    <3>1. PICK r \in Tpl!Busy :
               /\ r = [q EXCEPT !.pc = "put"]
               /\ r.pc = "put" /\ r.slug = q.slug /\ r.number = q.number
               /\ r.content = q.content /\ r.kind = q.kind
      BY <1>r
    <3>2. q.kind = "ingest"
      BY <1>0, <1>3 DEF TplRequest, Tpl!FindSlot
    <3>3. ASSUME TplKnows(q) PROVE TplKnows(r)
      <4>1. \A v \in Tpl!VersionsOf(q.slug) : v.content # q.content
        BY <1>3, <3>3 DEF TplKnows, Tpl!FindSlot
      <4>2. Tpl!Numbered(q.slug, q.number) = {}
        BY <2>2, <4>1 DEF Tpl!Numbered, Tpl!VersionsOf
      <4> QED BY <3>1, <3>2, <4>1, <4>2 DEF TplKnows
    <3> QED BY <1>3, <1>g, <2>2, <3>1, <3>3 DEF Tpl!FindSlot
  <2> QED BY <2>1, <2>2
<1>4. CASE Tpl!FindMax(p)
  <2>1. PICK n \in Nat :
          /\ work' = [work EXCEPT ![p] = [q EXCEPT !.number = n, !.pc = "put"]]
          /\ Tpl!Numbered(q.slug, n) = {}
    <3>1. ASSUME NEW v \in Tpl!Newest(q.slug)
          PROVE  v.number + 1 \in Nat /\ Tpl!Numbered(q.slug, v.number + 1) = {}
      <4>1. \A w \in versions : w.number \in Nat
        BY TplTypes DEF Tpl!VersionRows
      <4> QED BY <3>1, <4>1 DEF Tpl!Newest, Tpl!VersionsOf, Tpl!Numbered
    <3>2. ASSUME Tpl!Newest(q.slug) = {}
          PROVE  Tpl!Numbered(q.slug, 1) = {}
      <4>1. Tpl!VersionsOf(q.slug) = {}
        BY <1>0, <3>2, TplTypes DEF TplRows
      <4> QED BY <4>1 DEF Tpl!VersionsOf, Tpl!Numbered
    <3> QED BY <1>4, <3>1, <3>2 DEF Tpl!FindMax, Tpl!Become
  <2> DEFINE r == [q EXCEPT !.number = n, !.pc = "put"]
  <2>2. /\ r \in Tpl!Busy /\ r.pc = "put" /\ r.slug = q.slug /\ r.number = n
        /\ r.content = q.content /\ r.kind = q.kind
    BY <1>0 DEF Tpl!Busy
  <2>3. q.kind = "ingest" /\ q.pc = "max"
    BY <1>0, <1>4 DEF TplRequest, Tpl!FindMax
  <2>4. work' = [work EXCEPT ![p] = r]
    BY <2>1
  <2> HIDE DEF r
  <2>5. TplKnows(q) => TplKnows(r)
    BY <2>1, <2>2, <2>3 DEF TplKnows
  <2> QED BY <1>0, <1>u, <2>2, <2>4, <2>5, TplQuiet
<1>5. CASE Tpl!Check(p) /\ ~Tpl!Done(p) /\ q.kind # "copy"
  <2>1. PICK r \in Tpl!Busy :
               /\ r = [q EXCEPT !.pc = "insertTemplate"]
               /\ r.pc = "insertTemplate" /\ r.kind = q.kind
    BY <1>r
  <2>2. TplKnows(r)
    BY <1>5, <2>1 DEF TplKnows
  <2> QED BY <1>5, <1>g, <2>1, <2>2 DEF Tpl!Check
<1>6. CASE Tpl!Check(p) /\ ~Tpl!Done(p) /\ q.kind = "copy"
  <2>1. PICK c \in UNION { Tpl!Stored(v.key) : v \in Tpl!Numbered(q.from, q.of) } :
          work' = [work EXCEPT ![p] = [q EXCEPT !.content = c, !.pc = "insertTemplate"]]
    BY <1>6 DEF Tpl!Check, Tpl!Become
  <2>2. PICK v \in Tpl!Numbered(q.from, q.of) : c \in Tpl!Stored(v.key)
    BY <2>1
  <2>3. q.from \notin met => c = v.content
    <3>1. q.from \in Rows
      BY <1>0, <1>6 DEF TplRequest
    <3>2. v \in Tpl!VersionsOf(q.from)
      BY DEF Tpl!Numbered, Tpl!VersionsOf
    <3> QED BY <2>2, <3>1, <3>2 DEF TplInv, TplSettled
  <2> DEFINE r == [q EXCEPT !.content = c, !.pc = "insertTemplate"]
  <2>4. c \in Users
    BY <2>2, TplTypes DEF Tpl!Stored
  <2>5. /\ r \in Tpl!Busy /\ r.pc = "insertTemplate" /\ r.slug = q.slug
        /\ r.content = c /\ r.from = q.from /\ r.of = q.of
    BY <1>0, <2>4 DEF Tpl!Busy
  <2>6. work' = [work EXCEPT ![p] = r]
    BY <2>1
  <2> HIDE DEF r
  <2>7. TplKnows(r)
    BY <2>3, <2>5 DEF TplKnows
  <2> QED BY <1>0, <1>u, <2>5, <2>6, <2>7, TplQuiet
<1>7. CASE Tpl!InsertTemplate(p) /\ ~Tpl!Done(p)
  <2>1. PICK r \in Tpl!Busy :
               /\ r = [q EXCEPT !.pc = "put"]
               /\ r.pc = "put" /\ r.slug = q.slug /\ r.number = q.number
               /\ r.content = q.content /\ r.kind = q.kind /\ r.from = q.from /\ r.of = q.of
    BY <1>r
  <2>2. Tpl!VersionsOf(q.slug) = {}
    BY <1>7, TplTypes DEF Tpl!InsertTemplate, TplRows, Tpl!VersionsOf
  <2>3. Tpl!Numbered(q.slug, q.number) = {}
    BY <2>2 DEF Tpl!VersionsOf, Tpl!Numbered
  <2>4. TplKnows(q) => TplKnows(r)
    BY <1>7, <2>1, <2>2, <2>3 DEF TplKnows, Tpl!InsertTemplate
  <2> QED BY <1>7, <1>g, <2>1, <2>4 DEF Tpl!InsertTemplate
<1>8. CASE Tpl!ReadPdf(p) /\ ~Tpl!Done(p)
  <2>1. PICK c \in UNION { Tpl!Stored(v.key) : v \in Tpl!Numbered(q.slug, q.number) } :
          work' = [work EXCEPT ![p] = [q EXCEPT !.content = c, !.pc = "clear"]]
    BY <1>8 DEF Tpl!ReadPdf, Tpl!Become
  <2>2. PICK v \in Tpl!Numbered(q.slug, q.number) : c \in Tpl!Stored(v.key)
    BY <2>1
  <2>3. TplSettled(q.slug) => c = v.content
    BY <2>2 DEF TplSettled, Tpl!Numbered, Tpl!VersionsOf
  <2> DEFINE r == [q EXCEPT !.content = c, !.pc = "clear"]
  <2>4. c \in Users
    BY <2>2, TplTypes DEF Tpl!Stored
  <2>5. /\ r \in Tpl!Busy /\ r.pc = "clear" /\ r.slug = q.slug
        /\ r.content = c /\ r.number = q.number
    BY <1>0, <2>4 DEF Tpl!Busy
  <2>6. work' = [work EXCEPT ![p] = r]
    BY <2>1
  <2> HIDE DEF r
  <2>7. TplSettled(q.slug) => TplKnows(r)
    BY <2>3, <2>5 DEF TplKnows
  <2> QED BY <1>0, <1>u, <2>5, <2>6, <2>7, TplQuiet
<1> QED BY <1>d, <1>1, <1>2, <1>3, <1>4, <1>5, <1>6, <1>7, <1>8
        DEF Tpl!Upsert, Tpl!Fail

\* A PDF put under a free key is the row's that follows.
LEMMA TplPutsInv ==
  ASSUME TplShape, TplInv, NEW p \in Calls, Tpl!Put(p)
  PROVE  TplInv'
<1> DEFINE q == work[p]
<1>0. q \in Tpl!Busy /\ TplRequest(q) /\ q.pc = "put" /\ q # Tpl!Idle
  BY TplBusy DEF Tpl!Put, Tpl!Idle
<1>1. UNCHANGED <<template, versions, fields, met>>
  BY DEF Tpl!Put
<1>2. PICK r \in Tpl!Busy :
        work' = [work EXCEPT ![p] = r] /\ r = [q EXCEPT !.pc = "insertVersion"]
  BY <1>0, TplAt DEF Tpl!Put
<1>3. PICK s \in Rows : s = q.slug
  BY <1>0 DEF Tpl!Busy
<1>4. PICK key : key = Tpl!KeyOf(q)
  OBVIOUS
<1>5. PICK c : c = q.content
  OBVIOUS
<1>6. stored' = { o \in stored : o.key # key } \cup {[key |-> key, content |-> c]}
  BY <1>4, <1>5 DEF Tpl!Put
<1>7. key.slug = s /\ key.number = q.number
  BY <1>3, <1>4 DEF Tpl!KeyOf
<1>8. \A o \in stored \cup stored' : o.key.slug # s => (o \in stored <=> o \in stored')
  BY <1>6, <1>7
<1>9. /\ r.pc = "insertVersion" /\ r.slug = s /\ r.number = q.number /\ r.content = c
      /\ r.kind = q.kind /\ r.from = q.from /\ r.of = q.of /\ Tpl!KeyOf(r) = key
  BY <1>0, <1>2, <1>3, <1>4, <1>5 DEF Tpl!Busy, Tpl!KeyOf
<1>10. ASSUME s \notin met
       PROVE  (TplSettled(s))' /\ (TplKnows(r))'
  <2>1. TplSettled(s) /\ TplKnows(q)
    BY <1>0, <1>3, <1>10 DEF TplInv, TplWorks
  <2>2. Tpl!Numbered(s, q.number) = {}
    BY <1>0, <1>3, <2>1 DEF TplKnows
  <2>3. \A v \in Tpl!VersionsOf(s) : v.key # key
    BY <1>7, <2>2, TplTypes DEF TplRows, Tpl!VersionsOf, Tpl!Numbered
  <2>4. \A k : k # key => (Tpl!Stored(k))' = Tpl!Stored(k)
    BY <1>6 DEF Tpl!Stored
  <2>5. (TplSettled(s))'
    BY <1>1, <2>1, <2>3, <2>4
    DEF TplSettled, Tpl!VersionsOf, Tpl!Numbered, Tpl!Batches
  <2>6. (Tpl!Stored(key))' = {c}
    <3>1. PICK x : x = [key |-> key, content |-> c]
      OBVIOUS
    <3>2. x.key = key /\ x.content = c
      BY <3>1
    <3>3. stored' = { o \in stored : o.key # key } \cup {x}
      BY <1>6, <3>1
    <3>4. { o \in stored' : o.key = key } = {x}
      BY <3>2, <3>3
    <3> QED BY <3>2, <3>4 DEF Tpl!Stored
  <2>7. (TplKnows(r))'
    BY <1>0, <1>1, <1>3, <1>5, <1>9, <2>1, <2>6
    DEF TplKnows, Tpl!VersionsOf, Tpl!Numbered
  <2> QED BY <2>5, <2>7
<1> QED BY <1>0, <1>1, <1>2, <1>3, <1>8, <1>9, <1>10, TplHere

\* The row that is inserted has the PDF in storage.
LEMMA TplVersionsInv ==
  ASSUME TplShape, TplInv, NEW p \in Calls, Tpl!InsertVersion(p)
  PROVE  TplInv'
<1> DEFINE q == work[p]
<1>0. /\ q \in Tpl!Busy /\ TplRequest(q) /\ q.pc = "insertVersion" /\ q.slug \in Rows
      /\ UNCHANGED <<template, stored, fields, met>> /\ q # Tpl!Idle
  BY TplInsertion DEF Tpl!Idle
<1>1. CASE versions' = versions /\ work' = [work EXCEPT ![p] = Tpl!Idle]
  BY <1>0, <1>1, TplQuiet
<1>2. CASE /\ TplVersion(q) \in Tpl!VersionRows
           /\ versions' = versions \cup {TplVersion(q)}
  <2>1. PICK x \in Tpl!VersionRows : x = TplVersion(q)
    BY <1>2
  <2>2. PICK s \in Rows : s = q.slug
    BY <1>0
  <2>3. PICK c : c = q.content
    OBVIOUS
  <2>4. x.slug = s /\ x.number = q.number /\ x.content = c /\ x.key = Tpl!KeyOf(q)
    BY <2>1, <2>2, <2>3 DEF TplVersion
  <2>5. versions' = versions \cup {x}
    BY <1>2, <2>1
  <2>6. ASSUME s \notin met PROVE TplSettled(s) /\ TplKnows(q)
    BY <1>0, <2>2, <2>6 DEF TplInv, TplWorks
  <2>7. s \notin met => (TplSettled(s))'
    <3>1. ASSUME s \notin met PROVE Tpl!Stored(x.key) = {x.content}
      BY <1>0, <2>3, <2>4, <2>6, <3>1 DEF TplKnows
    <3>2. (Tpl!VersionsOf(s))' = Tpl!VersionsOf(s) \cup {x}
      BY <2>4, <2>5 DEF Tpl!VersionsOf
    <3>3. \A k : (Tpl!Stored(k))' = Tpl!Stored(k)
      BY <1>0 DEF Tpl!Stored
    <3>4. \A n : Tpl!Numbered(s, n) \subseteq (Tpl!Numbered(s, n))'
                 /\ (Tpl!Batches(s, n))' = Tpl!Batches(s, n)
      BY <1>0, <2>5 DEF Tpl!Numbered, Tpl!Batches
    <3> QED BY <1>0, <2>6, <3>1, <3>2, <3>3, <3>4 DEF TplSettled
  <2>8. ASSUME NEW r \in {Tpl!Idle} \cup Tpl!Busy, work' = [work EXCEPT ![p] = r],
               r # Tpl!Idle => r.slug = s /\ (s \notin met => (TplKnows(r))')
        PROVE  TplInv'
    BY <1>0, <2>2, <2>4, <2>5, <2>7, <2>8, TplHere
  <2>9. CASE work' = [work EXCEPT ![p] = Tpl!Idle]
    BY <2>8, <2>9
  <2>10. ASSUME NEW pc \in {"clear", "copyFields"}, NEW r \in Tpl!Busy,
                work' = [work EXCEPT ![p] = r], r = [q EXCEPT !.pc = pc]
         PROVE  TplInv'
    <3>1. /\ r.pc = pc /\ r.slug = s /\ r.number = q.number /\ r.content = c
          /\ r.kind = q.kind /\ r.from = q.from /\ r.of = q.of
      BY <1>0, <2>2, <2>3, <2>10 DEF Tpl!Busy
    <3>2. ASSUME s \notin met PROVE (TplKnows(r))'
      <4>1. x \in (Tpl!Numbered(r.slug, r.number))'
        BY <2>4, <2>5, <3>1 DEF Tpl!Numbered
      <4>2. (Tpl!Batches(r.slug, r.number))' = {}
        <5>1. Tpl!Numbered(s, q.number) = {}
          BY <1>0, <2>2, <2>6, <3>2 DEF TplKnows
        <5>2. Tpl!Batches(s, q.number) = {}
          BY <5>1, TplTypes DEF TplRows, Tpl!Batches
        <5> QED BY <1>0, <3>1, <5>2 DEF Tpl!Batches
      <4>3. r.kind = "copy" /\ r.from \notin met
            => \E v \in (Tpl!Numbered(r.from, r.of))' : v.content = r.content
        <5>1. r.kind = "copy" /\ r.from \notin met
              => \E v \in Tpl!Numbered(r.from, r.of) : v.content = r.content
          BY <1>0, <2>3, <2>6, <3>1, <3>2 DEF TplKnows
        <5> QED BY <2>5, <5>1 DEF Tpl!Numbered
      <4> QED BY <1>0, <2>4, <3>1, <4>1, <4>2, <4>3 DEF TplKnows
    <3> QED BY <2>8, <2>10, <3>1, <3>2
  <2> QED BY <2>9, <2>10, TplInsertion, <1>1
<1> QED BY <1>1, <1>2, TplInsertion

\* The fields of a source of which one rewrite is known are one, and so is its copy.
LEMMA TplCopiesOne ==
  ASSUME TplShape, TplInv, NEW r \in Tpl!Busy, r.from \in Rows \ met,
         \E v \in Tpl!Numbered(r.from, r.of) : v.content = r.content
  PROVE  \A f, g \in TplCopied(r) : f = g /\ f.on = r.content
<1>1. PICK v \in Tpl!Numbered(r.from, r.of) : v.content = r.content
  OBVIOUS
<1>2. TplSettled(r.from)
  BY DEF TplInv
<1>3. \A f \in Tpl!SourceFields(r) :
        f \in fields /\ f.slug = r.from /\ f.number = r.of
  BY DEF Tpl!SourceFields, Tpl!Batches
<1>4. \A f, g \in Tpl!SourceFields(r) : f = g
  BY <1>2, <1>3 DEF TplSettled, Tpl!SourceFields
<1>5. \A f \in Tpl!SourceFields(r) : f.on = r.content
  BY <1>1, <1>2, <1>3, TplTypes DEF TplSettled, TplRows, Tpl!Numbered
<1> QED BY <1>4, <1>5 DEF TplCopied, Tpl!Batch

\* Fields are copied, or deleted and made, on one PDF.
LEMMA TplFieldsInv ==
  ASSUME TplShape, TplInv, NEW p \in Calls,
         Tpl!CopyFields(p) \/ Tpl!Clear(p) \/ Tpl!Fill(p)
  PROVE  TplInv'
<1> DEFINE q == work[p]
<1>0. /\ q \in Tpl!Busy /\ TplRequest(q) /\ q # Tpl!Idle
      /\ q.pc \in {"copyFields", "clear", "fill"}
  BY TplBusy DEF Tpl!CopyFields, Tpl!Clear, Tpl!Fill, Tpl!Idle
<1>1. UNCHANGED <<template, versions, stored>> /\ met \subseteq met'
  BY DEF Tpl!CopyFields, Tpl!Clear, Tpl!Fill
<1>2. PICK s \in Rows, n \in Nat : s = q.slug /\ n = q.number
  BY <1>0 DEF Tpl!Busy
<1>3. s \notin met => TplSettled(s) /\ TplKnows(q)
  BY <1>0, <1>2 DEF TplInv, TplWorks
<1>4. s \notin met => \E v \in Tpl!Numbered(s, n) : v.content = q.content
  BY <1>0, <1>2, <1>3 DEF TplKnows
<1>5. ASSUME NEW r \in {Tpl!Idle} \cup Tpl!Busy, work' = [work EXCEPT ![p] = r],
             \A f \in fields \cup fields' : f.slug # s => (f \in fields <=> f \in fields'),
             s \notin met' => (TplSettled(s))',
             r # Tpl!Idle => r.slug = s /\ (s \notin met' => (TplKnows(r))')
      PROVE  TplInv'
  BY <1>0, <1>1, <1>2, <1>5, TplHere
\* New fields of the version, one at most, where there were none.
<1>6. ASSUME Tpl!Batches(s, n) = {} \/ s \in met', NEW new,
             \A f \in new : f.slug = s /\ f.number = n,
             s \notin met' => \A f, g \in new : f = g /\ f.on = q.content,
             fields' = fields \cup new, Tpl!Done(p)
      PROVE  TplInv'
  <2>1. ASSUME s \notin met' PROVE (TplSettled(s))'
    <3>1. TplSettled(s) /\ Tpl!Batches(s, n) = {}
      BY <1>1, <1>3, <1>6, <2>1
    <3>2. ASSUME NEW f \in fields', f.slug = s
          PROVE  /\ \A g \in fields' : g.slug = s /\ g.number = f.number => g = f
                 /\ \E v \in Tpl!Numbered(s, f.number) : v.content = f.on
      <4>1. CASE f \in fields
        <5>1. Tpl!Batches(s, f.number) = {f} /\ f.number # n
          BY <3>1, <3>2, <4>1 DEF TplSettled, Tpl!Batches
        <5> QED BY <1>6, <3>1, <3>2, <4>1, <5>1 DEF TplSettled, Tpl!Batches
      <4>2. CASE f \in new
        <5>1. f.number = n /\ f.on = q.content
          BY <1>6, <2>1, <4>2
        <5>2. \A g \in fields : ~(g.slug = s /\ g.number = n)
          BY <3>1 DEF Tpl!Batches
        <5>3. \E v \in Tpl!Numbered(s, f.number) : v.content = f.on
          BY <1>1, <1>4, <2>1, <5>1
        <5> QED BY <1>6, <2>1, <4>2, <5>1, <5>2, <5>3
      <4> QED BY <1>6, <3>2, <4>1, <4>2
    <3>3. \A v \in Tpl!VersionsOf(s) : Tpl!Stored(v.key) = {v.content}
      BY <3>1 DEF TplSettled
    <3> QED BY <1>1, <3>2, <3>3
        DEF TplSettled, Tpl!VersionsOf, Tpl!Stored, Tpl!Numbered, Tpl!Batches
  <2> QED BY <1>5, <1>6, <2>1 DEF Tpl!Done
<1>7. CASE Tpl!CopyFields(p)
  <2>1. q.pc = "copyFields" /\ q.kind = "copy" /\ q.from \in Rows
    BY <1>0, <1>7 DEF Tpl!CopyFields, TplRequest
  <2>2. s \notin met => Tpl!Batches(s, n) = {}
    BY <1>2, <1>3, <2>1 DEF TplKnows
  <2>3. CASE fields' = fields \cup TplCopied(q) /\ Tpl!Done(p)
    <3>1. \A f \in TplCopied(q) : f.slug = s /\ f.number = n
      BY <1>2 DEF TplCopied, Tpl!Batch
    <3>2. ASSUME s \notin met'
          PROVE  \A f, g \in TplCopied(q) : f = g /\ f.on = q.content
      <4>1. s \notin met /\ q.from \notin met
        BY <1>1, <1>2, <1>7, <3>2 DEF Tpl!CopyFields
      <4>2. \E v \in Tpl!Numbered(q.from, q.of) : v.content = q.content
        BY <1>3, <2>1, <4>1 DEF TplKnows
      <4> QED BY <1>0, <2>1, <4>1, <4>2, TplCopiesOne
    <3> QED BY <1>1, <1>6, <2>2, <2>3, <3>1, <3>2
  <2>4. CASE fields' = fields /\ Tpl!Goto(p, "clear")
    <3>1. PICK r \in Tpl!Busy : work' = [work EXCEPT ![p] = r] /\ r = [q EXCEPT !.pc = "clear"]
      BY <1>0, <2>4, TplAt
    <3>2. r.pc = "clear" /\ r.slug = s /\ r.number = n /\ r.content = q.content
      BY <1>0, <1>2, <3>1 DEF Tpl!Busy
    <3>3. s \notin met => TplKnows(r) /\ TplSettled(s)
      BY <1>3, <1>4, <3>2 DEF TplKnows
    <3>4. s \notin met' => (TplKnows(r))' /\ (TplSettled(s))'
      BY <1>1, <2>4, <3>3, TplSame
    <3> QED BY <1>5, <2>4, <3>1, <3>2, <3>4
  <2> QED BY <1>7, <2>3, <2>4 DEF Tpl!CopyFields, TplCopied
<1>8. CASE Tpl!Clear(p)
  <2>1. fields' = { f \in fields : ~(f.slug = s /\ f.number = n) } /\ met' = met
    BY <1>2, <1>8 DEF Tpl!Clear, Tpl!Cleared, Tpl!Batches
  <2>2. \A f \in fields \cup fields' : f.slug # s => (f \in fields <=> f \in fields')
    BY <2>1
  <2>3. ASSUME s \notin met' PROVE (TplSettled(s))'
    <3>1. TplSettled(s)
      BY <1>3, <2>1, <2>3
    <3>2. \A f \in fields' : f.slug = s => (Tpl!Batches(s, f.number))' = {f}
      <4>1. \A f \in fields' : f.slug = s => Tpl!Batches(s, f.number) = {f}
        BY <2>1, <3>1 DEF TplSettled
      <4> QED BY <2>1, <4>1 DEF Tpl!Batches
    <3>3. \A f \in fields' : f.slug = s => \E v \in Tpl!Numbered(s, f.number) : v.content = f.on
      BY <2>1, <3>1 DEF TplSettled
    <3>4. \A v \in Tpl!VersionsOf(s) : Tpl!Stored(v.key) = {v.content}
      BY <3>1 DEF TplSettled
    <3> QED BY <1>1, <3>2, <3>3, <3>4
        DEF TplSettled, Tpl!VersionsOf, Tpl!Stored, Tpl!Numbered
  <2>4. CASE Tpl!Done(p)
    BY <1>5, <2>2, <2>3, <2>4 DEF Tpl!Done
  <2>5. CASE Tpl!Goto(p, "fill")
    <3>1. PICK r \in Tpl!Busy : work' = [work EXCEPT ![p] = r] /\ r = [q EXCEPT !.pc = "fill"]
      BY <1>0, <2>5, TplAt
    <3>2. r.pc = "fill" /\ r.slug = s /\ r.number = n /\ r.content = q.content
      BY <1>0, <1>2, <3>1 DEF Tpl!Busy
    <3>3. (Tpl!Batches(s, n))' = {}
      BY <2>1 DEF Tpl!Batches
    <3>4. s \notin met => \E v \in (Tpl!Numbered(s, n))' : v.content = r.content
      BY <1>1, <1>4, <3>2 DEF Tpl!Numbered
    <3>5. s \notin met => (TplKnows(r))'
      BY <3>2, <3>3, <3>4 DEF TplKnows
    <3> QED BY <1>5, <2>1, <2>2, <2>3, <3>1, <3>2, <3>5
  <2> QED BY <1>8, <2>4, <2>5 DEF Tpl!Clear
<1>9. CASE Tpl!Fill(p)
  <2>1. PICK m : m = Tpl!Cardinality(Tpl!Batches(q.slug, q.number)) + 1
    OBVIOUS
  <2> DEFINE f == Tpl!Batch(q, q.content, m)
  <2>2. fields' = fields \cup {f} /\ Tpl!Done(p) /\ met' = met
    BY <1>9, <2>1 DEF Tpl!Fill
  <2>3. f.slug = s /\ f.number = n /\ f.on = q.content
    BY <1>2 DEF Tpl!Batch
  <2>4. s \notin met => Tpl!Batches(s, n) = {}
    BY <1>2, <1>3, <1>9 DEF TplKnows, Tpl!Fill
  <2> HIDE DEF f
  <2>5. \A g, h \in {f} : g = h /\ g.on = q.content /\ g.slug = s /\ g.number = n
    BY <2>3
  <2> QED BY <1>6, <2>2, <2>4, <2>5
<1> QED BY <1>7, <1>8, <1>9

\* Every step of Templates keeps TplInv.
LEMMA TplInvStep ==
  ASSUME TplShape, TplInv, [Tpl!Next]_(Tpl!templateVars)
  PROVE  TplInv'
<1>1. CASE UNCHANGED Tpl!templateVars
  <2>1. UNCHANGED <<template, versions, stored, fields, work, met>>
    BY <1>1 DEF Tpl!templateVars
  <2>2. \A s : TplSettled(s) => (TplSettled(s))'
    BY <2>1, TplSame
  <2>3. \A p \in Calls : TplKnows(work[p]) => (TplKnows(work[p]))'
    BY <2>1 DEF TplKnows, Tpl!VersionsOf, Tpl!Numbered, Tpl!Stored, Tpl!Batches
  <2> QED BY <2>1, <2>2, <2>3 DEF TplInv, TplWorks
<1>2. CASE Tpl!Next
  BY <1>2, TplStartsInv, TplReadsInv, TplPutsInv, TplVersionsInv, TplFieldsInv DEF Tpl!Next
<1> QED BY <1>1, <1>2

LEMMA TplInvKept == Tpl!Spec => []TplInv
<1>1. Tpl!Init => TplInv
  BY DEF Tpl!Init, TplInv, TplSettled, TplWorks, Tpl!VersionsOf
<1>2. TplShape /\ TplInv /\ [Tpl!Next]_(Tpl!templateVars) => TplInv'
  BY TplInvStep
<1> QED BY <1>1, <1>2, TplShapeKept, PTL DEF Tpl!Spec

\* TplInv is what the two properties of templates need.
LEMMA TplInvEnough == TplShape /\ TplInv => Tpl!PdfsMatchHash /\ Tpl!FieldsFit
<1> SUFFICES ASSUME TplShape, TplInv PROVE Tpl!PdfsMatchHash /\ Tpl!FieldsFit
  OBVIOUS
<1>1. \A s \in Rows \ met : TplSettled(s)
  BY DEF TplInv
<1>2. Tpl!PdfsMatchHash
  <2>1. \A v \in versions : v.slug \in Rows /\ v \in Tpl!VersionsOf(v.slug)
    BY TplTypes DEF Tpl!VersionRows, Tpl!VersionsOf
  <2> QED BY <1>1, <2>1 DEF Tpl!PdfsMatchHash, TplSettled
<1>3. Tpl!FieldsFit
  <2>1. \A f \in fields : f.slug \in Rows
    BY TplTypes DEF Tpl!FieldRows
  <2> QED BY <1>1, <2>1 DEF Tpl!FieldsFit, TplSettled
<1> QED BY <1>2, <1>3

(***************************************************************************)
(* Accounts: what a request is made of, and what its rows are.             *)
(***************************************************************************)

AccJoins ==
  [pc : {"email", "slug", "signup", "free", "open"}, merge : {"none"},
   user : Users, slug : Acc!Slugs]

AccPatches ==
  [pc : {"conflict", "rename", "answered"}, merge : {"none", "later", "read", "write"},
   at : Rows, key : Sections \cup {"none"}, value : Values \cup {"none"},
   slug : Acc!Slugs \cup {Acc!NoSlug}, row : 0..MaxRows, seen : Acc!Content]

\* Whoever asks for a workspace is registered; a profile's request has a workspace, and
\* a slug until it has its answer, and has read nothing before it reads.
AccRequest(r) ==
  /\ r.pc \in {"free", "open"} => r.user \in users
  /\ r \in AccPatches =>
       /\ admin[r.at] # "none"
       /\ r.pc # "answered" => r.slug \in Acc!Slugs
       /\ r.pc = "conflict" => r.merge \in {"none", "later"}
       /\ r.pc # "conflict" => r.merge # "later"
       /\ r.merge # "none" => r.key \in Sections /\ r.value \in Values \cup {"none"}
       /\ r.merge \in {"later", "read"} => r.row = 0 /\ r.seen = Acc!Blank

AccCalls ==
  /\ accountCalls \in [Calls -> {Acc!Idle} \cup AccJoins \cup AccPatches]
  /\ \A p \in Calls : accountCalls[p] # Acc!Idle => AccRequest(accountCalls[p])

AccSpaces ==
  /\ users \subseteq Users
  /\ admin \in [Rows -> users \cup {"none"}]
  /\ slug \in [Rows -> Acc!Slugs \cup {Acc!NoSlug}]
  /\ \A w, v \in Rows : slug[w] = slug[v] /\ slug[w] # Acc!NoSlug => w = v
  /\ \A w \in Rows : admin[w] = "none" <=> slug[w] = Acc!NoSlug
  /\ brokers \subseteq { w \in Rows : admin[w] # "none" }
  /\ \A u \in users : \E w \in Rows : admin[w] = u

AccProfiles ==
  /\ profile \subseteq [at : Rows, nth : 1..MaxRows, content : Acc!Content]
  /\ IsFiniteSet(profile)
  /\ saved \in [Rows -> Acc!Content]
  /\ crossed \subseteq Rows

AccShape == AccCalls /\ AccSpaces /\ AccProfiles

\* A workspace without a slug shares it with no other.
LEMMA AccNoSlug == Acc!NoSlug \notin Acc!Slugs
BY OfficeAssumption DEF Acc!NoSlug, Acc!Slugs, Acc!None

\* The step a request is at tells what it is made of.
LEMMA AccSteps ==
  ASSUME AccCalls, NEW p \in Calls
  PROVE  /\ accountCalls[p].pc \in {"email", "slug", "signup", "free", "open"} =>
              accountCalls[p] \in AccJoins
         /\ accountCalls[p].pc \in {"conflict", "rename", "answered"} =>
              accountCalls[p] \in AccPatches
         /\ accountCalls[p].merge # "none" => accountCalls[p] \in AccPatches
         /\ accountCalls[p].pc # "idle" => AccRequest(accountCalls[p])
         /\ accountCalls[p] # Acc!Idle => accountCalls[p].pc # "idle"
<1>1. accountCalls[p] \in {Acc!Idle} \cup AccJoins \cup AccPatches
  BY DEF AccCalls
<1>2. accountCalls[p].pc # "idle" => accountCalls[p] # Acc!Idle
  BY DEF Acc!Idle
<1>3. accountCalls[p] = Acc!Idle \/ accountCalls[p] \in AccJoins \/ accountCalls[p] \in AccPatches
  BY <1>1
<1> QED BY <1>2, <1>3 DEF AccCalls, Acc!Idle, AccJoins, AccPatches

\* A request goes on, while the users and the workspaces stay.
LEMMA AccGoesOn ==
  ASSUME AccCalls, NEW p \in Calls, NEW r \in {Acc!Idle} \cup AccJoins \cup AccPatches,
         accountCalls' = [accountCalls EXCEPT ![p] = r],
         users \subseteq users',
         \A w \in Rows : admin[w] # "none" => admin'[w] # "none",
         r # Acc!Idle => (AccRequest(r))'
  PROVE  AccCalls'
<1>1. accountCalls' \in [Calls -> {Acc!Idle} \cup AccJoins \cup AccPatches]
  BY DEF AccCalls
<1>2. ASSUME NEW q \in Calls, accountCalls'[q] # Acc!Idle
      PROVE  (AccRequest(accountCalls[q]))'
  <2>1. CASE q = p
    <3>1. accountCalls'[q] = r
      BY <2>1 DEF AccCalls
    <3> QED BY <1>2, <3>1 DEF AccRequest
  <2>2. CASE q # p
    <3>1. PICK x \in {Acc!Idle} \cup AccJoins \cup AccPatches :
             x = accountCalls[q] /\ accountCalls'[q] = x /\ AccRequest(x)
      BY <1>2, <2>2 DEF AccCalls
    <3>2. x \in AccPatches => x.at \in Rows
      BY DEF AccPatches
    <3>3. (AccRequest(x))'
      BY <3>1, <3>2 DEF AccRequest
    <3> QED BY <3>1, <3>3 DEF AccRequest
  <2> QED BY <2>1, <2>2
<1> QED BY <1>1, <1>2 DEF AccCalls

\* A request that becomes r goes on with it, or is gone.
LEMMA AccBecomes ==
  ASSUME AccCalls, NEW p \in Calls, NEW r \in {Acc!Idle} \cup AccJoins \cup AccPatches,
         Acc!Become(p, r), users \subseteq users',
         \A w \in Rows : admin[w] # "none" => admin'[w] # "none",
         r # Acc!Idle => (AccRequest(r))'
  PROVE  AccCalls'
<1>1. CASE r.pc = "answered" /\ r.merge = "none"
  <2>1. accountCalls' = [accountCalls EXCEPT ![p] = Acc!Idle]
    BY <1>1 DEF Acc!Become
  <2> QED BY <2>1, AccGoesOn
<1>2. CASE ~(r.pc = "answered" /\ r.merge = "none")
  <2>1. accountCalls' = [accountCalls EXCEPT ![p] = r]
    BY <1>2 DEF Acc!Become
  <2> QED BY <2>1, AccGoesOn
<1> QED BY <1>1, <1>2

\* Only requests go on.
LEMMA AccQuiet ==
  ASSUME AccShape, NEW p \in Calls, NEW r \in {Acc!Idle} \cup AccJoins \cup AccPatches,
         Acc!Become(p, r), r # Acc!Idle => AccRequest(r),
         UNCHANGED <<users, admin, slug, brokers, profile, saved>>, crossed' \subseteq Rows
  PROVE  AccShape'
<1>1. (AccRequest(r))' <=> AccRequest(r)
  BY DEF AccRequest
<1>2. AccCalls'
  BY <1>1, AccBecomes DEF AccShape
<1>3. AccSpaces' /\ AccProfiles'
  BY DEF AccShape, AccSpaces, AccProfiles
<1> QED BY <1>2, <1>3 DEF AccShape

\* A request that is given up keeps the shape.
LEMMA AccStops ==
  ASSUME AccShape, NEW p \in Calls, Acc!Become(p, Acc!Idle),
         UNCHANGED <<users, admin, slug, brokers, profile, saved>>, crossed' \subseteq Rows
  PROVE  AccShape'
BY AccQuiet

\* A workspace comes to be, with its admin.
LEMMA AccNewSpace ==
  ASSUME AccShape, NEW p \in Calls, NEW w \in Rows, NEW u \in Users, NEW s \in Acc!Slugs,
         Acc!NewSpace(w, u, s), ~Acc!SlugTaken(s), users' = users \cup {u},
         Acc!Become(p, Acc!Idle), UNCHANGED <<brokers, profile, saved, crossed>>
  PROVE  AccShape'
<1>0. AccCalls /\ AccSpaces /\ AccProfiles
  BY DEF AccShape
<1>1. /\ admin[w] = "none" /\ admin' = [admin EXCEPT ![w] = u]
      /\ slug' = [slug EXCEPT ![w] = s] /\ u # "none" /\ s # Acc!NoSlug
  BY OfficeAssumption, AccNoSlug DEF Acc!NewSpace, Acc!None
<1>2. admin \in [Rows -> users \cup {"none"}] /\ slug \in [Rows -> Acc!Slugs \cup {Acc!NoSlug}]
  BY <1>0 DEF AccSpaces
<1>3. \A v \in Rows \ {w} : admin'[v] = admin[v] /\ slug'[v] = slug[v]
  BY <1>1, <1>2
<1>4. admin'[w] = u /\ slug'[w] = s
  BY <1>1, <1>2
<1>5. \A v \in Rows : slug[v] # s
  BY DEF Acc!SlugTaken
<1>6. AccSpaces'
  <2>1. \A v, x \in Rows : slug'[v] = slug'[x] /\ slug'[v] # Acc!NoSlug => v = x
    BY <1>0, <1>3, <1>4, <1>5 DEF AccSpaces
  <2>2. \A v \in Rows : admin'[v] = "none" <=> slug'[v] = Acc!NoSlug
    BY <1>0, <1>1, <1>3, <1>4 DEF AccSpaces
  <2>3. brokers' \subseteq { v \in Rows : admin'[v] # "none" }
    BY <1>0, <1>1, <1>3, <1>4 DEF AccSpaces
  <2>4. ASSUME NEW x \in users' PROVE \E v \in Rows : admin'[v] = x
    <3>1. CASE x = u
      BY <1>4, <3>1
    <3>2. CASE x # u
      <4>1. PICK v \in Rows : admin[v] = x
        BY <1>0, <2>4, <3>2 DEF AccSpaces
      <4>2. x # "none"
        BY <1>0, <2>4, OfficeAssumption DEF AccSpaces
      <4> QED BY <1>1, <1>3, <4>1, <4>2
    <3> QED BY <3>1, <3>2
  <2>5. /\ admin' \in [Rows -> users' \cup {"none"}] /\ users' \subseteq Users
        /\ slug' \in [Rows -> Acc!Slugs \cup {Acc!NoSlug}]
    BY <1>0, <1>1, <1>2 DEF AccSpaces
  <2> QED BY <2>1, <2>2, <2>3, <2>4, <2>5 DEF AccSpaces
<1>7. AccCalls'
  <2>1. \A v \in Rows : admin[v] # "none" => admin'[v] # "none"
    BY <1>1, <1>3
  <2> QED BY <1>0, <2>1, AccBecomes
<1>8. AccProfiles'
  BY <1>0 DEF AccProfiles
<1> QED BY <1>6, <1>7, <1>8 DEF AccShape

\* Registration, and a member's new workspace.
LEMMA AccJoinSteps ==
  ASSUME AccShape, NEW p \in Calls,
         \/ \E u \in Users, name \in Names :
              Acc!Register(p, u, name) \/ Acc!CreateWorkspace(p, u, name)
         \/ Acc!FindEmail(p) \/ Acc!FindSlug(p) \/ Acc!SignUp(p)
         \/ Acc!FindFree(p) \/ Acc!Open(p)
  PROVE  AccShape'
<1> DEFINE q == accountCalls[p]
<1>0. AccCalls /\ AccSpaces /\ crossed \subseteq Rows
  BY DEF AccShape, AccProfiles
<1>i. Acc!Idle \in {Acc!Idle} \cup AccJoins \cup AccPatches
  OBVIOUS
<1>1. \A name \in Names, t \in Stamps \cup {"plain"} : <<name, t>> \in Acc!Slugs
  BY DEF Acc!Slugs, Acc!Plain
<1>j. ASSUME NEW r \in AccJoins, Acc!Become(p, r), r.pc \in {"free", "open"} => r.user \in users,
             UNCHANGED <<users, admin, slug, brokers, profile, saved, crossed>>
      PROVE  AccShape'
  <2>1. r \notin AccPatches
    BY DEF AccJoins, AccPatches
  <2>2. AccRequest(r)
    BY <1>j, <2>1 DEF AccRequest
  <2> QED BY <1>0, <1>j, <2>2, AccQuiet
<1>s. q.pc \in {"email", "slug", "signup", "free", "open"} =>
        q \in AccJoins /\ (q.pc \in {"free", "open"} => q.user \in users)
  BY <1>0, AccSteps DEF AccRequest
<1>2. CASE \E u \in Users, name \in Names :
             Acc!Register(p, u, name) \/ Acc!CreateWorkspace(p, u, name)
  <2>1. PICK u \in Users, name \in Names :
               Acc!Register(p, u, name) \/ Acc!CreateWorkspace(p, u, name)
    BY <1>2
  <2> DEFINE r(pc) == [pc |-> pc, merge |-> "none", user |-> u, slug |-> <<name, "plain">>]
  <2>2. \A pc \in {"email", "free"} : r(pc) \in AccJoins /\ r(pc).pc = pc /\ r(pc).user = u
    BY <1>1 DEF AccJoins
  <2>3. CASE Acc!Register(p, u, name)
    <3>1. Acc!Become(p, r("email"))
          /\ UNCHANGED <<users, admin, slug, brokers, profile, saved, crossed>>
      BY <2>3 DEF Acc!Register, Acc!Plain
    <3> HIDE DEF r
    <3> QED BY <1>j, <2>2, <3>1
  <2>4. CASE Acc!CreateWorkspace(p, u, name)
    <3>1. Acc!Become(p, r("free")) /\ u \in users
          /\ UNCHANGED <<users, admin, slug, brokers, profile, saved, crossed>>
      BY <2>4 DEF Acc!CreateWorkspace, Acc!Plain
    <3> HIDE DEF r
    <3> QED BY <1>j, <2>2, <3>1
  <2> QED BY <2>1, <2>3, <2>4
<1>3. CASE Acc!FindEmail(p)
  <2> DEFINE r == [q EXCEPT !.pc = "slug"]
  <2>1. UNCHANGED <<users, admin, slug, brokers, profile, saved, crossed>>
    BY <1>3 DEF Acc!FindEmail
  <2>2. r \in AccJoins /\ r.pc = "slug"
    BY <1>3, <1>s DEF Acc!FindEmail, AccJoins
  <2>3. Acc!Become(p, r) \/ Acc!Become(p, Acc!Idle)
    BY <1>3 DEF Acc!FindEmail
  <2> HIDE DEF r
  <2> QED BY <1>0, <1>j, <2>1, <2>2, <2>3, AccStops
<1>4. CASE Acc!FindSlug(p)
  <2>1. UNCHANGED <<users, admin, slug, brokers, profile, saved, crossed>>
        /\ q \in AccJoins
    BY <1>4, <1>s DEF Acc!FindSlug
  <2>2. CASE Acc!Become(p, [q EXCEPT !.pc = "signup"])
    <3> DEFINE r == [q EXCEPT !.pc = "signup"]
    <3>1. r \in AccJoins /\ r.pc = "signup"
      BY <2>1 DEF AccJoins
    <3>2. Acc!Become(p, r)
      BY <2>2
    <3> HIDE DEF r
    <3> QED BY <1>j, <2>1, <3>1, <3>2
  <2>3. ASSUME NEW t \in Stamps,
               Acc!Become(p, [q EXCEPT !.slug = <<@[1], t>>, !.pc = "signup"])
        PROVE  AccShape'
    <3> DEFINE r == [q EXCEPT !.slug = <<@[1], t>>, !.pc = "signup"]
    <3>1. q.slug[1] \in Names
      BY <2>1 DEF AccJoins, Acc!Slugs
    <3>2. r \in AccJoins /\ r.pc = "signup"
      BY <1>1, <2>1, <3>1 DEF AccJoins
    <3>3. Acc!Become(p, r)
      BY <2>3
    <3> HIDE DEF r
    <3> QED BY <1>j, <2>1, <3>2, <3>3
  <2> QED BY <1>4, <2>2, <2>3 DEF Acc!FindSlug
<1>5. CASE Acc!SignUp(p)
  <2>1. q \in AccJoins /\ q.slug \in Acc!Slugs /\ q.user \in Users
    BY <1>5, <1>s DEF Acc!SignUp, AccJoins
  <2>2. Acc!Become(p, Acc!Idle) /\ UNCHANGED <<brokers, profile, saved, crossed>>
    BY <1>5 DEF Acc!SignUp
  <2>3. CASE UNCHANGED <<users, admin, slug>>
    BY <1>0, <2>2, <2>3, AccStops
  <2>4. CASE /\ ~Acc!SlugTaken(q.slug) /\ users' = users \cup {q.user}
             /\ \E w \in Rows : Acc!NewSpace(w, q.user, q.slug)
    BY <2>1, <2>2, <2>4, AccNewSpace
  <2> QED BY <1>5, <2>3, <2>4 DEF Acc!SignUp
<1>6. CASE Acc!FindFree(p)
  <2> DEFINE r == [q EXCEPT !.pc = "open"]
  <2>1. UNCHANGED <<users, admin, slug, brokers, profile, saved, crossed>>
    BY <1>6 DEF Acc!FindFree
  <2>2. r \in AccJoins /\ r.pc = "open" /\ r.user \in users
    BY <1>6, <1>s DEF Acc!FindFree, AccJoins
  <2>3. Acc!Become(p, r) \/ Acc!Become(p, Acc!Idle)
    BY <1>6 DEF Acc!FindFree
  <2> HIDE DEF r
  <2> QED BY <1>0, <1>j, <2>1, <2>2, <2>3, AccStops
<1>7. CASE Acc!Open(p)
  <2>1. q \in AccJoins /\ q.slug \in Acc!Slugs /\ q.user \in Users /\ q.user \in users
    BY <1>7, <1>s DEF Acc!Open, AccJoins
  <2>2. Acc!Become(p, Acc!Idle) /\ UNCHANGED <<users, brokers, profile, saved, crossed>>
    BY <1>7 DEF Acc!Open
  <2>3. CASE UNCHANGED <<admin, slug>>
    BY <1>0, <2>2, <2>3, AccStops
  <2>4. CASE ~Acc!SlugTaken(q.slug) /\ \E w \in Rows : Acc!NewSpace(w, q.user, q.slug)
    <3>1. users' = users \cup {q.user}
      BY <2>1, <2>2
    <3> QED BY <2>1, <2>2, <2>4, <3>1, AccNewSpace
  <2> QED BY <1>7, <2>3, <2>4 DEF Acc!Open
<1> QED BY <1>2, <1>3, <1>4, <1>5, <1>6, <1>7

\* The instance's copy of FiniteSets is FiniteSets.
LEMMA AccCardinality == \A S : Acc!Cardinality(S) = Cardinality(S)
BY Zenon DEF Acc!Cardinality, Cardinality

\* A profile's content may be blank.
LEMMA AccBlank == Acc!Blank \in Acc!Content /\ 0 \in 0..MaxRows
BY OfficeAssumption DEF Acc!Blank, Acc!Content, Acc!None

\* A request for a profile or a name goes on.
LEMMA AccPatchQuiet ==
  ASSUME AccShape, NEW p \in Calls, NEW r \in AccPatches,
         Acc!Become(p, r), AccRequest(r),
         UNCHANGED <<users, admin, slug, brokers, profile, saved>>, crossed' \subseteq Rows
  PROVE  AccShape'
BY AccQuiet

\* A request for a name or a profile starts.
LEMMA AccStarts ==
  ASSUME AccShape, NEW p \in Calls,
         \/ \E w \in Rows, name \in Names : Acc!UpdateName(p, w, name)
         \/ \E w \in Rows, c \in Sections, v \in Values \cup {Acc!None} :
              Acc!PatchUserProfile(p, w, c, v)
         \/ \E w \in Rows, c \in Sections \ {Broker}, v \in Values, name \in Names :
              Acc!UpdateOnboarding(p, w, c, v, name)
  PROVE  AccShape'
<1>0. crossed \subseteq Rows
  BY DEF AccShape, AccProfiles
<1>1. \A name \in Names : <<name, "plain">> \in Acc!Slugs
  BY DEF Acc!Slugs, Acc!Plain
<1>2. ASSUME NEW r \in AccPatches, NEW w \in Rows, Acc!Start(p, w, r),
             admin[w] # "none" => AccRequest(r)
      PROVE  AccShape'
  <2>1. crossed' \subseteq Rows
    BY <1>0, <1>2 DEF Acc!Start
  <2> QED BY <1>2, <2>1, AccPatchQuiet DEF Acc!Start, Acc!None
<1>3. CASE \E w \in Rows, name \in Names : Acc!UpdateName(p, w, name)
  <2>1. PICK w \in Rows, name \in Names : Acc!UpdateName(p, w, name)
    BY <1>3
  <2> DEFINE r == Acc!Patch("conflict", "none", w, "none", "none", <<name, "plain">>)
  <2>2. r \in AccPatches
    BY <1>1, AccBlank DEF Acc!Patch, AccPatches
  <2>3. admin[w] # "none" => AccRequest(r)
    BY <1>1 DEF Acc!Patch, AccRequest
  <2>4. Acc!Start(p, w, r)
    BY <2>1 DEF Acc!UpdateName, Acc!None, Acc!Plain
  <2> HIDE DEF r
  <2> QED BY <1>2, <2>2, <2>3, <2>4
<1>4. ASSUME NEW w \in Rows, NEW c \in Sections, NEW v \in Values \cup {Acc!None},
             Acc!PatchUserProfile(p, w, c, v)
      PROVE  AccShape'
  <2> DEFINE r == Acc!Patch("answered", "read", w, c, v, Acc!NoSlug)
  <2>2. r \in AccPatches
    BY AccBlank DEF Acc!Patch, AccPatches, Acc!None
  <2>3. admin[w] # "none" => AccRequest(r)
    BY DEF Acc!Patch, AccRequest, Acc!None
  <2>4. Acc!Start(p, w, r)
    BY <1>4 DEF Acc!PatchUserProfile
  <2> HIDE DEF r
  <2> QED BY <1>2, <2>2, <2>3, <2>4
<1>5. ASSUME NEW w \in Rows, NEW c \in Sections, NEW v \in Values, NEW name \in Names,
             Acc!UpdateOnboarding(p, w, c, v, name)
      PROVE  AccShape'
  <2> DEFINE r == Acc!Patch("conflict", "later", w, c, v, <<name, "plain">>)
  <2>2. r \in AccPatches
    BY <1>1, AccBlank DEF Acc!Patch, AccPatches
  <2>3. admin[w] # "none" => AccRequest(r)
    BY <1>1 DEF Acc!Patch, AccRequest
  <2>4. Acc!Start(p, w, r)
    BY <1>5 DEF Acc!UpdateOnboarding, Acc!Plain
  <2> HIDE DEF r
  <2> QED BY <1>2, <2>2, <2>3, <2>4
<1> QED BY <1>3, <1>4, <1>5

\* What FindConflict makes of a request.
LEMMA AccConflicts ==
  ASSUME AccShape, NEW p \in Calls, Acc!FindConflict(p)
  PROVE  \E r \in AccPatches :
           LET q == accountCalls[p] IN
           /\ q \in AccPatches /\ AccRequest(q) /\ q.pc = "conflict"
           /\ Acc!Become(p, r) /\ AccRequest(r)
           /\ r.pc = "rename" /\ r.at = q.at
           /\ r.merge = IF q.merge = "later" THEN "read" ELSE q.merge
<1> DEFINE q == accountCalls[p]
           next == [q EXCEPT !.pc = "rename",
                             !.merge = IF q.merge = "later" THEN "read" ELSE q.merge]
<1>0. AccCalls
  BY DEF AccShape
<1>1. q.pc = "conflict"
  BY DEF Acc!FindConflict
<1>2. q \in AccPatches /\ AccRequest(q)
  BY <1>0, <1>1, AccSteps
<1>3. q.slug \in Acc!Slugs /\ q.merge \in {"none", "later"}
  BY <1>1, <1>2 DEF AccRequest
<1>4. /\ next \in AccPatches /\ next.pc = "rename" /\ next.at = q.at /\ next.slug = q.slug
      /\ next.key = q.key /\ next.value = q.value /\ next.row = q.row /\ next.seen = q.seen
      /\ next.merge = IF q.merge = "later" THEN "read" ELSE q.merge
  BY <1>2, <1>3 DEF AccPatches
<1>5. AccRequest(next)
  <2> HIDE DEF next
  <2> QED BY <1>1, <1>2, <1>3, <1>4 DEF AccRequest
<1>6. CASE Acc!Become(p, next)
  BY <1>1, <1>2, <1>4, <1>5, <1>6
<1>7. ASSUME NEW t \in Stamps, Acc!Become(p, [next EXCEPT !.slug = <<next.slug[1], t>>])
      PROVE  \E r \in AccPatches :
               /\ Acc!Become(p, r) /\ AccRequest(r) /\ r.pc = "rename" /\ r.at = q.at
               /\ r.merge = IF q.merge = "later" THEN "read" ELSE q.merge
  <2> DEFINE r == [next EXCEPT !.slug = <<next.slug[1], t>>]
  <2>1. <<next.slug[1], t>> \in Acc!Slugs
    BY <1>3, <1>4 DEF Acc!Slugs
  <2> HIDE DEF next
  <2>2. /\ r \in AccPatches /\ r.pc = "rename" /\ r.at = q.at /\ r.slug \in Acc!Slugs
        /\ r.key = q.key /\ r.value = q.value /\ r.row = q.row /\ r.seen = q.seen
        /\ r.merge = next.merge
    BY <1>4, <2>1 DEF AccPatches
  <2>3. Acc!Become(p, r)
    BY <1>7
  <2> HIDE DEF r
  <2>4. AccRequest(r)
    BY <1>2, <1>3, <1>4, <1>5, <2>2 DEF AccRequest
  <2> QED BY <1>4, <2>2, <2>3, <2>4
<1>8. Acc!Become(p, next) \/ \E t \in Stamps : Acc!Become(p, [next EXCEPT !.slug = <<next.slug[1], t>>])
  BY DEF Acc!FindConflict
<1> QED BY <1>1, <1>2, <1>6, <1>7, <1>8

\* A name is looked up and saved.
LEMMA AccRenames ==
  ASSUME AccShape, NEW p \in Calls, Acc!FindConflict(p) \/ Acc!Rename(p)
  PROVE  AccShape'
<1> DEFINE q == accountCalls[p]
<1>0. AccCalls /\ AccSpaces /\ AccProfiles
  BY DEF AccShape
<1>1. CASE Acc!FindConflict(p)
  <2>1. UNCHANGED <<users, admin, slug, brokers, profile, saved, crossed>>
    BY <1>1 DEF Acc!FindConflict
  <2> QED BY <1>0, <1>1, <2>1, AccConflicts, AccPatchQuiet DEF AccProfiles
<1>2. CASE Acc!Rename(p)
  <2>1. UNCHANGED <<users, admin, brokers, profile, saved, crossed>> /\ q.pc = "rename"
    BY <1>2 DEF Acc!Rename
  <2>2. q \in AccPatches /\ AccRequest(q)
    BY <1>0, <2>1, AccSteps
  <2>3. PICK r : r = [q EXCEPT !.pc = "answered"]
    OBVIOUS
  <2>4. /\ r \in AccPatches /\ r.pc = "answered" /\ r.merge = q.merge /\ r.at = q.at
        /\ r.key = q.key /\ r.value = q.value /\ r.row = q.row /\ r.seen = q.seen
    BY <2>2, <2>3 DEF AccPatches
  <2>5. AccRequest(r) /\ Acc!Become(p, r)
    BY <1>2, <2>1, <2>2, <2>3, <2>4 DEF AccRequest, Acc!Rename
  <2>6. (AccRequest(r))'
    BY <2>1, <2>5 DEF AccRequest
  <2>7. AccCalls'
    BY <1>0, <2>1, <2>4, <2>5, <2>6, AccBecomes
  <2>8. q.at \in Rows /\ admin[q.at] # "none" /\ q.slug \in Acc!Slugs /\ q.slug # Acc!NoSlug
    BY <2>1, <2>2, AccNoSlug DEF AccRequest, AccPatches
  <2>9. CASE slug' = slug
    BY <1>0, <2>1, <2>7, <2>9 DEF AccShape, AccSpaces, AccProfiles
  <2>10. CASE /\ \A w \in Rows \ {q.at} : slug[w] # q.slug
              /\ slug' = [slug EXCEPT ![q.at] = q.slug]
    <3>1. slug' \in [Rows -> Acc!Slugs \cup {Acc!NoSlug}]
      BY <1>0, <2>8, <2>10 DEF AccSpaces
    <3>2. \A w, v \in Rows : slug'[w] = slug'[v] /\ slug'[w] # Acc!NoSlug => w = v
      BY <1>0, <2>8, <2>10 DEF AccSpaces
    <3>3. \A w \in Rows : admin'[w] = "none" <=> slug'[w] = Acc!NoSlug
      BY <1>0, <2>1, <2>8, <2>10 DEF AccSpaces
    <3> QED BY <1>0, <2>1, <2>7, <3>1, <3>2, <3>3 DEF AccShape, AccSpaces, AccProfiles
  <2> QED BY <1>2, <2>9, <2>10 DEF Acc!Rename
<1> QED BY <1>1, <1>2

\* What a merge reads.
LEMMA AccReading ==
  ASSUME AccShape, NEW p \in Calls, Acc!ReadProfile(p)
  PROVE  \E r \in AccPatches :
           LET q == accountCalls[p] IN
           /\ q \in AccPatches /\ q.merge = "read"
           /\ UNCHANGED <<users, admin, slug, brokers, profile, saved, crossed>>
           /\ Acc!Become(p, r) /\ AccRequest(r) /\ r.at = q.at /\ r.merge = "write"
           /\ \/ Acc!RowsOf(q.at) = {} /\ r.row = 0 /\ r.seen = Acc!Blank
              \/ \E e \in Acc!RowsOf(q.at) : r.row = e.nth /\ r.seen = e.content
<1> DEFINE q == accountCalls[p]
<1>0. AccCalls /\ AccProfiles
  BY DEF AccShape
<1>1. q.merge = "read" /\ UNCHANGED <<users, admin, slug, brokers, profile, saved, crossed>>
  BY DEF Acc!ReadProfile
<1>2. q \in AccPatches
  BY <1>0, <1>1, AccSteps
<1>3. AccRequest(q)
  BY <1>0, <1>1, <1>2, AccSteps DEF AccPatches
<1>4. CASE Acc!RowsOf(q.at) = {} /\ Acc!Become(p, [q EXCEPT !.merge = "write"])
  <2> DEFINE r == [q EXCEPT !.merge = "write"]
  <2>1. /\ r \in AccPatches /\ r.pc = q.pc /\ r.merge = "write" /\ r.at = q.at
        /\ r.key = q.key /\ r.value = q.value /\ r.row = q.row /\ r.seen = q.seen
        /\ r.slug = q.slug
    BY <1>2 DEF AccPatches
  <2>2. Acc!Become(p, r)
    BY <1>4
  <2> HIDE DEF r
  <2>3. AccRequest(r)
    BY <1>1, <1>2, <1>3, <2>1 DEF AccRequest, AccPatches
  <2>4. r.row = 0 /\ r.seen = Acc!Blank
    BY <1>1, <1>2, <1>3, <2>1 DEF AccRequest
  <2> QED BY <1>1, <1>2, <1>4, <2>1, <2>2, <2>3, <2>4
<1>5. ASSUME NEW e \in Acc!RowsOf(q.at),
             Acc!Become(p, [q EXCEPT !.merge = "write", !.row = e.nth, !.seen = e.content])
      PROVE  \E r \in AccPatches :
               /\ Acc!Become(p, r) /\ AccRequest(r) /\ r.at = q.at /\ r.merge = "write"
               /\ r.row = e.nth /\ r.seen = e.content
  <2> DEFINE r == [q EXCEPT !.merge = "write", !.row = e.nth, !.seen = e.content]
  <2>1. e.nth \in 0..MaxRows /\ e.content \in Acc!Content
    BY <1>0, OfficeAssumption DEF AccProfiles, Acc!RowsOf
  <2>2. /\ r \in AccPatches /\ r.pc = q.pc /\ r.merge = "write" /\ r.at = q.at
        /\ r.key = q.key /\ r.value = q.value /\ r.row = e.nth /\ r.seen = e.content
        /\ r.slug = q.slug
    BY <1>2, <2>1 DEF AccPatches
  <2>3. Acc!Become(p, r)
    BY <1>5
  <2> HIDE DEF r
  <2>4. AccRequest(r)
    BY <1>1, <1>2, <1>3, <2>2 DEF AccRequest, AccPatches
  <2> QED BY <2>2, <2>3, <2>4
<1> QED BY <1>1, <1>2, <1>4, <1>5 DEF Acc!ReadProfile, Acc!Found

\* What a merge writes: the row it read, or a new one.
LEMMA AccWriting ==
  ASSUME AccShape, NEW p \in Calls, Acc!WriteProfile(p)
  PROVE  LET q == accountCalls[p] IN
         \E n \in 1..MaxRows, r \in AccPatches,
           e \in [at : Rows, nth : 1..MaxRows, content : Acc!Content] :
           /\ q \in AccPatches /\ AccRequest(q) /\ q.merge = "write"
           /\ q.row # 0 => n = q.row
           /\ e = [at |-> q.at, nth |-> n, content |-> [q.seen EXCEPT ![q.key] = q.value]]
           /\ profile' = { x \in profile : x.at # q.at \/ x.nth # n } \cup {e}
           /\ saved' = [saved EXCEPT ![q.at][q.key] = q.value]
           /\ Acc!Become(p, r) /\ AccRequest(r) /\ r.at = q.at /\ r.merge = "none"
           /\ UNCHANGED <<users, admin, slug, brokers, crossed>>
<1> DEFINE q == accountCalls[p]
           n == IF q.row # 0 THEN q.row ELSE Acc!Cardinality(Acc!RowsOf(q.at)) + 1
           e == [at |-> q.at, nth |-> n, content |-> [q.seen EXCEPT ![q.key] = q.value]]
           r == [q EXCEPT !.merge = "none"]
<1>0. AccCalls /\ AccProfiles
  BY DEF AccShape
<1>1. /\ q.merge = "write" /\ n <= MaxRows
      /\ profile' = { x \in profile : x.at # q.at \/ x.nth # n } \cup {e}
      /\ saved' = [saved EXCEPT ![q.at][q.key] = q.value]
      /\ Acc!Become(p, r) /\ UNCHANGED <<users, admin, slug, brokers, crossed>>
  BY DEF Acc!WriteProfile
<1>2. q \in AccPatches
  BY <1>0, <1>1, AccSteps
<1>3. AccRequest(q)
  BY <1>0, <1>2, AccSteps DEF AccPatches
<1>4. q.key \in Sections /\ q.value \in Values \cup {"none"} /\ q.at \in Rows /\ q.seen \in Acc!Content
  BY <1>1, <1>2, <1>3 DEF AccRequest, AccPatches
<1>5. n \in 1..MaxRows
  <2>1. CASE q.row # 0
    BY <1>2, <2>1, OfficeAssumption DEF AccPatches
  <2>2. CASE q.row = 0
    <3>1. Acc!RowsOf(q.at) \in SUBSET profile
      BY DEF Acc!RowsOf
    <3>2. Cardinality(Acc!RowsOf(q.at)) \in Nat
      BY <1>0, <3>1, FS_Subset, FS_CardinalityType DEF AccProfiles
    <3>3. n = Cardinality(Acc!RowsOf(q.at)) + 1
      BY <2>2, AccCardinality
    <3> QED BY <1>1, <3>2, <3>3, OfficeAssumption
  <2> QED BY <2>1, <2>2
<1>6. q.row # 0 => n = q.row
  OBVIOUS
<1> HIDE DEF n
<1>7. [q.seen EXCEPT ![q.key] = q.value] \in Acc!Content
  BY <1>4 DEF Acc!Content, Acc!None
<1>8. e \in [at : Rows, nth : 1..MaxRows, content : Acc!Content]
  BY <1>4, <1>5, <1>7
<1>9. /\ r \in AccPatches /\ r.pc = q.pc /\ r.merge = "none" /\ r.at = q.at
      /\ r.slug = q.slug
  BY <1>2 DEF AccPatches
<1>10. e = [at |-> q.at, nth |-> n, content |-> [q.seen EXCEPT ![q.key] = q.value]]
  OBVIOUS
<1> HIDE DEF r, e
<1>11. AccRequest(r)
  BY <1>2, <1>3, <1>9 DEF AccRequest, AccPatches
<1> QED BY <1>1, <1>2, <1>3, <1>5, <1>6, <1>8, <1>9, <1>10, <1>11

\* A profile is merged, or its merge is given up.
LEMMA AccMerges ==
  ASSUME AccShape, NEW p \in Calls,
         Acc!ReadProfile(p) \/ Acc!WriteProfile(p) \/ Acc!Fail(p) \/ Acc!FailMerge(p)
  PROVE  AccShape'
<1> DEFINE q == accountCalls[p]
<1>0. AccCalls /\ AccSpaces /\ AccProfiles
  BY DEF AccShape
<1>1. CASE Acc!ReadProfile(p)
  <2>1. PICK r \in AccPatches :
          /\ UNCHANGED <<users, admin, slug, brokers, profile, saved, crossed>>
          /\ Acc!Become(p, r) /\ AccRequest(r)
    BY <1>1, AccReading
  <2> QED BY <1>0, <2>1, AccPatchQuiet DEF AccProfiles
<1>2. CASE Acc!WriteProfile(p)
  <2>1. PICK n \in 1..MaxRows, r \in AccPatches,
               e \in [at : Rows, nth : 1..MaxRows, content : Acc!Content] :
           /\ q \in AccPatches /\ AccRequest(q) /\ q.merge = "write"
           /\ profile' = { x \in profile : x.at # q.at \/ x.nth # n } \cup {e}
           /\ saved' = [saved EXCEPT ![q.at][q.key] = q.value]
           /\ Acc!Become(p, r) /\ AccRequest(r)
           /\ UNCHANGED <<users, admin, slug, brokers, crossed>>
    BY <1>2, AccWriting
  <2>2. (AccRequest(r))'
    BY <2>1 DEF AccRequest
  <2>3. AccCalls'
    BY <1>0, <2>1, <2>2, AccBecomes
  <2>4. AccSpaces'
    BY <1>0, <2>1 DEF AccSpaces
  <2>5. IsFiniteSet(profile')
    <3>1. { x \in profile : x.at # q.at \/ x.nth # n } \in SUBSET profile
      OBVIOUS
    <3>2. IsFiniteSet({ x \in profile : x.at # q.at \/ x.nth # n })
      BY <1>0, <3>1, FS_Subset DEF AccProfiles
    <3> QED BY <2>1, <3>2, FS_AddElement
  <2>6. q.at \in Rows /\ q.key \in Sections /\ q.value \in Values \cup {"none"}
    BY <2>1 DEF AccRequest, AccPatches
  <2>7. saved' \in [Rows -> Acc!Content]
    BY <1>0, <2>1, <2>6 DEF AccProfiles, Acc!Content, Acc!None
  <2>8. AccProfiles'
    BY <1>0, <2>1, <2>5, <2>7 DEF AccProfiles
  <2> QED BY <2>3, <2>4, <2>8 DEF AccShape
<1>3. CASE Acc!Fail(p)
  BY <1>0, <1>3, AccStops DEF Acc!Fail, AccProfiles
<1>4. CASE Acc!FailMerge(p)
  <2> DEFINE r == [q EXCEPT !.merge = "none"]
  <2>1. q.merge \in {"read", "write"} /\ Acc!Become(p, r)
        /\ UNCHANGED <<users, admin, slug, brokers, profile, saved, crossed>>
    BY <1>4 DEF Acc!FailMerge
  <2>2. q \in AccPatches
    BY <1>0, <2>1, AccSteps
  <2>3. AccRequest(q)
    BY <1>0, <2>2, AccSteps DEF AccPatches
  <2>4. r \in AccPatches /\ r.pc = q.pc /\ r.merge = "none" /\ r.at = q.at /\ r.slug = q.slug
    BY <2>2 DEF AccPatches
  <2> HIDE DEF r
  <2>5. AccRequest(r)
    BY <2>2, <2>3, <2>4 DEF AccRequest, AccPatches
  <2> QED BY <1>0, <2>1, <2>4, <2>5, AccPatchQuiet DEF AccProfiles
<1> QED BY <1>1, <1>2, <1>3, <1>4

\* Every step of Accounts keeps the shape.
LEMMA AccShapeStep ==
  ASSUME AccShape, [Acc!Next]_(Acc!accountVars)
  PROVE  AccShape'
<1>1. CASE UNCHANGED Acc!accountVars
  BY <1>1 DEF Acc!accountVars, AccShape, AccCalls, AccSpaces, AccProfiles, AccRequest
<1>2. ASSUME NEW w \in Rows, Acc!CreateResponsibleBroker(w)
      PROVE  AccShape'
  <2>1. admin[w] # "none" /\ brokers' = brokers \cup {w}
        /\ UNCHANGED <<users, admin, slug, profile, accountCalls, saved, crossed>>
    BY <1>2 DEF Acc!CreateResponsibleBroker, Acc!None
  <2>2. AccCalls'
    BY <2>1 DEF AccShape, AccCalls, AccRequest
  <2> QED BY <2>1, <2>2 DEF AccShape, AccSpaces, AccProfiles
<1>3. CASE Acc!Next
  BY <1>2, <1>3, AccJoinSteps, AccStarts, AccRenames, AccMerges DEF Acc!Next
<1> QED BY <1>1, <1>3

LEMMA AccShapeInit == Acc!Init => AccShape
<1> SUFFICES ASSUME Acc!Init PROVE AccShape
  OBVIOUS
<1>1. AccCalls
  BY DEF Acc!Init, AccCalls
<1>2. AccSpaces
  BY DEF Acc!Init, AccSpaces, Acc!None
<1>3. AccProfiles
  BY AccBlank, FS_EmptySet DEF Acc!Init, AccProfiles
<1> QED BY <1>1, <1>2, <1>3 DEF AccShape

LEMMA AccShapeKept == Acc!Spec => []AccShape
BY AccShapeInit, AccShapeStep, PTL DEF Acc!Spec

\* The shape is enough for the types.
LEMMA AccShapeTypes == AccShape => Acc!TypeOK
<1> SUFFICES ASSUME AccShape PROVE Acc!TypeOK
  OBVIOUS
<1>1. ASSUME NEW p \in Calls
      PROVE  /\ accountCalls[p].pc \in {"idle", "email", "slug", "signup", "free", "open",
                                        "rename", "conflict", "answered"}
             /\ accountCalls[p].merge \in {"none", "later", "read", "write"}
  <2>1. accountCalls[p] = Acc!Idle \/ accountCalls[p] \in AccJoins \/ accountCalls[p] \in AccPatches
    BY DEF AccShape, AccCalls
  <2> QED BY <2>1 DEF Acc!Idle, AccJoins, AccPatches
<1> QED BY <1>1 DEF AccShape, AccSpaces, AccProfiles, Acc!TypeOK, Acc!None

(***************************************************************************)
(* Accounts: a profile is single and keeps what was written to it.         *)
(***************************************************************************)

AccSaving(p, w) == accountCalls[p].merge # "none" /\ accountCalls[p].at = w

\* The member of w has at most one row, with everything that was written.
AccKept(w) ==
  /\ \A e, f \in Acc!RowsOf(w) : e = f
  /\ \A e \in Acc!RowsOf(w) : e.content = saved[w]
  /\ Acc!RowsOf(w) = {} => saved[w] = Acc!Blank

\* A merge about to write has read the row there is, and all that was written.
AccMerging(r) ==
  r.merge = "write" =>
    /\ r.seen = saved[r.at]
    /\ r.row = 0 => Acc!RowsOf(r.at) = {}
    /\ r.row # 0 => \A e \in Acc!RowsOf(r.at) : e.nth = r.row

AccInv ==
  \A w \in Rows \ crossed :
    /\ AccKept(w)
    /\ \A p, q \in Calls : AccSaving(p, w) /\ AccSaving(q, w) => p = q
    /\ \A p \in Calls : AccSaving(p, w) => AccMerging(accountCalls[p])

\* A request that becomes r goes on, and the rows stay.
LEMMA AccInvQuiet ==
  ASSUME AccShape, AccInv, NEW p \in Calls, NEW r, Acc!Become(p, r),
         UNCHANGED <<profile, saved>>, crossed \subseteq crossed',
         r.merge # "none" =>
           \/ r.at \in crossed'
           \/ /\ AccMerging(r)
              /\ AccSaving(p, r.at) \/ \A q \in Calls : ~AccSaving(q, r.at)
  PROVE  AccInv'
<1>1. \A w : Acc!RowsOf(w)' = Acc!RowsOf(w)
  BY DEF Acc!RowsOf
<1>2. PICK x : x = IF r.pc = "answered" /\ r.merge = "none" THEN Acc!Idle ELSE r
  OBVIOUS
<1>3. accountCalls'[p] = x /\ \A q \in Calls \ {p} : accountCalls'[q] = accountCalls[q]
  BY <1>2 DEF Acc!Become, AccShape, AccCalls
<1>4. x.merge # "none" => x = r
  BY <1>2 DEF Acc!Idle
<1>5. ASSUME NEW w \in Rows \ crossed'
      PROVE  /\ AccKept(w)'
             /\ \A q, s \in Calls : AccSaving(q, w)' /\ AccSaving(s, w)' => q = s
             /\ \A q \in Calls : AccSaving(q, w)' => (AccMerging(accountCalls[q]))'
  <2>1. /\ AccKept(w)
        /\ \A q, s \in Calls : AccSaving(q, w) /\ AccSaving(s, w) => q = s
        /\ \A q \in Calls : AccSaving(q, w) => AccMerging(accountCalls[q])
    BY <1>5 DEF AccInv
  <2>2. AccKept(w)'
    BY <1>1, <2>1 DEF AccKept
  <2>3. \A q \in Calls \ {p} : AccSaving(q, w)' <=> AccSaving(q, w)
    BY <1>3 DEF AccSaving
  <2>4. AccSaving(p, w)' => x = r /\ r.merge # "none" /\ r.at = w
    BY <1>3, <1>4 DEF AccSaving
  <2>5. AccSaving(p, w)' => AccSaving(p, w) \/ \A q \in Calls : ~AccSaving(q, w)
    BY <1>5, <2>4
  <2>6. \A q, s \in Calls : AccSaving(q, w)' /\ AccSaving(s, w)' => q = s
    BY <2>1, <2>3, <2>5
  <2>7. ASSUME NEW q \in Calls, AccSaving(q, w)'
        PROVE  (AccMerging(accountCalls[q]))'
    <3>1. PICK y : y = accountCalls'[q] /\ AccMerging(y)
      <4>1. CASE q = p
        BY <1>3, <2>4, <2>7, <4>1
      <4>2. CASE q # p
        BY <1>3, <2>1, <2>3, <2>7, <4>2
      <4> QED BY <4>1, <4>2
    <3>2. (AccMerging(y))'
      BY <1>1, <3>1 DEF AccMerging
    <3> QED BY <3>1, <3>2 DEF AccMerging
  <2> QED BY <2>2, <2>6, <2>7
<1> QED BY <1>5 DEF AccInv

\* A merge is over with its write.
LEMMA AccInvWrite ==
  ASSUME AccShape, AccInv, NEW p \in Calls, Acc!WriteProfile(p)
  PROVE  AccInv'
<1>1. PICK n \in 1..MaxRows, r \in AccPatches,
           e \in [at : Rows, nth : 1..MaxRows, content : Acc!Content] :
           /\ accountCalls[p] \in AccPatches /\ AccRequest(accountCalls[p])
           /\ accountCalls[p].merge = "write"
           /\ accountCalls[p].row # 0 => n = accountCalls[p].row
           /\ e = [at |-> accountCalls[p].at, nth |-> n,
                   content |-> [accountCalls[p].seen EXCEPT
                                  ![accountCalls[p].key] = accountCalls[p].value]]
           /\ profile' = { x \in profile : x.at # accountCalls[p].at \/ x.nth # n } \cup {e}
           /\ saved' = [saved EXCEPT ![accountCalls[p].at][accountCalls[p].key] =
                                                              accountCalls[p].value]
           /\ Acc!Become(p, r) /\ r.merge = "none"
           /\ UNCHANGED crossed
  BY AccWriting
<1> PICK q : q = accountCalls[p]
  OBVIOUS
<1>2. /\ q \in AccPatches /\ q.merge = "write" /\ q.at \in Rows /\ e.at = q.at
      /\ e.content = [q.seen EXCEPT ![q.key] = q.value]
      /\ saved' = [saved EXCEPT ![q.at][q.key] = q.value]
      /\ profile' = { x \in profile : x.at # q.at \/ x.nth # n } \cup {e}
  BY <1>1 DEF AccPatches
<1>3. /\ accountCalls'[p].merge = "none"
      /\ \A s \in Calls \ {p} : accountCalls'[s] = accountCalls[s]
  BY <1>1 DEF Acc!Become, AccShape, AccCalls, Acc!Idle
<1>4. saved \in [Rows -> Acc!Content]
  BY DEF AccShape, AccProfiles
<1>5. ASSUME NEW w \in Rows \ crossed', w # q.at
      PROVE  /\ AccKept(w)'
             /\ \A s, t \in Calls : AccSaving(s, w)' /\ AccSaving(t, w)' => s = t
             /\ \A s \in Calls : AccSaving(s, w)' => (AccMerging(accountCalls[s]))'
  <2>1. /\ AccKept(w)
        /\ \A s, t \in Calls : AccSaving(s, w) /\ AccSaving(t, w) => s = t
        /\ \A s \in Calls : AccSaving(s, w) => AccMerging(accountCalls[s])
    BY <1>1, <1>5 DEF AccInv
  <2>2. Acc!RowsOf(w)' = Acc!RowsOf(w) /\ saved'[w] = saved[w]
    BY <1>2, <1>4, <1>5 DEF Acc!RowsOf
  <2>3. \A s \in Calls : AccSaving(s, w)' => s # p /\ AccSaving(s, w)
    BY <1>3 DEF AccSaving
  <2>4. ASSUME NEW s \in Calls, AccSaving(s, w)'
        PROVE  (AccMerging(accountCalls[s]))'
    <3>1. PICK y : y = accountCalls[s] /\ y = accountCalls'[s] /\ y.at = w /\ AccMerging(y)
      BY <1>3, <2>1, <2>3, <2>4 DEF AccSaving
    <3>2. (AccMerging(y))'
      BY <2>2, <3>1 DEF AccMerging
    <3> QED BY <3>1, <3>2 DEF AccMerging
  <2> QED BY <2>1, <2>2, <2>3, <2>4 DEF AccKept
<1>6. ASSUME q.at \notin crossed'
      PROVE  /\ AccKept(q.at)'
             /\ \A s \in Calls : ~AccSaving(s, q.at)'
  <2>1. AccSaving(p, q.at) /\ q.at \in Rows \ crossed
    BY <1>1, <1>2, <1>6 DEF AccSaving
  <2>2. /\ \A s \in Calls : AccSaving(s, q.at) => s = p
        /\ AccMerging(q)
    BY <2>1 DEF AccInv
  <2>3. \A s \in Calls : ~AccSaving(s, q.at)'
    BY <1>3, <2>2 DEF AccSaving
  <2>4. Acc!RowsOf(q.at)' = {e}
    <3>1. \A x \in profile : x.at = q.at => x.nth = n
      BY <1>1, <1>2, <2>2 DEF AccMerging, Acc!RowsOf
    <3> QED BY <1>2, <3>1 DEF Acc!RowsOf
  <2>5. saved'[q.at] = [saved[q.at] EXCEPT ![q.key] = q.value]
    BY <1>2, <1>4
  <2>6. e.content = saved'[q.at]
    BY <1>2, <2>2, <2>5 DEF AccMerging
  <2> QED BY <2>3, <2>4, <2>6 DEF AccKept
<1> QED BY <1>5, <1>6 DEF AccInv

\* Registration and workspaces leave the profiles alone.
LEMMA AccInvJoin ==
  ASSUME AccShape, AccInv, NEW p \in Calls,
         \/ \E u \in Users, name \in Names :
              Acc!Register(p, u, name) \/ Acc!CreateWorkspace(p, u, name)
         \/ Acc!FindEmail(p) \/ Acc!FindSlug(p) \/ Acc!SignUp(p)
         \/ Acc!FindFree(p) \/ Acc!Open(p)
  PROVE  AccInv'
<1>1. UNCHANGED <<profile, saved, crossed>>
  BY DEF Acc!Register, Acc!CreateWorkspace, Acc!FindEmail, Acc!FindSlug, Acc!SignUp,
         Acc!FindFree, Acc!Open
<1>2. accountCalls[p].pc \in {"email", "slug", "signup", "free", "open"} =>
        accountCalls[p] \in AccJoins
  BY AccSteps DEF AccShape
<1>3. \E r : Acc!Become(p, r) /\ r.merge = "none"
  <2>1. Acc!Idle.merge = "none"
    BY DEF Acc!Idle
  <2>2. CASE \E u \in Users, name \in Names :
               Acc!Register(p, u, name) \/ Acc!CreateWorkspace(p, u, name)
    BY <2>2 DEF Acc!Register, Acc!CreateWorkspace
  <2>3. CASE Acc!FindEmail(p)
    BY <1>2, <2>1, <2>3 DEF Acc!FindEmail, AccJoins
  <2>4. CASE Acc!FindSlug(p)
    <3>1. accountCalls[p] \in AccJoins
      BY <1>2, <2>4 DEF Acc!FindSlug
    <3>2. CASE Acc!Become(p, [accountCalls[p] EXCEPT !.pc = "signup"])
      BY <3>1, <3>2 DEF AccJoins
    <3>3. ASSUME NEW t \in Stamps,
                 Acc!Become(p, [accountCalls[p] EXCEPT !.slug = <<@[1], t>>, !.pc = "signup"])
          PROVE  \E r : Acc!Become(p, r) /\ r.merge = "none"
      <4> DEFINE r == [accountCalls[p] EXCEPT !.slug = <<@[1], t>>, !.pc = "signup"]
      <4>1. r.merge = "none"
        BY <3>1 DEF AccJoins
      <4> HIDE DEF r
      <4> QED BY <3>3, <4>1 DEF r
    <3> QED BY <2>4, <3>2, <3>3 DEF Acc!FindSlug
  <2>5. CASE Acc!SignUp(p) \/ Acc!Open(p)
    BY <2>1, <2>5 DEF Acc!SignUp, Acc!Open
  <2>6. CASE Acc!FindFree(p)
    BY <1>2, <2>1, <2>6 DEF Acc!FindFree, AccJoins
  <2> QED BY <2>2, <2>3, <2>4, <2>5, <2>6
<1> QED BY <1>1, <1>3, AccInvQuiet

\* Requests start; one that overlaps another leaves the workspace out.
LEMMA AccInvStart ==
  ASSUME AccShape, AccInv, NEW p \in Calls,
         \/ \E w \in Rows, name \in Names : Acc!UpdateName(p, w, name)
         \/ \E w \in Rows, c \in Sections, v \in Values \cup {Acc!None} :
              Acc!PatchUserProfile(p, w, c, v)
         \/ \E w \in Rows, c \in Sections \ {Broker}, v \in Values, name \in Names :
              Acc!UpdateOnboarding(p, w, c, v, name)
  PROVE  AccInv'
<1>1. PICK w, r : Acc!Start(p, w, r) /\ r.at = w /\ r.merge # "write"
  <2>1. CASE \E w \in Rows, name \in Names : Acc!UpdateName(p, w, name)
    BY <2>1 DEF Acc!UpdateName, Acc!Patch
  <2>2. CASE \E w \in Rows, c \in Sections, v \in Values \cup {Acc!None} :
               Acc!PatchUserProfile(p, w, c, v)
    BY <2>2 DEF Acc!PatchUserProfile, Acc!Patch
  <2>3. CASE \E w \in Rows, c \in Sections \ {Broker}, v \in Values, name \in Names :
               Acc!UpdateOnboarding(p, w, c, v, name)
    BY <2>3 DEF Acc!UpdateOnboarding, Acc!Patch
  <2> QED BY <2>1, <2>2, <2>3
<1>2. Acc!Become(p, r) /\ UNCHANGED <<profile, saved>> /\ crossed \subseteq crossed'
  BY <1>1 DEF Acc!Start
<1>3. ASSUME r.merge # "none", r.at \notin crossed'
      PROVE  \A q \in Calls : ~AccSaving(q, r.at)
  BY <1>1, <1>3 DEF Acc!Start, Acc!Saving, AccSaving
<1>4. AccMerging(r)
  BY <1>1 DEF AccMerging
<1> QED BY <1>2, <1>3, <1>4, AccInvQuiet

\* Every step of Accounts.
LEMMA AccInvStep ==
  ASSUME AccShape, AccInv, [Acc!Next]_(Acc!accountVars)
  PROVE  AccInv'
<1>0. AccCalls
  BY DEF AccShape
<1>1. CASE UNCHANGED <<profile, saved, accountCalls, crossed>>
  BY <1>1 DEF AccInv, AccKept, AccSaving, AccMerging, Acc!RowsOf
<1>2. ASSUME NEW p \in Calls, Acc!FindConflict(p)
      PROVE  AccInv'
  <2>1. UNCHANGED <<profile, saved, crossed>>
    BY <1>2 DEF Acc!FindConflict
  <2>2. PICK r \in AccPatches :
          LET q == accountCalls[p] IN
          /\ q \in AccPatches /\ AccRequest(q) /\ q.pc = "conflict"
          /\ Acc!Become(p, r) /\ r.at = q.at
          /\ r.merge = IF q.merge = "later" THEN "read" ELSE q.merge
    BY <1>2, AccConflicts
  <2>3. r.merge # "write"
    BY <2>2 DEF AccRequest
  <2>4. r.merge # "none" => AccSaving(p, r.at) /\ AccMerging(r)
    BY <2>2, <2>3 DEF AccSaving, AccMerging
  <2> QED BY <2>1, <2>2, <2>4, AccInvQuiet
<1>3. ASSUME NEW p \in Calls, Acc!Rename(p)
      PROVE  AccInv'
  <2> PICK q : q = accountCalls[p]
    OBVIOUS
  <2> PICK r : r = [q EXCEPT !.pc = "answered"]
    OBVIOUS
  <2>1. UNCHANGED <<profile, saved, crossed>> /\ Acc!Become(p, r) /\ q.pc = "rename"
    BY <1>3 DEF Acc!Rename
  <2>2. q \in AccPatches
    BY <1>0, <2>1, AccSteps
  <2>3. r.merge = q.merge /\ r.at = q.at /\ r.row = q.row /\ r.seen = q.seen /\ q.at \in Rows
    BY <2>2 DEF AccPatches
  <2>4. r.merge # "none" => AccSaving(p, r.at)
    BY <2>3 DEF AccSaving
  <2>5. r.merge # "none" => r.at \in crossed' \/ AccMerging(q)
    BY <2>1, <2>3, <2>4 DEF AccInv
  <2>6. r.merge # "none" => r.at \in crossed' \/ AccMerging(r)
    BY <2>3, <2>5 DEF AccMerging
  <2> QED BY <2>1, <2>4, <2>6, AccInvQuiet
<1>4. ASSUME NEW p \in Calls, Acc!ReadProfile(p)
      PROVE  AccInv'
  <2>1. PICK r \in AccPatches :
           LET q == accountCalls[p] IN
           /\ q \in AccPatches /\ q.merge = "read"
           /\ UNCHANGED <<profile, saved, crossed>>
           /\ Acc!Become(p, r) /\ r.at = q.at /\ r.merge = "write"
           /\ \/ Acc!RowsOf(q.at) = {} /\ r.row = 0 /\ r.seen = Acc!Blank
              \/ \E e \in Acc!RowsOf(q.at) : r.row = e.nth /\ r.seen = e.content
    BY <1>4, AccReading
  <2>2. r.at \in Rows /\ AccSaving(p, r.at)
    BY <2>1 DEF AccSaving, AccPatches
  <2>3. ASSUME r.at \notin crossed
        PROVE  AccMerging(r)
    <3>1. AccKept(r.at)
      BY <2>2, <2>3 DEF AccInv
    <3>2. CASE Acc!RowsOf(r.at) = {} /\ r.row = 0 /\ r.seen = Acc!Blank
      BY <3>1, <3>2 DEF AccMerging, AccKept
    <3>3. ASSUME NEW e \in Acc!RowsOf(r.at), r.row = e.nth, r.seen = e.content
          PROVE  AccMerging(r)
      <4>1. e.nth # 0
        BY OfficeAssumption DEF Acc!RowsOf, AccShape, AccProfiles
      <4>2. \A f \in Acc!RowsOf(r.at) : f = e
        BY <3>1 DEF AccKept
      <4>3. e.content = saved[r.at]
        BY <3>1 DEF AccKept
      <4> QED BY <3>3, <4>1, <4>2, <4>3 DEF AccMerging
    <3> QED BY <2>1, <3>2, <3>3
  <2> QED BY <2>1, <2>2, <2>3, AccInvQuiet
<1>5. ASSUME NEW p \in Calls, Acc!Fail(p) \/ Acc!FailMerge(p)
      PROVE  AccInv'
  <2>1. UNCHANGED <<profile, saved, crossed>>
    BY <1>5 DEF Acc!Fail, Acc!FailMerge
  <2>2. \E r : Acc!Become(p, r) /\ r.merge = "none"
    <3>1. CASE Acc!Fail(p)
      BY <3>1 DEF Acc!Fail, Acc!Idle
    <3>2. CASE Acc!FailMerge(p)
      <4>1. accountCalls[p] \in AccPatches
        BY <1>0, <3>2, AccSteps DEF Acc!FailMerge
      <4> QED BY <3>2, <4>1 DEF Acc!FailMerge, AccPatches
    <3> QED BY <1>5, <3>1, <3>2
  <2> QED BY <2>1, <2>2, AccInvQuiet
<1>6. ASSUME NEW w \in Rows, Acc!CreateResponsibleBroker(w)
      PROVE  AccInv'
  BY <1>1, <1>6 DEF Acc!CreateResponsibleBroker
<1>7. CASE Acc!Next
  BY <1>2, <1>3, <1>4, <1>5, <1>6, <1>7, AccInvJoin, AccInvStart, AccInvWrite DEF Acc!Next
<1>8. CASE UNCHANGED Acc!accountVars
  BY <1>1, <1>8 DEF Acc!accountVars
<1> QED BY <1>7, <1>8

LEMMA AccInvInit == Acc!Init => AccInv
BY DEF Acc!Init, AccInv, AccKept, AccSaving, Acc!RowsOf, Acc!Idle

LEMMA AccInvKept == Acc!Spec => []AccInv
<1>1. AccShape /\ AccInv /\ [Acc!Next]_(Acc!accountVars) => AccInv'
  BY AccInvStep
<1> QED BY <1>1, AccInvInit, AccShapeKept, PTL DEF Acc!Spec

\* Rows that are all one have a Cardinality of at most one.
LEMMA AccInvEnough == AccShape /\ AccInv => Acc!ProfileKeeps
<1> SUFFICES ASSUME AccShape, AccInv PROVE Acc!ProfileKeeps
  OBVIOUS
<1>1. ASSUME NEW w \in Rows \ crossed
      PROVE  Acc!Cardinality(Acc!RowsOf(w)) <= 1
  <2>1. AccKept(w)
    BY <1>1 DEF AccInv
  <2>2. CASE Acc!RowsOf(w) = {}
    BY <2>2, AccCardinality, FS_EmptySet
  <2>3. ASSUME NEW e \in Acc!RowsOf(w)
        PROVE  Acc!Cardinality(Acc!RowsOf(w)) <= 1
    <3>1. Acc!RowsOf(w) = {e}
      BY <2>1 DEF AccKept
    <3>2. Cardinality(Acc!RowsOf(w)) = 1
      BY <3>1, FS_Singleton
    <3> QED BY <3>2, AccCardinality
  <2> QED BY <2>2, <2>3
<1>2. \A w \in Rows \ crossed :
        /\ \A e \in Acc!RowsOf(w) : e.content = saved[w]
        /\ Acc!RowsOf(w) = {} => saved[w] = Acc!Blank
  BY DEF AccInv, AccKept
<1>3. \A u \in users : \E w \in Rows : admin[w] = u
  BY DEF AccShape, AccSpaces
<1> QED BY <1>1, <1>2, <1>3 DEF Acc!ProfileKeeps

(***************************************************************************)
(* Each component behaves in Office as it does alone.                      *)
(***************************************************************************)

\* A step of Office is a step of one of the three or none of any.
LEMMA Parts == OfficeSpec => Spec /\ Tpl!Spec /\ Acc!Spec
<1>1. OfficeInit => Init /\ Tpl!Init /\ Acc!Init
  BY DEF OfficeInit
<1>2. ASSUME [OfficeNext]_<<part, templateSide, accountSide, deskVars>>
      PROVE  [Next]_deskVars /\ [Tpl!Next]_(Tpl!templateVars) /\ [Acc!Next]_(Acc!accountVars)
  <2>1. /\ UNCHANGED templateSide <=> UNCHANGED Tpl!templateVars
        /\ UNCHANGED accountSide <=> UNCHANGED Acc!accountVars
    BY DEF templateSide, accountSide, Tpl!templateVars, Acc!accountVars
  <2> QED BY <1>2, <2>1 DEF OfficeNext
<1> QED BY <1>1, <1>2, PTL DEF OfficeSpec, Spec, Tpl!Spec, Acc!Spec

\* The state of records, templates and accounts has its type: among other things a
\* profile's request has a workspace, a version has its own number and no two
\* workspaces have a slug in common.
THEOREM OfficeTypes == OfficeSpec => []TypesOK
<1>1. Spec => []TypeOK
  BY TypeCorrect
<1>2. TplShape /\ AccShape /\ TypeOK => TypesOK
  BY AccShapeTypes DEF TplShape, TypesOK
<1> QED BY <1>1, <1>2, Parts, TplShapeKept, AccShapeKept, PTL

\* Every version's row has the hash of the PDF in storage under its key, for any
\* slugs, PDFs and requests; only requests that met on a slug are left out
\* (ingest, createTemplate, duplicateTemplate).
THEOREM PdfsStayRight == OfficeSpec => []PdfsMatchHash
<1>1. TplShape /\ TplInv => PdfsMatchHash
  BY TplInvEnough DEF PdfsMatchHash
<1> QED BY <1>1, Parts, TplShapeKept, TplInvKept, PTL

\* A version's fields are one batch, made from the PDF its row has, for any versions
\* and rewrites (duplicateTemplate, TemplateFieldsService).
THEOREM FieldsStayFit == OfficeSpec => []FieldsFit
<1>1. TplShape /\ TplInv => FieldsFit
  BY TplInvEnough DEF FieldsFit
<1> QED BY <1>1, Parts, TplShapeKept, TplInvKept, PTL

\* A member's profile is one row that has all that was written to it, and everybody
\* registered has a workspace, for any people, sections and requests; only
\* workspaces where merges overlapped are left out (mergeAgentProfileMemory).
THEOREM ProfilesStayWhole == OfficeSpec => []ProfileKeeps
<1>1. AccShape /\ AccInv => ProfileKeeps
  BY AccInvEnough DEF ProfileKeeps
<1> QED BY <1>1, Parts, AccShapeKept, AccInvKept, PTL
================================================================================
