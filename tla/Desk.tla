---------------------------------- MODULE Desk ---------------------------------
(***************************************************************************)
(* The small records of a deal and what is told of them: tasks, review     *)
(* tasks, exceptions, memory entries, notifications and calendar events,   *)
(* with their audit rows, the events made of an offer's key dates, and     *)
(* CalendarSyncService's copies of events in the calendars of users.       *)
(*                                                                         *)
(* Each service reads the row, writes it and then inserts the audit row,   *)
(* one awaited call after the other.  Two statuses stand for everything an *)
(* update changes.  The rows a service looks up first are taken to exist.  *)
(***************************************************************************)
EXTENDS Naturals, Sequences, FiniteSets

CONSTANTS
  Rows,       \* ids for the records, in the order they are drawn
  Users,      \* the members with external calendars
  Providers,  \* {"google", "microsoft"}
  Calls,      \* the requests that may run at one time
  ChecklistItems, \* how many tasks the listing prep checklist has
  MaxCopies   \* bound on an event's copies in one calendar

\* A checklist is not empty; "none" is where an event that has no copy is linked to.
ASSUME DeskAssumption ==
  /\ ChecklistItems \in Nat \ {0} /\ MaxCopies \in Nat
  /\ "none" \notin Providers

VARIABLES
  record,     \* the rows by id, with their kinds and statuses
  told,       \* the status in the newest audit row of each record
  gaps,       \* the records with an audit row that does not follow the last
  connected,  \* the UserConnection rows with a token
  link,       \* CalendarEvent.externalProvider and externalId
  copies,     \* external: the events in the calendars of Google and Microsoft
  calls,      \* where each request is between its awaits
  muddled,    \* history: records whose updates overlapped or died half way
  strayed     \* history: events whose syncs overlapped, died or changed provider

deskVars == <<record, told, gaps, connected, link, copies, calls, muddled, strayed>>

Absent == [kind |-> "none", status |-> "none"]
Untold == "untold"
Unlinked == [at |-> "none"]
Idle == [pc |-> "idle"]

\* A case is an exception, a review task or a memory entry: their services are
\* alike.  A task's service is, too, but no audit row tells of a new task.
Kinds == {"task", "case", "event", "notice"}

\* Pending, detected or as first noted; completed, decided, resolved or edited.
Status == {"open", "settled"}

Links == [at : Providers, of : Users, event : Rows, nth : 1..MaxCopies]

TypeOK ==
  /\ record \in [Rows -> {Absent} \cup [kind : Kinds, status : Status]]
  /\ \A x \in Rows : record[x].kind \in {"event", "notice"} => record[x].status = "open"
  /\ told \in [Rows -> {Untold} \cup Status]
  /\ gaps \subseteq Rows /\ muddled \subseteq Rows /\ strayed \subseteq Rows
  /\ connected \subseteq Users \X Providers
  /\ copies \subseteq Links
  /\ \A x \in Rows : link[x] \in {Unlinked} \cup copies
  /\ \A p \in Calls : calls[p] # Idle =>
       calls[p].pc \in {"insert", "read", "write", "tell", "connection", "event",
                        "patch", "post", "link"}

Init ==
  /\ record = [x \in Rows |-> Absent]
  /\ told = [x \in Rows |-> Untold]
  /\ gaps = {} /\ connected = {} /\ copies = {}
  /\ link = [x \in Rows |-> Unlinked]
  /\ calls = [p \in Calls |-> Idle]
  /\ muddled = {} /\ strayed = {}

Become(p, r) == calls' = [calls EXCEPT ![p] = r]
Goto(p, pc) == calls' = [calls EXCEPT ![p].pc = pc]

rowVars == <<record, told, gaps, muddled>>
syncVars == <<connected, link, copies, strayed>>

(***************************************************************************)
(* New rows.                                                               *)
(***************************************************************************)

\* POST of an exception, a memory entry, a review task, an event, or a notice.
Create(p, kind) ==
  /\ calls[p] = Idle /\ kind # "task"
  /\ Become(p, [pc |-> "insert", todo |-> <<kind>>])
  /\ UNCHANGED <<rowVars, syncVars>>

\* The deadlines that an offer in force, by its terms, and the closing date among
\* the deal's own fields give.
KeyDates(terms, field) ==
  ({"closing_date", "option_deadline", "earnest_money_deadline"} \cap (terms \cup field))
    \cup IF "financed" \in terms THEN {"financing_deadline", "appraisal_deadline"} ELSE {}

Extractions ==
  { KeyDates(terms, field) :
      terms \in SUBSET {"closing_date", "option_deadline", "earnest_money_deadline",
                        "financed"},
      field \in SUBSET {"closing_date"} }

\* POST .../extract-key-dates: an event for each, whatever events there are.
ExtractKeyDates(p, dates) ==
  /\ calls[p] = Idle /\ dates # {}
  /\ Become(p, [pc |-> "insert", todo |-> [i \in 1..Cardinality(dates) |-> "event"]])
  /\ UNCHANGED <<rowVars, syncVars>>

\* Tasks come by the checklist, one row after the other.
ActivateListingPrepChecklist(p) ==
  /\ calls[p] = Idle
  /\ Become(p, [pc |-> "insert", todo |-> [i \in 1..ChecklistItems |-> "task"]])
  /\ UNCHANGED <<rowVars, syncVars>>

\* The audit rows of a whole checklist or extraction, which name no status, are
\* left out.
GoOn(p, todo) ==
  Become(p, IF todo = <<>> THEN Idle ELSE [pc |-> "insert", todo |-> todo])

\* A task has no audit row of its own until it is updated.
Insert(p) ==
  /\ calls[p].pc = "insert"
  /\ \E x \in Rows :
       LET kind == Head(calls[p].todo)
           rest == Tail(calls[p].todo)
       IN
       /\ record[x] = Absent
       /\ record' = [record EXCEPT ![x] = [kind |-> kind, status |-> "open"]]
       /\ IF kind = "task" THEN GoOn(p, rest)
          ELSE Become(p, [pc |-> "tell", row |-> x, was |-> Untold,
                          status |-> "open", todo |-> rest])
  /\ UNCHANGED <<told, gaps, muddled, syncVars>>

(***************************************************************************)
(* Updates.                                                                *)
(***************************************************************************)

Updates(x) ==
  { p \in Calls : calls[p].pc \in {"read", "write", "tell"} /\ calls[p].row = x }

\* PATCH of a task, an exception or a memory entry, or a decision on a review.
Update(p, x, status) ==
  /\ calls[p] = Idle
  /\ record[x].kind \in {"task", "case"}
  /\ Become(p, [pc |-> "read", row |-> x, was |-> Untold, status |-> status,
                todo |-> <<>>])
  /\ muddled' = IF Updates(x) # {} THEN muddled \cup {x} ELSE muddled
  /\ UNCHANGED <<record, told, gaps, syncVars>>

Read(p) ==
  /\ calls[p].pc = "read"
  /\ Become(p, [calls[p] EXCEPT !.pc = "write",
                                !.was = record[calls[p].row].status])
  /\ UNCHANGED <<rowVars, syncVars>>

\* By id, whatever the row has become since it was read.
Write(p) ==
  /\ calls[p].pc = "write"
  /\ record' = [record EXCEPT ![calls[p].row].status = calls[p].status]
  /\ Goto(p, "tell")
  /\ UNCHANGED <<told, gaps, muddled, syncVars>>

\* Mutant of Told: that a record is opened again is not told.
ToldForward(r) ==
  IF told[r.row] = Untold \/ r.status = "settled"
  THEN [told EXCEPT ![r.row] = r.status] ELSE told

\* The audit row has the status this request wrote.
Told(r) == [told EXCEPT ![r.row] = r.status]

Tell(p) ==
  LET r == calls[p] IN
  /\ r.pc = "tell"
  /\ told' = Told(r)
  /\ gaps' = IF told[r.row] \in {Untold, r.was} THEN gaps ELSE gaps \cup {r.row}
  /\ GoOn(p, r.todo)
  /\ UNCHANGED <<record, muddled, syncVars>>

(***************************************************************************)
(* The calendars of users.                                                 *)
(***************************************************************************)

\* Tokens come from the web application and are replaced, not removed.
ConnectProvider(u, at) ==
  /\ connected' = connected \cup {<<u, at>>}
  /\ UNCHANGED <<rowVars, link, copies, calls, strayed>>

Syncs(x) ==
  { p \in Calls : calls[p].pc \in {"connection", "event", "patch", "post", "link"}
                    /\ calls[p].event = x }

\* POST /calendar-events/:id/sync.
Sync(p, u, x, at) ==
  /\ calls[p] = Idle
  /\ record[x].kind = "event"
  /\ Become(p, [pc |-> "connection", user |-> u, event |-> x, at |-> at,
                copy |-> Unlinked])
  /\ strayed' = IF Syncs(x) # {} THEN strayed \cup {x} ELSE strayed
  /\ UNCHANGED <<rowVars, connected, link, copies>>

FindConnection(p) ==
  LET r == calls[p] IN
  /\ r.pc = "connection"
  /\ IF <<r.user, r.at>> \in connected THEN Goto(p, "event") ELSE Become(p, Idle)
  /\ UNCHANGED <<rowVars, syncVars>>

\* Mutant of Known: a copy in another user's calendar does not count.
KnownOfUser(r) ==
  /\ link[r.event] # Unlinked /\ link[r.event].at = r.at
  /\ link[r.event].of = r.user

\* externalId is set, and by this provider.
Known(r) == link[r.event] # Unlinked /\ link[r.event].at = r.at

\* A copy with another provider is left to itself.
FindEvent(p) ==
  LET r == calls[p] IN
  /\ r.pc = "event"
  /\ Become(p, IF Known(r) THEN [r EXCEPT !.pc = "patch", !.copy = link[r.event]]
               ELSE [r EXCEPT !.pc = "post"])
  /\ strayed' = IF link[r.event].at \notin {Unlinked.at, r.at}
                THEN strayed \cup {r.event} ELSE strayed
  /\ UNCHANGED <<rowVars, connected, link, copies>>

\* A calendar knows the copies of its own user only.
Patch(p) ==
  LET r == calls[p] IN
  /\ r.pc = "patch"
  /\ IF r.copy.of = r.user THEN Goto(p, "link") ELSE Become(p, Idle)
  /\ UNCHANGED <<rowVars, syncVars>>

Mine(r) == { c \in copies : c.event = r.event /\ c.at = r.at /\ c.of = r.user }

Post(p) ==
  LET r == calls[p]
      n == Cardinality(Mine(r)) + 1
      c == [at |-> r.at, of |-> r.user, event |-> r.event, nth |-> n]
  IN
  /\ r.pc = "post" /\ n <= MaxCopies
  /\ copies' = copies \cup {c}
  /\ Become(p, [r EXCEPT !.pc = "link", !.copy = c])
  /\ UNCHANGED <<rowVars, connected, link, strayed>>

Link(p) ==
  /\ calls[p].pc = "link"
  /\ link' = [link EXCEPT ![calls[p].event] = calls[p].copy]
  /\ Become(p, Idle)
  /\ UNCHANGED <<rowVars, connected, copies, strayed>>

\* A call fails or the process dies: what was written stays, untold.
Fail(p) ==
  LET r == calls[p] IN
  /\ r # Idle
  /\ Become(p, Idle)
  /\ muddled' = IF r.pc = "tell" THEN muddled \cup {r.row} ELSE muddled
  /\ strayed' = IF r.pc = "link" THEN strayed \cup {r.event} ELSE strayed
  /\ UNCHANGED <<record, told, gaps, connected, link, copies>>

Next ==
  \/ \E p \in Calls :
       \/ ActivateListingPrepChecklist(p)
       \/ \E kind \in Kinds : Create(p, kind)
       \/ \E dates \in Extractions : ExtractKeyDates(p, dates)
       \/ \E x \in Rows, s \in Status : Update(p, x, s)
       \/ \E u \in Users, x \in Rows, at \in Providers : Sync(p, u, x, at)
       \/ Insert(p) \/ Read(p) \/ Write(p) \/ Tell(p)
       \/ FindConnection(p) \/ FindEvent(p) \/ Patch(p) \/ Post(p) \/ Link(p)
       \/ Fail(p)
  \/ \E u \in Users, at \in Providers : ConnectProvider(u, at)

Spec == Init /\ [][Next]_deskVars

(***************************************************************************)
(* Properties.                                                             *)
(***************************************************************************)

\* The audit trail of a record follows it: unless two of its updates overlapped
\* or one died before its audit row, each row starts from what the last one told,
\* and once no update is on its way the newest tells what the record is.
ChangesTold ==
  \A x \in Rows \ muddled :
    /\ x \notin gaps
    /\ record[x] # Absent /\ Updates(x) = {} =>
         \/ told[x] = record[x].status
         \/ told[x] = Untold /\ record[x] = [kind |-> "task", status |-> "open"]

\* An event has one copy in all external calendars, and the link knows it,
\* whoever syncs it and whatever fails before the copy is made; only syncs that
\* overlap, die with the copy made or change the provider leave strays.
OneCopy ==
  \A x \in Rows \ strayed :
    LET made == { c \in copies : c.event = x } IN
    /\ Cardinality(made) <= 1
    /\ Syncs(x) = {} => made \subseteq {link[x]}
=============================================================================
