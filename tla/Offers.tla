-------------------------------- MODULE Offers --------------------------------
(***************************************************************************)
(* The offers on one deal: OffersService, the extraction that runs inside  *)
(* offer creation, and AcceptanceService.prepareAcceptancePackage.         *)
(*                                                                         *)
(* A request is a sequence of awaited database calls without a             *)
(* transaction.  Each action below is one such call with the code up to    *)
(* the next one; a status check is made on the offer as it was read and    *)
(* the write that follows is unconditional.  Audit rows are written right  *)
(* after the change they tell of and are part of its action: what a        *)
(* failing audit call cuts off is what Fail cuts off.  Offers of other     *)
(* deals are out of reach of every query here, so one deal is enough.      *)
(***************************************************************************)
EXTENDS Workflow

CONSTANTS
  Offers,       \* the offers the deal may receive
  Fields,       \* buyerName, offerPrice and closeDate: what a selection needs
  Requests,     \* the requests the API process may be serving at one time
  Selectors,    \* those of them that may be POST /offers/:id/select
  UserTargets   \* the stages members move the deal to meanwhile

ASSUME ConstantsAssumption ==
  /\ Selectors \subseteq Requests
  /\ UserTargets \subseteq Stages

VARIABLES
  status,       \* Offer.status, or "none" before the offer is created
  missing,      \* the fields of each offer that are null
  stage,        \* Deal.stage
  items,        \* the offers a missing_info unresolved item was raised for
  packets,      \* the offers with a send_acceptance_packet review task
  req,          \* where each request is between its awaits
  chosen,       \* history: the offers some request wrote 'selected' to
  autoStages,   \* history: the stages a tryTransitionDeal moved the deal to
  untracked     \* history: offers cleared by a PATCH or whose select died

vars == <<status, missing, stage, items, packets, req,
          chosen, autoStages, untracked>>

Statuses ==
  { "received", "summarized", "incomplete", "shortlisted", "selected",
    "rejected", "accepted", "superseded" }

Idle == [pc |-> "idle"]

\* pc names the next database call; gone is the set of fields the request saw
\* null when it read its offer.
Busy == [kind : {"create", "shortlist", "select", "reject", "prepare"},
         pc : {"supersede", "write", "task", "tryMove", "move",
               "extract", "summarize", "item"},
         offer : Offers, gone : SUBSET Fields]

TypeOK ==
  /\ status \in [Offers -> Statuses \cup {"none"}]
  /\ missing \in [Offers -> SUBSET Fields]
  /\ stage \in Stages
  /\ items \subseteq Offers
  /\ packets \subseteq Offers
  /\ req \in [Requests -> {Idle} \cup Busy]
  /\ chosen \subseteq Offers
  /\ autoStages \subseteq Stages
  /\ untracked \subseteq Offers

Init ==
  /\ status = [o \in Offers |-> "none"]
  /\ missing = [o \in Offers |-> {}]
  /\ stage = "active"
  /\ items = {} /\ packets = {}
  /\ req = [p \in Requests |-> Idle]
  /\ chosen = {} /\ autoStages = {} /\ untracked = {}

\* The statuses select and shortlist accept.
Shortlistable == {"received", "summarized", "incomplete"}
Selectable == Shortlistable \cup {"shortlisted"}

\* A request that has passed its checks, about to make its first write.
Begin(p, kind, pc, o) ==
  req' = [req EXCEPT ![p] =
            [kind |-> kind, pc |-> pc, offer |-> o, gone |-> missing[o]]]

Goto(p, pc) == req' = [req EXCEPT ![p].pc = pc]

Done(p) == req' = [req EXCEPT ![p] = Idle]

(***************************************************************************)
(* The requests.  A check that fails is a 4xx answer that changes nothing  *)
(* (a stuttering step).                                                    *)
(***************************************************************************)

\* OffersService.create: the row, with what the body left out null.
Create(p, o, S) ==
  /\ req[p].pc = "idle"
  /\ status[o] = "none"
  /\ status' = [status EXCEPT ![o] = "received"]
  /\ missing' = [missing EXCEPT ![o] = S]
  /\ req' = [req EXCEPT ![p] =
       [kind |-> "create", pc |-> "tryMove", offer |-> o, gone |-> {}]]
  /\ UNCHANGED <<stage, items, packets, chosen, autoStages, untracked>>

\* OffersService.update: a PATCH of the fields, never of the status.
Update(o, S) ==
  /\ status[o] # "none"
  /\ missing' = [missing EXCEPT ![o] = S]
  /\ untracked' = IF S = {} THEN untracked ELSE untracked \cup {o}
  /\ UNCHANGED <<status, stage, items, packets, req, chosen, autoStages>>

Shortlist(p, o) ==
  /\ req[p].pc = "idle"
  /\ status[o] \in Shortlistable
  /\ Begin(p, "shortlist", "write", o)
  /\ UNCHANGED <<status, missing, stage, items, packets,
                 chosen, autoStages, untracked>>

Select(p, o) ==
  /\ p \in Selectors
  /\ req[p].pc = "idle"
  /\ status[o] \in Selectable
  /\ Begin(p, "select", "supersede", o)
  /\ UNCHANGED <<status, missing, stage, items, packets,
                 chosen, autoStages, untracked>>

Reject(p, o) ==
  /\ req[p].pc = "idle"
  /\ status[o] \notin {"none", "accepted", "rejected"}
  /\ Begin(p, "reject", "write", o)
  /\ UNCHANGED <<status, missing, stage, items, packets,
                 chosen, autoStages, untracked>>

\* Mutant of Prepare: the status check is dropped.
PrepareAny(p, o) ==
  /\ req[p].pc = "idle"
  /\ status[o] # "none"
  /\ Begin(p, "prepare", "task", o)
  /\ UNCHANGED <<status, missing, stage, items, packets,
                 chosen, autoStages, untracked>>

\* prepareAcceptancePackage up to the end of its documents.
Prepare(p, o) ==
  /\ req[p].pc = "idle"
  /\ status[o] = "selected"
  /\ Begin(p, "prepare", "task", o)
  /\ UNCHANGED <<status, missing, stage, items, packets,
                 chosen, autoStages, untracked>>

(***************************************************************************)
(* The calls they make.                                                    *)
(***************************************************************************)

\* Mutant of Supersede: only the shortlist gives way.
SupersedeShortlist(p) ==
  /\ req[p].pc = "supersede"
  /\ status' = [o \in Offers |->
       IF o # req[p].offer /\ status[o] = "shortlisted"
       THEN "superseded" ELSE status[o]]
  /\ Goto(p, "write")
  /\ UNCHANGED <<missing, stage, items, packets,
                 chosen, autoStages, untracked>>

\* The updateMany of select: one statement over the deal's other offers.
Supersede(p) ==
  /\ req[p].pc = "supersede"
  /\ status' = [o \in Offers |->
       IF /\ o # req[p].offer
          /\ status[o] \notin {"none", "rejected", "superseded", "accepted"}
       THEN "superseded" ELSE status[o]]
  /\ Goto(p, "write")
  /\ UNCHANGED <<missing, stage, items, packets,
                 chosen, autoStages, untracked>>

\* Mutant of WriteShortlisted: a status that is none of OFFER_STATUSES.
WriteShortlistedTypo(p) ==
  /\ req[p].pc = "write" /\ req[p].kind = "shortlist"
  /\ status' = [status EXCEPT ![req[p].offer] = "short_listed"]
  /\ Done(p)
  /\ UNCHANGED <<missing, stage, items, packets,
                 chosen, autoStages, untracked>>

\* The offer.update of shortlist, select and reject, by id.
WriteShortlisted(p) ==
  /\ req[p].pc = "write" /\ req[p].kind = "shortlist"
  /\ status' = [status EXCEPT ![req[p].offer] = "shortlisted"]
  /\ Done(p)
  /\ UNCHANGED <<missing, stage, items, packets,
                 chosen, autoStages, untracked>>

WriteSelected(p) ==
  /\ req[p].pc = "write" /\ req[p].kind = "select"
  /\ status' = [status EXCEPT ![req[p].offer] = "selected"]
  /\ chosen' = chosen \cup {req[p].offer}
  /\ Goto(p, "tryMove")
  /\ UNCHANGED <<missing, stage, items, packets, autoStages, untracked>>

WriteRejected(p) ==
  /\ req[p].pc = "write" /\ req[p].kind = "reject"
  /\ status' = [status EXCEPT ![req[p].offer] = "rejected"]
  /\ Done(p)
  /\ UNCHANGED <<missing, stage, items, packets,
                 chosen, autoStages, untracked>>

\* reviewTasksService.create, the last write of the package.
CreateTask(p) ==
  /\ req[p].pc = "task"
  /\ packets' = packets \cup {req[p].offer}
  /\ Goto(p, "tryMove")
  /\ UNCHANGED <<status, missing, stage, items,
                 chosen, autoStages, untracked>>

\* The stage each kind of request asks tryTransitionDeal for.
Target(kind) ==
  CASE kind = "create" -> "offers_received"
    [] kind = "select" -> "offer_selected"
    [] OTHER -> "contract_drafting"

\* What a request does once tryTransitionDeal has returned.
AfterMove(p) ==
  CASE req[p].kind = "create" -> Goto(p, "extract")
    [] req[p].kind = "select" /\ req[p].gone # {} -> Goto(p, "item")
    [] OTHER -> Done(p)

\* tryTransitionDeal reads the deal and asks validateTransition as 'system'.
TryMove(p) ==
  /\ req[p].pc = "tryMove"
  /\ IF Allowed("listing", stage, Target(req[p].kind), "system", FALSE)
     THEN Goto(p, "move") ELSE AfterMove(p)
  /\ UNCHANGED <<status, missing, stage, items, packets,
                 chosen, autoStages, untracked>>

\* ... and writes the stage it asked for, whatever the stage is by now.
Move(p) ==
  /\ req[p].pc = "move"
  /\ stage' = Target(req[p].kind)
  /\ autoStages' = autoStages \cup {Target(req[p].kind)}
  /\ AfterMove(p)
  /\ UNCHANGED <<status, missing, items, packets, chosen, untracked>>

\* Mutant of RaiseItem: the item is forgotten.
RaiseNothing(p) ==
  /\ req[p].pc = "item"
  /\ Done(p)
  /\ UNCHANGED <<status, missing, stage, items, packets,
                 chosen, autoStages, untracked>>

\* The missing_info item of select, from the fields it read at its start.
RaiseItem(p) ==
  /\ req[p].pc = "item"
  /\ items' = items \cup {req[p].offer}
  /\ Done(p)
  /\ UNCHANGED <<status, missing, stage, packets,
                 chosen, autoStages, untracked>>

\* extractAndUpdate reads the offer and awaits the extractor.
Extract(p) ==
  /\ req[p].pc = "extract"
  /\ Begin(p, "create", "summarize", req[p].offer)
  /\ UNCHANGED <<status, missing, stage, items, packets,
                 chosen, autoStages, untracked>>

\* ... and writes what it extracted.  The installed extractor supplies every
\* field it was given none for, so the result is complete; the fields that
\* were there when the offer was read are not in the update.
Summarize(p) ==
  /\ req[p].pc = "summarize"
  /\ status' = [status EXCEPT ![req[p].offer] = "summarized"]
  /\ missing' = [missing EXCEPT ![req[p].offer] = @ \ req[p].gone]
  /\ Done(p)
  /\ UNCHANGED <<stage, items, packets, chosen, autoStages, untracked>>

\* A call of the request fails or the process dies.  (A failing extraction is
\* caught by the controller, which leaves the same state.)
Fail(p) ==
  /\ req[p].pc # "idle"
  /\ untracked' = IF req[p].kind = "select"
                  THEN untracked \cup {req[p].offer} ELSE untracked
  /\ Done(p)
  /\ UNCHANGED <<status, missing, stage, items, packets, chosen, autoStages>>

\* A member moves the deal along an edge (DealStage has the details).
MoveDeal(to) ==
  /\ <<stage, to>> \in Edges
  /\ stage' = to
  /\ UNCHANGED <<status, missing, items, packets, req,
                 chosen, autoStages, untracked>>

Next ==
  \/ \E p \in Requests :
       \/ \E o \in Offers :
            \/ \E S \in SUBSET Fields : Create(p, o, S)
            \/ Shortlist(p, o)
            \/ Select(p, o)
            \/ Reject(p, o)
            \/ Prepare(p, o)
       \/ Supersede(p)
       \/ WriteShortlisted(p)
       \/ WriteSelected(p)
       \/ WriteRejected(p)
       \/ CreateTask(p)
       \/ TryMove(p)
       \/ Move(p)
       \/ RaiseItem(p)
       \/ Extract(p)
       \/ Summarize(p)
       \/ Fail(p)
  \/ \E o \in Offers, S \in SUBSET Fields : Update(o, S)
  \/ \E to \in UserTargets : MoveDeal(to)

Spec == Init /\ [][Next]_vars

(***************************************************************************)
(* Properties.                                                             *)
(***************************************************************************)

\* A deal goes on with at most one offer: select supersedes every other open
\* or selected one before it writes its own.  True however many other requests
\* run, as long as no two selects do.
AtMostOneSelected ==
  \A o, x \in Offers :
    status[o] = "selected" /\ status[x] = "selected" => o = x

\* The strengthening of AtMostOneSelected: a select that has superseded the
\* others finds no selected one among them when it writes.
SupersedeHolds ==
  \A p \in Requests, o \in Offers :
    req[p].pc = "write" /\ req[p].kind = "select" /\ status[o] = "selected"
      => o = req[p].offer

\* What each call belongs to, and that a request's offer exists.
CallsFit ==
  \A p \in Requests :
    /\ req[p].pc # "idle" => status[req[p].offer] # "none"
    /\ req[p].pc # "idle" /\ req[p].kind = "select" => p \in Selectors
    /\ req[p].pc \in {"supersede", "item"} => req[p].kind = "select"
    /\ req[p].pc = "task" => req[p].kind = "prepare"
    /\ req[p].pc \in {"extract", "summarize"} => req[p].kind = "create"
    /\ req[p].pc = "write" => req[p].kind \in {"shortlist", "select", "reject"}
    /\ req[p].pc \in {"tryMove", "move"} =>
         req[p].kind \in {"create", "select", "prepare"}

\* A question was raised about every selected offer that lacks a buyer, a price
\* or a close date, by the last call of select, unless a PATCH took the field
\* away afterwards or the select died on the way; no extraction and no other
\* request makes a gap that select did not see.
MissingInfoTracked ==
  \A o \in Offers :
    status[o] = "selected" /\ missing[o] # {} =>
      \/ o \in items \cup untracked
      \/ \E p \in Requests : /\ req[p].pc \in {"tryMove", "move", "item"}
                             /\ req[p].kind = "select" /\ req[p].offer = o
                             /\ req[p].gone # {}

\* The strengthening of MissingInfoTracked: until it writes, a select knows of
\* every field that is missing, or the offer is no longer tracked.
GapsKnown ==
  \A p \in Requests :
    req[p].pc \in {"supersede", "write"} /\ req[p].kind = "select" =>
      \/ missing[req[p].offer] = {}
      \/ req[p].gone # {}
      \/ req[p].offer \in untracked

\* The deal never runs ahead of its offers: the services move it to
\* offer_selected only after an offer was selected, to contract_drafting only
\* after the review task of a package exists, and a package is only prepared
\* for an offer that some request had selected.
AutoMovesBacked ==
  /\ "offer_selected" \in autoStages => chosen # {}
  /\ "contract_drafting" \in autoStages => packets # {}
  /\ packets \subseteq chosen

\* The strengthening of AutoMovesBacked: a request asks for a stage after the
\* work that stage stands for.
MovesPending ==
  /\ \A o \in Offers : status[o] = "selected" => o \in chosen
  /\ \A p \in Requests :
       /\ req[p].pc = "task" => req[p].offer \in chosen
       /\ req[p].pc \in {"tryMove", "move"} /\ req[p].kind = "select"
            => chosen # {}
       /\ req[p].pc \in {"tryMove", "move"} /\ req[p].kind = "prepare"
            => packets # {}

\* The offers, seen as absent, open, chosen or out.
PhaseOf(s) ==
  CASE s = "none" -> "absent"
    [] s \in Selectable -> "open"
    [] s \in {"selected", "accepted"} -> "chosen"
    [] OTHER -> "out"

Book == INSTANCE OfferBook WITH phase <- [o \in Offers |-> PhaseOf(status[o])]

\* Requests served one at a time treat offers as the book says: none comes
\* back from rejected or superseded, and one is chosen when the others are out.
FollowsBook == Book!BookSpec

\* What serving requests one at a time buys: the status a request checked is
\* the status it overwrites, and what select superseded is still out.
NeverStale ==
  /\ \A o \in Offers : status[o] # "accepted"
  /\ \A p \in Requests :
       LET r == req[p] IN
       /\ r.pc # "idle" /\ r.kind = "create" => status[r.offer] = "received"
       /\ r.pc = "write" /\ r.kind = "shortlist"
            => status[r.offer] \in Shortlistable
       /\ r.pc = "supersede" => status[r.offer] \in Selectable
       /\ r.pc = "write" /\ r.kind = "select" =>
            /\ status[r.offer] \in Selectable
            /\ \A o \in Offers \ {r.offer} :
                 status[o] \in {"none", "rejected", "superseded"}
=============================================================================
