---------------------------- MODULE Offers_proofs -----------------------------
(***************************************************************************)
(* Theorems about Offers, for any sets of offers, fields and requests.     *)
(***************************************************************************)
EXTENDS Offers, TLAPS

(***************************************************************************)
(* Type correctness, and the calls each kind of request makes.             *)
(***************************************************************************)

\* A request between two calls of its own is a record of Busy.
LEMMA Underway ==
  ASSUME TypeOK, NEW p \in Requests, req[p].pc # "idle"
  PROVE  req[p] \in Busy
BY DEF TypeOK, Idle

\* After tryTransitionDeal a request is somewhere a request can be.
LEMMA AfterMoveType ==
  ASSUME TypeOK, NEW p \in Requests, req[p] \in Busy, AfterMove(p)
  PROVE  /\ req' \in [Requests -> {Idle} \cup Busy]
         /\ \A q \in Requests \ {p} : req'[q] = req[q]
         /\ \/ req'[p] = Idle
            \/ /\ req'[p].kind = req[p].kind
               /\ req'[p].offer = req[p].offer
               /\ req'[p].gone = req[p].gone
               /\ \/ req[p].kind = "create" /\ req'[p].pc = "extract"
                  \/ /\ req[p].kind = "select" /\ req[p].gone # {}
                     /\ req'[p].pc = "item"
<1> USE DEF TypeOK, Busy
<1>1. CASE req[p].kind = "create"
  <2>1. Goto(p, "extract")
    BY <1>1 DEF AfterMove
  <2> QED BY <1>1, <2>1 DEF Goto
<1>2. CASE req[p].kind = "select" /\ req[p].gone # {}
  <2>1. Goto(p, "item")
    BY <1>2 DEF AfterMove
  <2> QED BY <1>2, <2>1 DEF Goto
<1>3. CASE req[p].kind # "create" /\ ~(req[p].kind = "select" /\ req[p].gone # {})
  <2>1. Done(p)
    BY <1>3 DEF AfterMove
  <2> QED BY <2>1 DEF Done
<1> QED BY <1>1, <1>2, <1>3

\* The stage a request asks for is a stage.
LEMMA TargetType == \A kind : Target(kind) \in Stages
BY DEF Target, Stages

\* The calls of a request other than the reading of its offer: all of them
\* leave every other request alone.
Call(p) ==
  \/ Supersede(p) \/ WriteShortlisted(p) \/ WriteSelected(p)
  \/ WriteRejected(p) \/ CreateTask(p) \/ TryMove(p) \/ Move(p)
  \/ RaiseItem(p) \/ Extract(p) \/ Summarize(p) \/ Fail(p)

\* A step keeps every variable of Offers in its type.
LEMMA TypeStep == TypeOK /\ [Next]_vars => TypeOK'
<1> SUFFICES ASSUME TypeOK, [Next]_vars PROVE TypeOK'
  OBVIOUS
<1> USE DEF TypeOK, Statuses
<1>1. ASSUME NEW p \in Requests, NEW o \in Offers, NEW S \in SUBSET Fields,
             Create(p, o, S)
      PROVE  TypeOK'
  BY <1>1 DEF Create, Busy
<1>2. ASSUME NEW p \in Requests, NEW o \in Offers,
             Shortlist(p, o) \/ Select(p, o) \/ Reject(p, o) \/ Prepare(p, o)
      PROVE  TypeOK'
  BY <1>2 DEF Shortlist, Select, Reject, Prepare, Begin, Busy
<1>3. ASSUME NEW p \in Requests, Call(p) PROVE TypeOK'
  <2>1. req[p] \in Busy
    BY <1>3, Underway DEF Call, Supersede, WriteShortlisted, WriteSelected,
       WriteRejected, CreateTask, TryMove, Move, RaiseItem, Extract,
       Summarize, Fail
  <2> USE <2>1
  <2>2. CASE Supersede(p)
    BY <2>2 DEF Supersede, Goto, Busy
  <2>3. CASE WriteShortlisted(p) \/ WriteRejected(p)
    BY <2>3 DEF WriteShortlisted, WriteRejected, Done
  <2>4. CASE WriteSelected(p)
    BY <2>4 DEF WriteSelected, Goto, Busy
  <2>5. CASE CreateTask(p)
    BY <2>5 DEF CreateTask, Goto, Busy
  <2>6. CASE TryMove(p)
    <3>1. CASE Goto(p, "move")
      BY <2>6, <3>1 DEF TryMove, Goto, Busy
    <3>2. CASE AfterMove(p)
      BY <2>6, <3>2, AfterMoveType DEF TryMove
    <3> QED BY <2>6, <3>1, <3>2 DEF TryMove
  <2>7. CASE Move(p)
    BY <2>7, AfterMoveType, TargetType DEF Move
  <2>8. CASE RaiseItem(p)
    BY <2>8 DEF RaiseItem, Done, Busy
  <2>9. CASE Extract(p)
    BY <2>9 DEF Extract, Begin, Busy
  <2>10. CASE Summarize(p)
    BY <2>10 DEF Summarize, Done, Busy
  <2>11. CASE Fail(p)
    BY <2>11 DEF Fail, Done, Busy
  <2> QED
    BY <1>3, <2>2, <2>3, <2>4, <2>5, <2>6, <2>7, <2>8, <2>9, <2>10, <2>11
    DEF Call
<1>4. ASSUME NEW o \in Offers, NEW S \in SUBSET Fields, Update(o, S)
      PROVE  TypeOK'
  BY <1>4 DEF Update
<1>5. ASSUME NEW to \in UserTargets, MoveDeal(to) PROVE TypeOK'
  BY <1>5, ConstantsAssumption DEF MoveDeal
<1>6. CASE UNCHANGED vars
  BY <1>6 DEF vars
<1> HIDE DEF TypeOK
<1> QED
  BY <1>1, <1>2, <1>3, <1>4, <1>5, <1>6 DEF Next, Call

\* Every variable of Offers keeps its type.
THEOREM TypeCorrect == Spec => []TypeOK
<1>1. Init => TypeOK
  BY DEF Init, TypeOK, Stages
<1> QED
  BY <1>1, TypeStep, PTL DEF Spec

\* Every call belongs to the kind of request that makes it, and works on an
\* offer that exists.
LEMMA CallsStep == TypeOK /\ CallsFit /\ [Next]_vars => CallsFit'
<1> SUFFICES ASSUME TypeOK, CallsFit, [Next]_vars PROVE CallsFit'
  OBVIOUS
<1> USE DEF TypeOK, CallsFit, Statuses, Idle
<1>1. ASSUME NEW p \in Requests, NEW o \in Offers, NEW S \in SUBSET Fields,
             Create(p, o, S)
      PROVE  CallsFit'
  BY <1>1 DEF Create, Busy
<1>2. ASSUME NEW p \in Requests, NEW o \in Offers,
             Shortlist(p, o) \/ Select(p, o) \/ Reject(p, o) \/ Prepare(p, o)
      PROVE  CallsFit'
  BY <1>2 DEF Shortlist, Select, Reject, Prepare, Begin, Busy, Shortlistable,
              Selectable
<1>3. ASSUME NEW p \in Requests, Call(p) PROVE CallsFit'
  <2>1. req[p] \in Busy
    BY <1>3, Underway DEF Call, Supersede, WriteShortlisted, WriteSelected,
       WriteRejected, CreateTask, TryMove, Move, RaiseItem, Extract,
       Summarize, Fail
  <2> USE <2>1
  <2>2. CASE Supersede(p)
    BY <2>2 DEF Supersede, Goto, Busy
  <2>3. CASE WriteShortlisted(p) \/ WriteRejected(p)
    BY <2>3 DEF WriteShortlisted, WriteRejected, Done, Busy
  <2>4. CASE WriteSelected(p)
    BY <2>4 DEF WriteSelected, Goto, Busy
  <2>5. CASE CreateTask(p)
    BY <2>5 DEF CreateTask, Goto, Busy
  <2>6. CASE TryMove(p)
    <3>1. CASE Goto(p, "move")
      BY <2>6, <3>1 DEF TryMove, Goto, Busy
    <3>2. CASE AfterMove(p)
      BY <2>6, <3>2, AfterMoveType DEF TryMove
    <3> QED BY <2>6, <3>1, <3>2 DEF TryMove
  <2>7. CASE Move(p)
    BY <2>7, AfterMoveType DEF Move
  <2>8. CASE RaiseItem(p)
    BY <2>8 DEF RaiseItem, Done, Busy
  <2>9. CASE Extract(p)
    BY <2>9 DEF Extract, Begin, Busy
  <2>10. CASE Summarize(p)
    BY <2>10 DEF Summarize, Done, Busy
  <2>11. CASE Fail(p)
    BY <2>11 DEF Fail, Done, Busy
  <2> QED
    BY <1>3, <2>2, <2>3, <2>4, <2>5, <2>6, <2>7, <2>8, <2>9, <2>10, <2>11
    DEF Call
<1>4. ASSUME NEW o \in Offers, NEW S \in SUBSET Fields, Update(o, S)
      PROVE  CallsFit'
  BY <1>4 DEF Update
<1>5. ASSUME NEW to \in UserTargets, MoveDeal(to) PROVE CallsFit'
  BY <1>5 DEF MoveDeal
<1>6. CASE UNCHANGED vars
  BY <1>6 DEF vars
<1> HIDE DEF TypeOK, CallsFit
<1> QED
  BY <1>1, <1>2, <1>3, <1>4, <1>5, <1>6 DEF Next, Call

\* Both hold in every reachable state.
LEMMA Flow == Spec => [](TypeOK /\ CallsFit)
<1>1. Init => TypeOK /\ CallsFit
  BY DEF Init, TypeOK, CallsFit, Stages, Idle
<1> QED
  BY <1>1, TypeStep, CallsStep, PTL DEF Spec

(***************************************************************************)
(* One offer at most is selected, as long as no two selects run at once.   *)
(***************************************************************************)

\* Only WriteSelected makes an offer selected, and only Begin puts a request
\* before its write; every other step can only shrink what the two invariants
\* speak of.
LEMMA SelectStep ==
  ASSUME \A p, q \in Selectors : p = q
  PROVE  TypeOK /\ CallsFit /\ AtMostOneSelected /\ SupersedeHolds
           /\ [Next]_vars => AtMostOneSelected' /\ SupersedeHolds'
<1> SUFFICES ASSUME TypeOK, CallsFit, AtMostOneSelected, SupersedeHolds,
                    [Next]_vars
             PROVE  AtMostOneSelected' /\ SupersedeHolds'
  OBVIOUS
<1> DEFINE Quiet ==
      /\ \A o \in Offers : status'[o] = "selected" => status[o] = "selected"
      /\ \A q \in Requests :
           req'[q].pc = "write" /\ req'[q].kind = "select"
             => req[q].pc = "write" /\ req'[q] = req[q]
<1>1. ASSUME Quiet PROVE AtMostOneSelected' /\ SupersedeHolds'
  BY <1>1 DEF AtMostOneSelected, SupersedeHolds
<1> USE DEF TypeOK, Statuses, Idle
<1>2. ASSUME NEW p \in Requests, NEW o \in Offers, NEW S \in SUBSET Fields,
             Create(p, o, S)
      PROVE  Quiet
  BY <1>2 DEF Create
<1>3. ASSUME NEW p \in Requests, NEW o \in Offers,
             Shortlist(p, o) \/ Select(p, o) \/ Reject(p, o) \/ Prepare(p, o)
      PROVE  Quiet
  BY <1>3 DEF Shortlist, Select, Reject, Prepare, Begin
<1>4. ASSUME NEW p \in Requests, Supersede(p)
      PROVE  AtMostOneSelected' /\ SupersedeHolds'
  <2>1. req[p] \in Busy /\ req[p].kind = "select"
    BY <1>4, Underway DEF Supersede, CallsFit
  <2>2. \A o \in Offers :
          status'[o] = "selected" => status[o] = "selected" /\ o = req[p].offer
    BY <1>4 DEF Supersede
  <2>3. \A q \in Requests \ {p} : req'[q] = req[q]
    BY <1>4 DEF Supersede, Goto
  <2>4. req'[p].offer = req[p].offer
    BY <1>4, <2>1 DEF Supersede, Goto, Busy
  <2> QED BY <2>2, <2>3, <2>4 DEF AtMostOneSelected, SupersedeHolds
<1>5. ASSUME NEW p \in Requests, WriteSelected(p)
      PROVE  AtMostOneSelected' /\ SupersedeHolds'
  <2>1. req[p] \in Busy
    BY <1>5, Underway DEF WriteSelected
  <2>2. \A o \in Offers : status'[o] = "selected" => o = req[p].offer
    BY <1>5 DEF WriteSelected, SupersedeHolds
  <2>3. req'[p].pc = "tryMove"
    BY <1>5, <2>1 DEF WriteSelected, Goto, Busy
  <2>4. \A q \in Requests \ {p} :
          req'[q] = req[q] /\ ~(req[q].pc = "write" /\ req[q].kind = "select")
    BY <1>5 DEF WriteSelected, Goto, CallsFit
  <2> QED BY <2>2, <2>3, <2>4 DEF AtMostOneSelected, SupersedeHolds
<1>6. ASSUME NEW p \in Requests, WriteShortlisted(p) \/ WriteRejected(p)
      PROVE  Quiet
  BY <1>6 DEF WriteShortlisted, WriteRejected, Done
<1>7. ASSUME NEW p \in Requests, CreateTask(p) PROVE Quiet
  BY <1>7, Underway DEF CreateTask, Goto, Busy
<1>8. ASSUME NEW p \in Requests, TryMove(p) \/ Move(p) PROVE Quiet
  <2>1. req[p] \in Busy /\ status' = status
    BY <1>8, Underway DEF TryMove, Move
  <2>2. CASE Goto(p, "move")
    BY <2>1, <2>2 DEF Goto, Busy
  <2>3. CASE AfterMove(p)
    <3>1. /\ \A q \in Requests \ {p} : req'[q] = req[q]
          /\ req'[p] = Idle \/ req'[p].pc \in {"extract", "item"}
      BY <2>1, <2>3, AfterMoveType
    <3> QED BY <2>1, <3>1
  <2> QED BY <1>8, <2>2, <2>3 DEF TryMove, Move
<1>9. ASSUME NEW p \in Requests, RaiseItem(p) \/ Extract(p) \/ Fail(p)
      PROVE  Quiet
  BY <1>9 DEF RaiseItem, Extract, Fail, Done, Begin
<1>10. ASSUME NEW p \in Requests, Summarize(p) PROVE Quiet
  BY <1>10 DEF Summarize, Done
<1>11. ASSUME NEW o \in Offers, NEW S \in SUBSET Fields, Update(o, S)
       PROVE  Quiet
  BY <1>11 DEF Update
<1>12. ASSUME NEW to \in UserTargets, MoveDeal(to) PROVE Quiet
  BY <1>12 DEF MoveDeal
<1>13. CASE UNCHANGED vars
  BY <1>13 DEF vars, AtMostOneSelected, SupersedeHolds
<1> HIDE DEF TypeOK, Quiet
<1> QED
  BY <1>1, <1>2, <1>3, <1>4, <1>5, <1>6, <1>7, <1>8, <1>9, <1>10, <1>11,
     <1>12, <1>13 DEF Next

\* A deal never has two selected offers, if at most one request at a time is a
\* select: any number of creations with their extraction, shortlistings,
\* rejections and package preparations may run beside it.
THEOREM OneSelected ==
  ASSUME \A p, q \in Selectors : p = q
  PROVE  Spec => []AtMostOneSelected
<1>1. Init => AtMostOneSelected /\ SupersedeHolds
  BY DEF Init, AtMostOneSelected, SupersedeHolds, Idle
<1> QED
  BY <1>1, SelectStep, Flow, PTL DEF Spec

(***************************************************************************)
(* The deal does not run ahead of its offers.                              *)
(***************************************************************************)

\* Histories only grow, and each call is made after the work it relies on.
LEMMA BackedStep ==
  TypeOK /\ CallsFit /\ AutoMovesBacked /\ MovesPending /\ [Next]_vars
    => AutoMovesBacked' /\ MovesPending'
<1> SUFFICES ASSUME TypeOK, CallsFit, AutoMovesBacked, MovesPending,
                    [Next]_vars
             PROVE  AutoMovesBacked' /\ MovesPending'
  OBVIOUS
<1> USE DEF TypeOK, AutoMovesBacked, MovesPending
<1>1. ASSUME NEW p \in Requests, NEW o \in Offers, NEW S \in SUBSET Fields,
             Create(p, o, S)
      PROVE  AutoMovesBacked' /\ MovesPending'
  BY <1>1 DEF Create
<1>2. ASSUME NEW p \in Requests, NEW o \in Offers,
             Shortlist(p, o) \/ Select(p, o) \/ Reject(p, o) \/ Prepare(p, o)
      PROVE  AutoMovesBacked' /\ MovesPending'
  BY <1>2 DEF Shortlist, Select, Reject, Prepare, Begin
<1>3. ASSUME NEW p \in Requests, Call(p)
      PROVE  AutoMovesBacked' /\ MovesPending'
  <2>1. req[p] \in Busy
    BY <1>3, Underway DEF Call, Supersede, WriteShortlisted, WriteSelected,
       WriteRejected, CreateTask, TryMove, Move, RaiseItem, Extract,
       Summarize, Fail
  <2> USE <2>1
  <2>2. CASE Supersede(p)
    BY <2>2 DEF Supersede, Goto, Busy
  <2>3. CASE WriteShortlisted(p) \/ WriteRejected(p)
    BY <2>3 DEF WriteShortlisted, WriteRejected, Done, Idle
  <2>4. CASE WriteSelected(p)
    BY <2>4 DEF WriteSelected, Goto, Busy
  <2>5. CASE CreateTask(p)
    BY <2>5 DEF CreateTask, Goto, Busy, CallsFit
  <2>6. CASE TryMove(p)
    <3>1. CASE Goto(p, "move")
      BY <2>6, <3>1 DEF TryMove, Goto, Busy
    <3>2. CASE AfterMove(p)
      <4>1. /\ \A q \in Requests \ {p} : req'[q] = req[q]
            /\ req'[p] = Idle \/ req'[p].pc \in {"extract", "item"}
        BY <3>2, AfterMoveType
      <4> QED BY <2>6, <4>1 DEF TryMove, Idle
    <3> QED BY <2>6, <3>1, <3>2 DEF TryMove
  <2>7. CASE Move(p)
    <3>1. /\ \A q \in Requests \ {p} : req'[q] = req[q]
          /\ req'[p] = Idle \/ req'[p].pc \in {"extract", "item"}
      BY <2>7, AfterMoveType DEF Move
    <3>2. MovesPending'
      BY <2>7, <3>1 DEF Move, Idle
    <3>3. /\ Target(req[p].kind) = "offer_selected" => req[p].kind = "select"
          /\ Target(req[p].kind) = "contract_drafting"
               => req[p].kind = "prepare"
      BY <2>7 DEF Move, Target, CallsFit
    <3>4. AutoMovesBacked'
      BY <2>7, <3>3 DEF Move
    <3> QED BY <3>2, <3>4
  <2>8. CASE RaiseItem(p)
    BY <2>8 DEF RaiseItem, Done, Idle
  <2>9. CASE Extract(p)
    BY <2>9 DEF Extract, Begin
  <2>10. CASE Summarize(p)
    BY <2>10 DEF Summarize, Done, Idle
  <2>11. CASE Fail(p)
    BY <2>11 DEF Fail, Done, Idle
  <2> QED
    BY <1>3, <2>2, <2>3, <2>4, <2>5, <2>6, <2>7, <2>8, <2>9, <2>10, <2>11
    DEF Call
<1>4. ASSUME NEW o \in Offers, NEW S \in SUBSET Fields, Update(o, S)
      PROVE  AutoMovesBacked' /\ MovesPending'
  BY <1>4 DEF Update
<1>5. ASSUME NEW to \in UserTargets, MoveDeal(to)
      PROVE  AutoMovesBacked' /\ MovesPending'
  BY <1>5 DEF MoveDeal
<1>6. CASE UNCHANGED vars
  BY <1>6 DEF vars
<1> HIDE DEF TypeOK, AutoMovesBacked, MovesPending
<1> QED
  BY <1>1, <1>2, <1>3, <1>4, <1>5, <1>6 DEF Next, Call

\* Whatever requests run at once and wherever they die, the services move the
\* deal only after the work the new stage stands for.
THEOREM MovesBacked == Spec => []AutoMovesBacked
<1>1. Init => AutoMovesBacked /\ MovesPending
  BY DEF Init, AutoMovesBacked, MovesPending, Idle
<1> QED
  BY <1>1, BackedStep, Flow, PTL DEF Spec

(***************************************************************************)
(* The gaps of a selected offer are tracked.                               *)
(***************************************************************************)

\* The witness of MissingInfoTracked for offer o.
Asking(p, o) ==
  /\ req[p].pc \in {"tryMove", "move", "item"}
  /\ req[p].kind = "select" /\ req[p].offer = o
  /\ req[p].gone # {}

\* A select asks until it has raised its item or died.
LEMMA AskingStep ==
  ASSUME TypeOK, CallsFit, [Next]_vars, NEW p \in Requests, NEW o \in Offers,
         Asking(p, o)
  PROVE  Asking(p, o)' \/ o \in (items \cup untracked)'
<1> USE DEF Asking
<1>1. req[p] \in Busy
  BY Underway
<1>2. CASE req'[p] = req[p]
  BY <1>2
<1>3. CASE TryMove(p) \/ Move(p)
  <2>1. CASE Goto(p, "move")
    BY <1>1, <2>1 DEF Goto, Busy, TypeOK
  <2>2. CASE AfterMove(p)
    <3>1. Goto(p, "item")
      BY <2>2 DEF AfterMove
    <3> QED BY <1>1, <3>1 DEF Goto, Busy, TypeOK
  <2> QED BY <1>3, <2>1, <2>2 DEF TryMove, Move
<1>4. CASE RaiseItem(p)
  BY <1>4 DEF RaiseItem
<1>5. CASE Fail(p)
  BY <1>5 DEF Fail
<1>6. req'[p] = req[p] \/ TryMove(p) \/ Move(p) \/ RaiseItem(p) \/ Fail(p)
  <2> USE DEF TypeOK, Idle
  <2>1. ASSUME NEW q \in Requests, NEW x \in Offers, NEW S \in SUBSET Fields,
               Create(q, x, S)
        PROVE  req'[p] = req[p]
    BY <2>1 DEF Create
  <2>2. ASSUME NEW q \in Requests, NEW x \in Offers,
               Shortlist(q, x) \/ Select(q, x) \/ Reject(q, x) \/ Prepare(q, x)
        PROVE  req'[p] = req[p]
    BY <2>2 DEF Shortlist, Select, Reject, Prepare, Begin
  <2>3. ASSUME NEW q \in Requests,
               \/ Supersede(q) \/ WriteShortlisted(q) \/ WriteSelected(q)
               \/ WriteRejected(q) \/ CreateTask(q) \/ Extract(q)
               \/ Summarize(q)
        PROVE  req'[p] = req[p]
    BY <2>3 DEF Supersede, WriteShortlisted, WriteSelected, WriteRejected,
       CreateTask, Extract, Summarize, Goto, Done, Begin
  <2>4. ASSUME NEW q \in Requests, q # p, TryMove(q) \/ Move(q)
        PROVE  req'[p] = req[p]
    <3>1. req[q] \in Busy
      BY <2>4, Underway DEF TryMove, Move
    <3>2. Goto(q, "move") \/ AfterMove(q)
      BY <2>4 DEF TryMove, Move
    <3> HIDE DEF TypeOK
    <3>3. CASE AfterMove(q)
      BY <2>4, <3>1, <3>3, AfterMoveType
    <3>4. CASE Goto(q, "move")
      BY <2>4, <3>4 DEF Goto, TypeOK
    <3> QED BY <3>2, <3>3, <3>4
  <2>5. ASSUME NEW q \in Requests, q # p, RaiseItem(q) \/ Fail(q)
        PROVE  req'[p] = req[p]
    BY <2>5 DEF RaiseItem, Fail, Done
  <2>6. ASSUME NEW x \in Offers, NEW S \in SUBSET Fields, Update(x, S)
        PROVE  req'[p] = req[p]
    BY <2>6 DEF Update
  <2>7. ASSUME NEW to \in UserTargets, MoveDeal(to) PROVE req'[p] = req[p]
    BY <2>7 DEF MoveDeal
  <2>8. CASE UNCHANGED vars
    BY <2>8 DEF vars
  <2> HIDE DEF TypeOK
  <2> QED BY <2>1, <2>2, <2>3, <2>4, <2>5, <2>6, <2>7, <2>8 DEF Next
<1> QED BY <1>2, <1>3, <1>4, <1>5, <1>6

\* What is left of the step: offers become selected only by a select that knew
\* of their gaps, and gaps appear only by a PATCH.
LEMMA GapStep ==
  TypeOK /\ CallsFit /\ MissingInfoTracked /\ GapsKnown /\ [Next]_vars
    => MissingInfoTracked' /\ GapsKnown'
<1> SUFFICES ASSUME TypeOK, CallsFit, MissingInfoTracked, GapsKnown,
                    [Next]_vars
             PROVE  MissingInfoTracked' /\ GapsKnown'
  OBVIOUS
<1> DEFINE
      Grows == items \subseteq items' /\ untracked \subseteq untracked'
      \* No offer becomes selected or loses a field, except untracked ones.
      Offer(o) == /\ status'[o] = "selected" => status[o] = "selected"
                  /\ missing'[o] \subseteq missing[o] \/ o \in untracked'
      \* No request becomes a select about to write.
      Request(q) == req'[q].pc \in {"supersede", "write"}
                      /\ req'[q].kind = "select"
                    => /\ req[q].pc \in {"supersede", "write"}
                       /\ req[q].kind = "select"
                       /\ req'[q].offer = req[q].offer
                       /\ req'[q].gone = req[q].gone
<1>1. Grows /\ (\A o \in Offers : Offer(o) \/ status'[o] # "selected")
        => MissingInfoTracked'
  <2> SUFFICES ASSUME Grows, NEW o \in Offers, Offer(o),
                      status'[o] = "selected", missing'[o] # {},
                      o \notin items' \cup untracked'
               PROVE  \E p \in Requests : Asking(p, o)'
    BY DEF MissingInfoTracked, Asking
  <2>1. PICK p \in Requests : Asking(p, o)
    BY DEF MissingInfoTracked, Asking
  <2> QED BY <2>1, AskingStep
<1>2. Grows /\ (\A o \in Offers : Offer(o)) /\ (\A q \in Requests : Request(q))
        => GapsKnown'
  <2> SUFFICES ASSUME Grows, \A o \in Offers : Offer(o), NEW q \in Requests,
                      Request(q), req'[q].pc \in {"supersede", "write"},
                      req'[q].kind = "select"
               PROVE  \/ missing'[req'[q].offer] = {}
                      \/ req'[q].gone # {}
                      \/ req'[q].offer \in untracked'
    BY DEF GapsKnown
  <2>1. req[q] \in Busy
    BY Underway
  <2>2. req[q].offer \in Offers
    BY <2>1 DEF Busy
  <2> QED BY <2>2 DEF GapsKnown
<1> USE DEF TypeOK, Idle
<1>3. ASSUME NEW p \in Requests, NEW o \in Offers, NEW S \in SUBSET Fields,
             Create(p, o, S)
      PROVE  MissingInfoTracked' /\ GapsKnown'
  <2>1. Grows /\ \A x \in Offers : Offer(x) \/ status'[x] # "selected"
    BY <1>3 DEF Create
  <2>2. ASSUME NEW q \in Requests, req'[q].pc \in {"supersede", "write"},
               req'[q].kind = "select"
        PROVE  \/ missing'[req'[q].offer] = {}
               \/ req'[q].gone # {}
               \/ req'[q].offer \in untracked'
    <3>1. req'[q] = req[q]
      BY <1>3, <2>2 DEF Create
    <3>2. req[q] \in Busy /\ status[req[q].offer] # "none"
      BY <2>2, <3>1, Underway DEF CallsFit
    <3>3. missing'[req[q].offer] = missing[req[q].offer]
      BY <1>3, <3>2 DEF Create, Busy
    <3> QED BY <1>3, <2>2, <3>1, <3>3 DEF Create, GapsKnown
  <2> HIDE DEF Grows, Offer
  <2> QED BY <1>1, <2>1, <2>2 DEF GapsKnown
<1>4. ASSUME NEW p \in Requests, NEW o \in Offers, Select(p, o)
      PROVE  MissingInfoTracked' /\ GapsKnown'
  <2>1. Grows /\ \A x \in Offers : Offer(x)
    BY <1>4 DEF Select
  <2>2. GapsKnown'
    BY <1>4 DEF Select, Begin, GapsKnown
  <2> HIDE DEF Grows, Offer
  <2> QED BY <1>1, <2>1, <2>2
<1>5. ASSUME NEW p \in Requests, NEW o \in Offers,
             Shortlist(p, o) \/ Reject(p, o) \/ Prepare(p, o)
      PROVE  Grows /\ (\A x \in Offers : Offer(x))
             /\ (\A q \in Requests : Request(q))
  BY <1>5 DEF Shortlist, Reject, Prepare, Begin
<1>6. ASSUME NEW p \in Requests, Supersede(p) \/ CreateTask(p)
      PROVE  Grows /\ (\A x \in Offers : Offer(x))
             /\ (\A q \in Requests : Request(q))
  <2>1. req[p] \in Busy
    BY <1>6, Underway DEF Supersede, CreateTask
  <2> QED BY <1>6, <2>1 DEF Supersede, CreateTask, Goto, Busy
<1>7. ASSUME NEW p \in Requests,
             WriteShortlisted(p) \/ WriteRejected(p) \/ RaiseItem(p) \/ Fail(p)
      PROVE  Grows /\ (\A x \in Offers : Offer(x))
             /\ (\A q \in Requests : Request(q))
  BY <1>7 DEF WriteShortlisted, WriteRejected, RaiseItem, Fail, Done
<1>8. ASSUME NEW p \in Requests, WriteSelected(p)
      PROVE  MissingInfoTracked' /\ GapsKnown'
  <2>1. req[p] \in Busy /\ req[p].offer \in Offers
    BY <1>8, Underway DEF WriteSelected, Busy
  <2>2. /\ Grows
        /\ \A x \in Offers \ {req[p].offer} : Offer(x)
        /\ missing' = missing /\ untracked' = untracked
    BY <1>8 DEF WriteSelected
  <2>3. /\ \A q \in Requests \ {p} : req'[q] = req[q]
        /\ req'[p].pc = "tryMove" /\ req'[p].kind = "select"
        /\ req'[p].offer = req[p].offer /\ req'[p].gone = req[p].gone
    BY <1>8, <2>1 DEF WriteSelected, Goto, Busy
  <2>4. GapsKnown'
    BY <2>2, <2>3 DEF GapsKnown
  <2>5. ASSUME NEW o \in Offers, status'[o] = "selected", missing'[o] # {},
               o \notin items' \cup untracked'
        PROVE  \E q \in Requests : Asking(q, o)'
    <3>1. CASE o = req[p].offer
      <4>1. req[p].gone # {}
        BY <1>8, <2>2, <2>5, <3>1 DEF GapsKnown, WriteSelected
      <4> QED BY <2>3, <3>1, <4>1 DEF Asking
    <3>2. CASE o # req[p].offer
      <4>1. PICK q \in Requests : Asking(q, o)
        BY <2>2, <2>5, <3>2 DEF MissingInfoTracked, Asking
      <4> QED BY <2>5, <4>1, AskingStep
    <3> QED BY <3>1, <3>2
  <2>6. MissingInfoTracked'
    BY <2>5 DEF MissingInfoTracked, Asking
  <2> QED BY <2>4, <2>6
<1>9. ASSUME NEW p \in Requests, TryMove(p) \/ Move(p)
      PROVE  Grows /\ (\A x \in Offers : Offer(x))
             /\ (\A q \in Requests : Request(q))
  <2>1. req[p] \in Busy
    BY <1>9, Underway DEF TryMove, Move
  <2>2. Grows /\ (\A x \in Offers : Offer(x))
    BY <1>9 DEF TryMove, Move
  <2>3. CASE Goto(p, "move")
    BY <2>1, <2>2, <2>3 DEF Goto, Busy
  <2>4. CASE AfterMove(p)
    <3>1. /\ \A q \in Requests \ {p} : req'[q] = req[q]
          /\ req'[p] = Idle \/ req'[p].pc \in {"extract", "item"}
      BY <2>1, <2>4, AfterMoveType
    <3> QED BY <2>1, <2>2, <3>1
  <2> QED BY <1>9, <2>3, <2>4 DEF TryMove, Move
<1>10. ASSUME NEW p \in Requests, Extract(p) \/ Summarize(p)
       PROVE  Grows /\ (\A x \in Offers : Offer(x))
              /\ (\A q \in Requests : Request(q))
  <2>1. req[p] \in Busy
    BY <1>10, Underway DEF Extract, Summarize
  <2> QED BY <1>10, <2>1 DEF Extract, Summarize, Begin, Done, Busy
<1>11. ASSUME NEW o \in Offers, NEW S \in SUBSET Fields, Update(o, S)
       PROVE  Grows /\ (\A x \in Offers : Offer(x))
              /\ (\A q \in Requests : Request(q))
  BY <1>11 DEF Update
<1>12. ASSUME NEW to \in UserTargets, MoveDeal(to)
       PROVE  Grows /\ (\A x \in Offers : Offer(x))
              /\ (\A q \in Requests : Request(q))
  BY <1>12 DEF MoveDeal
<1>13. CASE UNCHANGED vars
  BY <1>13 DEF vars, MissingInfoTracked, GapsKnown
<1> HIDE DEF TypeOK, Grows, Offer, Request
<1> QED
  BY <1>1, <1>2, <1>3, <1>4, <1>5, <1>6, <1>7, <1>8, <1>9, <1>10, <1>11,
     <1>12, <1>13 DEF Next

\* A selected offer without a buyer, a price or a close date has an open
\* question, whatever runs beside the select.
THEOREM GapsTracked == Spec => []MissingInfoTracked
<1>1. Init => MissingInfoTracked /\ GapsKnown
  BY DEF Init, MissingInfoTracked, GapsKnown, Idle
<1> QED
  BY <1>1, GapStep, Flow, PTL DEF Spec

(***************************************************************************)
(* One request at a time, the offers follow the book.                      *)
(***************************************************************************)

PhaseMap == [o \in Offers |-> PhaseOf(status[o])]

\* The phase of each status.
LEMMA PhaseValues ==
  /\ PhaseOf("none") = "absent"
  /\ \A s \in Selectable : PhaseOf(s) = "open"
  /\ PhaseOf("selected") = "chosen"
  /\ \A s \in {"rejected", "superseded"} : PhaseOf(s) = "out"
  /\ "received" \in Selectable /\ "summarized" \in Selectable
  /\ "shortlisted" \in Selectable /\ Shortlistable \subseteq Selectable
BY DEF PhaseOf, Selectable, Shortlistable

\* With one request, what it checked still holds when it writes; and the write
\* is a step of the book.
LEMMA SerialStep ==
  ASSUME \A p, q \in Requests : p = q
  PROVE  TypeOK /\ CallsFit /\ NeverStale /\ [Next]_vars
           => NeverStale' /\ [Book!BookNext]_PhaseMap
<1> SUFFICES ASSUME TypeOK, CallsFit, NeverStale, [Next]_vars
             PROVE  NeverStale' /\ [Book!BookNext]_PhaseMap
  OBVIOUS
<1>1. ASSUME status' = status PROVE PhaseMap' = PhaseMap
  BY <1>1 DEF PhaseMap
<1> USE DEF TypeOK, NeverStale, Statuses, Idle
<1>2. ASSUME NEW p \in Requests, NEW o \in Offers, NEW S \in SUBSET Fields,
             Create(p, o, S)
      PROVE  NeverStale' /\ [Book!BookNext]_PhaseMap
  <2>1. NeverStale'
    BY <1>2 DEF Create
  <2>2. Book!Receive(o)
    BY <1>2, PhaseValues DEF Create, Book!Receive
  <2> QED BY <2>1, <2>2 DEF Book!BookNext
<1>3. ASSUME NEW p \in Requests, NEW o \in Offers,
             Shortlist(p, o) \/ Select(p, o) \/ Reject(p, o) \/ Prepare(p, o)
      PROVE  NeverStale' /\ [Book!BookNext]_PhaseMap
  <2>1. NeverStale' /\ status' = status
    BY <1>3 DEF Shortlist, Select, Reject, Prepare, Begin
  <2> QED BY <1>1, <2>1
<1>4. ASSUME NEW p \in Requests, Supersede(p)
      PROVE  NeverStale' /\ [Book!BookNext]_PhaseMap
  <2>1. req[p] \in Busy /\ req[p].kind = "select" /\ req[p].offer \in Offers
    BY <1>4, Underway DEF Supersede, CallsFit, Busy
  <2>2. req'[p] = [req[p] EXCEPT !.pc = "write"]
    BY <1>4 DEF Supersede, Goto
  <2>3. /\ req'[p].pc = "write" /\ req'[p].kind = "select"
        /\ req'[p].offer = req[p].offer
    BY <2>1, <2>2 DEF Busy
  <2>4. \A q \in Requests : q = p
    OBVIOUS
  <2>5. NeverStale'
    BY <1>4, <2>1, <2>3, <2>4 DEF Supersede
  <2> DEFINE G == { o \in Offers : status'[o] = "superseded" }
  <2>6. Book!Retire(G)
    <3>1. \A o \in G : status[o] # "none"
      BY <1>4 DEF Supersede
    <3>2. \A o \in Offers \ G : status'[o] = status[o]
      BY <1>4 DEF Supersede
    <3>3. \A o \in G : PhaseOf(status'[o]) = "out"
      BY PhaseValues
    <3>4. \A s \in Statuses : PhaseOf(s) # "absent"
      BY DEF PhaseOf, Selectable, Shortlistable
    <3> QED BY <3>1, <3>2, <3>3, <3>4 DEF Book!Retire
  <2> QED BY <2>5, <2>6 DEF Book!BookNext
<1>5. ASSUME NEW p \in Requests, WriteSelected(p)
      PROVE  NeverStale' /\ [Book!BookNext]_PhaseMap
  <2>1. req[p] \in Busy /\ req[p].offer \in Offers
    BY <1>5, Underway DEF WriteSelected, Busy
  <2>2. req'[p].pc = "tryMove" /\ req'[p].kind = "select"
    BY <1>5, <2>1 DEF WriteSelected, Goto, Busy
  <2>3. \A q \in Requests : q = p
    OBVIOUS
  <2>4. NeverStale'
    BY <1>5, <2>1, <2>2, <2>3 DEF WriteSelected
  <2>5. Book!Choose(req[p].offer)
    BY <1>5, <2>1, PhaseValues DEF WriteSelected, Book!Choose
  <2> QED BY <2>1, <2>4, <2>5 DEF Book!BookNext
<1>6. ASSUME NEW p \in Requests, WriteShortlisted(p) \/ Summarize(p)
      PROVE  NeverStale' /\ [Book!BookNext]_PhaseMap
  <2>1. req[p] \in Busy /\ req[p].offer \in Offers
    BY <1>6, Underway DEF WriteShortlisted, Summarize, Busy
  <2>2. /\ status[req[p].offer] \in Selectable
        /\ \E s \in Selectable : status' = [status EXCEPT ![req[p].offer] = s]
    BY <1>6, PhaseValues DEF WriteShortlisted, Summarize, CallsFit
  <2>3. PhaseMap' = PhaseMap
    BY <2>1, <2>2, PhaseValues DEF PhaseMap
  <2>4. \A q \in Requests : q = p /\ req'[q] = Idle
    BY <1>6 DEF WriteShortlisted, Summarize, Done
  <2>5. NeverStale'
    BY <2>2, <2>4 DEF Selectable, Shortlistable
  <2> QED BY <2>3, <2>5
<1>7. ASSUME NEW p \in Requests, WriteRejected(p)
      PROVE  NeverStale' /\ [Book!BookNext]_PhaseMap
  <2>1. req[p] \in Busy /\ req[p].offer \in Offers
    BY <1>7, Underway DEF WriteRejected, Busy
  <2>2. status[req[p].offer] \in Statuses
    BY <1>7, <2>1 DEF WriteRejected, CallsFit
  <2>3. \A q \in Requests : q = p /\ req'[q] = Idle
    BY <1>7 DEF WriteRejected, Done
  <2>4. NeverStale'
    BY <1>7, <2>3 DEF WriteRejected
  <2>5. \A s \in Statuses : PhaseOf(s) # "absent"
    BY DEF PhaseOf, Selectable, Shortlistable
  <2>6. Book!Retire({req[p].offer})
    BY <1>7, <2>1, <2>2, <2>5, PhaseValues DEF WriteRejected, Book!Retire
  <2>7. {req[p].offer} \in SUBSET Offers
    BY <2>1
  <2> QED BY <2>4, <2>6, <2>7 DEF Book!BookNext
<1>8. ASSUME NEW p \in Requests,
             CreateTask(p) \/ RaiseItem(p) \/ Extract(p) \/ Fail(p)
      PROVE  NeverStale' /\ [Book!BookNext]_PhaseMap
  <2>1. req[p] \in Busy /\ status' = status
    BY <1>8, Underway DEF CreateTask, RaiseItem, Extract, Fail
  <2>2. \A q \in Requests : q = p
    OBVIOUS
  <2>3. NeverStale'
    BY <1>8, <2>1, <2>2 DEF CreateTask, RaiseItem, Extract, Fail, Goto, Done,
       Begin, Busy, CallsFit
  <2> QED BY <1>1, <2>1, <2>3
<1>9. ASSUME NEW p \in Requests, TryMove(p) \/ Move(p)
      PROVE  NeverStale' /\ [Book!BookNext]_PhaseMap
  <2>1. req[p] \in Busy /\ status' = status
    BY <1>9, Underway DEF TryMove, Move
  <2>2. \A q \in Requests : q = p
    OBVIOUS
  <2>3. CASE Goto(p, "move")
    BY <1>1, <2>1, <2>2, <2>3 DEF Goto, Busy
  <2>4. CASE AfterMove(p)
    <3>1. \/ req'[p] = Idle
          \/ /\ req'[p].kind = req[p].kind /\ req'[p].offer = req[p].offer
             /\ req'[p].pc \in {"extract", "item"}
      BY <2>1, <2>4, AfterMoveType
    <3>2. req[p].pc # "idle"
      BY <2>1 DEF Busy
    <3>3. NeverStale'
      BY <2>1, <2>2, <3>1, <3>2
    <3> QED BY <1>1, <2>1, <3>3
  <2> QED BY <1>9, <2>3, <2>4 DEF TryMove, Move
<1>10. ASSUME NEW o \in Offers, NEW S \in SUBSET Fields, Update(o, S)
       PROVE  NeverStale' /\ [Book!BookNext]_PhaseMap
  BY <1>1, <1>10 DEF Update
<1>11. ASSUME NEW to \in UserTargets, MoveDeal(to)
       PROVE  NeverStale' /\ [Book!BookNext]_PhaseMap
  BY <1>1, <1>11 DEF MoveDeal
<1>12. CASE UNCHANGED vars
  BY <1>1, <1>12 DEF vars
<1> HIDE DEF TypeOK, NeverStale
<1> QED
  BY <1>2, <1>3, <1>4, <1>5, <1>6, <1>7, <1>8, <1>9, <1>10, <1>11, <1>12
  DEF Next

\* An API that serves one request at a time implements the book of offers: an
\* offer is chosen when all others are out, and what is out stays out.
THEOREM SerialFollowsBook ==
  ASSUME \A p, q \in Requests : p = q
  PROVE  Spec => FollowsBook
<1>1. Init => NeverStale /\ Book!BookInit
  BY PhaseValues DEF Init, NeverStale, Idle, Book!BookInit
<1>2. TypeOK /\ CallsFit /\ NeverStale /\ [Next]_vars
        => NeverStale' /\ [Book!BookNext]_PhaseMap
  BY SerialStep
<1> QED
  BY <1>1, <1>2, Flow, PTL DEF Spec, FollowsBook, Book!BookSpec, PhaseMap
=============================================================================
