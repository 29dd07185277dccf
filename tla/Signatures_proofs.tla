-------------------------- MODULE Signatures_proofs ---------------------------
(***************************************************************************)
(* Theorems about Signatures, for any sets of envelopes, documents,        *)
(* signers and requests, with or without a DocuSign that fails.            *)
(***************************************************************************)
EXTENDS Signatures, TLAPS

(***************************************************************************)
(* Type correctness.                                                       *)
(***************************************************************************)

\* A request between two calls of its own is a record of Busy.
LEMMA Underway ==
  ASSUME TypeOK, NEW p \in Requests, req[p].pc # "idle"
  PROVE  req[p] \in Busy
BY DEF TypeOK, Idle

\* A request that goes to its next call keeps all it knows.
LEMMA GotoEffect ==
  ASSUME TypeOK, NEW p \in Requests, req[p] \in Busy,
         NEW pc \in {"create", "send", "query", "update", "docs",
                     "tryMove", "move", "checklist"},
         Goto(p, pc)
  PROVE  /\ req' \in [Requests -> {Idle} \cup Busy]
         /\ \A q \in Requests \ {p} : req'[q] = req[q]
         /\ req'[p].pc = pc
         /\ req'[p].kind = req[p].kind /\ req'[p].env = req[p].env
         /\ req'[p].seen = req[p].seen
BY DEF TypeOK, Goto, Busy

\* A request that ends leaves the others alone.
LEMMA DoneEffect ==
  ASSUME TypeOK, NEW p \in Requests, Done(p)
  PROVE  /\ req' \in [Requests -> {Idle} \cup Busy]
         /\ \A q \in Requests \ {p} : req'[q] = req[q]
         /\ req'[p] = Idle
BY DEF TypeOK, Done

\* The stage a request asks for is a stage.
LEMMA TargetType == \A r : Target(r) \in Stages
BY DEF Target, Stages

\* The status derived from signatures is a status.
LEMMA ProviderStatusType ==
  \A e : ProviderStatus(e) \in {"sent", "partially_signed", "completed"}
BY DEF ProviderStatus

\* Where AfterUpdate leads.
LEMMA AfterUpdateCases ==
  ASSUME NEW p \in Requests, AfterUpdate(p)
  PROVE  \/ Done(p)
         \/ Goto(p, "docs")
              /\ (req[p].kind = "send" \/ req[p].seen = "completed")
         \/ Goto(p, "tryMove") /\ req[p].seen = "partially_signed"
<1>1. CASE req[p].kind = "send" \/ req[p].seen = "completed"
  BY <1>1 DEF AfterUpdate
<1>2. CASE ~(req[p].kind = "send" \/ req[p].seen = "completed")
  <2>1. CASE req[p].kind = "sync" /\ req[p].seen = "partially_signed"
    BY <1>2, <2>1 DEF AfterUpdate
  <2>2. CASE ~(req[p].kind = "sync" /\ req[p].seen = "partially_signed")
    BY <1>2, <2>2 DEF AfterUpdate
  <2> QED BY <2>1, <2>2
<1> QED BY <1>1, <1>2

\* A step keeps every variable of Signatures in its type.
LEMMA TypeStep == TypeOK /\ [Next]_vars => TypeOK'
<1> SUFFICES ASSUME TypeOK, [Next]_vars PROVE TypeOK'
  OBVIOUS
<1> USE DEF TypeOK, EnvelopeStatuses, rowVars, dealVars, docusignVars
<1>1. ASSUME NEW p \in Requests, NEW e \in Envelopes, NEW S \in SUBSET Docs,
             NEW R \in SUBSET Signers, CreateRow(p, e, S, R)
      PROVE  TypeOK'
  BY <1>1 DEF CreateRow, Busy
<1>2. ASSUME NEW p \in Requests, NEW e \in Envelopes, Webhook(p, e)
      PROVE  TypeOK'
  BY <1>2 DEF Webhook, Busy
<1>3. ASSUME NEW p \in Requests, Step(p) PROVE TypeOK'
  <2>1. req[p] \in Busy
    BY <1>3, Underway DEF Step, CreateAtProvider, SendAtProvider, Query,
       UpdateEnvelope, UpdateDocs, TryMove, Move, ActivateChecklist
  <2>2. req[p].env \in Envelopes /\ req[p].seen \in EnvelopeStatuses
    BY <2>1 DEF Busy
  <2>3. CASE CreateAtProvider(p)
    <3>1. provider' \in [Envelopes -> {"none", "real", "error"}]
      BY <2>3 DEF CreateAtProvider
    <3> QED BY <2>1, <2>3, <3>1, GotoEffect DEF CreateAtProvider
  <2>4. CASE SendAtProvider(p)
    <3>1. sentOut' \subseteq Envelopes
      BY <2>2, <2>4 DEF SendAtProvider
    <3> QED BY <2>1, <2>4, <3>1, GotoEffect DEF SendAtProvider
  <2>5. CASE Query(p)
    <3>1. PICK s \in {"sent", "partially_signed", "completed"} :
            req' = [req EXCEPT ![p].pc = "update", ![p].seen = s]
      BY <2>5, ProviderStatusType DEF Query
    <3>2. req' \in [Requests -> {Idle} \cup Busy]
      BY <2>1, <3>1 DEF Busy
    <3> QED BY <2>5, <3>2 DEF Query
  <2>6. CASE UpdateEnvelope(p)
    <3>1. status' \in [Envelopes -> EnvelopeStatuses \cup {"none"}]
      BY <2>2, <2>6 DEF UpdateEnvelope
    <3>2. req' \in [Requests -> {Idle} \cup Busy]
      BY <2>1, <2>6, AfterUpdateCases, GotoEffect, DoneEffect
      DEF UpdateEnvelope
    <3> QED BY <2>6, <3>1, <3>2 DEF UpdateEnvelope
  <2>7. CASE UpdateDocs(p)
    <3>1. docs' \in [Docs -> {"unsent", "sent", "signed"}]
      BY <2>7 DEF UpdateDocs
    <3> QED BY <2>1, <2>7, <3>1, GotoEffect DEF UpdateDocs
  <2>8. CASE TryMove(p)
    BY <2>1, <2>8, GotoEffect, DoneEffect DEF TryMove, AfterMove
  <2>9. CASE Move(p)
    <3>1. stage' \in Stages /\ autoStages' \subseteq Stages
      BY <2>9, TargetType DEF Move
    <3> QED BY <2>1, <2>9, <3>1, GotoEffect, DoneEffect DEF Move, AfterMove
  <2>10. CASE ActivateChecklist(p)
    BY <2>10, DoneEffect DEF ActivateChecklist
  <2> QED
    BY <1>3, <2>3, <2>4, <2>5, <2>6, <2>7, <2>8, <2>9, <2>10 DEF Step
<1>4. ASSUME NEW p \in Requests, Fail(p) PROVE TypeOK'
  <2>1. req[p] \in Busy /\ req[p].env \in Envelopes
    BY <1>4, Underway DEF Fail, Busy
  <2>2. fails' \in 0 .. MaxFails
    BY <1>4, ConstantsAssumption DEF Fail
  <2> QED BY <1>4, <2>1, <2>2, DoneEffect DEF Fail
<1>5. ASSUME NEW e \in Envelopes, NEW s \in Signers, Sign(e, s) PROVE TypeOK'
  BY <1>5 DEF Sign
<1>6. ASSUME NEW to \in UserTargets, MoveDeal(to) PROVE TypeOK'
  BY <1>6, ConstantsAssumption DEF MoveDeal
<1>7. CASE UNCHANGED vars
  BY <1>7 DEF vars
<1> HIDE DEF TypeOK
<1> QED
  BY <1>1, <1>2, <1>3, <1>4, <1>5, <1>6, <1>7 DEF Next

\* Every variable of Signatures keeps its type.
THEOREM TypeCorrect == Spec => []TypeOK
<1>1. Init => TypeOK
  BY ConstantsAssumption DEF Init, TypeOK, Stages
<1> QED
  BY <1>1, TypeStep, PTL DEF Spec

(***************************************************************************)
(* The API is never ahead of the signers.                                  *)
(***************************************************************************)

\* What the proof rests on: rows stay, and so do signatures.
Lasting ==
  \A e \in Envelopes :
    /\ status[e] # "none" => /\ status'[e] # "none"
                             /\ docsOf'[e] = docsOf[e]
                             /\ recipients'[e] = recipients[e]
    /\ signed[e] \subseteq signed'[e]

\* Nobody takes a signature back or rewrites a row's documents or recipients.
LEMMA EverythingLasts == TypeOK /\ SeenIsTrue /\ [Next]_vars => Lasting
<1> SUFFICES ASSUME TypeOK, SeenIsTrue, [Next]_vars PROVE Lasting
  OBVIOUS
<1> USE DEF TypeOK, Lasting, rowVars, dealVars, docusignVars
<1>1. ASSUME NEW p \in Requests, NEW e \in Envelopes, NEW S \in SUBSET Docs,
             NEW R \in SUBSET Signers, CreateRow(p, e, S, R)
      PROVE  Lasting
  BY <1>1 DEF CreateRow
<1>2. ASSUME NEW p \in Requests, NEW e \in Envelopes, Webhook(p, e)
      PROVE  Lasting
  BY <1>2 DEF Webhook
<1>3. ASSUME NEW p \in Requests, UpdateEnvelope(p) PROVE Lasting
  <2>1. req[p] \in Busy
    BY <1>3, Underway DEF UpdateEnvelope
  <2>2. req[p].seen # "none"
    BY <2>1 DEF Busy, EnvelopeStatuses
  <2> QED BY <1>3, <2>2 DEF UpdateEnvelope
<1>4. ASSUME NEW p \in Requests, Step(p), ~UpdateEnvelope(p) PROVE Lasting
  BY <1>4 DEF Step, CreateAtProvider, SendAtProvider, Query, UpdateDocs,
              TryMove, Move, ActivateChecklist
<1>5. ASSUME NEW p \in Requests, Fail(p) PROVE Lasting
  BY <1>5 DEF Fail
<1>6. ASSUME NEW e \in Envelopes, NEW s \in Signers, Sign(e, s) PROVE Lasting
  BY <1>6 DEF Sign
<1>7. ASSUME NEW to \in UserTargets, MoveDeal(to) PROVE Lasting
  BY <1>7 DEF MoveDeal
<1>8. CASE UNCHANGED vars
  BY <1>8 DEF vars
<1> HIDE DEF TypeOK, Lasting
<1> QED
  BY <1>1, <1>2, <1>3, <1>4, <1>5, <1>6, <1>7, <1>8 DEF Next

\* Facts about signatures, once true, stay true.
LEMMA FactsStay ==
  ASSUME Lasting, NEW e \in Envelopes
  PROVE  /\ Completed(e) => Completed(e)'
         /\ Started(e) => Started(e)'
         /\ Completed(e) => docsOf'[e] = docsOf[e]
         /\ status[e] # "none" => status'[e] # "none"
BY DEF Lasting, Completed, Started, AllSigned

\* What NeverAheadOfSigners says of each thing the API shows, as far as this
\* step leaves it alone.
LEMMA StaysBehind ==
  ASSUME NeverAheadOfSigners, Lasting
  PROVE  /\ \A e \in Envelopes : status'[e] = status[e] =>
              /\ status'[e] = "completed" => Completed(e)'
              /\ status'[e] = "partially_signed" => Started(e)'
         /\ \A d \in Docs : docs'[d] = docs[d] /\ docs'[d] = "signed" =>
              \E e \in Envelopes : Completed(e)' /\ d \in docsOf'[e]
         /\ "partially_signed" \in autoStages =>
              \E e \in Envelopes : Started(e)'
         /\ "fully_signed" \in autoStages \/ checklist # "none" =>
              \E e \in Envelopes : Completed(e)'
<1>1. ASSUME NEW d \in Docs, docs'[d] = docs[d], docs'[d] = "signed"
      PROVE  \E e \in Envelopes : Completed(e)' /\ d \in docsOf'[e]
  <2>1. PICK e \in Envelopes : Completed(e) /\ d \in docsOf[e]
    BY <1>1 DEF NeverAheadOfSigners
  <2> QED BY <2>1, FactsStay
<1>2. "partially_signed" \in autoStages => \E e \in Envelopes : Started(e)'
  BY FactsStay DEF NeverAheadOfSigners
<1>3. "fully_signed" \in autoStages \/ checklist # "none"
        => \E e \in Envelopes : Completed(e)'
  BY FactsStay DEF NeverAheadOfSigners
<1> QED BY <1>1, <1>2, <1>3, FactsStay DEF NeverAheadOfSigners

\* What a request knows, as SeenIsTrue has it.
Knows(r) ==
  /\ r.pc # "idle" => status[r.env] # "none"
  /\ r.pc # "idle" /\ r.seen = "completed" => Completed(r.env)
  /\ r.pc # "idle" /\ r.seen = "partially_signed" => Started(r.env)
  /\ r.pc = "docs" => r.kind = "send" \/ r.seen = "completed"
  /\ r.pc \in {"tryMove", "move"} =>
       r.kind = "send" \/ r.seen \in {"partially_signed", "completed"}
  /\ r.pc = "checklist" => r.kind = "sync" /\ r.seen = "completed"

\* A request the step leaves alone, or ends, goes on knowing the truth.
LEMMA KnowsStays ==
  ASSUME TypeOK, SeenIsTrue, Lasting, NEW q \in Requests,
         req'[q] = req[q] \/ req'[q] = Idle
  PROVE  Knows(req[q])'
<1>1. CASE req'[q] = Idle
  BY <1>1 DEF Knows, Idle
<1>2. CASE req'[q] = req[q] /\ req[q].pc = "idle"
  BY <1>2 DEF Knows
<1>3. CASE req'[q] = req[q] /\ req[q].pc # "idle"
  <2>1. req[q].env \in Envelopes
    BY <1>3, Underway DEF Busy
  <2>2. Knows(req[q])
    BY DEF SeenIsTrue, Knows
  <2> QED BY <1>3, <2>1, <2>2, FactsStay DEF Knows
<1> QED BY <1>1, <1>2, <1>3

\* The invariant is preserved by every step.
LEMMA AheadStep ==
  TypeOK /\ NeverAheadOfSigners /\ SeenIsTrue /\ [Next]_vars
    => NeverAheadOfSigners' /\ SeenIsTrue'
<1> SUFFICES ASSUME TypeOK, NeverAheadOfSigners, SeenIsTrue, [Next]_vars
             PROVE  NeverAheadOfSigners' /\ SeenIsTrue'
  OBVIOUS
<1>a. Lasting
  BY EverythingLasts
<1> DEFINE
      SentRows == \A e \in Envelopes : status[e] = "none" => e \notin sentOut
      Others(p) == \A q \in Requests \ {p} : req'[q] = req[q]
      \* The step shows nothing new to the members.
      Shown == UNCHANGED <<docs, checklist, autoStages>>
                 /\ \A e \in Envelopes :
                      \/ status'[e] = status[e]
                      \/ status'[e] \in {"draft", "sent"}
<1>b. SentRows /\ \A q \in Requests : Knows(req[q])
  BY DEF SeenIsTrue, Knows
<1>c. ASSUME Shown PROVE NeverAheadOfSigners'
  BY <1>a, <1>c, StaysBehind DEF NeverAheadOfSigners
<1>d. ASSUME SentRows', \A q \in Requests : Knows(req[q])' PROVE SeenIsTrue'
  BY <1>d DEF SeenIsTrue, Knows
<1>e. UNCHANGED sentOut => SentRows'
  BY <1>a, <1>b DEF Lasting
<1> USE DEF rowVars, dealVars, docusignVars
<1>1. ASSUME NEW p \in Requests, NEW e \in Envelopes, NEW S \in SUBSET Docs,
             NEW R \in SUBSET Signers, CreateRow(p, e, S, R)
      PROVE  NeverAheadOfSigners' /\ SeenIsTrue'
  <2>1. Shown /\ UNCHANGED sentOut
    BY <1>1 DEF CreateRow, TypeOK
  <2>2. /\ Others(p)
        /\ req'[p] = [kind |-> "send", pc |-> "create", env |-> e,
                      seen |-> "draft"]
    BY <1>1 DEF CreateRow, TypeOK
  <2>3. Knows(req[p])'
    BY <1>1, <2>2 DEF CreateRow, TypeOK, Knows
  <2>4. \A q \in Requests \ {p} : Knows(req[q])'
    BY <1>a, <2>2, KnowsStays
  <2> HIDE DEF Shown, SentRows
  <2> QED BY <1>c, <1>d, <1>e, <2>1, <2>3, <2>4
<1>2. ASSUME NEW p \in Requests, NEW e \in Envelopes, Webhook(p, e)
      PROVE  NeverAheadOfSigners' /\ SeenIsTrue'
  <2>1. Shown /\ UNCHANGED sentOut
    BY <1>2 DEF Webhook
  <2>2. /\ Others(p)
        /\ req'[p] = [kind |-> "sync", pc |-> "query", env |-> e,
                      seen |-> "draft"]
    BY <1>2 DEF Webhook, TypeOK
  <2>3. Knows(req[p])'
    BY <1>2, <1>b, <2>2 DEF Webhook, Knows
  <2>4. \A q \in Requests \ {p} : Knows(req[q])'
    BY <1>a, <2>2, KnowsStays
  <2> HIDE DEF Shown, SentRows
  <2> QED BY <1>c, <1>d, <1>e, <2>1, <2>3, <2>4
<1>3. ASSUME NEW p \in Requests, Step(p)
      PROVE  NeverAheadOfSigners' /\ SeenIsTrue'
  <2>1. req[p] \in Busy
    BY <1>3, Underway DEF Step, CreateAtProvider, SendAtProvider, Query,
       UpdateEnvelope, UpdateDocs, TryMove, Move, ActivateChecklist
  <2>2. /\ req[p].env \in Envelopes /\ req[p].pc # "idle"
        /\ req[p].kind \in {"send", "sync"}
        /\ req[p].seen \in EnvelopeStatuses
    BY <2>1 DEF Busy
  <2>3. Knows(req[p])
    BY <1>b
  <2>e. PICK e0 \in Envelopes : e0 = req[p].env
    BY <2>2
  <2>4. ASSUME NEW pc \in {"create", "send", "query", "update", "docs",
                           "tryMove", "move", "checklist"},
               Goto(p, pc),
               pc = "docs" => req[p].kind = "send" \/ req[p].seen = "completed",
               pc \in {"tryMove", "move"} =>
                 \/ req[p].kind = "send"
                 \/ req[p].seen \in {"partially_signed", "completed"},
               pc = "checklist" => req[p].kind = "sync"
                                   /\ req[p].seen = "completed"
        PROVE  \A q \in Requests : Knows(req[q])'
    <3>1. /\ Others(p)
          /\ req'[p].pc = pc
          /\ req'[p].kind = req[p].kind /\ req'[p].env = req[p].env
          /\ req'[p].seen = req[p].seen
      BY <2>1, <2>4, GotoEffect
    <3>2. \A q \in Requests \ {p} : Knows(req[q])'
      BY <1>a, <3>1, KnowsStays
    <3>3. Knows(req[p])'
      BY <1>a, <2>2, <2>3, <2>4, <3>1, FactsStay DEF Knows
    <3> QED BY <3>2, <3>3
  <2>5. ASSUME Done(p) PROVE \A q \in Requests : Knows(req[q])'
    BY <1>a, <2>5, DoneEffect, KnowsStays
  <2>6. CASE CreateAtProvider(p)
    <3>1. Shown /\ UNCHANGED sentOut
      BY <2>6 DEF CreateAtProvider
    <3>2. Goto(p, "send")
      BY <2>6 DEF CreateAtProvider
    <3> HIDE DEF Shown, SentRows
    <3> QED BY <1>c, <1>d, <1>e, <2>4, <3>1, <3>2
  <2>7. CASE SendAtProvider(p)
    <3>1. Shown
      BY <2>7 DEF SendAtProvider
    <3>2. Goto(p, "update") /\ SentRows'
      BY <1>b, <2>2, <2>3, <2>7 DEF SendAtProvider, Knows
    <3> HIDE DEF Shown, SentRows
    <3> QED BY <1>c, <1>d, <2>4, <3>1, <3>2
  <2>8. CASE Query(p)
    <3>1. Shown /\ UNCHANGED sentOut
      BY <2>8 DEF Query
    <3>2. PICK s \in {ProviderStatus(req[p].env), "sent"} :
            req' = [req EXCEPT ![p].pc = "update", ![p].seen = s]
      BY <2>8 DEF Query
    <3>3. /\ Others(p)
          /\ req'[p].pc = "update" /\ req'[p].kind = req[p].kind
          /\ req'[p].env = req[p].env /\ req'[p].seen = s
      BY <2>1, <3>2 DEF TypeOK, Busy
    <3>4. /\ s = "completed" => AllSigned(req[p].env)
          /\ s = "partially_signed" => Started(req[p].env)
      BY DEF ProviderStatus, Started
    <3>5. /\ s = "completed" => Completed(req[p].env)
          /\ s = "partially_signed" => Started(req[p].env)
      BY <2>2, <2>3, <3>4 DEF Knows, Completed
    <3>6. Knows(req[p])'
      BY <1>a, <2>2, <2>3, <3>3, <3>5, FactsStay DEF Knows
    <3>7. \A q \in Requests \ {p} : Knows(req[q])'
      BY <1>a, <3>3, KnowsStays
    <3> HIDE DEF Shown, SentRows
    <3> QED BY <1>c, <1>d, <1>e, <3>1, <3>6, <3>7
  <2>9. CASE UpdateEnvelope(p)
    <3>1. \A q \in Requests : Knows(req[q])'
      BY <2>4, <2>5, <2>9, AfterUpdateCases DEF UpdateEnvelope
    <3>2. /\ UNCHANGED <<docs, checklist, autoStages, sentOut>>
          /\ \A e \in Envelopes \ {e0} : status'[e] = status[e]
          /\ status'[e0] \in {"sent", req[p].seen}
      BY <2>e, <2>9 DEF UpdateEnvelope, TypeOK
    <3>3. /\ status'[e0] = "completed" => Completed(e0)'
          /\ status'[e0] = "partially_signed" => Started(e0)'
      BY <1>a, <2>2, <2>3, <2>e, <3>2, FactsStay DEF Knows
    <3>4. NeverAheadOfSigners'
      BY <1>a, <3>2, <3>3, StaysBehind DEF NeverAheadOfSigners
    <3> HIDE DEF SentRows
    <3> QED BY <1>d, <1>e, <3>1, <3>2, <3>4
  <2>10. CASE UpdateDocs(p)
    <3>1. UNCHANGED <<status, docsOf, checklist, autoStages, sentOut>>
      BY <2>10 DEF UpdateDocs
    <3>2. Goto(p, "tryMove") /\ req[p].pc = "docs"
      BY <2>10 DEF UpdateDocs
    <3>3. req[p].kind = "send" \/ req[p].seen = "completed"
      BY <2>3, <3>2 DEF Knows
    <3>4. \A q \in Requests : Knows(req[q])'
      BY <2>4, <3>2, <3>3
    <3>5. ASSUME NEW d \in Docs, docs'[d] = "signed"
          PROVE  \E e \in Envelopes : Completed(e)' /\ d \in docsOf'[e]
      <4>1. CASE docs'[d] = docs[d]
        BY <1>a, <3>5, <4>1, StaysBehind
      <4>2. CASE docs'[d] # docs[d]
        <5>1. d \in docsOf[e0] /\ req[p].kind = "sync"
          BY <2>2, <2>e, <2>10, <3>5, <4>2 DEF UpdateDocs
        <5>2. Completed(e0)
          BY <2>2, <2>3, <2>e, <3>3, <5>1 DEF Knows
        <5> QED BY <1>a, <2>2, <3>1, <5>1, <5>2, FactsStay
      <4> QED BY <4>1, <4>2
    <3>6. NeverAheadOfSigners'
      BY <1>a, <3>1, <3>5, StaysBehind DEF NeverAheadOfSigners
    <3> HIDE DEF SentRows
    <3> QED BY <1>d, <1>e, <3>1, <3>4, <3>6
  <2>11. CASE TryMove(p)
    <3>1. Shown /\ UNCHANGED sentOut
      BY <2>11 DEF TryMove
    <3>2. \/ req[p].kind = "send"
          \/ req[p].seen \in {"partially_signed", "completed"}
      BY <2>3, <2>11 DEF TryMove, Knows
    <3>3. Goto(p, "move") \/ AfterMove(p)
      BY <2>11 DEF TryMove
    <3>4. \A q \in Requests : Knows(req[q])'
      BY <2>4, <2>5, <3>2, <3>3 DEF AfterMove
    <3> HIDE DEF Shown, SentRows
    <3> QED BY <1>c, <1>d, <1>e, <3>1, <3>4
  <2>12. CASE Move(p)
    <3>1. \A q \in Requests : Knows(req[q])'
      BY <2>4, <2>5, <2>12 DEF Move, AfterMove
    <3>2. /\ UNCHANGED <<status, docs, docsOf, checklist, sentOut>>
          /\ autoStages' = autoStages \cup {Target(req[p])}
      BY <2>12 DEF Move
    <3>3. /\ Target(req[p]) = "fully_signed" => Completed(e0)'
          /\ Target(req[p]) = "partially_signed" => Started(e0)'
      <4>1. \/ req[p].kind = "send"
            \/ req[p].seen \in {"partially_signed", "completed"}
        BY <2>3, <2>12 DEF Move, Knows
      <4>2. CASE req[p].kind = "send"
        BY <4>2 DEF Target
      <4>3. CASE req[p].kind = "sync" /\ req[p].seen = "completed"
        BY <1>a, <2>2, <2>3, <2>e, <4>3, FactsStay DEF Target, Knows
      <4>4. CASE req[p].kind = "sync" /\ req[p].seen = "partially_signed"
        <5>1. Target(req[p]) = "partially_signed"
          BY <4>4 DEF Target
        <5> QED BY <1>a, <2>2, <2>3, <2>e, <4>4, <5>1, FactsStay DEF Knows
      <4> QED BY <2>2, <4>1, <4>2, <4>3, <4>4
    <3>4. NeverAheadOfSigners'
      BY <1>a, <2>2, <3>2, <3>3, StaysBehind DEF NeverAheadOfSigners
    <3> HIDE DEF SentRows
    <3> QED BY <1>d, <1>e, <3>1, <3>2, <3>4
  <2>13. CASE ActivateChecklist(p)
    <3>1. \A q \in Requests : Knows(req[q])'
      BY <2>5, <2>13 DEF ActivateChecklist
    <3>2. UNCHANGED <<status, docs, docsOf, autoStages, sentOut>>
      BY <2>13 DEF ActivateChecklist
    <3>3. Completed(e0)'
      BY <1>a, <2>2, <2>3, <2>e, <2>13, FactsStay DEF ActivateChecklist, Knows
    <3>4. NeverAheadOfSigners'
      BY <1>a, <2>2, <3>2, <3>3, StaysBehind DEF NeverAheadOfSigners
    <3> HIDE DEF SentRows
    <3> QED BY <1>d, <1>e, <3>1, <3>2, <3>4
  <2> QED
    BY <1>3, <2>6, <2>7, <2>8, <2>9, <2>10, <2>11, <2>12, <2>13 DEF Step
<1>4. ASSUME NEW p \in Requests, Fail(p)
      PROVE  NeverAheadOfSigners' /\ SeenIsTrue'
  <2>1. Shown /\ UNCHANGED sentOut /\ Done(p)
    BY <1>4 DEF Fail
  <2>2. \A q \in Requests : Knows(req[q])'
    BY <1>a, <2>1, DoneEffect, KnowsStays
  <2> HIDE DEF Shown, SentRows
  <2> QED BY <1>c, <1>d, <1>e, <2>1, <2>2
<1>5. ASSUME UNCHANGED <<status, req, docs, checklist, sentOut, autoStages>>
      PROVE  NeverAheadOfSigners' /\ SeenIsTrue'
  <2>1. \A q \in Requests : Knows(req[q])'
    BY <1>a, <1>5, KnowsStays
  <2>2. Shown /\ UNCHANGED sentOut
    BY <1>5
  <2> HIDE DEF Shown, SentRows
  <2> QED BY <1>c, <1>d, <1>e, <2>1, <2>2
<1>6. ASSUME NEW e \in Envelopes, NEW s \in Signers, Sign(e, s)
      PROVE  NeverAheadOfSigners' /\ SeenIsTrue'
  BY <1>5, <1>6 DEF Sign
<1>7. ASSUME NEW to \in UserTargets, MoveDeal(to)
      PROVE  NeverAheadOfSigners' /\ SeenIsTrue'
  BY <1>5, <1>7 DEF MoveDeal
<1>8. CASE UNCHANGED vars
  BY <1>5, <1>8 DEF vars
<1> QED
  BY <1>1, <1>2, <1>3, <1>4, <1>6, <1>7, <1>8 DEF Next

\* Whatever requests overlap, repeat, fail or are told wrongly that nothing was
\* signed yet, the API never shows a signature that was not given.
THEOREM NeverAhead == Spec => []NeverAheadOfSigners
<1>1. Init => TypeOK /\ NeverAheadOfSigners /\ SeenIsTrue
  BY ConstantsAssumption
  DEF Init, TypeOK, NeverAheadOfSigners, SeenIsTrue, Idle, Stages
<1> QED
  BY <1>1, TypeStep, AheadStep, PTL DEF Spec

(***************************************************************************)
(* With one request at a time and a DocuSign that answers, envelopes only  *)
(* move forward.                                                           *)
(***************************************************************************)

Forward == \A e \in Envelopes : Rank(status'[e]) >= Rank(status[e])

\* A step that writes no envelope row takes no envelope back.
LEMMA NotBack == ASSUME UNCHANGED status PROVE Forward
BY DEF Forward, Rank

\* No step of the only request writes an earlier status than the row has.
LEMMA OrderStep ==
  ASSUME \A p, q \in Requests : p = q, ~Lossy,
         TypeOK, NeverAheadOfSigners, SeenIsTrue, WritesInOrder, [Next]_vars
  PROVE  WritesInOrder' /\ Forward
<1> USE DEF rowVars, dealVars, docusignVars
<1>a. ASSUME NEW p \in Requests, req'[p] = Idle PROVE WritesInOrder'
  BY <1>a DEF WritesInOrder, Idle
<1>b. ASSUME NEW p \in Requests, req[p] \in Busy,
             NEW pc \in {"docs", "tryMove", "move", "checklist"}, Goto(p, pc)
      PROVE  WritesInOrder'
  BY <1>b, GotoEffect DEF WritesInOrder
<1>1. ASSUME NEW p \in Requests, NEW e \in Envelopes, NEW S \in SUBSET Docs,
             NEW R \in SUBSET Signers, CreateRow(p, e, S, R)
      PROVE  WritesInOrder' /\ Forward
  <2>1. /\ req'[p] = [kind |-> "send", pc |-> "create", env |-> e,
                      seen |-> "draft"]
        /\ status' = [status EXCEPT ![e] = "draft"] /\ status[e] = "none"
    BY <1>1 DEF CreateRow, TypeOK
  <2>2. WritesInOrder'
    BY <2>1 DEF WritesInOrder, TypeOK
  <2>3. Forward
    BY <2>1 DEF Forward, Rank, TypeOK
  <2> QED BY <2>2, <2>3
<1>2. ASSUME NEW p \in Requests, NEW e \in Envelopes, Webhook(p, e)
      PROVE  WritesInOrder' /\ Forward
  <2>1. req'[p] = [kind |-> "sync", pc |-> "query", env |-> e,
                   seen |-> "draft"]
    BY <1>2 DEF Webhook, TypeOK
  <2> QED BY <1>2, <2>1, NotBack DEF WritesInOrder, Webhook
<1>3. ASSUME NEW p \in Requests, Step(p) PROVE WritesInOrder' /\ Forward
  <2>1. req[p] \in Busy
    BY <1>3, Underway DEF Step, CreateAtProvider, SendAtProvider, Query,
       UpdateEnvelope, UpdateDocs, TryMove, Move, ActivateChecklist
  <2>2. /\ req[p].env \in Envelopes /\ req[p].kind \in {"send", "sync"}
        /\ req[p].seen \in EnvelopeStatuses
    BY <2>1 DEF Busy
  <2>3. PICK e0 \in Envelopes : e0 = req[p].env
    BY <2>2
  <2>4. ASSUME NEW pc \in {"send", "update"}, Goto(p, pc), UNCHANGED status,
               req[p].pc \in {"create", "send"}
        PROVE  WritesInOrder'
    BY <2>1, <2>4, GotoEffect DEF WritesInOrder
  <2>5. CASE CreateAtProvider(p)
    BY <2>4, <2>5, NotBack DEF CreateAtProvider
  <2>6. CASE SendAtProvider(p)
    BY <2>4, <2>6, NotBack DEF SendAtProvider
  <2>7. CASE Query(p)
    <3>1. /\ req' = [req EXCEPT ![p].pc = "update",
                                ![p].seen = ProviderStatus(e0)]
          /\ UNCHANGED status /\ req[p].pc = "query"
      BY <2>3, <2>7 DEF Query
    <3>2. /\ req'[p].pc = "update" /\ req'[p].kind = "sync"
          /\ req'[p].env = e0 /\ req'[p].seen = ProviderStatus(e0)
      BY <2>1, <2>3, <3>1 DEF TypeOK, Busy, WritesInOrder
    <3>3. Rank(status[e0]) <= Rank(ProviderStatus(e0))
      <4>1. /\ status[e0] = "completed" => AllSigned(e0)
            /\ status[e0] = "partially_signed" => signed[e0] # {}
        BY DEF NeverAheadOfSigners, Completed, Started
      <4>2. status[e0] \in EnvelopeStatuses \cup {"none"}
        BY DEF TypeOK
      <4> QED BY <4>1, <4>2 DEF ProviderStatus, Rank, EnvelopeStatuses
    <3>4. Rank(status'[e0]) <= Rank(req'[p].seen)
      BY <3>1, <3>2, <3>3
    <3>5. WritesInOrder'
      BY <3>2, <3>4 DEF WritesInOrder
    <3> QED BY <3>1, <3>5, NotBack
  <2>8. CASE UpdateEnvelope(p)
    <3>1. WritesInOrder'
      <4>1. Done(p) \/ Goto(p, "docs") \/ Goto(p, "tryMove")
        BY <2>8, AfterUpdateCases DEF UpdateEnvelope
      <4> QED BY <1>a, <1>b, <2>1, <4>1, DoneEffect
    <3>2. status' = [status EXCEPT ![e0] =
            IF req[p].kind = "send" THEN "sent" ELSE req[p].seen]
      BY <2>3, <2>8 DEF UpdateEnvelope
    <3>3. /\ req[p].kind = "send" => status[e0] = "draft"
          /\ req[p].kind = "sync" => Rank(status[e0]) <= Rank(req[p].seen)
      BY <2>3, <2>8 DEF UpdateEnvelope, WritesInOrder
    <3>4. \A e \in Envelopes : Rank(status[e]) \in Nat
      BY DEF Rank
    <3>5. Rank(status'[e0]) >= Rank(status[e0])
      <4>1. CASE req[p].kind = "send"
        BY <3>2, <3>3, <4>1 DEF TypeOK, Rank
      <4>2. CASE req[p].kind = "sync"
        <5>1. status'[e0] = req[p].seen
          BY <3>2, <4>2 DEF TypeOK
        <5> QED BY <3>3, <3>4, <4>2, <5>1 DEF Rank
      <4> QED BY <2>2, <4>1, <4>2
    <3>6. \A e \in Envelopes \ {e0} : status'[e] = status[e]
      BY <3>2 DEF TypeOK
    <3>7. Forward
      BY <3>4, <3>5, <3>6 DEF Forward
    <3> QED BY <3>1, <3>7
  <2>9. CASE UpdateDocs(p)
    BY <1>b, <2>1, <2>9, NotBack DEF UpdateDocs
  <2>10. CASE TryMove(p)
    <3>1. Goto(p, "move") \/ Goto(p, "checklist") \/ Done(p)
      BY <2>10 DEF TryMove, AfterMove
    <3> QED BY <1>a, <1>b, <2>1, <2>10, <3>1, DoneEffect, NotBack DEF TryMove
  <2>11. CASE Move(p)
    <3>1. Goto(p, "checklist") \/ Done(p)
      BY <2>11 DEF Move, AfterMove
    <3> QED BY <1>a, <1>b, <2>1, <2>11, <3>1, DoneEffect, NotBack DEF Move
  <2>12. CASE ActivateChecklist(p)
    BY <1>a, <2>12, DoneEffect, NotBack DEF ActivateChecklist
  <2> QED
    BY <1>3, <2>5, <2>6, <2>7, <2>8, <2>9, <2>10, <2>11, <2>12 DEF Step
<1>4. ASSUME NEW p \in Requests, Fail(p) PROVE WritesInOrder' /\ Forward
  BY <1>4, <1>a, DoneEffect, NotBack DEF Fail
<1>5. ASSUME UNCHANGED <<status, req>> PROVE WritesInOrder' /\ Forward
  BY <1>5, NotBack DEF WritesInOrder
<1>6. ASSUME NEW e \in Envelopes, NEW s \in Signers, Sign(e, s)
      PROVE  WritesInOrder' /\ Forward
  BY <1>5, <1>6 DEF Sign
<1>7. ASSUME NEW to \in UserTargets, MoveDeal(to)
      PROVE  WritesInOrder' /\ Forward
  BY <1>5, <1>7 DEF MoveDeal
<1>8. CASE UNCHANGED vars
  BY <1>5, <1>8 DEF vars
<1> QED
  BY <1>1, <1>2, <1>3, <1>4, <1>6, <1>7, <1>8 DEF Next

\* A process that serves one request at a time, with a DocuSign that answers,
\* never writes an older status over a newer one.
THEOREM SerialMovesForward ==
  ASSUME \A p, q \in Requests : p = q, ~Lossy
  PROVE  Spec => EnvelopeForward
<1>1. Init => TypeOK /\ NeverAheadOfSigners /\ SeenIsTrue /\ WritesInOrder
  BY ConstantsAssumption
  DEF Init, TypeOK, NeverAheadOfSigners, SeenIsTrue, WritesInOrder, Idle, Stages
<1>2. TypeOK /\ NeverAheadOfSigners /\ SeenIsTrue /\ WritesInOrder
        /\ [Next]_vars => WritesInOrder' /\ Forward
  BY OrderStep
<1>3. Forward => [\A e \in Envelopes : Rank(status'[e]) >= Rank(status[e])]_vars
  BY DEF Forward
<1> QED
  BY <1>1, <1>2, <1>3, TypeStep, AheadStep, PTL DEF Spec, EnvelopeForward
=============================================================================
