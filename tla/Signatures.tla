------------------------------ MODULE Signatures ------------------------------
(***************************************************************************)
(* Signature envelopes of one deal with the DocuSign provider: sending a   *)
(* review task's packet (SignaturesController.sendFromReviewTask, which is *)
(* createEnvelope then sendEnvelope) and the webhook that makes            *)
(* syncEnvelopeStatus copy the provider's status to the envelope, its      *)
(* documents, the deal and the listing_prep checklist.                     *)
(*                                                                         *)
(* Each action is one awaited call with the code up to the next one; audit *)
(* rows belong to the change they follow.  DocuSign and its signers are    *)
(* external: signers sign when they like, an event is delivered once or    *)
(* several times, late, and again when the handler answered with an error; *)
(* and the provider class swallows the errors of its calls.                *)
(***************************************************************************)
EXTENDS Workflow, Naturals

CONSTANTS
  Envelopes,    \* the envelope rows the deal may get
  Docs,         \* the documents of the deal
  Signers,      \* the people who may be asked to sign
  Requests,     \* the requests the API process may be serving at one time
  UserTargets,  \* the stages members move the deal to meanwhile
  Lossy,        \* whether calls to DocuSign may fail
  EarlySigners, \* whether people sign before the send handler has returned
  MaxFails      \* bound: how many requests die

ASSUME ConstantsAssumption ==
  /\ UserTargets \subseteq Stages
  /\ Lossy \in BOOLEAN /\ EarlySigners \in BOOLEAN
  /\ MaxFails \in Nat

VARIABLES
  status,       \* SignatureEnvelope.status, "none" before the row exists
  provider,     \* what providerEnvelopeId names: nothing, an envelope, an error
  docsOf,       \* SignatureEnvelope.documentIdsJson
  recipients,   \* the people the review task asks to sign it
  docs,         \* Document.status, as far as signatures write it
  stage,        \* Deal.stage
  checklist,    \* how often a sync activated the listing_prep checklist
  req,          \* where each request is between its awaits
  fails,        \* the requests that died so far
  sentOut,      \* DocuSign: the envelopes it sent to their recipients
  signed,       \* DocuSign: who has signed each envelope
  pending,      \* DocuSign: envelopes with an event it still has to deliver
  autoStages    \* history: the stages tryTransitionDeal moved the deal to

rowVars == <<status, provider, docsOf, recipients>>
dealVars == <<docs, stage, checklist>>
docusignVars == <<sentOut, signed, pending>>
vars == <<rowVars, dealVars, req, fails, docusignVars, autoStages>>

EnvelopeStatuses == {"draft", "sent", "partially_signed", "completed"}

Idle == [pc |-> "idle"]

\* seen is the provider status a sync has read ("draft" in a send).
Busy == [kind : {"send", "sync"},
         pc : {"create", "send", "query", "update", "docs",
               "tryMove", "move", "checklist"},
         env : Envelopes, seen : EnvelopeStatuses]

TypeOK ==
  /\ status \in [Envelopes -> EnvelopeStatuses \cup {"none"}]
  /\ provider \in [Envelopes -> {"none", "real", "error"}]
  /\ docsOf \in [Envelopes -> SUBSET Docs]
  /\ recipients \in [Envelopes -> SUBSET Signers]
  /\ docs \in [Docs -> {"unsent", "sent", "signed"}]
  /\ stage \in Stages
  /\ checklist \in {"none", "once", "repeated"}
  /\ req \in [Requests -> {Idle} \cup Busy]
  /\ fails \in 0 .. MaxFails
  /\ sentOut \subseteq Envelopes
  /\ signed \in [Envelopes -> SUBSET Signers]
  /\ pending \subseteq Envelopes
  /\ autoStages \subseteq Stages

Init ==
  /\ status = [e \in Envelopes |-> "none"]
  /\ provider = [e \in Envelopes |-> "none"]
  /\ docsOf = [e \in Envelopes |-> {}]
  /\ recipients = [e \in Envelopes |-> {}]
  /\ docs = [d \in Docs |-> "unsent"]
  /\ stage = "awaiting_review"
  /\ checklist = "none"
  /\ req = [p \in Requests |-> Idle]
  /\ fails = 0
  /\ sentOut = {} /\ pending = {}
  /\ signed = [e \in Envelopes |-> {}]
  /\ autoStages = {}

Goto(p, pc) == req' = [req EXCEPT ![p].pc = pc]
Done(p) == req' = [req EXCEPT ![p] = Idle]

(***************************************************************************)
(* DocuSign (external).                                                    *)
(***************************************************************************)

AllSigned(e) == recipients[e] \subseteq signed[e]

\* The request that sends e is still at its writes.
Sending(e) ==
  \E p \in Requests :
    req[p].pc # "idle" /\ req[p].kind = "send" /\ req[p].env = e

\* A recipient signs; an event about the envelope is due.
Sign(e, s) ==
  /\ e \in sentOut
  /\ s \in recipients[e] \ signed[e]
  /\ EarlySigners \/ ~Sending(e)
  /\ signed' = [signed EXCEPT ![e] = @ \cup {s}]
  /\ pending' = pending \cup {e}
  /\ UNCHANGED <<rowVars, dealVars, req, fails, sentOut, autoStages>>

(***************************************************************************)
(* POST /review-tasks/:id/send.  The status of the review task is not      *)
(* looked at, and a task may be sent any number of times: each time is a   *)
(* new envelope with the task's recipients and documents.                  *)
(***************************************************************************)

\* Mutant of CreateRow: the row of an earlier send is used again.
CreateRowAgain(p, e, S, R) ==
  /\ req[p].pc = "idle"
  /\ status' = [status EXCEPT ![e] = "draft"]
  /\ docsOf' = [docsOf EXCEPT ![e] = S]
  /\ recipients' = [recipients EXCEPT ![e] = R]
  /\ req' = [req EXCEPT ![p] =
       [kind |-> "send", pc |-> "create", env |-> e, seen |-> "draft"]]
  /\ UNCHANGED <<provider, dealVars, fails, docusignVars, autoStages>>

\* The draft row, before anything about the deal or its files is checked; the
\* list of recipients may be empty.
CreateRow(p, e, S, R) ==
  /\ req[p].pc = "idle"
  /\ status[e] = "none"
  /\ status' = [status EXCEPT ![e] = "draft"]
  /\ docsOf' = [docsOf EXCEPT ![e] = S]
  /\ recipients' = [recipients EXCEPT ![e] = R]
  /\ req' = [req EXCEPT ![p] =
       [kind |-> "send", pc |-> "create", env |-> e, seen |-> "draft"]]
  /\ UNCHANGED <<provider, dealVars, fails, docusignVars, autoStages>>

\* The provider's createEnvelope and the update with the id it returned; a
\* failed call returns the id docusign-error-<id>.
CreateAtProvider(p) ==
  /\ req[p].pc = "create"
  /\ \E id \in {"real"} \cup (IF Lossy THEN {"error"} ELSE {}) :
       provider' = [provider EXCEPT ![req[p].env] = id]
  /\ Goto(p, "send")
  /\ UNCHANGED <<status, docsOf, recipients, dealVars, fails, docusignVars,
                 autoStages>>

\* The provider's sendEnvelope: whether DocuSign did it or refused, nobody looks.
SendAtProvider(p) ==
  /\ req[p].pc = "send"
  /\ \/ sentOut' = sentOut
             \cup (IF provider[req[p].env] = "real" THEN {req[p].env} ELSE {})
     \/ Lossy /\ UNCHANGED sentOut
  /\ Goto(p, "update")
  /\ UNCHANGED <<rowVars, dealVars, fails, signed, pending, autoStages>>

(***************************************************************************)
(* POST /webhooks/docusign: the envelope whose providerEnvelopeId DocuSign *)
(* names is synced.                                                        *)
(***************************************************************************)
Webhook(p, e) ==
  /\ req[p].pc = "idle"
  /\ e \in sentOut
  /\ pending' = pending \ {e}
  /\ req' = [req EXCEPT ![p] =
       [kind |-> "sync", pc |-> "query", env |-> e, seen |-> "draft"]]
  /\ UNCHANGED <<rowVars, dealVars, fails, sentOut, signed, autoStages>>

\* Mutant of ProviderStatus: one signature is taken for all of them.
ProviderStatusSome(e) ==
  IF signed[e] # {} THEN "completed" ELSE "sent"

\* Mutant of ProviderStatus: the recipients' own word is passed on.
ProviderStatusRaw(e) ==
  IF AllSigned(e) THEN "signed" ELSE "sent"

\* The status derived from the recipients DocuSign reports; of none, all have
\* signed.
ProviderStatus(e) ==
  CASE AllSigned(e) -> "completed"
    [] ~AllSigned(e) /\ signed[e] # {} -> "partially_signed"
    [] OTHER -> "sent"

\* getEnvelopeStatus: an error is reported as "sent".
Query(p) ==
  /\ req[p].pc = "query"
  /\ \E s \in {ProviderStatus(req[p].env)} \cup (IF Lossy THEN {"sent"} ELSE {}) :
       req' = [req EXCEPT ![p].pc = "update", ![p].seen = s]
  /\ UNCHANGED <<rowVars, dealVars, fails, docusignVars, autoStages>>

(***************************************************************************)
(* What both requests write.                                               *)
(***************************************************************************)

\* What a request goes on to once the envelope row is written.
AfterUpdate(p) ==
  CASE req[p].kind = "send" \/ req[p].seen = "completed" -> Goto(p, "docs")
    [] req[p].kind = "sync" /\ req[p].seen = "partially_signed"
         -> Goto(p, "tryMove")
    [] OTHER -> Done(p)

\* signatureEnvelope.update by id: 'sent', or the status the sync has read.
\* (The recipient list written with it is only ever displayed.)
UpdateEnvelope(p) ==
  LET r == req[p] IN
  /\ r.pc = "update"
  /\ status' = [status EXCEPT ![r.env] =
       IF r.kind = "send" THEN "sent" ELSE r.seen]
  /\ AfterUpdate(p)
  /\ UNCHANGED <<provider, docsOf, recipients, dealVars, fails, docusignVars,
                 autoStages>>

\* document.updateMany over the envelope's documents.
UpdateDocs(p) ==
  LET r == req[p] IN
  /\ r.pc = "docs"
  /\ docs' = [d \in Docs |->
       IF d \in docsOf[r.env]
       THEN (IF r.kind = "send" THEN "sent" ELSE "signed") ELSE docs[d]]
  /\ Goto(p, "tryMove")
  /\ UNCHANGED <<rowVars, stage, checklist, fails, docusignVars, autoStages>>

Target(r) ==
  CASE r.kind = "send" -> "sent_for_signature"
    [] r.kind = "sync" /\ r.seen = "completed" -> "fully_signed"
    [] OTHER -> "partially_signed"

AfterMove(p) ==
  IF req[p].kind = "sync" /\ req[p].seen = "completed"
  THEN Goto(p, "checklist") ELSE Done(p)

\* tryTransitionDeal reads the deal and asks validateTransition as 'system'.
TryMove(p) ==
  /\ req[p].pc = "tryMove"
  /\ IF Allowed("listing", stage, Target(req[p]), "system", FALSE)
     THEN Goto(p, "move") ELSE AfterMove(p)
  /\ UNCHANGED <<rowVars, dealVars, fails, docusignVars, autoStages>>

\* ... and writes the stage it asked for, whatever the stage is by now.
Move(p) ==
  /\ req[p].pc = "move"
  /\ stage' = Target(req[p])
  /\ autoStages' = autoStages \cup {Target(req[p])}
  /\ AfterMove(p)
  /\ UNCHANGED <<rowVars, docs, checklist, fails, docusignVars>>

\* activateListingPrepChecklist creates its five tasks, whether or not the
\* deal has them; one by one, so a failure leaves some of them.
ActivateChecklist(p) ==
  /\ req[p].pc = "checklist"
  /\ checklist' = IF checklist = "none" THEN "once" ELSE "repeated"
  /\ Done(p)
  /\ UNCHANGED <<rowVars, docs, stage, fails, docusignVars, autoStages>>

\* Mutant of Fail: the failed delivery is not repeated.
FailForGood(p) ==
  /\ req[p].pc # "idle"
  /\ fails < MaxFails
  /\ fails' = fails + 1
  /\ Done(p)
  /\ UNCHANGED <<rowVars, dealVars, docusignVars, autoStages>>

\* A database call fails or the process dies.  A webhook that was not answered
\* with success is delivered again.
Fail(p) ==
  /\ req[p].pc # "idle"
  /\ fails < MaxFails
  /\ fails' = fails + 1
  /\ pending' = IF req[p].kind = "sync" THEN pending \cup {req[p].env} ELSE pending
  /\ Done(p)
  /\ UNCHANGED <<rowVars, dealVars, sentOut, signed, autoStages>>

\* A member moves the deal along an edge (DealStage has the details).
MoveDeal(to) ==
  /\ <<stage, to>> \in Edges
  /\ stage' = to
  /\ UNCHANGED <<rowVars, docs, checklist, req, fails, docusignVars, autoStages>>

\* The calls of a request once it has begun.
Step(p) ==
  \/ CreateAtProvider(p)
  \/ SendAtProvider(p)
  \/ Query(p)
  \/ UpdateEnvelope(p)
  \/ UpdateDocs(p)
  \/ TryMove(p)
  \/ Move(p)
  \/ ActivateChecklist(p)

Next ==
  \/ \E p \in Requests :
       \/ \E e \in Envelopes :
            \/ \E S \in SUBSET Docs, R \in SUBSET Signers : CreateRow(p, e, S, R)
            \/ Webhook(p, e)
       \/ Step(p)
       \/ Fail(p)
  \/ \E e \in Envelopes, s \in Signers : Sign(e, s)
  \/ \E to \in UserTargets : MoveDeal(to)

Spec == Init /\ [][Next]_vars

\* A request that has begun is resumed after each await, and DocuSign delivers
\* an event it has pending, however busy the process is.
Fairness ==
  /\ \A p \in Requests : WF_vars(Step(p))
  /\ \A e \in Envelopes :
       SF_vars(\E p \in Requests : e \in pending /\ Webhook(p, e))

FairSpec == Spec /\ Fairness

(***************************************************************************)
(* Properties.                                                             *)
(***************************************************************************)

Completed(e) == status[e] # "none" /\ AllSigned(e)
Started(e) == signed[e] # {}

\* What the API shows is never ahead of the signers, through late, repeated
\* and concurrent syncs, lost errors and crashes: a completed envelope has all
\* its signatures, a signed document was in such an envelope, and the
\* services call the deal partially or fully signed, and start the
\* listing_prep checklist, only when it is.
NeverAheadOfSigners ==
  /\ \A e \in Envelopes :
       /\ status[e] = "completed" => Completed(e)
       /\ status[e] = "partially_signed" => Started(e)
  /\ \A d \in Docs : docs[d] = "signed" =>
       \E e \in Envelopes : Completed(e) /\ d \in docsOf[e]
  /\ "partially_signed" \in autoStages => \E e \in Envelopes : Started(e)
  /\ "fully_signed" \in autoStages \/ checklist # "none"
       => \E e \in Envelopes : Completed(e)

\* The strengthening of NeverAheadOfSigners: what a sync has seen is true and
\* stays true, because nobody takes a signature back.
SeenIsTrue ==
  /\ \A e \in Envelopes : status[e] = "none" => e \notin sentOut
  /\ \A p \in Requests :
       LET r == req[p] IN
       /\ r.pc # "idle" => status[r.env] # "none"
       /\ r.pc # "idle" /\ r.seen = "completed" => Completed(r.env)
       /\ r.pc # "idle" /\ r.seen = "partially_signed" => Started(r.env)
       /\ r.pc = "docs" => r.kind = "send" \/ r.seen = "completed"
       /\ r.pc \in {"tryMove", "move"} =>
            r.kind = "send" \/ r.seen \in {"partially_signed", "completed"}
       /\ r.pc = "checklist" => r.kind = "sync" /\ r.seen = "completed"

Rank(s) ==
  CASE s = "none" -> 0
    [] s = "draft" -> 1
    [] s = "sent" -> 2
    [] s = "partially_signed" -> 3
    [] OTHER -> 4

\* What serving requests one at a time buys, when DocuSign answers: the status
\* a request writes is no earlier than the one it overwrites.
WritesInOrder ==
  \A p \in Requests :
    LET r == req[p] IN
    /\ r.pc \in {"create", "send", "update"} /\ r.kind = "send"
         => status[r.env] = "draft"
    /\ r.pc = "update" /\ r.kind = "sync"
         => Rank(status[r.env]) <= Rank(r.seen)
    /\ r.pc \in {"create", "send"} => r.kind = "send"
    /\ r.pc = "query" => r.kind = "sync"

\* An envelope only moves forward, draft, sent, partially signed, completed,
\* when DocuSign answers and requests run one at a time: a late sync or a
\* swallowed error would take it back.
EnvelopeForward ==
  [][\A e \in Envelopes : Rank(status'[e]) >= Rank(status[e])]_vars

\* An envelope for the document was sent and lacks signatures, or asks nobody.
StillOut(d) ==
  \E e \in Envelopes :
    /\ status[e] \notin {"none", "draft"} /\ d \in docsOf[e]
    /\ ~AllSigned(e) \/ signed[e] = {}

\* The document of an envelope that everyone has signed gets to be marked signed,
\* even if syncs overlap or die on the way, for the redelivered webhook starts
\* over; and again after every later send, which puts it back to 'sent', as soon
\* as no envelope for it lacks signatures.  Only for people who sign after the
\* send handler has returned: its update of the documents may else come last.
SignaturesArrive ==
  \A d \in Docs :
    (\E e \in Envelopes : Completed(e) /\ Started(e) /\ d \in docsOf[e])
      ~> (docs[d] = "signed" \/ StillOut(d))
=============================================================================
