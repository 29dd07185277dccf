-------------------------------- MODULE Inbound --------------------------------
(***************************************************************************)
(* Texts from the phone simulator and the deals they make:                 *)
(* MessageProcessingService.processInbound with                            *)
(* MessagingService.handleInbound and the sandbox deal of a user,          *)
(* DealsService.create with its slug, the create_deal_listing of           *)
(* ChatOrchestratorService, the calls of LLMService and the user's OpenAI  *)
(* key.                                                                    *)
(*                                                                         *)
(* A request is a sequence of awaited calls without a transaction, each an *)
(* action with the code up to the next.  One workspace and one user: every *)
(* query is within the workspace, and the sandbox within the user too.     *)
(* All its deals share one set of slugs: a slug is the sequence of its     *)
(* parts, the words and numbers between the dashes, and the longest slug   *)
(* is counted in parts too, so that a cut falls between two.  What a       *)
(* webhook brings has no tenant, handleInbound drops it.  The key is the   *)
(* user's own; the environment has none.                                   *)
(***************************************************************************)
EXTENDS Naturals, Sequences, FiniteSets

CONSTANTS
  DealIds,     \* the ids deals may get
  Messages,    \* the texts, each by the id of its communication
  Fields,      \* the deal fields a text may supply and the chat asks for
  Requests,    \* the requests the API process may be serving at one time
  Words,       \* the words of names and addresses
  Bases,       \* the slugs that listings' names and addresses give
  SandboxBase, \* the slug that the name of the user's sandbox gives
  MaxParts     \* DEAL_SLUG_MAX_LENGTH

\* A slug as generateDealName makes it; an address has numbers too.
Slugs == Seq(Words \cup Nat)

ASSUME InboundAssumption ==
  /\ "none" \notin DealIds \cup Messages
  /\ Bases \cup {SandboxBase} \subseteq Slugs \ {<<>>}
  /\ MaxParts \in Nat \ {0, 1}

VARIABLES
  deals,      \* the Deal rows
  assigned,   \* the deals with their DealAssignment
  texts,      \* the inbound communications, what they asked and their replies
  told,       \* the deal fields texts have supplied
  items,      \* the missing_info items of the deals' fields
  hasKey,     \* the user's OpenAI connection has a key
  calls,      \* where each request is between its awaits
  overlap,    \* history: two texts set out to make the sandbox
  excused     \* history: fields whose item nothing settles, and texts that died

inboundVars == <<deals, assigned, texts, told, items, hasKey, calls, overlap,
                 excused>>

NoOne == "none"
DealRefs == DealIds \cup {NoOne}
MessageRefs == Messages \cup {NoOne}

\* titled: the deal has the title the sandbox is looked up by.  base and n are
\* history: slug is the nth that was tried for base.
Absent == [n |-> 0]
DealRows == [slug : Slugs, base : Slugs, n : Nat \ {0}, titled : BOOLEAN]

\* home: the sandbox a text came into.
\* Who speaks in a reply: the database, the note that a key is missing, the
\* fake provider, OpenAI, the note that OpenAI failed, or the stock answer.
Voices == {"db", "warning", "fake", "openai", "notice", "stock"}

Unsent == [at |-> NoOne]
TextRows == [at : DealIds, home : DealRefs, mode : {"mock", "real"},
             asked : DealRefs, reply : DealRefs, voice : Voices \cup {"none"}]

ItemStates == {"none", "open", "settled", "closed"}

Idle == [pc |-> "idle"]
MakingSteps == {"slug", "createDeal", "folders"}
TextSteps == {"findSandbox", "findAssignment", "assign", "store", "gate",
              "parse", "move", "upsert", "settle", "ask", "complete", "reply"}
ChatSteps == {"raise"}

\* A 'text' is for the sandbox, a 'direct' one names its deal.  The nth slug of
\* base is to be tried; supplied and left are the fields of the text or the
\* items of the chat, and those still to be written.
Busy == [pc : MakingSteps \cup TextSteps \cup ChatSteps,
         kind : {"text", "direct", "chat", "post"}, mode : {"mock", "real"},
         msg : MessageRefs, deal : DealRefs, ref : DealRefs,
         base : Slugs, n : Nat \ {0},
         supplied : SUBSET Fields, left : SUBSET Fields, asks : BOOLEAN,
         voice : Voices \cup {"none"}]

TypeOK ==
  /\ deals \in [DealIds -> DealRows \cup {Absent}]
  /\ assigned \subseteq DealIds
  /\ texts \in [Messages -> TextRows \cup {Unsent}]
  /\ told \subseteq DealIds \X Fields
  /\ items \in [DealIds \X Fields -> ItemStates]
  /\ hasKey \in BOOLEAN
  /\ calls \in [Requests -> Busy \cup {Idle}]
  /\ overlap \in BOOLEAN
  /\ excused \subseteq (DealIds \X Fields) \cup Messages

Init ==
  /\ deals = [d \in DealIds |-> Absent]
  /\ assigned = {} /\ told = {}
  /\ texts = [m \in Messages |-> Unsent]
  /\ items = [i \in DealIds \X Fields |-> "none"]
  /\ hasKey \in BOOLEAN
  /\ calls = [p \in Requests |-> Idle]
  /\ overlap = FALSE /\ excused = {}

Deals == { d \in DealIds : deals[d] # Absent }
Sandboxes == { d \in Deals : deals[d].titled }

Goto(p, pc) == calls' = [calls EXCEPT ![p].pc = pc]
Become(p, r) == calls' = [calls EXCEPT ![p] = r]
Done(p) == calls' = [calls EXCEPT ![p] = Idle]

Asked(kind, mode, msg, base) ==
  [pc |-> "slug", kind |-> kind, mode |-> mode, msg |-> msg, deal |-> NoOne,
   ref |-> NoOne, base |-> base, n |-> 1, supplied |-> {}, left |-> {},
   asks |-> FALSE, voice |-> "none"]

rows == <<deals, assigned, texts, told, items>>

(***************************************************************************)
(* The requests.                                                           *)
(***************************************************************************)

\* POST /deals, or a chat message that asks for a listing.
Ask(p, kind, base) ==
  /\ calls[p] = Idle
  /\ Become(p, Asked(kind, "mock", NoOne, base))
  /\ UNCHANGED <<rows, hasKey, overlap, excused>>

\* A text, for the deal it names or for the user's sandbox.
Text(p, m, mode, d) ==
  /\ calls[p] = Idle
  /\ texts[m] = Unsent /\ m \notin excused
  /\ \A q \in Requests \ {p} : calls[q] # Idle => calls[q].msg # m
  /\ d = NoOne \/ d \in Deals
  /\ LET asked(kind) == Asked(kind, mode, m, SandboxBase) IN
     Become(p, IF d = NoOne
               THEN [asked("text") EXCEPT !.pc = "findSandbox"]
               ELSE [asked("direct") EXCEPT !.pc = "store", !.deal = d])
  /\ UNCHANGED <<rows, hasKey, overlap, excused>>

(***************************************************************************)
(* The deal a request makes.                                               *)
(***************************************************************************)

\* Mutant of FindSandbox: the sandbox is looked up by its assignment.
FindSandboxAssigned(p) ==
  LET r == calls[p] IN
  /\ r.pc = "findSandbox"
  /\ \/ \E d \in Sandboxes \cap assigned :
          /\ Become(p, [r EXCEPT !.pc = "findAssignment", !.deal = d])
          /\ UNCHANGED overlap
     \/ /\ Sandboxes \cap assigned = {}
        /\ Goto(p, "slug")
        /\ overlap' = (overlap \/ \E q \in Requests :
             calls[q].pc \in {"slug", "createDeal"} /\ calls[q].kind = "text")
  /\ UNCHANGED <<rows, hasKey, excused>>

\* Mutant of FindSandbox: a sandbox that is there has its assignment.
FindSandboxReady(p) ==
  LET r == calls[p] IN
  /\ r.pc = "findSandbox"
  /\ \/ \E d \in Sandboxes : Become(p, [r EXCEPT !.pc = "store", !.deal = d])
     \/ Sandboxes = {} /\ Goto(p, "slug")
  /\ UNCHANGED <<rows, hasKey, overlap, excused>>

\* getOrCreateSandboxDeal looks the deal up by its title.
FindSandbox(p) ==
  LET r == calls[p] IN
  /\ r.pc = "findSandbox"
  /\ \/ \E d \in Sandboxes :
          /\ Become(p, [r EXCEPT !.pc = "findAssignment", !.deal = d])
          /\ UNCHANGED overlap
     \/ /\ Sandboxes = {}
        /\ Goto(p, "slug")
        /\ overlap' = (overlap \/ \E q \in Requests :
             calls[q].pc \in {"slug", "createDeal"} /\ calls[q].kind = "text")
  /\ UNCHANGED <<rows, hasKey, excused>>

\* The parts of a slug that fit in k.
Cut(slug, k) == SubSeq(slug, 1, IF Len(slug) < k THEN Len(slug) ELSE k)

\* The nth slug to try: the base, then the base cut to make room for a number.
Candidate(base, n) ==
  IF n = 1 THEN Cut(base, MaxParts) ELSE Cut(base, MaxParts - 1) \o <<n>>

Slug(r) == Candidate(r.base, r.n)

\* By any deal of the workspace, whatever base its slug comes from.
Taken(slug) == \E d \in Deals : deals[d].slug = slug

\* One lookup of reserveUniqueDealSlug.
TrySlug(p) ==
  LET r == calls[p] IN
  /\ r.pc = "slug"
  /\ IF Taken(Slug(r))
     THEN calls' = [calls EXCEPT ![p].n = @ + 1]
     ELSE Goto(p, "createDeal")
  /\ UNCHANGED <<rows, hasKey, overlap, excused>>

NewDeal(r) ==
  [slug |-> Slug(r), base |-> r.base, n |-> r.n, titled |-> r.kind = "text"]

\* What a throw leaves.  A text that dies has no reply; its fields may be
\* written and their items open.
Throw(p) ==
  LET r == calls[p] IN
  /\ Done(p)
  /\ excused' = excused \cup (Messages \cap {r.msg})
       \cup { i \in DealIds \X Fields :
                i[1] = r.deal /\ i[2] \in r.supplied /\ r.pc \in {"upsert", "settle"} }

\* Mutant of CreateDeal: the schema has no unique constraint on slugs.
CreateDealTwice(p) ==
  LET r == calls[p] IN
  /\ r.pc = "createDeal"
  /\ \E d \in DealIds \ Deals :
       /\ deals' = [deals EXCEPT ![d] = NewDeal(r)]
       /\ Become(p, [r EXCEPT !.pc = "folders", !.deal = d])
  /\ UNCHANGED <<assigned, texts, told, items, hasKey, overlap, excused>>

\* The insert; the slug is unique in the workspace.
CreateDeal(p) ==
  LET r == calls[p] IN
  /\ r.pc = "createDeal"
  /\ \/ /\ ~ Taken(Slug(r))
        /\ \E d \in DealIds \ Deals :
             /\ deals' = [deals EXCEPT ![d] = NewDeal(r)]
             /\ Become(p, [r EXCEPT !.pc = "folders", !.deal = d])
        /\ UNCHANGED excused
     \/ /\ Taken(Slug(r))
        /\ Throw(p)
        /\ UNCHANGED deals
  /\ UNCHANGED <<assigned, texts, told, items, hasKey, overlap>>

\* ensureDefaultDealFolders (Files has the details).
MakeFolders(p) ==
  LET r == calls[p] IN
  /\ r.pc = "folders"
  /\ CASE r.kind = "text" -> Goto(p, "findAssignment")
       [] r.kind = "chat" /\ Fields # {} ->
            Become(p, [r EXCEPT !.pc = "raise", !.left = Fields])
       [] OTHER -> Done(p)
  /\ UNCHANGED <<rows, hasKey, overlap, excused>>

\* The items of create_deal_listing, one by one.  A failure among them is
\* caught; the chat message is stored either way.
RaiseItem(p) ==
  LET r == calls[p] IN
  /\ r.pc = "raise"
  /\ \E f \in r.left :
       /\ items' = [items EXCEPT ![<<r.deal, f>>] = "open"]
       /\ excused' = excused \cup ({<<r.deal, f>>} \cap told)
       /\ IF r.left = {f} THEN Done(p)
          ELSE calls' = [calls EXCEPT ![p].left = @ \ {f}]
  /\ UNCHANGED <<deals, assigned, texts, told, hasKey, overlap>>

\* The user's assignment to the sandbox, found or made, for every text.
FindAssignment(p) ==
  /\ calls[p].pc = "findAssignment"
  /\ Goto(p, IF calls[p].deal \in assigned THEN "store" ELSE "assign")
  /\ UNCHANGED <<rows, hasKey, overlap, excused>>

\* Deal, user and role are unique.
Assign(p) ==
  LET r == calls[p] IN
  /\ r.pc = "assign"
  /\ IF r.deal \in assigned
     THEN Throw(p) /\ UNCHANGED assigned
     ELSE /\ assigned' = assigned \cup {r.deal}
          /\ Goto(p, "store")
          /\ UNCHANGED excused
  /\ UNCHANGED <<deals, texts, told, items, hasKey, overlap>>

(***************************************************************************)
(* What becomes of a text.                                                 *)
(***************************************************************************)

\* Mutant of Store: the communication keeps the deal the text named.
StoreAsSent(p, brokerage) ==
  LET r == calls[p] IN
  /\ r.pc = "store"
  /\ texts' = [texts EXCEPT ![r.msg] =
       [at |-> IF r.kind = "text" THEN NoOne ELSE r.deal, mode |-> r.mode,
        asked |-> NoOne, reply |-> NoOne, voice |-> "none",
        home |-> IF r.kind = "text" THEN r.deal ELSE NoOne]]
  /\ Become(p, IF brokerage THEN [r EXCEPT !.pc = "reply", !.voice = "db"]
               ELSE [r EXCEPT !.pc = IF r.mode = "mock" THEN "parse" ELSE "gate"])
  /\ UNCHANGED <<deals, assigned, told, items, hasKey, overlap, excused>>

\* handleInbound stores it.  A question about the brokerage is answered from
\* the database, before any key is looked for.
Store(p, brokerage) ==
  LET r == calls[p] IN
  /\ r.pc = "store"
  /\ texts' = [texts EXCEPT ![r.msg] =
       [at |-> r.deal, mode |-> r.mode, asked |-> NoOne, reply |-> NoOne,
        voice |-> "none", home |-> IF r.kind = "text" THEN r.deal ELSE NoOne]]
  /\ Become(p, IF brokerage THEN [r EXCEPT !.pc = "reply", !.voice = "db"]
               ELSE [r EXCEPT !.pc = IF r.mode = "mock" THEN "parse" ELSE "gate"])
  /\ UNCHANGED <<deals, assigned, told, items, hasKey, overlap, excused>>

\* Mutant of Unkeyed: the fake provider stands in.
UnkeyedSilently(mode) == "fake"

\* What an LLM call says without a key, or when OpenAI fails: with the LLM
\* asked for, it owns up to it.
Unkeyed(mode) == IF mode = "real" THEN "notice" ELSE "fake"

\* The key is looked up again by every call, this one to refuse at once.
Gate(p) ==
  /\ calls[p].pc = "gate"
  /\ IF hasKey THEN Goto(p, "parse")
     ELSE Become(p, [calls[p] EXCEPT !.pc = "reply", !.voice = "warning"])
  /\ UNCHANGED <<rows, hasKey, overlap, excused>>

\* The call after the fields, after the question, and after the move.
AfterAsk(r) == [r EXCEPT !.pc = IF r.voice = "none" THEN "complete" ELSE "reply"]
AfterFields(r) == IF r.asks THEN [r EXCEPT !.pc = "ask"] ELSE AfterAsk(r)
AfterMove(r) ==
  IF r.supplied = {} THEN AfterFields(r)
  ELSE [r EXCEPT !.pc = "upsert", !.left = r.supplied]

\* normalizeParseResult: what is kept of OpenAI's reading.
Read(r, F, ask, d, v) ==
  [r EXCEPT !.supplied = F, !.asks = ask, !.ref = d, !.voice = v]

\* parseMessage: OpenAI's reading of the text, with or without an answer, which
\* the database's replaces when the brokerage's name is in question; or what is
\* said without OpenAI; or, if the lookup throws, nothing.
Parsed(r) ==
  { Read(r, F, ask, d, v) :
      F \in SUBSET Fields, ask \in BOOLEAN, d \in Deals \cup {NoOne},
      v \in {"none", "openai", "db"} }

Parse(p) ==
  LET r == calls[p]
      plain == { [r EXCEPT !.voice = v] : v \in {Unkeyed(r.mode), "none"} }
  IN
  /\ r.pc = "parse"
  /\ \E x \in IF r.mode = "real" /\ hasKey THEN Parsed(r) \cup plain ELSE plain :
       Become(p, IF x.ref \notin {NoOne, r.deal} THEN [x EXCEPT !.pc = "move"]
                 ELSE AfterMove([x EXCEPT !.ref = NoOne]))
  /\ UNCHANGED <<rows, hasKey, overlap, excused>>

\* Mutant of Move: the row moves, the request goes on with the old deal.
MoveRow(p) ==
  LET r == calls[p] IN
  /\ r.pc = "move"
  /\ texts' = [texts EXCEPT ![r.msg].at = r.ref]
  /\ Become(p, AfterMove([r EXCEPT !.ref = NoOne]))
  /\ UNCHANGED <<deals, assigned, told, items, hasKey, overlap, excused>>

\* The communication goes to the deal the text is about, and so does the rest.
Move(p) ==
  LET r == calls[p] IN
  /\ r.pc = "move"
  /\ texts' = [texts EXCEPT ![r.msg].at = r.ref]
  /\ Become(p, AfterMove([r EXCEPT !.deal = r.ref, !.ref = NoOne]))
  /\ UNCHANGED <<deals, assigned, told, items, hasKey, overlap, excused>>

UpsertField(p) ==
  LET r == calls[p] IN
  /\ r.pc = "upsert"
  /\ \E f \in r.left :
       /\ told' = told \cup {<<r.deal, f>>}
       /\ Become(p, [r EXCEPT !.left = @ \ {f},
                              !.pc = IF r.left = {f} THEN "settle" ELSE "upsert"])
  /\ UNCHANGED <<deals, assigned, texts, items, hasKey, overlap, excused>>

\* Mutant of Settled: the items of the deal the text came into.
SettledAtHome(r) ==
  [i \in DealIds \X Fields |->
     IF /\ r.msg \in Messages /\ i[1] = texts[r.msg].home
        /\ i[2] \in r.supplied /\ items[i] = "open"
     THEN "settled" ELSE items[i]]

\* One updateMany over the open items of the supplied fields.
Settled(r) ==
  [i \in DealIds \X Fields |->
     IF i[1] = r.deal /\ i[2] \in r.supplied /\ items[i] = "open"
     THEN "settled" ELSE items[i]]

Settle(p) ==
  LET r == calls[p] IN
  /\ r.pc = "settle"
  /\ items' = Settled(r)
  /\ Become(p, AfterFields([r EXCEPT !.supplied = {}]))
  /\ UNCHANGED <<deals, assigned, texts, told, hasKey, overlap, excused>>

\* The user's question becomes an item of no field.
AskQuestion(p) ==
  LET r == calls[p] IN
  /\ r.pc = "ask"
  /\ texts' = [texts EXCEPT ![r.msg].asked = r.deal]
  /\ Become(p, AfterAsk(r))
  /\ UNCHANGED <<deals, assigned, told, items, hasKey, overlap, excused>>

\* complete: the answer, if the parse gave none; a throw leaves the stock one.
Complete(p) ==
  LET r == calls[p] IN
  /\ r.pc = "complete"
  /\ \E v \in {Unkeyed(r.mode), "stock"}
              \cup (IF r.mode = "real" /\ hasKey THEN {"openai"} ELSE {}) :
       Become(p, [r EXCEPT !.pc = "reply", !.voice = v])
  /\ UNCHANGED <<rows, hasKey, overlap, excused>>

\* The outbound communication.
Reply(p) ==
  LET r == calls[p] IN
  /\ r.pc = "reply"
  /\ texts' = [texts EXCEPT ![r.msg].reply = r.deal, ![r.msg].voice = r.voice]
  /\ Done(p)
  /\ UNCHANGED <<deals, assigned, told, items, hasKey, overlap, excused>>

\* A call fails or the process dies.
Fail(p) ==
  /\ calls[p] # Idle
  /\ Throw(p)
  /\ UNCHANGED <<rows, hasKey, overlap>>

(***************************************************************************)
(* What members do meanwhile.                                              *)
(***************************************************************************)

\* PATCH /unresolved-items/:id, to any status from any other.
PatchItem(i, s) ==
  /\ items[i] # "none"
  /\ items' = [items EXCEPT ![i] = s]
  /\ excused' = IF s = "open" THEN excused \cup {i} ELSE excused
  /\ UNCHANGED <<deals, assigned, texts, told, hasKey, calls, overlap>>

\* PATCH /deals/:id with another title.
Retitle(d) ==
  /\ d \in Sandboxes
  /\ deals' = [deals EXCEPT ![d].titled = FALSE]
  /\ UNCHANGED <<assigned, texts, told, items, hasKey, calls, overlap, excused>>

\* PUT and DELETE /users/me/openai.
SetKey(key) ==
  /\ hasKey' = key
  /\ UNCHANGED <<rows, calls, overlap, excused>>

Next ==
  \/ \E p \in Requests :
       \/ \E kind \in {"chat", "post"}, base \in Bases : Ask(p, kind, base)
       \/ \E m \in Messages, mode \in {"mock", "real"}, d \in DealRefs :
            Text(p, m, mode, d)
       \/ FindSandbox(p)
       \/ TrySlug(p)
       \/ CreateDeal(p)
       \/ MakeFolders(p)
       \/ RaiseItem(p)
       \/ FindAssignment(p)
       \/ Assign(p)
       \/ \E brokerage \in BOOLEAN : Store(p, brokerage)
       \/ Gate(p)
       \/ Parse(p)
       \/ Move(p)
       \/ UpsertField(p)
       \/ Settle(p)
       \/ AskQuestion(p)
       \/ Complete(p)
       \/ Reply(p)
       \/ Fail(p)
  \/ \E i \in DealIds \X Fields, s \in ItemStates \ {"none"} : PatchItem(i, s)
  \/ \E d \in DealIds : Retitle(d)
  \/ \E key \in BOOLEAN : SetKey(key)

Spec == Init /\ [][Next]_inboundVars

(***************************************************************************)
(* Properties.                                                             *)
(***************************************************************************)

\* No two deals share a slug, and none was numbered without need: every slug
\* that comes before a deal's own is another deal's, though bases run into one
\* another's numbers, creations race for one slug and requests die.
SlugsNeeded ==
  \A d \in Deals :
    /\ \A x \in Deals \ {d} : deals[x].slug # deals[d].slug
    /\ \A k \in 1 .. deals[d].n - 1 :
         \E x \in Deals \ {d} : deals[x].slug = Candidate(deals[d].base, k)

\* A user has one sandbox, unless two texts found none before either made it,
\* though requests die before and after the insert.
OneSandbox == ~ overlap => Cardinality(Sandboxes) <= 1

\* Every text into the sandbox is for a deal the user is assigned to, even if the
\* request that made the deal died before it got that far.
ThreadAssigned ==
  \A m \in Messages :
    texts[m] # Unsent /\ texts[m].home # NoOne => texts[m].home \in assigned

\* A stored text is being worked on, or its request died, or it has its reply,
\* and reply and question are in the deal the text is in by now.
RepliesFollow ==
  \A m \in Messages : texts[m] # Unsent =>
    /\ \/ texts[m].reply = texts[m].at
       \/ m \in excused
       \/ \E p \in Requests : calls[p] # Idle /\ calls[p].msg = m
    /\ texts[m].reply \in {NoOne, texts[m].at}
    /\ texts[m].asked \in {NoOne, texts[m].at}

\* With the LLM asked for, nobody gets the fake provider's words for OpenAI's,
\* though the key may go between any two calls.
NeverSilentlyFake ==
  \A m \in Messages :
    texts[m] # Unsent /\ texts[m].mode = "real" => texts[m].voice # "fake"

\* An item does not stay open about a field that a text has supplied, unless the
\* item came after the field, a member reopened it or the request died.
FieldsSettle ==
  \A i \in told \ excused :
    items[i] = "open" => \E p \in Requests :
      /\ calls[p] # Idle /\ calls[p].pc \in {"upsert", "settle"}
      /\ calls[p].deal = i[1] /\ i[2] \in calls[p].supplied
=============================================================================
