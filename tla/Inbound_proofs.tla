----------------------------- MODULE Inbound_proofs -----------------------------
(***************************************************************************)
(* Theorems about Inbound, for any sets of deals, texts, fields and        *)
(* overlapping requests.                                                   *)
(***************************************************************************)
EXTENDS Inbound, FiniteSetTheorems, SequenceTheorems, TLAPS

(***************************************************************************)
(* Type correctness.                                                       *)
(***************************************************************************)

Calls == Busy \cup {Idle}

\* The steps a text takes after its communication is stored.
Stored == {"gate", "parse", "move", "upsert", "settle", "ask", "complete", "reply"}

\* What its step says of a request, whatever the others do.
Fits(r) == r.pc # "idle" =>
  /\ r.msg \in Messages <=> r.kind \in {"text", "direct"}
  /\ r.pc \in TextSteps => r.msg \in Messages
  /\ r.pc \in MakingSteps => r.kind # "direct"
  /\ r.pc = "raise" => r.kind = "chat"
  /\ r.pc \in {"findSandbox", "findAssignment", "assign"} => r.kind = "text"
  /\ r.pc \notin {"findSandbox", "slug", "createDeal"} => r.deal \in DealIds
  /\ r.pc = "findSandbox" => r.n = 1
  /\ r.pc = "move" => r.ref \in DealIds
  /\ r.pc = "upsert" => r.left \subseteq r.supplied
  /\ r.mode = "real" => r.voice # "fake"

AllFit == \A p \in Requests : Fits(calls[p])

\* What a request knows of the text it has stored: it is there, in the deal the
\* request goes on with, in the mode asked for, and nobody has answered it.
Known(all, r) == r.pc \in Stored =>
  /\ all[r.msg] # Unsent
  /\ all[r.msg].at = r.deal /\ all[r.msg].mode = r.mode
  /\ all[r.msg].reply = NoOne /\ all[r.msg].voice = "none"
  /\ r.pc \notin {"complete", "reply"} => all[r.msg].asked = NoOne

TextsKnown == \A p \in Requests : Known(texts, calls[p])

LEMMA NoOneIsNobody == NoOne \notin DealIds /\ NoOne \notin Messages
BY InboundAssumption DEF NoOne

LEMMA Steps ==
  /\ \A r \in Calls : r.pc # "idle" => r \in Busy
  /\ \A r \in Busy : r.pc # "idle" /\ r # Idle
  /\ Idle.pc = "idle" /\ Idle \in Calls
  /\ \A r \in Calls : r # Idle <=> r.pc # "idle"
BY DEF Calls, Busy, Idle, MakingSteps, TextSteps, ChatSteps

LEMMA TypeParts ==
  TypeOK <=>
    /\ deals \in [DealIds -> DealRows \cup {Absent}]
    /\ assigned \subseteq DealIds
    /\ texts \in [Messages -> TextRows \cup {Unsent}]
    /\ told \subseteq DealIds \X Fields
    /\ items \in [DealIds \X Fields -> ItemStates]
    /\ hasKey \in BOOLEAN
    /\ calls \in [Requests -> Calls]
    /\ overlap \in BOOLEAN
    /\ excused \subseteq (DealIds \X Fields) \cup Messages
BY DEF TypeOK, Calls

LEMMA TypePartsNext ==
  TypeOK' <=>
    /\ deals' \in [DealIds -> DealRows \cup {Absent}]
    /\ assigned' \subseteq DealIds
    /\ texts' \in [Messages -> TextRows \cup {Unsent}]
    /\ told' \subseteq DealIds \X Fields
    /\ items' \in [DealIds \X Fields -> ItemStates]
    /\ hasKey' \in BOOLEAN
    /\ calls' \in [Requests -> Calls]
    /\ overlap' \in BOOLEAN
    /\ excused' \subseteq (DealIds \X Fields) \cup Messages
BY DEF TypeOK, Calls

\* Two requests are alike if they are about the same text and deal.
Alike(r, s) == /\ s.kind = r.kind /\ s.mode = r.mode /\ s.msg = r.msg
               /\ s.deal = r.deal

LEMMA AfterAskIs ==
  ASSUME NEW r \in Busy
  PROVE  /\ AfterAsk(r) \in Busy /\ Alike(r, AfterAsk(r))
         /\ AfterAsk(r).pc \in {"complete", "reply"}
         /\ AfterAsk(r).voice = r.voice /\ AfterAsk(r).supplied = r.supplied
BY DEF AfterAsk, Busy, TextSteps, Alike

LEMMA AfterFieldsIs ==
  ASSUME NEW r \in Busy
  PROVE  /\ AfterFields(r) \in Busy /\ Alike(r, AfterFields(r))
         /\ AfterFields(r).pc \in {"ask", "complete", "reply"}
         /\ AfterFields(r).voice = r.voice /\ AfterFields(r).supplied = r.supplied
<1>1. [r EXCEPT !.pc = "ask"] \in Busy
  BY DEF Busy, TextSteps
<1> QED BY <1>1, AfterAskIs DEF AfterFields, Alike, Busy

LEMMA AfterMoveIs ==
  ASSUME NEW r \in Busy
  PROVE  /\ AfterMove(r) \in Busy /\ Alike(r, AfterMove(r))
         /\ AfterMove(r).pc \in {"upsert", "ask", "complete", "reply"}
         /\ AfterMove(r).voice = r.voice /\ AfterMove(r).supplied = r.supplied
         /\ AfterMove(r).pc = "upsert" => AfterMove(r).left \subseteq r.supplied
<1>1. CASE r.supplied = {}
  BY <1>1, AfterFieldsIs DEF AfterMove
<1>2. CASE r.supplied # {}
  <2> DEFINE s == [r EXCEPT !.pc = "upsert", !.left = r.supplied]
  <2>1. s \in Busy /\ Alike(r, s) /\ s.pc = "upsert" /\ s.left = r.supplied
          /\ s.voice = r.voice /\ s.supplied = r.supplied
    BY DEF Busy, TextSteps, Alike
  <2>2. AfterMove(r) = s
    BY <1>2 DEF AfterMove
  <2> QED BY <2>1, <2>2
<1> QED BY <1>1, <1>2

\* A stored text that goes on is still fit.
LEMMA FitsOn ==
  ASSUME NEW r \in Busy, NEW s \in Busy, Alike(r, s), r.pc \in TextSteps, Fits(r),
         r.deal \in DealIds, s.pc \in Stored \ {"move"},
         s.mode = "real" => s.voice # "fake",
         s.pc = "upsert" => s.left \subseteq s.supplied
  PROVE  Fits(s)
BY Steps DEF Fits, Alike, Stored, TextSteps, MakingSteps

LEMMA AskedFits ==
  ASSUME NEW kind \in {"text", "direct", "chat", "post"}, NEW mode \in {"mock", "real"},
         NEW m \in MessageRefs, NEW base \in Slugs
  PROVE  Asked(kind, mode, m, base) \in Busy
BY DEF Asked, Busy, MakingSteps, MessageRefs, DealRefs, Voices

LEMMA BasesAreSlugs == Bases \subseteq Slugs /\ SandboxBase \in Slugs
BY InboundAssumption

\* Whatever is tried for a slug is one.
LEMMA CandidateFits ==
  ASSUME NEW base \in Slugs, NEW n \in Nat
  PROVE  Candidate(base, n) \in Slugs
<1> DEFINE T == Words \cup Nat
<1>1. \A k \in Nat : Cut(base, k) \in Seq(T)
  <2> SUFFICES ASSUME NEW k \in Nat PROVE Cut(base, k) \in Seq(T)
    OBVIOUS
  <2> DEFINE l == IF Len(base) < k THEN Len(base) ELSE k
  <2>1. base \in Seq(T) /\ Len(base) \in Nat
    BY DEF Slugs
  <2>2. l \in Int /\ l <= Len(base)
    BY <2>1
  <2>3. \A i \in 1 .. l : base[i] \in T
    <3> HIDE DEF l
    <3> SUFFICES ASSUME NEW i \in 1 .. l PROVE base[i] \in T
      OBVIOUS
    <3>1. i \in 1 .. Len(base)
      BY <2>1, <2>2
    <3> QED BY <2>1, <3>1, ElementOfSeq
  <2> HIDE DEF T, l
  <2>4. SubSeq(base, 1, l) \in Seq(T)
    BY <2>2, <2>3, SubSeqProperties
  <2> QED BY <2>4 DEF Cut, l
<1>2. MaxParts \in Nat /\ MaxParts - 1 \in Nat
  BY InboundAssumption
<1>3. <<n>> \in Seq(T)
  OBVIOUS
<1> HIDE DEF T
<1>4. Cut(base, MaxParts) \in Seq(T) /\ Cut(base, MaxParts - 1) \o <<n>> \in Seq(T)
  BY <1>1, <1>2, <1>3, ConcatProperties
<1> QED BY <1>4 DEF Candidate, Slugs, T

LEMMA CallSet ==
  ASSUME TypeOK, AllFit, NEW p \in Requests, NEW s \in Calls, Fits(s),
         calls' = [calls EXCEPT ![p] = s]
  PROVE  calls' \in [Requests -> Calls] /\ AllFit'
<1>1. calls' \in [Requests -> Calls] /\ \A q \in Requests : calls'[q] \in {s, calls[q]}
  BY TypeParts
<1>2. \A q \in Requests : Fits(calls'[q])
  BY <1>1 DEF AllFit
<1> QED BY <1>1, <1>2 DEF AllFit

LEMMA IdleFits == Fits(Idle)
BY Steps DEF Fits

LEMMA ThrowIs ==
  ASSUME TypeOK, NEW p \in Requests, Throw(p)
  PROVE  /\ calls' = [calls EXCEPT ![p] = Idle]
         /\ excused \subseteq excused' /\ excused' \subseteq (DealIds \X Fields) \cup Messages
         /\ calls[p].msg \in Messages => calls[p].msg \in excused'
BY TypeParts DEF Throw, Done

LEMMA DealsAre ==
  ASSUME TypeOK
  PROVE  Deals \subseteq DealIds /\ Sandboxes \subseteq Deals
         /\ \A d \in Deals : deals[d] \in DealRows
BY TypeParts DEF Deals, Sandboxes

LEMMA Init0 == Init => TypeOK /\ AllFit
<1> SUFFICES ASSUME Init PROVE TypeOK /\ AllFit
  OBVIOUS
<1>1. TypeOK
  BY TypeParts, Steps DEF Init, ItemStates
<1>2. AllFit
  BY IdleFits DEF Init, AllFit
<1> QED BY <1>1, <1>2

LEMMA FitHere ==
  ASSUME TypeOK, AllFit, NEW p \in Requests, calls[p].pc # "idle"
  PROVE  calls[p] \in Busy /\ Fits(calls[p])
BY TypeParts, Steps DEF AllFit

\* Two records with the same fields, one after the other, that differ in pc.
LEMMA PcType ==
  ASSUME NEW r \in Busy, NEW pc \in MakingSteps \cup TextSteps \cup ChatSteps
  PROVE  LET s == [r EXCEPT !.pc = pc] IN
         /\ s \in Busy /\ Alike(r, s) /\ s.pc = pc
         /\ s.ref = r.ref /\ s.n = r.n /\ s.left = r.left /\ s.supplied = r.supplied
         /\ s.voice = r.voice
BY DEF Busy, Alike

\* What the steps of a request make of its record: of its own kind, still fit,
\* and of the same text.
LEMMA RequestMoves ==
  ASSUME TypeOK, AllFit, NEW p \in Requests, calls[p].pc # "idle"
  PROVE  LET r == calls[p] IN
         /\ r.pc = "findSandbox" =>
              /\ Fits([r EXCEPT !.pc = "slug"])
              /\ \A d \in DealIds :
                   LET s == [r EXCEPT !.pc = "findAssignment", !.deal = d] IN
                   s \in Busy /\ Fits(s)
         /\ r.pc = "slug" => /\ Fits([r EXCEPT !.pc = "createDeal"])
                             /\ LET s == [r EXCEPT !.n = @ + 1] IN s \in Busy /\ Fits(s)
         /\ r.pc = "createDeal" => \A d \in DealIds :
              LET s == [r EXCEPT !.pc = "folders", !.deal = d] IN s \in Busy /\ Fits(s)
         /\ r.pc = "folders" =>
              /\ r.kind = "text" => Fits([r EXCEPT !.pc = "findAssignment"])
              /\ r.kind = "chat" => LET s == [r EXCEPT !.pc = "raise", !.left = Fields] IN
                                    s \in Busy /\ Fits(s)
         /\ r.pc = "raise" => \A F \in SUBSET Fields :
              LET s == [r EXCEPT !.left = F] IN s \in Busy /\ Fits(s)
         /\ r.pc = "findAssignment" => /\ Fits([r EXCEPT !.pc = "store"])
                                       /\ Fits([r EXCEPT !.pc = "assign"])
         /\ r.pc = "assign" => Fits([r EXCEPT !.pc = "store"])
         /\ r.pc = "gate" => Fits([r EXCEPT !.pc = "parse"])
<1>1. calls[p] \in Busy /\ Fits(calls[p])
  BY FitHere
<1>2. ASSUME calls[p].pc = "findSandbox"
      PROVE  LET r == calls[p] IN
             /\ Fits([r EXCEPT !.pc = "slug"])
             /\ \A d \in DealIds :
                  LET s == [r EXCEPT !.pc = "findAssignment", !.deal = d] IN
                  s \in Busy /\ Fits(s)
  BY <1>1, <1>2 DEF Busy, Fits, MakingSteps, TextSteps, DealRefs
<1>3. ASSUME calls[p].pc = "slug"
      PROVE  LET r == calls[p] IN
             /\ Fits([r EXCEPT !.pc = "createDeal"])
             /\ LET s == [r EXCEPT !.n = @ + 1] IN s \in Busy /\ Fits(s)
  BY <1>1, <1>3 DEF Busy, Fits, MakingSteps, TextSteps
<1>4. ASSUME calls[p].pc = "createDeal"
      PROVE  LET r == calls[p] IN \A d \in DealIds :
              LET s == [r EXCEPT !.pc = "folders", !.deal = d] IN s \in Busy /\ Fits(s)
  BY <1>1, <1>4 DEF Busy, Fits, MakingSteps, TextSteps, DealRefs
<1>5. ASSUME calls[p].pc = "folders"
      PROVE  LET r == calls[p] IN
              /\ r.kind = "text" => Fits([r EXCEPT !.pc = "findAssignment"])
              /\ r.kind = "chat" => LET s == [r EXCEPT !.pc = "raise", !.left = Fields] IN
                                    s \in Busy /\ Fits(s)
  BY <1>1, <1>5 DEF Busy, Fits, MakingSteps, TextSteps, ChatSteps
<1>6. ASSUME calls[p].pc = "raise"
      PROVE  LET r == calls[p] IN \A F \in SUBSET Fields :
              LET s == [r EXCEPT !.left = F] IN s \in Busy /\ Fits(s)
  BY <1>1, <1>6 DEF Busy, Fits, MakingSteps, TextSteps, ChatSteps
<1>7. ASSUME calls[p].pc \in {"findAssignment", "assign", "gate"}
      PROVE  LET r == calls[p] IN
             /\ Fits([r EXCEPT !.pc = "store"])
             /\ r.pc # "gate" => Fits([r EXCEPT !.pc = "assign"])
             /\ Fits([r EXCEPT !.pc = "parse"])
  BY <1>1, <1>7 DEF Busy, Fits, MakingSteps, TextSteps, ChatSteps
<1> QED BY <1>2, <1>3, <1>4, <1>5, <1>6, <1>7

LEMMA UnkeyedIs ==
  ASSUME NEW mode \in {"mock", "real"}
  PROVE  /\ Unkeyed(mode) \in Voices
         /\ mode = "real" => Unkeyed(mode) # "fake"
BY DEF Unkeyed, Voices

\* What the parse and the answer make of a request: another step of the same
\* text, owning up to the lack of a key.
ParsedTo(r, s) ==
  /\ s \in Busy /\ Fits(s) /\ Alike(r, s)
  /\ s.pc \in {"move", "upsert", "ask", "complete", "reply"}

LEMMA ParseMoves ==
  ASSUME TypeOK, AllFit, NEW p \in Requests, Parse(p)
  PROVE  \E s : ParsedTo(calls[p], s) /\ calls' = [calls EXCEPT ![p] = s]
<1> DEFINE r == calls[p]
<1>1. r.pc = "parse" /\ r \in Busy /\ Fits(r)
  BY FitHere DEF Parse
<1>2. r.deal \in DealIds /\ r.msg \in Messages /\ r.kind \in {"text", "direct"}
  BY <1>1 DEF Fits, TextSteps
<1>3. r.mode \in {"mock", "real"} /\ Unkeyed(r.mode) \in Voices
        /\ (r.mode = "real" => Unkeyed(r.mode) # "fake")
  BY <1>1, UnkeyedIs DEF Busy
<1>k. r.mode = "real" => r.voice # "fake"
  BY <1>1 DEF Fits
<1>4. PICK x \in (IF r.mode = "real" /\ hasKey
                  THEN Parsed(r) \cup { [r EXCEPT !.voice = v] : v \in {Unkeyed(r.mode), "none"} }
                  ELSE { [r EXCEPT !.voice = v] : v \in {Unkeyed(r.mode), "none"} }) :
        calls' = [calls EXCEPT ![p] =
          IF x.ref \notin {NoOne, r.deal} THEN [x EXCEPT !.pc = "move"]
          ELSE AfterMove([x EXCEPT !.ref = NoOne])]
  BY DEF Parse, Become
<1> DEFINE Heard == /\ x \in Busy /\ Alike(r, x) /\ x.pc = "parse"
                    /\ x.mode = "real" => x.voice # "fake"
<1>5. ASSUME \E v \in {Unkeyed(r.mode), "none"} : x = [r EXCEPT !.voice = v]
      PROVE  Heard
  <2>1. PICK v \in {Unkeyed(r.mode), "none"} : x = [r EXCEPT !.voice = v]
    BY <1>5
  <2>2. v \in Voices \cup {"none"} /\ (r.mode = "real" => v # "fake")
    BY <1>3
  <2> QED BY <1>1, <2>1, <2>2 DEF Busy, Alike
<1>6. ASSUME x \in Parsed(r) PROVE Heard
  <2>1. PICK F \in SUBSET Fields, ask \in BOOLEAN, d \in Deals \cup {NoOne},
             v \in {"none", "openai", "db"} :
          x = Read(r, F, ask, d, v)
    BY <1>6 DEF Parsed
  <2>2. d \in DealRefs /\ v \in Voices \cup {"none"}
    BY DealsAre DEF DealRefs, Voices
  <2>3. [r EXCEPT !.asks = ask] \in Busy
    <3>1. r \in Busy
      BY <1>1
    <3> QED BY <3>1, Zenon DEF Busy
  <2>4. x = [[r EXCEPT !.asks = ask] EXCEPT !.supplied = F, !.ref = d, !.voice = v]
    BY <1>1, <2>1 DEF Busy, Read
  <2>5. x \in Busy
    BY <2>2, <2>3, <2>4 DEF Busy
  <2>6. x.pc = "parse" /\ x.voice = v /\ Alike(r, x)
    BY <1>1, <2>1 DEF Busy, Alike, Read
  <2> QED BY <2>2, <2>5, <2>6
<1>7. Heard
  BY <1>4, <1>5, <1>6
<1>8. CASE x.ref \notin {NoOne, r.deal}
  <2> DEFINE s == [x EXCEPT !.pc = "move"]
  <2>1. x.ref \in DealIds
    BY <1>7, <1>8 DEF Busy, DealRefs
  <2>2. s \in Busy /\ Alike(x, s) /\ s.pc = "move" /\ s.ref = x.ref /\ s.voice = x.voice
    BY <1>7, PcType DEF TextSteps
  <2>3. Alike(r, s)
    BY <1>7, <2>2 DEF Alike
  <2>4. Fits(s)
    BY <1>2, <1>7, <2>1, <2>2, <2>3 DEF Fits, Alike, TextSteps, MakingSteps
  <2> QED BY <1>4, <1>8, <2>2, <2>3, <2>4 DEF ParsedTo
<1>9. CASE x.ref \in {NoOne, r.deal}
  <2> DEFINE y == [x EXCEPT !.ref = NoOne]
             s == AfterMove(y)
  <2>1. y \in Busy /\ Alike(x, y) /\ y.voice = x.voice /\ y.pc = "parse"
    BY <1>7 DEF Busy, DealRefs, Alike
  <2>2. /\ s \in Busy /\ Alike(y, s)
        /\ s.pc \in {"upsert", "ask", "complete", "reply"}
        /\ s.voice = y.voice /\ s.supplied = y.supplied
        /\ s.pc = "upsert" => s.left \subseteq y.supplied
    BY <2>1, AfterMoveIs
  <2>3. Alike(r, s)
    BY <1>7, <2>1, <2>2 DEF Alike
  <2>4. s.mode = "real" => s.voice # "fake"
    BY <1>7, <2>1, <2>2 DEF Alike
  <2>5. Fits(s)
    BY <1>1, <1>2, <2>2, <2>3, <2>4, FitsOn DEF Stored, TextSteps
  <2>6. calls' = [calls EXCEPT ![p] = s]
    BY <1>4, <1>9
  <2> QED BY <2>2, <2>3, <2>5, <2>6 DEF ParsedTo
<1> QED BY <1>8, <1>9

\* The steps of a text after the parse, up to its reply.
LEMMA TextMoves ==
  ASSUME TypeOK, AllFit, NEW p \in Requests, calls[p].pc \in TextSteps
  PROVE  LET r == calls[p] IN
         /\ r.msg \in Messages /\ r.mode \in {"mock", "real"}
         /\ r.pc = "store" =>
              /\ LET s == [r EXCEPT !.pc = "reply", !.voice = "db"] IN
                 s \in Busy /\ Fits(s) /\ Alike(r, s) /\ s.pc = "reply"
              /\ \A pc \in {"parse", "gate"} :
                   LET s == [r EXCEPT !.pc = pc] IN
                   s \in Busy /\ Fits(s) /\ Alike(r, s) /\ s.pc = pc
         /\ r.pc = "gate" =>
              LET s == [r EXCEPT !.pc = "reply", !.voice = "warning"] IN
              s \in Busy /\ Fits(s) /\ Alike(r, s) /\ s.pc = "reply"
         /\ r.pc = "upsert" => \A f \in r.left :
              LET s == [r EXCEPT !.left = @ \ {f},
                          !.pc = IF r.left = {f} THEN "settle" ELSE "upsert"] IN
              /\ s \in Busy /\ Fits(s) /\ Alike(r, s)
              /\ s.pc \in {"upsert", "settle"} /\ s.supplied = r.supplied
         /\ r.pc = "complete" =>
              \A v \in Voices : (r.mode = "real" => v # "fake") =>
                LET s == [r EXCEPT !.pc = "reply", !.voice = v] IN
                s \in Busy /\ Fits(s) /\ Alike(r, s) /\ s.pc = "reply"
<1>1. calls[p].pc # "idle"
  BY DEF TextSteps
<1>2. calls[p] \in Busy /\ Fits(calls[p])
  BY <1>1, FitHere
<1>3. calls[p].msg \in Messages /\ calls[p].mode \in {"mock", "real"}
  BY <1>1, <1>2 DEF Fits, Busy
<1>4. ASSUME calls[p].pc \in {"store", "gate", "complete"}, NEW v \in Voices,
             calls[p].mode = "real" => v # "fake"
      PROVE  LET s == [calls[p] EXCEPT !.pc = "reply", !.voice = v] IN
             s \in Busy /\ Fits(s) /\ Alike(calls[p], s) /\ s.pc = "reply"
  BY <1>1, <1>2, <1>4 DEF Busy, Fits, TextSteps, MakingSteps, Alike
<1>5. ASSUME calls[p].pc = "store", NEW pc \in {"parse", "gate"}
      PROVE  LET s == [calls[p] EXCEPT !.pc = pc] IN
             s \in Busy /\ Fits(s) /\ Alike(calls[p], s) /\ s.pc = pc
  BY <1>1, <1>2, <1>5 DEF Busy, Fits, TextSteps, MakingSteps, Alike
<1>6. ASSUME calls[p].pc = "upsert", NEW f \in calls[p].left
      PROVE  LET r == calls[p]
                 s == [r EXCEPT !.left = @ \ {f},
                         !.pc = IF r.left = {f} THEN "settle" ELSE "upsert"] IN
             /\ s \in Busy /\ Fits(s) /\ Alike(r, s)
             /\ s.pc \in {"upsert", "settle"} /\ s.supplied = r.supplied
  <2> DEFINE pc == IF calls[p].left = {f} THEN "settle" ELSE "upsert"
             s == [calls[p] EXCEPT !.left = @ \ {f}, !.pc = pc]
  <2>1. pc \in {"upsert", "settle"}
    OBVIOUS
  <2> HIDE DEF pc
  <2>2. /\ s \in Busy /\ Alike(calls[p], s) /\ s.pc = pc
        /\ s.supplied = calls[p].supplied /\ s.left = calls[p].left \ {f}
        /\ s.voice = calls[p].voice
    BY <1>2, <2>1 DEF Busy, TextSteps, Alike
  <2>3. Fits(s)
    BY <1>1, <1>2, <1>6, <2>1, <2>2 DEF Fits, TextSteps, MakingSteps, Alike
  <2> QED BY <2>1, <2>2, <2>3 DEF pc
<1>7. "db" \in Voices /\ "warning" \in Voices
  BY DEF Voices
<1> QED BY <1>3, <1>4, <1>5, <1>6, <1>7

\* The text that moves to another deal.
LEMMA MoveMoves ==
  ASSUME TypeOK, AllFit, NEW p \in Requests, calls[p].pc = "move"
  PROVE  LET r == calls[p]
             s == AfterMove([r EXCEPT !.deal = r.ref, !.ref = NoOne]) IN
         /\ r.ref \in DealIds /\ r.msg \in Messages
         /\ s \in Busy /\ Fits(s) /\ s.deal = r.ref
         /\ s.kind = r.kind /\ s.mode = r.mode /\ s.msg = r.msg
         /\ s.pc \in {"upsert", "ask", "complete", "reply"}
<1> DEFINE r == calls[p]
           y == [r EXCEPT !.deal = r.ref, !.ref = NoOne]
           s == AfterMove(y)
<1>1. r \in Busy /\ Fits(r) /\ r.pc = "move"
  BY FitHere
<1>2. r.ref \in DealIds /\ r.msg \in Messages /\ r.kind \in {"text", "direct"}
  BY <1>1 DEF Fits, TextSteps
<1>3. /\ y \in Busy /\ y.deal = r.ref /\ y.kind = r.kind /\ y.mode = r.mode
      /\ y.msg = r.msg /\ y.voice = r.voice /\ y.pc = "move"
  BY <1>1, <1>2 DEF Busy, DealRefs
<1>4. /\ s \in Busy /\ Alike(y, s) /\ s.voice = y.voice /\ s.supplied = y.supplied
      /\ s.pc \in {"upsert", "ask", "complete", "reply"}
      /\ s.pc = "upsert" => s.left \subseteq s.supplied
  BY <1>3, AfterMoveIs
<1>5. Fits(s)
  BY <1>1, <1>2, <1>3, <1>4 DEF Fits, Alike, TextSteps, MakingSteps
<1> QED BY <1>2, <1>3, <1>4, <1>5 DEF Alike

\* The text whose fields are written, and whose question is.
LEMMA FieldsMoves ==
  ASSUME TypeOK, AllFit, NEW p \in Requests, calls[p].pc \in {"settle", "ask"}
  PROVE  LET r == calls[p] IN
         /\ r.msg \in Messages
         /\ LET s == AfterFields([r EXCEPT !.supplied = {}]) IN
            s \in Busy /\ Fits(s) /\ Alike(r, s) /\ s.pc \in {"ask", "complete", "reply"}
         /\ LET s == AfterAsk(r) IN
            s \in Busy /\ Fits(s) /\ Alike(r, s) /\ s.pc \in {"complete", "reply"}
<1> DEFINE r == calls[p]
           y == [r EXCEPT !.supplied = {}]
<1>1. r \in Busy /\ Fits(r) /\ r.pc \in {"settle", "ask"}
  BY FitHere
<1>2. /\ r.msg \in Messages /\ r.deal \in DealIds /\ r.pc \in TextSteps
      /\ r.mode = "real" => r.voice # "fake"
  BY <1>1 DEF Fits, TextSteps
<1>3. y \in Busy /\ Alike(r, y) /\ y.voice = r.voice
  BY <1>1 DEF Busy, Alike
<1>4. LET s == AfterFields(y) IN
      /\ s \in Busy /\ Alike(y, s) /\ s.voice = y.voice
      /\ s.pc \in {"ask", "complete", "reply"}
  BY <1>3, AfterFieldsIs
<1>5. LET s == AfterFields(y) IN s \in Busy /\ Alike(r, s) /\ Fits(s)
  <2>1. Alike(r, AfterFields(y)) /\ AfterFields(y).voice = r.voice
    BY <1>3, <1>4 DEF Alike
  <2> QED BY <1>1, <1>2, <1>4, <2>1, FitsOn DEF Stored, Alike
<1>6. LET s == AfterAsk(r) IN
      /\ s \in Busy /\ Alike(r, s) /\ s.voice = r.voice /\ s.pc \in {"complete", "reply"}
  BY <1>1, AfterAskIs
<1>7. Fits(AfterAsk(r))
  BY <1>1, <1>2, <1>6, FitsOn DEF Stored, Alike
<1> QED BY <1>2, <1>4, <1>5, <1>6, <1>7

\* A row that is there keeps its type when it moves, is asked about or answered.
LEMMA TextRowType ==
  ASSUME TypeOK, TextsKnown, NEW p \in Requests, calls[p].pc \in Stored,
         calls[p].msg \in Messages
  PROVE  /\ texts[calls[p].msg] \in TextRows
         /\ \A d \in DealIds : [texts[calls[p].msg] EXCEPT !.at = d] \in TextRows
         /\ \A d \in DealIds : [texts[calls[p].msg] EXCEPT !.asked = d] \in TextRows
         /\ \A d \in DealIds, v \in Voices \cup {"none"} :
              [texts[calls[p].msg] EXCEPT !.reply = d, !.voice = v] \in TextRows
<1>1. texts[calls[p].msg] \in TextRows
  BY TypeParts DEF TextsKnown, Known
<1> QED BY <1>1 DEF TextRows, DealRefs

\* A step keeps every variable of Inbound in its type and every request fit.
LEMMA TypeStep == 
  TypeOK /\ AllFit /\ TextsKnown /\ [Next]_inboundVars => TypeOK' /\ AllFit'
<1> SUFFICES ASSUME TypeOK, AllFit, TextsKnown, [Next]_inboundVars PROVE TypeOK' /\ AllFit'
  OBVIOUS
<1>t. /\ deals \in [DealIds -> DealRows \cup {Absent}]
      /\ assigned \subseteq DealIds
      /\ texts \in [Messages -> TextRows \cup {Unsent}]
      /\ told \subseteq DealIds \X Fields
      /\ items \in [DealIds \X Fields -> ItemStates]
      /\ hasKey \in BOOLEAN
      /\ calls \in [Requests -> Calls]
      /\ overlap \in BOOLEAN
      /\ excused \subseteq (DealIds \X Fields) \cup Messages
  BY TypeParts
<1>b. Busy \subseteq Calls
  BY DEF Calls
<1>m. ASSUME NEW p \in Requests, NEW s \in Calls, Fits(s), calls' = [calls EXCEPT ![p] = s]
      PROVE  calls' \in [Requests -> Calls] /\ AllFit'
  BY <1>m, CallSet
<1>pc. ASSUME NEW p \in Requests, NEW pc \in MakingSteps \cup TextSteps \cup ChatSteps,
              calls[p].pc # "idle", Fits([calls[p] EXCEPT !.pc = pc]), Goto(p, pc)
       PROVE  calls' \in [Requests -> Calls] /\ AllFit'
  <2>1. [calls[p] EXCEPT !.pc = pc] \in Calls
    BY <1>pc, <1>b, FitHere, PcType
  <2>2. calls' = [calls EXCEPT ![p] = [calls[p] EXCEPT !.pc = pc]]
    BY <1>pc, <1>t DEF Goto
  <2> QED BY <1>pc, <1>m, <2>1, <2>2
<1>i. ASSUME NEW p \in Requests, Done(p) PROVE calls' \in [Requests -> Calls] /\ AllFit'
  BY <1>i, <1>m, IdleFits, Steps DEF Done
<1>x. ASSUME NEW p \in Requests, Throw(p)
      PROVE  /\ calls' \in [Requests -> Calls] /\ AllFit'
             /\ excused' \subseteq (DealIds \X Fields) \cup Messages
  BY <1>x, <1>m, ThrowIs, IdleFits, Steps
<1>1. ASSUME NEW p \in Requests, NEW kind \in {"chat", "post"},
             NEW base \in Bases, Ask(p, kind, base)
      PROVE  TypeOK' /\ AllFit'
  <2>1. Asked(kind, "mock", NoOne, base) \in Calls
    BY <1>b, AskedFits, BasesAreSlugs DEF MessageRefs
  <2>2. Fits(Asked(kind, "mock", NoOne, base))
    BY NoOneIsNobody DEF Fits, Asked, TextSteps, MakingSteps
  <2>3. calls' \in [Requests -> Calls] /\ AllFit'
    BY <1>1, <1>m, <2>1, <2>2 DEF Ask, Become
  <2> QED BY <1>1, <1>t, <2>3, TypePartsNext DEF Ask, rows
<1>2. ASSUME NEW p \in Requests, NEW m \in Messages, NEW mode \in {"mock", "real"},
             NEW d \in DealRefs, Text(p, m, mode, d)
      PROVE  TypeOK' /\ AllFit'
  <2> DEFINE s == [Asked("text", mode, m, SandboxBase) EXCEPT !.pc = "findSandbox"]
             u == [Asked("direct", mode, m, SandboxBase) EXCEPT !.pc = "store", !.deal = d]
  <2>0. Asked("text", mode, m, SandboxBase) \in Busy /\ Asked("direct", mode, m, SandboxBase) \in Busy
    BY AskedFits, BasesAreSlugs DEF MessageRefs
  <2>1. s \in Busy /\ Fits(s)
    BY <2>0 DEF Busy, Fits, Asked, TextSteps, MakingSteps
  <2>2. d # NoOne => u \in Busy /\ Fits(u)
    BY <2>0 DEF Busy, Fits, Asked, TextSteps, MakingSteps, DealRefs
  <2>3. calls' \in [Requests -> Calls] /\ AllFit'
    <3>1. CASE d = NoOne
      BY <1>2, <1>b, <1>m, <2>1, <3>1 DEF Text, Become
    <3>2. CASE d # NoOne
      BY <1>2, <1>b, <1>m, <2>2, <3>2 DEF Text, Become
    <3> QED BY <3>1, <3>2
  <2> QED BY <1>2, <1>t, <2>3, TypePartsNext DEF Text, rows
<1>3. ASSUME NEW p \in Requests, FindSandbox(p) PROVE TypeOK' /\ AllFit'
  <2>1. calls[p].pc # "idle" /\ overlap' \in BOOLEAN
    BY <1>3, <1>t DEF FindSandbox
  <2>2. ASSUME NEW d \in Sandboxes,
               Become(p, [calls[p] EXCEPT !.pc = "findAssignment", !.deal = d])
        PROVE  calls' \in [Requests -> Calls] /\ AllFit'
    BY <1>3, <1>b, <1>m, <2>1, <2>2, DealsAre, RequestMoves DEF FindSandbox, Become
  <2>3. ASSUME Goto(p, "slug") PROVE calls' \in [Requests -> Calls] /\ AllFit'
    BY <1>3, <1>pc, <2>1, <2>3, RequestMoves DEF FindSandbox, MakingSteps
  <2>4. calls' \in [Requests -> Calls] /\ AllFit'
    BY <1>3, <2>2, <2>3 DEF FindSandbox
  <2> QED BY <1>3, <1>t, <2>1, <2>4, TypePartsNext DEF FindSandbox, rows
<1>4. ASSUME NEW p \in Requests, TrySlug(p) PROVE TypeOK' /\ AllFit'
  <2>1. calls[p].pc = "slug" /\ calls[p].pc # "idle"
    BY <1>4 DEF TrySlug
  <2>2. ASSUME calls' = [calls EXCEPT ![p].n = @ + 1]
        PROVE  calls' \in [Requests -> Calls] /\ AllFit'
    <3>1. calls' = [calls EXCEPT ![p] = [calls[p] EXCEPT !.n = @ + 1]]
      BY <1>t, <2>2
    <3> QED BY <1>b, <1>m, <2>1, <3>1, RequestMoves
  <2>3. ASSUME Goto(p, "createDeal") PROVE calls' \in [Requests -> Calls] /\ AllFit'
    BY <1>pc, <2>1, <2>3, RequestMoves DEF MakingSteps
  <2> QED BY <1>4, <1>t, <2>2, <2>3, TypePartsNext DEF TrySlug, rows
<1>5. ASSUME NEW p \in Requests, CreateDeal(p) PROVE TypeOK' /\ AllFit'
  <2>1. calls[p].pc = "createDeal" /\ calls[p].pc # "idle"
    BY <1>5 DEF CreateDeal
  <2>2. calls[p] \in Busy /\ Fits(calls[p])
    BY <2>1, FitHere
  <2>3. ASSUME NEW d \in DealIds, deals' = [deals EXCEPT ![d] = NewDeal(calls[p])],
               Become(p, [calls[p] EXCEPT !.pc = "folders", !.deal = d]), UNCHANGED excused
        PROVE  TypeOK' /\ AllFit'
    <3>1. NewDeal(calls[p]) \in DealRows
      <4>1. Slug(calls[p]) \in Slugs
        BY <2>2, CandidateFits DEF Slug, Busy
      <4> QED BY <2>2, <4>1 DEF NewDeal, DealRows, Busy
    <3>2. deals' \in [DealIds -> DealRows \cup {Absent}]
      BY <1>t, <2>3, <3>1
    <3>3. calls' \in [Requests -> Calls] /\ AllFit'
      BY <1>b, <1>m, <2>1, <2>3, RequestMoves DEF Become
    <3> QED BY <1>5, <1>t, <2>3, <3>2, <3>3, TypePartsNext DEF CreateDeal
  <2>4. CASE Throw(p) /\ UNCHANGED deals
    BY <1>5, <1>t, <1>x, <2>4, TypePartsNext DEF CreateDeal
  <2> QED BY <1>5, <2>3, <2>4 DEF CreateDeal
<1>6. ASSUME NEW p \in Requests, MakeFolders(p) PROVE TypeOK' /\ AllFit'
  <2>1. calls[p].pc = "folders" /\ calls[p].pc # "idle"
    BY <1>6 DEF MakeFolders
  <2>2. ASSUME calls[p].kind = "text", Goto(p, "findAssignment")
        PROVE  calls' \in [Requests -> Calls] /\ AllFit'
    BY <1>pc, <2>1, <2>2, RequestMoves DEF TextSteps
  <2>3. ASSUME calls[p].kind = "chat",
               Become(p, [calls[p] EXCEPT !.pc = "raise", !.left = Fields])
        PROVE  calls' \in [Requests -> Calls] /\ AllFit'
    BY <1>b, <1>m, <2>1, <2>3, RequestMoves DEF Become
  <2>4. calls' \in [Requests -> Calls] /\ AllFit'
    BY <1>6, <1>i, <2>2, <2>3 DEF MakeFolders
  <2> QED BY <1>6, <1>t, <2>4, TypePartsNext DEF MakeFolders, rows
<1>7. ASSUME NEW p \in Requests, RaiseItem(p) PROVE TypeOK' /\ AllFit'
  <2>1. calls[p].pc = "raise" /\ calls[p].pc # "idle"
    BY <1>7 DEF RaiseItem
  <2>2. calls[p].left \in SUBSET Fields /\ calls[p].deal \in DealIds
    BY <2>1, FitHere DEF Busy, Fits
  <2>3. PICK f \in calls[p].left :
          /\ items' = [items EXCEPT ![<<calls[p].deal, f>>] = "open"]
          /\ excused' = excused \cup ({<<calls[p].deal, f>>} \cap told)
          /\ IF calls[p].left = {f} THEN Done(p)
             ELSE calls' = [calls EXCEPT ![p].left = @ \ {f}]
    BY <1>7 DEF RaiseItem
  <2>4. ASSUME calls' = [calls EXCEPT ![p].left = @ \ {f}]
        PROVE  calls' \in [Requests -> Calls] /\ AllFit'
    <3>1. calls' = [calls EXCEPT ![p] = [calls[p] EXCEPT !.left = calls[p].left \ {f}]]
      BY <1>t, <2>4
    <3>2. calls[p].left \ {f} \in SUBSET Fields
      BY <2>2
    <3> QED BY <1>b, <1>m, <2>1, <3>1, <3>2, RequestMoves
  <2>5. calls' \in [Requests -> Calls] /\ AllFit'
    BY <1>i, <2>3, <2>4
  <2>6. items' \in [DealIds \X Fields -> ItemStates]
    BY <1>t, <2>2, <2>3 DEF ItemStates
  <2>7. excused' \subseteq (DealIds \X Fields) \cup Messages
    BY <1>t, <2>3
  <2> QED BY <1>7, <1>t, <2>5, <2>6, <2>7, TypePartsNext DEF RaiseItem
<1>8. ASSUME NEW p \in Requests, FindAssignment(p) PROVE TypeOK' /\ AllFit'
  <2>1. calls[p].pc = "findAssignment" /\ calls[p].pc # "idle"
    BY <1>8 DEF FindAssignment
  <2>2. PICK pc \in {"store", "assign"} : Goto(p, pc)
    BY <1>8 DEF FindAssignment
  <2>3. Fits([calls[p] EXCEPT !.pc = pc]) /\ pc \in TextSteps
    BY <2>1, RequestMoves DEF TextSteps
  <2>4. calls' \in [Requests -> Calls] /\ AllFit'
    BY <1>pc, <2>1, <2>2, <2>3
  <2> QED BY <1>8, <1>t, <2>4, TypePartsNext DEF FindAssignment, rows
<1>9. ASSUME NEW p \in Requests, Assign(p) PROVE TypeOK' /\ AllFit'
  <2>1. calls[p].pc = "assign" /\ calls[p].pc # "idle"
    BY <1>9 DEF Assign
  <2>2. CASE Throw(p) /\ UNCHANGED assigned
    BY <1>9, <1>t, <1>x, <2>2, TypePartsNext DEF Assign
  <2>3. CASE assigned' = assigned \cup {calls[p].deal} /\ Goto(p, "store")
               /\ UNCHANGED excused
    <3>1. calls[p].deal \in DealIds
      BY <2>1, FitHere DEF Fits
    <3>2. calls' \in [Requests -> Calls] /\ AllFit'
      BY <1>pc, <2>1, <2>3, RequestMoves DEF TextSteps
    <3> QED BY <1>9, <1>t, <2>3, <3>1, <3>2, TypePartsNext DEF Assign
  <2> QED BY <1>9, <2>2, <2>3 DEF Assign
<1>10. ASSUME NEW p \in Requests, NEW brokerage \in BOOLEAN, Store(p, brokerage)
       PROVE  TypeOK' /\ AllFit'
  <2>1. calls[p].pc = "store" /\ calls[p].pc \in TextSteps /\ calls[p].pc # "idle"
    BY <1>10 DEF Store, TextSteps
  <2>2. calls[p].msg \in Messages /\ calls[p].deal \in DealIds /\ calls[p] \in Busy
    BY <2>1, FitHere DEF Fits
  <2> DEFINE row == [at |-> calls[p].deal, mode |-> calls[p].mode, asked |-> NoOne,
                     reply |-> NoOne, voice |-> "none",
                     home |-> IF calls[p].kind = "text" THEN calls[p].deal ELSE NoOne]
  <2>3. row \in TextRows
    BY <2>2 DEF TextRows, DealRefs, Busy
  <2>4. texts' \in [Messages -> TextRows \cup {Unsent}]
    BY <1>10, <1>t, <2>2, <2>3 DEF Store
  <2>5. PICK s \in Busy : Fits(s) /\ calls' = [calls EXCEPT ![p] = s]
    BY <1>10, <2>1, TextMoves DEF Store, Become
  <2>6. calls' \in [Requests -> Calls] /\ AllFit'
    BY <1>b, <1>m, <2>5
  <2> QED BY <1>10, <1>t, <2>4, <2>6, TypePartsNext DEF Store
<1>11. ASSUME NEW p \in Requests, Gate(p) PROVE TypeOK' /\ AllFit'
  <2>1. calls[p].pc = "gate" /\ calls[p].pc \in TextSteps /\ calls[p].pc # "idle"
    BY <1>11 DEF Gate, TextSteps
  <2>2. ASSUME Goto(p, "parse") PROVE calls' \in [Requests -> Calls] /\ AllFit'
    BY <1>pc, <2>1, <2>2, RequestMoves DEF TextSteps
  <2>3. ASSUME Become(p, [calls[p] EXCEPT !.pc = "reply", !.voice = "warning"])
        PROVE  calls' \in [Requests -> Calls] /\ AllFit'
    BY <1>b, <1>m, <2>1, <2>3, TextMoves DEF Become
  <2> QED BY <1>11, <1>t, <2>2, <2>3, TypePartsNext DEF Gate, rows
<1>12. ASSUME NEW p \in Requests, Parse(p) PROVE TypeOK' /\ AllFit'
  <2>1. PICK s : ParsedTo(calls[p], s) /\ calls' = [calls EXCEPT ![p] = s]
    BY <1>12, ParseMoves
  <2>2. calls' \in [Requests -> Calls] /\ AllFit'
    BY <1>b, <1>m, <2>1 DEF ParsedTo
  <2> QED BY <1>12, <1>t, <2>2, TypePartsNext DEF Parse, rows
<1>13. ASSUME NEW p \in Requests, Move(p) PROVE TypeOK' /\ AllFit'
  <2>1. calls[p].pc = "move"
    BY <1>13 DEF Move
  <2>2. calls[p].ref \in DealIds /\ calls[p].msg \in Messages
    BY <2>1, MoveMoves
  <2>3. calls' \in [Requests -> Calls] /\ AllFit'
    BY <1>13, <1>b, <1>m, <2>1, MoveMoves DEF Move, Become
  <2>4. texts' \in [Messages -> TextRows \cup {Unsent}]
    <3>1. [texts[calls[p].msg] EXCEPT !.at = calls[p].ref] \in TextRows
      BY <2>1, <2>2, TextRowType DEF Stored
    <3>2. texts' = [texts EXCEPT ![calls[p].msg] =
                      [texts[calls[p].msg] EXCEPT !.at = calls[p].ref]]
      BY <1>13, <1>t DEF Move
    <3> QED BY <1>t, <2>2, <3>1, <3>2
  <2> QED BY <1>13, <1>t, <2>3, <2>4, TypePartsNext DEF Move
<1>14. ASSUME NEW p \in Requests, UpsertField(p) PROVE TypeOK' /\ AllFit'
  <2>1. calls[p].pc = "upsert" /\ calls[p].pc \in TextSteps /\ calls[p].pc # "idle"
    BY <1>14 DEF UpsertField, TextSteps
  <2>2. calls[p].deal \in DealIds /\ calls[p].left \subseteq Fields
    BY <2>1, FitHere DEF Fits, Busy
  <2>3. told' \subseteq DealIds \X Fields
    BY <1>14, <1>t, <2>2 DEF UpsertField
  <2>4. PICK s \in Busy : Fits(s) /\ calls' = [calls EXCEPT ![p] = s]
    BY <1>14, <2>1, TextMoves DEF UpsertField, Become
  <2>5. calls' \in [Requests -> Calls] /\ AllFit'
    BY <1>b, <1>m, <2>4
  <2> QED BY <1>14, <1>t, <2>3, <2>5, TypePartsNext DEF UpsertField
<1>15. ASSUME NEW p \in Requests, Settle(p) PROVE TypeOK' /\ AllFit'
  <2>1. calls' \in [Requests -> Calls] /\ AllFit'
    BY <1>15, <1>b, <1>m, FieldsMoves DEF Settle, Become
  <2>2. items' \in [DealIds \X Fields -> ItemStates]
    BY <1>15, <1>t DEF Settle, Settled, ItemStates
  <2> QED BY <1>15, <1>t, <2>1, <2>2, TypePartsNext DEF Settle
<1>16. ASSUME NEW p \in Requests, AskQuestion(p) PROVE TypeOK' /\ AllFit'
  <2>1. calls[p].pc = "ask" /\ calls[p].msg \in Messages
    BY <1>16, FieldsMoves DEF AskQuestion
  <2>2. calls[p].deal \in DealIds
    BY <2>1, FitHere DEF Fits
  <2>3. calls' \in [Requests -> Calls] /\ AllFit'
    BY <1>16, <1>b, <1>m, FieldsMoves DEF AskQuestion, Become
  <2>4. texts' \in [Messages -> TextRows \cup {Unsent}]
    <3>1. [texts[calls[p].msg] EXCEPT !.asked = calls[p].deal] \in TextRows
      BY <2>1, <2>2, TextRowType DEF Stored
    <3>2. texts' = [texts EXCEPT ![calls[p].msg] =
                      [texts[calls[p].msg] EXCEPT !.asked = calls[p].deal]]
      BY <1>16, <1>t DEF AskQuestion
    <3> QED BY <1>t, <2>1, <3>1, <3>2
  <2> QED BY <1>16, <1>t, <2>3, <2>4, TypePartsNext DEF AskQuestion
<1>17. ASSUME NEW p \in Requests, Complete(p) PROVE TypeOK' /\ AllFit'
  <2>1. calls[p].pc = "complete" /\ calls[p].pc \in TextSteps
    BY <1>17 DEF Complete, TextSteps
  <2>2. calls[p].mode \in {"mock", "real"}
    BY <2>1, TextMoves
  <2>3. PICK v \in {Unkeyed(calls[p].mode), "stock", "openai"} :
          Become(p, [calls[p] EXCEPT !.pc = "reply", !.voice = v])
    BY <1>17 DEF Complete
  <2>4. v \in Voices /\ (calls[p].mode = "real" => v # "fake")
    BY <2>2, UnkeyedIs DEF Voices
  <2>5. calls' \in [Requests -> Calls] /\ AllFit'
    BY <1>b, <1>m, <2>1, <2>3, <2>4, TextMoves DEF Become
  <2> QED BY <1>17, <1>t, <2>5, TypePartsNext DEF Complete, rows
<1>18. ASSUME NEW p \in Requests, Reply(p) PROVE TypeOK' /\ AllFit'
  <2>1. calls[p].pc = "reply" /\ calls[p].pc \in TextSteps /\ calls[p].pc # "idle"
    BY <1>18 DEF Reply, TextSteps
  <2>2. calls[p].msg \in Messages /\ calls[p].deal \in DealIds
          /\ calls[p].voice \in Voices \cup {"none"}
    BY <2>1, FitHere DEF Fits, Busy
  <2>3. texts' \in [Messages -> TextRows \cup {Unsent}]
    <3>1. [texts[calls[p].msg] EXCEPT !.reply = calls[p].deal, !.voice = calls[p].voice]
            \in TextRows
      BY <2>1, <2>2, TextRowType DEF Stored
    <3>2. texts' = [texts EXCEPT ![calls[p].msg] =
            [texts[calls[p].msg] EXCEPT !.reply = calls[p].deal, !.voice = calls[p].voice]]
      BY <1>18, <1>t, <2>2 DEF Reply
    <3> QED BY <1>t, <2>2, <3>1, <3>2
  <2> QED BY <1>18, <1>t, <1>i, <2>3, TypePartsNext DEF Reply
<1>19. ASSUME NEW p \in Requests, Fail(p) PROVE TypeOK' /\ AllFit'
  BY <1>19, <1>t, <1>x, TypePartsNext DEF Fail, rows
<1>20. ASSUME NEW i \in DealIds \X Fields, NEW s \in ItemStates \ {"none"}, PatchItem(i, s)
       PROVE  TypeOK' /\ AllFit'
  <2>1. items' \in [DealIds \X Fields -> ItemStates]
    BY <1>20, <1>t DEF PatchItem
  <2>2. excused' \subseteq (DealIds \X Fields) \cup Messages
    BY <1>20, <1>t DEF PatchItem
  <2> QED BY <1>20, <1>t, <2>1, <2>2, TypePartsNext DEF PatchItem, AllFit
<1>21. ASSUME NEW d \in DealIds, Retitle(d) PROVE TypeOK' /\ AllFit'
  <2>1. deals[d] \in DealRows
    BY <1>21, DealsAre DEF Retitle
  <2>2. [deals[d] EXCEPT !.titled = FALSE] \in DealRows
    BY <2>1 DEF DealRows
  <2>3. deals' \in [DealIds -> DealRows \cup {Absent}]
    BY <1>21, <1>t, <2>2 DEF Retitle
  <2> QED BY <1>21, <1>t, <2>3, TypePartsNext DEF Retitle, AllFit
<1>22. ASSUME NEW key \in BOOLEAN, SetKey(key) PROVE TypeOK' /\ AllFit'
  BY <1>22, <1>t, TypePartsNext DEF SetKey, rows, AllFit
<1>23. CASE UNCHANGED inboundVars
  BY <1>23, <1>t, TypePartsNext DEF inboundVars, AllFit
<1> QED
  BY <1>1, <1>2, <1>3, <1>4, <1>5, <1>6, <1>7, <1>8, <1>9, <1>10, <1>11, <1>12,
     <1>13, <1>14, <1>15, <1>16, <1>17, <1>18, <1>19, <1>20, <1>21, <1>22, <1>23
  DEF Next

(***************************************************************************)
(* What becomes of a text.                                                 *)
(***************************************************************************)

\* No two requests have the same text.
OneEach == \A p, q \in Requests :
  p # q /\ calls[p].pc # "idle" /\ calls[q].pc # "idle" /\ calls[p].msg \in Messages
    => calls[q].msg # calls[p].msg

\* Whoever is about to store a text of the sandbox has found or made the
\* assignment.
AssignedFirst == \A p \in Requests :
  calls[p].pc = "store" /\ calls[p].kind = "text" => calls[p].deal \in assigned

TextInv == /\ TextsKnown /\ OneEach /\ AssignedFirst
           /\ ThreadAssigned /\ NeverSilentlyFake /\ RepliesFollow

LEMMA Working ==
  ASSUME TypeOK, NEW p \in Requests
  PROVE  calls[p] # Idle <=> calls[p].pc # "idle"
BY TypeParts, Steps

LEMMA WorkingNext ==
  ASSUME TypeOK', NEW p \in Requests
  PROVE  calls'[p] # Idle <=> calls'[p].pc # "idle"
BY TypePartsNext, Steps

\* A step of one request that writes no text.
LEMMA TextsSame ==
  ASSUME TypeOK, TypeOK', AllFit, TextInv, NEW p \in Requests, NEW s \in Calls,
         calls' = [calls EXCEPT ![p] = s],
         texts' = texts, assigned \subseteq assigned', excused \subseteq excused',
         Known(texts, s),
         s.pc = "store" /\ s.kind = "text" => s.deal \in assigned',
         s.pc # "idle" /\ s.msg \in Messages =>
           \/ calls[p].pc # "idle" /\ calls[p].msg = s.msg
           \/ \A q \in Requests \ {p} : calls[q].pc # "idle" => calls[q].msg # s.msg,
         calls[p].pc # "idle" /\ calls[p].msg \in Messages =>
           (s.pc # "idle" /\ s.msg = calls[p].msg) \/ calls[p].msg \in excused'
  PROVE  TextInv'
<1>1. calls'[p] = s /\ \A q \in Requests \ {p} : calls'[q] = calls[q]
  BY TypeParts
<1>2. TextsKnown'
  BY <1>1 DEF TextInv, TextsKnown, Known
<1>3. OneEach'
  BY <1>1 DEF TextInv, OneEach
<1>4. AssignedFirst'
  BY <1>1 DEF TextInv, AssignedFirst
<1>5. ThreadAssigned' /\ NeverSilentlyFake'
  BY DEF TextInv, ThreadAssigned, NeverSilentlyFake
<1>6. RepliesFollow'
  <2> SUFFICES ASSUME NEW m \in Messages, texts[m] # Unsent,
                      texts[m].reply # texts[m].at, m \notin excused'
               PROVE  \E q \in Requests : calls'[q] # Idle /\ calls'[q].msg = m
    BY DEF TextInv, RepliesFollow
  <2>1. PICK q \in Requests : calls[q].pc # "idle" /\ calls[q].msg = m
    BY Working DEF TextInv, RepliesFollow
  <2>2. CASE q # p
    BY <1>1, <2>1, <2>2, WorkingNext
  <2>3. CASE q = p
    BY <1>1, <2>1, <2>3, WorkingNext
  <2> QED BY <2>2, <2>3
<1> QED BY <1>2, <1>3, <1>4, <1>5, <1>6 DEF TextInv

\* A step that writes the text its request is about.
LEMMA TextWritten ==
  ASSUME TypeOK, TypeOK', AllFit, TextInv, NEW p \in Requests, NEW s \in Calls,
         calls[p].pc # "idle", NEW m \in Messages, calls[p].msg = m,
         calls' = [calls EXCEPT ![p] = s], NEW row \in TextRows,
         texts' = [texts EXCEPT ![m] = row], assigned' = assigned, excused' = excused,
         Known([texts EXCEPT ![m] = row], s),
         s.pc # "store",
         s.pc # "idle" => s.msg = m,
         s.pc = "idle" => row.reply = row.at,
         row.reply \in {NoOne, row.at}, row.asked \in {NoOne, row.at},
         row.home # NoOne => row.home \in assigned,
         row.mode = "real" => row.voice # "fake"
  PROVE  TextInv'
<1>1. calls'[p] = s /\ \A q \in Requests \ {p} : calls'[q] = calls[q]
  BY TypeParts
<1>2. texts'[m] = row /\ \A x \in Messages \ {m} : texts'[x] = texts[x]
  BY TypeParts
<1>3. TextsKnown'
  <2> SUFFICES ASSUME NEW q \in Requests PROVE Known(texts', calls'[q])
    BY DEF TextsKnown, Known
  <2>1. CASE q = p
    BY <1>1, <2>1
  <2>2. CASE q # p /\ calls[q].pc \in Stored
    <3>1. calls[q].pc # "idle" /\ calls[q].pc \in TextSteps
      BY <2>2 DEF Stored, TextSteps
    <3>2. calls[q].msg \in Messages
      BY <3>1, FitHere DEF Fits
    <3>3. calls[q].msg # m
      BY <2>2, <3>1 DEF TextInv, OneEach
    <3>4. texts'[calls[q].msg] = texts[calls[q].msg] /\ calls'[q] = calls[q]
      BY <1>1, <1>2, <2>2, <3>2, <3>3
    <3> QED BY <3>4 DEF TextInv, TextsKnown, Known
  <2>3. CASE q # p /\ calls[q].pc \notin Stored
    BY <1>1, <2>3 DEF Known
  <2> QED BY <2>1, <2>2, <2>3
<1>4. OneEach'
  BY <1>1 DEF TextInv, OneEach
<1>5. AssignedFirst'
  BY <1>1 DEF TextInv, AssignedFirst
<1>6. ThreadAssigned' /\ NeverSilentlyFake'
  BY <1>2 DEF TextInv, ThreadAssigned, NeverSilentlyFake
<1>7. RepliesFollow'
  <2> SUFFICES ASSUME NEW x \in Messages, texts'[x] # Unsent
               PROVE  /\ \/ texts'[x].reply = texts'[x].at
                         \/ x \in excused
                         \/ \E q \in Requests : calls'[q] # Idle /\ calls'[q].msg = x
                      /\ texts'[x].reply \in {NoOne, texts'[x].at}
                      /\ texts'[x].asked \in {NoOne, texts'[x].at}
    BY DEF RepliesFollow
  <2>1. CASE x = m
    <3>1. CASE s.pc = "idle"
      BY <1>2, <2>1, <3>1
    <3>2. CASE s.pc # "idle"
      <4>1. calls'[p] # Idle /\ calls'[p].msg = x
        BY <1>1, <2>1, <3>2, WorkingNext
      <4> QED BY <1>2, <2>1, <4>1
    <3> QED BY <3>1, <3>2
  <2>2. CASE x # m
    <3>1. texts'[x] = texts[x]
      BY <1>2, <2>2
    <3>2. CASE \E q \in Requests : calls[q] # Idle /\ calls[q].msg = x
      <4>1. PICK q \in Requests : calls[q] # Idle /\ calls[q].msg = x
        BY <3>2
      <4>2. calls'[q] = calls[q]
        BY <1>1, <2>2, <4>1
      <4> QED BY <3>1, <4>1, <4>2 DEF TextInv, RepliesFollow
    <3> QED BY <3>1, <3>2 DEF TextInv, RepliesFollow
  <2> QED BY <2>1, <2>2
<1> QED BY <1>3, <1>4, <1>5, <1>6, <1>7 DEF TextInv

LEMMA TextInit == Init => TextInv
<1> SUFFICES ASSUME Init PROVE TextInv
  OBVIOUS
<1>1. \A m \in Messages : texts[m] = Unsent
  BY DEF Init
<1>2. \A p \in Requests : calls[p].pc = "idle"
  BY DEF Init, Idle
<1>3. TextsKnown /\ OneEach /\ AssignedFirst
  BY <1>2 DEF TextsKnown, Known, Stored, OneEach, AssignedFirst
<1>4. ThreadAssigned /\ NeverSilentlyFake /\ RepliesFollow
  BY <1>1 DEF ThreadAssigned, NeverSilentlyFake, RepliesFollow
<1> QED BY <1>3, <1>4 DEF TextInv

LEMMA TextStep == TypeOK /\ TypeOK' /\ AllFit /\ TextInv /\ [Next]_inboundVars => TextInv'
<1> SUFFICES ASSUME TypeOK, TypeOK', AllFit, TextInv, [Next]_inboundVars PROVE TextInv'
  OBVIOUS
<1>t. calls \in [Requests -> Calls] /\ texts \in [Messages -> TextRows \cup {Unsent}]
  BY TypeParts
<1>k. \A p \in Requests : Known(texts, calls[p])
  BY DEF TextInv, TextsKnown
<1>b. /\ Busy \subseteq Calls /\ Idle \in Calls /\ Idle.pc = "idle"
      /\ \A r \in Busy : r.pc # "idle"
  BY Steps DEF Calls
\* Before the text is stored.
<1>q. ASSUME NEW p \in Requests, NEW s \in Busy, calls' = [calls EXCEPT ![p] = s],
             texts' = texts, assigned \subseteq assigned', excused' = excused,
             calls[p].pc # "idle", s.msg = calls[p].msg, s.pc \notin Stored,
             s.pc = "store" /\ s.kind = "text" => s.deal \in assigned'
      PROVE  TextInv'
  BY <1>q, <1>b, TextsSame DEF Known
\* After.
<1>g. ASSUME NEW p \in Requests, NEW s \in Busy, calls' = [calls EXCEPT ![p] = s],
             texts' = texts, assigned' = assigned, excused' = excused,
             calls[p].pc \in Stored, s.pc \in Stored, Alike(calls[p], s),
             calls[p].pc \in {"complete", "reply"} => s.pc \in {"complete", "reply"}
      PROVE  TextInv'
  <2>1. Known(texts, s) /\ s.msg = calls[p].msg /\ s.pc # "store" /\ calls[p].pc # "idle"
    BY <1>g, <1>k DEF Known, Alike, Stored
  <2> QED BY <1>g, <1>b, <2>1, TextsSame
<1>i. ASSUME NEW p \in Requests, Done(p), texts' = texts, assigned' = assigned,
             excused \subseteq excused',
             calls[p].pc # "idle",
             calls[p].msg \in Messages => calls[p].msg \in excused'
      PROVE  TextInv'
  BY <1>i, <1>b, TextsSame DEF Done, Known, Stored
<1>x. ASSUME NEW p \in Requests, calls[p].pc # "idle", Throw(p), texts' = texts,
             assigned' = assigned
      PROVE  TextInv'
  BY <1>x, <1>i, ThrowIs DEF Done
<1>s. ASSUME UNCHANGED <<texts, assigned, calls>>, excused \subseteq excused' PROVE TextInv'
  BY <1>s DEF TextInv, TextsKnown, OneEach, AssignedFirst, ThreadAssigned,
              NeverSilentlyFake, RepliesFollow
<1>1. ASSUME NEW p \in Requests, NEW kind \in {"chat", "post"},
             NEW base \in Bases, Ask(p, kind, base)
      PROVE  TextInv'
  <2> DEFINE s == Asked(kind, "mock", NoOne, base)
  <2>1. s \in Calls /\ s.msg \notin Messages /\ s.pc = "slug"
    BY <1>b, AskedFits, BasesAreSlugs, NoOneIsNobody DEF MessageRefs, Asked
  <2>2. calls' = [calls EXCEPT ![p] = s] /\ texts' = texts /\ assigned' = assigned
          /\ excused' = excused /\ calls[p].pc = "idle"
    BY <1>1, <1>b DEF Ask, Become, rows
  <2> QED BY <2>1, <2>2, TextsSame DEF Known, Stored
<1>2. ASSUME NEW p \in Requests, NEW m \in Messages, NEW mode \in {"mock", "real"},
             NEW d \in DealRefs, Text(p, m, mode, d)
      PROVE  TextInv'
  <2> DEFINE s == IF d = NoOne
                  THEN [Asked("text", mode, m, SandboxBase) EXCEPT !.pc = "findSandbox"]
                  ELSE [Asked("direct", mode, m, SandboxBase) EXCEPT !.pc = "store", !.deal = d]
  <2>0. Asked("text", mode, m, SandboxBase) \in Busy /\ Asked("direct", mode, m, SandboxBase) \in Busy
    BY AskedFits, BasesAreSlugs DEF MessageRefs
  <2>1. s \in Busy
    BY <2>0 DEF Busy, TextSteps
  <2>2. s.msg = m /\ s.pc \in {"findSandbox", "store"} /\ (s.pc = "store" => s.kind = "direct")
    BY DEF Asked
  <2>3. calls' = [calls EXCEPT ![p] = s] /\ texts' = texts /\ assigned' = assigned
          /\ excused' = excused /\ calls[p].pc = "idle"
    BY <1>2, <1>b DEF Text, Become, rows
  <2>4. \A q \in Requests \ {p} : calls[q].pc # "idle" => calls[q].msg # m
    BY <1>2, Working DEF Text
  <2> HIDE DEF s
  <2> QED BY <1>b, <2>1, <2>2, <2>3, <2>4, TextsSame DEF Known, Stored
<1>3. ASSUME NEW p \in Requests, FindSandbox(p) PROVE TextInv'
  <2>1. calls[p] \in Busy /\ calls[p].pc = "findSandbox" /\ texts' = texts
          /\ assigned' = assigned /\ excused' = excused
    BY <1>3, FitHere DEF FindSandbox, rows
  <2>2. ASSUME NEW d \in Sandboxes,
               Become(p, [calls[p] EXCEPT !.pc = "findAssignment", !.deal = d])
        PROVE  TextInv'
    <3> DEFINE s == [calls[p] EXCEPT !.pc = "findAssignment", !.deal = d]
    <3>1. s \in Busy
      BY <2>1, <2>2, DealsAre, RequestMoves
    <3>2. s.msg = calls[p].msg /\ s.pc = "findAssignment"
      BY <2>1 DEF Busy
    <3> QED BY <1>q, <2>1, <2>2, <3>1, <3>2 DEF Become, Stored
  <2>3. ASSUME Goto(p, "slug") PROVE TextInv'
    <3> DEFINE s == [calls[p] EXCEPT !.pc = "slug"]
    <3>1. s \in Busy /\ s.msg = calls[p].msg /\ s.pc = "slug"
      BY <2>1, PcType DEF MakingSteps, Alike
    <3>2. calls' = [calls EXCEPT ![p] = s]
      BY <1>t, <2>3 DEF Goto
    <3> QED BY <1>q, <2>1, <3>1, <3>2 DEF Stored
  <2> QED BY <1>3, <2>2, <2>3 DEF FindSandbox
<1>4. ASSUME NEW p \in Requests, TrySlug(p) PROVE TextInv'
  <2>1. calls[p] \in Busy /\ calls[p].pc = "slug" /\ texts' = texts
          /\ assigned' = assigned /\ excused' = excused
    BY <1>4, FitHere DEF TrySlug, rows
  <2>2. PICK s \in Busy : /\ calls' = [calls EXCEPT ![p] = s] /\ s.msg = calls[p].msg
                          /\ s.pc \in {"slug", "createDeal"}
    <3> DEFINE u == [calls[p] EXCEPT !.n = @ + 1]
               v == [calls[p] EXCEPT !.pc = "createDeal"]
    <3>1. u \in Busy /\ u.msg = calls[p].msg /\ u.pc = "slug"
      BY <2>1 DEF Busy
    <3>2. v \in Busy /\ v.msg = calls[p].msg /\ v.pc = "createDeal"
      BY <2>1, PcType DEF MakingSteps, Alike
    <3>3. calls' = [calls EXCEPT ![p] = u] \/ calls' = [calls EXCEPT ![p] = v]
      BY <1>4, <1>t DEF TrySlug, Goto
    <3> QED BY <3>1, <3>2, <3>3
  <2> QED BY <1>q, <2>1, <2>2 DEF Stored
<1>5. ASSUME NEW p \in Requests, CreateDeal(p) PROVE TextInv'
  <2>1. calls[p] \in Busy /\ calls[p].pc = "createDeal" /\ texts' = texts
          /\ assigned' = assigned
    BY <1>5, FitHere DEF CreateDeal
  <2>2. CASE Throw(p)
    BY <1>x, <2>1, <2>2
  <2>3. ASSUME NEW d \in DealIds, UNCHANGED excused,
               Become(p, [calls[p] EXCEPT !.pc = "folders", !.deal = d])
        PROVE  TextInv'
    <3> DEFINE s == [calls[p] EXCEPT !.pc = "folders", !.deal = d]
    <3>1. s \in Busy
      BY <2>1, RequestMoves
    <3>2. s.msg = calls[p].msg /\ s.pc = "folders"
      BY <2>1 DEF Busy
    <3> QED BY <1>q, <2>1, <2>3, <3>1, <3>2 DEF Become, Stored
  <2> QED BY <1>5, <2>2, <2>3 DEF CreateDeal
<1>6. ASSUME NEW p \in Requests, MakeFolders(p) PROVE TextInv'
  <2>1. calls[p] \in Busy /\ calls[p].pc = "folders" /\ texts' = texts
          /\ assigned' = assigned /\ excused' = excused
    BY <1>6, FitHere DEF MakeFolders, rows
  <2>2. ASSUME Goto(p, "findAssignment") PROVE TextInv'
    <3> DEFINE s == [calls[p] EXCEPT !.pc = "findAssignment"]
    <3>1. s \in Busy /\ s.msg = calls[p].msg /\ s.pc = "findAssignment"
      BY <2>1, PcType DEF TextSteps, Alike
    <3>2. calls' = [calls EXCEPT ![p] = s]
      BY <1>t, <2>2 DEF Goto
    <3> QED BY <1>q, <2>1, <3>1, <3>2 DEF Stored
  <2>3. ASSUME calls[p].kind = "chat",
               Become(p, [calls[p] EXCEPT !.pc = "raise", !.left = Fields])
        PROVE  TextInv'
    <3> DEFINE s == [calls[p] EXCEPT !.pc = "raise", !.left = Fields]
    <3>1. s \in Busy
      BY <2>1, <2>3, RequestMoves
    <3>2. s.msg = calls[p].msg /\ s.pc = "raise"
      BY <2>1 DEF Busy
    <3> QED BY <1>q, <2>1, <2>3, <3>1, <3>2 DEF Become, Stored
  <2>4. ASSUME calls[p].kind # "text", Done(p) PROVE TextInv'
    <3>1. calls[p].msg \notin Messages
      BY <2>1, <2>4, FitHere DEF Fits, MakingSteps
    <3> QED BY <1>i, <2>1, <2>4, <3>1
  <2> QED BY <1>6, <2>2, <2>3, <2>4 DEF MakeFolders
<1>7. ASSUME NEW p \in Requests, RaiseItem(p) PROVE TextInv'
  <2>1. calls[p] \in Busy /\ calls[p].pc = "raise" /\ texts' = texts
          /\ assigned' = assigned /\ excused \subseteq excused'
    BY <1>7, FitHere DEF RaiseItem
  <2>2. calls[p].msg \notin Messages
    BY <2>1, FitHere DEF Fits
  <2>3. CASE Done(p)
    BY <1>i, <2>1, <2>2, <2>3
  <2>4. ASSUME NEW f, calls' = [calls EXCEPT ![p].left = @ \ {f}] PROVE TextInv'
    <3> DEFINE s == [calls[p] EXCEPT !.left = @ \ {f}]
    <3>1. s \in Busy /\ s.msg = calls[p].msg /\ s.pc = "raise"
      BY <2>1 DEF Busy
    <3>2. calls' = [calls EXCEPT ![p] = s]
      BY <1>t, <2>4
    <3> QED BY <1>b, <2>1, <2>2, <3>1, <3>2, TextsSame DEF Known, Stored
  <2> QED BY <1>7, <2>3, <2>4 DEF RaiseItem
<1>8. ASSUME NEW p \in Requests, FindAssignment(p) PROVE TextInv'
  <2>1. calls[p] \in Busy /\ calls[p].pc = "findAssignment" /\ texts' = texts
          /\ assigned' = assigned /\ excused' = excused
    BY <1>8, FitHere DEF FindAssignment, rows
  <2>2. PICK pc \in {"store", "assign"} :
          Goto(p, pc) /\ (pc = "store" => calls[p].deal \in assigned)
    BY <1>8 DEF FindAssignment
  <2> DEFINE s == [calls[p] EXCEPT !.pc = pc]
  <2>3. s \in Busy /\ s.msg = calls[p].msg /\ s.pc = pc /\ s.deal = calls[p].deal
    BY <2>1, PcType DEF TextSteps, Alike
  <2>4. calls' = [calls EXCEPT ![p] = s]
    BY <1>t, <2>2 DEF Goto
  <2>5. s.pc = "store" => s.deal \in assigned'
    BY <2>1, <2>2, <2>3
  <2>6. s.pc \notin Stored
    BY <2>3 DEF Stored
  <2>7. assigned \subseteq assigned' /\ calls[p].pc # "idle"
    BY <2>1
  <2> HIDE DEF s
  <2> QED BY <1>q, <2>1, <2>3, <2>4, <2>5, <2>6, <2>7
<1>9. ASSUME NEW p \in Requests, Assign(p) PROVE TextInv'
  <2>1. calls[p] \in Busy /\ calls[p].pc = "assign" /\ texts' = texts
    BY <1>9, FitHere DEF Assign
  <2>2. CASE Throw(p) /\ UNCHANGED assigned
    BY <1>x, <2>1, <2>2
  <2>3. CASE assigned' = assigned \cup {calls[p].deal} /\ Goto(p, "store")
               /\ UNCHANGED excused
    <3> DEFINE s == [calls[p] EXCEPT !.pc = "store"]
    <3>1. s \in Busy /\ s.msg = calls[p].msg /\ s.pc = "store" /\ s.deal = calls[p].deal
      BY <2>1, PcType DEF TextSteps, Alike
    <3>2. calls' = [calls EXCEPT ![p] = s]
      BY <1>t, <2>3 DEF Goto
    <3>3. s.deal \in assigned' /\ assigned \subseteq assigned' /\ excused' = excused
      BY <2>3, <3>1
    <3>4. s.pc \notin Stored /\ calls[p].pc # "idle"
      BY <2>1, <3>1 DEF Stored
    <3> HIDE DEF s
    <3> QED BY <1>q, <2>1, <3>1, <3>2, <3>3, <3>4
  <2> QED BY <1>9, <2>2, <2>3 DEF Assign
<1>10. ASSUME NEW p \in Requests, NEW brokerage \in BOOLEAN, Store(p, brokerage)
       PROVE  TextInv'
  <2> DEFINE r == calls[p]
             row == [at |-> r.deal, mode |-> r.mode, asked |-> NoOne, reply |-> NoOne,
                     voice |-> "none", home |-> IF r.kind = "text" THEN r.deal ELSE NoOne]
  <2>1. r \in Busy /\ Fits(r) /\ r.pc = "store" /\ r.pc \in TextSteps /\ r.pc # "idle"
    BY <1>10, FitHere DEF Store, TextSteps
  <2>2. r.msg \in Messages /\ r.deal \in DealIds
    BY <2>1 DEF Fits
  <2>3. row \in TextRows
    BY <2>1, <2>2 DEF TextRows, DealRefs, Busy
  <2>4. PICK s \in Busy : /\ calls' = [calls EXCEPT ![p] = s] /\ Alike(r, s)
                          /\ s.pc \in {"reply", "parse", "gate"}
    BY <1>10, <2>1, TextMoves DEF Store, Become
  <2>5. row.home # NoOne => row.home \in assigned
    BY <2>1 DEF TextInv, AssignedFirst
  <2>6. Known([texts EXCEPT ![r.msg] = row], s)
    <3>1. [texts EXCEPT ![r.msg] = row][s.msg] = row
      BY <1>t, <2>2, <2>4 DEF Alike
    <3>2. row # Unsent
      BY <2>2, NoOneIsNobody DEF Unsent
    <3> QED BY <2>4, <3>1, <3>2 DEF Known, Alike
  <2>7. texts' = [texts EXCEPT ![r.msg] = row] /\ assigned' = assigned /\ excused' = excused
    BY <1>10 DEF Store
  <2>8. s \in Calls /\ s.pc # "store" /\ s.msg = r.msg /\ s.pc # "idle"
    BY <1>b, <2>4 DEF Alike
  <2>9. /\ row.reply = NoOne /\ row.asked = NoOne /\ row.voice # "fake"
    OBVIOUS
  <2> HIDE DEF r, row
  <2>10. calls[p].pc # "idle" /\ calls[p].msg = r.msg
    BY <2>1 DEF r
  <2> QED BY <2>2, <2>3, <2>4, <2>5, <2>6, <2>7, <2>8, <2>9, <2>10, TextWritten
<1>11. ASSUME NEW p \in Requests, Gate(p) PROVE TextInv'
  <2>1. /\ calls[p] \in Busy /\ calls[p].pc = "gate" /\ calls[p].pc \in TextSteps
        /\ texts' = texts /\ assigned' = assigned /\ excused' = excused
    BY <1>11, FitHere DEF Gate, TextSteps, rows
  <2>2. PICK s \in Busy : /\ calls' = [calls EXCEPT ![p] = s] /\ Alike(calls[p], s)
                          /\ s.pc \in {"reply", "parse"}
    <3> DEFINE u == [calls[p] EXCEPT !.pc = "parse"]
               v == [calls[p] EXCEPT !.pc = "reply", !.voice = "warning"]
    <3>1. u \in Busy /\ Alike(calls[p], u) /\ u.pc = "parse"
      BY <2>1, PcType DEF TextSteps
    <3>2. v \in Busy /\ Alike(calls[p], v) /\ v.pc = "reply"
      BY <2>1, TextMoves
    <3>3. calls' = [calls EXCEPT ![p] = u] \/ calls' = [calls EXCEPT ![p] = v]
      BY <1>11, <1>t DEF Gate, Goto, Become
    <3> QED BY <3>1, <3>2, <3>3
  <2> QED BY <1>g, <2>1, <2>2 DEF Stored
<1>12. ASSUME NEW p \in Requests, Parse(p) PROVE TextInv'
  <2>1. /\ calls[p].pc = "parse" /\ texts' = texts /\ assigned' = assigned
        /\ excused' = excused
    BY <1>12 DEF Parse, rows
  <2>2. PICK s : ParsedTo(calls[p], s) /\ calls' = [calls EXCEPT ![p] = s]
    BY <1>12, ParseMoves
  <2> QED BY <1>g, <2>1, <2>2 DEF ParsedTo, Stored
<1>13. ASSUME NEW p \in Requests, Move(p) PROVE TextInv'
  <2> DEFINE r == calls[p]
             s == AfterMove([r EXCEPT !.deal = r.ref, !.ref = NoOne])
             row == [texts[r.msg] EXCEPT !.at = r.ref]
  <2>1. r.pc = "move" /\ r.pc \in Stored /\ r.pc # "idle"
    BY <1>13 DEF Move, Stored
  <2>2. /\ r.ref \in DealIds /\ r.msg \in Messages
        /\ s \in Busy /\ s.deal = r.ref /\ s.mode = r.mode /\ s.msg = r.msg
        /\ s.pc \in {"upsert", "ask", "complete", "reply"}
    BY <2>1, MoveMoves
  <2>3. row \in TextRows /\ texts[r.msg] \in TextRows
    BY <2>1, <2>2, TextRowType DEF TextInv
  <2>4. /\ row.at = r.ref /\ row.mode = r.mode /\ row.asked = NoOne
        /\ row.reply = NoOne /\ row.voice = "none" /\ row.home = texts[r.msg].home
    BY <1>k, <2>1, <2>3 DEF Known, TextRows
  <2>5. row.home # NoOne => row.home \in assigned
    BY <2>2, <2>3, <2>4, NoOneIsNobody DEF TextInv, ThreadAssigned, TextRows, Unsent
  <2>6. Known([texts EXCEPT ![r.msg] = row], s)
    <3>1. [texts EXCEPT ![r.msg] = row][s.msg] = row
      BY <1>t, <2>2
    <3>2. row # Unsent
      BY <2>2, <2>4, NoOneIsNobody DEF Unsent
    <3> HIDE DEF row, s
    <3> QED BY <2>2, <2>4, <3>1, <3>2 DEF Known
  <2>7. texts' = [texts EXCEPT ![r.msg] = row] /\ assigned' = assigned /\ excused' = excused
          /\ calls' = [calls EXCEPT ![p] = s]
    BY <1>13, <1>t DEF Move, Become
  <2>8. s \in Calls /\ s.pc # "store" /\ s.pc # "idle"
    BY <1>b, <2>2
  <2>9. row.voice # "fake"
    BY <2>4
  <2> HIDE DEF s, row
  <2> QED BY <2>1, <2>2, <2>3, <2>4, <2>5, <2>6, <2>7, <2>8, <2>9, TextWritten
<1>14. ASSUME NEW p \in Requests, UpsertField(p) PROVE TextInv'
  <2>1. /\ calls[p].pc = "upsert" /\ calls[p].pc \in TextSteps /\ texts' = texts
        /\ assigned' = assigned /\ excused' = excused
    BY <1>14 DEF UpsertField, TextSteps
  <2>2. PICK s \in Busy : /\ calls' = [calls EXCEPT ![p] = s] /\ Alike(calls[p], s)
                          /\ s.pc \in {"upsert", "settle"}
    BY <1>14, <2>1, TextMoves DEF UpsertField, Become
  <2> QED BY <1>g, <2>1, <2>2 DEF Stored
<1>15. ASSUME NEW p \in Requests, Settle(p) PROVE TextInv'
  <2>1. /\ calls[p].pc = "settle" /\ texts' = texts /\ assigned' = assigned
        /\ excused' = excused
    BY <1>15 DEF Settle
  <2>2. PICK s \in Busy : /\ calls' = [calls EXCEPT ![p] = s] /\ Alike(calls[p], s)
                          /\ s.pc \in {"ask", "complete", "reply"}
    BY <1>15, <2>1, FieldsMoves DEF Settle, Become
  <2> QED BY <1>g, <2>1, <2>2 DEF Stored
<1>16. ASSUME NEW p \in Requests, AskQuestion(p) PROVE TextInv'
  <2> DEFINE r == calls[p]
             s == AfterAsk(r)
             row == [texts[r.msg] EXCEPT !.asked = r.deal]
  <2>1. r.pc = "ask" /\ r.pc \in Stored /\ r.pc # "idle"
    BY <1>16 DEF AskQuestion, Stored
  <2>2. /\ r.msg \in Messages /\ s \in Busy /\ Alike(r, s)
        /\ s.pc \in {"complete", "reply"}
    BY <2>1, FieldsMoves
  <2>3. r.deal \in DealIds
    BY <2>1, FitHere DEF Fits
  <2>4. row \in TextRows /\ texts[r.msg] \in TextRows
    BY <2>1, <2>2, <2>3, TextRowType DEF TextInv
  <2>5. /\ row.at = r.deal /\ row.mode = r.mode /\ row.asked = r.deal
        /\ row.reply = NoOne /\ row.voice = "none" /\ row.home = texts[r.msg].home
    BY <1>k, <2>1, <2>4 DEF Known, TextRows
  <2>6. row.home # NoOne => row.home \in assigned
    BY <2>2, <2>4, <2>5, NoOneIsNobody DEF TextInv, ThreadAssigned, TextRows, Unsent
  <2>7. Known([texts EXCEPT ![r.msg] = row], s)
    <3>1. [texts EXCEPT ![r.msg] = row][s.msg] = row
      BY <1>t, <2>2 DEF Alike
    <3>2. row # Unsent
      BY <2>3, <2>5, NoOneIsNobody DEF Unsent
    <3> HIDE DEF row, s
    <3> QED BY <2>2, <2>5, <3>1, <3>2 DEF Known, Alike
  <2>8. texts' = [texts EXCEPT ![r.msg] = row] /\ assigned' = assigned /\ excused' = excused
          /\ calls' = [calls EXCEPT ![p] = s]
    BY <1>16, <1>t DEF AskQuestion, Become
  <2>9. s \in Calls /\ s.pc # "store" /\ s.pc # "idle" /\ s.msg = r.msg
    BY <1>b, <2>2 DEF Alike
  <2>10. row.voice # "fake"
    BY <2>5
  <2> HIDE DEF s, row
  <2> QED BY <2>1, <2>2, <2>4, <2>5, <2>6, <2>7, <2>8, <2>9, <2>10, TextWritten
<1>17. ASSUME NEW p \in Requests, Complete(p) PROVE TextInv'
  <2>1. /\ calls[p] \in Busy /\ calls[p].pc = "complete" /\ calls[p].pc \in TextSteps
        /\ texts' = texts /\ assigned' = assigned /\ excused' = excused
    BY <1>17, FitHere DEF Complete, TextSteps, rows
  <2>2. PICK v \in {Unkeyed(calls[p].mode), "stock", "openai"} :
          Become(p, [calls[p] EXCEPT !.pc = "reply", !.voice = v])
    BY <1>17 DEF Complete
  <2>3. v \in Voices /\ (calls[p].mode = "real" => v # "fake")
    BY <2>1, UnkeyedIs DEF Voices, Busy
  <2> DEFINE s == [calls[p] EXCEPT !.pc = "reply", !.voice = v]
  <2>4. s \in Busy /\ Alike(calls[p], s) /\ s.pc = "reply"
    BY <2>1, <2>3, TextMoves
  <2>5. calls' = [calls EXCEPT ![p] = s]
    BY <2>2 DEF Become
  <2> HIDE DEF s
  <2> QED BY <1>g, <2>1, <2>4, <2>5 DEF Stored
<1>18. ASSUME NEW p \in Requests, Reply(p) PROVE TextInv'
  <2> DEFINE r == calls[p]
             row == [texts[r.msg] EXCEPT !.reply = r.deal, !.voice = r.voice]
  <2>1. r.pc = "reply" /\ r.pc \in Stored /\ r.pc # "idle" /\ r.pc \in TextSteps
    BY <1>18 DEF Reply, Stored, TextSteps
  <2>2. /\ r.msg \in Messages /\ r.deal \in DealIds /\ r.voice \in Voices \cup {"none"}
        /\ r.mode = "real" => r.voice # "fake"
    BY <2>1, FitHere DEF Fits, Busy
  <2>3. row \in TextRows /\ texts[r.msg] \in TextRows
    BY <2>1, <2>2, TextRowType DEF TextInv
  <2>4. /\ row.at = r.deal /\ row.mode = r.mode /\ row.reply = r.deal
        /\ row.voice = r.voice /\ row.home = texts[r.msg].home
        /\ row.asked = texts[r.msg].asked /\ row.at = texts[r.msg].at
    BY <1>k, <2>1, <2>3 DEF Known, TextRows
  <2>5. texts[r.msg] # Unsent
    BY <1>k, <2>1 DEF Known
  <2>6. row.home # NoOne => row.home \in assigned
    BY <2>2, <2>4, <2>5 DEF TextInv, ThreadAssigned
  <2>7. row.asked \in {NoOne, row.at}
    BY <2>2, <2>4, <2>5 DEF TextInv, RepliesFollow
  <2>8. Known([texts EXCEPT ![r.msg] = row], Idle)
    BY <1>b DEF Known, Stored
  <2>9. texts' = [texts EXCEPT ![r.msg] = row] /\ assigned' = assigned /\ excused' = excused
          /\ calls' = [calls EXCEPT ![p] = Idle]
    BY <1>18, <1>t DEF Reply, Done
  <2> HIDE DEF row
  <2> QED BY <1>b, <2>1, <2>2, <2>3, <2>4, <2>6, <2>7, <2>8, <2>9, TextWritten
<1>19. ASSUME NEW p \in Requests, Fail(p) PROVE TextInv'
  BY <1>19, <1>x, Working DEF Fail, rows
<1>20. ASSUME NEW i \in DealIds \X Fields, NEW s \in ItemStates \ {"none"}, PatchItem(i, s)
       PROVE  TextInv'
  BY <1>20, <1>s DEF PatchItem
<1>21. ASSUME NEW d \in DealIds, Retitle(d) PROVE TextInv'
  BY <1>21, <1>s DEF Retitle
<1>22. ASSUME NEW key \in BOOLEAN, SetKey(key) PROVE TextInv'
  BY <1>22, <1>s DEF SetKey, rows
<1>23. CASE UNCHANGED inboundVars
  BY <1>23, <1>s DEF inboundVars
<1> QED
  BY <1>1, <1>2, <1>3, <1>4, <1>5, <1>6, <1>7, <1>8, <1>9, <1>10, <1>11, <1>12,
     <1>13, <1>14, <1>15, <1>16, <1>17, <1>18, <1>19, <1>20, <1>21, <1>22, <1>23
  DEF Next

LEMMA InitInv == Init => TypeOK /\ AllFit /\ TextInv
BY Init0, TextInit

LEMMA InvStep ==
  TypeOK /\ AllFit /\ TextInv /\ [Next]_inboundVars => TypeOK' /\ AllFit' /\ TextInv'
<1> SUFFICES ASSUME TypeOK, AllFit, TextInv, [Next]_inboundVars
             PROVE  TypeOK' /\ AllFit' /\ TextInv'
  OBVIOUS
<1>1. TypeOK' /\ AllFit'
  BY TypeStep DEF TextInv
<1>2. TextInv'
  BY <1>1, TextStep
<1> QED BY <1>1, <1>2

\* The variables of Inbound keep their types.
THEOREM TypeCorrect == Spec => []TypeOK
BY InitInv, InvStep, PTL DEF Spec

\* Every text of the sandbox is for a deal its user is assigned to, whatever
\* request died before it got that far.
THEOREM ThreadsAssigned == Spec => []ThreadAssigned
<1>1. TextInv => ThreadAssigned
  BY DEF TextInv
<1> QED BY <1>1, InitInv, InvStep, PTL DEF Spec

\* Reply and question are in the deal the text is in by now, and no text that is
\* stored is forgotten while its request lives.
THEOREM RepliesStayWithText == Spec => []RepliesFollow
<1>1. TextInv => RepliesFollow
  BY DEF TextInv
<1> QED BY <1>1, InitInv, InvStep, PTL DEF Spec

\* Nobody who asked for the LLM gets the fake provider's words, whenever the key
\* comes and goes.
THEOREM FakesOwnUp == Spec => []NeverSilentlyFake
<1>1. TextInv => NeverSilentlyFake
  BY DEF TextInv
<1> QED BY <1>1, InitInv, InvStep, PTL DEF Spec

(***************************************************************************)
(* The fields texts supply.                                                *)
(***************************************************************************)

\* A step of a request that writes no field leaves the others at work.
LEMMA FieldsSame ==
  ASSUME TypeOK, FieldsSettle, NEW p \in Requests,
         \A q \in Requests \ {p} : calls'[q] = calls[q],
         calls[p].pc \notin {"upsert", "settle"},
         told' = told, items' = items, excused \subseteq excused'
  PROVE  FieldsSettle'
<1> SUFFICES ASSUME NEW i \in told \ excused, items[i] = "open"
             PROVE  \E q \in Requests :
                      /\ calls'[q] # Idle /\ calls'[q].pc \in {"upsert", "settle"}
                      /\ calls'[q].deal = i[1] /\ i[2] \in calls'[q].supplied
  BY DEF FieldsSettle
<1>1. PICK q \in Requests :
        /\ calls[q] # Idle /\ calls[q].pc \in {"upsert", "settle"}
        /\ calls[q].deal = i[1] /\ i[2] \in calls[q].supplied
  BY DEF FieldsSettle
<1>2. calls'[q] = calls[q]
  BY <1>1
<1> QED BY <1>1, <1>2

LEMMA FieldsStep ==
  TypeOK /\ TypeOK' /\ AllFit /\ FieldsSettle /\ [Next]_inboundVars => FieldsSettle'
<1> SUFFICES ASSUME TypeOK, TypeOK', AllFit, FieldsSettle, [Next]_inboundVars
             PROVE  FieldsSettle'
  OBVIOUS
<1>t. /\ calls \in [Requests -> Calls] /\ told \subseteq DealIds \X Fields
      /\ items \in [DealIds \X Fields -> ItemStates]
  BY TypeParts
<1>b. /\ \A r \in Busy : r # Idle
      /\ Idle.pc = "idle"
  BY Steps
<1>g. \A p \in Requests : \A pc : Goto(p, pc) => \A q \in Requests \ {p} : calls'[q] = calls[q]
  BY <1>t DEF Goto
<1>c. \A p \in Requests : \A r : Become(p, r) => \A q \in Requests \ {p} : calls'[q] = calls[q]
  BY <1>t DEF Become
<1>d. \A p \in Requests : Done(p) => \A q \in Requests \ {p} : calls'[q] = calls[q]
  BY <1>t DEF Done
<1>x. ASSUME NEW p \in Requests, Throw(p), told' = told, items' = items
      PROVE  FieldsSettle'
  <2>1. CASE calls[p].pc \notin {"upsert", "settle"}
    BY <1>d, <1>x, <2>1, FieldsSame DEF Throw
  <2>2. CASE calls[p].pc \in {"upsert", "settle"}
    <3>1. excused' = excused \cup (Messages \cap {calls[p].msg})
            \cup { i \in DealIds \X Fields : i[1] = calls[p].deal /\ i[2] \in calls[p].supplied }
      BY <1>x, <2>2 DEF Throw
    <3> SUFFICES ASSUME NEW i \in told \ excused', items[i] = "open"
                 PROVE  \E q \in Requests :
                          /\ calls'[q] # Idle /\ calls'[q].pc \in {"upsert", "settle"}
                          /\ calls'[q].deal = i[1] /\ i[2] \in calls'[q].supplied
      BY <1>x DEF FieldsSettle
    <3>2. PICK q \in Requests :
            /\ calls[q] # Idle /\ calls[q].pc \in {"upsert", "settle"}
            /\ calls[q].deal = i[1] /\ i[2] \in calls[q].supplied
      BY <3>1 DEF FieldsSettle
    <3>3. i \in DealIds \X Fields
      BY <1>t
    <3>4. q # p
      BY <3>1, <3>2, <3>3
    <3>5. calls'[q] = calls[q]
      BY <1>d, <1>x, <3>4 DEF Throw
    <3> QED BY <3>2, <3>5
  <2> QED BY <2>1, <2>2
<1>1. ASSUME NEW p \in Requests, NEW kind \in {"chat", "post"},
             NEW base \in Bases, Ask(p, kind, base)
      PROVE  FieldsSettle'
  BY <1>1, <1>b, <1>c, FieldsSame DEF Ask, rows
<1>2. ASSUME NEW p \in Requests, NEW m \in Messages, NEW mode \in {"mock", "real"},
             NEW d \in DealRefs, Text(p, m, mode, d)
      PROVE  FieldsSettle'
  <2>1. \A q \in Requests \ {p} : calls'[q] = calls[q]
    BY <1>2, <1>t DEF Text, Become
  <2>2. calls[p].pc = "idle" /\ UNCHANGED <<told, items, excused>>
    BY <1>2, <1>b DEF Text, rows
  <2> QED BY <2>1, <2>2, FieldsSame
<1>3. ASSUME NEW p \in Requests, FindSandbox(p) PROVE FieldsSettle'
  <2>1. \A q \in Requests \ {p} : calls'[q] = calls[q]
    BY <1>3, <1>c, <1>g DEF FindSandbox
  <2> QED BY <1>3, <2>1, FieldsSame DEF FindSandbox, rows
<1>4. ASSUME NEW p \in Requests, TrySlug(p) PROVE FieldsSettle'
  <2>1. \A q \in Requests \ {p} : calls'[q] = calls[q]
    BY <1>4, <1>t, <1>g DEF TrySlug
  <2> QED BY <1>4, <2>1, FieldsSame DEF TrySlug, rows
<1>5. ASSUME NEW p \in Requests, CreateDeal(p) PROVE FieldsSettle'
  <2>1. CASE Throw(p)
    BY <1>5, <1>x, <2>1 DEF CreateDeal
  <2>2. CASE UNCHANGED excused /\ \A q \in Requests \ {p} : calls'[q] = calls[q]
    BY <1>5, <2>2, FieldsSame DEF CreateDeal
  <2> QED BY <1>5, <1>c, <2>1, <2>2 DEF CreateDeal
<1>6. ASSUME NEW p \in Requests, MakeFolders(p) PROVE FieldsSettle'
  <2>1. \A q \in Requests \ {p} : calls'[q] = calls[q]
    BY <1>6, <1>c, <1>d, <1>g DEF MakeFolders
  <2> QED BY <1>6, <2>1, FieldsSame DEF MakeFolders, rows
<1>7. ASSUME NEW p \in Requests, RaiseItem(p) PROVE FieldsSettle'
  <2>1. calls[p].pc = "raise" /\ told' = told
    BY <1>7 DEF RaiseItem
  <2>2. PICK f \in calls[p].left :
          /\ items' = [items EXCEPT ![<<calls[p].deal, f>>] = "open"]
          /\ excused' = excused \cup ({<<calls[p].deal, f>>} \cap told)
    BY <1>7 DEF RaiseItem
  <2>3. \A q \in Requests \ {p} : calls'[q] = calls[q]
    BY <1>7, <1>d, <1>t DEF RaiseItem
  <2> SUFFICES ASSUME NEW i \in told \ excused', items'[i] = "open"
               PROVE  \E q \in Requests :
                        /\ calls'[q] # Idle /\ calls'[q].pc \in {"upsert", "settle"}
                        /\ calls'[q].deal = i[1] /\ i[2] \in calls'[q].supplied
    BY <2>1 DEF FieldsSettle
  <2>4. i # <<calls[p].deal, f>> /\ i \notin excused
    BY <2>2
  <2>5. items[i] = "open"
    BY <1>t, <2>2, <2>4
  <2>6. PICK q \in Requests :
          /\ calls[q] # Idle /\ calls[q].pc \in {"upsert", "settle"}
          /\ calls[q].deal = i[1] /\ i[2] \in calls[q].supplied
    BY <2>4, <2>5 DEF FieldsSettle
  <2>7. calls'[q] = calls[q]
    BY <2>1, <2>3, <2>6
  <2> QED BY <2>6, <2>7
<1>8. ASSUME NEW p \in Requests, FindAssignment(p) PROVE FieldsSettle'
  BY <1>8, <1>g, FieldsSame DEF FindAssignment, rows
<1>9. ASSUME NEW p \in Requests, Assign(p) PROVE FieldsSettle'
  <2>1. CASE Throw(p)
    BY <1>9, <1>x, <2>1 DEF Assign
  <2>2. CASE UNCHANGED excused /\ \A q \in Requests \ {p} : calls'[q] = calls[q]
    BY <1>9, <2>2, FieldsSame DEF Assign
  <2> QED BY <1>9, <1>g, <2>1, <2>2 DEF Assign
<1>10. ASSUME NEW p \in Requests, NEW brokerage \in BOOLEAN, Store(p, brokerage)
       PROVE  FieldsSettle'
  BY <1>10, <1>c, FieldsSame DEF Store
<1>11. ASSUME NEW p \in Requests, Gate(p) PROVE FieldsSettle'
  <2>1. \A q \in Requests \ {p} : calls'[q] = calls[q]
    BY <1>11, <1>c, <1>g DEF Gate
  <2> QED BY <1>11, <2>1, FieldsSame DEF Gate, rows
<1>12. ASSUME NEW p \in Requests, Parse(p) PROVE FieldsSettle'
  <2>1. \A q \in Requests \ {p} : calls'[q] = calls[q]
    BY <1>12, <1>t, ParseMoves
  <2> QED BY <1>12, <2>1, FieldsSame DEF Parse, rows
<1>13. ASSUME NEW p \in Requests, Move(p) PROVE FieldsSettle'
  BY <1>13, <1>c, FieldsSame DEF Move
<1>14. ASSUME NEW p \in Requests, UpsertField(p) PROVE FieldsSettle'
  <2>1. calls[p].pc = "upsert" /\ calls[p].pc \in TextSteps /\ items' = items
          /\ excused' = excused
    BY <1>14 DEF UpsertField, TextSteps
  <2>2. calls[p].left \subseteq calls[p].supplied
    BY <2>1, FitHere DEF Fits
  <2>3. PICK f \in calls[p].left :
          /\ told' = told \cup {<<calls[p].deal, f>>}
          /\ Become(p, [calls[p] EXCEPT !.left = @ \ {f},
                                       !.pc = IF calls[p].left = {f} THEN "settle" ELSE "upsert"])
    BY <1>14 DEF UpsertField
  <2> DEFINE s == [calls[p] EXCEPT !.left = @ \ {f},
                                   !.pc = IF calls[p].left = {f} THEN "settle" ELSE "upsert"]
  <2>4. /\ s \in Busy /\ s.deal = calls[p].deal /\ s.supplied = calls[p].supplied
        /\ s.pc \in {"upsert", "settle"}
    BY <2>1, TextMoves DEF Alike
  <2>5. calls'[p] = s /\ \A q \in Requests \ {p} : calls'[q] = calls[q]
    BY <1>t, <2>3 DEF Become
  <2> HIDE DEF s
  <2> SUFFICES ASSUME NEW i \in told' \ excused, items[i] = "open"
               PROVE  \E q \in Requests :
                        /\ calls'[q] # Idle /\ calls'[q].pc \in {"upsert", "settle"}
                        /\ calls'[q].deal = i[1] /\ i[2] \in calls'[q].supplied
    BY <2>1 DEF FieldsSettle
  <2>6. CASE i = <<calls[p].deal, f>>
    BY <1>b, <2>2, <2>4, <2>5, <2>6
  <2>7. CASE i \in told
    <3>1. PICK q \in Requests :
            /\ calls[q] # Idle /\ calls[q].pc \in {"upsert", "settle"}
            /\ calls[q].deal = i[1] /\ i[2] \in calls[q].supplied
      BY <2>7 DEF FieldsSettle
    <3>2. CASE q = p
      BY <1>b, <2>4, <2>5, <3>1, <3>2
    <3>3. CASE q # p
      BY <2>5, <3>1, <3>3
    <3> QED BY <3>2, <3>3
  <2> QED BY <2>3, <2>6, <2>7
<1>15. ASSUME NEW p \in Requests, Settle(p) PROVE FieldsSettle'
  <2>1. told' = told /\ excused' = excused /\ items' = Settled(calls[p])
          /\ \A q \in Requests \ {p} : calls'[q] = calls[q]
    BY <1>15, <1>c DEF Settle
  <2> SUFFICES ASSUME NEW i \in told \ excused, items'[i] = "open"
               PROVE  \E q \in Requests :
                        /\ calls'[q] # Idle /\ calls'[q].pc \in {"upsert", "settle"}
                        /\ calls'[q].deal = i[1] /\ i[2] \in calls'[q].supplied
    BY <2>1 DEF FieldsSettle
  <2>2. items[i] = "open" /\ ~ (i[1] = calls[p].deal /\ i[2] \in calls[p].supplied)
    BY <1>t, <2>1 DEF Settled
  <2>3. PICK q \in Requests :
          /\ calls[q] # Idle /\ calls[q].pc \in {"upsert", "settle"}
          /\ calls[q].deal = i[1] /\ i[2] \in calls[q].supplied
    BY <2>2 DEF FieldsSettle
  <2>4. calls'[q] = calls[q]
    BY <2>1, <2>2, <2>3
  <2> QED BY <2>3, <2>4
<1>16. ASSUME NEW p \in Requests, AskQuestion(p) PROVE FieldsSettle'
  BY <1>16, <1>c, FieldsSame DEF AskQuestion
<1>17. ASSUME NEW p \in Requests, Complete(p) PROVE FieldsSettle'
  BY <1>17, <1>c, FieldsSame DEF Complete, rows
<1>18. ASSUME NEW p \in Requests, Reply(p) PROVE FieldsSettle'
  BY <1>18, <1>d, FieldsSame DEF Reply
<1>19. ASSUME NEW p \in Requests, Fail(p) PROVE FieldsSettle'
  BY <1>19, <1>x DEF Fail, rows
<1>20. ASSUME NEW i \in DealIds \X Fields, NEW s \in ItemStates \ {"none"}, PatchItem(i, s)
       PROVE  FieldsSettle'
  <2>1. \A x \in told \ excused' : items'[x] = "open" => x \notin excused /\ items[x] = "open"
    BY <1>20, <1>t DEF PatchItem
  <2> QED BY <1>20, <2>1 DEF PatchItem, FieldsSettle
<1>21. ASSUME NEW d \in DealIds, Retitle(d) PROVE FieldsSettle'
  BY <1>21 DEF Retitle, FieldsSettle
<1>22. ASSUME NEW key \in BOOLEAN, SetKey(key) PROVE FieldsSettle'
  BY <1>22 DEF SetKey, rows, FieldsSettle
<1>23. CASE UNCHANGED inboundVars
  BY <1>23 DEF inboundVars, FieldsSettle
<1> QED
  BY <1>1, <1>2, <1>3, <1>4, <1>5, <1>6, <1>7, <1>8, <1>9, <1>10, <1>11, <1>12,
     <1>13, <1>14, <1>15, <1>16, <1>17, <1>18, <1>19, <1>20, <1>21, <1>22, <1>23
  DEF Next

\* No item stays open about a field a text has supplied, but for the excuses.
THEOREM ItemsSettle == Spec => []FieldsSettle
<1>1. Init => FieldsSettle
  BY DEF Init, FieldsSettle
<1>2. TypeOK /\ AllFit /\ TextInv /\ FieldsSettle /\ [Next]_inboundVars => FieldsSettle'
  BY InvStep, FieldsStep
<1> QED BY <1>1, <1>2, InitInv, InvStep, PTL DEF Spec

(***************************************************************************)
(* The deals requests make.                                                *)
(***************************************************************************)

\* Some deal other than d has the slug.
HasSlug(ds, d, slug) ==
  \E x \in DealIds : x # d /\ ds[x] # Absent /\ ds[x].slug = slug

\* No slug is given twice, and all that come before a deal's own are others'.
SlugsFit(ds) == \A d \in DealIds : ds[d] # Absent =>
  /\ \A e \in DealIds : ds[e] # Absent /\ ds[d].slug = ds[e].slug => d = e
  /\ \A k \in 1 .. (ds[d].n - 1) : HasSlug(ds, d, Candidate(ds[d].base, k))

\* A request has seen all slugs before the one it tries taken, and they stay so.
Tried(ds, r) == r.pc \in {"slug", "createDeal"} =>
  \A k \in 1 .. (r.n - 1) : HasSlug(ds, NoOne, Candidate(r.base, k))

SlugInv == SlugsFit(deals) /\ \A p \in Requests : Tried(deals, calls[p])

\* A request that sets out to make the sandbox is the only one, and none is there.
Makes(r) == r.pc \in {"slug", "createDeal"} /\ r.kind = "text"

OneInv == ~ overlap =>
  /\ \A p, q \in Requests : Makes(calls[p]) /\ Makes(calls[q]) => p = q
  /\ \A p \in Requests : Makes(calls[p]) => Sandboxes = {}
  /\ \A d, e \in Sandboxes : d = e

LEMMA TakenIs == \A slug : Taken(slug) <=> HasSlug(deals, NoOne, slug)
BY NoOneIsNobody DEF Taken, HasSlug, Deals

\* A step that makes no deal and sends no request to make one.
LEMMA MakingSame ==
  ASSUME TypeOK, SlugInv, OneInv, NEW p \in Requests,
         \A q \in Requests \ {p} : calls'[q] = calls[q],
         calls'[p].pc \notin {"slug", "createDeal"},
         deals' = deals, overlap' = overlap
  PROVE  SlugInv' /\ OneInv'
<1>1. Sandboxes' = Sandboxes
  BY DEF Sandboxes, Deals
<1>2. \A q \in Requests : Makes(calls'[q]) => q # p /\ calls'[q] = calls[q]
  BY DEF Makes
<1>3. OneInv'
  BY <1>1, <1>2 DEF OneInv, Makes
<1>4. \A q \in Requests : Tried(deals, calls'[q])
  BY DEF SlugInv, Tried
<1>5. SlugInv'
  BY <1>4 DEF SlugInv, SlugsFit, HasSlug, Tried
<1> QED BY <1>3, <1>5

\* The step that makes one.
LEMMA MakingDeal ==
  ASSUME TypeOK, AllFit, SlugInv, OneInv, NEW p \in Requests, NEW d \in DealIds \ Deals,
         calls[p].pc = "createDeal", ~ Taken(Slug(calls[p])),
         deals' = [deals EXCEPT ![d] = NewDeal(calls[p])],
         \A q \in Requests \ {p} : calls'[q] = calls[q],
         calls'[p].pc \notin {"slug", "createDeal"}, overlap' = overlap
  PROVE  SlugInv' /\ OneInv'
<1> DEFINE r == calls[p]
<1>1. r \in Busy /\ r.n \in Nat \ {0}
  BY FitHere DEF Busy
<1>2. /\ NewDeal(r) # Absent /\ NewDeal(r).slug = Slug(r)
      /\ NewDeal(r).base = r.base /\ NewDeal(r).n = r.n
      /\ NewDeal(r).titled <=> r.kind = "text"
  BY <1>1 DEF NewDeal, Absent
<1>3. /\ deals'[d] = NewDeal(r) /\ deals[d] = Absent
      /\ \A e \in DealIds \ {d} : deals'[e] = deals[e]
  BY TypeParts DEF Deals
<1>4. \A e, slug : HasSlug(deals, e, slug) => HasSlug(deals', e, slug)
  BY <1>3 DEF HasSlug
<1>5. \A k \in 1 .. (r.n - 1) : HasSlug(deals', d, Candidate(r.base, k))
  <2> TAKE k \in 1 .. (r.n - 1)
  <2>1. HasSlug(deals, NoOne, Candidate(r.base, k))
    BY DEF SlugInv, Tried
  <2> HIDE DEF r
  <2> QED BY <1>3, <2>1 DEF HasSlug
<1>6. ~ HasSlug(deals, NoOne, Slug(r))
  BY TakenIs
<1> HIDE DEF r
<1>7. \A e \in DealIds \ {d} : deals[e] # Absent => deals[e].slug # Slug(r)
  BY <1>6, NoOneIsNobody DEF HasSlug
<1>8. SlugsFit(deals')
  <2> SUFFICES ASSUME NEW x \in DealIds, deals'[x] # Absent
               PROVE  /\ \A y \in DealIds : deals'[y] # Absent
                            /\ deals'[x].slug = deals'[y].slug => x = y
                      /\ \A k \in 1 .. (deals'[x].n - 1) :
                           HasSlug(deals', x, Candidate(deals'[x].base, k))
    BY DEF SlugsFit
  <2>1. CASE x = d
    <3>1. deals'[d].slug = Slug(r) /\ deals'[d].base = r.base /\ deals'[d].n = r.n
      BY <1>2, <1>3
    <3>2. \A y \in DealIds : deals'[y] # Absent /\ deals'[d].slug = deals'[y].slug => d = y
      BY <1>3, <1>7, <3>1
    <3>3. \A k \in 1 .. (deals'[d].n - 1) : HasSlug(deals', d, Candidate(deals'[d].base, k))
      BY <1>5, <3>1
    <3> QED BY <2>1, <3>2, <3>3
  <2>2. CASE x # d
    <3>1. deals'[x] = deals[x] /\ deals[x] # Absent
      BY <1>3, <2>2
    <3>2. \A y \in DealIds : deals'[y] # Absent /\ deals[x].slug = deals'[y].slug => x = y
      BY <1>2, <1>3, <1>7, <2>2, <3>1 DEF SlugInv, SlugsFit
    <3>3. \A k \in 1 .. (deals[x].n - 1) : HasSlug(deals', x, Candidate(deals[x].base, k))
      BY <1>4, <3>1 DEF SlugInv, SlugsFit
    <3> QED BY <3>1, <3>2, <3>3
  <2> QED BY <2>1, <2>2
<1>9. \A q \in Requests : Tried(deals', calls'[q])
  BY <1>4 DEF SlugInv, Tried
<1>10. SlugInv'
  BY <1>8, <1>9 DEF SlugInv, SlugsFit, HasSlug, Tried
<1>11. OneInv'
  <2> SUFFICES ASSUME ~ overlap
               PROVE  /\ \A q, s \in Requests : Makes(calls'[q]) /\ Makes(calls'[s]) => q = s
                      /\ \A q \in Requests : Makes(calls'[q]) => Sandboxes' = {}
                      /\ \A x, y \in Sandboxes' : x = y
    BY DEF OneInv, Makes
  <2>1. \A q \in Requests : Makes(calls'[q]) => q # p /\ calls'[q] = calls[q]
    BY DEF Makes
  <2>2. Sandboxes' = Sandboxes \cup (IF r.kind = "text" THEN {d} ELSE {})
    BY <1>2, <1>3 DEF Sandboxes, Deals
  <2>3. CASE r.kind = "text"
    <3>1. Makes(calls[p])
      BY <2>3 DEF Makes, r
    <3>2. Sandboxes = {} /\ \A q \in Requests : ~ Makes(calls'[q])
      BY <2>1, <3>1 DEF OneInv
    <3> QED BY <2>2, <2>3, <3>2
  <2>4. CASE r.kind # "text"
    BY <2>1, <2>2, <2>4 DEF OneInv
  <2> QED BY <2>3, <2>4
<1> QED BY <1>10, <1>11

LEMMA MakingStep ==
  TypeOK /\ TypeOK' /\ AllFit /\ SlugInv /\ OneInv /\ [Next]_inboundVars
    => SlugInv' /\ OneInv'
<1> SUFFICES ASSUME TypeOK, TypeOK', AllFit, SlugInv, OneInv, [Next]_inboundVars
             PROVE  SlugInv' /\ OneInv'
  OBVIOUS
<1>t. calls \in [Requests -> Calls] /\ deals \in [DealIds -> DealRows \cup {Absent}]
  BY TypeParts
<1>g. ASSUME NEW p \in Requests, NEW pc \in MakingSteps \cup TextSteps \cup ChatSteps,
             calls[p].pc # "idle", Goto(p, pc)
      PROVE  /\ calls'[p].pc = pc /\ calls'[p].n = calls[p].n
             /\ calls'[p].base = calls[p].base
             /\ calls'[p].kind = calls[p].kind
             /\ \A q \in Requests \ {p} : calls'[q] = calls[q]
  <2>1. calls[p] \in Busy
    BY <1>g, FitHere
  <2>2. calls'[p] = [calls[p] EXCEPT !.pc = pc]
    BY <1>g, <1>t DEF Goto
  <2>3. /\ calls'[p].pc = pc /\ calls'[p].n = calls[p].n
        /\ calls'[p].base = calls[p].base /\ calls'[p].kind = calls[p].kind
    BY <2>1, <2>2 DEF Busy
  <2> QED BY <1>g, <1>t, <2>3 DEF Goto
<1>c. \A p \in Requests : \A r : Become(p, r) =>
        calls'[p] = r /\ \A q \in Requests \ {p} : calls'[q] = calls[q]
  BY <1>t DEF Become
<1>d. \A p \in Requests : Done(p) =>
        calls'[p].pc = "idle" /\ \A q \in Requests \ {p} : calls'[q] = calls[q]
  BY <1>t, Steps DEF Done
<1>x. ASSUME NEW p \in Requests, Throw(p), deals' = deals, overlap' = overlap
      PROVE  SlugInv' /\ OneInv'
  BY <1>x, <1>d, MakingSame DEF Throw
<1>s. ASSUME UNCHANGED <<deals, calls, overlap>> PROVE SlugInv' /\ OneInv'
  BY <1>s DEF SlugInv, SlugsFit, HasSlug, Tried, OneInv, Makes, Sandboxes, Deals
<1>1. ASSUME NEW p \in Requests, NEW kind \in {"chat", "post"},
             NEW base \in Bases, Ask(p, kind, base)
      PROVE  SlugInv' /\ OneInv'
  <2>1. /\ calls'[p].n = 1 /\ calls'[p].kind = kind
        /\ \A q \in Requests \ {p} : calls'[q] = calls[q]
        /\ deals' = deals /\ overlap' = overlap
    BY <1>1, <1>c DEF Ask, Asked, rows
  <2>2. Tried(deals, calls'[p])
    BY <2>1 DEF Tried
  <2>3. SlugInv'
    BY <2>1, <2>2 DEF SlugInv, SlugsFit, HasSlug, Tried
  <2>4. \A q \in Requests : Makes(calls'[q]) => q # p /\ calls'[q] = calls[q]
    BY <2>1 DEF Makes
  <2>5. Sandboxes' = Sandboxes
    BY <2>1 DEF Sandboxes, Deals
  <2>6. OneInv'
    BY <2>1, <2>4, <2>5 DEF OneInv, Makes
  <2> QED BY <2>3, <2>6
<1>2. ASSUME NEW p \in Requests, NEW m \in Messages, NEW mode \in {"mock", "real"},
             NEW d \in DealRefs, Text(p, m, mode, d)
      PROVE  SlugInv' /\ OneInv'
  <2>1. \A q \in Requests \ {p} : calls'[q] = calls[q]
    BY <1>2, <1>t DEF Text, Become
  <2>2. calls'[p].pc \in {"findSandbox", "store"}
    <3> DEFINE s == [Asked("text", mode, m, SandboxBase) EXCEPT !.pc = "findSandbox"]
               u == [Asked("direct", mode, m, SandboxBase) EXCEPT !.pc = "store", !.deal = d]
    <3>1. s.pc = "findSandbox" /\ u.pc = "store"
      BY DEF Asked
    <3>2. Become(p, IF d = NoOne THEN s ELSE u)
      BY <1>2 DEF Text
    <3>3. calls'[p] = IF d = NoOne THEN s ELSE u
      BY <1>c, <3>2
    <3> HIDE DEF s, u
    <3> QED BY <3>1, <3>3
  <2>3. deals' = deals /\ overlap' = overlap
    BY <1>2 DEF Text, rows
  <2> QED BY <2>1, <2>2, <2>3, MakingSame
<1>3. ASSUME NEW p \in Requests, FindSandbox(p) PROVE SlugInv' /\ OneInv'
  <2>1. calls[p] \in Busy /\ calls[p].pc = "findSandbox" /\ deals' = deals
    BY <1>3, FitHere DEF FindSandbox, rows
  <2>2. ASSUME NEW d \in Sandboxes,
               Become(p, [calls[p] EXCEPT !.pc = "findAssignment", !.deal = d]),
               UNCHANGED overlap
        PROVE  SlugInv' /\ OneInv'
    <3>1. [calls[p] EXCEPT !.pc = "findAssignment", !.deal = d].pc = "findAssignment"
      BY <2>1 DEF Busy
    <3> QED BY <1>c, <2>1, <2>2, <3>1, MakingSame
  <2>3. ASSUME Sandboxes = {}, Goto(p, "slug"),
               overlap' = (overlap \/ \E q \in Requests :
                 calls[q].pc \in {"slug", "createDeal"} /\ calls[q].kind = "text")
        PROVE  SlugInv' /\ OneInv'
    <3>1. /\ calls'[p].pc = "slug" /\ calls'[p].n = calls[p].n
          /\ \A q \in Requests \ {p} : calls'[q] = calls[q]
      BY <1>g, <2>1, <2>3 DEF MakingSteps
    <3>2. calls[p].n = 1
      BY <2>1, FitHere DEF Fits
    <3>3. Tried(deals, calls'[p])
      BY <3>1, <3>2 DEF Tried
    <3>4. SlugInv'
      BY <2>1, <3>1, <3>3 DEF SlugInv, SlugsFit, HasSlug, Tried
    <3>5. Sandboxes' = {}
      BY <2>1, <2>3 DEF Sandboxes, Deals
    <3>6. ~ overlap' => ~ overlap /\ \A q \in Requests : ~ Makes(calls[q])
      BY <2>3 DEF Makes
    <3>7. OneInv'
      BY <3>1, <3>5, <3>6 DEF OneInv, Makes
    <3> QED BY <3>4, <3>7
  <2> QED BY <1>3, <2>2, <2>3 DEF FindSandbox
<1>4. ASSUME NEW p \in Requests, TrySlug(p) PROVE SlugInv' /\ OneInv'
  <2> DEFINE r == calls[p]
  <2>1. r \in Busy /\ r.pc = "slug" /\ r.n \in Nat
    BY <1>4, FitHere DEF TrySlug, Busy
  <2>2. deals' = deals /\ overlap' = overlap
    BY <1>4 DEF TrySlug, rows
  <2>3. /\ calls'[p].kind = r.kind /\ calls'[p].base = r.base
        /\ calls'[p].pc \in {"slug", "createDeal"}
        /\ \/ calls'[p].n = r.n
           \/ calls'[p].n = r.n + 1 /\ Taken(Slug(r))
        /\ \A q \in Requests \ {p} : calls'[q] = calls[q]
    <3>1. CASE Taken(Slug(r))
      <4>1. calls' = [calls EXCEPT ![p] = [r EXCEPT !.n = @ + 1]]
        BY <1>4, <1>t, <3>1 DEF TrySlug
      <4>2. calls'[p] = [r EXCEPT !.n = @ + 1]
        BY <1>t, <4>1
      <4>3. /\ calls'[p].kind = r.kind /\ calls'[p].base = r.base
            /\ calls'[p].pc = "slug" /\ calls'[p].n = r.n + 1
        BY <2>1, <4>2 DEF Busy
      <4> QED BY <1>t, <3>1, <4>1, <4>3
    <3>2. CASE ~ Taken(Slug(r))
      BY <1>4, <1>g, <3>2 DEF TrySlug, MakingSteps
    <3> QED BY <3>1, <3>2
  <2>4. Tried(deals, calls'[p])
    <3>1. \A k \in 1 .. (r.n - 1) : HasSlug(deals, NoOne, Candidate(r.base, k))
      BY <2>1 DEF SlugInv, Tried
    <3>2. CASE calls'[p].n = r.n
      BY <2>3, <3>1, <3>2 DEF Tried
    <3>3. CASE calls'[p].n = r.n + 1 /\ Taken(Slug(r))
      <4>1. HasSlug(deals, NoOne, Candidate(r.base, r.n))
        BY <3>3, TakenIs DEF Slug
      <4>2. \A k \in 1 .. (calls'[p].n - 1) : k = r.n \/ k \in 1 .. (r.n - 1)
        BY <2>1, <3>3
      <4>3. \A k \in 1 .. (calls'[p].n - 1) : HasSlug(deals, NoOne, Candidate(r.base, k))
        BY <3>1, <4>1, <4>2
      <4> QED BY <2>3, <4>3 DEF Tried
    <3> QED BY <2>3, <3>2, <3>3
  <2>5. \A q \in Requests : Makes(calls'[q]) <=> Makes(calls[q])
    BY <2>1, <2>3 DEF Makes
  <2> HIDE DEF r
  <2>6. SlugInv'
    BY <2>2, <2>3, <2>4 DEF SlugInv, SlugsFit, HasSlug, Tried
  <2>7. Sandboxes' = Sandboxes
    BY <2>2 DEF Sandboxes, Deals
  <2>8. OneInv'
    BY <2>2, <2>5, <2>7 DEF OneInv, Makes
  <2> QED BY <2>6, <2>8
<1>5. ASSUME NEW p \in Requests, CreateDeal(p) PROVE SlugInv' /\ OneInv'
  <2>1. calls[p] \in Busy /\ calls[p].pc = "createDeal" /\ overlap' = overlap
    BY <1>5, FitHere DEF CreateDeal
  <2>2. CASE Throw(p) /\ UNCHANGED deals
    BY <1>x, <2>1, <2>2
  <2>3. ASSUME NEW d \in DealIds \ Deals, ~ Taken(Slug(calls[p])),
               deals' = [deals EXCEPT ![d] = NewDeal(calls[p])],
               Become(p, [calls[p] EXCEPT !.pc = "folders", !.deal = d])
        PROVE  SlugInv' /\ OneInv'
    <3>1. [calls[p] EXCEPT !.pc = "folders", !.deal = d].pc = "folders"
      BY <2>1 DEF Busy
    <3> QED BY <1>c, <2>1, <2>3, <3>1, MakingDeal
  <2> QED BY <1>5, <2>2, <2>3 DEF CreateDeal
<1>6. ASSUME NEW p \in Requests, MakeFolders(p) PROVE SlugInv' /\ OneInv'
  <2>1. calls[p] \in Busy /\ calls[p].pc = "folders" /\ deals' = deals /\ overlap' = overlap
    BY <1>6, FitHere DEF MakeFolders, rows
  <2>2. CASE Goto(p, "findAssignment")
    BY <1>g, <2>1, <2>2, MakingSame DEF TextSteps
  <2>3. CASE Become(p, [calls[p] EXCEPT !.pc = "raise", !.left = Fields])
    <3>1. [calls[p] EXCEPT !.pc = "raise", !.left = Fields].pc = "raise"
      BY <2>1 DEF Busy
    <3> QED BY <1>c, <2>1, <2>3, <3>1, MakingSame
  <2>4. CASE Done(p)
    BY <1>d, <2>1, <2>4, MakingSame
  <2> QED BY <1>6, <2>2, <2>3, <2>4 DEF MakeFolders
<1>7. ASSUME NEW p \in Requests, RaiseItem(p) PROVE SlugInv' /\ OneInv'
  <2>1. calls[p] \in Busy /\ calls[p].pc = "raise" /\ deals' = deals /\ overlap' = overlap
    BY <1>7, FitHere DEF RaiseItem
  <2>2. CASE Done(p)
    BY <1>d, <2>1, <2>2, MakingSame
  <2>3. ASSUME NEW f, calls' = [calls EXCEPT ![p].left = @ \ {f}] PROVE SlugInv' /\ OneInv'
    <3>1. calls'[p] = [calls[p] EXCEPT !.left = @ \ {f}]
      BY <1>t, <2>3
    <3>2. calls'[p].pc = "raise"
      BY <2>1, <3>1 DEF Busy
    <3>3. \A q \in Requests \ {p} : calls'[q] = calls[q]
      BY <1>t, <2>3
    <3> QED BY <2>1, <3>2, <3>3, MakingSame
  <2> QED BY <1>7, <2>2, <2>3 DEF RaiseItem
<1>8. ASSUME NEW p \in Requests, FindAssignment(p) PROVE SlugInv' /\ OneInv'
  <2>1. calls[p].pc = "findAssignment" /\ deals' = deals /\ overlap' = overlap
    BY <1>8 DEF FindAssignment, rows
  <2>2. PICK pc \in {"store", "assign"} : Goto(p, pc)
    BY <1>8 DEF FindAssignment
  <2>3. pc \in TextSteps
    BY DEF TextSteps
  <2> QED BY <1>g, <2>1, <2>2, <2>3, MakingSame
<1>9. ASSUME NEW p \in Requests, Assign(p) PROVE SlugInv' /\ OneInv'
  <2>1. calls[p].pc = "assign" /\ deals' = deals /\ overlap' = overlap
    BY <1>9 DEF Assign
  <2>2. CASE Throw(p)
    BY <1>x, <2>1, <2>2
  <2>3. CASE Goto(p, "store")
    BY <1>g, <2>1, <2>3, MakingSame DEF TextSteps
  <2> QED BY <1>9, <2>2, <2>3 DEF Assign
<1>l. ASSUME NEW p \in Requests, NEW s, calls' = [calls EXCEPT ![p] = s],
             s.pc \in Stored, deals' = deals, overlap' = overlap
      PROVE  SlugInv' /\ OneInv'
  BY <1>l, <1>t, MakingSame DEF Stored
<1>10. ASSUME NEW p \in Requests, NEW brokerage \in BOOLEAN, Store(p, brokerage)
       PROVE  SlugInv' /\ OneInv'
  <2>1. calls[p].pc = "store" /\ calls[p].pc \in TextSteps
    BY <1>10 DEF Store, TextSteps
  <2>2. PICK s \in Busy : calls' = [calls EXCEPT ![p] = s] /\ s.pc \in Stored
    BY <1>10, <2>1, TextMoves DEF Store, Become, Stored
  <2> QED BY <1>10, <1>l, <2>2 DEF Store
<1>11. ASSUME NEW p \in Requests, Gate(p) PROVE SlugInv' /\ OneInv'
  <2>1. calls[p].pc = "gate" /\ calls[p].pc \in TextSteps /\ calls[p].pc # "idle"
          /\ deals' = deals /\ overlap' = overlap
    BY <1>11 DEF Gate, TextSteps, rows
  <2>2. CASE Goto(p, "parse")
    BY <1>g, <2>1, <2>2, MakingSame DEF TextSteps
  <2>3. CASE Become(p, [calls[p] EXCEPT !.pc = "reply", !.voice = "warning"])
    <3> DEFINE s == [calls[p] EXCEPT !.pc = "reply", !.voice = "warning"]
    <3>1. s.pc = "reply"
      BY <2>1, TextMoves
    <3> QED BY <1>l, <2>1, <2>3, <3>1 DEF Become, Stored
  <2> QED BY <1>11, <2>2, <2>3 DEF Gate
<1>12. ASSUME NEW p \in Requests, Parse(p) PROVE SlugInv' /\ OneInv'
  <2>1. PICK s : ParsedTo(calls[p], s) /\ calls' = [calls EXCEPT ![p] = s]
    BY <1>12, ParseMoves
  <2>2. s.pc \in Stored
    BY <2>1 DEF ParsedTo, Stored
  <2> QED BY <1>12, <1>l, <2>1, <2>2 DEF Parse, rows
<1>13. ASSUME NEW p \in Requests, Move(p) PROVE SlugInv' /\ OneInv'
  <2> DEFINE s == AfterMove([calls[p] EXCEPT !.deal = calls[p].ref, !.ref = NoOne])
  <2>1. s.pc \in Stored
    BY <1>13, MoveMoves DEF Move, Stored
  <2>2. calls' = [calls EXCEPT ![p] = s] /\ deals' = deals /\ overlap' = overlap
    BY <1>13 DEF Move, Become
  <2> HIDE DEF s
  <2> QED BY <1>l, <2>1, <2>2
<1>14. ASSUME NEW p \in Requests, UpsertField(p) PROVE SlugInv' /\ OneInv'
  <2>1. calls[p].pc = "upsert" /\ calls[p].pc \in TextSteps
    BY <1>14 DEF UpsertField, TextSteps
  <2>2. PICK s \in Busy : calls' = [calls EXCEPT ![p] = s] /\ s.pc \in {"upsert", "settle"}
    BY <1>14, <2>1, TextMoves DEF UpsertField, Become
  <2> QED BY <1>14, <1>l, <2>2 DEF UpsertField, Stored
<1>15. ASSUME NEW p \in Requests, Settle(p) PROVE SlugInv' /\ OneInv'
  <2>1. PICK s \in Busy : /\ calls' = [calls EXCEPT ![p] = s]
                          /\ s.pc \in {"ask", "complete", "reply"}
    BY <1>15, FieldsMoves DEF Settle, Become
  <2> QED BY <1>15, <1>l, <2>1 DEF Settle, Stored
<1>16. ASSUME NEW p \in Requests, AskQuestion(p) PROVE SlugInv' /\ OneInv'
  <2>1. PICK s \in Busy : /\ calls' = [calls EXCEPT ![p] = s]
                          /\ s.pc \in {"complete", "reply"}
    BY <1>16, FieldsMoves DEF AskQuestion, Become
  <2> QED BY <1>16, <1>l, <2>1 DEF AskQuestion, Stored
<1>17. ASSUME NEW p \in Requests, Complete(p) PROVE SlugInv' /\ OneInv'
  <2>1. calls[p] \in Busy /\ deals' = deals /\ overlap' = overlap
    BY <1>17, FitHere DEF Complete, rows
  <2>2. PICK v : Become(p, [calls[p] EXCEPT !.pc = "reply", !.voice = v])
    BY <1>17 DEF Complete
  <2> DEFINE s == [calls[p] EXCEPT !.pc = "reply", !.voice = v]
  <2>3. s.pc = "reply" /\ calls' = [calls EXCEPT ![p] = s]
    BY <2>1, <2>2 DEF Busy, Become
  <2> HIDE DEF s
  <2> QED BY <1>l, <2>1, <2>3 DEF Stored
<1>18. ASSUME NEW p \in Requests, Reply(p) PROVE SlugInv' /\ OneInv'
  BY <1>18, <1>d, MakingSame DEF Reply
<1>19. ASSUME NEW p \in Requests, Fail(p) PROVE SlugInv' /\ OneInv'
  BY <1>19, <1>x DEF Fail, rows
<1>20. ASSUME NEW i \in DealIds \X Fields, NEW s \in ItemStates \ {"none"}, PatchItem(i, s)
       PROVE  SlugInv' /\ OneInv'
  BY <1>20, <1>s DEF PatchItem
<1>21. ASSUME NEW d \in DealIds, Retitle(d) PROVE SlugInv' /\ OneInv'
  <2>1. /\ d \in Sandboxes /\ deals' = [deals EXCEPT ![d].titled = FALSE]
        /\ calls' = calls /\ overlap' = overlap
    BY <1>21 DEF Retitle
  <2>2. deals[d] \in DealRows
    BY <2>1, DealsAre
  <2>3. deals'[d] = [deals[d] EXCEPT !.titled = FALSE]
          /\ \A e \in DealIds \ {d} : deals'[e] = deals[e]
    BY <1>t, <2>1
  <2>4. /\ deals'[d].slug = deals[d].slug /\ deals'[d].base = deals[d].base
        /\ deals'[d].n = deals[d].n /\ deals'[d].n # 0
        /\ deals'[d].titled = FALSE /\ deals'[d] # Absent /\ deals[d] # Absent
    BY <2>2, <2>3 DEF DealRows, Absent
  <2>5. \A e \in DealIds :
          /\ deals'[e] # Absent <=> deals[e] # Absent
          /\ deals'[e].slug = deals[e].slug /\ deals'[e].base = deals[e].base
          /\ deals'[e].n = deals[e].n
    BY <2>3, <2>4
  <2>6. \A x, slug : HasSlug(deals', x, slug) <=> HasSlug(deals, x, slug)
    BY <2>5 DEF HasSlug
  <2>7. SlugsFit(deals')
    BY <2>5, <2>6 DEF SlugInv, SlugsFit
  <2>8. \A q \in Requests : Tried(deals', calls'[q])
    BY <2>1, <2>6 DEF SlugInv, Tried
  <2>9. SlugInv'
    BY <2>7, <2>8 DEF SlugInv, SlugsFit, HasSlug, Tried
  <2>10. Sandboxes' \subseteq Sandboxes
    BY <2>3, <2>4 DEF Sandboxes, Deals
  <2>11. OneInv'
    BY <2>1, <2>10 DEF OneInv, Makes
  <2> QED BY <2>9, <2>11
<1>22. ASSUME NEW key \in BOOLEAN, SetKey(key) PROVE SlugInv' /\ OneInv'
  BY <1>22, <1>s DEF SetKey, rows
<1>23. CASE UNCHANGED inboundVars
  BY <1>23, <1>s DEF inboundVars
<1> QED
  BY <1>1, <1>2, <1>3, <1>4, <1>5, <1>6, <1>7, <1>8, <1>9, <1>10, <1>11, <1>12,
     <1>13, <1>14, <1>15, <1>16, <1>17, <1>18, <1>19, <1>20, <1>21, <1>22, <1>23
  DEF Next

LEMMA MakingInit == Init => SlugInv /\ OneInv
<1> SUFFICES ASSUME Init PROVE SlugInv /\ OneInv
  OBVIOUS
<1>1. \A d \in DealIds : deals[d] = Absent
  BY DEF Init
<1>2. \A p \in Requests : calls[p].pc = "idle"
  BY DEF Init, Idle
<1>3. SlugInv
  BY <1>1, <1>2 DEF SlugInv, SlugsFit, Tried
<1>4. Sandboxes = {}
  BY <1>1 DEF Sandboxes, Deals
<1>5. OneInv
  BY <1>2, <1>4 DEF OneInv, Makes
<1> QED BY <1>3, <1>5

\* No two deals share a slug, and every slug that comes before a deal's own is
\* another's, whatever bases meet and whatever races and dies.
THEOREM SlugsStayNeeded == Spec => []SlugsNeeded
<1>1. SlugInv => SlugsNeeded
  BY DEF SlugInv, SlugsFit, HasSlug, SlugsNeeded, Deals
<1>2. TypeOK /\ AllFit /\ TextInv /\ SlugInv /\ OneInv /\ [Next]_inboundVars
        => SlugInv' /\ OneInv'
  BY InvStep, MakingStep
<1> QED BY <1>1, <1>2, InitInv, MakingInit, InvStep, PTL DEF Spec

\* A user has one sandbox, but for two texts that find none before either makes it.
THEOREM SandboxStaysOne == Spec => []OneSandbox
<1>1. OneInv => OneSandbox
  <2> SUFFICES ASSUME OneInv, ~ overlap PROVE Cardinality(Sandboxes) <= 1
    BY DEF OneSandbox
  <2>1. CASE Sandboxes = {}
    BY <2>1, FS_EmptySet
  <2>2. ASSUME NEW d \in Sandboxes PROVE Cardinality(Sandboxes) <= 1
    <3>1. Sandboxes = {d}
      BY DEF OneInv
    <3>2. Cardinality(Sandboxes) = 1
      BY <3>1, FS_Singleton
    <3> QED BY <3>2
  <2> QED BY <2>1, <2>2
<1>2. TypeOK /\ AllFit /\ TextInv /\ SlugInv /\ OneInv /\ [Next]_inboundVars
        => SlugInv' /\ OneInv'
  BY InvStep, MakingStep
<1> QED BY <1>1, <1>2, InitInv, MakingInit, InvStep, PTL DEF Spec
================================================================================
