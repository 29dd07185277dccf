------------------------------- MODULE MCInbound -------------------------------
EXTENDS Inbound, TLC

CONSTANTS d1, d2, d3, street, sandbox

\* One street, a unit of it that has the look of the street's second deal, and
\* one whose slug is too long to be numbered without losing its last part.
StreetBases == { <<street>>, <<street, 2>>, <<street, 2, street>> }
SandboxName == <<sandbox>>

\* No definition singles out a deal, a text or a request.  The deals' ids are
\* all alike too, but the third one is taken last.
Symmetry == Permutations({d1, d2}) \cup Permutations(Messages) \cup Permutations(Requests)

IdsInOrder == d3 \in Deals => {d1, d2} \subseteq Deals

\* Either texts and chats, with no more than two deals and the street's base
\* beside the sandbox's, or nothing but listings posted on all the bases, up to
\* three.  A post is a chat that has no items to raise.
Tries(r) == r.pc \in {"slug", "createDeal"}

OneStreet ==
  LET plain == { <<street>>, SandboxName } IN
  /\ d3 \notin Deals
  /\ \A d \in Deals : deals[d].base \in plain
  /\ \A p \in Requests : Tries(calls[p]) =>
       calls[p].base \in plain /\ calls[p].kind # "post"

OnlyPosts ==
  /\ \A m \in Messages : texts[m] = Unsent /\ m \notin excused
  /\ \A p \in Requests : calls[p] # Idle => calls[p].kind = "post"

Scope == IdsInOrder /\ (OneStreet \/ OnlyPosts)

\* What no action and no property tells apart: whose fine words a reply has, how
\* an item was closed, how a text ended that broke nothing, and the parts of a
\* request it does not read any more.
Said(mode, voice) ==
  IF voice = "none" \/ (mode = "real" /\ voice = "fake") THEN voice ELSE "said"

Left(r) ==
  IF r = Idle THEN r
  ELSE [r EXCEPT !.voice = Said(r.mode, @),
                 !.n = IF r.pc \in {"slug", "createDeal"} THEN @ ELSE 0,
                 !.base = IF r.pc \in {"slug", "createDeal"} THEN @ ELSE <<>>,
                 !.kind = IF r.pc \in TextSteps \ {"findSandbox", "findAssignment",
                                                   "assign", "store"}
                          THEN "text" ELSE @,
                 !.mode = IF r.pc = "reply" THEN "mock" ELSE @]

Over(m) ==
  /\ m \in excused \/ texts[m] # Unsent
  /\ \A p \in Requests : calls[p] # Idle => calls[p].msg # m

Sound(m) ==
  texts[m] # Unsent =>
    /\ texts[m].home \in assigned \cup {NoOne}
    /\ texts[m].reply = texts[m].at \/ (m \in excused /\ texts[m].reply = NoOne)
    /\ texts[m].asked \in {NoOne, texts[m].at}
    /\ Said(texts[m].mode, texts[m].voice) # "fake"

View ==
  <<deals, assigned,
    [m \in Messages |-> IF Over(m) /\ Sound(m) THEN "over" ELSE texts[m]],
    told,
    [i \in DealIds \X Fields |-> IF items[i] = "settled" THEN "closed" ELSE items[i]],
    hasKey, [p \in Requests |-> Left(calls[p])], overlap,
    excused \ { m \in Messages : Over(m) /\ Sound(m) }>>
=============================================================================
