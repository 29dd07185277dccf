---------------------------------- MODULE Cards --------------------------------
(***************************************************************************)
(* The general settings of a tab: the broker's card, the agent's card and  *)
(* the drawer that adds a responsible broker (settings/page.tsx,           *)
(* add-responsible-broker-drawer.tsx), which share one cached profile.     *)
(* Each card keeps a draft in React state; an effect copies an arriving    *)
(* profile into it, the broker's when the profile's broker has changed and *)
(* the agent's when anything of the profile has.                           *)
(*                                                                         *)
(* Of the broker's fields the responsible broker is kept, the one that the *)
(* drawer sets too; the fields of a card that only typing sets are as the  *)
(* agent's name, the agent's only one here.  Text is kept as it is sent:   *)
(* trimmed, its numbers and state code normalised.                         *)
(***************************************************************************)
EXTENDS Naturals

CONSTANTS
  Texts,      \* what a user types
  Brokers,    \* ids of responsible brokers
  None,       \* no responsible broker
  MaxWrites   \* bound: the writes the server serves

Names == {"broker", "agent"}

VARIABLES
  profile,    \* the server's: [broker, agent, brokers]
  seen,       \* the profile in the tab's cache
  load,       \* the fetch of the profile under way
  failed,     \* the last fetch failed: the cards show the error instead
  card,       \* of each card, whether it is being edited and its draft
  patch,      \* of each card, the save under way
  drawer,     \* whether the drawer is open
  create,     \* the drawer's request under way
  ahead,      \* the cards whose draft has gone where no profile follows it
  writes

vars == <<profile, seen, load, failed, card, patch, drawer, create, ahead, writes>>

Profiles == [broker : Brokers \cup {None}, agent : Texts, brokers : SUBSET Brokers]

Idle == [at |-> "idle"]
Busy(call) == call.at # "idle"

\* The draft that a profile gives a card, and what the card's effect watches.
Fields(p, c) == p[c]
Watched(p, c) == IF c = "broker" THEN p.broker ELSE p

Refetch == load' = [at |-> "asked"] /\ failed' = FALSE

\* A card on a page just entered.
Fresh(p) == [c \in Names |-> [editing |-> FALSE, draft |-> Fields(p, c)]]

-----------------------------------------------------------------------------
(* The cards. *)

Edit(c) ==
  /\ ~failed /\ ~card[c].editing
  /\ card' = [card EXCEPT ![c].editing = TRUE]
  /\ UNCHANGED <<profile, seen, load, failed, patch, drawer, create, ahead, writes>>

\* The inputs stay open while a save is under way.
Type(c, value) ==
  /\ ~failed /\ card[c].editing
  /\ card' = [card EXCEPT ![c].draft = value]
  /\ ahead' = IF Busy(patch[c]) THEN ahead \cup {c} ELSE ahead
  /\ UNCHANGED <<profile, seen, load, failed, patch, drawer, create, writes>>

\* Mutant of CancelEdit: the card is closed and its draft left.
CancelEditOnly(c) ==
  /\ ~failed /\ card[c].editing /\ ~(Busy(patch[c]) /\ patch[c].here)
  /\ card' = [card EXCEPT ![c].editing = FALSE]
  /\ ahead' = ahead \ {c}
  /\ UNCHANGED <<profile, seen, load, failed, patch, drawer, create, writes>>

CancelEdit(c) ==
  /\ ~failed /\ card[c].editing /\ ~(Busy(patch[c]) /\ patch[c].here)
  /\ card' = [card EXCEPT ![c] = Fresh(seen)[c]]
  /\ ahead' = ahead \ {c}
  /\ UNCHANGED <<profile, seen, load, failed, patch, drawer, create, writes>>

\* One save of a card at a time, also when the page has been left meanwhile (bound).
Save(c) ==
  /\ ~failed /\ card[c].editing /\ ~Busy(patch[c])
  /\ patch' = [patch EXCEPT ![c] = [at |-> "asked", value |-> card[c].draft, here |-> TRUE]]
  /\ UNCHANGED <<profile, seen, load, failed, card, drawer, create, ahead, writes>>

\* The cards send disjoint fields of the profile.
ServePatch(c) ==
  /\ patch[c].at = "asked" /\ writes < MaxWrites
  /\ writes' = writes + 1
  /\ profile' = [profile EXCEPT ![c] = patch[c].value]
  /\ patch' = [patch EXCEPT ![c].at = "answered"]
  /\ UNCHANGED <<seen, load, failed, card, drawer, create, ahead>>

\* The hook fetches the profile again; the card, if still there, is closed.
TakePatch(c) ==
  /\ patch[c].at = "answered"
  /\ card' = [card EXCEPT ![c].editing = @ /\ ~patch[c].here]
  /\ patch' = [patch EXCEPT ![c] = Idle]
  /\ Refetch
  /\ UNCHANGED <<profile, seen, drawer, create, ahead, writes>>

\* The card stays open and says so.
PatchFails(c) ==
  /\ Busy(patch[c])
  /\ patch' = [patch EXCEPT ![c] = Idle]
  /\ UNCHANGED <<profile, seen, load, failed, card, drawer, create, ahead, writes>>

-----------------------------------------------------------------------------
(* The drawer. *)

OpenDrawer ==
  /\ ~failed /\ card["broker"].editing /\ ~drawer
  /\ drawer' = TRUE
  /\ UNCHANGED <<profile, seen, load, failed, card, patch, create, ahead, writes>>

CloseDrawer ==
  /\ drawer
  /\ drawer' = FALSE
  /\ UNCHANGED <<profile, seen, load, failed, card, patch, create, ahead, writes>>

SubmitBroker ==
  /\ ~failed /\ drawer /\ ~Busy(create)
  /\ create' = [at |-> "asked", here |-> TRUE]
  /\ UNCHANGED <<profile, seen, load, failed, card, patch, drawer, ahead, writes>>

ServeBroker(id) ==
  /\ create.at = "asked" /\ writes < MaxWrites /\ id \notin profile.brokers
  /\ writes' = writes + 1
  /\ profile' = [profile EXCEPT !.brokers = @ \cup {id}]
  /\ create' = [at |-> "answered", here |-> create.here, id |-> id]
  /\ UNCHANGED <<seen, load, failed, card, patch, drawer, ahead>>

\* What the drawer hands to onCreated: the id of the row it was answered with.
\* Mutant: the name.
CreatedName == "name"

Created == create.id

\* The profile is fetched again, and the new broker chosen in the draft, whether or
\* not the card is being edited any more; the drawer closes, even if opened anew.
TakeBroker ==
  /\ create.at = "answered"
  /\ IF create.here
       THEN /\ card' = [card EXCEPT !["broker"].draft = Created]
            /\ ahead' = IF card["broker"].editing /\ ~Busy(patch["broker"])
                          THEN ahead ELSE ahead \cup {"broker"}
            /\ drawer' = FALSE
       ELSE UNCHANGED <<card, ahead, drawer>>
  /\ create' = Idle
  /\ Refetch
  /\ UNCHANGED <<profile, seen, patch, writes>>

BrokerFails ==
  /\ Busy(create)
  /\ create' = Idle
  /\ UNCHANGED <<profile, seen, load, failed, card, patch, drawer, ahead, writes>>

-----------------------------------------------------------------------------
(* The cached profile. *)

ServeProfile ==
  /\ load.at = "asked"
  /\ load' = [at |-> "answered", profile |-> profile]
  /\ UNCHANGED <<profile, seen, failed, card, patch, drawer, create, ahead, writes>>

\* The cards' effects: a draft is replaced even while it is being edited.
TakeProfile ==
  LET changed == {c \in Names : Watched(load.profile, c) # Watched(seen, c)}
  IN /\ load.at = "answered"
     /\ seen' = load.profile
     /\ load' = Idle /\ failed' = FALSE
     /\ card' = [c \in Names |->
                   IF c \in changed THEN [card[c] EXCEPT !.draft = Fields(load.profile, c)]
                   ELSE card[c]]
     /\ ahead' = ahead \ {c \in changed : ~Busy(patch[c])}
     /\ UNCHANGED <<profile, patch, drawer, create, writes>>

ProfileFails ==
  /\ Busy(load)
  /\ load' = Idle /\ failed' = TRUE
  /\ UNCHANGED <<profile, seen, card, patch, drawer, create, ahead, writes>>

\* The page is left and entered again: its React state is gone, requests go on,
\* and a profile that is too old or could not be fetched is fetched.
Remount ==
  /\ card' = Fresh(seen) /\ drawer' = FALSE /\ ahead' = {}
  /\ patch' = [c \in Names |->
                 IF Busy(patch[c]) THEN [patch[c] EXCEPT !.here = FALSE] ELSE patch[c]]
  /\ create' = IF Busy(create) THEN [create EXCEPT !.here = FALSE] ELSE create
  /\ IF Busy(load) THEN UNCHANGED <<load, failed>>
     ELSE Refetch \/ (~failed /\ UNCHANGED <<load, failed>>)
  /\ UNCHANGED <<profile, seen, writes>>

\* The same user saves in another tab, which may undo a save of this one before its
\* answer or the profile it left has come.
OtherTabSaves(c, value) ==
  /\ writes < MaxWrites /\ writes' = writes + 1
  /\ profile' = [profile EXCEPT ![c] = value]
  /\ ahead' = IF Busy(patch[c]) \/ profile[c] # seen[c] THEN ahead \cup {c} ELSE ahead
  /\ UNCHANGED <<seen, load, failed, card, patch, drawer, create>>

-----------------------------------------------------------------------------

\* What a card's input can be set to.
Inputs(c) == IF c = "broker" THEN seen.brokers \cup {None} ELSE Texts

Init ==
  /\ profile \in [broker : {None}, agent : Texts, brokers : {{}}]
  /\ seen = profile /\ load = Idle /\ failed = FALSE
  /\ card = Fresh(profile) /\ patch = [c \in Names |-> Idle]
  /\ drawer = FALSE /\ create = Idle /\ ahead = {} /\ writes = 0

Next ==
  \/ \E c \in Names :
       \/ Edit(c) \/ CancelEdit(c) \/ Save(c) \/ ServePatch(c) \/ TakePatch(c) \/ PatchFails(c)
       \/ \E value \in Inputs(c) : Type(c, value) \/ OtherTabSaves(c, value)
  \/ OpenDrawer \/ CloseDrawer \/ SubmitBroker \/ TakeBroker \/ BrokerFails
  \/ \E id \in Brokers : ServeBroker(id)
  \/ ServeProfile \/ TakeProfile \/ ProfileFails \/ Remount

Spec == Init /\ [][Next]_vars

-----------------------------------------------------------------------------

\* The types of the settings' state.
TypeOK ==
  /\ profile \in Profiles /\ seen \in Profiles
  /\ load \in [at : {"idle", "asked"}] \cup [at : {"answered"}, profile : Profiles]
  /\ failed \in BOOLEAN /\ drawer \in BOOLEAN /\ ahead \subseteq Names
  /\ \A c \in Names :
       LET values == IF c = "broker" THEN Brokers \cup {None} ELSE Texts
       IN /\ card[c] \in [editing : BOOLEAN, draft : values]
          /\ patch[c] \in [at : {"idle"}]
                         \cup [at : {"asked", "answered"}, value : values, here : BOOLEAN]
  /\ create \in [at : {"idle"}] \cup [at : {"asked"}, here : BOOLEAN]
               \cup [at : {"answered"}, here : BOOLEAN, id : Brokers]
  /\ writes \in 0..MaxWrites

\* A card that is not being edited opens on what it shows (cancelEdit, the effects,
\* the hooks' invalidation): with no fetch under way its draft is the cached profile's,
\* but for three ways a draft is left behind: typed on after Save, given a broker by
\* the drawer when no longer edited, or saved against another tab's save.
DraftsSettle ==
  \A c \in Names :
    ~card[c].editing /\ ~Busy(load) /\ ~failed /\ c \notin ahead
      => card[c].draft = Fields(seen, c)
================================================================================
