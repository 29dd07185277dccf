-------------------------------- MODULE Accounts -------------------------------
(***************************************************************************)
(* Users, their workspaces and their profiles: register, createWorkspace,  *)
(* updateOnboarding and patchUserProfile of AuthService.                   *)
(*                                                                         *)
(* A profile is a MemoryEntry row of one user in one workspace whose       *)
(* content, a JSON object, is read, changed and written back; no           *)
(* constraint keeps it single.  Onboarding and profile requests run that   *)
(* beside another update with Promise.all, which answers as soon as one of *)
(* the two fails: the other goes on.  Nobody is ever invited, so that a    *)
(* workspace has the one member who made it.  The memory entries' own      *)
(* create and update take any scope, category and id and could make or     *)
(* write a profile row too: left out, for the web page sends the scope     *)
(* 'deal' and the ids that the list of a deal gives, and no profile row    *)
(* has a deal.                                                             *)
(***************************************************************************)
EXTENDS Naturals, FiniteSets

CONSTANTS
  People,     \* e-mail addresses
  Spaces,     \* ids for workspaces
  Names,      \* what slugify makes of names
  Stamps,     \* what Date.now() appends to a slug that is taken
  Sections,   \* the keys of a profile
  Broker,     \* the key that holds a responsible broker's id
  Values,     \* what a section is set to
  Calls,      \* the requests that may run at one time
  MaxRows     \* bound on the profile rows of one member

VARIABLES
  users,      \* the User rows
  admin,      \* the one WorkspaceMembership row of each workspace
  slug,       \* Workspace.slug
  brokers,    \* the workspaces with a ResponsibleBroker row
  profile,    \* MemoryEntry rows of category 'agent_profile'
  calls,      \* where each request is between its awaits
  saved,      \* history: what was last written to each section
  crossed     \* history: workspaces where two profile requests overlapped

accountVars == <<users, admin, slug, brokers, profile, calls, saved, crossed>>

None == "none"
Plain == "plain"
NoSlug == <<None, None>>
Slugs == Names \X (Stamps \cup {Plain})

Idle == [pc |-> "idle", merge |-> "none"]
Blank == [c \in Sections |-> None]
Content == [Sections -> Values \cup {None}]

TypeOK ==
  /\ users \subseteq People
  /\ admin \in [Spaces -> users \cup {None}]
  /\ slug \in [Spaces -> Slugs \cup {NoSlug}]
  /\ \A w, v \in Spaces : slug[w] = slug[v] /\ slug[w] # NoSlug => w = v
  /\ \A w \in Spaces : admin[w] = None <=> slug[w] = NoSlug
  /\ brokers \subseteq { w \in Spaces : admin[w] # None }
  /\ profile \subseteq [at : Spaces, nth : 1..MaxRows, content : Content]
  /\ saved \in [Spaces -> Content]
  /\ crossed \subseteq Spaces
  /\ \A p \in Calls :
       /\ calls[p].pc \in {"idle", "email", "slug", "signup", "free", "open",
                           "rename", "conflict", "answered"}
       /\ calls[p].merge \in {"none", "later", "read", "write"}

Init ==
  /\ users = {} /\ brokers = {} /\ profile = {} /\ crossed = {}
  /\ admin = [w \in Spaces |-> None]
  /\ slug = [w \in Spaces |-> NoSlug]
  /\ calls = [p \in Calls |-> Idle]
  /\ saved = [w \in Spaces |-> Blank]

\* A request whose answer is out and whose merge is over is gone.
Become(p, r) ==
  calls' = [calls EXCEPT ![p] =
              IF r.pc = "answered" /\ r.merge = "none" THEN Idle ELSE r]

SlugTaken(s) == \E w \in Spaces : slug[w] = s

\* Mutant of NewSpace: the workspace outlives a membership that fails.
NewSpaceAlone(w, u, s) ==
  /\ admin[w] = None /\ slug' = [slug EXCEPT ![w] = s]
  /\ \/ admin' = [admin EXCEPT ![w] = u]
     \/ UNCHANGED admin

\* A transaction inserts the workspace with its admin and its settings.
NewSpace(w, u, s) ==
  /\ admin[w] = None
  /\ admin' = [admin EXCEPT ![w] = u]
  /\ slug' = [slug EXCEPT ![w] = s]

(***************************************************************************)
(* POST /auth/register.                                                    *)
(***************************************************************************)

Register(p, u, name) ==
  /\ calls[p] = Idle
  /\ Become(p, [pc |-> "email", merge |-> "none", user |-> u,
                slug |-> <<name, Plain>>])
  /\ UNCHANGED <<users, admin, slug, brokers, profile, saved, crossed>>

FindEmail(p) ==
  /\ calls[p].pc = "email"
  /\ Become(p, IF calls[p].user \in users THEN Idle ELSE [calls[p] EXCEPT !.pc = "slug"])
  /\ UNCHANGED <<users, admin, slug, brokers, profile, saved, crossed>>

\* A slug that is taken gets the time appended, which is not looked up.
FindSlug(p) ==
  LET r == calls[p] IN
  /\ r.pc = "slug"
  /\ \/ ~SlugTaken(r.slug) /\ Become(p, [r EXCEPT !.pc = "signup"])
     \/ /\ SlugTaken(r.slug)
        /\ \E t \in Stamps :
             Become(p, [r EXCEPT !.slug = <<@[1], t>>, !.pc = "signup"])
  /\ UNCHANGED <<users, admin, slug, brokers, profile, saved, crossed>>

\* User and workspace, or neither if the address or the slug is taken by now.
SignUp(p) ==
  LET r == calls[p] IN
  /\ r.pc = "signup"
  /\ IF r.user \in users \/ SlugTaken(r.slug)
     THEN UNCHANGED <<users, admin, slug>>
     ELSE /\ users' = users \cup {r.user}
          /\ \E w \in Spaces : NewSpace(w, r.user, r.slug)
  /\ Become(p, Idle)
  /\ UNCHANGED <<brokers, profile, saved, crossed>>

(***************************************************************************)
(* POST /auth/workspaces.                                                  *)
(***************************************************************************)

CreateWorkspace(p, u, name) ==
  /\ calls[p] = Idle /\ u \in users
  /\ Become(p, [pc |-> "free", merge |-> "none", user |-> u,
                slug |-> <<name, Plain>>])
  /\ UNCHANGED <<users, admin, slug, brokers, profile, saved, crossed>>

FindFree(p) ==
  /\ calls[p].pc = "free"
  /\ Become(p, IF SlugTaken(calls[p].slug) THEN Idle ELSE [calls[p] EXCEPT !.pc = "open"])
  /\ UNCHANGED <<users, admin, slug, brokers, profile, saved, crossed>>

Open(p) ==
  LET r == calls[p] IN
  /\ r.pc = "open"
  /\ IF SlugTaken(r.slug) THEN UNCHANGED <<admin, slug>>
     ELSE \E w \in Spaces : NewSpace(w, r.user, r.slug)
  /\ Become(p, Idle)
  /\ UNCHANGED <<users, brokers, profile, saved, crossed>>

(***************************************************************************)
(* PATCH /auth/onboarding and PATCH /user-profile, by the workspace's      *)
(* member.                                                                 *)
(***************************************************************************)

Saving(w) == { p \in Calls : calls[p].merge # "none" /\ calls[p].at = w }

Start(p, w, r) ==
  /\ calls[p] = Idle
  /\ admin[w] # None
  /\ Become(p, r)
  /\ crossed' = IF r.merge # "none" /\ Saving(w) # {} THEN crossed \cup {w} ELSE crossed
  /\ UNCHANGED <<users, admin, slug, brokers, profile, saved>>

Patch(pc, merge, w, c, v, s) ==
  [pc |-> pc, merge |-> merge, at |-> w, key |-> c, value |-> v, slug |-> s,
   row |-> 0, seen |-> Blank]

\* Sections and a new name: its slug is looked up before either update.
UpdateOnboarding(p, w, c, v, name) ==
  Start(p, w, Patch("conflict", "later", w, c, v, <<name, Plain>>))

\* A new name alone.
UpdateName(p, w, name) ==
  Start(p, w, Patch("conflict", "none", w, None, None, <<name, Plain>>))

\* A section, or none for one that is emptied; a broker must be one of the
\* workspace.
PatchUserProfile(p, w, c, v) ==
  /\ c = Broker /\ v # None => w \in brokers
  /\ Start(p, w, Patch("answered", "read", w, c, v, NoSlug))

CreateResponsibleBroker(w) ==
  /\ admin[w] # None
  /\ brokers' = brokers \cup {w}
  /\ UNCHANGED <<users, admin, slug, profile, calls, saved, crossed>>

\* Then the workspace and the profile are updated side by side.
FindConflict(p) ==
  LET r == calls[p]
      next == [r EXCEPT !.pc = "rename", !.merge = IF @ = "later" THEN "read" ELSE @]
  IN
  /\ r.pc = "conflict"
  /\ \/ /\ \E w \in Spaces \ {r.at} : slug[w] = r.slug
        /\ \E t \in Stamps : Become(p, [next EXCEPT !.slug = <<@[1], t>>])
     \/ /\ \A w \in Spaces \ {r.at} : slug[w] # r.slug
        /\ Become(p, next)
  /\ UNCHANGED <<users, admin, slug, brokers, profile, saved, crossed>>

\* A clash of slugs is answered at once, whether or not the profile is written.
Rename(p) ==
  LET r == calls[p] IN
  /\ r.pc = "rename"
  /\ slug' = IF \E w \in Spaces \ {r.at} : slug[w] = r.slug THEN slug
             ELSE [slug EXCEPT ![r.at] = r.slug]
  /\ Become(p, [r EXCEPT !.pc = "answered"])
  /\ UNCHANGED <<users, admin, brokers, profile, saved, crossed>>

(***************************************************************************)
(* mergeAgentProfileMemory.                                                *)
(***************************************************************************)

RowsOf(w) == { e \in profile : e.at = w }

\* Mutant of Found: an entry without a section yet is taken for none.
FoundFilled(w) == { e \in RowsOf(w) : e.content[Broker] # None }

Found(w) == RowsOf(w)

\* Some row of the member, or none.
ReadProfile(p) ==
  LET r == calls[p] IN
  /\ r.merge = "read"
  /\ \/ /\ Found(r.at) = {}
        /\ Become(p, [r EXCEPT !.merge = "write"])
     \/ \E e \in Found(r.at) :
          Become(p, [r EXCEPT !.merge = "write", !.row = e.nth, !.seen = e.content])
  /\ UNCHANGED <<users, admin, slug, brokers, profile, saved, crossed>>

\* The row that was read, by its id, or a new one.
WriteProfile(p) ==
  LET r == calls[p]
      n == IF r.row # 0 THEN r.row ELSE Cardinality(RowsOf(r.at)) + 1
      kept == { e \in profile : e.at # r.at \/ e.nth # n }
  IN
  /\ r.merge = "write" /\ n <= MaxRows
  /\ profile' = kept \cup
       {[at |-> r.at, nth |-> n, content |-> [r.seen EXCEPT ![r.key] = r.value]]}
  /\ saved' = [saved EXCEPT ![r.at][r.key] = r.value]
  /\ Become(p, [r EXCEPT !.merge = "none"])
  /\ UNCHANGED <<users, admin, slug, brokers, crossed>>

\* A call fails or the process dies.
Fail(p) ==
  /\ calls[p] # Idle
  /\ Become(p, Idle)
  /\ UNCHANGED <<users, admin, slug, brokers, profile, saved, crossed>>

\* A call of the merge fails alone.
FailMerge(p) ==
  /\ calls[p].merge \in {"read", "write"}
  /\ Become(p, [calls[p] EXCEPT !.merge = "none"])
  /\ UNCHANGED <<users, admin, slug, brokers, profile, saved, crossed>>

Next ==
  \/ \E p \in Calls :
       \/ \E u \in People, name \in Names : Register(p, u, name) \/ CreateWorkspace(p, u, name)
       \/ \E w \in Spaces, name \in Names : UpdateName(p, w, name)
       \/ \E w \in Spaces, c \in Sections, v \in Values \cup {None} :
            PatchUserProfile(p, w, c, v)
       \/ \E w \in Spaces, c \in Sections \ {Broker}, v \in Values, name \in Names :
            UpdateOnboarding(p, w, c, v, name)
       \/ FindEmail(p) \/ FindSlug(p) \/ SignUp(p) \/ FindFree(p) \/ Open(p)
       \/ FindConflict(p) \/ Rename(p) \/ ReadProfile(p) \/ WriteProfile(p)
       \/ Fail(p) \/ FailMerge(p)
  \/ \E w \in Spaces : CreateResponsibleBroker(w)

Spec == Init /\ [][Next]_accountVars

(***************************************************************************)
(* Properties.                                                             *)
(***************************************************************************)

\* A member has at most one profile row, and it has what was last written to
\* every section, though requests patch different sections, die, or are answered
\* while their merge still runs; two that overlap make two rows or lose a section.
\* Whoever registered has a workspace to enter.
ProfileKeeps ==
  /\ \A w \in Spaces \ crossed :
       /\ Cardinality(RowsOf(w)) <= 1
       /\ \A e \in RowsOf(w) : e.content = saved[w]
       /\ RowsOf(w) = {} => saved[w] = Blank
  /\ \A u \in users : \E w \in Spaces : admin[w] = u
=============================================================================
