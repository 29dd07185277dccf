-------------------------------- MODULE MCOffice -------------------------------
(***************************************************************************)
(* Office for TLC: which of its values are alike, and which part of a      *)
(* state a step or a property of the run reads.                            *)
(***************************************************************************)
EXTENDS Office, TLC

\* No definition singles out a row, a user or a request.
Symmetry == Permutations(Rows) \cup Permutations(Users) \cup Permutations(Calls)

\* After the first overlap of the kind the properties excuse, no request starts.
Winding ==
  LET calm == met = {} /\ crossed = {} /\ muddled = {} /\ strayed = {}
      starts(before, after, p) == before[p].pc = "idle" /\ after[p].pc # "idle"
  IN  calm \/ \A p \in Calls :
        ~( \/ starts(work, work', p) \/ starts(calls, calls', p)
           \/ starts(accountCalls, accountCalls', p) )

\* Of the object storage, what a version names or is about to; of a request, what
\* its next steps read.
Needed(key) ==
  \/ \E v \in versions : v.key = key
  \/ \E p \in Calls :
       work[p].pc = "insertVersion" /\ Tpl!KeyOf(work[p]) = key

Left(r) ==
  CASE r.pc \in {"clear", "fill"} ->
         [r EXCEPT !.kind = "replace", !.name = "none", !.dir = "global",
                   !.from = "none", !.of = 0]
    [] r.pc = "read" -> [r EXCEPT !.content = "none", !.name = "none", !.dir = "global"]
    [] r.pc = "copyFields" -> [r EXCEPT !.name = "none"]
    [] OTHER -> r

Owed(r) ==
  IF r.pc \notin {"conflict", "rename", "answered"} THEN r
  ELSE [r EXCEPT !.slug = IF r.pc = "answered" THEN Acc!NoSlug ELSE @,
                 !.key = IF r.merge = "none" THEN "none" ELSE @,
                 !.value = IF r.merge = "none" THEN "none" ELSE @,
                 !.row = IF r.merge = "none" THEN 0 ELSE @,
                 !.seen = IF r.merge = "none" THEN Acc!Blank ELSE @]

View ==
  <<part, template, versions, { o \in stored : Needed(o.key) }, fields,
    [p \in Calls |-> Left(work[p])], met,
    users, admin, slug, brokers, profile, [p \in Calls |-> Owed(accountCalls[p])],
    saved, crossed, deskVars>>
=============================================================================
