--------------------------------- MODULE MCWeb ---------------------------------
(***************************************************************************)
(* WebApp for TLC: which of its values are alike, and which part of a      *)
(* state a step or a property of the run reads.                            *)
(***************************************************************************)
EXTENDS WebApp

\* No definition singles out a workspace or a name.
Symmetry == Permutations(Spaces) \cup Permutations(Texts)

\* Of the write and the query, all that the actions and the properties read.
Topic ==
  IF part = "settings" THEN <<>>
  ELSE <<key \in Invalidates[write], <<write, key>> \in Forgotten, key = "debug-history",
         Places[write][key], Dashboards[write][key]>>

View ==
  <<part, Topic, storage, label, place, query, sent, version, mine, crossed, switches,
    settings>>
================================================================================
