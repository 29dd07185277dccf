----------------------------- MODULE MCDocuments ------------------------------
EXTENDS Documents, TLC

\* No definition singles out a request, a row's id or an offer.
Symmetry == Permutations(Requests) \cup Permutations(DocIds)
              \cup Permutations(Offers)

\* What the properties of DocumentsRace can tell apart: no action reads a file,
\* and once requests contended no property does.
RaceView ==
  <<type, facts, docs, versions, req, contended,
    IF contended THEN <<>> ELSE store>>
=============================================================================
