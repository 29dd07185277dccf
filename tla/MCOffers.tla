------------------------------- MODULE MCOffers -------------------------------
EXTENDS Offers, TLC

\* Offers are interchangeable, and so are the requests that do not select.
Symmetry == Permutations(Offers) \cup Permutations(Requests \ Selectors)
=============================================================================
