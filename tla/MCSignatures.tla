----------------------------- MODULE MCSignatures -----------------------------
EXTENDS Signatures, TLC

\* No definition singles out an envelope, a signer or a request.
Symmetry == Permutations(Envelopes) \cup Permutations(Signers)
              \cup Permutations(Requests)
=============================================================================
