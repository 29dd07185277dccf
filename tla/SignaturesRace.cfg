\* Two requests, calls to DocuSign that fail, and a task sent twice.
CONSTANTS
  Envelopes = {e1, e2}
  Docs = {d1}
  Signers = {s1, s2}
  Requests = {r1, r2}
  UserTargets = {"sent_for_signature"}
  Lossy = TRUE
  EarlySigners = TRUE
  MaxFails = 0
SPECIFICATION Spec
SYMMETRY Symmetry
INVARIANTS TypeOK NeverAheadOfSigners
CHECK_DEADLOCK FALSE
