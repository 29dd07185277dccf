\* A task sent again, overlapping syncs that may die, a DocuSign that answers.
CONSTANTS
  Envelopes = {e1, e2}
  Docs = {d1}
  Signers = {s1}
  Requests = {r1, r2}
  UserTargets = {}
  Lossy = FALSE
  EarlySigners = FALSE
  MaxFails = 1
SPECIFICATION FairSpec
PROPERTY SignaturesArrive
CHECK_DEADLOCK FALSE
