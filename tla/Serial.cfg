\* One request at a time, in each of the three components.
CONSTANTS
  Deals = {d1}
  Offers = {o1, o2, o3}
  Envelopes = {e1, e2}
  Docs = {doc1}
  Signers = {s1, s2}
  Requests = {r1}
SPECIFICATION SerialSpec
INVARIANT NarrativeCurrent
PROPERTIES Lifecycle FollowsBook EnvelopeForward
