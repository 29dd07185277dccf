\* Two selects at the same time.
CONSTANTS
  Offers = {o1, o2}
  Fields = {price}
  Requests = {r1, r2}
  Selectors = {r1, r2}
  UserTargets = {"active"}
SPECIFICATION Spec
INVARIANT AtMostOneSelected
