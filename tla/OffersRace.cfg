\* Two concurrent requests, at most one of them a select.
CONSTANTS
  Offers = {o1, o2}
  Fields = {price}
  Requests = {r1, r2}
  Selectors = {r1}
  UserTargets = {"active"}
SPECIFICATION Spec
SYMMETRY Symmetry
INVARIANTS TypeOK AtMostOneSelected MissingInfoTracked AutoMovesBacked
