\* Two concurrent requests on one deal.
CONSTANTS
  Deals = {d1}
  Requests = {r1, r2}
SPECIFICATION Spec
SYMMETRY Symmetry
VIEW RaceView
INVARIANTS TypeOK NoGateSkipped OverrideAccounted
