\* Two concurrent requests on an active deal: does anything leave archived?
CONSTANTS
  Deals = {d1}
  Requests = {r1, r2}
SPECIFICATION ActiveSpec
PROPERTY ArchivedIsFinal
