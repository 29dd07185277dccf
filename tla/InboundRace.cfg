\* Two concurrent requests: texts, chats and two deals, or three deals on bases
\* whose slugs meet.
CONSTANTS
  d1 = d1
  d2 = d2
  d3 = d3
  DealIds = {d1, d2, d3}
  Messages = {m1, m2}
  Fields = {"list_price"}
  Requests = {r1, r2}
  Bases <- StreetBases
  Words = {street, sandbox}
  street = street
  sandbox = sandbox
  SandboxBase <- SandboxName
  MaxParts = 3
SPECIFICATION Spec
CONSTRAINT Scope
SYMMETRY Symmetry
VIEW View
INVARIANTS TypeOK SlugsNeeded OneSandbox ThreadAssigned RepliesFollow NeverSilentlyFake FieldsSettle
CHECK_DEADLOCK FALSE
