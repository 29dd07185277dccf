\* Two workspaces, two writes served in each, two changes of workspace; two names,
\* one new responsible broker, three saves served.
CONSTANTS
  Spaces = {s1, s2}
  Outside = Outside
  MaxVersion = 2
  MaxSwitches = 2
  Texts = {t1, t2}
  Brokers = {b1}
  NoBroker = NoBroker
  MaxWrites = 3
SPECIFICATION RaceSpec
SYMMETRY Symmetry
VIEW View
INVARIANTS TypesOK OwnWorkspace WritesShown DraftsSettle
CHECK_DEADLOCK FALSE
