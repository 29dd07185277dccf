\* Two overlapping requests on two records, two templates and two accounts.
CONSTANTS
  Rows = {a1, a2}
  Users = {b1, b2}
  Providers = {"google", "microsoft"}
  Calls = {r1, r2}
  ChecklistItems = 2
  MaxCopies = 1
  FileNames = {"form.pdf"}
  Declared = {1}
  Names = {"ana"}
  Stamps = {"later"}
  Sections = {"company", "responsibleBrokerId"}
  Broker = "responsibleBrokerId"
  Values = {"set", ""}
  MaxRows = 2
SPECIFICATION OfficeSpec
SYMMETRY Symmetry
VIEW View
ACTION_CONSTRAINT Winding
INVARIANTS TypesOK PdfsMatchHash FieldsFit ProfileKeeps ChangesTold OneCopy
CHECK_DEADLOCK FALSE
