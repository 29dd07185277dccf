\* Two concurrent requests on the folders and files of a new or an older deal.
CONSTANTS
  FolderIds = {f1, f2, f3}
  AssetIds = {a1, a2}
  Requests = {r1, r2}
  Names = {"general"}
  Leaves = {"general"}
  Legacy = {"general"}
  FileNames = {"a"}
  MaxDepth = 2
SPECIFICATION Spec
SYMMETRY Symmetry
INVARIANTS TypeOK FilesReadable PathsNest SeedComplete
CHECK_DEADLOCK FALSE
