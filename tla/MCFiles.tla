-------------------------------- MODULE MCFiles --------------------------------
EXTENDS Files, TLC

\* No definition singles out a request, a row or an upload.
Symmetry == Permutations(Requests) \cup Permutations(FolderIds)
              \cup Permutations(AssetIds)
=============================================================================
