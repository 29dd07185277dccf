------------------------------ MODULE Files_proofs ------------------------------
(***************************************************************************)
(* Theorems about Files, for any sets of ids, names and requests, any      *)
(* folder template and any depth.                                          *)
(***************************************************************************)
EXTENDS Files, TLAPS

(***************************************************************************)
(* Type correctness.                                                       *)
(***************************************************************************)

Calls == {Idle} \cup Creating \cup Migrating \cup Seeding \cup Uploading
           \cup Removing \cup Dropping

\* What pc says of the fields a request has.
LEMMA Shapes ==
  ASSUME NEW r \in Calls
  PROVE  /\ r.pc = "insertFolder" => r \in Creating
         /\ r.pc \in Migrations => r \in Migrating
         /\ r.pc \in {"marker", "seedRoot", "leaf"} => r \in Seeding
         /\ r.pc \in {"fallback", "put", "insertAsset"} => r \in Uploading
         /\ r.pc \in {"unlink", "deleteAsset"} => r \in Removing
         /\ r.pc = "deleteFolder" => r \in Dropping
BY DEF Calls, Idle, Creating, Migrating, Migrations, Seeding, Uploading, Removing,
       Dropping

LEMMA PathTypes ==
  /\ Root \in Paths /\ Base \in Paths
  /\ \A n \in Names : TopLevel(n) \in Paths /\ InRoot(n) \in Paths
  /\ \A path \in Paths : Moved(path) \in Paths
  /\ \A path \in Paths, n \in Names : Within(path, n) \in Paths
  /\ "general" \in Names /\ Leaves \subseteq Names /\ Legacy \subseteq Names
<1>1. Root \in Paths /\ Base \in Paths
  BY DEF Root, Base, Paths
<1>2. \A n \in Names : TopLevel(n) \in Paths /\ InRoot(n) \in Paths
  BY DEF TopLevel, InRoot, Paths
<1>3. \A path \in Paths : Moved(path) \in Paths
  BY DEF Moved, Paths
<1>4. \A path \in Paths, n \in Names : Within(path, n) \in Paths
  BY DEF Within, Paths
<1>5. "general" \in Names /\ Leaves \subseteq Names /\ Legacy \subseteq Names
  BY FilesAssumption
<1> QED BY <1>1, <1>2, <1>3, <1>4, <1>5

\* A row whose parent and path change is still a row.
LEMMA FolderRowType ==
  ASSUME NEW row \in FolderRows, NEW f \in FolderRefs, NEW path \in Paths
  PROVE  [row EXCEPT !.parent = f, !.path = path] \in FolderRows
BY DEF FolderRows

LEMMA RowsType ==
  ASSUME TypeOK
  PROVE  /\ \A f \in Folders : f \in FolderIds /\ folder[f] \in FolderRows
         /\ \A a \in Assets : a \in AssetIds /\ asset[a] \in AssetRows
         /\ \A path : At(path) \subseteq Folders
         /\ LegacyRows \subseteq Folders
BY DEF TypeOK, Folders, Assets, At, LegacyRows, Fresh, Gone, FolderRows, AssetRows

\* The requests a migration or a seeding leads to.
LEMMA MigrationType ==
  ASSUME NEW seeds \in BOOLEAN, NEW rows \in SUBSET FolderIds, NEW root \in FolderRefs,
         NEW pc \in Migrations
  PROVE  Migration(seeds, pc, rows, root) \in Migrating
BY DEF Migration, Migrating, FolderRefs

LEMMA AfterMigrationType ==
  ASSUME NEW seeds \in BOOLEAN
  PROVE  AfterMigration(seeds) \in Calls
BY DEF AfterMigration, Marking, Idle, Calls, Seeding, FolderRefs

LEMMA NextRowType ==
  ASSUME NEW r \in Migrating
  PROVE  NextRow(r) \in Calls
<1>1. CASE r.rows # {}
  <2>1. NextRow(r) \in Migrating
    BY <1>1 DEF NextRow, Migrating, Migrations
  <2> QED BY <2>1 DEF Calls
<1>2. CASE r.rows = {}
  <2>1. r.seeds \in BOOLEAN
    BY DEF Migrating
  <2> QED BY <1>2, <2>1, AfterMigrationType DEF NextRow
<1> QED BY <1>1, <1>2

LEMMA PutType ==
  ASSUME NEW a \in AssetIds, NEW f \in FolderRefs, NEW dir \in Paths,
         NEW name \in FileNames
  PROVE  /\ Put(a, f, dir, name) \in Uploading
         /\ [Put(a, f, dir, name) EXCEPT !.pc = "fallback"] \in Uploading
BY DEF Put, Uploading, Keys

\* One request changes; the rest of TypeOK is about rows and objects.
LEMMA RequestStays ==
  ASSUME TypeOK, NEW p \in Requests, NEW r \in Calls, fileReq' = [fileReq EXCEPT ![p] = r]
  PROVE  fileReq' \in [Requests -> Calls]
BY DEF TypeOK, Calls

LEMMA InsertType ==
  ASSUME TypeOK, NEW f \in FolderIds, NEW path \in Paths, NEW parent \in FolderRefs,
         Insert(f, path, parent)
  PROVE  folder' \in [FolderIds -> FolderRows \cup {Fresh, Gone}]
<1>1. [is |-> "row", path |-> path, parent |-> parent] \in FolderRows
  BY DEF FolderRows
<1> QED BY <1>1 DEF Insert, TypeOK

LEMMA ThrowType ==
  ASSUME TypeOK, NEW p \in Requests, Throw(p)
  PROVE  /\ fileReq' \in [Requests -> Calls]
         /\ seeding' \in {"due", "running", "done", "broken"}
         /\ dropped' = dropped /\ tainted' = tainted /\ renamed' = renamed
BY DEF Throw, Done, TypeOK, Calls

LEMMA TypeParts ==
  TypeOK <=>
    /\ folder \in [FolderIds -> FolderRows \cup {Fresh, Gone}]
    /\ asset \in [AssetIds -> AssetRows \cup {Fresh, Gone}]
    /\ object \subseteq [key : Keys, content : AssetIds]
    /\ fileReq \in [Requests -> Calls]
    /\ seeding \in {"due", "running", "done", "broken"}
    /\ dropped \subseteq Names /\ tainted \subseteq AssetIds /\ renamed \subseteq AssetIds
BY DEF TypeOK, Calls

LEMMA TypePartsNext ==
  TypeOK' <=>
    /\ folder' \in [FolderIds -> FolderRows \cup {Fresh, Gone}]
    /\ asset' \in [AssetIds -> AssetRows \cup {Fresh, Gone}]
    /\ object' \subseteq [key : Keys, content : AssetIds]
    /\ fileReq' \in [Requests -> Calls]
    /\ seeding' \in {"due", "running", "done", "broken"}
    /\ dropped' \subseteq Names /\ tainted' \subseteq AssetIds /\ renamed' \subseteq AssetIds
BY DEF TypeOK, Calls

LEMMA TypeInit == Init => TypeOK
<1> SUFFICES ASSUME Init PROVE TypeOK
  OBVIOUS
<1>1. folder \in [FolderIds -> FolderRows \cup {Fresh, Gone}]
  <2>1. PICK there \in SUBSET Legacy : \E id \in [there -> FolderIds] :
          folder = [f \in FolderIds |->
            IF \E n \in there : id[n] = f
            THEN [is |-> "row", parent |-> NoFolder,
                  path |-> TopLevel(CHOOSE n \in there : id[n] = f)]
            ELSE Fresh]
    BY DEF Init
  <2>2. PICK id \in [there -> FolderIds] :
          folder = [f \in FolderIds |->
            IF \E n \in there : id[n] = f
            THEN [is |-> "row", parent |-> NoFolder,
                  path |-> TopLevel(CHOOSE n \in there : id[n] = f)]
            ELSE Fresh]
    BY <2>1
  <2>3. \A f \in FolderIds : (\E n \in there : id[n] = f)
          => (CHOOSE n \in there : id[n] = f) \in there
    OBVIOUS
  <2>4. \A n \in there :
          [is |-> "row", parent |-> NoFolder, path |-> TopLevel(n)] \in FolderRows
    BY PathTypes DEF FolderRows, FolderRefs
  <2> QED BY <2>2, <2>3, <2>4
<1>2. seeding \in {"due", "running", "done", "broken"}
  BY DEF Init
<1>3. asset \in [AssetIds -> AssetRows \cup {Fresh, Gone}]
  BY DEF Init
<1>4. fileReq \in [Requests -> Calls]
  BY DEF Init, Calls
<1> QED BY <1>1, <1>2, <1>3, <1>4, TypeParts DEF Init

LEMMA StoredAtType ==
  ASSUME TypeOK, NEW key
  PROVE  StoredAt(key) \subseteq AssetIds
<1>1. \A q \in Requests : fileReq[q].pc = "insertAsset" => fileReq[q].asset \in AssetIds
  BY TypeParts, Shapes DEF Uploading
<1> QED BY <1>1 DEF StoredAt, Assets

\* A step keeps every variable of Files in its type.
LEMMA TypeStep == TypeOK /\ [Next]_filesVars => TypeOK'
<1> SUFFICES ASSUME TypeOK, [Next]_filesVars PROVE TypeOK'
  OBVIOUS
<1>t. /\ folder \in [FolderIds -> FolderRows \cup {Fresh, Gone}]
      /\ asset \in [AssetIds -> AssetRows \cup {Fresh, Gone}]
      /\ object \subseteq [key : Keys, content : AssetIds]
      /\ fileReq \in [Requests -> Calls]
      /\ seeding \in {"due", "running", "done", "broken"}
      /\ dropped \subseteq Names /\ tainted \subseteq AssetIds /\ renamed \subseteq AssetIds
  BY TypeParts
<1>d. \A p \in Requests : Done(p) => fileReq' \in [Requests -> Calls]
  BY <1>t DEF Done, Calls
<1>r. \A p \in Requests, r \in Calls :
        fileReq' = [fileReq EXCEPT ![p] = r] => fileReq' \in [Requests -> Calls]
  BY <1>t
<1>u. NoFolder \in FolderRefs /\ FolderIds \subseteq FolderRefs
  BY DEF FolderRefs
<1>1. ASSUME NEW p \in Requests, NEW n \in Names, StartCreate(p, n) PROVE TypeOK'
  <2>1. [pc |-> "insertFolder", parent |-> NoFolder, path |-> TopLevel(n)] \in Calls
    BY <1>u, PathTypes DEF Creating, Calls
  <2>2. \A f \in Folders :
          [pc |-> "insertFolder", parent |-> f, path |-> ChildPath(f, n)] \in Calls
    <3> TAKE f \in Folders
    <3>1. f \in FolderRefs /\ folder[f].path \in Paths
      BY <1>u, RowsType DEF FolderRows
    <3>2. ChildPath(f, n) \in Paths
      BY <3>1, PathTypes DEF ChildPath
    <3> QED BY <3>1, <3>2 DEF Creating, Calls
  <2>3. fileReq' \in [Requests -> Calls]
    BY <1>1, <1>t, <2>1, <2>2 DEF StartCreate
  <2> QED BY <1>1, <1>t, <2>3, TypePartsNext DEF StartCreate, historyVars
<1>2. ASSUME NEW p \in Requests, InsertFolder(p) PROVE TypeOK'
  <2>1. fileReq[p] \in Creating
    BY <1>2, <1>t, Shapes DEF InsertFolder
  <2>2. fileReq[p].path \in Paths /\ fileReq[p].parent \in FolderRefs
    BY <2>1 DEF Creating
  <2>3. folder' \in [FolderIds -> FolderRows \cup {Fresh, Gone}]
    BY <1>2, <1>t, <2>2, InsertType DEF InsertFolder
  <2> QED BY <1>2, <1>t, <1>d, <2>3, TypePartsNext DEF InsertFolder, historyVars
<1>3. ASSUME NEW p \in Requests, NEW f \in FolderIds, StartDrop(p, f) PROVE TypeOK'
  <2>1. [pc |-> "deleteFolder", folder |-> f] \in Calls
    BY DEF Dropping, Calls
  <2> QED BY <1>3, <1>t, <1>r, <2>1, TypePartsNext DEF StartDrop, historyVars
<1>4. ASSUME NEW p \in Requests, DeleteFolder(p) PROVE TypeOK'
  <2>1. folder' \in [FolderIds -> FolderRows \cup {Fresh, Gone}]
    BY <1>4, <1>t DEF DeleteFolder
  <2>2. \A a \in Assets : [asset[a] EXCEPT !.folder = NoFolder] \in AssetRows
    BY <1>u, RowsType DEF AssetRows
  <2>3. asset' \in [AssetIds -> AssetRows \cup {Fresh, Gone}]
    BY <1>4, <1>t, <2>2 DEF DeleteFolder
  <2>4. dropped' \subseteq Names
    BY <1>4, <1>t DEF DeleteFolder
  <2> QED BY <1>4, <1>t, <1>d, <2>1, <2>3, <2>4, TypePartsNext DEF DeleteFolder
<1>5. ASSUME NEW p \in Requests, NEW seeds \in BOOLEAN, Migrate(p, seeds) PROVE TypeOK'
  <2>1. LegacyRows \in SUBSET FolderIds
    BY RowsType
  <2>2. Migration(seeds, "findRoot", LegacyRows, NoFolder) \in Calls
    BY <1>u, <2>1, MigrationType DEF Migrations, Calls
  <2>3. fileReq' \in [Requests -> Calls]
    BY <1>5, <1>t, <2>2, AfterMigrationType DEF Migrate
  <2>4. seeding' \in {"due", "running", "done", "broken"}
    BY <1>5, <1>t DEF Migrate
  <2> QED BY <1>5, <1>t, <2>3, <2>4, TypePartsNext DEF Migrate
<1>6. ASSUME NEW p \in Requests, FindRoot(p) PROVE TypeOK'
  <2>1. fileReq[p] \in Migrating
    BY <1>6, <1>t, Shapes DEF FindRoot, Migrations
  <2>2. [fileReq[p] EXCEPT !.pc = "addRoot"] \in Calls
    BY <2>1 DEF Migrating, Migrations, Calls
  <2>3. fileReq[p].seeds \in BOOLEAN /\ fileReq[p].rows \in SUBSET FolderIds
    BY <2>1 DEF Migrating
  <2>4. \A f \in At(Root) : Migration(fileReq[p].seeds, "reparent", fileReq[p].rows, f) \in Calls
    BY <1>u, <2>3, RowsType, MigrationType DEF Migrations, Calls
  <2>5. fileReq' \in [Requests -> Calls]
    BY <1>6, <1>t, <2>2, <2>4 DEF FindRoot
  <2> QED BY <1>6, <1>t, <2>5, TypePartsNext DEF FindRoot, historyVars
<1>7. ASSUME NEW p \in Requests, AddRoot(p) PROVE TypeOK'
  <2>1. fileReq[p] \in Migrating
    BY <1>7, <1>t, Shapes DEF AddRoot, Migrations
  <2>2. fileReq[p].seeds \in BOOLEAN /\ fileReq[p].rows \in SUBSET FolderIds
    BY <2>1 DEF Migrating
  <2>3. \A f \in FolderIds : Migration(fileReq[p].seeds, "reparent", fileReq[p].rows, f) \in Calls
    BY <1>u, <2>2, MigrationType DEF Migrations, Calls
  <2>4. CASE Throw(p) /\ UNCHANGED folder
    BY <1>7, <1>t, <2>4, ThrowType, TypePartsNext DEF AddRoot
  <2>5. ASSUME NEW f \in FolderIds, Insert(f, Root, NoFolder), UNCHANGED historyVars,
               fileReq' = [fileReq EXCEPT ![p] =
                             Migration(fileReq[p].seeds, "reparent", fileReq[p].rows, f)]
        PROVE  TypeOK'
    <3>1. folder' \in [FolderIds -> FolderRows \cup {Fresh, Gone}]
      BY <1>u, <2>5, PathTypes, InsertType
    <3> QED BY <1>7, <1>t, <1>r, <2>3, <2>5, <3>1, TypePartsNext DEF AddRoot, historyVars
  <2> QED BY <1>7, <2>4, <2>5 DEF AddRoot
<1>8. ASSUME NEW p \in Requests, Reparent(p) PROVE TypeOK'
  <2>1. fileReq[p] \in Migrating
    BY <1>8, <1>t, Shapes DEF Reparent, Migrations
  <2>2. PICK f \in fileReq[p].rows :
          IF f \in Folders /\ fileReq[p].root \in Folders
               /\ At(Moved(folder[f].path)) \subseteq {f}
          THEN /\ folder' = [folder EXCEPT ![f].parent = fileReq[p].root,
                                           ![f].path = Moved(@)]
               /\ fileReq' = [fileReq EXCEPT ![p] =
                    [fileReq[p] EXCEPT !.pc = "listFiles", !.row = f, !.rows = @ \ {f}]]
               /\ UNCHANGED historyVars
          ELSE Throw(p) /\ UNCHANGED folder
    BY <1>8 DEF Reparent
  <2>3. CASE Throw(p) /\ UNCHANGED folder
    BY <1>8, <1>t, <2>3, ThrowType, TypePartsNext DEF Reparent
  <2>4. CASE /\ f \in Folders /\ fileReq[p].root \in Folders
             /\ folder' = [folder EXCEPT ![f].parent = fileReq[p].root,
                                         ![f].path = Moved(@)]
             /\ fileReq' = [fileReq EXCEPT ![p] =
                  [fileReq[p] EXCEPT !.pc = "listFiles", !.row = f, !.rows = @ \ {f}]]
             /\ UNCHANGED historyVars
    <3>1. [fileReq[p] EXCEPT !.pc = "listFiles", !.row = f, !.rows = @ \ {f}] \in Calls
      BY <1>u, <2>1, <2>4, RowsType DEF Migrating, Migrations, Calls
    <3>2. folder[f] \in FolderRows /\ f \in FolderIds /\ fileReq[p].root \in FolderRefs
      BY <1>u, <2>4, RowsType
    <3>3. Moved(folder[f].path) \in Paths
      BY <3>2, PathTypes DEF FolderRows
    <3>4. folder' = [folder EXCEPT ![f] =
            [folder[f] EXCEPT !.parent = fileReq[p].root, !.path = Moved(folder[f].path)]]
      BY <1>t, <2>4, <3>2 DEF FolderRows
    <3>5. folder' \in [FolderIds -> FolderRows \cup {Fresh, Gone}]
      BY <1>t, <3>2, <3>3, <3>4, FolderRowType
    <3> QED BY <1>8, <1>t, <1>r, <2>4, <3>1, <3>5, TypePartsNext DEF Reparent, historyVars
  <2> QED BY <2>2, <2>3, <2>4
<1>9. ASSUME NEW p \in Requests, ListFiles(p) PROVE TypeOK'
  <2> DEFINE todo == { a \in Assets :
                         /\ asset[a].folder = fileReq[p].row
                         /\ ~ asset[a].key.dir.under
                         /\ Len(asset[a].key.dir.rest) = 1 }
  <2>1. fileReq[p] \in Migrating
    BY <1>9, <1>t, Shapes DEF ListFiles, Migrations
  <2>2. todo \subseteq AssetIds
    BY RowsType
  <2>3. fileReq' = [fileReq EXCEPT ![p] =
          IF todo = {} THEN NextRow(fileReq[p])
          ELSE [fileReq[p] EXCEPT !.pc = "rename", !.todo = todo]]
    BY <1>9 DEF ListFiles
  <2> HIDE DEF todo
  <2>4. [fileReq[p] EXCEPT !.pc = "rename", !.todo = todo] \in Calls
    BY <2>1, <2>2 DEF Migrating, Migrations, Calls
  <2>5. fileReq' \in [Requests -> Calls]
    BY <1>t, <2>1, <2>3, <2>4, NextRowType
  <2> QED BY <1>9, <1>t, <2>5, TypePartsNext DEF ListFiles, historyVars
<1>10. ASSUME NEW p \in Requests, Rename(p) PROVE TypeOK'
  <2>1. fileReq[p] \in Migrating
    BY <1>10, <1>t, Shapes DEF Rename, Migrations
  <2>2. PICK a \in fileReq[p].todo :
          IF a \in Assets
          THEN /\ asset' = [asset EXCEPT ![a].key.dir = Moved(@)]
               /\ renamed' = renamed \cup {a}
               /\ fileReq' = [fileReq EXCEPT ![p] =
                    IF fileReq[p].todo = {a} THEN NextRow(fileReq[p])
                    ELSE [fileReq[p] EXCEPT !.todo = @ \ {a}]]
               /\ UNCHANGED <<seeding, dropped, tainted>>
          ELSE Throw(p) /\ UNCHANGED asset
    BY <1>10 DEF Rename
  <2>3. CASE a \notin Assets
    BY <1>10, <1>t, <2>2, <2>3, ThrowType, TypePartsNext DEF Rename
  <2>4. CASE a \in Assets
    <3>1. [fileReq[p] EXCEPT !.todo = @ \ {a}] \in Calls
      BY <2>1 DEF Migrating, Calls
    <3>2. fileReq' \in [Requests -> Calls]
      BY <1>t, <2>1, <2>2, <2>4, <3>1, NextRowType
    <3>3. a \in AssetIds /\ asset[a] \in AssetRows
      BY <2>4, RowsType
    <3>4. Moved(asset[a].key.dir) \in Paths
      BY <3>3, PathTypes DEF AssetRows, Keys
    <3>5. [asset[a] EXCEPT !.key = [@ EXCEPT !.dir = Moved(asset[a].key.dir)]] \in AssetRows
      BY <3>3, <3>4 DEF AssetRows, Keys
    <3>6. asset' = [asset EXCEPT ![a] =
            [asset[a] EXCEPT !.key = [@ EXCEPT !.dir = Moved(asset[a].key.dir)]]]
      BY <1>t, <2>2, <2>4, <3>3 DEF AssetRows, Keys
    <3>7. asset' \in [AssetIds -> AssetRows \cup {Fresh, Gone}]
      BY <1>t, <3>3, <3>5, <3>6
    <3> QED BY <1>10, <1>t, <2>2, <2>4, <3>2, <3>3, <3>7, TypePartsNext DEF Rename
  <2> QED BY <2>3, <2>4
<1>11. ASSUME NEW p \in Requests, Marker(p) PROVE TypeOK'
  <2>1. fileReq[p] \in Seeding
    BY <1>11, <1>t, Shapes DEF Marker
  <2>2. [fileReq[p] EXCEPT !.pc = "seedRoot"] \in Calls
    BY <2>1 DEF Seeding, Calls
  <2>3. CASE Throw(p)
    BY <1>11, <1>t, <2>3, ThrowType, TypePartsNext DEF Marker
  <2>4. CASE fileReq' = [fileReq EXCEPT ![p].pc = "seedRoot"] /\ UNCHANGED historyVars
    <3>1. fileReq' = [fileReq EXCEPT ![p] = [fileReq[p] EXCEPT !.pc = "seedRoot"]]
      BY <2>4
    <3> QED BY <1>11, <1>t, <1>r, <2>2, <2>4, <3>1, TypePartsNext DEF Marker, historyVars
  <2> QED BY <1>11, <2>3, <2>4 DEF Marker
<1>12. ASSUME NEW p \in Requests, SeedRoot(p) PROVE TypeOK'
  <2>1. CASE Throw(p) /\ UNCHANGED folder
    BY <1>12, <1>t, <2>1, ThrowType, TypePartsNext DEF SeedRoot
  <2>2. ASSUME NEW f \in FolderIds, Insert(f, Root, NoFolder), UNCHANGED historyVars,
               fileReq' = [fileReq EXCEPT ![p] =
                             [pc |-> "leaf", left |-> Leaves, root |-> f]]
        PROVE  TypeOK'
    <3>1. folder' \in [FolderIds -> FolderRows \cup {Fresh, Gone}]
      BY <1>u, <2>2, PathTypes, InsertType
    <3>2. [pc |-> "leaf", left |-> Leaves, root |-> f] \in Calls
      BY <1>u DEF Seeding, Calls
    <3> QED BY <1>12, <1>t, <1>r, <2>2, <3>1, <3>2, TypePartsNext DEF SeedRoot, historyVars
  <2> QED BY <1>12, <2>1, <2>2 DEF SeedRoot
<1>13. ASSUME NEW p \in Requests, SeedLeaf(p) PROVE TypeOK'
  <2>1. fileReq[p] \in Seeding
    BY <1>13, <1>t, Shapes DEF SeedLeaf
  <2>2. CASE Throw(p) /\ UNCHANGED folder
    BY <1>13, <1>t, <2>2, ThrowType, TypePartsNext DEF SeedLeaf
  <2>3. ASSUME NEW n \in fileReq[p].left, NEW f \in FolderIds,
               Insert(f, InRoot(n), fileReq[p].root),
               IF fileReq[p].left = {n}
               THEN Done(p) /\ seeding' = "done"
               ELSE /\ fileReq' = [fileReq EXCEPT ![p].left = @ \ {n}]
                    /\ UNCHANGED seeding,
               UNCHANGED <<dropped, tainted, renamed>>
        PROVE  TypeOK'
    <3>1. n \in Names /\ fileReq[p].root \in FolderRefs
      BY <2>1, PathTypes DEF Seeding
    <3>2. folder' \in [FolderIds -> FolderRows \cup {Fresh, Gone}]
      BY <2>3, <3>1, PathTypes, InsertType
    <3>3. [fileReq[p] EXCEPT !.left = @ \ {n}] \in Calls
      BY <2>1 DEF Seeding, Calls
    <3>4. fileReq' \in [Requests -> Calls]
      BY <1>t, <1>d, <2>3, <3>3
    <3>5. seeding' \in {"due", "running", "done", "broken"}
      BY <1>t, <2>3
    <3> QED BY <1>13, <1>t, <2>3, <3>2, <3>4, <3>5, TypePartsNext DEF SeedLeaf
  <2> QED BY <1>13, <2>2, <2>3 DEF SeedLeaf
<1>14. ASSUME NEW p \in Requests, NEW a \in AssetIds, NEW name \in FileNames,
              NEW f \in FolderIds, UploadTo(p, a, name, f)
       PROVE  TypeOK'
  <2>1. f \in FolderRefs /\ folder[f].path \in Paths
    BY <1>14, <1>u, RowsType DEF UploadTo, FolderRows
  <2>2. Put(a, f, folder[f].path, name) \in Calls
    BY <2>1, PutType DEF Calls
  <2> QED BY <1>14, <1>t, <1>r, <2>2, TypePartsNext DEF UploadTo, historyVars
<1>15. ASSUME NEW p \in Requests, NEW a \in AssetIds, NEW name \in FileNames,
              NEW n \in Names, UploadRouted(p, a, name, n)
       PROVE  TypeOK'
  <2>1. [Put(a, NoFolder, Base, name) EXCEPT !.pc = "fallback"] \in Calls
    BY <1>u, PathTypes, PutType DEF Calls
  <2>2. \A f \in At(InRoot(n)) : Put(a, f, InRoot(n), name) \in Calls
    BY <1>u, RowsType, PathTypes, PutType DEF Calls
  <2>3. At(InRoot(n)) # {} => (CHOOSE f \in At(InRoot(n)) : TRUE) \in At(InRoot(n))
    OBVIOUS
  <2>4. fileReq' \in [Requests -> Calls]
    BY <1>15, <1>t, <2>1, <2>2, <2>3 DEF UploadRouted
  <2> QED BY <1>15, <1>t, <2>4, TypePartsNext DEF UploadRouted, historyVars
<1>16. ASSUME NEW p \in Requests, Fallback(p) PROVE TypeOK'
  <2>1. fileReq[p] \in Uploading
    BY <1>16, <1>t, Shapes DEF Fallback
  <2>2. fileReq[p].asset \in AssetIds /\ fileReq[p].key.name \in FileNames
    BY <2>1 DEF Uploading, Keys
  <2>3. [fileReq[p] EXCEPT !.pc = "put"] \in Calls
    BY <2>1 DEF Uploading, Calls
  <2>4. \A f \in At(InRoot("general")) :
          Put(fileReq[p].asset, f, InRoot("general"), fileReq[p].key.name) \in Calls
    BY <1>u, <2>2, RowsType, PathTypes, PutType DEF Calls
  <2>5. At(InRoot("general")) # {}
          => (CHOOSE f \in At(InRoot("general")) : TRUE) \in At(InRoot("general"))
    OBVIOUS
  <2>6. fileReq' \in [Requests -> Calls]
    BY <1>16, <1>t, <2>3, <2>4, <2>5 DEF Fallback
  <2> QED BY <1>16, <1>t, <2>6, TypePartsNext DEF Fallback, historyVars
<1>17. ASSUME NEW p \in Requests, PutObject(p) PROVE TypeOK'
  <2>1. fileReq[p] \in Uploading
    BY <1>17, <1>t, Shapes DEF PutObject
  <2>2. fileReq[p].asset \in AssetIds /\ fileReq[p].key \in Keys
    BY <2>1 DEF Uploading
  <2>3. object' \subseteq [key : Keys, content : AssetIds]
    BY <1>17, <1>t, <2>2 DEF PutObject, With, Without
  <2>4. [fileReq[p] EXCEPT !.pc = "insertAsset"] \in Calls
    BY <2>1 DEF Uploading, Calls
  <2>5. fileReq' \in [Requests -> Calls]
    BY <1>17, <1>t, <2>4 DEF PutObject
  <2>6. tainted' \subseteq AssetIds
    BY <1>17, <1>t, <2>2, StoredAtType DEF PutObject
  <2> QED BY <1>17, <1>t, <2>3, <2>5, <2>6, TypePartsNext DEF PutObject
<1>18. ASSUME NEW p \in Requests, InsertAsset(p) PROVE TypeOK'
  <2>1. fileReq[p] \in Uploading
    BY <1>18, <1>t, Shapes DEF InsertAsset
  <2>2. [is |-> "row", key |-> fileReq[p].key, folder |-> fileReq[p].folder] \in AssetRows
    BY <2>1 DEF Uploading, AssetRows
  <2>3. asset' \in [AssetIds -> AssetRows \cup {Fresh, Gone}]
    BY <1>18, <1>t, <2>2 DEF InsertAsset
  <2> QED BY <1>18, <1>t, <1>d, <2>3, TypePartsNext DEF InsertAsset, historyVars
<1>19. ASSUME NEW p \in Requests, NEW a \in AssetIds, StartRemove(p, a) PROVE TypeOK'
  <2>1. asset[a].key \in Keys
    BY <1>19, RowsType DEF StartRemove, AssetRows
  <2>2. [pc |-> "unlink", asset |-> a, key |-> asset[a].key] \in Calls
    BY <2>1 DEF Removing, Calls
  <2>3. tainted' \subseteq AssetIds
    BY <1>19, <1>t, StoredAtType DEF StartRemove
  <2> QED BY <1>19, <1>t, <1>r, <2>2, <2>3, TypePartsNext DEF StartRemove
<1>20. ASSUME NEW p \in Requests, Unlink(p) PROVE TypeOK'
  <2>1. fileReq[p] \in Removing
    BY <1>20, <1>t, Shapes DEF Unlink
  <2>2. [fileReq[p] EXCEPT !.pc = "deleteAsset"] \in Calls
    BY <2>1 DEF Removing, Calls
  <2>3. fileReq' \in [Requests -> Calls]
    BY <1>20, <1>t, <2>2 DEF Unlink
  <2>4. object' \subseteq [key : Keys, content : AssetIds]
    BY <1>20, <1>t DEF Unlink, Without
  <2> QED BY <1>20, <1>t, <2>3, <2>4, TypePartsNext DEF Unlink, historyVars
<1>21. ASSUME NEW p \in Requests, DeleteAsset(p) PROVE TypeOK'
  <2>1. asset' \in [AssetIds -> AssetRows \cup {Fresh, Gone}]
    BY <1>21, <1>t DEF DeleteAsset
  <2> QED BY <1>21, <1>t, <1>d, <2>1, TypePartsNext DEF DeleteAsset, historyVars
<1>22. ASSUME NEW p \in Requests, Fail(p) PROVE TypeOK'
  BY <1>22, <1>t, ThrowType, TypePartsNext DEF Fail
<1>23. CASE UNCHANGED filesVars
  BY <1>23, <1>t, TypePartsNext DEF filesVars
<1> QED
  BY <1>1, <1>2, <1>3, <1>4, <1>5, <1>6, <1>7, <1>8, <1>9, <1>10, <1>11, <1>12,
     <1>13, <1>14, <1>15, <1>16, <1>17, <1>18, <1>19, <1>20, <1>21, <1>22, <1>23
  DEF Next

\* The rows, objects and requests have their types, for any instance.
THEOREM TypeCorrect == Spec => []TypeOK
BY TypeInit, TypeStep, PTL DEF Spec

(***************************************************************************)
(* FilesReadable.  What holds of a row holds of the upload that is about   *)
(* to insert it, and a delete that has read a key has spoilt every upload  *)
(* under it.                                                               *)
(***************************************************************************)

Excused == tainted \cup renamed

\* Content and StoredAt over any storage, rows and requests.
ContentIn(store, key) == { o.content : o \in { x \in store : x.key = key } }

StoredIn(rows, calls, key) ==
  { a \in AssetIds : rows[a].is = "row" /\ rows[a].key = key }
    \cup { calls[q].asset : q \in { x \in Requests :
             calls[x].pc = "insertAsset" /\ calls[x].key = key } }

UploadsKept ==
  /\ \A p \in Requests :
       fileReq[p].pc = "insertAsset" /\ fileReq[p].asset \notin Excused
         => ContentIn(object, fileReq[p].key) = {fileReq[p].asset}
  /\ \A p \in Requests : fileReq[p].pc = "unlink"
       => StoredIn(asset, fileReq, fileReq[p].key) \subseteq Excused

LEMMA ReadableParts ==
  /\ FilesReadable <=>
       \A a \in Assets \ Excused : ContentIn(object, asset[a].key) = {a}
  /\ FilesReadable' <=>
       \A a \in Assets' \ Excused' : ContentIn(object', asset'[a].key) = {a}
  /\ \A key : StoredAt(key) = StoredIn(asset, fileReq, key)
<1>1. FilesReadable <=>
        \A a \in Assets \ Excused : ContentIn(object, asset[a].key) = {a}
  BY DEF FilesReadable, Content, ContentIn, Excused
<1>2. FilesReadable' <=>
        \A a \in Assets' \ Excused' : ContentIn(object', asset'[a].key) = {a}
  BY DEF FilesReadable, Content, ContentIn, Excused
<1>3. \A key : StoredAt(key) = StoredIn(asset, fileReq, key)
  BY DEF StoredAt, StoredIn, Assets
<1> QED BY <1>1, <1>2, <1>3

\* What storing and removing leave under each key.
LEMMA StoreContent ==
  ASSUME NEW key, NEW a
  PROVE  /\ ContentIn(With(key, a), key) = {a}
         /\ \A other : other # key => ContentIn(With(key, a), other) = ContentIn(object, other)
<1>1. ContentIn(With(key, a), key) = {a}
  <2> DEFINE o == [key |-> key, content |-> a]
  <2>1. \A x \in With(key, a) : x.key = key <=> x = o
    BY DEF With, Without
  <2>2. o \in With(key, a) /\ o.content = a
    BY DEF With
  <2> HIDE DEF o
  <2>3. { x \in With(key, a) : x.key = key } = {o}
    BY <2>1, <2>2
  <2> QED BY <2>2, <2>3 DEF ContentIn
<1>2. ASSUME NEW other, other # key
      PROVE  ContentIn(With(key, a), other) = ContentIn(object, other)
  BY <1>2 DEF With, Without, ContentIn
<1> QED BY <1>1, <1>2

LEMMA RemoveContent ==
  ASSUME NEW key
  PROVE  \A other : other # key => ContentIn(Without(key), other) = ContentIn(object, other)
BY DEF Without, ContentIn

\* What is stored under a key after a step that keeps the keys of the rows there
\* and begins no insert.
LEMMA StoredQuiet ==
  ASSUME NEW key,
         \A a \in Assets' : a \in Assets /\ (asset'[a].key = asset[a].key \/ a \in Excused'),
         \A q \in Requests : fileReq'[q].pc = "insertAsset" => fileReq'[q] = fileReq[q]
  PROVE  StoredIn(asset', fileReq', key) \subseteq StoredIn(asset, fileReq, key) \cup Excused'
BY DEF StoredIn, Assets

\* A step that touches no object, keeps the keys and begins no insert or delete.
LEMMA ReadableQuiet ==
  ASSUME FilesReadable, UploadsKept, UNCHANGED object, Excused \subseteq Excused',
         \A a \in Assets' : a \in Assets /\ (asset'[a].key = asset[a].key \/ a \in Excused'),
         \A q \in Requests : fileReq'[q].pc \in {"insertAsset", "unlink"}
                               => fileReq'[q] = fileReq[q]
  PROVE  FilesReadable' /\ UploadsKept'
<1>1. FilesReadable'
  BY ReadableParts
<1>2. ASSUME NEW p \in Requests, fileReq'[p].pc = "insertAsset",
             fileReq'[p].asset \notin Excused'
      PROVE  ContentIn(object', fileReq'[p].key) = {fileReq'[p].asset}
  BY <1>2 DEF UploadsKept
<1>3. ASSUME NEW p \in Requests, fileReq'[p].pc = "unlink"
      PROVE  StoredIn(asset', fileReq', fileReq'[p].key) \subseteq Excused'
  <2>1. fileReq'[p] = fileReq[p]
    BY <1>3
  <2>2. StoredIn(asset, fileReq, fileReq[p].key) \subseteq Excused
    BY <1>3, <2>1 DEF UploadsKept
  <2> QED BY <2>1, <2>2, StoredQuiet
<1>4. UploadsKept'
  BY <1>2, <1>3 DEF UploadsKept
<1> QED BY <1>1, <1>4

\* A step changes one request.
LEMMA OneRequest ==
  ASSUME TypeOK, NEW p \in Requests, NEW r, fileReq' = [fileReq EXCEPT ![p] = r]
  PROVE  fileReq'[p] = r /\ \A q \in Requests \ {p} : fileReq'[q] = fileReq[q]
BY TypeParts

\* A request goes where it neither inserts an asset nor removes an object next.
Elsewhere(p) ==
  /\ fileReq'[p].pc \notin {"insertAsset", "unlink"}
  /\ \A q \in Requests \ {p} : fileReq'[q] = fileReq[q]

LEMMA DoneElsewhere ==
  ASSUME TypeOK, NEW p \in Requests, Done(p) \/ Throw(p)
  PROVE  Elsewhere(p)
BY OneRequest DEF Done, Throw, Idle, Elsewhere

LEMMA NextRowElsewhere ==
  ASSUME NEW r \in Migrating
  PROVE  NextRow(r).pc \notin {"insertAsset", "unlink", "insertFolder"}
BY DEF NextRow, AfterMigration, Marking, Idle, Migrating

LEMMA ReadableElsewhere ==
  ASSUME FilesReadable, UploadsKept, NEW p \in Requests, Elsewhere(p),
         UNCHANGED <<object, tainted, renamed>>,
         \A a \in Assets' : a \in Assets /\ asset'[a].key = asset[a].key
  PROVE  FilesReadable' /\ UploadsKept'
<1>1. UNCHANGED object /\ Excused \subseteq Excused'
  BY DEF Excused
<1>2. \A q \in Requests : fileReq'[q].pc \in {"insertAsset", "unlink"}
                            => fileReq'[q] = fileReq[q]
  BY DEF Elsewhere
<1> QED BY <1>1, <1>2, ReadableQuiet

\* The three steps that store, insert and remove, and the start of a delete.
LEMMA ReadablePut ==
  ASSUME TypeOK, FilesReadable, UploadsKept, NEW p \in Requests, PutObject(p)
  PROVE  FilesReadable' /\ UploadsKept'
<1> DEFINE key == fileReq[p].key
           id == fileReq[p].asset
<1>1. /\ fileReq[p] \in Uploading /\ object' = With(key, id) /\ asset' = asset
      /\ fileReq' = [fileReq EXCEPT ![p] = [fileReq[p] EXCEPT !.pc = "insertAsset"]]
  BY TypeParts, Shapes DEF PutObject
<1>2. /\ fileReq'[p].pc = "insertAsset" /\ fileReq'[p].key = key /\ fileReq'[p].asset = id
      /\ \A q \in Requests \ {p} : fileReq'[q] = fileReq[q]
  BY <1>1, TypeParts DEF Uploading
<1>3. /\ Excused \subseteq Excused' /\ StoredIn(asset, fileReq, key) \subseteq Excused'
      /\ (\E q \in Requests : fileReq[q].pc = "unlink" /\ fileReq[q].key = key)
           => id \in Excused'
  BY ReadableParts DEF PutObject, Excused
<1>4. /\ ContentIn(object', key) = {id}
      /\ \A other : other # key => ContentIn(object', other) = ContentIn(object, other)
  BY <1>1, StoreContent
<1>5. ASSUME NEW a \in Assets' \ Excused' PROVE ContentIn(object', asset'[a].key) = {a}
  <2>1. a \in Assets /\ a \notin Excused /\ a \notin StoredIn(asset, fileReq, key)
    BY <1>1, <1>3, <1>5 DEF Assets
  <2>2. asset[a].key # key
    BY <2>1 DEF StoredIn, Assets
  <2> QED BY <1>1, <1>4, <2>1, <2>2, ReadableParts
<1>6. ASSUME NEW q \in Requests, fileReq'[q].pc = "insertAsset",
             fileReq'[q].asset \notin Excused'
      PROVE  ContentIn(object', fileReq'[q].key) = {fileReq'[q].asset}
  <2>1. CASE q = p
    BY <1>2, <1>4, <2>1
  <2>2. CASE q # p
    <3>1. fileReq'[q] = fileReq[q] /\ fileReq[q].asset \notin Excused
      BY <1>2, <1>3, <1>6, <2>2
    <3>2. fileReq[q].key # key
      BY <1>3, <1>6, <3>1 DEF StoredIn
    <3> QED BY <1>4, <1>6, <3>1, <3>2 DEF UploadsKept
  <2> QED BY <2>1, <2>2
<1>7. ASSUME NEW q \in Requests, fileReq'[q].pc = "unlink"
      PROVE  StoredIn(asset', fileReq', fileReq'[q].key) \subseteq Excused'
  <2>1. q # p /\ fileReq'[q] = fileReq[q] /\ fileReq[q].pc = "unlink"
    BY <1>2, <1>7
  <2>2. StoredIn(asset, fileReq, fileReq[q].key) \subseteq Excused
    BY <2>1 DEF UploadsKept
  <2>3. StoredIn(asset', fileReq', fileReq[q].key)
          \subseteq StoredIn(asset, fileReq, fileReq[q].key)
                      \cup { x \in {id} : fileReq[q].key = key }
    BY <1>1, <1>2 DEF StoredIn
  <2> QED BY <1>3, <2>1, <2>2, <2>3
<1> QED BY <1>5, <1>6, <1>7, ReadableParts DEF UploadsKept

LEMMA ReadableInsert ==
  ASSUME TypeOK, FilesReadable, UploadsKept, NEW p \in Requests, InsertAsset(p)
  PROVE  FilesReadable' /\ UploadsKept'
<1> DEFINE key == fileReq[p].key
           id == fileReq[p].asset
<1>1. fileReq[p].pc = "insertAsset" /\ object' = object /\ Excused' = Excused
  BY DEF InsertAsset, historyVars, Excused
<1>2. fileReq'[p] = Idle /\ \A q \in Requests \ {p} : fileReq'[q] = fileReq[q]
  BY OneRequest DEF InsertAsset, Done
<1>3. \A a \in Assets' : \/ a \in Assets /\ asset'[a] = asset[a]
                         \/ a = id /\ asset'[a].key = key
  BY TypeParts DEF InsertAsset, Assets
<1>4. ASSUME NEW a \in Assets' \ Excused' PROVE ContentIn(object', asset'[a].key) = {a}
  BY <1>1, <1>3, <1>4, ReadableParts DEF UploadsKept
<1>5. ASSUME NEW q \in Requests, fileReq'[q].pc = "insertAsset",
             fileReq'[q].asset \notin Excused'
      PROVE  ContentIn(object', fileReq'[q].key) = {fileReq'[q].asset}
  BY <1>1, <1>2, <1>5 DEF UploadsKept, Idle
<1>6. ASSUME NEW q \in Requests, fileReq'[q].pc = "unlink"
      PROVE  StoredIn(asset', fileReq', fileReq'[q].key) \subseteq Excused'
  <2>1. fileReq'[q] = fileReq[q]
    BY <1>2, <1>6 DEF Idle
  <2>2. StoredIn(asset, fileReq, fileReq[q].key) \subseteq Excused
    BY <1>6, <2>1 DEF UploadsKept
  <2>3. StoredIn(asset', fileReq', fileReq[q].key)
          \subseteq StoredIn(asset, fileReq, fileReq[q].key)
    BY <1>1, <1>2, <1>3 DEF StoredIn, Assets, Idle
  <2> QED BY <1>1, <2>1, <2>2, <2>3
<1> QED BY <1>4, <1>5, <1>6, ReadableParts DEF UploadsKept

LEMMA ReadableUnlink ==
  ASSUME TypeOK, FilesReadable, UploadsKept, NEW p \in Requests, Unlink(p)
  PROVE  FilesReadable' /\ UploadsKept'
<1> DEFINE key == fileReq[p].key
<1>1. /\ fileReq[p] \in Removing /\ fileReq[p].pc = "unlink"
      /\ object' = Without(key) /\ asset' = asset /\ Excused' = Excused
      /\ fileReq' = [fileReq EXCEPT ![p] = [fileReq[p] EXCEPT !.pc = "deleteAsset"]]
  BY TypeParts, Shapes DEF Unlink, historyVars, Excused
<1>2. /\ fileReq'[p].pc = "deleteAsset"
      /\ \A q \in Requests \ {p} : fileReq'[q] = fileReq[q]
  BY <1>1, TypeParts DEF Removing
<1>3. /\ StoredIn(asset, fileReq, key) \subseteq Excused
      /\ \A other : other # key => ContentIn(object', other) = ContentIn(object, other)
  BY <1>1, RemoveContent DEF UploadsKept
<1>4. ASSUME NEW a \in Assets' \ Excused' PROVE ContentIn(object', asset'[a].key) = {a}
  <2>1. a \in Assets \ Excused /\ asset[a].key # key
    BY <1>1, <1>3, <1>4 DEF StoredIn, Assets
  <2> QED BY <1>1, <1>3, <2>1, ReadableParts
<1>5. ASSUME NEW q \in Requests, fileReq'[q].pc = "insertAsset",
             fileReq'[q].asset \notin Excused'
      PROVE  ContentIn(object', fileReq'[q].key) = {fileReq'[q].asset}
  <2>1. fileReq'[q] = fileReq[q]
    BY <1>2, <1>5
  <2>2. fileReq[q].key # key
    BY <1>1, <1>3, <1>5, <2>1 DEF StoredIn
  <2> QED BY <1>1, <1>3, <1>5, <2>1, <2>2 DEF UploadsKept
<1>6. ASSUME NEW q \in Requests, fileReq'[q].pc = "unlink"
      PROVE  StoredIn(asset', fileReq', fileReq'[q].key) \subseteq Excused'
  <2>1. fileReq'[q] = fileReq[q]
    BY <1>2, <1>6
  <2>2. StoredIn(asset, fileReq, fileReq[q].key) \subseteq Excused
    BY <1>6, <2>1 DEF UploadsKept
  <2>3. StoredIn(asset', fileReq', fileReq[q].key)
          \subseteq StoredIn(asset, fileReq, fileReq[q].key)
    BY <1>1, <1>2 DEF StoredIn
  <2> QED BY <1>1, <2>1, <2>2, <2>3
<1> QED BY <1>4, <1>5, <1>6, ReadableParts DEF UploadsKept

LEMMA ReadableStartRemove ==
  ASSUME TypeOK, FilesReadable, UploadsKept, NEW p \in Requests, NEW a \in AssetIds,
         StartRemove(p, a)
  PROVE  FilesReadable' /\ UploadsKept'
<1> DEFINE key == asset[a].key
<1>1. /\ object' = object /\ asset' = asset /\ Excused \subseteq Excused'
      /\ StoredIn(asset, fileReq, key) \subseteq Excused'
  BY ReadableParts DEF StartRemove, Excused
<1>2. /\ fileReq'[p].pc = "unlink" /\ fileReq'[p].key = key
      /\ \A q \in Requests \ {p} : fileReq'[q] = fileReq[q]
  BY TypeParts DEF StartRemove
<1>3. \A k : StoredIn(asset', fileReq', k) \subseteq StoredIn(asset, fileReq, k)
  BY <1>1, <1>2 DEF StoredIn
<1>4. FilesReadable'
  BY <1>1, ReadableParts DEF Assets
<1>5. ASSUME NEW q \in Requests, fileReq'[q].pc = "insertAsset",
             fileReq'[q].asset \notin Excused'
      PROVE  ContentIn(object', fileReq'[q].key) = {fileReq'[q].asset}
  BY <1>1, <1>2, <1>5 DEF UploadsKept
<1>6. ASSUME NEW q \in Requests, fileReq'[q].pc = "unlink"
      PROVE  StoredIn(asset', fileReq', fileReq'[q].key) \subseteq Excused'
  BY <1>1, <1>2, <1>3, <1>6 DEF UploadsKept
<1> QED BY <1>4, <1>5, <1>6 DEF UploadsKept

LEMMA ReadableRename ==
  ASSUME TypeOK, FilesReadable, UploadsKept, NEW p \in Requests, Rename(p)
  PROVE  FilesReadable' /\ UploadsKept'
<1>1. fileReq[p] \in Migrating /\ UNCHANGED object
  BY TypeParts, Shapes DEF Rename, Migrations
<1>2. PICK a \in fileReq[p].todo :
        IF a \in Assets
        THEN /\ asset' = [asset EXCEPT ![a].key.dir = Moved(@)]
             /\ renamed' = renamed \cup {a}
             /\ fileReq' = [fileReq EXCEPT ![p] =
                  IF fileReq[p].todo = {a} THEN NextRow(fileReq[p])
                  ELSE [fileReq[p] EXCEPT !.todo = @ \ {a}]]
             /\ UNCHANGED <<seeding, dropped, tainted>>
        ELSE Throw(p) /\ UNCHANGED asset
  BY DEF Rename
<1>3. CASE a \notin Assets
  BY <1>1, <1>2, <1>3, DoneElsewhere, ReadableElsewhere DEF Throw, Assets
<1>4. CASE a \in Assets
  <2>1. a \in AssetIds /\ asset[a] \in AssetRows
    BY <1>4, RowsType
  <2>2. \A b \in Assets' : b \in Assets /\ (asset'[b].key = asset[b].key \/ b \in Excused')
    BY <1>2, <1>4, <2>1, TypeParts DEF Assets, Excused
  <2>3. Excused \subseteq Excused'
    BY <1>2, <1>4 DEF Excused
  <2>4. [fileReq[p] EXCEPT !.todo = @ \ {a}].pc = fileReq[p].pc
    BY <1>1 DEF Migrating
  <2>5. Elsewhere(p)
    BY <1>1, <1>2, <1>4, <2>4, TypeParts, NextRowElsewhere
    DEF Elsewhere, Migrating, Migrations
  <2> QED BY <1>1, <2>2, <2>3, <2>5, ReadableQuiet DEF Elsewhere
<1> QED BY <1>3, <1>4

LEMMA ReadableStep ==
  TypeOK /\ FilesReadable /\ UploadsKept /\ [Next]_filesVars => FilesReadable' /\ UploadsKept'
<1> SUFFICES ASSUME TypeOK, FilesReadable, UploadsKept, [Next]_filesVars
             PROVE  FilesReadable' /\ UploadsKept'
  OBVIOUS
<1> DEFINE Goal == FilesReadable' /\ UploadsKept'
<1>t. fileReq \in [Requests -> Calls]
  BY TypeParts
<1>q. ASSUME NEW p \in Requests, Elsewhere(p), UNCHANGED <<asset, object, tainted, renamed>>
      PROVE  Goal
  BY <1>q, ReadableElsewhere DEF Assets
<1>1. ASSUME NEW p \in Requests, NEW n \in Names, StartCreate(p, n) PROVE Goal
  <2>1. Elsewhere(p)
    BY <1>1, <1>t DEF StartCreate, Elsewhere
  <2> QED BY <1>1, <1>q, <2>1 DEF StartCreate, historyVars
<1>2. ASSUME NEW p \in Requests, InsertFolder(p) PROVE Goal
  BY <1>2, <1>q, DoneElsewhere DEF InsertFolder, historyVars
<1>3. ASSUME NEW p \in Requests, NEW f \in FolderIds, StartDrop(p, f) PROVE Goal
  <2>1. Elsewhere(p)
    BY <1>3, <1>t DEF StartDrop, Elsewhere
  <2> QED BY <1>3, <1>q, <2>1 DEF StartDrop, historyVars
<1>4. ASSUME NEW p \in Requests, DeleteFolder(p) PROVE Goal
  <2>1. \A a \in Assets' : a \in Assets /\ asset'[a].key = asset[a].key
    BY <1>4, RowsType DEF DeleteFolder, Assets, AssetRows
  <2>2. Elsewhere(p) /\ UNCHANGED <<object, tainted, renamed>>
    BY <1>4, DoneElsewhere DEF DeleteFolder
  <2> QED BY <2>1, <2>2, ReadableElsewhere
<1>5. ASSUME NEW p \in Requests, NEW seeds \in BOOLEAN, Migrate(p, seeds) PROVE Goal
  <2>1. Elsewhere(p)
    BY <1>5, <1>t DEF Migrate, Elsewhere, AfterMigration, Migration, Marking, Idle
  <2> QED BY <1>5, <1>q, <2>1 DEF Migrate
<1>6. ASSUME NEW p \in Requests, FindRoot(p) PROVE Goal
  <2>1. fileReq[p] \in Migrating
    BY <1>6, <1>t, Shapes DEF FindRoot, Migrations
  <2>2. Elsewhere(p)
    BY <1>6, <1>t, <2>1 DEF FindRoot, Elsewhere, Migration, Migrating
  <2> QED BY <1>6, <1>q, <2>2 DEF FindRoot, historyVars
<1>7. ASSUME NEW p \in Requests, AddRoot(p) PROVE Goal
  <2>1. CASE Throw(p)
    BY <1>7, <1>q, <2>1, DoneElsewhere DEF AddRoot, Throw
  <2>2. CASE \E f \in FolderIds :
               fileReq' = [fileReq EXCEPT ![p] =
                 Migration(fileReq[p].seeds, "reparent", fileReq[p].rows, f)]
    <3>1. Elsewhere(p)
      BY <1>t, <2>2 DEF Elsewhere, Migration
    <3>2. UNCHANGED <<asset, object, tainted, renamed>>
      BY <1>7 DEF AddRoot, Throw, historyVars
    <3> QED BY <1>q, <3>1, <3>2
  <2> QED BY <1>7, <2>1, <2>2 DEF AddRoot
<1>8. ASSUME NEW p \in Requests, Reparent(p) PROVE Goal
  <2>1. fileReq[p] \in Migrating
    BY <1>8, <1>t, Shapes DEF Reparent, Migrations
  <2>2. UNCHANGED <<asset, object, tainted, renamed>>
    BY <1>8 DEF Reparent, Throw, historyVars
  <2>3. CASE Throw(p)
    BY <1>q, <2>2, <2>3, DoneElsewhere
  <2>4. CASE \E f : fileReq' = [fileReq EXCEPT ![p] =
               [fileReq[p] EXCEPT !.pc = "listFiles", !.row = f, !.rows = @ \ {f}]]
    <3>1. Elsewhere(p)
      BY <1>t, <2>1, <2>4 DEF Elsewhere, Migrating
    <3> QED BY <1>q, <2>2, <3>1
  <2> QED BY <1>8, <2>3, <2>4 DEF Reparent
<1>9. ASSUME NEW p \in Requests, ListFiles(p) PROVE Goal
  <2>1. fileReq[p] \in Migrating
    BY <1>9, <1>t, Shapes DEF ListFiles, Migrations
  <2>2. \A todo : [fileReq[p] EXCEPT !.pc = "rename", !.todo = todo].pc = "rename"
    BY <2>1 DEF Migrating
  <2>3. PICK todo : fileReq' = [fileReq EXCEPT ![p] =
          IF todo = {} THEN NextRow(fileReq[p])
          ELSE [fileReq[p] EXCEPT !.pc = "rename", !.todo = todo]]
    BY <1>9 DEF ListFiles
  <2>4. Elsewhere(p)
    BY <1>t, <2>1, <2>2, <2>3, NextRowElsewhere DEF Elsewhere
  <2> QED BY <1>9, <1>q, <2>4 DEF ListFiles, historyVars
<1>10. ASSUME NEW p \in Requests, Rename(p) PROVE Goal
  BY <1>10, ReadableRename
<1>11. ASSUME NEW p \in Requests, Marker(p) PROVE Goal
  <2>1. fileReq[p] \in Seeding
    BY <1>11, <1>t, Shapes DEF Marker
  <2>2. UNCHANGED <<asset, object, tainted, renamed>>
    BY <1>11 DEF Marker, Throw, historyVars
  <2>3. Elsewhere(p)
    BY <1>11, <1>t, <2>1, DoneElsewhere DEF Marker, Elsewhere, Seeding
  <2> QED BY <1>q, <2>2, <2>3
<1>12. ASSUME NEW p \in Requests, SeedRoot(p) PROVE Goal
  <2>1. UNCHANGED <<asset, object, tainted, renamed>>
    BY <1>12 DEF SeedRoot, Throw, historyVars
  <2>2. CASE Throw(p)
    BY <1>q, <2>1, <2>2, DoneElsewhere
  <2>3. CASE \E f \in FolderIds : fileReq' =
               [fileReq EXCEPT ![p] = [pc |-> "leaf", left |-> Leaves, root |-> f]]
    <3>1. Elsewhere(p)
      BY <1>t, <2>3 DEF Elsewhere
    <3> QED BY <1>q, <2>1, <3>1
  <2> QED BY <1>12, <2>2, <2>3 DEF SeedRoot
<1>13. ASSUME NEW p \in Requests, SeedLeaf(p) PROVE Goal
  <2>1. fileReq[p] \in Seeding /\ fileReq[p].pc = "leaf"
    BY <1>13, <1>t, Shapes DEF SeedLeaf
  <2>2. UNCHANGED <<asset, object, tainted, renamed>>
    BY <1>13 DEF SeedLeaf, Throw
  <2>3. CASE Throw(p) \/ Done(p)
    BY <1>q, <2>2, <2>3, DoneElsewhere
  <2>4. CASE \E n : fileReq' = [fileReq EXCEPT ![p].left = @ \ {n}]
    <3>1. Elsewhere(p)
      BY <1>t, <2>1, <2>4 DEF Elsewhere, Seeding
    <3> QED BY <1>q, <2>2, <3>1
  <2> QED BY <1>13, <2>3, <2>4 DEF SeedLeaf
<1>14. ASSUME NEW p \in Requests, NEW a \in AssetIds, NEW name \in FileNames,
              NEW f \in FolderIds, UploadTo(p, a, name, f)
       PROVE  Goal
  <2>1. Elsewhere(p)
    BY <1>14, <1>t DEF UploadTo, Elsewhere, Put
  <2> QED BY <1>14, <1>q, <2>1 DEF UploadTo, historyVars
<1>15. ASSUME NEW p \in Requests, NEW a \in AssetIds, NEW name \in FileNames,
              NEW n \in Names, UploadRouted(p, a, name, n)
       PROVE  Goal
  <2>1. Elsewhere(p)
    BY <1>15, <1>t DEF UploadRouted, Elsewhere, Put
  <2> QED BY <1>15, <1>q, <2>1 DEF UploadRouted, historyVars
<1>16. ASSUME NEW p \in Requests, Fallback(p) PROVE Goal
  <2>1. fileReq[p] \in Uploading
    BY <1>16, <1>t, Shapes DEF Fallback
  <2>2. Elsewhere(p)
    BY <1>16, <1>t, <2>1 DEF Fallback, Elsewhere, Put, Uploading
  <2> QED BY <1>16, <1>q, <2>2 DEF Fallback, historyVars
<1>17. ASSUME NEW p \in Requests, PutObject(p) PROVE Goal
  BY <1>17, ReadablePut
<1>18. ASSUME NEW p \in Requests, InsertAsset(p) PROVE Goal
  BY <1>18, ReadableInsert
<1>19. ASSUME NEW p \in Requests, NEW a \in AssetIds, StartRemove(p, a) PROVE Goal
  BY <1>19, ReadableStartRemove
<1>20. ASSUME NEW p \in Requests, Unlink(p) PROVE Goal
  BY <1>20, ReadableUnlink
<1>21. ASSUME NEW p \in Requests, DeleteAsset(p) PROVE Goal
  <2>1. \A a \in Assets' : a \in Assets /\ asset'[a].key = asset[a].key
    BY <1>21, TypeParts DEF DeleteAsset, Assets, Gone
  <2> QED BY <1>21, <2>1, DoneElsewhere, ReadableElsewhere DEF DeleteAsset, historyVars
<1>22. ASSUME NEW p \in Requests, Fail(p) PROVE Goal
  BY <1>22, <1>q, DoneElsewhere DEF Fail, Throw
<1>23. CASE UNCHANGED filesVars
  BY <1>23, ReadableQuiet DEF filesVars, Assets, Excused
<1> QED
  BY <1>1, <1>2, <1>3, <1>4, <1>5, <1>6, <1>7, <1>8, <1>9, <1>10, <1>11, <1>12,
     <1>13, <1>14, <1>15, <1>16, <1>17, <1>18, <1>19, <1>20, <1>21, <1>22, <1>23
  DEF Next

LEMMA ReadableInit == Init => FilesReadable /\ UploadsKept
BY DEF Init, FilesReadable, UploadsKept, Assets, Fresh, Idle

\* A file's row has the key its content is stored under, whatever overlaps and dies.
THEOREM FilesStayReadable == Spec => []FilesReadable
BY ReadableInit, ReadableStep, TypeInit, TypeStep, PTL DEF Spec

(***************************************************************************)
(* PathsNest.  What a request knows of the folder it is about to write in  *)
(* stays true: ids are not used twice, a row keeps its names, and the only *)
(* move puts it under the umbrella.                                        *)
(***************************************************************************)

There(rows, f) == rows[f].is = "row"

\* The path of a folder in one with the path over.
ChildOf(path, over) ==
  /\ path.under => over.under
  /\ \E n \in Names : path.rest = Append(over.rest, n)

AtTop(path) == path = Root \/ \E n \in Names : path = TopLevel(n)

Nested(rows, f) ==
  LET parent == rows[f].parent IN
  IF parent = NoFolder THEN AtTop(rows[f].path)
  ELSE There(rows, parent) /\ ChildOf(rows[f].path, rows[parent].path)

RootAt(rows, f) == rows[f] = Gone \/ (There(rows, f) /\ rows[f].path = Root)

OneName(rows, f) ==
  rows[f] = Gone \/ (There(rows, f) /\ \E n \in Names : rows[f].path.rest = <<n>>)

Knows(rows, r) ==
  /\ r.pc = "insertFolder" =>
       IF r.parent = NoFolder THEN AtTop(r.path)
       ELSE \/ rows[r.parent] = Gone
            \/ There(rows, r.parent) /\ ChildOf(r.path, rows[r.parent].path)
  /\ r.pc \in Migrations =>
       /\ \A f \in r.rows : OneName(rows, f)
       /\ r.root # NoFolder => RootAt(rows, r.root)
  /\ r.pc = "leaf" => r.root # NoFolder /\ RootAt(rows, r.root)

RequestsKnow == \A p \in Requests : Knows(folder, fileReq[p])

\* What every step does to the rows that are there.
RowsKept ==
  \A f \in FolderIds :
    /\ folder[f] = Gone => folder'[f] = Gone
    /\ There(folder, f) =>
         \/ folder'[f] = Gone
         \/ /\ There(folder', f)
            /\ folder'[f].path.rest = folder[f].path.rest
            /\ folder[f].path.under => folder'[f].path.under

LEMMA NestParts ==
  ASSUME TypeOK
  PROVE  PathsNest <=> \A f \in FolderIds : There(folder, f) => Nested(folder, f)
<1>1. \A f \in Folders : folder[f].parent \in FolderRefs
  BY RowsType DEF FolderRows
<1>2. \A f \in Folders : folder[f].parent # NoFolder
        => (folder[f].parent \in Folders <=> There(folder, folder[f].parent))
  BY <1>1 DEF FolderRefs, Folders, There
<1>3. \A f \in Folders : Nested(folder, f) <=>
        LET path == folder[f].path  parent == folder[f].parent IN
        IF parent = NoFolder THEN path = Root \/ \E n \in Names : path = TopLevel(n)
        ELSE /\ parent \in Folders
             /\ path.under => folder[parent].path.under
             /\ \E n \in Names : path.rest = Append(folder[parent].path.rest, n)
  BY <1>2 DEF Nested, AtTop, ChildOf
<1>4. \A f : f \in Folders <=> f \in FolderIds /\ There(folder, f)
  BY DEF Folders, There
<1> QED BY <1>3, <1>4 DEF PathsNest

\* ... and after a step.
LEMMA NestPartsNext ==
  ASSUME TypeOK',
         \A f \in FolderIds : There(folder', f) => Nested(folder', f)
  PROVE  PathsNest'
<1>1. \A f \in Folders' : folder'[f].parent \in FolderRefs
  BY TypePartsNext DEF FolderRows, Folders, Fresh, Gone
<1>2. \A f : f \in Folders' <=> f \in FolderIds /\ There(folder', f)
  BY DEF Folders, There
<1>3. \A f \in Folders' :
        LET path == folder'[f].path  parent == folder'[f].parent IN
        IF parent = NoFolder THEN path = Root \/ \E n \in Names : path = TopLevel(n)
        ELSE /\ parent \in Folders'
             /\ path.under => folder'[parent].path.under
             /\ \E n \in Names : path.rest = Append(folder'[parent].path.rest, n)
  BY <1>1, <1>2 DEF Nested, AtTop, ChildOf, FolderRefs
<1> QED BY <1>3 DEF PathsNest

\* What a request knows survives what other requests do to the rows.
LEMMA RootStays ==
  ASSUME TypeOK, TypeOK', RowsKept, NEW f \in FolderIds, RootAt(folder, f)
  PROVE  RootAt(folder', f)
<1>1. There(folder', f) => folder'[f].path \in Paths
  BY TypePartsNext DEF There, FolderRows, Fresh, Gone
<1>2. \A path \in Paths : path.under /\ path.rest = <<>> => path = Root
  BY DEF Paths, Root
<1>3. Root.under /\ Root.rest = <<>>
  BY DEF Root
<1>4. CASE folder[f] = Gone
  BY <1>4 DEF RowsKept, RootAt
<1>5. CASE There(folder, f) /\ folder[f].path = Root
  <2>1. folder'[f] = Gone
          \/ (There(folder', f) /\ folder'[f].path.rest = <<>> /\ folder'[f].path.under)
    BY <1>3, <1>5 DEF RowsKept
  <2> QED BY <1>1, <1>2, <2>1 DEF RootAt
<1> QED BY <1>4, <1>5 DEF RootAt

LEMMA KnowsStays ==
  ASSUME TypeOK, TypeOK', RowsKept, NEW r \in Calls, Knows(folder, r)
  PROVE  Knows(folder', r)
<1>1. ASSUME r.pc = "insertFolder", r.parent # NoFolder
      PROVE  \/ folder'[r.parent] = Gone
             \/ There(folder', r.parent) /\ ChildOf(r.path, folder'[r.parent].path)
  <2>1. r.parent \in FolderIds
    BY <1>1, Shapes DEF Creating, FolderRefs
  <2> QED BY <1>1, <2>1 DEF Knows, RowsKept, ChildOf
<1>2. ASSUME r.pc \in Migrations
      PROVE  /\ \A f \in r.rows : OneName(folder', f)
             /\ r.root # NoFolder => RootAt(folder', r.root)
  <2>1. r.rows \subseteq FolderIds /\ (r.root # NoFolder => r.root \in FolderIds)
    BY <1>2, Shapes DEF Migrating, FolderRefs
  <2>2. \A f \in r.rows : OneName(folder', f)
    BY <1>2, <2>1 DEF Knows, RowsKept, OneName
  <2> QED BY <1>2, <2>1, <2>2, RootStays DEF Knows
<1>3. ASSUME r.pc = "leaf" PROVE r.root # NoFolder /\ RootAt(folder', r.root)
  <2>1. r.root # NoFolder /\ r.root \in FolderIds
    BY <1>3, Shapes DEF Seeding, FolderRefs, Knows
  <2> QED BY <1>3, <2>1, RootStays DEF Knows
<1> QED BY <1>1, <1>2, <1>3 DEF Knows

\* Whether the template's folder n is there.
HasLeaf(rows, n) == \E f \in FolderIds : There(rows, f) /\ rows[f].path = InRoot(n)

LeavesKept ==
  \A n \in Names : n \notin dropped' /\ HasLeaf(folder, n) => HasLeaf(folder', n)

\* The three ways the rows change: an insert ...
LEMMA InsertKeeps ==
  ASSUME TypeOK, NEW f \in FolderIds, NEW path, NEW parent, Insert(f, path, parent)
  PROVE  /\ RowsKept /\ LeavesKept /\ There(folder', f) /\ folder'[f].path = path
         /\ \A g \in FolderIds \ {f} : folder'[g] = folder[g]
<1>1. /\ folder'[f] = [is |-> "row", path |-> path, parent |-> parent]
      /\ \A g \in FolderIds \ {f} : folder'[g] = folder[g]
  BY TypeParts DEF Insert
<1>2. folder[f] = Fresh /\ ~ There(folder, f) /\ folder[f] # Gone
  BY DEF Insert, Fresh, Gone, There
<1> QED BY <1>1, <1>2 DEF RowsKept, LeavesKept, HasLeaf, There

LEMMA InsertNests ==
  ASSUME TypeOK, TypeOK', PathsNest, NEW f \in FolderIds, NEW path, NEW parent,
         Insert(f, path, parent), CanInsert(path, parent),
         IF parent = NoFolder THEN AtTop(path) ELSE ChildOf(path, folder[parent].path)
  PROVE  PathsNest'
<1>1. /\ folder'[f] = [is |-> "row", path |-> path, parent |-> parent]
      /\ \A g \in FolderIds \ {f} : folder'[g] = folder[g]
  BY TypeParts DEF Insert
<1>2. ~ There(folder, f)
  BY DEF Insert, Fresh, There
<1>3. parent # NoFolder => parent \in FolderIds /\ There(folder, parent)
  BY DEF CanInsert, Folders, There
<1>4. \A g \in FolderIds : There(folder, g) => There(folder', g) /\ folder'[g] = folder[g]
  BY <1>1, <1>2 DEF There
<1>5. Nested(folder', f)
  BY <1>1, <1>3, <1>4 DEF Nested
<1>6. ASSUME NEW g \in FolderIds \ {f}, There(folder', g) PROVE Nested(folder', g)
  <2>1. There(folder, g) /\ Nested(folder, g) /\ folder'[g] = folder[g]
    BY <1>1, <1>6, NestParts DEF There
  <2>2. folder[g].parent = NoFolder \/ folder[g].parent \in FolderIds
    BY <2>1, RowsType DEF There, Folders, FolderRows, FolderRefs
  <2> QED BY <1>4, <2>1, <2>2 DEF Nested
<1> QED BY <1>5, <1>6, NestPartsNext

\* ... the move of a legacy row, whose path keeps its names ...
LEMMA MoveEffect ==
  ASSUME TypeOK, NEW f \in Folders, NEW root \in Folders,
         folder' = [folder EXCEPT ![f].parent = root, ![f].path = Moved(@)]
  PROVE  /\ There(folder', f) /\ folder'[f].parent = root
         /\ folder'[f].path = Moved(folder[f].path)
         /\ folder'[f].path.under /\ folder'[f].path.rest = folder[f].path.rest
         /\ \A g \in FolderIds \ {f} : folder'[g] = folder[g]
<1>1. folder[f] \in FolderRows /\ f \in FolderIds
  BY RowsType
<1>2. folder'[f] = [folder[f] EXCEPT !.parent = root, !.path = Moved(folder[f].path)]
  BY <1>1, TypeParts DEF FolderRows
<1>3. folder'[f].is = "row" /\ folder'[f].parent = root
        /\ folder'[f].path = Moved(folder[f].path)
  BY <1>1, <1>2 DEF FolderRows
<1>4. Moved(folder[f].path).under /\ Moved(folder[f].path).rest = folder[f].path.rest
  BY <1>1 DEF FolderRows, Paths, Moved
<1>5. \A g \in FolderIds \ {f} : folder'[g] = folder[g]
  BY TypeParts
<1> QED BY <1>3, <1>4, <1>5 DEF There

LEMMA MoveKeeps ==
  ASSUME TypeOK, NEW f \in Folders, NEW root \in Folders,
         folder' = [folder EXCEPT ![f].parent = root, ![f].path = Moved(@)]
  PROVE  RowsKept /\ LeavesKept
<1>1. f \in FolderIds /\ There(folder, f) /\ folder[f] # Gone
  BY DEF Folders, There, Gone
<1>m. /\ There(folder', f) /\ folder'[f].parent = root
      /\ folder'[f].path = Moved(folder[f].path)
      /\ folder'[f].path.under /\ folder'[f].path.rest = folder[f].path.rest
      /\ \A g \in FolderIds \ {f} : folder'[g] = folder[g]
  BY MoveEffect
<1>2. \A n \in Names : Moved(InRoot(n)) = InRoot(n)
  <2>1. \A path \in Paths : path.under = TRUE => Moved(path) = path
    BY DEF Moved, Paths
  <2>2. \A n \in Names : InRoot(n).under = TRUE
    BY DEF InRoot
  <2> QED BY <2>1, <2>2, PathTypes
<1>3. RowsKept
  <2>1. \A g \in FolderIds \ {f} : folder'[g] = folder[g]
    BY <1>m
  <2>2. /\ There(folder', f) /\ folder'[f].path.rest = folder[f].path.rest
        /\ folder[f].path.under => folder'[f].path.under
    BY <1>m
  <2> QED BY <1>1, <2>1, <2>2, Zenon DEF RowsKept, There
<1>4. LeavesKept
  BY <1>1, <1>2, <1>m DEF LeavesKept, HasLeaf, There
<1> QED BY <1>3, <1>4

LEMMA MoveNests ==
  ASSUME TypeOK, TypeOK', PathsNest, NEW f \in Folders, NEW root \in Folders,
         OneName(folder, f), RootAt(folder, root),
         folder' = [folder EXCEPT ![f].parent = root, ![f].path = Moved(@)]
  PROVE  PathsNest'
<1>m. /\ There(folder', f) /\ folder'[f].parent = root
      /\ folder'[f].path = Moved(folder[f].path)
      /\ folder'[f].path.under /\ folder'[f].path.rest = folder[f].path.rest
      /\ \A g \in FolderIds \ {f} : folder'[g] = folder[g]
  BY MoveEffect
<1>1. /\ f \in FolderIds /\ There(folder, f) /\ folder[f] # Gone
      /\ root \in FolderIds /\ There(folder, root) /\ folder[root] # Gone
      /\ root # NoFolder
  BY FilesAssumption DEF Folders, There, Gone, NoFolder
<1>2. PICK n \in Names : folder[f].path.rest = <<n>>
  BY <1>1 DEF OneName
<1>3. folder[root].path = Root /\ Root.rest = <<>> /\ Root.under
  BY <1>1 DEF RootAt, Root
<1>4. root # f
  BY <1>2, <1>3
<1>5. Nested(folder', f)
  <2>1. folder'[root] = folder[root]
    BY <1>1, <1>4, <1>m
  <2>2. <<n>> = Append(<<>>, n)
    OBVIOUS
  <2>3. folder'[f].path.rest = Append(folder'[root].path.rest, n)
    BY <1>2, <1>3, <2>1, <2>2, <1>m
  <2>4. ChildOf(folder'[f].path, folder'[root].path)
    BY <1>3, <2>1, <2>3 DEF ChildOf
  <2> QED BY <1>1, <2>1, <2>4, <1>m DEF Nested, There
<1>6. ASSUME NEW g \in FolderIds \ {f}, There(folder', g) PROVE Nested(folder', g)
  <2>1. folder'[g] = folder[g] /\ There(folder, g) /\ Nested(folder, g)
    BY <1>6, <1>m, NestParts DEF There
  <2>2. folder[g].parent = NoFolder \/ folder[g].parent \in FolderIds
    BY <2>1, RowsType DEF There, Folders, FolderRows, FolderRefs
  <2>3. CASE folder[g].parent = f
    <3>1. f # NoFolder
      BY <1>1, FilesAssumption DEF NoFolder
    <3>2. ChildOf(folder[g].path, folder[f].path)
      BY <2>1, <2>3, <3>1 DEF Nested
    <3>3. ChildOf(folder[g].path, folder'[f].path)
      BY <1>m, <3>2 DEF ChildOf
    <3> QED BY <2>1, <2>3, <3>1, <3>3, <1>m DEF Nested
  <2>4. CASE folder[g].parent # f
    <3>1. folder[g].parent # NoFolder => folder'[folder[g].parent] = folder[folder[g].parent]
      BY <2>2, <2>4, <1>m
    <3> QED BY <2>1, <3>1 DEF Nested, There
  <2> QED BY <2>3, <2>4
<1> QED BY <1>5, <1>6, NestPartsNext

\* ... and a delete, which takes whole subtrees.
LEMMA SubtreeClosed ==
  ASSUME NEW f
  PROVE  \A g \in Folders : folder[g].parent \in Subtree(f) => g \in Subtree(f)
BY DEF Subtree

LEMMA DropEffect ==
  ASSUME TypeOK, NEW p \in Requests, DeleteFolder(p)
  PROVE  \A g \in FolderIds :
           folder'[g] = IF g \in Subtree(fileReq[p].folder) THEN Gone ELSE folder[g]
BY TypeParts DEF DeleteFolder

LEMMA DropKeeps ==
  ASSUME TypeOK, NEW p \in Requests, DeleteFolder(p)
  PROVE  RowsKept /\ LeavesKept
<1> DEFINE S == Subtree(fileReq[p].folder)
<1>1. RowsKept
  BY DropEffect DEF RowsKept, There
<1>2. ASSUME NEW n \in Names, n \notin dropped', HasLeaf(folder, n) PROVE HasLeaf(folder', n)
  <2>1. At(InRoot(n)) \cap S = {}
    BY <1>2 DEF DeleteFolder
  <2>2. PICK f \in FolderIds : There(folder, f) /\ folder[f].path = InRoot(n)
    BY <1>2 DEF HasLeaf
  <2>3. f \in At(InRoot(n))
    BY <2>2 DEF At, Folders, There
  <2>4. folder'[f] = folder[f]
    BY <2>1, <2>3, DropEffect
  <2> QED BY <2>2, <2>4 DEF HasLeaf, There
<1> QED BY <1>1, <1>2 DEF LeavesKept

LEMMA DropNests ==
  ASSUME TypeOK, TypeOK', PathsNest, NEW p \in Requests, DeleteFolder(p)
  PROVE  PathsNest'
<1> DEFINE S == Subtree(fileReq[p].folder)
<1>1. ASSUME NEW g \in FolderIds, There(folder', g) PROVE Nested(folder', g)
  <2>1. g \notin S /\ folder'[g] = folder[g] /\ There(folder, g)
    BY <1>1, DropEffect DEF There, Gone
  <2>2. Nested(folder, g) /\ g \in Folders
    BY <2>1, NestParts DEF Folders, There
  <2>3. folder[g].parent \notin S
    BY <2>1, <2>2, SubtreeClosed
  <2>4. folder[g].parent = NoFolder \/ folder[g].parent \in FolderIds
    BY <2>2, RowsType DEF FolderRows, FolderRefs
  <2>5. folder[g].parent # NoFolder => folder'[folder[g].parent] = folder[folder[g].parent]
    BY <2>3, <2>4, DropEffect
  <2> QED BY <2>1, <2>2, <2>5 DEF Nested, There
<1> QED BY <1>1, NestPartsNext

\* One request changes, and knows what it has to.
LEMMA OthersKnow ==
  ASSUME TypeOK, TypeOK', RequestsKnow, RowsKept, NEW p \in Requests,
         \A q \in Requests \ {p} : fileReq'[q] = fileReq[q], Knows(folder', fileReq'[p])
  PROVE  RequestsKnow'
<1>1. ASSUME NEW q \in Requests \ {p} PROVE Knows(folder', fileReq[q])
  <2>1. fileReq[q] \in Calls /\ Knows(folder, fileReq[q])
    BY TypeParts DEF RequestsKnow
  <2> QED BY <2>1, KnowsStays
<1>2. \A q \in Requests : Knows(folder', fileReq'[q])
  BY <1>1
<1> QED BY <1>2 DEF RequestsKnow

LEMMA NothingToKnow ==
  ASSUME NEW rows, NEW r, r.pc \notin {"insertFolder", "leaf"}, r.pc \notin Migrations
  PROVE  Knows(rows, r)
BY DEF Knows

LEMMA KnowsLess ==
  ASSUME NEW rows, NEW r, NEW s, Knows(rows, r), r.pc \in Migrations, s.pc \in Migrations,
         s.rows \subseteq r.rows, s.root = r.root
  PROVE  Knows(rows, s)
BY DEF Knows, Migrations

LEMMA NextRowKnows ==
  ASSUME NEW rows, NEW r \in Migrating, Knows(rows, r)
  PROVE  Knows(rows, NextRow(r))
<1>1. CASE r.rows # {}
  <2> DEFINE s == [r EXCEPT !.pc = "reparent", !.todo = {}]
  <2>1. s.pc = "reparent" /\ s.rows = r.rows /\ s.root = r.root /\ r.pc \in Migrations
    BY DEF Migrating
  <2>2. NextRow(r) = s
    BY <1>1 DEF NextRow
  <2> HIDE DEF s
  <2> QED BY <2>1, <2>2, KnowsLess DEF Migrations
<1>2. CASE r.rows = {}
  <2>1. NextRow(r).pc \in {"marker", "idle"}
    BY <1>2 DEF NextRow, AfterMigration, Marking, Idle
  <2> QED BY <2>1, NothingToKnow DEF Migrations
<1> QED BY <1>1, <1>2

\* What a step leaves of the tree.
TreeKept == PathsNest' /\ RequestsKnow' /\ RowsKept /\ LeavesKept

LEMMA RowsUntouched ==
  ASSUME TypeOK, TypeOK', PathsNest, UNCHANGED folder
  PROVE  PathsNest' /\ RowsKept /\ LeavesKept
<1>1. PathsNest'
  BY DEF PathsNest, Folders
<1>2. RowsKept
  BY DEF RowsKept
<1>3. LeavesKept
  BY DEF LeavesKept
<1> QED BY <1>1, <1>2, <1>3

LEMMA TreeUntouched ==
  ASSUME TypeOK, TypeOK', PathsNest, RequestsKnow, NEW p \in Requests, UNCHANGED folder,
         \A q \in Requests \ {p} : fileReq'[q] = fileReq[q],
         Knows(folder, fileReq'[p])
  PROVE  TreeKept
BY RowsUntouched, OthersKnow DEF TreeKept

LEMMA DoneKnows ==
  ASSUME TypeOK, NEW p \in Requests, Done(p) \/ Throw(p), NEW rows
  PROVE  /\ Knows(rows, fileReq'[p])
         /\ \A q \in Requests \ {p} : fileReq'[q] = fileReq[q]
<1>1. fileReq'[p] = Idle /\ \A q \in Requests \ {p} : fileReq'[q] = fileReq[q]
  BY TypeParts DEF Done, Throw
<1> QED BY <1>1, NothingToKnow DEF Idle, Migrations

LEMMA TreeThrow ==
  ASSUME TypeOK, TypeOK', PathsNest, RequestsKnow, NEW p \in Requests, UNCHANGED folder,
         Done(p) \/ Throw(p)
  PROVE  TreeKept
BY DoneKnows, TreeUntouched

\* A request goes on to something that needs no folder.
LEMMA TreeElsewhere ==
  ASSUME TypeOK, TypeOK', PathsNest, RequestsKnow, NEW p \in Requests, UNCHANGED folder,
         \A q \in Requests \ {p} : fileReq'[q] = fileReq[q],
         fileReq'[p].pc \notin {"insertFolder", "leaf"}, fileReq'[p].pc \notin Migrations
  PROVE  TreeKept
BY NothingToKnow, TreeUntouched

LEMMA TreeCreate ==
  ASSUME TypeOK, TypeOK', PathsNest, RequestsKnow, NEW p \in Requests, NEW n \in Names,
         StartCreate(p, n)
  PROVE  TreeKept
<1>1. PICK r \in { [pc |-> "insertFolder", parent |-> NoFolder, path |-> TopLevel(n)] }
                 \cup { [pc |-> "insertFolder", parent |-> f,
                         path |-> ChildPath(f, n)] : f \in Folders } :
        fileReq' = [fileReq EXCEPT ![p] = r]
  BY DEF StartCreate
<1>2. fileReq'[p] = r /\ \A q \in Requests \ {p} : fileReq'[q] = fileReq[q]
  BY <1>1, TypeParts
<1>3. CASE r = [pc |-> "insertFolder", parent |-> NoFolder, path |-> TopLevel(n)]
  <2>1. Knows(folder, r)
    BY <1>3 DEF Knows, AtTop, Migrations
  <2> QED BY <1>2, <2>1, TreeUntouched DEF StartCreate
<1>4. ASSUME NEW f \in Folders,
             r = [pc |-> "insertFolder", parent |-> f, path |-> ChildPath(f, n)]
      PROVE  TreeKept
  <2>1. folder[f].path \in Paths /\ There(folder, f) /\ f # NoFolder
    BY RowsType, FilesAssumption DEF FolderRows, There, Folders, NoFolder
  <2>2. ChildPath(f, n).under = folder[f].path.under
          /\ ChildPath(f, n).rest = Append(folder[f].path.rest, n)
    BY <2>1 DEF ChildPath, Within, Paths
  <2>3. ChildOf(ChildPath(f, n), folder[f].path)
    BY <2>2 DEF ChildOf
  <2>4. Knows(folder, r)
    BY <1>4, <2>1, <2>3 DEF Knows, Migrations
  <2> QED BY <1>2, <2>4, TreeUntouched DEF StartCreate
<1> QED BY <1>1, <1>3, <1>4

LEMMA TreeInsertFolder ==
  ASSUME TypeOK, TypeOK', PathsNest, RequestsKnow, NEW p \in Requests, InsertFolder(p)
  PROVE  TreeKept
<1>1. fileReq[p].pc = "insertFolder" /\ fileReq[p] \in Creating /\ Done(p)
  BY TypeParts, Shapes DEF InsertFolder
<1>2. CASE ~ CanInsert(fileReq[p].path, fileReq[p].parent)
  BY <1>1, <1>2, TreeThrow DEF InsertFolder
<1>3. CASE CanInsert(fileReq[p].path, fileReq[p].parent)
  <2>1. PICK f \in FolderIds : Insert(f, fileReq[p].path, fileReq[p].parent)
    BY <1>3 DEF InsertFolder
  <2>2. IF fileReq[p].parent = NoFolder THEN AtTop(fileReq[p].path)
        ELSE ChildOf(fileReq[p].path, folder[fileReq[p].parent].path)
    BY <1>1, <1>3 DEF RequestsKnow, Knows, CanInsert, Folders, Gone
  <2>3. PathsNest' /\ RowsKept /\ LeavesKept
    BY <1>3, <2>1, <2>2, InsertNests, InsertKeeps
  <2> QED BY <1>1, <2>3, DoneKnows, OthersKnow DEF TreeKept
<1> QED BY <1>2, <1>3

LEMMA TreeMigrate ==
  ASSUME TypeOK, TypeOK', PathsNest, RequestsKnow, NEW p \in Requests, NEW seeds \in BOOLEAN,
         Migrate(p, seeds)
  PROVE  TreeKept
<1> DEFINE r == IF LegacyRows = {} THEN AfterMigration(seeds)
                ELSE Migration(seeds, "findRoot", LegacyRows, NoFolder)
<1>1. fileReq'[p] = r /\ \A q \in Requests \ {p} : fileReq'[q] = fileReq[q]
  BY TypeParts DEF Migrate
<1>2. \A f \in LegacyRows : OneName(folder, f)
  BY FilesAssumption DEF LegacyRows, OneName, There, Folders, TopLevel
<1>3. Knows(folder, AfterMigration(seeds))
  BY NothingToKnow DEF AfterMigration, Marking, Idle, Migrations
<1>4. Knows(folder, Migration(seeds, "findRoot", LegacyRows, NoFolder))
  BY <1>2 DEF Knows, Migration, Migrations
<1> QED BY <1>1, <1>3, <1>4, TreeUntouched DEF Migrate

LEMMA TreeFindRoot ==
  ASSUME TypeOK, TypeOK', PathsNest, RequestsKnow, NEW p \in Requests, FindRoot(p)
  PROVE  TreeKept
<1>1. /\ fileReq[p] \in Migrating /\ fileReq[p].pc = "findRoot" /\ Knows(folder, fileReq[p])
      /\ UNCHANGED folder
  BY TypeParts, Shapes DEF FindRoot, Migrations, RequestsKnow
<1>2. CASE fileReq' = [fileReq EXCEPT ![p].pc = "addRoot"]
  <2>1. /\ fileReq'[p].pc = "addRoot" /\ fileReq'[p].rows = fileReq[p].rows
        /\ fileReq'[p].root = fileReq[p].root
        /\ \A q \in Requests \ {p} : fileReq'[q] = fileReq[q]
    BY <1>1, <1>2, TypeParts DEF Migrating
  <2>2. Knows(folder, fileReq'[p])
    BY <1>1, <2>1, KnowsLess DEF Migrations
  <2> QED BY <1>1, <2>1, <2>2, TreeUntouched
<1>3. ASSUME NEW f \in At(Root),
             fileReq' = [fileReq EXCEPT ![p] =
               Migration(fileReq[p].seeds, "reparent", fileReq[p].rows, f)]
      PROVE  TreeKept
  <2>1. /\ fileReq'[p] = Migration(fileReq[p].seeds, "reparent", fileReq[p].rows, f)
        /\ \A q \in Requests \ {p} : fileReq'[q] = fileReq[q]
    BY <1>3, TypeParts
  <2>2. RootAt(folder, f)
    BY DEF At, Folders, RootAt, There
  <2>3. Knows(folder, Migration(fileReq[p].seeds, "reparent", fileReq[p].rows, f))
    BY <1>1, <2>2 DEF Knows, Migration, Migrations
  <2> QED BY <1>1, <2>1, <2>3, TreeUntouched
<1> QED BY <1>2, <1>3 DEF FindRoot

LEMMA TreeAddRoot ==
  ASSUME TypeOK, TypeOK', PathsNest, RequestsKnow, NEW p \in Requests, AddRoot(p)
  PROVE  TreeKept
<1>1. /\ fileReq[p] \in Migrating /\ fileReq[p].pc = "addRoot" /\ Knows(folder, fileReq[p])
  BY TypeParts, Shapes DEF AddRoot, Migrations, RequestsKnow
<1>2. CASE Throw(p) /\ UNCHANGED folder
  BY <1>2, TreeThrow
<1>3. ASSUME NEW f \in FolderIds, CanInsert(Root, NoFolder), Insert(f, Root, NoFolder),
             fileReq' = [fileReq EXCEPT ![p] =
               Migration(fileReq[p].seeds, "reparent", fileReq[p].rows, f)]
      PROVE  TreeKept
  <2>1. /\ fileReq'[p] = Migration(fileReq[p].seeds, "reparent", fileReq[p].rows, f)
        /\ \A q \in Requests \ {p} : fileReq'[q] = fileReq[q]
    BY <1>3, TypeParts
  <2>2. AtTop(Root)
    BY DEF AtTop
  <2>3. PathsNest'
    BY <1>3, <2>2, InsertNests
  <2>4. RowsKept /\ LeavesKept /\ There(folder', f) /\ folder'[f].path = Root
    BY <1>3, InsertKeeps
  <2>5. RootAt(folder', f)
    BY <2>4 DEF RootAt
  <2>6. Knows(folder', fileReq[p])
    BY <1>1, <2>4, KnowsStays DEF Calls
  <2>7. Knows(folder', Migration(fileReq[p].seeds, "reparent", fileReq[p].rows, f))
    BY <1>1, <2>5, <2>6 DEF Knows, Migration, Migrations
  <2> QED BY <2>1, <2>3, <2>4, <2>7, OthersKnow DEF TreeKept
<1> QED BY <1>2, <1>3 DEF AddRoot

LEMMA TreeReparent ==
  ASSUME TypeOK, TypeOK', PathsNest, RequestsKnow, NEW p \in Requests, Reparent(p)
  PROVE  TreeKept
<1>1. /\ fileReq[p] \in Migrating /\ fileReq[p].pc = "reparent" /\ Knows(folder, fileReq[p])
  BY TypeParts, Shapes DEF Reparent, Migrations, RequestsKnow
<1>2. CASE Throw(p) /\ UNCHANGED folder
  BY <1>2, TreeThrow
<1>3. ASSUME NEW f \in fileReq[p].rows, f \in Folders, fileReq[p].root \in Folders,
             folder' = [folder EXCEPT ![f].parent = fileReq[p].root, ![f].path = Moved(@)],
             fileReq' = [fileReq EXCEPT ![p] =
               [fileReq[p] EXCEPT !.pc = "listFiles", !.row = f, !.rows = @ \ {f}]]
      PROVE  TreeKept
  <2>1. /\ fileReq'[p].pc = "listFiles" /\ fileReq'[p].rows \subseteq fileReq[p].rows
        /\ fileReq'[p].root = fileReq[p].root
        /\ \A q \in Requests \ {p} : fileReq'[q] = fileReq[q]
    BY <1>1, <1>3, TypeParts DEF Migrating
  <2>2. fileReq[p].root # NoFolder
    BY <1>3, FilesAssumption DEF Folders, NoFolder
  <2>3. OneName(folder, f) /\ RootAt(folder, fileReq[p].root)
    BY <1>1, <1>3, <2>2 DEF Knows, Migrations
  <2>4. PathsNest'
    BY <1>3, <2>3, MoveNests
  <2>5. RowsKept /\ LeavesKept
    BY <1>3, MoveKeeps
  <2>6. Knows(folder', fileReq[p])
    BY <1>1, <2>5, KnowsStays DEF Calls
  <2>7. Knows(folder', fileReq'[p])
    BY <1>1, <2>1, <2>6, KnowsLess DEF Migrations
  <2> QED BY <2>1, <2>4, <2>5, <2>7, OthersKnow DEF TreeKept
<1> QED BY <1>2, <1>3 DEF Reparent

LEMMA TreeListFiles ==
  ASSUME TypeOK, TypeOK', PathsNest, RequestsKnow, NEW p \in Requests, ListFiles(p)
  PROVE  TreeKept
<1>1. /\ fileReq[p] \in Migrating /\ fileReq[p].pc = "listFiles" /\ Knows(folder, fileReq[p])
      /\ UNCHANGED folder
  BY TypeParts, Shapes DEF ListFiles, Migrations, RequestsKnow
<1>2. PICK todo : fileReq' = [fileReq EXCEPT ![p] =
        IF todo = {} THEN NextRow(fileReq[p])
        ELSE [fileReq[p] EXCEPT !.pc = "rename", !.todo = todo]]
  BY DEF ListFiles
<1>3. \A q \in Requests \ {p} : fileReq'[q] = fileReq[q]
  BY <1>2, TypeParts
<1>4. CASE todo = {}
  BY <1>1, <1>2, <1>3, <1>4, TypeParts, NextRowKnows, TreeUntouched
<1>5. CASE todo # {}
  <2>1. /\ fileReq'[p].pc = "rename" /\ fileReq'[p].rows = fileReq[p].rows
        /\ fileReq'[p].root = fileReq[p].root
    BY <1>1, <1>2, <1>5, TypeParts DEF Migrating
  <2>2. Knows(folder, fileReq'[p])
    BY <1>1, <2>1, KnowsLess DEF Migrations
  <2> QED BY <1>1, <1>3, <2>2, TreeUntouched
<1> QED BY <1>4, <1>5

LEMMA TreeRename ==
  ASSUME TypeOK, TypeOK', PathsNest, RequestsKnow, NEW p \in Requests, Rename(p)
  PROVE  TreeKept
<1>1. /\ fileReq[p] \in Migrating /\ fileReq[p].pc = "rename" /\ Knows(folder, fileReq[p])
      /\ UNCHANGED folder
  BY TypeParts, Shapes DEF Rename, Migrations, RequestsKnow
<1>2. CASE Throw(p)
  BY <1>1, <1>2, TreeThrow
<1>3. ASSUME NEW a, fileReq' = [fileReq EXCEPT ![p] =
               IF fileReq[p].todo = {a} THEN NextRow(fileReq[p])
               ELSE [fileReq[p] EXCEPT !.todo = @ \ {a}]]
      PROVE  TreeKept
  <2>1. \A q \in Requests \ {p} : fileReq'[q] = fileReq[q]
    BY <1>3, TypeParts
  <2>2. CASE fileReq[p].todo = {a}
    BY <1>1, <1>3, <2>1, <2>2, TypeParts, NextRowKnows, TreeUntouched
  <2>3. CASE fileReq[p].todo # {a}
    <3>1. /\ fileReq'[p].pc = "rename" /\ fileReq'[p].rows = fileReq[p].rows
          /\ fileReq'[p].root = fileReq[p].root
      BY <1>1, <1>3, <2>3, TypeParts DEF Migrating
    <3>2. Knows(folder, fileReq'[p])
      BY <1>1, <3>1, KnowsLess DEF Migrations
    <3> QED BY <1>1, <2>1, <3>2, TreeUntouched
  <2> QED BY <2>2, <2>3
<1> QED BY <1>2, <1>3 DEF Rename

LEMMA TreeSeedRoot ==
  ASSUME TypeOK, TypeOK', PathsNest, RequestsKnow, NEW p \in Requests, SeedRoot(p)
  PROVE  TreeKept
<1>1. CASE Throw(p) /\ UNCHANGED folder
  BY <1>1, TreeThrow
<1>2. ASSUME NEW f \in FolderIds, CanInsert(Root, NoFolder), Insert(f, Root, NoFolder),
             fileReq' = [fileReq EXCEPT ![p] =
                           [pc |-> "leaf", left |-> Leaves, root |-> f]]
      PROVE  TreeKept
  <2>1. /\ fileReq'[p] = [pc |-> "leaf", left |-> Leaves, root |-> f]
        /\ \A q \in Requests \ {p} : fileReq'[q] = fileReq[q]
    BY <1>2, TypeParts
  <2>2. AtTop(Root)
    BY DEF AtTop
  <2>3. PathsNest'
    BY <1>2, <2>2, InsertNests
  <2>4. RowsKept /\ LeavesKept /\ There(folder', f) /\ folder'[f].path = Root
    BY <1>2, InsertKeeps
  <2>5. f # NoFolder
    BY FilesAssumption DEF NoFolder
  <2>6. Knows(folder', [pc |-> "leaf", left |-> Leaves, root |-> f])
    BY <2>4, <2>5 DEF Knows, RootAt, Migrations
  <2> QED BY <2>1, <2>3, <2>4, <2>6, OthersKnow DEF TreeKept
<1> QED BY <1>1, <1>2 DEF SeedRoot

LEMMA TreeSeedLeaf ==
  ASSUME TypeOK, TypeOK', PathsNest, RequestsKnow, NEW p \in Requests, SeedLeaf(p)
  PROVE  TreeKept
<1>1. /\ fileReq[p] \in Seeding /\ fileReq[p].pc = "leaf" /\ Knows(folder, fileReq[p])
  BY TypeParts, Shapes DEF SeedLeaf, RequestsKnow
<1>2. CASE Throw(p) /\ UNCHANGED folder
  BY <1>2, TreeThrow
<1>3. ASSUME NEW n \in fileReq[p].left, NEW f \in FolderIds,
             CanInsert(InRoot(n), fileReq[p].root), Insert(f, InRoot(n), fileReq[p].root),
             IF fileReq[p].left = {n} THEN Done(p)
             ELSE fileReq' = [fileReq EXCEPT ![p].left = @ \ {n}]
      PROVE  TreeKept
  <2>1. n \in Names /\ fileReq[p].root # NoFolder /\ RootAt(folder, fileReq[p].root)
    BY <1>1, PathTypes DEF Seeding, Knows
  <2>2. folder[fileReq[p].root].path = Root
    BY <1>3, <2>1 DEF RootAt, CanInsert, Folders, Gone
  <2>3. ChildOf(InRoot(n), Root)
    <3>1. <<n>> = Append(<<>>, n)
      OBVIOUS
    <3> QED BY <2>1, <3>1 DEF ChildOf, InRoot, Root
  <2>4. PathsNest'
    BY <1>3, <2>1, <2>2, <2>3, InsertNests
  <2>5. RowsKept /\ LeavesKept
    BY <1>3, InsertKeeps
  <2>6. CASE Done(p)
    BY <2>4, <2>5, <2>6, DoneKnows, OthersKnow DEF TreeKept
  <2>7. CASE fileReq' = [fileReq EXCEPT ![p].left = @ \ {n}]
    <3>1. /\ fileReq'[p].pc = "leaf" /\ fileReq'[p].root = fileReq[p].root
          /\ \A q \in Requests \ {p} : fileReq'[q] = fileReq[q]
      BY <1>1, <2>7, TypeParts DEF Seeding
    <3>2. Knows(folder', fileReq[p])
      BY <1>1, <2>5, KnowsStays DEF Calls
    <3>3. Knows(folder', fileReq'[p])
      BY <1>1, <3>1, <3>2 DEF Knows, Migrations
    <3> QED BY <2>4, <2>5, <3>1, <3>3, OthersKnow DEF TreeKept
  <2> QED BY <1>3, <2>6, <2>7
<1> QED BY <1>2, <1>3 DEF SeedLeaf

LEMMA TreeStep ==
  TypeOK /\ TypeOK' /\ PathsNest /\ RequestsKnow /\ [Next]_filesVars => TreeKept
<1> SUFFICES ASSUME TypeOK, TypeOK', PathsNest, RequestsKnow, [Next]_filesVars
             PROVE  TreeKept
  OBVIOUS
<1>t. fileReq \in [Requests -> Calls]
  BY TypeParts
<1>1. ASSUME NEW p \in Requests, NEW n \in Names, StartCreate(p, n) PROVE TreeKept
  BY <1>1, TreeCreate
<1>2. ASSUME NEW p \in Requests, InsertFolder(p) PROVE TreeKept
  BY <1>2, TreeInsertFolder
<1>3. ASSUME NEW p \in Requests, NEW f \in FolderIds, StartDrop(p, f) PROVE TreeKept
  <2>1. fileReq'[p].pc = "deleteFolder" /\ \A q \in Requests \ {p} : fileReq'[q] = fileReq[q]
    BY <1>3, <1>t DEF StartDrop
  <2> QED BY <1>3, <2>1, TreeElsewhere DEF StartDrop, Migrations
<1>4. ASSUME NEW p \in Requests, DeleteFolder(p) PROVE TreeKept
  <2>1. PathsNest' /\ RowsKept /\ LeavesKept /\ Done(p)
    BY <1>4, DropNests, DropKeeps DEF DeleteFolder
  <2> QED BY <2>1, DoneKnows, OthersKnow DEF TreeKept
<1>5. ASSUME NEW p \in Requests, NEW seeds \in BOOLEAN, Migrate(p, seeds) PROVE TreeKept
  BY <1>5, TreeMigrate
<1>6. ASSUME NEW p \in Requests, FindRoot(p) PROVE TreeKept
  BY <1>6, TreeFindRoot
<1>7. ASSUME NEW p \in Requests, AddRoot(p) PROVE TreeKept
  BY <1>7, TreeAddRoot
<1>8. ASSUME NEW p \in Requests, Reparent(p) PROVE TreeKept
  BY <1>8, TreeReparent
<1>9. ASSUME NEW p \in Requests, ListFiles(p) PROVE TreeKept
  BY <1>9, TreeListFiles
<1>10. ASSUME NEW p \in Requests, Rename(p) PROVE TreeKept
  BY <1>10, TreeRename
<1>11. ASSUME NEW p \in Requests, Marker(p) PROVE TreeKept
  <2>1. fileReq[p] \in Seeding
    BY <1>11, <1>t, Shapes DEF Marker
  <2>2. CASE Throw(p)
    BY <1>11, <2>2, TreeThrow DEF Marker
  <2>3. CASE fileReq' = [fileReq EXCEPT ![p].pc = "seedRoot"]
    <3>1. fileReq'[p].pc = "seedRoot" /\ \A q \in Requests \ {p} : fileReq'[q] = fileReq[q]
      BY <1>t, <2>1, <2>3 DEF Seeding
    <3> QED BY <1>11, <3>1, TreeElsewhere DEF Marker, Migrations
  <2> QED BY <1>11, <2>2, <2>3 DEF Marker
<1>12. ASSUME NEW p \in Requests, SeedRoot(p) PROVE TreeKept
  BY <1>12, TreeSeedRoot
<1>13. ASSUME NEW p \in Requests, SeedLeaf(p) PROVE TreeKept
  BY <1>13, TreeSeedLeaf
<1>14. ASSUME NEW p \in Requests, NEW a \in AssetIds, NEW name \in FileNames,
              NEW f \in FolderIds, UploadTo(p, a, name, f)
       PROVE  TreeKept
  <2>1. fileReq'[p].pc = "put" /\ \A q \in Requests \ {p} : fileReq'[q] = fileReq[q]
    BY <1>14, <1>t DEF UploadTo, Put
  <2> QED BY <1>14, <2>1, TreeElsewhere DEF UploadTo, Migrations
<1>15. ASSUME NEW p \in Requests, NEW a \in AssetIds, NEW name \in FileNames,
              NEW n \in Names, UploadRouted(p, a, name, n)
       PROVE  TreeKept
  <2>1. fileReq'[p].pc \in {"put", "fallback"}
          /\ \A q \in Requests \ {p} : fileReq'[q] = fileReq[q]
    BY <1>15, <1>t DEF UploadRouted, Put
  <2> QED BY <1>15, <2>1, TreeElsewhere DEF UploadRouted, Migrations
<1>16. ASSUME NEW p \in Requests, Fallback(p) PROVE TreeKept
  <2>1. fileReq[p] \in Uploading
    BY <1>16, <1>t, Shapes DEF Fallback
  <2>2. fileReq'[p].pc = "put" /\ \A q \in Requests \ {p} : fileReq'[q] = fileReq[q]
    BY <1>16, <1>t, <2>1 DEF Fallback, Put, Uploading
  <2> QED BY <1>16, <2>2, TreeElsewhere DEF Fallback, Migrations
<1>17. ASSUME NEW p \in Requests, PutObject(p) PROVE TreeKept
  <2>1. fileReq[p] \in Uploading
    BY <1>17, <1>t, Shapes DEF PutObject
  <2>2. fileReq'[p].pc = "insertAsset" /\ \A q \in Requests \ {p} : fileReq'[q] = fileReq[q]
    BY <1>17, <1>t, <2>1 DEF PutObject, Uploading
  <2> QED BY <1>17, <2>2, TreeElsewhere DEF PutObject, Migrations
<1>18. ASSUME NEW p \in Requests, InsertAsset(p) PROVE TreeKept
  BY <1>18, TreeThrow DEF InsertAsset
<1>19. ASSUME NEW p \in Requests, NEW a \in AssetIds, StartRemove(p, a) PROVE TreeKept
  <2>1. fileReq'[p].pc = "unlink" /\ \A q \in Requests \ {p} : fileReq'[q] = fileReq[q]
    BY <1>19, <1>t DEF StartRemove
  <2> QED BY <1>19, <2>1, TreeElsewhere DEF StartRemove, Migrations
<1>20. ASSUME NEW p \in Requests, Unlink(p) PROVE TreeKept
  <2>1. fileReq[p] \in Removing
    BY <1>20, <1>t, Shapes DEF Unlink
  <2>2. fileReq'[p].pc = "deleteAsset" /\ \A q \in Requests \ {p} : fileReq'[q] = fileReq[q]
    BY <1>20, <1>t, <2>1 DEF Unlink, Removing
  <2> QED BY <1>20, <2>2, TreeElsewhere DEF Unlink, Migrations
<1>21. ASSUME NEW p \in Requests, DeleteAsset(p) PROVE TreeKept
  BY <1>21, TreeThrow DEF DeleteAsset
<1>22. ASSUME NEW p \in Requests, Fail(p) PROVE TreeKept
  BY <1>22, TreeThrow DEF Fail
<1>23. CASE UNCHANGED filesVars
  <2>1. RequestsKnow'
    BY <1>23 DEF filesVars, RequestsKnow
  <2> QED BY <1>23, <2>1, RowsUntouched DEF filesVars, TreeKept
<1> QED
  BY <1>1, <1>2, <1>3, <1>4, <1>5, <1>6, <1>7, <1>8, <1>9, <1>10, <1>11, <1>12,
     <1>13, <1>14, <1>15, <1>16, <1>17, <1>18, <1>19, <1>20, <1>21, <1>22, <1>23
  DEF Next

LEMMA TreeInit == Init => PathsNest /\ RequestsKnow
<1> SUFFICES ASSUME Init PROVE PathsNest /\ RequestsKnow
  OBVIOUS
<1>0. PICK there \in SUBSET Legacy : \E id \in [there -> FolderIds] :
          folder = [f \in FolderIds |->
            IF \E n \in there : id[n] = f
            THEN [is |-> "row", parent |-> NoFolder,
                  path |-> TopLevel(CHOOSE n \in there : id[n] = f)]
            ELSE Fresh]
  BY DEF Init
<1>1. PICK id \in [there -> FolderIds] :
          folder = [f \in FolderIds |->
            IF \E n \in there : id[n] = f
            THEN [is |-> "row", parent |-> NoFolder,
                  path |-> TopLevel(CHOOSE n \in there : id[n] = f)]
            ELSE Fresh]
  BY <1>0
<1>2. ASSUME NEW f \in Folders
      PROVE  folder[f].parent = NoFolder /\ \E n \in Names : folder[f].path = TopLevel(n)
  <2>1. \E n \in there : id[n] = f
    BY <1>1, <1>2 DEF Folders, Fresh
  <2>2. (CHOOSE n \in there : id[n] = f) \in there
    BY <2>1
  <2>3. f \in FolderIds
    BY <1>2 DEF Folders
  <2> QED BY <1>1, <2>1, <2>2, <2>3, FilesAssumption
<1>3. PathsNest
  BY <1>2 DEF PathsNest
<1>4. RequestsKnow
  BY NothingToKnow DEF Init, RequestsKnow, Idle, Migrations
<1> QED BY <1>3, <1>4

\* The folders of a deal are a tree and their paths say so, whatever is moved,
\* seeded, made and deleted meanwhile.
THEOREM PathsStayNested == Spec => []PathsNest
<1>1. TypeOK /\ TypeOK' /\ PathsNest /\ RequestsKnow /\ [Next]_filesVars
        => PathsNest' /\ RequestsKnow'
  BY TreeStep DEF TreeKept
<1> QED BY <1>1, TreeInit, TypeInit, TypeStep, PTL DEF Spec

(***************************************************************************)
(* SeedComplete.  A seeding under way has made every folder of the         *)
(* template that it does not have left to make, but for those dropped.     *)
(***************************************************************************)

SeedingKept ==
  \A p \in Requests : fileReq[p].pc = "leaf" =>
    \A n \in Leaves \ (fileReq[p].left \cup dropped) : HasLeaf(folder, n)

LEMMA SeedParts ==
  /\ SeedComplete <=> (seeding = "done" => \A n \in Leaves \ dropped : HasLeaf(folder, n))
  /\ SeedComplete' <=> (seeding' = "done" => \A n \in Leaves \ dropped' : HasLeaf(folder', n))
BY DEF SeedComplete, HasLeaf, At, Folders, There

\* A step that neither begins nor advances nor ends a seeding well.
SeedQuiet(p) ==
  /\ dropped \subseteq dropped' /\ (seeding' = "done" => seeding = "done")
  /\ fileReq'[p].pc # "leaf" \/ fileReq'[p] = fileReq[p]
  /\ \A q \in Requests \ {p} : fileReq'[q] = fileReq[q]

LEMMA SeedUndisturbed ==
  ASSUME SeedComplete, SeedingKept, LeavesKept, NEW p \in Requests, SeedQuiet(p)
  PROVE  SeedComplete' /\ SeedingKept'
<1>1. \A n \in Leaves \ dropped' : n \notin dropped /\ (HasLeaf(folder, n) => HasLeaf(folder', n))
  BY PathTypes DEF SeedQuiet, LeavesKept
<1>2. SeedComplete'
  BY <1>1, SeedParts DEF SeedQuiet
<1>3. SeedingKept'
  BY <1>1 DEF SeedQuiet, SeedingKept
<1> QED BY <1>2, <1>3

LEMMA ThrowQuiet ==
  ASSUME TypeOK, NEW p \in Requests, Throw(p)
  PROVE  SeedQuiet(p)
BY TypeParts DEF Throw, Done, Idle, SeedQuiet

LEMMA DoneQuiet ==
  ASSUME TypeOK, NEW p \in Requests, Done(p), UNCHANGED seeding, dropped \subseteq dropped'
  PROVE  SeedQuiet(p)
BY TypeParts DEF Done, Idle, SeedQuiet

LEMMA NextRowNoLeaf ==
  ASSUME NEW r \in Migrating
  PROVE  NextRow(r).pc # "leaf"
BY DEF NextRow, AfterMigration, Marking, Idle, Migrating

LEMMA SeedLeafStep ==
  ASSUME TypeOK, SeedComplete, SeedingKept, LeavesKept, NEW p \in Requests, SeedLeaf(p)
  PROVE  SeedComplete' /\ SeedingKept'
<1>1. fileReq[p] \in Seeding /\ fileReq[p].pc = "leaf"
  BY TypeParts, Shapes DEF SeedLeaf
<1>2. CASE Throw(p)
  BY <1>2, ThrowQuiet, SeedUndisturbed
<1>3. ASSUME NEW n \in fileReq[p].left, NEW f \in FolderIds,
             Insert(f, InRoot(n), fileReq[p].root), UNCHANGED <<dropped, tainted, renamed>>,
             IF fileReq[p].left = {n} THEN Done(p) /\ seeding' = "done"
             ELSE fileReq' = [fileReq EXCEPT ![p].left = @ \ {n}] /\ UNCHANGED seeding
      PROVE  SeedComplete' /\ SeedingKept'
  <2>1. HasLeaf(folder', n)
    BY <1>3, InsertKeeps DEF HasLeaf
  <2>2. \A m \in Leaves \ (fileReq[p].left \cup dropped) : HasLeaf(folder, m)
    BY <1>1 DEF SeedingKept
  <2>3. \A m \in Leaves \ dropped : HasLeaf(folder, m) => HasLeaf(folder', m)
    BY <1>3, PathTypes DEF LeavesKept
  <2>4. \A m \in Leaves \ dropped : m \notin fileReq[p].left \ {n} => HasLeaf(folder', m)
    BY <2>1, <2>2, <2>3
  <2>5. \A q \in Requests \ {p} : fileReq'[q] = fileReq[q]
    BY <1>3, TypeParts DEF Done
  <2>6. ASSUME NEW q \in Requests \ {p}, fileReq'[q].pc = "leaf"
        PROVE  \A m \in Leaves \ (fileReq'[q].left \cup dropped') : HasLeaf(folder', m)
    BY <1>3, <2>3, <2>5, <2>6 DEF SeedingKept
  <2>7. CASE fileReq[p].left = {n}
    <3>1. fileReq'[p].pc = "idle"
      BY <1>3, <2>7, TypeParts DEF Done, Idle
    <3>2. SeedComplete'
      BY <1>3, <2>4, <2>7, SeedParts
    <3>3. SeedingKept'
      BY <2>6, <3>1 DEF SeedingKept
    <3> QED BY <3>2, <3>3
  <2>8. CASE fileReq[p].left # {n}
    <3>1. fileReq'[p].left = fileReq[p].left \ {n}
      BY <1>1, <1>3, <2>8, TypeParts DEF Seeding
    <3>2. SeedComplete'
      BY <1>3, <2>3, <2>8, SeedParts
    <3>3. \A m \in Leaves \ (fileReq'[p].left \cup dropped') : HasLeaf(folder', m)
      BY <1>3, <2>4, <3>1
    <3>4. SeedingKept'
      BY <2>6, <3>3 DEF SeedingKept
    <3> QED BY <3>2, <3>4
  <2> QED BY <2>7, <2>8
<1> QED BY <1>2, <1>3 DEF SeedLeaf

LEMMA SeedStep ==
  TypeOK /\ LeavesKept /\ SeedComplete /\ SeedingKept /\ [Next]_filesVars
    => SeedComplete' /\ SeedingKept'
<1> SUFFICES ASSUME TypeOK, LeavesKept, SeedComplete, SeedingKept, [Next]_filesVars
             PROVE  SeedComplete' /\ SeedingKept'
  OBVIOUS
<1> DEFINE Goal == SeedComplete' /\ SeedingKept'
<1>t. fileReq \in [Requests -> Calls]
  BY TypeParts
<1>q. ASSUME NEW p \in Requests, SeedQuiet(p) PROVE Goal
  BY <1>q, SeedUndisturbed
<1>1. ASSUME NEW p \in Requests, NEW n \in Names, StartCreate(p, n) PROVE Goal
  <2>1. SeedQuiet(p)
    BY <1>1, <1>t DEF StartCreate, SeedQuiet, historyVars
  <2> QED BY <1>q, <2>1
<1>2. ASSUME NEW p \in Requests, InsertFolder(p) PROVE Goal
  BY <1>2, <1>q, DoneQuiet DEF InsertFolder, historyVars
<1>3. ASSUME NEW p \in Requests, NEW f \in FolderIds, StartDrop(p, f) PROVE Goal
  <2>1. SeedQuiet(p)
    BY <1>3, <1>t DEF StartDrop, SeedQuiet, historyVars
  <2> QED BY <1>q, <2>1
<1>4. ASSUME NEW p \in Requests, DeleteFolder(p) PROVE Goal
  BY <1>4, <1>q, DoneQuiet DEF DeleteFolder
<1>5. ASSUME NEW p \in Requests, NEW seeds \in BOOLEAN, Migrate(p, seeds) PROVE Goal
  <2>1. seeding' = "done" => seeding = "done"
    BY <1>5 DEF Migrate
  <2>2. SeedQuiet(p)
    BY <1>5, <1>t, <2>1 DEF Migrate, SeedQuiet, AfterMigration, Migration, Marking, Idle
  <2> QED BY <1>q, <2>2
<1>6. ASSUME NEW p \in Requests, FindRoot(p) PROVE Goal
  <2>1. fileReq[p] \in Migrating
    BY <1>6, <1>t, Shapes DEF FindRoot, Migrations
  <2>2. SeedQuiet(p)
    BY <1>6, <1>t, <2>1 DEF FindRoot, SeedQuiet, Migration, Migrating, historyVars
  <2> QED BY <1>q, <2>2
<1>7. ASSUME NEW p \in Requests, AddRoot(p) PROVE Goal
  <2>1. CASE Throw(p)
    BY <1>q, <2>1, ThrowQuiet
  <2>2. CASE /\ UNCHANGED historyVars
             /\ \E f \in FolderIds : fileReq' = [fileReq EXCEPT ![p] =
                  Migration(fileReq[p].seeds, "reparent", fileReq[p].rows, f)]
    <3>1. SeedQuiet(p)
      BY <1>t, <2>2 DEF SeedQuiet, Migration, historyVars
    <3> QED BY <1>q, <3>1
  <2> QED BY <1>7, <2>1, <2>2 DEF AddRoot
<1>8. ASSUME NEW p \in Requests, Reparent(p) PROVE Goal
  <2>1. fileReq[p] \in Migrating
    BY <1>8, <1>t, Shapes DEF Reparent, Migrations
  <2>2. CASE Throw(p)
    BY <1>q, <2>2, ThrowQuiet
  <2>3. CASE /\ UNCHANGED historyVars
             /\ \E f : fileReq' = [fileReq EXCEPT ![p] =
                  [fileReq[p] EXCEPT !.pc = "listFiles", !.row = f, !.rows = @ \ {f}]]
    <3>1. SeedQuiet(p)
      BY <1>t, <2>1, <2>3 DEF SeedQuiet, Migrating, historyVars
    <3> QED BY <1>q, <3>1
  <2> QED BY <1>8, <2>2, <2>3 DEF Reparent
<1>9. ASSUME NEW p \in Requests, ListFiles(p) PROVE Goal
  <2>1. fileReq[p] \in Migrating
    BY <1>9, <1>t, Shapes DEF ListFiles, Migrations
  <2>2. \A todo : [fileReq[p] EXCEPT !.pc = "rename", !.todo = todo].pc = "rename"
    BY <2>1 DEF Migrating
  <2>3. PICK todo : fileReq' = [fileReq EXCEPT ![p] =
          IF todo = {} THEN NextRow(fileReq[p])
          ELSE [fileReq[p] EXCEPT !.pc = "rename", !.todo = todo]]
    BY <1>9 DEF ListFiles
  <2>4. SeedQuiet(p)
    BY <1>9, <1>t, <2>1, <2>2, <2>3, NextRowNoLeaf DEF ListFiles, SeedQuiet, historyVars
  <2> QED BY <1>q, <2>4
<1>10. ASSUME NEW p \in Requests, Rename(p) PROVE Goal
  <2>1. fileReq[p] \in Migrating
    BY <1>10, <1>t, Shapes DEF Rename, Migrations
  <2>2. CASE Throw(p)
    BY <1>q, <2>2, ThrowQuiet
  <2>3. ASSUME NEW a, UNCHANGED <<seeding, dropped, tainted>>,
               fileReq' = [fileReq EXCEPT ![p] =
                 IF fileReq[p].todo = {a} THEN NextRow(fileReq[p])
                 ELSE [fileReq[p] EXCEPT !.todo = @ \ {a}]]
        PROVE  Goal
    <3>1. [fileReq[p] EXCEPT !.todo = @ \ {a}].pc = fileReq[p].pc /\ fileReq[p].pc # "leaf"
      BY <1>10, <2>1 DEF Migrating, Migrations
    <3>2. SeedQuiet(p)
      BY <1>t, <2>1, <2>3, <3>1, NextRowNoLeaf DEF SeedQuiet
    <3> QED BY <1>q, <3>2
  <2> QED BY <1>10, <2>2, <2>3 DEF Rename
<1>11. ASSUME NEW p \in Requests, Marker(p) PROVE Goal
  <2>1. fileReq[p] \in Seeding
    BY <1>11, <1>t, Shapes DEF Marker
  <2>2. CASE Throw(p)
    BY <1>q, <2>2, ThrowQuiet
  <2>3. CASE fileReq' = [fileReq EXCEPT ![p].pc = "seedRoot"] /\ UNCHANGED historyVars
    <3>1. SeedQuiet(p)
      BY <1>t, <2>1, <2>3 DEF SeedQuiet, Seeding, historyVars
    <3> QED BY <1>q, <3>1
  <2> QED BY <1>11, <2>2, <2>3 DEF Marker
<1>12. ASSUME NEW p \in Requests, SeedRoot(p) PROVE Goal
  <2>1. CASE Throw(p)
    BY <1>q, <2>1, ThrowQuiet
  <2>2. ASSUME NEW f \in FolderIds, UNCHANGED historyVars,
               fileReq' = [fileReq EXCEPT ![p] =
                             [pc |-> "leaf", left |-> Leaves, root |-> f]]
        PROVE  Goal
    <3>1. fileReq'[p].left = Leaves /\ \A q \in Requests \ {p} : fileReq'[q] = fileReq[q]
      BY <1>t, <2>2
    <3>2. \A n \in Leaves \ dropped : HasLeaf(folder, n) => HasLeaf(folder', n)
      BY <2>2, PathTypes DEF LeavesKept, historyVars
    <3>3. SeedComplete'
      BY <2>2, <3>2, SeedParts DEF historyVars
    <3>4. SeedingKept'
      BY <2>2, <3>1, <3>2 DEF SeedingKept, historyVars
    <3> QED BY <3>3, <3>4
  <2> QED BY <1>12, <2>1, <2>2 DEF SeedRoot
<1>13. ASSUME NEW p \in Requests, SeedLeaf(p) PROVE Goal
  BY <1>13, SeedLeafStep
<1>14. ASSUME NEW p \in Requests, NEW a \in AssetIds, NEW name \in FileNames,
              NEW f \in FolderIds, UploadTo(p, a, name, f)
       PROVE  Goal
  <2>1. SeedQuiet(p)
    BY <1>14, <1>t DEF UploadTo, Put, SeedQuiet, historyVars
  <2> QED BY <1>q, <2>1
<1>15. ASSUME NEW p \in Requests, NEW a \in AssetIds, NEW name \in FileNames,
              NEW n \in Names, UploadRouted(p, a, name, n)
       PROVE  Goal
  <2>1. SeedQuiet(p)
    BY <1>15, <1>t DEF UploadRouted, Put, SeedQuiet, historyVars
  <2> QED BY <1>q, <2>1
<1>16. ASSUME NEW p \in Requests, Fallback(p) PROVE Goal
  <2>1. fileReq[p] \in Uploading
    BY <1>16, <1>t, Shapes DEF Fallback
  <2>2. SeedQuiet(p)
    BY <1>16, <1>t, <2>1 DEF Fallback, Put, Uploading, SeedQuiet, historyVars
  <2> QED BY <1>q, <2>2
<1>17. ASSUME NEW p \in Requests, PutObject(p) PROVE Goal
  <2>1. fileReq[p] \in Uploading
    BY <1>17, <1>t, Shapes DEF PutObject
  <2>2. SeedQuiet(p)
    BY <1>17, <1>t, <2>1 DEF PutObject, Uploading, SeedQuiet
  <2> QED BY <1>q, <2>2
<1>18. ASSUME NEW p \in Requests, InsertAsset(p) PROVE Goal
  BY <1>18, <1>q, DoneQuiet DEF InsertAsset, historyVars
<1>19. ASSUME NEW p \in Requests, NEW a \in AssetIds, StartRemove(p, a) PROVE Goal
  <2>1. SeedQuiet(p)
    BY <1>19, <1>t DEF StartRemove, SeedQuiet
  <2> QED BY <1>q, <2>1
<1>20. ASSUME NEW p \in Requests, Unlink(p) PROVE Goal
  <2>1. fileReq[p] \in Removing
    BY <1>20, <1>t, Shapes DEF Unlink
  <2>2. SeedQuiet(p)
    BY <1>20, <1>t, <2>1 DEF Unlink, Removing, SeedQuiet, historyVars
  <2> QED BY <1>q, <2>2
<1>21. ASSUME NEW p \in Requests, DeleteAsset(p) PROVE Goal
  BY <1>21, <1>q, DoneQuiet DEF DeleteAsset, historyVars
<1>22. ASSUME NEW p \in Requests, Fail(p) PROVE Goal
  BY <1>22, <1>q, ThrowQuiet DEF Fail
<1>23. CASE UNCHANGED filesVars
  BY <1>23 DEF filesVars, SeedComplete, SeedingKept, At, Folders, HasLeaf, There
<1> QED
  BY <1>1, <1>2, <1>3, <1>4, <1>5, <1>6, <1>7, <1>8, <1>9, <1>10, <1>11, <1>12,
     <1>13, <1>14, <1>15, <1>16, <1>17, <1>18, <1>19, <1>20, <1>21, <1>22, <1>23
  DEF Next

LEMMA SeedInit == Init => SeedComplete /\ SeedingKept
<1> SUFFICES ASSUME Init PROVE SeedComplete /\ SeedingKept
  OBVIOUS
<1>1. seeding # "done" /\ \A p \in Requests : fileReq[p].pc = "idle"
  BY DEF Init, Idle
<1> QED BY <1>1 DEF SeedComplete, SeedingKept

\* A seeding that came to its end has made the whole template, whoever moved,
\* made or viewed folders meanwhile.
THEOREM SeedStaysComplete == Spec => []SeedComplete
<1>1. TypeOK /\ TypeOK' /\ PathsNest /\ RequestsKnow /\ SeedComplete /\ SeedingKept
        /\ [Next]_filesVars
        => PathsNest' /\ RequestsKnow' /\ SeedComplete' /\ SeedingKept'
  BY TreeStep, SeedStep DEF TreeKept
<1> QED BY <1>1, TreeInit, SeedInit, TypeInit, TypeStep, PTL DEF Spec
================================================================================
