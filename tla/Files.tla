--------------------------------- MODULE Files ---------------------------------
(***************************************************************************)
(* The folders and files of one deal: FilesService on the tables Folder    *)
(* and FileAsset and on the object storage.                                *)
(*                                                                         *)
(* A request is a sequence of awaited calls without a transaction; each    *)
(* action is one call with the code up to the next.  Rows are updated and  *)
(* deleted by id, objects are written and removed by key, and what a       *)
(* request read may be stale when it writes.  A refused request changes    *)
(* nothing.  Workspace folders are rows of the same tables that nothing    *)
(* migrates or seeds; deals share neither rows nor keys, for the page that *)
(* makes a folder sends the deal of the folder it is made in (createFolder *)
(* would take another one and is not asked to).  Making a folder in the    *)
(* storage leaves nothing that anybody reads; it is left out.              *)
(*                                                                         *)
(* A path is 'root' and the names below it, or names that do not start at  *)
(* 'root': [under, rest].  The umbrella of a deal is the path 'root'.      *)
(***************************************************************************)
EXTENDS Naturals, Sequences

CONSTANTS
  FolderIds,  \* the ids folder rows may get
  AssetIds,   \* the ids of file assets, and the contents of their uploads
  Requests,   \* the requests the API process may be serving at one time
  Names,      \* the names folders may get
  Leaves,     \* the names in the deal's folder template
  Legacy,     \* LEGACY_TOP_LEVEL: what older deals have at the top
  FileNames,  \* the names files are uploaded under
  MaxDepth    \* bound on the names in a path

ASSUME FilesAssumption ==
  /\ Leaves \cup Legacy \cup {"general"} \subseteq Names
  /\ "none" \notin FolderIds
  /\ MaxDepth \in Nat \ {0}

VARIABLES
  folder,    \* the Folder rows
  asset,     \* the FileAsset rows
  object,    \* the storage: the content stored under each key
  fileReq,   \* where each request is between its awaits
  seeding,   \* history: how ensureDefaultDealFolders fared, called once
  dropped,   \* history: template folders somebody deleted
  tainted,   \* history: uploads whose key another upload or a delete used
  renamed    \* history: assets a migration gave another key

filesVars == <<folder, asset, object, fileReq, seeding, dropped, tainted,
               renamed>>

Paths == [under : BOOLEAN, rest : Seq(Names)]
Root == [under |-> TRUE, rest |-> <<>>]
Base == [under |-> FALSE, rest |-> <<>>]   \* the deal's part of the storage
TopLevel(n) == [under |-> FALSE, rest |-> <<n>>]
InRoot(n) == [under |-> TRUE, rest |-> <<n>>]
Within(path, n) == [path EXCEPT !.rest = Append(@, n)]

Keys == [dir : Paths, name : FileNames]

NoFolder == "none"
FolderRefs == FolderIds \cup {NoFolder}

\* What is stored under a key, and what storing and removing leave.
Content(key) == { o.content : o \in { x \in object : x.key = key } }
Without(key) == { o \in object : o.key # key }
\* Mutant of With: what is there stays.
WithUnlessThere(key, a) ==
  IF Content(key) # {} THEN object ELSE object \cup {[key |-> key, content |-> a]}

With(key, a) == Without(key) \cup {[key |-> key, content |-> a]}

\* An id is used once.
Fresh == [is |-> "fresh"]
Gone == [is |-> "gone"]
FolderRows == [is : {"row"}, path : Paths, parent : FolderRefs]
AssetRows == [is : {"row"}, key : Keys, folder : FolderRefs]

Folders == { f \in FolderIds : folder[f].is = "row" }
Assets == { a \in AssetIds : asset[a].is = "row" }
At(path) == { f \in Folders : folder[f].path = path }

Idle == [pc |-> "idle"]

Creating == [pc : {"insertFolder"}, path : Paths, parent : FolderRefs]

\* A migration, for a page that shows the folders or before the seeding: the
\* legacy rows it still has to move, the umbrella, the row it is at and the
\* assets of that row it still has to rename.
Migrations == {"findRoot", "addRoot", "reparent", "listFiles", "rename"}
Migrating == [pc : Migrations,
              seeds : BOOLEAN, rows : SUBSET FolderIds, root : FolderRefs,
              row : FolderRefs, todo : SUBSET AssetIds]
Seeding == [pc : {"marker", "seedRoot", "leaf"}, left : SUBSET Leaves,
            root : FolderRefs]
Uploading == [pc : {"fallback", "put", "insertAsset"}, asset : AssetIds,
              folder : FolderRefs, key : Keys]
Removing == [pc : {"unlink", "deleteAsset"}, asset : AssetIds, key : Keys]
Dropping == [pc : {"deleteFolder"}, folder : FolderIds]

TypeOK ==
  /\ folder \in [FolderIds -> FolderRows \cup {Fresh, Gone}]
  /\ asset \in [AssetIds -> AssetRows \cup {Fresh, Gone}]
  /\ object \subseteq [key : Keys, content : AssetIds]
  /\ fileReq \in [Requests -> {Idle} \cup Creating \cup Migrating
                    \cup Seeding \cup Uploading \cup Removing \cup Dropping]
  /\ seeding \in {"due", "running", "done", "broken"}
  /\ dropped \subseteq Names
  /\ tainted \subseteq AssetIds
  /\ renamed \subseteq AssetIds

\* A deal is new, or it is from before the umbrella and has its folders on top.
Init ==
  /\ \E there \in SUBSET Legacy :
       /\ \E id \in [there -> FolderIds] :
            /\ \A m, n \in there : id[m] = id[n] => m = n
            /\ folder = [f \in FolderIds |->
                 IF \E n \in there : id[n] = f
                 THEN [is |-> "row", parent |-> NoFolder,
                       path |-> TopLevel(CHOOSE n \in there : id[n] = f)]
                 ELSE Fresh]
       /\ seeding \in IF there = {} THEN {"due", "broken"} ELSE {"broken"}
  /\ asset = [a \in AssetIds |-> Fresh]
  /\ object = {}
  /\ fileReq = [p \in Requests |-> Idle]
  /\ dropped = {} /\ tainted = {} /\ renamed = {}

historyVars == <<seeding, dropped, tainted, renamed>>

Done(p) == fileReq' = [fileReq EXCEPT ![p] = Idle]

\* The insert of a folder row, which the unique path of the deal or a parent
\* that is gone refuses.
CanInsert(path, parent) ==
  /\ At(path) = {}
  /\ parent # NoFolder => parent \in Folders

Insert(f, path, parent) ==
  /\ folder[f] = Fresh
  /\ folder' = [folder EXCEPT ![f] =
                  [is |-> "row", path |-> path, parent |-> parent]]

\* What a call that throws leaves: a seeding that dies stays half done.
Throw(p) ==
  /\ Done(p)
  /\ seeding' = IF \/ fileReq[p].pc \in {"marker", "seedRoot", "leaf"}
                   \/ fileReq[p].pc \in Migrations /\ fileReq[p].seeds
                THEN "broken" ELSE seeding
  /\ UNCHANGED <<dropped, tainted, renamed>>

(***************************************************************************)
(* createFolder and deleteFolder.                                          *)
(***************************************************************************)

\* The path of a folder made in f: the parent's, as it was read, and the name.
ChildPath(f, n) == Within(folder[f].path, n)

StartCreate(p, n) ==
  /\ fileReq[p] = Idle
  /\ \E r \in { [pc |-> "insertFolder", parent |-> NoFolder,
                 path |-> TopLevel(n)] }
              \cup { [pc |-> "insertFolder", parent |-> f,
                      path |-> ChildPath(f, n)] : f \in Folders } :
       /\ Len(r.path.rest) <= MaxDepth
       /\ fileReq' = [fileReq EXCEPT ![p] = r]
  /\ UNCHANGED <<folder, asset, object, historyVars>>

InsertFolder(p) ==
  LET r == fileReq[p] IN
  /\ r.pc = "insertFolder"
  /\ IF CanInsert(r.path, r.parent)
     THEN \E f \in FolderIds : Insert(f, r.path, r.parent)
     ELSE UNCHANGED folder
  /\ Done(p)
  /\ UNCHANGED <<asset, object, historyVars>>

\* Only an empty folder is deleted.
StartDrop(p, f) ==
  /\ fileReq[p] = Idle
  /\ f \in Folders
  /\ \A g \in Folders : folder[g].parent # f
  /\ \A a \in Assets : asset[a].folder # f
  /\ fileReq' = [fileReq EXCEPT ![p] = [pc |-> "deleteFolder", folder |-> f]]
  /\ UNCHANGED <<folder, asset, object, historyVars>>

\* Mutant of Subtree: the children of a folder outlive it.
SubtreeAlone(f) == { g \in Folders : g = f }

\* The rows a delete takes along: onDelete Cascade.  None, if the folder itself
\* is gone by then: the delete throws.
Subtree(f) ==
  { g \in Folders : f \in Folders /\
      \A S \in SUBSET Folders :
        f \in S /\ (\A h \in Folders : folder[h].parent \in S => h \in S)
          => g \in S }

\* Their files stay, in no folder: onDelete SetNull.
DeleteFolder(p) ==
  LET S == Subtree(fileReq[p].folder) IN
  /\ fileReq[p].pc = "deleteFolder"
  /\ folder' = [f \in FolderIds |-> IF f \in S THEN Gone ELSE folder[f]]
  /\ asset' = [a \in AssetIds |->
       IF a \in Assets /\ asset[a].folder \in S
       THEN [asset[a] EXCEPT !.folder = NoFolder] ELSE asset[a]]
  /\ dropped' = dropped \cup { n \in Names : At(InRoot(n)) \cap S # {} }
  /\ Done(p)
  /\ UNCHANGED <<object, seeding, tainted, renamed>>

(***************************************************************************)
(* migrateLegacyDealFolders, run by every view of the folders and before   *)
(* the seeding.                                                            *)
(***************************************************************************)

LegacyRows == { f \in Folders : /\ folder[f].parent = NoFolder
                                /\ folder[f].path \in { TopLevel(n) : n \in Legacy } }

Marking == [pc |-> "marker", left |-> Leaves, root |-> NoFolder]

Migration(seeds, pc, rows, root) ==
  [pc |-> pc, seeds |-> seeds, rows |-> rows, root |-> root,
   row |-> NoFolder, todo |-> {}]

\* What follows the migration.
AfterMigration(seeds) == IF seeds THEN Marking ELSE Idle

\* getFolderTree and getDealFolderTreeForDeal, or ensureDefaultDealFolders,
\* which the creation of a deal calls once.
Migrate(p, seeds) ==
  /\ fileReq[p] = Idle
  /\ IF seeds THEN seeding = "due" /\ seeding' = "running"
     ELSE UNCHANGED seeding
  /\ fileReq' = [fileReq EXCEPT ![p] =
       IF LegacyRows = {} THEN AfterMigration(seeds)
       ELSE Migration(seeds, "findRoot", LegacyRows, NoFolder)]
  /\ UNCHANGED <<folder, asset, object, dropped, tainted, renamed>>

FindRoot(p) ==
  LET r == fileReq[p] IN
  /\ r.pc = "findRoot"
  /\ \/ /\ At(Root) = {}
        /\ fileReq' = [fileReq EXCEPT ![p].pc = "addRoot"]
     \/ \E f \in At(Root) :
          fileReq' = [fileReq EXCEPT ![p] =
                        Migration(r.seeds, "reparent", r.rows, f)]
  /\ UNCHANGED <<folder, asset, object, historyVars>>

AddRoot(p) ==
  LET r == fileReq[p] IN
  /\ r.pc = "addRoot"
  /\ \/ /\ CanInsert(Root, NoFolder)
        /\ \E f \in FolderIds :
             /\ Insert(f, Root, NoFolder)
             /\ fileReq' = [fileReq EXCEPT ![p] =
                              Migration(r.seeds, "reparent", r.rows, f)]
        /\ UNCHANGED historyVars
     \/ /\ ~ CanInsert(Root, NoFolder)
        /\ Throw(p)
        /\ UNCHANGED folder
  /\ UNCHANGED <<asset, object>>

\* Where a legacy row goes: its name, under the umbrella.
Moved(path) == [path EXCEPT !.under = TRUE]

\* One row of the loop, by id, with the values read at the start.  A row or an
\* umbrella that is gone, or a path that is taken, throws.
Reparent(p) ==
  LET r == fileReq[p] IN
  /\ r.pc = "reparent"
  /\ \E f \in r.rows :
       IF f \in Folders /\ r.root \in Folders
            /\ At(Moved(folder[f].path)) \subseteq {f}
       THEN /\ folder' = [folder EXCEPT ![f].parent = r.root,
                                        ![f].path = Moved(@)]
            /\ fileReq' = [fileReq EXCEPT ![p] =
                 [r EXCEPT !.pc = "listFiles", !.row = f, !.rows = @ \ {f}]]
            /\ UNCHANGED historyVars
       ELSE Throw(p) /\ UNCHANGED folder
  /\ UNCHANGED <<asset, object>>

\* After the last call for a row: the next row, or what the migration was for.
NextRow(r) == IF r.rows # {} THEN [r EXCEPT !.pc = "reparent", !.todo = {}]
              ELSE AfterMigration(r.seeds)

\* The files of the row whose key starts with the path the row had.
ListFiles(p) ==
  LET r == fileReq[p]
      todo == { a \in Assets :
                  /\ asset[a].folder = r.row
                  /\ ~ asset[a].key.dir.under
                  /\ Len(asset[a].key.dir.rest) = 1 }
  IN
  /\ r.pc = "listFiles"
  /\ fileReq' = [fileReq EXCEPT ![p] =
       IF todo = {} THEN NextRow(r) ELSE [r EXCEPT !.pc = "rename", !.todo = todo]]
  /\ UNCHANGED <<folder, asset, object, historyVars>>

\* The key of the row changes, the object stays where it is.
Rename(p) ==
  LET r == fileReq[p] IN
  /\ r.pc = "rename"
  /\ \E a \in r.todo :
       IF a \in Assets
       THEN /\ asset' = [asset EXCEPT ![a].key.dir = Moved(@)]
            /\ renamed' = renamed \cup {a}
            /\ fileReq' = [fileReq EXCEPT ![p] =
                 IF r.todo = {a} THEN NextRow(r) ELSE [r EXCEPT !.todo = @ \ {a}]]
            /\ UNCHANGED <<seeding, dropped, tainted>>
       ELSE Throw(p) /\ UNCHANGED asset
  /\ UNCHANGED <<folder, object>>

(***************************************************************************)
(* ensureDefaultDealFolders, after its migration.                          *)
(***************************************************************************)

\* The umbrella stands for the whole tree: if it is there, nothing is done.
Marker(p) ==
  /\ fileReq[p].pc = "marker"
  /\ IF At(Root) # {} \/ Leaves = {} THEN Throw(p)
     ELSE /\ fileReq' = [fileReq EXCEPT ![p].pc = "seedRoot"]
          /\ UNCHANGED historyVars
  /\ UNCHANGED <<folder, asset, object>>

SeedRoot(p) ==
  /\ fileReq[p].pc = "seedRoot"
  /\ \/ /\ CanInsert(Root, NoFolder)
        /\ \E f \in FolderIds :
             /\ Insert(f, Root, NoFolder)
             /\ fileReq' = [fileReq EXCEPT ![p] =
                              [pc |-> "leaf", left |-> Leaves, root |-> f]]
        /\ UNCHANGED historyVars
     \/ /\ ~ CanInsert(Root, NoFolder)
        /\ Throw(p)
        /\ UNCHANGED folder
  /\ UNCHANGED <<asset, object>>

\* Mutant of SeedLeaf: a folder that cannot be made is skipped.
SeedLeafOrSkip(p) ==
  LET r == fileReq[p] IN
  /\ r.pc = "leaf"
  /\ \E n \in r.left :
       /\ IF CanInsert(InRoot(n), r.root)
          THEN \E f \in FolderIds : Insert(f, InRoot(n), r.root)
          ELSE UNCHANGED folder
       /\ IF r.left = {n}
          THEN Done(p) /\ seeding' = "done"
          ELSE /\ fileReq' = [fileReq EXCEPT ![p].left = @ \ {n}]
               /\ UNCHANGED seeding
  /\ UNCHANGED <<asset, object, dropped, tainted, renamed>>

\* One step of the walk over the template, in any order.  The template that deals
\* get is flat: the walk into a node's children has nowhere to go.
SeedLeaf(p) ==
  LET r == fileReq[p] IN
  /\ r.pc = "leaf"
  /\ \E n \in r.left :
       \/ /\ CanInsert(InRoot(n), r.root)
          /\ \E f \in FolderIds : Insert(f, InRoot(n), r.root)
          /\ IF r.left = {n}
             THEN Done(p) /\ seeding' = "done"
             ELSE /\ fileReq' = [fileReq EXCEPT ![p].left = @ \ {n}]
                  /\ UNCHANGED seeding
          /\ UNCHANGED <<dropped, tainted, renamed>>
       \/ /\ ~ CanInsert(InRoot(n), r.root)
          /\ Throw(p)
          /\ UNCHANGED folder
  /\ UNCHANGED <<asset, object>>

(***************************************************************************)
(* uploadFile and deleteFile.                                              *)
(***************************************************************************)

\* An id no upload has had.
Unused(a) ==
  /\ asset[a] = Fresh
  /\ \A o \in object : o.content # a
  /\ \A q \in Requests :
       fileReq[q].pc \in {"fallback", "put", "insertAsset"} => fileReq[q].asset # a

\* Mutant of Put: the file's id for its folder's.
PutOwnId(a, f, dir, name) ==
  [pc |-> "put", asset |-> a, folder |-> a, key |-> [dir |-> dir, name |-> name]]

Put(a, f, dir, name) ==
  [pc |-> "put", asset |-> a, folder |-> f, key |-> [dir |-> dir, name |-> name]]

\* Into the folder the request names.
UploadTo(p, a, name, f) ==
  /\ fileReq[p] = Idle /\ Unused(a)
  /\ f \in Folders
  /\ fileReq' = [fileReq EXCEPT ![p] = Put(a, f, folder[f].path, name)]
  /\ UNCHANGED <<folder, asset, object, historyVars>>

\* Into the folder the kind of file is routed to, if there is one.
UploadRouted(p, a, name, n) ==
  /\ fileReq[p] = Idle /\ Unused(a)
  /\ fileReq' = [fileReq EXCEPT ![p] =
       IF At(InRoot(n)) = {}
       THEN [Put(a, NoFolder, Base, name) EXCEPT !.pc = "fallback"]
       ELSE Put(a, CHOOSE f \in At(InRoot(n)) : TRUE, InRoot(n), name)]
  /\ UNCHANGED <<folder, asset, object, historyVars>>

\* ... or into 'general', or into no folder.
Fallback(p) ==
  LET r == fileReq[p] IN
  /\ r.pc = "fallback"
  /\ fileReq' = [fileReq EXCEPT ![p] =
       IF At(InRoot("general")) = {} THEN [r EXCEPT !.pc = "put"]
       ELSE Put(r.asset, CHOOSE f \in At(InRoot("general")) : TRUE,
                InRoot("general"), r.key.name)]
  /\ UNCHANGED <<folder, asset, object, historyVars>>

\* The uploads stored under a key whose row is there or still to come.
StoredAt(key) ==
  { a \in Assets : asset[a].key = key }
    \cup { fileReq[q].asset : q \in { x \in Requests :
             fileReq[x].pc = "insertAsset" /\ fileReq[x].key = key } }

\* The row is inserted next; a key is made of folder and name alone, so the
\* object may take the place of another upload's, or go with a delete that has
\* read the key.
PutObject(p) ==
  LET r == fileReq[p] IN
  /\ r.pc = "put"
  /\ object' = With(r.key, r.asset)
  /\ fileReq' = [fileReq EXCEPT ![p].pc = "insertAsset"]
  /\ tainted' = tainted \cup StoredAt(r.key)
       \cup { a \in {r.asset} : \E q \in Requests :
                fileReq[q].pc = "unlink" /\ fileReq[q].key = r.key }
  /\ UNCHANGED <<folder, asset, seeding, dropped, renamed>>

InsertAsset(p) ==
  LET r == fileReq[p] IN
  /\ r.pc = "insertAsset"
  /\ asset' = IF r.folder = NoFolder \/ r.folder \in Folders
              THEN [asset EXCEPT ![r.asset] =
                      [is |-> "row", key |-> r.key, folder |-> r.folder]]
              ELSE asset
  /\ Done(p)
  /\ UNCHANGED <<folder, object, historyVars>>

\* deleteFile reads the row, removes the object and deletes the row.
StartRemove(p, a) ==
  /\ fileReq[p] = Idle
  /\ a \in Assets
  /\ fileReq' = [fileReq EXCEPT ![p] =
                   [pc |-> "unlink", asset |-> a, key |-> asset[a].key]]
  /\ tainted' = tainted \cup StoredAt(asset[a].key)
  /\ UNCHANGED <<folder, asset, object, seeding, dropped, renamed>>

Unlink(p) ==
  /\ fileReq[p].pc = "unlink"
  /\ object' = Without(fileReq[p].key)
  /\ fileReq' = [fileReq EXCEPT ![p].pc = "deleteAsset"]
  /\ UNCHANGED <<folder, asset, historyVars>>

DeleteAsset(p) ==
  /\ fileReq[p].pc = "deleteAsset"
  /\ asset' = [asset EXCEPT ![fileReq[p].asset] = Gone]
  /\ Done(p)
  /\ UNCHANGED <<folder, object, historyVars>>

\* A call fails or the process dies: what was written stays.
Fail(p) ==
  /\ fileReq[p] # Idle
  /\ Throw(p)
  /\ UNCHANGED <<folder, asset, object>>

Next ==
  \E p \in Requests :
    \/ \E n \in Names : StartCreate(p, n)
    \/ InsertFolder(p)
    \/ \E f \in FolderIds : StartDrop(p, f)
    \/ DeleteFolder(p)
    \/ \E seeds \in BOOLEAN : Migrate(p, seeds)
    \/ FindRoot(p)
    \/ AddRoot(p)
    \/ Reparent(p)
    \/ ListFiles(p)
    \/ Rename(p)
    \/ Marker(p)
    \/ SeedRoot(p)
    \/ SeedLeaf(p)
    \/ \E a \in AssetIds, name \in FileNames :
         \/ \E f \in FolderIds : UploadTo(p, a, name, f)
         \/ \E n \in Names : UploadRouted(p, a, name, n)
    \/ Fallback(p)
    \/ PutObject(p)
    \/ InsertAsset(p)
    \/ \E a \in AssetIds : StartRemove(p, a)
    \/ Unlink(p)
    \/ DeleteAsset(p)
    \/ Fail(p)

Spec == Init /\ [][Next]_filesVars

(***************************************************************************)
(* Properties.                                                             *)
(***************************************************************************)

\* Whoever downloads a file gets what was uploaded: the row is inserted after
\* the object and holds its key for good, whatever folders are made, moved or
\* deleted meanwhile.  Exceptions are three: the key of another upload or of a
\* delete is the same, or a migration has written another key.
FilesReadable ==
  \A a \in Assets \ (tainted \cup renamed) : Content(asset[a].key) = {a}

\* The folders of a deal form a tree whose paths say so: a folder is at the top
\* or in a folder that is there, its path is that folder's and one more name,
\* but for the 'root' that a folder made before the migration of its parent
\* still lacks.  Creations that read a parent before it moved are included.
PathsNest ==
  \A f \in Folders :
    LET path == folder[f].path  parent == folder[f].parent IN
    IF parent = NoFolder THEN path = Root \/ \E n \in Names : path = TopLevel(n)
    ELSE /\ parent \in Folders
         /\ path.under => folder[parent].path.under
         /\ \E n \in Names : path.rest = Append(folder[parent].path.rest, n)

\* A deal whose seeding went through has every folder of its template, but for
\* those somebody deleted: no folder made, moved or viewed meanwhile goes
\* unnoticed.
SeedComplete ==
  seeding = "done" =>
    \A n \in Leaves \ dropped : At(InRoot(n)) # {}
=============================================================================
