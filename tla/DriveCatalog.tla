---------------------------- MODULE DriveCatalog ----------------------------
(***************************************************************************)
(* What the scanner (ali_driver/list.go, ali_driver/file.go) and the       *)
(* request handlers (webdav/webdav.go) share: the drive behind the API and *)
(* the catalogue of it kept in LevelDB.                                    *)
(*                                                                         *)
(* A string is a sequence of words, cut where it has a "_".  A name is a   *)
(* string; a path is the sequence of its names, "/" being what separates   *)
(* them.  Replacing "/" by "_" is then concatenating the names, and two    *)
(* paths with one key ("a_b" and "a/b") come out equal, as in the code.    *)
(*                                                                         *)
(* The database has three families of records, kept here in two variables: *)
(* file records and directory listings share the keys made by makePathKey  *)
(* (variable cache), directory entries have the prefix "index_" on top of  *)
(* it (variable index).                                                    *)
(***************************************************************************)
EXTENDS FileDB, Naturals, Sequences, FiniteSets

LOCAL INSTANCE SequencesExt

CONSTANTS
    Trees,      \* the states the drive may be in: sets of nodes
    RootId,     \* the id of the drive's root folder
    MaxFaults   \* bound on API errors, failed writes, drive changes, crashes

(***************************************************************************)
(* A node of the drive, as the API describes it (aliyundrive_open.FileInfo)*)
(* and a File of the code: a node with the path the scan found it at.      *)
(* ParentPath is that path without its last name and is not kept apart.    *)
(* The link of the last download, DownloadUrl, is left out.                *)
(***************************************************************************)
Nodes == UNION Trees
Ids   == {n.id : n \in Nodes} \cup {RootId}
Names == {n.name : n \in Nodes} \cup { << >> }
RootName == <<"root">>
Path  == Seq(Names \cup {RootName})
File  == [id : Ids, name : Names, dir : BOOLEAN, path : Path]
RootDir == [id |-> RootId, name |-> << >>, dir |-> TRUE, path |-> <<RootName>>]

ASSUME CatalogAssumption ==
    /\ MaxFaults \in Nat
    /\ \A n \in Nodes : n.dir \in BOOLEAN /\ n.id # RootId

IsString(words) == words \in Seq({words[i] : i \in DOMAIN words})

ASSUME NameAssumption == \A n \in Nodes : IsString(n.name)

FileAt(node, path) ==
    [id |-> node.id, name |-> node.name, dir |-> node.dir, path |-> path]

ParentPath(file) == SubSeq(file.path, 1, Len(file.path) - 1)

(* makePathKey, once the drive id is known: "/" replaced by "_" and the    *)
(* prefix "ali_<drive id>_" put before it, whatever is there already.      *)
Flat(path) == FlattenSeq(path)
PrefixAli  == <<"ali">>
makePathKey(path) == PrefixAli \o Flat(path)

(* The two kinds of JSON value under a key of makePathKey: the object      *)
(* written for a file, the array written for a folder.                     *)
FileRecord(file) == [kind |-> "file", file |-> file, list |-> << >>]
ListRecord(list) == [kind |-> "list", file |-> RootDir, list |-> list]
Record == [kind : {"file", "list"}, file : File, list : Seq(File)]

VARIABLES
    drive,  \* the drive's present tree, a member of Trees
    cache,  \* LevelDB: file records and listings, by makePathKey
    index,  \* LevelDB: directory entries, by makePathKey ("index_" keys)
    faults  \* how many disturbances there have been

catalogVars == <<drive, cache, index, faults>>

CatalogTypeOK ==
    /\ drive \in Trees
    /\ \A k \in DOMAIN cache : cache[k] \in Record
    /\ \A k \in DOMAIN index : index[k] \in File
    /\ faults \in 0 .. MaxFaults

CatalogInit ==
    /\ drive \in Trees
    /\ cache = EmptyDB
    /\ index = EmptyDB
    /\ faults = 0

Children(tree, id) == {n \in tree : n.parent = id}
Exists(tree, id)   == id = RootId \/ \E n \in tree : n.id = id

(* One disturbance more, if the bound leaves room for it.                  *)
Fault == faults < MaxFaults /\ faults' = faults + 1

(* Somebody changes the drive: files and folders come, go and are renamed. *)
DriveChanges ==
    /\ Fault
    /\ drive' \in Trees \ {drive}
    /\ UNCHANGED <<cache, index>>

=============================================================================
