--------------------------- MODULE DriveScanProps ---------------------------
(***************************************************************************)
(* What a scan promises, stated over the variables of DriveScan.           *)
(***************************************************************************)
EXTENDS DriveScan

Calls  == [dir : File, seen : SUBSET Ids, todo : SUBSET Nodes, more : BOOLEAN]
Labels == {"idle", "enter", "index", "list", "items", "append", "next", "files"}

IsJob(j) ==
    /\ j = [map |-> j.map, key |-> j.key, value |-> j.value,
            due |-> j.due, done |-> j.done, pos |-> j.pos]
    /\ j.map \in MapId \cup {NoMap}
    /\ j.value \in Seq(File)
    /\ j.pos \in 1 .. Len(j.value) + 1

(* A goroutine at label l with the calls st and the locals j has open      *)
(* calls of GetFileList exactly while it is in one, and holds a map        *)
(* exactly while it appends or saves.                                      *)
At(l, st, j) ==
    /\ IsJob(j)
    /\ st = << >> <=> l \in {"idle", "next", "files"}
    /\ j.map = NoMap <=> l \notin {"append", "next", "files"}
    /\ l = "append" => j.value # << >>

HeapTypeOK ==
    /\ filesMapData \in MapId
    /\ maps = [m \in MapId |-> maps[m]]
    /\ \A m \in MapId : \A k \in DOMAIN maps[m] : maps[m][k] \in Seq(File)
    /\ started \in BOOLEAN

ControlTypeOK ==
    /\ pc \in [Scanners -> Labels]
    /\ outcome \in [Scanners -> {"none", "ok", "err"}]
    /\ stack \in [Scanners -> Seq(Calls)]
    /\ job = [s \in Scanners |-> job[s]]
    /\ \A s \in Scanners : At(pc[s], stack[s], job[s])

(* Every variable has the values the code can give it.                     *)
TypeOK == CatalogTypeOK /\ HeapTypeOK /\ ControlTypeOK

Listing(k) == k \in DOMAIN cache /\ cache[k].kind = "list"

(* A file that a listing names has been stored: PROPFIND never shows a     *)
(* file that GET has no record of, however scans overlap and whenever the  *)
(* process dies (SaveFile writes the items before the listing).            *)
ListedFileIsStored ==
    \A k \in DOMAIN cache : Listing(k) =>
        \A i \in 1 .. Len(cache[k].list) :
            LET item == cache[k].list[i]
            IN  ~item.dir => Has(cache, makePathKey(item.path))

(* ... and what is stored is the file, not the listing of a folder, so     *)
(* that GET can parse it; where no folder has the key of a file.           *)
ListedFileIsRetrievable ==
    \A k \in DOMAIN cache : Listing(k) =>
        \A i \in 1 .. Len(cache[k].list) :
            LET item == cache[k].list[i]
                key  == makePathKey(item.path)
            IN  ~item.dir => /\ Has(cache, key)
                             /\ cache[key].kind = "file"
                             /\ makePathKey(cache[key].file.path) = key

(* The keys of the files that a list of items names.                       *)
FileKeys(list) ==
    {makePathKey(list[i].path) : i \in {j \in 1 .. Len(list) : ~list[j].dir}}

(* The scan implements Catalogue, what its readers may rely on: nothing    *)
(* stored is ever taken away, and the listing of a folder appears in one   *)
(* step, whole, after every file it names; so it is at every crash and     *)
(* however the goroutines share their map.                                 *)
Stored == DOMAIN cache
Listed == {k \in Stored : Listing(k)}
Shown  == [k \in Listed |-> FileKeys(cache[k].list)]

Readers == INSTANCE Catalogue WITH stored <- Stored, shown <- Shown, Evictable <- {}

ImplementsCatalogue == Readers!Spec

(* A record is filed where its readers look for it: a file under the key   *)
(* of its path, a listing under the key of its items' folder, which is one *)
(* and the same for all of them.  (Two goroutines append to one map, and   *)
(* the key of the map is not the key of the database.)                     *)
FiledIn(list, key) ==
    \A i \in 1 .. Len(list) : makePathKey(ParentPath(list[i])) = key

FiledUnderOwnKey ==
    \A k \in DOMAIN cache :
        IF Listing(k) THEN FiledIn(cache[k].list, k)
        ELSE makePathKey(cache[k].file.path) = k

(* Why: the items of the slice before the present one are stored, and the  *)
(* slices of every map, those in somebody's hands too, hold items of the   *)
(* folder whose key they have.                                             *)
SavedSoFar ==
    \A s \in Scanners : pc[s] = "files" =>
        \A i \in 1 .. job[s].pos - 1 :
            ~job[s].value[i].dir => Has(cache, makePathKey(job[s].value[i].path))

MapsFiled ==
    /\ \A m \in MapId : \A k \in DOMAIN maps[m] :
          FiledIn(maps[m][k], makePathKey(<<k>>))
    /\ \A s \in Scanners : pc[s] \in {"append", "files"} =>
          FiledIn(job[s].value, makePathKey(<<job[s].key>>))

(* The inductive invariant.                                                *)
IInv == /\ TypeOK
        /\ SavedSoFar
        /\ MapsFiled
        /\ ListedFileIsStored
        /\ FiledUnderOwnKey

Occurrences(list, id) == {i \in 1 .. Len(list) : list[i].id = id}

(* Two scans that add to one map may list an item twice, but no scan adds  *)
(* an item twice, whatever the pages and the errors, and unless it is moved *)
(* between two folders with one key: an item occurs in a listing at most   *)
(* once per goroutine.                                                     *)
NoScanListsTwice ==
    \A k \in DOMAIN cache : \A i \in 1 .. Len(cache[k].list) :
        Cardinality(Occurrences(cache[k].list, cache[k].list[i].id))
            <= Cardinality(Scanners)

(* The items of a tree, the path of each and the folders there are.        *)
ItemIds(tree) == {RootId} \cup {n.id : n \in tree}
PathOf(tree, id) ==
    LET path[i \in ItemIds(tree)] ==
            IF i = RootId THEN <<RootName>>
            ELSE LET n == CHOOSE x \in tree : x.id = i
                 IN  Append(path[n.parent], n.name)
    IN  path[id]

Folders(tree) == {RootId} \cup {n.id : n \in {x \in tree : x.dir}}
Filled(tree)  == {id \in Folders(tree) : Children(tree, id) # {}}

(* The listing of a folder shows what the folder holds, each item once.    *)
ShowsFolder(tree, id) ==
    LET key == makePathKey(PathOf(tree, id))
    IN  /\ Listing(key)
        /\ Len(cache[key].list) = Cardinality(Children(tree, id))
        /\ {cache[key].list[i] : i \in 1 .. Len(cache[key].list)}
              = {FileAt(n, Append(PathOf(tree, id), n.name))
                    : n \in Children(tree, id)}

(* What a drive is, for the API: ids are unique, every item is in a folder, *)
(* and no folder is below itself: of any folders, one is not in the others. *)
ProperTree(tree) ==
    /\ \A m, n \in tree : m.id = n.id => m = n
    /\ \A n \in tree : n.parent \in Folders(tree)
    /\ \A dirs \in SUBSET {n \in tree : n.dir} : dirs # {} =>
          \E n \in dirs : \A m \in dirs : n.parent # m.id

(* No item has the key of a folder but that folder itself.                 *)
FolderKeysApart(tree) ==
    \A f \in Folders(tree) : \A i \in ItemIds(tree) :
        makePathKey(PathOf(tree, f)) = makePathKey(PathOf(tree, i)) => f = i

(* Whatever happens to an item, it stays a file or a folder.               *)
KindsStay == \A m, n \in Nodes : m.id = n.id => m.dir = n.dir

(* For every id, paths that a scan may come to it by, whatever moves while *)
(* it runs: a call of GetFileList keeps the path it began with, and shows  *)
(* the items that the folder has when the page is fetched.                 *)
Reach(at) ==
    /\ <<RootName>> \in at[RootId]
    /\ \A n \in Nodes : \A p \in at[n.parent] : Append(p, n.name) \in at[n.id]

(* No folder that holds something has the key of a file.                   *)
FilesApart(at) ==
    \A m, n \in Nodes : \A p \in at[m.parent], q \in at[n.parent] :
        ~m.dir => makePathKey(Append(p, m.name)) # makePathKey(q)

(* How a scan may find an item: in which folder, under the key of which    *)
(* path, and with which key of its own.                                    *)
Finding(n, p) ==
    [id |-> n.id, parent |-> n.parent,
     in |-> makePathKey(p), own |-> makePathKey(Append(p, n.name))]
Findings(at) == UNION {{Finding(n, p) : p \in at[n.parent]} : n \in Nodes}

(* Ids are unique, and nothing is moved between two folders with one key,  *)
(* nor so that it has the key it had before.                               *)
FoundApart(at) ==
    /\ \A tree \in Trees : \A m, n \in tree : m.id = n.id => m = n
    /\ \A e, f \in Findings(at) : e.id = f.id =>
          /\ e.in = f.in => e.parent = f.parent
          /\ e.own = f.own => e.parent = f.parent /\ e.in = f.in

Idle == \A s \in Scanners : pc[s] = "idle"

(* ListAllFile returned nil ("获取云盘目录成功", main.go): if nothing runs  *)
(* any more, the listing of every folder that holds something shows it.    *)
SuccessMeansComplete ==
    Idle /\ (\E s \in Scanners : outcome[s] = "ok") =>
        \A id \in Filled(drive) : ShowsFolder(drive, id)

(* As above, when no call failed and nothing changed.                      *)
UndisturbedScanIsComplete == faults = 0 => SuccessMeansComplete

(* A scan comes to an end: the recursion and the pages are bounded, SaveFile's *)
(* loop is too, although another goroutine adds keys to the map.           *)
ScanEnds == \A s \in Scanners : pc[s] # "idle" ~> pc[s] = "idle"

(* GET finds the present record of each file of a folder.                  *)
ServesFolder(tree, id) ==
    \A n \in Children(tree, id) :
        LET path == Append(PathOf(tree, id), n.name)
            key  == makePathKey(path)
        IN  ~n.dir => Has(cache, key) /\ cache[key] = FileRecord(FileAt(n, path))

(* Once disturbances stop, the catalogue catches up with the drive for     *)
(* good: after errors, crashes and overlapping scans the listing of every  *)
(* folder that holds something shows what it holds, and its files can be   *)
(* fetched under their present ids.                                        *)
EventuallyCurrent ==
    <>[](\A id \in Filled(drive) :
            ShowsFolder(drive, id) /\ ServesFolder(drive, id))

(* ... and the listing of a folder that has become empty shows nothing.    *)
EventuallyForgotten ==
    <>[](\A id \in Folders(drive) \ Filled(drive) :
            LET key == makePathKey(PathOf(drive, id))
            IN  Listing(key) => cache[key].list = << >>)

=============================================================================
