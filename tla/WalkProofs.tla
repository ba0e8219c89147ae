----------------------------- MODULE WalkProofs -----------------------------
(***************************************************************************)
(* The proofs that a catalogue which is whole stays whole while scans and  *)
(* requests go on that nothing disturbs, and that a PROPFIND of it shows   *)
(* the whole of what it asks for, each item once: for every drive, every   *)
(* URL and depth, and any number of requests.                              *)
(***************************************************************************)
EXTENDS WebdavProofs

-----------------------------------------------------------------------------
(***************************************************************************)
(* The files of a tree.                                                    *)
(***************************************************************************)

LEMMA FileOfNode ==
    ASSUME NEW tree \in Trees, ProperTree(tree), NEW n \in tree
    PROVE  FileOf(tree, n.id) = ItemOf(tree, n)
<1>1. n.id # RootId
  BY TreeNodes
<1>2. (CHOOSE m \in tree : m.id = n.id) = n
  BY DEF ProperTree
<1> QED
  BY <1>1, <1>2, PathOfItem DEF FileOf, ItemOf

LEMMA FileOfItem ==
    ASSUME NEW tree \in Trees, ProperTree(tree), NEW id \in ItemIds(tree)
    PROVE  /\ FileOf(tree, id).id = id
           /\ FileOf(tree, id).path = PathOf(tree, id)
           /\ FileOf(tree, id).dir <=> id \in Folders(tree)
           /\ FileOf(tree, id) \in Files(tree)
<1>1. FileOf(tree, id) \in Files(tree)
  BY DEF Files, ItemIds
<1>2. CASE id = RootId
  BY <1>1, <1>2, PathOfItem DEF FileOf, RootDir, Folders
<1>3. CASE id # RootId
  <2>1. PICK n \in tree : n.id = id
    BY <1>3 DEF ItemIds
  <2>2. FileOf(tree, id) = FileAt(n, PathOf(tree, id))
    BY <2>1, FileOfNode, PathOfItem DEF ItemOf
  <2>3. n.dir <=> id \in Folders(tree)
    BY <1>3, <2>1 DEF ProperTree, Folders
  <2> QED
    BY <1>1, <2>1, <2>2, <2>3 DEF FileAt
<1> QED
  BY <1>2, <1>3

LEMMA FileHasId ==
    ASSUME NEW tree \in Trees, ProperTree(tree), NEW f \in Files(tree)
    PROVE  /\ f.id \in ItemIds(tree) /\ f = FileOf(tree, f.id)
           /\ f.path = PathOf(tree, f.id) /\ (f.dir <=> f.id \in Folders(tree))
<1>1. PICK id \in ItemIds(tree) : f = FileOf(tree, id)
  BY DEF Files, ItemIds
<1> QED
  BY <1>1, FileOfItem

LEMMA FoldersApart ==
    ASSUME NEW tree \in Trees, ProperTree(tree), KeysApart(tree)
    PROVE  FolderKeysApart(tree)
<1> SUFFICES ASSUME NEW f \in Folders(tree), NEW i \in ItemIds(tree),
                    makePathKey(PathOf(tree, f)) = makePathKey(PathOf(tree, i))
             PROVE  f = i
  BY DEF FolderKeysApart
<1>1. f \in ItemIds(tree)
  BY DEF Folders, ItemIds
<1>2. FileOf(tree, f) = FileOf(tree, i)
  BY <1>1, FileOfItem DEF KeysApart
<1> QED
  BY <1>1, <1>2, FileOfItem

(* Two files of a drive in which all keys differ have two paths.           *)
LEMMA PathsApart ==
    ASSUME NEW tree, KeysApart(tree), NEW f \in Files(tree), NEW g \in Files(tree),
           f.path = g.path
    PROVE  f = g
BY DEF KeysApart

LEMMA PathType ==
    ASSUME NEW tree \in Trees, ProperTree(tree), NEW id \in ItemIds(tree)
    PROVE  PathOf(tree, id) \in Path /\ PathOf(tree, id) # << >>
<1>1. <<RootName>> \in Path /\ <<RootName>> # << >>
  BY DEF Path
<1>2. ASSUME NEW n \in tree, PathOf(tree, n.parent) \in Path
      PROVE  PathOf(tree, n.id) \in Path /\ PathOf(tree, n.id) # << >>
  <2>1. n.name \in Names \cup {RootName}
    BY TreeNodes
  <2>2. PathOf(tree, n.id) = Append(PathOf(tree, n.parent), n.name)
    BY PathOfItem
  <2> QED
    BY <1>2, <2>1, <2>2, AppendProperties DEF Path
<1> DEFINE dirs == {n \in tree : n.dir}
           bad  == {n \in dirs : PathOf(tree, n.id) \notin Path}
<1>3. bad = {}
  <2> SUFFICES ASSUME bad # {} PROVE FALSE
    OBVIOUS
  <2>1. PICK n \in bad : \A m \in bad : n.parent # m.id
    BY DEF ProperTree
  <2>2. n.parent = RootId \/ \E m \in dirs : n.parent = m.id
    BY DEF ProperTree, Folders
  <2>3. PathOf(tree, n.parent) \in Path
    BY <1>1, <2>1, <2>2, PathOfItem
  <2> QED
    BY <1>2, <2>1, <2>3
<1>4. \A n \in tree : PathOf(tree, n.parent) \in Path
  <2> TAKE n \in tree
  <2>1. n.parent = RootId \/ \E m \in dirs : n.parent = m.id
    BY DEF ProperTree, Folders
  <2> QED
    BY <1>1, <1>3, <2>1, PathOfItem
<1> QED
  BY <1>1, <1>2, <1>4, PathOfItem DEF ItemIds


-----------------------------------------------------------------------------
(***************************************************************************)
(* The catalogue stays whole while a scan goes on that nothing disturbs.   *)
(***************************************************************************)

(* The keys of folders have the records they had.                          *)
FoldersKept ==
    \A f \in Folders(drive) :
        LET key == makePathKey(PathOf(drive, f))
        IN  key \in DOMAIN cache => key \in DOMAIN cache' /\ cache'[key] = cache[key]

(* What the index has belongs to folders.                                  *)
EntriesWhole ==
    \A k \in DOMAIN index : \E id \in Folders(drive) :
        k = makePathKey(PathOf(drive, id)) /\ index[k] = FileOf(drive, id)

LEMMA WholeIs == Whole <=> Complete /\ EntriesWhole
BY DEF Whole, Complete, EntriesWhole

LEMMA CompleteKept ==
    ASSUME Complete, UNCHANGED drive, FoldersKept PROVE Complete'
<1> SUFFICES ASSUME NEW id \in Filled(drive) PROVE ShowsFolder(drive, id)'
  BY DEF Complete
<1> DEFINE key == makePathKey(PathOf(drive, id))
<1>1. ShowsFolder(drive, id)
  BY DEF Complete
<1>2. key \in DOMAIN cache
  BY <1>1 DEF ShowsFolder, Listing
<1>3. id \in Folders(drive)
  BY DEF Filled
<1>4. key \in DOMAIN cache' /\ cache'[key] = cache[key]
  BY <1>2, <1>3 DEF FoldersKept
<1> QED
  BY <1>1, <1>4 DEF ShowsFolder, Listing

LEMMA SavingKept ==
    ASSUME NEW label, NEW j, NEW map, Saving(drive, label, j, map, cache), FoldersKept
    PROVE  Saving(drive, label, j, map, cache')
<1>1. ASSUME NEW k \in DOMAIN map, makePathKey(<<k>>) \in DOMAIN cache
      PROVE  makePathKey(<<k>>) \in DOMAIN cache'
             /\ cache'[makePathKey(<<k>>)] = cache[makePathKey(<<k>>)]
  <2>1. PICK f \in Folders(drive) : k = MapKey(PathOf(drive, f))
    BY DEF Saving, Holds
  <2>2. makePathKey(<<k>>) = makePathKey(PathOf(drive, f))
    BY <2>1, ListingKey
  <2> QED
    BY <1>1, <2>2 DEF FoldersKept
<1> QED
  BY <1>1 DEF Saving

(* What is neither a folder of the drive nor anything below it has another *)
(* key than any of them.                                                   *)
LEMMA KeptByPut ==
    ASSUME NEW key, NEW record, cache' = Put(cache, key, record),
           \A f \in Folders(drive) : makePathKey(PathOf(drive, f)) # key
    PROVE  FoldersKept
BY DEF FoldersKept, Put

LEMMA KeptByDelete ==
    ASSUME NEW key, cache' = Delete(cache, key),
           \A f \in Folders(drive) : makePathKey(PathOf(drive, f)) # key
    PROVE  FoldersKept
BY DEF FoldersKept, Delete

ShowsAll(list, tree, id) ==
    {list[i] : i \in 1 .. Len(list)}
       = {FileAt(n, Append(PathOf(tree, id), n.name)) : n \in Children(tree, id)}

LEMMA ListsShow ==
    ASSUME NEW tree, NEW id, NEW list, Lists(list, tree, Children(tree, id))
    PROVE  ShowsAll(list, tree, id)
<1>1. \A n \in Children(tree, id) :
         ItemOf(tree, n) = FileAt(n, Append(PathOf(tree, id), n.name))
  BY DEF ItemOf, Children
<1> QED
  BY <1>1 DEF Lists, ShowsAll

LEMMA CompletePut ==
    ASSUME Complete, UNCHANGED drive, ProperTree(drive), FolderKeysApart(drive),
           drive \in Trees, NEW f \in Folders(drive), NEW list \in Seq(File),
           Lists(list, drive, Children(drive, f)),
           cache' = Put(cache, makePathKey(PathOf(drive, f)), ListRecord(list))
    PROVE  Complete'
<1> SUFFICES ASSUME NEW id \in Filled(drive) PROVE ShowsFolder(drive, id)'
  BY DEF Complete
<1> DEFINE key == makePathKey(PathOf(drive, id))
           nodes == Children(drive, id)
<1>0. /\ key \in DOMAIN cache' /\ cache'[key].kind = "list"
      /\ Len(cache'[key].list) = Cardinality(nodes)
      /\ ShowsAll(cache'[key].list, drive, id)
      => ShowsFolder(drive, id)'
  <2> SUFFICES ASSUME /\ key \in DOMAIN cache' /\ cache'[key].kind = "list"
                      /\ Len(cache'[key].list) = Cardinality(nodes)
                      /\ ShowsAll(cache'[key].list, drive, id)
               PROVE  ShowsFolder(drive, id)'
    OBVIOUS
  <2>1. drive' = drive
    OBVIOUS
  <2> QED
    BY <2>1, Zenon DEF ShowsFolder, Listing, ShowsAll
<1>1. ShowsFolder(drive, id) /\ id \in Folders(drive) /\ id \in ItemIds(drive)
  BY DEF Complete, Filled, Folders, ItemIds
<1>2. CASE id = f
  <2>1. key \in DOMAIN cache' /\ cache'[key] = ListRecord(list)
    BY <1>2 DEF Put
  <2>2. nodes \in SUBSET drive /\ Lists(list, drive, nodes)
    BY <1>2 DEF Children
  <2>3. Len(list) = Cardinality(nodes)
    BY <2>2, ListsCount
  <2>4. ShowsAll(list, drive, id)
    BY <1>2, ListsShow
  <2>5. cache'[key].kind = "list" /\ cache'[key].list = list
    BY <2>1 DEF ListRecord
  <2> QED
    BY <1>0, <2>1, <2>3, <2>4, <2>5
<1>3. CASE id # f
  <2>1. key # makePathKey(PathOf(drive, f))
    BY <1>1, <1>3 DEF FolderKeysApart
  <2>2. key \in DOMAIN cache
    BY <1>1 DEF ShowsFolder, Listing
  <2>3. key \in DOMAIN cache' /\ cache'[key] = cache[key]
    BY <2>1, <2>2 DEF Put
  <2> QED
    BY <1>0, <1>1, <2>3 DEF ShowsFolder, Listing, ShowsAll
<1> QED
  BY <1>2, <1>3

LEMMA EntriesPut ==
    ASSUME EntriesWhole, UNCHANGED drive, NEW id \in Folders(drive),
           index' = Put(index, makePathKey(PathOf(drive, id)), FileOf(drive, id))
    PROVE  EntriesWhole'
BY DEF EntriesWhole, Put

LEMMA EntriesSame ==
    ASSUME EntriesWhole, UNCHANGED <<drive, index>> PROVE EntriesWhole'
BY DEF EntriesWhole

LEMMA EntriesDelete ==
    ASSUME EntriesWhole, UNCHANGED drive, NEW key, index' = Delete(index, key)
    PROVE  EntriesWhole'
BY DEF EntriesWhole, Delete

(* The calls of a scan have the folders of the drive in their hands.       *)
OpenDirs(tree, st) ==
    \A l \in 1 .. Len(st) : st[l].dir = FileOf(tree, st[l].dir.id)


LEMMA DirsTop ==
    ASSUME NEW tree, NEW st \in Seq(Calls), OpenDirs(tree, st), Len(st) \in Nat \ {0},
           NEW call \in Calls, call.dir = FileOf(tree, call.dir.id)
    PROVE  OpenDirs(tree, [st EXCEPT ![Len(st)] = call])
<1>1. Len(st) \in 1 .. Len(st)
  OBVIOUS
<1> QED
  BY <1>1, ExceptSeq DEF OpenDirs

LEMMA DirsPop ==
    ASSUME NEW tree, NEW st \in Seq(Calls), OpenDirs(tree, st), Len(st) \in Nat, Len(st) > 1
    PROVE  OpenDirs(tree, SubSeq(st, 1, Len(st) - 1))
<1> DEFINE new == SubSeq(st, 1, Len(st) - 1)
<1>1. \A k \in Nat : k > 1 => k - 1 \in Nat \ {0} /\ \A i \in 1 .. k - 1 : i \in 1 .. k
  OBVIOUS
<1>2. \A i \in 1 .. Len(st) - 1 : st[i] \in Calls
  BY <1>1, ElementOfSeq
<1>3. Len(new) = Len(st) - 1 /\ \A i \in 1 .. Len(st) - 1 : new[i] = st[i]
  BY <1>1, <1>2, SubSeqProperties
<1> HIDE DEF new
<1>4. OpenDirs(tree, new)
  BY <1>1, <1>3 DEF OpenDirs
<1> QED
  BY <1>4 DEF new

LEMMA DirsPush ==
    ASSUME NEW tree, NEW st \in Seq(Calls), OpenDirs(tree, st),
           NEW call \in Calls, call.dir = FileOf(tree, call.dir.id)
    PROVE  OpenDirs(tree, Append(st, call))
<1> DEFINE new == Append(st, call)
<1>1. /\ Len(new) = Len(st) + 1
      /\ \A i \in 1 .. Len(st) : new[i] = st[i]
      /\ new[Len(st) + 1] = call
  BY AppendProperties
<1>2. \A i \in 1 .. Len(new) : i \in 1 .. Len(st) \/ i = Len(st) + 1
  <2>1. \A k \in Nat : \A i \in 1 .. k + 1 : i \in 1 .. k \/ i = k + 1
    OBVIOUS
  <2> QED
    BY <1>1, <2>1, LenProperties
<1> HIDE DEF new
<1>3. OpenDirs(tree, new)
  BY <1>1, <1>2 DEF OpenDirs
<1> QED
  BY <1>3 DEF new

(* What a scan holds when it is on its way.                                *)
DirsInHand(s) == OpenDirs(drive, stack[s])

LEMMA DirsSetTop ==
    ASSUME TypeOK, NEW s \in Scanners, ScanInv(s), DirsInHand(s), pc[s] \in ScanLabels,
           UNCHANGED drive, NEW call \in Calls, stack' = SetTop(s, call),
           call.dir = FileOf(drive, call.dir.id)
    PROVE  DirsInHand(s)'
<1> DEFINE st == stack[s]
           new == [st EXCEPT ![Len(st)] = call]
<1>1. st \in Seq(Calls) /\ Len(st) \in Nat \ {0} /\ OpenDirs(drive, st)
  BY OnItsWay DEF DirsInHand
<1>2. stack'[s] = new
  BY DEF SetTop, TypeOK, ControlTypeOK
<1>3. OpenDirs(drive, new)
  BY <1>1, DirsTop
<1> QED
  BY <1>2, <1>3 DEF DirsInHand

LEMMA DirsNone == ASSUME NEW tree PROVE OpenDirs(tree, << >>)
<1>1. 1 .. Len(<< >>) = {}
  OBVIOUS
<1> QED
  BY <1>1 DEF OpenDirs

LEMMA DirsListAllFile ==
    ASSUME TypeOK, NEW s \in Scanners, ListAllFile(s) PROVE DirsInHand(s)'
<1>1. stack'[s] = <<Call(RootDir)>> /\ drive' = drive
  BY DEF ListAllFile, TypeOK, ControlTypeOK, catalogVars
<1>2. \A l \in 1 .. Len(<<Call(RootDir)>>) : <<Call(RootDir)>>[l] = Call(RootDir)
  OBVIOUS
<1>3. Call(RootDir).dir = FileOf(drive, Call(RootDir).dir.id)
  BY DEF Call, RootDir, FileOf
<1>4. OpenDirs(drive, <<Call(RootDir)>>)
  BY <1>2, <1>3 DEF OpenDirs
<1> QED
  BY <1>1, <1>4 DEF DirsInHand

(* The folder of the innermost call.                                       *)
LEMMA TopDir ==
    ASSUME TypeOK, NEW s \in Scanners, ScanInv(s), DirsInHand(s), pc[s] \in ScanLabels
    PROVE  Top(s).dir = FileOf(drive, Top(s).dir.id)
<1>1. stack[s] \in Seq(Calls) /\ Len(stack[s]) \in Nat \ {0} /\ Top(s) = stack[s][Len(stack[s])]
  BY OnItsWay
<1>2. Len(stack[s]) \in 1 .. Len(stack[s])
  BY <1>1
<1> QED
  BY <1>1, <1>2 DEF DirsInHand, OpenDirs

LEMMA DirsFetchDir ==
    ASSUME TypeOK, ProperTree(drive), NEW s \in Scanners, ScanInv(s), DirsInHand(s),
           FetchDir(s)
    PROVE  DirsInHand(s)'
<1>1. pc[s] = "enter" /\ pc[s] \in ScanLabels
  BY DEF FetchDir, ScanLabels
<1>2. Top(s) \in Calls /\ CallOK(drive, Top(s), "enter")
  BY <1>1, OnItsWay
<1>3. drive' = drive /\ drive \in Trees
  BY DEF FetchDir, catalogVars, TypeOK, CatalogTypeOK
<1>4. Exists(drive, Top(s).dir.id)
  BY <1>2 DEF CallOK, Exists, Folders
<1>5. \/ stack' = stack
      \/ \E n \in drive : /\ n.id = Top(s).dir.id
                          /\ stack' = SetTop(s, Call(FileAt(n, Top(s).dir.path)))
  BY <1>4 DEF FetchDir
<1>6. CASE stack' = stack
  BY <1>3, <1>6 DEF DirsInHand
<1>7. CASE stack' # stack
  <2>1. PICK n \in drive : /\ n.id = Top(s).dir.id
                           /\ stack' = SetTop(s, Call(FileAt(n, Top(s).dir.path)))
    BY <1>5, <1>7
  <2> DEFINE call == Call(FileAt(n, Top(s).dir.path))
  <2>2. Top(s).dir.path \in Path
    BY <1>2 DEF Calls, File
  <2>3. call \in Calls
    BY <1>3, <2>2, FileAtType, CallType, CatalogAssumption, TreeNodes
  <2>4. call.dir = FileAt(n, PathOf(drive, n.id)) /\ call.dir.id = n.id
    BY <1>2, <2>1 DEF Call, FileAt, CallOK
  <2>5. FileOf(drive, n.id) = FileAt(n, PathOf(drive, n.id))
    BY <1>3, FileOfNode, PathOfItem DEF ItemOf
  <2> HIDE DEF call
  <2>6. stack' = SetTop(s, call)
    BY <2>1 DEF call
  <2>7. call.dir = FileOf(drive, call.dir.id)
    BY <2>4, <2>5
  <2> QED
    BY <1>1, <1>3, <2>3, <2>6, <2>7, DirsSetTop
<1> QED
  BY <1>6, <1>7

LEMMA DirsFileList ==
    ASSUME TypeOK, ProperTree(drive), NEW s \in Scanners, ScanInv(s), DirsInHand(s),
           FileList(s) \/ LoadSlice(s)
    PROVE  DirsInHand(s)'
<1>1. pc[s] \in {"list", "items"} /\ pc[s] \in ScanLabels
  BY DEF FileList, LoadSlice, ScanLabels
<1>2. Top(s) \in Calls /\ CallOK(drive, Top(s), pc[s])
  BY <1>1, OnItsWay
<1>3. drive' = drive /\ drive \in Trees
  BY DEF FileList, LoadSlice, catalogVars, TypeOK, CatalogTypeOK
<1>4. Exists(drive, Top(s).dir.id)
  BY <1>2 DEF CallOK, Exists, Folders
<1>5. \E call \in Calls : stack' = SetTop(s, call) /\ call.dir = Top(s).dir
  <2>1. CASE FileList(s)
    <3>1. PICK page \in Pages(s) :
             stack' = SetTop(s, [Top(s) EXCEPT !.seen = @ \cup {n.id : n \in page},
                                               !.todo = page,
                                               !.more = MorePages(s, page)])
      BY <1>4, <2>1 DEF FileList
    <3> DEFINE call == [Top(s) EXCEPT !.seen = @ \cup {n.id : n \in page},
                                      !.todo = page,
                                      !.more = MorePages(s, page)]
    <3>2. page \subseteq drive
      BY DEF Pages, Rest, Children
    <3>3. page \subseteq Nodes /\ {n.id : n \in page} \subseteq Ids
      BY <1>3, <3>2 DEF Nodes, Ids
    <3>4. MorePages(s, page) \in BOOLEAN
      BY DEF MorePages
    <3>5. call \in Calls /\ call.dir = Top(s).dir
      BY <1>2, <3>3, <3>4 DEF Calls
    <3> QED
      BY <3>1, <3>5
  <2>2. CASE LoadSlice(s)
    <3>1. PICK n \in Top(s).todo : stack' = SetTop(s, [Top(s) EXCEPT !.todo = @ \ {n}])
      BY <2>2 DEF LoadSlice
    <3> DEFINE call == [Top(s) EXCEPT !.todo = @ \ {n}]
    <3>2. call \in Calls /\ call.dir = Top(s).dir
      BY <1>2 DEF Calls
    <3> QED
      BY <3>1, <3>2
  <2> QED
    BY <2>1, <2>2
<1>6. PICK call \in Calls : stack' = SetTop(s, call) /\ call.dir = Top(s).dir
  BY <1>5
<1>7. call.dir = FileOf(drive, call.dir.id)
  BY <1>1, <1>6, TopDir
<1> QED
  BY <1>1, <1>3, <1>6, <1>7, DirsSetTop


LEMMA DirsStoreSlice ==
    ASSUME TypeOK, ProperTree(drive), NEW s \in Scanners, ScanInv(s), DirsInHand(s),
           StoreSlice(s)
    PROVE  DirsInHand(s)'
<1> DEFINE st   == stack[s]
           j    == job[s]
           map  == maps[filesMapData]
           item == j.value[Len(j.value)]
<1>1. pc[s] = "append" /\ pc[s] \in ScanLabels
  BY DEF StoreSlice, ScanLabels
<1>2. /\ st \in Seq(Calls) /\ Len(st) \in Nat \ {0}
      /\ Scanning(drive, "append", st, j, map) /\ At("append", st, j)
  BY <1>1, OnItsWay
<1>3. drive' = drive /\ drive \in Trees
  BY DEF StoreSlice, catalogVars, TypeOK, CatalogTypeOK
<1>4. PICK n \in Children(drive, st[Len(st)].dir.id) :
         j.value = Append(SliceOf(map, j.key), ItemOf(drive, n))
  BY <1>2 DEF Scanning, AppendOK
<1>5. SliceOf(map, j.key) \in Seq(File)
  BY EmptySeq DEF SliceOf, TypeOK, HeapTypeOK
<1>6. n \in drive
  BY DEF Children
<1>7. ItemOf(drive, n) \in File
  <2>1. n.parent \in ItemIds(drive) /\ n \in Nodes
    BY <1>3, <1>6 DEF ProperTree, Folders, ItemIds, Nodes
  <2>2. PathOf(drive, n.parent) \in Path
    BY <1>3, <2>1, PathType
  <2> QED
    BY <2>1, <2>2, ItemType, CatalogAssumption DEF ItemOf
<1>8. item = ItemOf(drive, n)
  BY <1>4, <1>5, <1>7, AppendProperties
<1>9. item = FileOf(drive, item.id) /\ item \in File
  <2>1. item.id = n.id
    BY <1>8 DEF ItemOf, FileAt
  <2> QED
    BY <1>3, <1>6, <1>7, <1>8, <2>1, FileOfNode
<1>10. IF item.dir THEN stack' = [stack EXCEPT ![s] = Append(@, Call(item))]
                   ELSE UNCHANGED stack
  BY DEF StoreSlice
<1>11. OpenDirs(drive, st)
  BY DEF DirsInHand
<1> HIDE DEF item, st
<1>12. CASE item.dir
  <2>1. stack'[s] = Append(st, Call(item))
    BY <1>10, <1>12 DEF TypeOK, ControlTypeOK, st
  <2>2. Call(item) \in Calls /\ Call(item).dir = item
    BY <1>9, CallType DEF Call
  <2>3. OpenDirs(drive, Append(st, Call(item)))
    BY <1>2, <1>9, <1>11, <2>2, DirsPush
  <2> QED
    BY <1>3, <2>1, <2>3 DEF DirsInHand
<1>13. CASE ~item.dir
  BY <1>3, <1>10, <1>13 DEF DirsInHand
<1> QED
  BY <1>12, <1>13

LEMMA DirsEndPage ==
    ASSUME TypeOK, NEW s \in Scanners, ScanInv(s), DirsInHand(s), EndPage(s)
    PROVE  DirsInHand(s)'
<1>1. pc[s] \in ScanLabels
  BY DEF EndPage, ScanLabels
<1>2. stack[s] \in Seq(Calls) /\ Len(stack[s]) \in Nat \ {0}
  BY <1>1, OnItsWay
<1>3. drive' = drive /\ OpenDirs(drive, stack[s])
  BY DEF EndPage, catalogVars, DirsInHand
<1>4. \/ stack' = stack
      \/ stack' = [stack EXCEPT ![s] = << >>]
      \/ Len(stack[s]) > 1 /\ stack' = [stack EXCEPT ![s] = SubSeq(@, 1, Len(@) - 1)]
  BY DEF EndPage
<1>5. \/ stack'[s] = stack[s]
      \/ stack'[s] = << >>
      \/ Len(stack[s]) > 1 /\ stack'[s] = SubSeq(stack[s], 1, Len(stack[s]) - 1)
  BY <1>4 DEF TypeOK, ControlTypeOK
<1>6. OpenDirs(drive, stack'[s])
  BY <1>2, <1>3, <1>5, DirsPop, DirsNone
<1> QED
  BY <1>3, <1>6 DEF DirsInHand

LEMMA DirsStep ==
    ASSUME TypeOK, ProperTree(drive), NEW s \in Scanners, ScanInv(s), DirsInHand(s),
           Step(s), faults' = 0
    PROVE  DirsInHand(s)'
<1>1. CASE SaveListIndexData(s)
  BY <1>1, FaultCounts DEF SaveListIndexData, DirsInHand
<1>2. CASE NextKey(s) \/ PutItem(s) \/ PutListing(s) \/ EndRange(s)
  BY <1>2 DEF NextKey, PutItem, PutListing, EndRange, DirsInHand, catalogVars
<1> QED
  BY <1>1, <1>2, DirsListAllFile, DirsFetchDir, DirsFileList, DirsStoreSlice, DirsEndPage
  DEF Step

-----------------------------------------------------------------------------

(* The listing that a scan is about to write, and the folder it is of.     *)
LEMMA ListingAtHand ==
    ASSUME TypeOK, ProperTree(drive), NEW s \in Scanners, ScanInv(s), pc[s] = "files"
    PROVE  \E f \in Folders(drive) :
              /\ job[s].key = MapKey(PathOf(drive, f))
              /\ job[s].value \in Seq(File)
              /\ Lists(job[s].value, drive, Children(drive, f))
<1> DEFINE map == maps[filesMapData]
           j == job[s]
<1>1. At("files", stack[s], j)
  BY DEF TypeOK, ControlTypeOK
<1>2. Saving(drive, "files", j, map, cache)
  BY DEF ScanInv
<1>3. PICK f \in Folders(drive) : j.key = MapKey(PathOf(drive, f))
  BY <1>2 DEF Saving, Holds
<1>4. j.value = SliceOf(map, j.key)
  BY <1>2 DEF Saving, SliceOf
<1>5. Children(drive, f) \cap drive = Children(drive, f)
  BY DEF Children
<1>6. Lists(j.value, drive, Children(drive, f))
  BY <1>2, <1>3, <1>4, <1>5 DEF Saving, Holds
<1> QED
  BY <1>1, <1>3, <1>6 DEF At, IsJob

LEMMA WholePutItem ==
    ASSUME TypeOK, ProperTree(drive), FolderKeysApart(drive), Whole,
           NEW s \in Scanners, ScanInv(s), PutItem(s), faults' = 0
    PROVE  Whole'
<1> DEFINE item == job[s].value[job[s].pos]
<1>1. pc[s] = "files" /\ drive' = drive /\ index' = index /\ drive \in Trees
  BY DEF PutItem, TypeOK, CatalogTypeOK
<1>2. PICK f \in Folders(drive) :
         job[s].value \in Seq(File) /\ Lists(job[s].value, drive, Children(drive, f))
  BY <1>1, ListingAtHand
<1>3. At("files", stack[s], job[s])
  BY <1>1 DEF TypeOK, ControlTypeOK
<1>4. job[s].pos \in 1 .. Len(job[s].value)
  <2>1. /\ job[s].pos \in 1 .. Len(job[s].value) + 1 /\ job[s].pos <= Len(job[s].value)
        /\ Len(job[s].value) \in Nat
    BY <1>3, LenProperties DEF At, IsJob, PutItem
  <2> QED
    BY <2>1
<1>5. PICK n \in Children(drive, f) : item = ItemOf(drive, n)
  BY <1>2, <1>4 DEF Lists
<1>6. n \in drive /\ item.dir = n.dir /\ item.path = PathOf(drive, n.id)
  BY <1>1, <1>5, PathOfItem DEF ItemOf, FileAt, Children
<1>7. cache' = IF item.dir THEN cache ELSE Put(cache, makePathKey(item.path), FileRecord(item))
  BY FaultCounts DEF PutItem, ItemKey
<1>8. FoldersKept
  <2>1. CASE item.dir
    BY <1>7, <2>1 DEF FoldersKept
  <2>2. CASE ~item.dir
    <3>1. n.id \notin Folders(drive) /\ n.id \in ItemIds(drive)
      BY <1>1, <1>6, <2>2, TreeNodes DEF Folders, ProperTree, ItemIds
    <3>2. \A g \in Folders(drive) : makePathKey(PathOf(drive, g)) # makePathKey(item.path)
      BY <1>6, <3>1 DEF FolderKeysApart
    <3>3. cache' = Put(cache, makePathKey(item.path), FileRecord(item))
      BY <1>7, <2>2
    <3> HIDE DEF item
    <3> QED
      BY <3>2, <3>3, KeptByPut
  <2> QED
    BY <2>1, <2>2
<1>9. Complete' /\ EntriesWhole'
  BY <1>1, <1>8, WholeIs, CompleteKept, EntriesSame
<1> QED
  BY <1>9 DEF Whole, Complete, EntriesWhole

LEMMA WholePutListing ==
    ASSUME TypeOK, ProperTree(drive), FolderKeysApart(drive), Whole,
           NEW s \in Scanners, ScanInv(s), PutListing(s), faults' = 0
    PROVE  Whole'
<1> DEFINE j   == job[s]
           key == makePathKey(<<j.key>>)
           old == makePathKey(<<key>>)
<1>1. pc[s] = "files" /\ drive' = drive /\ drive \in Trees
  BY DEF PutListing, TypeOK, CatalogTypeOK
<1>2. PICK f \in Folders(drive) :
         /\ j.key = MapKey(PathOf(drive, f)) /\ j.value \in Seq(File)
         /\ Lists(j.value, drive, Children(drive, f))
  BY <1>1, ListingAtHand
<1>3. key = makePathKey(PathOf(drive, f))
  BY <1>2, ListingKey
<1>4. cache' = Put(cache, makePathKey(PathOf(drive, f)), ListRecord(j.value))
  BY <1>3, FaultCounts DEF PutListing
<1>5. index' = IF Has(index, old) THEN Put(index, makePathKey(index[old].path), index[old])
                                  ELSE index
  BY DEF PutListing
<1>6. Complete /\ EntriesWhole
  BY WholeIs
<1> HIDE DEF j, old
<1>7. Complete'
  BY <1>1, <1>2, <1>4, <1>6, CompletePut
<1>8. EntriesWhole'
  <2>1. CASE Has(index, old)
    <3>1. PICK id \in Folders(drive) :
             old = makePathKey(PathOf(drive, id)) /\ index[old] = FileOf(drive, id)
      BY <1>6, <2>1 DEF EntriesWhole, Has
    <3>2. id \in ItemIds(drive)
      BY DEF Folders, ItemIds
    <3>3. index[old].path = PathOf(drive, id)
      BY <1>1, <3>1, <3>2, FileOfItem
    <3>4. index' = Put(index, makePathKey(PathOf(drive, id)), FileOf(drive, id))
      BY <1>5, <2>1, <3>1, <3>3
    <3> QED
      BY <1>1, <1>6, <3>4, EntriesPut
  <2>2. CASE ~Has(index, old)
    BY <1>1, <1>5, <1>6, <2>2, EntriesSame
  <2> QED
    BY <2>1, <2>2
<1>9. Complete' /\ EntriesWhole' => Whole'
  BY DEF Whole, Complete, EntriesWhole
<1> QED
  BY <1>7, <1>8, <1>9

LEMMA WholeScan ==
    ASSUME TypeOK, ProperTree(drive), FolderKeysApart(drive), Whole,
           NEW s \in Scanners, ScanInv(s), DirsInHand(s), Step(s), faults' = 0
    PROVE  Whole'
<1>1. CASE SaveListIndexData(s)
  <2>1. pc[s] = "index" /\ pc[s] \in ScanLabels
    BY <1>1 DEF SaveListIndexData, ScanLabels
  <2>2. CallOK(drive, Top(s), "index") /\ Top(s).dir = FileOf(drive, Top(s).dir.id)
    BY <2>1, OnItsWay, TopDir
  <2>3. Top(s).dir.id \in Folders(drive) /\ Top(s).dir.path = PathOf(drive, Top(s).dir.id)
    BY <2>2 DEF CallOK
  <2>4. /\ index' = Put(index, makePathKey(Top(s).dir.path), Top(s).dir)
        /\ UNCHANGED <<drive, cache>>
    BY <1>1, FaultCounts DEF SaveListIndexData
  <2>5. EntriesWhole /\ Complete
    BY WholeIs
  <2>6. EntriesWhole'
    BY <2>2, <2>3, <2>4, <2>5, EntriesPut
  <2>7. Complete'
    BY <2>4, <2>5, CompleteStays
  <2> QED
    BY <2>6, <2>7 DEF Whole, Complete, EntriesWhole
<1>2. CASE UNCHANGED catalogVars
  <2>1. EntriesWhole' /\ Complete'
    BY <1>2, WholeIs, EntriesSame, CompleteStays DEF catalogVars
  <2> QED
    BY <2>1 DEF Whole, Complete, EntriesWhole
<1>3. \/ UNCHANGED catalogVars \/ SaveListIndexData(s) \/ PutItem(s) \/ PutListing(s)
  BY DEF Step, ListAllFile, FetchDir, FileList, LoadSlice, StoreSlice, EndPage, NextKey,
         EndRange, catalogVars
<1> QED
  BY <1>1, <1>2, <1>3, WholePutItem, WholePutListing


-----------------------------------------------------------------------------

(* GETs that ask for no folder leave the folders alone.                    *)
LEMMA WholeGet ==
    ASSUME OnlyFilesAsked, EntriesWhole, NEW c \in Clients, BeginGet(c) \/ GetStep(c)
    PROVE  UNCHANGED drive /\ FoldersKept /\ EntriesWhole'
<1>1. CASE UNCHANGED catalogVars
  BY <1>1 DEF catalogVars, FoldersKept, EntriesWhole
<1>2. CASE RemoveFile(c) \/ RemoveListIndexData(c) \/ UpdateFile(c)
  <2> DEFINE key == makePathKey(getPath[c])
  <2>1. \A f \in Folders(drive) : makePathKey(PathOf(drive, f)) # key
    <3>1. getPc[c] # "idle"
      BY <1>2 DEF RemoveFile, RemoveListIndexData, UpdateFile
    <3> QED
      BY <3>1 DEF OnlyFilesAsked
  <2>2. UNCHANGED drive
    BY <1>2 DEF RemoveFile, RemoveListIndexData, UpdateFile
  <2>3. FoldersKept
    <3>1. \/ UNCHANGED cache
          \/ cache' = Delete(cache, key)
          \/ cache' = Put(cache, key, FileRecord(getFile[c]))
      BY <1>2 DEF RemoveFile, RemoveListIndexData, UpdateFile, RemovedKey
    <3>2. CASE UNCHANGED cache
      BY <3>2 DEF FoldersKept
    <3> HIDE DEF key
    <3> QED
      BY <2>1, <3>1, <3>2, KeptByPut, KeptByDelete
  <2>4. EntriesWhole'
    <3>1. UNCHANGED index \/ index' = Delete(index, key)
      BY <1>2 DEF RemoveFile, RemoveListIndexData, UpdateFile, RemovedKey
    <3> QED
      BY <2>2, <3>1, EntriesSame, EntriesDelete
  <2> QED
    BY <2>2, <2>3, <2>4
<1> QED
  BY <1>1, <1>2 DEF GetStep, BeginGet, Lookup, FileDownloadURL

(* A scan goes on as it was, if only records of files come and go.         *)
LEMMA ScanKept ==
    ASSUME UNCHANGED <<drive, scanVars>>, FoldersKept, NEW s \in Scanners,
           ScanInv(s), DirsInHand(s)
    PROVE  ScanInv(s)' /\ DirsInHand(s)'
<1>1. /\ pc'[s] = pc[s] /\ job'[s] = job[s] /\ stack'[s] = stack[s]
      /\ maps'[filesMapData'] = maps[filesMapData] /\ filesMapData' = filesMapData
      /\ drive' = drive /\ outcome'[s] = outcome[s]
  BY DEF scanVars
<1>2. Scanning(drive, pc[s], stack[s], job[s], maps[filesMapData])' <=>
      Scanning(drive, pc[s], stack[s], job[s], maps[filesMapData])
  BY <1>1
<1>3. ASSUME Saving(drive, pc[s], job[s], maps[filesMapData], cache)
      PROVE  Saving(drive, pc[s], job[s], maps[filesMapData], cache)'
  <2>1. Saving(drive, pc[s], job[s], maps[filesMapData], cache')
    BY <1>3, SavingKept
  <2> QED
    BY <1>1, <2>1
<1>4. Complete => Complete'
  BY <1>1, CompleteKept
<1>5. ScanInv(s)'
  BY <1>1, <1>2, <1>3, <1>4 DEF ScanInv
<1> QED
  BY <1>1, <1>5 DEF DirsInHand

(* The inductive invariant: as long as nothing happens to the drive or to  *)
(* a call.                                                                 *)
Calm == faults = 0 /\ KeysApart(drive)

WholeInv ==
    /\ ServiceInv
    /\ Calm => Whole /\ \A s \in Scanners : ScanInv(s) /\ DirsInHand(s)

(* The drives in which items have keys of their own are proper trees.      *)
ProperIfApart == \A tree \in Trees : KeysApart(tree) => ProperTree(tree)

(* What can happen as long as nothing has.                                 *)
CalmStep ==
    \/ \E s \in Scanners : Step(s) /\ UNCHANGED <<getVars, walkVars>>
    \/ /\ \E c \in Clients : BeginGet(c) \/ GetStep(c)
       /\ UNCHANGED <<scanVars, walkVars>>
    \/ /\ \E w \in Walkers : BeginPropfind(w) \/ WalkStep(w)
       /\ UNCHANGED <<scanVars, getVars>>
    \/ UNCHANGED serviceVars

LEMMA CalmBefore ==
    ASSUME ServiceInv, [ServiceNext]_serviceVars, Calm'
    PROVE  Calm /\ UNCHANGED drive /\ CalmStep
<1>1. faults' = 0 /\ faults = 0
  BY FaultsGrow DEF Calm
<1>2. ~Fault
  BY <1>1, FaultCounts DEF ServiceInv
<1>3. CalmStep
  BY <1>2, Zenon
  DEF ServiceNext, ScanSteps, GetNext, WalkNext, CalmStep, CallFails, LookupFails, LinkFails,
      UpdateFails, WriteFails, ServiceCrash, Crash, DriveChanges
<1>4. UNCHANGED drive
  <2>1. ASSUME NEW s \in Scanners, Step(s) PROVE UNCHANGED drive
    BY <2>1
    DEF Step, ListAllFile, FetchDir, SaveListIndexData, FileList, LoadSlice, StoreSlice,
        EndPage, NextKey, PutItem, PutListing, EndRange, catalogVars
  <2>2. ASSUME NEW c \in Clients, BeginGet(c) \/ GetStep(c) PROVE UNCHANGED drive
    BY <2>2
    DEF BeginGet, GetStep, Lookup, RemoveFile, RemoveListIndexData, FileDownloadURL,
        UpdateFile, catalogVars
  <2>3. ASSUME NEW w \in Walkers, BeginPropfind(w) \/ WalkStep(w) PROVE UNCHANGED drive
    BY <2>3
    DEF BeginPropfind, WalkStep, FindEntry, BadBody, WalkRoot, OpenFolder, NextItem,
        EndLoop, EndWalk, catalogVars
  <2>4. UNCHANGED serviceVars => UNCHANGED drive
    BY DEF serviceVars, vars, catalogVars
  <2> QED
    BY <1>3, <2>1, <2>2, <2>3, <2>4 DEF CalmStep
<1> QED
  BY <1>1, <1>3, <1>4 DEF Calm

(* A walk and what changes nothing in the catalogue.                       *)
LEMMA WholeSame ==
    ASSUME UNCHANGED <<catalogVars, scanVars>>, Whole,
           \A s \in Scanners : ScanInv(s) /\ DirsInHand(s)
    PROVE  Whole' /\ \A s \in Scanners : ScanInv(s)' /\ DirsInHand(s)'
<1>1. UNCHANGED drive /\ UNCHANGED index /\ FoldersKept
  BY DEF catalogVars, FoldersKept
<1>2. EntriesWhole' /\ Complete'
  BY <1>1, WholeIs, EntriesSame, CompleteKept
<1>3. \A s \in Scanners : ScanInv(s)' /\ DirsInHand(s)'
  BY <1>1, ScanKept
<1> QED
  BY <1>2, <1>3 DEF Whole, Complete, EntriesWhole

(* A scan that is not on its way holds nothing.                            *)
LEMMA AtRest ==
    ASSUME TypeOK', Complete', NEW s \in Scanners, pc'[s] = "idle"
    PROVE  ScanInv(s)' /\ DirsInHand(s)'
<1>1. At("idle", stack'[s], job'[s])
  BY DEF TypeOK, ControlTypeOK
<1>2. stack'[s] = << >> /\ job'[s].map = NoMap
  BY <1>1 DEF At
<1>3. ScanInv(s)'
  BY <1>2 DEF ScanInv, ScanLabels
<1> QED
  BY <1>2, <1>3, DirsNone DEF DirsInHand

(* While a goroutine takes a step of its scan the others are at rest.      *)
LEMMA OthersAtRest ==
    ASSUME TypeOK, ScansApart, ScansApart', NEW s \in Scanners, Step(s),
           NEW t \in Scanners \ {s}
    PROVE  pc'[t] = "idle"
<1>1. pc'[t] = pc[t] /\ (pc[s] # "idle" \/ pc'[s] # "idle")
  BY DEF Step, ListAllFile, FetchDir, SaveListIndexData, FileList, LoadSlice, StoreSlice,
         EndPage, NextKey, PutItem, PutListing, EndRange, ReturnError, Goto, TypeOK,
         ControlTypeOK
<1> QED
  BY <1>1 DEF ScansApart

LEMMA WholeStep ==
    ASSUME ProperIfApart, ScansApart, ScansApart', OnlyFilesAsked,
           WholeInv, [ServiceNext]_serviceVars
    PROVE  WholeInv'
<1>1. ServiceInv'
  BY ServiceInvStep DEF WholeInv
<1> SUFFICES ASSUME Calm'
             PROVE  Whole' /\ \A s \in Scanners : ScanInv(s)' /\ DirsInHand(s)'
  <2>1. (\A s \in Scanners : ScanInv(s)' /\ DirsInHand(s)')
        => (\A s \in Scanners : ScanInv(s) /\ DirsInHand(s))'
    OBVIOUS
  <2> QED
    BY <1>1, <2>1 DEF WholeInv
<1>2. Calm /\ UNCHANGED drive /\ CalmStep
  BY CalmBefore DEF WholeInv
<1>3. /\ TypeOK /\ ServiceInv /\ Whole /\ drive \in Trees
      /\ \A s \in Scanners : ScanInv(s) /\ DirsInHand(s)
  BY <1>2 DEF WholeInv, ServiceInv, TypeOK, CatalogTypeOK
<1>4. ProperTree(drive) /\ FolderKeysApart(drive)
  BY <1>2, <1>3, FoldersApart DEF ProperIfApart, Calm
<1>5. faults' = 0
  BY DEF Calm
<1>6. CASE \E s \in Scanners : Step(s)
  <2>1. PICK s \in Scanners : Step(s)
    BY <1>6
  <2>2. ScanInv(s)' /\ DirsInHand(s)' /\ Whole'
    BY <1>3, <1>4, <1>5, <2>1, UndisturbedScan, DirsStep, WholeScan
  <2>3. ASSUME NEW t \in Scanners \ {s} PROVE ScanInv(t)' /\ DirsInHand(t)'
    <3>1. pc'[t] = "idle"
      BY <1>3, <2>1, OthersAtRest
    <3>2. TypeOK' /\ Complete'
      BY <1>1, <2>2 DEF ServiceInv, Whole, Complete
    <3> QED
      BY <3>1, <3>2, AtRest
  <2> QED
    BY <2>2, <2>3
<1>7. CASE /\ \E c \in Clients : BeginGet(c) \/ GetStep(c)
           /\ UNCHANGED <<scanVars, walkVars>>
  <2>1. Complete /\ EntriesWhole
    BY <1>3, WholeIs
  <2>2. FoldersKept /\ EntriesWhole'
    BY <1>7, <2>1, WholeGet
  <2>3. Complete'
    BY <1>2, <2>1, <2>2, CompleteKept
  <2>4. \A s \in Scanners : ScanInv(s)' /\ DirsInHand(s)'
    BY <1>2, <1>3, <1>7, <2>2, ScanKept
  <2> QED
    BY <2>2, <2>3, <2>4 DEF Whole, Complete, EntriesWhole
<1>8. CASE /\ \E w \in Walkers : BeginPropfind(w) \/ WalkStep(w)
           /\ UNCHANGED <<scanVars, getVars>>
  <2>1. UNCHANGED catalogVars
    BY <1>8
    DEF BeginPropfind, WalkStep, FindEntry, BadBody, WalkRoot, OpenFolder, NextItem,
        EndLoop, EndWalk
  <2> QED
    BY <1>3, <1>8, <2>1, WholeSame
<1>9. CASE UNCHANGED serviceVars
  BY <1>3, <1>9, WholeSame DEF serviceVars, vars
<1> QED
  BY <1>2, <1>6, <1>7, <1>8, <1>9 DEF CalmStep

LEMMA WholeInit == ASSUME OverWhole PROVE WholeInv
<1>1. TypeOK
  BY TypeFresh DEF OverWhole, TypeOK
<1>2. Filed
  BY DEF OverWhole, Fresh, EmptyDB, Filed, MapsFiled
<1>3. FileInHand /\ Unanswered
  BY RootDirType DEF OverWhole, GetInit, FileInHand, Unanswered, GetLabels
<1>4. ASSUME NEW s \in Scanners PROVE ScanInv(s) /\ DirsInHand(s)
  <2>1. pc[s] = "idle" /\ outcome[s] = "none" /\ job[s].map = NoMap /\ stack[s] = << >>
    BY DEF OverWhole, Fresh, NoJob, Job
  <2> QED
    BY <2>1, DirsNone DEF ScanInv, ScanLabels, DirsInHand
<1> QED
  BY <1>1, <1>2, <1>3, <1>4 DEF WholeInv, ServiceInv, OverWhole, Calm

(* A catalogue that is whole when a process is started over it stays so    *)
(* at every moment, as long as no call fails and the drive does not change *)
(* (SaveFile writes one listing after another, GetPlayInfo removes and     *)
(* writes back records, file.go), where no two items have one key; in      *)
(* every run in which no two goroutines are in a scan at once, and no GET  *)
(* asks for a folder.                                                      *)
THEOREM CatalogueIsKeptWhole ==
    ASSUME ProperIfApart
    PROVE  /\ OverWhole /\ [][ServiceNext]_serviceVars
           /\ []ScansApart /\ []OnlyFilesAsked
           => []CatalogueStaysWhole
<1>1. OverWhole => WholeInv
  BY WholeInit
<1>2. WholeInv /\ ScansApart /\ ScansApart' /\ OnlyFilesAsked /\ [ServiceNext]_serviceVars
      => WholeInv'
  BY WholeStep
<1>3. WholeInv => CatalogueStaysWhole
  BY DEF WholeInv, CatalogueStaysWhole, Calm
<1> QED
  BY <1>1, <1>2, <1>3, PTL

-----------------------------------------------------------------------------
(***************************************************************************)
(* What a walk has shown and what waits in its loops.                      *)
(***************************************************************************)

Shows(list, f) == \E j \in 1 .. Len(list) : list[j] = f
Once(list)     == \A i, j \in 1 .. Len(list) : list[i] = list[j] => i = j

Waits(cs, f) == \E l \in 1 .. Len(cs) : Shows(cs[l].list, f)

(* Each item waits in one place, and all loops pass on one depth.          *)
Queue(cs, depth) ==
    /\ \A l \in 1 .. Len(cs) : cs[l].depth = depth /\ Once(cs[l].list)
    /\ \A l, m \in 1 .. Len(cs) : \A f :
          Shows(cs[l].list, f) /\ Shows(cs[m].list, f) => l = m

LEMMA ShowsMore ==
    ASSUME NEW S, NEW list \in Seq(S), NEW f \in S, NEW g
    PROVE  Shows(Append(list, f), g) <=> Shows(list, g) \/ g = f
<1> DEFINE new == Append(list, f)
<1>1. /\ Len(new) = Len(list) + 1 /\ Len(list) \in Nat
      /\ \A i \in 1 .. Len(list) : new[i] = list[i]
      /\ new[Len(list) + 1] = f
  BY AppendProperties, LenProperties
<1>2. \A i \in 1 .. Len(list) + 1 : i \in 1 .. Len(list) \/ i = Len(list) + 1
  BY <1>1
<1>3. Len(list) + 1 \in 1 .. Len(list) + 1 /\ 1 .. Len(list) \subseteq 1 .. Len(list) + 1
  BY <1>1
<1> HIDE DEF new
<1>4. Shows(new, g) <=> Shows(list, g) \/ g = f
  BY <1>1, <1>2, <1>3 DEF Shows
<1> QED
  BY <1>4 DEF new

LEMMA OnceMore ==
    ASSUME NEW S, NEW list \in Seq(S), NEW f \in S, Once(list), ~Shows(list, f)
    PROVE  Once(Append(list, f))
<1> DEFINE new == Append(list, f)
<1>1. /\ Len(new) = Len(list) + 1 /\ Len(list) \in Nat
      /\ \A i \in 1 .. Len(list) : new[i] = list[i]
      /\ new[Len(list) + 1] = f
  BY AppendProperties, LenProperties
<1>2. \A i \in 1 .. Len(list) + 1 : i \in 1 .. Len(list) \/ i = Len(list) + 1
  BY <1>1
<1> HIDE DEF new
<1>3. Once(new)
  BY <1>1, <1>2 DEF Once, Shows
<1> QED
  BY <1>3 DEF new

(* The first item of a list, and the others.                               *)
LEMMA ShowsTail ==
    ASSUME NEW S, NEW list \in Seq(S), list # << >>, Once(list)
    PROVE  /\ Once(Tail(list)) /\ Shows(list, Head(list))
           /\ \A f : Shows(Tail(list), f) <=> Shows(list, f) /\ f # Head(list)
<1> DEFINE new == Tail(list)
<1>1. /\ Len(new) = Len(list) - 1 /\ Len(list) \in Nat \ {0}
      /\ \A i \in 1 .. Len(new) : new[i] = list[i + 1]
      /\ Head(list) = list[1]
  BY HeadTailProperties, EmptySeq
<1>2. /\ \A i \in 1 .. Len(new) : i + 1 \in 1 .. Len(list) /\ i + 1 # 1
      /\ \A i \in 1 .. Len(list) : i = 1 \/ (i - 1 \in 1 .. Len(new) /\ (i - 1) + 1 = i)
      /\ 1 \in 1 .. Len(list)
  BY <1>1
<1> HIDE DEF new
<1>3. Once(new)
  BY <1>1, <1>2 DEF Once
<1>4. ASSUME NEW f, Shows(new, f) PROVE Shows(list, f) /\ f # Head(list)
  BY <1>1, <1>2, <1>4 DEF Shows, Once
<1>5. ASSUME NEW f, Shows(list, f), f # Head(list) PROVE Shows(new, f)
  <2>1. PICK i \in 1 .. Len(list) : list[i] = f
    BY <1>5 DEF Shows
  <2>2. i - 1 \in 1 .. Len(new) /\ new[i - 1] = f
    BY <1>1, <1>2, <1>5, <2>1
  <2> QED
    BY <2>2 DEF Shows
<1>6. Shows(list, Head(list))
  BY <1>1, <1>2 DEF Shows
<1> QED
  BY <1>3, <1>4, <1>5, <1>6 DEF new

LEMMA ShowsNothing == ASSUME NEW f PROVE ~Shows(<< >>, f) /\ ~Waits(<< >>, f)
<1>1. 1 .. Len(<< >>) = {}
  OBVIOUS
<1> QED
  BY <1>1 DEF Shows, Waits

(* A loop begins.                                                          *)
LEMMA QueuePush ==
    ASSUME NEW cs \in Seq(WalkLoops), NEW depth, Queue(cs, depth),
           NEW loop \in WalkLoops, loop.depth = depth, Once(loop.list),
           \A f : Shows(loop.list, f) => ~Waits(cs, f)
    PROVE  /\ Queue(Append(cs, loop), depth)
           /\ \A f : Waits(Append(cs, loop), f) <=> Waits(cs, f) \/ Shows(loop.list, f)
<1> DEFINE new == Append(cs, loop)
<1>1. /\ Len(new) = Len(cs) + 1 /\ Len(cs) \in Nat
      /\ \A i \in 1 .. Len(cs) : new[i] = cs[i]
      /\ new[Len(cs) + 1] = loop
  BY AppendProperties, LenProperties
<1>2. /\ \A i \in 1 .. Len(cs) + 1 : i \in 1 .. Len(cs) \/ i = Len(cs) + 1
      /\ Len(cs) + 1 \in 1 .. Len(cs) + 1 /\ 1 .. Len(cs) \subseteq 1 .. Len(cs) + 1
  BY <1>1
<1> HIDE DEF new
<1>3. \A f : Waits(new, f) <=> Waits(cs, f) \/ Shows(loop.list, f)
  BY <1>1, <1>2 DEF Waits
<1>4. ASSUME NEW l \in 1 .. Len(new) PROVE new[l].depth = depth /\ Once(new[l].list)
  BY <1>1, <1>2 DEF Queue
<1>5. ASSUME NEW l \in 1 .. Len(new), NEW m \in 1 .. Len(new), NEW f,
             Shows(new[l].list, f), Shows(new[m].list, f)
      PROVE  l = m
  <2>1. \A i \in 1 .. Len(cs) : Shows(new[i].list, f) => Waits(cs, f)
    BY <1>1 DEF Waits
  <2>2. Shows(new[Len(cs) + 1].list, f) => ~Waits(cs, f)
    BY <1>1
  <2>3. CASE l \in 1 .. Len(cs) /\ m \in 1 .. Len(cs)
    BY <1>1, <1>5, <2>3 DEF Queue
  <2> QED
    BY <1>1, <1>2, <1>5, <2>1, <2>2, <2>3
<1>6. Queue(new, depth)
  BY <1>4, <1>5 DEF Queue
<1> QED
  BY <1>3, <1>6 DEF new

(* The next item is taken from the innermost loop.                         *)
LEMMA QueueTake ==
    ASSUME NEW cs \in Seq(WalkLoops), cs # << >>, NEW depth, Queue(cs, depth),
           cs[Len(cs)].list # << >>, NEW less, less = [cs EXCEPT ![Len(cs)].list = Tail(@)]
    PROVE  /\ Queue(less, depth) /\ Waits(cs, Head(cs[Len(cs)].list))
           /\ \A f : Waits(less, f) <=> Waits(cs, f) /\ f # Head(cs[Len(cs)].list)
<1> DEFINE n    == Len(cs)
           loop == cs[n]
           item == Head(loop.list)
           rest == [loop EXCEPT !.list = Tail(@)]
<1>1. n \in 1 .. Len(cs) /\ loop \in WalkLoops
  BY EmptySeq, ElementOfSeq
<1>2. loop.list \in Seq(Placeable) /\ Once(loop.list) /\ loop.depth = depth
  BY <1>1 DEF WalkLoops, Queue
<1>3. /\ Once(Tail(loop.list)) /\ Shows(loop.list, item)
      /\ \A f : Shows(Tail(loop.list), f) <=> Shows(loop.list, f) /\ f # item
  BY <1>2, ShowsTail
<1>4. rest.list = Tail(loop.list) /\ rest.depth = depth /\ rest \in WalkLoops
  <2>1. Tail(loop.list) \in Seq(Placeable)
    BY <1>2, HeadTailProperties
  <2> QED
    BY <1>1, <1>2, <2>1 DEF WalkLoops
<1>5. less = [cs EXCEPT ![n] = rest]
  BY <1>1
<1> HIDE DEF rest, item, loop
<1>6. Len(less) = Len(cs) /\ \A l \in 1 .. Len(cs) : less[l] = IF l = n THEN rest ELSE cs[l]
  <2>1. /\ Len([cs EXCEPT ![n] = rest]) = Len(cs)
        /\ \A l \in 1 .. Len(cs) : [cs EXCEPT ![n] = rest][l] = IF l = n THEN rest ELSE cs[l]
    BY <1>1, <1>4, ExceptSeq
  <2> QED
    BY <1>5, <2>1, Zenon
<1> HIDE DEF loop, n
<1>7. \A l \in 1 .. Len(cs) : less[l].depth = depth /\ Once(less[l].list)
  BY <1>3, <1>4, <1>6 DEF Queue
<1>8. ASSUME NEW l \in 1 .. Len(cs), NEW f
      PROVE  Shows(less[l].list, f) <=> Shows(cs[l].list, f) /\ (l = n => f # item)
  BY <1>3, <1>4, <1>6 DEF loop
<1>9. ASSUME NEW l \in 1 .. Len(cs), Shows(cs[l].list, item) PROVE l = n
  BY <1>1, <1>3, <1>9 DEF Queue, loop
<1>10. Queue(less, depth)
  BY <1>6, <1>7, <1>8 DEF Queue
<1>11. ASSUME NEW f PROVE Waits(less, f) <=> Waits(cs, f) /\ f # item
  BY <1>6, <1>8, <1>9 DEF Waits
<1>12. Waits(cs, item)
  BY <1>1, <1>3 DEF Waits, loop
<1> QED
  BY <1>10, <1>11, <1>12 DEF item, loop, n

(* The innermost loop is done.                                             *)
LEMMA QueuePop ==
    ASSUME NEW cs \in Seq(WalkLoops), cs # << >>, NEW depth, Queue(cs, depth),
           cs[Len(cs)].list = << >>
    PROVE  /\ Queue(OuterLoop(cs), depth)
           /\ \A f : Waits(OuterLoop(cs), f) <=> Waits(cs, f)
<1> DEFINE m == Len(cs) - 1
           outer == OuterLoop(cs)
<1>1. Len(cs) \in Nat \ {0} /\ m \in Nat
  BY EmptySeq
<1>2. /\ 1 .. m \subseteq 1 .. Len(cs)
      /\ \A l \in 1 .. Len(cs) : l \in 1 .. m \/ l = Len(cs)
  BY <1>1
<1>3. \A l \in 1 .. m : cs[l] \in WalkLoops
  BY <1>2, ElementOfSeq
<1>4. outer = SubSeq(cs, 1, m)
  BY DEF OuterLoop
<1> HIDE DEF m, outer
<1>5. Len(outer) = m /\ \A l \in 1 .. m : outer[l] = cs[l]
  BY <1>1, <1>3, <1>4, SubSeqProperties
<1>6. Queue(outer, depth)
  BY <1>2, <1>5 DEF Queue
<1>7. ASSUME NEW f PROVE Waits(outer, f) <=> Waits(cs, f)
  <2>1. ~Shows(cs[Len(cs)].list, f)
    BY ShowsNothing
  <2> QED
    BY <1>2, <1>5, <2>1 DEF Waits
<1> QED
  BY <1>6, <1>7 DEF outer


-----------------------------------------------------------------------------
(***************************************************************************)
(* What is below a path.                                                   *)
(***************************************************************************)

LEMMA BelowItself ==
    ASSUME NEW p \in Path PROVE IsBelow(p, p)
BY SubSeqFull, LenProperties DEF IsBelow, Path

LEMMA BelowAppend ==
    ASSUME NEW p \in Path, NEW q \in Path, NEW e \in Names \cup {RootName}
    PROVE  /\ IsBelow(Append(q, e), p) <=> IsBelow(q, p) \/ Append(q, e) = p
           /\ IsBelow(q, p) => Append(q, e) # p
<1> DEFINE new == Append(q, e)
           m   == Len(p)
<1>1. /\ new \in Path /\ Len(new) = Len(q) + 1 /\ Len(q) \in Nat /\ m \in Nat
      /\ \A i \in 1 .. Len(q) : new[i] = q[i]
      /\ p \in Seq(Names \cup {RootName}) /\ q \in Seq(Names \cup {RootName})
  BY AppendProperties, LenProperties DEF Path
<1> HIDE DEF new
<1>2. ASSUME m <= Len(q) PROVE SubSeq(new, 1, m) = SubSeq(q, 1, m)
  <2>1. \A i \in 1 .. m : i \in 1 .. Len(q) /\ i \in 1 .. Len(new)
    BY <1>1, <1>2
  <2>2. \A i \in 1 .. m : new[i] \in Names \cup {RootName} /\ q[i] \in Names \cup {RootName}
    BY <1>1, <2>1, ElementOfSeq
  <2> HIDE DEF m
  <2>3. /\ SubSeq(new, 1, m) \in Seq(Names \cup {RootName})
        /\ Len(SubSeq(new, 1, m)) = m
        /\ \A i \in 1 .. m : SubSeq(new, 1, m)[i] = new[i]
    BY <1>1, <2>2, SubSeqProperties
  <2>4. /\ SubSeq(q, 1, m) \in Seq(Names \cup {RootName})
        /\ Len(SubSeq(q, 1, m)) = m
        /\ \A i \in 1 .. m : SubSeq(q, 1, m)[i] = q[i]
    BY <1>1, <2>2, SubSeqProperties
  <2> DEFINE a == SubSeq(new, 1, m)
             b == SubSeq(q, 1, m)
  <2>5. \A i \in 1 .. m : a[i] = b[i]
    BY <1>1, <2>1, <2>3, <2>4
  <2> HIDE DEF a, b
  <2> QED
    BY <2>3, <2>4, <2>5, SeqEqual DEF a, b
<1>3. ASSUME m = Len(new) PROVE SubSeq(new, 1, m) = new
  BY <1>1, <1>3, SubSeqFull DEF Path
<1>4. CASE m <= Len(q)
  BY <1>1, <1>2, <1>4 DEF IsBelow
<1>5. CASE m = Len(new)
  BY <1>1, <1>3, <1>5 DEF IsBelow
<1>6. CASE m > Len(new)
  BY <1>1, <1>6 DEF IsBelow
<1> QED
  BY <1>1, <1>4, <1>5, <1>6 DEF new

(* An item, and the folder it is in.                                       *)
LEMMA ItemInFolder ==
    ASSUME NEW tree \in Trees, ProperTree(tree), NEW n \in tree
    PROVE  LET f == ItemOf(tree, n)
               g == FileOf(tree, n.parent)
           IN  /\ f \in Files(tree) /\ f.id = n.id
               /\ g \in Files(tree) /\ g.id = n.parent /\ g.dir
               /\ g.path = PathOf(tree, n.parent)
               /\ f.path = Append(g.path, n.name) /\ n.name \in Names \cup {RootName}
               /\ f.path \in Path /\ g.path \in Path
               /\ Len(f.path) = Len(g.path) + 1 /\ Len(g.path) \in Nat
               /\ ParentPath(f) = g.path
<1>1. n.parent \in Folders(tree) /\ n.parent \in ItemIds(tree) /\ n.id \in ItemIds(tree)
  BY DEF ProperTree, Folders, ItemIds
<1>2. /\ FileOf(tree, n.parent) \in Files(tree) /\ FileOf(tree, n.parent).id = n.parent
      /\ FileOf(tree, n.parent).dir /\ FileOf(tree, n.parent).path = PathOf(tree, n.parent)
  BY <1>1, FileOfItem
<1>3. ItemOf(tree, n) \in Files(tree) /\ ItemOf(tree, n).id = n.id
  BY <1>1, FileOfItem, FileOfNode
<1>4. ItemOf(tree, n).path = Append(PathOf(tree, n.parent), n.name)
  BY DEF ItemOf, FileAt
<1>5. n.name \in Names /\ PathOf(tree, n.parent) \in Path
  BY <1>1, TreeNodes, PathType
<1>6. /\ Append(PathOf(tree, n.parent), n.name) \in Path
      /\ Len(Append(PathOf(tree, n.parent), n.name)) = Len(PathOf(tree, n.parent)) + 1
      /\ Len(PathOf(tree, n.parent)) \in Nat
  BY <1>5, AppendProperties, LenProperties DEF Path
<1>7. ParentPath(ItemOf(tree, n)) = PathOf(tree, n.parent)
  BY <1>5, ParentOfItem DEF ItemOf
<1> QED
  BY <1>2, <1>3, <1>4, <1>5, <1>6, <1>7

(* Every item but the root's is in a folder.                               *)
LEMMA ItemOrRoot ==
    ASSUME NEW tree \in Trees, ProperTree(tree), NEW f \in Files(tree)
    PROVE  /\ f = RootDir \/ \E n \in tree : f = ItemOf(tree, n)
           /\ f.path \in Path /\ f.path # << >> /\ Len(f.path) \in Nat \ {0}
<1>1. f.id \in ItemIds(tree) /\ f = FileOf(tree, f.id) /\ f.path = PathOf(tree, f.id)
  BY FileHasId
<1>2. f.id = RootId \/ \E n \in tree : n.id = f.id
  BY <1>1 DEF ItemIds
<1>3. f = RootDir \/ \E n \in tree : f = ItemOf(tree, n)
  BY <1>1, <1>2, FileOfNode DEF FileOf
<1>4. f.path \in Path /\ f.path # << >>
  BY <1>1, PathType
<1> QED
  BY <1>3, <1>4, EmptySeq DEF Path


-----------------------------------------------------------------------------
(***************************************************************************)
(* A walk of a whole catalogue, as long as nothing is disturbed: the items *)
(* of a folder that was opened are shown or wait, and nothing else is.     *)
(***************************************************************************)

(* Shown, and not the folder that is about to be opened.                   *)
Entered(list, hand, g) == Shows(list, g) /\ g \notin hand
DeepEnough(p, d, path) == d = Infinite \/ (d = 1 /\ path = p)
Shallow(p, d, path) == d = Infinite \/ Len(path) <= Len(p) + d

FoundBelow(tree, p, cs, list) ==
    \A f : Shows(list, f) \/ Waits(cs, f) => f \in Files(tree) /\ IsBelow(f.path, p)

NothingTwice(d, cs, list) ==
    /\ Once(list) /\ Queue(cs, ItemDepth(d))
    /\ \A f : Waits(cs, f) => ~Shows(list, f)

FolderEntered(tree, p, hand, cs, list) ==
    \A n \in tree :
        LET f == ItemOf(tree, n)
        IN  Waits(cs, f) \/ (Shows(list, f) /\ f.path # p)
               => Entered(list, hand, FileOf(tree, n.parent))

EnteredHasAll(tree, p, d, hand, cs, list) ==
    \A n \in tree :
        /\ Entered(list, hand, FileOf(tree, n.parent))
        /\ DeepEnough(p, d, PathOf(tree, n.parent))
        => Shows(list, ItemOf(tree, n)) \/ Waits(cs, ItemOf(tree, n))

Walking(tree, p, d, hand, cs, list) ==
    /\ list # << >> /\ list[1].path = p
    /\ FoundBelow(tree, p, cs, list)
    /\ NothingTwice(d, cs, list)
    /\ FolderEntered(tree, p, hand, cs, list)
    /\ EnteredHasAll(tree, p, d, hand, cs, list)

LEMMA FirstShown ==
    ASSUME NEW tree, KeysApart(tree), NEW p, NEW d, NEW hand, NEW cs, NEW S, NEW list \in Seq(S),
           Walking(tree, p, d, hand, cs, list)
    PROVE  /\ Shows(list, list[1]) /\ list[1] \in Files(tree)
           /\ \A f \in Files(tree) : f.path = p => f = list[1]
<1>1. 1 \in 1 .. Len(list)
  BY EmptySeq DEF Walking
<1>2. Shows(list, list[1])
  BY <1>1 DEF Shows
<1>3. list[1] \in Files(tree)
  BY <1>2 DEF Walking, FoundBelow
<1> QED
  BY <1>2, <1>3, PathsApart DEF Walking

(* The walk begins: the file found for the path asked for is shown.        *)
LEMMA WalkingBegins ==
    ASSUME NEW tree \in Trees, ProperTree(tree), NEW f \in Files(tree), NEW d,
           d \in {0, 1, Infinite}
    PROVE  Walking(tree, f.path, d, IF f.dir /\ d # 0 THEN {f} ELSE {}, << >>, <<f>>)
<1> DEFINE hand == IF f.dir /\ d # 0 THEN {f} ELSE {}
<1>1. Len(<<f>>) = 1 /\ <<f>>[1] = f /\ <<f>> # << >> /\ 1 .. 1 = {1}
  OBVIOUS
<1>2. \A g : Shows(<<f>>, g) <=> g = f
  BY <1>1 DEF Shows
<1>3. \A g : ~Waits(<< >>, g)
  BY ShowsNothing
<1>4. FoundBelow(tree, f.path, << >>, <<f>>)
  BY <1>2, <1>3, ItemOrRoot, BelowItself DEF FoundBelow
<1>5. NothingTwice(d, << >>, <<f>>)
  <2>1. Once(<<f>>)
    BY <1>1 DEF Once
  <2>2. Queue(<< >>, ItemDepth(d))
    <3>1. 1 .. Len(<< >>) = {}
      OBVIOUS
    <3> QED
      BY <3>1 DEF Queue
  <2> QED
    BY <1>3, <2>1, <2>2 DEF NothingTwice
<1>6. FolderEntered(tree, f.path, hand, << >>, <<f>>)
  BY <1>2, <1>3 DEF FolderEntered
<1>7. EnteredHasAll(tree, f.path, d, hand, << >>, <<f>>)
  <2> SUFFICES ASSUME NEW n \in tree, Entered(<<f>>, hand, FileOf(tree, n.parent)),
                      DeepEnough(f.path, d, PathOf(tree, n.parent))
               PROVE  FALSE
    BY DEF EnteredHasAll
  <2>1. FileOf(tree, n.parent) = f /\ f \notin hand
    BY <1>2 DEF Entered
  <2>2. f.dir
    BY <2>1, ItemInFolder
  <2>3. d # 0
    BY DEF DeepEnough, Infinite
  <2> QED
    BY <2>1, <2>2, <2>3
<1> QED
  BY <1>1, <1>4, <1>5, <1>6, <1>7 DEF Walking

(* The next item is shown, and is in hand if it is a folder to be opened.  *)
LEMMA WalkingShows ==
    ASSUME NEW tree \in Trees, ProperTree(tree), KeysApart(tree), NEW p, NEW d,
           d \in {0, 1, Infinite}, NEW cs \in Seq(WalkLoops), cs # << >>,
           cs[Len(cs)].list # << >>, NEW list \in Seq(Placeable),
           NEW less, less = [cs EXCEPT ![Len(cs)].list = Tail(@)],
           NEW f \in Placeable, f = Head(cs[Len(cs)].list),
           Walking(tree, p, d, {}, cs, list), NEW hand,
           hand = IF f.dir /\ cs[Len(cs)].depth # 0 THEN {f} ELSE {}
    PROVE  Walking(tree, p, d, hand, less, Append(list, f))
<1> DEFINE more == Append(list, f)
<1>1. /\ FoundBelow(tree, p, cs, list) /\ NothingTwice(d, cs, list)
      /\ FolderEntered(tree, p, {}, cs, list) /\ EnteredHasAll(tree, p, d, {}, cs, list)
      /\ list # << >> /\ list[1].path = p
  BY DEF Walking
<1>2. Queue(cs, ItemDepth(d)) /\ Once(list) /\ \A g : Waits(cs, g) => ~Shows(list, g)
  BY <1>1 DEF NothingTwice
<1>3. /\ Queue(less, ItemDepth(d)) /\ Waits(cs, f)
      /\ \A g : Waits(less, g) <=> Waits(cs, g) /\ g # f
  BY <1>2, QueueTake
<1>4. \A g : Shows(more, g) <=> Shows(list, g) \/ g = f
  BY ShowsMore
<1>5. ~Shows(list, f) /\ f \in Files(tree)
  BY <1>1, <1>2, <1>3 DEF FoundBelow
<1>6. f.path # p
  BY <1>5, FirstShown
<1>7. cs[Len(cs)].depth = ItemDepth(d)
  <2>1. Len(cs) \in 1 .. Len(cs)
    BY EmptySeq
  <2> QED
    BY <1>2, <2>1 DEF Queue
<1>8. more # << >> /\ more[1].path = p
  <2>1. 1 \in 1 .. Len(list)
    BY <1>1, EmptySeq
  <2> QED
    BY <1>1, <2>1, AppendProperties
<1>9. Once(more)
  BY <1>2, <1>5, OnceMore
<1> HIDE DEF more
<1>10. FoundBelow(tree, p, less, more)
  BY <1>1, <1>3, <1>4 DEF FoundBelow
<1>11. NothingTwice(d, less, more)
  BY <1>2, <1>3, <1>4, <1>9 DEF NothingTwice
<1>12. \A g : Entered(list, {}, g) => Entered(more, hand, g)
  BY <1>4, <1>5 DEF Entered
<1>13. FolderEntered(tree, p, hand, less, more)
  <2> SUFFICES ASSUME NEW n \in tree,
                      \/ Waits(less, ItemOf(tree, n))
                      \/ Shows(more, ItemOf(tree, n)) /\ ItemOf(tree, n).path # p
               PROVE  Entered(more, hand, FileOf(tree, n.parent))
    BY DEF FolderEntered
  <2>1. \/ Waits(cs, ItemOf(tree, n))
        \/ Shows(list, ItemOf(tree, n)) /\ ItemOf(tree, n).path # p
    BY <1>3, <1>4
  <2> QED
    BY <1>1, <1>12, <2>1 DEF FolderEntered
<1>14. EnteredHasAll(tree, p, d, hand, less, more)
  <2> SUFFICES ASSUME NEW n \in tree, Entered(more, hand, FileOf(tree, n.parent)),
                      DeepEnough(p, d, PathOf(tree, n.parent))
               PROVE  Shows(more, ItemOf(tree, n)) \/ Waits(less, ItemOf(tree, n))
    BY DEF EnteredHasAll
  <2>1. CASE FileOf(tree, n.parent) = f
    <3>1. f.dir /\ f.path = PathOf(tree, n.parent)
      BY <2>1, ItemInFolder
    <3>2. f \notin hand
      BY <2>1 DEF Entered
    <3>3. ItemDepth(d) = 0
      BY <1>7, <3>1, <3>2
    <3>4. d # Infinite
      BY <3>3 DEF ItemDepth, Infinite
    <3> QED
      BY <1>6, <3>1, <3>4 DEF DeepEnough
  <2>2. CASE FileOf(tree, n.parent) # f
    <3>1. Entered(list, {}, FileOf(tree, n.parent))
      BY <1>4, <2>2 DEF Entered
    <3>2. Shows(list, ItemOf(tree, n)) \/ Waits(cs, ItemOf(tree, n))
      BY <1>1, <3>1 DEF EnteredHasAll
    <3> QED
      BY <1>3, <1>4, <3>2
  <2> QED
    BY <2>1, <2>2
<1> QED
  BY <1>8, <1>10, <1>11, <1>13, <1>14 DEF Walking, more


(* What GetFiles finds in a folder of a whole catalogue.                   *)
LEMMA WholeListing ==
    ASSUME NEW tree \in Trees, ProperTree(tree), NEW id \in ItemIds(tree),
           NEW list \in Seq(File), Len(list) = Cardinality(Children(tree, id)),
           ShowsAll(list, tree, id)
    PROVE  LET placed == Placed(list, PathOf(tree, id))
           IN  /\ Once(placed)
               /\ \A f : Shows(placed, f) <=> \E n \in Children(tree, id) : f = ItemOf(tree, n)
<1> DEFINE path   == PathOf(tree, id)
           placed == Placed(list, path)
           nodes  == Children(tree, id)
           len    == Len(list)
           node   == [k \in 1 .. len |-> CHOOSE n \in nodes : list[k] = ItemOf(tree, n)]
<1>1. len \in Nat /\ \A n \in nodes : n \in tree /\ ItemOf(tree, n) = FileAt(n, Append(path, n.name))
  BY LenProperties DEF Children, ItemOf
<1>2. /\ \A k \in 1 .. len : \E n \in nodes : list[k] = ItemOf(tree, n)
      /\ \A n \in nodes : \E k \in 1 .. len : list[k] = ItemOf(tree, n)
  <2>1. {list[k] : k \in 1 .. len} = {FileAt(n, Append(path, n.name)) : n \in nodes}
    BY DEF ShowsAll
  <2>2. ASSUME NEW k \in 1 .. len PROVE \E n \in nodes : list[k] = ItemOf(tree, n)
    BY <1>1, <2>1
  <2>3. ASSUME NEW n \in nodes PROVE \E k \in 1 .. len : list[k] = ItemOf(tree, n)
    BY <1>1, <2>1
  <2> QED
    BY <2>2, <2>3
<1>3. \A k \in 1 .. len : node[k] \in nodes /\ list[k] = ItemOf(tree, node[k])
  BY <1>2
<1>4. placed = list
  <2>1. \A k \in 1 .. len : FileAt(list[k], Append(path, list[k].name)) = list[k]
    BY <1>1, <1>2 DEF FileAt
  <2>2. list = [k \in 1 .. len |-> list[k]]
    BY LenProperties
  <2> QED
    BY <2>1, <2>2 DEF Placed
<1>5. node \in [1 .. len -> nodes]
  BY <1>3
<1>6. ASSUME NEW n \in nodes PROVE \E k \in 1 .. len : node[k] = n
  <2>1. PICK k \in 1 .. len : list[k] = ItemOf(tree, n)
    BY <1>2
  <2>2. ItemOf(tree, node[k]).id = ItemOf(tree, n).id
    BY <1>3, <2>1
  <2>3. node[k].id = n.id
    BY <2>2 DEF ItemOf, FileAt
  <2> QED
    BY <1>1, <1>3, <2>3 DEF ProperTree
<1>7. \A j, k \in 1 .. len : list[j] = list[k] => node[j] = node[k]
  OBVIOUS
<1>8. Cardinality(nodes) = len
  OBVIOUS
<1>9. len \in Nat /\ \A n \in nodes : \E k \in 1 .. len : node[k] = n
  BY <1>1, <1>6
<1> HIDE DEF node, nodes, len, placed
<1>10. \A j, k \in 1 .. len : node[j] = node[k] => j = k
  BY <1>5, <1>8, <1>9, EnumeratedOnce
<1>11. Once(list)
  BY <1>7, <1>10 DEF Once, len
<1>12. \A f : Shows(list, f) <=> \E n \in nodes : f = ItemOf(tree, n)
  BY <1>2 DEF Shows, len
<1> QED
  BY <1>4, <1>11, <1>12 DEF placed, nodes

(* The folder in hand is opened: its items wait.                           *)
LEMMA WalkingOpens ==
    ASSUME NEW tree \in Trees, ProperTree(tree), KeysApart(tree), NEW p, NEW d,
           NEW cs \in Seq(WalkLoops), NEW list \in Seq(Placeable),
           NEW i, Shows(list, i), Walking(tree, p, d, {i}, cs, list),
           NEW loop \in WalkLoops, loop.depth = ItemDepth(d), Once(loop.list),
           \A f : Shows(loop.list, f) <=> \E n \in Children(tree, i.id) : f = ItemOf(tree, n)
    PROVE  Walking(tree, p, d, {}, Append(cs, loop), list)
<1> DEFINE more == Append(cs, loop)
<1>1. /\ FoundBelow(tree, p, cs, list) /\ NothingTwice(d, cs, list)
      /\ FolderEntered(tree, p, {i}, cs, list) /\ EnteredHasAll(tree, p, d, {i}, cs, list)
      /\ list # << >> /\ list[1].path = p
  BY DEF Walking
<1>2. Queue(cs, ItemDepth(d)) /\ Once(list) /\ \A g : Waits(cs, g) => ~Shows(list, g)
  BY <1>1 DEF NothingTwice
<1>3. i \in Files(tree) /\ IsBelow(i.path, p) /\ p \in Path
  <2>1. list[1] \in Files(tree)
    BY FirstShown
  <2>2. list[1].path \in Path
    BY <2>1, ItemOrRoot
  <2> QED
    BY <1>1, <2>2 DEF FoundBelow
<1>4. ASSUME NEW n \in tree, FileOf(tree, n.parent) = i
      PROVE  /\ ItemOf(tree, n) \in Files(tree)
             /\ IsBelow(ItemOf(tree, n).path, p) /\ ItemOf(tree, n).path # p
  <2>1. /\ ItemOf(tree, n) \in Files(tree) /\ i.path \in Path
        /\ ItemOf(tree, n).path = Append(i.path, n.name) /\ n.name \in Names \cup {RootName}
    BY <1>4, ItemInFolder
  <2>2. IsBelow(Append(i.path, n.name), p) /\ Append(i.path, n.name) # p
    BY <1>3, <2>1, BelowAppend
  <2> QED
    BY <2>1, <2>2
<1>5. ASSUME NEW n \in tree, FileOf(tree, n.parent) = i
      PROVE  ~Waits(cs, ItemOf(tree, n)) /\ ~Shows(list, ItemOf(tree, n))
  <2>1. ~Entered(list, {i}, FileOf(tree, n.parent))
    BY <1>5 DEF Entered
  <2> QED
    BY <1>1, <1>4, <1>5, <2>1 DEF FolderEntered
<1>6. \A n \in tree : n \in Children(tree, i.id) <=> FileOf(tree, n.parent) = i
  <2> TAKE n \in tree
  <2>1. FileOf(tree, n.parent).id = n.parent
    BY ItemInFolder
  <2>2. i = FileOf(tree, i.id)
    BY <1>3, FileHasId
  <2> QED
    BY <2>1, <2>2 DEF Children
<1>7. \A f : Shows(loop.list, f) =>
         \E n \in tree : FileOf(tree, n.parent) = i /\ f = ItemOf(tree, n)
  BY <1>6 DEF Children
<1>8. \A f : Shows(loop.list, f) => ~Waits(cs, f) /\ ~Shows(list, f)
  BY <1>5, <1>7
<1>9. /\ Queue(more, ItemDepth(d))
      /\ \A f : Waits(more, f) <=> Waits(cs, f) \/ Shows(loop.list, f)
  BY <1>2, <1>8, QueuePush
<1> HIDE DEF more
<1>10. FoundBelow(tree, p, more, list)
  BY <1>1, <1>4, <1>7, <1>9 DEF FoundBelow
<1>11. NothingTwice(d, more, list)
  BY <1>2, <1>8, <1>9 DEF NothingTwice
<1>12. FolderEntered(tree, p, {}, more, list)
  <2> SUFFICES ASSUME NEW n \in tree,
                      \/ Waits(more, ItemOf(tree, n))
                      \/ Shows(list, ItemOf(tree, n)) /\ ItemOf(tree, n).path # p
               PROVE  Shows(list, FileOf(tree, n.parent))
    BY DEF FolderEntered, Entered
  <2>1. CASE Shows(loop.list, ItemOf(tree, n))
    <3>1. PICK m \in tree : FileOf(tree, m.parent) = i /\ ItemOf(tree, n) = ItemOf(tree, m)
      BY <1>7, <2>1
    <3>2. n.id = m.id
      BY <3>1, ItemInFolder
    <3> QED
      BY <3>1, <3>2 DEF ProperTree
  <2>2. CASE ~Shows(loop.list, ItemOf(tree, n))
    BY <1>1, <1>9, <2>2 DEF FolderEntered, Entered
  <2> QED
    BY <2>1, <2>2
<1>13. EnteredHasAll(tree, p, d, {}, more, list)
  <2> SUFFICES ASSUME NEW n \in tree, Shows(list, FileOf(tree, n.parent)),
                      DeepEnough(p, d, PathOf(tree, n.parent))
               PROVE  Shows(list, ItemOf(tree, n)) \/ Waits(more, ItemOf(tree, n))
    BY DEF EnteredHasAll, Entered
  <2>1. CASE FileOf(tree, n.parent) = i
    BY <1>6, <1>9, <2>1
  <2>2. CASE FileOf(tree, n.parent) # i
    BY <1>1, <1>9, <2>2 DEF EnteredHasAll, Entered
  <2> QED
    BY <2>1, <2>2
<1> QED
  BY <1>1, <1>10, <1>11, <1>12, <1>13 DEF Walking, more

(* The innermost loop is left.                                             *)
LEMMA WalkingLeaves ==
    ASSUME NEW tree, NEW p, NEW d, NEW hand, NEW list,
           NEW cs \in Seq(WalkLoops), cs # << >>, cs[Len(cs)].list = << >>,
           Walking(tree, p, d, hand, cs, list)
    PROVE  Walking(tree, p, d, hand, OuterLoop(cs), list)
<1>1. /\ Queue(OuterLoop(cs), ItemDepth(d))
      /\ \A f : Waits(OuterLoop(cs), f) <=> Waits(cs, f)
  BY QueuePop DEF Walking, NothingTwice
<1> QED
  BY <1>1 DEF Walking, FoundBelow, NothingTwice, FolderEntered, EnteredHasAll


(* The walk is over: what was asked for is shown.                          *)
Answered(tree, p, d, list) ==
    /\ Len(list) = Cardinality(Subtree(tree, p, d))
    /\ {list[j] : j \in 1 .. Len(list)} = Subtree(tree, p, d)

LEMMA InSubtree ==
    ASSUME NEW tree, NEW p, NEW d, NEW f
    PROVE  f \in Subtree(tree, p, d) <=>
              f \in Files(tree) /\ IsBelow(f.path, p) /\ Shallow(p, d, f.path)
BY DEF Subtree, Shallow

LEMMA ShownIsShallow ==
    ASSUME NEW tree \in Trees, ProperTree(tree), NEW p \in Path, NEW d \in {0, 1, Infinite},
           NEW list \in Seq(Placeable), Connected(list, p, d),
           NEW j \in 1 .. Len(list), list[j] \in Files(tree)
    PROVE  Shallow(p, d, list[j].path)
<1>1. list[j].path \in Path /\ Len(list[j].path) \in Nat \ {0} /\ Len(p) \in Nat
  BY ItemOrRoot, LenProperties DEF Path
<1>2. CASE list[j].path = p
  BY <1>1, <1>2 DEF Shallow, Infinite
<1>3. CASE list[j].path # p
  <2>1. d # 0 /\ (d = 1 => ParentPath(list[j]) = p)
    BY <1>3 DEF Connected
  <2>2. Len(ParentPath(list[j])) = Len(list[j].path) - 1
    <3> DEFINE q == list[j].path
               m == Len(q) - 1
    <3>1. m \in Nat /\ \A k \in 1 .. m : q[k] \in Names \cup {RootName}
      BY <1>1, ElementOfSeq DEF Path
    <3> HIDE DEF m
    <3>2. Len(SubSeq(q, 1, m)) = m
      BY <3>1, SubSeqProperties
    <3> QED
      BY <3>2 DEF m, ParentPath
  <2> QED
    BY <1>1, <2>1, <2>2 DEF Shallow
<1> QED
  BY <1>2, <1>3

LEMMA WalkingEnds ==
    ASSUME NEW tree \in Trees, ProperTree(tree), KeysApart(tree), NEW p,
           NEW d \in {0, 1, Infinite}, NEW list \in Seq(Placeable),
           Walking(tree, p, d, {}, << >>, list), Connected(list, p, d)
    PROVE  Answered(tree, p, d, list)
<1> DEFINE asked == Subtree(tree, p, d)
           missing == {f \in asked : ~Shows(list, f)}
<1>1. /\ FoundBelow(tree, p, << >>, list) /\ Once(list) /\ list[1].path = p
      /\ EnteredHasAll(tree, p, d, {}, << >>, list)
  BY DEF Walking, NothingTwice
<1>2. /\ Shows(list, list[1]) /\ list[1] \in Files(tree) /\ p \in Path
      /\ Len(p) \in Nat \ {0}
      /\ \A f \in Files(tree) : f.path = p => f = list[1]
  <2>1. Shows(list, list[1]) /\ list[1] \in Files(tree)
        /\ \A f \in Files(tree) : f.path = p => f = list[1]
    BY FirstShown
  <2> QED
    BY <1>1, <2>1, ItemOrRoot
<1>3. \A f : Shows(list, f) => f \in asked
  <2> SUFFICES ASSUME NEW j \in 1 .. Len(list) PROVE list[j] \in asked
    BY DEF Shows
  <2>1. list[j] \in Files(tree) /\ IsBelow(list[j].path, p)
    BY <1>1 DEF FoundBelow, Shows
  <2>2. Shallow(p, d, list[j].path)
    BY <1>2, <2>1, ShownIsShallow
  <2> QED
    BY <2>1, <2>2, InSubtree
<1>4. ASSUME NEW f \in missing
      PROVE  \E g \in missing : Len(g.path) < Len(f.path)
  <2>1. f \in Files(tree) /\ IsBelow(f.path, p) /\ Shallow(p, d, f.path) /\ ~Shows(list, f)
    BY <1>4, InSubtree
  <2>2. f.path # p
    BY <1>2, <2>1
  <2>3. f # RootDir
    <3> SUFFICES ASSUME f = RootDir PROVE FALSE
      OBVIOUS
    <3>1. Len(f.path) = 1
      BY DEF RootDir
    <3>2. Len(p) = 1 /\ SubSeq(f.path, 1, Len(f.path)) = p
      BY <1>2, <2>1, <3>1 DEF IsBelow
    <3>3. f.path \in Path
      BY <2>1, ItemOrRoot
    <3>4. SubSeq(f.path, 1, Len(f.path)) = f.path
      BY <3>3, SubSeqFull DEF Path
    <3> QED
      BY <2>2, <3>2, <3>4
  <2>4. PICK n \in tree : f = ItemOf(tree, n)
    BY <2>1, <2>3, ItemOrRoot
  <2> DEFINE g == FileOf(tree, n.parent)
  <2>5. /\ g \in Files(tree) /\ g.path = PathOf(tree, n.parent)
        /\ f.path = Append(g.path, n.name) /\ n.name \in Names \cup {RootName}
        /\ g.path \in Path /\ Len(f.path) = Len(g.path) + 1 /\ Len(g.path) \in Nat
    BY <2>4, ItemInFolder
  <2> HIDE DEF g
  <2>6. IsBelow(g.path, p)
    <3>1. IsBelow(Append(g.path, n.name), p) /\ Append(g.path, n.name) # p
      BY <2>1, <2>2, <2>5
    <3> QED
      BY <1>2, <2>5, <3>1, BelowAppend
  <2>7. Shallow(p, d, g.path)
    BY <1>2, <2>1, <2>5 DEF Shallow, Infinite
  <2>8. DeepEnough(p, d, g.path)
    <3>1. CASE d = Infinite
      BY <3>1 DEF DeepEnough
    <3>2. CASE d # Infinite
      <4>1. Len(f.path) <= Len(p) + d /\ Len(g.path) >= Len(p) /\ d \in {0, 1}
        BY <2>1, <2>6, <3>2 DEF Shallow, IsBelow
      <4>2. d = 1 /\ Len(g.path) = Len(p)
        BY <1>2, <2>5, <4>1
      <4>3. SubSeq(g.path, 1, Len(g.path)) = p /\ SubSeq(g.path, 1, Len(g.path)) = g.path
        BY <2>5, <2>6, <4>2, SubSeqFull DEF IsBelow, Path
      <4> QED
        BY <4>2, <4>3 DEF DeepEnough
    <3> QED
      BY <3>1, <3>2
  <2>9. ~Shows(list, g)
    <3> SUFFICES ASSUME Shows(list, g) PROVE FALSE
      OBVIOUS
    <3>1. Shows(list, f) \/ Waits(<< >>, f)
      BY <1>1, <2>4, <2>5, <2>8 DEF EnteredHasAll, Entered, g
    <3> QED
      BY <2>1, <3>1, ShowsNothing
  <2>10. g \in missing /\ Len(g.path) < Len(f.path)
    BY <2>5, <2>6, <2>7, <2>9, InSubtree
  <2> QED
    BY <2>10
<1>5. missing = {}
  <2> SUFFICES ASSUME missing # {} PROVE FALSE
    OBVIOUS
  <2> DEFINE lens == {Len(f.path) : f \in missing}
  <2>1. \A f \in missing : Len(f.path) \in Nat
    BY InSubtree, ItemOrRoot
  <2>2. lens \in SUBSET Nat /\ lens # {}
    BY <2>1
  <2>3. PICK k \in lens : \A m \in lens : k <= m
    BY <2>2, LeastNumber
  <2>4. PICK f \in missing : k = Len(f.path)
    BY <2>3
  <2>5. PICK g \in missing : Len(g.path) < Len(f.path)
    BY <1>4, <2>4
  <2> QED
    BY <2>1, <2>3, <2>4, <2>5
<1>6. \A f \in asked : Shows(list, f)
  BY <1>5
<1>7. {list[j] : j \in 1 .. Len(list)} = asked
  BY <1>3, <1>6 DEF Shows
<1>8. /\ Len(list) \in Nat /\ list \in [1 .. Len(list) -> asked]
      /\ \A f \in asked : \E j \in 1 .. Len(list) : list[j] = f
      /\ \A j, k \in 1 .. Len(list) : list[j] = list[k] => j = k
  <2>1. Len(list) \in Nat /\ list \in [1 .. Len(list) -> Placeable]
    BY LenProperties
  <2>2. \A j \in 1 .. Len(list) : list[j] \in asked
    BY <1>7
  <2> HIDE DEF asked
  <2> QED
    BY <1>1, <1>6, <2>1, <2>2 DEF Once, Shows
<1> HIDE DEF asked
<1>9. Cardinality(asked) = Len(list)
  BY <1>8, Enumerated
<1> QED
  BY <1>7, <1>9 DEF Answered, asked


-----------------------------------------------------------------------------
(***************************************************************************)
(* The steps of a request in a calm service.                               *)
(***************************************************************************)

WalkIs(tree, label, p, d, i, cs, list, st) ==
    /\ label = "body" => i \in Files(tree) /\ i.path = p
    /\ label = "open" => Walking(tree, p, d, {i}, cs, list) /\ Shows(list, i)
    /\ label = "loop" => Walking(tree, p, d, {}, cs, list)
    /\ label = "idle" /\ st = 207 => Answered(tree, p, d, list)

(* Where a request is, and where a step leaves it.                         *)
WalkNow(w) == WalkIs(drive, walkPc[w], walkPath[w], walkDepth[w], walkInfo[w],
                     calls[w], shown[w], status[w])
WalkThen(w) == WalkIs(drive, walkPc'[w], walkPath'[w], walkDepth'[w], walkInfo'[w],
                      calls'[w], shown'[w], status'[w])

LEMMA ShowsBegin ==
    ASSUME WalkInv, NEW w \in Walkers, BeginPropfind(w) PROVE WalkThen(w)
<1>1. walkPc'[w] = "depth"
  BY DEF BeginPropfind, WalkGoto, WalkInv, WalkFunctions
<1> QED
  BY <1>1 DEF WalkThen, WalkIs

(* A request that is refused.                                              *)
LEMMA ShowsRefused ==
    ASSUME WalkInv, NEW w \in Walkers, walkPc[w] \in {"depth", "body"},
           NEW code \in {400, 404}, Commit(w, code), WalkGoto(w, "idle")
    PROVE  WalkThen(w)
<1>1. WalkOK(walkPc[w], walkPath[w], walkDepth[w], walkInfo[w], calls[w], shown[w], status[w])
  BY DEF WalkInv
<1>2. status[w] = 0
  BY <1>1 DEF WalkOK
<1>3. status'[w] = code /\ code # 207
  BY <1>2, CommitOnce
<1>4. walkPc'[w] = "idle"
  BY DEF WalkGoto, WalkInv, WalkFunctions
<1> QED
  BY <1>3, <1>4 DEF WalkThen, WalkIs

LEMMA ShowsEntry ==
    ASSUME WalkInv, OwnPathsAsked, Whole, NEW w \in Walkers, FindEntry(w),
           drive \in Trees, ProperTree(drive)
    PROVE  WalkThen(w)
<1> DEFINE key == makePathKey(walkPath[w])
<1>1. walkPc[w] = "depth"
  BY DEF FindEntry
<1>2. CASE Commit(w, 400) /\ WalkGoto(w, "idle")
  BY <1>1, <1>2, ShowsRefused
<1>3. CASE Commit(w, 404) /\ WalkGoto(w, "idle")
  BY <1>1, <1>3, ShowsRefused
<1>4. CASE Has(index, key) /\ walkInfo' = [walkInfo EXCEPT ![w] = index[key]] /\ WalkGoto(w, "body")
  <2>1. \A f \in Files(drive) : key = makePathKey(f.path) => walkPath[w] = f.path
    BY <1>1 DEF OwnPathsAsked
  <2>2. PICK id \in Folders(drive) :
           key = makePathKey(PathOf(drive, id)) /\ index[key] = FileOf(drive, id)
    BY <1>4 DEF Whole, Has
  <2>3. id \in ItemIds(drive)
    BY <2>2 DEF Folders, ItemIds
  <2>4. FileOf(drive, id) \in Files(drive) /\ FileOf(drive, id).path = PathOf(drive, id)
    BY <2>3, FileOfItem
  <2>5. FileOf(drive, id).path = walkPath[w]
    BY <2>1, <2>2, <2>4
  <2>6. walkPc'[w] = "body" /\ walkInfo'[w] = FileOf(drive, id) /\ walkPath'[w] = walkPath[w]
    BY <1>4, <2>2 DEF FindEntry, WalkGoto, WalkInv, WalkFunctions
  <2> QED
    BY <2>4, <2>5, <2>6 DEF WalkThen, WalkIs
<1> QED
  BY <1>2, <1>3, <1>4 DEF FindEntry

LEMMA ShowsRoot ==
    ASSUME WalkInv, NEW w \in Walkers, WalkNow(w), WalkRoot(w),
           drive \in Trees, ProperTree(drive)
    PROVE  WalkThen(w)
<1> DEFINE f    == walkInfo[w]
           p    == walkPath[w]
           d    == walkDepth[w]
           hand == IF f.dir /\ d # 0 THEN {f} ELSE {}
<1>1. WalkOK(walkPc[w], p, d, f, calls[w], shown[w], status[w])
  BY DEF WalkInv
<1>2. walkPc[w] = "body"
  BY DEF WalkRoot
<1>3. /\ f \in Files(drive) /\ f.path = p /\ f \in Placeable
      /\ d \in {0, 1, Infinite} /\ shown[w] = << >> /\ calls[w] = << >>
  BY <1>1, <1>2 DEF WalkNow, WalkIs, WalkOK, WalkTypes
<1>4. [f EXCEPT !.path = p] = f
  BY <1>3 DEF Placeable
<1>5. Visit(w, f, d)
  BY <1>4 DEF WalkRoot
<1>6. /\ shown'[w] = <<f>> /\ calls'[w] = << >> /\ walkPath'[w] = p /\ walkDepth'[w] = d
      /\ IF f.dir /\ d # 0 THEN walkPc'[w] = "open" /\ walkInfo'[w] = f
         ELSE walkPc'[w] = "loop"
  <2>1. Append(<< >>, f) = <<f>>
    OBVIOUS
  <2>2. shown'[w] = Append(shown[w], f)
    BY <1>5 DEF Visit, WalkInv, WalkFunctions
  <2>3. IF f.dir /\ d # 0 THEN walkPc'[w] = "open" /\ walkInfo'[w] = f
        ELSE walkPc'[w] = "loop"
    BY <1>5 DEF Visit, WalkGoto, WalkInv, WalkFunctions
  <2> QED
    BY <1>3, <2>1, <2>2, <2>3 DEF WalkRoot
<1> HIDE DEF f, p, d
<1>7. Walking(drive, p, d, hand, << >>, <<f>>)
  BY <1>3, WalkingBegins
<1>8. Shows(<<f>>, f)
  BY DEF Shows
<1> QED
  BY <1>6, <1>7, <1>8 DEF WalkThen, WalkIs

LEMMA ShowsNext ==
    ASSUME WalkInv, NEW w \in Walkers, WalkNow(w), NextItem(w),
           drive \in Trees, ProperTree(drive), KeysApart(drive)
    PROVE  WalkThen(w)
<1> DEFINE cs   == calls[w]
           n    == Len(cs)
           f    == Head(cs[n].list)
           p    == walkPath[w]
           d    == walkDepth[w]
           list == shown[w]
           less == [cs EXCEPT ![n].list = Tail(@)]
           hand == IF f.dir /\ cs[n].depth # 0 THEN {f} ELSE {}
<1>1. WalkOK(walkPc[w], p, d, walkInfo[w], cs, list, status[w])
  BY DEF WalkInv
<1>2. walkPc[w] = "loop" /\ cs # << >> /\ cs[n].list # << >> /\ Visit(w, f, cs[n].depth)
      /\ calls' = [calls EXCEPT ![w][n].list = Tail(@)] /\ UNCHANGED <<walkPath, walkDepth>>
  BY DEF NextItem
<1>3. /\ cs \in Seq(WalkLoops) /\ list \in Seq(Placeable) /\ d \in {0, 1, Infinite}
      /\ Walking(drive, p, d, {}, cs, list)
  BY <1>1, <1>2 DEF WalkNow, WalkIs, WalkOK, WalkTypes
<1>4. f \in Placeable
  <2>1. n \in 1 .. Len(cs)
    BY <1>2, <1>3, EmptySeq
  <2>2. cs[n] \in WalkLoops
    BY <1>3, <2>1, ElementOfSeq
  <2> QED
    BY <1>2, <2>2, HeadTailProperties DEF WalkLoops
<1>5. calls'[w] = less
  BY <1>2 DEF WalkInv, WalkFunctions
<1>6. /\ shown'[w] = Append(list, f) /\ walkPath'[w] = p /\ walkDepth'[w] = d
      /\ IF f.dir /\ cs[n].depth # 0 THEN walkPc'[w] = "open" /\ walkInfo'[w] = f
         ELSE walkPc'[w] = "loop"
  BY <1>2 DEF Visit, WalkGoto, WalkInv, WalkFunctions
<1> DEFINE after == calls'[w]
<1>7. after = less
  BY <1>5
<1> HIDE DEF cs, p, d, list, after
<1>8. Walking(drive, p, d, hand, after, Append(list, f))
  BY <1>2, <1>3, <1>4, <1>7, WalkingShows
<1>9. Shows(Append(list, f), f)
  BY <1>3, <1>4, ShowsMore
<1> HIDE DEF f
<1> QED
  BY <1>6, <1>8, <1>9 DEF WalkThen, WalkIs, after

LEMMA ShowsLeave ==
    ASSUME WalkInv, NEW w \in Walkers, WalkNow(w), EndLoop(w)
    PROVE  WalkThen(w)
<1>1. WalkOK(walkPc[w], walkPath[w], walkDepth[w], walkInfo[w], calls[w], shown[w], status[w])
  BY DEF WalkInv
<1>2. /\ walkPc[w] = "loop" /\ calls[w] # << >> /\ calls[w][Len(calls[w])].list = << >>
      /\ calls'[w] = OuterLoop(calls[w])
      /\ walkPc'[w] = "loop" /\ walkPath'[w] = walkPath[w] /\ walkDepth'[w] = walkDepth[w]
      /\ shown'[w] = shown[w]
  BY DEF EndLoop, WalkInv, WalkFunctions
<1>3. calls[w] \in Seq(WalkLoops)
      /\ Walking(drive, walkPath[w], walkDepth[w], {}, calls[w], shown[w])
  BY <1>1, <1>2 DEF WalkNow, WalkIs, WalkOK, WalkTypes
<1>4. Walking(drive, walkPath[w], walkDepth[w], {}, OuterLoop(calls[w]), shown[w])
  BY <1>2, <1>3, WalkingLeaves
<1> QED
  BY <1>2, <1>4 DEF WalkThen, WalkIs

LEMMA ShowsEnd ==
    ASSUME WalkInv, NEW w \in Walkers, WalkNow(w), EndWalk(w),
           drive \in Trees, ProperTree(drive), KeysApart(drive)
    PROVE  WalkThen(w)
<1>1. WalkOK(walkPc[w], walkPath[w], walkDepth[w], walkInfo[w], calls[w], shown[w], status[w])
  BY DEF WalkInv
<1>2. /\ walkPc[w] = "loop" /\ calls[w] = << >>
      /\ walkPc'[w] = "idle" /\ walkPath'[w] = walkPath[w] /\ walkDepth'[w] = walkDepth[w]
      /\ shown'[w] = shown[w]
  BY DEF EndWalk, WalkGoto, WalkInv, WalkFunctions
<1>3. /\ shown[w] \in Seq(Placeable) /\ walkDepth[w] \in {0, 1, Infinite}
      /\ Connected(shown[w], walkPath[w], walkDepth[w])
      /\ Walking(drive, walkPath[w], walkDepth[w], {}, << >>, shown[w])
  BY <1>1, <1>2 DEF WalkNow, WalkIs, WalkOK, WalkTypes
<1>4. Answered(drive, walkPath[w], walkDepth[w], shown[w])
  BY <1>3, WalkingEnds
<1> QED
  BY <1>2, <1>4 DEF WalkThen, WalkIs

(* A folder that was shown has its listing where GetFiles looks for it.    *)
LEMMA ShowsOpened ==
    ASSUME TypeOK, WalkInv, Whole, NEW w \in Walkers, WalkNow(w), OpenFolder(w),
           drive \in Trees, ProperTree(drive), NoFolderEmpty, KeysApart(drive)
    PROVE  WalkThen(w)
<1> DEFINE cs   == calls[w]
           i    == walkInfo[w]
           p    == walkPath[w]
           d    == walkDepth[w]
           list == shown[w]
           key  == makePathKey(i.path)
           items == Placed(cache[key].list, i.path)
           loop == Loop(items, ItemDepth(DepthHere(w)))
<1>1. WalkOK(walkPc[w], p, d, i, cs, list, status[w])
  BY DEF WalkInv
<1>2. walkPc[w] = "open"
  BY DEF OpenFolder
<1>3. /\ cs \in Seq(WalkLoops) /\ list \in Seq(Placeable) /\ d \in {0, 1, Infinite}
      /\ i.dir /\ OpenOK(p, d, i, cs, list)
      /\ Walking(drive, p, d, {i}, cs, list) /\ Shows(list, i)
  BY <1>1, <1>2 DEF WalkNow, WalkIs, WalkOK, WalkTypes, OpenOK
<1>4. /\ i \in Files(drive) /\ i.id \in ItemIds(drive) /\ i.path = PathOf(drive, i.id)
      /\ i.id \in Filled(drive) /\ ProperTree(drive) /\ i.path \in Path
  <2>1. i \in Files(drive)
    BY <1>3 DEF Walking, FoundBelow
  <2>2. Folders(drive) = Filled(drive)
    BY DEF NoFolderEmpty
  <2> HIDE DEF i
  <2>3. /\ i.id \in ItemIds(drive) /\ i.path = PathOf(drive, i.id)
        /\ i.id \in Folders(drive)
    BY <1>3, <2>1, <2>2, FileHasId
  <2> QED
    BY <2>1, <2>2, <2>3, ItemOrRoot
<1>5. /\ key \in DOMAIN cache /\ cache[key].kind = "list"
      /\ Len(cache[key].list) = Cardinality(Children(drive, i.id))
      /\ ShowsAll(cache[key].list, drive, i.id)
  BY <1>4 DEF Whole, ShowsFolder, Listing, ShowsAll
<1>6. cache[key].list \in Seq(File)
  BY <1>5 DEF TypeOK, CatalogTypeOK, Record
<1>7. /\ Once(items)
      /\ \A f : Shows(items, f) <=> \E n \in Children(drive, i.id) : f = ItemOf(drive, n)
  <2> DEFINE stored == cache[key].list
  <2>1. stored \in Seq(File) /\ Len(stored) = Cardinality(Children(drive, i.id))
        /\ ShowsAll(stored, drive, i.id) /\ items = Placed(stored, PathOf(drive, i.id))
    BY <1>4, <1>5, <1>6
  <2> HIDE DEF stored, items
  <2> QED
    BY <1>4, <2>1, WholeListing
<1>8. /\ calls' = [calls EXCEPT ![w] = Append(@, loop)]
      /\ walkPc' = [walkPc EXCEPT ![w] = "loop"]
      /\ UNCHANGED <<walkPath, walkDepth, walkInfo, shown, status>>
  BY <1>5 DEF OpenFolder, WalkGoto, Has
<1>9. /\ calls'[w] = Append(cs, loop) /\ walkPc'[w] = "loop"
      /\ walkPath'[w] = p /\ walkDepth'[w] = d /\ shown'[w] = list
  BY <1>8 DEF WalkInv, WalkFunctions
<1>10. ItemDepth(DepthHere(w)) = ItemDepth(d) /\ ItemDepth(d) \in {0, Infinite}
  <2>1. Queue(cs, ItemDepth(d))
    BY <1>3 DEF Walking, NothingTwice
  <2>2. CASE cs = << >>
    <3>1. DepthHere(w) = d
      BY <2>2 DEF DepthHere
    <3> HIDE DEF d
    <3> QED
      BY <1>3, <2>2, <3>1 DEF ItemDepth, Infinite, OpenOK
  <2>3. CASE cs # << >>
    <3>1. Len(cs) \in 1 .. Len(cs)
      BY <1>3, <2>3, EmptySeq
    <3>2. DepthHere(w) = ItemDepth(d)
      BY <2>1, <2>3, <3>1 DEF DepthHere, Queue
    <3> HIDE DEF d
    <3> QED
      BY <1>3, <3>2 DEF ItemDepth, Infinite
  <2> QED
    BY <2>2, <2>3
<1>11. items \in Seq(Placeable)
  <2>1. i.path \in AnyPath
    BY <1>1 DEF WalkOK, WalkTypes, Placeable
  <2> DEFINE stored == cache[key].list
  <2>2. stored \in Seq(File) /\ items = Placed(stored, i.path)
    BY <1>6
  <2> HIDE DEF stored, items, i
  <2> QED
    BY <2>1, <2>2, PlacedBelongs
<1>12. loop \in WalkLoops /\ loop.depth = ItemDepth(d) /\ loop.list = items
  BY <1>10, <1>11 DEF Loop, WalkLoops
<1> HIDE DEF loop, items, cs, i, p, d, list
<1>13. Walking(drive, p, d, {}, Append(cs, loop), list)
  BY <1>3, <1>4, <1>7, <1>12, WalkingOpens
<1> QED
  BY <1>9, <1>13 DEF WalkThen, WalkIs


(* The inductive invariant of the service over a catalogue that is whole.  *)
ShowingInv ==
    /\ WholeInv /\ WalkInv
    /\ Calm => \A w \in Walkers : WalkNow(w)

LEMMA ShowsStep ==
    ASSUME TypeOK, WalkInv, OwnPathsAsked, Whole, drive \in Trees, ProperTree(drive),
           NoFolderEmpty, KeysApart(drive), NEW w \in Walkers, WalkNow(w),
           BeginPropfind(w) \/ WalkStep(w)
    PROVE  WalkThen(w)
<1>1. CASE BadBody(w)
  <2>1. walkPc[w] \in {"depth", "body"} /\ Commit(w, 400) /\ WalkGoto(w, "idle")
    BY <1>1 DEF BadBody
  <2> QED
    BY <2>1, ShowsRefused
<1> QED
  BY <1>1, ShowsBegin, ShowsEntry, ShowsRoot, ShowsOpened, ShowsNext, ShowsLeave, ShowsEnd
  DEF WalkStep

LEMMA ShowingStep ==
    ASSUME ProperIfApart, ScansApart, ScansApart', OnlyFilesAsked, OwnPathsAsked,
           NoFolderEmpty, ShowingInv, [ServiceNext]_serviceVars
    PROVE  ShowingInv'
<1>1. WholeInv' /\ WalkInv'
  BY WholeStep, WalkInvStep DEF ShowingInv, WholeInv
<1> SUFFICES ASSUME Calm', NEW w \in Walkers PROVE WalkNow(w)'
  BY <1>1 DEF ShowingInv
<1>3. Calm /\ UNCHANGED drive /\ CalmStep
  BY CalmBefore DEF ShowingInv, WholeInv
<1>4. TypeOK /\ WalkInv /\ Whole /\ drive \in Trees /\ WalkNow(w)
  BY <1>3 DEF ShowingInv, WholeInv, ServiceInv, TypeOK, CatalogTypeOK
<1>5. ProperTree(drive) /\ KeysApart(drive)
  BY <1>3, <1>4 DEF Calm, ProperIfApart
<1>6. WalkThen(w) => WalkNow(w)'
  BY <1>3 DEF WalkThen, WalkNow
<1>7. ASSUME /\ walkPc'[w] = walkPc[w] /\ walkPath'[w] = walkPath[w]
             /\ walkDepth'[w] = walkDepth[w] /\ walkInfo'[w] = walkInfo[w]
             /\ calls'[w] = calls[w] /\ shown'[w] = shown[w] /\ status'[w] = status[w]
      PROVE  WalkThen(w)
  BY <1>4, <1>7 DEF WalkThen, WalkNow
<1>8. CASE UNCHANGED walkVars
  BY <1>6, <1>7, <1>8 DEF walkVars
<1>9. ASSUME NEW v \in Walkers, BeginPropfind(v) \/ WalkStep(v) PROVE WalkThen(w)
  <2>1. CASE v = w
    BY <1>4, <1>5, <1>9, <2>1, ShowsStep
  <2>2. CASE v # w
    <3>1. OthersStay(v)
      BY <1>4, <1>9, StepOfOne
    <3> QED
      BY <1>7, <2>2, <3>1 DEF OthersStay
  <2> QED
    BY <2>1, <2>2
<1> QED
  BY <1>3, <1>6, <1>8, <1>9 DEF CalmStep, serviceVars

LEMMA ShowingInit == ASSUME OverWhole PROVE ShowingInv
<1>1. Len(<< >>) = 0 /\ 1 .. 0 = {}
  OBVIOUS
<1>2. WalkOK("idle", <<RootName>>, 0, RootDir, << >>, << >>, 0)
  BY <1>1, RootPath, EmptySeq DEF WalkOK, WalkTypes, WalkLabels, Connected
<1>3. WalkInv
  BY <1>2 DEF OverWhole, WalkInit, WalkInv, WalkFunctions
<1>4. \A w \in Walkers : WalkNow(w)
  BY DEF OverWhole, WalkInit, WalkNow, WalkIs
<1> QED
  BY <1>3, <1>4, WholeInit DEF ShowingInv

(* A PROPFIND that is answered with 207 has shown the whole of what it     *)
(* asked for, each item once ("walkFS traverses filesystem fs starting at  *)
(* name up to depth levels", webdav.go), with scans and other requests     *)
(* going on beside it, whose catalogue was whole when the process began,   *)
(* as long as no call fails and the drive does not change; in every run in *)
(* which no two goroutines are in a scan at once, no GET asks for a folder,*)
(* no PROPFIND for a path that only has an item's key, and every folder    *)
(* holds something.                                                        *)
THEOREM WalksShowWhatIsThere ==
    ASSUME ProperIfApart
    PROVE  /\ OverWhole /\ [][ServiceNext]_serviceVars
           /\ []ScansApart /\ []OnlyFilesAsked /\ []OwnPathsAsked /\ []NoFolderEmpty
           => []WalkShowsSubtree
<1>1. OverWhole => ShowingInv
  BY ShowingInit
<1>2. /\ ShowingInv /\ ScansApart /\ ScansApart' /\ OnlyFilesAsked /\ OwnPathsAsked
      /\ NoFolderEmpty /\ [ServiceNext]_serviceVars
      => ShowingInv'
  BY ShowingStep
<1>3. ShowingInv => WalkShowsSubtree
  BY DEF ShowingInv, Calm, WalkNow, WalkIs, Answered, WalkShowsSubtree
<1> QED
  BY <1>1, <1>2, <1>3, PTL

=============================================================================
