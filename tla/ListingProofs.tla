---------------------------- MODULE ListingProofs ----------------------------
(***************************************************************************)
(* Three proofs about listings: that a file a listing names can be         *)
(* retrieved, for every drive in which no folder has the key of a file;    *)
(* that no scan lists an item twice, for every drive in which nothing is   *)
(* moved between two folders with one key; and that a scan which nothing   *)
(* disturbs and nobody overlaps leaves behind the whole drive, for every   *)
(* drive, every page size and every order in which the API gives the       *)
(* items.                                                                  *)
(***************************************************************************)
EXTENDS DriveScanProofs, Counting

-----------------------------------------------------------------------------
(***************************************************************************)
(* The inductive invariant: every key of a listing is that of a folder     *)
(* that a scan came to and that held something, and every item was found   *)
(* in a folder that a scan came to.                                        *)
(***************************************************************************)

(* What the API may say of an id that it has once given to a folder.       *)
IsFolder(file) ==
    \/ file.id = RootId /\ file.dir
    \/ \E m, n \in Nodes : /\ m.id = file.id /\ m.dir
                           /\ n.id = file.id /\ n.dir = file.dir

CallAt(at, call) ==
    /\ IsFolder(call.dir)
    /\ call.dir.path \in at[call.dir.id]
    /\ \A n \in call.todo : n.parent = call.dir.id

ListingAt(at, key, list) ==
    /\ \E n \in Nodes : \E p \in at[n.parent] : key = makePathKey(p)
    /\ \A i \in 1 .. Len(list) : \E n \in Nodes : \E p \in at[n.parent] :
          list[i] = FileAt(n, Append(p, n.name))

CallsAt(at, st) == \A l \in 1 .. Len(st) : CallAt(at, st[l])
HandAt(at, l, j) ==
    l \in {"append", "files"} => ListingAt(at, makePathKey(<<j.key>>), j.value)

AllAt(at) ==
    /\ \A s \in Scanners : CallsAt(at, stack[s]) /\ HandAt(at, pc[s], job[s])
    /\ \A m \in MapId : \A k \in DOMAIN maps[m] :
          ListingAt(at, makePathKey(<<k>>), maps[m][k])
    /\ \A k \in DOMAIN cache : Listing(k) => ListingAt(at, k, cache[k].list)

LEMMA ListingAtAppend ==
    ASSUME NEW at, NEW n \in Nodes, NEW p \in at[n.parent], NEW key, key = makePathKey(p),
           NEW list \in Seq(File), list = << >> \/ ListingAt(at, key, list),
           FileAt(n, Append(p, n.name)) \in File
    PROVE  ListingAt(at, key, Append(list, FileAt(n, Append(p, n.name))))
<1> DEFINE item == FileAt(n, Append(p, n.name))
           new  == Append(list, item)
<1>1. /\ Len(new) = Len(list) + 1
      /\ \A i \in 1 .. Len(list) : new[i] = list[i]
      /\ new[Len(list) + 1] = item
  BY AppendProperties
<1>2. \A i \in 1 .. Len(new) : i \in 1 .. Len(list) \/ i = Len(list) + 1
  <2>1. \A k \in Nat : \A i \in 1 .. k + 1 : i \in 1 .. k \/ i = k + 1
    OBVIOUS
  <2> QED
    BY <1>1, <2>1, LenProperties
<1>3. \A i \in 1 .. Len(list) : \E m \in Nodes : \E q \in at[m.parent] :
         list[i] = FileAt(m, Append(q, m.name))
  <2>1. CASE list = << >>
    <3>1. Len(<< >>) = 0 /\ 1 .. 0 = {}
      OBVIOUS
    <3> QED
      BY <2>1, <3>1
  <2>2. CASE ListingAt(at, key, list)
    BY <2>2 DEF ListingAt
  <2> QED
    BY <2>1, <2>2
<1> HIDE DEF new
<1>4. \A i \in 1 .. Len(new) : \E m \in Nodes : \E q \in at[m.parent] :
         new[i] = FileAt(m, Append(q, m.name))
  BY <1>1, <1>2, <1>3
<1>5. ListingAt(at, key, new)
  BY <1>4 DEF ListingAt
<1> QED
  BY <1>5 DEF new

(* The calls of a goroutine: the innermost changes, returns or calls.      *)
LEMMA CallsAtTop ==
    ASSUME NEW at, NEW st \in Seq(Calls), CallsAt(at, st), Len(st) \in Nat \ {0},
           NEW call \in Calls, CallAt(at, call)
    PROVE  CallsAt(at, [st EXCEPT ![Len(st)] = call])
<1>1. Len(st) \in 1 .. Len(st)
  OBVIOUS
<1> QED
  BY <1>1, ExceptSeq DEF CallsAt

LEMMA CallsAtPop ==
    ASSUME NEW at, NEW st \in Seq(Calls), CallsAt(at, st), Len(st) \in Nat, Len(st) > 1
    PROVE  CallsAt(at, SubSeq(st, 1, Len(st) - 1))
<1> DEFINE new == SubSeq(st, 1, Len(st) - 1)
<1>1. \A k \in Nat : k > 1 => k - 1 \in Nat \ {0} /\ \A i \in 1 .. k - 1 : i \in 1 .. k
  OBVIOUS
<1>2. \A i \in 1 .. Len(st) - 1 : st[i] \in Calls
  BY <1>1, ElementOfSeq
<1>3. Len(new) = Len(st) - 1 /\ \A i \in 1 .. Len(st) - 1 : new[i] = st[i]
  BY <1>1, <1>2, SubSeqProperties
<1> HIDE DEF new
<1>4. CallsAt(at, new)
  BY <1>1, <1>3 DEF CallsAt
<1> QED
  BY <1>4 DEF new

LEMMA CallsAtPush ==
    ASSUME NEW at, NEW st \in Seq(Calls), CallsAt(at, st), NEW call \in Calls, CallAt(at, call)
    PROVE  CallsAt(at, Append(st, call))
<1> DEFINE new == Append(st, call)
<1>1. /\ Len(new) = Len(st) + 1
      /\ \A i \in 1 .. Len(st) : new[i] = st[i]
      /\ new[Len(st) + 1] = call
  BY AppendProperties
<1>2. \A i \in 1 .. Len(new) : i \in 1 .. Len(st) \/ i = Len(st) + 1
  <2>1. \A k \in Nat : \A i \in 1 .. k + 1 : i \in 1 .. k \/ i = k + 1
    OBVIOUS
  <2> QED
    BY <1>1, <2>1, LenProperties
<1> HIDE DEF new
<1>3. CallsAt(at, new)
  BY <1>1, <1>2 DEF CallsAt
<1> QED
  BY <1>3 DEF new

LEMMA CallsAtNone == ASSUME NEW at PROVE CallsAt(at, << >>)
<1>1. 1 .. Len(<< >>) = {}
  OBVIOUS
<1> QED
  BY <1>1 DEF CallsAt

-----------------------------------------------------------------------------
(***************************************************************************)
(* Every step keeps it.                                                    *)
(***************************************************************************)

(* Steps that write no record and add nothing to a map.                    *)
LEMMA AtFrame ==
    ASSUME NEW at, AllAt(at), NEW s \in Scanners, UNCHANGED cache,
           \A m \in MapId : \A k \in DOMAIN maps'[m] :
               k \in DOMAIN maps[m] /\ maps'[m][k] = maps[m][k],
           \A t \in Scanners \ {s} :
               pc'[t] = pc[t] /\ job'[t] = job[t] /\ stack'[t] = stack[t],
           CallsAt(at, stack'[s]), HandAt(at, pc'[s], job'[s])
    PROVE  AllAt(at)'
<1>1. \A t \in Scanners : CallsAt(at, stack'[t]) /\ HandAt(at, pc'[t], job'[t])
  <2> TAKE t \in Scanners
  <2>1. CASE t = s
    BY <2>1
  <2>2. CASE t # s
    BY <2>2 DEF AllAt
  <2> QED
    BY <2>1, <2>2
<1>2. \A m \in MapId : \A k \in DOMAIN maps'[m] :
         ListingAt(at, makePathKey(<<k>>), maps'[m][k])
  BY DEF AllAt
<1>3. \A k \in DOMAIN cache' : Listing(k)' => ListingAt(at, k, cache'[k].list)
  BY DEF AllAt, Listing
<1> QED
  BY <1>1, <1>2, <1>3 DEF AllAt

(* ... and do nothing to the locals of an append or of SaveFile.           *)
LEMMA AtCalls ==
    ASSUME NEW at, TypeOK, AllAt(at), NEW s \in Scanners, UNCHANGED <<cache, maps>>,
           NEW l \in Labels \ {"append", "files"}, pc' = [pc EXCEPT ![s] = l],
           NEW st, stack' = [stack EXCEPT ![s] = st], CallsAt(at, st),
           \A t \in Scanners \ {s} : job'[t] = job[t]
    PROVE  AllAt(at)'
<1>1. pc'[s] = l /\ stack'[s] = st
  BY DEF TypeOK, ControlTypeOK
<1>2. HandAt(at, pc'[s], job'[s])
  BY <1>1 DEF HandAt
<1>3. \A t \in Scanners \ {s} : pc'[t] = pc[t] /\ job'[t] = job[t] /\ stack'[t] = stack[t]
  BY DEF TypeOK, ControlTypeOK
<1> QED
  BY <1>1, <1>2, <1>3, AtFrame

LEMMA AtReturnError ==
    ASSUME NEW at, TypeOK, AllAt(at), NEW s \in Scanners, stack[s] # << >>,
           UNCHANGED <<cache, maps, job>>, ReturnError(s)
    PROVE  AllAt(at)'
<1>1. stack[s] \in Seq(Calls) /\ Len(stack[s]) \in Nat /\ CallsAt(at, stack[s])
  BY TopType DEF TypeOK, AllAt
<1>2. \/ /\ Len(stack[s]) > 1
         /\ stack' = [stack EXCEPT ![s] = SubSeq(stack[s], 1, Len(stack[s]) - 1)]
         /\ pc' = [pc EXCEPT ![s] = "items"]
      \/ /\ stack' = [stack EXCEPT ![s] = << >>]
         /\ pc' = [pc EXCEPT ![s] = "idle"]
  BY DEF ReturnError, Goto
<1>3. \E l \in Labels \ {"append", "files"} : \E st :
         /\ pc' = [pc EXCEPT ![s] = l] /\ stack' = [stack EXCEPT ![s] = st]
         /\ CallsAt(at, st)
  <2>1. "items" \in Labels \ {"append", "files"} /\ "idle" \in Labels \ {"append", "files"}
    BY DEF Labels
  <2>2. CASE Len(stack[s]) > 1 /\ pc' = [pc EXCEPT ![s] = "items"]
    BY <1>1, <1>2, <2>1, <2>2, CallsAtPop, CallsAtNone
  <2>3. CASE /\ stack' = [stack EXCEPT ![s] = << >>]
             /\ pc' = [pc EXCEPT ![s] = "idle"]
    BY <2>1, <2>3, CallsAtNone
  <2> QED
    BY <1>2, <2>2, <2>3
<1>4. PICK l \in Labels \ {"append", "files"} : \E st :
         /\ pc' = [pc EXCEPT ![s] = l] /\ stack' = [stack EXCEPT ![s] = st]
         /\ CallsAt(at, st)
  BY <1>3
<1>5. PICK st : /\ pc' = [pc EXCEPT ![s] = l] /\ stack' = [stack EXCEPT ![s] = st]
                /\ CallsAt(at, st)
  BY <1>4
<1> QED
  BY <1>4, <1>5, AtCalls

(* The innermost call goes on, without the locals of an append.            *)
LEMMA AtSetTop ==
    ASSUME NEW at, TypeOK, AllAt(at), NEW s \in Scanners, stack[s] # << >>,
           UNCHANGED <<cache, maps, job>>,
           NEW l \in Labels \ {"append", "files"}, Goto(s, l),
           NEW call \in Calls, CallAt(at, call), stack' = SetTop(s, call)
    PROVE  AllAt(at)'
<1> DEFINE st == [stack[s] EXCEPT ![Len(stack[s])] = call]
<1>1. /\ stack[s] \in Seq(Calls) /\ Len(stack[s]) \in Nat \ {0}
      /\ CallsAt(at, stack[s])
  BY TopType DEF TypeOK, AllAt
<1>2. CallsAt(at, st)
  BY <1>1, CallsAtTop
<1>3. stack' = [stack EXCEPT ![s] = st] /\ pc' = [pc EXCEPT ![s] = l]
  BY DEF SetTop, Goto
<1> HIDE DEF st
<1> QED
  BY <1>2, <1>3, AtCalls

LEMMA TopAt ==
    ASSUME NEW at, TypeOK, AllAt(at), NEW s \in Scanners,
           pc[s] \notin {"idle", "next", "files"}
    PROVE  /\ stack[s] # << >> /\ Top(s) \in Calls /\ CallAt(at, Top(s))
           /\ stack[s] \in Seq(Calls) /\ Len(stack[s]) \in Nat \ {0}
           /\ CallsAt(at, stack[s])
           /\ stack = [stack EXCEPT ![s] = stack[s]]
<1>1. stack[s] # << >>
  BY DEF TypeOK, ControlTypeOK, At
<1>2. /\ stack[s] \in Seq(Calls) /\ Len(stack[s]) \in Nat \ {0} /\ Top(s) \in Calls
      /\ CallsAt(at, stack[s])
  BY <1>1, TopType DEF TypeOK, AllAt
<1>3. Len(stack[s]) \in 1 .. Len(stack[s])
  BY <1>2
<1>4. CallAt(at, Top(s))
  BY <1>2, <1>3 DEF CallsAt, Top
<1>5. stack = [stack EXCEPT ![s] = stack[s]]
  BY DEF TypeOK, ControlTypeOK
<1> QED
  BY <1>1, <1>2, <1>4, <1>5

LEMMA AtListAllFile ==
    ASSUME NEW at, Reach(at), TypeOK, AllAt(at), NEW s \in Scanners, ListAllFile(s)
    PROVE  AllAt(at)'
<1> DEFINE st == <<Call(RootDir)>>
<1>1. CallsAt(at, st)
  <2>1. CallAt(at, Call(RootDir))
    BY DEF CallAt, IsFolder, Call, RootDir, Reach
  <2>2. Len(st) = 1 /\ st[1] = Call(RootDir) /\ \A l \in 1 .. 1 : l = 1
    OBVIOUS
  <2> QED
    BY <2>1, <2>2 DEF CallsAt
<1> HIDE DEF st
<1>2. stack'[s] = st /\ pc'[s] = "enter"
  BY DEF ListAllFile, Goto, TypeOK, ControlTypeOK, st
<1>3. HandAt(at, pc'[s], job'[s])
  BY <1>2 DEF HandAt
<1>4. PICK live : maps' = Collected(maps, live)
  BY DEF ListAllFile
<1>5. \A m \in MapId : \A k \in DOMAIN maps'[m] :
         k \in DOMAIN maps[m] /\ maps'[m][k] = maps[m][k]
  BY <1>4, CollectedProperties
<1>6. /\ UNCHANGED cache
      /\ \A t \in Scanners \ {s} :
            pc'[t] = pc[t] /\ job'[t] = job[t] /\ stack'[t] = stack[t]
  BY DEF ListAllFile, Goto, TypeOK, ControlTypeOK, catalogVars
<1> QED
  BY <1>1, <1>2, <1>3, <1>5, <1>6, AtFrame

LEMMA AtFetchDir ==
    ASSUME NEW at, TypeOK, AllAt(at), NEW s \in Scanners, FetchDir(s)
    PROVE  AllAt(at)'
<1>1. /\ stack[s] # << >> /\ Top(s) \in Calls /\ CallAt(at, Top(s))
      /\ CallsAt(at, stack[s]) /\ stack = [stack EXCEPT ![s] = stack[s]]
  BY TopAt DEF FetchDir
<1>2. UNCHANGED <<cache, maps, job>> /\ drive \in Trees
  BY DEF FetchDir, catalogVars, TypeOK, CatalogTypeOK
<1>3. CASE ReturnError(s)
  BY <1>1, <1>2, <1>3, AtReturnError
<1>4. CASE ~ReturnError(s) /\ UNCHANGED stack
  <2>1. pc' = [pc EXCEPT ![s] = "index"] /\ stack' = [stack EXCEPT ![s] = stack[s]]
    BY <1>1, <1>4 DEF FetchDir, Goto
  <2>2. "index" \in Labels \ {"append", "files"}
    BY DEF Labels
  <2> QED
    BY <1>1, <1>2, <2>1, <2>2, AtCalls
<1>5. CASE ~ReturnError(s) /\ ~UNCHANGED stack
  <2>1. PICK n \in drive : /\ n.id = Top(s).dir.id
                           /\ stack' = SetTop(s, Call(FileAt(n, Top(s).dir.path)))
    BY <1>5 DEF FetchDir
  <2> DEFINE call == Call(FileAt(n, Top(s).dir.path))
  <2>2. call \in Calls
    <3>1. n \in Nodes /\ Top(s).dir.path \in Path
      BY <1>1, <1>2 DEF Nodes, Calls, File
    <3> QED
      BY <3>1, FileAtType, CallType, CatalogAssumption
  <2>3. CallAt(at, call)
    <3>1. n \in Nodes
      BY <1>2 DEF Nodes
    <3>2. IsFolder(FileAt(n, Top(s).dir.path))
      BY <1>1, <2>1, <3>1, CatalogAssumption DEF CallAt, IsFolder, FileAt
    <3> QED
      BY <1>1, <2>1, <3>2 DEF CallAt, Call, FileAt
  <2>4. Goto(s, "index") /\ "index" \in Labels \ {"append", "files"}
    BY <1>5 DEF FetchDir, Labels
  <2> HIDE DEF call
  <2>5. stack' = SetTop(s, call)
    BY <2>1 DEF call
  <2> QED
    BY <1>1, <1>2, <2>2, <2>3, <2>4, <2>5, AtSetTop
<1> QED
  BY <1>3, <1>4, <1>5

LEMMA AtSaveListIndexData ==
    ASSUME NEW at, TypeOK, AllAt(at), NEW s \in Scanners, SaveListIndexData(s)
    PROVE  AllAt(at)'
<1>1. /\ stack[s] # << >> /\ CallsAt(at, stack[s])
      /\ stack = [stack EXCEPT ![s] = stack[s]]
  BY TopAt DEF SaveListIndexData
<1>2. UNCHANGED <<cache, maps, job>>
  BY DEF SaveListIndexData
<1>3. CASE ReturnError(s)
  BY <1>1, <1>2, <1>3, AtReturnError
<1>4. CASE ~ReturnError(s)
  <2>1. pc' = [pc EXCEPT ![s] = "list"] /\ stack' = [stack EXCEPT ![s] = stack[s]]
    BY <1>1, <1>4 DEF SaveListIndexData, Goto
  <2>2. "list" \in Labels \ {"append", "files"}
    BY DEF Labels
  <2> QED
    BY <1>1, <1>2, <2>1, <2>2, AtCalls
<1> QED
  BY <1>3, <1>4

LEMMA AtFileList ==
    ASSUME NEW at, TypeOK, AllAt(at), NEW s \in Scanners, FileList(s)
    PROVE  AllAt(at)'
<1>1. /\ stack[s] # << >> /\ Top(s) \in Calls /\ CallAt(at, Top(s))
      /\ CallsAt(at, stack[s])
  BY TopAt DEF FileList
<1>2. UNCHANGED <<cache, maps, job>> /\ drive \in Trees
  BY DEF FileList, catalogVars, TypeOK, CatalogTypeOK
<1>3. CASE ReturnError(s)
  BY <1>1, <1>2, <1>3, AtReturnError
<1>4. CASE ~ReturnError(s)
  <2>1. PICK page \in Pages(s) :
           stack' = SetTop(s, [Top(s) EXCEPT !.seen = @ \cup {n.id : n \in page},
                                             !.todo = page,
                                             !.more = MorePages(s, page)])
    BY <1>4 DEF FileList
  <2> DEFINE call == [Top(s) EXCEPT !.seen = @ \cup {n.id : n \in page},
                                    !.todo = page,
                                    !.more = MorePages(s, page)]
  <2>2. page \subseteq Children(drive, Top(s).dir.id) /\ page \subseteq Nodes
    BY <1>2 DEF Pages, Rest, Children, Nodes
  <2>3. {n.id : n \in page} \subseteq Ids /\ MorePages(s, page) \in BOOLEAN
    BY <2>2 DEF Ids, MorePages
  <2>4. call \in Calls
    BY <1>1, <2>2, <2>3 DEF Calls
  <2>5. CallAt(at, call)
    <3>1. call.dir = Top(s).dir /\ call.todo = page
      BY <1>1 DEF Calls
    <3> HIDE DEF call
    <3> QED
      BY <1>1, <2>2, <3>1 DEF CallAt, Children
  <2>6. Goto(s, "items") /\ "items" \in Labels \ {"append", "files"}
    BY <1>4 DEF FileList, Labels
  <2>7. stack' = SetTop(s, call)
    BY <2>1
  <2> HIDE DEF call
  <2> QED
    BY <1>1, <1>2, <2>4, <2>5, <2>6, <2>7, AtSetTop
<1> QED
  BY <1>3, <1>4

LEMMA AtLoadSlice ==
    ASSUME NEW at, TypeOK, AllAt(at), NEW s \in Scanners, LoadSlice(s)
    PROVE  AllAt(at)'
<1> DEFINE path == Top(s).dir.path
           key  == MapKey(path)
           old  == Slice(filesMapData, key)
<1>1. /\ stack[s] \in Seq(Calls) /\ Len(stack[s]) \in Nat \ {0}
      /\ Top(s) \in Calls /\ CallAt(at, Top(s)) /\ CallsAt(at, stack[s])
  BY TopAt DEF LoadSlice
<1>2. PICK n \in Top(s).todo :
         /\ job' = [job EXCEPT ![s] = Job(filesMapData, key,
                      Append(old, FileAt(n, Append(path, n.name))), {}, {})]
         /\ stack' = SetTop(s, [Top(s) EXCEPT !.todo = @ \ {n}])
  BY DEF LoadSlice
<1> DEFINE item == FileAt(n, Append(path, n.name))
           call == [Top(s) EXCEPT !.todo = @ \ {n}]
<1>3. n \in Nodes /\ path \in Path /\ path \in at[n.parent]
  BY <1>1 DEF Calls, File, CallAt
<1>4. item \in File
  BY <1>3, ItemType, CatalogAssumption
<1>5. call \in Calls /\ CallAt(at, call)
  <2>1. call.dir = Top(s).dir /\ call.todo = Top(s).todo \ {n} /\ call \in Calls
    BY <1>1 DEF Calls
  <2> HIDE DEF call
  <2> QED
    BY <1>1, <2>1 DEF CallAt
<1>6. old \in Seq(File) /\ (old = << >> \/ ListingAt(at, makePathKey(<<key>>), old))
  <2>1. filesMapData \in MapId
    BY DEF TypeOK, HeapTypeOK
  <2>2. old \in Seq(File)
    BY <2>1, SliceType DEF TypeOK
  <2>3. key \in DOMAIN maps[filesMapData] => ListingAt(at, makePathKey(<<key>>), old)
    <3> HIDE DEF key
    <3> QED
      BY <2>1 DEF AllAt, Slice
  <2>4. key \notin DOMAIN maps[filesMapData] => old = << >>
    BY DEF Slice
  <2> QED
    BY <2>2, <2>3, <2>4
<1>7. makePathKey(<<key>>) = makePathKey(path)
  BY ListingKey
<1>8. /\ job'[s].key = key /\ job'[s].value = Append(old, item)
      /\ pc'[s] = "append" /\ UNCHANGED <<cache, maps>>
      /\ \A t \in Scanners \ {s} :
            pc'[t] = pc[t] /\ job'[t] = job[t] /\ stack'[t] = stack[t]
  BY <1>2 DEF LoadSlice, Job, Goto, SetTop, TypeOK, ControlTypeOK, catalogVars
<1>9. stack'[s] = [stack[s] EXCEPT ![Len(stack[s])] = call]
  BY <1>2 DEF SetTop, TypeOK, ControlTypeOK
<1> HIDE DEF call, old, key, path
<1>10. CallsAt(at, stack'[s])
  BY <1>1, <1>5, <1>9, CallsAtTop
<1>11. ListingAt(at, makePathKey(<<key>>), Append(old, item))
  BY <1>3, <1>4, <1>6, <1>7, ListingAtAppend
<1> HIDE DEF item
<1>12. HandAt(at, pc'[s], job'[s])
  BY <1>8, <1>11 DEF HandAt
<1> QED
  BY <1>8, <1>10, <1>12, AtFrame

LEMMA AtStoreSlice ==
    ASSUME NEW at, Reach(at), TypeOK, AllAt(at), NEW s \in Scanners, StoreSlice(s)
    PROVE  AllAt(at)'
<1> DEFINE j    == job[s]
           item == j.value[Len(j.value)]
           heap == [maps EXCEPT ![j.map] = Put(@, j.key, j.value)]
<1>1. /\ stack[s] \in Seq(Calls) /\ CallsAt(at, stack[s])
      /\ stack = [stack EXCEPT ![s] = stack[s]]
  BY TopAt DEF StoreSlice
<1>2. /\ j.map \in MapId /\ j.value \in Seq(File) /\ j.value # << >>
      /\ ListingAt(at, makePathKey(<<j.key>>), j.value)
  BY DEF TypeOK, ControlTypeOK, At, IsJob, StoreSlice, AllAt, HandAt
<1>3. Len(j.value) \in 1 .. Len(j.value)
  BY <1>2, EmptySeq, LenProperties
<1>4. PICK n \in Nodes : \E p \in at[n.parent] : item = FileAt(n, Append(p, n.name))
  BY <1>2, <1>3 DEF ListingAt
<1>5. item \in File
  BY <1>2, <1>3, ElementOfSeq
<1>6. item.path \in at[item.id]
  BY <1>4 DEF Reach, FileAt
<1>7. item.dir => Call(item) \in Calls /\ CallAt(at, Call(item))
  <2>1. item.dir => IsFolder(item)
    BY <1>4 DEF IsFolder, FileAt
  <2> QED
    BY <1>5, <1>6, <2>1, CallType DEF CallAt, Call
<1>8. /\ maps' = Collected(heap, Live(filesMapData, job')) /\ UNCHANGED cache
      /\ pc'[s] \notin {"append", "files"}
      /\ \A t \in Scanners \ {s} :
            pc'[t] = pc[t] /\ job'[t] = job[t] /\ stack'[t] = stack[t]
  BY DEF StoreSlice, Goto, TypeOK, ControlTypeOK, catalogVars
<1>9. stack'[s] = stack[s] \/ (item.dir /\ stack'[s] = Append(stack[s], Call(item)))
  BY DEF StoreSlice, TypeOK, ControlTypeOK
<1>10. CallsAt(at, stack'[s])
  <2> HIDE DEF item
  <2> QED
    BY <1>1, <1>7, <1>9, CallsAtPush
<1>11. HandAt(at, pc'[s], job'[s])
  BY <1>8 DEF HandAt
<1>12. \A t \in Scanners : CallsAt(at, stack'[t]) /\ HandAt(at, pc'[t], job'[t])
  <2> TAKE t \in Scanners
  <2>1. CASE t = s
    BY <1>10, <1>11, <2>1
  <2>2. CASE t # s
    BY <1>8, <2>2 DEF AllAt
  <2> QED
    BY <2>1, <2>2
<1>13. ASSUME NEW m \in MapId, NEW k \in DOMAIN heap[m]
       PROVE  ListingAt(at, makePathKey(<<k>>), heap[m][k])
  <2>1. CASE m = j.map /\ k = j.key
    <3>1. heap[m][k] = j.value
      BY <2>1 DEF TypeOK, HeapTypeOK, Put
    <3> QED
      BY <1>2, <2>1, <3>1
  <2>2. CASE ~(m = j.map /\ k = j.key)
    <3>1. k \in DOMAIN maps[m] /\ heap[m][k] = maps[m][k]
      BY <1>2, <2>2 DEF TypeOK, HeapTypeOK, Put
    <3> QED
      BY <3>1 DEF AllAt
  <2> QED
    BY <2>1, <2>2
<1> HIDE DEF heap
<1>14. ASSUME NEW m \in MapId, NEW k \in DOMAIN maps'[m]
       PROVE  ListingAt(at, makePathKey(<<k>>), maps'[m][k])
  <2>1. k \in DOMAIN heap[m] /\ maps'[m][k] = heap[m][k]
    BY <1>8, CollectedProperties
  <2> QED
    BY <1>13, <2>1
<1>15. \A k \in DOMAIN cache' : Listing(k)' => ListingAt(at, k, cache'[k].list)
  BY <1>8 DEF AllAt, Listing
<1> QED
  BY <1>12, <1>14, <1>15 DEF AllAt

LEMMA AtEndPage ==
    ASSUME NEW at, TypeOK, AllAt(at), NEW s \in Scanners, EndPage(s)
    PROVE  AllAt(at)'
<1>1. /\ stack[s] # << >> /\ CallsAt(at, stack[s])
      /\ stack[s] \in Seq(Calls) /\ Len(stack[s]) \in Nat
      /\ stack = [stack EXCEPT ![s] = stack[s]]
  BY TopAt DEF EndPage
<1>2. /\ UNCHANGED <<cache, maps>> /\ pc'[s] \notin {"append", "files"}
      /\ \A t \in Scanners \ {s} :
            pc'[t] = pc[t] /\ job'[t] = job[t] /\ stack'[t] = stack[t]
  BY DEF EndPage, Goto, TypeOK, ControlTypeOK, catalogVars
<1>3. \/ stack'[s] = stack[s]
      \/ Len(stack[s]) > 1 /\ stack'[s] = SubSeq(stack[s], 1, Len(stack[s]) - 1)
      \/ stack'[s] = << >>
  BY <1>1 DEF EndPage, TypeOK, ControlTypeOK
<1>4. CallsAt(at, stack'[s])
  BY <1>1, <1>3, CallsAtPop, CallsAtNone
<1>5. HandAt(at, pc'[s], job'[s])
  BY <1>2 DEF HandAt
<1> QED
  BY <1>2, <1>4, <1>5, AtFrame

LEMMA AtNextKey ==
    ASSUME NEW at, TypeOK, AllAt(at), NEW s \in Scanners, NextKey(s)
    PROVE  AllAt(at)'
<1>1. PICK key \in DOMAIN maps[job[s].map] :
         job'[s].key = key /\ job'[s].value = maps[job[s].map][key]
  BY DEF TypeOK, ControlTypeOK, NextKey, Job
<1>2. job[s].map \in MapId
  BY DEF TypeOK, ControlTypeOK, At, IsJob, NextKey
<1>3. HandAt(at, pc'[s], job'[s])
  BY <1>1, <1>2 DEF HandAt, AllAt
<1>4. /\ UNCHANGED <<cache, maps, stack>>
      /\ \A t \in Scanners \ {s} : pc'[t] = pc[t] /\ job'[t] = job[t]
  BY DEF TypeOK, ControlTypeOK, NextKey, Goto, catalogVars
<1>5. CallsAt(at, stack'[s])
  BY <1>4 DEF AllAt
<1> QED
  BY <1>3, <1>4, <1>5, AtFrame

LEMMA AtPutItem ==
    ASSUME NEW at, TypeOK, AllAt(at), NEW s \in Scanners, PutItem(s)
    PROVE  AllAt(at)'
<1> DEFINE j    == job[s]
           item == j.value[j.pos]
<1>1. /\ pc[s] = "files" /\ UNCHANGED <<maps, pc, stack>>
      /\ job'[s].value = j.value /\ job'[s].key = j.key
      /\ \A t \in Scanners \ {s} : job'[t] = job[t]
  BY DEF TypeOK, ControlTypeOK, At, IsJob, PutItem
<1>2. \A t \in Scanners : CallsAt(at, stack'[t]) /\ HandAt(at, pc'[t], job'[t])
  <2> TAKE t \in Scanners
  <2>1. HandAt(at, pc[t], job[t]) /\ CallsAt(at, stack[t])
    BY DEF AllAt
  <2>2. job'[t].value = job[t].value /\ job'[t].key = job[t].key
    BY <1>1
  <2> QED
    BY <1>1, <2>1, <2>2 DEF HandAt
<1>3. \A m \in MapId : \A k \in DOMAIN maps'[m] :
         ListingAt(at, makePathKey(<<k>>), maps'[m][k])
  BY <1>1 DEF AllAt
<1>4. \A k \in DOMAIN cache' : Listing(k)' => ListingAt(at, k, cache'[k].list)
  <2>1. CASE UNCHANGED cache
    BY <2>1 DEF AllAt, Listing
  <2>2. CASE cache' = Put(cache, makePathKey(item.path), FileRecord(item))
    <3> DEFINE key == makePathKey(item.path)
    <3> HIDE DEF item, key
    <3> QED
      BY <2>2 DEF AllAt, Listing, Put, FileRecord, key
  <2> QED
    BY <2>1, <2>2 DEF PutItem, ItemKey
<1> QED
  BY <1>2, <1>3, <1>4 DEF AllAt

LEMMA AtPutListing ==
    ASSUME NEW at, TypeOK, AllAt(at), NEW s \in Scanners, PutListing(s)
    PROVE  AllAt(at)'
<1> DEFINE j   == job[s]
           key == makePathKey(<<j.key>>)
<1>1. /\ pc[s] = "files" /\ pc'[s] = "next" /\ UNCHANGED <<maps, stack>>
      /\ \A t \in Scanners \ {s} : pc'[t] = pc[t] /\ job'[t] = job[t]
  BY DEF TypeOK, ControlTypeOK, PutListing, Goto
<1>2. ListingAt(at, key, j.value)
  BY <1>1 DEF AllAt, HandAt
<1>3. \A t \in Scanners : CallsAt(at, stack'[t]) /\ HandAt(at, pc'[t], job'[t])
  <2> TAKE t \in Scanners
  <2>1. HandAt(at, pc[t], job[t]) /\ CallsAt(at, stack[t])
    BY DEF AllAt
  <2>2. CASE t = s
    BY <1>1, <2>1, <2>2 DEF HandAt
  <2>3. CASE t # s
    BY <1>1, <2>1, <2>3
  <2> QED
    BY <2>2, <2>3
<1>4. \A m \in MapId : \A k \in DOMAIN maps'[m] :
         ListingAt(at, makePathKey(<<k>>), maps'[m][k])
  BY <1>1 DEF AllAt
<1>5. \A k \in DOMAIN cache' : Listing(k)' => ListingAt(at, k, cache'[k].list)
  <2>1. CASE UNCHANGED cache
    BY <2>1 DEF AllAt, Listing
  <2>2. CASE cache' = Put(cache, key, ListRecord(j.value))
    <3> HIDE DEF key, j
    <3> QED
      BY <1>2, <2>2 DEF AllAt, Listing, Put, ListRecord
  <2> QED
    BY <2>1, <2>2 DEF PutListing
<1> QED
  BY <1>3, <1>4, <1>5 DEF AllAt

LEMMA AtEndRange ==
    ASSUME NEW at, TypeOK, AllAt(at), NEW s \in Scanners, EndRange(s)
    PROVE  AllAt(at)'
<1>1. \A m \in MapId : \A k \in DOMAIN maps'[m] :
         k \in DOMAIN maps[m] /\ maps'[m][k] = maps[m][k]
  BY CollectedProperties DEF EndRange
<1>2. /\ UNCHANGED <<cache, stack>> /\ pc'[s] = "idle"
      /\ \A t \in Scanners \ {s} : pc'[t] = pc[t] /\ job'[t] = job[t]
  BY DEF TypeOK, ControlTypeOK, EndRange, Goto, catalogVars
<1>3. CallsAt(at, stack'[s]) /\ HandAt(at, pc'[s], job'[s])
  BY <1>2 DEF AllAt, HandAt
<1> QED
  BY <1>1, <1>2, <1>3, AtFrame

LEMMA AtInit == ASSUME NEW at, Init PROVE AllAt(at)
<1>1. CallsAt(at, << >>)
  BY CallsAtNone
<1> QED
  BY <1>1 DEF Init, CatalogInit, Fresh, EmptyDB, AllAt, HandAt

LEMMA AtStep ==
    ASSUME NEW at, Reach(at), TypeOK, AllAt(at), [Next]_vars
    PROVE  AllAt(at)'
<1>1. ASSUME NEW s \in Scanners, Step(s) PROVE AllAt(at)'
  BY <1>1, AtListAllFile, AtFetchDir, AtSaveListIndexData, AtFileList, AtLoadSlice,
     AtStoreSlice, AtEndPage, AtNextKey, AtPutItem, AtPutListing, AtEndRange DEF Step
<1>2. ASSUME NEW s \in Scanners, CallFails(s) PROVE AllAt(at)'
  <2>1. stack[s] # << >> /\ UNCHANGED <<cache, maps, job>> /\ ReturnError(s)
    BY <1>2, TopAt DEF CallFails
  <2> QED
    BY <2>1, AtReturnError
<1>3. CASE Crash
  <2>1. CallsAt(at, << >>)
    BY CallsAtNone
  <2> QED
    BY <1>3, <2>1 DEF Crash, EmptyDB, AllAt, HandAt, Listing
<1>4. CASE DriveChanges /\ UNCHANGED scanVars
  BY <1>4 DEF DriveChanges, scanVars, AllAt, Listing
<1>5. CASE UNCHANGED vars
  BY <1>5 DEF vars, catalogVars, scanVars, AllAt, Listing
<1> QED
  BY <1>1, <1>2, <1>3, <1>4, <1>5 DEF Next, ScanNext

LEMMA RetrievableIf ==
    ASSUME NEW at, FilesApart(at), TypeOK, AllAt(at), ListedFileIsStored, FiledUnderOwnKey
    PROVE  ListedFileIsRetrievable
<1> SUFFICES ASSUME NEW k \in DOMAIN cache, Listing(k),
                    NEW i \in 1 .. Len(cache[k].list), ~cache[k].list[i].dir
             PROVE  /\ Has(cache, makePathKey(cache[k].list[i].path))
                    /\ cache[makePathKey(cache[k].list[i].path)].kind = "file"
                    /\ makePathKey(cache[makePathKey(cache[k].list[i].path)].file.path)
                          = makePathKey(cache[k].list[i].path)
  BY DEF ListedFileIsRetrievable
<1> DEFINE item == cache[k].list[i]
           key  == makePathKey(item.path)
<1>1. Has(cache, key)
  BY DEF ListedFileIsStored
<1>2. ~Listing(key)
  <2> SUFFICES ASSUME Listing(key) PROVE FALSE
    OBVIOUS
  <2>1. PICK m \in Nodes : \E p \in at[m.parent] : item = FileAt(m, Append(p, m.name))
    BY DEF AllAt, ListingAt
  <2>2. PICK p \in at[m.parent] : item = FileAt(m, Append(p, m.name))
    BY <2>1
  <2>3. ~m.dir /\ key = makePathKey(Append(p, m.name))
    BY <2>2 DEF FileAt
  <2>4. PICK n \in Nodes : \E q \in at[n.parent] : key = makePathKey(q)
    BY <1>1 DEF AllAt, ListingAt, Has
  <2> QED
    BY <2>3, <2>4 DEF FilesApart
<1>3. cache[key] \in Record
  BY <1>1 DEF Has, TypeOK, CatalogTypeOK
<1>4. cache[key].kind = "file"
  BY <1>1, <1>2, <1>3 DEF Has, Listing, Record
<1>5. makePathKey(cache[key].file.path) = key
  BY <1>1, <1>2 DEF Has, FiledUnderOwnKey
<1> QED
  BY <1>1, <1>4, <1>5

(* As long as LevelDB accepts the writes and no folder has the key of a    *)
(* file, what GET (FindFile, webdav.go) reads under the key of a listed    *)
(* file is the record of a file, and of one with that key: no listing has  *)
(* been written over it, whatever the scans overlap, whatever is renamed   *)
(* or moved while they run, and whatever crashes.                          *)
THEOREM ListedFilesAreRetrievable ==
    ASSUME NEW CONSTANT at, Reach(at), FilesApart(at), ~PutMayFail
    PROVE  Spec => []ListedFileIsRetrievable
<1>1. Init => AllAt(at)
  BY AtInit
<1>2. TypeOK /\ AllAt(at) /\ [Next]_vars => AllAt(at)'
  BY AtStep
<1>3. TypeOK /\ AllAt(at) /\ ListedFileIsStored /\ FiledUnderOwnKey => ListedFileIsRetrievable
  BY RetrievableIf
<1> QED
  BY <1>1, <1>2, <1>3, TypeCorrect, ListedFilesAreStored, RecordsAreFiled, PTL DEF Spec


-----------------------------------------------------------------------------
(***************************************************************************)
(* No scan lists an item twice.  The invariant knows, of each goroutine,   *)
(* how it has found the items of its present scan (got), and of each map,  *)
(* which items were added to it by whom and under which key (credit); no   *)
(* variable of the code holds either.                                      *)
(***************************************************************************)

(* An open call, at position l: what was found in its folder is behind it, *)
(* and the folder was itself found, but for the root.                      *)
Opened(got, call, l) ==
    /\ l = 1 => call.dir.id = RootId
    /\ l # 1 => \E e \in got : e.id = call.dir.id /\ e.own = makePathKey(call.dir.path)
    /\ \A e \in got : e.parent = call.dir.id /\ e.in = makePathKey(call.dir.path) =>
          e.id \in call.seen /\ \A n \in call.todo : n.id # e.id
    /\ \A n \in call.todo : n.id \in call.seen
    /\ \A m, n \in call.todo : m.id = n.id => m = n

Same(dir, file) == dir.id = file.id /\ makePathKey(dir.path) = makePathKey(file.path)

(* A folder in the hand of an append: nothing was found in it, and it is   *)
(* not being visited.                                                      *)
Unvisited(got, st, item) ==
    item.dir =>
        /\ \E e \in got : e.id = item.id /\ e.own = makePathKey(item.path)
        /\ \A e \in got : ~(e.parent = item.id /\ e.in = makePathKey(item.path))
        /\ \A l \in 1 .. Len(st) : ~Same(st[l].dir, item)

ScanOK(at, label, st, value, got) ==
    /\ got \subseteq Findings(at)
    /\ \A e \in got : e.parent = RootId \/ \E f \in got : f.id = e.parent /\ f.own = e.in
    /\ \A l \in 1 .. Len(st) : Opened(got, st[l], l)
    /\ \A k, l \in 1 .. Len(st) : Same(st[k].dir, st[l].dir) => k = l
    /\ label = "enter" => \A l \in 1 .. Len(st) : l = Len(st) => st[l].seen = {}
    /\ label = "append" => Unvisited(got, st, value[Len(value)])

Elsewhere == {"idle", "index", "list", "items", "next", "files"}

LEMMA ScanSame ==
    ASSUME NEW at, NEW label, NEW st, NEW value, NEW got, ScanOK(at, label, st, value, got),
           NEW label2 \in Elsewhere, NEW value2
    PROVE  ScanOK(at, label2, st, value2, got)
BY DEF ScanOK, Elsewhere

LEMMA ScanNone ==
    ASSUME NEW at, NEW label, NEW st, NEW value, NEW got, ScanOK(at, label, st, value, got),
           NEW label2 \in Elsewhere, NEW value2
    PROVE  ScanOK(at, label2, << >>, value2, got)
<1>1. Len(<< >>) = 0 /\ 1 .. 0 = {}
  OBVIOUS
<1> QED
  BY <1>1 DEF ScanOK, Elsewhere

LEMMA ScanPop ==
    ASSUME NEW at, NEW label, NEW st \in Seq(Calls), NEW value, NEW got,
           ScanOK(at, label, st, value, got), st # << >>,
           NEW label2 \in Elsewhere, NEW value2
    PROVE  ScanOK(at, label2, SubSeq(st, 1, Len(st) - 1), value2, got)
<1> DEFINE m     == Len(st) - 1
           outer == SubSeq(st, 1, m)
<1>1. Len(st) \in Nat \ {0}
  BY EmptySeq
<1>2. m \in Nat /\ 1 .. m \subseteq 1 .. Len(st)
  BY <1>1
<1>3. \A l \in 1 .. m : st[l] \in Calls
  BY <1>2, ElementOfSeq
<1> HIDE DEF m
<1>4. Len(outer) = m /\ \A l \in 1 .. m : outer[l] = st[l]
  BY <1>2, <1>3, SubSeqProperties
<1> HIDE DEF outer
<1>5. ScanOK(at, label2, outer, value2, got)
  BY <1>2, <1>4 DEF ScanOK, Elsewhere
<1> QED
  BY <1>5 DEF outer, m

(* The innermost call goes on in its folder.                               *)
LEMMA ScanTop ==
    ASSUME NEW at, NEW label, NEW st \in Seq(Calls), NEW value, NEW got,
           ScanOK(at, label, st, value, got), st # << >>,
           NEW call \in Calls, Opened(got, call, Len(st)), Same(call.dir, st[Len(st)].dir),
           NEW label2 \in Elsewhere, NEW value2
    PROVE  ScanOK(at, label2, [st EXCEPT ![Len(st)] = call], value2, got)
<1> DEFINE new == [st EXCEPT ![Len(st)] = call]
<1>1. Len(st) \in 1 .. Len(st)
  BY EmptySeq
<1>2. Len(new) = Len(st) /\ \A l \in 1 .. Len(st) : new[l] = IF l = Len(st) THEN call ELSE st[l]
  BY <1>1, ExceptSeq
<1> HIDE DEF new
<1>3. \A l \in 1 .. Len(st) : Opened(got, new[l], l)
  BY <1>2 DEF ScanOK
<1>4. \A l \in 1 .. Len(st) : Same(new[l].dir, st[l].dir)
  BY <1>2 DEF Same
<1>5. \A k, l \in 1 .. Len(st) : Same(new[k].dir, new[l].dir) => k = l
  BY <1>4 DEF ScanOK, Same
<1>6. ScanOK(at, label2, new, value2, got)
  BY <1>2, <1>3, <1>5 DEF ScanOK, Elsewhere
<1> QED
  BY <1>6 DEF new

LEMMA ScanBegins ==
    ASSUME NEW at, NEW value PROVE ScanOK(at, "enter", <<Call(RootDir)>>, value, {})
<1> DEFINE st == <<Call(RootDir)>>
<1>1. Len(st) = 1 /\ st[1] = Call(RootDir) /\ \A l \in 1 .. 1 : l = 1
  OBVIOUS
<1> HIDE DEF st
<1>2. Opened({}, Call(RootDir), 1) /\ Call(RootDir).seen = {}
  BY DEF Opened, Call, RootDir
<1>3. ScanOK(at, "enter", st, value, {})
  BY <1>1, <1>2 DEF ScanOK
<1> QED
  BY <1>3 DEF st

(* A folder that was not visited is.                                       *)
LEMMA ScanPush ==
    ASSUME NEW at, NEW st \in Seq(Calls), NEW value, NEW got,
           ScanOK(at, "append", st, value, got), st # << >>,
           NEW item \in File, item = value[Len(value)], item.dir, NEW value2
    PROVE  ScanOK(at, "enter", Append(st, Call(item)), value2, got)
<1> DEFINE new == Append(st, Call(item))
<1>1. /\ Len(st) \in Nat \ {0} /\ Len(new) = Len(st) + 1
      /\ \A l \in 1 .. Len(st) : new[l] = st[l]
      /\ new[Len(st) + 1] = Call(item)
  BY CallType, AppendProperties, EmptySeq
<1> HIDE DEF new
<1>2. Call(item).dir = item /\ Call(item).seen = {} /\ Call(item).todo = {}
  BY DEF Call
<1>3. Unvisited(got, st, item)
  BY DEF ScanOK
<1>4. Opened(got, Call(item), Len(st) + 1)
  <2>1. Len(st) + 1 # 1
    BY <1>1
  <2> QED
    BY <1>2, <1>3, <2>1 DEF Opened, Unvisited
<1>5. \A l \in 1 .. Len(new) : l \in 1 .. Len(st) \/ l = Len(st) + 1
  BY <1>1
<1>6. \A l \in 1 .. Len(new) : Opened(got, new[l], l)
  BY <1>1, <1>4, <1>5 DEF ScanOK
<1>7. \A k, l \in 1 .. Len(new) : Same(new[k].dir, new[l].dir) => k = l
  <2> TAKE k, l \in 1 .. Len(new)
  <2>1. CASE k \in 1 .. Len(st) /\ l \in 1 .. Len(st)
    BY <1>1, <2>1 DEF ScanOK
  <2>2. CASE k \in 1 .. Len(st) /\ l = Len(st) + 1
    BY <1>1, <1>2, <1>3, <2>2 DEF Unvisited
  <2>3. CASE k = Len(st) + 1 /\ l \in 1 .. Len(st)
    BY <1>1, <1>2, <1>3, <2>3 DEF Unvisited, Same
  <2> QED
    BY <1>5, <2>1, <2>2, <2>3
<1>8. ScanOK(at, "enter", new, value2, got)
  BY <1>1, <1>2, <1>6, <1>7 DEF ScanOK
<1> QED
  BY <1>8 DEF new

(* An item in the innermost folder that waits for its turn has not been    *)
(* found under the folder's key, nor, if it is a folder, visited.          *)
LEMMA ScanFinds ==
    ASSUME NEW at, FoundApart(at), NEW label, NEW st \in Seq(Calls), NEW value, NEW got,
           ScanOK(at, label, st, value, got), st # << >>,
           NEW n \in st[Len(st)].todo, n \in Nodes,
           n.parent = st[Len(st)].dir.id, st[Len(st)].dir.path \in at[n.parent],
           NEW call \in Calls,
           call = [st[Len(st)] EXCEPT !.todo = @ \ {n}],
           NEW value2,
           value2[Len(value2)] = FileAt(n, Append(st[Len(st)].dir.path, n.name))
    PROVE  LET new == Finding(n, st[Len(st)].dir.path)
           IN  /\ \A e \in got : ~(e.id = new.id /\ e.in = new.in)
               /\ ScanOK(at, "append", [st EXCEPT ![Len(st)] = call], value2, got \cup {new})
<1> DEFINE top   == st[Len(st)]
           new   == Finding(n, top.dir.path)
           more  == got \cup {new}
           item  == FileAt(n, Append(top.dir.path, n.name))
           calls2 == [st EXCEPT ![Len(st)] = call]
<1>1. Len(st) \in 1 .. Len(st) /\ top \in Calls
  BY EmptySeq, ElementOfSeq
<1>2. call.dir = top.dir /\ call.seen = top.seen /\ call.todo = top.todo \ {n}
  BY <1>1 DEF Calls
<1>3. /\ Len(calls2) = Len(st)
      /\ \A l \in 1 .. Len(st) : calls2[l] = IF l = Len(st) THEN call ELSE st[l]
  BY <1>1, ExceptSeq
<1>4. /\ new \in Findings(at) /\ new.id = n.id /\ new.parent = top.dir.id
      /\ new.in = makePathKey(top.dir.path)
      /\ new.own = makePathKey(Append(top.dir.path, n.name))
  BY DEF Finding, Findings
<1>5. item.id = n.id /\ item.path = Append(top.dir.path, n.name)
  BY DEF FileAt
<1>6. Opened(got, top, Len(st)) /\ n \in top.todo
  BY <1>1 DEF ScanOK
<1> HIDE DEF top, new, item, calls2
<1>7. \A e \in got : ~(e.id = new.id /\ e.in = new.in)
  <2> SUFFICES ASSUME NEW e \in got, e.id = new.id, e.in = new.in PROVE FALSE
    OBVIOUS
  <2>1. e \in Findings(at)
    BY DEF ScanOK
  <2>2. e.parent = new.parent
    BY <1>4, <2>1 DEF FoundApart
  <2> QED
    BY <1>4, <1>6, <2>2 DEF Opened
<1>8. \A e \in got : ~(e.id = new.id /\ e.own = new.own)
  <2> SUFFICES ASSUME NEW e \in got, e.id = new.id, e.own = new.own PROVE FALSE
    OBVIOUS
  <2>1. e \in Findings(at)
    BY DEF ScanOK
  <2> QED
    BY <1>4, <1>7, <2>1 DEF FoundApart
<1>9. n.id # RootId
  BY CatalogAssumption
<1>10. \A l \in 1 .. Len(st) : ~Same(st[l].dir, item)
  <2> SUFFICES ASSUME NEW l \in 1 .. Len(st), Same(st[l].dir, item) PROVE FALSE
    OBVIOUS
  <2>1. Opened(got, st[l], l)
    BY DEF ScanOK
  <2>2. st[l].dir.id = new.id /\ makePathKey(st[l].dir.path) = new.own
    BY <1>4, <1>5 DEF Same
  <2> QED
    BY <1>4, <1>8, <1>9, <2>1, <2>2 DEF Opened
<1>11. \A e \in more : ~(e.parent = item.id /\ e.in = makePathKey(item.path))
  <2> SUFFICES ASSUME NEW e \in more, e.parent = n.id, e.in = new.own PROVE FALSE
    BY <1>4, <1>5
  <2>1. CASE e \in got
    <3>1. \E f \in got : f.id = n.id /\ f.own = new.own
      BY <1>9, <2>1 DEF ScanOK
    <3> QED
      BY <1>4, <1>8, <3>1
  <2>2. CASE e = new
    <3>1. top.dir.id = n.id /\ makePathKey(top.dir.path) = new.own
      BY <1>4, <2>2
    <3>2. Same(top.dir, item)
      BY <1>4, <1>5, <3>1 DEF Same
    <3> QED
      BY <1>1, <1>10, <3>2 DEF top
  <2> QED
    BY <2>1, <2>2
<1>12. \A l \in 1 .. Len(st) : Same(calls2[l].dir, st[l].dir) /\ calls2[l].dir = st[l].dir
  BY <1>2, <1>3 DEF Same, top
<1>13. Unvisited(more, calls2, item)
  <2>1. \E e \in more : e.id = item.id /\ e.own = makePathKey(item.path)
    BY <1>4, <1>5
  <2>2. \A l \in 1 .. Len(calls2) : ~Same(calls2[l].dir, item)
    BY <1>3, <1>10, <1>12
  <2> QED
    BY <1>11, <2>1, <2>2 DEF Unvisited
<1>14. ASSUME NEW l \in 1 .. Len(st) PROVE Opened(more, calls2[l], l)
  <2>1. Opened(got, st[l], l)
    BY DEF ScanOK
  <2>2. CASE l = Len(st)
    <3>1. calls2[l] = call /\ st[l] = top
      BY <1>3, <2>2 DEF top
    <3>2. \A m \in call.todo : m # n => m.id # n.id
      BY <1>2, <1>6 DEF Opened
    <3>3. \A e \in more : e.parent = top.dir.id /\ e.in = makePathKey(top.dir.path) =>
             e.id \in call.seen /\ \A m \in call.todo : m.id # e.id
      <4> TAKE e \in more
      <4>1. CASE e \in got
        BY <1>2, <1>6, <4>1 DEF Opened
      <4>2. CASE e = new
        BY <1>2, <1>4, <1>6, <3>2, <4>2 DEF Opened
      <4> QED
        BY <4>1, <4>2
    <3> QED
      BY <1>2, <2>1, <3>1, <3>3 DEF Opened
  <2>3. CASE l # Len(st)
    <3>1. calls2[l] = st[l] /\ ~Same(st[l].dir, top.dir)
      BY <1>1, <1>3, <2>3 DEF ScanOK, top
    <3>2. ~(new.parent = st[l].dir.id /\ new.in = makePathKey(st[l].dir.path))
      BY <1>4, <3>1 DEF Same
    <3> QED
      BY <2>1, <3>1, <3>2 DEF Opened
  <2> QED
    BY <2>2, <2>3
<1>15. \A e \in more : e.parent = RootId \/ \E f \in more : f.id = e.parent /\ f.own = e.in
  <2> TAKE e \in more
  <2>1. CASE e \in got
    BY <2>1 DEF ScanOK
  <2>2. CASE e = new
    <3>1. \/ top.dir.id = RootId
          \/ \E f \in got : f.id = top.dir.id /\ f.own = makePathKey(top.dir.path)
      BY <1>6 DEF Opened
    <3> QED
      BY <1>4, <2>2, <3>1
  <2> QED
    BY <2>1, <2>2
<1>16. more \subseteq Findings(at)
  BY <1>4 DEF ScanOK
<1>17. \A k, l \in 1 .. Len(st) : Same(calls2[k].dir, calls2[l].dir) => k = l
  BY <1>12 DEF ScanOK
<1>18. value2[Len(value2)] = item
  BY DEF item, top
<1> HIDE DEF more
<1>19. ScanOK(at, "append", calls2, value2, more)
  BY <1>3, <1>13, <1>14, <1>15, <1>16, <1>17, <1>18 DEF ScanOK
<1> QED
  BY <1>7, <1>19 DEF calls2, more, new, top

-----------------------------------------------------------------------------
(* What a list has of an item, and who has added it.                       *)
Adders(credit, id, key) == {s \in Scanners : <<s, id, key>> \in credit}

Fits(list, credit, key) ==
    \A id \in Ids : Cardinality(Occurrences(list, id)) <= Cardinality(Adders(credit, id, key))
Few(list) ==
    \A id \in Ids : Cardinality(Occurrences(list, id)) <= Cardinality(Scanners)

LEMMA OccurrencesFinite ==
    ASSUME NEW list \in Seq(File), NEW id
    PROVE  IsFiniteSet(Occurrences(list, id)) /\ Cardinality(Occurrences(list, id)) \in Nat
<1>1. Len(list) \in Nat
  OBVIOUS
<1>2. IsFiniteSet(1 .. Len(list))
  BY <1>1, FS_Interval
<1>3. Occurrences(list, id) \subseteq 1 .. Len(list)
  BY DEF Occurrences
<1> QED
  BY <1>2, <1>3, FS_Subset, FS_CardinalityType

LEMMA AddersFinite ==
    ASSUME NEW credit, NEW id, NEW key
    PROVE  /\ IsFiniteSet(Adders(credit, id, key))
           /\ Cardinality(Adders(credit, id, key)) \in Nat
           /\ Cardinality(Adders(credit, id, key)) <= Cardinality(Scanners)
<1>1. Adders(credit, id, key) \subseteq Scanners /\ IsFiniteSet(Scanners)
  BY ScanAssumption DEF Adders
<1> QED
  BY <1>1, FS_Subset, FS_CardinalityType

LEMMA FitsFew ==
    ASSUME NEW list \in Seq(File), NEW credit, NEW key, Fits(list, credit, key)
    PROVE  Few(list)
<1> SUFFICES ASSUME NEW id \in Ids
             PROVE  Cardinality(Occurrences(list, id)) <= Cardinality(Scanners)
  BY DEF Few
<1>1. Cardinality(Occurrences(list, id)) <= Cardinality(Adders(credit, id, key))
  BY DEF Fits
<1>2. Cardinality(Scanners) \in Nat
  BY ScanAssumption, FS_CardinalityType
<1> QED
  BY <1>1, <1>2, OccurrencesFinite, AddersFinite

LEMMA FitsNone == ASSUME NEW credit, NEW key PROVE Fits(<< >>, credit, key) /\ Few(<< >>)
<1>1. \A id : Occurrences(<< >>, id) = {}
  <2>1. Len(<< >>) = 0 /\ 1 .. 0 = {}
    OBVIOUS
  <2> QED
    BY <2>1 DEF Occurrences
<1>2. Cardinality({}) = 0 /\ Cardinality(Scanners) \in Nat
  BY ScanAssumption, FS_EmptySet, FS_CardinalityType
<1>3. \A id \in Ids : Cardinality(Occurrences(<< >>, id)) = 0
  BY <1>1, <1>2
<1>4. ASSUME NEW id \in Ids
      PROVE  Cardinality(Occurrences(<< >>, id)) <= Cardinality(Adders(credit, id, key))
  <2>1. Cardinality(Adders(credit, id, key)) \in Nat
    BY AddersFinite
  <2> QED
    BY <1>3, <2>1
<1>5. Few(<< >>)
  BY <1>2, <1>3 DEF Few
<1>6. Fits(<< >>, credit, key)
  BY <1>4 DEF Fits
<1> QED
  BY <1>5, <1>6

LEMMA FitsMore ==
    ASSUME NEW list \in Seq(File), NEW credit, NEW more, NEW key,
           Fits(list, credit, key), credit \subseteq more
    PROVE  Fits(list, more, key)
<1> SUFFICES ASSUME NEW id \in Ids
             PROVE  Cardinality(Occurrences(list, id)) <= Cardinality(Adders(more, id, key))
  BY DEF Fits
<1>1. Cardinality(Occurrences(list, id)) <= Cardinality(Adders(credit, id, key))
  BY DEF Fits
<1>2. Adders(credit, id, key) \subseteq Adders(more, id, key)
  BY DEF Adders
<1>3. Cardinality(Adders(credit, id, key)) <= Cardinality(Adders(more, id, key))
  BY <1>2, AddersFinite, FS_Subset
<1> QED
  BY <1>1, <1>3, AddersFinite, OccurrencesFinite

(* A goroutine adds an item that it has not added before.                  *)
LEMMA FitsAppend ==
    ASSUME NEW list \in Seq(File), NEW item \in File, NEW credit, NEW key, NEW s \in Scanners,
           Fits(list, credit, key), <<s, item.id, key>> \notin credit
    PROVE  Fits(Append(list, item), credit \cup {<<s, item.id, key>>}, key)
<1> DEFINE longer == Append(list, item)
           more   == credit \cup {<<s, item.id, key>>}
<1>1. /\ longer \in Seq(File) /\ Len(longer) = Len(list) + 1 /\ Len(list) \in Nat
      /\ \A i \in 1 .. Len(list) : longer[i] = list[i]
      /\ longer[Len(list) + 1] = item
  BY AppendProperties, LenProperties
<1> HIDE DEF longer
<1>2. ASSUME NEW id \in Ids
      PROVE  Cardinality(Occurrences(longer, id)) <= Cardinality(Adders(more, id, key))
  <2>1. Cardinality(Occurrences(list, id)) <= Cardinality(Adders(credit, id, key))
    BY DEF Fits
  <2>2. \A i \in 1 .. Len(longer) : i \in 1 .. Len(list) \/ i = Len(list) + 1
    BY <1>1
  <2>3. 1 .. Len(list) \subseteq 1 .. Len(longer) /\ Len(list) + 1 \in 1 .. Len(longer)
    BY <1>1
  <2>4. CASE item.id = id
    <3>1. Occurrences(longer, id) = Occurrences(list, id) \cup {Len(list) + 1}
      BY <1>1, <2>2, <2>3, <2>4 DEF Occurrences
    <3>2. Len(list) + 1 \notin Occurrences(list, id)
      BY <1>1 DEF Occurrences
    <3>3. Cardinality(Occurrences(longer, id)) = Cardinality(Occurrences(list, id)) + 1
      BY <3>1, <3>2, OccurrencesFinite, FS_AddElement
    <3>4. Adders(more, id, key) = Adders(credit, id, key) \cup {s}
      BY <2>4 DEF Adders
    <3>5. s \notin Adders(credit, id, key)
      BY <2>4 DEF Adders
    <3>6. Cardinality(Adders(more, id, key)) = Cardinality(Adders(credit, id, key)) + 1
      BY <3>4, <3>5, AddersFinite, FS_AddElement
    <3> QED
      BY <2>1, <3>3, <3>6, OccurrencesFinite, AddersFinite
  <2>5. CASE item.id # id
    <3>1. Occurrences(longer, id) = Occurrences(list, id)
      BY <1>1, <2>2, <2>3, <2>5 DEF Occurrences
    <3>2. Adders(more, id, key) = Adders(credit, id, key)
      BY <2>5 DEF Adders
    <3> QED
      BY <2>1, <3>1, <3>2
  <2> QED
    BY <2>4, <2>5
<1> HIDE DEF more
<1>3. Fits(longer, more, key)
  BY <1>2 DEF Fits
<1> QED
  BY <1>3 DEF longer, more

-----------------------------------------------------------------------------
(***************************************************************************)
(* The inductive invariant, for some got and credit.                       *)
(***************************************************************************)

HandFits(c, l, j) ==
    /\ l = "append" => Fits(j.value, c[j.map], makePathKey(<<j.key>>))
    /\ l = "files" => Few(j.value)

ListsAreFew == \A k \in DOMAIN cache : Few(cache[k].list)

ScansOK(at, got, c) ==
    \A s \in Scanners : /\ ScanOK(at, pc[s], stack[s], job[s].value, got[s])
                        /\ HandFits(c, pc[s], job[s])

MapsFit(c) ==
    \A m \in MapId : \A k \in DOMAIN maps[m] : Fits(maps[m][k], c[m], makePathKey(<<k>>))

(* Who has added to the present map has found it in the present scan.      *)
Found(got, credit) ==
    \A s \in Scanners : \A id, key : <<s, id, key>> \in credit =>
        \E e \in got[s] : e.id = id /\ e.in = key

Credited(at, got, c) ==
    /\ got = [s \in Scanners |-> got[s]] /\ c = [m \in MapId |-> c[m]]
    /\ ScansOK(at, got, c)
    /\ MapsFit(c)
    /\ ListsAreFew
    /\ Found(got, c[filesMapData])

LEMMA CreditedFrame ==
    ASSUME NEW at, NEW got, NEW c, Credited(at, got, c), NEW s \in Scanners,
           UNCHANGED filesMapData, ListsAreFew',
           \A m \in MapId : \A k \in DOMAIN maps'[m] :
               k \in DOMAIN maps[m] /\ maps'[m][k] = maps[m][k],
           \A t \in Scanners \ {s} :
               pc'[t] = pc[t] /\ job'[t] = job[t] /\ stack'[t] = stack[t],
           ScanOK(at, pc'[s], stack'[s], job'[s].value, got[s]),
           HandFits(c, pc'[s], job'[s])
    PROVE  Credited(at, got, c)'
<1>1. ASSUME NEW t \in Scanners
      PROVE  /\ ScanOK(at, pc'[t], stack'[t], job'[t].value, got[t])
             /\ HandFits(c, pc'[t], job'[t])
  <2>1. CASE t = s
    BY <2>1
  <2>2. CASE t # s
    BY <2>2 DEF Credited, ScansOK, MapsFit, Found
  <2> QED
    BY <2>1, <2>2
<1>2. \A m \in MapId : \A k \in DOMAIN maps'[m] : Fits(maps'[m][k], c[m], makePathKey(<<k>>))
  BY DEF Credited, ScansOK, MapsFit, Found
<1>3. ScansOK(at, got, c)'
  BY <1>1 DEF ScansOK
<1>4. MapsFit(c)'
  BY <1>2 DEF MapsFit
<1>5. Found(got, c[filesMapData])'
  BY DEF Credited
<1>6. got = [t \in Scanners |-> got[t]] /\ c = [m \in MapId |-> c[m]]
  BY DEF Credited
<1> QED
  BY <1>3, <1>4, <1>5, <1>6 DEF Credited

(* A step that leaves the records and the locals of appends alone.         *)
LEMMA CreditedCalls ==
    ASSUME NEW at, NEW got, NEW c, TypeOK, Credited(at, got, c), NEW s \in Scanners,
           UNCHANGED <<cache, maps, filesMapData>>,
           NEW l \in Elsewhere \ {"files"}, pc' = [pc EXCEPT ![s] = l],
           NEW st, stack' = [stack EXCEPT ![s] = st],
           \A value : ScanOK(at, l, st, value, got[s]),
           \A t \in Scanners \ {s} : job'[t] = job[t]
    PROVE  Credited(at, got, c)'
<1>1. pc'[s] = l /\ stack'[s] = st
  BY DEF TypeOK, ControlTypeOK
<1>2. HandFits(c, pc'[s], job'[s])
  BY <1>1 DEF HandFits, Elsewhere
<1>3. \A t \in Scanners \ {s} : pc'[t] = pc[t] /\ job'[t] = job[t] /\ stack'[t] = stack[t]
  BY DEF TypeOK, ControlTypeOK
<1>4. ListsAreFew'
  BY DEF Credited, ListsAreFew
<1>5. ScanOK(at, pc'[s], stack'[s], job'[s].value, got[s])
  BY <1>1
<1>6. UNCHANGED filesMapData /\ \A m \in MapId : \A k \in DOMAIN maps'[m] :
         k \in DOMAIN maps[m] /\ maps'[m][k] = maps[m][k]
  OBVIOUS
<1> QED
  BY <1>2, <1>3, <1>4, <1>5, <1>6, CreditedFrame

LEMMA CreditedTop ==
    ASSUME NEW at, NEW got, NEW c, TypeOK, Credited(at, got, c), NEW s \in Scanners,
           pc[s] \notin {"idle", "next", "files"}
    PROVE  /\ stack[s] # << >> /\ stack[s] \in Seq(Calls) /\ Top(s) \in Calls
           /\ Len(stack[s]) \in Nat \ {0} /\ Len(stack[s]) \in 1 .. Len(stack[s])
           /\ stack = [stack EXCEPT ![s] = stack[s]]
           /\ ScanOK(at, pc[s], stack[s], job[s].value, got[s])
           /\ Opened(got[s], Top(s), Len(stack[s]))
<1>1. stack[s] # << >>
  BY DEF TypeOK, ControlTypeOK, At
<1>2. stack[s] \in Seq(Calls) /\ Len(stack[s]) \in Nat \ {0} /\ Top(s) \in Calls
  BY <1>1, TopType DEF TypeOK
<1>3. Len(stack[s]) \in 1 .. Len(stack[s])
  BY <1>2
<1>4. ScanOK(at, pc[s], stack[s], job[s].value, got[s])
  BY DEF Credited, ScansOK, MapsFit, Found
<1>5. Opened(got[s], Top(s), Len(stack[s]))
  BY <1>3, <1>4 DEF ScanOK, Top
<1>6. stack = [stack EXCEPT ![s] = stack[s]]
  BY DEF TypeOK, ControlTypeOK
<1> QED
  BY <1>1, <1>2, <1>3, <1>4, <1>5, <1>6

LEMMA CreditedReturnError ==
    ASSUME NEW at, NEW got, NEW c, TypeOK, Credited(at, got, c), NEW s \in Scanners,
           pc[s] \notin {"idle", "next", "files"},
           UNCHANGED <<cache, maps, filesMapData, job>>, ReturnError(s)
    PROVE  Credited(at, got, c)'
<1>1. /\ stack[s] # << >> /\ stack[s] \in Seq(Calls)
      /\ ScanOK(at, pc[s], stack[s], job[s].value, got[s])
  BY CreditedTop
<1>2. "items" \in Elsewhere \ {"files"} /\ "idle" \in Elsewhere \ {"files"}
  BY DEF Elsewhere
<1>3. CASE /\ stack' = [stack EXCEPT ![s] = SubSeq(stack[s], 1, Len(stack[s]) - 1)]
           /\ pc' = [pc EXCEPT ![s] = "items"]
  <2> DEFINE st == SubSeq(stack[s], 1, Len(stack[s]) - 1)
  <2>1. \A value : ScanOK(at, "items", st, value, got[s])
    BY <1>1, <1>2, ScanPop
  <2>2. stack' = [stack EXCEPT ![s] = st]
    BY <1>3
  <2> HIDE DEF st
  <2> QED
    BY <1>2, <1>3, <2>1, <2>2, CreditedCalls
<1>4. CASE stack' = [stack EXCEPT ![s] = << >>] /\ pc' = [pc EXCEPT ![s] = "idle"]
  <2>1. \A value : ScanOK(at, "idle", << >>, value, got[s])
    BY <1>1, <1>2, ScanNone
  <2> QED
    BY <1>2, <1>4, <2>1, CreditedCalls
<1> QED
  BY <1>3, <1>4 DEF ReturnError, Goto

(* The innermost call goes on.                                             *)
LEMMA CreditedSetTop ==
    ASSUME NEW at, NEW got, NEW c, TypeOK, Credited(at, got, c), NEW s \in Scanners,
           pc[s] \notin {"idle", "next", "files"},
           UNCHANGED <<cache, maps, filesMapData, job>>,
           NEW l \in Elsewhere \ {"files"}, Goto(s, l),
           NEW call \in Calls, Opened(got[s], call, Len(stack[s])), Same(call.dir, Top(s).dir),
           stack' = SetTop(s, call)
    PROVE  Credited(at, got, c)'
<1> DEFINE st == [stack[s] EXCEPT ![Len(stack[s])] = call]
<1>1. /\ stack[s] # << >> /\ stack[s] \in Seq(Calls)
      /\ ScanOK(at, pc[s], stack[s], job[s].value, got[s])
  BY CreditedTop
<1>2. \A value : ScanOK(at, l, st, value, got[s])
  BY <1>1, ScanTop DEF Top
<1>3. stack' = [stack EXCEPT ![s] = st] /\ pc' = [pc EXCEPT ![s] = l]
  BY DEF SetTop, Goto
<1> HIDE DEF st
<1> QED
  BY <1>2, <1>3, CreditedCalls

LEMMA CreditedFetchDir ==
    ASSUME NEW at, NEW got, NEW c, TypeOK, Credited(at, got, c), NEW s \in Scanners, FetchDir(s)
    PROVE  Credited(at, got, c)'
<1>1. /\ stack[s] # << >> /\ stack[s] \in Seq(Calls) /\ Top(s) \in Calls
      /\ Len(stack[s]) \in 1 .. Len(stack[s])
      /\ stack = [stack EXCEPT ![s] = stack[s]]
      /\ ScanOK(at, pc[s], stack[s], job[s].value, got[s])
      /\ Opened(got[s], Top(s), Len(stack[s]))
      /\ pc[s] = "enter"
  BY CreditedTop DEF FetchDir
<1>2. UNCHANGED <<cache, maps, filesMapData, job>> /\ drive \in Trees
  BY DEF FetchDir, catalogVars, TypeOK, CatalogTypeOK
<1>3. CASE ReturnError(s)
  BY <1>1, <1>2, <1>3, CreditedReturnError
<1>4. "index" \in Elsewhere \ {"files"}
  BY DEF Elsewhere
<1>5. CASE ~ReturnError(s) /\ UNCHANGED stack
  <2>1. pc' = [pc EXCEPT ![s] = "index"] /\ stack' = [stack EXCEPT ![s] = stack[s]]
    BY <1>1, <1>5 DEF FetchDir, Goto
  <2>2. \A value : ScanOK(at, "index", stack[s], value, got[s])
    BY <1>1, <1>4, ScanSame
  <2> QED
    BY <1>2, <1>4, <2>1, <2>2, CreditedCalls
<1>6. CASE ~ReturnError(s) /\ ~UNCHANGED stack
  <2>1. PICK n \in drive : /\ n.id = Top(s).dir.id
                           /\ stack' = SetTop(s, Call(FileAt(n, Top(s).dir.path)))
    BY <1>6 DEF FetchDir
  <2> DEFINE file == FileAt(n, Top(s).dir.path)
             call == Call(file)
  <2>2. call \in Calls
    <3>1. n \in Nodes /\ Top(s).dir.path \in Path
      BY <1>1, <1>2 DEF Nodes, Calls, File
    <3> QED
      BY <3>1, FileAtType, CallType, CatalogAssumption
  <2>3. call.dir = file /\ call.seen = {} /\ call.todo = {}
    BY DEF Call
  <2>4. file.id = Top(s).dir.id /\ file.path = Top(s).dir.path
    BY <2>1 DEF FileAt
  <2>5. Top(s).seen = {}
    BY <1>1 DEF ScanOK, Top
  <2> HIDE DEF call, file
  <2>6. Opened(got[s], call, Len(stack[s]))
    BY <1>1, <2>3, <2>4, <2>5 DEF Opened
  <2>7. Same(call.dir, Top(s).dir)
    BY <2>3, <2>4 DEF Same
  <2>8. Goto(s, "index") /\ stack' = SetTop(s, call)
    BY <1>6, <2>1 DEF FetchDir, call, file
  <2> QED
    BY <1>1, <1>2, <1>4, <2>2, <2>6, <2>7, <2>8, CreditedSetTop
<1> QED
  BY <1>3, <1>5, <1>6

LEMMA CreditedSaveListIndexData ==
    ASSUME NEW at, NEW got, NEW c, TypeOK, Credited(at, got, c), NEW s \in Scanners,
           SaveListIndexData(s)
    PROVE  Credited(at, got, c)'
<1>1. /\ stack = [stack EXCEPT ![s] = stack[s]]
      /\ ScanOK(at, pc[s], stack[s], job[s].value, got[s])
      /\ pc[s] = "index"
  BY CreditedTop DEF SaveListIndexData
<1>2. UNCHANGED <<cache, maps, filesMapData, job>>
  BY DEF SaveListIndexData
<1>3. CASE ReturnError(s)
  BY <1>1, <1>2, <1>3, CreditedReturnError
<1>4. CASE ~ReturnError(s)
  <2>1. pc' = [pc EXCEPT ![s] = "list"] /\ stack' = [stack EXCEPT ![s] = stack[s]]
    BY <1>1, <1>4 DEF SaveListIndexData, Goto
  <2>2. "list" \in Elsewhere \ {"files"}
    BY DEF Elsewhere
  <2>3. \A value : ScanOK(at, "list", stack[s], value, got[s])
    BY <1>1, <2>2, ScanSame
  <2> QED
    BY <1>2, <2>1, <2>2, <2>3, CreditedCalls
<1> QED
  BY <1>3, <1>4

LEMMA CreditedFileList ==
    ASSUME NEW at, FoundApart(at), NEW got, NEW c, TypeOK, Credited(at, got, c),
           NEW s \in Scanners, FileList(s)
    PROVE  Credited(at, got, c)'
<1>1. /\ stack[s] # << >> /\ Top(s) \in Calls
      /\ Opened(got[s], Top(s), Len(stack[s]))
      /\ pc[s] = "list"
  BY CreditedTop DEF FileList
<1>2. UNCHANGED <<cache, maps, filesMapData, job>> /\ drive \in Trees
  BY DEF FileList, catalogVars, TypeOK, CatalogTypeOK
<1>3. CASE ReturnError(s)
  BY <1>1, <1>2, <1>3, CreditedReturnError
<1>4. CASE ~ReturnError(s)
  <2>1. PICK page \in Pages(s) :
           stack' = SetTop(s, [Top(s) EXCEPT !.seen = @ \cup {n.id : n \in page},
                                             !.todo = page,
                                             !.more = MorePages(s, page)])
    BY <1>4 DEF FileList
  <2> DEFINE call == [Top(s) EXCEPT !.seen = @ \cup {n.id : n \in page},
                                    !.todo = page,
                                    !.more = MorePages(s, page)]
  <2>2. page \subseteq Rest(s)
    BY DEF Pages
  <2>3. /\ page \subseteq drive /\ page \subseteq Nodes
        /\ \A n \in page : n.id \notin Top(s).seen
    BY <1>2, <2>2 DEF Rest, Children, Nodes
  <2>4. {n.id : n \in page} \subseteq Ids /\ MorePages(s, page) \in BOOLEAN
    BY <2>3 DEF Ids, MorePages
  <2>5. call \in Calls
    BY <1>1, <2>3, <2>4 DEF Calls
  <2>6. /\ call.dir = Top(s).dir /\ call.todo = page
        /\ call.seen = Top(s).seen \cup {n.id : n \in page}
    BY <1>1 DEF Calls
  <2>7. Goto(s, "items") /\ "items" \in Elsewhere \ {"files"} /\ stack' = SetTop(s, call)
    BY <1>4, <2>1 DEF FileList, Elsewhere
  <2> HIDE DEF call
  <2>8. \A m, n \in page : m.id = n.id => m = n
    BY <1>2, <2>3 DEF FoundApart
  <2>9. Opened(got[s], call, Len(stack[s]))
    <3>1. \A e \in got[s] : e.parent = call.dir.id /\ e.in = makePathKey(call.dir.path) =>
             e.id \in Top(s).seen
      BY <1>1, <2>6 DEF Opened
    <3>2. \A e \in got[s] : e.parent = call.dir.id /\ e.in = makePathKey(call.dir.path) =>
             e.id \in call.seen /\ \A n \in call.todo : n.id # e.id
      BY <2>3, <2>6, <3>1
    <3> QED
      BY <1>1, <2>6, <2>8, <3>2 DEF Opened
  <2>10. Same(call.dir, Top(s).dir)
    BY <2>6 DEF Same
  <2> QED
    BY <1>1, <1>2, <2>5, <2>7, <2>9, <2>10, CreditedSetTop
<1> QED
  BY <1>3, <1>4


LEMMA CreditedListAllFile ==
    ASSUME NEW at, NEW got, NEW c, TypeOK, Credited(at, got, c), NEW s \in Scanners,
           ListAllFile(s)
    PROVE  \E got2, c2 : Credited(at, got2, c2)'
<1>1. PICK m \in MapId \ Live(filesMapData, job) :
         filesMapData' = m /\ maps' = Collected(maps, Live(m, job) \ {m})
  BY DEF ListAllFile
<1> DEFINE got2 == [got EXCEPT ![s] = {}]
           c2   == [c EXCEPT ![m] = {}]
<1>2. /\ got2 = [t \in Scanners |-> got2[t]] /\ c2 = [n \in MapId |-> c2[n]]
      /\ \A t \in Scanners : got2[t] = IF t = s THEN {} ELSE got[t]
      /\ \A n \in MapId : c2[n] = IF n = m THEN {} ELSE c[n]
  BY DEF Credited, ScansOK, MapsFit, Found
<1> HIDE DEF got2, c2
<1>3. /\ pc'[s] = "enter" /\ stack'[s] = <<Call(RootDir)>> /\ UNCHANGED <<cache, job>>
      /\ \A t \in Scanners \ {s} : pc'[t] = pc[t] /\ stack'[t] = stack[t]
  BY DEF ListAllFile, Goto, TypeOK, ControlTypeOK, catalogVars
<1>4. ASSUME NEW t \in Scanners
      PROVE  /\ ScanOK(at, pc'[t], stack'[t], job'[t].value, got2[t])
             /\ HandFits(c2, pc'[t], job'[t])
  <2>1. CASE t = s
    BY <1>2, <1>3, <2>1, ScanBegins DEF HandFits
  <2>2. CASE t # s
    <3>1. /\ ScanOK(at, pc[t], stack[t], job[t].value, got[t])
          /\ HandFits(c, pc[t], job[t])
      BY DEF Credited, ScansOK, MapsFit, Found
    <3>2. pc[t] = "append" => job[t].map \in MapId /\ job[t].map # m
      BY DEF Live, TypeOK, ControlTypeOK, At, IsJob
    <3> QED
      BY <1>2, <1>3, <2>2, <3>1, <3>2 DEF HandFits
  <2> QED
    BY <2>1, <2>2
<1>5. ASSUME NEW n \in MapId, NEW k \in DOMAIN maps'[n]
      PROVE  Fits(maps'[n][k], c2[n], makePathKey(<<k>>))
  <2>1. n # m
    BY <1>1 DEF Collected, EmptyDB
  <2>2. k \in DOMAIN maps[n] /\ maps'[n][k] = maps[n][k]
    BY <1>1, CollectedProperties
  <2>3. Fits(maps[n][k], c[n], makePathKey(<<k>>))
    BY <2>2 DEF Credited, ScansOK, MapsFit, Found
  <2> QED
    BY <1>2, <2>1, <2>2, <2>3
<1>6. ListsAreFew'
  BY <1>3 DEF Credited, ListsAreFew
<1>7. c2[filesMapData'] = {}
  BY <1>1, <1>2
<1>8. ScansOK(at, got2, c2)'
  BY <1>4 DEF ScansOK
<1>9. MapsFit(c2)'
  BY <1>5 DEF MapsFit
<1>10. Found(got2, c2[filesMapData])'
  BY <1>7 DEF Found
<1>11. Credited(at, got2, c2)'
  BY <1>2, <1>6, <1>8, <1>9, <1>10 DEF Credited
<1> QED
  BY <1>11

LEMMA CreditedLoadSlice ==
    ASSUME NEW at, FoundApart(at), NEW got, NEW c, TypeOK, AllAt(at), Credited(at, got, c),
           NEW s \in Scanners, LoadSlice(s)
    PROVE  \E got2, c2 : Credited(at, got2, c2)'
<1> DEFINE path == Top(s).dir.path
           key  == MapKey(path)
           own  == makePathKey(<<key>>)
           m    == filesMapData
           old  == Slice(m, key)
<1>1. /\ stack[s] \in Seq(Calls) /\ stack[s] # << >>
      /\ Top(s) \in Calls /\ CallAt(at, Top(s))
      /\ ScanOK(at, pc[s], stack[s], job[s].value, got[s])
  BY TopAt, CreditedTop DEF LoadSlice
<1>2. PICK n \in Top(s).todo :
         /\ job' = [job EXCEPT ![s] = Job(m, key,
                      Append(old, FileAt(n, Append(path, n.name))), {}, {})]
         /\ stack' = SetTop(s, [Top(s) EXCEPT !.todo = @ \ {n}])
  BY DEF LoadSlice
<1> DEFINE item  == FileAt(n, Append(path, n.name))
           call  == [Top(s) EXCEPT !.todo = @ \ {n}]
           value == Append(old, item)
           new   == Finding(n, path)
           got2  == [got EXCEPT ![s] = got[s] \cup {new}]
           more  == c[m] \cup {<<s, n.id, own>>}
           c2    == [c EXCEPT ![m] = more]
           st    == [stack[s] EXCEPT ![Len(stack[s])] = call]
<1>3. n \in Nodes /\ path \in Path /\ path \in at[n.parent] /\ n.parent = Top(s).dir.id
  BY <1>1 DEF Calls, File, CallAt
<1>4. item \in File /\ item.id = n.id
  BY <1>3, ItemType, CatalogAssumption DEF FileAt
<1>5. call \in Calls
  BY <1>1 DEF Calls
<1>6. m \in MapId /\ old \in Seq(File)
  BY SliceType DEF TypeOK, HeapTypeOK
<1>7. own = makePathKey(path)
  BY ListingKey
<1>8. value[Len(value)] = item
  BY <1>4, <1>6, AppendProperties
<1>9. new.id = n.id /\ new.in = own
  BY <1>7 DEF Finding
<1>10. /\ \A e \in got[s] : ~(e.id = new.id /\ e.in = new.in)
       /\ ScanOK(at, "append", st, value, got[s] \cup {new})
  BY <1>1, <1>3, <1>5, <1>8, ScanFinds DEF Top
<1>11. /\ job'[s].key = key /\ job'[s].value = value /\ job'[s].map = m
       /\ pc'[s] = "append" /\ stack'[s] = st
       /\ UNCHANGED <<cache, maps, filesMapData>>
       /\ \A t \in Scanners \ {s} :
             pc'[t] = pc[t] /\ job'[t] = job[t] /\ stack'[t] = stack[t]
  BY <1>2 DEF LoadSlice, Job, Goto, SetTop, TypeOK, ControlTypeOK, catalogVars
<1>12. \A t \in Scanners : \A id, w : <<t, id, w>> \in c[m] =>
          \E e \in got[t] : e.id = id /\ e.in = w
  BY DEF Credited, ScansOK, MapsFit, Found
<1> HIDE DEF value, call, st, new
<1>23. <<s, n.id, own>> \notin c[m]
  <2> HIDE DEF own
  <2> QED
    BY <1>9, <1>10, <1>12
<1> HIDE DEF key, path
<1>13. Fits(old, c[m], own)
  <2>1. key \in DOMAIN maps[m] => Fits(old, c[m], own)
    BY <1>6 DEF Credited, MapsFit, Slice
  <2>2. key \notin DOMAIN maps[m] => Fits(old, c[m], own)
    BY FitsNone DEF Slice
  <2> QED
    BY <2>1, <2>2
<1> HIDE DEF old, own, item
<1>14. Fits(value, more, own)
  <2>1. Fits(Append(old, item), c[m] \cup {<<s, item.id, own>>}, own)
    BY <1>4, <1>6, <1>23, <1>13, FitsAppend
  <2> QED
    BY <1>4, <2>1 DEF value
<1>15. c[m] \subseteq more
  OBVIOUS
<1>16. /\ got2 = [t \in Scanners |-> got2[t]] /\ c2 = [k \in MapId |-> c2[k]]
       /\ \A t \in Scanners : got2[t] = IF t = s THEN got[s] \cup {new} ELSE got[t]
       /\ \A k \in MapId : c2[k] = IF k = m THEN more ELSE c[k]
  BY DEF Credited, ScansOK, MapsFit, Found
<1>24. PICK g, d :
          /\ g = [t \in Scanners |-> g[t]] /\ d = [k \in MapId |-> d[k]]
          /\ \A t \in Scanners : g[t] = IF t = s THEN got[s] \cup {new} ELSE got[t]
          /\ \A k \in MapId : d[k] = IF k = m THEN more ELSE c[k]
  <2> HIDE DEF got2, c2, more, new
  <2> QED
    BY <1>16
<1> HIDE DEF got2, c2
<1>17. ASSUME NEW list \in Seq(File), NEW k \in MapId, NEW w, Fits(list, c[k], w)
       PROVE  Fits(list, d[k], w)
  BY <1>15, <1>24, <1>17, FitsMore
<1>18. ASSUME NEW t \in Scanners
       PROVE  /\ ScanOK(at, pc'[t], stack'[t], job'[t].value, g[t])
              /\ HandFits(d, pc'[t], job'[t])
  <2>1. CASE t = s
    BY <1>6, <1>10, <1>11, <1>14, <1>24, <2>1 DEF HandFits, own
  <2>2. CASE t # s
    <3>1. /\ ScanOK(at, pc[t], stack[t], job[t].value, got[t])
          /\ HandFits(c, pc[t], job[t])
      BY DEF Credited, ScansOK, MapsFit, Found
    <3>2. pc[t] = "append" => job[t].map \in MapId /\ job[t].value \in Seq(File)
      BY DEF TypeOK, ControlTypeOK, At, IsJob
    <3>3. HandFits(d, pc[t], job[t])
      BY <1>17, <3>1, <3>2 DEF HandFits
    <3> QED
      BY <1>11, <1>24, <2>2, <3>1, <3>3
  <2> QED
    BY <2>1, <2>2
<1>19. ASSUME NEW h \in MapId, NEW k \in DOMAIN maps'[h]
       PROVE  Fits(maps'[h][k], d[h], makePathKey(<<k>>))
  <2>1. Fits(maps[h][k], c[h], makePathKey(<<k>>)) /\ maps[h][k] \in Seq(File)
    BY <1>11 DEF Credited, MapsFit, TypeOK, HeapTypeOK
  <2> QED
    BY <1>11, <1>17, <2>1
<1>20. ListsAreFew'
  BY <1>11 DEF Credited, ListsAreFew
<1>21. ASSUME NEW t \in Scanners, NEW id, NEW w, <<t, id, w>> \in d[filesMapData']
       PROVE  \E e \in g[t] : e.id = id /\ e.in = w
  <2>1. <<t, id, w>> \in c[m] \/ <<t, id, w>> = <<s, n.id, own>>
    BY <1>6, <1>11, <1>24, <1>21
  <2>2. CASE <<t, id, w>> \in c[m]
    BY <1>12, <1>24, <2>2
  <2>3. CASE <<t, id, w>> = <<s, n.id, own>>
    BY <1>9, <1>24, <2>3
  <2> QED
    BY <2>1, <2>2, <2>3
<1> HIDE DEF m, more
<1>22. Credited(at, g, d)'
  <2>1. ScansOK(at, g, d)'
    BY <1>18 DEF ScansOK
  <2>2. MapsFit(d)'
    BY <1>19 DEF MapsFit
  <2>3. Found(g, d[filesMapData])'
    BY <1>21 DEF Found
  <2> QED
    BY <1>24, <1>20, <2>1, <2>2, <2>3 DEF Credited
<1> QED
  BY <1>22


LEMMA CreditedStoreSlice ==
    ASSUME NEW at, NEW got, NEW c, TypeOK, Credited(at, got, c), NEW s \in Scanners,
           StoreSlice(s)
    PROVE  Credited(at, got, c)'
<1> DEFINE j    == job[s]
           item == j.value[Len(j.value)]
           heap == [maps EXCEPT ![j.map] = Put(@, j.key, j.value)]
<1>1. /\ stack[s] # << >> /\ stack[s] \in Seq(Calls)
      /\ ScanOK(at, "append", stack[s], j.value, got[s])
      /\ pc[s] = "append"
  BY CreditedTop DEF StoreSlice
<1>2. /\ j.map \in MapId /\ j.value \in Seq(File) /\ j.value # << >>
      /\ Fits(j.value, c[j.map], makePathKey(<<j.key>>))
  BY <1>1 DEF TypeOK, ControlTypeOK, At, IsJob, Credited, ScansOK, HandFits
<1>3. item \in File
  BY <1>2, EmptySeq, ElementOfSeq
<1>4. /\ maps' = Collected(heap, Live(filesMapData, job')) /\ UNCHANGED <<cache, filesMapData>>
      /\ \A t \in Scanners \ {s} :
            pc'[t] = pc[t] /\ job'[t] = job[t] /\ stack'[t] = stack[t]
  BY DEF StoreSlice, Goto, TypeOK, ControlTypeOK, catalogVars
<1>5. \/ item.dir /\ pc'[s] = "enter" /\ stack'[s] = Append(stack[s], Call(item))
      \/ pc'[s] = "items" /\ stack'[s] = stack[s]
  BY DEF StoreSlice, Goto, TypeOK, ControlTypeOK
<1>6. ScanOK(at, pc'[s], stack'[s], job'[s].value, got[s])
  <2>1. CASE item.dir /\ pc'[s] = "enter" /\ stack'[s] = Append(stack[s], Call(item))
    BY <1>1, <1>3, <2>1, ScanPush
  <2>2. CASE pc'[s] = "items" /\ stack'[s] = stack[s]
    <3>1. "items" \in Elsewhere
      BY DEF Elsewhere
    <3> QED
      BY <1>1, <2>2, <3>1, ScanSame
  <2> QED
    BY <1>5, <2>1, <2>2
<1>7. HandFits(c, pc'[s], job'[s])
  BY <1>5 DEF HandFits
<1>8. ASSUME NEW t \in Scanners
      PROVE  ScanOK(at, pc'[t], stack'[t], job'[t].value, got[t]) /\ HandFits(c, pc'[t], job'[t])
  <2>1. CASE t = s
    BY <1>6, <1>7, <2>1
  <2>2. CASE t # s
    BY <1>4, <2>2 DEF Credited, ScansOK
  <2> QED
    BY <2>1, <2>2
<1>9. ASSUME NEW m \in MapId, NEW k \in DOMAIN heap[m]
      PROVE  Fits(heap[m][k], c[m], makePathKey(<<k>>))
  <2>1. CASE m = j.map /\ k = j.key
    <3>1. heap[m][k] = j.value
      BY <2>1 DEF TypeOK, HeapTypeOK, Put
    <3> QED
      BY <1>2, <2>1, <3>1
  <2>2. CASE ~(m = j.map /\ k = j.key)
    <3>1. k \in DOMAIN maps[m] /\ heap[m][k] = maps[m][k]
      BY <1>2, <2>2 DEF TypeOK, HeapTypeOK, Put
    <3> QED
      BY <3>1 DEF Credited, MapsFit
  <2> QED
    BY <2>1, <2>2
<1> HIDE DEF heap
<1>10. ASSUME NEW m \in MapId, NEW k \in DOMAIN maps'[m]
       PROVE  Fits(maps'[m][k], c[m], makePathKey(<<k>>))
  <2>1. k \in DOMAIN heap[m] /\ maps'[m][k] = heap[m][k]
    BY <1>4, CollectedProperties
  <2> QED
    BY <1>9, <2>1
<1>11. ScansOK(at, got, c)'
  BY <1>8 DEF ScansOK
<1>12. MapsFit(c)'
  BY <1>10 DEF MapsFit
<1>13. ListsAreFew' /\ Found(got, c[filesMapData])'
  BY <1>4 DEF Credited, ListsAreFew
<1> QED
  BY <1>11, <1>12, <1>13 DEF Credited

LEMMA CreditedEndPage ==
    ASSUME NEW at, NEW got, NEW c, TypeOK, Credited(at, got, c), NEW s \in Scanners,
           EndPage(s)
    PROVE  Credited(at, got, c)'
<1>1. /\ stack[s] # << >> /\ stack[s] \in Seq(Calls)
      /\ stack = [stack EXCEPT ![s] = stack[s]]
      /\ ScanOK(at, pc[s], stack[s], job[s].value, got[s])
  BY CreditedTop DEF EndPage
<1>2. "list" \in Elsewhere \ {"files"} /\ "items" \in Elsewhere \ {"files"}
      /\ "next" \in Elsewhere \ {"files"}
  BY DEF Elsewhere
<1>3. UNCHANGED <<cache, maps, filesMapData>> /\ \A t \in Scanners \ {s} : job'[t] = job[t]
  BY DEF EndPage, catalogVars, TypeOK, ControlTypeOK
<1>4. \/ pc' = [pc EXCEPT ![s] = "list"] /\ stack' = [stack EXCEPT ![s] = stack[s]]
      \/ /\ pc' = [pc EXCEPT ![s] = "items"]
         /\ stack' = [stack EXCEPT ![s] = SubSeq(stack[s], 1, Len(stack[s]) - 1)]
      \/ pc' = [pc EXCEPT ![s] = "next"] /\ stack' = [stack EXCEPT ![s] = << >>]
  <2>1. pc = [pc EXCEPT ![s] = pc[s]]
    BY DEF TypeOK, ControlTypeOK
  <2> QED
    BY <1>1, <2>1 DEF EndPage, Goto
<1>5. \A value : ScanOK(at, "list", stack[s], value, got[s])
  BY <1>1, <1>2, ScanSame
<1>6. \A value : ScanOK(at, "next", << >>, value, got[s])
  BY <1>1, <1>2, ScanNone
<1> DEFINE st == SubSeq(stack[s], 1, Len(stack[s]) - 1)
<1>7. \A value : ScanOK(at, "items", st, value, got[s])
  BY <1>1, <1>2, ScanPop
<1>8. CASE pc' = [pc EXCEPT ![s] = "list"] /\ stack' = [stack EXCEPT ![s] = stack[s]]
  BY <1>2, <1>3, <1>5, <1>8, CreditedCalls
<1>9. CASE pc' = [pc EXCEPT ![s] = "items"] /\ stack' = [stack EXCEPT ![s] = st]
  <2> HIDE DEF st
  <2> QED
    BY <1>2, <1>3, <1>7, <1>9, CreditedCalls
<1>10. CASE pc' = [pc EXCEPT ![s] = "next"] /\ stack' = [stack EXCEPT ![s] = << >>]
  BY <1>2, <1>3, <1>6, <1>10, CreditedCalls
<1> QED
  BY <1>4, <1>8, <1>9, <1>10

LEMMA CreditedNextKey ==
    ASSUME NEW at, NEW got, NEW c, TypeOK, Credited(at, got, c), NEW s \in Scanners,
           NextKey(s)
    PROVE  Credited(at, got, c)'
<1>1. PICK key \in DOMAIN maps[job[s].map] : job'[s].value = maps[job[s].map][key]
  BY DEF TypeOK, ControlTypeOK, NextKey, Job
<1>2. job[s].map \in MapId
  BY DEF TypeOK, ControlTypeOK, At, IsJob, NextKey
<1>3. /\ pc'[s] = "files" /\ stack'[s] = stack[s]
      /\ UNCHANGED <<cache, maps, filesMapData>>
      /\ \A t \in Scanners \ {s} :
            pc'[t] = pc[t] /\ job'[t] = job[t] /\ stack'[t] = stack[t]
  BY DEF TypeOK, ControlTypeOK, NextKey, Goto, catalogVars
<1>4. HandFits(c, pc'[s], job'[s])
  <2>1. Fits(job'[s].value, c[job[s].map], makePathKey(<<key>>)) /\ job'[s].value \in Seq(File)
    BY <1>1, <1>2 DEF Credited, MapsFit, TypeOK, HeapTypeOK
  <2> QED
    BY <1>3, <2>1, FitsFew DEF HandFits
<1>5. ScanOK(at, pc'[s], stack'[s], job'[s].value, got[s])
  <2>1. "files" \in Elsewhere
    BY DEF Elsewhere
  <2>2. ScanOK(at, pc[s], stack[s], job[s].value, got[s])
    BY DEF Credited, ScansOK
  <2> QED
    BY <1>3, <2>1, <2>2, ScanSame
<1>6. ListsAreFew'
  BY <1>3 DEF Credited, ListsAreFew
<1>7. \A m \in MapId : \A k \in DOMAIN maps'[m] :
         k \in DOMAIN maps[m] /\ maps'[m][k] = maps[m][k]
  BY <1>3
<1>8. UNCHANGED filesMapData
  BY <1>3
<1> QED
  BY <1>3, <1>4, <1>5, <1>6, <1>7, <1>8, CreditedFrame


(* A record is written, of a file or of a listing.                         *)
LEMMA FewPut ==
    ASSUME ListsAreFew, NEW key, NEW rec, Few(rec.list),
           UNCHANGED cache \/ cache' = Put(cache, key, rec)
    PROVE  ListsAreFew'
<1>1. CASE UNCHANGED cache
  BY <1>1 DEF ListsAreFew
<1>2. CASE cache' = Put(cache, key, rec)
  BY <1>2 DEF ListsAreFew, Put
<1> QED
  BY <1>1, <1>2

LEMMA CreditedPutItem ==
    ASSUME NEW at, NEW got, NEW c, TypeOK, Credited(at, got, c), NEW s \in Scanners,
           PutItem(s)
    PROVE  Credited(at, got, c)'
<1> DEFINE item == job[s].value[job[s].pos]
<1>1. /\ pc[s] = "files" /\ UNCHANGED <<maps, filesMapData, pc, stack>>
      /\ job'[s].value = job[s].value
      /\ \A t \in Scanners \ {s} : job'[t] = job[t]
  BY DEF TypeOK, ControlTypeOK, At, IsJob, PutItem
<1>2. Few(FileRecord(item).list)
  BY FitsNone DEF FileRecord
<1>3. UNCHANGED cache \/ cache' = Put(cache, makePathKey(item.path), FileRecord(item))
  BY DEF PutItem, ItemKey
<1> HIDE DEF item
<1>4. ListsAreFew'
  BY <1>2, <1>3, FewPut DEF Credited
<1>5. ScanOK(at, pc'[s], stack'[s], job'[s].value, got[s]) /\ HandFits(c, pc'[s], job'[s])
  BY <1>1 DEF Credited, ScansOK, HandFits
<1>6. \A t \in Scanners \ {s} : pc'[t] = pc[t] /\ job'[t] = job[t] /\ stack'[t] = stack[t]
  BY <1>1
<1>7. \A m \in MapId : \A k \in DOMAIN maps'[m] :
         k \in DOMAIN maps[m] /\ maps'[m][k] = maps[m][k]
  BY <1>1
<1>8. UNCHANGED filesMapData
  BY <1>1
<1> QED
  BY <1>4, <1>5, <1>6, <1>7, <1>8, CreditedFrame

LEMMA CreditedPutListing ==
    ASSUME NEW at, NEW got, NEW c, TypeOK, Credited(at, got, c), NEW s \in Scanners,
           PutListing(s)
    PROVE  Credited(at, got, c)'
<1>1. /\ pc[s] = "files" /\ pc'[s] = "next" /\ UNCHANGED <<maps, filesMapData, stack>>
      /\ \A t \in Scanners \ {s} : pc'[t] = pc[t] /\ job'[t] = job[t]
  BY DEF TypeOK, ControlTypeOK, PutListing, Goto
<1>2. Few(ListRecord(job[s].value).list)
  BY <1>1 DEF Credited, ScansOK, HandFits, ListRecord
<1>3. UNCHANGED cache \/ cache' = Put(cache, makePathKey(<<job[s].key>>), ListRecord(job[s].value))
  BY DEF PutListing
<1>4. ListsAreFew'
  BY <1>2, <1>3, FewPut DEF Credited
<1>5. ScanOK(at, pc'[s], stack'[s], job'[s].value, got[s])
  <2>1. "next" \in Elsewhere
    BY DEF Elsewhere
  <2>2. ScanOK(at, pc[s], stack[s], job[s].value, got[s])
    BY DEF Credited, ScansOK
  <2> QED
    BY <1>1, <2>1, <2>2, ScanSame
<1>6. HandFits(c, pc'[s], job'[s])
  BY <1>1 DEF HandFits
<1>7. \A t \in Scanners \ {s} : pc'[t] = pc[t] /\ job'[t] = job[t] /\ stack'[t] = stack[t]
  BY <1>1
<1>8. \A m \in MapId : \A k \in DOMAIN maps'[m] :
         k \in DOMAIN maps[m] /\ maps'[m][k] = maps[m][k]
  BY <1>1
<1>9. UNCHANGED filesMapData
  BY <1>1
<1> QED
  BY <1>4, <1>5, <1>6, <1>7, <1>8, <1>9, CreditedFrame

LEMMA CreditedEndRange ==
    ASSUME NEW at, NEW got, NEW c, TypeOK, Credited(at, got, c), NEW s \in Scanners,
           EndRange(s)
    PROVE  Credited(at, got, c)'
<1>1. \A m \in MapId : \A k \in DOMAIN maps'[m] :
         k \in DOMAIN maps[m] /\ maps'[m][k] = maps[m][k]
  BY CollectedProperties DEF EndRange
<1>2. /\ UNCHANGED <<cache, filesMapData, stack>> /\ pc'[s] = "idle"
      /\ \A t \in Scanners \ {s} : pc'[t] = pc[t] /\ job'[t] = job[t]
  BY DEF TypeOK, ControlTypeOK, EndRange, Goto, catalogVars
<1>3. ListsAreFew'
  BY <1>2 DEF Credited, ListsAreFew
<1>4. ScanOK(at, pc'[s], stack'[s], job'[s].value, got[s])
  <2>1. "idle" \in Elsewhere
    BY DEF Elsewhere
  <2>2. ScanOK(at, pc[s], stack[s], job[s].value, got[s])
    BY DEF Credited, ScansOK
  <2> QED
    BY <1>2, <2>1, <2>2, ScanSame
<1>5. HandFits(c, pc'[s], job'[s])
  BY <1>2 DEF HandFits
<1>6. \A t \in Scanners \ {s} : pc'[t] = pc[t] /\ job'[t] = job[t] /\ stack'[t] = stack[t]
  BY <1>2
<1>7. UNCHANGED filesMapData
  BY <1>2
<1> QED
  BY <1>1, <1>3, <1>4, <1>5, <1>6, <1>7, CreditedFrame


(* A process that has just begun has found and added nothing.              *)
LEMMA CreditedFresh ==
    ASSUME NEW at, ListsAreFew,
           maps = [m \in MapId |-> EmptyDB], filesMapData = 1,
           pc = [s \in Scanners |-> "idle"], stack = [s \in Scanners |-> << >>]
    PROVE  \E got, c : Credited(at, got, c)
<1> DEFINE got == [s \in Scanners |-> {}]
           c   == [m \in MapId |-> {}]
<1>1. /\ got = [s \in Scanners |-> got[s]] /\ c = [m \in MapId |-> c[m]]
      /\ \A s \in Scanners : got[s] = {}
      /\ c[filesMapData] = {}
  BY MapIdType, ScanAssumption
<1> HIDE DEF got, c
<1>2. ASSUME NEW s \in Scanners
      PROVE  ScanOK(at, pc[s], stack[s], job[s].value, got[s]) /\ HandFits(c, pc[s], job[s])
  <2>1. 1 .. Len(<< >>) = {} /\ pc[s] = "idle" /\ stack[s] = << >>
    OBVIOUS
  <2> QED
    BY <1>1, <2>1 DEF ScanOK, HandFits
<1>3. ScansOK(at, got, c)
  BY <1>2 DEF ScansOK
<1>4. MapsFit(c)
  BY DEF MapsFit, EmptyDB
<1>5. Found(got, c[filesMapData])
  BY <1>1 DEF Found
<1>6. Credited(at, got, c)
  BY <1>1, <1>3, <1>4, <1>5 DEF Credited
<1> QED
  BY <1>6

LEMMA CreditedInit == ASSUME NEW at, Init PROVE \E got, c : Credited(at, got, c)
<1>1. ListsAreFew
  BY DEF Init, CatalogInit, EmptyDB, ListsAreFew
<1> QED
  BY <1>1, CreditedFresh DEF Init, Fresh

LEMMA CreditedCrash ==
    ASSUME NEW at, ListsAreFew, Crash
    PROVE  (\E got, c : Credited(at, got, c))'
<1>1. ListsAreFew'
  BY DEF Crash, ListsAreFew
<1> DEFINE got == [s \in Scanners |-> {}]
           c   == [m \in MapId |-> {}]
<1>2. /\ got = [s \in Scanners |-> got[s]] /\ c = [m \in MapId |-> c[m]]
      /\ \A s \in Scanners : got[s] = {}
      /\ c[filesMapData'] = {}
  BY MapIdType, ScanAssumption DEF Crash
<1> HIDE DEF got, c
<1>3. ASSUME NEW s \in Scanners
      PROVE  ScanOK(at, pc'[s], stack'[s], job'[s].value, got[s]) /\ HandFits(c, pc'[s], job'[s])
  <2>1. 1 .. Len(<< >>) = {} /\ pc'[s] = "idle" /\ stack'[s] = << >>
    BY DEF Crash
  <2> QED
    BY <1>2, <2>1 DEF ScanOK, HandFits
<1>4. ScansOK(at, got, c)'
  BY <1>3 DEF ScansOK
<1>5. MapsFit(c)'
  BY DEF MapsFit, EmptyDB, Crash
<1>6. Found(got, c[filesMapData])'
  BY <1>2 DEF Found
<1>7. Credited(at, got, c)'
  BY <1>1, <1>2, <1>4, <1>5, <1>6 DEF Credited
<1> QED
  BY <1>7

LEMMA CreditedStep ==
    ASSUME NEW at, FoundApart(at), TypeOK, AllAt(at), \E got, c : Credited(at, got, c),
           [Next]_vars
    PROVE  (\E got, c : Credited(at, got, c))'
<1>1. PICK got, c : Credited(at, got, c)
  OBVIOUS
<1>2. ASSUME NEW s \in Scanners, Step(s) PROVE \E g, d : Credited(at, g, d)'
  BY <1>1, <1>2, CreditedListAllFile, CreditedFetchDir, CreditedSaveListIndexData,
     CreditedFileList, CreditedLoadSlice, CreditedStoreSlice, CreditedEndPage,
     CreditedNextKey, CreditedPutItem, CreditedPutListing, CreditedEndRange DEF Step
<1>3. ASSUME NEW s \in Scanners, CallFails(s) PROVE Credited(at, got, c)'
  <2>1. /\ pc[s] \notin {"idle", "next", "files"}
        /\ UNCHANGED <<cache, maps, filesMapData, job>> /\ ReturnError(s)
    BY <1>3 DEF CallFails
  <2> QED
    BY <1>1, <2>1, CreditedReturnError
<1>4. CASE Crash
  BY <1>1, <1>4, CreditedCrash DEF Credited
<1>5. CASE UNCHANGED <<cache, maps, filesMapData, pc, stack, job>>
  <2>1. ScansOK(at, got, c)' /\ MapsFit(c)' /\ ListsAreFew' /\ Found(got, c[filesMapData])'
    BY <1>1, <1>5 DEF Credited, ScansOK, MapsFit, ListsAreFew
  <2>2. Credited(at, got, c)'
    BY <1>1, <2>1 DEF Credited
  <2> QED
    BY <2>2
<1>6. (DriveChanges /\ UNCHANGED scanVars) \/ UNCHANGED vars =>
         UNCHANGED <<cache, maps, filesMapData, pc, stack, job>>
  BY DEF DriveChanges, vars, scanVars, catalogVars
<1> QED
  BY <1>2, <1>3, <1>4, <1>5, <1>6 DEF Next, ScanNext

LEMMA TwiceIf == ASSUME TypeOK, ListsAreFew PROVE NoScanListsTwice
<1> SUFFICES ASSUME NEW k \in DOMAIN cache, NEW i \in 1 .. Len(cache[k].list)
             PROVE  Cardinality(Occurrences(cache[k].list, cache[k].list[i].id))
                       <= Cardinality(Scanners)
  BY DEF NoScanListsTwice
<1>1. cache[k].list \in Seq(File)
  BY DEF TypeOK, CatalogTypeOK, Record
<1>2. cache[k].list[i] \in File
  BY <1>1, ElementOfSeq
<1>3. cache[k].list[i].id \in Ids
  BY <1>2 DEF File
<1> QED
  BY <1>3 DEF ListsAreFew, Few

(* However many scans run at once, fail, are killed and begin again, and   *)
(* whatever changes while they read the folders page by page, each adds an *)
(* item to a listing once at most (append in GetFileList, list.go).        *)
THEOREM NoScanListsItemsTwice ==
    ASSUME NEW CONSTANT at, Reach(at), FoundApart(at)
    PROVE  Spec => []NoScanListsTwice
<1> DEFINE Inv == \E got, c : Credited(at, got, c)
<1>1. Init => AllAt(at) /\ Inv
  BY AtInit, CreditedInit
<1>2. TypeOK /\ AllAt(at) /\ Inv /\ [Next]_vars => (AllAt(at) /\ Inv)'
  BY AtStep, CreditedStep
<1>3. TypeOK /\ Inv => NoScanListsTwice
  BY TwiceIf DEF Credited
<1> HIDE DEF Inv
<1> QED
  BY <1>1, <1>2, <1>3, TypeCorrect, PTL DEF Spec

-----------------------------------------------------------------------------
(***************************************************************************)
(* Trees and their paths.                                                  *)
(***************************************************************************)

LEMMA TreeNodes ==
    ASSUME NEW tree \in Trees
    PROVE  \A n \in tree : n \in Nodes /\ n.id # RootId /\ n.name \in Names
BY CatalogAssumption DEF CatalogAssumption, Nodes, Names

(* Paths relates each item of a tree to the path or paths it can be        *)
(* reached by: it is the least relation that has the root and goes from a  *)
(* folder to what is in it.                                                *)
Reached(tree) == ItemIds(tree) \X Path
Closed(tree, R) ==
    /\ <<RootId, <<RootName>>>> \in R
    /\ \A n \in tree : \A p \in Path :
          <<n.parent, p>> \in R => <<n.id, Append(p, n.name)>> \in R
Paths(tree) ==
    {x \in Reached(tree) : \A R \in SUBSET Reached(tree) : Closed(tree, R) => x \in R}
HasOnePath(tree, i) ==
    \E p \in Path : \A q : <<i, q>> \in Paths(tree) <=> q = p

LEMMA PathsClosed ==
    ASSUME NEW tree \in Trees
    PROVE  /\ Closed(tree, Paths(tree))
           /\ \A R \in SUBSET Reached(tree) : Closed(tree, R) => Paths(tree) \subseteq R
<1>1. <<RootName>> \in Path /\ RootId \in ItemIds(tree)
  BY DEF Path, ItemIds
<1>2. ASSUME NEW n \in tree, NEW p \in Path, <<n.parent, p>> \in Paths(tree)
      PROVE  <<n.id, Append(p, n.name)>> \in Paths(tree)
  <2>1. n.id \in ItemIds(tree) /\ Append(p, n.name) \in Path
    <3>1. n.name \in Names \cup {RootName}
      BY TreeNodes
    <3> QED
      BY <3>1, AppendProperties DEF Path, ItemIds
  <2> QED
    BY <1>2, <2>1 DEF Paths, Reached, Closed
<1> QED
  BY <1>1, <1>2 DEF Paths, Reached, Closed

(* A pair that no step leads to is not there: the rest is closed as well.  *)
Follows(tree, i, q) ==
    \/ i = RootId /\ q = <<RootName>>
    \/ \E n \in tree : \E p \in Path :
          n.id = i /\ <<n.parent, p>> \in Paths(tree) /\ q = Append(p, n.name)

LEMMA PathsFollow ==
    ASSUME NEW tree \in Trees, NEW i, NEW q, <<i, q>> \in Paths(tree)
    PROVE  Follows(tree, i, q)
<1> SUFFICES ASSUME ~Follows(tree, i, q) PROVE FALSE
  OBVIOUS
<1> DEFINE R == Paths(tree) \ {<<i, q>>}
<1>1. R \in SUBSET Reached(tree)
  BY DEF Paths
<1>2. Closed(tree, R)
  BY PathsClosed DEF Closed, Follows
<1> QED
  BY <1>1, <1>2, PathsClosed

LEMMA ChildHasOnePath ==
    ASSUME NEW tree \in Trees, ProperTree(tree), NEW n \in tree,
           HasOnePath(tree, n.parent)
    PROVE  HasOnePath(tree, n.id)
<1>1. PICK p \in Path : \A q : <<n.parent, q>> \in Paths(tree) <=> q = p
  BY DEF HasOnePath
<1>2. <<n.id, Append(p, n.name)>> \in Paths(tree)
  BY <1>1, PathsClosed DEF Closed
<1>3. Append(p, n.name) \in Path
  BY <1>2 DEF Paths, Reached
<1>4. ASSUME NEW q, <<n.id, q>> \in Paths(tree)
      PROVE  q = Append(p, n.name)
  <2>1. PICK m \in tree, r \in Path :
           m.id = n.id /\ <<m.parent, r>> \in Paths(tree) /\ q = Append(r, m.name)
    <3>1. n.id # RootId
      BY TreeNodes
    <3>2. Follows(tree, n.id, q)
      BY <1>4, PathsFollow
    <3> QED
      BY <3>1, <3>2 DEF Follows
  <2>2. m = n
    BY <2>1 DEF ProperTree
  <2> QED
    BY <1>1, <2>1, <2>2
<1> QED
  BY <1>2, <1>3, <1>4 DEF HasOnePath

LEMMA EachHasOnePath ==
    ASSUME NEW tree \in Trees, ProperTree(tree)
    PROVE  \A i \in ItemIds(tree) : HasOnePath(tree, i)
<1>1. HasOnePath(tree, RootId)
  <2>1. <<RootName>> \in Path /\ <<RootId, <<RootName>>>> \in Paths(tree)
    BY PathsClosed DEF Closed, Path
  <2>2. ASSUME NEW q, <<RootId, q>> \in Paths(tree) PROVE q = <<RootName>>
    <3>1. \A n \in tree : n.id # RootId
      BY TreeNodes
    <3>2. Follows(tree, RootId, q)
      BY <2>2, PathsFollow
    <3> QED
      BY <3>1, <3>2 DEF Follows
  <2> QED
    BY <2>1, <2>2 DEF HasOnePath
<1> DEFINE dirs == {n \in tree : n.dir}
           bad  == {n \in dirs : ~HasOnePath(tree, n.id)}
<1>2. bad = {}
  <2> SUFFICES ASSUME bad # {} PROVE FALSE
    OBVIOUS
  <2>1. PICK n \in bad : \A m \in bad : n.parent # m.id
    BY DEF ProperTree
  <2>2. n.parent = RootId \/ \E m \in dirs : n.parent = m.id
    BY DEF ProperTree, Folders
  <2>3. HasOnePath(tree, n.parent)
    BY <1>1, <2>1, <2>2
  <2> QED
    BY <2>3, ChildHasOnePath
<1>3. \A n \in tree : HasOnePath(tree, n.parent)
  BY <1>1, <1>2 DEF ProperTree, Folders
<1> QED
  BY <1>1, <1>3, ChildHasOnePath DEF ItemIds

(* The path of an item is that of its folder and its name: the equation    *)
(* that defines PathOf has a solution.                                     *)
LEMMA PathOfItem ==
    ASSUME NEW tree \in Trees, ProperTree(tree)
    PROVE  /\ PathOf(tree, RootId) = <<RootName>>
           /\ \A n \in tree : PathOf(tree, n.id) = Append(PathOf(tree, n.parent), n.name)
<1> DEFINE ids     == ItemIds(tree)
           node(i) == CHOOSE x \in tree : x.id = i
           one(i)  == CHOOSE p : <<i, p>> \in Paths(tree)
           E(f) == f = [i \in ids |-> IF i = RootId THEN <<RootName>>
                                      ELSE Append(f[node(i).parent], node(i).name)]
           F == CHOOSE f : E(f)
           g == [i \in ids |-> one(i)]
<1>1. \A n \in tree : /\ n.id \in ids /\ n.parent \in ids /\ n.id # RootId
                      /\ node(n.id) = n
  BY TreeNodes DEF ProperTree, Folders, ItemIds
<1>2. RootId \in ids /\ \A i \in ids : i = RootId \/ \E n \in tree : n.id = i
  BY DEF ItemIds
<1>3. \A i : PathOf(tree, i) = F[i]
  BY DEF PathOf
<1>4. ASSUME NEW i \in ids
      PROVE  one(i) \in Path /\ \A q : <<i, q>> \in Paths(tree) <=> q = one(i)
  <2>1. PICK p \in Path : \A q : <<i, q>> \in Paths(tree) <=> q = p
    <3>1. HasOnePath(tree, i)
      BY EachHasOnePath
    <3> QED
      BY <3>1 DEF HasOnePath
  <2>2. one(i) = p
    BY <2>1
  <2> QED
    BY <2>1, <2>2
<1> HIDE DEF one, ids, node
<1>5. g = [i \in ids |-> g[i]] /\ \A i \in ids : g[i] = one(i)
  OBVIOUS
<1> HIDE DEF g
<1>6. g[RootId] = <<RootName>>
  BY <1>2, <1>4, <1>5, PathsClosed DEF Closed
<1>7. \A n \in tree : g[n.id] = Append(g[n.parent], n.name)
  <2> TAKE n \in tree
  <2>1. <<n.parent, g[n.parent]>> \in Paths(tree) /\ g[n.parent] \in Path
    BY <1>1, <1>4, <1>5
  <2>2. <<n.id, Append(g[n.parent], n.name)>> \in Paths(tree)
    BY <2>1, PathsClosed DEF Closed
  <2>3. n.id \in ids
    BY <1>1
  <2>4. Append(g[n.parent], n.name) = one(n.id)
    BY <1>4, <2>2, <2>3
  <2>5. g[n.id] = one(n.id)
    BY <1>5, <2>3
  <2> QED
    BY <2>4, <2>5
<1>8. \A i \in ids : g[i] = IF i = RootId THEN <<RootName>>
                          ELSE Append(g[node(i).parent], node(i).name)
  <2> TAKE i \in ids
  <2>1. CASE i = RootId
    BY <1>6, <2>1
  <2>2. CASE i # RootId
    <3>1. PICK n \in tree : n.id = i
      BY <1>2, <2>2
    <3>2. node(i) = n /\ g[i] = Append(g[n.parent], n.name)
      BY <1>1, <1>7, <3>1
    <3> QED
      BY <2>2, <3>2
  <2> QED
    BY <2>1, <2>2
<1>9. E(g)
  BY <1>5, <1>8
<1>10. E(F)
  BY <1>9
<1> HIDE DEF F
<1>11. \A i \in ids : F[i] = IF i = RootId THEN <<RootName>>
                           ELSE Append(F[node(i).parent], node(i).name)
  BY <1>10
<1>12. F[RootId] = <<RootName>>
  BY <1>2, <1>11
<1>13. \A n \in tree : F[n.id] = Append(F[n.parent], n.name)
  BY <1>1, <1>11
<1> QED
  BY <1>3, <1>12, <1>13

-----------------------------------------------------------------------------
(***************************************************************************)
(* The inductive invariant.                                                *)
(***************************************************************************)

(* The node whose item a goroutine is about to store.                      *)
InHand(tree, label, j) ==
    IF label = "append" THEN {n \in tree : n.id = j.value[Len(j.value)].id} ELSE {}

(* The items of a folder that its call has added to the map.               *)
Taken(tree, call, hand) ==
    {n \in Children(tree, call.dir.id) : n.id \in call.seen} \ (call.todo \cup hand)

(* The item of a node, and a list that shows nodes, each of them once.     *)
ItemOf(tree, n) == FileAt(n, Append(PathOf(tree, n.parent), n.name))
Lists(list, tree, nodes) ==
    /\ \A i \in 1 .. Len(list) : \E n \in nodes : list[i] = ItemOf(tree, n)
    /\ \A n \in nodes : \E i \in 1 .. Len(list) : list[i] = ItemOf(tree, n)
    /\ \A i, j \in 1 .. Len(list) : list[i].id = list[j].id => i = j

SliceOf(map, key) == IF key \in DOMAIN map THEN map[key] ELSE << >>

(* The map holds the nodes got, each in the slice of its folder.           *)
Holds(tree, map, got) ==
    /\ DOMAIN map \subseteq {MapKey(PathOf(tree, f)) : f \in Folders(tree)}
    /\ \A f \in Folders(tree) :
          Lists(SliceOf(map, MapKey(PathOf(tree, f))), tree, Children(tree, f) \cap got)

(* A call of GetFileList for a folder; one that has not come to its items  *)
(* has none, and one whose last page is at hand knows all of them.         *)
CallOK(tree, call, label) ==
    /\ call.dir.id \in Folders(tree)
    /\ call.dir.path = PathOf(tree, call.dir.id)
    /\ call.todo \subseteq Children(tree, call.dir.id)
    /\ \A n \in call.todo : n.id \in call.seen
    /\ label \in {"enter", "index"} => call.seen = {}
    /\ label \in {"enter", "index", "list"} => call.todo = {}
    /\ label \in {"items", "append"} /\ ~call.more =>
          \A n \in Children(tree, call.dir.id) : n.id \in call.seen

LabelAt(label, st, l) == IF l = Len(st) THEN label ELSE "items"

StackOK(tree, label, st, hand, got) ==
    /\ st[1].dir.id = RootId
    /\ \A l \in 1 .. Len(st) :
          /\ CallOK(tree, st[l], LabelAt(label, st, l))
          /\ Children(tree, st[l].dir.id) \cap got = Taken(tree, st[l], hand)
    /\ \A l \in 2 .. Len(st) : \E n \in got : n.dir /\ n.id = st[l].dir.id
    /\ \A k, l \in 1 .. Len(st) : st[k].dir.id = st[l].dir.id => k = l

(* The folders that have been come to, and of them those that are open.    *)
Visited(got) == {RootId} \cup {n.id : n \in {x \in got : x.dir}}
Open(st) == {st[l].dir.id : l \in 1 .. Len(st)}

(* The scan is on its way: what is in the map belongs to folders that have *)
(* been come to, and those that are not open are complete.                 *)
Under(tree, label, st, hand, got) ==
    /\ got \subseteq tree
    /\ StackOK(tree, label, st, hand, got)
    /\ \A n \in got : n.parent \in Visited(got)
    /\ \A f \in Visited(got) \ Open(st) : Children(tree, f) \subseteq got

(* The locals of an append.                                                *)
AppendOK(tree, label, st, j, map) ==
    label = "append" =>
        \E n \in Children(tree, st[Len(st)].dir.id) :
            /\ n.id \in st[Len(st)].seen /\ n \notin st[Len(st)].todo
            /\ j.key = MapKey(PathOf(tree, n.parent))
            /\ j.value = Append(SliceOf(map, j.key), ItemOf(tree, n))

Scanning(tree, label, st, j, map) ==
    /\ AppendOK(tree, label, st, j, map)
    /\ \E got \in SUBSET tree :
          /\ Holds(tree, map, got)
          /\ Under(tree, label, st, InHand(tree, label, j), got)

(* SaveFile: the map is complete, and a key that is no longer due has its  *)
(* listing in the database, but for the one at hand.                       *)
Saving(tree, label, j, map, db) ==
    /\ Holds(tree, map, tree)
    /\ label = "files" => j.key \in DOMAIN map /\ j.value = map[j.key]
    /\ \A k \in DOMAIN map :
          \/ k \in j.due
          \/ label = "files" /\ k = j.key
          \/ /\ makePathKey(<<k>>) \in DOMAIN db
             /\ db[makePathKey(<<k>>)] = ListRecord(map[k])

Complete == \A id \in Filled(drive) : ShowsFolder(drive, id)

ScanLabels == {"enter", "index", "list", "items", "append"}

(* A scan, undisturbed so far.                                             *)
ScanInv(s) ==
    /\ job[s].map \in {NoMap, filesMapData}
    /\ pc[s] \in ScanLabels => Scanning(drive, pc[s], stack[s], job[s], maps[filesMapData])
    /\ pc[s] \in {"next", "files"} =>
          Saving(drive, pc[s], job[s], maps[filesMapData], cache)
    /\ pc[s] = "idle" /\ outcome[s] = "ok" => Complete

Undisturbed == faults = 0 => \A s \in Scanners : ScanInv(s)

-----------------------------------------------------------------------------
(***************************************************************************)
(* Lists and maps.                                                         *)
(***************************************************************************)

LEMMA ListsNothing == ASSUME NEW tree PROVE Lists(<< >>, tree, {})
<1>1. Len(<< >>) = 0 /\ 1 .. 0 = {}
  OBVIOUS
<1> QED
  BY <1>1 DEF Lists

LEMMA ListsOneMore ==
    ASSUME NEW tree \in Trees, ProperTree(tree), NEW nodes \in SUBSET tree,
           NEW n \in tree \ nodes, NEW list \in Seq(File), Lists(list, tree, nodes),
           ItemOf(tree, n) \in File
    PROVE  Lists(Append(list, ItemOf(tree, n)), tree, nodes \cup {n})
<1> DEFINE item   == ItemOf(tree, n)
           longer == Append(list, item)
           len    == Len(list)
<1>1. /\ Len(longer) = len + 1 /\ len \in Nat
      /\ \A i \in 1 .. len : longer[i] = list[i]
      /\ longer[len + 1] = item
  BY AppendProperties, LenProperties
<1>2. \A i \in 1 .. len + 1 : i \in 1 .. len \/ i = len + 1
  BY <1>1
<1>3. len + 1 \in 1 .. len + 1 /\ 1 .. len \subseteq 1 .. len + 1
  BY <1>1
<1>4. \A m \in tree : ItemOf(tree, m).id = m.id
  BY DEF ItemOf, FileAt
<1>5. \A i \in 1 .. len : \E m \in nodes : list[i] = ItemOf(tree, m)
  BY DEF Lists
<1>6. \A i \in 1 .. len : list[i].id # item.id
  BY <1>4, <1>5 DEF ProperTree
<1> HIDE DEF longer, len, item
<1>7. \A i \in 1 .. len + 1 : \E m \in nodes \cup {n} : longer[i] = ItemOf(tree, m)
  BY <1>1, <1>2, <1>5 DEF item
<1>8. \A m \in nodes \cup {n} : \E i \in 1 .. len + 1 : longer[i] = ItemOf(tree, m)
  <2>1. \A m \in nodes : \E i \in 1 .. len : list[i] = ItemOf(tree, m)
    BY DEF Lists, len
  <2> QED
    BY <1>1, <1>3, <2>1 DEF item
<1>9. ASSUME NEW i \in 1 .. len + 1, NEW j \in 1 .. len + 1, longer[i].id = longer[j].id
      PROVE  i = j
  <2>1. CASE i \in 1 .. len /\ j \in 1 .. len
    <3>1. list[i].id = list[j].id
      BY <1>1, <1>9, <2>1
    <3> QED
      BY <2>1, <3>1 DEF Lists, len
  <2> QED
    BY <1>1, <1>2, <1>6, <1>9, <2>1
<1>10. Lists(longer, tree, nodes \cup {n})
  BY <1>1, <1>7, <1>8, <1>9 DEF Lists
<1> QED
  BY <1>10 DEF longer, item

(* A list that shows the items of a folder, each once, is as long as there *)
(* are items.                                                              *)
LEMMA ListsCount ==
    ASSUME NEW tree \in Trees, ProperTree(tree), NEW nodes \in SUBSET tree,
           NEW list \in Seq(File), Lists(list, tree, nodes)
    PROVE  Len(list) = Cardinality(nodes)
<1> DEFINE S == 1 .. Len(list)
           node(i) == CHOOSE n \in nodes : list[i] = ItemOf(tree, n)
           f == [i \in S |-> node(i)]
<1>1. Len(list) \in Nat
  BY LenProperties
<1>2. \A i \in S : node(i) \in nodes /\ list[i] = ItemOf(tree, node(i))
  BY DEF Lists
<1>3. \A n \in tree : ItemOf(tree, n).id = n.id
  BY DEF ItemOf, FileAt
<1>4. \A n \in nodes : \E i \in S : list[i] = ItemOf(tree, n)
  BY DEF Lists
<1>5. \A i, j \in S : list[i].id = list[j].id => i = j
  BY DEF Lists
<1> HIDE DEF node, S
<1>6. \A i, j \in S : node(i) = node(j) => i = j
  BY <1>2, <1>3, <1>5
<1>7. \A n \in nodes : \E i \in S : node(i) = n
  BY <1>2, <1>3, <1>4 DEF ProperTree
<1>8. /\ f \in [S -> nodes]
      /\ \A i, j \in S : f[i] = f[j] => i = j
      /\ \A n \in nodes : \E i \in S : f[i] = n
  BY <1>2, <1>6, <1>7
<1> HIDE DEF f
<1> QED
  BY <1>1, <1>8, Enumerated DEF S

(* Two folders have two keys in the map, as they have in the database.     *)
LEMMA MapKeysApart ==
    ASSUME NEW tree, FolderKeysApart(tree), NEW f \in Folders(tree), NEW g \in Folders(tree),
           MapKey(PathOf(tree, f)) = MapKey(PathOf(tree, g))
    PROVE  f = g
<1>1. g \in ItemIds(tree)
  BY DEF Folders, ItemIds
<1> QED
  BY <1>1 DEF FolderKeysApart, makePathKey, MapKey

LEMMA HoldsNothing == ASSUME NEW tree PROVE Holds(tree, EmptyDB, {})
<1>1. DOMAIN EmptyDB = {}
  BY DEF EmptyDB
<1>2. \A key : SliceOf(EmptyDB, key) = << >>
  BY <1>1 DEF SliceOf
<1> QED
  BY <1>1, <1>2, ListsNothing DEF Holds

LEMMA HoldsOneMore ==
    ASSUME NEW tree \in Trees, ProperTree(tree), FolderKeysApart(tree),
           NEW map, \A k \in DOMAIN map : map[k] \in Seq(File),
           NEW got \in SUBSET tree, Holds(tree, map, got),
           NEW n \in tree \ got, ItemOf(tree, n) \in File,
           NEW key, key = MapKey(PathOf(tree, n.parent)),
           NEW value, value = Append(SliceOf(map, key), ItemOf(tree, n))
    PROVE  Holds(tree, Put(map, key, value), got \cup {n})
<1> DEFINE new == Put(map, key, value)
<1>1. n.parent \in Folders(tree)
  BY DEF ProperTree
<1>2. DOMAIN new \subseteq {MapKey(PathOf(tree, f)) : f \in Folders(tree)}
  BY <1>1 DEF Holds, Put
<1>3. ASSUME NEW f \in Folders(tree)
      PROVE  Lists(SliceOf(new, MapKey(PathOf(tree, f))), tree, Children(tree, f) \cap (got \cup {n}))
  <2> DEFINE k == MapKey(PathOf(tree, f))
             nodes == Children(tree, f) \cap got
  <2>1. Lists(SliceOf(map, k), tree, nodes) /\ nodes \in SUBSET tree
    BY DEF Holds, Children
  <2>2. CASE f = n.parent
    <3>1. SliceOf(new, k) = value
      BY <2>2 DEF SliceOf, Put
    <3>2. Children(tree, f) \cap (got \cup {n}) = nodes \cup {n}
      BY <2>2 DEF Children
    <3>3. SliceOf(map, k) \in Seq(File)
      BY EmptySeq DEF SliceOf
    <3>4. n \in tree \ nodes
      OBVIOUS
    <3> HIDE DEF nodes
    <3>5. Lists(Append(SliceOf(map, k), ItemOf(tree, n)), tree, nodes \cup {n})
      BY <2>1, <3>3, <3>4, ListsOneMore
    <3>6. value = Append(SliceOf(map, k), ItemOf(tree, n))
      BY <2>2
    <3> QED
      BY <3>1, <3>2, <3>5, <3>6
  <2>3. CASE f # n.parent
    <3>1. k # key
      BY <1>1, <2>3, MapKeysApart
    <3>2. SliceOf(new, k) = SliceOf(map, k)
      BY <3>1 DEF SliceOf, Put
    <3>3. Children(tree, f) \cap (got \cup {n}) = nodes
      BY <2>3 DEF Children
    <3> QED
      BY <2>1, <3>2, <3>3
  <2> QED
    BY <2>2, <2>3
<1> QED
  BY <1>2, <1>3 DEF Holds

-----------------------------------------------------------------------------
(***************************************************************************)
(* The calls of GetFileList and what they leave behind.                    *)
(***************************************************************************)

(* The folder of an open call has been come to.                            *)
LEMMA OpenIsVisited ==
    ASSUME NEW tree, NEW label, NEW st, NEW hand, NEW got, Len(st) \in Nat \ {0},
           StackOK(tree, label, st, hand, got), NEW l \in 1 .. Len(st)
    PROVE  st[l].dir.id \in Visited(got)
<1>1. l = 1 \/ l \in 2 .. Len(st)
  OBVIOUS
<1> QED
  BY <1>1 DEF StackOK, Visited

(* The first call, for the root.                                           *)
LEMMA UnderBegin ==
    ASSUME NEW tree \in Trees, ProperTree(tree)
    PROVE  Under(tree, "enter", <<Call(RootDir)>>, {}, {})
<1> DEFINE st == <<Call(RootDir)>>
<1>1. Len(st) = 1 /\ st[1] = Call(RootDir)
  OBVIOUS
<1>2. st[1].dir = RootDir /\ st[1].seen = {} /\ st[1].todo = {}
  BY <1>1 DEF Call
<1>3. RootDir.id = RootId /\ RootDir.path = <<RootName>>
  BY DEF RootDir
<1> HIDE DEF st
<1>4. CallOK(tree, st[1], "enter")
  BY <1>2, <1>3, PathOfItem DEF CallOK, Folders
<1>5. Taken(tree, st[1], {}) = {}
  BY <1>2 DEF Taken
<1>6. \A l \in 1 .. 1 : l = 1
  OBVIOUS
<1>7. 2 .. 1 = {} /\ 1 \in 1 .. 1
  OBVIOUS
<1>8. StackOK(tree, "enter", st, {}, {})
  BY <1>1, <1>2, <1>3, <1>4, <1>5, <1>6, <1>7 DEF StackOK, LabelAt
<1>9. Visited({}) \ Open(st) = {}
  BY <1>1, <1>2, <1>3, <1>7 DEF Visited, Open
<1> QED
  BY <1>8, <1>9 DEF Under, st

LEMMA SameOpen ==
    ASSUME NEW st, NEW new, Len(new) = Len(st),
           \A l \in 1 .. Len(st) : new[l].dir.id = st[l].dir.id
    PROVE  Open(new) = Open(st)
BY DEF Open

(* The innermost call is replaced by one for the same folder.              *)
LEMMA UnderTop ==
    ASSUME NEW tree, NEW label, NEW st \in Seq(Calls), Len(st) \in Nat \ {0},
           NEW hand, NEW got, Under(tree, label, st, hand, got),
           NEW call \in Calls, NEW new, NEW label2, NEW hand2,
           call.dir.id = st[Len(st)].dir.id,
           new = [st EXCEPT ![Len(st)] = call],
           CallOK(tree, call, label2),
           hand \subseteq Children(tree, call.dir.id),
           hand2 \subseteq Children(tree, call.dir.id),
           Taken(tree, call, hand2) = Taken(tree, st[Len(st)], hand)
    PROVE  Under(tree, label2, new, hand2, got)
<1> DEFINE len == Len(st)
<1>1. /\ new \in Seq(Calls) /\ Len(new) = len
      /\ new[len] = call /\ len \in 1 .. len /\ 1 \in 1 .. len
      /\ \A l \in 1 .. len : l # len => new[l] = st[l]
  BY ExceptSeq
<1>2. \A l \in 1 .. len : new[l].dir.id = st[l].dir.id
  BY <1>1
<1>3. StackOK(tree, label, st, hand, got)
  BY DEF Under
<1>4. ASSUME NEW l \in 1 .. len, l # len
      PROVE  /\ CallOK(tree, new[l], LabelAt(label2, new, l))
             /\ Children(tree, new[l].dir.id) \cap got = Taken(tree, new[l], hand2)
  <2>1. CallOK(tree, st[l], LabelAt(label, st, l))
    BY <1>3 DEF StackOK
  <2>2. Children(tree, st[l].dir.id) \cap got = Taken(tree, st[l], hand)
    BY <1>3 DEF StackOK
  <2>3. st[l].dir.id # call.dir.id
    BY <1>1, <1>3, <1>4 DEF StackOK
  <2>4. Children(tree, st[l].dir.id) \cap Children(tree, call.dir.id) = {}
    BY <2>3 DEF Children
  <2>5. Taken(tree, st[l], hand2) = Taken(tree, st[l], hand)
    BY <2>4 DEF Taken
  <2> QED
    BY <1>1, <1>4, <2>1, <2>2, <2>5 DEF LabelAt
<1>5. /\ CallOK(tree, new[len], LabelAt(label2, new, len))
      /\ Children(tree, new[len].dir.id) \cap got = Taken(tree, new[len], hand2)
  BY <1>1, <1>3 DEF LabelAt, StackOK
<1>6. \A l \in 2 .. len : l \in 1 .. len
  <2>1. \A k \in Nat : \A l \in 2 .. k : l \in 1 .. k
    OBVIOUS
  <2> QED
    BY <2>1
<1>7. StackOK(tree, label2, new, hand2, got)
  <2>1. new[1].dir.id = RootId
    BY <1>1, <1>2, <1>3 DEF StackOK
  <2>2. \A l \in 1 .. Len(new) :
          /\ CallOK(tree, new[l], LabelAt(label2, new, l))
          /\ Children(tree, new[l].dir.id) \cap got = Taken(tree, new[l], hand2)
    BY <1>1, <1>4, <1>5
  <2>3. \A l \in 2 .. Len(new) : \E n \in got : n.dir /\ n.id = new[l].dir.id
    BY <1>1, <1>2, <1>3, <1>6 DEF StackOK
  <2>4. \A k, l \in 1 .. Len(new) : new[k].dir.id = new[l].dir.id => k = l
    BY <1>1, <1>2, <1>3 DEF StackOK
  <2> QED
    BY <2>1, <2>2, <2>3, <2>4 DEF StackOK
<1>8. Open(new) = Open(st)
  BY <1>1, <1>2, SameOpen
<1> QED
  BY <1>7, <1>8 DEF Under

(* The innermost call, of a folder all of whose items are in, returns.     *)
LEMMA UnderPop ==
    ASSUME NEW tree, NEW st \in Seq(Calls), Len(st) \in Nat \ {0}, Len(st) > 1,
           NEW got, Under(tree, "items", st, {}, got),
           st[Len(st)].todo = {}, ~st[Len(st)].more
    PROVE  Under(tree, "items", SubSeq(st, 1, Len(st) - 1), {}, got)
<1> DEFINE len == Len(st)
           new == SubSeq(st, 1, Len(st) - 1)
<1>1. len - 1 \in Nat \ {0} /\ len \in 1 .. len
  OBVIOUS
<1>2. \A i \in 1 .. len - 1 : st[i] \in Calls /\ i \in 1 .. len /\ i # len
  BY <1>1, ElementOfSeq
<1>3. Len(new) = len - 1 /\ \A i \in 1 .. len - 1 : new[i] = st[i]
  BY <1>1, <1>2, SubSeqProperties
<1>4. StackOK(tree, "items", st, {}, got)
  BY DEF Under
<1>5. 1 \in 1 .. len - 1 /\ \A i \in 2 .. len - 1 : i \in 1 .. len - 1 /\ i \in 2 .. len
  <2>1. \A k \in Nat : /\ k - 1 \in Nat \ {0} => 1 \in 1 .. k - 1
                     /\ \A i \in 2 .. k - 1 : i \in 1 .. k - 1 /\ i \in 2 .. k
    OBVIOUS
  <2>2. len \in Nat
    OBVIOUS
  <2> HIDE DEF len
  <2> QED
    BY <1>1, <2>1, <2>2
<1>6. \A i \in 1 .. len : i = len \/ i \in 1 .. len - 1
  BY <1>1
<1> HIDE DEF new
<1>7. StackOK(tree, "items", new, {}, got)
  <2>1. new[1].dir.id = RootId
    BY <1>3, <1>4, <1>5 DEF StackOK
  <2>2. ASSUME NEW l \in 1 .. Len(new)
        PROVE  /\ CallOK(tree, new[l], LabelAt("items", new, l))
               /\ Children(tree, new[l].dir.id) \cap got = Taken(tree, new[l], {})
    BY <1>2, <1>3, <1>4 DEF StackOK, LabelAt
  <2>3. \A l \in 2 .. Len(new) : \E n \in got : n.dir /\ n.id = new[l].dir.id
    BY <1>3, <1>4, <1>5 DEF StackOK
  <2>4. \A k, l \in 1 .. Len(new) : new[k].dir.id = new[l].dir.id => k = l
    BY <1>2, <1>3, <1>4 DEF StackOK
  <2> QED
    BY <2>1, <2>2, <2>3, <2>4 DEF StackOK
<1>8. Children(tree, st[len].dir.id) \subseteq got
  <2>1. CallOK(tree, st[len], "items")
    BY <1>1, <1>4 DEF StackOK, LabelAt
  <2>2. Children(tree, st[len].dir.id) \cap got = Taken(tree, st[len], {})
    BY <1>1, <1>4 DEF StackOK
  <2>3. Taken(tree, st[len], {}) = Children(tree, st[len].dir.id)
    BY <2>1 DEF CallOK, Taken
  <2> QED
    BY <2>2, <2>3
<1>9. \A f \in Open(st) : f \in Open(new) \/ f = st[len].dir.id
  BY <1>3, <1>6 DEF Open
<1>10. Under(tree, "items", new, {}, got)
  BY <1>7, <1>8, <1>9 DEF Under
<1> QED
  BY <1>10 DEF new

(* The call for the root returns: the whole drive is in the map, as the    *)
(* folder nearest to the root of those that are not in it would have to be *)
(* in a folder that is.                                                    *)
LEMMA UnderEnd ==
    ASSUME NEW tree, ProperTree(tree), NEW st \in Seq(Calls), Len(st) = 1,
           NEW got, Under(tree, "items", st, {}, got),
           st[1].todo = {}, ~st[1].more
    PROVE  got = tree
<1>1. StackOK(tree, "items", st, {}, got) /\ 1 \in 1 .. Len(st)
  BY DEF Under
<1>2. Children(tree, RootId) \subseteq got
  <2>1. CallOK(tree, st[1], "items") /\ st[1].dir.id = RootId
    BY <1>1 DEF StackOK, LabelAt
  <2>2. Children(tree, st[1].dir.id) \cap got = Taken(tree, st[1], {})
    BY <1>1 DEF StackOK
  <2>3. Taken(tree, st[1], {}) = Children(tree, st[1].dir.id)
    BY <2>1 DEF CallOK, Taken
  <2> QED
    BY <2>1, <2>2, <2>3
<1>3. Open(st) = {RootId}
  <2>1. \A l \in 1 .. Len(st) : l = 1
    OBVIOUS
  <2> QED
    BY <1>1, <2>1 DEF Open, StackOK
<1>4. \A f \in Visited(got) : Children(tree, f) \subseteq got
  BY <1>2, <1>3 DEF Under
<1> DEFINE D == {m \in {n \in tree : n.dir} : m \notin got}
<1>5. \A n \in tree : n.parent \in Visited(got) \/ \E m \in D : n.parent = m.id
  BY DEF ProperTree, Folders, Visited
<1>6. \A n \in tree \ got : \E m \in D : n.parent = m.id
  BY <1>4, <1>5 DEF Children
<1>7. D = {}
  <2> SUFFICES ASSUME D # {} PROVE FALSE
    OBVIOUS
  <2>1. PICK n \in D : \A m \in D : n.parent # m.id
    BY DEF ProperTree
  <2> QED
    BY <1>6, <2>1
<1> QED
  BY <1>6, <1>7 DEF Under

(* An item is added to the map: it was not there, and then the call that   *)
(* added it accounts for it.                                               *)
LEMMA NotYetIn ==
    ASSUME NEW tree, NEW st, Len(st) \in Nat \ {0}, NEW got, NEW n, NEW label,
           StackOK(tree, label, st, {n}, got), n \in Children(tree, st[Len(st)].dir.id)
    PROVE  n \notin got
<1>1. Len(st) \in 1 .. Len(st)
  OBVIOUS
<1>2. n \notin Taken(tree, st[Len(st)], {n})
  BY DEF Taken
<1> QED
  BY <1>1, <1>2 DEF StackOK

LEMMA OneMoreIn ==
    ASSUME NEW tree, NEW st, Len(st) \in Nat \ {0}, NEW got, NEW n,
           StackOK(tree, "append", st, {n}, got), n \in Children(tree, st[Len(st)].dir.id),
           n.id \in st[Len(st)].seen, n \notin st[Len(st)].todo
    PROVE  StackOK(tree, "items", st, {}, got \cup {n})
<1> DEFINE len == Len(st)
<1>1. len \in 1 .. len
  OBVIOUS
<1>2. ASSUME NEW l \in 1 .. len
      PROVE  CallOK(tree, st[l], LabelAt("items", st, l))
  <2>1. CallOK(tree, st[l], LabelAt("append", st, l))
    BY DEF StackOK
  <2>2. LabelAt("items", st, l) = "items" /\ LabelAt("append", st, l) \in {"append", "items"}
    BY DEF LabelAt
  <2> QED
    BY <2>1, <2>2 DEF CallOK
<1>3. ASSUME NEW l \in 1 .. len
      PROVE  Children(tree, st[l].dir.id) \cap (got \cup {n}) = Taken(tree, st[l], {})
  <2>1. Children(tree, st[l].dir.id) \cap got = Taken(tree, st[l], {n})
    BY DEF StackOK
  <2>2. CASE l = len
    <3>1. Taken(tree, st[len], {}) = Taken(tree, st[len], {n}) \cup {n}
      BY DEF Taken
    <3> QED
      BY <2>1, <2>2, <3>1
  <2>3. CASE l # len
    <3>1. st[l].dir.id # st[len].dir.id
      BY <1>1, <2>3 DEF StackOK
    <3>2. n \notin Children(tree, st[l].dir.id)
      BY <3>1 DEF Children
    <3>3. Taken(tree, st[l], {}) = Taken(tree, st[l], {n})
      BY <3>2 DEF Taken
    <3> QED
      BY <2>1, <3>2, <3>3
  <2> QED
    BY <2>2, <2>3
<1>4. \A l \in 2 .. len : \E m \in got \cup {n} : m.dir /\ m.id = st[l].dir.id
  BY DEF StackOK
<1> QED
  BY <1>2, <1>3, <1>4 DEF StackOK

LEMMA UnderAddFile ==
    ASSUME NEW tree, NEW st, Len(st) \in Nat \ {0}, NEW got, NEW n \in tree,
           Under(tree, "append", st, {n}, got), n \in Children(tree, st[Len(st)].dir.id),
           n.id \in st[Len(st)].seen, n \notin st[Len(st)].todo, ~n.dir
    PROVE  Under(tree, "items", st, {}, got \cup {n})
<1>1. StackOK(tree, "append", st, {n}, got)
  BY DEF Under
<1>2. StackOK(tree, "items", st, {}, got \cup {n})
  BY <1>1, OneMoreIn
<1>3. n.parent \in Visited(got)
  <2>1. n.parent = st[Len(st)].dir.id /\ Len(st) \in 1 .. Len(st)
    BY DEF Children
  <2> QED
    BY <1>1, <2>1, OpenIsVisited
<1>4. Visited(got \cup {n}) = Visited(got)
  BY DEF Visited
<1> QED
  BY <1>2, <1>3, <1>4 DEF Under

(* A folder is added, and a call for it begins.                            *)
LEMMA UnderAddFolder ==
    ASSUME NEW tree \in Trees, ProperTree(tree), NEW st \in Seq(Calls),
           Len(st) \in Nat \ {0}, NEW got, NEW n \in tree,
           Under(tree, "append", st, {n}, got), n \in Children(tree, st[Len(st)].dir.id),
           n.id \in st[Len(st)].seen, n \notin st[Len(st)].todo, n.dir,
           NEW item \in File, item.id = n.id, item.path = PathOf(tree, n.id)
    PROVE  Under(tree, "enter", Append(st, Call(item)), {}, got \cup {n})
<1> DEFINE len  == Len(st)
           call == Call(item)
           new  == Append(st, call)
           all  == got \cup {n}
<1>1. call \in Calls /\ call.dir = item /\ call.seen = {} /\ call.todo = {}
  BY CallType DEF Call
<1>2. /\ Len(new) = len + 1 /\ new[len + 1] = call
      /\ \A l \in 1 .. len : new[l] = st[l]
  BY <1>1, AppendProperties
<1>3. StackOK(tree, "append", st, {n}, got) /\ n \notin got /\ got \subseteq tree
  BY NotYetIn DEF Under
<1>4. StackOK(tree, "items", st, {}, all)
  BY <1>3, OneMoreIn
<1>5. n.parent = st[len].dir.id /\ len \in 1 .. len
  BY DEF Children
<1>6. n.parent \in Visited(got)
  BY <1>3, <1>5, OpenIsVisited
<1>7. n.id \notin Visited(got)
  BY <1>3, TreeNodes DEF ProperTree, Visited
<1>8. \A m \in all : m.parent \in Visited(got)
  BY <1>6 DEF Under
<1>9. Children(tree, n.id) \cap all = {}
  BY <1>7, <1>8 DEF Children
<1>10. \A l \in 1 .. len : st[l].dir.id # n.id
  BY <1>3, <1>7, OpenIsVisited
<1>11. /\ 1 \in 1 .. len /\ len + 1 \notin 1 .. len
       /\ \A l \in 1 .. len + 1 : l \in 1 .. len \/ l = len + 1
       /\ \A l \in 2 .. len + 1 : l \in 2 .. len \/ l = len + 1
       /\ \A l \in 2 .. len : l \in 1 .. len
       /\ \A l \in 1 .. len : l \in 1 .. len + 1 /\ l # len + 1
  <2>1. \A k \in Nat \ {0} :
           /\ 1 \in 1 .. k /\ k + 1 \notin 1 .. k
           /\ \A l \in 1 .. k + 1 : l \in 1 .. k \/ l = k + 1
           /\ \A l \in 2 .. k + 1 : l \in 2 .. k \/ l = k + 1
           /\ \A l \in 2 .. k : l \in 1 .. k
           /\ \A l \in 1 .. k : l \in 1 .. k + 1 /\ l # k + 1
    OBVIOUS
  <2> QED
    BY <2>1
<1> HIDE DEF len, new, call, all
<1>12. StackOK(tree, "enter", new, {}, all)
  <2>1. new[1].dir.id = RootId
    BY <1>2, <1>4, <1>11 DEF StackOK
  <2>2. ASSUME NEW l \in 1 .. len
        PROVE  /\ CallOK(tree, new[l], LabelAt("enter", new, l))
               /\ Children(tree, new[l].dir.id) \cap all = Taken(tree, new[l], {})
    <3>1. LabelAt("enter", new, l) = "items" /\ LabelAt("items", st, l) = "items"
      BY <1>2, <1>11 DEF LabelAt
    <3>2. /\ CallOK(tree, st[l], LabelAt("items", st, l))
          /\ Children(tree, st[l].dir.id) \cap all = Taken(tree, st[l], {})
      BY <1>4 DEF StackOK, len
    <3> QED
      BY <1>2, <3>1, <3>2
  <2>3. CallOK(tree, call, LabelAt("enter", new, len + 1))
    <3>1. LabelAt("enter", new, len + 1) = "enter"
      BY <1>2 DEF LabelAt
    <3>2. n.id \in Folders(tree)
      BY DEF Folders
    <3> QED
      BY <1>1, <3>1, <3>2 DEF CallOK
  <2>4. Children(tree, call.dir.id) \cap all = Taken(tree, call, {})
    BY <1>1, <1>9 DEF Taken
  <2>5. \A l \in 1 .. Len(new) :
          /\ CallOK(tree, new[l], LabelAt("enter", new, l))
          /\ Children(tree, new[l].dir.id) \cap all = Taken(tree, new[l], {})
    BY <1>2, <1>11, <2>2, <2>3, <2>4
  <2>6. \A l \in 2 .. Len(new) : \E m \in all : m.dir /\ m.id = new[l].dir.id
    <3>1. \A l \in 2 .. len : \E m \in all : m.dir /\ m.id = st[l].dir.id
      BY <1>4 DEF StackOK, len
    <3>2. n \in all /\ n.dir /\ n.id = call.dir.id
      BY <1>1 DEF all
    <3> QED
      BY <1>2, <1>11, <3>1, <3>2
  <2>7. \A k, l \in 1 .. Len(new) : new[k].dir.id = new[l].dir.id => k = l
    <3>1. \A k, l \in 1 .. len : st[k].dir.id = st[l].dir.id => k = l
      BY <1>4 DEF StackOK, len
    <3>2. call.dir.id = n.id
      BY <1>1
    <3>3. \A l \in 1 .. len : st[l].dir.id # n.id
      BY <1>10 DEF len
    <3> QED
      BY <1>2, <1>11, <3>1, <3>2, <3>3
  <2> QED
    BY <2>1, <2>5, <2>6, <2>7 DEF StackOK
<1>13. Visited(all) = Visited(got) \cup {n.id}
  BY DEF Visited, all
<1>14. Open(st) \subseteq Open(new) /\ n.id \in Open(new)
  <2>1. \A l \in 1 .. len : new[l] = st[l] /\ l \in 1 .. Len(new)
    BY <1>2, <1>11
  <2>2. Open(st) \subseteq Open(new)
    BY <2>1 DEF Open, len
  <2>3. new[Len(new)].dir.id = n.id /\ Len(new) \in 1 .. Len(new)
    <3>1. \A k \in Nat : k + 1 \in 1 .. k + 1
      OBVIOUS
    <3> QED
      BY <1>1, <1>2, <3>1 DEF len
  <2> QED
    BY <2>2, <2>3 DEF Open
<1>15. \A f \in Visited(got) \ Open(st) : Children(tree, f) \subseteq all
  BY DEF Under, all
<1>16. Under(tree, "enter", new, {}, all)
  BY <1>3, <1>8, <1>12, <1>13, <1>14, <1>15 DEF Under, all
<1> QED
  BY <1>16 DEF new, call, all

-----------------------------------------------------------------------------
(***************************************************************************)
(* Every step of the scan keeps the invariant, an action at a time.        *)
(***************************************************************************)

LEMMA ScanInvScanning ==
    ASSUME NEW s \in Scanners, pc'[s] \in ScanLabels,
           job'[s].map \in {NoMap, filesMapData'},
           Scanning(drive, pc[s], stack[s], job[s], maps[filesMapData])'
    PROVE  ScanInv(s)'
BY DEF ScanInv, ScanLabels

LEMMA ScanInvSaving ==
    ASSUME NEW s \in Scanners, pc'[s] \in {"next", "files"},
           job'[s].map \in {NoMap, filesMapData'},
           Saving(drive, pc[s], job[s], maps[filesMapData], cache)'
    PROVE  ScanInv(s)'
BY DEF ScanInv, ScanLabels

(* What is known of a scan that is on its way.                             *)
LEMMA OnItsWay ==
    ASSUME TypeOK, NEW s \in Scanners, ScanInv(s), pc[s] \in ScanLabels
    PROVE  /\ stack[s] \in Seq(Calls) /\ Len(stack[s]) \in Nat \ {0} /\ stack[s] # << >>
           /\ Top(s) = stack[s][Len(stack[s])] /\ Top(s) \in Calls
           /\ CallOK(drive, Top(s), pc[s])
           /\ Scanning(drive, pc[s], stack[s], job[s], maps[filesMapData])
           /\ At(pc[s], stack[s], job[s])
<1>1. At(pc[s], stack[s], job[s]) /\ stack[s] # << >>
  BY DEF TypeOK, ControlTypeOK, At, ScanLabels
<1>2. stack[s] \in Seq(Calls) /\ Len(stack[s]) \in Nat \ {0} /\ Top(s) \in Calls
  BY <1>1, TopType DEF TypeOK
<1>3. Scanning(drive, pc[s], stack[s], job[s], maps[filesMapData])
  BY DEF ScanInv
<1>4. Len(stack[s]) \in 1 .. Len(stack[s])
  BY <1>2
<1>5. CallOK(drive, Top(s), pc[s])
  BY <1>3, <1>4 DEF Scanning, Under, StackOK, LabelAt, Top
<1> QED
  BY <1>1, <1>2, <1>3, <1>5 DEF Top

LEMMA SameTop ==
    ASSUME TypeOK, NEW s \in Scanners, ScanInv(s), pc[s] \in ScanLabels
    PROVE  SetTop(s, Top(s)) = stack
<1> DEFINE st == stack[s]
           new == [st EXCEPT ![Len(st)] = Top(s)]
<1>1. st \in Seq(Calls) /\ Len(st) \in 1 .. Len(st) /\ Top(s) = st[Len(st)]
  BY OnItsWay
<1>2. new \in Seq(Calls) /\ Len(new) = Len(st) /\ \A i \in 1 .. Len(st) : new[i] = st[i]
  BY <1>1, ExceptSeq
<1> HIDE DEF new
<1>3. new = st
  BY <1>1, <1>2, SeqEqual
<1>4. stack = [t \in Scanners |-> stack[t]]
  BY DEF TypeOK, ControlTypeOK
<1>5. SetTop(s, Top(s)) = [stack EXCEPT ![s] = new]
  BY DEF SetTop, new
<1> QED
  BY <1>3, <1>4, <1>5

(* The innermost call goes on.                                             *)
LEMMA TopStep ==
    ASSUME TypeOK, NEW s \in Scanners, ScanInv(s), pc[s] \in ScanLabels,
           NEW call \in Calls, stack' = SetTop(s, call), pc'[s] \in ScanLabels,
           UNCHANGED <<drive, maps, filesMapData>>,
           job'[s].map \in {NoMap, filesMapData'},
           call.dir.id = Top(s).dir.id,
           CallOK(drive, call, pc'[s]),
           InHand(drive, pc[s], job[s]) \subseteq Children(drive, call.dir.id),
           InHand(drive, pc'[s], job'[s]) \subseteq Children(drive, call.dir.id),
           Taken(drive, call, InHand(drive, pc'[s], job'[s]))
              = Taken(drive, Top(s), InHand(drive, pc[s], job[s])),
           AppendOK(drive, pc'[s], stack'[s], job'[s], maps[filesMapData])
    PROVE  ScanInv(s)'
<1> DEFINE st   == stack[s]
           new  == [st EXCEPT ![Len(st)] = call]
           hand == InHand(drive, pc[s], job[s])
           hand2 == InHand(drive, pc'[s], job'[s])
<1>1. st \in Seq(Calls) /\ Len(st) \in Nat \ {0} /\ Top(s) = st[Len(st)]
  BY OnItsWay
<1>2. stack'[s] = new
  BY DEF SetTop, TypeOK, ControlTypeOK
<1>3. PICK got \in SUBSET drive :
         /\ Holds(drive, maps[filesMapData], got)
         /\ Under(drive, pc[s], st, hand, got)
  BY OnItsWay DEF Scanning
<1>4. /\ hand \subseteq Children(drive, call.dir.id)
      /\ hand2 \subseteq Children(drive, call.dir.id)
      /\ Taken(drive, call, hand2) = Taken(drive, st[Len(st)], hand)
      /\ call.dir.id = st[Len(st)].dir.id
      /\ new = [st EXCEPT ![Len(st)] = call]
  BY <1>1
<1> HIDE DEF hand, hand2, st, new
<1>5. Under(drive, pc'[s], new, hand2, got)
  BY <1>1, <1>3, <1>4, UnderTop
<1>6. Scanning(drive, pc'[s], stack'[s], job'[s], maps[filesMapData])
  BY <1>2, <1>3, <1>5 DEF Scanning, hand2
<1> QED
  BY <1>6, ScanInvScanning

LEMMA FaultCounts == ASSUME TypeOK, Fault PROVE faults' # 0
BY CatalogAssumption DEF TypeOK, CatalogTypeOK, CatalogAssumption, Fault

LEMMA ScanListAllFile ==
    ASSUME TypeOK, ProperTree(drive), NEW s \in Scanners, ScanInv(s), ListAllFile(s)
    PROVE  ScanInv(s)'
<1>1. drive \in Trees /\ drive' = drive
  BY DEF TypeOK, CatalogTypeOK, ListAllFile, catalogVars
<1>2. pc'[s] = "enter" /\ stack'[s] = <<Call(RootDir)>> /\ job' = job
  BY DEF ListAllFile, Goto, TypeOK, ControlTypeOK
<1>3. job[s].map = NoMap
  BY DEF ListAllFile, TypeOK, ControlTypeOK, At
<1>4. maps'[filesMapData'] = EmptyDB
  BY DEF ListAllFile, Collected
<1>5. InHand(drive, "enter", job'[s]) = {} /\ AppendOK(drive, "enter", stack'[s], job'[s], EmptyDB)
  BY DEF InHand, AppendOK
<1>6. Holds(drive, EmptyDB, {}) /\ Under(drive, "enter", <<Call(RootDir)>>, {}, {})
  BY <1>1, HoldsNothing, UnderBegin
<1>7. Scanning(drive, "enter", <<Call(RootDir)>>, job'[s], EmptyDB)
  BY <1>2, <1>5, <1>6 DEF Scanning
<1>8. Scanning(drive, pc[s], stack[s], job[s], maps[filesMapData])'
  BY <1>1, <1>2, <1>4, <1>7
<1> QED
  BY <1>2, <1>3, <1>8, ScanInvScanning DEF ScanLabels

LEMMA ScanFetchDir ==
    ASSUME TypeOK, ProperTree(drive), NEW s \in Scanners, ScanInv(s), FetchDir(s)
    PROVE  ScanInv(s)'
<1>1. pc[s] = "enter" /\ pc[s] \in ScanLabels
  BY DEF FetchDir, ScanLabels
<1>2. /\ Top(s) \in Calls /\ CallOK(drive, Top(s), "enter")
      /\ At("enter", stack[s], job[s])
  BY <1>1, OnItsWay
<1>3. /\ drive' = drive /\ maps' = maps /\ filesMapData' = filesMapData /\ job' = job
      /\ drive \in Trees
  BY DEF FetchDir, catalogVars, TypeOK, CatalogTypeOK
<1>4. Exists(drive, Top(s).dir.id)
  BY <1>2 DEF CallOK, Exists, Folders
<1>5. pc'[s] = "index"
  BY <1>4 DEF FetchDir, Goto, TypeOK, ControlTypeOK
<1>6. \/ stack' = stack
      \/ \E n \in drive : /\ n.id = Top(s).dir.id
                          /\ stack' = SetTop(s, Call(FileAt(n, Top(s).dir.path)))
  BY <1>4 DEF FetchDir
<1>7. \E call \in Calls : /\ stack' = SetTop(s, call)
                          /\ call.dir.id = Top(s).dir.id /\ call.dir.path = Top(s).dir.path
                          /\ call.seen = {} /\ call.todo = {}
  <2>1. CASE stack' = stack
    <3>1. stack' = SetTop(s, Top(s))
      BY <1>1, <2>1, SameTop
    <3>2. Top(s).seen = {} /\ Top(s).todo = {}
      BY <1>2 DEF CallOK
    <3> QED
      BY <1>2, <3>1, <3>2
  <2>2. CASE stack' # stack
    <3>1. PICK n \in drive : /\ n.id = Top(s).dir.id
                             /\ stack' = SetTop(s, Call(FileAt(n, Top(s).dir.path)))
      BY <1>6, <2>2
    <3> DEFINE call == Call(FileAt(n, Top(s).dir.path))
    <3>2. Top(s).dir.path \in Path
      BY <1>2 DEF Calls, File
    <3>3. call \in Calls
      BY <1>3, <3>2, FileAtType, CallType, CatalogAssumption, TreeNodes
    <3>4. /\ call.dir.id = n.id /\ call.dir.path = Top(s).dir.path
          /\ call.seen = {} /\ call.todo = {}
      BY DEF Call, FileAt
    <3> HIDE DEF call
    <3> QED
      BY <3>1, <3>3, <3>4 DEF call
  <2> QED
    BY <2>1, <2>2
<1>8. PICK call \in Calls : /\ stack' = SetTop(s, call)
                            /\ call.dir.id = Top(s).dir.id /\ call.dir.path = Top(s).dir.path
                            /\ call.seen = {} /\ call.todo = {}
  BY <1>7
<1>9. CallOK(drive, call, "index")
  BY <1>2, <1>8 DEF CallOK
<1>10. InHand(drive, "enter", job[s]) = {} /\ InHand(drive, "index", job'[s]) = {}
  BY DEF InHand
<1>11. Taken(drive, call, {}) = Taken(drive, Top(s), {})
  BY <1>2, <1>8 DEF Taken, CallOK
<1>12. AppendOK(drive, "index", stack'[s], job'[s], maps[filesMapData])
  BY DEF AppendOK
<1>13. job'[s].map = NoMap /\ "index" \in ScanLabels
  BY <1>2, <1>3 DEF At, ScanLabels
<1> QED
  BY <1>1, <1>3, <1>5, <1>8, <1>9, <1>10, <1>11, <1>12, <1>13, TopStep

LEMMA ScanSaveListIndexData ==
    ASSUME TypeOK, NEW s \in Scanners, ScanInv(s), SaveListIndexData(s), faults' = 0
    PROVE  ScanInv(s)'
<1>1. pc[s] = "index" /\ pc[s] \in ScanLabels
  BY DEF SaveListIndexData, ScanLabels
<1>2. /\ Top(s) \in Calls /\ CallOK(drive, Top(s), "index")
      /\ At("index", stack[s], job[s])
  BY <1>1, OnItsWay
<1>3. /\ drive' = drive /\ maps' = maps /\ filesMapData' = filesMapData /\ job' = job
  BY DEF SaveListIndexData
<1>4. pc'[s] = "list" /\ stack' = SetTop(s, Top(s))
  BY <1>1, FaultCounts, SameTop DEF SaveListIndexData, Goto, TypeOK, ControlTypeOK
<1>5. CallOK(drive, Top(s), "list")
  BY <1>2 DEF CallOK
<1>6. InHand(drive, "index", job[s]) = {} /\ InHand(drive, "list", job'[s]) = {}
  BY DEF InHand
<1>7. AppendOK(drive, "list", stack'[s], job'[s], maps[filesMapData])
  BY DEF AppendOK
<1>8. job'[s].map = NoMap /\ "list" \in ScanLabels
  BY <1>2, <1>3 DEF At, ScanLabels
<1> QED
  BY <1>1, <1>2, <1>3, <1>4, <1>5, <1>6, <1>7, <1>8, TopStep

LEMMA ScanFileList ==
    ASSUME TypeOK, ProperTree(drive), NEW s \in Scanners, ScanInv(s), FileList(s)
    PROVE  ScanInv(s)'
<1>1. pc[s] = "list" /\ pc[s] \in ScanLabels
  BY DEF FileList, ScanLabels
<1>2. /\ Top(s) \in Calls /\ CallOK(drive, Top(s), "list")
      /\ At("list", stack[s], job[s])
  BY <1>1, OnItsWay
<1>3. /\ drive' = drive /\ maps' = maps /\ filesMapData' = filesMapData /\ job' = job
      /\ drive \in Trees
  BY DEF FileList, catalogVars, TypeOK, CatalogTypeOK
<1>4. Exists(drive, Top(s).dir.id)
  BY <1>2 DEF CallOK, Exists, Folders
<1>5. pc'[s] = "items"
  BY <1>4 DEF FileList, Goto, TypeOK, ControlTypeOK
<1>6. PICK page \in Pages(s) :
         stack' = SetTop(s, [Top(s) EXCEPT !.seen = @ \cup {n.id : n \in page},
                                           !.todo = page,
                                           !.more = MorePages(s, page)])
  BY <1>4 DEF FileList
<1> DEFINE call == [Top(s) EXCEPT !.seen = @ \cup {n.id : n \in page},
                                  !.todo = page,
                                  !.more = MorePages(s, page)]
<1>7. page \subseteq Rest(s)
  BY DEF Pages
<1>8. page \subseteq Children(drive, Top(s).dir.id) /\ page \subseteq drive
  BY <1>7 DEF Rest, Children
<1>9. call \in Calls
  <2>1. page \subseteq Nodes /\ {n.id : n \in page} \subseteq Ids
    BY <1>3, <1>8 DEF Nodes, Ids
  <2>2. MorePages(s, page) \in BOOLEAN
    BY DEF MorePages
  <2> QED
    BY <1>2, <2>1, <2>2 DEF Calls
<1>10. /\ call.dir = Top(s).dir /\ call.todo = page
       /\ call.seen = Top(s).seen \cup {n.id : n \in page}
       /\ call.more = MorePages(s, page)
  BY <1>2 DEF Calls
<1> HIDE DEF call
<1>11. CallOK(drive, call, "items")
  <2>1. ~call.more => \A n \in Children(drive, Top(s).dir.id) : n.id \in call.seen
    BY <1>10 DEF MorePages, Rest
  <2> QED
    BY <1>2, <1>8, <1>10, <2>1 DEF CallOK
<1>12. InHand(drive, "list", job[s]) = {} /\ InHand(drive, "items", job'[s]) = {}
  BY DEF InHand
<1>13. Taken(drive, call, {}) = Taken(drive, Top(s), {})
  <2>1. Top(s).todo = {}
    BY <1>2 DEF CallOK
  <2>2. \A n \in page : n.id \notin Top(s).seen
    BY <1>7 DEF Rest
  <2>3. \A n \in Children(drive, Top(s).dir.id) :
           (n.id \in call.seen /\ n \notin page) <=> n.id \in Top(s).seen
    BY <1>8, <1>10, <2>2 DEF ProperTree, Children
  <2> QED
    BY <1>10, <2>1, <2>3 DEF Taken
<1>14. AppendOK(drive, "items", stack'[s], job'[s], maps[filesMapData])
  BY DEF AppendOK
<1>15. job'[s].map = NoMap /\ "items" \in ScanLabels
  BY <1>2, <1>3 DEF At, ScanLabels
<1>16. stack' = SetTop(s, call) /\ call.dir.id = Top(s).dir.id
  BY <1>6, <1>10 DEF call
<1> QED
  BY <1>1, <1>3, <1>5, <1>9, <1>11, <1>12, <1>13, <1>14, <1>15, <1>16, TopStep

LEMMA ScanLoadSlice ==
    ASSUME TypeOK, ProperTree(drive), NEW s \in Scanners, ScanInv(s), LoadSlice(s)
    PROVE  ScanInv(s)'
<1>1. pc[s] = "items" /\ pc[s] \in ScanLabels
  BY DEF LoadSlice, ScanLabels
<1>2. Top(s) \in Calls /\ CallOK(drive, Top(s), "items")
  BY <1>1, OnItsWay
<1>3. /\ drive' = drive /\ maps' = maps /\ filesMapData' = filesMapData
      /\ drive \in Trees
  BY DEF LoadSlice, catalogVars, TypeOK, CatalogTypeOK
<1>4. pc'[s] = "append" /\ "append" \in ScanLabels
  BY DEF LoadSlice, Goto, TypeOK, ControlTypeOK, ScanLabels
<1> DEFINE key == MapKey(Top(s).dir.path)
           old == SliceOf(maps[filesMapData], key)
<1>5. PICK n \in Top(s).todo :
         /\ job' = [job EXCEPT ![s] = Job(filesMapData, key,
                      Append(old, FileAt(n, Append(Top(s).dir.path, n.name))), {}, {})]
         /\ stack' = SetTop(s, [Top(s) EXCEPT !.todo = @ \ {n}])
  BY DEF LoadSlice, Slice, SliceOf
<1> DEFINE item == FileAt(n, Append(Top(s).dir.path, n.name))
           call == [Top(s) EXCEPT !.todo = @ \ {n}]
<1>6. n \in Children(drive, Top(s).dir.id) /\ n \in drive /\ n.parent = Top(s).dir.id
  BY <1>2 DEF CallOK, Children
<1>7. item = ItemOf(drive, n) /\ key = MapKey(PathOf(drive, n.parent))
  BY <1>2, <1>6 DEF ItemOf, CallOK
<1>8. item \in File /\ item.id = n.id
  BY <1>2, <1>3, <1>6, ItemType, CatalogAssumption, TreeNodes DEF Calls, File, FileAt
<1>9. old \in Seq(File)
  BY EmptySeq DEF SliceOf, TypeOK, HeapTypeOK
<1>10. /\ Append(old, item) \in Seq(File)
       /\ Append(old, item)[Len(Append(old, item))] = item
  BY <1>8, <1>9, AppendProperties
<1>11. /\ job'[s].map = filesMapData /\ job'[s].key = key
       /\ job'[s].value = Append(old, item)
  BY <1>5 DEF Job, TypeOK, ControlTypeOK
<1>12. /\ call.dir = Top(s).dir /\ call.todo = Top(s).todo \ {n}
       /\ call.seen = Top(s).seen /\ call.more = Top(s).more /\ call \in Calls
  BY <1>2 DEF Calls
<1>13. stack' = SetTop(s, call)
  BY <1>5
<1> HIDE DEF call, item, old
<1>14. InHand(drive, "append", job'[s]) = {n}
  BY <1>6, <1>8, <1>10, <1>11 DEF InHand, ProperTree
<1>15. InHand(drive, "items", job[s]) = {}
  BY DEF InHand
<1>16. CallOK(drive, call, "append")
  BY <1>2, <1>12 DEF CallOK
<1>17. Taken(drive, call, {n}) = Taken(drive, Top(s), {})
  BY <1>12 DEF Taken
<1>18. AppendOK(drive, "append", stack'[s], job'[s], maps[filesMapData])
  <2>1. stack'[s][Len(stack'[s])] = call
    <3>1. stack'[s] = [stack[s] EXCEPT ![Len(stack[s])] = call]
      BY <1>13 DEF SetTop, TypeOK, ControlTypeOK
    <3>2. stack[s] \in Seq(Calls) /\ Len(stack[s]) \in 1 .. Len(stack[s])
      BY <1>1, OnItsWay
    <3> QED
      BY <1>12, <3>1, <3>2, ExceptSeq
  <2>2. n.id \in call.seen /\ n \notin call.todo
    BY <1>2, <1>12 DEF CallOK
  <2>3. job'[s].value = Append(SliceOf(maps[filesMapData], job'[s].key), ItemOf(drive, n))
    BY <1>7, <1>11 DEF old
  <2>4. job'[s].key = MapKey(PathOf(drive, n.parent)) /\ n \in Children(drive, call.dir.id)
    BY <1>6, <1>7, <1>11, <1>12
  <2> QED
    BY <2>1, <2>2, <2>3, <2>4 DEF AppendOK
<1> HIDE DEF key
<1>19. call.dir.id = Top(s).dir.id
  BY <1>12
<1>20. InHand(drive, pc'[s], job'[s]) = {n} /\ InHand(drive, pc[s], job[s]) = {}
  BY <1>1, <1>4, <1>14, <1>15
<1>21. n \in Children(drive, call.dir.id)
  BY <1>6, <1>19
<1> QED
  BY <1>1, <1>3, <1>4, <1>11, <1>12, <1>13, <1>16, <1>17, <1>18, <1>19, <1>20, <1>21, TopStep

LEMMA ScanStoreSlice ==
    ASSUME TypeOK, ProperTree(drive), FolderKeysApart(drive),
           NEW s \in Scanners, ScanInv(s), StoreSlice(s)
    PROVE  ScanInv(s)'
<1> DEFINE st   == stack[s]
           j    == job[s]
           map  == maps[filesMapData]
           item == j.value[Len(j.value)]
<1>1. pc[s] = "append" /\ pc[s] \in ScanLabels
  BY DEF StoreSlice, ScanLabels
<1>2. /\ st \in Seq(Calls) /\ Len(st) \in Nat \ {0}
      /\ Scanning(drive, "append", st, j, map) /\ At("append", st, j)
  BY <1>1, OnItsWay
<1>3. /\ drive' = drive /\ filesMapData' = filesMapData /\ drive \in Trees
      /\ filesMapData \in MapId
  BY DEF StoreSlice, catalogVars, TypeOK, CatalogTypeOK, HeapTypeOK
<1>4. j.map = filesMapData
  BY <1>2 DEF ScanInv, At
<1>5. job'[s] = NoJob /\ NoJob.map = NoMap
  BY DEF StoreSlice, TypeOK, ControlTypeOK, NoJob, Job
<1>6. maps'[filesMapData] = Put(map, j.key, j.value)
  BY <1>3, <1>4 DEF StoreSlice, TypeOK, HeapTypeOK, Collected, Live
<1>7. PICK n \in Children(drive, st[Len(st)].dir.id) :
         /\ n.id \in st[Len(st)].seen /\ n \notin st[Len(st)].todo
         /\ j.key = MapKey(PathOf(drive, n.parent))
         /\ j.value = Append(SliceOf(map, j.key), ItemOf(drive, n))
  BY <1>2 DEF Scanning, AppendOK
<1>8. n \in drive
  BY DEF Children
<1>9. SliceOf(map, j.key) \in Seq(File) /\ \A k \in DOMAIN map : map[k] \in Seq(File)
  BY <1>3, EmptySeq DEF SliceOf, TypeOK, HeapTypeOK
<1>10. ItemOf(drive, n) \in File
  <2>1. Len(st) \in 1 .. Len(st)
    BY <1>2
  <2>2. st[Len(st)] \in Calls
    BY <1>2, <2>1, ElementOfSeq
  <2>3. PathOf(drive, n.parent) = st[Len(st)].dir.path
    <3>1. Top(s) = st[Len(st)] /\ CallOK(drive, Top(s), "append")
      BY <1>1, OnItsWay
    <3> QED
      BY <3>1 DEF CallOK, Children
  <2>4. PathOf(drive, n.parent) \in Path /\ n \in Nodes
    BY <1>3, <1>8, <2>2, <2>3, TreeNodes DEF Calls, File
  <2> QED
    BY <2>4, ItemType, CatalogAssumption DEF ItemOf
<1>11. item = ItemOf(drive, n)
  BY <1>7, <1>9, <1>10, AppendProperties
<1>12. item.id = n.id /\ item.dir = n.dir /\ item.path = PathOf(drive, n.id)
  BY <1>3, <1>8, <1>11, PathOfItem DEF ItemOf, FileAt
<1> HIDE DEF item
<1>13. InHand(drive, "append", j) = {n}
  BY <1>8, <1>12 DEF InHand, ProperTree, item
<1>14. PICK got \in SUBSET drive : Holds(drive, map, got) /\ Under(drive, "append", st, {n}, got)
  BY <1>2, <1>13 DEF Scanning
<1>15. n \notin got
  BY <1>2, <1>14, NotYetIn DEF Under
<1>16. /\ IF item.dir THEN /\ stack' = [stack EXCEPT ![s] = Append(@, Call(item))]
                          /\ Goto(s, "enter")
                     ELSE UNCHANGED stack /\ Goto(s, "items")
  BY DEF StoreSlice, item
<1> HIDE DEF st, map, j
<1>17. Holds(drive, Put(map, j.key, j.value), got \cup {n})
  BY <1>3, <1>7, <1>8, <1>9, <1>10, <1>14, <1>15, HoldsOneMore
<1>18. got \cup {n} \in SUBSET drive
  BY <1>8
<1>19. CASE item.dir
  <2>1. pc'[s] = "enter" /\ stack'[s] = Append(st, Call(item))
    BY <1>16, <1>19 DEF Goto, TypeOK, ControlTypeOK, st
  <2>2. item \in File /\ n.dir
    BY <1>10, <1>11, <1>12, <1>19
  <2>3. Under(drive, "enter", Append(st, Call(item)), {}, got \cup {n})
    BY <1>2, <1>3, <1>7, <1>8, <1>12, <1>14, <2>2, UnderAddFolder
  <2>4. InHand(drive, "enter", NoJob) = {} /\ AppendOK(drive, "enter", stack'[s], NoJob, maps'[filesMapData])
    BY DEF InHand, AppendOK
  <2>5. Scanning(drive, "enter", stack'[s], NoJob, maps'[filesMapData])
    BY <1>6, <1>17, <1>18, <2>1, <2>3, <2>4 DEF Scanning, map, j
  <2>6. Scanning(drive, pc[s], stack[s], job[s], maps[filesMapData])'
    BY <1>3, <1>5, <2>1, <2>5
  <2> QED
    BY <1>5, <2>1, <2>6, ScanInvScanning DEF ScanLabels
<1>20. CASE ~item.dir
  <2>1. pc'[s] = "items" /\ stack'[s] = st
    BY <1>16, <1>20 DEF Goto, TypeOK, ControlTypeOK, st
  <2>2. ~n.dir
    BY <1>12, <1>20
  <2>3. Under(drive, "items", st, {}, got \cup {n})
    BY <1>2, <1>7, <1>8, <1>14, <2>2, UnderAddFile
  <2>4. InHand(drive, "items", NoJob) = {} /\ AppendOK(drive, "items", stack'[s], NoJob, maps'[filesMapData])
    BY DEF InHand, AppendOK
  <2>5. Scanning(drive, "items", stack'[s], NoJob, maps'[filesMapData])
    BY <1>6, <1>17, <1>18, <2>1, <2>3, <2>4 DEF Scanning, map, j
  <2>6. Scanning(drive, pc[s], stack[s], job[s], maps[filesMapData])'
    BY <1>3, <1>5, <2>1, <2>5
  <2> QED
    BY <1>5, <2>1, <2>6, ScanInvScanning DEF ScanLabels
<1> QED
  BY <1>19, <1>20

LEMMA ScanEndPage ==
    ASSUME TypeOK, ProperTree(drive), NEW s \in Scanners, ScanInv(s), EndPage(s)
    PROVE  ScanInv(s)'
<1> DEFINE st  == stack[s]
           map == maps[filesMapData]
<1>1. pc[s] = "items" /\ pc[s] \in ScanLabels /\ Top(s).todo = {}
  BY DEF EndPage, ScanLabels
<1>2. /\ st \in Seq(Calls) /\ Len(st) \in Nat \ {0}
      /\ Top(s) = st[Len(st)] /\ Top(s) \in Calls
      /\ CallOK(drive, Top(s), "items") /\ Scanning(drive, "items", st, job[s], map)
      /\ At("items", st, job[s])
  BY <1>1, OnItsWay
<1>3. /\ drive' = drive /\ maps' = maps /\ filesMapData' = filesMapData
      /\ cache' = cache
  BY DEF EndPage, catalogVars
<1>4. InHand(drive, "items", job[s]) = {} /\ job[s].map = NoMap
  BY <1>2 DEF InHand, At
<1>5. PICK got \in SUBSET drive : Holds(drive, map, got) /\ Under(drive, "items", st, {}, got)
  BY <1>2, <1>4 DEF Scanning
<1>6. CASE Top(s).more
  <2>1. pc'[s] = "list" /\ stack' = SetTop(s, Top(s)) /\ job' = job
    BY <1>1, <1>6, SameTop DEF EndPage, Goto, TypeOK, ControlTypeOK
  <2>2. CallOK(drive, Top(s), "list")
    BY <1>1, <1>2 DEF CallOK
  <2>3. InHand(drive, "list", job'[s]) = {} /\ AppendOK(drive, "list", stack'[s], job'[s], map)
    BY DEF InHand, AppendOK
  <2>4. "list" \in ScanLabels
    BY DEF ScanLabels
  <2> QED
    BY <1>1, <1>2, <1>3, <1>4, <2>1, <2>2, <2>3, <2>4, TopStep
<1>7. CASE ~Top(s).more /\ Len(st) > 1
  <2> DEFINE new == SubSeq(st, 1, Len(st) - 1)
  <2>1. pc'[s] = "items" /\ stack'[s] = new /\ job' = job
    <3>1. stack' = [stack EXCEPT ![s] = new] /\ pc' = pc /\ job' = job
      <4>1. Len(stack[s]) # 1
        <5>1. \A k \in Nat : k > 1 => k # 1
          OBVIOUS
        <5> QED
          BY <1>2, <1>7, <5>1
      <4> QED
        BY <1>1, <1>7, <4>1 DEF EndPage
    <3> HIDE DEF new
    <3> QED
      BY <1>1, <3>1 DEF TypeOK, ControlTypeOK
  <2>2. Under(drive, "items", new, {}, got)
    BY <1>1, <1>2, <1>5, <1>7, UnderPop
  <2>3. AppendOK(drive, "items", new, job[s], map)
    BY DEF AppendOK
  <2> HIDE DEF new
  <2>4. Scanning(drive, "items", new, job[s], map)
    BY <1>4, <1>5, <2>2, <2>3 DEF Scanning
  <2>5. Scanning(drive, pc[s], stack[s], job[s], maps[filesMapData])'
    BY <1>3, <2>1, <2>4
  <2> QED
    BY <1>4, <2>1, <2>5, ScanInvScanning DEF ScanLabels
<1>8. CASE ~Top(s).more /\ ~(Len(st) > 1)
  <2>1. Len(st) = 1
    <3>1. \A k \in Nat \ {0} : ~(k > 1) => k = 1
      OBVIOUS
    <3> QED
      BY <1>2, <1>8, <3>1
  <2>2. pc'[s] = "next" /\ job'[s] = Job(filesMapData, << >>, << >>, DOMAIN map, {})
    BY <1>8 DEF EndPage, Goto, TypeOK, ControlTypeOK
  <2>3. job'[s].map = filesMapData /\ job'[s].due = DOMAIN map
    BY <2>2 DEF Job
  <2>4. got = drive
    BY <1>1, <1>2, <1>5, <1>8, <2>1, UnderEnd
  <2>5. Saving(drive, "next", job'[s], map, cache)
    BY <1>5, <2>3, <2>4 DEF Saving
  <2>6. Saving(drive, pc[s], job[s], maps[filesMapData], cache)'
    BY <1>3, <2>2, <2>5
  <2> QED
    BY <1>3, <2>2, <2>3, <2>6, ScanInvSaving
<1> QED
  BY <1>6, <1>7, <1>8

(* SaveFile.                                                               *)
LEMMA ScanNextKey ==
    ASSUME TypeOK, NEW s \in Scanners, ScanInv(s), NextKey(s)
    PROVE  ScanInv(s)'
<1> DEFINE map == maps[filesMapData]
           j == job[s]
<1>1. pc[s] = "next" /\ At("next", stack[s], j)
  BY DEF NextKey, TypeOK, ControlTypeOK
<1>2. j.map = filesMapData /\ Saving(drive, "next", j, map, cache)
  BY <1>1 DEF ScanInv, At
<1>3. /\ drive' = drive /\ maps' = maps /\ filesMapData' = filesMapData
      /\ cache' = cache /\ pc'[s] = "files"
  BY DEF NextKey, catalogVars, Goto, TypeOK, ControlTypeOK
<1>4. PICK key \in DOMAIN map :
         job'[s] = Job(filesMapData, key, map[key], j.due \ {key}, j.done \cup {key})
  BY <1>2 DEF NextKey, TypeOK, ControlTypeOK
<1>5. /\ job'[s].map = filesMapData /\ job'[s].key = key /\ job'[s].value = map[key]
      /\ job'[s].due = j.due \ {key}
  BY <1>4 DEF Job
<1> HIDE DEF map, j
<1>6. Saving(drive, "files", job'[s], map, cache)
  BY <1>2, <1>5 DEF Saving
<1>7. Saving(drive, pc[s], job[s], maps[filesMapData], cache)'
  BY <1>3, <1>6 DEF map
<1> QED
  BY <1>3, <1>5, <1>7, ScanInvSaving

(* No write under another key takes the listing of a folder away.          *)
LEMMA StillSaved ==
    ASSUME NEW tree, NEW map, NEW label, NEW j, NEW j2, NEW db, NEW key, NEW record,
           Saving(tree, label, j, map, db),
           \A k \in DOMAIN map : k # j.key => makePathKey(<<k>>) # key,
           label = "files", j2.key = j.key, j2.value = j.value, j2.due = j.due
    PROVE  Saving(tree, "files", j2, map, Put(db, key, record))
<1>1. \A k \in DOMAIN map :
         \/ k \in j2.due
         \/ k = j2.key
         \/ /\ makePathKey(<<k>>) \in DOMAIN Put(db, key, record)
            /\ Put(db, key, record)[makePathKey(<<k>>)] = ListRecord(map[k])
  BY DEF Saving, Put
<1> QED
  BY <1>1 DEF Saving

LEMMA ScanPutItem ==
    ASSUME TypeOK, ProperTree(drive), FolderKeysApart(drive),
           NEW s \in Scanners, ScanInv(s), PutItem(s), faults' = 0
    PROVE  ScanInv(s)'
<1> DEFINE map == maps[filesMapData]
           j == job[s]
           item == j.value[j.pos]
<1>1. pc[s] = "files" /\ At("files", stack[s], j)
  BY DEF PutItem, TypeOK, ControlTypeOK
<1>2. j.map = filesMapData /\ Saving(drive, "files", j, map, cache)
  BY <1>1 DEF ScanInv, At
<1>3. /\ drive' = drive /\ maps' = maps /\ filesMapData' = filesMapData
      /\ pc'[s] = "files" /\ drive \in Trees
  BY <1>1 DEF PutItem, TypeOK, CatalogTypeOK
<1>4. cache' = IF item.dir THEN cache ELSE Put(cache, makePathKey(item.path), FileRecord(item))
  BY FaultCounts DEF PutItem, ItemKey
<1>5. /\ job'[s].map = j.map /\ job'[s].key = j.key /\ job'[s].value = j.value
      /\ job'[s].due = j.due
  <2>1. IsJob(j)
    BY <1>1 DEF At
  <2>2. job'[s] = [j EXCEPT !.pos = @ + 1]
    BY DEF PutItem, TypeOK, ControlTypeOK
  <2>3. j = [map |-> j.map, key |-> j.key, value |-> j.value,
             due |-> j.due, done |-> j.done, pos |-> j.pos]
    BY <2>1 DEF IsJob
  <2> HIDE DEF j
  <2> QED
    BY <2>2, <2>3
<1>6. PICK f \in Folders(drive) : j.key = MapKey(PathOf(drive, f))
  BY <1>2 DEF Saving, Holds
<1>7. Lists(j.value, drive, Children(drive, f))
  <2>1. j.value = SliceOf(map, j.key)
    BY <1>2 DEF Saving, SliceOf
  <2>2. Children(drive, f) \cap drive = Children(drive, f)
    BY DEF Children
  <2> QED
    BY <1>2, <1>6, <2>1, <2>2 DEF Saving, Holds
<1>8. PICK n \in Children(drive, f) : item = ItemOf(drive, n)
  <2>1. j.pos \in 1 .. Len(j.value)
    <3>1. j.pos \in 1 .. Len(j.value) + 1 /\ j.pos <= Len(j.value) /\ Len(j.value) \in Nat
      BY <1>1, LenProperties DEF At, IsJob, PutItem
    <3> QED
      BY <3>1
  <2> QED
    BY <1>7, <2>1 DEF Lists
<1>9. n \in drive /\ item.dir = n.dir /\ item.path = PathOf(drive, n.id)
  BY <1>3, <1>8, PathOfItem DEF ItemOf, FileAt, Children
<1>10. CASE ~item.dir
  <2>1. ASSUME NEW k \in DOMAIN map
        PROVE  makePathKey(<<k>>) # makePathKey(item.path)
    <3>1. PICK g \in Folders(drive) : k = MapKey(PathOf(drive, g))
      BY <1>2 DEF Saving, Holds
    <3>2. makePathKey(<<k>>) = makePathKey(PathOf(drive, g))
      BY <3>1, ListingKey
    <3>3. g # n.id
      BY <1>3, <1>9, <1>10, TreeNodes DEF Folders, ProperTree
    <3>4. n.id \in ItemIds(drive)
      BY <1>9 DEF ItemIds
    <3> QED
      BY <1>9, <3>2, <3>3, <3>4 DEF FolderKeysApart
  <2> DEFINE key == makePathKey(item.path)
             record == FileRecord(item)
  <2>2. cache' = Put(cache, key, record)
    BY <1>4, <1>10
  <2> HIDE DEF item, map, j, key, record
  <2>3. Saving(drive, "files", job'[s], map, cache')
    BY <1>2, <1>5, <2>1, <2>2, StillSaved DEF key
  <2>4. Saving(drive, pc[s], job[s], maps[filesMapData], cache)'
    BY <1>3, <2>3 DEF map
  <2> QED
    BY <1>2, <1>3, <1>5, <2>4, ScanInvSaving
<1>11. CASE item.dir
  <2>1. cache' = cache
    BY <1>4, <1>11
  <2> HIDE DEF item, map, j
  <2>2. Saving(drive, "files", job'[s], map, cache')
    BY <1>2, <1>5, <2>1 DEF Saving
  <2>3. Saving(drive, pc[s], job[s], maps[filesMapData], cache)'
    BY <1>3, <2>2 DEF map
  <2> QED
    BY <1>2, <1>3, <1>5, <2>3, ScanInvSaving
<1> QED
  BY <1>10, <1>11

LEMMA ScanPutListing ==
    ASSUME TypeOK, FolderKeysApart(drive), NEW s \in Scanners, ScanInv(s),
           PutListing(s), faults' = 0
    PROVE  ScanInv(s)'
<1> DEFINE map == maps[filesMapData]
           j == job[s]
           key == makePathKey(<<j.key>>)
<1>1. pc[s] = "files" /\ At("files", stack[s], j)
  BY DEF PutListing, TypeOK, ControlTypeOK
<1>2. j.map = filesMapData /\ Saving(drive, "files", j, map, cache)
  BY <1>1 DEF ScanInv, At
<1>3. /\ drive' = drive /\ maps' = maps /\ filesMapData' = filesMapData
      /\ pc'[s] = "next"
  BY DEF PutListing, Goto, TypeOK, ControlTypeOK
<1>4. cache' = Put(cache, key, ListRecord(j.value))
  BY FaultCounts DEF PutListing
<1>5. job'[s].map = j.map /\ job'[s].due = j.due
  BY DEF PutListing, TypeOK, ControlTypeOK, Job
<1>6. ASSUME NEW k \in DOMAIN map, k # j.key
      PROVE  makePathKey(<<k>>) # key
  <2>1. j.key \in DOMAIN map
    BY <1>2 DEF Saving
  <2>2. PICK f \in Folders(drive) : k = MapKey(PathOf(drive, f))
    BY <1>2 DEF Saving, Holds
  <2>3. PICK g \in Folders(drive) : j.key = MapKey(PathOf(drive, g))
    BY <1>2, <2>1 DEF Saving, Holds
  <2>4. /\ makePathKey(<<k>>) = makePathKey(PathOf(drive, f))
        /\ key = makePathKey(PathOf(drive, g))
    BY <2>2, <2>3, ListingKey
  <2>5. f # g
    BY <1>6, <2>2, <2>3
  <2>6. g \in ItemIds(drive)
    BY DEF Folders, ItemIds
  <2> QED
    BY <2>4, <2>5, <2>6 DEF FolderKeysApart
<1>7. \A k \in DOMAIN map :
         \/ k \in j.due
         \/ /\ makePathKey(<<k>>) \in DOMAIN cache'
            /\ cache'[makePathKey(<<k>>)] = ListRecord(map[k])
  <2> TAKE k \in DOMAIN map
  <2>1. CASE k = j.key
    <3>1. j.value = map[k]
      BY <1>2, <2>1 DEF Saving
    <3> QED
      BY <1>4, <2>1, <3>1 DEF Put
  <2>2. CASE k # j.key
    <3>1. \/ k \in j.due
          \/ /\ makePathKey(<<k>>) \in DOMAIN cache
             /\ cache[makePathKey(<<k>>)] = ListRecord(map[k])
      BY <1>2, <2>2 DEF Saving
    <3>2. makePathKey(<<k>>) # key
      BY <1>6, <2>2
    <3> HIDE DEF key
    <3> QED
      BY <1>4, <3>1, <3>2 DEF Put
  <2> QED
    BY <2>1, <2>2
<1> HIDE DEF map, j
<1>8. Saving(drive, "next", job'[s], map, cache')
  BY <1>2, <1>5, <1>7 DEF Saving
<1>9. Saving(drive, pc[s], job[s], maps[filesMapData], cache)'
  BY <1>3, <1>8 DEF map
<1> QED
  BY <1>2, <1>3, <1>5, <1>9, ScanInvSaving

(* SaveFile returns: the listing of every folder that holds something      *)
(* shows it.                                                               *)
LEMMA SavedIsComplete ==
    ASSUME TypeOK, ProperTree(drive), NEW j, NEW map,
           \A k \in DOMAIN map : map[k] \in Seq(File),
           Saving(drive, "next", j, map, cache), j.due = {}
    PROVE  Complete
<1> SUFFICES ASSUME NEW id \in Filled(drive) PROVE ShowsFolder(drive, id)
  BY DEF Complete
<1> DEFINE k     == MapKey(PathOf(drive, id))
           nodes == Children(drive, id)
           list  == map[k]
           key   == makePathKey(PathOf(drive, id))
<1>1. id \in Folders(drive) /\ nodes # {} /\ nodes \in SUBSET drive /\ drive \in Trees
  BY DEF Filled, Children, TypeOK, CatalogTypeOK
<1>2. Lists(SliceOf(map, k), drive, nodes)
  <2>1. nodes \cap drive = nodes
    BY DEF Children
  <2> QED
    BY <1>1, <2>1 DEF Saving, Holds
<1>3. k \in DOMAIN map
  <2> SUFFICES ASSUME k \notin DOMAIN map PROVE FALSE
    OBVIOUS
  <2>1. Lists(<< >>, drive, nodes)
    BY <1>2 DEF SliceOf
  <2>2. 1 .. Len(<< >>) = {}
    OBVIOUS
  <2> QED
    BY <1>1, <2>1, <2>2 DEF Lists
<1>4. Lists(list, drive, nodes) /\ list \in Seq(File)
  BY <1>2, <1>3 DEF SliceOf
<1>5. key \in DOMAIN cache /\ cache[key] = ListRecord(list)
  <2>1. makePathKey(<<k>>) = key
    BY ListingKey
  <2> QED
    BY <1>3, <2>1 DEF Saving
<1>6. Len(list) = Cardinality(nodes)
  BY <1>1, <1>4, ListsCount
<1>7. {list[i] : i \in 1 .. Len(list)} = {FileAt(n, Append(PathOf(drive, id), n.name)) : n \in nodes}
  <2>1. \A n \in nodes : ItemOf(drive, n) = FileAt(n, Append(PathOf(drive, id), n.name))
    BY DEF ItemOf, Children
  <2> QED
    BY <1>4, <2>1 DEF Lists
<1>8. cache[key].kind = "list" /\ cache[key].list = list
  BY <1>5 DEF ListRecord
<1> QED
  BY <1>5, <1>6, <1>7, <1>8 DEF ShowsFolder, Listing

LEMMA CompleteStays ==
    ASSUME Complete, drive' = drive, cache' = cache PROVE Complete'
<1> SUFFICES ASSUME NEW id \in Filled(drive) PROVE ShowsFolder(drive, id)'
  BY DEF Complete
<1>1. ShowsFolder(drive, id)
  BY DEF Complete
<1>2. cache'[makePathKey(PathOf(drive', id))] = cache[makePathKey(PathOf(drive, id))]
  OBVIOUS
<1> QED
  BY <1>1, <1>2 DEF ShowsFolder, Listing

LEMMA ScanEndRange ==
    ASSUME TypeOK, ProperTree(drive), NEW s \in Scanners, ScanInv(s), EndRange(s)
    PROVE  ScanInv(s)'
<1> DEFINE map == maps[filesMapData]
           j == job[s]
<1>1. pc[s] = "next" /\ j.due = {}
  BY DEF EndRange, AllKeysVisited
<1>2. Saving(drive, "next", j, map, cache)
  BY <1>1 DEF ScanInv
<1>3. /\ drive' = drive /\ cache' = cache /\ pc'[s] = "idle"
  BY DEF EndRange, catalogVars, Goto, TypeOK, ControlTypeOK
<1>4. job'[s] = NoJob /\ NoJob.map = NoMap
  BY DEF EndRange, TypeOK, ControlTypeOK, NoJob, Job
<1>5. \A k \in DOMAIN map : map[k] \in Seq(File)
  BY DEF TypeOK, HeapTypeOK
<1> HIDE DEF map, j
<1>6. Complete
  BY <1>1, <1>2, <1>5, SavedIsComplete
<1>7. Complete'
  BY <1>3, <1>6, CompleteStays
<1> QED
  BY <1>3, <1>4, <1>7 DEF ScanInv, ScanLabels

-----------------------------------------------------------------------------

(* A drive the API can show, and no two things of it with one key.         *)
OneScanner   == \A s, t \in Scanners : s = t
ProperDrives == \A tree \in Trees : ProperTree(tree) /\ FolderKeysApart(tree)

LEMMA UndisturbedInit == ASSUME Init PROVE Undisturbed
BY DEF Init, Fresh, Undisturbed, ScanInv, ScanLabels, NoJob, Job

LEMMA UndisturbedScan ==
    ASSUME TypeOK, ProperTree(drive), FolderKeysApart(drive),
           NEW s \in Scanners, ScanInv(s), Step(s), faults' = 0
    PROVE  ScanInv(s)'
<1>1. \/ ListAllFile(s) \/ FetchDir(s) \/ SaveListIndexData(s) \/ FileList(s)
      \/ LoadSlice(s) \/ StoreSlice(s) \/ EndPage(s)
      \/ NextKey(s) \/ PutItem(s) \/ PutListing(s) \/ EndRange(s)
  BY DEF Step
<1> QED
  BY <1>1, ScanListAllFile, ScanFetchDir, ScanSaveListIndexData,
     ScanFileList, ScanLoadSlice, ScanStoreSlice, ScanEndPage, ScanNextKey,
     ScanPutItem, ScanPutListing, ScanEndRange

LEMMA UndisturbedStep ==
    ASSUME OneScanner, ProperDrives, TypeOK, Undisturbed, [Next]_vars
    PROVE  Undisturbed'
<1> SUFFICES ASSUME faults' = 0, NEW s \in Scanners
             PROVE  ScanInv(s)'
  BY DEF Undisturbed
<1>1. faults = 0
  <2>1. faults' = faults \/ faults' = faults + 1
    BY DEF Next, ScanNext, Step, vars, catalogVars, Fault, DriveChanges, Crash, CallFails,
           ListAllFile, FetchDir, SaveListIndexData, FileList, LoadSlice, StoreSlice,
           EndPage, NextKey, PutItem, PutListing, EndRange
  <2> QED
    BY <2>1, CatalogAssumption DEF TypeOK, CatalogTypeOK, CatalogAssumption
<1>2. ScanInv(s)
  BY <1>1 DEF Undisturbed
<1>3. ProperTree(drive) /\ FolderKeysApart(drive)
  BY DEF ProperDrives, TypeOK, CatalogTypeOK
<1>4. CASE UNCHANGED vars
  <2>1. /\ pc'[s] = pc[s] /\ job'[s] = job[s] /\ stack'[s] = stack[s]
        /\ maps'[filesMapData'] = maps[filesMapData] /\ filesMapData' = filesMapData
        /\ drive' = drive /\ cache' = cache /\ outcome'[s] = outcome[s]
    BY <1>4 DEF vars, catalogVars, scanVars
  <2>2. Scanning(drive, pc[s], stack[s], job[s], maps[filesMapData])' <=>
        Scanning(drive, pc[s], stack[s], job[s], maps[filesMapData])
    BY <2>1
  <2>3. Saving(drive, pc[s], job[s], maps[filesMapData], cache)' <=>
        Saving(drive, pc[s], job[s], maps[filesMapData], cache)
    BY <2>1
  <2>4. Complete => Complete'
    BY <2>1, CompleteStays
  <2> QED
    BY <1>2, <2>1, <2>2, <2>3, <2>4 DEF ScanInv
<1>5. CASE DriveChanges \/ Crash
  BY <1>5, FaultCounts DEF DriveChanges, Crash
<1>6. CASE \E t \in Scanners : CallFails(t)
  BY <1>6, FaultCounts DEF CallFails
<1>7. CASE \E t \in Scanners : Step(t)
  <2>1. Step(s)
    BY <1>7 DEF OneScanner
  <2> QED
    BY <1>2, <1>3, <2>1, UndisturbedScan
<1> QED
  BY <1>4, <1>5, <1>6, <1>7 DEF Next, ScanNext

(* The paths that the code computes tell items apart, one scan runs, no    *)
(* call of it fails and nothing changes meanwhile: when ListAllFile then   *)
(* returns nil, every folder that holds something has a listing that shows *)
(* what it holds, all of it and each item once, however many pages the API *)
(* took and whatever the order of the items.                               *)
THEOREM UndisturbedComplete ==
    ASSUME OneScanner, ProperDrives
    PROVE  Spec => []UndisturbedScanIsComplete
<1>1. Init => Undisturbed
  BY UndisturbedInit
<1>2. TypeOK /\ Undisturbed /\ [Next]_vars => Undisturbed'
  BY UndisturbedStep
<1>3. Undisturbed => UndisturbedScanIsComplete
  BY DEF Undisturbed, UndisturbedScanIsComplete, SuccessMeansComplete, Idle, ScanInv, Complete
<1> QED
  BY <1>1, <1>2, <1>3, TypeCorrect, PTL DEF Spec
=============================================================================
