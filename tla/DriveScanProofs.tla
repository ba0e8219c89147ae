-------------------------- MODULE DriveScanProofs --------------------------
(***************************************************************************)
(* Proofs about the scan, for every drive, every number of goroutines,     *)
(* every page size and every bound on the disturbances.                    *)
(***************************************************************************)
EXTENDS DriveScanProps, FiniteSetTheorems, SequenceTheorems, TLAPS

LOCAL INSTANCE SequencesExt

-----------------------------------------------------------------------------
(***************************************************************************)
(* Lemmas about the operators.                                             *)
(***************************************************************************)

(* A key is a path of one name: flattening it again changes nothing.       *)
LEMMA FlatOne == ASSUME NEW w PROVE Flat(<<w>>) = w
<1> DEFINE seqs == <<w>>
           P(f) == f = [i \in 1 .. Len(seqs) |->
                          IF i = 1 THEN seqs[i] ELSE f[i-1] \o seqs[i]]
           F == CHOOSE f : P(f)
<1>1. Len(seqs) = 1 /\ seqs[1] = w
  OBVIOUS
<1>2. P([i \in {1} |-> w])
  BY <1>1
<1>3. P(F)
  BY <1>2
<1>4. F[1] = w
  BY <1>1, <1>3
<1>5. Flat(<<w>>) = F[1]
  BY <1>1 DEF Flat, FlattenSeq
<1> QED
  BY <1>4, <1>5

(* The key of a folder's listing is the one its readers compute.           *)
LEMMA ListingKey == ASSUME NEW path
                    PROVE  makePathKey(<<MapKey(path)>>) = makePathKey(path)
BY FlatOne DEF makePathKey, MapKey

(* The parent of an item is the folder it was found in.                    *)
LEMMA ParentOf ==
    ASSUME NEW S, NEW node, NEW dir \in Seq(S), NEW name \in S
    PROVE  ParentPath(FileAt(node, Append(dir, name))) = dir
<1>1. /\ Append(dir, name) \in Seq(S)
      /\ Len(Append(dir, name)) = Len(dir) + 1
      /\ \A i \in 1 .. Len(dir) : Append(dir, name)[i] = dir[i]
  BY AppendProperties
<1>2. SubSeq(Append(dir, name), 1, Len(dir)) = dir
  <2> DEFINE p == SubSeq(Append(dir, name), 1, Len(dir))
  <2>1. Len(dir) \in Nat
    BY LenProperties
  <2>2. \A i \in 1 .. Len(dir) : Append(dir, name)[i] \in S
    BY <1>1, ElementOfSeq
  <2>3. /\ p \in Seq(S)
        /\ Len(p) = Len(dir)
        /\ \A i \in 1 .. Len(dir) : p[i] = dir[i]
    BY <1>1, <2>1, <2>2, SubSeqProperties
  <2> QED
    BY <2>3, SeqEqual
<1>3. Len(Append(dir, name)) - 1 = Len(dir)
  BY <1>1, LenProperties
<1> QED
  BY <1>2, <1>3 DEF ParentPath, FileAt

LEMMA ParentOfItem ==
    ASSUME NEW node, NEW dir \in Path, NEW name \in Names
    PROVE  ParentPath(FileAt(node, Append(dir, name))) = dir
<1> DEFINE S == Names \cup {RootName}
<1>1. dir \in Seq(S) /\ name \in S
  BY DEF Path
<1> HIDE DEF S
<1> QED
  BY <1>1, ParentOf

LEMMA RootDirType == RootDir \in File
BY DEF RootDir, File, Ids, Names, Path

LEMMA NodeType ==
    ASSUME CatalogAssumption, NEW n \in Nodes
    PROVE  n.id \in Ids /\ n.name \in Names /\ n.dir \in BOOLEAN
BY DEF CatalogAssumption, Ids, Names

LEMMA FileAtType ==
    ASSUME CatalogAssumption, NEW n \in Nodes, NEW path \in Path
    PROVE  FileAt(n, path) \in File
BY NodeType DEF FileAt, File

LEMMA ItemType ==
    ASSUME CatalogAssumption, NEW n \in Nodes, NEW path \in Path
    PROVE  FileAt(n, Append(path, n.name)) \in File
<1>1. n.name \in Names \cup {RootName}
  BY NodeType
<1>2. Append(path, n.name) \in Path
  BY <1>1, AppendProperties DEF Path
<1> QED
  BY <1>2, FileAtType

LEMMA CallType == ASSUME NEW dir \in File PROVE Call(dir) \in Calls
BY DEF Call, Calls

LEMMA MapIdType == ASSUME ScanAssumption PROVE 1 \in MapId /\ NoMap \notin MapId
<1>1. Cardinality(Scanners) \in Nat
  BY FS_CardinalityType DEF ScanAssumption
<1> QED
  BY <1>1 DEF MapId, NoMap

LEMMA NoJobType == IsJob(NoJob)
BY DEF IsJob, NoJob, Job

(* A job at the first item of its slice.                                   *)
LEMMA JobType ==
    ASSUME NEW m \in MapId, NEW key, NEW value \in Seq(File), NEW due, NEW done
    PROVE  /\ IsJob(Job(m, key, value, due, done))
           /\ Job(m, key, value, due, done).map = m
           /\ Job(m, key, value, due, done).value = value
<1>1. Len(value) \in Nat
  BY LenProperties
<1>2. \A k \in Nat : 1 \in 1 .. k + 1
  OBVIOUS
<1> QED
  BY <1>1, <1>2 DEF IsJob, Job

(* A job between two keys.                                                 *)
LEMMA EmptyJobType ==
    ASSUME NEW m \in MapId, NEW due, NEW done
    PROVE  /\ IsJob(Job(m, << >>, << >>, due, done))
           /\ Job(m, << >>, << >>, due, done).map = m
<1> DEFINE empty == << >>
<1>1. empty \in Seq(File)
  BY EmptySeq
<1> HIDE DEF empty
<1>2. IsJob(Job(m, empty, empty, due, done)) /\ Job(m, empty, empty, due, done).map = m
  BY <1>1, JobType
<1> QED
  BY <1>2 DEF empty

(* A lookup finds what was put, and what was there before.                 *)
LEMMA PutProperties ==
    ASSUME NEW db, NEW key, NEW value
    PROVE  /\ DOMAIN Put(db, key, value) = DOMAIN db \cup {key}
           /\ Put(db, key, value)[key] = value
           /\ \A k \in DOMAIN db : k # key => Put(db, key, value)[k] = db[k]
           /\ \A k : Has(db, k) => Has(Put(db, key, value), k)
BY DEF Put, Has

LEMMA PutType ==
    ASSUME NEW T, NEW db, \A k \in DOMAIN db : db[k] \in T, NEW key, NEW value \in T
    PROVE  \A k \in DOMAIN Put(db, key, value) : Put(db, key, value)[k] \in T
BY DEF Put

(* Collecting the garbage leaves each map as it was or empty.              *)
LEMMA CollectedProperties ==
    ASSUME NEW heap, NEW live
    PROVE  /\ DOMAIN Collected(heap, live) = MapId
           /\ Collected(heap, live) = [m \in MapId |-> Collected(heap, live)[m]]
           /\ \A m \in MapId : \A k \in DOMAIN Collected(heap, live)[m] :
                 k \in DOMAIN heap[m] /\ Collected(heap, live)[m][k] = heap[m][k]
BY DEF Collected, EmptyDB

-----------------------------------------------------------------------------
(***************************************************************************)
(* Type correctness.                                                       *)
(***************************************************************************)

(* What one goroutine does to itself.                                      *)
LEMMA ControlStep ==
    ASSUME ControlTypeOK, NEW s \in Scanners,
           NEW l \in Labels, NEW st \in Seq(Calls), NEW j, At(l, st, j),
           pc' = [pc EXCEPT ![s] = l],
           stack' = [stack EXCEPT ![s] = st],
           job' = [job EXCEPT ![s] = j],
           outcome' \in [Scanners -> {"none", "ok", "err"}]
    PROVE  ControlTypeOK'
<1>1. /\ pc' \in [Scanners -> Labels]
      /\ stack' \in [Scanners -> Seq(Calls)]
      /\ job' = [t \in Scanners |-> job'[t]]
  BY DEF ControlTypeOK
<1>2. ASSUME NEW t \in Scanners PROVE At(pc'[t], stack'[t], job'[t])
  BY DEF ControlTypeOK
<1> QED
  BY <1>1, <1>2 DEF ControlTypeOK

LEMMA TopType ==
    ASSUME ControlTypeOK, NEW s \in Scanners, stack[s] # << >>
    PROVE  /\ stack[s] \in Seq(Calls)
           /\ Len(stack[s]) \in Nat \ {0}
           /\ Top(s) \in Calls
<1>1. stack[s] \in Seq(Calls)
  BY DEF ControlTypeOK
<1>2. Len(stack[s]) \in Nat \ {0}
  BY <1>1, EmptySeq
<1> QED
  BY <1>1, <1>2, ElementOfSeq DEF Top

(* The innermost call is replaced.                                         *)
LEMMA SetTopType ==
    ASSUME ControlTypeOK, NEW s \in Scanners, stack[s] # << >>, NEW call \in Calls
    PROVE  \E st \in Seq(Calls) :
              st # << >> /\ SetTop(s, call) = [stack EXCEPT ![s] = st]
<1> DEFINE st == [stack[s] EXCEPT ![Len(stack[s])] = call]
<1>1. st \in Seq(Calls) /\ Len(st) = Len(stack[s])
  BY TopType, ExceptSeq
<1>2. st # << >>
  BY <1>1, TopType, EmptySeq
<1>3. SetTop(s, call) = [stack EXCEPT ![s] = st]
  BY DEF SetTop
<1> QED
  BY <1>1, <1>2, <1>3

(* The innermost call returns.                                             *)
LEMMA PopType ==
    ASSUME ControlTypeOK, NEW s \in Scanners, stack[s] # << >>, Len(stack[s]) > 1
    PROVE  /\ SubSeq(stack[s], 1, Len(stack[s]) - 1) \in Seq(Calls)
           /\ SubSeq(stack[s], 1, Len(stack[s]) - 1) # << >>
<1> DEFINE n == Len(stack[s]) - 1
<1>0. stack[s] \in Seq(Calls) /\ Len(stack[s]) \in Nat
  BY TopType
<1>1. n \in Nat \ {0}
  <2>1. \A k \in Nat : k > 1 => k - 1 \in Nat \ {0}
    OBVIOUS
  <2> QED
    BY <1>0, <2>1
<1>2. \A i \in 1 .. n : stack[s][i] \in Calls
  BY <1>0, <1>1, ElementOfSeq
<1>3. SubSeq(stack[s], 1, n) \in Seq(Calls) /\ Len(SubSeq(stack[s], 1, n)) = n
  BY <1>1, <1>2, SubSeqProperties
<1> QED
  BY <1>1, <1>3, EmptySeq

LEMMA CollectedType ==
    ASSUME NEW heap, NEW live,
           \A m \in MapId : \A k \in DOMAIN heap[m] : heap[m][k] \in Seq(File),
           maps' = Collected(heap, live)
    PROVE  /\ maps' = [m \in MapId |-> maps'[m]]
           /\ \A m \in MapId : \A k \in DOMAIN maps'[m] : maps'[m][k] \in Seq(File)
BY CollectedProperties

LEMMA ReturnErrorType ==
    ASSUME ControlTypeOK, NEW s \in Scanners,
           pc[s] \in {"enter", "index", "list"}, ReturnError(s), UNCHANGED job
    PROVE  ControlTypeOK'
<1> DEFINE calls == SubSeq(stack[s], 1, Len(stack[s]) - 1)
<1>1. stack[s] # << >> /\ At(pc[s], stack[s], job[s])
  BY DEF ControlTypeOK, At
<1>2. outcome' \in [Scanners -> {"none", "ok", "err"}]
  BY DEF ControlTypeOK, ReturnError
<1>3. job' = [job EXCEPT ![s] = job[s]]
  BY DEF ControlTypeOK
<1>4. CASE Len(stack[s]) > 1
  <2>1. calls \in Seq(Calls) /\ calls # << >>
    BY <1>1, <1>4, PopType
  <2>2. At("items", calls, job[s])
    BY <1>1, <2>1 DEF At
  <2>3. stack' = [stack EXCEPT ![s] = calls] /\ pc' = [pc EXCEPT ![s] = "items"]
    BY <1>4 DEF ReturnError, Goto
  <2> HIDE DEF calls
  <2> QED
    BY <1>2, <1>3, <2>1, <2>2, <2>3, ControlStep DEF Labels
<1>5. CASE ~(Len(stack[s]) > 1)
  <2> DEFINE st == << >>
  <2>1. st \in Seq(Calls) /\ st = << >> /\ "idle" \in Labels
    BY EmptySeq DEF Labels
  <2>2. stack' = [stack EXCEPT ![s] = st] /\ pc' = [pc EXCEPT ![s] = "idle"]
    BY <1>5 DEF ReturnError, Goto
  <2> HIDE DEF st
  <2>3. At("idle", st, job[s])
    BY <1>1, <2>1 DEF At
  <2> QED
    BY <1>2, <1>3, <2>1, <2>2, <2>3, ControlStep
<1> QED
  BY <1>4, <1>5

(* Every step preserves the types, an action at a time.                    *)
LEMMA TypeListAllFile ==
    ASSUME TypeOK, NEW s \in Scanners, ListAllFile(s) PROVE TypeOK'
<1>1. CatalogTypeOK'
  BY DEF TypeOK, ListAllFile, CatalogTypeOK, catalogVars
<1>2. HeapTypeOK'
  BY CollectedType DEF TypeOK, ListAllFile, HeapTypeOK
<1>3. ControlTypeOK'
  <2> DEFINE st == <<Call(RootDir)>>
  <2>1. st \in Seq(Calls) /\ st # << >>
    BY CallType, RootDirType
  <2>2. At("enter", st, job[s])
    BY <2>1 DEF TypeOK, ControlTypeOK, ListAllFile, At
  <2>3. /\ pc' = [pc EXCEPT ![s] = "enter"]
        /\ stack' = [stack EXCEPT ![s] = st]
        /\ job' = [job EXCEPT ![s] = job[s]]
        /\ outcome' \in [Scanners -> {"none", "ok", "err"}]
    BY DEF TypeOK, ControlTypeOK, ListAllFile, Goto
  <2> QED
    BY <2>1, <2>2, <2>3, ControlStep DEF TypeOK, Labels
<1> QED
  BY <1>1, <1>2, <1>3 DEF TypeOK

LEMMA TypeCallFails ==
    ASSUME TypeOK, NEW s \in Scanners, CallFails(s) PROVE TypeOK'
<1>1. CatalogTypeOK'
  BY CatalogAssumption DEF TypeOK, CallFails, CatalogTypeOK, Fault
<1>2. HeapTypeOK'
  BY DEF TypeOK, CallFails, HeapTypeOK
<1>3. ControlTypeOK'
  BY ReturnErrorType DEF TypeOK, CallFails
<1> QED
  BY <1>1, <1>2, <1>3 DEF TypeOK

LEMMA TypeFetchDir ==
    ASSUME TypeOK, NEW s \in Scanners, FetchDir(s) PROVE TypeOK'
<1>1. CatalogTypeOK'
  BY DEF TypeOK, FetchDir, CatalogTypeOK, catalogVars
<1>2. HeapTypeOK'
  BY DEF TypeOK, FetchDir, HeapTypeOK
<1>3. ControlTypeOK'
  <2>1. CASE ReturnError(s)
    BY <2>1, ReturnErrorType DEF TypeOK, FetchDir
  <2>2. CASE ~ReturnError(s)
    <3>1. stack[s] # << >> /\ At(pc[s], stack[s], job[s])
      BY DEF TypeOK, ControlTypeOK, FetchDir, At
    <3>2. \E st \in Seq(Calls) : st # << >> /\ stack' = [stack EXCEPT ![s] = st]
      <4>1. CASE UNCHANGED stack
        BY <3>1, <4>1 DEF TypeOK, ControlTypeOK
      <4>2. CASE \E n \in drive :
                    stack' = SetTop(s, Call(FileAt(n, Top(s).dir.path)))
        <5>1. PICK n \in drive :
                 stack' = SetTop(s, Call(FileAt(n, Top(s).dir.path)))
          BY <4>2
        <5>2. n \in Nodes
          BY DEF TypeOK, CatalogTypeOK, Nodes
        <5>3. Top(s).dir.path \in Path
          BY <3>1, TopType DEF TypeOK, Calls, File
        <5>4. Call(FileAt(n, Top(s).dir.path)) \in Calls
          BY <5>2, <5>3, FileAtType, CallType, CatalogAssumption
        <5> QED
          BY <3>1, <5>1, <5>4, SetTopType DEF TypeOK
      <4> QED
        BY <2>2, <4>1, <4>2 DEF FetchDir
    <3>3. PICK st \in Seq(Calls) : st # << >> /\ stack' = [stack EXCEPT ![s] = st]
      BY <3>2
    <3>4. At("index", st, job[s])
      BY <3>1, <3>3 DEF At, FetchDir
    <3>5. /\ pc' = [pc EXCEPT ![s] = "index"]
          /\ job' = [job EXCEPT ![s] = job[s]]
          /\ outcome' \in [Scanners -> {"none", "ok", "err"}]
      BY <2>2 DEF TypeOK, ControlTypeOK, FetchDir, Goto
    <3> QED
      BY <3>3, <3>4, <3>5, ControlStep DEF TypeOK, Labels
  <2> QED
    BY <2>1, <2>2
<1> QED
  BY <1>1, <1>2, <1>3 DEF TypeOK

LEMMA TypeSaveListIndexData ==
    ASSUME TypeOK, NEW s \in Scanners, SaveListIndexData(s) PROVE TypeOK'
<1>1. stack[s] # << >> /\ At(pc[s], stack[s], job[s])
  BY DEF TypeOK, ControlTypeOK, SaveListIndexData, At
<1>2. CatalogTypeOK'
  <2>1. CASE UNCHANGED index
    BY <2>1, CatalogAssumption
    DEF TypeOK, SaveListIndexData, CatalogTypeOK, Fault
  <2>2. CASE ~ UNCHANGED index
    <3>1. Top(s).dir \in File
      BY <1>1, TopType DEF TypeOK, Calls
    <3>2. /\ index' = Put(index, makePathKey(Top(s).dir.path), Top(s).dir)
          /\ UNCHANGED <<drive, cache, faults>>
      BY <2>2 DEF SaveListIndexData
    <3> QED
      BY <3>1, <3>2, PutType DEF TypeOK, CatalogTypeOK
  <2> QED
    BY <2>1, <2>2
<1>3. HeapTypeOK'
  BY DEF TypeOK, SaveListIndexData, HeapTypeOK
<1>4. ControlTypeOK'
  <2>1. CASE ReturnError(s)
    BY <2>1, ReturnErrorType DEF TypeOK, SaveListIndexData
  <2>2. CASE ~ReturnError(s)
    <3>1. At("list", stack[s], job[s])
      BY <1>1 DEF At, SaveListIndexData
    <3>2. /\ pc' = [pc EXCEPT ![s] = "list"]
          /\ stack' = [stack EXCEPT ![s] = stack[s]]
          /\ job' = [job EXCEPT ![s] = job[s]]
          /\ stack[s] \in Seq(Calls)
          /\ outcome' \in [Scanners -> {"none", "ok", "err"}]
      BY <2>2 DEF TypeOK, ControlTypeOK, SaveListIndexData, Goto
    <3> QED
      BY <3>1, <3>2, ControlStep DEF TypeOK, Labels
  <2> QED
    BY <2>1, <2>2
<1> QED
  BY <1>2, <1>3, <1>4 DEF TypeOK

LEMMA TypeFileList ==
    ASSUME TypeOK, NEW s \in Scanners, FileList(s) PROVE TypeOK'
<1>1. stack[s] # << >> /\ At(pc[s], stack[s], job[s])
  BY DEF TypeOK, ControlTypeOK, FileList, At
<1>2. CatalogTypeOK'
  BY DEF TypeOK, FileList, CatalogTypeOK, catalogVars
<1>3. HeapTypeOK'
  BY DEF TypeOK, FileList, HeapTypeOK
<1>4. ControlTypeOK'
  <2>1. CASE ReturnError(s)
    BY <2>1, ReturnErrorType DEF TypeOK, FileList
  <2>2. CASE ~ReturnError(s)
    <3>1. PICK page \in Pages(s) :
             stack' = SetTop(s, [Top(s) EXCEPT
                                   !.seen = @ \cup {n.id : n \in page},
                                   !.todo = page,
                                   !.more = MorePages(s, page)])
      BY <2>2 DEF FileList
    <3> DEFINE call == [Top(s) EXCEPT !.seen = @ \cup {n.id : n \in page},
                                      !.todo = page,
                                      !.more = MorePages(s, page)]
    <3>2. page \subseteq Nodes
      BY DEF Pages, Rest, Children, TypeOK, CatalogTypeOK, Nodes
    <3>3. {n.id : n \in page} \subseteq Ids
      BY <3>2, NodeType, CatalogAssumption
    <3>4. MorePages(s, page) \in BOOLEAN
      BY DEF MorePages
    <3>5. call \in Calls
      BY <1>1, <3>2, <3>3, <3>4, TopType DEF TypeOK, Calls
    <3>6. PICK st \in Seq(Calls) : st # << >> /\ stack' = [stack EXCEPT ![s] = st]
      BY <1>1, <3>1, <3>5, SetTopType DEF TypeOK
    <3>7. At("items", st, job[s])
      BY <1>1, <3>6 DEF At, FileList
    <3>8. /\ pc' = [pc EXCEPT ![s] = "items"]
          /\ job' = [job EXCEPT ![s] = job[s]]
          /\ outcome' \in [Scanners -> {"none", "ok", "err"}]
      BY <2>2 DEF TypeOK, ControlTypeOK, FileList, Goto
    <3> QED
      BY <3>6, <3>7, <3>8, ControlStep DEF TypeOK, Labels
  <2> QED
    BY <2>1, <2>2
<1> QED
  BY <1>2, <1>3, <1>4 DEF TypeOK

(* The slice of a key, empty if the map has not got it.                    *)
LEMMA SliceType ==
    ASSUME HeapTypeOK, NEW m \in MapId, NEW key
    PROVE  Slice(m, key) \in Seq(File)
BY EmptySeq DEF HeapTypeOK, Slice

LEMMA TypeLoadSlice ==
    ASSUME TypeOK, NEW s \in Scanners, LoadSlice(s) PROVE TypeOK'
<1>1. stack[s] # << >> /\ At(pc[s], stack[s], job[s])
  BY DEF TypeOK, ControlTypeOK, LoadSlice, At
<1>2. CatalogTypeOK'
  BY DEF TypeOK, LoadSlice, CatalogTypeOK, catalogVars
<1>3. HeapTypeOK'
  BY DEF TypeOK, LoadSlice, HeapTypeOK
<1>4. ControlTypeOK'
  <2> DEFINE dir == Top(s).dir
             key == MapKey(dir.path)
             item(n) == FileAt(n, Append(dir.path, n.name))
             slice(n) == Append(Slice(filesMapData, key), item(n))
             j(n) == Job(filesMapData, key, slice(n), {}, {})
             call(n) == [Top(s) EXCEPT !.todo = @ \ {n}]
  <2>1. PICK n \in Top(s).todo :
           /\ job' = [job EXCEPT ![s] = j(n)]
           /\ stack' = SetTop(s, call(n))
    BY DEF LoadSlice
  <2>2. Top(s) \in Calls
    BY <1>1, TopType DEF TypeOK
  <2>3. n \in Nodes /\ dir.path \in Path /\ call(n) \in Calls
    BY <2>2 DEF Calls, File
  <2>4. item(n) \in File
    BY <2>3, ItemType, CatalogAssumption
  <2>5. slice(n) \in Seq(File) /\ slice(n) # << >>
    <3>1. Slice(filesMapData, key) \in Seq(File)
      BY SliceType DEF TypeOK, HeapTypeOK
    <3> QED
      BY <2>4, <3>1, AppendProperties
  <2>6. IsJob(j(n)) /\ j(n).map # NoMap /\ j(n).value # << >>
    <3>1. filesMapData \in MapId /\ filesMapData # NoMap
      BY MapIdType, ScanAssumption DEF TypeOK, HeapTypeOK
    <3> HIDE DEF slice
    <3> QED
      BY <2>5, <3>1, JobType
  <2> HIDE DEF j, call
  <2>7. PICK st \in Seq(Calls) : st # << >> /\ stack' = [stack EXCEPT ![s] = st]
    BY <1>1, <2>1, <2>3, SetTopType DEF TypeOK
  <2>8. At("append", st, j(n))
    BY <2>6, <2>7 DEF At
  <2>9. /\ pc' = [pc EXCEPT ![s] = "append"]
        /\ outcome' \in [Scanners -> {"none", "ok", "err"}]
    BY DEF TypeOK, ControlTypeOK, LoadSlice, Goto
  <2> QED
    BY <2>1, <2>7, <2>8, <2>9, ControlStep DEF TypeOK, Labels
<1> QED
  BY <1>2, <1>3, <1>4 DEF TypeOK

LEMMA TypeStoreSlice ==
    ASSUME TypeOK, NEW s \in Scanners, StoreSlice(s) PROVE TypeOK'
<1> DEFINE j == job[s]
           item == j.value[Len(j.value)]
           heap == [maps EXCEPT ![j.map] = Put(@, j.key, j.value)]
<1>1. /\ stack[s] # << >> /\ stack[s] \in Seq(Calls)
      /\ At(pc[s], stack[s], job[s]) /\ pc[s] = "append"
  BY DEF TypeOK, ControlTypeOK, StoreSlice, At
<1>2. j.map \in MapId /\ j.value \in Seq(File) /\ j.value # << >>
  BY <1>1 DEF At, IsJob
<1>3. CatalogTypeOK'
  BY DEF TypeOK, StoreSlice, CatalogTypeOK, catalogVars
<1>4. HeapTypeOK'
  <2>1. ASSUME NEW m \in MapId
        PROVE  \A k \in DOMAIN heap[m] : heap[m][k] \in Seq(File)
    <3>1. CASE m = j.map
      <4>1. heap[m] = Put(maps[m], j.key, j.value)
        BY <1>2, <3>1 DEF TypeOK, HeapTypeOK
      <4> HIDE DEF heap, j
      <4> QED
        BY <1>2, <4>1, PutType DEF TypeOK, HeapTypeOK
    <3>2. CASE m # j.map
      <4>1. heap[m] = maps[m]
        BY <3>2 DEF TypeOK, HeapTypeOK
      <4> HIDE DEF heap, j
      <4> QED
        BY <4>1 DEF TypeOK, HeapTypeOK
    <3> QED
      BY <3>1, <3>2
  <2>2. /\ maps' = Collected(heap, Live(filesMapData, job'))
        /\ UNCHANGED <<filesMapData, started>>
    BY DEF StoreSlice
  <2> HIDE DEF heap
  <2> QED
    BY <2>1, <2>2, CollectedType DEF TypeOK, HeapTypeOK
<1>5. ControlTypeOK'
  <2>1. item \in File
    <3>1. Len(j.value) \in Nat \ {0}
      BY <1>2, EmptySeq
    <3>2. \A n \in Nat \ {0} : n \in 1 .. n
      OBVIOUS
    <3> QED
      BY <1>2, <3>1, <3>2, ElementOfSeq
  <2> HIDE DEF item
  <2>2. PICK l \in {"enter", "items"}, st \in Seq(Calls) :
           /\ st # << >>
           /\ stack' = [stack EXCEPT ![s] = st]
           /\ pc' = [pc EXCEPT ![s] = l]
    <3>1. CASE item.dir
      <4> DEFINE st == Append(stack[s], Call(item))
      <4>1. st \in Seq(Calls) /\ st # << >>
        BY <1>1, <2>1, CallType, AppendProperties
      <4>2. stack' = [stack EXCEPT ![s] = st] /\ pc' = [pc EXCEPT ![s] = "enter"]
        BY <3>1 DEF StoreSlice, Goto, item
      <4> HIDE DEF st
      <4> QED
        BY <4>1, <4>2
    <3>2. CASE ~item.dir
      <4>1. UNCHANGED stack /\ pc' = [pc EXCEPT ![s] = "items"]
        BY <3>2 DEF StoreSlice, Goto, item
      <4> QED
        BY <1>1, <4>1 DEF TypeOK, ControlTypeOK
    <3> QED
      BY <3>1, <3>2
  <2>3. At(l, st, NoJob)
    BY <2>2, NoJobType DEF At, NoJob, Job
  <2>4. /\ job' = [job EXCEPT ![s] = NoJob]
        /\ outcome' \in [Scanners -> {"none", "ok", "err"}]
    BY DEF TypeOK, ControlTypeOK, StoreSlice
  <2> QED
    BY <2>2, <2>3, <2>4, ControlStep DEF TypeOK, Labels
<1> QED
  BY <1>3, <1>4, <1>5 DEF TypeOK

LEMMA TypeEndPage ==
    ASSUME TypeOK, NEW s \in Scanners, EndPage(s) PROVE TypeOK'
<1>1. /\ stack[s] # << >> /\ stack[s] \in Seq(Calls)
      /\ At("items", stack[s], job[s]) /\ pc[s] = "items"
  BY DEF TypeOK, ControlTypeOK, EndPage, At
<1>2. CatalogTypeOK'
  BY DEF TypeOK, EndPage, CatalogTypeOK, catalogVars
<1>3. HeapTypeOK'
  BY DEF TypeOK, EndPage, HeapTypeOK
<1>4. outcome' \in [Scanners -> {"none", "ok", "err"}]
  BY DEF TypeOK, ControlTypeOK, EndPage
<1>5. CASE Top(s).more /\ Goto(s, "list") /\ UNCHANGED <<stack, job>>
  <2>1. At("list", stack[s], job[s])
    BY <1>1 DEF At
  <2>2. /\ pc' = [pc EXCEPT ![s] = "list"]
        /\ stack' = [stack EXCEPT ![s] = stack[s]]
        /\ job' = [job EXCEPT ![s] = job[s]]
    BY <1>5 DEF TypeOK, ControlTypeOK, Goto
  <2>3. ControlTypeOK'
    BY <1>1, <1>4, <2>1, <2>2, ControlStep DEF TypeOK, Labels
  <2> QED
    BY <1>2, <1>3, <2>3 DEF TypeOK
<1>6. CASE /\ Len(stack[s]) > 1
           /\ stack' = [stack EXCEPT ![s] = SubSeq(@, 1, Len(@) - 1)]
           /\ UNCHANGED <<pc, job>>
  <2> DEFINE calls == SubSeq(stack[s], 1, Len(stack[s]) - 1)
  <2>1. calls \in Seq(Calls) /\ calls # << >>
    BY <1>1, <1>6, PopType DEF TypeOK
  <2>2. /\ pc' = [pc EXCEPT ![s] = "items"]
        /\ stack' = [stack EXCEPT ![s] = calls]
        /\ job' = [job EXCEPT ![s] = job[s]]
    BY <1>1, <1>6 DEF TypeOK, ControlTypeOK
  <2> HIDE DEF calls
  <2>3. At("items", calls, job[s])
    BY <1>1, <2>1 DEF At
  <2>4. ControlTypeOK'
    BY <1>4, <2>1, <2>2, <2>3, ControlStep DEF TypeOK, Labels
  <2> QED
    BY <1>2, <1>3, <2>4 DEF TypeOK
<1>7. CASE /\ stack' = [stack EXCEPT ![s] = << >>]
           /\ job' = [job EXCEPT ![s] = Job(filesMapData, << >>, << >>,
                                            DOMAIN maps[filesMapData], {})]
           /\ Goto(s, "next")
  <2> DEFINE st == << >>
             j == Job(filesMapData, << >>, << >>, DOMAIN maps[filesMapData], {})
  <2>1. /\ pc' = [pc EXCEPT ![s] = "next"]
        /\ stack' = [stack EXCEPT ![s] = st]
        /\ job' = [job EXCEPT ![s] = j]
        /\ st = << >> /\ st \in Seq(Calls)
    BY <1>7, EmptySeq DEF Goto
  <2>2. IsJob(j) /\ j.map # NoMap
    <3>1. /\ filesMapData \in MapId /\ filesMapData # NoMap
      BY MapIdType, ScanAssumption DEF TypeOK, HeapTypeOK
    <3> QED
      BY <3>1, EmptyJobType
  <2> HIDE DEF st, j
  <2>3. At("next", st, j)
    BY <2>1, <2>2 DEF At
  <2>4. ControlTypeOK'
    BY <1>4, <2>1, <2>3, ControlStep DEF TypeOK, Labels
  <2> QED
    BY <1>2, <1>3, <2>4 DEF TypeOK
<1> QED
  BY <1>5, <1>6, <1>7 DEF EndPage

LEMMA TypeNextKey ==
    ASSUME TypeOK, NEW s \in Scanners, NextKey(s) PROVE TypeOK'
<1>1. /\ stack[s] = << >> /\ stack[s] \in Seq(Calls)
      /\ IsJob(job[s]) /\ job[s].map # NoMap
  BY DEF TypeOK, ControlTypeOK, NextKey, At
<1>2. CatalogTypeOK'
  BY DEF TypeOK, NextKey, CatalogTypeOK, catalogVars
<1>3. HeapTypeOK'
  BY DEF TypeOK, NextKey, HeapTypeOK
<1>4. ControlTypeOK'
  <2>1. PICK key \in DOMAIN maps[job[s].map] \ job[s].done :
           job' = [job EXCEPT ![s] =
                     Job(job[s].map, key, maps[job[s].map][key],
                         job[s].due \ {key}, job[s].done \cup {key})]
    BY DEF NextKey
  <2> DEFINE m == job[s].map
             value == maps[m][key]
             due == job[s].due \ {key}
             done == job[s].done \cup {key}
             j == Job(m, key, value, due, done)
  <2>2. IsJob(j) /\ j.map # NoMap
    <3>1. m \in MapId \ {NoMap}
      BY <1>1 DEF IsJob
    <3>2. value \in Seq(File)
      BY <2>1, <3>1 DEF TypeOK, HeapTypeOK
    <3> HIDE DEF m, value, due, done
    <3> QED
      BY <3>1, <3>2, JobType
  <2>3. /\ pc' = [pc EXCEPT ![s] = "files"]
        /\ stack' = [stack EXCEPT ![s] = stack[s]]
        /\ outcome' \in [Scanners -> {"none", "ok", "err"}]
    BY DEF TypeOK, ControlTypeOK, NextKey, Goto
  <2>4. job' = [job EXCEPT ![s] = j]
    BY <2>1
  <2> HIDE DEF j
  <2>5. At("files", stack[s], j)
    BY <1>1, <2>2 DEF At
  <2> QED
    BY <1>1, <2>3, <2>4, <2>5, ControlStep DEF TypeOK, Labels
<1> QED
  BY <1>2, <1>3, <1>4 DEF TypeOK

LEMMA TypePutItem ==
    ASSUME TypeOK, NEW s \in Scanners, PutItem(s) PROVE TypeOK'
<1> DEFINE j == job[s]
           item == j.value[j.pos]
<1>1. /\ stack[s] = << >> /\ stack[s] \in Seq(Calls) /\ pc[s] = "files"
      /\ IsJob(j) /\ j.map # NoMap
  BY DEF TypeOK, ControlTypeOK, PutItem, At
<1>2. /\ j.value \in Seq(File) /\ Len(j.value) \in Nat
      /\ j.pos \in 1 .. Len(j.value) /\ j.pos + 1 \in 1 .. Len(j.value) + 1
  <2>1. j.value \in Seq(File) /\ Len(j.value) \in Nat
    BY <1>1, LenProperties DEF IsJob
  <2>2. j.pos \in 1 .. Len(j.value) + 1 /\ j.pos <= Len(j.value)
    BY <1>1 DEF IsJob, PutItem
  <2>3. \A n \in Nat : \A i \in 1 .. n + 1 :
           i <= n => i \in 1 .. n /\ i + 1 \in 1 .. n + 1
    OBVIOUS
  <2> QED
    BY <2>1, <2>2, <2>3
<1>3. item \in File
  BY <1>2, ElementOfSeq
<1>4. CatalogTypeOK'
  <2>1. FileRecord(item) \in Record
    BY <1>3, RootDirType, EmptySeq DEF FileRecord, Record
  <2>2. CASE cache' = Put(cache, ItemKey(item), FileRecord(item)) /\ UNCHANGED faults
    <3>1. UNCHANGED <<drive, index, faults>>
      BY <2>2 DEF PutItem
    <3> HIDE DEF item
    <3> QED
      BY <2>1, <2>2, <3>1, PutType DEF TypeOK, CatalogTypeOK
  <2>3. CASE UNCHANGED cache
    BY <2>3, CatalogAssumption DEF TypeOK, CatalogTypeOK, PutItem, Fault
  <2> QED
    BY <2>2, <2>3 DEF PutItem
<1>5. HeapTypeOK'
  BY DEF TypeOK, PutItem, HeapTypeOK
<1>6. ControlTypeOK'
  <2> DEFINE k == [j EXCEPT !.pos = @ + 1]
  <2>1. IsJob(k) /\ k.map # NoMap
    BY <1>1, <1>2 DEF IsJob
  <2>2. /\ pc' = [pc EXCEPT ![s] = "files"]
        /\ stack' = [stack EXCEPT ![s] = stack[s]]
        /\ job' = [job EXCEPT ![s] = k]
        /\ outcome' \in [Scanners -> {"none", "ok", "err"}]
    BY <1>1 DEF TypeOK, ControlTypeOK, PutItem
  <2> HIDE DEF k
  <2>3. At("files", stack[s], k)
    BY <1>1, <2>1 DEF At
  <2> QED
    BY <1>1, <2>2, <2>3, ControlStep DEF TypeOK, Labels
<1> QED
  BY <1>4, <1>5, <1>6 DEF TypeOK

LEMMA TypePutListing ==
    ASSUME TypeOK, NEW s \in Scanners, PutListing(s) PROVE TypeOK'
<1> DEFINE j   == job[s]
           key == makePathKey(<<j.key>>)
           old == makePathKey(<<key>>)
<1>1. /\ stack[s] = << >> /\ stack[s] \in Seq(Calls)
      /\ IsJob(j) /\ j.map # NoMap
  BY DEF TypeOK, ControlTypeOK, PutListing, At
<1>2. j.value \in Seq(File) /\ j.map \in MapId
  BY <1>1 DEF IsJob
<1>3. CatalogTypeOK'
  <2>1. \A k \in DOMAIN index' : index'[k] \in File
    <3>1. CASE Has(index, old)
      <4>1. index' = Put(index, makePathKey(index[old].path), index[old])
        BY <3>1 DEF PutListing
      <4>2. index[old] \in File
        BY <3>1 DEF TypeOK, CatalogTypeOK, Has
      <4> HIDE DEF old
      <4> QED
        BY <4>1, <4>2, PutType DEF TypeOK, CatalogTypeOK
    <3>2. CASE ~Has(index, old)
      <4>1. UNCHANGED index
        BY <3>2 DEF PutListing
      <4> QED
        BY <4>1 DEF TypeOK, CatalogTypeOK
    <3> QED
      BY <3>1, <3>2
  <2>2. \A k \in DOMAIN cache' : cache'[k] \in Record
    <3>1. ListRecord(j.value) \in Record
      BY <1>2, RootDirType DEF ListRecord, Record
    <3>2. CASE cache' = Put(cache, key, ListRecord(j.value))
      <4> HIDE DEF key, j
      <4> QED
        BY <3>1, <3>2, PutType DEF TypeOK, CatalogTypeOK
    <3>3. CASE UNCHANGED cache
      BY <3>3 DEF TypeOK, CatalogTypeOK
    <3> QED
      BY <3>2, <3>3 DEF PutListing
  <2>3. drive' \in Trees /\ faults' \in 0 .. MaxFaults
    BY CatalogAssumption DEF TypeOK, CatalogTypeOK, PutListing, Fault
  <2> QED
    BY <2>1, <2>2, <2>3 DEF CatalogTypeOK
<1>4. HeapTypeOK'
  BY DEF TypeOK, PutListing, HeapTypeOK
<1>5. ControlTypeOK'
  <2> DEFINE k == Job(j.map, << >>, << >>, j.due, j.done)
  <2>1. IsJob(k) /\ k.map # NoMap
    <3> HIDE DEF j
    <3> QED
      BY <1>1, <1>2, EmptyJobType
  <2>2. /\ pc' = [pc EXCEPT ![s] = "next"]
        /\ stack' = [stack EXCEPT ![s] = stack[s]]
        /\ job' = [job EXCEPT ![s] = k]
        /\ outcome' \in [Scanners -> {"none", "ok", "err"}]
    BY DEF TypeOK, ControlTypeOK, PutListing, Goto
  <2> HIDE DEF k
  <2>3. At("next", stack[s], k)
    BY <1>1, <2>1 DEF At
  <2> QED
    BY <1>1, <2>2, <2>3, ControlStep DEF TypeOK, Labels
<1> QED
  BY <1>3, <1>4, <1>5 DEF TypeOK

LEMMA TypeEndRange ==
    ASSUME TypeOK, NEW s \in Scanners, EndRange(s) PROVE TypeOK'
<1>1. stack[s] = << >> /\ stack[s] \in Seq(Calls)
  BY DEF TypeOK, ControlTypeOK, EndRange, At
<1>2. CatalogTypeOK'
  BY DEF TypeOK, EndRange, CatalogTypeOK, catalogVars
<1>3. HeapTypeOK'
  BY CollectedType DEF TypeOK, EndRange, HeapTypeOK
<1>4. ControlTypeOK'
  <2>1. At("idle", stack[s], NoJob)
    BY <1>1, NoJobType DEF At, NoJob, Job
  <2>2. /\ pc' = [pc EXCEPT ![s] = "idle"]
        /\ stack' = [stack EXCEPT ![s] = stack[s]]
        /\ job' = [job EXCEPT ![s] = NoJob]
        /\ outcome' \in [Scanners -> {"none", "ok", "err"}]
    BY DEF TypeOK, ControlTypeOK, EndRange, Goto
  <2> QED
    BY <1>1, <2>1, <2>2, ControlStep DEF TypeOK, Labels
<1> QED
  BY <1>2, <1>3, <1>4 DEF TypeOK

LEMMA TypeFresh == Fresh => HeapTypeOK /\ ControlTypeOK
<1> SUFFICES ASSUME Fresh PROVE HeapTypeOK /\ ControlTypeOK
  OBVIOUS
<1>1. HeapTypeOK
  BY MapIdType, ScanAssumption DEF Fresh, HeapTypeOK, EmptyDB
<1>2. ControlTypeOK
  <2>1. stack \in [Scanners -> Seq(Calls)]
    BY EmptySeq DEF Fresh
  <2>2. ASSUME NEW s \in Scanners PROVE At(pc[s], stack[s], job[s])
    BY NoJobType DEF Fresh, At, NoJob, Job
  <2> QED
    BY <2>1, <2>2 DEF Fresh, ControlTypeOK, Labels
<1> QED
  BY <1>1, <1>2

LEMMA TypeCrash == ASSUME TypeOK, Crash PROVE TypeOK'
<1>1. CatalogTypeOK'
  BY CatalogAssumption DEF TypeOK, Crash, CatalogTypeOK, Fault
<1>2. (HeapTypeOK /\ ControlTypeOK)'
  <2>1. (Fresh => HeapTypeOK /\ ControlTypeOK)'
    BY TypeFresh, PTL
  <2> QED
    BY <2>1 DEF Crash, Fresh
<1> QED
  BY <1>1, <1>2 DEF TypeOK

LEMMA TypeInit == Init => TypeOK
<1>1. CatalogInit => CatalogTypeOK
  BY CatalogAssumption DEF CatalogInit, CatalogTypeOK, EmptyDB
<1> QED
  BY <1>1, TypeFresh DEF Init, TypeOK

LEMMA TypeStep == TypeOK /\ [Next]_vars => TypeOK'
<1> SUFFICES ASSUME TypeOK, [Next]_vars PROVE TypeOK'
  OBVIOUS
<1>1. ASSUME NEW s \in Scanners, Step(s) \/ CallFails(s) PROVE TypeOK'
  BY <1>1, TypeListAllFile, TypeCallFails, TypeFetchDir, TypeSaveListIndexData,
     TypeFileList, TypeLoadSlice, TypeStoreSlice, TypeEndPage, TypeNextKey,
     TypePutItem, TypePutListing, TypeEndRange
  DEF Step
<1>2. CASE DriveChanges /\ UNCHANGED scanVars
  BY <1>2, CatalogAssumption
  DEF TypeOK, CatalogTypeOK, HeapTypeOK, ControlTypeOK, DriveChanges, Fault, scanVars
<1>3. CASE UNCHANGED vars
  BY <1>3 DEF TypeOK, CatalogTypeOK, HeapTypeOK, ControlTypeOK,
              vars, catalogVars, scanVars
<1> QED
  BY <1>1, <1>2, <1>3, TypeCrash DEF Next, ScanNext

(* The types hold throughout.                                              *)
THEOREM TypeCorrect == Spec => []TypeOK
BY TypeInit, TypeStep, PTL DEF Spec

-----------------------------------------------------------------------------
(***************************************************************************)
(* A listed file is stored.                                                *)
(***************************************************************************)

(* SavedSoFar and ListedFileIsStored, for all keys but some that others    *)
(* than scans remove.                                                      *)
Kept(gone, db, file) ==
    Has(db, makePathKey(file.path)) \/ makePathKey(file.path) \in gone

Passed(gone) ==
    \A s \in Scanners : pc[s] = "files" =>
        \A i \in 1 .. job[s].pos - 1 :
            ~job[s].value[i].dir => Kept(gone, cache, job[s].value[i])

Named(gone) ==
    \A k \in DOMAIN cache : Listing(k) =>
        \A i \in 1 .. Len(cache[k].list) :
            ~cache[k].list[i].dir => Kept(gone, cache, cache[k].list[i])

Saved(gone) == Passed(gone) /\ Named(gone)

(* Steps that write no record and do not advance in a slice.               *)
LEMMA SavedFrame ==
    ASSUME NEW gone, TypeOK, Saved(gone), NEW s \in Scanners, UNCHANGED cache,
           \A t \in Scanners \ {s} : pc'[t] = pc[t] /\ job'[t] = job[t],
           pc'[s] # "files" \/ job'[s].pos = 1
    PROVE  Saved(gone)'
<1>1. Passed(gone)'
  <2> SUFFICES ASSUME NEW t \in Scanners, pc'[t] = "files",
                      NEW i \in 1 .. job'[t].pos - 1, ~job'[t].value[i].dir
               PROVE  Kept(gone, cache, job'[t].value[i])
    BY DEF Passed, Kept, Has
  <2>1. CASE t = s
    <3>1. 1 .. 1 - 1 = {}
      OBVIOUS
    <3> QED
      BY <2>1, <3>1
  <2>2. CASE t # s
    BY <2>2 DEF Saved, Passed
  <2> QED
    BY <2>1, <2>2
<1>2. Named(gone)'
  BY DEF Saved, Named, Listing, Kept, Has
<1> QED
  BY <1>1, <1>2 DEF Saved

LEMMA SavedPutItem ==
    ASSUME NEW gone, TypeOK, Saved(gone), NEW s \in Scanners, ~PutMayFail, PutItem(s)
    PROVE  Saved(gone)'
<1> DEFINE j == job[s]
           item == j.value[j.pos]
<1>1. /\ IsJob(j) /\ pc[s] = "files" /\ j.pos \in Nat
      /\ job'[s].pos = j.pos + 1 /\ job'[s].value = j.value
      /\ \A t \in Scanners \ {s} : pc'[t] = pc[t] /\ job'[t] = job[t]
  BY DEF TypeOK, ControlTypeOK, At, IsJob, PutItem
<1>2. cache' = IF item.dir THEN cache
               ELSE Put(cache, makePathKey(item.path), FileRecord(item))
  BY DEF PutItem, ItemKey
<1> HIDE DEF item
<1>3. /\ ~item.dir => Kept(gone, cache', item)
      /\ \A file : Kept(gone, cache, file) => Kept(gone, cache', file)
  BY <1>2 DEF Kept, Has, Put
<1>4. \A k \in DOMAIN cache' :
         Listing(k)' => Listing(k) /\ cache'[k] = cache[k]
  BY <1>2 DEF Listing, FileRecord, Put
<1>5. Passed(gone)'
  <2> SUFFICES ASSUME NEW t \in Scanners, pc'[t] = "files",
                      NEW i \in 1 .. job'[t].pos - 1, ~job'[t].value[i].dir
               PROVE  Kept(gone, cache', job'[t].value[i])
    BY DEF Passed, Kept, Has
  <2>1. CASE t = s
    <3>1. i \in 1 .. j.pos - 1 \/ i = j.pos
      BY <1>1, <2>1
    <3>2. CASE i = j.pos
      BY <1>1, <1>3, <2>1, <3>2 DEF item
    <3>3. CASE i \in 1 .. j.pos - 1
      BY <1>1, <1>3, <2>1, <3>3 DEF Saved, Passed
    <3> QED
      BY <3>1, <3>2, <3>3
  <2>2. CASE t # s
    BY <1>1, <1>3, <2>2 DEF Saved, Passed
  <2> QED
    BY <2>1, <2>2
<1>6. Named(gone)'
  BY <1>3, <1>4 DEF Saved, Named, Listing, Kept, Has
<1> QED
  BY <1>5, <1>6 DEF Saved

LEMMA SavedPutListing ==
    ASSUME NEW gone, TypeOK, Saved(gone), NEW s \in Scanners, ~PutMayFail, PutListing(s)
    PROVE  Saved(gone)'
<1> DEFINE j == job[s]
           key == makePathKey(<<j.key>>)
<1>1. /\ IsJob(j) /\ pc[s] = "files" /\ j.pos \in Nat /\ j.value \in Seq(File)
      /\ j.pos > Len(j.value)
      /\ pc'[s] = "next"
      /\ \A t \in Scanners \ {s} : pc'[t] = pc[t] /\ job'[t] = job[t]
  BY DEF TypeOK, ControlTypeOK, At, IsJob, PutListing, ItemsSaved, Goto
<1>2. cache' = Put(cache, key, ListRecord(j.value))
  BY DEF PutListing
<1> HIDE DEF key
<1>3. \A file : Kept(gone, cache, file) => Kept(gone, cache', file)
  BY <1>2, PutProperties DEF Kept
<1>4. Passed(gone)'
  <2> SUFFICES ASSUME NEW t \in Scanners, pc'[t] = "files",
                      NEW i \in 1 .. job'[t].pos - 1, ~job'[t].value[i].dir
               PROVE  Kept(gone, cache', job'[t].value[i])
    BY DEF Passed, Kept, Has
  <2>1. t # s
    BY <1>1
  <2> QED
    BY <1>1, <1>3, <2>1 DEF Saved, Passed
<1>5. Named(gone)'
  <2> SUFFICES ASSUME NEW k \in DOMAIN cache', cache'[k].kind = "list",
                      NEW i \in 1 .. Len(cache'[k].list), ~cache'[k].list[i].dir
               PROVE  Kept(gone, cache', cache'[k].list[i])
    BY DEF Named, Listing, Kept, Has
  <2>1. CASE k = key
    <3>1. cache'[k].list = j.value
      BY <1>2, <2>1 DEF ListRecord, Put
    <3>2. i \in 1 .. j.pos - 1
      <4>1. Len(j.value) \in Nat
        BY <1>1, LenProperties
      <4>2. \A n, p \in Nat : p > n => \A m \in 1 .. n : m \in 1 .. p - 1
        OBVIOUS
      <4> QED
        BY <1>1, <3>1, <4>1, <4>2
    <3> QED
      BY <1>1, <1>3, <3>1, <3>2 DEF Saved, Passed
  <2>2. CASE k # key
    <3>1. k \in DOMAIN cache /\ cache'[k] = cache[k]
      BY <1>2, <2>2 DEF Put
    <3> QED
      BY <1>3, <3>1 DEF Saved, Named, Listing
  <2> QED
    BY <2>1, <2>2
<1> QED
  BY <1>4, <1>5 DEF Saved

LEMMA SavedStep ==
    ASSUME NEW gone, ~PutMayFail, TypeOK, Saved(gone), [Next]_vars
    PROVE  Saved(gone)'
<1>1. ASSUME NEW s \in Scanners, Step(s) PROVE Saved(gone)'
  <2>1. CASE ListAllFile(s)
    BY <2>1, SavedFrame DEF TypeOK, ControlTypeOK, ListAllFile, Goto, catalogVars
  <2>2. CASE FetchDir(s)
    BY <2>2, SavedFrame
    DEF TypeOK, ControlTypeOK, FetchDir, ReturnError, Goto, catalogVars
  <2>3. CASE SaveListIndexData(s)
    BY <2>3, SavedFrame
    DEF TypeOK, ControlTypeOK, SaveListIndexData, ReturnError, Goto
  <2>4. CASE FileList(s)
    BY <2>4, SavedFrame
    DEF TypeOK, ControlTypeOK, FileList, ReturnError, Goto, catalogVars
  <2>5. CASE LoadSlice(s)
    BY <2>5, SavedFrame DEF TypeOK, ControlTypeOK, LoadSlice, Goto, catalogVars
  <2>6. CASE StoreSlice(s)
    BY <2>6, SavedFrame DEF TypeOK, ControlTypeOK, StoreSlice, Goto, catalogVars
  <2>7. CASE EndPage(s)
    BY <2>7, SavedFrame DEF TypeOK, ControlTypeOK, EndPage, Goto, catalogVars
  <2>8. CASE NextKey(s)
    <3>1. job'[s].pos = 1 /\ UNCHANGED cache
      BY <2>8 DEF TypeOK, ControlTypeOK, NextKey, Job, catalogVars
    <3>2. \A t \in Scanners \ {s} : pc'[t] = pc[t] /\ job'[t] = job[t]
      BY <2>8 DEF TypeOK, ControlTypeOK, NextKey, Goto
    <3> QED
      BY <3>1, <3>2, SavedFrame
  <2>9. CASE EndRange(s)
    BY <2>9, SavedFrame DEF TypeOK, ControlTypeOK, EndRange, Goto, catalogVars
  <2> QED
    BY <1>1, <2>1, <2>2, <2>3, <2>4, <2>5, <2>6, <2>7, <2>8, <2>9,
       SavedPutItem, SavedPutListing
    DEF Step
<1>2. ASSUME NEW s \in Scanners, CallFails(s) PROVE Saved(gone)'
  BY <1>2, SavedFrame DEF TypeOK, ControlTypeOK, CallFails, ReturnError, Goto
<1>3. CASE Crash
  BY <1>3 DEF Crash, Saved, Passed, Named, Listing, Kept, Has
<1>4. CASE DriveChanges /\ UNCHANGED scanVars
  BY <1>4 DEF DriveChanges, scanVars,
              Saved, Passed, Named, Listing, Kept, Has
<1>5. CASE UNCHANGED vars
  BY <1>5 DEF vars, catalogVars, scanVars,
              Saved, Passed, Named, Listing, Kept, Has
<1> QED
  BY <1>1, <1>2, <1>3, <1>4, <1>5 DEF Next, ScanNext

LEMMA SavedInit == ASSUME NEW gone PROVE Init => Saved(gone)
BY DEF Init, CatalogInit, Fresh, EmptyDB, Saved, Passed, Named

LEMMA SavedAlways == ASSUME ~PutMayFail PROVE Spec => []Saved({})
<1>1. Init => Saved({})
  BY SavedInit
<1>2. TypeOK /\ Saved({}) /\ [Next]_vars => Saved({})'
  BY SavedStep
<1> QED
  BY <1>1, <1>2, TypeCorrect, PTL DEF Spec

(* A file that a listing names has been stored, whatever the number of     *)
(* scans that overlap, the pages, the API errors and the crashes, as long  *)
(* as LevelDB accepts the writes.                                          *)
THEOREM ListedFilesAreStored ==
    ASSUME ~PutMayFail PROVE Spec => []ListedFileIsStored
<1>1. Saved({}) => ListedFileIsStored
  BY DEF Saved, Named, Kept, ListedFileIsStored
<1> QED
  BY <1>1, SavedAlways, PTL

(* What SaveFile (file.go) has behind it in a slice stays stored until it  *)
(* writes the listing, whoever writes in between.                          *)
THEOREM SavedItemsStay == ASSUME ~PutMayFail PROVE Spec => []SavedSoFar
<1>1. Saved({}) => SavedSoFar
  BY DEF Saved, Passed, Kept, SavedSoFar
<1> QED
  BY <1>1, SavedAlways, PTL

-----------------------------------------------------------------------------
(***************************************************************************)
(* The scan implements Catalogue: the two steps that write records are     *)
(* steps of it, and every other is a stutter.                              *)
(***************************************************************************)
Seen == <<Stored, Shown>>

(* What a step of a scan is to the readers: a file is stored, a listing is *)
(* published after its files, but for those in gone, or nothing is seen.   *)
StoreSeen(key) == Stored' = Stored \cup {key} /\ Shown' = Delete(Shown, key)

PublishSeen(gone, key) ==
    /\ key \in DOMAIN Shown'
    /\ Shown'[key] \subseteq Stored \cup gone
    /\ Stored' = Stored \cup {key}
    /\ Shown' = Put(Shown, key, Shown'[key])

ScanSeen(gone) ==
    \/ \E key \in Stored' : StoreSeen(key) \/ PublishSeen(gone, key)
    \/ UNCHANGED Seen

LEMMA SameCache == ASSUME UNCHANGED cache PROVE UNCHANGED Seen
BY DEF Seen, Stored, Shown, Listed, FileKeys, Listing

LEMMA SameSeen == ASSUME NEW gone, UNCHANGED cache PROVE ScanSeen(gone)
BY SameCache DEF ScanSeen

(* A file's record is put, by a scan or by a GET.                          *)
LEMMA PutsFile ==
    ASSUME NEW key, NEW item, cache' = Put(cache, key, FileRecord(item))
    PROVE  key \in Stored' /\ StoreSeen(key)
<1>1. Stored' = Stored \cup {key}
  BY DEF Stored, Put
<1>2. Listed' = Listed \ {key}
  BY <1>1 DEF Listed, Stored, Listing, Put, FileRecord
<1>3. \A k \in Stored : k # key => cache'[k] = cache[k]
  BY DEF Stored, Put
<1>4. Shown' = Delete(Shown, key)
  BY <1>2, <1>3 DEF Shown, Listed, Listing, FileKeys, Delete
<1> QED
  BY <1>1, <1>4 DEF StoreSeen

LEMMA StoresPutItem ==
    ASSUME NEW gone, NEW s \in Scanners, PutItem(s) PROVE ScanSeen(gone)
<1> DEFINE item == job[s].value[job[s].pos]
           key  == makePathKey(item.path)
<1>1. UNCHANGED cache \/ cache' = Put(cache, key, FileRecord(item))
  BY DEF PutItem, ItemKey
<1> HIDE DEF item, key
<1> QED
  BY <1>1, SameSeen, PutsFile DEF ScanSeen

LEMMA PublishesPutListing ==
    ASSUME NEW gone, TypeOK, Passed(gone), NEW s \in Scanners, PutListing(s)
    PROVE  ScanSeen(gone)
<1> DEFINE list == job[s].value
           key  == makePathKey(<<job[s].key>>)
<1>1. CASE UNCHANGED cache
  BY <1>1, SameSeen
<1>2. CASE cache' = Put(cache, key, ListRecord(list))
  <2>1. FileKeys(list) \subseteq Stored \cup gone
    <3> SUFFICES ASSUME NEW i \in 1 .. Len(list), ~list[i].dir
                 PROVE  makePathKey(list[i].path) \in Stored \cup gone
      BY DEF FileKeys
    <3>1. /\ pc[s] = "files" /\ list \in Seq(File)
          /\ job[s].pos \in Nat /\ job[s].pos > Len(list)
      BY DEF TypeOK, ControlTypeOK, At, IsJob, PutListing, ItemsSaved
    <3>2. i \in 1 .. job[s].pos - 1
      <4>1. Len(list) \in Nat
        BY <3>1, LenProperties
      <4>2. \A n, p \in Nat : p > n => \A m \in 1 .. n : m \in 1 .. p - 1
        OBVIOUS
      <4> QED
        BY <3>1, <4>1, <4>2
    <3> QED
      BY <3>1, <3>2 DEF Passed, Kept, Has, Stored
  <2> HIDE DEF list, key
  <2>2. Stored' = Stored \cup {key}
    BY <1>2 DEF Stored, Put
  <2>3. cache'[key].list = list /\ Listed' = Listed \cup {key}
    BY <1>2, <2>2 DEF Listed, Stored, Listing, Put, ListRecord
  <2>4. \A k \in Stored : k # key => cache'[k] = cache[k]
    BY <1>2 DEF Stored, Put
  <2>5. DOMAIN Shown' = DOMAIN Shown \cup {key}
    BY <2>3 DEF Shown
  <2>6. Shown' = Put(Shown, key, FileKeys(list))
    BY <2>3, <2>4, <2>5 DEF Shown, Listed, Listing, FileKeys, Put
  <2>7. Shown'[key] = FileKeys(list)
    BY <2>5, <2>6 DEF Put
  <2> QED
    BY <2>1, <2>2, <2>5, <2>6, <2>7 DEF ScanSeen, PublishSeen
<1> QED
  BY <1>1, <1>2 DEF PutListing

LEMMA ScanIsSeen ==
    ASSUME NEW gone, TypeOK, Passed(gone), [Next]_vars PROVE ScanSeen(gone)
<1>1. ASSUME NEW s \in Scanners, Step(s) PROVE ScanSeen(gone)
  <2>1. CASE PutItem(s)
    BY <2>1, StoresPutItem
  <2>2. CASE PutListing(s)
    BY <2>2, PublishesPutListing
  <2>3. CASE ListAllFile(s)
    BY <2>3, SameSeen DEF ListAllFile, catalogVars
  <2>4. CASE FetchDir(s)
    BY <2>4, SameSeen DEF FetchDir, catalogVars
  <2>5. CASE SaveListIndexData(s)
    BY <2>5, SameSeen DEF SaveListIndexData, catalogVars
  <2>6. CASE FileList(s)
    BY <2>6, SameSeen, Zenon DEF FileList, catalogVars
  <2>7. CASE LoadSlice(s)
    BY <2>7, SameSeen DEF LoadSlice, catalogVars
  <2>8. CASE StoreSlice(s)
    BY <2>8, SameSeen DEF StoreSlice, catalogVars
  <2>9. CASE EndPage(s)
    BY <2>9, SameSeen DEF EndPage, catalogVars
  <2>10. CASE NextKey(s)
    BY <2>10, SameSeen DEF NextKey, catalogVars
  <2>11. CASE EndRange(s)
    BY <2>11, SameSeen DEF EndRange, catalogVars
  <2> QED
    BY <1>1, <2>1, <2>2, <2>3, <2>4, <2>5, <2>6, <2>7,
       <2>8, <2>9, <2>10, <2>11
    DEF Step
<1>2. CASE \E s \in Scanners : CallFails(s)
  BY <1>2, SameSeen DEF CallFails
<1>3. CASE Crash \/ DriveChanges
  BY <1>3, SameSeen DEF Crash, DriveChanges
<1>4. CASE UNCHANGED vars
  BY <1>4, SameSeen DEF vars, catalogVars
<1> QED
  BY <1>1, <1>2, <1>3, <1>4 DEF Next, ScanNext

(* For any drive, any number of scans that overlap, any pages, errors and  *)
(* crashes, the scan implements Catalogue, as long as LevelDB accepts the  *)
(* writes: a reader sees keys stored one by one and listings appear whole, *)
(* after the files they name.                                              *)
THEOREM CatalogueIsImplemented ==
    ASSUME ~PutMayFail PROVE Spec => ImplementsCatalogue
<1>1. Init => Readers!Init
  BY DEF Init, CatalogInit, EmptyDB, Readers!Init, Readers!EmptyDB,
         Stored, Listed, Shown
<1>2. ScanSeen({}) => [Readers!Next]_<<Stored, Shown>>
  BY DEF ScanSeen, StoreSeen, PublishSeen, Seen, Delete, Put, Readers!Next,
         Readers!Store, Readers!Publish, Readers!Delete, Readers!Put
<1>3. TypeOK /\ Saved({}) /\ [Next]_vars => [Readers!Next]_<<Stored, Shown>>
  BY <1>2, ScanIsSeen DEF Saved
<1> QED
  BY <1>1, <1>3, SavedAlways, TypeCorrect, PTL
  DEF Spec, ImplementsCatalogue, Readers!Spec

-----------------------------------------------------------------------------
(***************************************************************************)
(* Records are filed under the key their readers compute.                  *)
(***************************************************************************)

Filed == MapsFiled /\ FiledUnderOwnKey

HandFiled(s) ==
    pc[s] \in {"append", "files"} =>
        FiledIn(job[s].value, makePathKey(<<job[s].key>>))

LEMMA FiledInAppend ==
    ASSUME NEW list \in Seq(File), NEW item \in File, NEW key,
           FiledIn(list, key), makePathKey(ParentPath(item)) = key
    PROVE  FiledIn(Append(list, item), key)
<1>1. /\ Len(Append(list, item)) = Len(list) + 1
      /\ \A i \in 1 .. Len(list) : Append(list, item)[i] = list[i]
      /\ Append(list, item)[Len(list) + 1] = item
  BY AppendProperties
<1>2. Len(list) \in Nat
  BY LenProperties
<1>3. \A n \in Nat : \A i \in 1 .. n + 1 : i \in 1 .. n \/ i = n + 1
  OBVIOUS
<1>4. ASSUME NEW i \in 1 .. Len(Append(list, item))
      PROVE  makePathKey(ParentPath(Append(list, item)[i])) = key
  <2>1. i \in 1 .. Len(list) \/ i = Len(list) + 1
    BY <1>1, <1>2, <1>3
  <2> QED
    BY <1>1, <2>1 DEF FiledIn
<1> QED
  BY <1>4 DEF FiledIn

(* Steps that write no record and add nothing to a map.                    *)
LEMMA FiledFrame ==
    ASSUME Filed, NEW s \in Scanners, UNCHANGED cache,
           \A m \in MapId : \A k \in DOMAIN maps'[m] :
               k \in DOMAIN maps[m] /\ maps'[m][k] = maps[m][k],
           \A t \in Scanners \ {s} : pc'[t] = pc[t] /\ job'[t] = job[t],
           HandFiled(s)'
    PROVE  Filed'
<1>1. \A m \in MapId : \A k \in DOMAIN maps'[m] :
         FiledIn(maps'[m][k], makePathKey(<<k>>))
  BY DEF Filed, MapsFiled
<1>2. \A t \in Scanners : HandFiled(t)'
  BY DEF Filed, MapsFiled, HandFiled
<1>3. FiledUnderOwnKey'
  BY DEF Filed, FiledUnderOwnKey, Listing
<1> QED
  BY <1>1, <1>2, <1>3 DEF Filed, MapsFiled, HandFiled

LEMMA FiledLoadSlice ==
    ASSUME TypeOK, Filed, NEW s \in Scanners, LoadSlice(s) PROVE Filed'
<1> DEFINE dir == Top(s).dir
           key == MapKey(dir.path)
           slice == Slice(filesMapData, key)
<1>1. PICK n \in Top(s).todo :
         job' = [job EXCEPT ![s] =
                   Job(filesMapData, key,
                       Append(slice, FileAt(n, Append(dir.path, n.name))), {}, {})]
  BY DEF LoadSlice
<1> DEFINE item == FileAt(n, Append(dir.path, n.name))
<1>2. n \in Nodes /\ dir.path \in Path
  <2>1. Top(s) \in Calls
    <3>1. stack[s] # << >>
      BY DEF TypeOK, ControlTypeOK, LoadSlice, At
    <3> QED
      BY <3>1, TopType DEF TypeOK
  <2> QED
    BY <2>1 DEF Calls, File
<1>3. item \in File
  BY <1>2, ItemType, CatalogAssumption
<1>4. makePathKey(ParentPath(item)) = makePathKey(<<key>>)
  <2>1. ParentPath(item) = dir.path
    BY <1>2, NodeType, CatalogAssumption, ParentOfItem
  <2> QED
    BY <2>1, ListingKey
<1>5. slice \in Seq(File) /\ FiledIn(slice, makePathKey(<<key>>))
  <2>1. filesMapData \in MapId
    BY DEF TypeOK, HeapTypeOK
  <2>2. slice \in Seq(File)
    BY <2>1, SliceType DEF TypeOK
  <2>3. CASE key \in DOMAIN maps[filesMapData]
    <3> HIDE DEF key
    <3> QED
      BY <2>1, <2>2, <2>3 DEF Filed, MapsFiled, Slice
  <2>4. CASE key \notin DOMAIN maps[filesMapData]
    <3>1. slice = << >>
      BY <2>4 DEF Slice
    <3>2. Len(<< >>) = 0 /\ 1 .. 0 = {}
      OBVIOUS
    <3> HIDE DEF slice
    <3> QED
      BY <2>2, <3>1, <3>2 DEF FiledIn
  <2> QED
    BY <2>3, <2>4
<1> HIDE DEF item, key, slice
<1>6. FiledIn(Append(slice, item), makePathKey(<<key>>))
  BY <1>3, <1>4, <1>5, FiledInAppend
<1>7. HandFiled(s)'
  <2>1. /\ job'[s].value = Append(slice, item)
        /\ job'[s].key = key
    BY <1>1 DEF TypeOK, ControlTypeOK, Job, item, key, slice
  <2> QED
    BY <1>6, <2>1 DEF HandFiled
<1>8. /\ UNCHANGED <<cache, maps>>
      /\ \A t \in Scanners \ {s} : pc'[t] = pc[t] /\ job'[t] = job[t]
  BY DEF TypeOK, ControlTypeOK, LoadSlice, Goto, catalogVars
<1> QED
  BY <1>7, <1>8, FiledFrame

LEMMA FiledStoreSlice ==
    ASSUME TypeOK, Filed, NEW s \in Scanners, StoreSlice(s) PROVE Filed'
<1> DEFINE j == job[s]
           heap == [maps EXCEPT ![j.map] = Put(@, j.key, j.value)]
<1>1. /\ maps' = Collected(heap, Live(filesMapData, job'))
      /\ UNCHANGED cache
      /\ pc'[s] \notin {"append", "files"}
      /\ \A t \in Scanners \ {s} : pc'[t] = pc[t] /\ job'[t] = job[t]
  BY DEF TypeOK, ControlTypeOK, StoreSlice, Goto, catalogVars
<1>2. j.map \in MapId /\ FiledIn(j.value, makePathKey(<<j.key>>))
  BY DEF TypeOK, ControlTypeOK, At, IsJob, StoreSlice, Filed, MapsFiled
<1>3. ASSUME NEW m \in MapId, NEW k \in DOMAIN heap[m]
      PROVE  FiledIn(heap[m][k], makePathKey(<<k>>))
  <2>1. CASE m = j.map /\ k = j.key
    <3>1. heap[m][k] = j.value
      BY <2>1 DEF TypeOK, HeapTypeOK, Put
    <3> QED
      BY <1>2, <2>1, <3>1
  <2>2. CASE ~(m = j.map /\ k = j.key)
    <3>1. k \in DOMAIN maps[m] /\ heap[m][k] = maps[m][k]
      BY <1>2, <2>2 DEF TypeOK, HeapTypeOK, Put
    <3> QED
      BY <3>1 DEF Filed, MapsFiled
  <2> QED
    BY <2>1, <2>2
<1> HIDE DEF heap
<1>4. ASSUME NEW m \in MapId, NEW k \in DOMAIN maps'[m]
      PROVE  FiledIn(maps'[m][k], makePathKey(<<k>>))
  <2>1. k \in DOMAIN heap[m] /\ maps'[m][k] = heap[m][k]
    BY <1>1, CollectedProperties
  <2> QED
    BY <1>3, <2>1
<1>5. \A t \in Scanners : HandFiled(t)'
  BY <1>1 DEF Filed, MapsFiled, HandFiled
<1>6. FiledUnderOwnKey'
  BY <1>1 DEF Filed, FiledUnderOwnKey, Listing
<1> QED
  BY <1>4, <1>5, <1>6 DEF Filed, MapsFiled, HandFiled

LEMMA FiledNextKey ==
    ASSUME TypeOK, Filed, NEW s \in Scanners, NextKey(s) PROVE Filed'
<1>1. PICK key \in DOMAIN maps[job[s].map] :
         /\ job'[s].key = key
         /\ job'[s].value = maps[job[s].map][key]
  BY DEF TypeOK, ControlTypeOK, NextKey, Job
<1>2. job[s].map \in MapId
  BY DEF TypeOK, ControlTypeOK, At, IsJob, NextKey
<1>3. HandFiled(s)'
  BY <1>1, <1>2 DEF HandFiled, Filed, MapsFiled
<1>4. /\ UNCHANGED <<cache, maps>>
      /\ \A t \in Scanners \ {s} : pc'[t] = pc[t] /\ job'[t] = job[t]
  BY DEF TypeOK, ControlTypeOK, NextKey, Goto, catalogVars
<1> QED
  BY <1>3, <1>4, FiledFrame

LEMMA FiledPutItem ==
    ASSUME TypeOK, Filed, NEW s \in Scanners, PutItem(s) PROVE Filed'
<1> DEFINE j == job[s]
           item == j.value[j.pos]
<1>1. /\ pc[s] = "files" /\ UNCHANGED <<maps, pc>>
      /\ job'[s].value = j.value /\ job'[s].key = j.key
      /\ \A t \in Scanners \ {s} : job'[t] = job[t]
  BY DEF TypeOK, ControlTypeOK, At, IsJob, PutItem
<1>2. MapsFiled'
  <2>1. HandFiled(s)'
    BY <1>1 DEF HandFiled, Filed, MapsFiled
  <2> QED
    BY <1>1, <2>1 DEF HandFiled, Filed, MapsFiled
<1>3. FiledUnderOwnKey'
  <2>1. CASE UNCHANGED cache
    BY <2>1 DEF Filed, FiledUnderOwnKey, Listing
  <2>2. CASE cache' = Put(cache, makePathKey(item.path), FileRecord(item))
    <3> HIDE DEF item
    <3> QED
      BY <2>2 DEF Filed, FiledUnderOwnKey, Listing, Put, FileRecord
  <2> QED
    BY <2>1, <2>2 DEF PutItem, ItemKey
<1> QED
  BY <1>2, <1>3 DEF Filed

LEMMA FiledPutListing ==
    ASSUME TypeOK, Filed, NEW s \in Scanners, PutListing(s) PROVE Filed'
<1> DEFINE j == job[s]
           key == makePathKey(<<j.key>>)
<1>1. /\ pc[s] = "files" /\ pc'[s] = "next" /\ UNCHANGED maps
      /\ \A t \in Scanners \ {s} : pc'[t] = pc[t] /\ job'[t] = job[t]
  BY DEF TypeOK, ControlTypeOK, PutListing, Goto
<1>2. FiledIn(j.value, key)
  BY <1>1 DEF Filed, MapsFiled
<1>3. MapsFiled'
  BY <1>1 DEF Filed, MapsFiled
<1>4. FiledUnderOwnKey'
  <2>1. CASE UNCHANGED cache
    BY <2>1 DEF Filed, FiledUnderOwnKey, Listing
  <2>2. CASE cache' = Put(cache, key, ListRecord(j.value))
    <3> HIDE DEF key, j
    <3> QED
      BY <1>2, <2>2 DEF Filed, FiledUnderOwnKey, Listing, Put, ListRecord
  <2> QED
    BY <2>1, <2>2 DEF PutListing
<1> QED
  BY <1>3, <1>4 DEF Filed

LEMMA FiledStep == ASSUME TypeOK, Filed, [Next]_vars PROVE Filed'
<1>1. ASSUME NEW s \in Scanners, Step(s) PROVE Filed'
  <2>1. CASE ListAllFile(s)
    <3>1. HandFiled(s)'
      BY <2>1 DEF TypeOK, ControlTypeOK, ListAllFile, Goto, HandFiled
    <3>2. PICK live : maps' = Collected(maps, live)
      BY <2>1 DEF ListAllFile
    <3>3. \A m \in MapId : \A k \in DOMAIN maps'[m] :
             k \in DOMAIN maps[m] /\ maps'[m][k] = maps[m][k]
      BY <3>2, CollectedProperties
    <3>4. /\ UNCHANGED cache
          /\ \A t \in Scanners \ {s} : pc'[t] = pc[t] /\ job'[t] = job[t]
      BY <2>1 DEF TypeOK, ControlTypeOK, ListAllFile, Goto, catalogVars
    <3> QED
      BY <3>1, <3>3, <3>4, FiledFrame
  <2>2. CASE FetchDir(s)
    BY <2>2, FiledFrame
    DEF TypeOK, ControlTypeOK, FetchDir, ReturnError, Goto, catalogVars, HandFiled
  <2>3. CASE SaveListIndexData(s)
    BY <2>3, FiledFrame
    DEF TypeOK, ControlTypeOK, SaveListIndexData, ReturnError, Goto, HandFiled
  <2>4. CASE FileList(s)
    BY <2>4, FiledFrame
    DEF TypeOK, ControlTypeOK, FileList, ReturnError, Goto, catalogVars, HandFiled
  <2>5. CASE EndPage(s)
    BY <2>5, FiledFrame
    DEF TypeOK, ControlTypeOK, EndPage, Goto, catalogVars, HandFiled
  <2>6. CASE EndRange(s)
    <3>1. HandFiled(s)'
      BY <2>6 DEF TypeOK, ControlTypeOK, EndRange, Goto, HandFiled
    <3>2. \A m \in MapId : \A k \in DOMAIN maps'[m] :
             k \in DOMAIN maps[m] /\ maps'[m][k] = maps[m][k]
      BY <2>6, CollectedProperties DEF EndRange
    <3>3. /\ UNCHANGED cache
          /\ \A t \in Scanners \ {s} : pc'[t] = pc[t] /\ job'[t] = job[t]
      BY <2>6 DEF TypeOK, ControlTypeOK, EndRange, Goto, catalogVars
    <3> QED
      BY <3>1, <3>2, <3>3, FiledFrame
  <2> QED
    BY <1>1, <2>1, <2>2, <2>3, <2>4, <2>5, <2>6, FiledLoadSlice,
       FiledStoreSlice, FiledNextKey, FiledPutItem, FiledPutListing
    DEF Step
<1>2. ASSUME NEW s \in Scanners, CallFails(s) PROVE Filed'
  BY <1>2, FiledFrame
  DEF TypeOK, ControlTypeOK, CallFails, ReturnError, Goto, HandFiled
<1>3. CASE Crash
  BY <1>3 DEF Crash, EmptyDB, Filed, MapsFiled, FiledUnderOwnKey, Listing
<1>4. CASE DriveChanges /\ UNCHANGED scanVars
  BY <1>4 DEF DriveChanges, scanVars, Filed, MapsFiled, FiledUnderOwnKey, Listing
<1>5. CASE UNCHANGED vars
  BY <1>5 DEF vars, catalogVars, scanVars, Filed, MapsFiled, FiledUnderOwnKey, Listing
<1> QED
  BY <1>1, <1>2, <1>3, <1>4, <1>5 DEF Next, ScanNext

LEMMA FiledAlways == Spec => []Filed
<1>1. Init => Filed
  BY DEF Init, CatalogInit, Fresh, EmptyDB, Filed, MapsFiled, FiledUnderOwnKey
<1>2. TypeOK /\ Filed /\ [Next]_vars => Filed'
  BY FiledStep
<1> QED
  BY <1>1, <1>2, TypeCorrect, PTL DEF Spec

(* Every record is filed under the key that its readers compute, although  *)
(* the scan flattens paths twice on the way and shares its map.            *)
THEOREM RecordsAreFiled == Spec => []FiledUnderOwnKey
<1>1. Filed => FiledUnderOwnKey
  BY DEF Filed
<1> QED
  BY <1>1, FiledAlways, PTL

(* No slice mixes items of two folders of different keys, in no map and in *)
(* nobody's hands, although goroutines append to one map without a lock    *)
(* and one may still write to a map that is no longer FilesMapData.        *)
THEOREM SlicesAreFiled == Spec => []MapsFiled
<1>1. Filed => MapsFiled
  BY DEF Filed
<1> QED
  BY <1>1, FiledAlways, PTL

=============================================================================
