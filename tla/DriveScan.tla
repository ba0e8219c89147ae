----------------------------- MODULE DriveScan -----------------------------
(***************************************************************************)
(* The scan of the drive into the catalogue: ListAllFile and GetFileList   *)
(* (ali_driver/list.go), SaveFile and SaveListIndexData                    *)
(* (ali_driver/file.go), run by two goroutines of one process: main        *)
(* starts one scan (main.go, "start" and "get"), the ticker of             *)
(* tasks/list.go one scan after another.                                   *)
(*                                                                         *)
(* Both collect what they find in the global map FilesMapData without a    *)
(* lock.  A scan replaces the map by a new one when it begins, but a       *)
(* goroutine that holds the old one goes on writing to it or reading it,   *)
(* so the maps live in a heap and FilesMapData is a reference.  An action  *)
(* makes at most one access to what goroutines share: a call of the API,   *)
(* a call of LevelDB, the load or the store of an append to the map.       *)
(***************************************************************************)
EXTENDS DriveCatalog

CONSTANTS
    Scanners,    \* the goroutines that scan
    Ticker,      \* the one of tasks/list.go, which scans again and again
    PageSize,    \* how many items the API returns at once
    PutMayFail   \* whether a write of LevelDB may fail

ASSUME ScanAssumption ==
    /\ IsFiniteSet(Scanners)
    /\ PageSize \in Nat \ {0}
    /\ PutMayFail \in BOOLEAN

(* Enough maps for FilesMapData and one kept by every goroutine.           *)
MapId == 1 .. Cardinality(Scanners) + 1
NoMap == 0

VARIABLES
    maps,           \* the heap: the contents of every map[string][]File
    filesMapData,   \* the map the global variable FilesMapData refers to
    started,        \* whether this process has begun the scan of main
    pc,             \* where each goroutine is
    stack,          \* its calls of GetFileList, the innermost last
    job,            \* the locals of an append or of SaveFile
    outcome         \* what its last ListAllFile returned

scanVars == <<maps, filesMapData, started, pc, stack, job, outcome>>
vars == <<catalogVars, scanVars>>

(* A call of GetFileList: its folder, the ids the pages so far have named, *)
(* the items of the page at hand still to be added, whether more follow.   *)
Call(dir) == [dir |-> dir, seen |-> {}, todo |-> {}, more |-> FALSE]

(* The locals that hold a map: of "append", the map, the key and the slice *)
(* with the item appended; of SaveFile, the map it ranges over, the keys   *)
(* it has to visit (due) and has visited (done), the present key and its   *)
(* slice, and the position of the present item.                            *)
Job(map, key, value, due, done) ==
    [map |-> map, key |-> key, value |-> value,
     due |-> due, done |-> done, pos |-> 1]
NoJob == Job(NoMap, << >>, << >>, {}, {})

Top(s) == stack[s][Len(stack[s])]
SetTop(s, call) == [stack EXCEPT ![s][Len(stack[s])] = call]

KeyByName(path) == path[Len(path)]    \* faulty: the folder's name alone
MapKey(path) == Flat(path)
Slice(m, key) == IF key \in DOMAIN maps[m] THEN maps[m][key] ELSE << >>

(* Maps nobody refers to are collected.                                    *)
Live(global, jobs) == {global} \cup {jobs[s].map : s \in Scanners}
NotCollected(heap, live) == heap      \* faulty: make() gives an old map
Collected(heap, live) ==
    [m \in MapId |-> IF m \in live THEN heap[m] ELSE EmptyDB]

Goto(s, label) == pc' = [pc EXCEPT ![s] = label]

-----------------------------------------------------------------------------
(***************************************************************************)
(* ListAllFile and GetFileList.                                            *)
(***************************************************************************)

(* FilesMapData = make(...); GetFileList(File{}, "").                      *)
ListAllFile(s) ==
    /\ pc[s] = "idle"
    /\ s = Ticker \/ ~started
    /\ started' = (started \/ s # Ticker)
    /\ \E m \in MapId \ Live(filesMapData, job) :
          /\ \A n \in MapId \ Live(filesMapData, job) : m <= n
          /\ filesMapData' = m
          /\ maps' = Collected(maps, Live(m, job) \ {m})
    /\ stack' = [stack EXCEPT ![s] = <<Call(RootDir)>>]
    /\ Goto(s, "enter")
    /\ UNCHANGED <<catalogVars, job, outcome>>

(* GetFileList returns an error: a nested call gives it to nobody, the     *)
(* outermost one makes it the result of ListAllFile.                       *)
AbortKeepsCalls(s) ==                 \* faulty: the calls are not unwound
    /\ Goto(s, "idle")
    /\ outcome' = [outcome EXCEPT ![s] = "err"]
    /\ UNCHANGED stack
ReturnError(s) ==
    IF Len(stack[s]) > 1
    THEN /\ stack' = [stack EXCEPT ![s] = SubSeq(@, 1, Len(@) - 1)]
         /\ Goto(s, "items")
         /\ UNCHANGED outcome
    ELSE /\ stack' = [stack EXCEPT ![s] = << >>]
         /\ Goto(s, "idle")
         /\ outcome' = [outcome EXCEPT ![s] = "err"]

(* The token could not be had, or the API answered with an error.          *)
CallFails(s) ==
    /\ pc[s] \in {"enter", "list"}
    /\ Fault
    /\ ReturnError(s)
    /\ UNCHANGED <<drive, cache, index, maps, filesMapData, started, job>>

(* The folder's data are fetched anew (but for the root); the path stays.  *)
FetchDir(s) ==
    /\ pc[s] = "enter"
    /\ LET dir == Top(s).dir IN
       IF Exists(drive, dir.id)
       THEN /\ \/ /\ dir.id = RootId
                  /\ UNCHANGED stack
               \/ \E n \in drive :
                     /\ n.id = dir.id
                     /\ stack' = SetTop(s, Call(FileAt(n, dir.path)))
            /\ Goto(s, "index")
            /\ UNCHANGED outcome
       ELSE ReturnError(s)
    /\ UNCHANGED <<catalogVars, maps, filesMapData, started, job>>

(* SaveListIndexData(file).                                                *)
SaveListIndexData(s) ==
    /\ pc[s] = "index"
    /\ \/ /\ LET dir == Top(s).dir
             IN  index' = Put(index, makePathKey(dir.path), dir)
          /\ Goto(s, "list")
          /\ UNCHANGED <<stack, outcome, faults>>
       \/ /\ PutMayFail
          /\ Fault
          /\ ReturnError(s)
          /\ UNCHANGED index
    /\ UNCHANGED <<drive, cache, maps, filesMapData, started, job>>

(* The next page: some of the items no page has named yet.                 *)
Rest(s)  == {n \in Children(drive, Top(s).dir.id) : n.id \notin Top(s).seen}
Pages(s) == IF Cardinality(Rest(s)) <= PageSize THEN {Rest(s)}
            ELSE {p \in SUBSET Rest(s) : Cardinality(p) = PageSize}

(* Whether the API gives a marker of a next page.                          *)
FirstPageOnly(s, page) == FALSE       \* faulty: the marker is ignored
SameMarker(s, page) == TRUE           \* faulty: the marker is never cleared
MorePages(s, page) == page # Rest(s)

FileList(s) ==
    /\ pc[s] = "list"
    /\ IF Exists(drive, Top(s).dir.id)
       THEN /\ \E page \in Pages(s) :
                  stack' = SetTop(s, [Top(s) EXCEPT
                                        !.seen = @ \cup {n.id : n \in page},
                                        !.todo = page,
                                        !.more = MorePages(s, page)])
            /\ Goto(s, "items")
            /\ UNCHANGED outcome
       ELSE ReturnError(s)
    /\ UNCHANGED <<catalogVars, maps, filesMapData, started, job>>

(* FilesMapData[key] = append(FilesMapData[key], nItem): the map and its   *)
(* slice are loaded ...                                                    *)
LoadSlice(s) ==
    /\ pc[s] = "items"
    /\ \E n \in Top(s).todo :
          LET dir  == Top(s).dir
              item == FileAt(n, Append(dir.path, n.name))
              key  == MapKey(dir.path)
              longer == Append(Slice(filesMapData, key), item)
          IN  /\ job' = [job EXCEPT ![s] = Job(filesMapData, key, longer, {}, {})]
              /\ stack' = SetTop(s, [Top(s) EXCEPT !.todo = @ \ {n}])
    /\ Goto(s, "append")
    /\ UNCHANGED <<catalogVars, maps, filesMapData, started, outcome>>

(* ... and the longer slice is stored.  A folder is scanned before the     *)
(* next item.                                                              *)
StoreSlice(s) ==
    /\ pc[s] = "append"
    /\ LET j == job[s]
           item == j.value[Len(j.value)]
       IN  /\ job' = [job EXCEPT ![s] = NoJob]
           /\ maps' = Collected([maps EXCEPT ![j.map] = Put(@, j.key, j.value)],
                                Live(filesMapData, job'))
           /\ IF item.dir
              THEN /\ stack' = [stack EXCEPT ![s] = Append(@, Call(item))]
                   /\ Goto(s, "enter")
              ELSE /\ UNCHANGED stack
                   /\ Goto(s, "items")
    /\ UNCHANGED <<catalogVars, filesMapData, started, outcome>>

(* The items of the page are done: the next page, if there is a marker; or *)
(* back to the items of the parent; or, at the root, SaveFile, which       *)
(* evaluates "range FilesMapData" once.                                    *)
EndPage(s) ==
    /\ pc[s] = "items"
    /\ Top(s).todo = {}
    /\ \/ /\ Top(s).more
          /\ Goto(s, "list")
          /\ UNCHANGED <<stack, job>>
       \/ /\ ~Top(s).more /\ Len(stack[s]) > 1
          /\ stack' = [stack EXCEPT ![s] = SubSeq(@, 1, Len(@) - 1)]
          /\ UNCHANGED <<pc, job>>
       \/ /\ ~Top(s).more /\ Len(stack[s]) = 1
          /\ stack' = [stack EXCEPT ![s] = << >>]
          /\ job' = [job EXCEPT ![s] = Job(filesMapData, << >>, << >>,
                                           DOMAIN maps[filesMapData], {})]
          /\ Goto(s, "next")
    /\ UNCHANGED <<catalogVars, maps, filesMapData, started, outcome>>

-----------------------------------------------------------------------------
(***************************************************************************)
(* SaveFile.                                                               *)
(***************************************************************************)

(* The next key, in no order.  A key that was there when the loop began is *)
(* visited; one that came later may be or not.                             *)
NextKey(s) ==
    /\ pc[s] = "next"
    /\ LET j == job[s] IN
       \E key \in DOMAIN maps[j.map] \ j.done :
          job' = [job EXCEPT ![s] = Job(j.map, key, maps[j.map][key],
                                        j.due \ {key}, j.done \cup {key})]
    /\ Goto(s, "files")
    /\ UNCHANGED <<catalogVars, maps, filesMapData, started, stack, outcome>>

(* save(item), unless it is a folder; a failed write is only logged.       *)
ParentKey(item) == makePathKey(ParentPath(item))  \* faulty: not the item's
ItemKey(item) == makePathKey(item.path)

PutItem(s) ==
    /\ pc[s] = "files"
    /\ job[s].pos <= Len(job[s].value)
    /\ LET item == job[s].value[job[s].pos] IN
       \/ /\ cache' = IF item.dir THEN cache
                      ELSE Put(cache, ItemKey(item), FileRecord(item))
          /\ UNCHANGED faults
       \/ /\ PutMayFail
          /\ ~item.dir
          /\ Fault
          /\ UNCHANGED cache
    /\ job' = [job EXCEPT ![s].pos = @ + 1]
    /\ UNCHANGED <<drive, index, maps, filesMapData, started, pc, stack, outcome>>

ListingFirst(s) == TRUE               \* faulty: the listing may come first
ItemsSaved(s) == job[s].pos > Len(job[s].value)

(* After the items, the folder: its entry is looked up, to be saved again, *)
(* under the key that GetListIndexData makes of a key that is one already, *)
(* and then its listing is written; a failed write is only logged.         *)
PutListing(s) ==
    /\ pc[s] = "files"
    /\ ItemsSaved(s)
    /\ LET key == makePathKey(<<job[s].key>>)
           old == makePathKey(<<key>>)
       IN  /\ index' = IF Has(index, old)
                       THEN Put(index, makePathKey(index[old].path), index[old])
                       ELSE index
           /\ \/ /\ cache' = Put(cache, key, ListRecord(job[s].value))
                 /\ UNCHANGED faults
              \/ /\ PutMayFail
                 /\ Fault
                 /\ UNCHANGED cache
    /\ job' = [job EXCEPT ![s] = Job(@.map, << >>, << >>, @.due, @.done)]
    /\ Goto(s, "next")
    /\ UNCHANGED <<drive, maps, filesMapData, started, stack, outcome>>

SomeKeyLeft(s) == TRUE                \* faulty: the loop may stop early
AllKeysVisited(s) == job[s].due = {}

EndRange(s) ==
    /\ pc[s] = "next"
    /\ AllKeysVisited(s)
    /\ job' = [job EXCEPT ![s] = NoJob]
    /\ maps' = Collected(maps, Live(filesMapData, job'))
    /\ outcome' = [outcome EXCEPT ![s] = "ok"]
    /\ Goto(s, "idle")
    /\ UNCHANGED <<catalogVars, filesMapData, started, stack>>

-----------------------------------------------------------------------------

(* A process that has just begun: FilesMapData is an empty map.            *)
Fresh ==
    /\ maps = [m \in MapId |-> EmptyDB]
    /\ filesMapData = 1
    /\ started = FALSE
    /\ pc = [s \in Scanners |-> "idle"]
    /\ stack = [s \in Scanners |-> << >>]
    /\ job = [s \in Scanners |-> NoJob]
    /\ outcome = [s \in Scanners |-> "none"]

(* The process dies, of SIGKILL or of the runtime's "concurrent map        *)
(* writes", and another is started: only the database survives.            *)
Crash ==
    /\ Fault
    /\ maps' = [m \in MapId |-> EmptyDB]
    /\ filesMapData' = 1
    /\ started' = FALSE
    /\ pc' = [s \in Scanners |-> "idle"]
    /\ stack' = [s \in Scanners |-> << >>]
    /\ job' = [s \in Scanners |-> NoJob]
    /\ outcome' = [s \in Scanners |-> "none"]
    /\ UNCHANGED <<drive, cache, index>>

Init == CatalogInit /\ Fresh

(* What a goroutine does of its own accord.                                *)
Step(s) ==
    \/ ListAllFile(s) \/ FetchDir(s) \/ SaveListIndexData(s) \/ FileList(s)
    \/ LoadSlice(s) \/ StoreSlice(s) \/ EndPage(s)
    \/ NextKey(s) \/ PutItem(s) \/ PutListing(s) \/ EndRange(s)

ScanNext ==
    \/ \E s \in Scanners : Step(s) \/ CallFails(s)
    \/ Crash

Next == ScanNext \/ (DriveChanges /\ UNCHANGED scanVars)

Spec == Init /\ [][Next]_vars

(* The Go scheduler runs every goroutine, and the ticker ticks for ever.   *)
FairSpec == Spec /\ \A s \in Scanners : WF_vars(Step(s))

=============================================================================
