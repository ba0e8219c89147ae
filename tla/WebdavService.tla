--------------------------- MODULE WebdavService ---------------------------
(***************************************************************************)
(* The process that "start" leaves running: the scans of main and of the   *)
(* ticker, and the handlers of webdav.ServeHTTP, which Go runs in          *)
(* goroutines of their own.  They meet in LevelDB alone, and nothing       *)
(* orders a request and a scan.                                            *)
(***************************************************************************)
EXTENDS DriveScanProps, PlayInfo, Propfind

serviceVars == <<vars, getVars, walkVars>>

ServiceInit == Init /\ GetInit /\ WalkInit

(* The process dies with all that is under way, and is started again.      *)
ServiceCrash == Crash /\ DropGets /\ DropWalks

ScanSteps(s) == Step(s) /\ UNCHANGED <<getVars, walkVars>>
GetSteps(c)  == GetStep(c) /\ UNCHANGED <<scanVars, walkVars>>
WalkSteps(w) == WalkStep(w) /\ UNCHANGED <<scanVars, getVars>>

ServiceNext ==
    \/ \E s \in Scanners : ScanSteps(s)
    \/ \E s \in Scanners : CallFails(s) /\ UNCHANGED <<getVars, walkVars>>
    \/ GetNext /\ UNCHANGED <<scanVars, walkVars>>
    \/ WalkNext /\ UNCHANGED <<scanVars, getVars>>
    \/ ServiceCrash
    \/ DriveChanges /\ UNCHANGED <<scanVars, getVars, walkVars>>

ServiceSpec == ServiceInit /\ [][ServiceNext]_serviceVars

(* Every goroutine gets to run: scans, and the requests that have begun.   *)
(* That a request comes, or a call fails, is never certain.                *)
ServiceFairness ==
    /\ \A s \in Scanners : WF_serviceVars(ScanSteps(s))
    /\ \A c \in Clients : WF_serviceVars(GetSteps(c))
    /\ \A w \in Walkers : WF_serviceVars(WalkSteps(w))

ServiceFairSpec == ServiceSpec /\ ServiceFairness

-----------------------------------------------------------------------------

GetLabels  == {"idle", "lookup", "remove", "unindex", "link", "update"}
WalkLabels == {"idle", "depth", "body", "open", "loop"}

(* A PROPFIND places items below the path asked for, and shows a folder    *)
(* under it: their paths may have names that come from a URL.              *)
AnyName   == Names \cup {RootName} \cup UNION {{u.names[n] : n \in DOMAIN u.names} : u \in WalkUrls}
AnyPath   == Seq(AnyName)
Placeable == [id : Ids, name : Names, dir : BOOLEAN, path : AnyPath]
WalkLoops == [list : Seq(Placeable), depth : {0, Infinite}]

(* Every variable of the service has the values the code can give it.  A   *)
(* walk has calls waiting in walkFS only between its first and last write. *)
ServiceTypeOK ==
    /\ TypeOK
    /\ getPc \in [Clients -> GetLabels]
    /\ getPath \in [Clients -> {GetPath(u) : u \in GetUrls} \cup {<<RootName>>}]
    /\ getFile \in [Clients -> File]
    /\ getReply \in [Clients -> {0, 302, 404}]
    /\ walkPc \in [Walkers -> WalkLabels]
    /\ walkPath \in [Walkers -> {PropfindPath(u) : u \in WalkUrls} \cup {<<RootName>>}]
    /\ walkDepth \in [Walkers -> Depths \cup {0}]
    /\ walkInfo \in [Walkers -> Placeable]
    /\ calls \in [Walkers -> Seq(WalkLoops)]
    /\ shown \in [Walkers -> Seq(Placeable)]
    /\ status \in [Walkers -> {0, 207, 400, 404, 500}]
    /\ \A w \in Walkers : calls[w] # << >> => walkPc[w] \in {"open", "loop"}

(* A redirect leads to the file asked for: the link is that of a file      *)
(* whose path has the key of the requested one, though records are written *)
(* by scans, and written back as they were read by other requests.         *)
RedirectMatchesRequest ==
    \A c \in Clients : getReply[c] = 302 =>
        makePathKey(getFile[c].path) = makePathKey(getPath[c])

(* A file shown by PROPFIND has a record for GET to find, unless a GET may *)
(* have been there to remove it: the listing the walk has in its hands may *)
(* be out of date, the records of its files stay.                          *)
Removable == {makePathKey(GetPath(u)) : u \in GetUrls}

ShownFileIsStored ==
    \A w \in Walkers : \A i \in 1 .. Len(shown[w]) :
        LET key == makePathKey(shown[w][i].path)
        IN  ~shown[w][i].dir => Has(cache, key) \/ key \in Removable

(* Requests and scans together implement Catalogue too: a GET takes away   *)
(* the key it asks for and no other, as a step of its own, and what it     *)
(* writes back late is one key stored; no listing appears before the files *)
(* it names, but for those that GETs evict.                                *)
Served == INSTANCE Catalogue
              WITH stored <- Stored, shown <- Shown, Evictable <- Removable

ServiceImplementsCatalogue == Served!Spec

(* The answer of a PROPFIND is the tree it asked for and nothing beside:   *)
(* an item comes after its folder, and is at most the depth away.          *)
ParentShown(list, i) ==
    \E j \in 1 .. i - 1 : list[j].dir /\ list[j].path = ParentPath(list[i])

ShownTreeIsConnected ==
    \A w \in Walkers : \A i \in 1 .. Len(shown[w]) :
        IF i = 1 THEN shown[w][i].path = walkPath[w]
        ELSE /\ ParentShown(shown[w], i)
             /\ walkDepth[w] # 0
             /\ walkDepth[w] = 1 => ParentPath(shown[w][i]) = walkPath[w]

(* What has been written goes out with 207 and nothing else does, although *)
(* every way out of handlePropfind sets a status.                          *)
StatusMatchesBody ==
    \A w \in Walkers :
        /\ shown[w] # << >> => status[w] = 207
        /\ status[w] = 207 /\ faults = 0 => shown[w] # << >>

(* What a PROPFIND of path should show: the nodes of the tree below it,    *)
(* down to the depth, with the folder itself.                              *)
FileOf(tree, id) ==
    IF id = RootId THEN RootDir
    ELSE FileAt(CHOOSE n \in tree : n.id = id, PathOf(tree, id))
Files(tree) == {FileOf(tree, id) : id \in {RootId} \cup {n.id : n \in tree}}

IsBelow(path, top) ==
    Len(path) >= Len(top) /\ SubSeq(path, 1, Len(top)) = top

Subtree(tree, path, depth) ==
    {f \in Files(tree) : /\ IsBelow(f.path, path)
                         /\ \/ depth = Infinite
                            \/ Len(f.path) <= Len(path) + depth}

(* Scans that go on write nothing that takes a part of the drive out of    *)
(* the catalogue, or shows it twice: not for a moment, although each of    *)
(* them starts from nothing; where nothing is disturbed and no two items   *)
(* have one key, one scan runs at a time and no GET asks for a folder      *)
(* (ScansApart and OnlyFilesAsked below, which the runs and the theorems   *)
(* assume: without either it is false).                                    *)
Whole ==
    /\ \A id \in Filled(drive) : ShowsFolder(drive, id)
    /\ \A k \in DOMAIN index : \E id \in Folders(drive) :
          k = makePathKey(PathOf(drive, id)) /\ index[k] = FileOf(drive, id)

KeysApart(tree) ==
    \A f, g \in Files(tree) :
        makePathKey(f.path) = makePathKey(g.path) => f = g

CatalogueStaysWhole == faults = 0 /\ KeysApart(drive) => Whole

(* When a PROPFIND of a folder is over and was answered with 207, the      *)
(* client has the whole of what it asked for, each item once, as long as   *)
(* nothing failed, the drive did not change and no two items have one key  *)
(* ("walkFS traverses filesystem fs starting at name up to depth levels",  *)
(* webdav.go).                                                             *)
WalkShowsSubtree ==
    \A w \in Walkers :
        /\ walkPc[w] = "idle" /\ status[w] = 207
        /\ faults = 0 /\ KeysApart(drive)
        =>
            /\ Len(shown[w]) = Cardinality(Subtree(drive, walkPath[w], walkDepth[w]))
            /\ {shown[w][i] : i \in 1 .. Len(shown[w])}
                  = Subtree(drive, walkPath[w], walkDepth[w])

(* A process that is started over a catalogue that is whole.               *)
OverWhole ==
    /\ CatalogTypeOK /\ FiledUnderOwnKey
    /\ faults = 0 /\ (KeysApart(drive) => Whole)
    /\ Fresh /\ GetInit /\ WalkInit

(* What the two above ask of the goroutines, of the clients and of the     *)
(* drive; nothing in the code sees to any of it.  The scan of main is over *)
(* when the ticker's begins, and the other way round: of two that overlap  *)
(* the one that begins takes the other's map away (list.go, ListAllFile).  *)
ScansApart ==
    \A s, t \in Scanners : pc[s] # "idle" /\ pc[t] # "idle" => s = t

(* No GET asks for what has the key of a folder, whose listing it would    *)
(* remove (file.go, GetPlayInfo).                                          *)
OnlyFilesAsked ==
    \A c \in Clients : getPc[c] # "idle" =>
        \A id \in Folders(drive) : makePathKey(getPath[c]) # makePathKey(PathOf(drive, id))

(* The path of a PROPFIND is not another one with the key of an item.      *)
OwnPathsAsked ==
    \A w \in Walkers : walkPc[w] # "idle" =>
        \A f \in Files(drive) : makePathKey(walkPath[w]) = makePathKey(f.path)
                               => walkPath[w] = f.path

(* GetFiles would fail on an empty folder (webdav.go, walkFS).             *)
NoFolderEmpty == Folders(drive) = Filled(drive)

(* The href of an item leads back to it: a client that takes hrefs from the *)
(* server's root (for those of files lack the first "/") and follows one   *)
(* it was shown gets what was shown there, by PROPFIND a folder and by GET *)
(* a file; but for what is in a folder of the drive that is called "root". *)
HrefsLeadBack ==
    \A w \in Walkers : \A i \in 1 .. Len(shown[w]) :
        LET file == shown[w][i]
        IN  \/ Followed(file, RootUrl) = file.path
            \/ file.dir /\ IsBelow(file.path, <<RootName, RootName>>)

(* A PROPFIND ends, whatever scans do to the listings while it walks.      *)
WalkEnds == \A w \in Walkers : walkPc[w] # "idle" ~> walkPc[w] = "idle"

(* Requests evict records, put back old ones and put a file's record over  *)
(* a listing; once they and the disturbances stop, the scans bring back    *)
(* the records of all files, the listings and the entries of all folders   *)
(* that hold something.                                                    *)
EventuallyServed ==
    <>[](\A id \in Filled(drive) :
            /\ ShowsFolder(drive, id)
            /\ ServesFolder(drive, id)
            /\ Has(index, makePathKey(PathOf(drive, id))))

(* GET asks for a link ("获取文件链接", webdav.go): it takes from the        *)
(* catalogue nothing that a scan has put there of what is on the drive.    *)
Deletes(c) == GetSteps(c) /\ getPc[c] \in {"remove", "unindex"}
Present(key) ==
    \E f \in Files(drive) : makePathKey(f.path) = key
GetKeepsCatalogue ==
    [][\A c \in Clients : Deletes(c) =>
          \A k \in DOMAIN cache : Present(k) => k \in DOMAIN cache']_serviceVars

=============================================================================
