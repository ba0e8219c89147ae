---------------------------- MODULE WebdavProofs ----------------------------
(***************************************************************************)
(* Proofs about the requests, for every drive, any number of goroutines    *)
(* and requests, every URL and depth, and every bound: records stay where  *)
(* they are looked for although requests write them back, redirects lead   *)
(* to the file asked for, the answer of a PROPFIND is a connected tree     *)
(* under the status that was sent, whatever the catalogue is turned into   *)
(* while it is walked; a file it shows has a record for GET, and its hrefs *)
(* lead back to what was shown.                                            *)
(***************************************************************************)
EXTENDS WebdavService, ListingProofs

LOCAL INSTANCE SequencesExt

-----------------------------------------------------------------------------
(***************************************************************************)
(* GET.                                                                    *)
(***************************************************************************)

(* The record in the hands of a GET, and the one it has answered with, is  *)
(* of the path asked for.                                                  *)
FileInHand ==
    /\ getPc \in [Clients -> GetLabels]
    /\ getPath = [c \in Clients |-> getPath[c]]
    /\ getFile \in [Clients -> File]
    /\ getReply = [c \in Clients |-> getReply[c]]
    /\ \A c \in Clients :
          getPc[c] \in {"link", "update"} \/ getReply[c] = 302 =>
              makePathKey(getFile[c].path) = makePathKey(getPath[c])

(* A request that is under way has not been redirected yet.                *)
Unanswered == \A c \in Clients : getPc[c] # "idle" => getReply[c] # 302

ServiceInv == TypeOK /\ Filed /\ FileInHand /\ Unanswered

LEMMA GetInv ==
    ASSUME ServiceInv, NEW c \in Clients, UNCHANGED scanVars,
           BeginGet(c) \/ GetStep(c) \/ LookupFails(c) \/ LinkFails(c) \/ UpdateFails(c)
    PROVE  ServiceInv'
<1> USE DEF GetGoto, Answer
<1>1. UNCHANGED <<cache, index, drive>> /\ faults' \in 0 .. MaxFaults
      => TypeOK' /\ Filed'
  BY DEF ServiceInv, TypeOK, CatalogTypeOK, HeapTypeOK, ControlTypeOK, scanVars,
         Filed, MapsFiled, FiledUnderOwnKey, Listing
<1>2. CASE BeginGet(c)
  <2>1. PICK u \in GetUrls : getPath' = [getPath EXCEPT ![c] = GetPath(u)]
    BY <1>2 DEF BeginGet
  <2>2. /\ getPc' = [getPc EXCEPT ![c] = "lookup"]
        /\ getFile' = [getFile EXCEPT ![c] = RootDir]
        /\ getReply' = [getReply EXCEPT ![c] = 0]
    BY <1>2 DEF BeginGet
  <2>3. FileInHand'
    <3>1. getPath' = [x \in Clients |-> getPath'[x]]
      BY <2>1 DEF ServiceInv, FileInHand
    <3>2. getReply' = [x \in Clients |-> getReply'[x]]
      BY <2>2 DEF ServiceInv, FileInHand
    <3>3. getPc' \in [Clients -> GetLabels] /\ getFile' \in [Clients -> File]
      BY <2>2, RootDirType DEF ServiceInv, FileInHand, GetLabels
    <3>4. ASSUME NEW x \in Clients, getPc'[x] \in {"link", "update"} \/ getReply'[x] = 302
          PROVE  makePathKey(getFile'[x].path) = makePathKey(getPath'[x])
      <4>1. x # c
        BY <2>2, <3>4 DEF ServiceInv, FileInHand
      <4>2. /\ getPc'[x] = getPc[x] /\ getReply'[x] = getReply[x]
            /\ getFile'[x] = getFile[x] /\ getPath'[x] = getPath[x]
        BY <2>1, <2>2, <4>1 DEF ServiceInv, FileInHand
      <4> QED
        BY <3>4, <4>2 DEF ServiceInv, FileInHand
    <3> QED
      BY <3>1, <3>2, <3>3, <3>4 DEF FileInHand
  <2>4. Unanswered'
    BY <2>2 DEF ServiceInv, FileInHand, Unanswered
  <2> QED
    BY <1>1, <1>2, <2>3, <2>4 DEF BeginGet, ServiceInv, TypeOK, CatalogTypeOK, catalogVars
<1>3. CASE Lookup(c)
  <2>1. FileInHand' /\ Unanswered'
    <3>1. ASSUME NEW k \in DOMAIN cache, cache[k].kind = "file"
          PROVE  cache[k].file \in File /\ makePathKey(cache[k].file.path) = k
      BY <3>1 DEF ServiceInv, TypeOK, CatalogTypeOK, Record, Filed, FiledUnderOwnKey, Listing
    <3> QED
      BY <1>3, <3>1 DEF Lookup, ServiceInv, FileInHand, Unanswered, GetLabels, Has
  <2> QED
    BY <1>1, <1>3, <2>1 DEF Lookup, ServiceInv, TypeOK, CatalogTypeOK, catalogVars
<1>4. CASE RemoveFile(c)
  <2>1. FileInHand' /\ Unanswered'
    BY <1>4 DEF RemoveFile, ServiceInv, FileInHand, Unanswered, GetLabels
  <2>2. TypeOK'
    BY <1>4 DEF RemoveFile, Delete, ServiceInv, TypeOK, CatalogTypeOK, HeapTypeOK,
                ControlTypeOK, scanVars
  <2>3. Filed'
    <3>1. MapsFiled'
      BY DEF ServiceInv, Filed, MapsFiled, scanVars
    <3>2. FiledUnderOwnKey'
      BY <1>4 DEF RemoveFile, Delete, ServiceInv, Filed, FiledUnderOwnKey, Listing
    <3> QED
      BY <3>1, <3>2 DEF Filed
  <2> QED
    BY <2>1, <2>2, <2>3 DEF ServiceInv
<1>5. CASE RemoveListIndexData(c)
  <2>1. FileInHand' /\ Unanswered'
    BY <1>5 DEF RemoveListIndexData, ServiceInv, FileInHand, Unanswered, GetLabels
  <2>2. TypeOK'
    BY <1>5 DEF RemoveListIndexData, Delete, ServiceInv, TypeOK, CatalogTypeOK,
                HeapTypeOK, ControlTypeOK, scanVars
  <2>3. Filed'
    BY <1>5 DEF RemoveListIndexData, ServiceInv, Filed, MapsFiled, FiledUnderOwnKey,
                Listing, scanVars
  <2> QED
    BY <2>1, <2>2, <2>3 DEF ServiceInv
<1>6. CASE FileDownloadURL(c) \/ LookupFails(c) \/ LinkFails(c) \/ UpdateFails(c)
  <2>1. FileInHand' /\ Unanswered'
    BY <1>6
    DEF FileDownloadURL, LookupFails, LinkFails, UpdateFails, ServiceInv, FileInHand,
        Unanswered, GetGoto, GetLabels
  <2>2. UNCHANGED <<cache, index, drive>> /\ faults' \in 0 .. MaxFaults
    BY <1>6, CatalogAssumption
    DEF FileDownloadURL, LookupFails, LinkFails, UpdateFails, Fault, catalogVars, ServiceInv, TypeOK,
        CatalogTypeOK
  <2> QED
    BY <1>1, <2>1, <2>2 DEF ServiceInv
<1>7. CASE UpdateFile(c)
  <2> DEFINE key  == makePathKey(getPath[c])
             file == getFile[c]
  <2>1. makePathKey(file.path) = key /\ file \in File
    BY <1>7 DEF UpdateFile, ServiceInv, FileInHand
  <2>2. FileInHand' /\ Unanswered'
    BY <1>7, <2>1 DEF UpdateFile, ServiceInv, FileInHand, Unanswered, GetLabels
  <2>3. cache' = Put(cache, key, FileRecord(file))
    BY <1>7 DEF UpdateFile
  <2> HIDE DEF key, file
  <2>4. FileRecord(file) \in Record
    BY <2>1, RootDirType, EmptySeq DEF FileRecord, Record
  <2>5. TypeOK'
    <3>1. CatalogTypeOK'
      BY <1>7, <2>3, <2>4
      DEF UpdateFile, Put, ServiceInv, TypeOK, CatalogTypeOK
    <3> QED
      BY <3>1 DEF ServiceInv, TypeOK, HeapTypeOK, ControlTypeOK, scanVars
  <2>6. Filed'
    <3>1. MapsFiled'
      BY DEF ServiceInv, Filed, MapsFiled, scanVars
    <3>2. FiledUnderOwnKey'
      BY <2>1, <2>3
      DEF Put, FileRecord, ServiceInv, Filed, FiledUnderOwnKey, Listing
    <3> QED
      BY <3>1, <3>2 DEF Filed
  <2> QED
    BY <2>2, <2>5, <2>6 DEF ServiceInv
<1> QED
  BY <1>2, <1>3, <1>4, <1>5, <1>6, <1>7 DEF GetStep

LEMMA ServiceInvStep == ServiceInv /\ [ServiceNext]_serviceVars => ServiceInv'
<1> SUFFICES ASSUME ServiceInv, [ServiceNext]_serviceVars PROVE ServiceInv'
  OBVIOUS
<1>1. ASSUME [Next]_vars, UNCHANGED getVars PROVE ServiceInv'
  <2>1. TypeOK' /\ Filed'
    BY <1>1, TypeStep, FiledStep DEF ServiceInv
  <2>2. FileInHand' /\ Unanswered'
    BY <1>1 DEF getVars, ServiceInv, FileInHand, Unanswered
  <2> QED
    BY <2>1, <2>2 DEF ServiceInv
<1>2. ASSUME NEW s \in Scanners, ScanSteps(s) PROVE ServiceInv'
  BY <1>1, <1>2 DEF ScanSteps, Next, ScanNext
<1>3. ASSUME NEW s \in Scanners, CallFails(s), UNCHANGED getVars PROVE ServiceInv'
  BY <1>1, <1>3 DEF Next, ScanNext
<1>4. CASE GetNext /\ UNCHANGED <<scanVars, walkVars>>
  BY <1>4, GetInv DEF GetNext
<1>5. CASE WalkNext /\ UNCHANGED <<scanVars, getVars>>
  <2>1. UNCHANGED <<cache, index, drive>> /\ faults' \in 0 .. MaxFaults
    BY <1>5, CatalogAssumption
    DEF WalkNext, BeginPropfind, WalkStep, FindEntry, BadBody, WalkRoot, OpenFolder,
        NextItem, EndLoop, EndWalk, WriteFails, Fault, catalogVars, ServiceInv, TypeOK,
        CatalogTypeOK
  <2>2. TypeOK' /\ Filed'
    BY <1>5, <2>1
    DEF ServiceInv, TypeOK, CatalogTypeOK, HeapTypeOK, ControlTypeOK, scanVars,
        Filed, MapsFiled, FiledUnderOwnKey, Listing
  <2>3. FileInHand' /\ Unanswered'
    BY <1>5 DEF getVars, ServiceInv, FileInHand, Unanswered
  <2> QED
    BY <2>2, <2>3 DEF ServiceInv
<1>6. CASE ServiceCrash
  <2>1. TypeOK' /\ Filed'
    BY <1>6, TypeStep, FiledStep DEF ServiceCrash, ServiceInv, Next, ScanNext
  <2>2. FileInHand' /\ Unanswered'
    BY <1>6 DEF ServiceCrash, DropGets, ServiceInv, FileInHand, Unanswered, GetLabels
  <2> QED
    BY <2>1, <2>2 DEF ServiceInv
<1>7. CASE DriveChanges /\ UNCHANGED <<scanVars, getVars, walkVars>>
  BY <1>1, <1>7 DEF Next
<1>8. CASE UNCHANGED serviceVars
  BY <1>1, <1>8 DEF serviceVars
<1> QED
  BY <1>2, <1>3, <1>4, <1>5, <1>6, <1>7, <1>8 DEF ServiceNext

(* A request that is under way has the path of a URL.                      *)
AskedPath == \A c \in Clients : getPc[c] # "idle" => getPath[c] \in {GetPath(u) : u \in GetUrls}

LEMMA AskedPathStep ==
    ASSUME ServiceInv, AskedPath, [ServiceNext]_serviceVars
    PROVE  AskedPath'
<1>1. CASE UNCHANGED getVars
  BY <1>1 DEF getVars, AskedPath
<1>2. CASE ServiceCrash
  BY <1>2 DEF ServiceCrash, DropGets, AskedPath
<1>3. ASSUME NEW c \in Clients, BeginGet(c) PROVE AskedPath'
  BY <1>3 DEF BeginGet, GetGoto, AskedPath, ServiceInv, FileInHand
<1>4. ASSUME NEW c \in Clients, GetStep(c) \/ LookupFails(c) \/ LinkFails(c) \/ UpdateFails(c)
      PROVE  AskedPath'
  <2>1. UNCHANGED getPath /\ getPc[c] # "idle" /\ \A d \in Clients \ {c} : getPc'[d] = getPc[d]
    BY <1>4 DEF GetStep, Lookup, RemoveFile, RemoveListIndexData, FileDownloadURL, LookupFails,
                LinkFails, UpdateFile, UpdateFails, Answer, GetGoto, ServiceInv, FileInHand
  <2> QED
    BY <2>1 DEF AskedPath
<1> QED
  BY <1>1, <1>2, <1>3, <1>4 DEF ServiceNext, ScanSteps, GetNext, serviceVars

LEMMA ServiceInvInit == ServiceInit => ServiceInv
<1> SUFFICES ASSUME ServiceInit PROVE ServiceInv
  OBVIOUS
<1>1. TypeOK
  BY TypeInit DEF ServiceInit
<1>2. Filed
  BY DEF ServiceInit, Init, CatalogInit, Fresh, EmptyDB, Filed, MapsFiled, FiledUnderOwnKey
<1>3. FileInHand /\ Unanswered
  BY RootDirType DEF ServiceInit, GetInit, FileInHand, Unanswered, GetLabels
<1> QED
  BY <1>1, <1>2, <1>3 DEF ServiceInv

(* Records are filed where their readers look, also while GETs evict them  *)
(* and write them back (GetPlayInfo, file.go).                             *)
THEOREM ServiceRecordsAreFiled == ServiceSpec => []FiledUnderOwnKey
<1>1. ServiceInv => FiledUnderOwnKey
  BY DEF ServiceInv, Filed
<1> QED
  BY <1>1, ServiceInvInit, ServiceInvStep, PTL DEF ServiceSpec

(* The link that a GET is redirected to is that of the file asked for      *)
(* (handleGetHeadPost, webdav.go), whoever rewrites its record meanwhile.  *)
THEOREM RedirectsMatch == ServiceSpec => []RedirectMatchesRequest
<1>1. ServiceInv => RedirectMatchesRequest
  BY DEF ServiceInv, FileInHand, RedirectMatchesRequest
<1> QED
  BY <1>1, ServiceInvInit, ServiceInvStep, PTL DEF ServiceSpec

-----------------------------------------------------------------------------
(***************************************************************************)
(* PROPFIND.  What its variables hold for one request: label is where it   *)
(* is, p, d and i are its path, depth and entry, cs the loops that wait,   *)
(* list what it has shown and st its status.                               *)
(***************************************************************************)

HasParent(item, list) ==
    \E j \in 1 .. Len(list) : list[j].dir /\ list[j].path = ParentPath(item)

(* ShownTreeIsConnected, of one request.                                   *)
Connected(list, p, d) ==
    \A i \in 1 .. Len(list) :
        IF i = 1 THEN list[i].path = p
        ELSE /\ ParentShown(list, i)
             /\ d # 0
             /\ d = 1 => ParentPath(list[i]) = p

(* What a loop still has to visit belongs below a folder that was shown,   *)
(* and, with depth 1, below the one that was asked for.                    *)
Belongs(item, list, p, d) ==
    HasParent(item, list) /\ d # 0 /\ (d = 1 => ParentPath(item) = p)

LoopOK(loop, list, p, d) ==
    /\ d # 0
    /\ d = 1 => loop.depth = 0
    /\ \A k \in 1 .. Len(loop.list) : Belongs(loop.list[k], list, p, d)

(* A folder that is opened was shown, and its depth is not used up.        *)
OpenOK(p, d, i, cs, list) ==
    /\ i.dir
    /\ \E j \in 1 .. Len(list) : list[j].dir /\ list[j].path = i.path
    /\ IF cs = << >> THEN i.path = p /\ d # 0 ELSE cs[Len(cs)].depth # 0

WalkTypes(label, p, d, i, cs, list) ==
    /\ label \in WalkLabels
    /\ p \in AnyPath
    /\ d \in {0, 1, Infinite, Invalid}
    /\ i \in Placeable
    /\ cs \in Seq(WalkLoops)
    /\ list \in Seq(Placeable)

WalkOK(label, p, d, i, cs, list, st) ==
    /\ WalkTypes(label, p, d, i, cs, list)
    /\ Connected(list, p, d)
    /\ \A l \in 1 .. Len(cs) : LoopOK(cs[l], list, p, d)
    /\ list # << >> => st = 207
    /\ label \in {"depth", "body"} => list = << >> /\ cs = << >> /\ st = 0
    /\ label \in {"open", "loop"} => list # << >>
    /\ label \in {"body", "open", "loop"} => d # Invalid
    /\ label = "open" => OpenOK(p, d, i, cs, list)

WalkFunctions ==
    /\ walkPc = [w \in Walkers |-> walkPc[w]]
    /\ walkPath = [w \in Walkers |-> walkPath[w]]
    /\ walkDepth = [w \in Walkers |-> walkDepth[w]]
    /\ walkInfo = [w \in Walkers |-> walkInfo[w]]
    /\ calls = [w \in Walkers |-> calls[w]]
    /\ shown = [w \in Walkers |-> shown[w]]
    /\ status = [w \in Walkers |-> status[w]]

WalkInv ==
    /\ WalkFunctions
    /\ \A w \in Walkers : WalkOK(walkPc[w], walkPath[w], walkDepth[w], walkInfo[w],
                                 calls[w], shown[w], status[w])

(* A request is all that a step of it changes.                             *)
OnlyThis(w) ==
    /\ WalkFunctions'
    /\ \A v \in Walkers \ {w} :
          /\ walkPc'[v] = walkPc[v] /\ walkPath'[v] = walkPath[v]
          /\ walkDepth'[v] = walkDepth[v] /\ walkInfo'[v] = walkInfo[v]
          /\ calls'[v] = calls[v] /\ shown'[v] = shown[v] /\ status'[v] = status[v]

LEMMA WalkFrame ==
    ASSUME WalkInv, NEW w \in Walkers, OnlyThis(w),
           WalkOK(walkPc'[w], walkPath'[w], walkDepth'[w], walkInfo'[w],
                  calls'[w], shown'[w], status'[w])
    PROVE  WalkInv'
<1>1. ASSUME NEW v \in Walkers
      PROVE  WalkOK(walkPc'[v], walkPath'[v], walkDepth'[v], walkInfo'[v],
                    calls'[v], shown'[v], status'[v])
  <2>1. CASE v = w
    BY <2>1
  <2>2. CASE v # w
    BY <2>2 DEF OnlyThis, WalkInv
  <2> QED
    BY <2>1, <2>2
<1> QED
  BY <1>1 DEF OnlyThis, WalkInv

(* An item that belongs where it is shown leaves the answer connected, and *)
(* what belonged there before still does.                                  *)
LEMMA ConnectedAppend ==
    ASSUME NEW p, NEW d, NEW list \in Seq(Placeable), NEW item \in Placeable,
           Connected(list, p, d),
           IF list = << >> THEN item.path = p ELSE Belongs(item, list, p, d)
    PROVE  Connected(Append(list, item), p, d)
<1> DEFINE longer == Append(list, item)
<1>1. /\ Len(longer) = Len(list) + 1 /\ Len(list) \in Nat
      /\ \A i \in 1 .. Len(list) : longer[i] = list[i]
      /\ longer[Len(list) + 1] = item
  BY AppendProperties, LenProperties
<1>2. list = << >> <=> Len(list) = 0
  BY EmptySeq
<1> HIDE DEF longer
<1>3. ASSUME NEW i \in 1 .. Len(longer), i = 1
      PROVE  longer[i].path = p
  BY <1>1, <1>2, <1>3 DEF Connected
<1>4. ASSUME NEW i \in 1 .. Len(longer), i # 1
      PROVE  ParentShown(longer, i) /\ d # 0 /\ (d = 1 => ParentPath(longer[i]) = p)
  <2>1. CASE i \in 1 .. Len(list)
    <3>1. ParentShown(list, i) /\ d # 0 /\ (d = 1 => ParentPath(list[i]) = p)
      BY <1>4, <2>1 DEF Connected
    <3> QED
      BY <1>1, <2>1, <3>1 DEF ParentShown
  <2>2. CASE i = Len(list) + 1
    <3>1. Belongs(item, list, p, d)
      BY <1>1, <1>2, <1>4, <2>2
    <3> QED
      BY <1>1, <2>2, <3>1 DEF Belongs, HasParent, ParentShown
  <2> QED
    BY <1>1, <2>1, <2>2
<1>5. Connected(longer, p, d)
  BY <1>3, <1>4 DEF Connected
<1> QED
  BY <1>5 DEF longer

LEMMA LoopAppend ==
    ASSUME NEW p, NEW d, NEW list \in Seq(Placeable), NEW item \in Placeable,
           NEW loop, LoopOK(loop, list, p, d)
    PROVE  LoopOK(loop, Append(list, item), p, d)
<1> DEFINE longer == Append(list, item)
<1>1. /\ Len(longer) = Len(list) + 1 /\ Len(list) \in Nat
      /\ \A i \in 1 .. Len(list) : longer[i] = list[i]
  BY AppendProperties, LenProperties
<1> HIDE DEF longer
<1>2. LoopOK(loop, longer, p, d)
  BY <1>1 DEF LoopOK, Belongs, HasParent
<1> QED
  BY <1>2 DEF longer
(* The path of a PROPFIND, and of what it finds in a folder.               *)
LEMMA UrlPath == ASSUME NEW u \in WalkUrls PROVE PropfindPath(u) \in AnyPath
<1> DEFINE own == {u.names[n] : n \in DOMAIN u.names}
<1>1. u.names \in Seq(own)
  BY WalkAssumption DEF IsUrl
<1>2. own \subseteq AnyName /\ RootName \in AnyName
  BY DEF AnyName
<1> HIDE DEF own
<1>3. u.names \in Seq(AnyName)
  BY <1>1, <1>2, SeqMonotonic
<1>4. <<RootName>> \in Seq(AnyName)
  BY <1>2
<1>5. <<RootName>> \o u.names \in Seq(AnyName)
  BY <1>3, <1>4, ConcatProperties
<1> QED
  BY <1>3, <1>5 DEF PropfindPath, AnyPath

LEMMA PlaceableFile ==
    ASSUME NEW file \in File, NEW p \in AnyPath
    PROVE  /\ FileAt(file, p) \in Placeable
           /\ [file EXCEPT !.path = p] \in Placeable
BY DEF File, FileAt, Placeable

LEMMA RootPath == <<RootName>> \in AnyPath /\ RootDir \in Placeable
<1>1. RootName \in AnyName /\ << >> \in Names
  BY DEF AnyName, Names
<1>2. <<RootName>> \in Seq(AnyName)
  BY <1>1
<1> QED
  BY <1>1, <1>2 DEF AnyPath, RootDir, Placeable, Ids

LEMMA FilePlaceable == File \subseteq Placeable
<1>1. Names \cup {RootName} \subseteq AnyName
  BY DEF AnyName
<1>2. \A p \in Path : p \in AnyPath
  BY <1>1, SeqMonotonic DEF Path, AnyPath
<1> QED
  BY <1>2 DEF File, Placeable

LEMMA WalkBegin == ASSUME WalkInv, NEW w \in Walkers, BeginPropfind(w) PROVE WalkInv'
<1>1. PICK u \in WalkUrls : walkPath' = [walkPath EXCEPT ![w] = PropfindPath(u)]
  BY DEF BeginPropfind
<1>2. PICK d \in Depths : walkDepth' = [walkDepth EXCEPT ![w] = d]
  BY DEF BeginPropfind
<1>3. WalkTypes("depth", PropfindPath(u), d, RootDir, << >>, << >>)
  BY UrlPath, RootPath, WalkAssumption, EmptySeq DEF WalkTypes, WalkLabels
<1>4. Len(<< >>) = 0 /\ 1 .. 0 = {}
  OBVIOUS
<1>5. WalkOK("depth", PropfindPath(u), d, RootDir, << >>, << >>, 0)
  BY <1>3, <1>4 DEF WalkOK, Connected
<1>6. OnlyThis(w)
  BY <1>1, <1>2 DEF BeginPropfind, WalkGoto, OnlyThis, WalkInv, WalkFunctions
<1>7. /\ walkPc'[w] = "depth" /\ walkPath'[w] = PropfindPath(u) /\ walkDepth'[w] = d
      /\ walkInfo'[w] = RootDir /\ calls'[w] = << >> /\ shown'[w] = << >> /\ status'[w] = 0
  BY <1>1, <1>2 DEF BeginPropfind, WalkGoto, WalkInv, WalkFunctions
<1> QED
  BY <1>5, <1>6, <1>7, WalkFrame

(* The status is sent once.                                                *)
LEMMA CommitOnce ==
    ASSUME WalkInv, NEW w \in Walkers, NEW code, Commit(w, code)
    PROVE  /\ status' = [v \in Walkers |-> status'[v]]
           /\ \A v \in Walkers \ {w} : status'[v] = status[v]
           /\ status'[w] = IF status[w] = 0 THEN code ELSE status[w]
BY DEF Commit, WalkInv, WalkFunctions

(* A request that ends, and what it writes last.                           *)
LEMMA WalkStops ==
    ASSUME WalkInv, NEW w \in Walkers, NEW code, Commit(w, code), WalkGoto(w, "idle"),
           calls' = calls \/ calls' = [calls EXCEPT ![w] = << >>],
           UNCHANGED <<walkPath, walkDepth, walkInfo, shown>>
    PROVE  WalkInv'
<1>1. WalkOK(walkPc[w], walkPath[w], walkDepth[w], walkInfo[w], calls[w], shown[w], status[w])
  BY DEF WalkInv
<1>2. shown[w] # << >> => status'[w] = 207
  BY <1>1, CommitOnce DEF WalkOK
<1>3. Len(<< >>) = 0 /\ 1 .. 0 = {} /\ << >> \in Seq(WalkLoops)
  BY EmptySeq
<1>4. calls'[w] = calls[w] \/ calls'[w] = << >>
  BY DEF WalkInv, WalkFunctions
<1>5. WalkOK("idle", walkPath[w], walkDepth[w], walkInfo[w], calls'[w], shown[w], status'[w])
  <2>1. WalkTypes("idle", walkPath[w], walkDepth[w], walkInfo[w], calls'[w], shown[w])
    BY <1>1, <1>3, <1>4 DEF WalkOK, WalkTypes, WalkLabels
  <2>2. \A l \in 1 .. Len(calls'[w]) : LoopOK(calls'[w][l], shown[w], walkPath[w], walkDepth[w])
    BY <1>1, <1>3, <1>4 DEF WalkOK
  <2> QED
    BY <1>1, <1>2, <2>1, <2>2 DEF WalkOK
<1>6. OnlyThis(w) /\ walkPc'[w] = "idle"
  BY CommitOnce DEF WalkGoto, OnlyThis, WalkInv, WalkFunctions
<1> QED
  BY <1>5, <1>6, WalkFrame

LEMMA WalkFindEntry ==
    ASSUME TypeOK, WalkInv, NEW w \in Walkers, FindEntry(w) PROVE WalkInv'
<1>1. CASE Commit(w, 400) /\ WalkGoto(w, "idle") /\ UNCHANGED walkInfo
  BY <1>1, WalkStops DEF FindEntry
<1>2. CASE Commit(w, 404) /\ WalkGoto(w, "idle") /\ UNCHANGED walkInfo
  BY <1>2, WalkStops DEF FindEntry
<1>3. CASE walkDepth[w] # Invalid /\ Has(index, makePathKey(walkPath[w])) /\ WalkGoto(w, "body")
  <2> DEFINE entry == index[makePathKey(walkPath[w])]
  <2>1. entry \in Placeable
    BY <1>3, FilePlaceable DEF TypeOK, CatalogTypeOK, Has
  <2>2. walkInfo' = [walkInfo EXCEPT ![w] = entry] /\ UNCHANGED status
    BY <1>3 DEF FindEntry, WalkGoto
  <2> HIDE DEF entry
  <2>3. OnlyThis(w) /\ walkPc'[w] = "body" /\ walkInfo'[w] = entry
    BY <1>3, <2>2 DEF FindEntry, WalkGoto, OnlyThis, WalkInv, WalkFunctions
  <2>4. WalkOK(walkPc[w], walkPath[w], walkDepth[w], walkInfo[w], calls[w], shown[w], status[w])
    BY DEF WalkInv
  <2>5. walkPc[w] = "depth"
    BY DEF FindEntry
  <2>6. WalkOK("body", walkPath[w], walkDepth[w], entry, calls[w], shown[w], status[w])
    BY <1>3, <2>1, <2>4, <2>5 DEF WalkOK, WalkTypes, WalkLabels
  <2> QED
    BY <2>2, <2>3, <2>6, WalkFrame DEF FindEntry
<1> QED
  BY <1>1, <1>2, <1>3 DEF FindEntry

(* walkFn on an item that belongs where the walk is.                       *)
LEMMA WalkVisit ==
    ASSUME WalkInv, NEW w \in Walkers, NEW file \in Placeable, NEW depth,
           Visit(w, file, depth), UNCHANGED <<walkPath, walkDepth>>,
           calls' = [v \in Walkers |-> calls'[v]],
           \A v \in Walkers \ {w} : calls'[v] = calls[v],
           calls'[w] \in Seq(WalkLoops),
           \A l \in 1 .. Len(calls'[w]) : LoopOK(calls'[w][l], shown[w], walkPath[w], walkDepth[w]),
           IF shown[w] = << >> THEN status[w] = 0 /\ file.path = walkPath[w]
           ELSE Belongs(file, shown[w], walkPath[w], walkDepth[w]),
           walkDepth[w] # Invalid,
           IF calls'[w] = << >> THEN file.path = walkPath[w] /\ depth = walkDepth[w]
           ELSE depth = calls'[w][Len(calls'[w])].depth
    PROVE  WalkInv'
<1>1. WalkOK(walkPc[w], walkPath[w], walkDepth[w], walkInfo[w], calls[w], shown[w], status[w])
  BY DEF WalkInv
<1>2. /\ shown' = [shown EXCEPT ![w] = Append(@, file)]
      /\ \/ /\ file.dir /\ depth # 0
            /\ walkPc' = [walkPc EXCEPT ![w] = "open"]
            /\ walkInfo' = [walkInfo EXCEPT ![w] = file]
         \/ /\ ~(file.dir /\ depth # 0)
            /\ walkPc' = [walkPc EXCEPT ![w] = "loop"]
            /\ walkInfo' = walkInfo
  BY DEF Visit, WalkGoto
<1>3. /\ walkPc'[w] \in WalkLabels
      /\ IF file.dir /\ depth # 0 THEN walkPc'[w] = "open" /\ walkInfo'[w] = file
         ELSE walkPc'[w] = "loop" /\ walkInfo'[w] = walkInfo[w]
      /\ shown'[w] = Append(shown[w], file)
  BY <1>2 DEF WalkInv, WalkFunctions, WalkLabels
<1>4. /\ status' = [v \in Walkers |-> status'[v]]
      /\ \A v \in Walkers \ {w} : status'[v] = status[v]
      /\ status'[w] = 207
  BY <1>1, CommitOnce DEF Visit, WalkOK
<1>5. OnlyThis(w)
  <2>1. /\ walkPc' = [v \in Walkers |-> walkPc'[v]]
        /\ walkInfo' = [v \in Walkers |-> walkInfo'[v]]
        /\ \A v \in Walkers \ {w} : walkPc'[v] = walkPc[v] /\ walkInfo'[v] = walkInfo[v]
    BY <1>2 DEF WalkInv, WalkFunctions
  <2>2. /\ shown' = [v \in Walkers |-> shown'[v]]
        /\ \A v \in Walkers \ {w} : shown'[v] = shown[v]
    BY <1>2 DEF WalkInv, WalkFunctions
  <2>3. /\ walkPath' = [v \in Walkers |-> walkPath'[v]]
        /\ walkDepth' = [v \in Walkers |-> walkDepth'[v]]
    BY DEF WalkInv, WalkFunctions
  <2> QED
    BY <1>4, <2>1, <2>2, <2>3 DEF OnlyThis, WalkFunctions
<1>6. /\ WalkTypes(walkPc'[w], walkPath[w], walkDepth[w], walkInfo[w], calls'[w], shown[w])
      /\ Connected(shown[w], walkPath[w], walkDepth[w])
  BY <1>1, <1>3 DEF WalkOK, WalkTypes
<1>7. WalkOK(walkPc'[w], walkPath[w], walkDepth[w], walkInfo'[w], calls'[w],
             Append(shown[w], file), 207)
  <2> DEFINE list   == shown[w]
             longer == Append(shown[w], file)
             p      == walkPath[w]
             d      == walkDepth[w]
  <2>1. list \in Seq(Placeable)
    BY <1>6 DEF WalkTypes
  <2>2. /\ longer \in Seq(Placeable)
        /\ Len(longer) = Len(list) + 1 /\ Len(list) \in Nat
        /\ longer[Len(list) + 1] = file
        /\ longer # << >>
    BY <2>1, AppendProperties, LenProperties
  <2>3. Connected(longer, p, d)
    BY <1>6, <2>1, ConnectedAppend
  <2>4. \A l \in 1 .. Len(calls'[w]) : LoopOK(calls'[w][l], longer, p, d)
    BY <2>1, LoopAppend
  <2> HIDE DEF longer
  <2>5. WalkTypes(walkPc'[w], p, d, walkInfo'[w], calls'[w], longer)
    BY <1>3, <1>6, <2>2 DEF WalkTypes
  <2>6. ASSUME walkPc'[w] = "open" PROVE OpenOK(p, d, walkInfo'[w], calls'[w], longer)
    <3>1. walkInfo'[w] = file /\ file.dir /\ depth # 0
      BY <1>3, <2>6
    <3>2. \E k \in 1 .. Len(longer) : longer[k].dir /\ longer[k].path = walkInfo'[w].path
      <4>1. Len(list) + 1 \in 1 .. Len(longer)
        BY <2>2
      <4> QED
        BY <2>2, <3>1, <4>1
    <3>3. IF calls'[w] = << >> THEN walkInfo'[w].path = p /\ d # 0
          ELSE calls'[w][Len(calls'[w])].depth # 0
      BY <3>1
    <3> QED
      BY <3>1, <3>2, <3>3 DEF OpenOK
  <2>7. walkPc'[w] \notin {"depth", "body"} /\ d # Invalid
    BY <1>3
  <2>8. WalkOK(walkPc'[w], p, d, walkInfo'[w], calls'[w], longer, 207)
    BY <2>2, <2>3, <2>4, <2>5, <2>6, <2>7 DEF WalkOK
  <2> QED
    BY <2>8 DEF longer
<1>8. walkPath'[w] = walkPath[w] /\ walkDepth'[w] = walkDepth[w]
  OBVIOUS
<1> QED
  BY <1>3, <1>4, <1>5, <1>7, <1>8, WalkFrame

LEMMA WalkRootInv == ASSUME WalkInv, NEW w \in Walkers, WalkRoot(w) PROVE WalkInv'
<1> DEFINE file == [walkInfo[w] EXCEPT !.path = walkPath[w]]
<1>1. WalkOK(walkPc[w], walkPath[w], walkDepth[w], walkInfo[w], calls[w], shown[w], status[w])
  BY DEF WalkInv
<1>2. walkPc[w] = "body"
  BY DEF WalkRoot
<1>3. file \in Placeable /\ file.path = walkPath[w]
  BY <1>1 DEF WalkOK, WalkTypes, Placeable
<1>4. Visit(w, file, walkDepth[w])
  BY DEF WalkRoot
<1> HIDE DEF file
<1>5. shown[w] = << >> /\ calls[w] = << >> /\ status[w] = 0 /\ walkDepth[w] # Invalid
  BY <1>1, <1>2 DEF WalkOK
<1>6. /\ calls' = [v \in Walkers |-> calls'[v]]
      /\ calls' = calls /\ UNCHANGED <<walkPath, walkDepth>>
  BY DEF WalkRoot, WalkInv, WalkFunctions
<1>7. Len(<< >>) = 0 /\ 1 .. 0 = {} /\ << >> \in Seq(WalkLoops)
  BY EmptySeq
<1>8. \A l \in 1 .. Len(calls'[w]) : LoopOK(calls'[w][l], shown[w], walkPath[w], walkDepth[w])
  BY <1>5, <1>6, <1>7
<1>9. calls'[w] = << >> /\ calls'[w] \in Seq(WalkLoops)
  BY <1>5, <1>6, <1>7
<1> QED
  BY <1>3, <1>4, <1>5, <1>6, <1>8, <1>9, WalkVisit

(* What GetFiles finds in a folder belongs below it, at whatever path its  *)
(* records have.                                                           *)
LEMMA PlacedBelongs ==
    ASSUME NEW list \in Seq(File), NEW p \in AnyPath
    PROVE  /\ Placed(list, p) \in Seq(Placeable)
           /\ Len(Placed(list, p)) = Len(list)
           /\ \A k \in 1 .. Len(list) : ParentPath(Placed(list, p)[k]) = p
<1>1. Len(list) \in Nat /\ \A k \in 1 .. Len(list) : list[k] \in File
  BY LenProperties, ElementOfSeq
<1>2. \A k \in 1 .. Len(list) :
         /\ FileAt(list[k], Append(p, list[k].name)) \in Placeable
         /\ ParentPath(FileAt(list[k], Append(p, list[k].name))) = p
  <2> TAKE k \in 1 .. Len(list)
  <2>1. list[k] \in File /\ list[k].name \in AnyName
    BY <1>1 DEF File, AnyName
  <2>2. p \in Seq(AnyName)
    BY DEF AnyPath
  <2>3. Append(p, list[k].name) \in AnyPath
    BY <2>1, <2>2, AppendProperties DEF AnyPath
  <2>4. ParentPath(FileAt(list[k], Append(p, list[k].name))) = p
    BY <2>1, <2>2, ParentOf
  <2> QED
    BY <2>1, <2>3, <2>4, PlaceableFile
<1>3. Placed(list, p) \in [1 .. Len(list) -> Placeable]
  BY <1>2 DEF Placed
<1>4. Placed(list, p) \in Seq(Placeable) /\ Len(Placed(list, p)) = Len(list)
  <2> HIDE DEF Placed
  <2> QED
    BY <1>1, <1>3
<1> QED
  BY <1>2, <1>4 DEF Placed

LEMMA WalkOpenFolder ==
    ASSUME TypeOK, WalkInv, NEW w \in Walkers, OpenFolder(w) PROVE WalkInv'
<1> DEFINE key == makePathKey(walkInfo[w].path)
<1>1. WalkOK(walkPc[w], walkPath[w], walkDepth[w], walkInfo[w], calls[w], shown[w], status[w])
  BY DEF WalkInv
<1>2. walkPc[w] = "open"
  BY DEF OpenFolder
<1>3. CASE ~(Has(cache, key) /\ cache[key].kind = "list")
  BY <1>3, WalkStops DEF OpenFolder
<1>4. CASE Has(cache, key) /\ cache[key].kind = "list"
  <2> DEFINE items == Placed(cache[key].list, walkInfo[w].path)
             loop  == Loop(items, ItemDepth(DepthHere(w)))
             d     == walkDepth[w]
  <2>1. /\ calls' = [calls EXCEPT ![w] = Append(@, loop)]
        /\ walkPc' = [walkPc EXCEPT ![w] = "loop"]
        /\ UNCHANGED <<walkPath, walkDepth, walkInfo, shown, status>>
    BY <1>4 DEF OpenFolder, WalkGoto
  <2>2. cache[key].list \in Seq(File) /\ walkInfo[w].path \in AnyPath
    BY <1>1, <1>4 DEF TypeOK, CatalogTypeOK, Record, Has, WalkOK, WalkTypes, Placeable
  <2>3. /\ items \in Seq(Placeable)
        /\ \A k \in 1 .. Len(items) : ParentPath(items[k]) = walkInfo[w].path
    BY <2>2, PlacedBelongs
  <2>4. loop.list = items /\ loop.depth = ItemDepth(DepthHere(w))
    BY DEF Loop
  <2> HIDE DEF items, key
  <2>5. calls[w] \in Seq(WalkLoops) /\ OpenOK(walkPath[w], d, walkInfo[w], calls[w], shown[w])
    BY <1>1, <1>2 DEF WalkOK, WalkTypes
  <2>6. /\ d # 0 /\ ItemDepth(DepthHere(w)) \in {0, Infinite}
        /\ d = 1 => ItemDepth(DepthHere(w)) = 0 /\ walkInfo[w].path = walkPath[w]
    <3>1. d \in {0, 1, Infinite, Invalid} /\ d # Invalid
      BY <1>1, <1>2 DEF WalkOK, WalkTypes
    <3>2. CASE calls[w] = << >>
      BY <2>5, <3>1, <3>2 DEF OpenOK, DepthHere, ItemDepth, Infinite, Invalid
    <3>3. CASE calls[w] # << >>
      <4> DEFINE last == calls[w][Len(calls[w])]
      <4>1. Len(calls[w]) \in 1 .. Len(calls[w])
        BY <2>5, <3>3, EmptySeq
      <4>2. last \in WalkLoops /\ LoopOK(last, shown[w], walkPath[w], d)
        BY <1>1, <2>5, <4>1, ElementOfSeq DEF WalkOK
      <4>3. last.depth # 0 /\ DepthHere(w) = last.depth
        BY <2>5, <3>3 DEF OpenOK, DepthHere
      <4> HIDE DEF last
      <4> QED
        BY <4>2, <4>3 DEF LoopOK, WalkLoops, ItemDepth, Infinite
    <3> QED
      BY <3>2, <3>3
  <2>7. LoopOK(loop, shown[w], walkPath[w], d)
    <3>1. \A k \in 1 .. Len(items) : Belongs(items[k], shown[w], walkPath[w], d)
      BY <2>3, <2>5, <2>6 DEF Belongs, HasParent, OpenOK
    <3> HIDE DEF loop
    <3> QED
      BY <2>4, <2>6, <3>1 DEF LoopOK
  <2>8. loop \in WalkLoops
    BY <2>3, <2>6 DEF Loop, WalkLoops
  <2> HIDE DEF loop
  <2>9. /\ Append(calls[w], loop) \in Seq(WalkLoops)
        /\ \A l \in 1 .. Len(Append(calls[w], loop)) :
              LoopOK(Append(calls[w], loop)[l], shown[w], walkPath[w], d)
    <3>1. /\ Append(calls[w], loop) \in Seq(WalkLoops)
          /\ Len(Append(calls[w], loop)) = Len(calls[w]) + 1 /\ Len(calls[w]) \in Nat
          /\ \A l \in 1 .. Len(calls[w]) : Append(calls[w], loop)[l] = calls[w][l]
          /\ Append(calls[w], loop)[Len(calls[w]) + 1] = loop
      BY <2>5, <2>8, AppendProperties, LenProperties
    <3>2. \A l \in 1 .. Len(calls[w]) : LoopOK(calls[w][l], shown[w], walkPath[w], d)
      BY <1>1 DEF WalkOK
    <3>3. ASSUME NEW l \in 1 .. Len(Append(calls[w], loop))
          PROVE  LoopOK(Append(calls[w], loop)[l], shown[w], walkPath[w], d)
      <4>1. l \in 1 .. Len(calls[w]) \/ l = Len(calls[w]) + 1
        BY <3>1
      <4> QED
        BY <2>7, <3>1, <3>2, <4>1
    <3> QED
      BY <3>1, <3>3
  <2>10. WalkOK("loop", walkPath[w], d, walkInfo[w], Append(calls[w], loop), shown[w], status[w])
    BY <1>1, <1>2, <2>9 DEF WalkOK, WalkTypes, WalkLabels
  <2>11. OnlyThis(w) /\ walkPc'[w] = "loop" /\ calls'[w] = Append(calls[w], loop)
    BY <2>1 DEF OnlyThis, WalkInv, WalkFunctions
  <2> QED
    BY <2>1, <2>10, <2>11, WalkFrame
<1> QED
  BY <1>3, <1>4

LEMMA WalkNextItem == ASSUME WalkInv, NEW w \in Walkers, NextItem(w) PROVE WalkInv'
<1> DEFINE cs   == calls[w]
           n    == Len(cs)
           loop == cs[n]
           item == Head(loop.list)
           less == [cs EXCEPT ![n].list = Tail(@)]
<1>1. WalkOK(walkPc[w], walkPath[w], walkDepth[w], walkInfo[w], cs, shown[w], status[w])
  BY DEF WalkInv
<1>2. walkPc[w] = "loop" /\ cs # << >> /\ loop.list # << >>
  BY DEF NextItem
<1>3. /\ calls' = [calls EXCEPT ![w][n].list = Tail(@)]
      /\ Visit(w, item, loop.depth)
      /\ UNCHANGED <<walkPath, walkDepth>>
  BY DEF NextItem
<1>4. calls'[w] = less /\ calls' = [v \in Walkers |-> calls'[v]]
      /\ \A v \in Walkers \ {w} : calls'[v] = calls[v]
  BY <1>3 DEF WalkInv, WalkFunctions
<1>5. cs \in Seq(WalkLoops) /\ n \in 1 .. Len(cs)
  BY <1>1, <1>2, EmptySeq DEF WalkOK, WalkTypes
<1>6. /\ loop \in WalkLoops
      /\ LoopOK(loop, shown[w], walkPath[w], walkDepth[w])
  BY <1>1, <1>5, ElementOfSeq DEF WalkOK
<1> HIDE DEF cs, loop
<1>7. /\ item \in Placeable
      /\ Tail(loop.list) \in Seq(Placeable)
      /\ Len(Tail(loop.list)) = Len(loop.list) - 1 /\ Len(loop.list) \in Nat \ {0}
      /\ \A k \in 1 .. Len(Tail(loop.list)) : Tail(loop.list)[k] = loop.list[k + 1]
      /\ item = loop.list[1]
  <2>1. loop.list \in Seq(Placeable)
    BY <1>6 DEF WalkLoops
  <2> QED
    BY <1>2, <2>1, HeadTailProperties, EmptySeq
<1>8. Belongs(item, shown[w], walkPath[w], walkDepth[w])
  <2>1. 1 \in 1 .. Len(loop.list)
    BY <1>7
  <2> QED
    BY <1>6, <1>7, <2>1 DEF LoopOK
<1> DEFINE rest == [loop EXCEPT !.list = Tail(@)]
<1>9. /\ rest \in WalkLoops /\ rest.depth = loop.depth
      /\ LoopOK(rest, shown[w], walkPath[w], walkDepth[w])
  <2>1. rest \in WalkLoops /\ rest.depth = loop.depth /\ rest.list = Tail(loop.list)
    BY <1>6, <1>7 DEF WalkLoops
  <2> HIDE DEF rest
  <2>2. \A k \in 1 .. Len(rest.list) : Belongs(rest.list[k], shown[w], walkPath[w], walkDepth[w])
    <3> TAKE k \in 1 .. Len(rest.list)
    <3>1. k + 1 \in 1 .. Len(loop.list) /\ rest.list[k] = loop.list[k + 1]
      BY <1>7, <2>1
    <3> QED
      BY <1>6, <3>1 DEF LoopOK
  <2> QED
    BY <1>6, <2>1, <2>2 DEF LoopOK
<1>10. less = [cs EXCEPT ![n] = rest]
  BY <1>5 DEF loop
<1> HIDE DEF rest, less, item
<1>11. /\ less \in Seq(WalkLoops) /\ Len(less) = Len(cs) /\ less # << >>
       /\ less[Len(less)] = rest
       /\ \A l \in 1 .. Len(less) : LoopOK(less[l], shown[w], walkPath[w], walkDepth[w])
  <2>1. /\ less \in Seq(WalkLoops) /\ Len(less) = Len(cs)
        /\ \A l \in 1 .. Len(cs) : less[l] = IF l = n THEN rest ELSE cs[l]
    BY <1>5, <1>9, <1>10, ExceptSeq
  <2>2. \A l \in 1 .. Len(cs) : LoopOK(cs[l], shown[w], walkPath[w], walkDepth[w])
    BY <1>1 DEF WalkOK
  <2>3. less # << >>
    BY <1>5, <2>1, EmptySeq
  <2> QED
    BY <1>5, <1>9, <2>1, <2>2, <2>3
<1>12. shown[w] # << >> /\ walkDepth[w] # Invalid
  BY <1>1, <1>2 DEF WalkOK
<1> QED
  BY <1>3, <1>4, <1>7, <1>8, <1>9, <1>11, <1>12, WalkVisit

LEMMA WalkEndLoop == ASSUME WalkInv, NEW w \in Walkers, EndLoop(w) PROVE WalkInv'
<1> DEFINE cs    == calls[w]
           outer == OuterLoop(cs)
<1>1. WalkOK(walkPc[w], walkPath[w], walkDepth[w], walkInfo[w], cs, shown[w], status[w])
  BY DEF WalkInv
<1>2. /\ calls' = [calls EXCEPT ![w] = outer]
      /\ walkPc[w] = "loop" /\ cs # << >>
      /\ UNCHANGED <<walkPc, walkPath, walkDepth, walkInfo, shown, status>>
  BY DEF EndLoop
<1>3. cs \in Seq(WalkLoops) /\ Len(cs) \in Nat \ {0}
  BY <1>1, <1>2, EmptySeq DEF WalkOK, WalkTypes
<1>4. OnlyThis(w) /\ calls'[w] = outer
  BY <1>2 DEF OnlyThis, WalkInv, WalkFunctions
<1> HIDE DEF cs
<1>5. /\ outer \in Seq(WalkLoops) /\ Len(outer) = Len(cs) - 1
      /\ \A l \in 1 .. Len(outer) : outer[l] = cs[l]
  <2>1. \A l \in 1 .. Len(cs) - 1 : cs[l] \in WalkLoops
    BY <1>3, ElementOfSeq
  <2> DEFINE m == Len(cs) - 1
  <2>2. m \in Nat /\ 1 .. m \subseteq 1 .. Len(cs)
    BY <1>3
  <2>3. \A l \in 1 .. m : cs[l] \in WalkLoops
    BY <2>1
  <2>4. outer = SubSeq(cs, 1, m)
    BY DEF OuterLoop
  <2> HIDE DEF m, outer
  <2>5. outer \in Seq(WalkLoops) /\ Len(outer) = m /\ \A l \in 1 .. m : outer[l] = cs[l]
    BY <2>2, <2>3, <2>4, SubSeqProperties
  <2> QED
    BY <2>5 DEF m
<1> HIDE DEF outer
<1>6. WalkOK("loop", walkPath[w], walkDepth[w], walkInfo[w], outer, shown[w], status[w])
  BY <1>1, <1>2, <1>3, <1>5 DEF WalkOK, WalkTypes, WalkLabels
<1> QED
  BY <1>2, <1>4, <1>6, WalkFrame

(* A step of a request changes nothing of the others.                      *)
OthersStay(w) ==
    \A v \in Walkers \ {w} :
        /\ walkPc'[v] = walkPc[v] /\ walkPath'[v] = walkPath[v]
        /\ walkDepth'[v] = walkDepth[v] /\ walkInfo'[v] = walkInfo[v]
        /\ calls'[v] = calls[v] /\ shown'[v] = shown[v] /\ status'[v] = status[v]

LEMMA StepOfOne ==
    ASSUME WalkInv, NEW w \in Walkers, BeginPropfind(w) \/ WalkStep(w) \/ WriteFails(w)
    PROVE  OthersStay(w)
<1>1. CASE BeginPropfind(w)
  BY <1>1 DEF BeginPropfind, WalkGoto, OthersStay, WalkInv, WalkFunctions
<1>2. CASE FindEntry(w)
  BY <1>2 DEF FindEntry, Commit, WalkGoto, OthersStay, WalkInv, WalkFunctions
<1>3. CASE BadBody(w) \/ EndWalk(w) \/ WriteFails(w) \/ EndLoop(w)
  BY <1>3 DEF BadBody, EndWalk, WriteFails, EndLoop, Commit, WalkGoto, OthersStay,
              WalkInv, WalkFunctions
<1>4. CASE WalkRoot(w)
  BY <1>4 DEF WalkRoot, Visit, Commit, WalkGoto, OthersStay, WalkInv, WalkFunctions
<1>5. CASE OpenFolder(w)
  BY <1>5 DEF OpenFolder, Commit, WalkGoto, OthersStay, WalkInv, WalkFunctions
<1>6. CASE NextItem(w)
  BY <1>6 DEF NextItem, Visit, Commit, WalkGoto, OthersStay, WalkInv, WalkFunctions
<1> QED
  BY <1>1, <1>2, <1>3, <1>4, <1>5, <1>6 DEF WalkStep

(* A step of anything but the requests leaves them alone.                  *)
LEMMA WalkStutter == ASSUME WalkInv, UNCHANGED walkVars PROVE WalkInv'
BY DEF WalkInv, WalkFunctions, walkVars

LEMMA WalkInvInit == ServiceInit => WalkInv
<1>1. Len(<< >>) = 0 /\ 1 .. 0 = {}
  OBVIOUS
<1>2. WalkOK("idle", <<RootName>>, 0, RootDir, << >>, << >>, 0)
  BY <1>1, RootPath, EmptySeq DEF WalkOK, WalkTypes, WalkLabels, Connected
<1> QED
  BY <1>2 DEF ServiceInit, WalkInit, WalkInv, WalkFunctions

LEMMA WalkInvStep == ServiceInv /\ WalkInv /\ [ServiceNext]_serviceVars => WalkInv'
<1> SUFFICES ASSUME ServiceInv, WalkInv, [ServiceNext]_serviceVars PROVE WalkInv'
  OBVIOUS
<1>1. ASSUME NEW w \in Walkers, WalkStep(w) \/ BeginPropfind(w) \/ WriteFails(w)
      PROVE  WalkInv'
  <2>1. CASE BadBody(w)
    BY <2>1, WalkStops DEF BadBody
  <2>2. CASE EndWalk(w)
    BY <2>2, WalkStops DEF EndWalk
  <2>3. CASE WriteFails(w)
    BY <2>3, WalkStops DEF WriteFails
  <2> QED
    BY <1>1, <2>1, <2>2, <2>3, WalkBegin, WalkFindEntry, WalkRootInv, WalkOpenFolder,
       WalkNextItem, WalkEndLoop DEF WalkStep, ServiceInv
<1>2. CASE ServiceCrash
  <2> DEFINE P(w) == WalkOK("idle", walkPath[w], walkDepth[w], walkInfo[w], << >>, << >>, 0)
  <2>1. Len(<< >>) = 0 /\ 1 .. 0 = {}
    OBVIOUS
  <2>2. \A w \in Walkers : P(w)
    BY <2>1, EmptySeq DEF WalkInv, WalkOK, WalkTypes, WalkLabels, Connected
  <2>3. /\ walkPc' = [w \in Walkers |-> "idle"] /\ calls' = [w \in Walkers |-> << >>]
        /\ shown' = [w \in Walkers |-> << >>] /\ status' = [w \in Walkers |-> 0]
        /\ UNCHANGED <<walkPath, walkDepth, walkInfo>>
    BY <1>2 DEF ServiceCrash, DropWalks
  <2> QED
    BY <2>2, <2>3 DEF WalkInv, WalkFunctions
<1>3. CASE UNCHANGED walkVars
  BY <1>3, WalkStutter
<1> QED
  BY <1>1, <1>2, <1>3 DEF ServiceNext, ScanSteps, WalkNext, serviceVars

(* The answer of a PROPFIND (walkFS, webdav.go) is a tree below the path   *)
(* asked for and within its depth, whatever is scanned, evicted or changed *)
(* while it is walked, and whatever the listings it meets say of paths.    *)
THEOREM AnswersAreConnected == ServiceSpec => []ShownTreeIsConnected
<1>1. WalkInv => ShownTreeIsConnected
  BY DEF WalkInv, WalkOK, Connected, ShownTreeIsConnected
<1> QED
  BY <1>1, ServiceInvInit, ServiceInvStep, WalkInvInit, WalkInvStep, PTL DEF ServiceSpec

-----------------------------------------------------------------------------
(* Disturbances are counted and never forgotten.                           *)
LEMMA FaultsGrow ==
    ASSUME ServiceInv, [ServiceNext]_serviceVars
    PROVE  faults' = 0 => faults = 0
<1> USE DEF ServiceInv, TypeOK, CatalogTypeOK
<1>0. Fault => faults' # 0
  BY CatalogAssumption DEF Fault
<1>1. ASSUME NEW s \in Scanners, Step(s) PROVE UNCHANGED faults \/ Fault
  <2>1. CASE PutItem(s)
    BY <2>1 DEF PutItem
  <2>2. CASE PutListing(s)
    BY <2>2, Zenon DEF PutListing
  <2>3. CASE SaveListIndexData(s)
    BY <2>3 DEF SaveListIndexData
  <2>4. CASE ListAllFile(s) \/ FetchDir(s) \/ FileList(s)
    BY <2>4, Zenon DEF ListAllFile, FetchDir, FileList, catalogVars
  <2>5. CASE LoadSlice(s) \/ StoreSlice(s) \/ EndPage(s) \/ NextKey(s) \/ EndRange(s)
    BY <2>5 DEF LoadSlice, StoreSlice, EndPage, NextKey, EndRange, catalogVars
  <2> QED
    BY <1>1, <2>1, <2>2, <2>3, <2>4, <2>5 DEF Step
<1>2. ASSUME NEW c \in Clients,
             BeginGet(c) \/ GetStep(c) \/ LookupFails(c) \/ LinkFails(c) \/ UpdateFails(c)
      PROVE  UNCHANGED faults \/ Fault
  BY <1>2
  DEF BeginGet, GetStep, Lookup, RemoveFile, RemoveListIndexData, FileDownloadURL,
      LookupFails, LinkFails, UpdateFile, UpdateFails, catalogVars
<1>3. ASSUME NEW w \in Walkers, BeginPropfind(w) \/ WalkStep(w) \/ WriteFails(w)
      PROVE  UNCHANGED faults \/ Fault
  BY <1>3
  DEF BeginPropfind, WalkStep, FindEntry, BadBody, WalkRoot, OpenFolder, NextItem,
      EndLoop, EndWalk, WriteFails, catalogVars
<1>4. (\E s \in Scanners : CallFails(s)) \/ ServiceCrash \/ DriveChanges => Fault
  BY DEF CallFails, ServiceCrash, Crash, DriveChanges
<1> QED
  BY <1>0, <1>1, <1>2, <1>3, <1>4
  DEF ServiceNext, ScanSteps, GetNext, WalkNext, serviceVars, vars, catalogVars

(* 207 goes out with the first response, unless a write failed.            *)
CommittedShows == \A w \in Walkers : status[w] = 207 /\ faults = 0 => shown[w] # << >>

LEMMA CommittedShowsStep ==
    ASSUME ServiceInv, WalkInv, CommittedShows, [ServiceNext]_serviceVars
    PROVE  CommittedShows'
<1>1. CASE UNCHANGED walkVars
  BY <1>1, FaultsGrow DEF walkVars, CommittedShows
<1>2. CASE ServiceCrash
  BY <1>2 DEF ServiceCrash, DropWalks, CommittedShows
<1>3. ASSUME NEW w \in Walkers, BeginPropfind(w) \/ WalkStep(w) \/ WriteFails(w)
      PROVE  CommittedShows'
  <2>1. ASSUME NEW code, code # 207, Commit(w, code), UNCHANGED <<shown, faults>>
        PROVE  CommittedShows'
    BY <2>1, CommitOnce DEF CommittedShows
  <2>2. ASSUME NEW file, shown' = [shown EXCEPT ![w] = Append(@, file)],
               Commit(w, 207), UNCHANGED faults
        PROVE  CommittedShows'
    <3>1. shown'[w] = Append(shown[w], file) /\ shown[w] \in Seq(Placeable)
      BY <2>2 DEF WalkInv, WalkFunctions, WalkOK, WalkTypes
    <3>2. Append(shown[w], file) # << >>
      BY <3>1
    <3>3. \A v \in Walkers \ {w} : shown'[v] = shown[v]
      BY <2>2 DEF WalkInv, WalkFunctions
    <3> QED
      BY <2>2, <3>1, <3>2, <3>3, CommitOnce DEF CommittedShows
  <2>3. CASE BeginPropfind(w)
    <3>1. status'[w] = 0 /\ \A v \in Walkers \ {w} : status'[v] = status[v] /\ shown'[v] = shown[v]
      BY <2>3 DEF BeginPropfind, WalkInv, WalkFunctions
    <3> QED
      BY <2>3, <3>1 DEF BeginPropfind, catalogVars, CommittedShows
  <2>4. CASE WriteFails(w)
    BY <2>4, CatalogAssumption
    DEF WriteFails, Fault, ServiceInv, TypeOK, CatalogTypeOK, CommittedShows
  <2>5. CASE FindEntry(w) \/ BadBody(w) \/ EndWalk(w)
    BY <2>1, <2>5 DEF FindEntry, BadBody, EndWalk, catalogVars, CommittedShows
  <2>6. CASE WalkRoot(w) \/ NextItem(w)
    BY <2>2, <2>6 DEF WalkRoot, NextItem, Visit, catalogVars
  <2>7. CASE OpenFolder(w) \/ EndLoop(w)
    BY <2>1, <2>7 DEF OpenFolder, EndLoop, catalogVars, CommittedShows
  <2> QED
    BY <1>3, <2>3, <2>4, <2>5, <2>6, <2>7 DEF WalkStep
<1> QED
  BY <1>1, <1>2, <1>3 DEF ServiceNext, ScanSteps, WalkNext, serviceVars

(* What a client gets is what was sent (multistatusWriter, xml.go): the    *)
(* status is 207 exactly when something was shown, though every way out of *)
(* handlePropfind sets a status of its own.                                *)
THEOREM StatusIsOfTheBody == ServiceSpec => []StatusMatchesBody
<1>1. ServiceInit => CommittedShows
  BY DEF ServiceInit, WalkInit, CommittedShows
<1>2. ServiceInv /\ WalkInv /\ CommittedShows /\ [ServiceNext]_serviceVars => CommittedShows'
  BY CommittedShowsStep
<1>3. WalkInv /\ CommittedShows => StatusMatchesBody
  BY DEF WalkInv, WalkOK, CommittedShows, StatusMatchesBody
<1> QED
  BY <1>1, <1>2, <1>3, ServiceInvInit, ServiceInvStep, WalkInvInit, WalkInvStep, PTL
  DEF ServiceSpec

-----------------------------------------------------------------------------
(* What no other invariant says of the values of the requests' variables.  *)
ReplyValues ==
    /\ getPath \in [Clients -> {GetPath(u) : u \in GetUrls} \cup {<<RootName>>}]
    /\ getReply \in [Clients -> {0, 302, 404}]

WalkValues ==
    /\ walkPath \in [Walkers -> {PropfindPath(u) : u \in WalkUrls} \cup {<<RootName>>}]
    /\ walkDepth \in [Walkers -> Depths \cup {0}]
    /\ status \in [Walkers -> {0, 207, 400, 404, 500}]
    /\ \A w \in Walkers : calls[w] # << >> => walkPc[w] \in {"open", "loop"}

LEMMA ReplyValuesStep == ReplyValues /\ [ServiceNext]_serviceVars => ReplyValues'
<1> SUFFICES ASSUME ReplyValues, [ServiceNext]_serviceVars PROVE ReplyValues'
  OBVIOUS
<1>1. CASE UNCHANGED getVars
  BY <1>1 DEF getVars, ReplyValues
<1>2. CASE ServiceCrash
  BY <1>2 DEF ServiceCrash, DropGets, ReplyValues
<1>3. ASSUME NEW c \in Clients, BeginGet(c) PROVE ReplyValues'
  BY <1>3 DEF BeginGet, ReplyValues
<1>4. ASSUME NEW c \in Clients, GetStep(c) \/ LookupFails(c) \/ LinkFails(c) \/ UpdateFails(c)
      PROVE  ReplyValues'
  <2>1. UNCHANGED getPath
    BY <1>4 DEF GetStep, Lookup, RemoveFile, RemoveListIndexData, FileDownloadURL,
                LookupFails, LinkFails, UpdateFile, UpdateFails
  <2>2. UNCHANGED getReply \/ \E code \in {302, 404} : getReply' = [getReply EXCEPT ![c] = code]
    BY <1>4 DEF GetStep, Lookup, RemoveFile, RemoveListIndexData, FileDownloadURL,
                LookupFails, LinkFails, UpdateFile, UpdateFails, Answer
  <2> QED
    BY <2>1, <2>2 DEF ReplyValues
<1> QED
  BY <1>1, <1>2, <1>3, <1>4 DEF ServiceNext, ScanSteps, GetNext, serviceVars

LEMMA WalkValuesStep == WalkInv /\ WalkValues /\ [ServiceNext]_serviceVars => WalkValues'
<1> SUFFICES ASSUME WalkInv, WalkValues, [ServiceNext]_serviceVars PROVE WalkValues'
  OBVIOUS
<1>1. CASE UNCHANGED walkVars
  BY <1>1 DEF walkVars, WalkValues
<1>2. CASE ServiceCrash
  BY <1>2 DEF ServiceCrash, DropWalks, WalkValues
<1>3. ASSUME NEW w \in Walkers, BeginPropfind(w) \/ WalkStep(w) \/ WriteFails(w)
      PROVE  WalkValues'
  <2> USE DEF WalkGoto
  <2>1. walkPc = [v \in Walkers |-> walkPc[v]] /\ calls = [v \in Walkers |-> calls[v]]
    BY DEF WalkInv, WalkFunctions
  <2>2. ASSUME NEW code \in {207, 400, 404, 500}, Commit(w, code)
        PROVE  status' \in [Walkers -> {0, 207, 400, 404, 500}]
    BY <2>2 DEF Commit, WalkValues
  <2>3. CASE BeginPropfind(w)
    BY <2>1, <2>3 DEF BeginPropfind, WalkValues
  <2>4. CASE FindEntry(w)
    BY <2>1, <2>2, <2>4 DEF FindEntry, WalkValues
  <2>5. CASE BadBody(w)
    BY <2>1, <2>2, <2>5 DEF BadBody, WalkValues
  <2>6. CASE WalkRoot(w)
    BY <2>1, <2>2, <2>6 DEF WalkRoot, Visit, WalkValues
  <2>7. CASE OpenFolder(w)
    <3>1. \/ UNCHANGED status /\ walkPc' = [walkPc EXCEPT ![w] = "loop"]
          \/ Commit(w, 500) /\ calls' = [calls EXCEPT ![w] = << >>]
      BY <2>7 DEF OpenFolder
    <3>2. status' \in [Walkers -> {0, 207, 400, 404, 500}]
      BY <2>2, <3>1 DEF WalkValues
    <3>3. \A v \in Walkers \ {w} : calls'[v] = calls[v] /\ walkPc'[v] = walkPc[v]
      BY <2>1, <2>7 DEF OpenFolder
    <3>4. calls'[w] = << >> \/ walkPc'[w] = "loop"
      BY <2>1, <3>1
    <3> QED
      BY <2>7, <3>2, <3>3, <3>4 DEF OpenFolder, WalkValues
  <2>8. CASE NextItem(w)
    <3>1. Commit(w, 207) /\ \E l \in {"open", "loop"} : walkPc' = [walkPc EXCEPT ![w] = l]
      BY <2>8 DEF NextItem, Visit
    <3>2. walkPc'[w] \in {"open", "loop"}
          /\ \A v \in Walkers \ {w} : calls'[v] = calls[v] /\ walkPc'[v] = walkPc[v]
      BY <2>1, <2>8, <3>1 DEF NextItem
    <3> QED
      BY <2>2, <2>8, <3>1, <3>2 DEF NextItem, WalkValues
  <2>9. CASE EndLoop(w)
    BY <2>1, <2>9 DEF EndLoop, WalkValues
  <2>10. CASE EndWalk(w)
    BY <2>1, <2>2, <2>10 DEF EndWalk, WalkValues
  <2>11. CASE WriteFails(w)
    BY <2>1, <2>2, <2>11 DEF WriteFails, WalkValues
  <2> QED
    BY <1>3, <2>3, <2>4, <2>5, <2>6, <2>7, <2>8, <2>9, <2>10, <2>11 DEF WalkStep
<1> QED
  BY <1>1, <1>2, <1>3 DEF ServiceNext, ScanSteps, WalkNext, serviceVars

(* Every variable of the service keeps to the values the code can give it; *)
(* the items that walkFS (webdav.go) has still to visit have the names of  *)
(* the drive or of the URL in their paths, and calls of it wait only while *)
(* the request is being walked.                                            *)
THEOREM ServiceTypesHold == ServiceSpec => []ServiceTypeOK
<1>1. ServiceInit => ReplyValues /\ WalkValues
  BY DEF ServiceInit, GetInit, WalkInit, ReplyValues, WalkValues
<1>2. ServiceInv /\ WalkInv /\ ReplyValues /\ WalkValues => ServiceTypeOK
  <2> SUFFICES ASSUME ServiceInv, WalkInv, ReplyValues, WalkValues PROVE ServiceTypeOK
    OBVIOUS
  <2>1. \A w \in Walkers : /\ walkPc[w] \in WalkLabels /\ walkInfo[w] \in Placeable
                           /\ calls[w] \in Seq(WalkLoops) /\ shown[w] \in Seq(Placeable)
    BY DEF WalkInv, WalkOK, WalkTypes
  <2>2. /\ walkPc \in [Walkers -> WalkLabels] /\ walkInfo \in [Walkers -> Placeable]
        /\ calls \in [Walkers -> Seq(WalkLoops)] /\ shown \in [Walkers -> Seq(Placeable)]
    BY <2>1 DEF WalkInv, WalkFunctions
  <2> QED
    BY <2>2 DEF ServiceInv, FileInHand, ReplyValues, WalkValues, ServiceTypeOK
<1> QED
  BY <1>1, <1>2, ServiceInvInit, ServiceInvStep, WalkInvInit, WalkInvStep, ReplyValuesStep,
     WalkValuesStep, PTL DEF ServiceSpec

-----------------------------------------------------------------------------
(***************************************************************************)
(* Keys: that of an item is that of its folder and the item's name, so two *)
(* folders with one key have one key for all that they may hold.           *)
(***************************************************************************)

(* The first n names of a path, flattened one after another.               *)
IsFlat(f, path, n) ==
    f = [i \in 1 .. n |-> IF i = 1 THEN path[i] ELSE f[i - 1] \o path[i]]

LEMMA FlatExists ==
    ASSUME NEW path, NEW n \in Nat
    PROVE  \E f : IsFlat(f, path, n)
<1> DEFINE None == {k \in Nat : ~ \E f : IsFlat(f, path, k)}
<1> SUFFICES ASSUME None # {} PROVE FALSE
  OBVIOUS
<1>1. PICK k \in None : \A m \in None : k <= m
  BY LeastNumber
<1>2. k # 0
  <2>1. IsFlat([i \in 1 .. 0 |-> IF i = 1 THEN path[i] ELSE << >>], path, 0)
    BY DEF IsFlat
  <2> QED
    BY <2>1
<1>3. k - 1 \in Nat /\ k - 1 \notin None
  BY <1>1, <1>2
<1>4. PICK g : IsFlat(g, path, k - 1)
  BY <1>3
<1> DEFINE e(i) == IF i = 1 THEN path[i] ELSE g[i - 1] \o path[i]
           f == [i \in 1 .. k |-> e(i)]
<1>5. \A i \in 1 .. k : i # 1 => f[i - 1] = g[i - 1]
  <2> TAKE i \in 1 .. k
  <2> HAVE i # 1
  <2>1. i - 1 \in 1 .. k /\ i - 1 \in 1 .. k - 1
    BY <1>2
  <2>2. f[i - 1] = e(i - 1)
    BY <2>1
  <2>3. g[i - 1] = e(i - 1)
    BY <1>4, <2>1 DEF IsFlat
  <2> QED
    BY <2>2, <2>3
<1>6. f = [i \in 1 .. k |-> IF i = 1 THEN path[i] ELSE f[i - 1] \o path[i]]
  <2>1. \A i \in 1 .. k : e(i) = IF i = 1 THEN path[i] ELSE f[i - 1] \o path[i]
    BY <1>5
  <2> HIDE DEF e
  <2> QED
    BY <2>1
<1>7. IsFlat(f, path, k)
  <2> HIDE DEF f
  <2> QED
    BY <1>6 DEF IsFlat
<1> QED
  BY <1>1, <1>7

(* What a shorter path is flattened to, a longer one begins with.          *)
LEMMA FlatAgree ==
    ASSUME NEW path, NEW longer, Len(path) \in Nat, Len(longer) \in Nat,
           Len(path) <= Len(longer), \A i \in 1 .. Len(path) : longer[i] = path[i],
           NEW f, IsFlat(f, path, Len(path)), NEW g, IsFlat(g, longer, Len(longer))
    PROVE  \A i \in 1 .. Len(path) : f[i] = g[i]
<1> DEFINE m == Len(path)
           n == Len(longer)
           Differ == {i \in 1 .. m : f[i] # g[i]}
<1> SUFFICES ASSUME Differ # {} PROVE FALSE
  OBVIOUS
<1>0. /\ IsFlat(f, path, m) /\ IsFlat(g, longer, n) /\ m \in Nat /\ n \in Nat /\ m <= n
      /\ \A i \in 1 .. m : longer[i] = path[i]
  OBVIOUS
<1> HIDE DEF m, n
<1>1. Differ \in SUBSET Nat
  BY <1>0
<1>2. PICK i \in Differ : \A k \in Differ : i <= k
  BY <1>1, LeastNumber
<1>3. i \in 1 .. m /\ i \in 1 .. n /\ longer[i] = path[i]
  BY <1>0
<1>4. /\ f[i] = IF i = 1 THEN path[i] ELSE f[i - 1] \o path[i]
      /\ g[i] = IF i = 1 THEN longer[i] ELSE g[i - 1] \o longer[i]
  BY <1>0, <1>3 DEF IsFlat
<1>5. i # 1
  BY <1>2, <1>3, <1>4
<1>6. i - 1 \in 1 .. m /\ i - 1 \notin Differ
  BY <1>0, <1>2, <1>3, <1>5
<1> QED
  BY <1>2, <1>3, <1>4, <1>6

LEMMA FlatOf ==
    ASSUME NEW path, Len(path) \in Nat \ {0}
    PROVE  \E f : IsFlat(f, path, Len(path)) /\ Flat(path) = f[Len(path)]
<1> DEFINE P(f) == f = [i \in 1 .. Len(path) |->
                          IF i = 1 THEN path[i] ELSE f[i - 1] \o path[i]]
           F == CHOOSE f : P(f)
<1>1. \E f : P(f)
  BY FlatExists DEF IsFlat
<1>2. P(F)
  BY <1>1
<1>3. Flat(path) = F[Len(path)]
  BY DEF Flat, FlattenSeq
<1>4. IsFlat(F, path, Len(path))
  BY <1>2 DEF IsFlat
<1> QED
  BY <1>3, <1>4

LEMMA FlatAppend ==
    ASSUME NEW S, NEW path \in Seq(S), path # << >>, NEW name \in S
    PROVE  Flat(Append(path, name)) = Flat(path) \o name
<1> DEFINE longer == Append(path, name)
<1>1. /\ longer \in Seq(S) /\ Len(longer) = Len(path) + 1
      /\ \A i \in 1 .. Len(path) : longer[i] = path[i]
      /\ longer[Len(path) + 1] = name
  BY AppendProperties
<1>2. Len(path) \in Nat \ {0}
  BY EmptySeq
<1> HIDE DEF longer
<1>3. PICK f : IsFlat(f, path, Len(path)) /\ Flat(path) = f[Len(path)]
  BY <1>2, FlatOf
<1>4. PICK g : IsFlat(g, longer, Len(longer)) /\ Flat(longer) = g[Len(longer)]
  BY <1>1, <1>2, FlatOf
<1>5. \A i \in 1 .. Len(path) : f[i] = g[i]
  <2>1. Len(path) \in Nat /\ Len(longer) \in Nat /\ Len(path) <= Len(longer)
    BY <1>1, <1>2
  <2> QED
    BY <1>1, <1>3, <1>4, <2>1, FlatAgree
<1>6. g[Len(longer)] = g[Len(path)] \o name
  <2>1. \A k \in Nat \ {0} : k + 1 \in 1 .. k + 1 /\ k + 1 # 1 /\ (k + 1) - 1 = k
    OBVIOUS
  <2>2. Len(longer) \in 1 .. Len(longer) /\ Len(longer) # 1 /\ Len(longer) - 1 = Len(path)
    BY <1>1, <1>2, <2>1
  <2>3. g[Len(longer)] = g[Len(longer) - 1] \o longer[Len(longer)]
    BY <1>4, <2>2 DEF IsFlat
  <2> QED
    BY <1>1, <2>2, <2>3
<1>7. Len(path) \in 1 .. Len(path)
  BY <1>2
<1> QED
  BY <1>3, <1>4, <1>5, <1>6, <1>7 DEF longer

(* The names in a path are strings, and so is the path when flattened.     *)
AnyWord == {"ali"} \cup UNION {{name[i] : i \in DOMAIN name} : name \in AnyName}

LEMMA NamesAreStrings == AnyName \subseteq Seq(AnyWord)
<1> SUFFICES ASSUME NEW name \in AnyName PROVE name \in Seq(AnyWord)
  OBVIOUS
<1>1. IsString(name)
  <2>1. CASE name \in Names
    <3>1. IsString(<< >>)
      BY EmptySeq DEF IsString
    <3> QED
      BY <2>1, <3>1, NameAssumption DEF Names
  <2>2. CASE name = RootName
    <3>1. RootName \in Seq({"root"}) /\ DOMAIN RootName = {1} /\ RootName[1] = "root"
      BY DEF RootName
    <3>2. {RootName[i] : i \in DOMAIN RootName} = {"root"}
      BY <3>1
    <3> QED
      BY <2>2, <3>1, <3>2 DEF IsString
  <2>3. ASSUME NEW u \in WalkUrls, name \in {u.names[n] : n \in DOMAIN u.names}
        PROVE  IsString(name)
    BY <2>3, WalkAssumption DEF IsUrl
  <2> QED
    BY <2>1, <2>2, <2>3 DEF AnyName
<1>2. {name[i] : i \in DOMAIN name} \subseteq AnyWord
  BY DEF AnyWord
<1> QED
  BY <1>1, <1>2, SeqMonotonic DEF IsString

LEMMA FlatType ==
    ASSUME NEW path \in AnyPath, path # << >>
    PROVE  Flat(path) \in Seq(AnyWord)
<1>1. Len(path) \in Nat \ {0} /\ \A i \in 1 .. Len(path) : path[i] \in Seq(AnyWord)
  BY NamesAreStrings, EmptySeq, ElementOfSeq DEF AnyPath
<1>2. PICK f : IsFlat(f, path, Len(path)) /\ Flat(path) = f[Len(path)]
  BY <1>1, FlatOf
<1> DEFINE Not == {i \in 1 .. Len(path) : f[i] \notin Seq(AnyWord)}
<1>3. Not = {}
  <2> SUFFICES ASSUME Not # {} PROVE FALSE
    OBVIOUS
  <2>0. Not \in SUBSET Nat
    BY <1>1
  <2>1. PICK i \in Not : \A k \in Not : i <= k
    BY <2>0, LeastNumber
  <2>2. f[i] = IF i = 1 THEN path[i] ELSE f[i - 1] \o path[i]
    BY <1>2 DEF IsFlat
  <2>3. i # 1 /\ i - 1 \in 1 .. Len(path)
    BY <1>1, <2>1, <2>2
  <2>4. f[i - 1] \in Seq(AnyWord)
    BY <1>1, <2>1, <2>3
  <2>5. f[i - 1] \o path[i] \in Seq(AnyWord)
    BY <1>1, <2>4, ConcatProperties
  <2> QED
    BY <2>2, <2>3, <2>5
<1> QED
  BY <1>1, <1>2, <1>3

LEMMA KeyOfItem ==
    ASSUME NEW path \in AnyPath, path # << >>, NEW name \in AnyName
    PROVE  makePathKey(Append(path, name)) = makePathKey(path) \o name
<1>1. Flat(Append(path, name)) = Flat(path) \o name
  BY FlatAppend DEF AnyPath
<1>2. PrefixAli \in Seq(AnyWord) /\ Flat(path) \in Seq(AnyWord) /\ name \in Seq(AnyWord)
  BY FlatType, NamesAreStrings DEF PrefixAli, AnyWord
<1>3. PrefixAli \o (Flat(path) \o name) = (PrefixAli \o Flat(path)) \o name
  BY <1>2, ConcatAssociative
<1> QED
  BY <1>1, <1>3 DEF makePathKey

-----------------------------------------------------------------------------
(***************************************************************************)
(* What requests leave to the scans of the catalogue: every item of a      *)
(* listing was found in a folder, every file of it has a record unless a   *)
(* GET may remove it, and the entries are those of folders.                *)
(***************************************************************************)

(* Every path but the empty one, for any id.                               *)
Anywhere == [i \in Ids \cup {n.parent : n \in Nodes} |-> Path \ {<< >>}]

LEMMA AnywhereReached == Reach(Anywhere)
<1>1. <<RootName>> \in Anywhere[RootId]
  <2>1. RootName \in Names \cup {RootName}
    OBVIOUS
  <2>2. <<RootName>> \in Path /\ <<RootName>> # << >>
    BY <2>1 DEF Path
  <2>3. RootId \in Ids
    BY DEF Ids
  <2> QED
    BY <2>2, <2>3 DEF Anywhere
<1>2. ASSUME NEW n \in Nodes, NEW p \in Anywhere[n.parent]
      PROVE  Append(p, n.name) \in Anywhere[n.id]
  <2>1. p \in Path /\ n.name \in Names \cup {RootName} /\ n.id \in Ids
    BY DEF Anywhere, Names, Ids
  <2>2. Append(p, n.name) \in Path /\ Append(p, n.name) # << >>
    BY <2>1, AppendProperties DEF Path
  <2> QED
    BY <2>1, <2>2 DEF Anywhere
<1> QED
  BY <1>1, <1>2 DEF Reach

EntriesAreFolders == \A k \in DOMAIN index : IsFolder(index[k])

ListingsInv ==
    /\ AllAt(Anywhere)
    /\ PutMayFail \/ Saved(Removable)
    /\ EntriesAreFolders

LEMMA FolderOpen ==
    ASSUME NEW s \in Scanners, TypeOK, AllAt(Anywhere), pc[s] = "index"
    PROVE  IsFolder(Top(s).dir)
BY TopAt DEF CallAt

LEMMA EntriesStep ==
    ASSUME TypeOK, AllAt(Anywhere), EntriesAreFolders, [Next]_vars
    PROVE  EntriesAreFolders'
<1>1. ASSUME NEW s \in Scanners, SaveListIndexData(s) PROVE EntriesAreFolders'
  <2>1. IsFolder(Top(s).dir)
    BY <1>1, FolderOpen DEF SaveListIndexData
  <2>2. index' = Put(index, makePathKey(Top(s).dir.path), Top(s).dir) \/ UNCHANGED index
    BY <1>1 DEF SaveListIndexData
  <2> QED
    BY <2>1, <2>2 DEF EntriesAreFolders, Put
<1>2. ASSUME NEW s \in Scanners, PutListing(s) PROVE EntriesAreFolders'
  <2>1. \/ UNCHANGED index
        \/ \E old \in DOMAIN index :
              index' = Put(index, makePathKey(index[old].path), index[old])
    BY <1>2 DEF PutListing, Has
  <2> QED
    BY <2>1 DEF EntriesAreFolders, Put
<1>3. CASE UNCHANGED index
  BY <1>3 DEF EntriesAreFolders
<1>4. ASSUME NEW s \in Scanners, Step(s) PROVE EntriesAreFolders'
  <2>1. CASE PutItem(s)
    BY <1>3, <2>1 DEF PutItem
  <2>2. CASE ListAllFile(s) \/ FetchDir(s) \/ FileList(s)
    BY <1>3, <2>2, Zenon DEF ListAllFile, FetchDir, FileList, catalogVars
  <2>3. CASE LoadSlice(s) \/ StoreSlice(s) \/ EndPage(s) \/ NextKey(s) \/ EndRange(s)
    BY <1>3, <2>3 DEF LoadSlice, StoreSlice, EndPage, NextKey, EndRange, catalogVars
  <2> QED
    BY <1>1, <1>2, <1>4, <2>1, <2>2, <2>3 DEF Step
<1> QED
  BY <1>3, <1>4 DEF Next, ScanNext, CallFails, Crash, DriveChanges, vars, catalogVars

LEMMA ListingsScan ==
    ASSUME TypeOK, ListingsInv, [Next]_vars
    PROVE  ListingsInv'
<1>1. AllAt(Anywhere)'
  BY AnywhereReached, AtStep DEF ListingsInv
<1>2. PutMayFail \/ Saved(Removable)'
  BY SavedStep DEF ListingsInv
<1>3. EntriesAreFolders'
  BY EntriesStep DEF ListingsInv
<1> QED
  BY <1>1, <1>2, <1>3 DEF ListingsInv

LEMMA ListingsSame ==
    ASSUME ListingsInv, UNCHANGED scanVars,
           \A k \in DOMAIN cache' : Listing(k)' => Listing(k) /\ cache'[k] = cache[k],
           \A k \in DOMAIN cache : k \in DOMAIN cache' \/ k \in Removable,
           \A k \in DOMAIN index' : k \in DOMAIN index /\ index'[k] = index[k]
    PROVE  ListingsInv'
<1>1. AllAt(Anywhere)'
  <2>1. \A s \in Scanners : CallsAt(Anywhere, stack'[s]) /\ HandAt(Anywhere, pc'[s], job'[s])
    BY DEF ListingsInv, AllAt, scanVars
  <2>2. \A m \in MapId : \A k \in DOMAIN maps'[m] :
           ListingAt(Anywhere, makePathKey(<<k>>), maps'[m][k])
    BY DEF ListingsInv, AllAt, scanVars
  <2>3. \A k \in DOMAIN cache' : Listing(k)' => ListingAt(Anywhere, k, cache'[k].list)
    BY DEF ListingsInv, AllAt, Listing
  <2> QED
    BY <2>1, <2>2, <2>3 DEF AllAt
<1>2. \A file : Kept(Removable, cache, file) => Kept(Removable, cache', file)
  BY DEF Kept, Has
<1>3. Saved(Removable) => Saved(Removable)'
  <2> SUFFICES ASSUME Saved(Removable) PROVE Saved(Removable)'
    OBVIOUS
  <2>1. Passed(Removable)'
    BY <1>2 DEF Saved, Passed, scanVars
  <2>2. Named(Removable)'
    BY <1>2 DEF Saved, Named, Listing
  <2> QED
    BY <2>1, <2>2 DEF Saved
<1>4. EntriesAreFolders'
  BY DEF ListingsInv, EntriesAreFolders
<1> QED
  BY <1>1, <1>3, <1>4 DEF ListingsInv

LEMMA GetKeeps ==
    ASSUME AskedPath, NEW c \in Clients,
           BeginGet(c) \/ GetStep(c) \/ LookupFails(c) \/ LinkFails(c) \/ UpdateFails(c)
    PROVE  /\ \A k \in DOMAIN cache' : Listing(k)' => Listing(k) /\ cache'[k] = cache[k]
           /\ \A k \in DOMAIN cache : k \in DOMAIN cache' \/ k \in Removable
           /\ \A k \in DOMAIN index' : k \in DOMAIN index /\ index'[k] = index[k]
<1>1. CASE UNCHANGED <<cache, index>>
  BY <1>1 DEF Listing
<1>2. CASE RemoveFile(c)
  <2>1. RemovedKey(c) \in Removable
    BY <1>2 DEF RemoveFile, AskedPath, RemovedKey, Removable
  <2>2. cache' = Delete(cache, RemovedKey(c)) /\ UNCHANGED index
    BY <1>2 DEF RemoveFile
  <2> QED
    BY <2>1, <2>2 DEF Delete, Listing
<1>3. CASE RemoveListIndexData(c)
  BY <1>3 DEF RemoveListIndexData, Delete, Listing
<1>4. CASE UpdateFile(c)
  BY <1>4 DEF UpdateFile, Put, FileRecord, Listing
<1>5. BeginGet(c) \/ Lookup(c) \/ FileDownloadURL(c) \/ LookupFails(c) \/ LinkFails(c)
      \/ UpdateFails(c)
      => UNCHANGED <<cache, index>>
  BY DEF BeginGet, Lookup, FileDownloadURL, LookupFails, LinkFails, UpdateFails, catalogVars
<1> QED
  BY <1>1, <1>2, <1>3, <1>4, <1>5 DEF GetStep

LEMMA WalkReads ==
    ASSUME WalkNext PROVE UNCHANGED <<cache, index>>
BY DEF WalkNext, BeginPropfind, WalkStep, FindEntry, BadBody, WalkRoot, OpenFolder,
       NextItem, EndLoop, EndWalk, WriteFails, catalogVars

LEMMA ListingsStep ==
    ASSUME ServiceInv, AskedPath, ListingsInv, [ServiceNext]_serviceVars
    PROVE  ListingsInv'
<1>1. [Next]_vars => ListingsInv'
  BY ListingsScan DEF ServiceInv
<1>2. CASE GetNext /\ UNCHANGED scanVars
  BY <1>2, GetKeeps, ListingsSame DEF GetNext
<1>3. CASE WalkNext /\ UNCHANGED scanVars
  BY <1>3, WalkReads, ListingsSame DEF Listing
<1> QED
  BY <1>1, <1>2, <1>3
  DEF ServiceNext, ScanSteps, ServiceCrash, serviceVars, Next, ScanNext

LEMMA ListingsInit == ServiceInit => ListingsInv /\ AskedPath
<1> SUFFICES ASSUME ServiceInit PROVE ListingsInv /\ AskedPath
  OBVIOUS
<1>1. AllAt(Anywhere) /\ Saved(Removable)
  BY AtInit, SavedInit DEF ServiceInit
<1>2. EntriesAreFolders /\ AskedPath
  BY DEF ServiceInit, Init, CatalogInit, EmptyDB, EntriesAreFolders, GetInit, AskedPath
<1> QED
  BY <1>1, <1>2 DEF ListingsInv

-----------------------------------------------------------------------------
(***************************************************************************)
(* Requests and scans together implement Catalogue: the writes of a scan   *)
(* and the late write of a GET are seen as in the scan alone, and what a   *)
(* GET removes is the key it asks for.                                     *)
(***************************************************************************)

EvictSeen(key) == Stored' = Stored \ {key} /\ Shown' = Delete(Shown, key)

ServiceSeen ==
    \/ ScanSeen(Removable)
    \/ \E key \in Removable : EvictSeen(key)

LEMMA RemovesFile ==
    ASSUME NEW key, cache' = Delete(cache, key) PROVE EvictSeen(key)
<1>1. Stored' = Stored \ {key} /\ Listed' = Listed \ {key}
  BY DEF Stored, Listed, Listing, Delete
<1>2. \A k \in Stored : k # key => cache'[k] = cache[k]
  BY DEF Stored, Delete
<1>3. Shown' = Delete(Shown, key)
  BY <1>1, <1>2 DEF Shown, Listed, Listing, FileKeys, Delete
<1> QED
  BY <1>1, <1>3 DEF EvictSeen

LEMMA GetIsSeen ==
    ASSUME AskedPath, NEW c \in Clients,
           BeginGet(c) \/ GetStep(c) \/ LookupFails(c) \/ LinkFails(c) \/ UpdateFails(c)
    PROVE  ServiceSeen
<1>1. CASE UNCHANGED cache
  BY <1>1, SameSeen DEF ServiceSeen
<1>2. CASE RemoveFile(c)
  <2>1. RemovedKey(c) \in Removable
    BY <1>2 DEF RemoveFile, AskedPath, RemovedKey, Removable
  <2> QED
    BY <1>2, <2>1, RemovesFile DEF RemoveFile, ServiceSeen
<1>3. CASE UpdateFile(c)
  BY <1>3, PutsFile DEF UpdateFile, ScanSeen, ServiceSeen
<1>4. \/ BeginGet(c) \/ Lookup(c) \/ FileDownloadURL(c) \/ LookupFails(c)
      \/ LinkFails(c) \/ UpdateFails(c) \/ RemoveListIndexData(c)
      => UNCHANGED cache
  BY DEF BeginGet, Lookup, FileDownloadURL, LookupFails, LinkFails, UpdateFails,
         RemoveListIndexData, catalogVars
<1> QED
  BY <1>1, <1>2, <1>3, <1>4 DEF GetStep

LEMMA ServiceIsSeen ==
    ASSUME ServiceInv, AskedPath, Saved(Removable), [ServiceNext]_serviceVars
    PROVE  ServiceSeen
<1>1. [Next]_vars => ServiceSeen
  BY ScanIsSeen DEF ServiceInv, Saved, ServiceSeen
<1>2. CASE GetNext
  BY <1>2, GetIsSeen DEF GetNext
<1>3. CASE WalkNext
  BY <1>3, WalkReads, SameSeen DEF ServiceSeen
<1> QED
  BY <1>1, <1>2, <1>3
  DEF ServiceNext, ScanSteps, ServiceCrash, serviceVars, Next, ScanNext

(* For any requests beside any scans, as long as LevelDB accepts the       *)
(* writes, the readers of the catalogue see what Catalogue says: a key     *)
(* stored, a listing published after its files, or one key evicted by a    *)
(* GET that asks for it.                                                   *)
THEOREM ServiceIsACatalogue ==
    ASSUME ~PutMayFail PROVE ServiceSpec => ServiceImplementsCatalogue
<1> DEFINE I == ServiceInv /\ AskedPath /\ ListingsInv
<1>1. ServiceInit => I /\ Served!Init
  BY ServiceInvInit, ListingsInit
  DEF ServiceInit, Init, CatalogInit, EmptyDB, Served!Init, Served!EmptyDB,
      Stored, Listed, Shown
<1>2. I /\ [ServiceNext]_serviceVars => I'
  BY ServiceInvStep, AskedPathStep, ListingsStep
<1>3. ServiceSeen => [Served!Next]_<<Stored, Shown>>
  BY DEF ServiceSeen, ScanSeen, StoreSeen, PublishSeen, EvictSeen, Seen, Delete, Put,
         Served!Next, Served!Store, Served!Publish, Served!Evict, Served!Delete, Served!Put
<1>4. I /\ [ServiceNext]_serviceVars => [Served!Next]_<<Stored, Shown>>
  BY <1>3, ServiceIsSeen DEF ListingsInv
<1> QED
  BY <1>1, <1>2, <1>4, PTL DEF ServiceSpec, ServiceImplementsCatalogue, Served!Spec

(* Whatever is Catalogue's promise, the service keeps: the files that a    *)
(* listing names are stored, but for those that a GET asks for.            *)
THEOREM ListingsAreHonest == ServiceImplementsCatalogue => []Served!Honest
<1>1. Served!Init => Served!Honest
  BY DEF Served!Init, Served!EmptyDB, Served!Honest
<1>2. ASSUME Served!Honest, [Served!Next]_<<Stored, Shown>> PROVE Served!Honest'
  <2>1. CASE UNCHANGED <<Stored, Shown>>
    BY <1>2, <2>1 DEF Served!Honest
  <2>2. ASSUME NEW key, Served!Store(key) PROVE Served!Honest'
    BY <1>2, <2>2 DEF Served!Honest, Served!Store, Served!Delete
  <2>3. ASSUME NEW key, NEW files, Served!Publish(key, files) PROVE Served!Honest'
    BY <1>2, <2>3 DEF Served!Honest, Served!Publish, Served!Put
  <2>4. ASSUME NEW key \in Removable, Served!Evict(key) PROVE Served!Honest'
    BY <1>2, <2>4 DEF Served!Honest, Served!Evict, Served!Delete
  <2> QED
    BY <1>2, <2>1, <2>2, <2>3, <2>4 DEF Served!Next
<1> QED
  BY <1>1, <1>2, PTL DEF ServiceImplementsCatalogue, Served!Spec

-----------------------------------------------------------------------------
(***************************************************************************)
(* What a PROPFIND has shown and has still to visit: items whose paths     *)
(* begin with "root", below which files are, and files that have a record  *)
(* unless a GET may have removed it.                                       *)
(***************************************************************************)

Rooted(path) == path # << >> /\ path[1] = RootName

ItemOK(db, file) ==
    /\ Rooted(file.path)
    /\ ~file.dir => /\ Len(file.path) >= 2
                    /\ PutMayFail \/ Kept(Removable, db, file)

AnswerOK(db, label, p, i, cs, list) ==
    /\ Rooted(p)
    /\ label = "body" => i.dir
    /\ label = "open" => Rooted(i.path)
    /\ \A l \in 1 .. Len(list) : ItemOK(db, list[l])
    /\ \A l \in 1 .. Len(cs) : \A k \in 1 .. Len(cs[l].list) : ItemOK(db, cs[l].list[k])

AnswerInv ==
    \A w \in Walkers :
        AnswerOK(cache, walkPc[w], walkPath[w], walkInfo[w], calls[w], shown[w])

(* Records stay, but for those that a GET may remove.                      *)
RecordsStay == \A k \in DOMAIN cache : k \in DOMAIN cache' \/ k \in Removable

LEMMA RecordsStayStep ==
    ASSUME AskedPath, [ServiceNext]_serviceVars PROVE RecordsStay
<1>1. CASE UNCHANGED cache
  BY <1>1 DEF RecordsStay
<1>2. CASE GetNext
  BY <1>2, GetKeeps DEF GetNext, RecordsStay
<1>3. ASSUME NEW s \in Scanners, Step(s) PROVE RecordsStay
  <2>1. CASE PutItem(s) \/ PutListing(s)
    BY <2>1 DEF PutItem, PutListing, Put, RecordsStay
  <2>2. CASE ListAllFile(s) \/ FetchDir(s) \/ SaveListIndexData(s) \/ FileList(s)
    BY <1>1, <2>2, Zenon DEF ListAllFile, FetchDir, SaveListIndexData, FileList, catalogVars
  <2>3. CASE LoadSlice(s) \/ StoreSlice(s) \/ EndPage(s) \/ NextKey(s) \/ EndRange(s)
    BY <1>1, <2>3 DEF LoadSlice, StoreSlice, EndPage, NextKey, EndRange, catalogVars
  <2> QED
    BY <1>3, <2>1, <2>2, <2>3 DEF Step
<1>4. WalkNext \/ ServiceCrash \/ DriveChanges \/ (\E s \in Scanners : CallFails(s))
        => UNCHANGED cache
  BY WalkReads DEF ServiceCrash, Crash, DriveChanges, CallFails
<1> QED
  BY <1>1, <1>2, <1>3, <1>4 DEF ServiceNext, ScanSteps, serviceVars, vars, catalogVars

LEMMA AnswerKeeps ==
    ASSUME RecordsStay, NEW label, NEW p, NEW i, NEW cs, NEW list,
           AnswerOK(cache, label, p, i, cs, list)
    PROVE  AnswerOK(cache', label, p, i, cs, list)
<1>1. \A file : ItemOK(cache, file) => ItemOK(cache', file)
  BY DEF RecordsStay, ItemOK, Kept, Has
<1> QED
  BY <1>1 DEF AnswerOK

LEMMA AnswerFrame ==
    ASSUME AnswerInv, RecordsStay, NEW w \in Walkers, OthersStay(w),
           AnswerOK(cache, walkPc'[w], walkPath'[w], walkInfo'[w], calls'[w], shown'[w])
    PROVE  AnswerInv'
<1>1. ASSUME NEW v \in Walkers
      PROVE  AnswerOK(cache', walkPc'[v], walkPath'[v], walkInfo'[v], calls'[v], shown'[v])
  <2>1. CASE v = w
    BY <2>1, AnswerKeeps
  <2>2. CASE v # w
    BY <2>2, AnswerKeeps DEF AnswerInv, OthersStay
  <2> QED
    BY <2>1, <2>2
<1> QED
  BY <1>1 DEF AnswerInv

LEMMA AnswerBegin ==
    ASSUME WalkInv, NEW w \in Walkers, BeginPropfind(w)
    PROVE  AnswerOK(cache, walkPc'[w], walkPath'[w], walkInfo'[w], calls'[w], shown'[w])
<1>1. PICK u \in WalkUrls : walkPath' = [walkPath EXCEPT ![w] = PropfindPath(u)]
  BY DEF BeginPropfind
<1>2. /\ walkPc'[w] = "depth" /\ walkPath'[w] = PropfindPath(u)
      /\ calls'[w] = << >> /\ shown'[w] = << >>
  BY <1>1 DEF BeginPropfind, WalkGoto, WalkInv, WalkFunctions
<1>3. Rooted(PropfindPath(u))
  <2>1. CASE HasRoot(u)
    BY <2>1 DEF HasRoot, PropfindPath, Rooted
  <2>2. CASE ~HasRoot(u)
    <3> DEFINE S == {u.names[n] : n \in DOMAIN u.names} \cup {RootName}
    <3>1. u.names \in Seq({u.names[n] : n \in DOMAIN u.names})
      BY WalkAssumption DEF IsUrl
    <3>2. {u.names[n] : n \in DOMAIN u.names} \subseteq S /\ RootName \in S
      OBVIOUS
    <3> HIDE DEF S
    <3>3. u.names \in Seq(S)
      BY <3>1, <3>2, SeqMonotonic
    <3>4. <<RootName>> \in Seq(S) /\ Len(<<RootName>>) = 1 /\ <<RootName>>[1] = RootName
      BY <3>2
    <3>5. /\ <<RootName>> \o u.names \in Seq(S)
          /\ Len(<<RootName>> \o u.names) = 1 + Len(u.names)
          /\ (<<RootName>> \o u.names)[1] = RootName
      BY <3>3, <3>4, ConcatProperties
    <3>6. <<RootName>> \o u.names # << >>
      BY <3>3, <3>5, EmptySeq
    <3> QED
      BY <2>2, <3>5, <3>6 DEF PropfindPath, Rooted
  <2> QED
    BY <2>1, <2>2
<1>4. Len(<< >>) = 0 /\ 1 .. 0 = {}
  OBVIOUS
<1> QED
  BY <1>2, <1>3, <1>4 DEF AnswerOK

(* An entry found is that of a folder, which stays one.                    *)
LEMMA FolderStays == ASSUME KindsStay, NEW file, IsFolder(file) PROVE file.dir
BY DEF KindsStay, IsFolder

LEMMA AnswerFindEntry ==
    ASSUME KindsStay, EntriesAreFolders, WalkInv, AnswerInv, NEW w \in Walkers, FindEntry(w)
    PROVE  AnswerOK(cache, walkPc'[w], walkPath'[w], walkInfo'[w], calls'[w], shown'[w])
<1> DEFINE key == makePathKey(walkPath[w])
<1>1. AnswerOK(cache, walkPc[w], walkPath[w], walkInfo[w], calls[w], shown[w])
  BY DEF AnswerInv
<1>2. UNCHANGED <<walkPath, calls, shown>>
  BY DEF FindEntry
<1>3. CASE WalkGoto(w, "idle")
  <2>1. walkPc'[w] = "idle"
    BY <1>3 DEF WalkGoto, WalkInv, WalkFunctions
  <2> QED
    BY <1>1, <1>2, <2>1 DEF AnswerOK
<1>4. CASE Has(index, key) /\ WalkGoto(w, "body") /\ walkInfo' = [walkInfo EXCEPT ![w] = index[key]]
  <2>1. walkPc'[w] = "body" /\ walkInfo'[w] = index[key]
    BY <1>4 DEF WalkGoto, WalkInv, WalkFunctions
  <2>2. index[key].dir
    BY <1>4, FolderStays DEF EntriesAreFolders, Has
  <2> QED
    BY <1>1, <1>2, <2>1, <2>2 DEF AnswerOK
<1> QED
  BY <1>3, <1>4 DEF FindEntry

LEMMA AnswerStops ==
    ASSUME WalkInv, AnswerInv, NEW w \in Walkers, WalkGoto(w, "idle"),
           calls' = calls \/ calls' = [calls EXCEPT ![w] = << >>],
           UNCHANGED <<walkPath, walkInfo, shown>>
    PROVE  AnswerOK(cache, walkPc'[w], walkPath'[w], walkInfo'[w], calls'[w], shown'[w])
<1>1. AnswerOK(cache, walkPc[w], walkPath[w], walkInfo[w], calls[w], shown[w])
  BY DEF AnswerInv
<1>2. walkPc'[w] = "idle" /\ (calls'[w] = calls[w] \/ calls'[w] = << >>)
  BY DEF WalkGoto, WalkInv, WalkFunctions
<1>3. Len(<< >>) = 0 /\ 1 .. 0 = {}
  OBVIOUS
<1> QED
  BY <1>1, <1>2, <1>3 DEF AnswerOK

LEMMA AnswerVisit ==
    ASSUME WalkInv, AnswerInv, NEW w \in Walkers, NEW file, NEW depth,
           Visit(w, file, depth), UNCHANGED walkPath, ItemOK(cache, file),
           \A l \in 1 .. Len(calls'[w]) : \A k \in 1 .. Len(calls'[w][l].list) :
              ItemOK(cache, calls'[w][l].list[k])
    PROVE  AnswerOK(cache, walkPc'[w], walkPath'[w], walkInfo'[w], calls'[w], shown'[w])
<1>1. /\ AnswerOK(cache, walkPc[w], walkPath[w], walkInfo[w], calls[w], shown[w])
      /\ shown[w] \in Seq(Placeable)
  BY DEF AnswerInv, WalkInv, WalkOK, WalkTypes
<1>2. /\ shown' = [shown EXCEPT ![w] = Append(@, file)]
      /\ \/ /\ walkPc' = [walkPc EXCEPT ![w] = "open"]
            /\ walkInfo' = [walkInfo EXCEPT ![w] = file]
         \/ walkPc' = [walkPc EXCEPT ![w] = "loop"]
  BY DEF Visit, WalkGoto
<1>3. /\ shown'[w] = Append(shown[w], file)
      /\ walkPc'[w] # "body"
      /\ walkPc'[w] = "open" => walkInfo'[w] = file
  BY <1>2 DEF WalkInv, WalkFunctions
<1>4. \A l \in 1 .. Len(Append(shown[w], file)) : ItemOK(cache, Append(shown[w], file)[l])
  <2>1. /\ Len(Append(shown[w], file)) = Len(shown[w]) + 1 /\ Len(shown[w]) \in Nat
        /\ \A l \in 1 .. Len(shown[w]) : Append(shown[w], file)[l] = shown[w][l]
        /\ Append(shown[w], file)[Len(shown[w]) + 1] = file
    <3>1. shown[w] \in Seq(Placeable \cup {file})
      BY <1>1, SeqMonotonic
    <3> QED
      BY <3>1, AppendProperties, LenProperties
  <2>2. \A l \in 1 .. Len(shown[w]) : ItemOK(cache, shown[w][l])
    BY <1>1 DEF AnswerOK
  <2> TAKE l \in 1 .. Len(Append(shown[w], file))
  <2>3. l \in 1 .. Len(shown[w]) \/ l = Len(shown[w]) + 1
    BY <2>1
  <2> QED
    BY <2>1, <2>2, <2>3
<1> QED
  BY <1>1, <1>3, <1>4 DEF AnswerOK, ItemOK

LEMMA AnswerWalkRoot ==
    ASSUME WalkInv, AnswerInv, NEW w \in Walkers, WalkRoot(w)
    PROVE  AnswerOK(cache, walkPc'[w], walkPath'[w], walkInfo'[w], calls'[w], shown'[w])
<1> DEFINE file == [walkInfo[w] EXCEPT !.path = walkPath[w]]
<1>1. /\ AnswerOK(cache, walkPc[w], walkPath[w], walkInfo[w], calls[w], shown[w])
      /\ walkPc[w] = "body" /\ walkInfo[w] \in Placeable
  BY DEF AnswerInv, WalkInv, WalkOK, WalkTypes, WalkRoot
<1>2. file.path = walkPath[w] /\ file.dir = walkInfo[w].dir
  BY <1>1 DEF Placeable
<1>3. Visit(w, file, walkDepth[w]) /\ UNCHANGED <<walkPath, calls>>
  BY DEF WalkRoot
<1> HIDE DEF file
<1>4. ItemOK(cache, file)
  BY <1>1, <1>2 DEF AnswerOK, ItemOK
<1> QED
  BY <1>1, <1>3, <1>4, AnswerVisit DEF AnswerOK

(* An item put where the walk is has the key that it was listed with: its  *)
(* folder was opened by the key of the folder it is listed in.             *)
LEMMA PlacedKey ==
    ASSUME NEW item \in File, NEW p \in AnyPath, p # << >>,
           NEW n \in Nodes, NEW q \in Path, q # << >>, item = FileAt(n, Append(q, n.name)),
           makePathKey(ParentPath(item)) = makePathKey(p)
    PROVE  makePathKey(Append(p, item.name)) = makePathKey(item.path)
<1>1. /\ item.name = n.name /\ item.path = Append(q, n.name)
      /\ n.name \in Names
  BY DEF FileAt, Names
<1>2. ParentPath(item) = q
  BY <1>1, ParentOfItem
<1>3. q \in AnyPath /\ n.name \in AnyName
  <2>1. Names \cup {RootName} \subseteq AnyName
    BY DEF AnyName
  <2> QED
    BY <1>1, <2>1, SeqMonotonic DEF Path, AnyPath
<1>4. /\ makePathKey(Append(q, n.name)) = makePathKey(q) \o n.name
      /\ makePathKey(Append(p, n.name)) = makePathKey(p) \o n.name
  BY <1>3, KeyOfItem
<1> QED
  BY <1>1, <1>2, <1>4

LEMMA PlacedOK ==
    ASSUME ServiceInv, ListingsInv, NEW p \in AnyPath, Rooted(p),
           Has(cache, makePathKey(p)), cache[makePathKey(p)].kind = "list"
    PROVE  LET items == Placed(cache[makePathKey(p)].list, p)
           IN  \A i \in 1 .. Len(items) : ItemOK(cache, items[i])
<1> DEFINE key   == makePathKey(p)
           list  == cache[key].list
           items == Placed(list, p)
<1>1. key \in DOMAIN cache /\ Listing(key)
  BY DEF Has, Listing
<1>2. list \in Seq(File)
  BY <1>1 DEF ServiceInv, TypeOK, CatalogTypeOK, Record
<1>3. Len(items) = Len(list)
  BY <1>2, PlacedBelongs
<1>4. /\ FiledIn(list, key) /\ ListingAt(Anywhere, key, list)
      /\ PutMayFail \/ \A i \in 1 .. Len(list) : ~list[i].dir => Kept(Removable, cache, list[i])
  BY <1>1 DEF ServiceInv, Filed, FiledUnderOwnKey, ListingsInv, AllAt, Saved, Named
<1> HIDE DEF key
<1>5. ASSUME NEW i \in 1 .. Len(list) PROVE ItemOK(cache, items[i])
  <2> DEFINE item == list[i]
  <2>1. items[i] = FileAt(item, Append(p, item.name))
    BY <1>5 DEF Placed
  <2>2. item \in File /\ item.name \in AnyName
    <3>1. item \in File
      BY <1>2, <1>5, ElementOfSeq
    <3> QED
      BY <3>1 DEF File, AnyName
  <2>3. PICK n \in Nodes : \E q \in Anywhere[n.parent] : item = FileAt(n, Append(q, n.name))
    BY <1>4, <1>5 DEF ListingAt
  <2>4. PICK q \in Anywhere[n.parent] : item = FileAt(n, Append(q, n.name))
    BY <2>3
  <2>5. q \in Path /\ q # << >>
    BY <2>4 DEF Anywhere
  <2>6. makePathKey(ParentPath(item)) = key
    BY <1>4, <1>5 DEF FiledIn
  <2> HIDE DEF item
  <2>7. makePathKey(Append(p, item.name)) = makePathKey(item.path)
    BY <2>2, <2>4, <2>5, <2>6, PlacedKey DEF Rooted, key
  <2>8. items[i].dir = item.dir /\ items[i].path = Append(p, item.name)
    BY <2>1 DEF FileAt
  <2>9. Rooted(Append(p, item.name)) /\ Len(Append(p, item.name)) >= 2
    <3>1. p \in Seq(AnyName) /\ Len(p) \in Nat \ {0} /\ p[1] = RootName
      BY EmptySeq DEF AnyPath, Rooted
    <3>2. /\ Append(p, item.name) \in Seq(AnyName) /\ Len(Append(p, item.name)) = Len(p) + 1
          /\ \A k \in 1 .. Len(p) : Append(p, item.name)[k] = p[k]
          /\ Append(p, item.name) # << >>
      BY <2>2, <3>1, AppendProperties
    <3>3. 1 \in 1 .. Len(p)
      BY <3>1
    <3> QED
      BY <3>1, <3>2, <3>3 DEF Rooted
  <2>10. ~items[i].dir => PutMayFail \/ Kept(Removable, cache, items[i])
    BY <1>4, <1>5, <2>7, <2>8 DEF Kept, item
  <2> QED
    BY <2>8, <2>9, <2>10 DEF ItemOK
<1> QED
  BY <1>3, <1>5 DEF key

LEMMA AnswerOpenFolder ==
    ASSUME ServiceInv, ListingsInv, WalkInv, AnswerInv, NEW w \in Walkers, OpenFolder(w)
    PROVE  AnswerOK(cache, walkPc'[w], walkPath'[w], walkInfo'[w], calls'[w], shown'[w])
<1> DEFINE p   == walkInfo[w].path
           key == makePathKey(p)
<1>1. /\ AnswerOK(cache, walkPc[w], walkPath[w], walkInfo[w], calls[w], shown[w])
      /\ WalkTypes(walkPc[w], walkPath[w], walkDepth[w], walkInfo[w], calls[w], shown[w])
      /\ walkPc[w] = "open"
  BY DEF AnswerInv, WalkInv, WalkOK, OpenFolder
<1>2. UNCHANGED <<walkPath, walkInfo, shown>>
  BY DEF OpenFolder
<1>3. CASE ~(Has(cache, key) /\ cache[key].kind = "list")
  BY <1>2, <1>3, AnswerStops DEF OpenFolder
<1>4. CASE Has(cache, key) /\ cache[key].kind = "list"
  <2> DEFINE items == Placed(cache[key].list, p)
             loop  == Loop(items, ItemDepth(DepthHere(w)))
  <2>1. /\ calls' = [calls EXCEPT ![w] = Append(@, loop)]
        /\ walkPc' = [walkPc EXCEPT ![w] = "loop"]
    BY <1>4 DEF OpenFolder, WalkGoto
  <2>2. \A i \in 1 .. Len(items) : ItemOK(cache, items[i])
    BY <1>1, <1>4, PlacedOK DEF AnswerOK, WalkTypes, Placeable
  <2>3. loop.list = items
    BY DEF Loop
  <2> HIDE DEF loop, items
  <2>4. walkPc'[w] = "loop" /\ calls'[w] = Append(calls[w], loop)
    BY <2>1 DEF WalkInv, WalkFunctions
  <2>5. calls[w] \in Seq(WalkLoops \cup {loop})
    BY <1>1, SeqMonotonic DEF WalkTypes
  <2>6. /\ Len(Append(calls[w], loop)) = Len(calls[w]) + 1 /\ Len(calls[w]) \in Nat
        /\ \A l \in 1 .. Len(calls[w]) : Append(calls[w], loop)[l] = calls[w][l]
        /\ Append(calls[w], loop)[Len(calls[w]) + 1] = loop
    BY <2>5, AppendProperties, LenProperties
  <2>7. ASSUME NEW l \in 1 .. Len(Append(calls[w], loop)),
               NEW k \in 1 .. Len(Append(calls[w], loop)[l].list)
        PROVE  ItemOK(cache, Append(calls[w], loop)[l].list[k])
    <3>1. l \in 1 .. Len(calls[w]) \/ l = Len(calls[w]) + 1
      BY <2>6
    <3> QED
      BY <1>1, <2>2, <2>3, <2>6, <2>7, <3>1 DEF AnswerOK
  <2> QED
    BY <1>1, <1>2, <2>4, <2>7 DEF AnswerOK
<1> QED
  BY <1>3, <1>4

LEMMA AnswerNextItem ==
    ASSUME WalkInv, AnswerInv, NEW w \in Walkers, NextItem(w)
    PROVE  AnswerOK(cache, walkPc'[w], walkPath'[w], walkInfo'[w], calls'[w], shown'[w])
<1> DEFINE cs   == calls[w]
           n    == Len(cs)
           list == cs[n].list
           rest == [cs[n] EXCEPT !.list = Tail(@)]
           less == [cs EXCEPT ![n].list = Tail(@)]
<1>1. /\ AnswerOK(cache, walkPc[w], walkPath[w], walkInfo[w], cs, shown[w])
      /\ cs \in Seq(WalkLoops) /\ cs # << >> /\ list # << >>
  BY DEF AnswerInv, WalkInv, WalkOK, WalkTypes, NextItem
<1>2. Visit(w, Head(list), cs[n].depth) /\ UNCHANGED walkPath
  BY DEF NextItem
<1>3. calls'[w] = less
  <2>1. calls' = [calls EXCEPT ![w][n].list = Tail(@)]
    BY DEF NextItem
  <2> QED
    BY <2>1 DEF WalkInv, WalkFunctions
<1> HIDE DEF cs
<1>4. n \in 1 .. Len(cs) /\ cs[n] \in WalkLoops
  BY <1>1, EmptySeq, ElementOfSeq
<1>5. /\ Len(Tail(list)) = Len(list) - 1 /\ Len(list) \in Nat \ {0}
      /\ \A k \in 1 .. Len(Tail(list)) : Tail(list)[k] = list[k + 1]
      /\ Head(list) = list[1]
  <2>1. list \in Seq(Placeable)
    BY <1>4 DEF WalkLoops
  <2> QED
    BY <1>1, <2>1, HeadTailProperties, EmptySeq
<1>6. \A k \in 1 .. Len(list) : ItemOK(cache, list[k])
  BY <1>1, <1>4 DEF AnswerOK
<1>7. ItemOK(cache, Head(list))
  <2>1. 1 \in 1 .. Len(list)
    BY <1>5
  <2> QED
    BY <1>5, <1>6, <2>1
<1>8. /\ less = [cs EXCEPT ![n] = rest]
      /\ rest.list = Tail(list)
  BY <1>4 DEF WalkLoops
<1>9. Len(less) = Len(cs) /\ \A l \in 1 .. Len(cs) : less[l] = IF l = n THEN rest ELSE cs[l]
  <2> HIDE DEF rest, less
  <2>1. cs \in Seq(WalkLoops \cup {rest})
    BY <1>1, SeqMonotonic
  <2> QED
    BY <1>4, <1>8, <2>1, ExceptSeq
<1>10. ASSUME NEW l \in 1 .. Len(less), NEW k \in 1 .. Len(less[l].list)
       PROVE  ItemOK(cache, less[l].list[k])
  <2>1. CASE l = n
    <3>1. less[l].list = Tail(list)
      BY <1>4, <1>8, <1>9, <2>1
    <3>2. k \in 1 .. Len(Tail(list))
      BY <1>10, <3>1
    <3>3. k + 1 \in 1 .. Len(list) /\ Tail(list)[k] = list[k + 1]
      <4> HIDE DEF list, less
      <4> QED
        BY <1>5, <3>2
    <3> QED
      BY <1>6, <3>1, <3>3
  <2>2. CASE l # n
    <3>1. less[l] = cs[l] /\ l \in 1 .. Len(cs)
      BY <1>9, <1>10, <2>2
    <3> QED
      BY <1>1, <1>10, <3>1 DEF AnswerOK
  <2> QED
    BY <2>1, <2>2
<1> HIDE DEF less, list
<1> QED
  BY <1>2, <1>3, <1>7, <1>10, AnswerVisit

LEMMA AnswerEndLoop ==
    ASSUME WalkInv, AnswerInv, NEW w \in Walkers, EndLoop(w)
    PROVE  AnswerOK(cache, walkPc'[w], walkPath'[w], walkInfo'[w], calls'[w], shown'[w])
<1> DEFINE cs    == calls[w]
           outer == SubSeq(cs, 1, Len(cs) - 1)
<1>1. /\ AnswerOK(cache, walkPc[w], walkPath[w], walkInfo[w], cs, shown[w])
      /\ cs \in Seq(WalkLoops) /\ cs # << >>
  BY DEF AnswerInv, WalkInv, WalkOK, WalkTypes, EndLoop
<1>2. calls'[w] = outer /\ UNCHANGED <<walkPc, walkPath, walkInfo, shown>>
  BY DEF EndLoop, OuterLoop, WalkInv, WalkFunctions
<1> HIDE DEF cs
<1>3. Len(cs) \in Nat \ {0}
  BY <1>1, EmptySeq
<1>4. Len(outer) = Len(cs) - 1 /\ \A l \in 1 .. Len(cs) - 1 : outer[l] = cs[l]
  <2> DEFINE m == Len(cs) - 1
  <2>1. m \in Nat /\ 1 .. m \subseteq 1 .. Len(cs)
    BY <1>3
  <2>2. \A l \in 1 .. m : cs[l] \in WalkLoops
    BY <1>1, <2>1, ElementOfSeq
  <2> HIDE DEF m
  <2>3. Len(SubSeq(cs, 1, m)) = m /\ \A l \in 1 .. m : SubSeq(cs, 1, m)[l] = cs[l]
    BY <2>1, <2>2, SubSeqProperties
  <2> QED
    BY <2>3 DEF m
<1> HIDE DEF outer
<1>5. \A l \in 1 .. Len(outer) : l \in 1 .. Len(cs) /\ outer[l] = cs[l]
  BY <1>3, <1>4
<1> QED
  BY <1>1, <1>2, <1>5 DEF AnswerOK

LEMMA AnswerStep ==
    ASSUME KindsStay, ServiceInv, AskedPath, ListingsInv, WalkInv, AnswerInv,
           [ServiceNext]_serviceVars
    PROVE  AnswerInv'
<1>0. RecordsStay
  BY RecordsStayStep
<1>1. ASSUME NEW w \in Walkers, WalkStep(w) \/ BeginPropfind(w) \/ WriteFails(w)
      PROVE  AnswerInv'
  <2>1. AnswerOK(cache, walkPc'[w], walkPath'[w], walkInfo'[w], calls'[w], shown'[w])
    <3>1. CASE BadBody(w) \/ EndWalk(w) \/ WriteFails(w)
      <4>1. /\ WalkGoto(w, "idle") /\ UNCHANGED <<walkPath, walkInfo, shown>>
            /\ calls' = calls \/ calls' = [calls EXCEPT ![w] = << >>]
        BY <3>1 DEF BadBody, EndWalk, WriteFails
      <4> QED
        BY <4>1, AnswerStops
    <3>2. CASE FindEntry(w)
      BY <3>2, AnswerFindEntry DEF ListingsInv
    <3> QED
      BY <1>1, <3>1, <3>2, AnswerBegin, AnswerWalkRoot, AnswerOpenFolder, AnswerNextItem,
         AnswerEndLoop DEF WalkStep
  <2>2. OthersStay(w)
    BY <1>1, StepOfOne
  <2> QED
    BY <1>0, <2>1, <2>2, AnswerFrame
<1>2. CASE ServiceCrash
  <2>1. Len(<< >>) = 0 /\ 1 .. 0 = {}
    OBVIOUS
  <2>2. /\ walkPc' = [w \in Walkers |-> "idle"] /\ calls' = [w \in Walkers |-> << >>]
        /\ shown' = [w \in Walkers |-> << >>] /\ UNCHANGED <<walkPath, walkInfo>>
    BY <1>2 DEF ServiceCrash, DropWalks
  <2>3. ASSUME NEW w \in Walkers
        PROVE  AnswerOK(cache', walkPc'[w], walkPath'[w], walkInfo'[w], calls'[w], shown'[w])
    BY <2>1, <2>2 DEF AnswerInv, AnswerOK
  <2> QED
    BY <2>3 DEF AnswerInv
<1>3. CASE UNCHANGED walkVars
  <2>1. ASSUME NEW w \in Walkers
        PROVE  AnswerOK(cache', walkPc'[w], walkPath'[w], walkInfo'[w], calls'[w], shown'[w])
    BY <1>0, <1>3, AnswerKeeps DEF AnswerInv, walkVars
  <2> QED
    BY <2>1 DEF AnswerInv
<1> QED
  BY <1>1, <1>2, <1>3 DEF ServiceNext, ScanSteps, WalkNext, serviceVars

LEMMA AnswerInit == ServiceInit => AnswerInv
<1>1. Len(<< >>) = 0 /\ 1 .. 0 = {}
  OBVIOUS
<1>2. Rooted(<<RootName>>)
  BY DEF Rooted
<1> QED
  BY <1>1, <1>2 DEF ServiceInit, WalkInit, AnswerInv, AnswerOK

AnswersInv == ServiceInv /\ AskedPath /\ ListingsInv /\ WalkInv /\ AnswerInv

LEMMA AnswersAlways == ASSUME KindsStay PROVE ServiceSpec => []AnswersInv
<1>1. ServiceInit => AnswersInv
  BY ServiceInvInit, ListingsInit, WalkInvInit, AnswerInit DEF AnswersInv
<1>2. AnswersInv /\ [ServiceNext]_serviceVars => AnswersInv'
  BY ServiceInvStep, AskedPathStep, ListingsStep, WalkInvStep, AnswerStep DEF AnswersInv
<1> QED
  BY <1>1, <1>2, PTL DEF ServiceSpec

(* Whatever PROPFIND shows as a file has a record for GET to find, unless  *)
(* a GET of it may have removed that (SaveFile writes the files before the *)
(* listing, GetPlayInfo removes the record it cannot use); as long as no   *)
(* write fails and no item turns from a file into a folder or back.        *)
THEOREM ShownFilesAreStored ==
    ASSUME KindsStay, ~PutMayFail PROVE ServiceSpec => []ShownFileIsStored
<1>1. AnswersInv => ShownFileIsStored
  BY DEF AnswersInv, AnswerInv, AnswerOK, ItemOK, Kept, ShownFileIsStored
<1> QED
  BY <1>1, AnswersAlways, PTL

(* Where the href of an item leads.                                        *)
LEMMA FollowedFile ==
    ASSUME NEW S, NEW file, file.path \in Seq(S), Rooted(file.path), Len(file.path) >= 2,
           ~file.dir
    PROVE  Followed(file, RootUrl) = file.path
<1> DEFINE url == Url(<< >> \o file.path, FALSE)
<1>1. Followed(file, RootUrl) = GetPath(url)
  BY DEF Followed, Resolved, RootUrl, Url, Href
<1>2. url.names = file.path /\ ~url.slash
  BY ConcatEmptySeq DEF Url
<1> HIDE DEF url
<1>3. GetPath(url) = file.path \o << >>
  BY <1>2 DEF GetPath, HasRoot, Rooted
<1> QED
  BY <1>1, <1>3, ConcatEmptySeq

LEMMA FollowedFolder ==
    ASSUME NEW S, NEW file, file.path \in Seq(S), Rooted(file.path), file.dir
    PROVE  \/ Followed(file, RootUrl) = file.path
           \/ IsBelow(file.path, <<RootName, RootName>>)
<1> DEFINE path == file.path
           url  == Url(Tail(path), TRUE)
<1>1. Followed(file, RootUrl) = PropfindPath(url)
  BY DEF Followed, Resolved, RootUrl, Url, Href
<1>2. url.names = Tail(path)
  BY DEF Url
<1> HIDE DEF url
<1>3. /\ path \in Seq(S) /\ path # << >> /\ path[1] = RootName /\ Len(path) \in Nat \ {0}
      /\ Tail(path) \in Seq(S) /\ Len(Tail(path)) = Len(path) - 1
      /\ \A k \in 1 .. Len(Tail(path)) : Tail(path)[k] = path[k + 1]
  BY HeadTailProperties, EmptySeq DEF Rooted
<1> HIDE DEF path
<1>4. CASE HasRoot(url)
  <2>1. Tail(path) # << >> /\ Tail(path)[1] = RootName
    BY <1>2, <1>4 DEF HasRoot
  <2>2. Len(Tail(path)) >= 1
    BY <1>3, <2>1, EmptySeq
  <2>3. Len(path) >= 2 /\ path[2] = RootName
    BY <1>3, <2>1, <2>2
  <2>4. SubSeq(path, 1, 2) = <<RootName, RootName>>
    <3>1. /\ SubSeq(path, 1, 2) \in Seq(S) /\ Len(SubSeq(path, 1, 2)) = 2
          /\ \A k \in 1 .. 2 : SubSeq(path, 1, 2)[k] = path[k]
      <4>1. \A k \in 1 .. 2 : path[k] \in S
        BY <1>3, <2>3, ElementOfSeq
      <4> QED
        BY <4>1, SubSeqProperties
    <3>2. RootName \in S /\ \A k \in 1 .. 2 : path[k] = RootName
      <4>1. 1 \in 1 .. Len(path) /\ \A k \in 1 .. 2 : k = 1 \/ k = 2
        BY <1>3
      <4> QED
        BY <1>3, <2>3, <4>1, ElementOfSeq
    <3>3. /\ <<RootName, RootName>> \in Seq(S) /\ Len(<<RootName, RootName>>) = 2
          /\ \A k \in 1 .. 2 : <<RootName, RootName>>[k] = RootName
      BY <3>2
    <3> DEFINE first == SubSeq(path, 1, 2)
               two   == <<RootName, RootName>>
    <3>4. /\ first \in Seq(S) /\ two \in Seq(S) /\ Len(first) = 2 /\ Len(two) = 2
          /\ \A k \in 1 .. 2 : first[k] = two[k]
      BY <3>1, <3>2, <3>3
    <3> HIDE DEF first, two
    <3>5. first = two
      BY <3>4, SeqEqual
    <3> QED
      BY <3>5 DEF first, two
  <2>5. Len(<<RootName, RootName>>) = 2
    OBVIOUS
  <2> QED
    BY <2>3, <2>4, <2>5 DEF IsBelow, path
<1>5. CASE ~HasRoot(url)
  <2>1. PropfindPath(url) = <<RootName>> \o Tail(path)
    BY <1>2, <1>5 DEF PropfindPath
  <2>2. <<RootName>> \o Tail(path) = path
    BY <1>3
  <2> QED
    BY <1>1, <2>1, <2>2 DEF path
<1> QED
  BY <1>4, <1>5

(* An href of an answer leads back to what was shown (walkFn strips "root" *)
(* from the path of a folder, and the handlers put it back), except below  *)
(* a folder of the drive that is called "root"; as long as no item turns   *)
(* from a file into a folder or back.                                      *)
THEOREM HrefsAreFollowed == ASSUME KindsStay PROVE ServiceSpec => []HrefsLeadBack
<1>1. AnswersInv => HrefsLeadBack
  <2> SUFFICES ASSUME AnswersInv, NEW w \in Walkers, NEW i \in 1 .. Len(shown[w])
               PROVE  \/ Followed(shown[w][i], RootUrl) = shown[w][i].path
                      \/ shown[w][i].dir /\ IsBelow(shown[w][i].path, <<RootName, RootName>>)
    BY DEF HrefsLeadBack
  <2> DEFINE file == shown[w][i]
  <2>1. ItemOK(cache, file) /\ shown[w] \in Seq(Placeable)
    BY DEF AnswersInv, AnswerInv, AnswerOK, WalkInv, WalkOK, WalkTypes
  <2>2. file \in Placeable
    BY <2>1, ElementOfSeq
  <2> HIDE DEF file
  <2>3. file.path \in Seq(AnyName)
    BY <2>2 DEF Placeable, AnyPath
  <2> QED
    BY <2>1, <2>3, FollowedFile, FollowedFolder DEF ItemOK, file
<1> QED
  BY <1>1, AnswersAlways, PTL

=============================================================================
