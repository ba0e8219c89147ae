# A verification of aliyundrive_webdav

TLA+ models, TLC checks and TLAPS proofs of the program in this repository: a
WebDAV server that shows an Aliyun drive. The models are read from `src/`; the
README of the program and its messages are used for what it promises.

Contents: 1 the system, 2 the modules, 3 the abstractions, 4 the runs,
5 fairness, 6 the proofs, 7 what does not hold, 8 what is not modelled,
9 plan, 10 how to run it.

## 1. The system

One binary (`main.go`) with the commands `start`, `stop`, `status`, `login` and
`get`. All it knows is in one LevelDB database: the OAuth token, the id of the
drive, and a catalogue of the drive made by scanning it from the root. The
WebDAV handlers answer from the catalogue alone; only a download asks the API,
for a link, and redirects the client there.

| component | source | state | operations |
|---|---|---|---|
| store | `db/db.go`, `db/init.go` | LevelDB, its `flock` | put, put with sync, get, delete, open |
| scan | `ali_driver/list.go`, `ali_driver/file.go` (`SaveFile`, `SaveListIndexData`), `tasks/list.go` | the global map `FilesMapData`, the recursion of `GetFileList` | `ListAllFile`, `GetFileList`, `SaveFile` |
| play info | `ali_driver/file.go` (`GetPlayInfo`) | file records | look up, ask for a link, write back, remove |
| handlers | `webdav/webdav.go` | the open requests | GET, HEAD, POST, PROPFIND, OPTIONS; the rest is refused |
| properties | `webdav/prop.go`, `webdav/xml.go` | none | select properties, make responses |
| XML | `webdav/xml.go`, `webdav/internal/xml` (a copy of Go's `encoding/xml`) | stack of open elements and name spaces; the printer's prefixes | read the bodies of PROPFIND, LOCK and PROPPATCH, write a multistatus |
| QR login | `ali_driver/auth.go` | the code being polled | fetch a code, poll it, exchange it |
| token | `ali_driver/user.go`, `ali_driver/auth.go` | drive id and token in LevelDB | save, read, refresh |
| commands | `main.go` | the file `pid`, the process table, the lock of LevelDB | start, stop, status, login, get |
| HTTP client | `ali_driver/http.go` | none | a configured resty client |

**How they interact.** `start` reads and renews the token, starts one scan in a
goroutine (`main.go:54`), writes `pid` and serves. A ticker (`tasks/list.go`)
scans again for as long as the process lives. Every request is a goroutine.
Scans meet each other in `FilesMapData`, a global map without a lock, and meet
requests in LevelDB, whose single calls are atomic and which is used without
transactions. Every call of the API begins with `GetDefaultAccessToken`, which
reads the token, refreshes it if it has expired and writes it back in any case:
scans and requests meet there too. Two invocations of the program meet in the
lock of the database, the file `pid` and the process table.

**What is hard.** Two scans that overlap; a scan that replaces the map another
one collects into or saves from; errors that are dropped (a nested
`GetFileList`, a failed put, a second `InitDB`); death between two puts; requests
that *write* (a GET evicts records, or puts back an old one) beside scans; a walk
over listings that change under it; keys that clash, as `/` becomes `_`; tokens
read, refreshed and written back by several goroutines; unsynced writes; a login
that polls a code the phone may never confirm; name spaces that elements declare
and undo, in a decoder that stops and resumes inside them and in one encoder that
writes all responses of a walk; pids that are reused, and a SIGKILL that is not
waited for. `PROJECT.json` lists
each under `hazards` at its line with the properties that cover it.

**What makes each component correct.**

* Scan: whatever overlaps, fails or dies, a file that a listing shows has a
  record; records are where their readers look for them; a scan that met no
  disturbance leaves a complete catalogue; scans end; the catalogue catches up.
* Play info: the link is that of the file asked for; what requests take away
  comes back.
* PROPFIND: the answer is the subtree to the depth asked for, connected and
  complete, under the status that was sent; a client that follows an href comes
  to the item; a walk ends.
* Properties and XML: a body is read as it is meant, however its names are
  spelled; the answer, read again, tells of each property asked for; what one
  response declares does not reach the next.
* QR login: no token without a confirmation; a decided login ends.
* Token: an account stays logged in; a token handed out is on the disk; calls
  return; an expired token does not stay.
* Commands: one process uses the database; the file `pid` names the server, or nothing.

## 2. The modules

```
FileDB - DriveCatalog - DriveScan - DriveScanProps - DriveScanProofs, MCDriveScan
                        DriveScanProps and WebdavService refine Catalogue
DriveCatalog - WebPath - PlayInfo, Propfind
DriveScanProps + PlayInfo + Propfind - WebdavService - WebdavProofs, MCWebdavService
QRLogin - TokenStore - TokenStoreProofs, MCTokenStore
Lifecycle - LifecycleProofs, MCLifecycle
XMLText - XMLRawTokens - XMLDecoder
XMLText - XMLEncoder - DavTypes - DavWriter - PropRequest - PropRequestProofs
XMLDecoder + DavTypes - DavReader
PropRequest + DavReader - PropRequestProps - MCPropRequest
```

(each extended by those after it). The proofs:

```
DriveScanProofs + Counting    - ListingProofs
ListingProofs + WebdavService - WebdavProofs - WalkProofs
```

* **FileDB**: LevelDB as a partial function; put, delete, lookup.
* **DriveCatalog**: the drive behind the API (`drive`, one of `Trees`), and the
  catalogue: `cache` holds what `makePathKey` keys name (a file's record or a
  folder's listing, one family, because the code gives them the same keys) and
  `index` the entries under `index_`. `faults` counts disturbances.
* **DriveScan**: one goroutine for the scan of `main`, one for the ticker. `pc`,
  `stack` (the recursion of `GetFileList`), `job` (the locals of an append and
  of `SaveFile`), the heap `maps` and the reference `filesMapData`.
* **DriveScanProps**: what a scan promises, the inductive invariant, and what the
  theorems ask of the drives: `ProperTree`, `FolderKeysApart`, and over the places
  `Reach(at)` that the drives' ids can come to, `FilesApart`, `FoundApart`, `KindsStay`.
* **Catalogue**: the abstract specification of the catalogue: a key is stored, a
  listing is published in one step when all files it names are stored, or a reader
  evicts a key it is able to (`Evictable`). It knows no map, recursion, page, goroutine
  or request. The refinement mapping: `stored` is the set of keys in `cache`, `shown`
  the keys of the files of each listing there; every other step stutters.
  `ImplementsCatalogue` in `DriveScanProps` says it of the scans, with nothing
  evictable, `ServiceImplementsCatalogue` in `WebdavService` of scans and requests
  together, where the keys of the paths that GETs ask for are (`Removable`).
* **WebPath**: a request's URL to the path of an item, by the rules of GET and by those
  of PROPFIND, which differ for `/root`, and an item's path to its href.
* **PlayInfo**: `handleGetHeadPost` and `GetPlayInfo`: `Lookup`, then
  `RemoveFile` and `RemoveListIndexData`, or `FileDownloadURL` and `UpdateFile`. Any
  error of the lookup (`LookupFails`) is taken for a missing record.
* **Propfind**: `handlePropfind`, `walkFS` as an explicit stack of loops, and
  `multistatusWriter` as the order of first write and status.
* **WebdavService**: the three together over one catalogue, with the death of
  the process and changes of the drive.
* **QRLogin**: `LoginQRCode`, its polls and the status it has been told, the
  code as the API has it, and the phone: scan, confirm, or let the code lapse.
* **TokenStore**: with `QRLogin` inside it, `Auth`, `GetDefaultAccessToken`,
  `GetAccessToken`, `RefreshToken`, `SaveAccessToken`; what LevelDB has synced. A
  refresh may fail, and its answer may be lost when the API has issued a token already.
* **Lifecycle**: `main`, `GetRunStatus`, `StopServer`, `StartServer`,
  `GracefulHttp`, `InitDB`, run by several invocations. The file `pid` is emptied, then
  written, and both may fail; it is read in the directory of the program and removed
  from the one a command is run in, so that a removal may or may not meet it (`Unlink`).
* **XMLText**: characters, names, tokens and the escapes that both directions share.
* **XMLRawTokens**, **XMLDecoder**: characters to raw tokens, and raw tokens to tokens with
  name spaces; `d` holds the rest of the input, the stack and the prefixes in force.
  `pushEOF` lets `UnmarshalXML` read to the end of its element and no further.
* **XMLEncoder**: the printer: start and end tags, the prefixes and default name
  spaces they declare, and the stack that undoes them.
* **DavTypes**: the Go structs with their tags, and `getTypeInfo` over them.
* **DavReader**: `unmarshal` into these types, the three `UnmarshalXML` methods,
  `readPropfind`, `readLockInfo`, `readProppatch`.
* **DavWriter**: the live properties of an item, `props`, `propnames`, `allprop`,
  `marshalValue` as far as a response is deep (`marshalResponse`, `marshalPropstat`,
  `marshalField`, `marshalSimple`), and `multistatusWriter`. Nothing in it is recursive.
* **PropRequest**: a request: `ReadBody`, a `Respond` for each item, `Close`. What a
  reader makes of a body is the constant `Reading`: the runs give it `ReadText` of
  `DavReader`, and the theorems are about any.
* **PropRequestProps**: what a client may rely on. The reference it is checked against
  is a tree of elements that is independent of the decoder: `Spell` writes it with any
  prefixes and declarations, `Meaning` says what it means.

| code | model |
|---|---|
| `FilesMapData = make(...)` `list.go:12` | `ListAllFile`: a map nobody refers to |
| `aliyundrive_open` `File`, `list.go:22-36` | `FetchDir`, or `CallFails` |
| `FileList` with its marker, `list.go:48-66` | `FileList`, one page an action |
| `FilesMapData[k] = append(...)`, `list.go:73` | `LoadSlice`, `StoreSlice` |
| `GetFileList(nItem, "")`, `list.go:78` | the push in `StoreSlice`, the pop in `EndPage` or `ReturnError` |
| the range, the saves and the listing of `SaveFile`, `file.go:36-66` | `NextKey`, `PutItem`, `PutListing`, `EndRange` |
| `GetPlayInfo`, `file.go:170-221` | `PlayInfo` |
| `handlePropfind`, `walkFS`, `webdav.go:79-199` | `FindEntry` ... `EndWalk` |
| the response is committed by the first write, `xml.go` | `Commit` |
| `GetAccessToken`, `user.go:57-85` | `GetAccessToken`, then `RefreshToken` or not, `SaveDefaultDriveId`, `SaveAccessToken` |
| the polling loop, `auth.go:108-135` | `Poll`, `CheckQrCodeStatus`, `Leaves` |
| `readPropfind`, `xml.go:152-179` | `ReadBody`, `readPropfind`, `unmarshal` |
| `Decoder.Token`, `internal/xml/xml.go:272-325` | `Token`, with `Advance` and `Accept` |
| `multistatusWriter.write`, `makePropstatResponse` | `Respond`, `write`, `marshalResponse` |
| `StopServer`, `main.go:117-150` | `ReadPid`, `PidExists`, `Kill`, `Unlink` |
| `os.WriteFile`, `main.go:210` | `TruncatePid`, `WritePid` |

`PROJECT.json` `map` has the lines of every definition. Definitions marked
*faulty* are plausible slips beside the definition they would replace; no
specification uses them. Each property is known to fail under one of them.

## 3. The abstractions

* **Steps.** An action makes at most one access to what goroutines or processes
  share: a call of LevelDB or of the API, the load or the store of the shared
  map, a look at the pid file or the process table. What lies between is local.
  One exception: `PutListing` has the lookup of the folder's entry in the same
  step as the put of the listing. The code looks that entry up under a key that
  has been through `makePathKey` twice (`file.go:61`); the refresh it is meant to
  make happens only if an entry has that very key.
* **Strings.** A name is a sequence of words, cut where it has a `_`; a path is a
  sequence of names. `makePathKey` is then concatenation behind a prefix, and
  two paths have one key exactly when they have in the code, as long as words
  have no `/` in them.
* **The map.** `FilesMapData` is a reference into a heap of one map more than
  there are scanners; maps nobody refers to are collected (so that a value never
  depends on a dead map). A death of the process, by SIGKILL, a power loss or Go's
  abort at "concurrent map writes", is `Crash` (`ServiceCrash`), possible anywhere; no line of
  the program performs it, so the map of `PROJECT.json` has it as external.
* **Slices** are values: of two overlapping appends one is lost. In the code a slice of
  three items or more may have room in its backing array, and the second append then
  overwrites the element of the first in place, also under a slice that the other
  goroutine is already saving. This needs a folder with several items and two scans that
  collect at once. What is said of overlapping scans (`ListedFileIsStored`, `NoScanListsTwice`,
  the refinement of `Catalogue`) is proved for slices that are values; the run `ScanOverlap` has
  folders with one item, where the two agree. Where scans do not overlap they agree too.
* **Keys.** `makePathKey` prefixes the drive's id, which it reads each time; where
  that read fails the key has no prefix (`file.go:237-240`). Keys are made here when
  a token is stored, which has written the id, and the read of the id does not fail.
* **Ranges.** `range` over a map that grows visits the keys it had, and may visit
  those that came later (`due` and `done`).
* **The drive** is one of a few trees; pages are sets of items, in any order.
* **Tokens** are the numbers of their issue; the older one expires first. Where
  `Rotates` is TRUE the API takes only the newest refresh token. Nothing in the
  code says which it is, so both are checked. A *setup* says who needs the token,
  whether it rotates, and how many logins and expiries there are.
* **URLs** are sequences of names with or without a slash at the end.
* **XML.** A text is a sequence of characters, where a run of letters that nothing
  tells apart is one: `prop`, `x9`. The decoder and the printer are records that the
  operators of the same names as the methods take and return. Reading a body is one
  action and so is each response: nothing else sees their intermediate states.
  The tables of Unicode are one legal and one illegal character; all errors of the
  decoder are one, as all callers treat them alike. Comments, processing
  instructions and directives are read and dropped.
* **The disk.** `survivors` are the tokens that a power cut may leave: the one that
  a synced write has taken there last, and each that was written since, as the log
  may be cut behind any of them.
* **Left out**: the digits of time stamps, sizes and ETags, the link and its expiry,
  logs, the JSON dumps of `deBug`, the picture of the QR code, headers.

Bounds: `MaxFaults` (API errors, failed writes, drive changes, deaths),
`MaxGets`, `MaxWalks`, a setup's `logins`, `expiries` and `cuts`, `MaxRuns`,
`MaxForeign`, and the finite sets of URLs and of requests with a body. They bound
what the environment does, never what the code does: scans go on for ever, and so do
calls of `GetDefaultAccessToken`.

## 4. The runs

Runs that pass:

| run | asks | instance and why it is enough |
|---|---|---|
| ScanAlone | does one scanner leave a complete catalogue, end, and catch up? | four trees (a file replaced, a folder gone, emptied), two disturbances of any kind at any step, pages of one item, so that markers, rescans and errors in a second page occur |
| ScanOverlap | does a file that a listing shows have a record, is it filed right, is it listed at most once per scan, does the catalogue catch up, and does all this implement `Catalogue`? | both scanners, a folder with a file, one disturbance: every interleaving of the map's replacement, loads, stores, ranges and puts; the instance of the proofs |
| GetRecovers | do links lead to the file asked for, do records come back? | two GETs, with and without `root` in the URL, beside the ticker; a folder becomes a file or a file a folder, so that a listing and a file's record compete for one key; one disturbance, which may be the read of a record |
| ServiceTogether | what may a walk show while a GET evicts a folder and scans go on, and do all of them together implement `Catalogue`? | one PROPFIND of depth 1, infinite or invalid, one GET of the folder, a file replaced in place, one disturbance |
| PropfindComplete | is a 207 the whole subtree, do scans and GETs keep a whole catalogue whole at every moment, do the hrefs lead back, and what if two folders share a key? | three drives: a scanned one of three levels, a scanned one with a folder called `root`, and one with `a_x` beside `a/x` that is being scanned; depths 1, infinite and invalid, from `/`, `/root`, `/root/` and below; one goroutine's scans and one GET, of a file or of one that is not there, under way. GETs of folders, and two scans that overlap, which the code does not keep out, make it false (section 7) |
| TokenUse | is a single account ever locked out, is a token it uses durable, do late write-backs keep an expired token alive, do calls and logins end? | three setups: one user, rotating, two logins, three expiries, two power cuts or failed calls; two users, not rotating, one login, three expiries and two such disturbances, so that several unsynced tokens may survive a cut; and three users, not rotating, one login, two expiries, so that a user can hold a token that is two issues old; a code that is confirmed, lapses, or is ignored |
| PropAnswers | is a body read as it is meant, and does the answer tell what was asked? | 717 requests: every pair of seven spellings of a name under three roots, every pair of flags, odd bodies, malformed texts, values with attributes, prefixes and default name spaces of their own, file names made of markup |
| CommandsOverlap | does one process use the database, does the file `pid` ever name another process than the server that runs? | four invocations of any command on three pids, one of which another program may take, in any directory |

Runs that find a violation of what the program says of itself:

* **ScanIgnoresErrors**: an API error below the root is dropped (`list.go:78`);
  `ListAllFile` returns nil, and `get` says that the directory was fetched.
* **PropfindAborts**: an empty folder has no listing, since a key of the map is
  made by an item; `GetFiles` fails on it and ends the whole walk
  (`webdav.go:182`) with 207 sent already. The siblings after it are missing.
* **GetReopens**: `get` opens the database right after it has sent SIGKILL
  (`main.go:85`); the lock may still be held, the error is dropped, and the nil
  client panics.
* **IncludeIgnored**: `handlePropfind` hands `allprop` the names of `pf.Prop` instead
  of `pf.Include` (`webdav.go:131`), while `prop.go:210` says that it returns "the
  properties named in include".

The properties, by what they relate:

* `ListedFileIsStored`, `ListedFileIsRetrievable`: listings to the records of
  their files. `SaveFile` puts the items first; the run shows that this is enough
  also when two scanners save from one map, and when the process dies between.
* `FiledUnderOwnKey`, `MapsFiled`: key to content, in the database and in every
  map. The key of the map is not the key of the database, and two goroutines
  make them.
* `ImplementsCatalogue`: every step of two scanners to a step of the abstract
  catalogue, which has neither a half-written folder nor a deletion.
* `NoScanListsTwice`: a listing has an item at most once per scanner.
* `UndisturbedScanIsComplete`, `SuccessMeansComplete`: the result of
  `ListAllFile` to the drive and the catalogue. With two scanners the map can
  lose an append; see section 7.
* `EventuallyCurrent`, `EventuallyServed`: once disturbances (and requests) are
  over, the catalogue is right for good, including under the stale write-backs
  and evictions of GETs.
* `RedirectMatchesRequest`: the link of a GET to its path, while the record
  changes between lookup and answer.
* `ShownFileIsStored`, `ShownTreeIsConnected`, `StatusMatchesBody`,
  `WalkShowsSubtree`: the answer of a PROPFIND to the catalogue, to itself, to
  its status and to the drive.
* `CatalogueStaysWhole`: the catalogue to the drive while a scan that has begun
  with an empty map writes one record after another, and GETs take records away and put
  old ones back; as long as scans do not overlap and no GET asks for a folder.
* `HrefsLeadBack`: the href of an item, resolved by a client and mapped to a path
  by GET, to the item.
* `StaysLoggedIn`, `UsedTokenIsDurable`, `EventuallyFresh`: the token in a
  goroutine's hands to the one the API takes, to the disk, and to the stored one.
* `GrantNeedsConfirmation`, `LoginEnds`: the login to the phone.
* `BodyIsUnderstood`: what is read from a text to what the document it spells means.
* `AnswersTheAsked`: the answer, decoded again, to the body and the item. Of an
  `allprop` the names of an `include` may be told or not, as `prop.go:210` asks for them and
  the program leaves them out (`IncludeIgnored`).
* `ResponsesLeaveNoTrace`: the state of the encoder after a response to that before.
* `OneUsesTheDatabase`, `NoOtherIsNamed`: the process that serves to the lock
  and to the file `pid`.

Deadlock is checked everywhere but in the runs of `Lifecycle`, where all
invocations may be over, and of `PropRequest`, where the request ends.

## 5. Fairness

Weak fairness of each goroutine's own steps: `Step(s)` of a scanner, `GetStep` and
`WalkStep` of a request that has begun, `UserStep` of a user of the token,
`LoginStep` of the command `login`, which polls every second. The
Go scheduler runs every goroutine that can run, none waits for another, and a
call of the API ends, with an error after 30 seconds at the latest (`ali_driver/http.go:16`, and
the vendored client likewise). For the ticker
it includes beginning the next scan, since `tasks/list.go` ticks for as long as
the process lives; for the scan of main, its only one.
Nothing is assumed of the environment: no request has to come, no drive to
change, no call to fail, no token to expire, no phone to confirm or a code to lapse.
`Lifecycle` has no fairness, since a user may stop typing commands, and `PropRequest`
none, as its runs are finite; no liveness is claimed of them.

Liveness such as `EventuallyCurrent` is about what holds when the bounded
disturbances are over. It needs a scan after the last disturbance; the ticker
gives one.

## 6. The proofs

`DriveScanProofs`, for any set of trees, any finite number of scanners, any page
size and any number of disturbances:

* `TypeCorrect`: `Spec => []TypeOK`. `TypeOK` is inductive: besides the types it
  says that a goroutine has calls of `GetFileList` open exactly while its `pc` is
  in one, and holds a map exactly while it appends or saves. One lemma per action
  (`TypeFetchDir`, `TypeLoadSlice`, ...), joined in `TypeStep`.
* `ListedFilesAreStored`, assuming that LevelDB accepts every write
  (`~PutMayFail`): `Spec => []ListedFileIsStored`. The property is not
  inductive, since `PutListing` writes a whole listing at once. The
  strengthening is `SavedSoFar`: of the slice a goroutine is saving, the items
  before the present position are stored, whatever the others do in the
  meantime (nothing in `DriveScan` deletes). Without the assumption it is false,
  as `file.go:44` goes on after a failed put.
* `RecordsAreFiled`: `Spec => []FiledUnderOwnKey`, failed writes included. The
  strengthening is `MapsFiled`, over every map in the heap and every slice in a
  goroutine's hands: a folder's key in the map, sent through `makePathKey`, is
  the key of its items' folder. `ListingKey` and `ParentOfItem` are the facts
  about keys it rests on.
* `CatalogueIsImplemented`, assuming `~PutMayFail`: `Spec => ImplementsCatalogue`. The
  initial states map to the initial state; a put of a file is a `Store`, a put of a
  listing a `Publish`, whose guard is what `SavedSoFar` says of the whole slice; the
  rest leaves `cache` alone. A folder's listing and a file may share a key, so
  that a `Store` can take a listing away.

`SavedItemsStay` and `SlicesAreFiled` state the two strengthenings, `SavedSoFar` and
`MapsFiled`, as theorems: runs check them too.

`ListingProofs`: `UndisturbedComplete`, `Spec => []UndisturbedScanIsComplete`, for
one goroutine (`OneScanner`) and drives that are `ProperDrives`: each a `ProperTree`
(what a file API promises: ids are unique, every item is in a folder of the drive, no
folder is below itself) whose folders' keys are no other item's
(`FolderKeysApart`). One goroutine and apart keys are needed, as the table of section 7 shows. The invariant
`Undisturbed` has a part for each thing the scan has yet to do: a folder is finished, or
is open with the pages it has read in the map, or waits in a page below one that is;
a map's slice is the items so far, each once; a finished folder's slice is whole;
a key that `saveListIndexDataToDB` has passed has its listing, whole, in the catalogue.

In the same module, for any number of goroutines, pages, errors, crashes and changes of
the drive:

* `ListedFilesAreRetrievable`: `Spec => []ListedFileIsRetrievable`, assuming
  `~PutMayFail`, `Reach(at)` and `FilesApart(at)`. A goroutine carries path, folder
  and parent id apart, and the drive may be rearranged between two pages, so that an item
  can be filed under a path that no tree has; `at` is any set of pairs of item and
  path that is closed under that, and the invariant `AllAt(at)` says that all that is
  carried, filed or stored is from it. `FilesApart(at)` asks that, of these, no
  folder has the key of a file.
* `NoScanListsItemsTwice`: `Spec => []NoScanListsTwice`, assuming `Reach(at)` and
  `FoundApart(at)`: no item comes by two folders with one key. What a goroutine's scan has
  found so far, and which goroutine put which item in which map, is in no variable; the
  invariant says that there are functions `got` and `c` (credit) that account for
  them. A slice that one append takes from the other only loses credit.

`Counting`: `Enumerated`, that a sequence without repetition that runs through a set is as
long as the set is large; `EnumeratedOnce`, that one as long as the set has no repetition;
and `LeastNumber`.

`WebdavProofs`, for any clients, walkers, URLs and depths beside any scanners, with
failed writes:

* `ServiceRecordsAreFiled`: `ServiceSpec => []FiledUnderOwnKey`, and
  `RedirectsMatch`: `ServiceSpec => []RedirectMatchesRequest`. GETs write too, so the
  invariant of the scan is not enough: `ServiceInv` adds `FileInHand` (the record a GET
  holds, or has answered with, has the key of the path asked for) and `Unanswered`.
  The lemmas of `DriveScanProofs` are used again for the steps of scans.
* `AnswersAreConnected`: `ServiceSpec => []ShownTreeIsConnected`. Nothing is
  known of the listings a walk meets but their types, so the strengthening is about
  what the walk carries: `WalkInv` says that each item that waits in a loop
  belongs below a folder that was shown, that a loop is entered only where the
  depth allows it, and that the folder to open next was shown. `WalkVisit` and
  `ConnectedAppend` are the steps that all visits share.
* `StatusIsOfTheBody`: `ServiceSpec => []StatusMatchesBody`, from `WalkInv` and
  `CommittedShows`; `FaultsGrow` says that a failed write is not forgotten.
* `ServiceTypesHold`: `ServiceSpec => []ServiceTypeOK`.
* `ServiceIsACatalogue`, assuming `~PutMayFail`: `ServiceSpec => ServiceImplementsCatalogue`.
  The steps of scans are those of `CatalogueIsImplemented`, but that a file may have been
  evicted since the goroutine saved it, so that the strengthening is `Saved(Removable)`.
  The steps of a GET are an `Evict` of the key it asked for (`AskedPath`: what it carries
  through its calls is one of `GetUrls`), or a `Store` of the old record; a walk stutters.
* `ListingsAreHonest`: `ServiceImplementsCatalogue => []Served!Honest`, from the abstract
  specification alone: what is proved about `Catalogue` is true of the program.

and, over drives that do not turn a file's id into a folder's (`KindsStay`):

* `ShownFilesAreStored`: `ServiceSpec => []ShownFileIsStored`, assuming `~PutMayFail`.
  The property binds what a walk has answered to the catalogue of a later moment; the
  invariant adds what a walk carries but has not shown, and what a scan holds.
* `HrefsAreFollowed`: `ServiceSpec => []HrefsLeadBack`. All that a walk shows was found
  with its parent's path (`AllAt(Anywhere)`), and the walk is connected, so that an href
  is the path from the request's item down. Induction along the answer is by the least
  position that would be wrong (`LeastNumber`).

`WalkProofs`, for any number of goroutines that scan beside any number of requests, is
about the time in which nothing has been disturbed, on drives in which no two items have
one key, and which are then each a `ProperTree` (`ProperIfApart`). It starts from `OverWhole`: a
process begins over a catalogue that is `Whole`, as `UndisturbedComplete` says that a scan leaves
the listings. Without that, the first scan is not over and nothing is whole. What it asks
of the goroutines and of the clients stands in the theorems as conditions on the
behaviour, since **nothing in the code sees to it**:

| condition | at every moment | where the program breaks it |
|---|---|---|
| `ScansApart` | at most one goroutine is in a scan | the scan of `main` (`main.go:54`) lasts until the ticker's begins |
| `OnlyFilesAsked` | no GET under way asks for what has a folder's key | any client may GET a folder (`file.go:183-188`) |
| `OwnPathsAsked` | the path of a PROPFIND under way is not another one with an item's key | any client may ask for `/a_e` beside `/a/e` |
| `NoFolderEmpty` | every folder holds something | `PropfindAborts` |

They are needed: section 7 has what happens without each of them.

* `CatalogueIsKeptWhole`: `OverWhole /\ [][ServiceNext]_serviceVars /\ []ScansApart /\
  []OnlyFilesAsked => []CatalogueStaysWhole`. `WholeInv` joins `Whole` and the invariant
  `ScanInv` of `UndisturbedComplete`, which the steps of requests leave alone, as they touch
  no folder's record (`ScanKept`), and which a goroutine at rest has as soon as the listings
  are complete (`AtRest`, `OthersAtRest`). A put of a listing writes what the drive
  holds in that folder (`ListingAtHand`), so that the listing is whole before and after; the
  directory that `saveListIndexDataToDB` indexes is the one on the drive (`DirsInHand`).
* `WalksShowWhatIsThere`: from the same start and with all four conditions,
  `[]WalkShowsSubtree`. The invariant
  of a walk, `Walking`, relates the items shown, those that wait in its loops and the
  folder in hand: each is below the path asked for, none is in two places, the folder of
  each is shown and entered, and of a folder that was entered all items are shown or wait.
  At the end nothing waits; a missing file with the shortest path would be in a folder that
  is not missing (`WalkingEnds`).

`TokenStoreProofs`, for any setups and bounds:

* `TokenTypeCorrect`, `GrantsAreConfirmed`: from `IInv`, which adds `RenewsHeld` and
  `LoginAlone` (no call is under way during a login).
* `OneUserStaysLoggedIn`: `Spec => []StaysLoggedIn`, and `OneUserKeepsItsToken`:
  `Spec => []UsedTokenIsDurable`. `OneInv` is about a setup with one user: it has
  the newest token in its hands, or the store has (`NewestAtHand`), and when a call
  comes to its last write, the token is stored already and the synced write of the
  drive id has taken it to the disk (`WrittenBefore`).

`LifecycleProofs`, for any pids, commands and bounds:

* `LifecycleTypeCorrect`, `DatabaseIsExclusive`: from
  `IInv == LifecycleTypeOK /\ ClientHasLock /\ StartsInTurn /\ OneUsesTheDatabase`.
  `GetRunStatus` looks neither at the client nor at the lock; `StartsInTurn` says
  that its second call in `start` is reached with both.
* `NoOtherIsFound`: `Spec => []NoOtherIsNamed`, from `IInv` and `Announced` (from before it
  listens the file names the server or nothing). That it names the server is false
  (section 7).

`PropRequestProofs`, for any requests, items with any names and types, and any reader of
bodies, so for any properties asked for, in any name spaces:

* `NoResponseLeavesATrace`: `Spec => []ResponsesLeaveNoTrace`. `RequestInv` says what the
  encoder is in each phase: `Printer` before the first response, after a response what
  `writeHeader` has made of it but for the text, and at the end `Printer` but for the
  text. That a response keeps it goes up from the tags: `StartOpens` has all that a start
  tag changes (the two entries on the stack of prefixes, the default name space, the open
  element), `EndCloses` that the end tag of that element takes back just that. A value, a
  field, a propstat and a response (`SimpleValueLeavesNoTrace`,
  `FieldLeavesNoTrace`, `PropstatLeavesNoTrace`, `ResponseLeavesNoTrace`) are such tags
  around what leaves no trace; the elements of a field's path that `setParents` opens are
  followed from field to field (`ParentEntered`, `ParentLeft`), and a list of values by
  induction on its length, over a set of numbers instead of a predicate (`Inductive`). `StartHasAName` and
  `PropstatsAreFilled` show that no tag and no response is refused, so that no answer
  ends in an error. `EndOfAnswer` is the tag that ends it.
* `PropTypesHold`: `Spec => []PropTypeOK`, from the same invariant.

TLC has found `RequestInv` to hold in all states of `PropAnswers`.

The assumptions on constants are `CatalogAssumption`, `ScanAssumption`,
`GetAssumption`, `WalkAssumption`, `TokenAssumption`, `LoginAssumption`,
`LifecycleAssumption` and `RequestAssumption`: types, finite sets of scanners and users,
that URLs are URLs, that no node has the root's id, that the names a reader gives are a
list; `NameAssumption`, that a name is no path; `TypesAreLegal`, that no two fields of a
Go struct conflict. TLC evaluates them in every run, and so it does the hypotheses of the theorems that are about
the drives, for the drives of the runs: `DrivesAreProper` and `PlacesAreApart` in
`MCDriveScan`, `DrivesKeepKinds` and `DrivesAreBrowsable` in `MCWebdavService`. The states
that `PropfindComplete` starts from are `OverWhole`, but that of the drive with a clash, and
its specification has the conditions `ScansApart` and `OnlyFilesAsked` in the next-state relation. The conjuncts of the inductive
invariant of `DriveScan` are invariants of `ScanOverlap`.

Only model-checked: every liveness property, as the prover has no fairness;
and `BodyIsUnderstood` and `AnswersTheAsked`, which say what the decoder makes of a text:
it is recursive, as the elements it reads are.

## 7. What does not hold

Statements that are written down in the modules, or are the ones above with an
assumption taken away, and that the code does not satisfy. Each is reproduced
by the constants given, on top of those of the run named.

| statement | constants | what happens |
|---|---|---|
| `EventuallyForgotten` | ScanAlone with `Trees <- Emptied`, `MaxFaults = 1` | an emptied folder has no key in the map, so its old listing is never replaced (`file.go:51`) |
| `UndisturbedScanIsComplete` | ScanIgnoresErrors with two scanners | two appends load one slice and one of them is lost (`list.go:73`); the next scan repairs it (`EventuallyCurrent`) |
| `UndisturbedScanIsComplete` | ScanIgnoresErrors with `Trees <- OneClash` | the file `a_x` and the folder `a/x` have one key (`file.go:236`) |
| `ListedFileIsStored` with failed writes | ScanOverlap with `PutMayFail = TRUE` | a failed put is logged, and the listing written (`file.go:44`) |
| `ListedFileIsStored` with GETs | ServiceTogether, `GetUrls <- AandX`, `Walkers = {}` | a GET misses the record, `SaveFile` stores it, the GET deletes it (`file.go:176-180`) |
| `GetKeepsCatalogue` | the same | a GET of a folder deletes its listing and its entry (`file.go:183-188`), until the next scan |
| `CatalogueStaysWhole` with scans that overlap | PropfindComplete with `ScannedSpec` and two scanners | two scans append to one map, and a listing shows an item twice (`list.go:12`, `list.go:73`), until the next scan |
| `CatalogueStaysWhole` with GETs of folders | PropfindComplete with `ScannedSpec`, `GetUrls <- AandX` | the GET deletes the folder's listing (`file.go:183-188`), until the next scan |
| `WalkShowsSubtree` of a path with another's key | PropfindComplete with `WalkUrls <- JustAE` | `/a_e`, which is not there, is answered with the entry of the folder `a/e`, under the path `/a_e`, and with its items (`file.go:236`) |
| `WalkShowsSubtree` while the first scan goes on | PropfindComplete with `ServiceSpec` | the listing of a folder is there before those of the folders in it, and the walk is given up (`webdav.go:182`) |
| `HrefsLeadBack` without its exemption | PropfindComplete | the items of a folder `root` in the drive's root have hrefs that GET takes for those of the drive's root (`webdav.go:56`) |
| `LoginSurvives` | TokenUse | the machine stops after "登录成功" (`main.go:76`); the token was not synced (`user.go:39`) |
| `LoginGivesUp` | TokenUse with `ExpiryIsError = FALSE` | if the API reports a lapsed code as a status, not as an error, it is polled for ever (`auth.go:112`) |
| `StaysLoggedIn` without `Cardinality(Users) = 1` | TokenUse with `Setups <- JustPaired` | two goroutines refresh with one token; or one writes back an old one (`user.go:76-82`) |
| `UsedTokenIsDurable`, likewise | the same | a token written last was not synced |
| `AnyValueIsKept` | PropAnswers | a value that has an element with its property's own name is refused with 400 (`webdav/xml.go:402`) |
| `OthersAreLeftAlone` as an invariant | CommandsOverlap with `Commands <- StartStop` | `stop` kills the program that has got the server's old pid (`main.go:132`) |
| `ServerIsFindable` | CommandsOverlap with `Commands <- StartStop`, `Pids = {1, 2}`, `MaxForeign = 0` | a `stop` that found no server removes the file `pid` a moment later (`main.go:144`); if a `start` has written it in between, the server runs and neither `stop` nor `status` finds it: both run in the program's directory, as they ordinarily are |

The first, and those about keys and GETs, are the behaviour of the code under
ordinary use; no document of the program promises otherwise, so they are
recorded here and not as findings. So are these, which the models of the XML
show and the statements above take as they are: the hrefs of files are relative to
the URL of the request, without a slash before them (`webdav.go:139-143`); a property
whose name is empty is written as `_ignored_`; the elements of a lock body are taken
in any name space; only the first element of a body is read; an empty `prop`
after one with names is accepted.

## 8. What is not modelled

* The token of a second account: `TokenStore` has one drive, and a login with
  another account would move the drive id first. `BeginLogin` is taken when no
  call is under way, since `login` is a command of its own.
* Of `internal/xml`: parsing that is not strict and `autoClose`, embedded
  structs, `TextMarshaler`, numbers as values, comments and directives that are
  written, `Indent`. Nothing in `src/webdav` uses them.
* In `PropRequest`, a client that hangs up: `Propfind` has it (`WriteFails`).
* `readLockInfo` and `readProppatch` are modelled, but no handler calls them.
* `SetBool`, `GetBool`, `Close` of the store: nothing calls them.
* `http.go`, and the search for the program's directory: configuration.
* Signals but SIGINT and SIGKILL: nothing in `main.go` handles them.
* Vendored code and the API: external, as used by the code under `src/`.

## 9. Plan

Done: the catalogue with its abstract specification, the scan, GET, PROPFIND with
its URLs, bodies and answers, the service, the login, the token, the commands, the
XML, with the theorems above. What is left, in this order:

1. A second account in `TokenStore`.
2. `PropRequest` over the walks of `Propfind`, instead of a list of items.

## 10. How to run it

`tlc -config ScanOverlap.cfg MCDriveScan` and so on; `PROJECT.json` `runs` names
the module of each configuration. `tlapm` checks the proofs of the modules named
`...Proofs` and of `Counting`. The largest run takes about two and a half minutes, the
longest proof (`ListingProofs`) about seven minutes, `PropRequestProofs` about two.
