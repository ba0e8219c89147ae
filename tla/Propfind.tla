------------------------------ MODULE Propfind ------------------------------
(***************************************************************************)
(* PROPFIND: handlePropfind and walkFS (webdav/webdav.go) over GetFiles    *)
(* and GetListIndexData (ali_driver/file.go), with the order in which the  *)
(* multistatusWriter (webdav/xml.go) commits the response.  Each lookup in *)
(* LevelDB is a step: scans and other requests run between two of them.    *)
(***************************************************************************)
EXTENDS WebPath, Integers

CONSTANTS
    Walkers,      \* the PROPFIND requests that can be open at a time
    WalkUrls,     \* the URLs they ask for
    Depths,       \* the values of the Depth header
    MaxWalks      \* bound on the requests

Infinite == -1    \* infiniteDepth, also without the header
Invalid  == -2    \* invalidDepth

ASSUME WalkAssumption ==
    /\ MaxWalks \in Nat
    /\ \A u \in WalkUrls : IsUrl(u)
    /\ Depths \subseteq {0, 1, Infinite, Invalid}

VARIABLES
    walks,      \* how many requests there have been
    walkPc,     \* where each request is
    walkPath,   \* the path it asks for
    walkDepth,  \* its depth
    walkInfo,   \* the directory entry found for it
    calls,      \* its calls of walkFS that wait in the loop, the innermost last
    shown,      \* the files written to the multistatus response, in order
    status      \* the status of the response, 0 until it is committed

walkVars == <<walks, walkPc, walkPath, walkDepth, walkInfo, calls, shown, status>>

(* A call of walkFS in its loop: the items not yet visited and the depth   *)
(* it passes on.                                                           *)
Loop(list, depth) == [list |-> list, depth |-> depth]

WalkInit ==
    /\ walks = 0
    /\ walkPc = [w \in Walkers |-> "idle"]
    /\ walkPath = [w \in Walkers |-> <<RootName>>]
    /\ walkDepth = [w \in Walkers |-> 0]
    /\ walkInfo = [w \in Walkers |-> RootDir]
    /\ calls = [w \in Walkers |-> << >>]
    /\ shown = [w \in Walkers |-> << >>]
    /\ status = [w \in Walkers |-> 0]

WalkGoto(w, label) == walkPc' = [walkPc EXCEPT ![w] = label]

(* The first status written is the one sent; echo drops the others.        *)
LastCommitWins(w, code) == status' = [status EXCEPT ![w] = code]  \* faulty
Commit(w, code) ==
    status' = IF status[w] = 0 THEN [status EXCEPT ![w] = code] ELSE status

BeginPropfind(w) ==
    /\ walkPc[w] = "idle"
    /\ walks < MaxWalks
    /\ walks' = walks + 1
    /\ \E u \in WalkUrls : walkPath' = [walkPath EXCEPT ![w] = PropfindPath(u)]
    /\ \E d \in Depths : walkDepth' = [walkDepth EXCEPT ![w] = d]
    /\ walkInfo' = [walkInfo EXCEPT ![w] = RootDir]
    /\ calls' = [calls EXCEPT ![w] = << >>]
    /\ shown' = [shown EXCEPT ![w] = << >>]
    /\ status' = [status EXCEPT ![w] = 0]
    /\ WalkGoto(w, "depth")
    /\ UNCHANGED catalogVars

(* The Depth header; then GetListIndexData, or 404.                        *)
FindEntry(w) ==
    /\ walkPc[w] = "depth"
    /\ LET key == makePathKey(walkPath[w]) IN
       \/ /\ walkDepth[w] = Invalid
          /\ Commit(w, 400)
          /\ WalkGoto(w, "idle")
          /\ UNCHANGED walkInfo
       \/ /\ walkDepth[w] # Invalid /\ ~Has(index, key)
          /\ Commit(w, 404)
          /\ WalkGoto(w, "idle")
          /\ UNCHANGED walkInfo
       \/ /\ walkDepth[w] # Invalid /\ Has(index, key)
          /\ walkInfo' = [walkInfo EXCEPT ![w] = index[key]]
          /\ WalkGoto(w, "body")
          /\ UNCHANGED status
    /\ UNCHANGED <<catalogVars, walks, walkPath, walkDepth, calls, shown>>

(* readPropfind: a body that does not parse is refused.                    *)
BadBody(w) ==
    /\ walkPc[w] = "body"
    /\ Commit(w, 400)
    /\ WalkGoto(w, "idle")
    /\ UNCHANGED <<catalogVars, walks, walkPath, walkDepth, walkInfo, calls, shown>>

(* walkFn writes a response for the file: the first commits status 207.    *)
(* A folder is opened unless the depth is used up.                         *)
Visit(w, file, depth) ==
    /\ shown' = [shown EXCEPT ![w] = Append(@, file)]
    /\ Commit(w, 207)
    /\ IF file.dir /\ depth # 0
       THEN /\ WalkGoto(w, "open")
            /\ walkInfo' = [walkInfo EXCEPT ![w] = file]
       ELSE /\ WalkGoto(w, "loop")
            /\ UNCHANGED walkInfo

(* walkFS on the entry.  The path is the one asked for.                    *)
WalkRoot(w) ==
    /\ walkPc[w] = "body"
    /\ Visit(w, [walkInfo[w] EXCEPT !.path = walkPath[w]], walkDepth[w])
    /\ UNCHANGED <<catalogVars, walks, walkPath, walkDepth, calls>>

(* Depth 1 becomes 0 for the items; infinite stays.                        *)
SameDepth(depth) == depth             \* faulty: depth 1 is passed on
ItemDepth(depth) == IF depth = 1 THEN 0 ELSE depth

(* The items get the path they are found at, whatever their record says.   *)
StoredPaths(list, path) == list       \* faulty: the paths of the records
Placed(list, path) ==
    [i \in 1 .. Len(list) |-> FileAt(list[i], Append(path, list[i].name))]

DepthHere(w) == IF calls[w] = << >> THEN walkDepth[w]
                ELSE calls[w][Len(calls[w])].depth

(* GetFiles(path): a lookup that fails, or finds a file's record, ends the *)
(* walk with an error, whatever is still to be visited.                    *)
OpenFolder(w) ==
    /\ walkPc[w] = "open"
    /\ LET key == makePathKey(walkInfo[w].path) IN
       IF Has(cache, key) /\ cache[key].kind = "list"
       THEN /\ calls' = [calls EXCEPT ![w] =
                           Append(@, Loop(Placed(cache[key].list, walkInfo[w].path),
                                          ItemDepth(DepthHere(w))))]
            /\ WalkGoto(w, "loop")
            /\ UNCHANGED status
       ELSE /\ calls' = [calls EXCEPT ![w] = << >>]
            /\ Commit(w, 500)
            /\ WalkGoto(w, "idle")
    /\ UNCHANGED <<catalogVars, walks, walkPath, walkDepth, walkInfo, shown>>

(* The next item of the innermost loop.                                    *)
NextItem(w) ==
    /\ walkPc[w] = "loop"
    /\ calls[w] # << >>
    /\ LET n    == Len(calls[w])
           loop == calls[w][n]
       IN  /\ loop.list # << >>
           /\ calls' = [calls EXCEPT ![w][n].list = Tail(@)]
           /\ Visit(w, Head(loop.list), loop.depth)
    /\ UNCHANGED <<catalogVars, walks, walkPath, walkDepth>>

(* The loop is done: back to the loop of the call that made this one.      *)
SameLoop(waiting) == waiting          \* faulty: the loop is not left
OuterLoop(waiting) == SubSeq(waiting, 1, Len(waiting) - 1)

EndLoop(w) ==
    /\ walkPc[w] = "loop"
    /\ calls[w] # << >>
    /\ calls[w][Len(calls[w])].list = << >>
    /\ calls' = [calls EXCEPT ![w] = OuterLoop(@)]
    /\ UNCHANGED <<catalogVars, walks, walkPc, walkPath, walkDepth, walkInfo,
                   shown, status>>

(* close; the 404 at the end comes after the commit.                       *)
EndWalk(w) ==
    /\ walkPc[w] = "loop"
    /\ calls[w] = << >>
    /\ Commit(w, 404)
    /\ WalkGoto(w, "idle")
    /\ UNCHANGED <<catalogVars, walks, walkPath, walkDepth, walkInfo, calls, shown>>

(* The client is gone: the write fails, after the commit, and the walk     *)
(* ends; the 500 is dropped.                                               *)
WriteFails(w) ==
    /\ \/ walkPc[w] = "body"
       \/ /\ walkPc[w] = "loop" /\ calls[w] # << >>
          /\ calls[w][Len(calls[w])].list # << >>
    /\ Fault
    /\ Commit(w, 207)
    /\ calls' = [calls EXCEPT ![w] = << >>]
    /\ WalkGoto(w, "idle")
    /\ UNCHANGED <<drive, cache, index, walks, walkPath, walkDepth, walkInfo, shown>>

WalkStep(w) ==
    \/ FindEntry(w) \/ BadBody(w) \/ WalkRoot(w) \/ OpenFolder(w)
    \/ NextItem(w) \/ EndLoop(w) \/ EndWalk(w)

WalkNext == \E w \in Walkers : BeginPropfind(w) \/ WalkStep(w) \/ WriteFails(w)

(* The process dies: its requests are dropped.                             *)
DropWalks ==
    /\ walkPc' = [w \in Walkers |-> "idle"]
    /\ calls' = [w \in Walkers |-> << >>]
    /\ shown' = [w \in Walkers |-> << >>]
    /\ status' = [w \in Walkers |-> 0]
    /\ UNCHANGED <<walks, walkPath, walkDepth, walkInfo>>

=============================================================================
