------------------------------ MODULE PlayInfo ------------------------------
(***************************************************************************)
(* GET, HEAD and POST: handleGetHeadPost (webdav/webdav.go) answers with a *)
(* redirect to the link that GetPlayInfo (ali_driver/file.go) asks of the  *)
(* API.  GetPlayInfo is not a read: it writes the record back with the     *)
(* link, and removes what it cannot find or parse.  Each access to LevelDB *)
(* or to the API is a step; requests run in goroutines of their own.       *)
(***************************************************************************)
EXTENDS WebPath

CONSTANTS
    Clients,      \* the requests that can be open at a time
    GetUrls,      \* the URLs that are asked for
    MaxGets       \* bound on the requests

ASSUME GetAssumption ==
    /\ MaxGets \in Nat
    /\ \A u \in GetUrls : IsUrl(u)

VARIABLES
    gets,     \* how many requests there have been
    getPc,    \* where each request is
    getPath,  \* the path it asks for
    getFile,  \* the local "file" of GetPlayInfo
    getReply  \* the status it was answered with

getVars == <<gets, getPc, getPath, getFile, getReply>>

GetInit ==
    /\ gets = 0
    /\ getPc = [c \in Clients |-> "idle"]
    /\ getPath = [c \in Clients |-> <<RootName>>]
    /\ getFile = [c \in Clients |-> RootDir]
    /\ getReply = [c \in Clients |-> 0]

GetGoto(c, label) == getPc' = [getPc EXCEPT ![c] = label]

(* The request is over; the answer is kept to be looked at.                *)
Answer(c, code) ==
    /\ GetGoto(c, "idle")
    /\ getReply' = [getReply EXCEPT ![c] = code]

BeginGet(c) ==
    /\ getPc[c] = "idle"
    /\ gets < MaxGets
    /\ gets' = gets + 1
    /\ \E u \in GetUrls : getPath' = [getPath EXCEPT ![c] = GetPath(u)]
    /\ getFile' = [getFile EXCEPT ![c] = RootDir]
    /\ getReply' = [getReply EXCEPT ![c] = 0]
    /\ GetGoto(c, "lookup")
    /\ UNCHANGED catalogVars

(* The record is read; a listing does not parse as a file.                 *)
Lookup(c) ==
    /\ getPc[c] = "lookup"
    /\ LET key == makePathKey(getPath[c]) IN
       IF Has(cache, key) /\ cache[key].kind = "file"
       THEN /\ getFile' = [getFile EXCEPT ![c] = cache[key].file]
            /\ GetGoto(c, "link")
       ELSE /\ GetGoto(c, "remove")
            /\ UNCHANGED getFile
    /\ UNCHANGED <<catalogVars, gets, getPath, getReply>>

(* Any error of the read is taken for a record that is not there.          *)
LookupFails(c) ==
    /\ getPc[c] = "lookup"
    /\ Fault
    /\ GetGoto(c, "remove")
    /\ UNCHANGED <<drive, cache, index, gets, getPath, getFile, getReply>>

(* RemoveFile, then RemoveListIndexData.                                   *)
FolderToo(c) ==                       \* faulty: the listing it is in goes too
    makePathKey(SubSeq(getPath[c], 1, Len(getPath[c]) - 1))
RemovedKey(c) == makePathKey(getPath[c])

RemoveFile(c) ==
    /\ getPc[c] = "remove"
    /\ cache' = Delete(cache, RemovedKey(c))
    /\ GetGoto(c, "unindex")
    /\ UNCHANGED <<drive, index, faults, gets, getPath, getFile, getReply>>

RemoveListIndexData(c) ==
    /\ getPc[c] = "unindex"
    /\ index' = Delete(index, RemovedKey(c))
    /\ Answer(c, 404)
    /\ UNCHANGED <<drive, cache, faults, gets, getPath, getFile>>

(* The token is read and the API asked for a link to the file's id.        *)
FileDownloadURL(c) ==
    /\ getPc[c] = "link"
    /\ IF Exists(drive, getFile[c].id)
       THEN GetGoto(c, "update") /\ UNCHANGED getReply
       ELSE Answer(c, 404)
    /\ UNCHANGED <<catalogVars, gets, getPath, getFile>>

LinkFails(c) ==
    /\ getPc[c] = "link"
    /\ Fault
    /\ Answer(c, 404)
    /\ UNCHANGED <<drive, cache, index, gets, getPath, getFile>>

(* UpdateFile: the record is written back as it was read, with the link.   *)
(* An error of the write is the error of GetPlayInfo, link or no link.     *)
UpdateFile(c) ==
    /\ getPc[c] = "update"
    /\ cache' = Put(cache, makePathKey(getPath[c]), FileRecord(getFile[c]))
    /\ Answer(c, 302)
    /\ UNCHANGED <<drive, index, faults, gets, getPath, getFile>>

UpdateFails(c) ==
    /\ getPc[c] = "update"
    /\ Fault
    /\ Answer(c, 404)
    /\ UNCHANGED <<drive, cache, index, gets, getPath, getFile>>

GetStep(c) ==
    \/ Lookup(c) \/ RemoveFile(c) \/ RemoveListIndexData(c)
    \/ FileDownloadURL(c) \/ UpdateFile(c)

GetNext == \E c \in Clients :
    BeginGet(c) \/ GetStep(c) \/ LookupFails(c) \/ LinkFails(c) \/ UpdateFails(c)

(* The process dies: its requests are dropped without an answer.           *)
DropGets ==
    /\ getPc' = [c \in Clients |-> "idle"]
    /\ getReply' = [c \in Clients |-> 0]
    /\ UNCHANGED <<gets, getPath, getFile>>

=============================================================================
