----------------------------- MODULE Lifecycle -----------------------------
(***************************************************************************)
(* The commands of main.go and what they share: the lock of the database,  *)
(* the file "pid" and the process table.  Every invocation first runs      *)
(* init, which opens the database; an error is not looked at, and then     *)
(* DataBase.Client is nil and its first use panics.  LevelDB takes the     *)
(* lock with flock, which a process that holds it cannot take again.       *)
(***************************************************************************)
EXTENDS Naturals, FiniteSets

CONSTANTS
    Pids,       \* the process ids there are
    Commands,   \* the commands that are run
    MaxRuns,    \* bound on the invocations
    MaxForeign  \* bound on the other programs that get one of the pids

ASSUME LifecycleAssumption ==
    /\ Pids \subseteq Nat \ {0}
    /\ Commands \subseteq {"start", "stop", "status", "login", "get"}
    /\ MaxRuns \in Nat /\ MaxForeign \in Nat

Absent == 0    \* no process; no file "pid", or none that gives a pid

VARIABLES
    owner,    \* who has the pid: "none", "ours" or "foreign"
    pc,       \* where the invocation is that has the pid
    cmd,      \* its command
    client,   \* whether its DataBase.Client is not nil
    seen,     \* the pid that its GetRunStatus has read
    caller,   \* the function that calls GetRunStatus
    lock,     \* the process that has the database locked, or Absent
    pidFile,  \* the pid that the file "pid" gives, or Absent
    killed,   \* the processes that SIGKILL is on its way to
    runs,     \* how many invocations there have been
    foreign   \* how many other programs there have been

proc == <<owner, pc, cmd, client, seen, caller>>
vars == <<proc, lock, pidFile, killed, runs, foreign>>

Init ==
    /\ owner = [p \in Pids |-> "none"]
    /\ pc = [p \in Pids |-> "none"]
    /\ cmd = [p \in Pids |-> "none"]
    /\ client = [p \in Pids |-> FALSE]
    /\ seen = [p \in Pids |-> Absent]
    /\ caller = [p \in Pids |-> "main"]
    /\ lock = Absent /\ pidFile = Absent /\ killed = {}
    /\ runs = 0 /\ foreign = 0

Goto(p, label) == pc' = [pc EXCEPT ![p] = label]

KeptLock(p) == lock                   \* faulty: the lock outlives the process
ReleasedLock(p) == IF lock = p THEN Absent ELSE lock

(* The process is over: its pid is free again and its lock is released.    *)
(* The file "pid" stays.                                                   *)
Gone(p) ==
    /\ owner' = [owner EXCEPT ![p] = "none"]
    /\ pc' = [pc EXCEPT ![p] = "none"]
    /\ cmd' = [cmd EXCEPT ![p] = "none"]
    /\ client' = [client EXCEPT ![p] = FALSE]
    /\ seen' = [seen EXCEPT ![p] = Absent]
    /\ caller' = [caller EXCEPT ![p] = "main"]
    /\ lock' = ReleasedLock(p)
    /\ killed' = killed \ {p}

-----------------------------------------------------------------------------

Launch(p) ==
    /\ owner[p] = "none"
    /\ runs < MaxRuns
    /\ runs' = runs + 1
    /\ owner' = [owner EXCEPT ![p] = "ours"]
    /\ \E c \in Commands :
          /\ cmd' = [cmd EXCEPT ![p] = c]
          /\ caller' = [caller EXCEPT ![p] = IF c = "stop" THEN "StopServer" ELSE "main"]
    /\ Goto(p, "init")
    /\ UNCHANGED <<client, seen, lock, pidFile, killed, foreign>>

(* InitDB opens the database if its lock is free; what it returns is not   *)
(* looked at.  After StopServer "get" calls it once more.                  *)
InitDB(p) ==
    /\ pc[p] \in {"init", "reinit"}
    /\ client' = [client EXCEPT ![p] = lock = Absent]
    /\ lock' = IF lock = Absent THEN p ELSE lock
    /\ Goto(p, IF pc[p] = "reinit" \/ cmd[p] = "login" THEN "token" ELSE "status")
    /\ UNCHANGED <<owner, cmd, seen, caller, pidFile, killed, runs, foreign>>

(* GetRunStatus, called by main, StopServer or StartServer: it reads the   *)
(* file ...                                                                *)
WhenUp(p) ==
    CASE caller[p] = "StopServer"                   -> "kill"
      [] caller[p] = "main" /\ cmd[p] = "get"       -> "status"
      [] OTHER                                      -> "up"
WhenDown(p) ==
    CASE caller[p] = "StopServer"                   -> "unlink"
      [] caller[p] = "StartServer"                  -> "write"
      [] caller[p] = "main" /\ cmd[p] = "status"    -> "down"
      [] OTHER                                      -> "token"

ReadPid(p) ==
    /\ pc[p] = "status"
    /\ seen' = [seen EXCEPT ![p] = pidFile]
    /\ Goto(p, IF pidFile = Absent THEN WhenDown(p) ELSE "exists")
    /\ UNCHANGED <<owner, cmd, client, caller, lock, pidFile, killed, runs, foreign>>

(* ... and looks whether there is a process of that pid, whichever it be.  *)
(* If so, "get" calls StopServer.                                          *)
PidExists(p) ==
    /\ pc[p] = "exists"
    /\ IF owner[seen[p]] # "none"
       THEN /\ Goto(p, WhenUp(p))
            /\ caller' = IF cmd[p] = "get" THEN [caller EXCEPT ![p] = "StopServer"]
                         ELSE caller
       ELSE /\ Goto(p, WhenDown(p))
            /\ UNCHANGED caller
    /\ UNCHANGED <<owner, cmd, client, seen, lock, pidFile, killed, runs, foreign>>

(* StopServer: SIGKILL is sent, not waited for.  If that is refused (the   *)
(* process is gone, or somebody else's), or there was no process to stop,  *)
(* the file is removed.  It is looked for in the directory of the program, *)
(* and removed from the one the command is run in, which may be another;   *)
(* whoever has started a server meanwhile, it may be his.                  *)
AfterStop(p) == IF cmd[p] = "get" THEN "reinit" ELSE "over"

Kill(p) ==
    /\ pc[p] = "kill"
    /\ \/ /\ owner[seen[p]] # "none"
          /\ killed' = killed \cup {seen[p]}
          /\ Goto(p, AfterStop(p))
       \/ /\ owner[seen[p]] # "ours"
          /\ Goto(p, "unlink")
          /\ UNCHANGED killed
    /\ UNCHANGED <<owner, cmd, client, seen, caller, lock, pidFile, runs, foreign>>

Unlink(p) ==
    /\ pc[p] = "unlink"
    /\ pidFile' \in {Absent, pidFile}
    /\ Goto(p, AfterStop(p))
    /\ UNCHANGED <<owner, cmd, client, seen, caller, lock, killed, runs, foreign>>

(* The token is read, refreshed and saved, which needs the database.       *)
NilWorks(p) == FALSE                  \* faulty: a nil Client is no trouble
NilPanics(p) == ~client[p]

UseDatabase(p) ==
    /\ pc[p] = "token"
    /\ \/ /\ NilPanics(p)
          /\ Goto(p, "panic")
          /\ UNCHANGED caller
       \/ /\ ~NilPanics(p)
          /\ CASE cmd[p] = "start" -> /\ Goto(p, "status")
                                     /\ caller' = [caller EXCEPT ![p] = "StartServer"]
               [] cmd[p] = "get"   -> Goto(p, "scan") /\ UNCHANGED caller
               [] OTHER            -> Goto(p, "over") /\ UNCHANGED caller
       \/ /\ ~NilPanics(p)            \* not logged in, or no longer
          /\ Goto(p, "over")
          /\ UNCHANGED caller
    /\ UNCHANGED <<owner, cmd, client, seen, lock, pidFile, killed, runs, foreign>>

ScanIsOver(p) ==
    /\ pc[p] = "scan"
    /\ Goto(p, "over")
    /\ UNCHANGED <<owner, cmd, client, seen, caller, lock, pidFile, killed, runs, foreign>>

(* GracefulHttp: the file is emptied and written before the port is asked  *)
(* for; either may fail, and then there is no server.                      *)
TruncatePid(p) ==
    /\ pc[p] = "write"
    /\ \/ pidFile' = Absent /\ Goto(p, "writing")
       \/ Goto(p, "over") /\ UNCHANGED pidFile
    /\ UNCHANGED <<owner, cmd, client, seen, caller, lock, killed, runs, foreign>>

WritePid(p) ==
    /\ pc[p] = "writing"
    /\ \/ pidFile' = p /\ Goto(p, "listen")
       \/ Goto(p, "over") /\ UNCHANGED pidFile
    /\ UNCHANGED <<owner, cmd, client, seen, caller, lock, killed, runs, foreign>>

Listen(p) ==
    /\ pc[p] = "listen"
    /\ \/ /\ \A q \in Pids : pc[q] # "serving"
          /\ Goto(p, "serving")
       \/ Goto(p, "over")            \* the port is taken
    /\ UNCHANGED <<owner, cmd, client, seen, caller, lock, pidFile, killed, runs, foreign>>

Ending == {"up", "down", "over", "panic"}

Exit(p) ==
    /\ pc[p] \in Ending
    /\ Gone(p)
    /\ UNCHANGED <<pidFile, runs, foreign>>

(* Ctrl-C: os.Exit(0); or the server panics.                               *)
Interrupt(p) ==
    /\ pc[p] = "serving"
    /\ Gone(p)
    /\ UNCHANGED <<pidFile, runs, foreign>>

Die(p) ==
    /\ p \in killed
    /\ Gone(p)
    /\ UNCHANGED <<pidFile, runs, foreign>>

(* Other programs come and go, and are given the pids that are free.       *)
ForeignStarts(p) ==
    /\ owner[p] = "none"
    /\ foreign < MaxForeign
    /\ foreign' = foreign + 1
    /\ owner' = [owner EXCEPT ![p] = "foreign"]
    /\ UNCHANGED <<pc, cmd, client, seen, caller, lock, pidFile, killed, runs>>

ForeignEnds(p) ==
    /\ owner[p] = "foreign"
    /\ Gone(p)
    /\ UNCHANGED <<pidFile, runs, foreign>>

Run(p) ==
    \/ InitDB(p) \/ ReadPid(p) \/ PidExists(p) \/ Kill(p) \/ Unlink(p)
    \/ UseDatabase(p) \/ ScanIsOver(p)
    \/ TruncatePid(p) \/ WritePid(p) \/ Listen(p) \/ Exit(p)

Next == \E p \in Pids :
    Launch(p) \/ Run(p) \/ Interrupt(p) \/ Die(p) \/ ForeignStarts(p) \/ ForeignEnds(p)

Spec == Init /\ [][Next]_vars

-----------------------------------------------------------------------------

Serving == {p \in Pids : pc[p] = "serving"}
Labels == {"none", "init", "reinit", "status", "exists", "kill", "unlink", "token",
           "scan", "write", "writing", "listen", "serving"} \cup Ending

(* Every variable has the values the code can give it, and what is over    *)
(* holds nothing.                                                          *)
LifecycleTypeOK ==
    /\ owner \in [Pids -> {"none", "ours", "foreign"}]
    /\ pc \in [Pids -> Labels]
    /\ cmd \in [Pids -> Commands \cup {"none"}]
    /\ client \in [Pids -> BOOLEAN]
    /\ seen \in [Pids -> Pids \cup {Absent}]
    /\ caller \in [Pids -> {"main", "StopServer", "StartServer"}]
    /\ lock \in Pids \cup {Absent} /\ pidFile \in Pids \cup {Absent}
    /\ killed \subseteq Pids
    /\ runs \in 0 .. MaxRuns /\ foreign \in 0 .. MaxForeign
    /\ \A p \in Pids : owner[p] # "ours" <=> pc[p] = "none"
    /\ \A p \in Pids : client[p] => owner[p] = "ours"
    /\ lock # Absent => owner[lock] = "ours"

(* A server, and a process that scans, has the database to itself.  The    *)
(* file "pid" does not see to it, another process may read it too early:   *)
(* the lock does, and that what finds it taken dies of its nil Client.     *)
OneUsesTheDatabase ==
    \A p \in Pids : pc[p] \in {"scan", "write", "writing", "listen", "serving"} =>
        client[p] /\ lock = p

(* Where a server runs, "stop", "status" and "get" (GetRunStatus, main.go)  *)
(* find it or find nothing, and never the process of an earlier server, a  *)
(* second start or another program, whatever starts, fails to start, is    *)
(* killed or stopped meanwhile.                                            *)
NoOtherIsNamed == \A p \in Serving : pidFile \in {p, Absent}

(* "stop" and "status" find the server that runs ("GetRunStatus 获取进程状态",*)
(* main.go, "gets the status of the process").  It does not hold: a "stop" *)
(* that found no server removes the file of one that starts meanwhile.     *)
ServerIsFindable == \A p \in Serving : pidFile = p

(* "Stop 停止 Webdav" (README.md): what stop kills is the server, and no    *)
(* other program that has its old pid.                                     *)
OthersAreLeftAlone == \A p \in killed : owner[p] # "foreign"

(* "get" has the database when it comes to use it, if only a server was in *)
(* its way ("Webdav 已停止, 请采集完成后再手动启动服务", main.go, "Webdav has been *)
(* stopped, start it when the collection is complete").                    *)
GetHasDatabase ==
    \A p \in Pids : cmd[p] = "get" /\ caller[p] = "StopServer" => pc[p] # "panic"

=============================================================================
