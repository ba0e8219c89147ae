-------------------------- MODULE LifecycleProofs --------------------------
(***************************************************************************)
(* For any number of invocations, of processes that share the machine and  *)
(* of commands: the types of Lifecycle, and that one process at a time     *)
(* uses the database.                                                      *)
(***************************************************************************)
EXTENDS Lifecycle, TLAPS

(* What keeps the database to one process: who has a client has the lock,  *)
(* and a "start" that has come to its second GetRunStatus has both, though *)
(* GetRunStatus itself looks at neither.                                   *)
ClientHasLock == \A p \in Pids : client[p] => lock = p

StartsInTurn ==
    \A p \in Pids :
        /\ caller[p] = "StartServer" => cmd[p] = "start" /\ client[p]
        /\ pc[p] = "reinit" => cmd[p] = "get"
        /\ pc[p] = "init" => caller[p] # "StartServer"
        /\ pc[p] \in {"exists", "kill"} => seen[p] # Absent

IInv == LifecycleTypeOK /\ ClientHasLock /\ StartsInTurn /\ OneUsesTheDatabase

LEMMA InitIInv == Init => IInv
  BY LifecycleAssumption
  DEF Init, IInv, LifecycleTypeOK, ClientHasLock, StartsInTurn,
      OneUsesTheDatabase, Absent, Labels, Ending

(* Whatever ends a process leaves the others, and the lock it does not     *)
(* hold, alone.                                                            *)
LEMMA GoneIInv ==
  ASSUME IInv, NEW p \in Pids, Gone(p), UNCHANGED <<pidFile, runs, foreign>>
  PROVE  IInv'
  BY LifecycleAssumption
  DEF IInv, LifecycleTypeOK, ClientHasLock, StartsInTurn, OneUsesTheDatabase,
      Gone, ReleasedLock, Absent, Labels, Ending

LEMMA RunIInv ==
  ASSUME IInv, NEW p \in Pids, Run(p)
  PROVE  IInv'
  <1> USE LifecycleAssumption
      DEF IInv, LifecycleTypeOK, ClientHasLock, StartsInTurn, OneUsesTheDatabase,
          Goto, Absent, Labels, Ending
  <1>1. CASE InitDB(p)
    BY <1>1 DEF InitDB
  <1>2. CASE ReadPid(p)
    BY <1>2 DEF ReadPid, WhenDown
  <1>3. CASE PidExists(p)
    BY <1>3 DEF PidExists, WhenUp, WhenDown
  <1>4. CASE Kill(p)
    <2>1. seen[p] \in Pids
      BY <1>4 DEF Kill
    <2>2. killed' \subseteq Pids
      <3>1. killed' = killed \/ killed' = killed \cup {seen[p]}
        BY <1>4 DEF Kill
      <3>2. killed \subseteq Pids
        OBVIOUS
      <3>3. QED
        BY ONLY <2>1, <3>1, <3>2
    <2>3. pc' \in [Pids -> Labels]
      BY <1>4 DEF Kill, AfterStop
    <2>4. QED
      BY <1>4, <2>2, <2>3 DEF Kill, AfterStop
  <1>5. CASE Unlink(p)
    BY <1>5 DEF Unlink, AfterStop
  <1>6. CASE UseDatabase(p)
    BY <1>6 DEF UseDatabase, NilPanics
  <1>7. CASE ScanIsOver(p)
    BY <1>7 DEF ScanIsOver
  <1>8. CASE TruncatePid(p)
    BY <1>8 DEF TruncatePid
  <1>9. CASE Listen(p)
    BY <1>9 DEF Listen
  <1>10. CASE Exit(p)
    BY <1>10, GoneIInv DEF Exit
  <1>11. CASE WritePid(p)
    BY <1>11 DEF WritePid
  <1>12. QED
    BY <1>1, <1>2, <1>3, <1>4, <1>5, <1>6, <1>7, <1>8, <1>9, <1>10, <1>11 DEF Run

LEMMA NextIInv == IInv /\ [Next]_vars => IInv'
  <1> SUFFICES ASSUME IInv, [Next]_vars PROVE IInv'
    OBVIOUS
  <1> USE LifecycleAssumption
      DEF IInv, LifecycleTypeOK, ClientHasLock, StartsInTurn, OneUsesTheDatabase,
          Absent, Labels, Ending
  <1>1. ASSUME NEW p \in Pids, Launch(p) PROVE IInv'
    BY <1>1 DEF Launch, Goto
  <1>2. ASSUME NEW p \in Pids, Interrupt(p) PROVE IInv'
    BY <1>2, GoneIInv DEF Interrupt
  <1>3. ASSUME NEW p \in Pids, Die(p) PROVE IInv'
    BY <1>3, GoneIInv DEF Die
  <1>4. ASSUME NEW p \in Pids, ForeignStarts(p) PROVE IInv'
    BY <1>4 DEF ForeignStarts
  <1>5. ASSUME NEW p \in Pids, ForeignEnds(p) PROVE IInv'
    BY <1>5, GoneIInv DEF ForeignEnds
  <1>6. CASE UNCHANGED vars
    BY <1>6 DEF vars, proc
  <1>7. QED
    BY <1>1, <1>2, <1>3, <1>4, <1>5, <1>6, RunIInv DEF Next

(* The commands of main.go keep the types, whatever is run beside them.    *)
THEOREM LifecycleTypeCorrect == Spec => []LifecycleTypeOK
  <1>1. IInv => LifecycleTypeOK
    BY DEF IInv
  <1>2. QED
    BY InitIInv, NextIInv, <1>1, PTL DEF Spec

(* A server, or a scan, never shares the database with another process:    *)
(* the lock of LevelDB and the nil Client of main.go's init see to it, not *)
(* GetRunStatus.                                                           *)
THEOREM DatabaseIsExclusive == Spec => []OneUsesTheDatabase
  <1>1. IInv => OneUsesTheDatabase
    BY DEF IInv
  <1>2. QED
    BY InitIInv, NextIInv, <1>1, PTL DEF Spec

(* From before it listens on, the file "pid" names the server or nothing:  *)
(* nobody but the process that has the database writes it, though any      *)
(* "stop" may remove it.                                                   *)
Announced == \A p \in Pids : pc[p] \in {"listen", "serving"} => pidFile \in {p, Absent}

LEMMA AnnouncedStep == IInv /\ Announced /\ [Next]_vars => Announced'
  <1> SUFFICES ASSUME IInv, Announced, [Next]_vars PROVE Announced'
    OBVIOUS
  <1>1. pc \in [Pids -> Labels] /\ OneUsesTheDatabase
    BY DEF IInv, LifecycleTypeOK
  <1> USE <1>1 DEF Announced, Goto
  <1>2. ASSUME NEW p \in Pids, TruncatePid(p) \/ WritePid(p) PROVE Announced'
    <2>1. \A q \in Pids : pc[q] \in {"listen", "serving"} => q = p
      BY <1>2 DEF TruncatePid, WritePid, OneUsesTheDatabase
    <2>2. QED
      BY <1>2, <2>1 DEF TruncatePid, WritePid
  <1>3. ASSUME NEW p \in Pids, Gone(p), UNCHANGED pidFile PROVE Announced'
    BY <1>3 DEF Gone
  <1>4. ASSUME NEW p \in Pids, Run(p) PROVE Announced'
    <2>1. CASE InitDB(p)
      BY <2>1 DEF InitDB
    <2>2. CASE ReadPid(p)
      BY <2>2 DEF ReadPid, WhenDown
    <2>3. CASE PidExists(p)
      BY <2>3 DEF PidExists, WhenUp, WhenDown
    <2>4. CASE Kill(p)
      BY <2>4 DEF Kill, AfterStop
    <2>5. CASE Unlink(p)
      BY <2>5 DEF Unlink, AfterStop
    <2>6. CASE UseDatabase(p)
      BY <2>6 DEF UseDatabase
    <2>7. CASE ScanIsOver(p)
      BY <2>7 DEF ScanIsOver
    <2>8. CASE Listen(p)
      BY <2>8 DEF Listen
    <2>9. CASE Exit(p)
      BY <2>9, <1>3 DEF Exit
    <2>10. QED
      BY <1>2, <1>4, <2>1, <2>2, <2>3, <2>4, <2>5, <2>6, <2>7, <2>8, <2>9 DEF Run
  <1>5. ASSUME NEW p \in Pids, Launch(p) PROVE Announced'
    BY <1>5 DEF Launch
  <1>6. ASSUME NEW p \in Pids,
               Interrupt(p) \/ Die(p) \/ ForeignStarts(p) \/ ForeignEnds(p)
        PROVE  Announced'
    BY <1>3, <1>6 DEF Interrupt, Die, ForeignStarts, ForeignEnds
  <1>7. CASE UNCHANGED vars
    BY <1>7 DEF vars, proc
  <1>8. QED
    BY <1>4, <1>5, <1>6, <1>7 DEF Next

(* In whatever directories the commands are run, what "stop", "status" and *)
(* "get" (GetRunStatus) read while a server runs is its pid or nothing:    *)
(* the pid of no other process stands in the file.                         *)
THEOREM NoOtherIsFound == Spec => []NoOtherIsNamed
  <1>1. Init => Announced
    BY DEF Init, Announced
  <1>2. Announced => NoOtherIsNamed
    BY DEF Announced, NoOtherIsNamed, Serving
  <1>3. QED
    BY InitIInv, NextIInv, AnnouncedStep, <1>1, <1>2, PTL DEF Spec

=============================================================================
