---------------------------- MODULE DaemonProofs ----------------------------
(***************************************************************************)
(* Theorems about Daemon, for any number of processes and any UDP ports.   *)
(* The safety properties follow from DaemonInv, which is inductive: the    *)
(* daemon that published alone (Owner) is the one that every process which *)
(* could remove its files looks at first.  There is a lemma for each       *)
(* action, with a step for each part of the invariant.                     *)
(***************************************************************************)
EXTENDS Daemon, Settings, TLAPS

USE ConstantsAssumption
(* The sets of places are small, and every lemma looks into them.             *)
USE DEF Takeover, Publishing, Final, MainPcs, HandlerPcs, ShellPcs, ShellWindow, Ended, Stopping,
        Alive, GoTo, Error, Errs, Gone, Remove, RemoveLast, ShellTo, procVars, fileVars, shellVars

-----------------------------------------------------------------------------
(* The main thread: takeover, bind, publication, service, cleanup *)

LEMMA ReadPidFileStep ==
  ASSUME DaemonInv, NEW d \in Procs, ReadPidFile(d), UNCHANGED shellVars
  PROVE  DaemonInv'
<1>1. TypeOK'
  BY DEF DaemonInv, TypeOK, ProcessesInStep, ShellInStep, ReadPidFile
<1>2. ProcessesInStep'
  BY DEF DaemonInv, TypeOK, ProcessesInStep, ShellInStep, ReadPidFile
<1>3. ShellInStep'
  BY DEF DaemonInv, TypeOK, ShellInStep, ReadPidFile
<1>4. OwnerIsKnown'
  BY DEF DaemonInv, TypeOK, ProcessesInStep, ShellInStep, OwnerIsKnown, Owner, ReadPidFile
<1>5. RemovedInOrder'
  BY DEF DaemonInv, TypeOK, ProcessesInStep, RemovedInOrder, ReadPidFile
<1> QED BY <1>1, <1>2, <1>3, <1>4, <1>5 DEF DaemonInv

LEMMA LookupStaleStep ==
  ASSUME DaemonInv, NEW d \in Procs, LookupStale(d), UNCHANGED shellVars
  PROVE  DaemonInv'
<1>1. TypeOK'
  BY DEF DaemonInv, TypeOK, ProcessesInStep, ShellInStep, LookupStale, FilesAreStale
<1>2. ProcessesInStep'
  BY DEF DaemonInv, TypeOK, ProcessesInStep, ShellInStep, LookupStale, FilesAreStale
<1>3. ShellInStep'
  BY DEF DaemonInv, TypeOK, ShellInStep, LookupStale, FilesAreStale
<1>4. OwnerIsKnown'
  BY DEF DaemonInv, TypeOK, ProcessesInStep, ShellInStep, OwnerIsKnown, Owner, LookupStale, FilesAreStale
<1>5. RemovedInOrder'
  BY DEF DaemonInv, TypeOK, ProcessesInStep, RemovedInOrder, LookupStale, FilesAreStale
<1> QED BY <1>1, <1>2, <1>3, <1>4, <1>5 DEF DaemonInv

LEMMA LookupKillStep ==
  ASSUME DaemonInv, NEW d \in Procs, LookupKill(d), UNCHANGED shellVars
  PROVE  DaemonInv'
<1>1. TypeOK'
  <2>1. seen[d] \in Procs BY DEF DaemonInv, ProcessesInStep, LookupKill
  <2>2. /\ pc' \in [Procs -> MainPcs] /\ UNCHANGED <<port, files>>
    BY <2>1 DEF DaemonInv, TypeOK, LookupKill
  <2>3. CASE Dies(seen[d]) BY <2>1, <2>2, <2>3 DEF DaemonInv, TypeOK, LookupKill, Dies
  <2>4. CASE UNCHANGED <<os, bound, http, handler, running, seen, contested>>
    BY <2>2, <2>4 DEF DaemonInv, TypeOK, LookupKill
  <2> QED BY <2>3, <2>4 DEF LookupKill
<1>2. ProcessesInStep'
  BY DEF DaemonInv, TypeOK, ProcessesInStep, ShellInStep, LookupKill, Dies
<1>3. ShellInStep'
  BY DEF DaemonInv, TypeOK, ShellInStep, LookupKill, Dies
<1>4. OwnerIsKnown'
  BY DEF DaemonInv, TypeOK, ProcessesInStep, ShellInStep, OwnerIsKnown, Owner, LookupKill, Dies
<1>5. RemovedInOrder'
  BY DEF DaemonInv, TypeOK, ProcessesInStep, RemovedInOrder, LookupKill, Dies
<1> QED BY <1>1, <1>2, <1>3, <1>4, <1>5 DEF DaemonInv

LEMMA WaitGoneStep ==
  ASSUME DaemonInv, NEW d \in Procs, WaitGone(d), UNCHANGED shellVars
  PROVE  DaemonInv'
<1>1. TypeOK'
  BY DEF DaemonInv, TypeOK, ProcessesInStep, ShellInStep, WaitGone, FilesAreStale
<1>2. ProcessesInStep'
  BY DEF DaemonInv, TypeOK, ProcessesInStep, ShellInStep, WaitGone, FilesAreStale
<1>3. ShellInStep'
  BY DEF DaemonInv, TypeOK, ShellInStep, WaitGone, FilesAreStale
<1>4. OwnerIsKnown'
  BY DEF DaemonInv, TypeOK, ProcessesInStep, ShellInStep, OwnerIsKnown, Owner, WaitGone, FilesAreStale
<1>5. RemovedInOrder'
  BY DEF DaemonInv, TypeOK, ProcessesInStep, RemovedInOrder, WaitGone, FilesAreStale
<1> QED BY <1>1, <1>2, <1>3, <1>4, <1>5 DEF DaemonInv

LEMMA WaitStuckStep ==
  ASSUME DaemonInv, NEW d \in Procs, WaitStuck(d), UNCHANGED shellVars
  PROVE  DaemonInv'
<1>1. TypeOK'
  BY DEF DaemonInv, TypeOK, ProcessesInStep, ShellInStep, WaitStuck, Fail, Dies
<1>2. ProcessesInStep'
  BY DEF DaemonInv, TypeOK, ProcessesInStep, ShellInStep, WaitStuck, Fail, Dies
<1>3. ShellInStep'
  BY DEF DaemonInv, TypeOK, ShellInStep, WaitStuck, Fail, Dies
<1>4. OwnerIsKnown'
  BY DEF DaemonInv, TypeOK, ProcessesInStep, ShellInStep, OwnerIsKnown, Owner, WaitStuck, Fail, Dies
<1>5. RemovedInOrder'
  BY DEF DaemonInv, TypeOK, ProcessesInStep, RemovedInOrder, WaitStuck, Fail, Dies
<1> QED BY <1>1, <1>2, <1>3, <1>4, <1>5 DEF DaemonInv

LEMMA RemoveStaleStep ==
  ASSUME DaemonInv, NEW d \in Procs, RemoveStale(d), UNCHANGED shellVars
  PROVE  DaemonInv'
<1>1. TypeOK'
  BY DEF DaemonInv, TypeOK, ProcessesInStep, ShellInStep, RemoveStale
<1>2. ProcessesInStep'
  BY DEF DaemonInv, TypeOK, ProcessesInStep, ShellInStep, RemoveStale
<1>3. ShellInStep'
  BY DEF DaemonInv, TypeOK, ShellInStep, RemoveStale
<1>4. OwnerIsKnown'
  BY DEF DaemonInv, TypeOK, ProcessesInStep, ShellInStep, OwnerIsKnown, Owner, RemoveStale
<1>5. RemovedInOrder'
  BY DEF DaemonInv, TypeOK, ProcessesInStep, RemovedInOrder, RemoveStale
<1> QED BY <1>1, <1>2, <1>3, <1>4, <1>5 DEF DaemonInv

LEMMA BindStep ==
  ASSUME DaemonInv, NEW d \in Procs, Bind(d), UNCHANGED shellVars
  PROVE  DaemonInv'
<1>1. TypeOK'
  BY DEF DaemonInv, TypeOK, ProcessesInStep, ShellInStep, Bind, Taken
<1>2. ProcessesInStep'
  BY DEF DaemonInv, TypeOK, ProcessesInStep, ShellInStep, Bind, Taken
<1>3. ShellInStep'
  BY DEF DaemonInv, TypeOK, ShellInStep, Bind, Taken
<1>4. OwnerIsKnown'
  BY DEF DaemonInv, TypeOK, ProcessesInStep, ShellInStep, OwnerIsKnown, Owner, Bind, Taken
<1>5. RemovedInOrder'
  BY DEF DaemonInv, TypeOK, ProcessesInStep, RemovedInOrder, Bind, Taken
<1> QED BY <1>1, <1>2, <1>3, <1>4, <1>5 DEF DaemonInv

LEMMA BindFailsStep ==
  ASSUME DaemonInv, NEW d \in Procs, BindFails(d), UNCHANGED shellVars
  PROVE  DaemonInv'
<1>1. TypeOK'
  BY DEF DaemonInv, TypeOK, ProcessesInStep, ShellInStep, BindFails, Fail, Dies, Taken
<1>2. ProcessesInStep'
  BY DEF DaemonInv, TypeOK, ProcessesInStep, ShellInStep, BindFails, Fail, Dies, Taken
<1>3. ShellInStep'
  BY DEF DaemonInv, TypeOK, ShellInStep, BindFails, Fail, Dies, Taken
<1>4. OwnerIsKnown'
  BY DEF DaemonInv, TypeOK, ProcessesInStep, ShellInStep, OwnerIsKnown, Owner, BindFails,
         Fail, Dies, Taken
<1>5. RemovedInOrder'
  BY DEF DaemonInv, TypeOK, ProcessesInStep, RemovedInOrder, BindFails, Fail, Dies, Taken
<1> QED BY <1>1, <1>2, <1>3, <1>4, <1>5 DEF DaemonInv

LEMMA PublishPidStep ==
  ASSUME DaemonInv, NEW d \in Procs, PublishPid(d), UNCHANGED shellVars
  PROVE  DaemonInv'
<1>1. TypeOK'
  BY DEF DaemonInv, TypeOK, ProcessesInStep, ShellInStep, PublishPid, Write, WriteFails, Company
<1>2. ProcessesInStep'
  BY DEF DaemonInv, TypeOK, ProcessesInStep, ShellInStep, PublishPid, Write, WriteFails, Company
<1>3. ShellInStep'
  BY DEF DaemonInv, TypeOK, ShellInStep, PublishPid, Write, WriteFails, Company
<1>4. OwnerIsKnown'
  BY DEF DaemonInv, TypeOK, ProcessesInStep, ShellInStep, OwnerIsKnown, Owner, PublishPid,
         Write, WriteFails, Company
<1>5. RemovedInOrder'
  BY DEF DaemonInv, TypeOK, ProcessesInStep, RemovedInOrder, PublishPid, Write, WriteFails, Company
<1> QED BY <1>1, <1>2, <1>3, <1>4, <1>5 DEF DaemonInv

LEMMA PublishPortStep ==
  ASSUME DaemonInv, NEW d \in Procs, PublishPort(d), UNCHANGED shellVars
  PROVE  DaemonInv'
<1>1. TypeOK'
  BY DEF DaemonInv, TypeOK, ProcessesInStep, ShellInStep, PublishPort, Write, WriteFails, Company
<1>2. ProcessesInStep'
  BY DEF DaemonInv, TypeOK, ProcessesInStep, ShellInStep, PublishPort, Write, WriteFails, Company
<1>3. ShellInStep'
  BY DEF DaemonInv, TypeOK, ShellInStep, PublishPort, Write, WriteFails, Company
<1>4. OwnerIsKnown'
  BY DEF DaemonInv, TypeOK, ProcessesInStep, ShellInStep, OwnerIsKnown, Owner, PublishPort,
         Write, WriteFails, Company
<1>5. RemovedInOrder'
  BY DEF DaemonInv, TypeOK, ProcessesInStep, RemovedInOrder, PublishPort, Write, WriteFails, Company
<1> QED BY <1>1, <1>2, <1>3, <1>4, <1>5 DEF DaemonInv

LEMMA SpawnHttpStep ==
  ASSUME DaemonInv, NEW d \in Procs, SpawnHttp(d), UNCHANGED shellVars
  PROVE  DaemonInv'
<1>1. TypeOK'
  <2>1. /\ http' \in [Procs -> BOOLEAN] /\ pc' \in [Procs -> MainPcs]
        /\ UNCHANGED <<os, handler, running, port, bound, seen, shellVars, disturbed>>
    BY DEF DaemonInv, TypeOK, SpawnHttp
  <2>2. CASE Write(d, "http") BY <2>1, <2>2 DEF DaemonInv, TypeOK, Write
  <2>3. CASE UNCHANGED fileVars /\ contested' = contested \cup {d}
    BY <2>1, <2>3 DEF DaemonInv, TypeOK
  <2> QED BY <2>2, <2>3 DEF SpawnHttp, WriteFails
<1>2. ProcessesInStep'
  BY DEF DaemonInv, TypeOK, ProcessesInStep, ShellInStep, SpawnHttp, Write, WriteFails, Company
<1>3. ShellInStep'
  BY DEF DaemonInv, TypeOK, ShellInStep, SpawnHttp, Write, WriteFails, Company
<1>4. OwnerIsKnown'
  BY DEF DaemonInv, TypeOK, ProcessesInStep, ShellInStep, OwnerIsKnown, Owner, SpawnHttp,
         Write, WriteFails, Company
<1>5. RemovedInOrder'
  BY DEF DaemonInv, TypeOK, ProcessesInStep, RemovedInOrder, SpawnHttp, Write, WriteFails, Company
<1> QED BY <1>1, <1>2, <1>3, <1>4, <1>5 DEF DaemonInv

LEMMA HttpEndsStep ==
  ASSUME DaemonInv, NEW d \in Procs, HttpEnds(d), UNCHANGED shellVars
  PROVE  DaemonInv'
<1>1. TypeOK'
  BY DEF DaemonInv, TypeOK, ProcessesInStep, ShellInStep, HttpEnds
<1>2. ProcessesInStep'
  BY DEF DaemonInv, TypeOK, ProcessesInStep, ShellInStep, HttpEnds
<1>3. ShellInStep'
  BY DEF DaemonInv, TypeOK, ShellInStep, HttpEnds
<1>4. OwnerIsKnown'
  BY DEF DaemonInv, TypeOK, ProcessesInStep, ShellInStep, OwnerIsKnown, Owner, HttpEnds
<1>5. RemovedInOrder'
  BY DEF DaemonInv, TypeOK, ProcessesInStep, RemovedInOrder, HttpEnds
<1> QED BY <1>1, <1>2, <1>3, <1>4, <1>5 DEF DaemonInv

LEMMA LeaveLoopStep ==
  ASSUME DaemonInv, NEW d \in Procs, LeaveLoop(d), UNCHANGED shellVars
  PROVE  DaemonInv'
<1>1. TypeOK'
  BY DEF DaemonInv, TypeOK, ProcessesInStep, ShellInStep, LeaveLoop
<1>2. ProcessesInStep'
  BY DEF DaemonInv, TypeOK, ProcessesInStep, ShellInStep, LeaveLoop
<1>3. ShellInStep'
  BY DEF DaemonInv, TypeOK, ShellInStep, LeaveLoop
<1>4. OwnerIsKnown'
  BY DEF DaemonInv, TypeOK, ProcessesInStep, ShellInStep, OwnerIsKnown, Owner, LeaveLoop
<1>5. RemovedInOrder'
  BY DEF DaemonInv, TypeOK, ProcessesInStep, RemovedInOrder, LeaveLoop
<1> QED BY <1>1, <1>2, <1>3, <1>4, <1>5 DEF DaemonInv

LEMMA CleanupStep ==
  ASSUME DaemonInv, NEW d \in Procs, Cleanup(d), UNCHANGED shellVars
  PROVE  DaemonInv'
<1>1. TypeOK'
  BY DEF DaemonInv, TypeOK, ProcessesInStep, ShellInStep, Cleanup
<1>2. ProcessesInStep'
  BY DEF DaemonInv, TypeOK, ProcessesInStep, ShellInStep, Cleanup
<1>3. ShellInStep'
  BY DEF DaemonInv, TypeOK, ShellInStep, Cleanup
<1>4. OwnerIsKnown'
  BY DEF DaemonInv, TypeOK, ProcessesInStep, ShellInStep, OwnerIsKnown, Owner, Cleanup
<1>5. RemovedInOrder'
  BY DEF DaemonInv, TypeOK, ProcessesInStep, RemovedInOrder, Cleanup
<1> QED BY <1>1, <1>2, <1>3, <1>4, <1>5 DEF DaemonInv

LEMMA ReturnStep ==
  ASSUME DaemonInv, NEW d \in Procs, Return(d), UNCHANGED shellVars
  PROVE  DaemonInv'
<1>1. TypeOK'
  BY DEF DaemonInv, TypeOK, ProcessesInStep, ShellInStep, Return, Dies
<1>2. ProcessesInStep'
  BY DEF DaemonInv, TypeOK, ProcessesInStep, ShellInStep, Return, Dies
<1>3. ShellInStep'
  BY DEF DaemonInv, TypeOK, ShellInStep, Return, Dies
<1>4. OwnerIsKnown'
  BY DEF DaemonInv, TypeOK, ProcessesInStep, ShellInStep, OwnerIsKnown, Owner, Return, Dies
<1>5. RemovedInOrder'
  BY DEF DaemonInv, TypeOK, ProcessesInStep, RemovedInOrder, Return, Dies
<1> QED BY <1>1, <1>2, <1>3, <1>4, <1>5 DEF DaemonInv

-----------------------------------------------------------------------------
(* The Ctrl+C thread, and what comes from outside *)

LEMMA HandlerCleanupStep ==
  ASSUME DaemonInv, NEW d \in Procs, HandlerCleanup(d)
  PROVE  DaemonInv'
<1>1. TypeOK'
  BY DEF DaemonInv, TypeOK, ProcessesInStep, ShellInStep, HandlerCleanup
<1>2. ProcessesInStep'
  BY DEF DaemonInv, TypeOK, ProcessesInStep, ShellInStep, HandlerCleanup
<1>3. ShellInStep'
  BY DEF DaemonInv, TypeOK, ShellInStep, HandlerCleanup
<1>4. OwnerIsKnown'
  BY DEF DaemonInv, TypeOK, ProcessesInStep, ShellInStep, OwnerIsKnown, Owner, HandlerCleanup
<1>5. RemovedInOrder'
  BY DEF DaemonInv, TypeOK, ProcessesInStep, RemovedInOrder, HandlerCleanup
<1> QED BY <1>1, <1>2, <1>3, <1>4, <1>5 DEF DaemonInv

LEMMA StartStep ==
  ASSUME DaemonInv, NEW d \in Procs, Start(d)
  PROVE  DaemonInv'
<1>1. TypeOK'
  BY DEF DaemonInv, TypeOK, ProcessesInStep, ShellInStep, Start, Started
<1>2. ProcessesInStep'
  BY DEF DaemonInv, TypeOK, ProcessesInStep, ShellInStep, Start, Started
<1>3. ShellInStep'
  BY DEF DaemonInv, TypeOK, ShellInStep, Start, Started
<1>4. OwnerIsKnown'
  BY DEF DaemonInv, TypeOK, ProcessesInStep, ShellInStep, OwnerIsKnown, Owner, Start, Started
<1>5. RemovedInOrder'
  BY DEF DaemonInv, TypeOK, ProcessesInStep, RemovedInOrder, Start, Started
<1> QED BY <1>1, <1>2, <1>3, <1>4, <1>5 DEF DaemonInv

LEMMA StartFailsStep ==
  ASSUME DaemonInv, NEW d \in Procs, StartFails(d)
  PROVE  DaemonInv'
<1>1. TypeOK'
  BY DEF DaemonInv, TypeOK, ProcessesInStep, ShellInStep, StartFails, Dies
<1>2. ProcessesInStep'
  BY DEF DaemonInv, TypeOK, ProcessesInStep, ShellInStep, StartFails, Dies
<1>3. ShellInStep'
  BY DEF DaemonInv, TypeOK, ShellInStep, StartFails, Dies
<1>4. OwnerIsKnown'
  BY DEF DaemonInv, TypeOK, ProcessesInStep, ShellInStep, OwnerIsKnown, Owner, StartFails, Dies
<1>5. RemovedInOrder'
  BY DEF DaemonInv, TypeOK, ProcessesInStep, RemovedInOrder, StartFails, Dies
<1> QED BY <1>1, <1>2, <1>3, <1>4, <1>5 DEF DaemonInv

LEMMA SignalStep ==
  ASSUME DaemonInv, NEW d \in Procs, Signal(d)
  PROVE  DaemonInv'
<1>1. TypeOK'
  BY DEF DaemonInv, TypeOK, ProcessesInStep, ShellInStep, Signal
<1>2. ProcessesInStep'
  BY DEF DaemonInv, TypeOK, ProcessesInStep, ShellInStep, Signal
<1>3. ShellInStep'
  BY DEF DaemonInv, TypeOK, ShellInStep, Signal
<1>4. OwnerIsKnown'
  BY DEF DaemonInv, TypeOK, ProcessesInStep, ShellInStep, OwnerIsKnown, Owner, Signal
<1>5. RemovedInOrder'
  BY DEF DaemonInv, TypeOK, ProcessesInStep, RemovedInOrder, Signal
<1> QED BY <1>1, <1>2, <1>3, <1>4, <1>5 DEF DaemonInv

LEMMA InstallStep ==
  ASSUME DaemonInv, NEW d \in Procs, Install(d)
  PROVE  DaemonInv'
<1>1. TypeOK'
  BY DEF DaemonInv, TypeOK, ProcessesInStep, ShellInStep, Install
<1>2. ProcessesInStep'
  BY DEF DaemonInv, TypeOK, ProcessesInStep, ShellInStep, Install
<1>3. ShellInStep'
  BY DEF DaemonInv, TypeOK, ShellInStep, Install
<1>4. OwnerIsKnown'
  BY DEF DaemonInv, TypeOK, ProcessesInStep, ShellInStep, OwnerIsKnown, Owner, Install
<1>5. RemovedInOrder'
  BY DEF DaemonInv, TypeOK, ProcessesInStep, RemovedInOrder, Install
<1> QED BY <1>1, <1>2, <1>3, <1>4, <1>5 DEF DaemonInv

LEMMA CrashStep ==
  ASSUME DaemonInv, NEW d \in Procs, Crash(d)
  PROVE  DaemonInv'
<1>1. TypeOK'
  BY DEF DaemonInv, TypeOK, ProcessesInStep, ShellInStep, Crash, Kill, Dies
<1>2. ProcessesInStep'
  BY DEF DaemonInv, TypeOK, ProcessesInStep, ShellInStep, Crash, Kill, Dies
<1>3. ShellInStep'
  BY DEF DaemonInv, TypeOK, ShellInStep, Crash, Kill, Dies
<1>4. OwnerIsKnown'
  BY DEF DaemonInv, TypeOK, ProcessesInStep, ShellInStep, OwnerIsKnown, Owner, Crash, Kill, Dies
<1>5. RemovedInOrder'
  BY DEF DaemonInv, TypeOK, ProcessesInStep, RemovedInOrder, Crash, Kill, Dies
<1> QED BY <1>1, <1>2, <1>3, <1>4, <1>5 DEF DaemonInv

LEMMA ReuseStep ==
  ASSUME DaemonInv, NEW d \in Procs, Reuse(d)
  PROVE  DaemonInv'
<1>1. TypeOK'
  BY DEF DaemonInv, TypeOK, ProcessesInStep, ShellInStep, Reuse
<1>2. ProcessesInStep'
  BY DEF DaemonInv, TypeOK, ProcessesInStep, ShellInStep, Reuse
<1>3. ShellInStep'
  BY DEF DaemonInv, TypeOK, ShellInStep, Reuse
<1>4. OwnerIsKnown'
  BY DEF DaemonInv, TypeOK, ProcessesInStep, ShellInStep, OwnerIsKnown, Owner, Reuse
<1>5. RemovedInOrder'
  BY DEF DaemonInv, TypeOK, ProcessesInStep, RemovedInOrder, Reuse
<1> QED BY <1>1, <1>2, <1>3, <1>4, <1>5 DEF DaemonInv

-----------------------------------------------------------------------------
(* The Electron shell *)

LEMMA OpenStep ==
  ASSUME DaemonInv, Open
  PROVE  DaemonInv'
<1>1. TypeOK'
  BY DEF DaemonInv, TypeOK, ProcessesInStep, ShellInStep, Open
<1>2. ProcessesInStep'
  BY DEF DaemonInv, TypeOK, ProcessesInStep, ShellInStep, Open
<1>3. ShellInStep'
  BY DEF DaemonInv, TypeOK, ShellInStep, Open
<1>4. OwnerIsKnown'
  BY DEF DaemonInv, TypeOK, ProcessesInStep, ShellInStep, OwnerIsKnown, Owner, Open
<1>5. RemovedInOrder'
  BY DEF DaemonInv, TypeOK, ProcessesInStep, RemovedInOrder, Open
<1> QED BY <1>1, <1>2, <1>3, <1>4, <1>5 DEF DaemonInv

LEMMA ShellReadStep ==
  ASSUME DaemonInv, ShellRead
  PROVE  DaemonInv'
<1>1. TypeOK'
  BY DEF DaemonInv, TypeOK, ProcessesInStep, ShellInStep, ShellRead
<1>2. ProcessesInStep'
  BY DEF DaemonInv, TypeOK, ProcessesInStep, ShellInStep, ShellRead
<1>3. ShellInStep'
  BY DEF DaemonInv, TypeOK, ShellInStep, ShellRead
<1>4. OwnerIsKnown'
  BY DEF DaemonInv, TypeOK, ProcessesInStep, ShellInStep, OwnerIsKnown, Owner, ShellRead
<1>5. RemovedInOrder'
  BY DEF DaemonInv, TypeOK, ProcessesInStep, RemovedInOrder, ShellRead
<1> QED BY <1>1, <1>2, <1>3, <1>4, <1>5 DEF DaemonInv

LEMMA IsPidAliveStep ==
  ASSUME DaemonInv, IsPidAlive
  PROVE  DaemonInv'
<1>1. TypeOK'
  BY DEF DaemonInv, TypeOK, ProcessesInStep, ShellInStep, IsPidAlive
<1>2. ProcessesInStep'
  BY DEF DaemonInv, TypeOK, ProcessesInStep, ShellInStep, IsPidAlive
<1>3. ShellInStep'
  BY DEF DaemonInv, TypeOK, ShellInStep, IsPidAlive
<1>4. OwnerIsKnown'
  BY DEF DaemonInv, TypeOK, ProcessesInStep, ShellInStep, OwnerIsKnown, Owner, IsPidAlive
<1>5. RemovedInOrder'
  BY DEF DaemonInv, TypeOK, ProcessesInStep, RemovedInOrder, IsPidAlive
<1> QED BY <1>1, <1>2, <1>3, <1>4, <1>5 DEF DaemonInv

LEMMA IsOurDaemonStep ==
  ASSUME DaemonInv, IsOurDaemon
  PROVE  DaemonInv'
<1>1. TypeOK'
  BY DEF DaemonInv, TypeOK, ProcessesInStep, ShellInStep, IsOurDaemon
<1>2. ProcessesInStep'
  BY DEF DaemonInv, TypeOK, ProcessesInStep, ShellInStep, IsOurDaemon
<1>3. ShellInStep'
  BY DEF DaemonInv, TypeOK, ShellInStep, IsOurDaemon
<1>4. OwnerIsKnown'
  BY DEF DaemonInv, TypeOK, ProcessesInStep, ShellInStep, OwnerIsKnown, Owner, IsOurDaemon
<1>5. RemovedInOrder'
  BY DEF DaemonInv, TypeOK, ProcessesInStep, RemovedInOrder, IsOurDaemon
<1> QED BY <1>1, <1>2, <1>3, <1>4, <1>5 DEF DaemonInv

LEMMA RemoveStaleFilesStep ==
  ASSUME DaemonInv, RemoveStaleFiles
  PROVE  DaemonInv'
<1>1. TypeOK'
  BY DEF DaemonInv, TypeOK, ProcessesInStep, ShellInStep, RemoveStaleFiles
<1>2. ProcessesInStep'
  BY DEF DaemonInv, TypeOK, ProcessesInStep, ShellInStep, RemoveStaleFiles
<1>3. ShellInStep'
  BY DEF DaemonInv, TypeOK, ShellInStep, RemoveStaleFiles
<1>4. OwnerIsKnown'
  BY DEF DaemonInv, TypeOK, ProcessesInStep, ShellInStep, OwnerIsKnown, Owner, RemoveStaleFiles
<1>5. RemovedInOrder'
  BY DEF DaemonInv, TypeOK, ProcessesInStep, RemovedInOrder, RemoveStaleFiles
<1> QED BY <1>1, <1>2, <1>3, <1>4, <1>5 DEF DaemonInv

LEMMA SpawnStep ==
  ASSUME DaemonInv, Spawn
  PROVE  DaemonInv'
<1>1. TypeOK'
  BY DEF DaemonInv, TypeOK, ProcessesInStep, ShellInStep, Spawn, Started
<1>2. ProcessesInStep'
  BY DEF DaemonInv, TypeOK, ProcessesInStep, ShellInStep, Spawn, Started
<1>3. ShellInStep'
  BY DEF DaemonInv, TypeOK, ShellInStep, Spawn, Started
<1>4. OwnerIsKnown'
  BY DEF DaemonInv, TypeOK, ProcessesInStep, ShellInStep, OwnerIsKnown, Owner, Spawn, Started
<1>5. RemovedInOrder'
  BY DEF DaemonInv, TypeOK, ProcessesInStep, RemovedInOrder, Spawn, Started
<1> QED BY <1>1, <1>2, <1>3, <1>4, <1>5 DEF DaemonInv

LEMMA SpawnFailsStep ==
  ASSUME DaemonInv, SpawnFails
  PROVE  DaemonInv'
<1>1. TypeOK'
  BY DEF DaemonInv, TypeOK, ProcessesInStep, ShellInStep, SpawnFails
<1>2. ProcessesInStep'
  BY DEF DaemonInv, TypeOK, ProcessesInStep, ShellInStep, SpawnFails
<1>3. ShellInStep'
  BY DEF DaemonInv, TypeOK, ShellInStep, SpawnFails
<1>4. OwnerIsKnown'
  BY DEF DaemonInv, TypeOK, ProcessesInStep, ShellInStep, OwnerIsKnown, Owner, SpawnFails
<1>5. RemovedInOrder'
  BY DEF DaemonInv, TypeOK, ProcessesInStep, RemovedInOrder, SpawnFails
<1> QED BY <1>1, <1>2, <1>3, <1>4, <1>5 DEF DaemonInv

LEMMA ChildExitStep ==
  ASSUME DaemonInv, ChildExit
  PROVE  DaemonInv'
<1>1. TypeOK'
  BY DEF DaemonInv, TypeOK, ProcessesInStep, ShellInStep, ChildExit
<1>2. ProcessesInStep'
  BY DEF DaemonInv, TypeOK, ProcessesInStep, ShellInStep, ChildExit
<1>3. ShellInStep'
  BY DEF DaemonInv, TypeOK, ShellInStep, ChildExit
<1>4. OwnerIsKnown'
  BY DEF DaemonInv, TypeOK, ProcessesInStep, ShellInStep, OwnerIsKnown, Owner, ChildExit
<1>5. RemovedInOrder'
  BY DEF DaemonInv, TypeOK, ProcessesInStep, RemovedInOrder, ChildExit
<1> QED BY <1>1, <1>2, <1>3, <1>4, <1>5 DEF DaemonInv

LEMMA QuitStep ==
  ASSUME DaemonInv, Quit
  PROVE  DaemonInv'
<1>1. TypeOK'
  <2>1. CASE child # NoProc /\ Alive(child)
    <3>1. child \in Procs /\ Kill(child) /\ shell' = "off" /\ child' = NoProc /\ found' = NoProc
      BY <2>1 DEF DaemonInv, TypeOK, Quit
    <3> QED BY <3>1 DEF DaemonInv, TypeOK, Kill, Dies
  <2>2. CASE ~(child # NoProc /\ Alive(child)) BY <2>2 DEF DaemonInv, TypeOK, Quit
  <2> QED BY <2>1, <2>2
<1>2. ProcessesInStep'
  BY DEF DaemonInv, TypeOK, ProcessesInStep, ShellInStep, Quit, Kill, Dies
<1>3. ShellInStep'
  BY DEF DaemonInv, TypeOK, ShellInStep, Quit, Kill, Dies
<1>4. OwnerIsKnown'
  BY DEF DaemonInv, TypeOK, ProcessesInStep, ShellInStep, OwnerIsKnown, Owner, Quit, Kill, Dies
<1>5. RemovedInOrder'
  BY DEF DaemonInv, TypeOK, ProcessesInStep, RemovedInOrder, Quit, Kill, Dies
<1> QED BY <1>1, <1>2, <1>3, <1>4, <1>5 DEF DaemonInv

-----------------------------------------------------------------------------
(* The invariant and what follows from it *)

LEMMA InitHolds == Init => DaemonInv
<1>1. Init => TypeOK
  <2> SUFFICES ASSUME Init PROVE TypeOK OBVIOUS
  <2>1. files \in [pid : Procs \cup {NoProc, Garbage}, port : Procs \cup {NoProc},
                  http : Procs \cup {NoProc}]
    BY DEF Init
  <2>2. contested \subseteq Procs /\ found \in Procs \cup {NoProc} /\ child \in Procs \cup {NoProc}
    BY DEF Init
  <2>3. seen \in [Procs -> Procs \cup {NoProc}] BY DEF Init
  <2>4. kept \subseteq DOMAIN files /\ errors \in 0 .. MaxErrors BY DEF Init
  <2> QED BY <2>1, <2>2, <2>3, <2>4 DEF Init, TypeOK
<1>2. Init => ProcessesInStep BY DEF Init, ProcessesInStep
<1>3. Init => ShellInStep BY DEF Init, ShellInStep
<1>4. Init => OwnerIsKnown BY DEF Init, OwnerIsKnown, Owner
<1>5. Init => RemovedInOrder BY DEF Init, RemovedInOrder
<1> QED BY <1>1, <1>2, <1>3, <1>4, <1>5 DEF DaemonInv

LEMMA StutterKeeps == DaemonInv /\ UNCHANGED vars => DaemonInv'
BY DEF vars, DaemonInv, TypeOK, ProcessesInStep, ShellInStep, OwnerIsKnown, Owner, RemovedInOrder

LEMMA StepKeeps == DaemonInv /\ [Next]_vars => DaemonInv'
<1> SUFFICES ASSUME DaemonInv, [Next]_vars PROVE DaemonInv' OBVIOUS
<1>1. ASSUME NEW d \in Procs,
             \/ Main(d) \/ HandlerCleanup(d) \/ Start(d) \/ StartFails(d) \/ Signal(d)
             \/ Install(d) \/ Crash(d) \/ Reuse(d)
      PROVE  DaemonInv'
  <2>1. CASE Main(d)
    <3>1. CASE ReadPidFile(d) BY <1>1, <2>1, <3>1, ReadPidFileStep DEF Main
    <3>2. CASE LookupStale(d) BY <1>1, <2>1, <3>2, LookupStaleStep DEF Main
    <3>3. CASE LookupKill(d) BY <1>1, <2>1, <3>3, LookupKillStep DEF Main
    <3>4. CASE WaitGone(d) BY <1>1, <2>1, <3>4, WaitGoneStep DEF Main
    <3>5. CASE WaitStuck(d) BY <1>1, <2>1, <3>5, WaitStuckStep DEF Main
    <3>6. CASE RemoveStale(d) BY <1>1, <2>1, <3>6, RemoveStaleStep DEF Main
    <3>7. CASE Bind(d) BY <1>1, <2>1, <3>7, BindStep DEF Main
    <3>8. CASE BindFails(d) BY <1>1, <2>1, <3>8, BindFailsStep DEF Main
    <3>9. CASE PublishPid(d) BY <1>1, <2>1, <3>9, PublishPidStep DEF Main
    <3>10. CASE PublishPort(d) BY <1>1, <2>1, <3>10, PublishPortStep DEF Main
    <3>11. CASE SpawnHttp(d) BY <1>1, <2>1, <3>11, SpawnHttpStep DEF Main
    <3>12. CASE HttpEnds(d) BY <1>1, <2>1, <3>12, HttpEndsStep DEF Main
    <3>13. CASE LeaveLoop(d) BY <1>1, <2>1, <3>13, LeaveLoopStep DEF Main
    <3>14. CASE Cleanup(d) BY <1>1, <2>1, <3>14, CleanupStep DEF Main
    <3>15. CASE Return(d) BY <1>1, <2>1, <3>15, ReturnStep DEF Main
    <3> QED BY <2>1, <3>1, <3>2, <3>3, <3>4, <3>5, <3>6, <3>7, <3>8, <3>9, <3>10, <3>11,
        <3>12, <3>13, <3>14, <3>15 DEF Main
  <2>2. CASE HandlerCleanup(d) BY <2>2, HandlerCleanupStep
  <2>3. CASE Start(d) BY <2>3, StartStep
  <2>4. CASE Signal(d) BY <2>4, SignalStep
  <2>5. CASE Install(d) BY <2>5, InstallStep
  <2>6. CASE Crash(d) BY <2>6, CrashStep
  <2>7. CASE Reuse(d) BY <2>7, ReuseStep
  <2>8. CASE StartFails(d) BY <2>8, StartFailsStep
  <2> QED BY <1>1, <2>1, <2>2, <2>3, <2>4, <2>5, <2>6, <2>7, <2>8
<1>2. CASE Open BY <1>2, OpenStep
<1>3. CASE ShellRead BY <1>3, ShellReadStep
<1>4. CASE IsPidAlive BY <1>4, IsPidAliveStep
<1>5. CASE IsOurDaemon BY <1>5, IsOurDaemonStep
<1>6. CASE RemoveStaleFiles BY <1>6, RemoveStaleFilesStep
<1>7. CASE Spawn BY <1>7, SpawnStep
<1>8. CASE SpawnFails BY <1>8, SpawnFailsStep
<1>9. CASE ChildExit BY <1>9, ChildExitStep
<1>10. CASE Quit BY <1>10, QuitStep
<1>11. CASE UNCHANGED vars BY <1>11, StutterKeeps
<1> QED BY <1>1, <1>2, <1>3, <1>4, <1>5, <1>6, <1>7, <1>8, <1>9, <1>10, <1>11 DEF Next, Shell

(* DaemonInv says what a process has by where it is, that a daemon which      *)
(* published alone is the one whom every other process looks at first, and    *)
(* that what a cleanup removed stays away.                                    *)
THEOREM DaemonInvariant == Spec => []DaemonInv
BY InitHolds, StepKeeps, PTL DEF Spec

(* Every variable of a process, the files and the shell has its type.         *)
THEOREM DaemonTypeCorrect == Spec => []TypeOK
<1>1. DaemonInv => TypeOK BY DEF DaemonInv
<1> QED BY <1>1, DaemonInvariant, PTL

(* takeover_if_running, cleanup and the shell's removeStaleFiles leave the    *)
(* three files of a serving daemon alone, whichever removals and reads fail,  *)
(* and what names a daemon that returned from run is what its own last        *)
(* removal failed to remove.                                                  *)
THEOREM FilesStayTrue == Spec => []FilesAreTrue
<1>1. ASSUME DaemonInv PROVE Discoverable
  <2> SUFFICES ASSUME NEW d \in Procs, Serving(d), d \notin contested
               PROVE  files = [pid |-> d, port |-> d, http |-> d]
    BY DEF Discoverable
  <2>1. files.pid = d /\ files.port = d /\ files.http = d
    BY <1>1 DEF DaemonInv, OwnerIsKnown, Owner, Serving
  <2> QED BY <1>1, <2>1 DEF DaemonInv, TypeOK
<1>2. ASSUME DaemonInv PROVE ExitLeavesNoFile
  <2> SUFFICES ASSUME NEW d \in Procs, pc[d] = "exited"
               PROVE  \A f \in DOMAIN files \ kept : files[f] # d
    BY DEF ExitLeavesNoFile
  <2>1. /\ files.pid # d \/ "pid" \in kept
        /\ files.port # d \/ "port" \in kept
        /\ files.http # d \/ "http" \in kept
    BY <1>2 DEF DaemonInv, RemovedInOrder
  <2> QED BY <1>2, <2>1 DEF DaemonInv, TypeOK
<1> QED BY <1>1, <1>2, DaemonInvariant, PTL DEF FilesAreTrue

(* Whoever has the port of a start that fails at the bind is stopping,        *)
(* starting or not alone: a daemon that serves on its own files is killed by  *)
(* the takeover, or waited for, before the bind.                              *)
THEOREM NobodyIsTurnedAwayOtherwise == Spec => TurnedAwayOnlyInRaces
<1> DEFINE Raced(h) == ~running[h] \/ pc[h] \in Publishing \/ h \in contested
           OnlyRaces == \A d, h \in Procs :
             BindFails(d) /\ bound[h] /\ port[h] = port[d] => Raced(h)
<1>1. DaemonInv /\ [Next]_vars => [OnlyRaces]_vars
  <2> SUFFICES ASSUME DaemonInv, NEW d \in Procs, NEW h \in Procs, pc[d] = "bind", bound[h]
               PROVE  Raced(h)
    BY DEF BindFails
  <2>1. SUFFICES ASSUME ~Raced(h) PROVE FALSE OBVIOUS
  <2>2. Owner(h) BY <2>1 DEF DaemonInv, ProcessesInStep, Owner
  <2>3. Alive(d) /\ d # h BY <2>2 DEF DaemonInv, ProcessesInStep, Owner
  <2> QED BY <2>2, <2>3 DEF DaemonInv, OwnerIsKnown
<1> QED BY DaemonInvariant, <1>1, PTL DEF Spec, TurnedAwayOnlyInRaces

-----------------------------------------------------------------------------
(***************************************************************************)
(* Theorems about Settings, which the processes of Daemon read and rewrite *)
(* at their start, for any number of toggles.  SettingsInv is inductive: a *)
(* text on its way to the file has the fields that count, and outside an   *)
(* overlap one toggle at a time holds the flag's value.                    *)
(***************************************************************************)

USE SettingsAssumption
USE DEF Handled, Rewriting, HalfWritten, Writing, Agree, daemonVars, toggleVars,
        Missing, Broken, Scalar, Default, NoObject, Object

(* A rewritten document has the value that was sent, and its other fields.    *)
LEMMA UpdateKeepsFields ==
  ASSUME NEW c \in Contents, NEW v
  PROVE  /\ Updated(c, v) \in Contents
         /\ Updated(c, v).kind = "object"
         /\ Updated(c, v).exp = ValueOf(v)
         /\ Updated(c, v).fields = c.fields
BY DEF Contents, Fields, Updated, ValueOf

-----------------------------------------------------------------------------
(* Settings: the user's editor, a process that starts, and the ends of processes *)

LEMMA SaveKeeps ==
  ASSUME SettingsInv, Save
  PROVE  SettingsInv'
<1>1. SettingsTypeOK'
  <2>1. file' \in ByHand BY DEF Save
  <2>2. file' \in Contents /\ saved' \in Fields /\ saves' \in 0 .. MaxSaves
    BY <2>1 DEF Save, SettingsInv, SettingsTypeOK, ByHand, Contents, Fields
  <2>3. spoilt' \in BOOLEAN /\ peeked' \in BOOLEAN /\ crossed' \in BOOLEAN BY Zenon DEF Save
  <2> QED BY <2>2, <2>3 DEF SettingsInv, SettingsTypeOK, Save
<1>2. TextsAreMeant'
  BY DEF SettingsInv, SettingsTypeOK, TextsAreMeant, Save
<1>3. FieldsAreKept'
  BY DEF SettingsInv, SettingsTypeOK, FieldsAreKept, Contents, Fields, Keeps, Save
<1>4. FlagIsKept'
  BY DEF SettingsInv, SettingsTypeOK, TextsAreMeant, FlagIsKept, ValueOf, Save
<1> QED BY <1>1, <1>2, <1>3, <1>4 DEF SettingsInv

LEMMA StartLoadingKeeps ==
  ASSUME SettingsInv, StartLoading
  PROVE  SettingsInv'
<1>1. SettingsTypeOK'
  BY DEF SettingsInv, SettingsTypeOK, StarterPcs, TogglePcs, Contents, Fields, StartLoading
<1>2. TextsAreMeant'
  BY DEF SettingsInv, SettingsTypeOK, TextsAreMeant, StartLoading
<1>3. FieldsAreKept'
  BY DEF SettingsInv, SettingsTypeOK, FieldsAreKept, Contents, Fields, Keeps, StartLoading
<1>4. FlagIsKept'
  <2> SUFFICES ASSUME up, ~spoilt, ~peeked, ~crossed, \A r \in Toggles : ~Handled(toggle[r])
              PROVE FlagIsKept'
    BY DEF FlagIsKept, StartLoading
  <2> QED BY DEF SettingsInv, SettingsTypeOK, FlagIsKept, StartLoading
<1> QED BY <1>1, <1>2, <1>3, <1>4 DEF SettingsInv

LEMMA CheckExistsKeeps ==
  ASSUME SettingsInv, CheckExists
  PROVE  SettingsInv'
<1>1. SettingsTypeOK'
  BY DEF SettingsInv, SettingsTypeOK, StarterPcs, TogglePcs, Contents, Fields, CheckExists
<1>2. TextsAreMeant'
  BY DEF SettingsInv, SettingsTypeOK, TextsAreMeant, CheckExists
<1>3. FieldsAreKept'
  BY DEF SettingsInv, SettingsTypeOK, FieldsAreKept, Contents, Fields, Keeps, CheckExists
<1>4. FlagIsKept'
  BY DEF SettingsInv, SettingsTypeOK, TextsAreMeant, FlagIsKept, ValueOf, CheckExists
<1> QED BY <1>1, <1>2, <1>3, <1>4 DEF SettingsInv

LEMMA ReadConfigKeeps ==
  ASSUME SettingsInv, ReadConfig
  PROVE  SettingsInv'
<1> PICK c \in {file, Broken} :
      /\ judged' = IF Parses(c) /\ ~Valid(c) THEN Missing ELSE c
      /\ starter' = CASE ~Parses(c) -> "remove"
                      [] Valid(c)   -> "loaded"
                      [] OTHER      -> "off"
      /\ saved' = IF c.fields = "mistyped" THEN "none" ELSE saved
      /\ spoilt' = (spoilt \/ c.fields # file.fields)
  BY DEF ReadConfig
<1>1. SettingsTypeOK'
  <2>1. Missing \in Contents /\ Broken \in Contents /\ "none" \in Fields BY DEF Contents, Fields
  <2>2. judged' \in Contents /\ saved' \in Fields BY <2>1 DEF SettingsInv, SettingsTypeOK
  <2>3. spoilt' \in BOOLEAN BY Zenon
  <2>4. peeked' \in BOOLEAN BY Zenon DEF ReadConfig
  <2>5. starter' \in StarterPcs BY DEF StarterPcs
  <2> QED BY <2>2, <2>3, <2>4, <2>5 DEF SettingsInv, SettingsTypeOK, ReadConfig
<1>2. TextsAreMeant'
  BY DEF SettingsInv, SettingsTypeOK, TextsAreMeant, ReadConfig
<1>3. FieldsAreKept'
  <2> SUFFICES ASSUME ~spoilt', ~peeked' PROVE FieldsAreKept'
    BY DEF FieldsAreKept
  <2>1. ~spoilt /\ ~peeked /\ ~HalfWritten /\ c.fields = file.fields BY DEF ReadConfig
  <2>2. starter = "read" /\ UNCHANGED <<file, toggle, text>> BY DEF ReadConfig
  <2>3. file.fields = saved \/ (~Keeps(saved) /\ file.fields \in {"none", "mistyped"})
    BY <2>1 DEF SettingsInv, FieldsAreKept, Keeps
  <2>4. Rewriting' => ~Keeps(saved')
    <3>1. ~Parses(c) /\ c \in Contents => c.fields \in {"none", "mistyped"}
      BY DEF Contents, Fields, Parses
    <3>2. c \in Contents BY DEF SettingsInv, SettingsTypeOK, Contents
    <3> QED BY <2>1, <2>2, <2>3, <3>1, <3>2 DEF Keeps
  <2>5. \A f : Agree(f) => Agree(f)' \/ c.fields = "mistyped" BY DEF Keeps
  <2>6. ASSUME c.fields = "mistyped", NEW f, Agree(f) PROVE Agree(f)'
    BY <2>1, <2>3, <2>6 DEF Keeps
  <2> QED BY <2>1, <2>2, <2>4, <2>5, <2>6 DEF SettingsInv, FieldsAreKept
<1>4. FlagIsKept'
  BY DEF SettingsInv, SettingsTypeOK, TextsAreMeant, FlagIsKept, ValueOf, ReadConfig
<1> QED BY <1>1, <1>2, <1>3, <1>4 DEF SettingsInv

LEMMA RemoveConfigKeeps ==
  ASSUME SettingsInv, RemoveConfig
  PROVE  SettingsInv'
<1>1. SettingsTypeOK'
  BY DEF SettingsInv, SettingsTypeOK, StarterPcs, TogglePcs, Contents, Fields, RemoveConfig
<1>2. TextsAreMeant'
  BY DEF SettingsInv, SettingsTypeOK, TextsAreMeant, RemoveConfig
<1>3. FieldsAreKept'
  BY DEF SettingsInv, SettingsTypeOK, FieldsAreKept, Contents, Fields, Keeps, RemoveConfig
<1>4. FlagIsKept'
  BY DEF SettingsInv, SettingsTypeOK, TextsAreMeant, FlagIsKept, ValueOf, RemoveConfig
<1> QED BY <1>1, <1>2, <1>3, <1>4 DEF SettingsInv

LEMMA CreateDefaultKeeps ==
  ASSUME SettingsInv, CreateDefault
  PROVE  SettingsInv'
<1>1. SettingsTypeOK'
  BY DEF SettingsInv, SettingsTypeOK, StarterPcs, TogglePcs, Contents, Fields, CreateDefault
<1>2. TextsAreMeant'
  BY DEF SettingsInv, SettingsTypeOK, TextsAreMeant, CreateDefault
<1>3. FieldsAreKept'
  <2> SUFFICES ASSUME ~spoilt, ~peeked, \A r \in Toggles : ~Writing(r) PROVE FieldsAreKept'
    BY DEF FieldsAreKept, CreateDefault
  <2> QED BY DEF SettingsInv, SettingsTypeOK, FieldsAreKept, CreateDefault
<1>4. FlagIsKept'
  BY DEF SettingsInv, SettingsTypeOK, TextsAreMeant, FlagIsKept, ValueOf, CreateDefault
<1> QED BY <1>1, <1>2, <1>3, <1>4 DEF SettingsInv

LEMMA FillDefaultKeeps ==
  ASSUME SettingsInv, FillDefault
  PROVE  SettingsInv'
<1>1. SettingsTypeOK'
  BY DEF SettingsInv, SettingsTypeOK, StarterPcs, TogglePcs, Contents, Fields, FillDefault
<1>2. TextsAreMeant'
  BY DEF SettingsInv, SettingsTypeOK, TextsAreMeant, FillDefault
<1>3. FieldsAreKept'
  BY DEF SettingsInv, SettingsTypeOK, FieldsAreKept, Contents, Fields, Keeps, FillDefault
<1>4. FlagIsKept'
  BY DEF SettingsInv, SettingsTypeOK, TextsAreMeant, FlagIsKept, ValueOf, FillDefault
<1> QED BY <1>1, <1>2, <1>3, <1>4 DEF SettingsInv

LEMMA TakeOverKeeps ==
  ASSUME SettingsInv, TakeOver
  PROVE  SettingsInv'
<1>1. SettingsTypeOK'
  BY DEF SettingsInv, SettingsTypeOK, StarterPcs, TogglePcs, Contents, Fields, TakeOver
<1>2. TextsAreMeant'
  BY DEF SettingsInv, SettingsTypeOK, TextsAreMeant, TakeOver
<1>3. FieldsAreKept'
  <2> SUFFICES ASSUME ~spoilt, ~peeked, ~HalfWritten PROVE FieldsAreKept'
    BY DEF FieldsAreKept, TakeOver
  <2> QED BY DEF SettingsInv, SettingsTypeOK, FieldsAreKept, TakeOver
<1>4. FlagIsKept'
  BY DEF SettingsInv, SettingsTypeOK, TextsAreMeant, FlagIsKept, ValueOf, TakeOver
<1> QED BY <1>1, <1>2, <1>3, <1>4 DEF SettingsInv

LEMMA StarterDiesKeeps ==
  ASSUME SettingsInv, StarterDies
  PROVE  SettingsInv'
<1>1. SettingsTypeOK'
  BY DEF SettingsInv, SettingsTypeOK, StarterPcs, TogglePcs, Contents, Fields, StarterDies
<1>2. TextsAreMeant'
  BY DEF SettingsInv, SettingsTypeOK, TextsAreMeant, StarterDies
<1>3. FieldsAreKept'
  BY DEF SettingsInv, SettingsTypeOK, FieldsAreKept, Contents, Fields, Keeps, StarterDies
<1>4. FlagIsKept'
  BY DEF SettingsInv, SettingsTypeOK, TextsAreMeant, FlagIsKept, ValueOf, StarterDies
<1> QED BY <1>1, <1>2, <1>3, <1>4 DEF SettingsInv

LEMMA DaemonDiesKeeps ==
  ASSUME SettingsInv, DaemonDies
  PROVE  SettingsInv'
<1>1. SettingsTypeOK'
  <2>1. spoilt' = (spoilt \/ HalfWritten) BY DEF DaemonDies
  <2>2. spoilt' \in BOOLEAN BY <2>1, Zenon
  <2>3. /\ toggle' = [q \in Toggles |-> "idle"]
        /\ text' = [q \in Toggles |-> Missing] /\ up' = FALSE
        /\ UNCHANGED <<file, starter, judged, flag, want, saves, saved, peeked, crossed>>
    BY DEF DaemonDies
  <2>4. Missing \in Contents BY DEF Contents
  <2> QED BY <2>2, <2>3, <2>4 DEF SettingsInv, SettingsTypeOK, TogglePcs
<1>2. TextsAreMeant'
  BY DEF SettingsInv, SettingsTypeOK, TextsAreMeant, DaemonDies
<1>3. FieldsAreKept'
  <2> SUFFICES ASSUME ~spoilt, ~peeked, ~HalfWritten PROVE FieldsAreKept'
    BY DEF FieldsAreKept, DaemonDies
  <2> QED BY DEF SettingsInv, SettingsTypeOK, FieldsAreKept, DaemonDies
<1>4. FlagIsKept'
  BY DEF SettingsInv, SettingsTypeOK, TextsAreMeant, FlagIsKept, ValueOf, DaemonDies
<1> QED BY <1>1, <1>2, <1>3, <1>4 DEF SettingsInv

-----------------------------------------------------------------------------
(* Settings: a toggle, from the frontend to the file *)

LEMMA SendKeeps ==
  ASSUME SettingsInv, NEW r \in Toggles, SendToggle(r)
  PROVE  SettingsInv'
<1>1. SettingsTypeOK'
  BY DEF SettingsInv, SettingsTypeOK, StarterPcs, TogglePcs, Contents, Fields, SendToggle
<1>2. TextsAreMeant'
  BY DEF SettingsInv, SettingsTypeOK, TextsAreMeant, SendToggle
<1>3. FieldsAreKept'
  BY DEF SettingsInv, SettingsTypeOK, FieldsAreKept, Contents, Fields, Keeps, SendToggle
<1>4. FlagIsKept'
  BY DEF SettingsInv, SettingsTypeOK, TextsAreMeant, FlagIsKept, ValueOf, SendToggle
<1> QED BY <1>1, <1>2, <1>3, <1>4 DEF SettingsInv

LEMMA SetExperimentalKeeps ==
  ASSUME SettingsInv, NEW r \in Toggles, SetExperimental(r)
  PROVE  SettingsInv'
<1>1. SettingsTypeOK'
  BY DEF SettingsInv, SettingsTypeOK, StarterPcs, TogglePcs, Contents, Fields, SetExperimental
<1>2. TextsAreMeant'
  BY DEF SettingsInv, SettingsTypeOK, TextsAreMeant, SetExperimental
<1>3. FieldsAreKept'
  BY DEF SettingsInv, SettingsTypeOK, FieldsAreKept, Contents, Fields, Keeps, SetExperimental
<1>4. FlagIsKept'
  <2> SUFFICES ASSUME starter = "off", \A q \in Toggles : ~Handled(toggle[q])
              PROVE FlagIsKept'
    BY DEF FlagIsKept, SetExperimental
  <2> QED BY DEF SettingsInv, SettingsTypeOK, FlagIsKept, SetExperimental
<1> QED BY <1>1, <1>2, <1>3, <1>4 DEF SettingsInv

LEMMA NoDaemonKeeps ==
  ASSUME SettingsInv, NEW r \in Toggles, NoDaemon(r)
  PROVE  SettingsInv'
<1>1. SettingsTypeOK'
  BY DEF SettingsInv, SettingsTypeOK, StarterPcs, TogglePcs, Contents, Fields, NoDaemon
<1>2. TextsAreMeant'
  BY DEF SettingsInv, SettingsTypeOK, TextsAreMeant, NoDaemon
<1>3. FieldsAreKept'
  BY DEF SettingsInv, SettingsTypeOK, FieldsAreKept, Contents, Fields, Keeps, NoDaemon
<1>4. FlagIsKept'
  BY DEF SettingsInv, SettingsTypeOK, TextsAreMeant, FlagIsKept, ValueOf, NoDaemon
<1> QED BY <1>1, <1>2, <1>3, <1>4 DEF SettingsInv

LEMMA ReadForUpdateKeeps ==
  ASSUME SettingsInv, NEW r \in Toggles, ReadForUpdate(r)
  PROVE  SettingsInv'
<1>1. CASE /\ toggle' = [toggle EXCEPT ![r] = "idle"] /\ crossed' = TRUE
           /\ UNCHANGED <<text, spoilt>>
  <2>1. SettingsTypeOK'
    <3>1. peeked' \in BOOLEAN BY Zenon DEF ReadForUpdate
    <3>2. toggle' \in [Toggles -> TogglePcs] BY <1>1 DEF SettingsInv, SettingsTypeOK, TogglePcs
    <3>3. UNCHANGED <<file, starter, judged, daemonVars, want, saves, saved>> BY DEF ReadForUpdate
    <3> QED BY <1>1, <3>1, <3>2, <3>3 DEF SettingsInv, SettingsTypeOK
  <2>2. TextsAreMeant'
    BY <1>1 DEF SettingsInv, SettingsTypeOK, TextsAreMeant, ReadForUpdate
  <2>3. FieldsAreKept'
    <3> SUFFICES ASSUME ~spoilt, ~peeked, ~HalfWritten PROVE FieldsAreKept'
      BY <1>1 DEF FieldsAreKept, ReadForUpdate
    <3> QED BY <1>1 DEF SettingsInv, SettingsTypeOK, FieldsAreKept, ReadForUpdate
  <2>4. FlagIsKept' BY <1>1 DEF FlagIsKept
  <2> QED BY <2>1, <2>2, <2>3, <2>4 DEF SettingsInv
<1>2. ASSUME NEW c \in {file, Broken},
             /\ toggle' = [toggle EXCEPT ![r] = "truncate"]
             /\ text' = [text EXCEPT ![r] = Updated(c, want[r])]
             /\ spoilt' = (spoilt \/ c.fields # file.fields)
             /\ UNCHANGED crossed
      PROVE  SettingsInv'
  <2>1. c \in Contents BY DEF SettingsInv, SettingsTypeOK, Contents
  <2>2. /\ Updated(c, want[r]) \in Contents
        /\ Updated(c, want[r]).kind = "object" /\ Updated(c, want[r]).exp = ValueOf(want[r])
        /\ Updated(c, want[r]).fields = c.fields
    BY <2>1, UpdateKeepsFields
  <2>3. UNCHANGED <<file, starter, judged, daemonVars, want, saves, saved>> /\ toggle[r] = "read"
    BY DEF ReadForUpdate
  <2>4. SettingsTypeOK'
    <3>1. peeked' \in BOOLEAN BY Zenon DEF ReadForUpdate
    <3>2. spoilt' \in BOOLEAN BY <1>2, Zenon
    <3>3. toggle' \in [Toggles -> TogglePcs] /\ text' \in [Toggles -> Contents]
      BY <1>2, <2>2 DEF SettingsInv, SettingsTypeOK, TogglePcs
    <3> QED BY <1>2, <2>3, <3>1, <3>2, <3>3 DEF SettingsInv, SettingsTypeOK
  <2>5. TextsAreMeant'
    BY <1>2, <2>2, <2>3 DEF SettingsInv, SettingsTypeOK, TextsAreMeant
  <2>6. FieldsAreKept'
    <3> SUFFICES ASSUME ~spoilt, ~peeked, ~HalfWritten, c.fields = file.fields
                 PROVE  FieldsAreKept'
      BY <1>2 DEF FieldsAreKept, ReadForUpdate
    <3> QED BY <1>2, <2>2, <2>3 DEF SettingsInv, SettingsTypeOK, FieldsAreKept
  <2>7. FlagIsKept'
    <3> SUFFICES ASSUME up', ~spoilt', ~peeked', ~crossed' PROVE FlagIsKept'
      BY DEF FlagIsKept
    <3>1. up /\ ~spoilt BY <1>2, <2>3, Zenon
    <3>2. ~crossed BY <1>2, Zenon
    <3>3. ~peeked BY Zenon DEF ReadForUpdate
    <3> QED BY <1>2, <2>3, <3>1, <3>2, <3>3 DEF SettingsInv, SettingsTypeOK, FlagIsKept
  <2> QED BY <2>4, <2>5, <2>6, <2>7 DEF SettingsInv
<1> QED BY <1>1, <1>2 DEF ReadForUpdate

LEMMA TruncateKeeps ==
  ASSUME SettingsInv, NEW r \in Toggles, Truncate(r)
  PROVE  SettingsInv'
<1>1. SettingsTypeOK'
  BY DEF SettingsInv, SettingsTypeOK, StarterPcs, TogglePcs, Contents, Fields, Truncate
<1>2. TextsAreMeant'
  BY DEF SettingsInv, SettingsTypeOK, TextsAreMeant, Truncate
<1>3. FieldsAreKept'
  BY DEF SettingsInv, SettingsTypeOK, FieldsAreKept, Contents, Fields, Keeps, Truncate
<1>4. FlagIsKept'
  BY DEF SettingsInv, SettingsTypeOK, TextsAreMeant, FlagIsKept, ValueOf, Truncate
<1> QED BY <1>1, <1>2, <1>3, <1>4 DEF SettingsInv

LEMMA FillKeeps ==
  ASSUME SettingsInv, NEW r \in Toggles, Fill(r)
  PROVE  SettingsInv'
<1>1. SettingsTypeOK'
  BY DEF SettingsInv, SettingsTypeOK, StarterPcs, TogglePcs, Contents, Fields, Fill
<1>2. TextsAreMeant'
  BY DEF SettingsInv, SettingsTypeOK, TextsAreMeant, Fill
<1>3. FieldsAreKept'
  BY DEF SettingsInv, SettingsTypeOK, FieldsAreKept, Contents, Fields, Keeps, Fill
<1>4. FlagIsKept'
  BY DEF SettingsInv, SettingsTypeOK, TextsAreMeant, FlagIsKept, ValueOf, Fill
<1> QED BY <1>1, <1>2, <1>3, <1>4 DEF SettingsInv

LEMMA RewriteFailsKeeps ==
  ASSUME SettingsInv, NEW r \in Toggles, RewriteFails(r)
  PROVE  SettingsInv'
<1>1. SettingsTypeOK'
  BY DEF SettingsInv, SettingsTypeOK, StarterPcs, TogglePcs, Contents, Fields, RewriteFails
<1>2. TextsAreMeant'
  BY DEF SettingsInv, SettingsTypeOK, TextsAreMeant, RewriteFails
<1>3. FieldsAreKept'
  <2> SUFFICES ASSUME ~spoilt, ~peeked, toggle[r] = "truncate" PROVE FieldsAreKept'
    BY DEF FieldsAreKept, RewriteFails
  <2> QED BY DEF SettingsInv, SettingsTypeOK, FieldsAreKept, RewriteFails
<1>4. FlagIsKept'
  BY DEF SettingsInv, SettingsTypeOK, TextsAreMeant, FlagIsKept, ValueOf, RewriteFails
<1> QED BY <1>1, <1>2, <1>3, <1>4 DEF SettingsInv

-----------------------------------------------------------------------------
(* Settings: the theorems *)

LEMMA SettingsInitHolds == SettingsInit => SettingsInv
<1> SUFFICES ASSUME SettingsInit PROVE SettingsInv OBVIOUS
<1>1. SettingsTypeOK
  <2>1. file \in Contents /\ saved \in Fields BY DEF SettingsInit, Contents, Fields
  <2>2. Missing \in Contents BY DEF Contents
  <2>3. saves \in 0 .. MaxSaves BY DEF SettingsInit
  <2>4. spoilt \in BOOLEAN /\ peeked \in BOOLEAN /\ crossed \in BOOLEAN
        /\ up \in BOOLEAN /\ flag \in BOOLEAN
    BY DEF SettingsInit
  <2> QED BY <2>1, <2>2, <2>3, <2>4 DEF SettingsInit, SettingsTypeOK, StarterPcs, TogglePcs
<1>2. TextsAreMeant BY DEF SettingsInit, TextsAreMeant
<1>3. FieldsAreKept
  <2>1. starter = "off" /\ \A r \in Toggles : toggle[r] = "idle" BY DEF SettingsInit
  <2>2. Agree(file.fields) BY DEF SettingsInit, Agree, Keeps
  <2> QED BY <2>1, <2>2 DEF FieldsAreKept, Writing
<1>4. FlagIsKept BY DEF SettingsInit, FlagIsKept
<1> QED BY <1>1, <1>2, <1>3, <1>4 DEF SettingsInv

LEMMA SettingsStutterKeeps == SettingsInv /\ UNCHANGED settingsVars => SettingsInv'
BY DEF SettingsInv, SettingsTypeOK, TextsAreMeant, FieldsAreKept, FlagIsKept, settingsVars

LEMMA SettingsStepKeeps == SettingsInv /\ [SettingsNext]_settingsVars => SettingsInv'
<1> SUFFICES ASSUME SettingsInv, [SettingsNext]_settingsVars PROVE SettingsInv' OBVIOUS
<1>1. CASE Save BY <1>1, SaveKeeps
<1>2. CASE Starting
  BY <1>2, StartLoadingKeeps, CheckExistsKeeps, ReadConfigKeeps, RemoveConfigKeeps,
     CreateDefaultKeeps, FillDefaultKeeps, TakeOverKeeps DEF Starting
<1>3. CASE StarterDies BY <1>3, StarterDiesKeeps
<1>4. CASE DaemonDies BY <1>4, DaemonDiesKeeps
<1>5. CASE \E r \in Toggles : Toggle(r)
  <2> PICK r \in Toggles : Toggle(r) BY <1>5
  <2> QED
    BY SendKeeps, SetExperimentalKeeps, NoDaemonKeeps, ReadForUpdateKeeps, TruncateKeeps,
       FillKeeps, RewriteFailsKeeps DEF Toggle
<1>6. CASE UNCHANGED settingsVars BY <1>6, SettingsStutterKeeps
<1> QED BY <1>1, <1>2, <1>3, <1>4, <1>5, <1>6 DEF SettingsNext

(* SettingsInv holds in every state, however starts, toggles, saves and       *)
(* crashes follow one another.                                                *)
THEOREM SettingsInvariant == SettingsSpec => []SettingsInv
BY SettingsInitHolds, SettingsStepKeeps, PTL DEF SettingsSpec

(* The file is always one of the documents that the program or the user wrote. *)
THEOREM SettingsTypeCorrect == SettingsSpec => []SettingsTypeOK
<1>1. SettingsInv => SettingsTypeOK BY DEF SettingsInv
<1> QED BY <1>1, SettingsInvariant, PTL

(* load_or_create and set_experimental_builds keep the user's other fields:   *)
(* what was last saved is there after any number of toggles and starts, also  *)
(* where reads and writes fail, until a start refuses it, and it is lost only *)
(* to a reader of a half-written file, to a read that failed, to a write that *)
(* was cut off or to two that crossed.                                        *)
THEOREM EditsAlwaysSurvive == SettingsSpec => []EditsSurvive
<1>1. SettingsInv => EditsSurvive
  <2> SUFFICES ASSUME SettingsInv, ~spoilt, ~peeked, ~HalfWritten, Keeps(saved) PROVE file.fields = saved
    BY DEF EditsSurvive
  <2> QED BY DEF SettingsInv, FieldsAreKept, Keeps
<1> QED BY <1>1, SettingsInvariant, PTL

(* A restart loads the flag the daemon works with, as set_experimental sets   *)
(* both, unless toggles or a start overlapped or a write failed.              *)
THEOREM FlagIsAlwaysSaved == SettingsSpec => []FlagIsSaved
<1>1. SettingsInv => FlagIsSaved BY DEF SettingsInv, FlagIsKept, FlagIsSaved
<1> QED BY <1>1, SettingsInvariant, PTL
=============================================================================
