------------------------------- MODULE Daemon -------------------------------
(***************************************************************************)
(* The life of daemon processes around the three files in the temporary    *)
(* directory: takeover, bind, publication, shutdown and cleanup            *)
(* (util/daemon.rs, main.rs, http/server.rs), and the Electron shell that  *)
(* looks for a daemon, clears its files, spawns one and kills it           *)
(* (electron/services).  A process is known by its pid.  Processes start   *)
(* at any time, next to each other, and die at any time; a dead daemon's   *)
(* pid may go to an unrelated process.  Any file operation may fail, and   *)
(* nobody looks at the error of a removal.                                 *)
(***************************************************************************)
EXTENDS Naturals

CONSTANTS
  Procs,         \* pids of the daemons that are ever started
  Ports,         \* values of udp_port in config.json over time
  NoProc,        \* no pid: an absent file
  Garbage,       \* a pid file that does not hold a number
  MaxErrors      \* bound: removals and reads of the three files that fail, and
                 \* calls of tasklist

ASSUME ConstantsAssumption ==
  /\ NoProc \notin Procs /\ Garbage \notin Procs /\ Garbage # NoProc
  /\ MaxErrors \in Nat

VARIABLES
  os,         \* os[d]: what has pid d: "none", a "daemon", or an "other" program
  pc,         \* pc[d]: where run() is: "exited" after its cleanup, "dead" at any other end
  handler,    \* handler[d]: where the Ctrl+C thread is in cleanup
  running,    \* running[d]: the flag
  port,       \* port[d]: the configured UDP port
  bound,      \* bound[d]: the UDP socket is open
  http,       \* http[d]: the HTTP server is bound
  seen,       \* seen[d]: the pid that the takeover read, for as long as it looks at it
  files,      \* files.pid, files.port, files.http: the process each names
  kept,       \* history: the files that their daemon could not remove in the end
  shell,      \* where the Electron main process is
  found,      \* the pid that the shell read, for as long as it may be a daemon's
  child,      \* backendChild
  errors,     \* how many of these operations have failed
  contested,  \* history: who published next to another process, or was overlooked
              \* by one that could not read its pid file or name its image
  disturbed   \* history: a process was stopped or killed from outside, or could
              \* not start for reasons of its own, or its pid was given away
              \* while a takeover waited for it to go

procVars == <<os, pc, handler, running, port, bound, http, seen>>
fileVars == <<files, kept, errors>>
shellVars == <<shell, found, child>>
vars == <<procVars, fileVars, shellVars, contested, disturbed>>

Alive(d) == os[d] = "daemon"
Serving(d) == Alive(d) /\ pc[d] = "serve" /\ running[d]

Takeover == {"lookup", "wait", "rmOrphan", "rmPid", "rmPort", "rmHttp"}
Publishing == {"pubPid", "pubPort", "http"}
Final == {"endPid", "endPort", "endHttp"}
MainPcs == {"off", "read", "bind", "serve", "return", "exited", "dead"}
             \cup Takeover \cup Publishing \cup Final
HandlerPcs == {"idle", "pid", "port", "http"}
ShellPcs == {"off", "read", "alive", "image", "rmPid", "rmHttp", "rmPort",
             "spawn", "up"}
ShellWindow == {"alive", "image", "rmPid", "rmHttp", "rmPort"}

Init ==
  /\ os = [d \in Procs |-> "none"]
  /\ pc = [d \in Procs |-> "off"]
  /\ handler = [d \in Procs |-> "idle"]
  /\ running = [d \in Procs |-> TRUE]
  /\ port \in [Procs -> Ports]
  /\ bound = [d \in Procs |-> FALSE]
  /\ http = [d \in Procs |-> FALSE]
  /\ seen = [d \in Procs |-> NoProc]
  /\ files \in {[pid |-> p, port |-> NoProc, http |-> NoProc] : p \in {NoProc, Garbage}}
  /\ kept = {}
  /\ errors = 0
  /\ shell = "off"
  /\ found = NoProc
  /\ child = NoProc
  /\ contested = {}
  /\ disturbed = FALSE

GoTo(d, place) == pc' = [pc EXCEPT ![d] = place]

Error == errors < MaxErrors /\ errors' = errors + 1

\* An operation on a file that is there fails.
Errs(f) == files[f] # NoProc /\ Error

Gone(f) ==
  /\ files' = [files EXCEPT ![f] = NoProc]
  /\ kept' = kept \ {f}
  /\ UNCHANGED errors

\* fs::remove_file and unlinkSync, with the error dropped: the file may stay.
Remove(f) == Gone(f) \/ (Errs(f) /\ UNCHANGED <<files, kept>>)

\* Someone else who read the pid file, or wrote it, and may yet remove it.
Company(d) ==
  \/ \E c \in Procs \ {d} : Alive(c) /\ pc[c] # "read"
  \/ shell \in ShellWindow

-----------------------------------------------------------------------------
(* takeover_if_running *)

\* A pid file that cannot be read is taken for none.
ReadPidFile(d) ==
  /\ pc[d] = "read"
  /\ \/ /\ seen' = [seen EXCEPT ![d] = IF files.pid = Garbage THEN NoProc ELSE files.pid]
        /\ GoTo(d, CASE files.pid = NoProc -> "rmOrphan"
                     [] files.pid = Garbage -> "rmPid"
                     [] OTHER -> "lookup")
        /\ UNCHANGED <<contested, errors>>
     \/ /\ Errs("pid")
        /\ GoTo(d, "rmOrphan")
        /\ contested' = contested \cup {h \in {files.pid} : h \in Procs \ {d} /\ Alive(h)}
        /\ UNCHANGED seen
  /\ UNCHANGED <<os, handler, running, port, bound, http, files, kept, disturbed>>

\* Nobody to wait for: the files are removed next.
FilesAreStale(d) ==
  /\ seen' = [seen EXCEPT ![d] = NoProc]
  /\ GoTo(d, "rmPid")
  /\ UNCHANGED <<os, handler, running, port, bound, http, fileVars, contested, disturbed>>

\* A dead pid, or one that another program has.
LookupStale(d) ==
  /\ pc[d] = "lookup"
  /\ ~Alive(seen[d])
  /\ FilesAreStale(d)

\* The sockets close and the threads end with their process; its locals are
\* as they will be at the next start.
Dies(p) ==
  /\ os' = [os EXCEPT ![p] = "none"]
  /\ bound' = [bound EXCEPT ![p] = FALSE]
  /\ http' = [http EXCEPT ![p] = FALSE]
  /\ handler' = [handler EXCEPT ![p] = "idle"]
  /\ running' = [running EXCEPT ![p] = TRUE]
  /\ seen' = [seen EXCEPT ![p] = NoProc]
  /\ contested' = contested \ {p}

\* Mutant: the takeover does not wait for the prior instance to go.
LookupKillHasty(d) ==
  /\ pc[d] = "lookup"
  /\ Alive(seen[d])
  /\ \/ /\ Dies(seen[d])
        /\ pc' = [pc EXCEPT ![d] = "rmPid", ![seen[d]] = "dead"]
     \/ /\ GoTo(d, "rmPid")
        /\ UNCHANGED <<os, bound, http, handler, running, seen, contested>>
  /\ UNCHANGED <<port, fileVars, disturbed>>

\* The prior instance is told to die, which may fail.
LookupKill(d) ==
  /\ pc[d] = "lookup"
  /\ Alive(seen[d])
  /\ \/ /\ Dies(seen[d])
        /\ pc' = [pc EXCEPT ![d] = "wait", ![seen[d]] = "dead"]
     \/ /\ GoTo(d, "wait")
        /\ UNCHANGED <<os, bound, http, handler, running, seen, contested>>
  /\ UNCHANGED <<port, fileVars, disturbed>>

\* Mutant: the instance that died in time is reported as stuck.
WaitGoneGivesUp(d) ==
  /\ pc[d] = "wait"
  /\ os[seen[d]] = "none"
  /\ Dies(d)
  /\ GoTo(d, "dead")
  /\ UNCHANGED <<port, fileVars, disturbed>>

WaitGone(d) ==
  /\ pc[d] = "wait"
  /\ os[seen[d]] = "none"
  /\ FilesAreStale(d)

\* The process ends with an error.
Fail(d) ==
  /\ Dies(d)
  /\ GoTo(d, "dead")
  /\ UNCHANGED <<port, fileVars, disturbed>>

\* Mutant: a process that did not die is taken for gone.
WaitStuckGoesOn(d) ==
  /\ pc[d] = "wait"
  /\ os[seen[d]] # "none"
  /\ FilesAreStale(d)

WaitStuck(d) ==
  /\ pc[d] = "wait"
  /\ os[seen[d]] # "none"
  /\ Fail(d)

RemoveStale(d) ==
  /\ \/ pc[d] = "rmOrphan" /\ Remove("port") /\ GoTo(d, "bind")
     \/ pc[d] = "rmPid" /\ Remove("pid") /\ GoTo(d, "rmPort")
     \/ pc[d] = "rmPort" /\ Remove("port") /\ GoTo(d, "rmHttp")
     \/ pc[d] = "rmHttp" /\ Remove("http") /\ GoTo(d, "bind")
  /\ UNCHANGED <<os, handler, running, port, bound, http, seen, contested, disturbed>>

-----------------------------------------------------------------------------
(* run: bind, publish, serve *)

Taken(d) == \E h \in Procs : bound[h] /\ port[h] = port[d]

Bind(d) ==
  /\ pc[d] = "bind"
  /\ ~Taken(d)
  /\ bound' = [bound EXCEPT ![d] = TRUE]
  /\ GoTo(d, "pubPid")
  /\ UNCHANGED <<os, handler, running, port, http, seen, fileVars, contested, disturbed>>

BindFails(d) ==
  /\ pc[d] = "bind"
  /\ Taken(d)
  /\ Fail(d)

\* A program that is no daemon has the UDP port, or the socket refuses its
\* timeout; or, once the files are out, there can be no Ctrl+C handler: run()
\* returns an error and removes nothing.
StartFails(d) ==
  /\ pc[d] \in {"bind", "http"} /\ running[d]
  /\ Dies(d)
  /\ GoTo(d, "dead")
  /\ disturbed' = TRUE
  /\ UNCHANGED <<port, fileVars, shellVars>>

\* write_atomic renames a whole file into place or leaves what was there.  All
\* daemons use one name for the new file, so that of those which write at the
\* same time one may put another's into place.
Write(d, f) ==
  /\ \E w \in Procs : /\ Alive(w) /\ pc[w] = pc[d]
                     /\ files' = [files EXCEPT ![f] = w]
  /\ kept' = kept \ {f}
  /\ UNCHANGED errors
  /\ contested' = IF Company(d) THEN contested \cup {d} ELSE contested

WriteFails(d) ==
  /\ contested' = contested \cup {d}
  /\ UNCHANGED fileVars

\* Whether or not the files could be written, the Ctrl+C handler is set next.
PublishPid(d) ==
  /\ pc[d] = "pubPid"
  /\ \/ Write(d, "pid") /\ GoTo(d, "pubPort")
     \/ WriteFails(d) /\ GoTo(d, "http")
  /\ UNCHANGED <<os, handler, running, port, bound, http, seen, disturbed>>

PublishPort(d) ==
  /\ pc[d] = "pubPort"
  /\ Write(d, "port") \/ WriteFails(d)
  /\ GoTo(d, "http")
  /\ UNCHANGED <<os, handler, running, port, bound, http, seen, disturbed>>

\* Without an HTTP server the daemon goes on; nobody finds it by HTTP.
SpawnHttp(d) ==
  /\ pc[d] = "http"
  /\ GoTo(d, "serve")
  /\ \/ http' = [http EXCEPT ![d] = TRUE] /\ (Write(d, "http") \/ WriteFails(d))
     \/ UNCHANGED <<http, fileVars>> /\ contested' = contested \cup {d}
  /\ UNCHANGED <<os, handler, running, port, bound, seen, disturbed>>

HttpEnds(d) ==
  /\ http[d] /\ ~running[d]
  /\ http' = [http EXCEPT ![d] = FALSE]
  /\ UNCHANGED <<os, pc, handler, running, port, bound, seen, fileVars, contested, disturbed>>

\* The loop sees the flag within its 250 ms timeout; then all threads are joined,
\* the HTTP thread last.
LeaveLoop(d) ==
  /\ pc[d] = "serve"
  /\ ~running[d] /\ ~http[d]
  /\ GoTo(d, "endPid")
  /\ UNCHANGED <<os, handler, running, port, bound, http, seen, fileVars, contested, disturbed>>

\* Each file is tried once.
RemoveLast(d, f) ==
  \/ Gone(f)
  \/ Errs(f) /\ kept' = (IF files[f] = d THEN kept \cup {f} ELSE kept) /\ UNCHANGED files

\* Mutant: the cleanup at the end is left to the Ctrl+C handler.
CleanupByHandler(d) ==
  /\ pc[d] = "endPid"
  /\ handler[d] = "idle"
  /\ GoTo(d, "return")
  /\ UNCHANGED <<os, handler, running, port, bound, http, seen, fileVars, contested, disturbed>>

\* The cleanup at the end of run(); the UDP socket is still open.
Cleanup(d) ==
  /\ \/ pc[d] = "endPid" /\ RemoveLast(d, "pid") /\ GoTo(d, "endPort")
     \/ pc[d] = "endPort" /\ RemoveLast(d, "port") /\ GoTo(d, "endHttp")
     \/ pc[d] = "endHttp" /\ RemoveLast(d, "http") /\ GoTo(d, "return")
  /\ UNCHANGED <<os, handler, running, port, bound, http, seen, contested, disturbed>>

Return(d) ==
  /\ pc[d] = "return"
  /\ Dies(d)
  /\ GoTo(d, "exited")
  /\ UNCHANGED <<port, fileVars, disturbed>>

Main(d) ==
  /\ Alive(d) /\ UNCHANGED shellVars
  /\ \/ ReadPidFile(d) \/ LookupStale(d) \/ LookupKill(d) \/ WaitGone(d)
     \/ WaitStuck(d) \/ RemoveStale(d) \/ Bind(d) \/ BindFails(d)
     \/ PublishPid(d) \/ PublishPort(d) \/ SpawnHttp(d)
     \/ HttpEnds(d) \/ LeaveLoop(d) \/ Cleanup(d) \/ Return(d)

-----------------------------------------------------------------------------
(* What happens to a process from outside *)

\* main(), with a config.json that loads; its udp_port may have been edited.
\* The system may give a dead process's pid to a new daemon.
Started(d, p) ==
  /\ os[d] = "none"
  /\ os' = [os EXCEPT ![d] = "daemon"]
  /\ GoTo(d, "read")
  /\ port' = [port EXCEPT ![d] = p]
  /\ disturbed' = (disturbed \/ pc[d] # "off")
  /\ UNCHANGED <<handler, running, bound, http, seen, contested>>

Start(d) ==
  /\ d # child
  /\ \E p \in Ports : Started(d, p)
  /\ UNCHANGED <<fileVars, shellVars>>

\* The Ctrl+C handler, on a thread of its own, next to the main thread.
Signal(d) ==
  /\ Alive(d) /\ handler[d] = "idle"
  /\ pc[d] \in {"http", "serve", "return"} \cup Final
  /\ running' = [running EXCEPT ![d] = FALSE]
  /\ handler' = [handler EXCEPT ![d] = "pid"]
  /\ disturbed' = TRUE
  /\ UNCHANGED <<os, pc, port, bound, http, seen, fileVars, shellVars, contested>>

HandlerCleanup(d) ==
  /\ \/ handler[d] = "pid" /\ Remove("pid") /\ handler' = [handler EXCEPT ![d] = "port"]
     \/ handler[d] = "port" /\ Remove("port") /\ handler' = [handler EXCEPT ![d] = "http"]
     \/ handler[d] = "http" /\ Remove("http") /\ handler' = [handler EXCEPT ![d] = "idle"]
  /\ UNCHANGED <<os, pc, running, port, bound, http, seen, shellVars,
                 contested, disturbed>>

\* POST /api/updates/install drops the flag half a second later.
Install(d) ==
  /\ http[d] /\ running[d]
  /\ running' = [running EXCEPT ![d] = FALSE]
  /\ disturbed' = TRUE
  /\ UNCHANGED <<os, pc, handler, port, bound, http, seen, fileVars, shellVars, contested>>

\* A crash, TerminateProcess, or Ctrl+C before there is a handler.
Kill(d) ==
  /\ Alive(d)
  /\ Dies(d)
  /\ GoTo(d, "dead")
  /\ disturbed' = TRUE
  /\ UNCHANGED <<port, fileVars>>

Crash(d) == Kill(d) /\ UNCHANGED shellVars

\* Another program gets the pid of a dead daemon, or ends.  Node holds its
\* child's pid until it handled the exit.
Reuse(d) ==
  /\ ~Alive(d) /\ pc[d] # "off" /\ d # child
  /\ os' = [os EXCEPT ![d] = IF os[d] = "none" THEN "other" ELSE "none"]
  /\ disturbed' = (disturbed \/ \E c \in Procs : pc[c] = "wait" /\ seen[c] = d)
  /\ UNCHANGED <<pc, handler, running, port, bound, http, seen, fileVars, shellVars,
                 contested>>

-----------------------------------------------------------------------------
(* The Electron shell *)

ShellTo(place) == shell' = place

\* Only one instance gets the lock and goes on to spawnIfNeeded.
Open ==
  /\ shell = "off"
  /\ ShellTo("read")
  /\ UNCHANGED <<procVars, fileVars, found, child, contested, disturbed>>

\* Mutant: a file that holds no number is read as a pid.
ShellReadUnchecked ==
  /\ shell = "read"
  /\ found' = files.pid
  /\ ShellTo(IF files.pid = NoProc THEN "spawn" ELSE "alive")
  /\ UNCHANGED <<procVars, fileVars, child, contested, disturbed>>

\* An error, of any of the calls up to removeStaleFiles, is taken for no file.
ShellRead ==
  /\ shell = "read"
  /\ \/ /\ found' = IF files.pid = Garbage THEN NoProc ELSE files.pid
        /\ ShellTo(CASE files.pid = NoProc -> "spawn"
                     [] files.pid = Garbage -> "rmPid"
                     [] OTHER -> "alive")
        /\ UNCHANGED errors
     \/ Errs("pid") /\ ShellTo("spawn") /\ UNCHANGED found
  /\ UNCHANGED <<procVars, files, kept, child, contested, disturbed>>

IsPidAlive ==
  /\ shell = "alive"
  /\ IF os[found] = "none"
     THEN ShellTo("rmPid") /\ found' = NoProc
     ELSE ShellTo("image") /\ UNCHANGED found
  /\ UNCHANGED <<procVars, fileVars, child, contested, disturbed>>

\* A live daemon is left alone; any other process's file is stale, and so is that
\* of a process which tasklist fails to name.
IsOurDaemon ==
  /\ shell = "image"
  /\ \/ /\ ShellTo(IF Alive(found) THEN "up" ELSE "rmPid")
        /\ found' = NoProc
        /\ UNCHANGED <<contested, errors>>
     \/ /\ Error
        /\ ShellTo("rmPid")
        /\ contested' = contested \cup {d \in {found} : Alive(d)}
        /\ UNCHANGED found
  /\ UNCHANGED <<procVars, files, kept, child, disturbed>>

RemoveStaleFiles ==
  /\ \/ shell = "rmPid" /\ Remove("pid") /\ ShellTo("rmHttp")
     \/ shell = "rmHttp" /\ Remove("http") /\ ShellTo("rmPort")
     \/ shell = "rmPort" /\ Remove("port") /\ ShellTo("spawn")
  /\ UNCHANGED <<procVars, found, child, contested, disturbed>>

Spawn ==
  /\ shell = "spawn"
  /\ \E d \in Procs \ {child}, p \in Ports : Started(d, p) /\ child' = d
  /\ ShellTo("up")
  /\ UNCHANGED <<fileVars, found>>

\* There is no binary, or spawn() fails.
SpawnFails ==
  /\ shell = "spawn"
  /\ ShellTo("up")
  /\ UNCHANGED <<procVars, fileVars, found, child, contested, disturbed>>

ChildExit ==
  /\ child # NoProc /\ ~Alive(child)
  /\ child' = NoProc
  /\ UNCHANGED <<procVars, fileVars, shell, found, contested, disturbed>>

\* before-quit: the shell kills the daemon that it spawned, and no other.
Quit ==
  /\ shell = "up"
  /\ ShellTo("off")
  /\ child' = NoProc
  /\ IF child # NoProc /\ Alive(child)
     THEN Kill(child)
     ELSE UNCHANGED <<procVars, fileVars, contested, disturbed>>
  /\ found' = NoProc

Shell == ShellRead \/ IsPidAlive \/ IsOurDaemon \/ RemoveStaleFiles \/ Spawn
           \/ SpawnFails \/ ChildExit

Next ==
  \/ \E d \in Procs : \/ Main(d) \/ HandlerCleanup(d)
                      \/ Start(d) \/ StartFails(d) \/ Signal(d) \/ Install(d) \/ Crash(d) \/ Reuse(d)
  \/ Open \/ Shell \/ Quit

\* The main thread of every process is scheduled, and each of its steps changes
\* where it is or closes its server; of the Ctrl+C threads and the shell nothing
\* is asked.
Spec == Init /\ [][Next]_vars /\ \A d \in Procs : WF_<<pc[d], http[d]>>(Main(d))

-----------------------------------------------------------------------------
(* Properties *)

TypeOK ==
  /\ os \in [Procs -> {"none", "daemon", "other"}]
  /\ pc \in [Procs -> MainPcs]
  /\ handler \in [Procs -> HandlerPcs]
  /\ running \in [Procs -> BOOLEAN]
  /\ port \in [Procs -> Ports]
  /\ bound \in [Procs -> BOOLEAN]
  /\ http \in [Procs -> BOOLEAN]
  /\ seen \in [Procs -> Procs \cup {NoProc}]
  /\ files \in [pid : Procs \cup {NoProc, Garbage}, port : Procs \cup {NoProc},
                http : Procs \cup {NoProc}]
  /\ kept \subseteq DOMAIN files
  /\ errors \in 0 .. MaxErrors
  /\ shell \in ShellPcs
  /\ found \in Procs \cup {NoProc}
  /\ child \in Procs \cup {NoProc}
  /\ contested \subseteq Procs
  /\ disturbed \in BOOLEAN

\* A daemon that serves, and that published alone, is found by all three of
\* its files: whatever starts, fails, crashes or is killed around it, no
\* takeover, cleanup or shell removes the files of a daemon that lives on.
Discoverable ==
  \A d \in Procs :
    Serving(d) /\ d \notin contested =>
      files = [pid |-> d, port |-> d, http |-> d]

\* Of the files that name a daemon which returned from run(), its own last
\* removal failed: nothing else brings one back or spares it, although Ctrl+C
\* may come while the files are still being written, and other daemons write
\* and remove them under the same names.
ExitLeavesNoFile ==
  \A d \in Procs : pc[d] = "exited" => \A f \in DOMAIN files \ kept : files[f] # d

\* The files name a daemon for as long as it lives, and no longer if they can be
\* removed.
FilesAreTrue == Discoverable /\ ExitLeavesNoFile

\* A daemon that has the UDP port of a start which fails at the bind is shutting
\* down, or is starting next to it, or lost its files or was overlooked: it is
\* never one that the takeover should have seen.
TurnedAwayOnlyInRaces ==
  [][\A d, h \in Procs :
       BindFails(d) /\ bound[h] /\ port[h] = port[d] =>
         ~running[h] \/ pc[h] \in Publishing \/ h \in contested]_vars

\* However many daemons start at once and kill each other, one of them comes
\* to serve, unless someone outside stops or kills one or starts it again, or
\* one cannot start for other reasons.
SomeoneServes ==
  (\E d \in Procs : pc[d] = "read") ~> (disturbed \/ \E d \in Procs : Serving(d))

-----------------------------------------------------------------------------
(* The inductive invariant behind the safety properties. *)

Ended == {"off", "exited", "dead"}
Stopping == {"return"} \cup Final

\* What a process has, by where it is.
ProcessesInStep ==
  \A d \in Procs :
    /\ Alive(d) <=> pc[d] \notin Ended
    /\ ~Alive(d) => /\ ~http[d] /\ handler[d] = "idle" /\ running[d]
                    /\ seen[d] = NoProc /\ d \notin contested
    /\ bound[d] <=> pc[d] \in Publishing \cup {"serve"} \cup Stopping
    /\ pc[d] \in {"lookup", "wait"} => seen[d] \in Procs
    /\ running[d] => handler[d] = "idle" /\ pc[d] \notin Stopping
    /\ handler[d] # "idle" => pc[d] \in {"http", "serve"} \cup Stopping

ShellInStep == shell \in {"alive", "image"} => found \in Procs

\* A daemon that published its pid alone and was not told to stop.
Owner(d) ==
  Alive(d) /\ running[d] /\ d \notin contested /\ pc[d] \in {"pubPort", "http", "serve"}

\* Its files are its own, and whoever could remove them looks at it first.
OwnerIsKnown ==
  \A d \in Procs : Owner(d) =>
    /\ files.pid = d
    /\ pc[d] # "pubPort" => files.port = d
    /\ pc[d] = "serve" => files.http = d
    /\ \A c \in Procs \ {d} :
         Alive(c) => pc[c] = "read" \/ (pc[c] \in {"lookup", "wait"} /\ seen[c] = d)
    /\ shell \in ShellWindow => shell \in {"alive", "image"} /\ found = d

\* Nobody puts a daemon's pid into place once it has published, so that what it
\* removed stays away.
RemovedInOrder ==
  \A d \in Procs :
    /\ pc[d] \in {"endPort", "endHttp", "return", "exited"} => files.pid # d \/ "pid" \in kept
    /\ pc[d] \in {"endHttp", "return", "exited"} => files.port # d \/ "port" \in kept
    /\ pc[d] \in {"return", "exited"} => files.http # d \/ "http" \in kept

DaemonInv ==
  TypeOK /\ ProcessesInStep /\ ShellInStep /\ OwnerIsKnown /\ RemovedInOrder
=============================================================================
