------------------------------- MODULE Session -------------------------------
(***************************************************************************)
(* The serial session of the StreamCheats daemon: the supervisor thread    *)
(* that alternates between discovery and a session (main.rs), the writer   *)
(* and reader threads of each session (writer.rs, reader.rs), the          *)
(* permanent heartbeat thread (heartbeat.rs), and the main thread's        *)
(* shutdown.  They share                                                   *)
(*                                                                         *)
(*   - holder: Arc<Mutex<Option<Sender>>>, the slot every producer sends   *)
(*     through.  Each session puts its own channel's Sender there, so the  *)
(*     slot is the number of that session, or None;                        *)
(*   - running, the daemon's flag, and one sessionRunning flag a session;  *)
(*   - lines_received, the count of firmware lines.                        *)
(*                                                                         *)
(* A producer locks the slot, sends and unlocks, which is one step.  The   *)
(* heartbeat alone keeps the lock over several steps.                      *)
(***************************************************************************)
EXTENDS Naturals, Sequences

CONSTANTS
  FailureThreshold,    \* writer.rs HEARTBEAT_FAILURE_THRESHOLD
  UnansweredThreshold, \* heartbeat.rs UNANSWERED_THRESHOLD
  MaxSessions,         \* bound: sessions the supervisor opens
  MaxPending           \* bound: envelopes a channel holds

ASSUME ConstantsAssumption ==
  /\ FailureThreshold \in Nat \ {0}
  /\ UnansweredThreshold \in Nat \ {0}
  /\ MaxSessions \in Nat
  /\ MaxPending \in Nat

VARIABLES
  running,         \* the daemon's flag: Ctrl+C clears it
  mainPc,          \* the main thread: "serve", "join", "exited"
  holder,          \* the session whose Sender is in the slot, or None
  sup,             \* where the supervisor is
  cur,             \* the latest session (0: none yet)
  sessionRunning,  \* per session: its flag
  chan,            \* per session: envelopes in its mpsc channel
  writer,          \* per session: where its writer is
  reader,          \* per session: where its reader is
  inHand,          \* the envelope the writer took and is writing
  failures,        \* the writer's consecutive_heartbeat_failures
  hb,              \* the heartbeat thread: "nap", "sent", "stopped"
  hadSession,
  consecutiveMisses,
  paused,
  fresh,           \* lines_received > last_send_count
  verdicts,        \* history: the session's last heartbeat writes, ok or not
  prompts          \* history: heartbeats sent since the last firmware line

supVars    == <<sup, cur>>
writerVars == <<writer, inHand, failures, verdicts>>
hbVars     == <<hb, hadSession, consecutiveMisses, paused>>
lineVars   == <<fresh, prompts>>
vars == <<running, mainPc, holder, sessionRunning, chan, reader,
          supVars, writerVars, hbVars, lineVars>>

None     == 0
Sessions == 1..MaxSessions
Kinds    == {"heartbeat", "packet"}

SupPcs    == {"check", "discover", "backoff", "spawnWriter", "spawnReader",
              "joinWriter", "stopReader", "joinReader", "stopped"}
WriterPcs == {"unborn", "check", "recv", "write", "exit", "drain", "drained",
              "done"}
ReaderPcs == {"unborn", "read", "done"}

TypeOK ==
  /\ running \in BOOLEAN
  /\ mainPc \in {"serve", "join", "exited"}
  /\ holder \in Sessions \cup {None}
  /\ sup \in SupPcs
  /\ cur \in 0..MaxSessions
  /\ sessionRunning \in [Sessions -> BOOLEAN]
  /\ chan \in [Sessions -> Seq(Kinds)]
  /\ writer \in [Sessions -> WriterPcs]
  /\ reader \in [Sessions -> ReaderPcs]
  /\ inHand \in Kinds
  /\ failures \in Nat
  /\ hb \in {"nap", "sent", "stopped"}
  /\ hadSession \in BOOLEAN
  /\ consecutiveMisses \in Nat
  /\ paused \in BOOLEAN
  /\ fresh \in BOOLEAN
  /\ verdicts \in Seq(BOOLEAN)
  /\ prompts \in Nat

Init ==
  /\ running = TRUE
  /\ mainPc = "serve"
  /\ holder = None
  /\ sup = "check"
  /\ cur = 0
  /\ sessionRunning = [s \in Sessions |-> TRUE]
  /\ chan = [s \in Sessions |-> <<>>]
  /\ writer = [s \in Sessions |-> "unborn"]
  /\ reader = [s \in Sessions |-> "unborn"]
  /\ inHand = "packet"
  /\ failures = 0
  /\ hb = "nap"
  /\ hadSession = FALSE
  /\ consecutiveMisses = 0
  /\ paused = FALSE
  /\ fresh = FALSE
  /\ verdicts = <<>>
  /\ prompts = 0

-----------------------------------------------------------------------------
(* The slot.  The heartbeat's tick holds its lock until the tick is over.  *)

LockFree == hb # "sent"

\* Sender::send: it fails, and the envelope is lost, once the receiver is
\* gone.  The receiver lives until the writer returns.
ReceiverAlive(s) == writer[s] # "done"

Enqueue(k) ==
  chan' = IF holder # None /\ ReceiverAlive(holder)
          THEN [chan EXCEPT ![holder] = Append(@, k)]
          ELSE chan

\* DeviceController::send_serial, by any thread: with no session the packet
\* is dropped.
Send ==
  /\ mainPc # "exited"
  /\ LockFree
  /\ holder # None => Len(chan[holder]) < MaxPending
  /\ Enqueue("packet")
  /\ UNCHANGED <<running, mainPc, holder, sessionRunning, reader, supVars,
                 writerVars, hbVars, lineVars>>

-----------------------------------------------------------------------------
(* The supervisor.                                                         *)

SupCheck ==
  /\ sup = "check"
  /\ sup' = IF running THEN "discover" ELSE "stopped"
  /\ UNCHANGED <<running, mainPc, holder, sessionRunning, chan, reader, cur,
                 writerVars, hbVars, lineVars>>

DiscoverNone ==
  /\ sup = "discover"
  /\ sup' = "backoff"
  /\ UNCHANGED <<running, mainPc, holder, sessionRunning, chan, reader, cur,
                 writerVars, hbVars, lineVars>>

\* interruptible_sleep: it completes and the loop continues, or it sees the
\* flag drop and the loop breaks.
Backoff ==
  /\ sup = "backoff"
  /\ sup' \in IF running THEN {"check"} ELSE {"check", "stopped"}
  /\ UNCHANGED <<running, mainPc, holder, sessionRunning, chan, reader, cur,
                 writerVars, hbVars, lineVars>>

\* A device answered but configure_session_port failed.
ConfigureFails ==
  /\ sup = "discover"
  /\ sup' = "check"
  /\ UNCHANGED <<running, mainPc, holder, sessionRunning, chan, reader, cur,
                 writerVars, hbVars, lineVars>>

\* A device answered: a new flag, a new channel, and its sender is published
\* before the writer exists.
PublishSender ==
  /\ sup = "discover"
  /\ cur < MaxSessions
  /\ LockFree
  /\ cur' = cur + 1
  /\ holder' = cur + 1
  /\ sup' = "spawnWriter"
  /\ UNCHANGED <<running, mainPc, sessionRunning, chan, reader, writerVars,
                 hbVars, lineVars>>

SpawnWriter ==
  /\ sup = "spawnWriter"
  /\ writer' = [writer EXCEPT ![cur] = "check"]
  /\ failures' = 0
  /\ verdicts' = <<>>
  /\ sup' = "spawnReader"
  /\ UNCHANGED <<running, mainPc, holder, sessionRunning, chan, reader, cur,
                 inHand, hbVars, lineVars>>

SpawnReader ==
  /\ sup = "spawnReader"
  /\ reader' = [reader EXCEPT ![cur] = "read"]
  /\ sup' = "joinWriter"
  /\ UNCHANGED <<running, mainPc, holder, sessionRunning, chan, cur,
                 writerVars, hbVars, lineVars>>

\* Mutant: the slot is cleared without waiting for the writer.
ClearHolderEarly ==
  /\ sup = "joinWriter"
  /\ LockFree
  /\ holder' = None
  /\ sup' = "stopReader"
  /\ UNCHANGED <<running, mainPc, sessionRunning, chan, reader, cur,
                 writerVars, hbVars, lineVars>>

\* writer_thread.join() returned: the slot is cleared whoever cleared it
\* before.
ClearHolder ==
  /\ sup = "joinWriter"
  /\ writer[cur] = "done"
  /\ LockFree
  /\ holder' = None
  /\ sup' = "stopReader"
  /\ UNCHANGED <<running, mainPc, sessionRunning, chan, reader, cur,
                 writerVars, hbVars, lineVars>>

StopReader ==
  /\ sup = "stopReader"
  /\ sessionRunning' = [sessionRunning EXCEPT ![cur] = FALSE]
  /\ sup' = "joinReader"
  /\ UNCHANGED <<running, mainPc, holder, chan, reader, cur, writerVars,
                 hbVars, lineVars>>

\* reader_thread.join() returned: the last handle on the port is dropped.
JoinReader ==
  /\ sup = "joinReader"
  /\ reader[cur] = "done"
  /\ sup' = "check"
  /\ UNCHANGED <<running, mainPc, holder, sessionRunning, chan, reader, cur,
                 writerVars, hbVars, lineVars>>

Supervisor ==
  \/ SupCheck \/ DiscoverNone \/ Backoff \/ ConfigureFails \/ PublishSender
  \/ SpawnWriter \/ SpawnReader \/ ClearHolder \/ StopReader \/ JoinReader

-----------------------------------------------------------------------------
(* The writer of session s.                                                *)

WriterGoes(s, from, to) ==
  /\ writer[s] = from
  /\ writer' = [writer EXCEPT ![s] = to]

\* Mutant: the loop does not look at its session's flag.
WriterCheckRunning(s) ==
  /\ WriterGoes(s, "check", IF running THEN "recv" ELSE "exit")
  /\ UNCHANGED <<running, mainPc, holder, sessionRunning, chan, reader,
                 supVars, inHand, failures, verdicts, hbVars, lineVars>>

WriterCheck(s) ==
  /\ WriterGoes(s, "check",
                IF running /\ sessionRunning[s] THEN "recv" ELSE "exit")
  /\ UNCHANGED <<running, mainPc, holder, sessionRunning, chan, reader,
                 supVars, inHand, failures, verdicts, hbVars, lineVars>>

RecvOk(s) ==
  /\ chan[s] # <<>>
  /\ WriterGoes(s, "recv", "write")
  /\ inHand' = Head(chan[s])
  /\ chan' = [chan EXCEPT ![s] = Tail(@)]
  /\ UNCHANGED <<running, mainPc, holder, sessionRunning, reader, supVars,
                 failures, verdicts, hbVars, lineVars>>

RecvTimeout(s) ==
  /\ chan[s] = <<>>
  /\ holder = s
  /\ WriterGoes(s, "recv", "check")
  /\ UNCHANGED <<running, mainPc, holder, sessionRunning, chan, reader,
                 supVars, inHand, failures, verdicts, hbVars, lineVars>>

\* The slot held the only Sender.
RecvDisconnected(s) ==
  /\ chan[s] = <<>>
  /\ holder # s
  /\ WriterGoes(s, "recv", "exit")
  /\ UNCHANGED <<running, mainPc, holder, sessionRunning, chan, reader,
                 supVars, inHand, failures, verdicts, hbVars, lineVars>>

Verdict(ok) ==
  verdicts' = IF inHand = "heartbeat"
              THEN Append(IF Len(verdicts) = FailureThreshold
                          THEN Tail(verdicts) ELSE verdicts, ok)
              ELSE verdicts

\* Mutant: a heartbeat that got through does not reset the count.
WriteOkKeepsCount(s) ==
  /\ WriterGoes(s, "write", "check")
  /\ Verdict(TRUE)
  /\ UNCHANGED <<running, mainPc, holder, sessionRunning, chan, reader,
                 supVars, inHand, failures, hbVars, lineVars>>

WriteOk(s) ==
  /\ WriterGoes(s, "write", "check")
  /\ failures' = IF inHand = "heartbeat" THEN 0 ELSE failures
  /\ Verdict(TRUE)
  /\ UNCHANGED <<running, mainPc, holder, sessionRunning, chan, reader,
                 supVars, inHand, hbVars, lineVars>>

\* A failed packet is dropped.
PacketWriteFails(s) ==
  /\ inHand = "packet"
  /\ WriterGoes(s, "write", "check")
  /\ Verdict(FALSE)
  /\ UNCHANGED <<running, mainPc, holder, sessionRunning, chan, reader,
                 supVars, inHand, failures, hbVars, lineVars>>

HeartbeatWriteFails(s) ==
  /\ inHand = "heartbeat"
  /\ failures + 1 < FailureThreshold
  /\ WriterGoes(s, "write", "check")
  /\ failures' = failures + 1
  /\ Verdict(FALSE)
  /\ UNCHANGED <<running, mainPc, holder, sessionRunning, chan, reader,
                 supVars, inHand, hbVars, lineVars>>

StrikeOut(s) ==
  /\ inHand = "heartbeat"
  /\ failures + 1 >= FailureThreshold
  /\ WriterGoes(s, "write", "exit")
  /\ failures' = failures + 1
  /\ sessionRunning' = [sessionRunning EXCEPT ![s] = FALSE]
  /\ Verdict(FALSE)
  /\ UNCHANGED <<running, mainPc, holder, chan, reader, supVars, inHand,
                 hbVars, lineVars>>

\* Mutant: the procedure drains without withdrawing the sender.
SopKeepsSender(s) ==
  /\ ~sessionRunning[s]
  /\ running
  /\ LockFree
  /\ WriterGoes(s, "exit", "drain")
  /\ UNCHANGED <<running, mainPc, holder, sessionRunning, chan, reader,
                 supVars, inHand, failures, verdicts, hbVars, lineVars>>

\* The disconnect procedure: withdraw the sender, then drain.
SopClear(s) ==
  /\ ~sessionRunning[s]
  /\ running
  /\ LockFree
  /\ WriterGoes(s, "exit", "drain")
  /\ holder' = None
  /\ UNCHANGED <<running, mainPc, sessionRunning, chan, reader, supVars,
                 inHand, failures, verdicts, hbVars, lineVars>>

SopDrain(s) ==
  /\ writer[s] = "drain"
  /\ chan[s] # <<>>
  /\ chan' = [chan EXCEPT ![s] = Tail(@)]
  /\ UNCHANGED <<running, mainPc, holder, sessionRunning, reader, supVars,
                 writerVars, hbVars, lineVars>>

SopDrained(s) ==
  /\ chan[s] = <<>>
  /\ WriterGoes(s, "drain", "drained")
  /\ UNCHANGED <<running, mainPc, holder, sessionRunning, chan, reader,
                 supVars, inHand, failures, verdicts, hbVars, lineVars>>

\* The function returns and drops the receiver.
SopReturn(s) ==
  /\ WriterGoes(s, "drained", "done")
  /\ UNCHANGED <<running, mainPc, holder, sessionRunning, chan, reader,
                 supVars, inHand, failures, verdicts, hbVars, lineVars>>

\* The other branch: flush, leave the slot alone, return.
GracefulReturn(s) ==
  /\ sessionRunning[s] \/ ~running
  /\ WriterGoes(s, "exit", "done")
  /\ UNCHANGED <<running, mainPc, holder, sessionRunning, chan, reader,
                 supVars, inHand, failures, verdicts, hbVars, lineVars>>

WriteReturns(s) ==
  \/ WriteOk(s) \/ PacketWriteFails(s) \/ HeartbeatWriteFails(s) \/ StrikeOut(s)

WriterStep(s) ==
  \/ WriterCheck(s) \/ RecvOk(s) \/ RecvTimeout(s) \/ RecvDisconnected(s)
  \/ SopClear(s) \/ SopDrain(s) \/ SopDrained(s) \/ SopReturn(s)
  \/ GracefulReturn(s)

-----------------------------------------------------------------------------
(* The reader of session s.  A read that times out changes nothing.        *)

\* A complete line with a non-NUL byte: lines_received grows.
ReadLine(s) ==
  /\ reader[s] = "read"
  /\ fresh' = TRUE
  /\ prompts' = 0
  /\ UNCHANGED <<running, mainPc, holder, sessionRunning, chan, reader,
                 supVars, writerVars, hbVars>>

\* Any other error than a timeout: the device is gone.
ReadError(s) ==
  /\ reader[s] = "read"
  /\ sessionRunning' = [sessionRunning EXCEPT ![s] = FALSE]
  /\ reader' = [reader EXCEPT ![s] = "done"]
  /\ UNCHANGED <<running, mainPc, holder, chan, supVars, writerVars, hbVars,
                 lineVars>>

ReaderExit(s) ==
  /\ reader[s] = "read"
  /\ ~sessionRunning[s]
  /\ reader' = [reader EXCEPT ![s] = "done"]
  /\ UNCHANGED <<running, mainPc, holder, sessionRunning, chan, supVars,
                 writerVars, hbVars, lineVars>>

-----------------------------------------------------------------------------
(* The heartbeat.  A tick that sends does so in one step and reads         *)
(* lines_received again in the next: HeartbeatRecord.                      *)

HeartbeatSend ==
  /\ Enqueue("heartbeat")
  /\ hb' = "sent"

RoomForHeartbeat == holder # None => Len(chan[holder]) <= MaxPending

\* session_active && !had_session.
TickNewSession ==
  /\ hb = "nap"
  /\ running
  /\ holder # None
  /\ ~hadSession
  /\ RoomForHeartbeat
  /\ hadSession' = TRUE
  /\ consecutiveMisses' = 0
  /\ paused' = FALSE
  /\ fresh' = FALSE
  /\ HeartbeatSend
  /\ prompts' = 1
  /\ UNCHANGED <<running, mainPc, holder, sessionRunning, reader, supVars,
                 writerVars>>

TickNoSession ==
  /\ hb = "nap"
  /\ running
  /\ holder = None
  /\ hadSession' = FALSE
  /\ UNCHANGED <<running, mainPc, holder, sessionRunning, chan, reader,
                 supVars, writerVars, hb, consecutiveMisses, paused,
                 lineVars>>

\* Mutant: an answer takes one miss back.
TickAnsweredDecays ==
  /\ hb = "nap"
  /\ running
  /\ holder # None
  /\ hadSession
  /\ fresh
  /\ RoomForHeartbeat
  /\ consecutiveMisses' = consecutiveMisses - 1
  /\ paused' = FALSE
  /\ HeartbeatSend
  /\ prompts' = prompts + 1
  /\ UNCHANGED <<running, mainPc, holder, sessionRunning, reader, supVars,
                 writerVars, hadSession, fresh>>

\* delta > 0: the firmware has been talking.
TickAnswered ==
  /\ hb = "nap"
  /\ running
  /\ holder # None
  /\ hadSession
  /\ fresh
  /\ RoomForHeartbeat
  /\ consecutiveMisses' = 0
  /\ paused' = FALSE
  /\ HeartbeatSend
  /\ prompts' = prompts + 1
  /\ UNCHANGED <<running, mainPc, holder, sessionRunning, reader, supVars,
                 writerVars, hadSession, fresh>>

\* Mutant: pauses one miss too late.
TickUnansweredLate ==
  /\ hb = "nap"
  /\ running
  /\ holder # None
  /\ hadSession
  /\ ~fresh
  /\ ~paused
  /\ RoomForHeartbeat
  /\ consecutiveMisses' = consecutiveMisses + 1
  /\ paused' = (consecutiveMisses + 1 > UnansweredThreshold)
  /\ IF paused' THEN UNCHANGED <<chan, hb, prompts>>
     ELSE HeartbeatSend /\ prompts' = prompts + 1
  /\ UNCHANGED <<running, mainPc, holder, sessionRunning, reader, supVars,
                 writerVars, hadSession, fresh>>

\* delta = 0 and not yet paused: one more miss, and a heartbeat unless that
\* was the last one allowed.
TickUnanswered ==
  /\ hb = "nap"
  /\ running
  /\ holder # None
  /\ hadSession
  /\ ~fresh
  /\ ~paused
  /\ RoomForHeartbeat
  /\ consecutiveMisses' = consecutiveMisses + 1
  /\ paused' = (consecutiveMisses + 1 >= UnansweredThreshold)
  /\ IF paused' THEN UNCHANGED <<chan, hb, prompts>>
     ELSE HeartbeatSend /\ prompts' = prompts + 1
  /\ UNCHANGED <<running, mainPc, holder, sessionRunning, reader, supVars,
                 writerVars, hadSession, fresh>>

\* paused and delta = 0: stay silent.
TickPaused ==
  /\ hb = "nap"
  /\ running
  /\ holder # None
  /\ hadSession
  /\ ~fresh
  /\ paused
  /\ UNCHANGED <<running, mainPc, holder, sessionRunning, chan, reader,
                 supVars, writerVars, hb, hadSession, consecutiveMisses,
                 paused, lineVars>>

\* last_send_count = lines_received, and the lock is released.
HeartbeatRecord ==
  /\ hb = "sent"
  /\ hb' = "nap"
  /\ fresh' = FALSE
  /\ UNCHANGED <<running, mainPc, holder, sessionRunning, chan, reader,
                 supVars, writerVars, hadSession, consecutiveMisses, paused,
                 prompts>>

HeartbeatExit ==
  /\ hb = "nap"
  /\ ~running
  /\ hb' = "stopped"
  /\ UNCHANGED <<running, mainPc, holder, sessionRunning, chan, reader,
                 supVars, writerVars, hadSession, consecutiveMisses, paused,
                 lineVars>>

Tick ==
  TickNewSession \/ TickNoSession \/ TickAnswered \/ TickUnanswered \/ TickPaused

-----------------------------------------------------------------------------
(* The main thread.                                                        *)

\* Ctrl+C, or the HTTP route that installs an update.
Shutdown ==
  /\ running
  /\ running' = FALSE
  /\ UNCHANGED <<mainPc, holder, sessionRunning, chan, reader, supVars,
                 writerVars, hbVars, lineVars>>

\* The receive loop ended: clear the slot, then join.
MainClear ==
  /\ mainPc = "serve"
  /\ ~running
  /\ LockFree
  /\ holder' = None
  /\ mainPc' = "join"
  /\ UNCHANGED <<running, sessionRunning, chan, reader, supVars, writerVars,
                 hbVars, lineVars>>

MainExit ==
  /\ mainPc = "join"
  /\ hb = "stopped"
  /\ sup = "stopped"
  /\ mainPc' = "exited"
  /\ UNCHANGED <<running, holder, sessionRunning, chan, reader, supVars,
                 writerVars, hbVars, lineVars>>

\* The process is gone.
Exited ==
  /\ mainPc = "exited"
  /\ UNCHANGED vars

-----------------------------------------------------------------------------
Next ==
  \/ Send
  \/ Supervisor
  \/ \E s \in Sessions : \/ WriterStep(s) \/ WriteReturns(s)
                         \/ ReadLine(s) \/ ReadError(s) \/ ReaderExit(s)
  \/ Tick \/ HeartbeatRecord \/ HeartbeatExit
  \/ Shutdown \/ MainClear \/ MainExit \/ Exited

\* Every thread is scheduled, and discovery, the sleeps, a blocking read and
\* a blocking write all return.  Nothing makes a device answer or fail, a
\* host send, or the user stop the daemon.
Fairness ==
  /\ WF_vars(Supervisor)
  /\ \A s \in Sessions : /\ WF_vars(WriterStep(s))
                         /\ WF_vars(WriteReturns(s))
                         /\ WF_vars(ReaderExit(s))
  /\ WF_vars(Tick) /\ WF_vars(HeartbeatRecord) /\ WF_vars(HeartbeatExit)
  /\ WF_vars(MainClear) /\ WF_vars(MainExit)

Spec == Init /\ [][Next]_vars /\ Fairness

-----------------------------------------------------------------------------
(* Safety.                                                                 *)

\* writer.rs:41-46.  Once the disconnect procedure has found the channel
\* empty it stays empty: no envelope of a dead session can be left behind,
\* because the sender was withdrawn before the drain began.
DrainComplete ==
  \A s \in Sessions : writer[s] = "drained" => chan[s] = <<>> /\ holder # s

\* main.rs:463-505.  While the daemon runs, a sender in the slot belongs to
\* the latest session and has a receiver: no send is lost into a channel
\* nobody will ever read.
SenderHasReceiver ==
  running /\ holder # None => holder = cur /\ ReceiverAlive(holder)

\* main.rs:507-517.  While the supervisor is between sessions no thread of
\* any session is left, so the port it is about to probe is closed.
PortReleased ==
  sup \in {"check", "discover", "backoff", "stopped"} =>
    \A s \in Sessions : /\ writer[s] \in {"unborn", "done"}
                        /\ reader[s] \in {"unborn", "done"}

\* writer.rs:56-58.  A writer finds its channel disconnected only when the
\* daemon is shutting down: in a running daemon nobody takes the sender away
\* from a writer that is still in its loop.
DisconnectedOnlyAtShutdown ==
  \A s \in Sessions :
    writer[s] \in {"check", "recv", "write"} /\ holder # s => ~running

\* heartbeat.rs:40-44.  A device that says nothing is sent at most
\* UnansweredThreshold heartbeats before they stop.
SilentDeviceIsLeftAlone == prompts <= UnansweredThreshold

\* main.rs:803-822.  When run() returns no thread uses the port or the slot.
ExitClean ==
  mainPc = "exited" =>
    /\ holder = None
    /\ \A s \in Sessions : /\ writer[s] \in {"unborn", "done"}
                           /\ reader[s] \in {"unborn", "done"}

\* A session leaves nothing behind, at whatever point it and the daemon end:
\* no envelope, no sender without its receiver, no thread on the port, and no
\* writer whose sender somebody else took away.
TeardownIsClean ==
  /\ DrainComplete
  /\ SenderHasReceiver
  /\ PortReleased
  /\ DisconnectedOnlyAtShutdown
  /\ ExitClean

\* writer.rs:19-26.  The writer ends a session only after FailureThreshold
\* heartbeats of that very session failed one after the other, whatever
\* happened to the mouse packets between them.
StrikeOutOnlyOnHeartbeats ==
  [][\A s \in Sessions :
       writer[s] = "write" /\ sessionRunning[s] /\ writer'[s] = "exit" =>
         verdicts' = [i \in 1..FailureThreshold |-> FALSE]]_vars

-----------------------------------------------------------------------------
(* The sessions as an implementation of SerialLink.                        *)

\* The packets accepted by the latest session and not yet taken by its
\* writer.  They are gone once the writer has returned.
Waiting ==
  IF cur # 0 /\ ReceiverAlive(cur) THEN chan[cur] ELSE <<>>

Link == INSTANCE SerialLink
          WITH Packets <- Kinds, open <- holder # None, epoch <- cur,
               queue <- Waiting, stopping <- ~running

\* A session, with its publication, disconnect procedure and shutdown, keeps
\* the promises of SerialLink (writer.rs:41-46, main.rs:463-505).
ImplementsLink == Link!LinkSpec

-----------------------------------------------------------------------------
(* Liveness.                                                               *)

\* Whatever the device, the heartbeat and the supervisor are doing, a
\* shutdown ends with the process gone.
ShutdownCompletes == ~running ~> mainPc = "exited"

\* writer.rs:48-52.  A session whose flag dropped, even with heartbeats
\* paused and nothing to write, is torn down and the supervisor scans again.
DisconnectRecovers ==
  \A s \in Sessions :
    cur = s /\ ~sessionRunning[s] ~> sup = "discover" \/ ~running

\* heartbeat.rs:50-52.  A paused heartbeat resumes when the firmware talks.
PausedResumes ==
  paused /\ fresh ~> ~paused \/ holder = None \/ ~running

\* Nothing that can end is waited for in vain: a shutdown, a lost device's
\* session, and a pause.
NothingHangs == ShutdownCompletes /\ DisconnectRecovers /\ PausedResumes

-----------------------------------------------------------------------------
(* The inductive invariant behind the safety properties.                   *)

InSession == {"spawnWriter", "spawnReader", "joinWriter", "stopReader",
              "joinReader"}

\* Sessions come one after the other: the later ones are untouched, the
\* earlier ones are over.
OneAtATime ==
  \A s \in Sessions :
    /\ s > cur => writer[s] = "unborn" /\ reader[s] = "unborn" /\ chan[s] = <<>>
    /\ s < cur => writer[s] = "done" /\ reader[s] = "done"

\* How far the latest session's threads are, by where the supervisor is.
ThreadsFollowSupervisor ==
  /\ sup \in InSession => cur # 0
  /\ cur # 0 =>
       /\ sup = "spawnWriter" => writer[cur] = "unborn"
       /\ sup \in {"spawnReader", "joinWriter"} => writer[cur] # "unborn"
       /\ sup \notin {"spawnWriter", "spawnReader", "joinWriter"} =>
            writer[cur] = "done"
       /\ sup \in {"spawnWriter", "spawnReader"} => reader[cur] = "unborn"
       /\ sup \in {"joinWriter", "stopReader", "joinReader"} =>
            reader[cur] # "unborn"
       /\ sup \notin InSession => reader[cur] = "done"

\* Who may find the slot filled, and who may find it empty.
SlotOwnership ==
  /\ holder \in {None, cur}
  /\ sup \notin {"spawnWriter", "spawnReader", "joinWriter"} => holder = None
  /\ mainPc # "serve" => ~running
  /\ mainPc = "exited" => sup = "stopped"
  /\ cur # 0 =>
       /\ running /\ writer[cur] = "done" => holder = None
       /\ writer[cur] = "exit" => ~running \/ ~sessionRunning[cur]
       /\ writer[cur] \in {"drain", "drained"} => holder = None
       /\ writer[cur] = "drained" => chan[cur] = <<>>
       /\ /\ running
          /\ sup \in {"spawnWriter", "spawnReader", "joinWriter"}
          /\ writer[cur] \in {"unborn", "check", "recv", "write", "exit"}
          => holder = cur

\* Every heartbeat since the last line, but the first, cost a miss.
PromptsBounded ==
  /\ prompts <= consecutiveMisses + 1
  /\ prompts <= UnansweredThreshold
  /\ hb = "nap" /\ fresh => prompts = 0

\* The failures counted are the latest verdicts of the session.
FailuresAreVerdicts ==
  /\ Len(verdicts) <= FailureThreshold
  /\ failures <= Len(verdicts)
  /\ \A s \in Sessions :
       writer[s] \in {"check", "recv", "write"} => failures < FailureThreshold
  /\ \A i \in 1..Len(verdicts) : i + failures > Len(verdicts) => ~verdicts[i]

SafetyInv ==
  /\ OneAtATime
  /\ ThreadsFollowSupervisor
  /\ SlotOwnership
  /\ PromptsBounded
  /\ FailuresAreVerdicts
=============================================================================
