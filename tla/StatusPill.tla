----------------------------- MODULE StatusPill -----------------------------
(***************************************************************************)
(* The connection pill and the status rail: useConnectionStatus.ts and     *)
(* useHealthDetail.ts, which poll health-check.js over IPC.                *)
(***************************************************************************)
EXTENDS Bridge, Naturals, Sequences

CONSTANT FAILURE_THRESHOLD

ASSUME PillAssumption == FAILURE_THRESHOLD \in Nat \ {0}

VARIABLES
  pill,      \* status and reason
  failures,  \* failuresRef, counted up to the threshold
  probing,   \* the port that runHealthCheck asks; NoPort while the timer runs
  outcomes,  \* history: the last FAILURE_THRESHOLD results
  detail,    \* port and pid shown in the rail, or none of them
  asking,    \* the port that runHealthDetail asks
  told,      \* it answered; the pid file is read next
  pidFile    \* the daemon that streamcheats_core.pid names

pillVars == <<pill, failures, probing, outcomes>>
railVars == <<detail, asking, told, pidFile>>

NoDetail == [port |-> NoPort, pid |-> NoPort]

PillInit ==
  /\ pill = [status |-> "connecting", reason |-> "none"]
  /\ failures = 0 /\ probing = NoPort /\ outcomes = <<>>
  /\ detail = NoDetail /\ asking = NoPort /\ told = FALSE
  /\ pidFile = PagePort

Record(result) ==
  outcomes' = IF Len(outcomes) < FAILURE_THRESHOLD THEN Append(outcomes, result)
                                                   ELSE Append(Tail(outcomes), result)

Succeeded ==
  /\ failures' = 0
  /\ pill' = [status |-> "connected", reason |-> "none"]
  /\ Record("ok")

\* Below the threshold the pill stays as it is.
Failed(reason) ==
  /\ failures' = IF failures < FAILURE_THRESHOLD THEN failures + 1 ELSE failures
  /\ pill' = IF failures' < FAILURE_THRESHOLD THEN pill
             ELSE [status |-> "disconnected", reason |-> reason]
  /\ Record(reason)

\* The timer fires and the port file is read.
Poll ==
  /\ probing = NoPort
  /\ probing' = portFile
  /\ IF portFile = NoPort THEN Failed("no_port_file")
                          ELSE UNCHANGED <<pill, failures, outcomes>>

\* The answer, a refused connection, or a second without an answer.
PollEnds ==
  /\ probing # NoPort
  /\ probing' = NoPort
  /\ IF Answers(probing) THEN Succeeded ELSE Failed("probe_failed")

AskDetail ==
  /\ asking = NoPort
  /\ asking' = portFile
  /\ detail' = IF portFile = NoPort THEN NoDetail ELSE detail
  /\ UNCHANGED <<told, pidFile>>

DetailAnswered ==
  /\ asking # NoPort /\ ~told
  /\ IF Answers(asking)
     THEN told' = TRUE /\ UNCHANGED <<detail, asking>>
     ELSE detail' = NoDetail /\ asking' = NoPort /\ UNCHANGED told
  /\ UNCHANGED pidFile

\* The pid is that of the file as it is now.
ShowDetail ==
  /\ told
  /\ detail' = [port |-> asking, pid |-> pidFile]
  /\ asking' = NoPort /\ told' = FALSE
  /\ UNCHANGED pidFile

\* The daemon writes its pid as it starts, and a shutdown removes the file.
PidWritten ==
  /\ pidFile' = served'
  /\ UNCHANGED <<detail, asking, told>>

PidLeft ==
  /\ pidFile' \in {pidFile, NoPort}
  /\ UNCHANGED <<detail, asking, told>>

PillPolls == Poll \/ PollEnds
DetailPolls == AskDetail \/ DetailAnswered \/ ShowDetail

PillTypeOK ==
  /\ pill \in [status : {"connecting", "connected", "disconnected"},
               reason : {"none", "no_port_file", "probe_failed"}]
  /\ failures \in 0..FAILURE_THRESHOLD
  /\ probing \in Ports \cup {NoPort}
  /\ detail \in [port : Ports \cup {NoPort}, pid : Ports \cup {NoPort}]
  /\ asking \in Ports \cup {NoPort} /\ told \in BOOLEAN
  /\ pidFile \in Ports \cup {NoPort}

\* The pill turns red after three failures in a row and with the reason of the
\* last, and stays green through fewer: red means that every one of the last
\* three probes failed, green that one of them was answered.
PillIsHonest ==
  LET Last == {outcomes[i] : i \in 1..Len(outcomes)} IN
    /\ pill.status = "disconnected" =>
         /\ Len(outcomes) = FAILURE_THRESHOLD /\ "ok" \notin Last
         /\ pill.reason = outcomes[FAILURE_THRESHOLD]
    /\ pill.status = "connected" => "ok" \in Last
    /\ pill.status = "connecting" => "ok" \notin Last /\ Len(outcomes) < FAILURE_THRESHOLD

\* However daemons come and go: once one stays, the pill stays green, and once
\* none comes, red.
PillSettles ==
  /\ <>[]Healthy => <>[](pill.status = "connected")
  /\ <>[](served = NoPort) => <>[](pill.status = "disconnected")

\* The rail comes to show the port of the daemon that stays with its own pid,
\* and nothing when none comes.
RailSettles ==
  /\ \A p \in Ports :
       <>[](Healthy /\ served = p /\ pidFile = p) => <>[](detail = [port |-> p, pid |-> p])
  /\ <>[](served = NoPort) => <>[](detail = NoDetail)

-----------------------------------------------------------------------------
(* The inductive invariant behind PillIsHonest. *)

Results == {"ok", "no_port_file", "probe_failed"}

\* The counter is the number of results since the last answer, and the pill has
\* turned red exactly when it is at the threshold.
FailuresAreCounted ==
  /\ outcomes \in Seq(Results) /\ Len(outcomes) <= FAILURE_THRESHOLD
  /\ failures <= Len(outcomes)
  /\ \A i \in 1..Len(outcomes) : i > Len(outcomes) - failures => outcomes[i] # "ok"
  /\ failures < Len(outcomes) => outcomes[Len(outcomes) - failures] = "ok"
  /\ pill.status = "disconnected" =>
       failures = FAILURE_THRESHOLD /\ pill.reason = outcomes[FAILURE_THRESHOLD]
  /\ pill.status = "connected" => failures < Len(outcomes)
  /\ pill.status = "connecting" => failures = Len(outcomes) /\ failures < FAILURE_THRESHOLD

PillInv == PillTypeOK /\ FailuresAreCounted
=============================================================================
