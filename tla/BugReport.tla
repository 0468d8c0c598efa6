----------------------------- MODULE BugReport ------------------------------
(***************************************************************************)
(* A bug report, from the button (useBugReport.ts) through the Electron    *)
(* main process (bug-report.js) and the daemon's route (bug_report.rs) to  *)
(* the log files and back to a zip on the desktop.                         *)
(***************************************************************************)
EXTENDS Bridge, FileLog

VARIABLES
  enabled,  \* enable_file_logging of the daemon
  button,   \* what the button shows; anything but idle and requesting dwells
  job,      \* runBugReport: its step, and the port that it found
  zip       \* the file on the desktop: none, part of it, or the bundle

reportVars == <<enabled, button, job, zip>>

NoJob == [step |-> "none", port |-> NoPort]

ReportInit ==
  /\ enabled \in BOOLEAN
  /\ button = "idle" /\ job = NoJob /\ zip = "none"

\* The button is disabled unless it is idle.
Run ==
  /\ button = "idle"
  /\ button' = "requesting"
  /\ job' = [job EXCEPT !.step = "port"]
  /\ UNCHANGED <<enabled, zip, logVars>>

Show(result) == button' = result /\ job' = NoJob

ReadPort ==
  /\ job.step = "port" /\ portFile # NoPort
  /\ job' = [step |-> "sent", port |-> portFile]
  /\ UNCHANGED <<enabled, button, zip, logVars>>

\* Three seconds without a port file.
NoPortFound ==
  /\ job.step = "port" /\ portFile = NoPort
  /\ Show("error_network")
  /\ UNCHANGED <<enabled, zip, logVars>>

Handler ==
  /\ job.step = "sent" /\ Answers(job.port)
  /\ IF enabled THEN /\ job' = [job EXCEPT !.step = "building"]
                     /\ BuildBundle
                     /\ UNCHANGED button
                ELSE Show("error_logging") /\ UNCHANGED logVars
  /\ UNCHANGED <<enabled, zip>>

\* 200 with the bundle, or 500.
Respond ==
  /\ job.step = "building" /\ report.step \in {"ok", "failed"} /\ Answers(job.port)
  /\ IF report.step = "ok" THEN job' = [job EXCEPT !.step = "write"] /\ UNCHANGED button
                           ELSE Show("error_network")
  /\ UNCHANGED <<enabled, zip, logVars>>

\* Nothing listens on the port, or the daemon ended before it answered.
Network ==
  /\ \/ job.step = "sent" /\ served # job.port
     \/ job.step = "cut"
  /\ Show("error_network")
  /\ UNCHANGED <<enabled, zip, logVars>>

\* Fifteen seconds without a byte; what the daemon still builds is dropped.
Timeout ==
  /\ job.step \in {"sent", "building"}
  /\ Show("error_network")
  /\ report' = NoReport
  /\ UNCHANGED <<enabled, zip, now, channel, current, files, held, sweep, due>>

WriteZip ==
  /\ job.step = "write"
  /\ \/ zip' = "bundle" /\ Show("saved")
     \/ zip' \in {"none", "part"} /\ Show("error_network")
  /\ UNCHANGED <<enabled, logVars>>

\* The button is idle again.  Another report in the same minute has the same
\* name, and replaces this one.
DwellEnds ==
  /\ button \notin {"idle", "requesting"}
  /\ button' = "idle"
  /\ zip' = "none" /\ report' = NoReport /\ due' = {}
  /\ UNCHANGED <<enabled, job, now, channel, current, files, held, sweep>>

\* The janitor and the appender run only with file logging on.
LogWorks ==
  /\ served # NoPort /\ enabled
  /\ Logging
  /\ UNCHANGED reportVars

ReportStops ==
  /\ job' = IF job.step = "building" THEN [job EXCEPT !.step = "cut"] ELSE job
  /\ LogStops
  /\ UNCHANGED <<enabled, button, zip>>

ReportStarts ==
  /\ IF enabled THEN LogStarts ELSE UNCHANGED logVars
  /\ UNCHANGED reportVars

ReportRuns ==
  \/ ReadPort \/ NoPortFound \/ Handler \/ Respond \/ Network \/ Timeout
  \/ WriteZip \/ DwellEnds

ReportTypeOK ==
  /\ LogTypeOK /\ enabled \in BOOLEAN
  /\ button \in {"idle", "requesting", "saved", "error_logging", "error_network"}
  /\ job.step \in {"none", "port", "sent", "building", "cut", "write"}
  /\ job.port \in Ports \cup {NoPort}
  /\ zip \in {"none", "part", "bundle"}

\* Saved means that the whole bundle is on the desktop, and that it has every
\* line of the last minutes that was on disk when the daemon took the request:
\* lines from before midnight too, whatever was logged and swept meanwhile. Only
\* the lines of a file that the janitor deleted may be missing.
SavedIsWhole ==
  button = "saved" =>
    /\ zip = "bundle"
    /\ {line \in due : line[1] \in DOMAIN files} \subseteq report.out

\* The button comes back to idle whatever hangs, fails or ends on the way.
ButtonComesBack == button = "requesting" ~> button = "idle"

\* Once nothing holds the files and nothing more is logged, the janitor brings
\* them under the quota, or leaves one file.
QuotaEnforced ==
  <>[](served # NoPort /\ enabled /\ held = {}) =>
    <>[](Size(files) <= QUOTA_BYTES \/ Cardinality(DOMAIN files) = 1)

-----------------------------------------------------------------------------
(* The inductive invariant behind SavedIsWhole. *)

\* The button waits for a job, and the bundle stays as it is until the button
\* has shown what became of it.
JobInStep ==
  /\ job \in [step : {"none", "port", "sent", "building", "cut", "write"},
              port : Ports \cup {NoPort}]
  /\ button = "requesting" <=> job.step # "none"
  /\ job.step = "write" => report.step = "ok"
  /\ button = "saved" => zip = "bundle" /\ report.step = "ok"

ReportInv == ReportTypeOK /\ LogInv /\ JobInStep
=============================================================================
