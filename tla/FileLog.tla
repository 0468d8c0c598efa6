------------------------------ MODULE FileLog -------------------------------
(***************************************************************************)
(* The daemon's log files: the lossy channel and the daily files behind    *)
(* init_logging (main.rs), the janitor that keeps them under a quota       *)
(* (log_rotation.rs), and the bug report that cuts the last minutes out of *)
(* them (services/bug_report).  A line is its time stamp, with the lines   *)
(* that continue it, and is known by its file's day and its place there;   *)
(* the size of a file is the number of its lines.  A file is written on    *)
(* its own day only and the clock does not go back, so files sorted by     *)
(* mtime are sorted by day.                                                *)
(***************************************************************************)
EXTENDS Integers, Sequences, FiniteSets

CONSTANTS
  QUOTA_BYTES, BUFFERED_LINES, WINDOW,
  DayLength, StartTime, MaxTime,
  MaxLines,  \* bound: lines on disk and in the channel
  OldFiles   \* the files that earlier runs left

Day(time) == time \div DayLength
Lines(fs) == UNION {{<<d, i>> : i \in 1..Len(fs[d])} : d \in DOMAIN fs}
Size(fs) == Cardinality(Lines(fs))

\* A line is written on the day of its stamp or later, and nothing is from the
\* future.
ASSUME LogAssumption ==
  /\ {QUOTA_BYTES, BUFFERED_LINES, WINDOW, StartTime, MaxTime, MaxLines} \subseteq Nat
  /\ DayLength \in Nat \ {0} /\ WINDOW < DayLength /\ StartTime <= MaxTime
  /\ IsFiniteSet(DOMAIN OldFiles) /\ DOMAIN OldFiles \subseteq 0..Day(StartTime)
  /\ OldFiles \in [DOMAIN OldFiles -> Seq(0..StartTime)]
  /\ \A d \in DOMAIN OldFiles : \A i \in 1..Len(OldFiles[d]) : Day(OldFiles[d][i]) <= d
  /\ Size(OldFiles) <= MaxLines

VARIABLES
  now,      \* UTC
  channel,  \* lines that the worker has not written
  current,  \* the day of the file that the worker writes
  files,    \* for each day that has a file, its lines
  held,     \* files that cannot be deleted, as another program has them open
  sweep,    \* the janitor's list, and its remaining total
  report,   \* build_bundle: files to look at, the lines cut out of them
  due       \* history: the lines that a report should have

logVars == <<now, channel, current, files, held, sweep, report, due>>

\* The appender opens the file of a day, or creates it.
Opened(fs, d, lines) ==
  [e \in DOMAIN fs \cup {d} |-> IF e \in DOMAIN fs THEN fs[e] ELSE lines]

Recent(time) == {line \in Lines(files) : files[line[1]][line[2]] >= time - WINDOW}

NoSweep == [entries |-> {}, remaining |-> 0]
NoReport == [step |-> "none", asked |-> 0, todo |-> <<>>, out |-> {}]

\* The appender opens the file of the day when it is built.
LogInit ==
  /\ now = StartTime /\ channel = <<>>
  /\ current = Day(StartTime)
  /\ files = Opened(OldFiles, current, <<>>)
  /\ held = {} /\ sweep = NoSweep
  /\ report = NoReport /\ due = {}

Tick ==
  /\ now < MaxTime
  /\ now' = now + 1
  /\ UNCHANGED <<channel, current, files, held, sweep, report, due>>

\* A line is stamped before it is queued; a full channel drops it.
Info ==
  /\ Len(channel) < BUFFERED_LINES
  /\ Size(files) + Len(channel) < MaxLines
  /\ channel' = Append(channel, now)
  /\ UNCHANGED <<now, current, files, held, sweep, report, due>>

\* The worker starts the file of a new day with the first line that it writes.
WriteLine ==
  /\ channel # <<>>
  /\ current' = Day(now)
  /\ files' = IF current' = current /\ current \in DOMAIN files
              THEN [files EXCEPT ![current] = Append(@, Head(channel))]
              ELSE IF current' = current THEN files  \* unlinked: the line is gone
              ELSE Opened(files, current', <<Head(channel)>>)
  /\ channel' = Tail(channel)
  /\ UNCHANGED <<now, held, sweep, report, due>>

\* An old file is opened or closed elsewhere.
Hold ==
  /\ \E d \in DOMAIN files \cap DOMAIN OldFiles :
       held' = IF d \in held THEN held \ {d} ELSE held \cup {d}
  /\ UNCHANGED <<now, channel, current, files, sweep, report, due>>

(* log_rotation.rs *)

Entry(d) == [day |-> d, size |-> Len(files[d])]

\* The newest file is popped off the end.
Victims == {Entry(d) : d \in {e \in DOMAIN files : \E later \in DOMAIN files : later > e}}

Sweep ==
  /\ sweep = NoSweep
  /\ Size(files) > QUOTA_BYTES
  /\ Cardinality(DOMAIN files) >= 2
  /\ sweep' = [entries |-> Victims, remaining |-> Size(files)]
  /\ UNCHANGED <<now, channel, current, files, held, report, due>>

Rest(entry, total) ==
  IF sweep.entries = {entry} THEN NoSweep
  ELSE [entries |-> sweep.entries \ {entry}, remaining |-> total]

Unlink(d) == files' = [e \in DOMAIN files \ {d} |-> files[e]]

\* Mutant: what a deleted file frees is not counted.
RemoveFileCountsNothing(entry) ==
  /\ Unlink(entry.day)
  /\ sweep' = Rest(entry, sweep.remaining)

RemoveFile(entry) ==
  /\ Unlink(entry.day)
  /\ sweep' = Rest(entry, IF sweep.remaining > entry.size THEN sweep.remaining - entry.size ELSE 0)

\* Oldest first; a file that cannot be deleted is skipped.
SweepNext ==
  /\ sweep # NoSweep
  /\ IF sweep.remaining <= QUOTA_BYTES THEN sweep' = NoSweep /\ UNCHANGED files
     ELSE \E entry \in sweep.entries :
            /\ \A other \in sweep.entries : entry.day <= other.day
            /\ IF entry.day \in held THEN sweep' = Rest(entry, sweep.remaining) /\ UNCHANGED files
               ELSE RemoveFile(entry)
  /\ UNCHANGED <<now, channel, current, held, report, due>>

(* services/bug_report *)

\* Mutant: the window is taken to lie in today's file.
TodayOnly == <<Day(now)>>

\* Yesterday's file is read only when the window reaches back into it.
FilesToRead == IF Day(now - WINDOW) < Day(now) THEN <<Day(now) - 1, Day(now)>> ELSE <<Day(now)>>

BuildBundle ==
  /\ report' = [step |-> "look", asked |-> now, todo |-> FilesToRead, out |-> {}]
  /\ due' = Recent(now)
  /\ UNCHANGED <<now, channel, current, files, held, sweep>>

\* A file that is not there is passed over.  The bundle is built when all are read.
LookForFile ==
  /\ report.step = "look"
  /\ report' = IF report.todo = <<>> THEN [report EXCEPT !.step = "ok"]
               ELSE IF Head(report.todo) \in DOMAIN files THEN [report EXCEPT !.step = "read"]
               ELSE [report EXCEPT !.todo = Tail(@)]
  /\ UNCHANGED <<now, channel, current, files, held, sweep, due>>

\* One that is gone by now fails the report.
ReadFile ==
  /\ report.step = "read"
  /\ LET d == Head(report.todo) IN
       report' = IF d \notin DOMAIN files THEN [report EXCEPT !.step = "failed"]
                 ELSE [report EXCEPT !.step = "look", !.todo = Tail(@),
                                     !.out = @ \cup {line \in Recent(report.asked) : line[1] = d}]
  /\ UNCHANGED <<now, channel, current, files, held, sweep, due>>

\* The disk fails, or the settings file cannot be read.
BundleFails ==
  /\ report.step \in {"look", "read"}
  /\ report' = [report EXCEPT !.step = "failed"]
  /\ UNCHANGED <<now, channel, current, files, held, sweep, due>>

Bundle == LookForFile \/ ReadFile \/ BundleFails
Janitor == Sweep \/ SweepNext
Logging == Tick \/ Info \/ WriteLine \/ Hold \/ Janitor \/ Bundle

\* The end of the process, by a return from main too: the guard that would
\* flush the channel is a static and is never dropped.
LogStops ==
  /\ channel' = <<>> /\ sweep' = NoSweep
  /\ report' = IF report.step = "ok" THEN report ELSE NoReport
  /\ UNCHANGED <<now, current, files, held, due>>

LogStarts ==
  /\ current' = Day(now)
  /\ files' = Opened(files, current', <<>>)
  /\ UNCHANGED <<now, channel, held, sweep, report, due>>

LogTypeOK ==
  /\ now \in StartTime..MaxTime /\ Len(channel) <= BUFFERED_LINES
  /\ current \in DOMAIN files /\ held \subseteq DOMAIN OldFiles
  /\ sweep.remaining \in 0..MaxLines
  /\ report.step \in {"none", "look", "read", "ok", "failed"}

\* A log file goes only while the files together are over the quota, and the one
\* being written never goes, also when the day ends between the janitor's
\* listing and its deletions.
OnlySpareLogsGo ==
  [][\A d \in DOMAIN files : d \notin DOMAIN files' =>
       Size(files) > QUOTA_BYTES /\ d # current]_logVars

-----------------------------------------------------------------------------
(* The inductive invariant behind OnlySpareLogsGo and the bug report's part of *)
(* PageIsHonest. *)

LogTypes ==
  /\ now \in StartTime..MaxTime
  /\ channel \in Seq(Nat) /\ Len(channel) <= BUFFERED_LINES
  /\ current \in Nat /\ current \in DOMAIN files
  /\ files \in [DOMAIN files -> Seq(Nat)]
  /\ IsFiniteSet(DOMAIN files) /\ DOMAIN files \subseteq Nat
  /\ held \subseteq DOMAIN OldFiles
  /\ sweep \in [entries : SUBSET [day : Nat, size : Nat], remaining : Nat]
  /\ report \in [step : {"none", "look", "read", "ok", "failed"}, asked : Nat,
                 todo : Seq(Int), out : SUBSET (Nat \X Nat)]
  /\ due \subseteq Nat \X Nat

\* The newest file is the worker's, and no line is in a file before its day.
DaysInOrder ==
  /\ current <= Day(now)
  /\ \A d \in DOMAIN files : d <= current
  /\ \A i \in 1..Len(channel) : channel[i] <= now
  /\ \A d \in DOMAIN files : \A i \in 1..Len(files[d]) : Day(files[d][i]) <= d

DiskIsBounded == Size(files) + Len(channel) <= MaxLines

\* The janitor's list is of files that nobody writes, with the sizes they still
\* have, and what it counts as remaining is there.
SweepIsCurrent ==
  /\ sweep.remaining <= Size(files)
  /\ \A entry \in sweep.entries :
       entry.day \in DOMAIN files /\ entry.day < current /\ entry.size = Len(files[entry.day])

Todo == {report.todo[i] : i \in 1..Len(report.todo)}

\* What a report should have it has, or is in a file that it has yet to read.
NothingLeftOut ==
  /\ \A line \in due : line[1] <= current
  /\ report.step = "read" => report.todo # <<>>
  /\ report.step = "ok" => report.todo = <<>>
  /\ report.step \in {"look", "read", "ok"} =>
       \A line \in due : line[1] \in DOMAIN files =>
         line \in report.out \/ (line \in Recent(report.asked) /\ line[1] \in Todo)

LogInv == LogTypes /\ DaysInOrder /\ DiskIsBounded /\ SweepIsCurrent /\ NothingLeftOut
=============================================================================
