--------------------------- MODULE FrontendProofs ---------------------------
(***************************************************************************)
(* The parts of the page and the log files behind the bug report: the      *)
(* inductive invariant of each part, that the types, PageIsHonest and      *)
(* OnlySpareLogsGo follow, and the lemmas about log files, days and the    *)
(* results of probes that they rest on.                                    *)
(***************************************************************************)
EXTENDS Frontend, FiniteSetTheorems, SequenceTheorems, TLAPS

-----------------------------------------------------------------------------
(* The lines of the log files *)

\* A line is known by its file's day and its place there.
LEMMA LineOf ==
  ASSUME NEW fs, NEW line
  PROVE  line \in Lines(fs) <=> \E d \in DOMAIN fs : \E i \in 1..Len(fs[d]) : line = <<d, i>>
BY DEF Lines

LEMMA LinePair ==
  ASSUME NEW fs, NEW d, NEW i
  PROVE  <<d, i>> \in Lines(fs) <=> d \in DOMAIN fs /\ i \in 1..Len(fs[d])
BY LineOf

\* A file of n lines counts for n.
LEMMA PlacesOfFile ==
  ASSUME NEW d, NEW n \in Nat
  PROVE  /\ IsFiniteSet({<<d, i>> : i \in 1..n})
         /\ Cardinality({<<d, i>> : i \in 1..n}) = n
<1> DEFINE P == {<<d, i>> : i \in 1..n}
           f == [i \in 1..n |-> <<d, i>>]
<1>1. f \in Bijection(1..n, P)
  BY DEF Bijection, Injection, Surjection, IsInjective
<1>2. IsFiniteSet(1..n) /\ Cardinality(1..n) = n BY FS_Interval
<1>3. ExistsBijection(1..n, P) BY <1>1 DEF ExistsBijection
<1> QED BY <1>2, <1>3, FS_Bijection

\* The size of the files is a number.
LEMMA LinesFinite ==
  ASSUME NEW fs, fs \in [DOMAIN fs -> Seq(Nat)], IsFiniteSet(DOMAIN fs)
  PROVE  IsFiniteSet(Lines(fs)) /\ Size(fs) \in Nat
<1> DEFINE Places(d) == {<<d, i>> : i \in 1..Len(fs[d])}
           All == {Places(d) : d \in DOMAIN fs}
           f == [d \in DOMAIN fs |-> Places(d)]
<1>1. \A d \in DOMAIN fs : Len(fs[d]) \in Nat OBVIOUS
<1>2. \A d \in DOMAIN fs : IsFiniteSet(Places(d)) BY <1>1, PlacesOfFile
<1>3. f \in Surjection(DOMAIN fs, All)
  <2> HIDE DEF Places
  <2>1. f \in [DOMAIN fs -> All] OBVIOUS
  <2>2. \A T \in All : \E d \in DOMAIN fs : f[d] = T OBVIOUS
  <2> QED BY <2>1, <2>2 DEF Surjection
<1>4. IsFiniteSet(All) BY <1>3, FS_Surjection
<1>5. \A T \in All : IsFiniteSet(T) BY <1>2
<1> HIDE DEF All
<1>6. IsFiniteSet(UNION All) BY <1>4, <1>5, FS_UNION
<1> USE DEF All
<1>7. IsFiniteSet(Lines(fs)) BY <1>6 DEF Lines
<1> QED BY <1>7, FS_CardinalityType DEF Size

\* A line is written to a file that is there.
LEMMA LineAppended ==
  ASSUME NEW fs, fs \in [DOMAIN fs -> Seq(Nat)], IsFiniteSet(DOMAIN fs),
         NEW d \in DOMAIN fs, NEW x \in Nat, NEW gs, DOMAIN gs = DOMAIN fs,
         gs[d] = Append(fs[d], x), \A e \in DOMAIN fs : e # d => gs[e] = fs[e]
  PROVE  Size(gs) = Size(fs) + 1
<1>1. /\ DOMAIN gs = DOMAIN fs /\ fs[d] \in Seq(Nat)
      /\ Len(gs[d]) = Len(fs[d]) + 1 /\ Len(fs[d]) \in Nat
      /\ \A e \in DOMAIN fs : e # d => gs[e] = fs[e]
  OBVIOUS
<1>2. Lines(gs) = Lines(fs) \cup {<<d, Len(fs[d]) + 1>>}
  <2>1. ASSUME NEW e, NEW i
        PROVE  <<e, i>> \in Lines(gs) <=> <<e, i>> \in Lines(fs) \/ (e = d /\ i = Len(fs[d]) + 1)
    <3>1. <<e, i>> \in Lines(gs) <=> e \in DOMAIN fs /\ i \in 1..Len(gs[e]) BY <1>1, LinePair
    <3>2. <<e, i>> \in Lines(fs) <=> e \in DOMAIN fs /\ i \in 1..Len(fs[e]) BY LinePair
    <3>3. CASE e = d BY <1>1, <3>1, <3>2, <3>3
    <3>4. CASE e # d BY <1>1, <3>1, <3>2, <3>4
    <3> QED BY <3>3, <3>4
  <2>2. ASSUME NEW line \in Lines(gs) PROVE line \in Lines(fs) \cup {<<d, Len(fs[d]) + 1>>}
    <3>1. PICK e \in DOMAIN gs : \E i \in 1..Len(gs[e]) : line = <<e, i>> BY LineOf
    <3> QED BY <2>1, <3>1
  <2>3. ASSUME NEW line \in Lines(fs) PROVE line \in Lines(gs)
    <3>1. PICK e \in DOMAIN fs : \E i \in 1..Len(fs[e]) : line = <<e, i>> BY LineOf
    <3> QED BY <2>1, <3>1
  <2>4. <<d, Len(fs[d]) + 1>> \in Lines(gs) BY <2>1
  <2> QED BY <2>2, <2>3, <2>4
<1>3. <<d, Len(fs[d]) + 1>> \notin Lines(fs) BY <1>1, LinePair
<1>4. IsFiniteSet(Lines(fs)) BY LinesFinite
<1> QED BY <1>2, <1>3, <1>4, FS_AddElement DEF Size

\* A new file has the lines that it starts with.
LEMMA FileAdded ==
  ASSUME NEW fs, fs \in [DOMAIN fs -> Seq(Nat)], IsFiniteSet(DOMAIN fs),
         NEW d, d \notin DOMAIN fs, NEW lines \in Seq(Nat), NEW gs,
         DOMAIN gs = DOMAIN fs \cup {d}, gs[d] = lines, \A e \in DOMAIN fs : gs[e] = fs[e]
  PROVE  Size(gs) = Size(fs) + Len(lines)
<1> DEFINE P == {<<d, i>> : i \in 1..Len(lines)}
<1>1. Len(lines) \in Nat OBVIOUS
<1>2. Lines(gs) = Lines(fs) \cup P
  <2>1. ASSUME NEW e, NEW i
        PROVE  <<e, i>> \in Lines(gs) <=> <<e, i>> \in Lines(fs) \/ <<e, i>> \in P
    BY LinePair
  <2> QED BY <2>1, LineOf
<1>3. Lines(fs) \cap P = {}
  <2>1. ASSUME NEW i \in 1..Len(lines) PROVE <<d, i>> \notin Lines(fs) BY LinePair
  <2> QED BY <2>1
<1>4. IsFiniteSet(Lines(fs)) /\ Size(fs) \in Nat BY LinesFinite
<1>5. IsFiniteSet(P) /\ Cardinality(P) = Len(lines) BY <1>1, PlacesOfFile
<1> HIDE DEF P
<1>6. Cardinality(Lines(fs) \cup P)
        = Cardinality(Lines(fs)) + Cardinality(P) - Cardinality(Lines(fs) \cap P)
  BY <1>4, <1>5, FS_Union
<1>7. Cardinality({}) = 0 BY FS_EmptySet
<1>8. Size(gs) = Cardinality(Lines(fs) \cup P) BY <1>2 DEF Size
<1>9. Size(gs) = Size(fs) + Len(lines) - 0 BY <1>3, <1>5, <1>6, <1>7, <1>8 DEF Size
<1> QED BY <1>1, <1>4, <1>9

\* A deleted file frees its lines.
LEMMA FileUnlinked ==
  ASSUME NEW fs, fs \in [DOMAIN fs -> Seq(Nat)], IsFiniteSet(DOMAIN fs),
         NEW d \in DOMAIN fs, NEW gs, DOMAIN gs = DOMAIN fs \ {d},
         gs \in [DOMAIN gs -> Seq(Nat)], \A e \in DOMAIN gs : gs[e] = fs[e]
  PROVE  /\ IsFiniteSet(DOMAIN gs)
         /\ Size(gs) \in Nat /\ Size(fs) = Size(gs) + Len(fs[d])
<1>1. IsFiniteSet(DOMAIN gs)
  <2>1. IsFiniteSet(DOMAIN fs \ {d}) BY FS_RemoveElement
  <2> QED BY <2>1
<1>2. Size(gs) \in Nat BY <1>1, LinesFinite
<1>3. /\ DOMAIN fs = DOMAIN gs \cup {d} /\ d \notin DOMAIN gs /\ fs[d] \in Seq(Nat)
      /\ \A e \in DOMAIN gs : fs[e] = gs[e]
  OBVIOUS
<1>4. Size(fs) = Size(gs) + Len(fs[d]) BY <1>1, <1>3, FileAdded
<1> QED BY <1>1, <1>2, <1>4

-----------------------------------------------------------------------------
(* Days *)

\* What the constants of FileLog are, without what earlier runs left.
LEMMA Bounds ==
  /\ QUOTA_BYTES \in Nat /\ BUFFERED_LINES \in Nat /\ WINDOW \in Nat /\ MaxLines \in Nat
  /\ StartTime \in Nat /\ MaxTime \in Nat /\ StartTime <= MaxTime
  /\ DayLength \in Nat /\ DayLength > 0 /\ WINDOW < DayLength
BY LogAssumption

\* What earlier runs left.
LEMMA OldFilesAre ==
  /\ IsFiniteSet(DOMAIN OldFiles) /\ DOMAIN OldFiles \subseteq 0..Day(StartTime)
  /\ \A d \in DOMAIN OldFiles : OldFiles[d] \in Seq(Nat)
  /\ OldFiles \in [DOMAIN OldFiles -> Seq(Nat)]
  /\ \A d \in DOMAIN OldFiles : \A i \in 1..Len(OldFiles[d]) : Day(OldFiles[d][i]) <= d
  /\ Size(OldFiles) <= MaxLines
<1>1. \A d \in DOMAIN OldFiles : OldFiles[d] \in Seq(0..StartTime) BY LogAssumption
<1>2. ASSUME NEW d \in DOMAIN OldFiles PROVE OldFiles[d] \in Seq(Nat)
  <2>1. OldFiles[d] \in Seq(0..StartTime) /\ 0..StartTime \subseteq Nat BY <1>1
  <2> QED BY <2>1, SeqMonotonic
<1>3. OldFiles \in [DOMAIN OldFiles -> Seq(Nat)]
  <2>1. OldFiles = [d \in DOMAIN OldFiles |-> OldFiles[d]] BY LogAssumption
  <2> QED BY <1>2, <2>1
<1> QED BY <1>2, <1>3, LogAssumption

\* Days are numbers.
LEMMA DayIsInt ==
  ASSUME NEW a \in Int
  PROVE  Day(a) \in Int /\ (a \in Nat => Day(a) \in Nat)
BY Bounds DEF Day

\* A time is within its day.
LEMMA DayFloor ==
  ASSUME NEW a \in Int
  PROVE  DayLength * Day(a) <= a /\ a < DayLength * Day(a) + DayLength
BY Bounds, SMTT(30) DEF Day

\* Multiples of a day that are less than a day apart are in order.
LEMMA DaySteps ==
  ASSUME NEW p \in Int, NEW q \in Int, NEW l \in Int, l > 0, l * p < l * q + l
  PROVE  p < q + 1
BY SMTT(30)

\* A later time is on the same day or a later one.
LEMMA DayMonotone ==
  ASSUME NEW a \in Int, NEW b \in Int, a <= b
  PROVE  Day(a) <= Day(b)
<1> DEFINE p == Day(a)
           q == Day(b)
<1>1. /\ p \in Int /\ q \in Int /\ DayLength \in Int /\ DayLength > 0
      /\ DayLength * p <= a /\ b < DayLength * q + DayLength
  <2>1. p \in Int /\ q \in Int BY DayIsInt
  <2>2. DayLength * p <= a BY DayFloor, Zenon
  <2>3. b < DayLength * q + DayLength BY DayFloor, Zenon
  <2> QED BY <2>1, <2>2, <2>3, Bounds
<1> HIDE DEF p, q
<1>2. DayLength * p \in Int /\ DayLength * q \in Int BY <1>1, SMTT(30)
<1>3. DayLength * p < DayLength * q + DayLength BY <1>1, <1>2
<1>4. p < q + 1 BY <1>1, <1>3, DaySteps
<1>5. p <= q BY <1>1, <1>4
<1> QED BY <1>5 DEF p, q

\* The window reaches into yesterday at most.
LEMMA WindowIsShort ==
  ASSUME NEW a \in Int
  PROVE  a - WINDOW \in Int /\ Day(a) - 1 <= Day(a - WINDOW)
<1> DEFINE p == Day(a)
           q == Day(a - WINDOW)
<1>1. a - WINDOW \in Int /\ WINDOW \in Nat /\ WINDOW < DayLength BY Bounds
<1>2. /\ p \in Int /\ q \in Int /\ DayLength \in Int /\ DayLength > 0
      /\ DayLength * p <= a /\ a - WINDOW < DayLength * q + DayLength
  <2>1. p \in Int /\ q \in Int BY <1>1, DayIsInt
  <2>2. DayLength * p <= a BY DayFloor, Zenon
  <2>3. a - WINDOW < DayLength * q + DayLength BY <1>1, DayFloor, Zenon
  <2> QED BY <2>1, <2>2, <2>3, Bounds
<1> HIDE DEF p, q
<1>3. DayLength * p \in Int /\ DayLength * q \in Int BY <1>2, SMTT(30)
<1>4. DayLength * p < (DayLength * q + DayLength) + DayLength BY <1>1, <1>2, <1>3
<1>5. DayLength * (q + 1) = DayLength * q + DayLength BY <1>2, SMTT(30)
<1>6. DayLength * p < DayLength * (q + 1) + DayLength BY <1>4, <1>5
<1>7. p < (q + 1) + 1 BY <1>2, <1>6, DaySteps
<1>8. p - 1 <= q BY <1>2, <1>7
<1> QED BY <1>1, <1>8 DEF p, q

LEMMA TodayIsNat ==
  ASSUME LogTypes
  PROVE  now \in Nat /\ Day(now) \in Nat
<1>1. now \in Nat BY Bounds DEF LogTypes
<1> QED BY <1>1, DayIsInt

-----------------------------------------------------------------------------
(* The clock, the worker and the files *)

\* A directory of log files, by day.
Stored(fs) ==
  fs \in [DOMAIN fs -> Seq(Nat)] /\ IsFiniteSet(DOMAIN fs) /\ DOMAIN fs \subseteq Nat

\* The file of the day is added unless it is there.
LEMMA OpenedFile ==
  ASSUME NEW fs, NEW d \in Nat, NEW lines \in Seq(Nat), Stored(fs)
  PROVE  /\ Stored(Opened(fs, d, lines))
         /\ DOMAIN Opened(fs, d, lines) = DOMAIN fs \cup {d}
         /\ \A e \in DOMAIN fs : Opened(fs, d, lines)[e] = fs[e]
         /\ d \notin DOMAIN fs => Opened(fs, d, lines)[d] = lines
         /\ Size(fs) \in Nat /\ Size(Opened(fs, d, lines)) \in Nat
         /\ d \in DOMAIN fs => Size(Opened(fs, d, lines)) = Size(fs)
         /\ d \notin DOMAIN fs => Size(Opened(fs, d, lines)) = Size(fs) + Len(lines)
<1> DEFINE gs == Opened(fs, d, lines)
<1>1. fs \in [DOMAIN fs -> Seq(Nat)] /\ IsFiniteSet(DOMAIN fs) /\ DOMAIN fs \subseteq Nat
  BY DEF Stored
<1>2. /\ gs \in [DOMAIN gs -> Seq(Nat)]
      /\ DOMAIN gs = DOMAIN fs \cup {d}
      /\ \A e \in DOMAIN fs : gs[e] = fs[e]
      /\ d \notin DOMAIN fs => gs[d] = lines
  BY <1>1 DEF Opened
<1> HIDE DEF gs
<1>3. IsFiniteSet(DOMAIN gs) BY <1>1, <1>2, FS_AddElement
<1>4. Size(fs) \in Nat /\ Size(gs) \in Nat BY <1>1, <1>2, <1>3, LinesFinite
<1>5. Stored(gs) BY <1>1, <1>2, <1>3 DEF Stored
<1>6. CASE d \in DOMAIN fs
  <2>1. fs = [e \in DOMAIN fs |-> fs[e]] BY <1>1
  <2>2. gs = [e \in DOMAIN fs |-> gs[e]] BY <1>2, <1>6
  <2>3. gs = fs BY <1>2, <2>1, <2>2
  <2> QED BY <1>2, <1>4, <1>5, <1>6, <2>3 DEF gs
<1>7. CASE d \notin DOMAIN fs
  <2>1. gs[d] = lines BY <1>2, <1>7
  <2>2. Size(gs) = Size(fs) + Len(lines) BY <1>1, <1>2, <1>7, <2>1, FileAdded
  <2> QED BY <1>2, <1>4, <1>5, <1>7, <2>2 DEF gs
<1> QED BY <1>6, <1>7

\* The appender starts over what earlier runs left.
LEMMA LogInitHolds == LogInit => LogInv
<1> SUFFICES ASSUME LogInit PROVE LogInv OBVIOUS
<1> DEFINE today == Day(StartTime)
           none == <<>>
<1>1. today \in Nat /\ StartTime \in Nat BY Bounds, DayIsInt
<1>2. Stored(OldFiles) BY OldFilesAre DEF Stored
<1>3. /\ now = StartTime /\ channel = <<>> /\ current = today
      /\ files = Opened(OldFiles, today, none) /\ held = {} /\ sweep = NoSweep
      /\ report = NoReport /\ due = {}
  BY DEF LogInit
<1>4. none \in Seq(Nat) /\ Len(none) = 0 OBVIOUS
<1> HIDE DEF today, none
<1>5. /\ Stored(files) /\ DOMAIN files = DOMAIN OldFiles \cup {today}
      /\ \A e \in DOMAIN OldFiles : files[e] = OldFiles[e]
      /\ today \notin DOMAIN OldFiles => files[today] = none
      /\ Size(files) = Size(OldFiles) /\ Size(files) \in Nat
  <2>1. Stored(Opened(OldFiles, today, none)) BY <1>4, <1>1, <1>2, OpenedFile
  <2>2. DOMAIN Opened(OldFiles, today, none) = DOMAIN OldFiles \cup {today}
    BY <1>1, <1>2, <1>4, OpenedFile
  <2>3. /\ Size(OldFiles) \in Nat
        /\ today \in DOMAIN OldFiles => Size(Opened(OldFiles, today, none)) = Size(OldFiles)
        /\ today \notin DOMAIN OldFiles =>
             Size(Opened(OldFiles, today, none)) = Size(OldFiles) + Len(none)
    BY <1>4, <1>1, <1>2, OpenedFile
  <2>4. Size(Opened(OldFiles, today, none)) = Size(OldFiles) BY <1>4, <2>3
  <2>5. \A e \in DOMAIN OldFiles : Opened(OldFiles, today, none)[e] = OldFiles[e]
    BY <1>4, <1>1, <1>2, OpenedFile
  <2>6. today \notin DOMAIN OldFiles => Opened(OldFiles, today, none)[today] = none
    BY <1>4, <1>1, <1>2, OpenedFile
  <2> QED BY <1>3, <2>1, <2>2, <2>3, <2>4, <2>5, <2>6
<1>6. LogTypes BY <1>1, <1>3, <1>5, Bounds DEF LogTypes, Stored, NoSweep, NoReport
<1>7. DaysInOrder
  <2>1. \A d \in DOMAIN files : d <= today BY <1>1, <1>5, OldFilesAre DEF today
  <2>2. ASSUME NEW d \in DOMAIN files, NEW i \in 1..Len(files[d])
        PROVE  Day(files[d][i]) <= d
    <3>1. CASE d \in DOMAIN OldFiles BY <1>5, <3>1, OldFilesAre
    <3>2. CASE d \notin DOMAIN OldFiles BY <1>4, <1>5, <3>2
    <3> QED BY <3>1, <3>2
  <2> QED BY <1>1, <1>3, <2>1, <2>2 DEF DaysInOrder, today
<1>8. DiskIsBounded BY <1>3, <1>5, OldFilesAre DEF DiskIsBounded
<1>9. SweepIsCurrent BY <1>3, <1>5 DEF SweepIsCurrent, NoSweep
<1>10. NothingLeftOut BY <1>3 DEF NothingLeftOut, NoReport
<1> QED BY <1>6, <1>7, <1>8, <1>9, <1>10 DEF LogInv

\* The clock goes on: what is written stays of its day or an earlier one.
LEMMA TickKeeps ==
  ASSUME LogInv, Tick
  PROVE  LogInv'
<1>1. now \in Nat /\ now' \in Nat /\ now <= now' /\ now' \in StartTime..MaxTime
  BY Bounds DEF LogInv, LogTypes, Tick
<1>2. UNCHANGED <<channel, current, files, held, sweep, report, due>> BY DEF Tick
<1>3. Day(now) <= Day(now') /\ Day(now) \in Int /\ Day(now') \in Int
  BY <1>1, DayMonotone, DayIsInt
<1>4. LogTypes' BY <1>1, <1>2 DEF LogInv, LogTypes
<1>5. DaysInOrder'
  <2>1. current' <= Day(now') BY <1>2, <1>3 DEF LogInv, LogTypes, DaysInOrder
  <2>2. \A i \in 1..Len(channel') : channel'[i] <= now'
    BY <1>1, <1>2 DEF LogInv, LogTypes, DaysInOrder
  <2> QED BY <1>2, <2>1, <2>2 DEF LogInv, DaysInOrder
<1>6. (DiskIsBounded /\ SweepIsCurrent /\ NothingLeftOut)'
  BY <1>2 DEF LogInv, DiskIsBounded, SweepIsCurrent, NothingLeftOut, Todo, Recent
<1> QED BY <1>4, <1>5, <1>6 DEF LogInv

\* A line that is queued has a place on the disk.
LEMMA InfoKeeps ==
  ASSUME LogInv, Info
  PROVE  LogInv'
<1>1. now \in Nat /\ channel \in Seq(Nat) /\ Len(channel) \in Nat
  BY Bounds DEF LogInv, LogTypes
<1>2. /\ channel' \in Seq(Nat) /\ Len(channel') = Len(channel) + 1
      /\ \A i \in 1..Len(channel) : channel'[i] = channel[i]
      /\ channel'[Len(channel) + 1] = now
  BY <1>1, AppendProperties DEF Info
<1>3. UNCHANGED <<now, current, files, held, sweep, report, due>> BY DEF Info
<1>4. LogTypes'
  <2>1. Len(channel') <= BUFFERED_LINES BY <1>1, <1>2, Bounds DEF Info
  <2> QED BY <1>1, <1>2, <1>3, <2>1 DEF LogInv, LogTypes
<1>5. DaysInOrder' BY <1>1, <1>2, <1>3 DEF LogInv, DaysInOrder
<1>6. Size(files) \in Nat BY LinesFinite DEF LogInv, LogTypes
<1>7. DiskIsBounded' BY <1>1, <1>2, <1>3, <1>6, Bounds DEF Info, DiskIsBounded
<1>8. (SweepIsCurrent /\ NothingLeftOut)'
  BY <1>3 DEF LogInv, SweepIsCurrent, NothingLeftOut, Todo, Recent
<1> QED BY <1>4, <1>5, <1>7, <1>8 DEF LogInv

\* Another program opens or closes a file.
LEMMA HoldKeeps ==
  ASSUME LogInv, Hold
  PROVE  LogInv'
<1>1. held' \subseteq DOMAIN OldFiles BY DEF LogInv, LogTypes, Hold
<1>2. UNCHANGED <<now, channel, current, files, sweep, report, due>> BY DEF Hold
<1> QED
  BY <1>1, <1>2
  DEF LogInv, LogTypes, DaysInOrder, DiskIsBounded, SweepIsCurrent, NothingLeftOut, Todo, Recent

\* What the files are, from the invariant.
LEMMA StoredFiles ==
  ASSUME LogInv
  PROVE  Stored(files) /\ Size(files) \in Nat /\ Len(channel) \in Nat
<1>1. Stored(files) BY DEF LogInv, LogTypes, Stored
<1>2. Size(files) \in Nat BY <1>1, LinesFinite DEF Stored
<1>3. Len(channel) \in Nat BY DEF LogInv, LogTypes
<1> QED BY <1>1, <1>2, <1>3

\* What a report has still to read stays where it is while files grow, are added
\* after the newest one, or go.
LEMMA LeftOutKeeps ==
  ASSUME LogInv, UNCHANGED <<report, due>>, current' \in Nat, current <= current',
         \A line \in due : line[1] \in DOMAIN files' => line[1] \in DOMAIN files,
         \A e \in DOMAIN files : e \in DOMAIN files' =>
           /\ Len(files[e]) \in Nat /\ Len(files'[e]) \in Nat /\ Len(files[e]) <= Len(files'[e])
           /\ \A i \in 1..Len(files[e]) : files'[e][i] = files[e][i]
  PROVE  NothingLeftOut'
<1>1. \A line \in due' : line[1] <= current'
  <2>1. \A line \in due : line[1] \in Nat /\ line[1] <= current
    BY DEF LogInv, LogTypes, NothingLeftOut
  <2>2. current \in Nat BY DEF LogInv, LogTypes
  <2> QED BY <2>1, <2>2
<1>2. Todo' = Todo BY DEF Todo
<1>3. ASSUME NEW line \in Recent(report.asked), line[1] \in DOMAIN files'
      PROVE  line \in Recent(report.asked)'
  <2>1. line \in Lines(files) /\ files[line[1]][line[2]] >= report.asked - WINDOW
    BY <1>3 DEF Recent
  <2>2. PICK d \in DOMAIN files : \E i \in 1..Len(files[d]) : line = <<d, i>> BY <2>1, LineOf
  <2>3. PICK i \in 1..Len(files[d]) : line = <<d, i>> BY <2>2
  <2>4. d \in DOMAIN files' /\ line[1] = d /\ line[2] = i BY <1>3, <2>3
  <2>5. i \in 1..Len(files'[d]) /\ files'[d][i] = files[d][i] BY <2>3, <2>4
  <2>6. line \in Lines(files') BY <2>3, <2>4, <2>5, LinePair
  <2>7. files'[line[1]][line[2]] >= report'.asked - WINDOW BY <2>1, <2>4, <2>5
  <2> QED BY <2>6, <2>7 DEF Recent
<1>4. ASSUME report'.step \in {"look", "read", "ok"}, NEW line \in due', line[1] \in DOMAIN files'
      PROVE  line \in report'.out \/ (line \in Recent(report.asked)' /\ line[1] \in Todo')
  <2>1. line \in due /\ line[1] \in DOMAIN files BY <1>4
  <2>2. line \in report.out \/ (line \in Recent(report.asked) /\ line[1] \in Todo)
    BY <1>4, <2>1 DEF LogInv, NothingLeftOut
  <2> QED BY <1>2, <1>3, <1>4, <2>2
<1>5. /\ report'.step = "read" => report'.todo # <<>>
      /\ report'.step = "ok" => report'.todo = <<>>
  BY DEF LogInv, NothingLeftOut
<1> QED BY <1>1, <1>4, <1>5 DEF NothingLeftOut

\* A file that nobody sweeps may change: the janitor's list stays right.
LEMMA SweepStays ==
  ASSUME LogInv, UNCHANGED sweep, current' \in Nat, current <= current',
         Size(files') \in Nat, Size(files) <= Size(files'),
         \A e \in DOMAIN files : e < current => e \in DOMAIN files' /\ files'[e] = files[e]
  PROVE  SweepIsCurrent'
<1>1. sweep.remaining \in Nat /\ current \in Nat /\ Size(files) \in Nat
  BY StoredFiles DEF LogInv, LogTypes
<1>2. sweep'.remaining <= Size(files') BY <1>1 DEF LogInv, SweepIsCurrent
<1>3. ASSUME NEW entry \in sweep.entries
      PROVE  /\ entry.day \in DOMAIN files' /\ entry.day < current'
             /\ entry.size = Len(files'[entry.day])
  <2>1. /\ entry.day \in DOMAIN files /\ entry.day < current /\ entry.day \in Nat
        /\ entry.size = Len(files[entry.day])
    BY DEF LogInv, LogTypes, SweepIsCurrent
  <2>2. entry.day \in DOMAIN files' /\ files'[entry.day] = files[entry.day] BY <2>1
  <2> QED BY <1>1, <2>1, <2>2
<1> QED BY <1>2, <1>3 DEF SweepIsCurrent

\* What is written is in the file of the day, which is the newest.
LEMMA LineIsWritten ==
  ASSUME LogInv, WriteLine
  PROVE  /\ current' = Day(now) /\ current' \in Nat /\ current <= current'
         /\ channel' \in Seq(Nat) /\ Len(channel') = Len(channel) - 1
         /\ \A i \in 1..Len(channel') : channel'[i] <= now
         /\ Stored(files') /\ Size(files') = Size(files) + 1
         /\ DOMAIN files' = DOMAIN files \cup {current'}
         /\ current' \in DOMAIN files => current' = current
         /\ \A e \in DOMAIN files : e # current' => files'[e] = files[e]
         /\ \A e \in DOMAIN files :
              /\ Len(files[e]) \in Nat /\ Len(files'[e]) \in Nat /\ Len(files[e]) <= Len(files'[e])
              /\ \A i \in 1..Len(files[e]) : files'[e][i] = files[e][i]
         /\ \A i \in 1..Len(files'[current']) : Day(files'[current'][i]) <= current'
<1> DEFINE h == Head(channel)
<1>1. now \in Nat /\ Day(now) \in Nat BY TodayIsNat DEF LogInv
<1>2. current' = Day(now) BY DEF WriteLine
<1>3. current \in Nat /\ current \in DOMAIN files /\ current <= Day(now)
  BY DEF LogInv, LogTypes, DaysInOrder
<1>4. Stored(files) /\ Size(files) \in Nat /\ Len(channel) \in Nat BY StoredFiles
<1>5. /\ channel' \in Seq(Nat) /\ Len(channel') = Len(channel) - 1 /\ h \in Nat /\ h = channel[1]
      /\ \A i \in 1..Len(channel') : channel'[i] = channel[i + 1] /\ i + 1 \in 1..Len(channel)
      /\ 1 \in 1..Len(channel)
  <2>1. channel \in Seq(Nat) /\ channel # <<>> /\ channel' = Tail(channel)
    BY DEF LogInv, LogTypes, WriteLine
  <2> QED BY <1>4, <2>1, HeadTailProperties
<1>6. h <= now /\ \A i \in 1..Len(channel') : channel'[i] <= now
  BY <1>5 DEF LogInv, DaysInOrder
<1>7. Day(h) <= current' BY <1>1, <1>2, <1>5, <1>6, DayMonotone
<1> HIDE DEF h
<1>8. CASE current' = current
  <2>1. files' = [files EXCEPT ![current] = Append(files[current], h)]
    BY <1>3, <1>8 DEF WriteLine, h
  <2>2. \A e \in DOMAIN files : files[e] \in Seq(Nat) /\ Len(files[e]) \in Nat
    BY <1>4 DEF Stored
  <2>3. /\ Append(files[current], h) \in Seq(Nat)
        /\ Len(Append(files[current], h)) = Len(files[current]) + 1
        /\ \A i \in 1..Len(files[current]) : Append(files[current], h)[i] = files[current][i]
        /\ Append(files[current], h)[Len(files[current]) + 1] = h
    BY <1>3, <1>5, <2>2, AppendProperties
  <2>4. /\ DOMAIN files' = DOMAIN files /\ files'[current] = Append(files[current], h)
        /\ \A e \in DOMAIN files : e # current => files'[e] = files[e]
    BY <1>3, <2>1
  <2>5. \A e \in DOMAIN files' : files'[e] \in Seq(Nat) BY <2>2, <2>3, <2>4
  <2>6. Stored(files')
    <3>1. files' \in [DOMAIN files' -> Seq(Nat)] BY <2>1, <2>4, <2>5
    <3> QED BY <1>4, <2>4, <3>1 DEF Stored
  <2>7. Size(files') = Size(files) + 1
    <3>1. files \in [DOMAIN files -> Seq(Nat)] /\ IsFiniteSet(DOMAIN files) BY <1>4 DEF Stored
    <3> QED BY <1>3, <1>5, <2>4, <3>1, LineAppended
  <2>8. ASSUME NEW e \in DOMAIN files
        PROVE  /\ Len(files[e]) \in Nat /\ Len(files'[e]) \in Nat /\ Len(files[e]) <= Len(files'[e])
               /\ \A i \in 1..Len(files[e]) : files'[e][i] = files[e][i]
    <3>1. CASE e = current BY <1>3, <2>2, <2>3, <2>4, <3>1
    <3>2. CASE e # current BY <2>2, <2>4, <3>2
    <3> QED BY <3>1, <3>2
  <2>9. ASSUME NEW i \in 1..Len(files'[current']) PROVE Day(files'[current'][i]) <= current'
    <3>1. CASE i \in 1..Len(files[current])
      <4>1. files'[current'][i] = files[current][i] BY <1>8, <2>3, <2>4, <3>1
      <4>2. Day(files[current][i]) <= current BY <1>3, <3>1 DEF LogInv, DaysInOrder
      <4> QED BY <1>8, <4>1, <4>2
    <3>2. CASE i = Len(files[current]) + 1 BY <1>7, <1>8, <2>3, <2>4, <3>2
    <3> QED BY <1>3, <1>8, <2>2, <2>3, <2>4, <3>1, <3>2
  <2> QED BY <1>1, <1>2, <1>3, <1>5, <1>6, <1>8, <2>4, <2>6, <2>7, <2>8, <2>9
<1>9. CASE current' # current
  <2> DEFINE new == <<h>>
  <2>1. new \in Seq(Nat) /\ Len(new) = 1 /\ new[1] = h BY <1>5
  <2>2. files' = Opened(files, current', new)
    BY <1>9 DEF WriteLine, h
  <2>3. current' \notin DOMAIN files
    <3>1. \A e \in DOMAIN files : e <= current /\ e \in Nat
      BY <1>4 DEF LogInv, DaysInOrder, Stored
    <3> QED BY <1>1, <1>2, <1>3, <1>9, <3>1
  <2> HIDE DEF new
  <2>4. current' \in Nat BY <1>1, <1>2
  <2>5. /\ Stored(Opened(files, current', new))
        /\ DOMAIN Opened(files, current', new) = DOMAIN files \cup {current'}
    BY <1>4, <2>1, <2>4, OpenedFile
  <2>6. /\ \A e \in DOMAIN files : Opened(files, current', new)[e] = files[e]
        /\ Opened(files, current', new)[current'] = new
    BY <1>4, <2>1, <2>3, <2>4, OpenedFile
  <2>7. Size(Opened(files, current', new)) = Size(files) + Len(new)
    BY <1>4, <2>1, <2>3, <2>4, OpenedFile
  <2>8. \A e \in DOMAIN files : files[e] \in Seq(Nat) /\ Len(files[e]) \in Nat
    BY <1>4 DEF Stored
  <2>9. \A e \in DOMAIN files :
              /\ Len(files[e]) \in Nat /\ Len(files'[e]) \in Nat /\ Len(files[e]) <= Len(files'[e])
              /\ \A i \in 1..Len(files[e]) : files'[e][i] = files[e][i]
    BY <2>2, <2>6, <2>8
  <2>10. ASSUME NEW i \in 1..Len(files'[current']) PROVE Day(files'[current'][i]) <= current'
    <3>1. files'[current'] = new BY <2>2, <2>6
    <3>2. Len(files'[current']) = 1 BY <2>1, <3>1
    <3>3. i = 1 BY <3>2
    <3> QED BY <1>7, <2>1, <3>1, <3>3
  <2>11. Size(files') = Size(files) + 1 BY <2>1, <2>2, <2>7
  <2>12. \A e \in DOMAIN files : files'[e] = files[e] BY <2>2, <2>6
  <2> QED BY <1>1, <1>2, <1>3, <1>5, <1>6, <2>2, <2>3, <2>5, <2>9, <2>10, <2>11, <2>12
<1> QED BY <1>8, <1>9

\* The worker's line moves from the channel to the newest file.
LEMMA WriteLineKeeps ==
  ASSUME LogInv, WriteLine
  PROVE  LogInv'
<1>1. /\ current' = Day(now) /\ current' \in Nat /\ current <= current'
      /\ channel' \in Seq(Nat) /\ Len(channel') = Len(channel) - 1
      /\ \A i \in 1..Len(channel') : channel'[i] <= now
      /\ Stored(files') /\ Size(files') = Size(files) + 1
  BY LineIsWritten
<1>2. /\ DOMAIN files' = DOMAIN files \cup {current'}
      /\ current' \in DOMAIN files => current' = current
      /\ \A e \in DOMAIN files : e # current' => files'[e] = files[e]
      /\ \A i \in 1..Len(files'[current']) : Day(files'[current'][i]) <= current'
  BY LineIsWritten
<1>3. UNCHANGED <<now, held, sweep, report, due>> BY DEF WriteLine
<1>4. Stored(files) /\ Size(files) \in Nat /\ Len(channel) \in Nat BY StoredFiles
<1>5. current \in Nat /\ current \in DOMAIN files BY DEF LogInv, LogTypes
<1>6. Size(files') \in Nat BY <1>1, <1>4
<1>7. LogTypes'
  <2>1. Len(channel') <= BUFFERED_LINES BY <1>1, <1>4, Bounds DEF LogInv, LogTypes
  <2>2. /\ files' \in [DOMAIN files' -> Seq(Nat)] /\ IsFiniteSet(DOMAIN files')
        /\ DOMAIN files' \subseteq Nat /\ current' \in DOMAIN files'
    BY <1>1, <1>2 DEF Stored
  <2> QED BY <1>1, <1>3, <2>1, <2>2 DEF LogInv, LogTypes
<1>8. DaysInOrder'
  <2>1. \A d \in DOMAIN files : d \in Nat /\ d <= current BY <1>4 DEF LogInv, DaysInOrder, Stored
  <2>2. \A d \in DOMAIN files' : d <= current' BY <1>1, <1>2, <1>5, <2>1
  <2>3. ASSUME NEW d \in DOMAIN files', NEW i \in 1..Len(files'[d]) PROVE Day(files'[d][i]) <= d
    <3>1. CASE d = current' BY <1>2, <3>1
    <3>2. CASE d # current'
      <4>1. d \in DOMAIN files /\ files'[d] = files[d] BY <1>2, <3>2
      <4> QED BY <4>1 DEF LogInv, DaysInOrder
    <3> QED BY <3>1, <3>2
  <2>4. current' <= Day(now') BY <1>1, <1>3
  <2> QED BY <1>1, <1>3, <2>2, <2>3, <2>4 DEF DaysInOrder
<1>9. DiskIsBounded'
  <2>1. Size(files) + Len(channel) <= MaxLines BY DEF LogInv, DiskIsBounded
  <2>2. Size(files') + Len(channel') <= MaxLines BY <1>1, <1>4, <2>1, Bounds
  <2> QED BY <2>2 DEF DiskIsBounded
<1>10. SweepIsCurrent'
  <2>1. \A e \in DOMAIN files : e \in Nat BY <1>4 DEF Stored
  <2>2. \A e \in DOMAIN files : e < current => e \in DOMAIN files' /\ files'[e] = files[e]
    BY <1>1, <1>2, <1>5, <2>1
  <2>3. Size(files) <= Size(files') BY <1>1, <1>4
  <2> QED BY <1>1, <1>3, <1>6, <2>2, <2>3, SweepStays
<1>11. NothingLeftOut'
  <2>1. \A line \in due : line[1] \in Nat /\ line[1] <= current
    BY DEF LogInv, LogTypes, NothingLeftOut
  <2>2. ASSUME NEW line \in due, line[1] \in DOMAIN files' PROVE line[1] \in DOMAIN files
    BY <1>1, <1>2, <1>5, <2>1, <2>2
  <2>3. \A e \in DOMAIN files :
          /\ Len(files[e]) \in Nat /\ Len(files'[e]) \in Nat /\ Len(files[e]) <= Len(files'[e])
          /\ \A i \in 1..Len(files[e]) : files'[e][i] = files[e][i]
    BY LineIsWritten
  <2> QED BY <1>1, <1>3, <2>2, <2>3, LeftOutKeeps
<1> QED BY <1>7, <1>8, <1>9, <1>10, <1>11 DEF LogInv

\* The janitor's list is right when it is made.
LEMMA SweepKeeps ==
  ASSUME LogInv, Sweep
  PROVE  LogInv'
<1>1. UNCHANGED <<now, channel, current, files, held, report, due>> BY DEF Sweep
<1>2. sweep' = [entries |-> Victims, remaining |-> Size(files)] BY DEF Sweep
<1>3. Stored(files) /\ Size(files) \in Nat BY StoredFiles
<1>4. \A d \in DOMAIN files : d \in Nat /\ Len(files[d]) \in Nat /\ d <= current
  BY <1>3 DEF Stored, LogInv, DaysInOrder
<1>5. current \in Nat BY DEF LogInv, LogTypes
<1>6. ASSUME NEW entry \in Victims
      PROVE  /\ entry \in [day : Nat, size : Nat]
             /\ entry.day \in DOMAIN files /\ entry.day < current
             /\ entry.size = Len(files[entry.day])
  <2>1. PICK d \in DOMAIN files : entry = Entry(d) /\ \E later \in DOMAIN files : later > d
    BY DEF Victims
  <2>2. PICK later \in DOMAIN files : later > d BY <2>1
  <2>3. d < current BY <1>4, <1>5, <2>2
  <2> QED BY <1>4, <2>1, <2>3 DEF Entry
<1>7. sweep' \in [entries : SUBSET [day : Nat, size : Nat], remaining : Nat] BY <1>2, <1>3, <1>6
<1>8. LogTypes' BY <1>1, <1>7 DEF LogInv, LogTypes
<1>9. SweepIsCurrent'
  <2>1. sweep'.remaining = Size(files) /\ sweep'.entries = Victims BY <1>2
  <2>2. sweep'.remaining <= Size(files') BY <1>1, <1>3, <2>1
  <2> QED BY <1>1, <1>6, <2>1, <2>2 DEF SweepIsCurrent
<1>10. (DaysInOrder /\ DiskIsBounded /\ NothingLeftOut)'
  BY <1>1 DEF LogInv, DaysInOrder, DiskIsBounded, NothingLeftOut, Todo, Recent
<1> QED BY <1>8, <1>9, <1>10 DEF LogInv

\* The list without the file that was looked at.
LEMMA RestIs ==
  ASSUME LogTypes, NEW entry \in sweep.entries, NEW total \in Nat
  PROVE  /\ Rest(entry, total) \in [entries : SUBSET [day : Nat, size : Nat], remaining : Nat]
         /\ Rest(entry, total).entries \subseteq sweep.entries \ {entry}
         /\ Rest(entry, total).remaining \in {0, total}
<1>1. sweep.entries \subseteq [day : Nat, size : Nat] BY DEF LogTypes
<1>2. CASE sweep.entries = {entry} BY <1>2 DEF Rest, NoSweep
<1>3. CASE sweep.entries # {entry} BY <1>1, <1>3 DEF Rest
<1> QED BY <1>2, <1>3

\* What a deletion does to the files and the janitor's list.
LEMMA FileRemoved ==
  ASSUME LogInv, NEW entry \in sweep.entries, RemoveFile(entry)
  PROVE  /\ Stored(files') /\ DOMAIN files' = DOMAIN files \ {entry.day}
         /\ \A e \in DOMAIN files' : files'[e] = files[e]
         /\ Size(files') \in Nat /\ Size(files') <= Size(files)
         /\ sweep' \in [entries : SUBSET [day : Nat, size : Nat], remaining : Nat]
         /\ sweep'.entries \subseteq sweep.entries \ {entry}
         /\ sweep'.remaining <= Size(files')
<1> DEFINE d == entry.day
           total == IF sweep.remaining > entry.size THEN sweep.remaining - entry.size ELSE 0
<1>1. /\ d \in DOMAIN files /\ entry.size = Len(files[d]) /\ entry.size \in Nat
      /\ sweep.remaining \in Nat /\ sweep.remaining <= Size(files)
  BY DEF LogInv, LogTypes, SweepIsCurrent
<1>2. Stored(files) /\ Size(files) \in Nat BY StoredFiles
<1>3. files' = [e \in DOMAIN files \ {d} |-> files[e]] BY DEF RemoveFile, Unlink
<1>4. DOMAIN files' = DOMAIN files \ {d} /\ \A e \in DOMAIN files' : files'[e] = files[e]
  BY <1>3
<1>5. /\ files \in [DOMAIN files -> Seq(Nat)] /\ IsFiniteSet(DOMAIN files)
      /\ DOMAIN files \subseteq Nat
  BY <1>2 DEF Stored
<1>6. \A e \in DOMAIN files : files[e] \in Seq(Nat) BY <1>5
<1>7. files' \in [DOMAIN files' -> Seq(Nat)] BY <1>3, <1>4, <1>6
<1>8. /\ IsFiniteSet(DOMAIN files') /\ Size(files') \in Nat
      /\ Size(files) = Size(files') + Len(files[d])
  BY <1>1, <1>4, <1>5, <1>7, FileUnlinked
<1>9. Stored(files') BY <1>4, <1>5, <1>7, <1>8 DEF Stored
<1>10. total \in Nat /\ total <= Size(files') BY <1>1, <1>8
<1> HIDE DEF d, total
<1>11. sweep' = Rest(entry, total) BY DEF RemoveFile, total
<1>12. /\ Rest(entry, total) \in [entries : SUBSET [day : Nat, size : Nat], remaining : Nat]
       /\ Rest(entry, total).entries \subseteq sweep.entries \ {entry}
       /\ Rest(entry, total).remaining \in {0, total}
  BY <1>10, RestIs DEF LogInv
<1>13. sweep'.remaining <= Size(files') BY <1>8, <1>10, <1>11, <1>12
<1>14. Size(files') <= Size(files) BY <1>1, <1>2, <1>8
<1> QED BY <1>4, <1>8, <1>9, <1>11, <1>12, <1>13, <1>14 DEF d

\* The janitor deletes a file.
LEMMA RemoveKeeps ==
  ASSUME LogInv, NEW entry \in sweep.entries, RemoveFile(entry),
         UNCHANGED <<now, channel, current, held, report, due>>
  PROVE  LogInv'
<1>1. /\ Stored(files') /\ DOMAIN files' = DOMAIN files \ {entry.day}
      /\ \A e \in DOMAIN files' : files'[e] = files[e]
      /\ Size(files') \in Nat /\ Size(files') <= Size(files)
  BY FileRemoved
<1>2. /\ sweep' \in [entries : SUBSET [day : Nat, size : Nat], remaining : Nat]
      /\ sweep'.entries \subseteq sweep.entries \ {entry}
      /\ sweep'.remaining <= Size(files')
  BY FileRemoved
<1>3. /\ entry.day < current /\ entry.day \in Nat /\ current \in Nat /\ current \in DOMAIN files
      /\ entry.size = Len(files[entry.day]) /\ entry \in [day : Nat, size : Nat]
  BY DEF LogInv, LogTypes, SweepIsCurrent
<1>4. LogTypes'
  <2>1. current' \in DOMAIN files' BY <1>1, <1>3
  <2> QED BY <1>1, <1>2, <2>1 DEF LogInv, LogTypes, Stored
<1>5. DaysInOrder'
  <2>1. \A d \in DOMAIN files' : d <= current' BY <1>1 DEF LogInv, DaysInOrder
  <2>2. ASSUME NEW d \in DOMAIN files', NEW i \in 1..Len(files'[d]) PROVE Day(files'[d][i]) <= d
    BY <1>1 DEF LogInv, DaysInOrder
  <2> QED BY <2>1, <2>2 DEF LogInv, DaysInOrder
<1>6. DiskIsBounded'
  <2>1. Size(files) \in Nat /\ Len(channel) \in Nat BY StoredFiles
  <2>2. Size(files) + Len(channel) <= MaxLines BY DEF LogInv, DiskIsBounded
  <2>3. Size(files') + Len(channel') <= MaxLines BY <1>1, <2>1, <2>2, Bounds
  <2> QED BY <2>3 DEF DiskIsBounded
<1>7. SweepIsCurrent'
  <2>1. ASSUME NEW other \in sweep'.entries
        PROVE  /\ other.day \in DOMAIN files' /\ other.day < current'
               /\ other.size = Len(files'[other.day])
    <3>1. other \in sweep.entries /\ other # entry BY <1>2
    <3>2. /\ other.day \in DOMAIN files /\ other.day < current
          /\ other.size = Len(files[other.day]) /\ other \in [day : Nat, size : Nat]
      BY <3>1 DEF LogInv, LogTypes, SweepIsCurrent
    <3>3. other.day # entry.day
      <4>1. SUFFICES ASSUME other.day = entry.day PROVE FALSE OBVIOUS
      <4>2. other.size = entry.size BY <1>3, <3>2, <4>1
      <4>3. other = entry BY <1>3, <3>2, <4>1, <4>2
      <4> QED BY <3>1, <4>3
    <3> QED BY <1>1, <3>2, <3>3
  <2> QED BY <1>2, <2>1 DEF SweepIsCurrent
<1>8. NothingLeftOut'
  <2>1. \A e \in DOMAIN files : Len(files[e]) \in Nat
    BY StoredFiles DEF Stored
  <2>2. \A e \in DOMAIN files : e \in DOMAIN files' =>
          /\ Len(files[e]) \in Nat /\ Len(files'[e]) \in Nat /\ Len(files[e]) <= Len(files'[e])
          /\ \A i \in 1..Len(files[e]) : files'[e][i] = files[e][i]
    BY <1>1, <2>1
  <2>3. \A line \in due : line[1] \in DOMAIN files' => line[1] \in DOMAIN files BY <1>1
  <2> QED BY <1>3, <2>2, <2>3, LeftOutKeeps
<1> QED BY <1>4, <1>5, <1>6, <1>7, <1>8 DEF LogInv

\* The janitor skips a file, deletes it, or has done enough.
LEMMA SweepNextKeeps ==
  ASSUME LogInv, SweepNext
  PROVE  LogInv'
<1>1. UNCHANGED <<now, channel, current, held, report, due>> BY DEF SweepNext
<1>2. Size(files) \in Nat BY StoredFiles
<1>3. ASSUME UNCHANGED files,
             sweep' \in [entries : SUBSET [day : Nat, size : Nat], remaining : Nat],
             sweep'.entries \subseteq sweep.entries, sweep'.remaining \in {0, sweep.remaining}
      PROVE  LogInv'
  <2>1. LogTypes' BY <1>1, <1>3 DEF LogInv, LogTypes
  <2>2. sweep'.remaining <= Size(files') BY <1>2, <1>3 DEF LogInv, SweepIsCurrent
  <2>3. SweepIsCurrent' BY <1>1, <1>3, <2>2 DEF LogInv, SweepIsCurrent
  <2>4. (DaysInOrder /\ DiskIsBounded /\ NothingLeftOut)'
    BY <1>1, <1>3 DEF LogInv, DaysInOrder, DiskIsBounded, NothingLeftOut, Todo, Recent
  <2> QED BY <2>1, <2>3, <2>4 DEF LogInv
<1>4. CASE sweep.remaining <= QUOTA_BYTES
  <2>1. UNCHANGED files /\ sweep' = NoSweep BY <1>4 DEF SweepNext
  <2> QED BY <1>3, <2>1 DEF NoSweep
<1>5. CASE ~(sweep.remaining <= QUOTA_BYTES)
  <2>1. PICK entry \in sweep.entries :
          IF entry.day \in held THEN sweep' = Rest(entry, sweep.remaining) /\ UNCHANGED files
          ELSE RemoveFile(entry)
    BY <1>5 DEF SweepNext
  <2>2. CASE entry.day \in held
    <3>1. sweep.remaining \in Nat BY DEF LogInv, LogTypes
    <3>2. UNCHANGED files /\ sweep' = Rest(entry, sweep.remaining) BY <2>1, <2>2
    <3>3. /\ sweep' \in [entries : SUBSET [day : Nat, size : Nat], remaining : Nat]
          /\ sweep'.entries \subseteq sweep.entries \ {entry}
          /\ sweep'.remaining \in {0, sweep.remaining}
      BY <3>1, <3>2, RestIs DEF LogInv
    <3> QED BY <1>3, <3>2, <3>3
  <2>3. CASE entry.day \notin held BY <1>1, <2>1, <2>3, RemoveKeeps
  <2> QED BY <2>2, <2>3
<1> QED BY <1>4, <1>5

\* The action property behind SpareLogs: the janitor is over the quota by what
\* it counts, and never counts more than there is.
LEMMA OnlySweepRemoves ==
  ASSUME LogInv, NEW d \in DOMAIN files, d \notin DOMAIN files', SweepNext
  PROVE  Size(files) > QUOTA_BYTES /\ d # current
<1>1. sweep.remaining > QUOTA_BYTES /\ sweep.remaining <= Size(files)
  <2>1. sweep.remaining \in Nat BY DEF LogInv, LogTypes
  <2> QED BY <2>1, Bounds DEF LogInv, SweepIsCurrent, SweepNext
<1>2. PICK entry \in sweep.entries : RemoveFile(entry) BY <1>1, Bounds DEF SweepNext
<1>3. d = entry.day BY <1>2, FileRemoved
<1>4. entry.day < current /\ entry.day \in Nat /\ current \in Nat
  BY DEF LogInv, LogTypes, SweepIsCurrent
<1>5. Size(files) \in Nat /\ sweep.remaining \in Nat BY StoredFiles DEF LogInv, LogTypes
<1> QED BY <1>1, <1>3, <1>4, <1>5, Bounds

\* The lines of the last minutes are on the disk.
LEMMA RecentLines ==
  ASSUME LogInv, NEW time \in Nat
  PROVE  /\ Recent(time) \subseteq Nat \X Nat
         /\ \A line \in Recent(time) :
              line[1] \in DOMAIN files /\ line[1] \in Nat /\ line[1] <= current
<1> SUFFICES ASSUME NEW line \in Recent(time)
             PROVE  /\ line \in Nat \X Nat
                    /\ line[1] \in DOMAIN files /\ line[1] \in Nat /\ line[1] <= current
  OBVIOUS
<1>1. line \in Lines(files) BY DEF Recent
<1>2. PICK d \in DOMAIN files : \E i \in 1..Len(files[d]) : line = <<d, i>> BY <1>1, LineOf
<1>3. PICK i \in 1..Len(files[d]) : line = <<d, i>> BY <1>2
<1>4. d \in Nat /\ i \in Nat /\ d <= current
  BY <1>2, <1>3, StoredFiles DEF LogInv, DaysInOrder, Stored
<1> QED BY <1>3, <1>4

\* The lines of the last minutes are in the files that are read.
LEMMA WindowIsRead ==
  ASSUME LogInv, NEW line \in Recent(now)
  PROVE  \E i \in 1..Len(FilesToRead) : FilesToRead[i] = line[1]
<1>1. now \in Nat /\ Day(now) \in Nat BY TodayIsNat DEF LogInv
<1>2. line \in Lines(files) /\ files[line[1]][line[2]] >= now - WINDOW BY DEF Recent
<1>3. PICK d \in DOMAIN files : \E i \in 1..Len(files[d]) : line = <<d, i>> BY <1>2, LineOf
<1>4. PICK i \in 1..Len(files[d]) : line = <<d, i>> BY <1>3
<1> DEFINE stamp == files[d][i]
<1>5. d \in Nat /\ stamp \in Nat
  <2>1. files[d] \in Seq(Nat) /\ d \in Nat BY <1>3, StoredFiles DEF Stored
  <2> QED BY <1>4, <2>1
<1>6. Day(stamp) <= d /\ d <= current /\ current <= Day(now) /\ current \in Nat
  BY <1>3, <1>4 DEF LogInv, LogTypes, DaysInOrder
<1>7. stamp >= now - WINDOW BY <1>2, <1>4
<1> HIDE DEF stamp
<1>8. now - WINDOW \in Int /\ Day(now) - 1 <= Day(now - WINDOW) BY <1>1, WindowIsShort
<1>9. Day(now - WINDOW) <= Day(stamp) BY <1>5, <1>7, <1>8, DayMonotone
<1>10. Day(now - WINDOW) \in Int BY <1>8, DayIsInt
<1>11. Day(stamp) \in Int
  <2>1. stamp \in Int BY <1>5
  <2> QED BY <2>1, DayIsInt
<1>12. Day(now - WINDOW) <= d /\ d <= Day(now) BY <1>1, <1>5, <1>6, <1>9, <1>10, <1>11
<1> DEFINE from == Day(now - WINDOW)
           today == Day(now)
<1> HIDE DEF from, today
<1>13. /\ FilesToRead = IF from < today THEN <<today - 1, today>> ELSE <<today>>
       /\ from \in Int /\ today \in Nat /\ today - 1 <= from /\ from <= d /\ d <= today
  BY <1>1, <1>8, <1>10, <1>12 DEF FilesToRead, from, today
<1>14. CASE from < today
  <2>1. FilesToRead = <<today - 1, today>> /\ (d = today - 1 \/ d = today)
    BY <1>5, <1>13, <1>14
  <2>2. line[1] = d BY <1>4
  <2> QED BY <2>1, <2>2
<1>15. CASE ~(from < today)
  <2>1. FilesToRead = <<today>> /\ d = today BY <1>5, <1>13, <1>15
  <2>2. line[1] = d BY <1>4
  <2> QED BY <2>1, <2>2
<1> QED BY <1>14, <1>15

\* A report starts with everything still to read.
LEMMA BuildBundleKeeps ==
  ASSUME LogInv, BuildBundle
  PROVE  LogInv'
<1>1. UNCHANGED <<now, channel, current, files, held, sweep>> BY DEF BuildBundle
<1>2. now \in Nat /\ Day(now) \in Nat BY TodayIsNat DEF LogInv
<1>3. report' = [step |-> "look", asked |-> now, todo |-> FilesToRead, out |-> {}]
  BY DEF BuildBundle
<1>4. due' = Recent(now) BY DEF BuildBundle
<1>5. FilesToRead \in Seq(Int) BY <1>2 DEF FilesToRead
<1>6. report' \in [step : {"none", "look", "read", "ok", "failed"}, asked : Nat,
                   todo : Seq(Int), out : SUBSET (Nat \X Nat)]
  BY <1>2, <1>3, <1>5
<1>7. due' \subseteq Nat \X Nat BY <1>2, <1>4, RecentLines
<1>8. LogTypes' BY <1>1, <1>6, <1>7 DEF LogInv, LogTypes
<1>9. NothingLeftOut'
  <2>1. \A line \in due' : line[1] <= current' BY <1>1, <1>2, <1>4, RecentLines
  <2>2. report'.step = "look" /\ report'.asked = now /\ report'.todo = FilesToRead BY <1>3
  <2>3. Recent(report.asked)' = Recent(now) BY <1>1, <2>2 DEF Recent
  <2>4. ASSUME NEW line \in due' PROVE line \in Recent(report.asked)' /\ line[1] \in Todo'
    <3>1. line \in Recent(now) BY <1>4
    <3>2. \E i \in 1..Len(FilesToRead) : FilesToRead[i] = line[1] BY <3>1, WindowIsRead
    <3>3. Todo' = {FilesToRead[i] : i \in 1..Len(FilesToRead)} BY <2>2 DEF Todo
    <3> QED BY <2>3, <3>1, <3>2, <3>3
  <2> QED BY <2>1, <2>2, <2>4 DEF NothingLeftOut
<1>10. (DaysInOrder /\ DiskIsBounded /\ SweepIsCurrent)'
  BY <1>1 DEF LogInv, DaysInOrder, DiskIsBounded, SweepIsCurrent
<1> QED BY <1>8, <1>9, <1>10 DEF LogInv

\* What is left to do after the first file.
LEMMA TodoIs ==
  ASSUME LogTypes, report.todo # <<>>
  PROVE  /\ Tail(report.todo) \in Seq(Int)
         /\ Todo \subseteq {Head(report.todo)} \cup
                           {Tail(report.todo)[i] : i \in 1..Len(Tail(report.todo))}
<1> DEFINE todo == report.todo
<1>1. todo \in Seq(Int) /\ todo # <<>> BY DEF LogTypes
<1> HIDE DEF todo
<1>2. /\ Head(todo) = todo[1] /\ Tail(todo) \in Seq(Int) /\ Len(todo) \in Nat
      /\ Len(Tail(todo)) = Len(todo) - 1
      /\ \A i \in 1..Len(Tail(todo)) : Tail(todo)[i] = todo[i + 1]
  BY <1>1, HeadTailProperties
<1>3. ASSUME NEW i \in 1..Len(todo)
      PROVE  todo[i] = Head(todo) \/ \E j \in 1..Len(Tail(todo)) : todo[i] = Tail(todo)[j]
  <2>1. CASE i = 1 BY <1>2, <2>1
  <2>2. CASE i # 1
    <3>1. i - 1 \in 1..Len(Tail(todo)) /\ Tail(todo)[i - 1] = todo[(i - 1) + 1] BY <1>2, <2>2
    <3>2. (i - 1) + 1 = i OBVIOUS
    <3> QED BY <3>1, <3>2
  <2> QED BY <2>1, <2>2
<1> QED BY <1>2, <1>3 DEF todo, Todo

\* A step of the bundle that only moves on.
LEMMA BundleMoves ==
  ASSUME LogInv, UNCHANGED <<now, channel, current, files, held, sweep, due>>,
         report' \in [step : {"none", "look", "read", "ok", "failed"}, asked : Nat,
                      todo : Seq(Int), out : SUBSET (Nat \X Nat)],
         NothingLeftOut'
  PROVE  LogInv'
<1>1. LogTypes' BY DEF LogInv, LogTypes
<1>2. (DaysInOrder /\ DiskIsBounded /\ SweepIsCurrent)'
  BY DEF LogInv, DaysInOrder, DiskIsBounded, SweepIsCurrent
<1> QED BY <1>1, <1>2 DEF LogInv

\* A file that is read is in the report, and one that is gone was deleted.
LEMMA BundleKeeps ==
  ASSUME LogInv, Bundle
  PROVE  LogInv'
<1>1. UNCHANGED <<now, channel, current, files, held, sweep, due>>
  BY DEF Bundle, LookForFile, ReadFile, BundleFails
<1>2. /\ report \in [step : {"none", "look", "read", "ok", "failed"}, asked : Nat,
                     todo : Seq(Int), out : SUBSET (Nat \X Nat)]
      /\ LogTypes
  BY DEF LogInv, LogTypes
<1>3. \A line \in due' : line[1] <= current' BY <1>1 DEF LogInv, NothingLeftOut
<1>4. ASSUME report.step \in {"look", "read"}, NEW line \in due', line[1] \in DOMAIN files'
      PROVE  line \in report.out \/ (line \in Recent(report.asked) /\ line[1] \in Todo)
  BY <1>1, <1>4 DEF LogInv, NothingLeftOut
<1>5. CASE LookForFile /\ report.todo = <<>>
  <2>1. report' = [report EXCEPT !.step = "ok"] BY <1>5 DEF LookForFile
  <2>2. report'.step = "ok" /\ report'.todo = <<>> /\ report'.out = report.out BY <1>2, <1>5, <2>1
  <2>3. report' \in [step : {"none", "look", "read", "ok", "failed"}, asked : Nat,
                     todo : Seq(Int), out : SUBSET (Nat \X Nat)]
    BY <1>2, <2>1
  <2>4. Todo = {} BY <1>5 DEF Todo
  <2>5. NothingLeftOut' BY <1>3, <1>4, <1>5, <2>2, <2>4 DEF NothingLeftOut, LookForFile
  <2> QED BY <1>1, <2>3, <2>5, BundleMoves
<1>6. CASE LookForFile /\ report.todo # <<>> /\ Head(report.todo) \in DOMAIN files
  <2>1. report' = [report EXCEPT !.step = "read"] BY <1>6 DEF LookForFile
  <2>2. /\ report'.step = "read" /\ report'.todo = report.todo /\ report'.out = report.out
        /\ report'.asked = report.asked
    BY <1>2, <2>1
  <2>3. report' \in [step : {"none", "look", "read", "ok", "failed"}, asked : Nat,
                     todo : Seq(Int), out : SUBSET (Nat \X Nat)]
    BY <1>2, <2>1
  <2>4. Todo' = Todo /\ Recent(report.asked)' = Recent(report.asked)
    BY <1>1, <2>2 DEF Todo, Recent
  <2>5. NothingLeftOut' BY <1>3, <1>4, <1>6, <2>2, <2>4 DEF NothingLeftOut, LookForFile
  <2> QED BY <1>1, <2>3, <2>5, BundleMoves
<1>7. CASE LookForFile /\ report.todo # <<>> /\ Head(report.todo) \notin DOMAIN files
  <2>1. report' = [report EXCEPT !.todo = Tail(report.todo)] BY <1>7 DEF LookForFile
  <2>2. /\ Tail(report.todo) \in Seq(Int)
        /\ Todo \subseteq {Head(report.todo)} \cup
                          {Tail(report.todo)[i] : i \in 1..Len(Tail(report.todo))}
    BY <1>2, <1>7, TodoIs
  <2>3. /\ report'.step = "look" /\ report'.todo = Tail(report.todo) /\ report'.out = report.out
        /\ report'.asked = report.asked
    BY <1>2, <1>7, <2>1 DEF LookForFile
  <2>4. report' \in [step : {"none", "look", "read", "ok", "failed"}, asked : Nat,
                     todo : Seq(Int), out : SUBSET (Nat \X Nat)]
    BY <1>2, <2>1, <2>2
  <2>5. /\ Todo \subseteq {Head(report.todo)} \cup Todo'
        /\ Recent(report.asked)' = Recent(report.asked)
    BY <1>1, <2>2, <2>3 DEF Todo, Recent
  <2>6. ASSUME NEW line \in due', line[1] \in DOMAIN files'
        PROVE  line \in report'.out \/ (line \in Recent(report.asked)' /\ line[1] \in Todo')
    <3>1. line \in report.out \/ (line \in Recent(report.asked) /\ line[1] \in Todo)
      BY <1>4, <1>7, <2>6 DEF LookForFile
    <3>2. line[1] # Head(report.todo) BY <1>1, <1>7, <2>6
    <3> QED BY <2>3, <2>5, <3>1, <3>2
  <2>7. NothingLeftOut' BY <1>3, <2>3, <2>6 DEF NothingLeftOut
  <2> QED BY <1>1, <2>4, <2>7, BundleMoves
<1>8. CASE ReadFile /\ Head(report.todo) \notin DOMAIN files
  <2>1. report' = [report EXCEPT !.step = "failed"] BY <1>8 DEF ReadFile
  <2>2. report'.step = "failed" BY <1>2, <2>1
  <2>3. report' \in [step : {"none", "look", "read", "ok", "failed"}, asked : Nat,
                     todo : Seq(Int), out : SUBSET (Nat \X Nat)]
    BY <1>2, <2>1
  <2>4. NothingLeftOut' BY <1>3, <2>2 DEF NothingLeftOut
  <2> QED BY <1>1, <2>3, <2>4, BundleMoves
<1>9. CASE ReadFile /\ Head(report.todo) \in DOMAIN files
  <2> DEFINE cut == {line \in Recent(report.asked) : line[1] = Head(report.todo)}
  <2>1. report' = [report EXCEPT !.step = "look", !.todo = Tail(report.todo),
                                 !.out = report.out \cup cut]
    BY <1>9 DEF ReadFile
  <2>2. report.step = "read" /\ report.todo # <<>>
    BY <1>9 DEF ReadFile, LogInv, NothingLeftOut
  <2>3. /\ Tail(report.todo) \in Seq(Int)
        /\ Todo \subseteq {Head(report.todo)} \cup
                          {Tail(report.todo)[i] : i \in 1..Len(Tail(report.todo))}
    BY <1>2, <2>2, TodoIs
  <2>4. cut \subseteq Nat \X Nat BY <1>2, RecentLines
  <2>5. \A line \in Recent(report.asked) : line[1] = Head(report.todo) => line \in cut OBVIOUS
  <2> HIDE DEF cut
  <2>6. /\ report'.step = "look" /\ report'.todo = Tail(report.todo)
        /\ report'.out = report.out \cup cut /\ report'.asked = report.asked
    BY <1>2, <2>1
  <2>7. report' \in [step : {"none", "look", "read", "ok", "failed"}, asked : Nat,
                     todo : Seq(Int), out : SUBSET (Nat \X Nat)]
    BY <1>2, <2>1, <2>3, <2>4
  <2>8. /\ Todo \subseteq {Head(report.todo)} \cup Todo'
        /\ Recent(report.asked)' = Recent(report.asked)
    BY <1>1, <2>3, <2>6 DEF Todo, Recent
  <2>9. ASSUME NEW line \in due', line[1] \in DOMAIN files'
        PROVE  line \in report'.out \/ (line \in Recent(report.asked)' /\ line[1] \in Todo')
    <3>1. line \in report.out \/ (line \in Recent(report.asked) /\ line[1] \in Todo)
      BY <1>4, <2>2, <2>9
    <3>2. CASE line \in Recent(report.asked) /\ line[1] = Head(report.todo) BY <2>5, <2>6, <3>2
    <3> QED BY <2>6, <2>8, <3>1, <3>2
  <2>10. NothingLeftOut' BY <1>3, <2>6, <2>9 DEF NothingLeftOut
  <2> QED BY <1>1, <2>7, <2>10, BundleMoves
<1>10. CASE BundleFails
  <2>1. report' = [report EXCEPT !.step = "failed"] BY <1>10 DEF BundleFails
  <2>2. report'.step = "failed" BY <1>2, <2>1
  <2>3. report' \in [step : {"none", "look", "read", "ok", "failed"}, asked : Nat,
                     todo : Seq(Int), out : SUBSET (Nat \X Nat)]
    BY <1>2, <2>1
  <2>4. NothingLeftOut' BY <1>3, <2>2 DEF NothingLeftOut
  <2> QED BY <1>1, <2>3, <2>4, BundleMoves
<1> QED BY <1>5, <1>6, <1>7, <1>8, <1>9, <1>10 DEF Bundle

\* Every step of the logging keeps the invariant.
LEMMA LoggingKeeps ==
  ASSUME LogInv, Logging
  PROVE  LogInv'
BY TickKeeps, InfoKeeps, WriteLineKeeps, HoldKeeps, SweepKeeps, SweepNextKeeps, BundleKeeps
   DEF Logging, Janitor

\* A report that is dropped leaves nothing out.
LEMMA ReportDropped ==
  ASSUME LogInv, UNCHANGED <<now, current, files, held>>, sweep' \in {sweep, NoSweep},
         channel' \in {channel, <<>>}, report' = NoReport, due' \in {due, {}}
  PROVE  LogInv'
<1>1. channel' \in Seq(Nat) /\ Len(channel') \in Nat /\ Len(channel') <= Len(channel)
  <2>1. channel \in Seq(Nat) /\ Len(channel) \in Nat BY StoredFiles DEF LogInv, LogTypes
  <2>2. CASE channel' = channel BY <2>1, <2>2
  <2>3. CASE channel' = <<>> BY <2>1, <2>3
  <2> QED BY <2>2, <2>3
<1>2. \A i \in 1..Len(channel') : channel'[i] <= now BY DEF LogInv, DaysInOrder
<1>3. /\ report' \in [step : {"none", "look", "read", "ok", "failed"}, asked : Nat,
                      todo : Seq(Int), out : SUBSET (Nat \X Nat)]
      /\ report'.step = "none"
  BY DEF NoReport
<1>4. /\ sweep' \in [entries : SUBSET [day : Nat, size : Nat], remaining : Nat]
      /\ SweepIsCurrent'
  BY StoredFiles DEF LogInv, LogTypes, SweepIsCurrent, NoSweep
<1>5. LogTypes'
  <2>1. Len(channel') <= BUFFERED_LINES BY <1>1, StoredFiles, Bounds DEF LogInv, LogTypes
  <2> QED BY <1>1, <1>3, <1>4, <2>1 DEF LogInv, LogTypes
<1>6. DaysInOrder' BY <1>2 DEF LogInv, DaysInOrder
<1>7. DiskIsBounded'
  <2>1. Size(files) \in Nat /\ Len(channel) \in Nat BY StoredFiles
  <2> QED BY <1>1, <2>1, Bounds DEF LogInv, DiskIsBounded
<1>8. NothingLeftOut' BY <1>3 DEF LogInv, NothingLeftOut
<1> QED BY <1>4, <1>5, <1>6, <1>7, <1>8 DEF LogInv

\* The daemon ends: its queue and the janitor's list are gone.
LEMMA LogStopsKeeps ==
  ASSUME LogInv, LogStops
  PROVE  LogInv'
<1>1. channel' = <<>> /\ sweep' = NoSweep /\ UNCHANGED <<now, current, files, held, due>>
  BY DEF LogStops
<1>2. CASE report' = NoReport BY <1>1, <1>2, ReportDropped
<1>3. CASE report' = report
  <2>1. channel' \in Seq(Nat) /\ Len(channel') = 0 BY <1>1
  <2>2. /\ sweep' \in [entries : SUBSET [day : Nat, size : Nat], remaining : Nat]
        /\ SweepIsCurrent'
    <3>1. sweep'.entries = {} /\ sweep'.remaining = 0 BY <1>1 DEF NoSweep
    <3>2. sweep' \in [entries : SUBSET [day : Nat, size : Nat], remaining : Nat]
      BY <1>1 DEF NoSweep
    <3>3. Size(files') \in Nat BY <1>1, StoredFiles
    <3> QED BY <3>1, <3>2, <3>3 DEF SweepIsCurrent
  <2>3. LogTypes'
    <3>1. Len(channel') <= BUFFERED_LINES BY <2>1, Bounds
    <3> QED BY <1>1, <1>3, <2>1, <2>2, <3>1 DEF LogInv, LogTypes
  <2>4. DaysInOrder' BY <1>1, <2>1 DEF LogInv, DaysInOrder
  <2>5. DiskIsBounded'
    <3>1. Size(files) \in Nat /\ Len(channel) \in Nat BY StoredFiles
    <3> QED BY <1>1, <2>1, <3>1, Bounds DEF LogInv, DiskIsBounded
  <2>6. NothingLeftOut' BY <1>1, <1>3 DEF LogInv, NothingLeftOut, Todo, Recent
  <2> QED BY <2>2, <2>3, <2>4, <2>5, <2>6 DEF LogInv
<1> QED BY <1>2, <1>3 DEF LogStops

\* The next daemon opens the file of the day.
LEMMA LogStartsKeeps ==
  ASSUME LogInv, LogStarts
  PROVE  LogInv'
<1> DEFINE none == <<>>
<1>1. now \in Nat /\ Day(now) \in Nat BY TodayIsNat DEF LogInv
<1>2. UNCHANGED <<now, channel, held, sweep, report, due>> /\ current' = Day(now)
  BY DEF LogStarts
<1>3. /\ current \in Nat /\ current \in DOMAIN files /\ current <= current' /\ current' \in Nat
      /\ \A d \in DOMAIN files : d \in Nat /\ d <= current
  BY <1>1, <1>2 DEF LogInv, LogTypes, DaysInOrder
<1>4. Stored(files) /\ Size(files) \in Nat /\ Len(channel) \in Nat BY StoredFiles
<1>5. none \in Seq(Nat) /\ Len(none) = 0 OBVIOUS
<1>6. files' = Opened(files, current', none) BY DEF LogStarts
<1> HIDE DEF none
<1>7. /\ Stored(files') /\ DOMAIN files' = DOMAIN files \cup {current'}
      /\ \A e \in DOMAIN files : files'[e] = files[e]
      /\ current' \notin DOMAIN files => files'[current'] = none
      /\ Size(files') = Size(files)
  <2>1. /\ Stored(Opened(files, current', none))
        /\ DOMAIN Opened(files, current', none) = DOMAIN files \cup {current'}
    BY <1>3, <1>4, <1>5, OpenedFile
  <2>2. \A e \in DOMAIN files : Opened(files, current', none)[e] = files[e]
    BY <1>3, <1>4, <1>5, OpenedFile
  <2>3. current' \notin DOMAIN files => Opened(files, current', none)[current'] = none
    BY <1>3, <1>4, <1>5, OpenedFile
  <2>4. /\ current' \in DOMAIN files => Size(Opened(files, current', none)) = Size(files)
        /\ current' \notin DOMAIN files =>
             Size(Opened(files, current', none)) = Size(files) + Len(none)
    BY <1>3, <1>4, <1>5, OpenedFile
  <2>5. Size(Opened(files, current', none)) = Size(files) BY <1>4, <1>5, <2>4
  <2> QED BY <1>6, <2>1, <2>2, <2>3, <2>5
<1>8. LogTypes'
  <2>1. /\ files' \in [DOMAIN files' -> Seq(Nat)] /\ IsFiniteSet(DOMAIN files')
        /\ DOMAIN files' \subseteq Nat /\ current' \in DOMAIN files'
    BY <1>7 DEF Stored
  <2> QED BY <1>2, <1>3, <2>1 DEF LogInv, LogTypes
<1>9. DaysInOrder'
  <2>1. \A d \in DOMAIN files' : d <= current' BY <1>3, <1>7
  <2>2. ASSUME NEW d \in DOMAIN files', NEW i \in 1..Len(files'[d]) PROVE Day(files'[d][i]) <= d
    <3>1. CASE d \in DOMAIN files
      <4>1. files'[d] = files[d] BY <1>7, <3>1
      <4> QED BY <3>1, <4>1 DEF LogInv, DaysInOrder
    <3>2. CASE d \notin DOMAIN files
      <4>1. files'[d] = none BY <1>7, <3>2
      <4>2. Len(files'[d]) = 0 BY <1>5, <4>1
      <4> QED BY <4>2
    <3> QED BY <3>1, <3>2
  <2>3. current' <= Day(now') BY <1>1, <1>2, <1>3
  <2> QED BY <1>2, <2>1, <2>2, <2>3 DEF LogInv, DaysInOrder
<1>10. DiskIsBounded' BY <1>2, <1>7 DEF LogInv, DiskIsBounded
<1>11. SweepIsCurrent'
  <2>1. \A e \in DOMAIN files : e < current => e \in DOMAIN files' /\ files'[e] = files[e]
    BY <1>7
  <2>2. Size(files') \in Nat /\ Size(files) <= Size(files') BY <1>4, <1>7
  <2> QED BY <1>2, <1>3, <2>1, <2>2, SweepStays
<1>12. NothingLeftOut'
  <2>1. \A line \in due : line[1] \in Nat /\ line[1] <= current
    BY DEF LogInv, LogTypes, NothingLeftOut
  <2>2. ASSUME NEW line \in due, line[1] \in DOMAIN files' PROVE line[1] \in DOMAIN files
    BY <1>3, <1>7, <2>1, <2>2
  <2>3. \A e \in DOMAIN files : Len(files[e]) \in Nat BY <1>4 DEF Stored
  <2>4. \A e \in DOMAIN files : e \in DOMAIN files' =>
          /\ Len(files[e]) \in Nat /\ Len(files'[e]) \in Nat /\ Len(files[e]) <= Len(files'[e])
          /\ \A i \in 1..Len(files[e]) : files'[e][i] = files[e][i]
    BY <1>7, <2>3
  <2> QED BY <1>2, <1>3, <2>2, <2>4, LeftOutKeeps
<1> QED BY <1>8, <1>9, <1>10, <1>11, <1>12 DEF LogInv

-----------------------------------------------------------------------------
(* The daemon, as the page sees it *)

\* The daemon comes, publishes its port, hangs and goes.
LEMMA BridgeKeeps ==
  ASSUME BridgeTypeOK, DaemonStarts \/ DaemonPublishes \/ DaemonStops \/ DaemonHangs
  PROVE  BridgeTypeOK'
<1>1. CASE DaemonStarts BY <1>1 DEF BridgeTypeOK, DaemonStarts
<1>2. CASE DaemonPublishes BY <1>2 DEF BridgeTypeOK, DaemonPublishes
<1>3. CASE DaemonStops BY <1>3 DEF BridgeTypeOK, DaemonStops
<1>4. CASE DaemonHangs
  <2>1. hung' \in BOOLEAN BY <1>4, Zenon DEF DaemonHangs
  <2> QED BY <1>4, <2>1 DEF BridgeTypeOK, DaemonHangs
<1> QED BY <1>1, <1>2, <1>3, <1>4

-----------------------------------------------------------------------------
(* The pill *)

\* A result is put at the end of the last FAILURE_THRESHOLD.
LEMMA RecordShifts ==
  ASSUME outcomes \in Seq(Results), Len(outcomes) <= FAILURE_THRESHOLD,
         NEW result \in Results, Record(result)
  PROVE  /\ outcomes' \in Seq(Results) /\ Len(outcomes) \in Nat
         /\ Len(outcomes') = IF Len(outcomes) < FAILURE_THRESHOLD THEN Len(outcomes) + 1
                             ELSE FAILURE_THRESHOLD
         /\ outcomes'[Len(outcomes')] = result
         /\ \A i \in 1..Len(outcomes') - 1 :
              outcomes'[i] = outcomes[i + (Len(outcomes) + 1 - Len(outcomes'))]
<1>1. Len(outcomes) \in Nat OBVIOUS
<1>2. CASE Len(outcomes) < FAILURE_THRESHOLD
  <2>1. outcomes' = Append(outcomes, result) BY <1>2 DEF Record
  <2> QED BY <1>1, <1>2, <2>1, AppendProperties
<1>3. CASE ~(Len(outcomes) < FAILURE_THRESHOLD)
  <2>1. outcomes' = Append(Tail(outcomes), result) BY <1>3 DEF Record
  <2>2. outcomes # <<>> /\ Len(outcomes) = FAILURE_THRESHOLD BY <1>1, <1>3, PillAssumption
  <2>3. /\ Tail(outcomes) \in Seq(Results) /\ Len(Tail(outcomes)) = FAILURE_THRESHOLD - 1
        /\ \A i \in 1..Len(Tail(outcomes)) : Tail(outcomes)[i] = outcomes[i + 1]
    BY <2>2, HeadTailProperties
  <2>4. /\ outcomes' \in Seq(Results)
        /\ Len(outcomes') = Len(Tail(outcomes)) + 1
        /\ \A i \in 1..Len(Tail(outcomes)) : outcomes'[i] = Tail(outcomes)[i]
        /\ outcomes'[Len(Tail(outcomes)) + 1] = result
    BY <2>1, <2>3, AppendProperties
  <2> QED BY <1>1, <1>3, <2>2, <2>3, <2>4, PillAssumption
<1> QED BY <1>2, <1>3

\* An answer ends the count.
LEMMA SucceededKeeps ==
  ASSUME PillInv, Succeeded
  PROVE  FailuresAreCounted' /\ failures' \in 0..FAILURE_THRESHOLD
<1>1. /\ outcomes' \in Seq(Results) /\ Len(outcomes') \in 1..FAILURE_THRESHOLD
      /\ outcomes'[Len(outcomes')] = "ok"
  BY RecordShifts, PillAssumption DEF PillInv, FailuresAreCounted, Succeeded, Results
<1> QED BY <1>1, PillAssumption DEF Succeeded, FailuresAreCounted

\* A failure is counted, and the one at the threshold turns the pill red.
LEMMA FailedKeeps ==
  ASSUME PillInv, NEW reason \in {"no_port_file", "probe_failed"}, Failed(reason)
  PROVE  FailuresAreCounted' /\ failures' \in 0..FAILURE_THRESHOLD
<1> USE PillAssumption
<1>1. /\ outcomes \in Seq(Results) /\ Len(outcomes) <= FAILURE_THRESHOLD
      /\ failures \in 0..FAILURE_THRESHOLD /\ reason \in Results /\ reason # "ok"
  BY DEF PillInv, PillTypeOK, FailuresAreCounted, Results
<1>2. Record(reason) BY DEF Failed
<1>3. /\ outcomes' \in Seq(Results) /\ Len(outcomes) \in Nat
      /\ Len(outcomes') = IF Len(outcomes) < FAILURE_THRESHOLD THEN Len(outcomes) + 1
                          ELSE FAILURE_THRESHOLD
      /\ outcomes'[Len(outcomes')] = reason
      /\ \A i \in 1..Len(outcomes') - 1 :
           outcomes'[i] = outcomes[i + (Len(outcomes) + 1 - Len(outcomes'))]
  BY <1>1, <1>2, RecordShifts
<1>4. failures' = IF failures < FAILURE_THRESHOLD THEN failures + 1 ELSE failures
  BY DEF Failed
<1>5. /\ Len(outcomes') \in Nat /\ Len(outcomes') <= Len(outcomes) + 1
      /\ Len(outcomes) <= Len(outcomes')
  BY <1>1, <1>3
<1>6. failures <= Len(outcomes) /\ failures' <= Len(outcomes') /\ failures' \in 0..FAILURE_THRESHOLD
  BY <1>1, <1>3, <1>4 DEF PillInv, FailuresAreCounted
<1>7. \A i \in 1..Len(outcomes') : i > Len(outcomes') - failures' => outcomes'[i] # "ok"
  <2> SUFFICES ASSUME NEW i \in 1..Len(outcomes'), i > Len(outcomes') - failures',
                      i # Len(outcomes')
               PROVE  outcomes'[i] # "ok"
    BY <1>1, <1>3
  <2> DEFINE j == i + (Len(outcomes) + 1 - Len(outcomes'))
  <2>1. i \in 1..Len(outcomes') - 1 BY <1>3
  <2>2. outcomes'[i] = outcomes[j] BY <1>3, <2>1
  <2>3. j \in 1..Len(outcomes) /\ j > Len(outcomes) - failures
    <3>1. CASE failures' = failures + 1 BY <1>1, <1>5, <1>6, <2>1, <3>1
    <3>2. CASE failures' = failures /\ failures = FAILURE_THRESHOLD
      BY <1>1, <1>5, <1>6, <2>1, <3>2
    <3> QED BY <1>1, <1>4, <3>1, <3>2
  <2> QED BY <2>2, <2>3 DEF PillInv, FailuresAreCounted
<1>8. ASSUME failures' < Len(outcomes') PROVE outcomes'[Len(outcomes') - failures'] = "ok"
  <2>1. failures < Len(outcomes) /\ failures' = failures + 1 BY <1>1, <1>3, <1>4, <1>6, <1>8
  <2>2. outcomes[Len(outcomes) - failures] = "ok" BY <2>1 DEF PillInv, FailuresAreCounted
  <2>3. Len(outcomes') - failures' \in 1..Len(outcomes') - 1 BY <1>1, <1>3, <1>6, <1>8, <2>1
  <2>4. outcomes'[Len(outcomes') - failures']
          = outcomes[(Len(outcomes') - failures') + (Len(outcomes) + 1 - Len(outcomes'))]
    BY <1>3, <2>3
  <2>5. (Len(outcomes') - failures') + (Len(outcomes) + 1 - Len(outcomes'))
          = Len(outcomes) - failures
    BY <1>1, <1>5, <2>1
  <2> QED BY <2>2, <2>4, <2>5
<1>9. Len(outcomes') <= FAILURE_THRESHOLD BY <1>1, <1>3
<1>10. /\ pill'.status = "disconnected" =>
            failures' = FAILURE_THRESHOLD /\ pill'.reason = outcomes'[FAILURE_THRESHOLD]
       /\ pill'.status = "connected" => failures' < Len(outcomes')
       /\ pill'.status = "connecting" => failures' = Len(outcomes') /\ failures' < FAILURE_THRESHOLD
  <2>1. CASE failures' < FAILURE_THRESHOLD
    <3>1. pill' = pill BY <2>1 DEF Failed
    <3> QED BY <1>1, <1>3, <1>4, <1>6, <2>1, <3>1 DEF PillInv, FailuresAreCounted
  <2>2. CASE ~(failures' < FAILURE_THRESHOLD)
    <3>1. pill' = [status |-> "disconnected", reason |-> reason] BY <2>2 DEF Failed
    <3> QED BY <1>1, <1>3, <1>4, <1>6, <2>2, <3>1
  <2> QED BY <2>1, <2>2
<1>11. outcomes' \in Seq(Results) BY <1>3
<1>12. FailuresAreCounted' BY <1>6, <1>7, <1>8, <1>9, <1>10, <1>11, Zenon DEF FailuresAreCounted
<1> QED BY <1>6, <1>12

\* A poll of the pill.
LEMMA PillKeeps ==
  ASSUME BridgeTypeOK, PillInv, PillPolls, UNCHANGED railVars
  PROVE  PillInv'
<1>1. FailuresAreCounted' /\ failures' \in 0..FAILURE_THRESHOLD
  <2>1. CASE Poll
    <3>1. CASE portFile = NoPort BY <2>1, <3>1, FailedKeeps DEF Poll
    <3>2. CASE portFile # NoPort
      BY <2>1, <3>2 DEF Poll, PillInv, PillTypeOK, FailuresAreCounted
    <3> QED BY <3>1, <3>2
  <2>2. CASE PollEnds BY <2>2, SucceededKeeps, FailedKeeps DEF PollEnds
  <2> QED BY <2>1, <2>2 DEF PillPolls
<1>2. pill' \in [status : {"connecting", "connected", "disconnected"},
                 reason : {"none", "no_port_file", "probe_failed"}]
  BY DEF PillPolls, Poll, PollEnds, Succeeded, Failed, PillInv, PillTypeOK
<1>3. probing' \in Ports \cup {NoPort}
  BY DEF PillPolls, Poll, PollEnds, PillInv, PillTypeOK, BridgeTypeOK
<1> QED BY <1>1, <1>2, <1>3 DEF PillInv, PillTypeOK, railVars

\* A poll of the rail, and the daemon's pid file.
LEMMA RailKeeps ==
  ASSUME BridgeTypeOK, PillInv, UNCHANGED pillVars,
         DetailPolls \/ PidLeft \/ (PidWritten /\ served' \in Ports)
  PROVE  PillInv'
<1>1. FailuresAreCounted' BY DEF PillInv, FailuresAreCounted, pillVars
<1>2. /\ pidFile' \in Ports \cup {NoPort} /\ asking' \in Ports \cup {NoPort}
      /\ detail' \in [port : Ports \cup {NoPort}, pid : Ports \cup {NoPort}]
  BY DEF PillInv, PillTypeOK, DetailPolls, AskDetail, DetailAnswered, ShowDetail, PidWritten,
         PidLeft, NoDetail, BridgeTypeOK
<1>3. told' \in BOOLEAN
  BY DEF PillInv, PillTypeOK, DetailPolls, AskDetail, DetailAnswered, ShowDetail, PidWritten,
         PidLeft
<1> QED BY <1>1, <1>2, <1>3 DEF PillInv, PillTypeOK, pillVars

\* The counter and the pill say what the results were.
LEMMA PillInvHonest == PillInv => PillIsHonest
<1> SUFFICES ASSUME PillInv PROVE PillIsHonest OBVIOUS
<1> DEFINE Last == {outcomes[i] : i \in 1..Len(outcomes)}
<1> USE PillAssumption DEF PillInv, FailuresAreCounted
<1>1. Len(outcomes) \in Nat /\ failures \in Nat BY DEF PillTypeOK
<1>2. ASSUME failures = Len(outcomes) PROVE "ok" \notin Last
  BY <1>1, <1>2
<1>3. ASSUME failures < Len(outcomes) PROVE "ok" \in Last
  BY <1>1, <1>3
<1>4. failures = FAILURE_THRESHOLD => Len(outcomes) = FAILURE_THRESHOLD BY <1>1
<1> QED BY <1>1, <1>2, <1>3, <1>4 DEF PillIsHonest

-----------------------------------------------------------------------------
(* The log view *)

\* Each callback and each click of the log view.
LEMMA ViewerKeeps ==
  ASSUME BridgeTypeOK, ViewerInv, ViewerConnects \/ ViewerUses
  PROVE  ViewerInv'
<1> USE BridgeAssumption, ViewerAssumption
    DEF ViewerInv, ViewerTypeOK, OneAttempt, StatusIsHonest, NoSocket, Disconnected, BridgeTypeOK
<1>1. CASE Connect
  <2>1. resolving' \in Nat /\ timers' \in Nat /\ UNCHANGED <<socket, paused, events>>
    BY <1>1 DEF Connect
  <2>2. status' \in {"connecting", "paused"} /\ early' = FALSE BY <1>1 DEF Connect
  <2>3. ViewerTypeOK' BY <2>1, <2>2
  <2>4. OneAttempt' BY <1>1 DEF Connect
  <2>5. StatusIsHonest' BY <1>1 DEF Connect
  <2> QED BY <2>3, <2>4, <2>5
<1>2. CASE Resolved
  <2>1. ViewerTypeOK' BY <1>2 DEF Resolved
  <2>2. OneAttempt' BY <1>2 DEF Resolved
  <2>3. StatusIsHonest' BY <1>2 DEF Resolved
  <2> QED BY <2>1, <2>2, <2>3
<1>3. CASE OnOpen
  <2>1. socket' \in [port : Ports, state : {"opening", "open", "cut"}] BY <1>3 DEF OnOpen
  <2>2. status' \in {"streaming", "paused"} /\ early' = FALSE BY <1>3 DEF OnOpen
  <2>3. UNCHANGED <<resolving, timers, paused, events>> BY <1>3 DEF OnOpen
  <2>4. ViewerTypeOK' BY <2>1, <2>2, <2>3
  <2>5. OneAttempt' BY <1>3 DEF OnOpen
  <2>6. StatusIsHonest' BY <1>3 DEF OnOpen
  <2> QED BY <2>4, <2>5, <2>6
<1>4. CASE OnClose
  <2>1. ViewerTypeOK' BY <1>4 DEF OnClose
  <2>2. OneAttempt' BY <1>4 DEF OnClose
  <2>3. StatusIsHonest' BY <1>4 DEF OnClose
  <2> QED BY <2>1, <2>2, <2>3
<1>5. CASE OnMessage
  <2>1. ViewerTypeOK' BY <1>5 DEF OnMessage
  <2>2. OneAttempt' BY <1>5 DEF OnMessage
  <2>3. StatusIsHonest' BY <1>5 DEF OnMessage
  <2> QED BY <2>1, <2>2, <2>3
<1>6. CASE Pause
  <2>1. ViewerTypeOK' BY <1>6 DEF Pause
  <2>2. OneAttempt' BY <1>6 DEF Pause
  <2>3. StatusIsHonest' BY <1>6 DEF Pause
  <2> QED BY <2>1, <2>2, <2>3
<1>7. CASE Resume
  <2>1. ViewerTypeOK' BY <1>7 DEF Resume
  <2>2. OneAttempt' BY <1>7 DEF Resume
  <2>3. StatusIsHonest' BY <1>7 DEF Resume
  <2> QED BY <2>1, <2>2, <2>3
<1>8. CASE Clear
  <2>1. ViewerTypeOK' BY <1>8 DEF Clear
  <2>2. OneAttempt' BY <1>8 DEF Clear
  <2>3. StatusIsHonest' BY <1>8 DEF Clear
  <2> QED BY <2>1, <2>2, <2>3
<1> QED BY <1>1, <1>2, <1>3, <1>4, <1>5, <1>6, <1>7, <1>8 DEF ViewerConnects, ViewerUses

\* The end of the daemon cuts an open socket only.
LEMMA CutKeeps ==
  ASSUME ViewerInv, Cut, UNCHANGED <<resolving, timers, status, paused, events, early>>
  PROVE  ViewerInv'
BY BridgeAssumption DEF ViewerInv, ViewerTypeOK, OneAttempt, StatusIsHonest, NoSocket, Cut

-----------------------------------------------------------------------------
(* The box for experimental builds *)

\* The polls and the box cross.
LEMMA SwitchKeeps ==
  ASSUME BridgeTypeOK, SwitchTypeOK,
         (\E i \in Polls : SwitchPolls(i)) \/ SwitchEnds \/ SetNightly \/ FetchesBreak
  PROVE  SwitchTypeOK'
<1> USE DEF SwitchTypeOK, NoPress
<1>1. ASSUME NEW i \in Polls, SwitchPolls(i) PROVE SwitchTypeOK'
  <2>1. shown' \in BOOLEAN BY <1>1, Zenon DEF SwitchPolls, Refresh, Status, Refreshed
  <2> QED BY <1>1, <2>1 DEF SwitchPolls, Refresh, Status, Refreshed
<1>2. CASE FlagSet BY <1>2 DEF FlagSet
<1>3. CASE NightlySet BY <1>3 DEF NightlySet
<1>4. CASE SetNightly BY <1>4 DEF SetNightly
<1>5. CASE FetchesBreak BY <1>5 DEF FetchesBreak
<1> QED BY <1>1, <1>2, <1>3, <1>4, <1>5 DEF SwitchEnds

-----------------------------------------------------------------------------
(* The report *)

\* The types of the log files, from the invariant.
LEMMA LogTyped == LogInv => LogTypeOK
<1> SUFFICES ASSUME LogInv PROVE LogTypeOK OBVIOUS
<1>1. Size(files) \in Nat /\ Len(channel) \in Nat BY StoredFiles
<1>2. sweep.remaining \in Nat /\ sweep.remaining <= Size(files)
  BY DEF LogInv, LogTypes, SweepIsCurrent
<1>3. Size(files) + Len(channel) <= MaxLines BY DEF LogInv, DiskIsBounded
<1>4. sweep.remaining \in 0..MaxLines BY <1>1, <1>2, <1>3, Bounds
<1> QED BY <1>4 DEF LogInv, LogTypes, LogTypeOK

\* What a step of the report has to show.
LEMMA ReportFrom ==
  ASSUME LogInv', JobInStep', enabled' \in BOOLEAN, zip' \in {"none", "part", "bundle"},
         button' \in {"idle", "requesting", "saved", "error_logging", "error_network"}
  PROVE  ReportInv'
<1>1. LogTypeOK'
  <2>1. LogInv => LogTypeOK BY LogTyped
  <2> QED BY <2>1, LogTyped, PTL
<1>2. /\ job'.step \in {"none", "port", "sent", "building", "cut", "write"}
      /\ job'.port \in Ports \cup {NoPort}
  BY DEF JobInStep
<1> QED BY <1>1, <1>2 DEF ReportInv, ReportTypeOK

\* A bundle stays as it is until it is dropped.
LEMMA BuiltStays ==
  ASSUME report.step = "ok", Logging
  PROVE  report' = report
BY DEF Logging, Tick, Info, WriteLine, Hold, Janitor, Sweep, SweepNext, Bundle, LookForFile,
       ReadFile, BundleFails

\* Each step of a report, in the page, the shell and the daemon.
LEMMA ReportRunsKeeps ==
  ASSUME BridgeTypeOK, ReportInv, Run \/ ReportRuns
  PROVE  ReportInv'
<1>1. LogInv /\ JobInStep /\ enabled \in BOOLEAN /\ zip \in {"none", "part", "bundle"}
  BY DEF ReportInv, ReportTypeOK
<1>2. button \in {"idle", "requesting", "saved", "error_logging", "error_network"}
  BY DEF ReportInv, ReportTypeOK
<1>3. job \in [step : {"none", "port", "sent", "building", "cut", "write"},
               port : Ports \cup {NoPort}]
  BY <1>1 DEF JobInStep
<1>4. NoJob \in [step : {"none", "port", "sent", "building", "cut", "write"},
                 port : Ports \cup {NoPort}] /\ NoJob.step = "none"
  BY DEF NoJob
<1>5. UNCHANGED logVars => LogInv'
  BY <1>1 DEF logVars, LogInv, LogTypes, DaysInOrder, DiskIsBounded, SweepIsCurrent,
              NothingLeftOut, Todo, Recent
<1>6. UNCHANGED logVars => report' = report BY DEF logVars
<1>7. ASSUME NEW result \in {"error_logging", "error_network"}, Show(result), LogInv',
             UNCHANGED enabled, zip' \in {"none", "part", "bundle"}
      PROVE  ReportInv'
  <2>1. button' = result /\ job' = NoJob BY <1>7 DEF Show
  <2>2. JobInStep' BY <1>4, <2>1 DEF JobInStep
  <2> QED BY <1>1, <1>7, <2>1, <2>2, ReportFrom
<1>8. ASSUME NEW step \in {"port", "sent", "building", "write"}, NEW port \in Ports \cup {NoPort},
             job' = [step |-> step, port |-> port], button' = "requesting",
             step = "write" => report'.step = "ok", LogInv', UNCHANGED <<enabled, zip>>
      PROVE  ReportInv'
  <2>1. JobInStep' BY <1>8 DEF JobInStep
  <2> QED BY <1>1, <1>8, <2>1, ReportFrom
<1>9. job.step # "none" => button = "requesting" BY <1>1 DEF JobInStep
<1>10. ASSUME NEW step, job' = [job EXCEPT !.step = step]
       PROVE  job' = [step |-> step, port |-> job.port] /\ job.port \in Ports \cup {NoPort}
  BY <1>3, <1>10
<1>11. CASE Run
  <2>1. job' = [job EXCEPT !.step = "port"] /\ button' = "requesting" BY <1>11 DEF Run
  <2>2. UNCHANGED <<enabled, zip, logVars>> BY <1>11 DEF Run
  <2> QED BY <1>5, <1>8, <1>10, <2>1, <2>2
<1>12. CASE ReadPort
  <2>1. job' = [step |-> "sent", port |-> portFile] /\ button' = "requesting"
    BY <1>9, <1>12 DEF ReadPort
  <2>2. UNCHANGED <<enabled, zip, logVars>> BY <1>12 DEF ReadPort
  <2> QED BY <1>5, <1>8, <2>1, <2>2 DEF BridgeTypeOK
<1>13. CASE NoPortFound BY <1>1, <1>5, <1>7, <1>13 DEF NoPortFound
<1>14. CASE Handler
  <2>1. CASE enabled
    <3>1. job' = [job EXCEPT !.step = "building"] /\ button' = "requesting"
      BY <1>9, <1>14, <2>1 DEF Handler
    <3>2. LogInv' BY <1>1, <1>14, <2>1, BuildBundleKeeps DEF Handler
    <3>3. UNCHANGED <<enabled, zip>> BY <1>14 DEF Handler
    <3> QED BY <1>8, <1>10, <3>1, <3>2, <3>3
  <2>2. CASE ~enabled BY <1>1, <1>5, <1>7, <1>14, <2>2 DEF Handler
  <2> QED BY <2>1, <2>2
<1>15. CASE Respond
  <2>1. CASE report.step = "ok"
    <3>1. job' = [job EXCEPT !.step = "write"] /\ button' = "requesting"
      BY <1>9, <1>15, <2>1 DEF Respond
    <3>2. UNCHANGED <<enabled, zip, logVars>> BY <1>15 DEF Respond
    <3> QED BY <1>5, <1>6, <1>8, <1>10, <2>1, <3>1, <3>2
  <2>2. CASE report.step # "ok" BY <1>1, <1>5, <1>7, <1>15, <2>2 DEF Respond
  <2> QED BY <2>1, <2>2
<1>16. CASE Network BY <1>1, <1>5, <1>7, <1>16 DEF Network
<1>17. CASE Timeout
  <2>1. LogInv' BY <1>1, <1>17, ReportDropped DEF Timeout
  <2> QED BY <1>1, <1>7, <1>17, <2>1 DEF Timeout
<1>18. CASE WriteZip
  <2>1. UNCHANGED <<enabled, logVars>> BY <1>18 DEF WriteZip
  <2>2. CASE zip' = "bundle" /\ Show("saved")
    <3>1. report'.step = "ok" BY <1>1, <1>6, <1>18, <2>1 DEF WriteZip, JobInStep
    <3>2. button' = "saved" /\ job' = NoJob BY <2>2 DEF Show
    <3>3. JobInStep' BY <1>4, <2>2, <3>1, <3>2 DEF JobInStep
    <3> QED BY <1>1, <1>5, <2>1, <2>2, <3>2, <3>3, ReportFrom
  <2>3. CASE zip' \in {"none", "part"} /\ Show("error_network") BY <1>5, <1>7, <2>1, <2>3
  <2> QED BY <1>18, <2>2, <2>3 DEF WriteZip
<1>19. CASE DwellEnds
  <2>1. LogInv' BY <1>1, <1>19, ReportDropped DEF DwellEnds
  <2>2. job' = job /\ job.step = "none" /\ button' = "idle" /\ zip' = "none" /\ enabled' = enabled
    BY <1>1, <1>3, <1>19 DEF DwellEnds, JobInStep
  <2>3. JobInStep' BY <1>3, <2>2 DEF JobInStep
  <2> QED BY <1>1, <2>1, <2>2, <2>3, ReportFrom
<1> QED BY <1>11, <1>12, <1>13, <1>14, <1>15, <1>16, <1>17, <1>18, <1>19 DEF ReportRuns

\* The log files move under a report.
LEMMA LogStepKeeps ==
  ASSUME ReportInv, LogInv', UNCHANGED reportVars, report.step = "ok" => report' = report
  PROVE  ReportInv'
<1>1. JobInStep' BY DEF ReportInv, JobInStep, reportVars
<1> QED BY <1>1, ReportFrom DEF ReportInv, ReportTypeOK, reportVars

\* The daemon ends under a report.
LEMMA ReportStopsKeeps ==
  ASSUME ReportInv, ReportStops
  PROVE  ReportInv'
<1>1. LogInv' BY LogStopsKeeps DEF ReportInv, ReportStops
<1>2. report.step = "ok" => report' = report BY DEF ReportStops, LogStops
<1>3. JobInStep' BY <1>2 DEF ReportInv, JobInStep, ReportStops
<1> QED BY <1>1, <1>3, ReportFrom DEF ReportInv, ReportTypeOK, ReportStops

\* A daemon starts under a report.
LEMMA ReportStartsKeeps ==
  ASSUME ReportInv, ReportStarts
  PROVE  ReportInv'
<1>1. LogInv /\ enabled \in BOOLEAN BY DEF ReportInv, ReportTypeOK
<1>2. CASE enabled
  <2>1. LogStarts BY <1>2 DEF ReportStarts
  <2>2. LogInv' BY <1>1, <2>1, LogStartsKeeps
  <2>3. report' = report BY <2>1 DEF LogStarts
  <2> QED BY <2>2, <2>3, LogStepKeeps DEF ReportStarts
<1>3. CASE ~enabled
  <2>1. UNCHANGED logVars BY <1>3 DEF ReportStarts
  <2>2. LogInv' BY <1>1, <2>1 DEF logVars, LogInv, LogTypes, DaysInOrder, DiskIsBounded,
                                  SweepIsCurrent, NothingLeftOut, Todo, Recent
  <2>3. report' = report BY <2>1 DEF logVars
  <2> QED BY <2>2, <2>3, LogStepKeeps DEF ReportStarts
<1> QED BY <1>2, <1>3

\* A report that was built has nothing left to read.
LEMMA SavedFromInv == ReportInv => SavedIsWhole
<1> SUFFICES ASSUME ReportInv, button = "saved" PROVE SavedIsWhole
  BY DEF SavedIsWhole
<1>1. zip = "bundle" /\ report.step = "ok" BY DEF ReportInv, JobInStep
<1>2. report.todo = <<>> BY <1>1 DEF ReportInv, LogInv, NothingLeftOut
<1>3. Todo = {} BY <1>2 DEF Todo
<1>4. \A line \in due : line[1] \in DOMAIN files => line \in report.out
  BY <1>1, <1>3 DEF ReportInv, LogInv, NothingLeftOut
<1> QED BY <1>1, <1>4 DEF SavedIsWhole

-----------------------------------------------------------------------------
(* The page *)

\* The parts that stand still keep their invariants.
LEMMA PillStays == PillInv /\ UNCHANGED <<pillVars, railVars>> => PillInv'
BY DEF PillInv, PillTypeOK, FailuresAreCounted, pillVars, railVars

LEMMA ViewerStays == ViewerInv /\ UNCHANGED viewerVars => ViewerInv'
BY DEF ViewerInv, ViewerTypeOK, OneAttempt, StatusIsHonest, viewerVars

LEMMA SwitchStays == SwitchTypeOK /\ UNCHANGED switchVars => SwitchTypeOK'
BY DEF SwitchTypeOK, switchVars

LEMMA ReportStays == ReportInv /\ UNCHANGED <<reportVars, logVars>> => ReportInv'
<1> SUFFICES ASSUME ReportInv, UNCHANGED <<reportVars, logVars>> PROVE ReportInv' OBVIOUS
<1>1. LogInv' BY DEF ReportInv, logVars, LogInv, LogTypes, DaysInOrder, DiskIsBounded,
                     SweepIsCurrent, NothingLeftOut, Todo, Recent
<1>2. report' = report BY DEF logVars
<1> QED BY <1>1, <1>2, LogStepKeeps

\* The page starts with each invariant.
LEMMA FrontendInit == Init => FrontendInv
<1> SUFFICES ASSUME Init PROVE FrontendInv OBVIOUS
<1>1. BridgeTypeOK BY BridgeAssumption DEF Init, BridgeInit, BridgeTypeOK
<1>2. SwitchTypeOK BY BridgeAssumption DEF Init, BridgeInit, SwitchInit, SwitchTypeOK, NoPress
<1>3. PillInv
  <2>1. PillInit BY DEF Init
  <2>2. PillTypeOK
    <3>1. /\ pill = [status |-> "connecting", reason |-> "none"] /\ failures = 0
          /\ probing = NoPort /\ asking = NoPort /\ pidFile = PagePort
          /\ detail = [port |-> NoPort, pid |-> NoPort]
      BY <2>1 DEF PillInit, NoDetail
    <3>2. told \in BOOLEAN BY <2>1 DEF PillInit
    <3>3. failures \in 0..FAILURE_THRESHOLD BY <3>1, PillAssumption
    <3> QED BY <3>1, <3>2, <3>3, BridgeAssumption DEF PillTypeOK
  <2>3. outcomes \in Seq(Results) /\ Len(outcomes) = 0 BY <2>1 DEF PillInit
  <2>4. FailuresAreCounted BY <2>1, <2>3, PillAssumption DEF PillInit, FailuresAreCounted
  <2> QED BY <2>2, <2>4 DEF PillInv
<1>4. ViewerInv
  <2>1. ViewerInit BY DEF Init
  <2>2. ViewerTypeOK
    <3>1. resolving = 1 /\ socket = NoSocket /\ timers = 0 /\ status = "connecting" /\ events = 0
      BY <2>1 DEF ViewerInit
    <3>2. paused \in BOOLEAN /\ early \in BOOLEAN BY <2>1 DEF ViewerInit
    <3>3. events \in 0..MAX_EVENTS BY <3>1, ViewerAssumption
    <3> QED BY <3>1, <3>2, <3>3 DEF ViewerTypeOK
  <2>3. OneAttempt /\ StatusIsHonest
    BY <2>1 DEF ViewerInit, OneAttempt, StatusIsHonest, NoSocket
  <2> QED BY <2>2, <2>3 DEF ViewerInv
<1>5. LogInv BY LogInitHolds DEF Init
<1>6. JobInStep BY DEF Init, ReportInit, JobInStep, NoJob
<1>7. ReportTypeOK BY <1>5, <1>6, LogTyped DEF Init, ReportInit, ReportTypeOK, JobInStep
<1> QED BY <1>1, <1>2, <1>3, <1>4, <1>5, <1>6, <1>7 DEF FrontendInv, ReportInv, Init

\* A step of one part.
LEMMA PartKeeps ==
  ASSUME FrontendInv, NEW part \in {"pill", "rail", "log", "update", "report"},
         Others(part), UNCHANGED view, BridgeTypeOK',
         part \in {"pill", "rail"} => PillInv', part = "log" => ViewerInv',
         part = "update" => SwitchTypeOK', part = "report" => ReportInv'
  PROVE  FrontendInv'
<1>1. PillInv'
  <2>1. part \notin {"pill", "rail"} => UNCHANGED <<pillVars, railVars>> BY DEF Others
  <2> QED BY <2>1, PillStays DEF FrontendInv
<1>2. ViewerInv'
  <2>1. part # "log" => UNCHANGED viewerVars BY DEF Others
  <2> QED BY <2>1, ViewerStays DEF FrontendInv
<1>3. SwitchTypeOK'
  <2>1. part # "update" => UNCHANGED switchVars BY DEF Others
  <2> QED BY <2>1, SwitchStays DEF FrontendInv
<1>4. ReportInv'
  <2>1. part # "report" => UNCHANGED <<reportVars, logVars>> BY DEF Others
  <2> QED BY <2>1, ReportStays DEF FrontendInv
<1> QED BY <1>1, <1>2, <1>3, <1>4 DEF FrontendInv

\* A step of no part.
LEMMA AllStay ==
  ASSUME FrontendInv, BridgeTypeOK', UNCHANGED <<partVars, view>>
  PROVE  FrontendInv'
<1>1. Others(view) BY DEF Others, partVars
<1>2. PillInv' /\ ViewerInv' /\ SwitchTypeOK' /\ ReportInv'
  BY PillStays, ViewerStays, SwitchStays, ReportStays DEF FrontendInv, partVars
<1> QED BY <1>1, <1>2, PartKeeps DEF FrontendInv

LEMMA BridgeStays == BridgeTypeOK /\ UNCHANGED bridgeVars => BridgeTypeOK'
BY DEF BridgeTypeOK, bridgeVars

\* The daemon ends, to each part.
LEMMA StopsKeeps ==
  ASSUME FrontendInv, Stops
  PROVE  FrontendInv'
<1>1. BridgeTypeOK' BY BridgeKeeps DEF FrontendInv, Stops
<1>2. Others(view) /\ UNCHANGED <<pillVars, view>> BY DEF Stops
<1>3. view \in {"pill", "rail"} => PillInv'
  <2>1. CASE view = "pill"
    <3>1. UNCHANGED railVars BY <1>2, <2>1 DEF Others
    <3> QED BY <1>2, <3>1, PillStays DEF FrontendInv
  <2>2. CASE view = "rail" BY <1>2, <2>2, RailKeeps DEF FrontendInv, Stops
  <2> QED BY <2>1, <2>2
<1>4. view = "log" => ViewerInv' BY CutKeeps DEF FrontendInv, Stops
<1>5. view = "update" => SwitchTypeOK' BY SwitchKeeps DEF FrontendInv, Stops
<1>6. view = "report" => ReportInv' BY ReportStopsKeeps DEF FrontendInv, Stops
<1> QED BY <1>1, <1>2, <1>3, <1>4, <1>5, <1>6, PartKeeps DEF FrontendInv

\* A daemon starts, to each part.
LEMMA StartsKeeps ==
  ASSUME FrontendInv, Starts
  PROVE  FrontendInv'
<1>1. BridgeTypeOK' BY BridgeKeeps DEF FrontendInv, Starts
<1>2. Others(view) /\ UNCHANGED <<pillVars, viewerVars, switchVars, view>> BY DEF Starts
<1>3. view \in {"pill", "rail"} => PillInv'
  <2>1. CASE view = "pill"
    <3>1. UNCHANGED railVars BY <1>2, <2>1 DEF Others
    <3> QED BY <1>2, <3>1, PillStays DEF FrontendInv
  <2>2. CASE view = "rail" BY <1>2, <2>2, RailKeeps DEF FrontendInv, Starts, DaemonStarts
  <2> QED BY <2>1, <2>2
<1>4. ViewerInv' /\ SwitchTypeOK' BY <1>2, ViewerStays, SwitchStays DEF FrontendInv
<1>5. view = "report" => ReportInv' BY ReportStartsKeeps DEF FrontendInv, Starts
<1> QED BY <1>1, <1>2, <1>3, <1>4, <1>5, PartKeeps DEF FrontendInv

\* Every step of the daemon.
LEMMA DaemonsKeep ==
  ASSUME FrontendInv, Daemons
  PROVE  FrontendInv'
<1>1. CASE Stops BY <1>1, StopsKeeps
<1>2. CASE Starts BY <1>2, StartsKeeps
<1>3. CASE DaemonPublishes /\ UNCHANGED <<partVars, view>>
  <2>1. BridgeTypeOK' BY <1>3, BridgeKeeps DEF FrontendInv
  <2> QED BY <1>3, <2>1, AllStay
<1>4. CASE DaemonHangs /\ UNCHANGED <<partVars, view>>
  <2>1. BridgeTypeOK' BY <1>4, BridgeKeeps DEF FrontendInv
  <2> QED BY <1>4, <2>1, AllStay
<1> QED BY <1>1, <1>2, <1>3, <1>4 DEF Daemons

\* Every step of the page.
LEMMA FrontendStep == FrontendInv /\ [Next]_vars => FrontendInv'
<1> SUFFICES ASSUME FrontendInv, [Next]_vars PROVE FrontendInv' OBVIOUS
<1>1. CASE Daemons BY <1>1, DaemonsKeep
<1>2. CASE Polled
  <2>1. PillPolls /\ Others("pill") /\ UNCHANGED <<bridgeVars, view>>
    BY <1>2 DEF Polled, Part, PillPolls
  <2>2. UNCHANGED railVars BY <2>1 DEF Others
  <2>3. PillInv' BY <2>1, <2>2, PillKeeps DEF FrontendInv
  <2> QED BY <2>1, <2>3, BridgeStays, PartKeeps DEF FrontendInv
<1>3. CASE Detailed
  <2>1. DetailPolls /\ Others("rail") /\ UNCHANGED <<bridgeVars, view>>
    BY <1>3 DEF Detailed, Part
  <2>2. UNCHANGED pillVars BY <2>1 DEF Others
  <2>3. PillInv' BY <2>1, <2>2, RailKeeps DEF FrontendInv
  <2> QED BY <2>1, <2>3, BridgeStays, PartKeeps DEF FrontendInv
<1>4. CASE Connects \/ Part("log", ViewerUses)
  <2>1. (ViewerConnects \/ ViewerUses) /\ Others("log") /\ UNCHANGED <<bridgeVars, view>>
    BY <1>4 DEF Connects, Part
  <2>2. ViewerInv' BY <2>1, ViewerKeeps DEF FrontendInv
  <2> QED BY <2>1, <2>2, BridgeStays, PartKeeps DEF FrontendInv
<1>5. CASE (\E i \in Polls : Boxed(i)) \/ Switched \/ Part("update", SetNightly)
  <2>1. /\ (\E i \in Polls : SwitchPolls(i)) \/ SwitchEnds \/ SetNightly
        /\ Others("update") /\ UNCHANGED <<bridgeVars, view>>
    BY <1>5 DEF Boxed, Switched, Part
  <2>2. SwitchTypeOK' BY <2>1, SwitchKeeps DEF FrontendInv
  <2> QED BY <2>1, <2>2, BridgeStays, PartKeeps DEF FrontendInv
<1>6. CASE Reports \/ Part("report", Run)
  <2>1. (Run \/ ReportRuns) /\ Others("report") /\ UNCHANGED <<bridgeVars, view>>
    BY <1>6 DEF Reports, Part
  <2>2. ReportInv' BY <2>1, ReportRunsKeeps DEF FrontendInv
  <2> QED BY <2>1, <2>2, BridgeStays, PartKeeps DEF FrontendInv
<1>7. CASE Part("report", LogWorks)
  <2>1. /\ Logging /\ UNCHANGED reportVars
        /\ Others("report") /\ UNCHANGED <<bridgeVars, view>>
    BY <1>7 DEF LogWorks, Part
  <2>2. LogInv' BY <2>1, LoggingKeeps DEF FrontendInv, ReportInv
  <2>3. ReportInv' BY <2>1, <2>2, BuiltStays, LogStepKeeps DEF FrontendInv
  <2> QED BY <2>1, <2>3, BridgeStays, PartKeeps DEF FrontendInv
<1>8. CASE UNCHANGED vars
  <2>1. BridgeTypeOK' BY <1>8, BridgeStays DEF FrontendInv, vars
  <2> QED BY <1>8, <2>1, AllStay DEF vars
<1> QED BY <1>1, <1>2, <1>3, <1>4, <1>5, <1>6, <1>7, <1>8 DEF Next

\* No other step deletes a file.
LEMMA OnlySweepUnlinks ==
  ASSUME FrontendInv, [Next]_vars, NEW d \in DOMAIN files, d \notin DOMAIN files'
  PROVE  SweepNext
<1> SUFFICES ASSUME ~SweepNext, files' # files PROVE d \in DOMAIN files' OBVIOUS
<1>1. ASSUME NEW part, part # "report", Others(part) PROVE FALSE
  BY <1>1 DEF Others, logVars
<1>2. CASE Stops
  BY <1>1, <1>2 DEF Stops, ReportStops, LogStops
<1>3. CASE Starts
  <2>1. ReportStarts BY <1>1, <1>3 DEF Starts
  <2>2. LogStarts BY <2>1 DEF ReportStarts, logVars
  <2> QED BY <2>2 DEF LogStarts, Opened
<1>4. CASE Part("report", LogWorks)
  <2>1. Logging BY <1>4 DEF Part, LogWorks
  <2>2. CASE WriteLine BY <2>2, LineIsWritten DEF FrontendInv, ReportInv
  <2>3. CASE Tick \/ Info \/ Hold \/ Sweep \/ Bundle
    BY <2>3 DEF Tick, Info, Hold, Sweep, Bundle, LookForFile, ReadFile, BundleFails
  <2> QED BY <2>1, <2>2, <2>3 DEF Logging, Janitor
<1>5. CASE Reports \/ Part("report", Run)
  BY <1>5 DEF Reports, Part, Run, ReportRuns, ReadPort, NoPortFound, Handler, BuildBundle, Respond,
              Network, Timeout, WriteZip, DwellEnds, logVars
<1>6. CASE Daemons BY <1>2, <1>3, <1>6 DEF Daemons, partVars, logVars
<1>7. CASE Polled \/ Detailed \/ Connects \/ Part("log", ViewerUses)
  BY <1>1, <1>7 DEF Polled, Detailed, Connects, Part
<1>8. CASE (\E i \in Polls : Boxed(i)) \/ Switched \/ Part("update", SetNightly)
  BY <1>1, <1>8 DEF Boxed, Switched, Part
<1>9. CASE UNCHANGED vars BY <1>9 DEF vars, partVars, logVars
<1> QED BY <1>4, <1>5, <1>6, <1>7, <1>8, <1>9 DEF Next

\* Whatever the daemon, the disk and the user do, each part of the page keeps
\* its invariant.
THEOREM FrontendInvariant == Spec => []FrontendInv
<1>1. Init => FrontendInv BY FrontendInit
<1>2. FrontendInv /\ [Next]_vars => FrontendInv' BY FrontendStep
<1> QED BY <1>1, <1>2, PTL DEF Spec

\* The page's state has the type it should have: counters, queues, the port and
\* pid that are shown, the janitor's list and the report stay in their ranges.
THEOREM FrontendTypeCorrect == Spec => []TypeOK
<1>1. FrontendInv => TypeOK
  BY DEF FrontendInv, PillInv, ViewerInv, ReportInv, TypeOK
<1> QED BY <1>1, FrontendInvariant, PTL

\* The pill, the log view and the report button say what is, for every threshold,
\* quota, window and length of a day.
THEOREM PageStaysHonest == Spec => []PageIsHonest
<1>1. FrontendInv => PageIsHonest
  BY PillInvHonest, SavedFromInv DEF FrontendInv, ViewerInv, PageIsHonest
<1> QED BY <1>1, FrontendInvariant, PTL

\* Only files that are not written and only over the quota are deleted.
THEOREM SpareLogs == Spec => OnlySpareLogsGo
<1> DEFINE Spare == \A d \in DOMAIN files : d \notin DOMAIN files' =>
                      Size(files) > QUOTA_BYTES /\ d # current
<1>1. FrontendInv /\ [Next]_vars => [Spare]_logVars
  <2> SUFFICES ASSUME FrontendInv, [Next]_vars, NEW d \in DOMAIN files, d \notin DOMAIN files'
               PROVE  Size(files) > QUOTA_BYTES /\ d # current
    OBVIOUS
  <2>1. SweepNext BY OnlySweepUnlinks
  <2> QED BY <2>1, OnlySweepRemoves DEF FrontendInv, ReportInv
<1> QED BY <1>1, FrontendInvariant, PTL DEF Spec, OnlySpareLogsGo
=============================================================================
