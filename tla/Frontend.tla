------------------------------ MODULE Frontend ------------------------------
(***************************************************************************)
(* The parts of the page over a daemon that hangs, crashes, stops and      *)
(* starts again.  They share nothing but the daemon, its files and the     *)
(* bridge to them, so a behaviour follows one of them at a time: view,     *)
(* chosen at the start, says which, and the others stand still.            *)
(***************************************************************************)
EXTENDS StatusPill, LogViewer, UpdateSwitch, BugReport

VARIABLE view

partVars == <<pillVars, railVars, viewerVars, switchVars, reportVars, logVars>>
vars == <<bridgeVars, partVars, view>>

Init ==
  /\ BridgeInit
  /\ PillInit /\ ViewerInit /\ SwitchInit /\ LogInit /\ ReportInit
  /\ view \in {"pill", "rail", "log", "update", "report"}
  /\ view # "report" => enabled
  /\ view # "update" => flag

Others(part) ==
  /\ part # "pill" => UNCHANGED pillVars
  /\ part # "rail" => UNCHANGED railVars
  /\ part # "log" => UNCHANGED viewerVars
  /\ part # "update" => UNCHANGED switchVars
  /\ part # "report" => UNCHANGED <<reportVars, logVars>>

Part(part, step) == view = part /\ step /\ Others(part) /\ UNCHANGED <<bridgeVars, view>>

\* The end of the daemon cuts what is connected to it.
Stops ==
  /\ DaemonStops
  /\ view = "rail" => PidLeft
  /\ view = "log" => Cut /\ UNCHANGED <<resolving, timers, status, paused, events, early>>
  /\ view = "update" => FetchesBreak
  /\ view = "report" => ReportStops
  /\ UNCHANGED <<pillVars, view>>
  /\ Others(view)

Starts ==
  /\ DaemonStarts
  /\ view = "rail" => PidWritten
  /\ view = "report" => ReportStarts /\ served' = PagePort
  /\ UNCHANGED <<pillVars, viewerVars, switchVars, view>>
  /\ Others(view)

\* To the report, which times out in any case, a daemon that hangs is a slow one
\* and a daemon on another port is none.
Daemons ==
  \/ Stops \/ Starts
  \/ DaemonPublishes /\ UNCHANGED <<partVars, view>>
  \/ view # "report" /\ DaemonHangs /\ UNCHANGED <<partVars, view>>

Polled == Part("pill", Poll) \/ Part("pill", PollEnds)
Detailed == Part("rail", DetailPolls)
Connects == Part("log", ViewerConnects)
Boxed(i) == Part("update", SwitchPolls(i))
Switched == Part("update", SwitchEnds)
Reports == Part("report", ReportRuns)
Sweeps == Part("report", served # NoPort /\ enabled /\ Janitor /\ UNCHANGED reportVars)

Next ==
  \/ Daemons
  \/ Polled \/ Detailed
  \/ Connects \/ Part("log", ViewerUses)
  \/ (\E i \in Polls : Boxed(i)) \/ Switched \/ Part("update", SetNightly)
  \/ Reports \/ Part("report", Run) \/ Part("report", LogWorks)

\* Timers fire, requests end and threads run. The user and the daemon's ends are
\* free, and so is the time until a line is logged.  One view has one of the first
\* four at most.
Fairness ==
  /\ WF_vars(Polled \/ Detailed \/ Connects \/ Reports)
  /\ \A i \in Polls : WF_vars(Boxed(i))
  /\ WF_vars(Switched)
  /\ WF_vars(Sweeps)

Spec == Init /\ [][Next]_vars /\ Fairness

\* What each part comes to, in the behaviours that follow it.
PartsSettle ==
  /\ view = "pill" => PillSettles
  /\ view = "rail" => RailSettles
  /\ view = "log" => ViewerComesBack
  /\ view = "update" => BoxCatchesUp
  /\ view = "report" => ButtonComesBack /\ QuotaEnforced

\* The pill, the log view and the report button say what is, and the log view
\* connects once at a time.
PageIsHonest == PillIsHonest /\ OneAttempt /\ StatusIsHonest /\ SavedIsWhole

TypeOK ==
  /\ BridgeTypeOK /\ PillTypeOK /\ ViewerTypeOK /\ SwitchTypeOK /\ ReportTypeOK
  /\ view \in {"pill", "rail", "log", "update", "report"}

\* The inductive invariant: one for each part.
FrontendInv ==
  /\ BridgeTypeOK /\ SwitchTypeOK /\ PillInv /\ ViewerInv /\ ReportInv
  /\ view \in {"pill", "rail", "log", "update", "report"}
=============================================================================
