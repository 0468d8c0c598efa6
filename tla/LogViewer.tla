----------------------------- MODULE LogViewer ------------------------------
(***************************************************************************)
(* The log view of the frontend (useLogStream.ts): it asks the Electron    *)
(* main process for the daemon's URL, opens a WebSocket, and tries again   *)
(* when there is no URL and when the socket closes, while the user pauses  *)
(* and resumes.  What the socket carries is in LogStream.                  *)
(***************************************************************************)
EXTENDS Bridge, Naturals

CONSTANT MAX_EVENTS

\* A quarter of the list is at least one line; the code keeps 5000.
ASSUME ViewerAssumption == MAX_EVENTS \in Nat /\ MAX_EVENTS >= 4

VARIABLES
  resolving,  \* connect() calls that wait for getBackendUrl
  socket,     \* wsRef: the port, and whether it is open or was cut since
  timers,     \* reconnect timers that run
  status,     \* what the view says
  paused,     \* pausedRef
  events,     \* lines kept
  early       \* history: resume() since connect() began, and no socket was open

viewerVars == <<resolving, socket, timers, status, paused, events, early>>

NoSocket == [port |-> NoPort, state |-> "none"]

ViewerInit ==
  /\ resolving = 1 /\ socket = NoSocket /\ timers = 0
  /\ status = "connecting" /\ paused = FALSE /\ events = 0 /\ early = FALSE

\* scheduleReconnect replaces the timer that runs.
Disconnected ==
  /\ status' = "disconnected"
  /\ timers' = 1
  /\ UNCHANGED <<paused, events, early>>

Connect ==
  /\ timers > 0
  /\ timers' = timers - 1
  /\ resolving' = resolving + 1
  /\ status' = IF paused THEN "paused" ELSE "connecting"
  /\ early' = FALSE
  /\ UNCHANGED <<socket, paused, events>>

\* getBackendUrl has answered.
Resolved ==
  /\ resolving > 0
  /\ resolving' = resolving - 1
  /\ IF portFile = NoPort
     THEN Disconnected /\ UNCHANGED socket
     ELSE /\ socket' = [port |-> portFile, state |-> "opening"]
          /\ UNCHANGED <<timers, status, paused, events, early>>

OnOpen ==
  /\ socket.state = "opening"
  /\ Answers(socket.port)
  /\ socket' = [socket EXCEPT !.state = "open"]
  /\ status' = IF paused THEN "paused" ELSE "streaming"
  /\ early' = FALSE
  /\ UNCHANGED <<resolving, timers, paused, events>>

\* The connection is refused, times out, or ends with the daemon.
OnClose ==
  /\ \/ socket.state = "cut"
     \/ socket.state = "opening" /\ ~Answers(socket.port)
  /\ socket' = NoSocket
  /\ Disconnected
  /\ UNCHANGED resolving

\* Mutant: the list only grows.
OnMessageUncapped ==
  /\ socket.state = "open" /\ Answers(socket.port)
  /\ events' = IF paused THEN events ELSE events + 1
  /\ UNCHANGED <<resolving, socket, timers, status, paused, early>>

\* A quarter of the lines goes when the list is full.
OnMessage ==
  /\ socket.state = "open" /\ Answers(socket.port)
  /\ events' = IF paused THEN events
               ELSE IF events >= MAX_EVENTS THEN events - (MAX_EVENTS \div 4) + 1
               ELSE events + 1
  /\ UNCHANGED <<resolving, socket, timers, status, paused, early>>

Pause ==
  /\ ~paused
  /\ paused' = TRUE
  /\ status' = IF status \in {"streaming", "connecting"} THEN "paused" ELSE status
  /\ UNCHANGED <<resolving, socket, timers, events, early>>

\* Mutant: resume() says streaming whatever was said before.
ResumeOverwrites ==
  /\ paused
  /\ paused' = FALSE
  /\ status' = "streaming"
  /\ early' = (status = "paused" /\ socket.state \notin {"open", "cut"})
  /\ UNCHANGED <<resolving, socket, timers, events>>

Resume ==
  /\ paused
  /\ paused' = FALSE
  /\ status' = IF status = "paused" THEN "streaming" ELSE status
  /\ early' = (status = "paused" /\ socket.state \notin {"open", "cut"})
  /\ UNCHANGED <<resolving, socket, timers, events>>

Clear ==
  /\ events > 0
  /\ events' = 0
  /\ UNCHANGED <<resolving, socket, timers, status, paused, early>>

\* The end of the daemon cuts the socket.
Cut == socket' = IF socket.state = "open" THEN [socket EXCEPT !.state = "cut"] ELSE socket

ViewerConnects == Connect \/ Resolved \/ OnOpen \/ OnClose
ViewerUses == OnMessage \/ Pause \/ Resume \/ Clear

ViewerTypeOK ==
  /\ resolving \in Nat /\ timers \in Nat
  /\ socket \in [port : Ports, state : {"opening", "open", "cut"}] \cup {NoSocket}
  /\ status \in {"connecting", "streaming", "paused", "disconnected"}
  /\ paused \in BOOLEAN /\ early \in BOOLEAN
  /\ events \in 0..MAX_EVENTS

\* Whatever fails, closes or is refused, the view has one thing under way:
\* a look-up, a socket or a timer. It never gives up and never has two sockets.
OneAttempt == resolving + timers + (IF socket = NoSocket THEN 0 ELSE 1) = 1

\* The view says what is: disconnected and connecting only without an open
\* socket, paused when it is paused, and streaming only over a socket that was
\* opened and has not closed, or after resume() between two connections.
StatusIsHonest ==
  LET opened == socket.state \in {"open", "cut"} IN
    /\ status \in {"connecting", "disconnected"} => ~opened
    /\ status = "paused" => paused
    /\ paused => status \in {"paused", "disconnected"}
    /\ status = "streaming" => opened \/ early

\* Once a daemon stays, the view is connected to it, also after restarts on
\* other ports and over stale port files.
ViewerComesBack ==
  \A p \in Ports :
    <>[](Healthy /\ served = p) => <>[](socket = [port |-> p, state |-> "open"])

-----------------------------------------------------------------------------
\* The inductive invariant: the two properties hold each other up.
ViewerInv == ViewerTypeOK /\ OneAttempt /\ StatusIsHonest
=============================================================================
