------------------------------- MODULE Bridge -------------------------------
(***************************************************************************)
(* What the frontend sees of the daemon, through the Electron main process *)
(* (http-port.js, backend-url.js, health-check.js): the daemon that        *)
(* listens, and the port and pid files in the temporary directory.  Daemon *)
(* has their life in detail; here they only come, hang, crash and go.      *)
(* A daemon is known by the HTTP port that it was given.                   *)
(***************************************************************************)
CONSTANTS
  Ports, NoPort,
  PagePort  \* of the daemon that served the page

ASSUME BridgeAssumption == PagePort \in Ports /\ NoPort \notin Ports

VARIABLES
  served,    \* the port that a daemon listens on
  hung,      \* it accepts connections and answers none
  portFile   \* streamcheats_core.http_port

bridgeVars == <<served, hung, portFile>>

BridgeInit == served = PagePort /\ portFile = PagePort /\ hung = FALSE

\* The takeover cleared the file of the last one.
DaemonStarts ==
  /\ served = NoPort
  /\ served' \in Ports
  /\ portFile' = NoPort
  /\ hung' = FALSE

DaemonPublishes ==
  /\ served # NoPort
  /\ portFile' = served
  /\ UNCHANGED <<served, hung>>

\* A crash leaves the file, a shutdown removes it.
DaemonStops ==
  /\ served # NoPort
  /\ served' = NoPort
  /\ hung' = FALSE
  /\ portFile' \in {portFile, NoPort}

DaemonHangs ==
  /\ served # NoPort
  /\ hung' = ~hung
  /\ UNCHANGED <<served, portFile>>

\* A request to port p that ends now is answered.
Answers(p) == served = p /\ ~hung

Healthy == served # NoPort /\ ~hung /\ portFile = served

BridgeTypeOK ==
  /\ served \in Ports \cup {NoPort}
  /\ hung \in BOOLEAN
  /\ portFile \in Ports \cup {NoPort}
=============================================================================
