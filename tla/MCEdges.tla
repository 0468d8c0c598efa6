------------------------------ MODULE MCEdges ------------------------------
(***************************************************************************)
(* Three parts of the backend that share no state: the monitor's emitter,  *)
(* the log stream, and the search for the device.  A behaviour follows one *)
(* of them, which edge names, and the others stand still.                  *)
(***************************************************************************)
EXTENDS Monitor, LogStream, Discovery

CONSTANTS near, far

VARIABLE edge

\* One host listens on two ports, the other on one.
MCIps == {near, far}
MCPorts == {1, 2}
MCAddresses == {<<near, 1>>, <<near, 2>>, <<far, 1>>}

edgeVars == <<vars, streamVars, searchVars, edge>>

EdgesInit ==
  /\ Init /\ StreamInit /\ SearchInit
  /\ edge \in {"monitor", "log", "search"}

Watches(step) == edge = "monitor" /\ step /\ UNCHANGED <<streamVars, searchVars, edge>>
Streams(step) == edge = "log" /\ step /\ UNCHANGED <<vars, searchVars, edge>>
Seeks(step) == edge = "search" /\ step /\ UNCHANGED <<vars, streamVars, edge>>

\* discover_device has returned.
Found == Seeks(main = "returned" /\ AllDone /\ UNCHANGED searchVars)

EdgesNext ==
  \/ Watches(Next) \/ Streams(StreamNext) \/ Seeks(SearchNext)
  \/ Found

\* The fairness of the three: a behaviour has one of the first three at most.
EdgesSpec ==
  /\ EdgesInit /\ [][EdgesNext]_edgeVars
  /\ \A c \in Clients :
       WF_edgeVars(Watches(Emitter) \/ Streams(Handle(c)) \/ Seeks(Receive \/ Return))
  /\ \A p \in SerialPorts : WF_searchVars(Seeks(Probe(p))) /\ WF_searchVars(Seeks(Expire(p)))

\* Discovery ends in the behaviours that follow it; the other liveness properties
\* hold of what stands still.
SearchEnds == edge = "search" => DiscoveryEnds
=============================================================================
