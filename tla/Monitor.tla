------------------------------ MODULE Monitor ------------------------------
(***************************************************************************)
(* Monitor mode (kmbox_net/monitor/*, the cmd_monitor arm of the           *)
(* translator, and the event bus between them).  The UDP thread registers  *)
(* and unregisters peers; any thread publishes state changes on the bus;   *)
(* the emitter thread takes one change at a time, copies the peer table    *)
(* and sends the change to each peer of the copy, while the table goes on  *)
(* changing.                                                               *)
(*                                                                         *)
(* What a change says is left out: it is the same packet for every peer.   *)
(***************************************************************************)
EXTENDS Naturals

CONSTANTS
  Ips,          \* the hosts that send cmd_monitor
  Ports,        \* the ports they listen on, none of them 0
  Addresses,    \* the pairs <<ip, port>> that they ask for
  MaxEmits,     \* u64::MAX, where total_emits saturates
  MaxQueue,     \* bound: changes that wait for the emitter; none in the code
  None

ASSUME ConstantsAssumption ==
  /\ Addresses \subseteq Ips \X Ports
  /\ None \notin Ips /\ None \notin Addresses
  /\ MaxEmits \in Nat \ {0}
  /\ MaxQueue \in Nat \ {0}

VARIABLES
  running,      \* the flag of the whole process
  peers,        \* PeerRegistry.inner: its keys, ...
  total,        \* ... and their total_emits
  udp,          \* where the UDP loop is
  leaving,      \* the host whose cmd_monitor(0) it handles
  toRemove,     \* the rest of that handler's copy of the table
  emitter,      \* where the emitter thread is
  targets,      \* the rest of the emitter's copy of the table
  target,       \* the peer it has sent to
  subscribed,   \* the bus holds the emitter's Sender
  queue,        \* the length of that channel
  wanted,       \* history: the addresses subscribed and not unsubscribed since
  sent,         \* history: datagrams to each of them in this subscription
  late          \* history: datagrams to each other address since it left

table == <<peers, total>>
udpVars == <<udp, leaving, toRemove>>
emitterVars == <<emitter, targets, target>>
bus == <<subscribed, queue>>
history == <<wanted, sent, late>>
vars == <<running, table, udpVars, emitterVars, bus, history>>

UdpPcs == {"check", "recv", "removing", "gone"}
EmitterPcs == {"start", "check", "recv", "list", "send", "note", "gone"}

Saturating(n) == IF n < MaxEmits THEN n + 1 ELSE n

\* main subscribes to the bus before it spawns the emitter.
Init ==
  /\ running = TRUE
  /\ peers = {} /\ total = [a \in Addresses |-> 0]
  /\ udp = "check" /\ leaving = None /\ toRemove = {}
  /\ emitter = "start" /\ targets = {} /\ target = None
  /\ subscribed = TRUE /\ queue = 0
  /\ wanted = {}
  /\ sent = [a \in Addresses |-> 0]
  /\ late = [a \in Addresses |-> 0]

\* Ctrl+C, or the updater.
Stop ==
  /\ running /\ running' = FALSE
  /\ UNCHANGED <<table, udpVars, emitterVars, bus, history>>

----------------------------------------------------------------------------
(* The UDP loop, and handle_cmd_monitor in it *)

UdpCheck ==
  /\ udp = "check"
  /\ udp' = IF running THEN "recv" ELSE "gone"
  /\ UNCHANGED <<running, table, leaving, toRemove, emitterVars, bus, history>>

\* The receive times out, or another command comes.
UdpOther ==
  /\ udp = "recv"
  /\ udp' = "check"
  /\ UNCHANGED <<running, table, leaving, toRemove, emitterVars, bus, history>>

\* A known peer keeps its counter, a new one starts at 0.
Register(a) ==
  /\ udp = "recv"
  /\ udp' = "check"
  /\ peers' = peers \cup {a}
  /\ total' = IF a \in peers THEN total ELSE [total EXCEPT ![a] = 0]
  /\ wanted' = wanted \cup {a}
  /\ sent' = IF a \in wanted THEN sent ELSE [sent EXCEPT ![a] = 0]
  /\ late' = [late EXCEPT ![a] = 0]
  /\ UNCHANGED <<running, leaving, toRemove, emitterVars, bus>>

\* Mutant: one subscription for each host.
UnsubscribeOne(ip) ==
  /\ udp = "recv"
  /\ udp' = "removing"
  /\ leaving' = ip
  /\ \E a \in peers : a[1] = ip /\ toRemove' = {a}
  /\ UNCHANGED <<running, table, emitterVars, bus, history>>

\* Port 0 is every port of the host: first a copy of the table, ...
Unsubscribe(ip) ==
  /\ udp = "recv"
  /\ udp' = "removing"
  /\ leaving' = ip
  /\ toRemove' = {a \in peers : a[1] = ip}
  /\ UNCHANGED <<running, table, emitterVars, bus, history>>

\* ... and then one lock for each entry of the copy.
Unregister(a) ==
  /\ udp = "removing" /\ a \in toRemove
  /\ toRemove' = toRemove \ {a}
  /\ peers' = peers \ {a}
  /\ total' = [total EXCEPT ![a] = 0]
  /\ wanted' = wanted \ {a}
  /\ sent' = [sent EXCEPT ![a] = 0]
  /\ UNCHANGED <<running, udp, leaving, emitterVars, bus, late>>

Unsubscribed ==
  /\ udp = "removing" /\ toRemove = {}
  /\ udp' = "check"
  /\ leaving' = None
  /\ UNCHANGED <<running, table, toRemove, emitterVars, bus, history>>

Udp ==
  \/ UdpCheck \/ UdpOther \/ Unsubscribed
  \/ \E a \in Addresses : Register(a) \/ Unregister(a)
  \/ \E ip \in Ips : Unsubscribe(ip)

----------------------------------------------------------------------------
(* The bus *)

\* Whoever changes the device publishes.  A Sender whose Receiver is gone is
\* pruned by the first publication that it fails.
Publish ==
  /\ subscribed
  /\ \/ emitter = "gone" /\ subscribed' = FALSE /\ UNCHANGED queue
     \/ emitter # "gone" /\ queue < MaxQueue /\ queue' = queue + 1
        /\ UNCHANGED subscribed
  /\ UNCHANGED <<running, table, udpVars, emitterVars, history>>

----------------------------------------------------------------------------
(* The emitter thread: spawn_monitor_thread, run_loop, dispatch *)

\* The thread ends, and what is queued goes with its Receiver.
Leave ==
  /\ emitter' = "gone"
  /\ queue' = 0
  /\ UNCHANGED subscribed

Bind ==
  /\ emitter = "start"
  /\ \/ emitter' = "check" /\ UNCHANGED bus
     \/ Leave
  /\ UNCHANGED <<running, table, udpVars, targets, target, history>>

EmitterCheck ==
  /\ emitter = "check"
  /\ \/ running /\ emitter' = "recv" /\ UNCHANGED bus
     \/ ~running /\ Leave
  /\ UNCHANGED <<running, table, udpVars, targets, target, history>>

\* The flag may have fallen since the check: one more change is then sent.
Recv ==
  /\ emitter = "recv" /\ queue > 0
  /\ emitter' = "list"
  /\ queue' = queue - 1
  /\ UNCHANGED <<running, table, udpVars, targets, target, subscribed, history>>

\* Mutant: a wait without a timeout.
RecvWaits ==
  /\ emitter = "recv" /\ queue = 0
  /\ UNCHANGED vars

RecvTimeout ==
  /\ emitter = "recv" /\ queue = 0
  /\ emitter' = "check"
  /\ UNCHANGED <<running, table, udpVars, targets, target, bus, history>>

\* list_peers: no peers, no work.
List ==
  /\ emitter = "list"
  /\ targets' = peers
  /\ emitter' = IF peers = {} THEN "check" ELSE "send"
  /\ UNCHANGED <<running, table, udpVars, target, bus, history>>

\* After a peer the next one, in the order of a HashMap.
Proceed == emitter' = IF targets' = {} THEN "check" ELSE "send"

\* send_to accepts the datagram, with no lock held.
SendOk(a) ==
  /\ emitter = "send" /\ a \in targets
  /\ emitter' = "note"
  /\ targets' = targets \ {a}
  /\ target' = a
  /\ IF a \in wanted
     THEN sent' = [sent EXCEPT ![a] = Saturating(@)] /\ UNCHANGED late
     ELSE late' = [late EXCEPT ![a] = IF @ < 2 THEN @ + 1 ELSE @]
          /\ UNCHANGED sent
  /\ UNCHANGED <<running, table, udpVars, bus, wanted>>

\* A failed send costs nothing but this datagram.
SendFails(a) ==
  /\ emitter = "send" /\ a \in targets
  /\ targets' = targets \ {a}
  /\ Proceed
  /\ UNCHANGED <<running, table, udpVars, target, bus, history>>

\* Mutant: the counter does not saturate.
NoteEmitOverflows ==
  /\ emitter = "note"
  /\ total' = IF target \in peers
              THEN [total EXCEPT ![target] = @ + 1] ELSE total
  /\ target' = None
  /\ UNCHANGED targets
  /\ Proceed
  /\ UNCHANGED <<running, peers, udpVars, bus, history>>

\* Mutant: `entry(addr).or_insert(..)`, which brings a removed peer back.
NoteEmitInserts ==
  /\ emitter = "note"
  /\ peers' = peers \cup {target}
  /\ total' = [total EXCEPT ![target] = Saturating(@)]
  /\ target' = None
  /\ UNCHANGED targets
  /\ Proceed
  /\ UNCHANGED <<running, udpVars, bus, history>>

\* note_emit counts for whoever has the address by now.
NoteEmit ==
  /\ emitter = "note"
  /\ total' = IF target \in peers
              THEN [total EXCEPT ![target] = Saturating(@)] ELSE total
  /\ target' = None
  /\ UNCHANGED targets
  /\ Proceed
  /\ UNCHANGED <<running, peers, udpVars, bus, history>>

Emitter ==
  \/ Bind \/ EmitterCheck \/ Recv \/ RecvTimeout \/ List \/ NoteEmit
  \/ \E a \in Addresses : SendOk(a) \/ SendFails(a)

\* The process has nothing left to do here.
Ended ==
  /\ udp = "gone" /\ emitter = "gone" /\ ~subscribed
  /\ UNCHANGED vars

Next == Stop \/ Udp \/ Publish \/ Emitter \/ Ended

\* The emitter is scheduled, and its waits time out.
Spec == Init /\ [][Next]_vars /\ WF_vars(Emitter)

----------------------------------------------------------------------------
(* Properties *)

\* Types, for the registry, the bus and the two threads
\* (peer_registry.rs:56-137, bus.rs:45-107, subscriber.rs:112-177).
TypeOK ==
  /\ running \in BOOLEAN
  /\ peers \subseteq Addresses /\ total \in [Addresses -> 0 .. MaxEmits]
  /\ udp \in UdpPcs /\ leaving \in Ips \cup {None}
  /\ toRemove \subseteq Addresses
  /\ emitter \in EmitterPcs
  /\ targets \subseteq Addresses /\ target \in Addresses \cup {None}
  /\ subscribed \in BOOLEAN /\ queue \in 0 .. MaxQueue
  /\ wanted \subseteq Addresses
  /\ sent \in [Addresses -> 0 .. MaxEmits]
  /\ late \in [Addresses -> 0 .. 2]

\* A peer that has unsubscribed gets at most the one change that was being
\* sent (the race of peer_registry.rs:129-132), however many are queued.
StopsSoon == \A a \in Addresses : late[a] <= 1

\* "successful emits to this peer since registration" (peer_info.rs:29-30):
\* total_emits lags by the datagram just sent, and is one too high at most,
\* when a peer left and came back while a datagram to it was under way.
CountIsClose ==
  \A a \in peers :
    /\ total[a] <= sent[a] + 1
    /\ sent[a] <= total[a] + (IF emitter = "note" /\ target = a THEN 1 ELSE 0)

\* The emitter, which works off a copy of the table, is one datagram off it.
EmitsFollowTable == StopsSoon /\ CountIsClose

\* "drop every entry that shares this peer's IP" (translator.rs:336-337): the
\* copy that is worked off entry by entry is complete when the last one goes.
UnsubscribeClears ==
  [][udp = "removing" /\ udp' = "check" =>
       \A a \in peers' : a[1] # leaving]_vars

\* The emitter "runs until the shared `running` flag flips to `false`"
\* (subscriber.rs:78), whatever is queued or published; main joins it.
EmitterStops == ~running ~> emitter = "gone"

----------------------------------------------------------------------------
(* The inductive invariant behind the safety properties. *)

\* Nobody but the UDP loop adds or removes peers.
TableIsWanted == peers = wanted

CopyIsComplete ==
  udp = "removing" => {a \in peers : a[1] = leaving} \subseteq toRemove

\* The emitter has one peer in hand only between a datagram and its note.
OneInHand ==
  /\ emitter = "note" => target \in Addresses \ targets
  /\ emitter \in {"start", "check", "recv", "list", "gone"} => targets = {}

\* An address that the emitter is yet to serve got no late datagram.
LateOnce ==
  \A a \in Addresses :
    /\ late[a] <= 1
    /\ a \in targets \cup wanted => late[a] = 0

\* Between a datagram and its note the count is not too high.
CountInHand ==
  /\ CountIsClose
  /\ emitter = "note" /\ target \in peers => total[target] <= sent[target]

MonitorInv ==
  TypeOK /\ TableIsWanted /\ CopyIsComplete /\ OneInHand /\ LateOnce
    /\ CountInHand
=============================================================================
