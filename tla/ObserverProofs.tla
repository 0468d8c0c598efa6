--------------------------- MODULE ObserverProofs ---------------------------
(***************************************************************************)
(* Theorems about Monitor and LogStream, the two ways to watch the daemon. *)
(* Each copies a table or a ring and works off the copy, while what it     *)
(* copied goes on changing; each has its own invariant and theorems.       *)
(***************************************************************************)
EXTENDS Monitor, LogStream, TLAPS

----------------------------------------------------------------------------
(***************************************************************************)
(* Monitor, for every set of hosts, ports and addresses, any length of the *)
(* queue and any limit of the counters.  The safety properties follow from *)
(* MonitorInv, which is inductive: the emitter's copy of the table holds   *)
(* each address once, and only addresses that were subscribed when it was  *)
(* made.                                                                   *)
(***************************************************************************)

LEMMA InitInv == Init => MonitorInv
BY ConstantsAssumption
   DEF Init, MonitorInv, TypeOK, TableIsWanted, CopyIsComplete, OneInHand,
       LateOnce, CountInHand, CountIsClose, UdpPcs, EmitterPcs

\* Steps of the UDP loop, of publishers and of the flag.
LEMMA UdpStep ==
  MonitorInv /\ (Stop \/ Udp \/ Publish \/ Ended) => MonitorInv'
<1> SUFFICES ASSUME MonitorInv, Stop \/ Udp \/ Publish \/ Ended
             PROVE  MonitorInv'
  OBVIOUS
<1> USE ConstantsAssumption
        DEF MonitorInv, TypeOK, UdpPcs, EmitterPcs, TableIsWanted,
            CopyIsComplete, OneInHand, LateOnce, CountInHand, CountIsClose,
            table, udpVars, emitterVars, bus, history
<1>1. CASE Stop
  BY <1>1 DEF Stop
<1>2. CASE UdpCheck \/ UdpOther
  BY <1>2 DEF UdpCheck, UdpOther
<1>3. CASE Unsubscribed
  BY <1>3 DEF Unsubscribed
<1>4. ASSUME NEW a \in Addresses, Register(a)
      PROVE  MonitorInv'
  BY <1>4 DEF Register
<1>5. ASSUME NEW a \in Addresses, Unregister(a)
      PROVE  MonitorInv'
  BY <1>5 DEF Unregister
<1>6. ASSUME NEW ip \in Ips, Unsubscribe(ip)
      PROVE  MonitorInv'
  BY <1>6 DEF Unsubscribe
<1>7. CASE Publish
  <2>1. queue' \in 0 .. MaxQueue
    <3>1. queue' = queue \/ (queue < MaxQueue /\ queue' = queue + 1)
      BY <1>7, Zenon DEF Publish
    <3> QED BY <3>1
  <2>2. UNCHANGED <<running, table, udpVars, emitterVars, history>>
    BY <1>7 DEF Publish
  <2>3. subscribed' \in BOOLEAN
    BY <1>7, Zenon DEF Publish
  <2> QED BY <2>1, <2>2, <2>3
<1>8. CASE Ended
  BY <1>8 DEF Ended, vars
<1> QED BY <1>1, <1>2, <1>3, <1>4, <1>5, <1>6, <1>7, <1>8 DEF Udp

\* Steps of the emitter.
LEMMA EmitterStep == MonitorInv /\ Emitter => MonitorInv'
<1> SUFFICES ASSUME MonitorInv, Emitter
             PROVE  MonitorInv'
  OBVIOUS
<1> USE ConstantsAssumption
        DEF MonitorInv, TypeOK, UdpPcs, EmitterPcs, TableIsWanted,
            CopyIsComplete, OneInHand, LateOnce, CountInHand, CountIsClose,
            table, udpVars, emitterVars, bus, history
<1>1. CASE Bind \/ EmitterCheck
  BY <1>1 DEF Bind, EmitterCheck, Leave
<1>2. CASE Recv \/ RecvTimeout \/ List
  BY <1>2 DEF Recv, RecvTimeout, List
<1>3. CASE NoteEmit
  BY <1>3 DEF NoteEmit, Proceed, Saturating
<1>4. ASSUME NEW a \in Addresses, SendOk(a)
      PROVE  MonitorInv'
  BY <1>4 DEF SendOk, Saturating
<1>5. ASSUME NEW a \in Addresses, SendFails(a)
      PROVE  MonitorInv'
  BY <1>5 DEF SendFails, Proceed
<1> QED BY <1>1, <1>2, <1>3, <1>4, <1>5 DEF Emitter

\* The inductive invariant holds (subscriber.rs:112-177, translator.rs:342-396).
THEOREM MonitorInvariant == Spec => []MonitorInv
<1>1. MonitorInv /\ [Next]_vars => MonitorInv'
  <2>1. MonitorInv /\ UNCHANGED vars => MonitorInv'
    BY DEF MonitorInv, TypeOK, TableIsWanted, CopyIsComplete, OneInHand,
           LateOnce, CountInHand, CountIsClose, vars, table, udpVars,
           emitterVars, bus, history
  <2> QED BY <2>1, UdpStep, EmitterStep DEF Next
<1> QED BY InitInv, <1>1, PTL DEF Spec

\* Every variable keeps its type; a counter never passes its limit.
THEOREM MonitorTypes == Spec => []TypeOK
<1>1. MonitorInv => TypeOK
  BY DEF MonitorInv
<1> QED BY MonitorInvariant, <1>1, PTL

\* A peer that has unsubscribed gets one datagram more at most, however the
\* handler and the emitter interleave (peer_registry.rs:129-132).
THEOREM LastDatagram == Spec => []StopsSoon
<1>1. MonitorInv => StopsSoon
  BY DEF MonitorInv, LateOnce, StopsSoon
<1> QED BY MonitorInvariant, <1>1, PTL

\* total_emits is off by one at most (peer_info.rs:29-31).
THEOREM CountsAreClose == Spec => []CountIsClose
<1>1. MonitorInv => CountIsClose
  BY DEF MonitorInv, CountInHand
<1> QED BY MonitorInvariant, <1>1, PTL

\* When a cmd_monitor(0) has been handled, no entry of its host is left
\* (translator.rs:342-370).
THEOREM UnsubscribeIsComplete == Spec => UnsubscribeClears
<1> DEFINE Clears == udp = "removing" /\ udp' = "check" =>
                       \A a \in peers' : a[1] # leaving
<1>1. MonitorInv /\ [Next]_vars => [Clears]_vars
  <2> SUFFICES ASSUME MonitorInv, Next, udp = "removing", udp' = "check"
               PROVE  \A a \in peers' : a[1] # leaving
    OBVIOUS
  <2>1. Unsubscribed
    BY DEF Next, Stop, Udp, UdpCheck, UdpOther, Register, Unregister,
           Unsubscribe, Publish, Emitter, Bind, EmitterCheck, Recv,
           RecvTimeout, List, NoteEmit, SendOk, SendFails, Ended, udpVars, vars
  <2> QED BY <2>1 DEF Unsubscribed, MonitorInv, CopyIsComplete, table
<1> QED BY MonitorInvariant, <1>1, PTL DEF Spec, UnsubscribeClears

\* The emitter is one datagram off the table at most (subscriber.rs:140-177).
THEOREM EmitsAreClose == Spec => []EmitsFollowTable
<1>1. StopsSoon /\ CountIsClose => EmitsFollowTable
  BY DEF EmitsFollowTable
<1> QED BY <1>1, LastDatagram, CountsAreClose, PTL

----------------------------------------------------------------------------
(***************************************************************************)
(* LogStream, for every capacity of the ring and of the channel, any       *)
(* number of clients and any number of lines.  The safety properties       *)
(* follow from StreamInv, which is inductive: what a client does not find  *)
(* in its snapshot was broadcast after it subscribed.                      *)
(***************************************************************************)

LEMMA StreamInitInv == StreamInit => StreamInv
BY StreamAssumption
   DEF StreamInit, StreamInv, StreamTypeOK, RingIsNewest, NoLineIsLost, ReceiverInStep,
       NothingSlips, PassedIsSent, LossIsTold, Pcs

\* A line is pushed: the ring moves on by one.
LEMMA PushStep == StreamInv /\ Push => StreamInv'
<1> SUFFICES ASSUME StreamInv, Push
             PROVE  StreamInv'
  OBVIOUS
<1> USE StreamAssumption
<1>1. /\ logged \in Nat /\ logged' = logged + 1 /\ logged' \in 1 .. MaxLines
      /\ writing' = writing \cup {logged + 1}
      /\ UNCHANGED <<channel, clientVars>>
  BY DEF Push, StreamInv, StreamTypeOK
<1>2. ring' \in Seq(1 .. MaxLines) /\ Len(ring') <= RingCapacity
  <2>1. /\ ring \in Seq(1 .. MaxLines) /\ Len(ring) <= RingCapacity
        /\ Len(ring) \in Nat
    BY DEF StreamInv, StreamTypeOK
  <2>2. CASE Len(ring) = RingCapacity
    <3>1. /\ Tail(ring) \in Seq(1 .. MaxLines)
          /\ Len(Tail(ring)) = RingCapacity - 1
      BY <2>1, <2>2
    <3> QED BY <1>1, <2>2, <3>1 DEF Push
  <2>3. CASE Len(ring) # RingCapacity
    BY <1>1, <2>1, <2>3 DEF Push
  <2> QED BY <2>2, <2>3
<1>3. RingIsNewest'
  <2>1. CASE Len(ring) = RingCapacity
    <3>1. ring # <<>> /\ ring \in Seq(1 .. MaxLines)
      BY <2>1 DEF StreamInv, StreamTypeOK
    <3>2. /\ Len(ring') = RingCapacity
          /\ \A i \in 1 .. RingCapacity - 1 : ring'[i] = ring[i + 1]
          /\ ring'[RingCapacity] = logged + 1
      BY <1>1, <2>1, <3>1 DEF Push
    <3>3. /\ ~(logged < RingCapacity) /\ RingCapacity \in Nat
          /\ \A i \in 1 .. RingCapacity : ring[i] = logged - RingCapacity + i
      BY <1>1, <2>1 DEF StreamInv, RingIsNewest
    <3>4. \A i \in 1 .. RingCapacity : ring'[i] = logged' - RingCapacity + i
      <4> SUFFICES ASSUME NEW i \in 1 .. RingCapacity
                   PROVE  ring'[i] = logged' - RingCapacity + i
        OBVIOUS
      <4>1. CASE i = RingCapacity
        BY <1>1, <3>2, <3>3, <4>1
      <4>2. CASE i # RingCapacity
        <5>1. i \in 1 .. RingCapacity - 1 /\ i + 1 \in 1 .. RingCapacity
          BY <3>3, <4>2
        <5>2. ring'[i] = logged - RingCapacity + (i + 1)
          BY <3>2, <3>3, <5>1
        <5> QED BY <1>1, <3>3, <5>1, <5>2
      <4> QED BY <4>1, <4>2
    <3> QED BY <1>1, <3>2, <3>3, <3>4 DEF RingIsNewest
  <2>2. CASE Len(ring) # RingCapacity
    BY <1>1, <2>2 DEF Push, StreamInv, StreamTypeOK, RingIsNewest
  <2> QED BY <2>1, <2>2
<1>4. StreamTypeOK'
  BY <1>1, <1>2 DEF StreamInv, StreamTypeOK, clientVars
<1>5. NoLineIsLost'
  BY <1>1 DEF StreamInv, NoLineIsLost
<1>6. NothingSlips'
  <2> SUFFICES ASSUME NEW c \in Clients, pc[c] \in {"replay", "stream"},
                      NEW k \in horizon[c] + 1 .. logged'
               PROVE  Covered(c, k)'
    BY <1>1 DEF NothingSlips, clientVars
  <2>1. horizon[c] \in Nat
    BY DEF StreamInv, StreamTypeOK
  <2>2. CASE k = logged + 1
    BY <1>1, <2>2 DEF Covered
  <2>3. CASE k # logged + 1
    <3>1. Covered(c, k)
      BY <1>1, <2>1, <2>3 DEF StreamInv, NothingSlips
    <3> QED BY <1>1, <3>1 DEF Covered, clientVars
  <2> QED BY <2>2, <2>3
<1>7. (ReceiverInStep /\ PassedIsSent /\ LossIsTold)'
  BY <1>1 DEF StreamInv, ReceiverInStep, PassedIsSent, LossIsTold, clientVars
<1> QED BY <1>3, <1>4, <1>5, <1>6, <1>7 DEF StreamInv

\* A line is broadcast: the channel grows at its end.
LEMMA PublishLineStep ==
  ASSUME NEW k \in 1 .. MaxLines, StreamInv, PublishLine(k)
  PROVE  StreamInv'
<1> USE StreamAssumption
<1>1. /\ writing' = writing \ {k} /\ k \in writing
      /\ UNCHANGED <<logged, ring, clientVars>>
  BY DEF PublishLine
<1>2. /\ channel \in Seq(1 .. MaxLines) /\ channel' = Append(channel, k)
      /\ channel' \in Seq(1 .. MaxLines) /\ Len(channel) \in Nat
      /\ Len(channel') = Len(channel) + 1 /\ channel'[Len(channel) + 1] = k
      /\ \A i \in 1 .. Len(channel) : channel'[i] = channel[i]
  BY DEF PublishLine, StreamInv, StreamTypeOK
<1>3. StreamTypeOK'
  BY <1>1, <1>2 DEF StreamInv, StreamTypeOK, clientVars
<1>4. RingIsNewest'
  BY <1>1 DEF StreamInv, RingIsNewest
<1>5. NoLineIsLost'
  <2> SUFFICES ASSUME NEW l \in 1 .. logged, l \notin writing'
               PROVE  \E i \in 1 .. Len(channel') : channel'[i] = l
    BY <1>1 DEF NoLineIsLost
  <2>1. CASE l = k
    BY <1>2, <2>1
  <2>2. CASE l # k
    BY <1>1, <1>2, <2>2 DEF StreamInv, NoLineIsLost
  <2> QED BY <2>1, <2>2
<1>6. (ReceiverInStep /\ LossIsTold)'
  BY <1>1, <1>2 DEF StreamInv, StreamTypeOK, ReceiverInStep, LossIsTold, clientVars
<1>7. NothingSlips'
  <2> SUFFICES ASSUME NEW c \in Clients, pc[c] \in {"replay", "stream"},
                      NEW l \in horizon[c] + 1 .. logged, Covered(c, l)
               PROVE  Covered(c, l)'
    BY <1>1 DEF StreamInv, NothingSlips, clientVars
  <2>1. start[c] <= Len(channel) /\ start[c] \in Nat
    BY <1>2 DEF StreamInv, StreamTypeOK, ReceiverInStep
  <2>2. CASE l = k
    BY <1>1, <1>2, <2>1, <2>2 DEF Covered, clientVars
  <2>3. CASE \E i \in start[c] + 1 .. Len(channel) : channel[i] = l
    BY <1>1, <1>2, <2>1, <2>3 DEF Covered, clientVars
  <2> QED BY <1>1, <2>2, <2>3 DEF Covered, clientVars
<1>8. PassedIsSent'
  BY <1>1, <1>2
  DEF StreamInv, StreamTypeOK, ReceiverInStep, PassedIsSent, clientVars
<1> QED BY <1>3, <1>4, <1>5, <1>6, <1>7, <1>8 DEF StreamInv

\* A handler's steps change its own client only.
LEMMA OthersStay ==
  ASSUME NEW c \in Clients, StreamTypeOK, Subscribe(c) \/ Handle(c) \/ Close(c)
  PROVE  /\ UNCHANGED logVars
         /\ \A d \in Clients : d # c =>
              /\ pc'[d] = pc[d] /\ backlog'[d] = backlog[d]
              /\ next'[d] = next[d] /\ start'[d] = start[d]
              /\ horizon'[d] = horizon[d] /\ got'[d] = got[d]
              /\ live'[d] = live[d] /\ told'[d] = told[d]
BY DEF StreamTypeOK, Subscribe, Handle, Snapshot, Replay, Stream, Deliver, Lag,
       Close, GoTo, logVars

\* What the invariant says of one client.
ClientInv(c) ==
  /\ start[c] <= next[c] /\ next[c] <= Len(channel)
  /\ pc[c] \in {"closed", "snapshot", "replay"} => next[c] = start[c]
  /\ pc[c] # "replay" => backlog[c] = <<>>
  /\ pc[c] \in {"closed", "snapshot"} => live[c] = 0 /\ told[c] = 0
  /\ pc[c] \in {"replay", "stream"} =>
       \A k \in horizon[c] + 1 .. logged : Covered(c, k)
  /\ told[c] = 0 => \A i \in start[c] + 1 .. next[c] : channel[i] \in got[c]
  /\ live[c] + told[c] = next[c] - start[c]

LEMMA ClientByClient ==
  StreamInv <=> /\ StreamTypeOK /\ RingIsNewest /\ NoLineIsLost
                /\ \A c \in Clients : ClientInv(c)
BY DEF StreamInv, ReceiverInStep, NothingSlips, PassedIsSent, LossIsTold,
       ClientInv

\* So a step of a handler is about its own client.
LEMMA OwnClient ==
  ASSUME NEW c \in Clients, StreamInv, StreamTypeOK', ClientInv(c)',
         Subscribe(c) \/ Handle(c) \/ Close(c)
  PROVE  StreamInv'
<1>1. StreamTypeOK /\ RingIsNewest /\ NoLineIsLost /\ UNCHANGED logVars
  BY OthersStay DEF StreamInv
<1>2. (RingIsNewest /\ NoLineIsLost)'
  BY <1>1 DEF RingIsNewest, NoLineIsLost, logVars
<1>3. ASSUME NEW d \in Clients, d # c
      PROVE  ClientInv(d)'
  BY <1>1, <1>3, OthersStay, ClientByClient DEF ClientInv, Covered, logVars
<1> QED BY <1>2, <1>3 DEF StreamInv, ReceiverInStep, NothingSlips,
                          PassedIsSent, LossIsTold, ClientInv

LEMMA SubscribeStep ==
  ASSUME NEW c \in Clients, StreamInv, Subscribe(c)
  PROVE  StreamInv'
<1>1. /\ pc[c] = "closed" /\ pc'[c] = "snapshot" /\ pc' \in [Clients -> Pcs]
      /\ Len(channel) \in Nat
      /\ next' = [next EXCEPT ![c] = Len(channel)] /\ next'[c] = Len(channel)
      /\ start' = [start EXCEPT ![c] = Len(channel)] /\ start'[c] = Len(channel)
      /\ UNCHANGED <<logVars, backlog, horizon, got, live, told>>
  BY DEF StreamInv, StreamTypeOK, Subscribe, GoTo, Pcs
<1>2. StreamTypeOK'
  BY <1>1 DEF StreamInv, StreamTypeOK, logVars
<1>3. backlog[c] = <<>> /\ live[c] = 0 /\ told[c] = 0
  BY <1>1, ClientByClient DEF ClientInv
<1>4. ClientInv(c)'
  BY <1>1, <1>3 DEF ClientInv, logVars
<1> QED BY <1>2, <1>4, OwnClient

LEMMA CloseStep ==
  ASSUME NEW c \in Clients, StreamInv, Close(c)
  PROVE  StreamInv'
<1>1. /\ pc'[c] = "closed" /\ backlog'[c] = <<>> /\ got'[c] = {}
      /\ next'[c] = 0 /\ start'[c] = 0 /\ horizon'[c] = 0
      /\ live'[c] = 0 /\ told'[c] = 0
      /\ UNCHANGED logVars
  BY DEF StreamInv, StreamTypeOK, Close, GoTo
<1>2. StreamTypeOK'
  BY DEF StreamInv, StreamTypeOK, Close, GoTo, Pcs, logVars
<1>3. ClientInv(c)'
  BY <1>1 DEF StreamInv, StreamTypeOK, ClientInv, logVars
<1> QED BY <1>2, <1>3, OwnClient

LEMMA SnapshotStep ==
  ASSUME NEW c \in Clients, StreamInv, Snapshot(c)
  PROVE  StreamInv'
<1> USE StreamAssumption
<1>1. StreamTypeOK'
  BY DEF StreamInv, StreamTypeOK, Snapshot, GoTo, Pcs, logVars
<1>2. /\ pc[c] = "snapshot" /\ pc'[c] = "replay" /\ backlog'[c] = ring
      /\ horizon'[c] = IF logged > RingCapacity
                         THEN logged - RingCapacity ELSE 0
      /\ UNCHANGED <<logVars, next, start, got, live, told>>
  BY DEF StreamInv, StreamTypeOK, Snapshot, GoTo
<1>3. ASSUME NEW k \in horizon'[c] + 1 .. logged
      PROVE  Covered(c, k)'
  <2>1. logged \in Nat /\ RingIsNewest
    BY DEF StreamInv, StreamTypeOK
  <2>2. k - (logged - Len(ring)) \in 1 .. Len(ring)
    BY <1>2, <1>3, <2>1 DEF RingIsNewest
  <2>3. ring[k - (logged - Len(ring))] = k
    BY <2>1, <2>2 DEF RingIsNewest
  <2> QED BY <1>2, <2>2, <2>3 DEF Covered
<1>4. ClientInv(c)'
  BY <1>2, <1>3, ClientByClient DEF ClientInv, logVars
<1> QED BY <1>1, <1>4, OwnClient DEF Handle

LEMMA HeadAndTail ==
  ASSUME NEW S, NEW s \in Seq(S), s # <<>>
  PROVE  Head(s) \in S /\ Tail(s) \in Seq(S)
OBVIOUS

\* A line of the copy goes from the backlog to what the client has.
LEMMA ReplayStep ==
  ASSUME NEW c \in Clients, StreamInv, Replay(c)
  PROVE  StreamInv'
<1>1. /\ pc[c] = "replay" /\ pc' = pc /\ backlog[c] # <<>>
      /\ backlog[c] \in Seq(1 .. MaxLines)
      /\ got'[c] = got[c] \cup {Head(backlog[c])}
      /\ backlog'[c] = Tail(backlog[c])
      /\ UNCHANGED <<logVars, next, start, horizon, live, told>>
  BY DEF StreamInv, StreamTypeOK, Replay
<1>2. /\ Head(backlog[c]) \in 1 .. MaxLines
      /\ Tail(backlog[c]) \in Seq(1 .. MaxLines)
  BY <1>1, HeadAndTail
<1>3. StreamTypeOK'
  BY <1>1, <1>2 DEF StreamInv, StreamTypeOK, Replay, logVars
<1>4. ASSUME NEW k \in horizon[c] + 1 .. logged
      PROVE  Covered(c, k)'
  <2>1. Covered(c, k)
    BY <1>1, ClientByClient DEF ClientInv
  <2>2. ASSUME NEW i \in 1 .. Len(backlog[c]), backlog[c][i] = k, i # 1
        PROVE  Covered(c, k)'
    <3>1. i - 1 \in 1 .. Len(Tail(backlog[c])) /\ Tail(backlog[c])[i - 1] = k
      BY <1>1, <2>2
    <3> QED BY <1>1, <3>1 DEF Covered
  <2>3. CASE Head(backlog[c]) = k
    BY <1>1, <2>3 DEF Covered
  <2>4. CASE k \in got[c] \cup writing
    BY <1>1, <2>4 DEF Covered, logVars
  <2>5. CASE \E i \in start[c] + 1 .. Len(channel) : channel[i] = k
    BY <1>1, <2>5 DEF Covered, logVars
  <2> QED BY <1>1, <2>1, <2>2, <2>3, <2>4, <2>5 DEF Covered
<1>5. ClientInv(c)'
  BY <1>1, <1>4, ClientByClient DEF ClientInv, logVars
<1> QED BY <1>3, <1>5, OwnClient DEF Handle

LEMMA StreamStep ==
  ASSUME NEW c \in Clients, StreamInv, Stream(c)
  PROVE  StreamInv'
<1>1. StreamTypeOK'
  BY DEF StreamInv, StreamTypeOK, Stream, GoTo, Pcs, logVars
<1>2. /\ pc[c] = "replay" /\ pc'[c] = "stream" /\ backlog[c] = <<>>
      /\ UNCHANGED <<logVars, backlog, next, start, horizon, got, live, told>>
  BY DEF StreamInv, StreamTypeOK, Stream, GoTo
<1>3. ClientInv(c)'
  BY <1>2, ClientByClient DEF ClientInv, Covered, logVars
<1> QED BY <1>1, <1>3, OwnClient DEF Handle

LEMMA DeliverStep ==
  ASSUME NEW c \in Clients, StreamInv, Deliver(c)
  PROVE  StreamInv'
<1> USE StreamAssumption
<1> DEFINE line == channel[next[c] + 1]
<1>1. /\ next[c] \in Nat /\ start[c] \in Nat /\ Len(channel) \in Nat
      /\ live[c] \in Nat /\ told[c] \in Nat
      /\ channel \in Seq(1 .. MaxLines)
      /\ pc[c] = "stream" /\ next[c] + 1 \in 1 .. Len(channel)
  BY DEF StreamInv, StreamTypeOK, Deliver, Behind
<1>2. line \in 1 .. MaxLines
  BY <1>1
<1>3. /\ got' = [got EXCEPT ![c] = @ \cup {line}]
      /\ live' = [live EXCEPT ![c] = @ + 1]
      /\ next' = [next EXCEPT ![c] = @ + 1]
      /\ UNCHANGED <<logVars, pc, backlog, start, horizon, told>>
  BY DEF Deliver
<1> HIDE DEF line
<1>4. StreamTypeOK'
  <2>1. live[c] + 1 \in Nat /\ next[c] + 1 \in Nat
    BY <1>1
  <2>2. live' \in [Clients -> Nat] /\ next' \in [Clients -> Nat]
    BY <1>3, <2>1 DEF StreamInv, StreamTypeOK
  <2>3. got' \in [Clients -> SUBSET (1 .. MaxLines)]
    BY <1>2, <1>3 DEF StreamInv, StreamTypeOK
  <2> QED BY <1>3, <2>2, <2>3 DEF StreamInv, StreamTypeOK, logVars
<1>5. /\ got'[c] = got[c] \cup {line}
      /\ live'[c] = live[c] + 1 /\ next'[c] = next[c] + 1
  BY <1>3 DEF StreamInv, StreamTypeOK
<1>6. ASSUME NEW k \in horizon[c] + 1 .. logged
      PROVE  Covered(c, k)'
  <2>1. Covered(c, k)
    BY <1>1, ClientByClient DEF ClientInv
  <2> QED BY <1>3, <1>5, <2>1 DEF Covered, logVars
<1>7. ASSUME told[c] = 0, NEW i \in start[c] + 1 .. next[c] + 1
      PROVE  channel[i] \in got'[c]
  <2>1. \A l \in start[c] + 1 .. next[c] : channel[l] \in got[c]
    BY <1>7, ClientByClient DEF ClientInv
  <2>2. CASE i = next[c] + 1
    BY <1>5, <2>2 DEF line
  <2>3. CASE i # next[c] + 1
    <3>1. i \in start[c] + 1 .. next[c]
      BY <1>1, <2>3
    <3> QED BY <1>5, <2>1, <3>1
  <2> QED BY <2>2, <2>3
<1>8. /\ start[c] <= next[c] /\ live[c] + told[c] = next[c] - start[c]
      /\ backlog[c] = <<>>
  BY <1>1, ClientByClient DEF ClientInv
<1>9. ClientInv(c)'
  <2>1. /\ start'[c] = start[c] /\ told'[c] = told[c] /\ channel' = channel
        /\ pc'[c] = "stream" /\ backlog'[c] = <<>>
        /\ horizon'[c] = horizon[c] /\ logged' = logged
    BY <1>1, <1>3, <1>8 DEF logVars
  <2>2. /\ start'[c] <= next'[c] /\ next'[c] <= Len(channel')
        /\ live'[c] + told'[c] = next'[c] - start'[c]
    <3>1. start[c] <= next[c] + 1 /\ next[c] + 1 <= Len(channel)
      BY <1>1, <1>8
    <3>2. /\ live[c] \in Nat /\ told[c] \in Nat
          /\ next[c] \in Nat /\ start[c] \in Nat
          /\ live[c] + told[c] = next[c] - start[c]
      BY <1>1, <1>8
    <3>3. (live[c] + 1) + told[c] = (next[c] + 1) - start[c]
      BY <3>2
    <3>4. start'[c] <= next'[c] /\ next'[c] <= Len(channel')
      BY <1>5, <2>1, <3>1
    <3>5. live'[c] + told'[c] = next'[c] - start'[c]
      BY <1>5, <2>1, <3>3
    <3> QED BY <3>4, <3>5
  <2>3. told'[c] = 0 =>
          \A i \in start'[c] + 1 .. next'[c] : channel'[i] \in got'[c]
    BY <1>5, <1>7, <2>1
  <2> QED BY <1>6, <2>1, <2>2, <2>3 DEF ClientInv
<1> QED BY <1>4, <1>9, OwnClient DEF Handle

LEMMA LagStep ==
  ASSUME NEW c \in Clients, StreamInv, Lag(c)
  PROVE  StreamInv'
<1> USE StreamAssumption
<1> DEFINE passed == Len(channel) - ChannelCapacity
<1>1. /\ next[c] \in Nat /\ start[c] \in Nat /\ Len(channel) \in Nat
      /\ live[c] \in Nat /\ told[c] \in Nat
      /\ pc[c] = "stream" /\ passed > next[c] /\ passed \in Nat
  <2>1. /\ next[c] \in Nat /\ start[c] \in Nat /\ Len(channel) \in Nat
        /\ live[c] \in Nat /\ told[c] \in Nat
    BY DEF StreamInv, StreamTypeOK
  <2>2. pc[c] = "stream" /\ Len(channel) - next[c] > ChannelCapacity
    BY DEF Lag, Behind
  <2> QED BY <2>1, <2>2
<1>2. /\ told' = [told EXCEPT ![c] = @ + passed - next[c]]
      /\ next' = [next EXCEPT ![c] = passed]
      /\ UNCHANGED <<logVars, pc, backlog, start, horizon, got, live>>
  <2>1. told[c] + Behind(c) - ChannelCapacity = told[c] + passed - next[c]
    BY <1>1 DEF Behind
  <2> QED BY <2>1 DEF Lag, StreamInv, StreamTypeOK
<1>3. passed <= Len(channel)
  BY <1>1
<1> HIDE DEF passed
<1>4. StreamTypeOK'
  <2>1. told[c] + passed - next[c] \in Nat
    BY <1>1
  <2> QED BY <1>1, <1>2, <2>1 DEF StreamInv, StreamTypeOK, logVars
<1>5. told'[c] = told[c] + passed - next[c] /\ next'[c] = passed
  BY <1>2 DEF StreamInv, StreamTypeOK
<1>6. ASSUME NEW k \in horizon[c] + 1 .. logged
      PROVE  Covered(c, k)'
  <2>1. Covered(c, k)
    BY <1>1, ClientByClient DEF ClientInv
  <2> QED BY <1>2, <2>1 DEF Covered, logVars
<1>7. /\ start[c] <= next[c] /\ live[c] + told[c] = next[c] - start[c]
      /\ backlog[c] = <<>>
  BY <1>1, ClientByClient DEF ClientInv
<1>8. ClientInv(c)'
  BY <1>1, <1>2, <1>3, <1>5, <1>6, <1>7 DEF ClientInv, logVars
<1> QED BY <1>4, <1>8, OwnClient DEF Handle

\* The inductive invariant holds (layer.rs:48-68, routes/log_stream.rs:49-114).
THEOREM StreamInvariant == StreamSpec => []StreamInv
<1>1. StreamInv /\ [StreamNext]_streamVars => StreamInv'
  <2>1. StreamInv /\ UNCHANGED streamVars => StreamInv'
    BY DEF StreamInv, StreamTypeOK, RingIsNewest, NoLineIsLost, ReceiverInStep,
           NothingSlips, Covered, PassedIsSent, LossIsTold, streamVars, logVars,
           clientVars
  <2> QED BY <2>1, PushStep, PublishLineStep, SubscribeStep, CloseStep,
             SnapshotStep, ReplayStep, StreamStep, DeliverStep, LagStep DEF StreamNext, Handle
<1> QED BY StreamInitInv, <1>1, PTL DEF StreamSpec

\* Every variable keeps its type, and the ring its size.
THEOREM StreamTypes == StreamSpec => []StreamTypeOK
<1>1. StreamInv => StreamTypeOK
  BY DEF StreamInv
<1> QED BY StreamInvariant, <1>1, PTL

\* Subscribing before the snapshot loses no line between the two, in whatever
\* order lines get from the ring to the channel (routes/log_stream.rs:52-57).
THEOREM NothingIsMissed == StreamSpec => []CaughtUpHasAll
<1>1. StreamInv => CaughtUpHasAll
  <2> SUFFICES ASSUME StreamInv, NEW c \in Clients, pc[c] = "stream",
                      next[c] = Len(channel), told[c] = 0,
                      NEW k \in horizon[c] + 1 .. logged
               PROVE  k \in got[c] \cup writing
    BY DEF CaughtUpHasAll
  <2>1. Covered(c, k) /\ backlog[c] = <<>>
    BY DEF StreamInv, NothingSlips, ReceiverInStep
  <2>2. \A i \in start[c] + 1 .. Len(channel) : channel[i] \in got[c]
    BY DEF StreamInv, PassedIsSent
  <2> QED BY <2>1, <2>2 DEF Covered
<1> QED BY StreamInvariant, <1>1, PTL

\* The counts of the lag frames are exact (broadcast.rs:5-8).
THEOREM LossesAreTold == StreamSpec => []LossIsTold
<1>1. StreamInv => LossIsTold
  BY DEF StreamInv
<1> QED BY StreamInvariant, <1>1, PTL

\* A browser misses no line that it is not told of (routes/log_stream.rs:52-57,
\* broadcast.rs:6-8).
THEOREM LossIsNeverSilent == StreamSpec => []NoSilentLoss
<1>1. CaughtUpHasAll /\ LossIsTold => NoSilentLoss
  BY DEF NoSilentLoss
<1> QED BY <1>1, NothingIsMissed, LossesAreTold, PTL
=============================================================================
