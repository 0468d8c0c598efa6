----------------------------- MODULE LogStream -----------------------------
(***************************************************************************)
(* The log stream (services/log_stream/* and http/routes/log_stream.rs).   *)
(* Whatever thread logs a line pushes it to a bounded ring and then sends  *)
(* it on a broadcast channel, under two locks, so that lines may overtake  *)
(* each other in between.  The handler of each WebSocket subscribes to the *)
(* channel, copies the ring, sends the copy and then what it receives.     *)
(*                                                                         *)
(* A line is the number of lines pushed before it, plus one.               *)
(***************************************************************************)
EXTENDS Integers, Sequences

CONSTANTS
  Clients,          \* the WebSockets that are open at the same time
  RingCapacity,     \* DEFAULT_CAPACITY
  ChannelCapacity,  \* CHANNEL_CAPACITY
  MaxLines          \* bound: the lines that are logged

ASSUME StreamAssumption ==
  /\ RingCapacity \in Nat \ {0}
  /\ ChannelCapacity \in Nat \ {0}
  /\ MaxLines \in Nat

VARIABLES
  logged,    \* how many lines have been pushed
  ring,      \* LogRing.inner
  writing,   \* lines between their push and their broadcast
  channel,   \* every line broadcast, in that order; the last ones are kept
  pc,        \* where handle_socket of each client is
  backlog,   \* the rest of its copy of the ring
  next,      \* how much of the channel its Receiver has passed
  start,     \* history: how long the channel was when it subscribed
  horizon,   \* history: how many lines the ring had dropped at its snapshot
  got,       \* history: the lines it was sent
  live,      \* history: how many of those came from the channel
  told       \* history: the sum of its lag notices

logVars == <<logged, ring, writing, channel>>
clientVars == <<pc, backlog, next, start, horizon, got, live, told>>
streamVars == <<logVars, clientVars>>

Pcs == {"closed", "snapshot", "replay", "stream"}

StreamInit ==
  /\ logged = 0
  /\ ring = <<>>
  /\ writing = {}
  /\ channel = <<>>
  /\ pc = [c \in Clients |-> "closed"]
  /\ backlog = [c \in Clients |-> <<>>]
  /\ next = [c \in Clients |-> 0] /\ start = [c \in Clients |-> 0]
  /\ horizon = [c \in Clients |-> 0]
  /\ got = [c \in Clients |-> {}]
  /\ live = [c \in Clients |-> 0] /\ told = [c \in Clients |-> 0]

----------------------------------------------------------------------------
(* A thread that logs: CaptureWriter::drop *)

\* Mutant: the ring is never shortened.
PushKeepsAll ==
  /\ logged < MaxLines
  /\ logged' = logged + 1
  /\ ring' = Append(ring, logged + 1)
  /\ writing' = writing \cup {logged + 1}
  /\ UNCHANGED <<channel, clientVars>>

\* LogRing::push; a full ring loses its oldest line.
Push ==
  /\ logged < MaxLines
  /\ logged' = logged + 1
  /\ ring' = Append(IF Len(ring) = RingCapacity THEN Tail(ring) ELSE ring,
                    logged + 1)
  /\ writing' = writing \cup {logged + 1}
  /\ UNCHANGED <<channel, clientVars>>

\* LogBroadcaster::publish, which nobody waits for and nobody can refuse.
PublishLine(k) ==
  /\ k \in writing
  /\ writing' = writing \ {k}
  /\ channel' = Append(channel, k)
  /\ UNCHANGED <<logged, ring, clientVars>>

----------------------------------------------------------------------------
(* handle_socket *)

GoTo(c, p) == pc' = [pc EXCEPT ![c] = p]

Subscribe(c) ==
  /\ pc[c] = "closed"
  /\ GoTo(c, "snapshot")
  /\ next' = [next EXCEPT ![c] = Len(channel)]
  /\ start' = [start EXCEPT ![c] = Len(channel)]
  /\ UNCHANGED <<logVars, backlog, horizon, got, live, told>>

Snapshot(c) ==
  /\ pc[c] = "snapshot"
  /\ GoTo(c, "replay")
  /\ backlog' = [backlog EXCEPT ![c] = ring]
  /\ horizon' = [horizon EXCEPT
                   ![c] = IF logged > RingCapacity
                            THEN logged - RingCapacity ELSE 0]
  /\ UNCHANGED <<logVars, next, start, got, live, told>>

\* Mutant: the loop over the copy does not advance.
ReplayAgain(c) ==
  /\ pc[c] = "replay" /\ backlog[c] # <<>>
  /\ got' = [got EXCEPT ![c] = @ \cup {Head(backlog[c])}]
  /\ UNCHANGED <<logVars, pc, backlog, next, start, horizon, live, told>>

\* Oldest first.
Replay(c) ==
  /\ pc[c] = "replay" /\ backlog[c] # <<>>
  /\ got' = [got EXCEPT ![c] = @ \cup {Head(backlog[c])}]
  /\ backlog' = [backlog EXCEPT ![c] = Tail(@)]
  /\ UNCHANGED <<logVars, pc, next, start, horizon, live, told>>

\* Mutant: "After the snapshot drain, the server subscribes"
\* (log_stream.rs:9), which the code does earlier.
StreamSubscribesNow(c) ==
  /\ pc[c] = "replay" /\ backlog[c] = <<>>
  /\ GoTo(c, "stream")
  /\ next' = [next EXCEPT ![c] = Len(channel)]
  /\ start' = [start EXCEPT ![c] = Len(channel)]
  /\ UNCHANGED <<logVars, backlog, horizon, got, live, told>>

Stream(c) ==
  /\ pc[c] = "replay" /\ backlog[c] = <<>>
  /\ GoTo(c, "stream")
  /\ UNCHANGED <<logVars, backlog, next, start, horizon, got, live, told>>

Behind(c) == Len(channel) - next[c]

\* What the channel keeps is received in its order.
Deliver(c) ==
  /\ pc[c] = "stream"
  /\ Behind(c) \in 1 .. ChannelCapacity
  /\ got' = [got EXCEPT ![c] = @ \cup {channel[next[c] + 1]}]
  /\ live' = [live EXCEPT ![c] = @ + 1]
  /\ next' = [next EXCEPT ![c] = @ + 1]
  /\ UNCHANGED <<logVars, pc, backlog, start, horizon, told>>

\* Lagged(n): the Receiver skips what the channel has dropped, and the client
\* is told how much that was.
Lag(c) ==
  /\ pc[c] = "stream"
  /\ Behind(c) > ChannelCapacity
  /\ told' = [told EXCEPT ![c] = @ + Behind(c) - ChannelCapacity]
  /\ next' = [next EXCEPT ![c] = Len(channel) - ChannelCapacity]
  /\ UNCHANGED <<logVars, pc, backlog, start, horizon, got, live>>

\* The client closes, or is found gone when a frame is sent; it may connect
\* again.  Any other message of it changes nothing.
Close(c) ==
  /\ pc[c] # "closed"
  /\ GoTo(c, "closed")
  /\ backlog' = [backlog EXCEPT ![c] = <<>>]
  /\ next' = [next EXCEPT ![c] = 0] /\ start' = [start EXCEPT ![c] = 0]
  /\ horizon' = [horizon EXCEPT ![c] = 0]
  /\ got' = [got EXCEPT ![c] = {}]
  /\ live' = [live EXCEPT ![c] = 0] /\ told' = [told EXCEPT ![c] = 0]
  /\ UNCHANGED logVars

Handle(c) ==
  Snapshot(c) \/ Replay(c) \/ Stream(c) \/ Deliver(c) \/ Lag(c)

StreamNext ==
  \/ Push
  \/ \E k \in 1 .. MaxLines : PublishLine(k)
  \/ \E c \in Clients : Subscribe(c) \/ Handle(c) \/ Close(c)

\* A handler is polled while its client reads; select! takes its branches by
\* chance, so that messages of the client cannot shut out the channel.
StreamSpec ==
  StreamInit /\ [][StreamNext]_streamVars /\ \A c \in Clients : WF_streamVars(Handle(c))

----------------------------------------------------------------------------
(* Properties *)

\* Types, and the size of the ring (ring.rs:39-45).
StreamTypeOK ==
  /\ logged \in 0 .. MaxLines
  /\ ring \in Seq(1 .. MaxLines) /\ Len(ring) <= RingCapacity
  /\ writing \subseteq 1 .. MaxLines
  /\ channel \in Seq(1 .. MaxLines)
  /\ pc \in [Clients -> Pcs]
  /\ backlog \in [Clients -> Seq(1 .. MaxLines)]
  /\ next \in [Clients -> Nat] /\ start \in [Clients -> Nat]
  /\ horizon \in [Clients -> Nat]
  /\ got \in [Clients -> SUBSET (1 .. MaxLines)]
  /\ live \in [Clients -> Nat] /\ told \in [Clients -> Nat]

\* A client that has kept up, and was told of no loss, has every line since the
\* oldest of its snapshot: "any events that race between those two steps still
\* land in the broadcast" (routes/log_stream.rs:52-53).
CaughtUpHasAll ==
  \A c \in Clients :
    pc[c] = "stream" /\ next[c] = Len(channel) /\ told[c] = 0 =>
      horizon[c] + 1 .. logged \subseteq got[c] \cup writing

\* The lag notices add up to what was lost ("dropped N", broadcast.rs:6-8): of
\* the lines sent on the channel, each was received or counted.
LossIsTold ==
  \A c \in Clients : live[c] + told[c] = next[c] - start[c]

\* A browser misses no line that it is not told of.
NoSilentLoss == CaughtUpHasAll /\ LossIsTold

\* A client that reads is brought up to date, however the replay, the lags and
\* the lines interleave.
CatchesUp ==
  \A c \in Clients :
    pc[c] = "snapshot" ~>
      pc[c] = "closed" \/ (pc[c] = "stream" /\ next[c] = Len(channel))

----------------------------------------------------------------------------
(* The inductive invariant behind the safety properties. *)

\* The ring holds the newest lines, in order.
RingIsNewest ==
  /\ Len(ring) = IF logged < RingCapacity THEN logged ELSE RingCapacity
  /\ \A i \in 1 .. Len(ring) : ring[i] = logged - Len(ring) + i

\* Every line that was pushed is on its way or in the channel.
NoLineIsLost ==
  \A k \in 1 .. logged :
    k \in writing \/ \E i \in 1 .. Len(channel) : channel[i] = k

Connected(c) == pc[c] # "closed"

\* A Receiver is within the channel, and has passed lines from its start on.
ReceiverInStep ==
  \A c \in Clients :
    /\ start[c] <= next[c] /\ next[c] <= Len(channel)
    /\ pc[c] \in {"closed", "snapshot", "replay"} => next[c] = start[c]
    /\ pc[c] # "replay" => backlog[c] = <<>>
    /\ pc[c] \in {"closed", "snapshot"} => live[c] = 0 /\ told[c] = 0

\* After the snapshot a line is in it, or older, or on its way, or broadcast
\* after the subscription.
Covered(c, k) ==
  \/ k \in got[c] \cup writing
  \/ \E i \in 1 .. Len(backlog[c]) : backlog[c][i] = k
  \/ \E i \in start[c] + 1 .. Len(channel) : channel[i] = k

NothingSlips ==
  \A c \in Clients :
    pc[c] \in {"replay", "stream"} =>
      \A k \in horizon[c] + 1 .. logged : Covered(c, k)

\* What the Receiver has passed was sent, or lost with a notice.
PassedIsSent ==
  \A c \in Clients :
    told[c] = 0 => \A i \in start[c] + 1 .. next[c] : channel[i] \in got[c]

StreamInv ==
  /\ StreamTypeOK
  /\ RingIsNewest
  /\ NoLineIsLost
  /\ ReceiverInStep
  /\ NothingSlips
  /\ PassedIsSent
  /\ LossIsTold
=============================================================================
