----------------------------- MODULE SerialLink ------------------------------
(***************************************************************************)
(* What the session machinery promises to the threads that send packets: a *)
(* link that is open or closed and a queue of accepted packets.  A packet  *)
(* is accepted only while the link is open, and leaves the queue from the  *)
(* front, one at a time, delivered or lost; closing the link may throw the *)
(* rest away.  The link opens with an empty queue, so no packet accepted   *)
(* in one epoch is still waiting in a later one.  Only a daemon that is    *)
(* stopping throws packets away with the link still open.                  *)
(***************************************************************************)
EXTENDS Naturals, Sequences

CONSTANT Packets

VARIABLES open, epoch, queue, stopping

linkVars == <<open, epoch, queue, stopping>>

LinkInit ==
  /\ open = FALSE
  /\ epoch = 0
  /\ queue = <<>>
  /\ stopping = FALSE

Open ==
  /\ ~open
  /\ queue = <<>>
  /\ open' = TRUE
  /\ epoch' = epoch + 1
  /\ UNCHANGED <<queue, stopping>>

Accept(k) ==
  /\ open
  /\ queue' = Append(queue, k)
  /\ UNCHANGED <<open, epoch, stopping>>

TakeFirst ==
  /\ queue # <<>>
  /\ queue' = Tail(queue)
  /\ UNCHANGED <<open, epoch, stopping>>

ThrowAway ==
  /\ stopping \/ ~open
  /\ queue' = <<>>
  /\ UNCHANGED <<open, epoch, stopping>>

Close ==
  /\ open
  /\ open' = FALSE
  /\ UNCHANGED <<epoch, queue, stopping>>

Stop ==
  /\ stopping' = TRUE
  /\ UNCHANGED <<open, epoch, queue>>

LinkNext ==
  \/ Open \/ TakeFirst \/ ThrowAway \/ Close \/ Stop
  \/ \E k \in Packets : Accept(k)

LinkSpec == LinkInit /\ [][LinkNext]_linkVars
=============================================================================
