----------------------------- MODULE Discovery -----------------------------
(***************************************************************************)
(* discover_device of streamcheats/discovery.rs: one thread per serial     *)
(* port opens it, listens until its deadline for a whole line that begins  *)
(* like the firmware's, and hands the open port over a channel; the first  *)
(* in the channel wins, and the rest are aborted, joined and closed.       *)
(*                                                                         *)
(* What a device sends is a sequence of tokens: "prefix" is one of the six *)
(* firmware prefixes, "text" any other byte and "newline" the end of a     *)
(* line (with its carriage return, which the code strips).                 *)
(***************************************************************************)
EXTENDS Integers, Sequences, FiniteSetsExt

CONSTANTS
  SerialPorts,  \* the serial ports that the system lists
  Cap,          \* tokens that the buffer of a probe may hold after a read
  Drop,         \* tokens that go when it holds more
  Chunk,        \* tokens that one read returns at most
  MaxHeard,     \* bound: tokens received over all ports
  NoPort

ASSUME DiscoveryAssumption ==
  /\ SerialPorts # {} /\ NoPort \notin SerialPorts
  /\ Cap \in Nat /\ Drop \in 1..Cap /\ Chunk \in 1..Drop /\ MaxHeard \in Nat

VARIABLES
  probe,    \* probe[p]: where the thread of port p is
  open,     \* open[p]: this program has the port open
  accum,    \* accum[p]: the probe's buffer
  heard,    \* heard[p]: history: everything that the probe read
  expired,  \* expired[p]: the probe's deadline has passed
  matches,  \* ports sent and not received
  abort,    \* the flag
  main,     \* where discover_device is
  result    \* what it received

probeVars == <<probe, accum, heard, expired>>
mainVars == <<abort, main, result>>
searchVars == <<probeVars, mainVars, open, matches>>

Tokens == {"prefix", "text", "newline"}

SearchInit ==
  /\ probe = [p \in SerialPorts |-> "start"]
  /\ open = [p \in SerialPorts |-> FALSE]
  /\ accum = [p \in SerialPorts |-> <<>>]
  /\ heard = [p \in SerialPorts |-> <<>>]
  /\ expired = [p \in SerialPorts |-> FALSE]
  /\ matches = <<>>
  /\ abort = FALSE
  /\ main = "receive"
  /\ result = NoPort

StartsLine(buf, i) == i = 1 \/ buf[i - 1] = "newline"

\* The last line is looked at only when its newline is there.
BufferHasFirmwareLine(buf) ==
  \E i, j \in 1..Len(buf) :
    i < j /\ buf[i] = "prefix" /\ StartsLine(buf, i) /\ buf[j] = "newline"

\* Mutant: the buffer grows with what the device sends.
Uncapped(buf) == buf

\* Mutant: the whole buffer goes.
CappedToNothing(buf) == IF Len(buf) > Cap THEN <<>> ELSE buf

Capped(buf) == IF Len(buf) > Cap THEN SubSeq(buf, Drop + 1, Len(buf)) ELSE buf

TotalHeard == MapThenSumSet(LAMBDA p : Len(heard[p]), SerialPorts)

ProbeTo(p, place) == probe' = [probe EXCEPT ![p] = place]

\* The port closes when its probe returns without a match.
GiveUp(p) == ProbeTo(p, "done") /\ open' = [open EXCEPT ![p] = FALSE]

Open(p) ==
  /\ probe[p] = "start"
  /\ \/ open' = [open EXCEPT ![p] = TRUE] /\ ProbeTo(p, "check")
     \/ GiveUp(p)
  /\ UNCHANGED <<accum, heard, expired, matches, mainVars>>

\* Only a probe that runs has a deadline.
Expire(p) ==
  /\ probe[p] \in {"check", "read"} /\ ~expired[p]
  /\ expired' = [expired EXCEPT ![p] = TRUE]
  /\ UNCHANGED <<probe, open, accum, heard, matches, mainVars>>

\* Mutant: only the flag ends the loop.
CheckIgnoresDeadline(p) ==
  /\ probe[p] = "check"
  /\ IF abort THEN GiveUp(p) ELSE ProbeTo(p, "read") /\ UNCHANGED open
  /\ UNCHANGED <<accum, heard, expired, matches, mainVars>>

Check(p) ==
  /\ probe[p] = "check"
  /\ IF expired[p] \/ abort THEN GiveUp(p) ELSE ProbeTo(p, "read") /\ UNCHANGED open
  /\ UNCHANGED <<accum, heard, expired, matches, mainVars>>

Read(p) ==
  /\ probe[p] = "read"
  /\ \E n \in 1..Chunk : \E chunk \in [1..n -> Tokens] :
       LET buf == accum[p] \o chunk IN
         /\ TotalHeard + n <= MaxHeard
         /\ heard' = [heard EXCEPT ![p] = @ \o chunk]
         /\ IF BufferHasFirmwareLine(buf)
            THEN ProbeTo(p, "matched") /\ accum' = [accum EXCEPT ![p] = buf]
            ELSE ProbeTo(p, "check") /\ accum' = [accum EXCEPT ![p] = Capped(buf)]
  /\ UNCHANGED <<open, expired, matches, mainVars>>

\* Nothing for 100 ms, or an interrupted call.
ReadNothing(p) ==
  /\ probe[p] = "read"
  /\ ProbeTo(p, "check")
  /\ UNCHANGED <<open, accum, heard, expired, matches, mainVars>>

ReadFails(p) ==
  /\ probe[p] = "read"
  /\ GiveUp(p)
  /\ UNCHANGED <<accum, heard, expired, matches, mainVars>>

\* The receiver lives until discover_device returns, so that the send of a
\* second match succeeds as well.
Send(p) ==
  /\ probe[p] = "matched"
  /\ matches' = Append(matches, p)
  /\ ProbeTo(p, "done")
  /\ UNCHANGED <<open, accum, heard, expired, mainVars>>

Probe(p) == Open(p) \/ Check(p) \/ Read(p) \/ ReadNothing(p) \/ ReadFails(p) \/ Send(p)

AllDone == \A p \in SerialPorts : probe[p] = "done"

\* recv: the first match, or the end of every sender; then the others abort.
Receive ==
  /\ main = "receive"
  /\ \/ matches # <<>> /\ result' = Head(matches) /\ matches' = Tail(matches)
     \/ matches = <<>> /\ AllDone /\ UNCHANGED <<result, matches>>
  /\ abort' = TRUE
  /\ main' = "join"
  /\ UNCHANGED <<probeVars, open>>

\* The channel is dropped with the ports that are still in it.
Return ==
  /\ main = "join" /\ AllDone
  /\ open' = [p \in SerialPorts |-> open[p] /\ \A i \in DOMAIN matches : matches[i] # p]
  /\ matches' = <<>>
  /\ main' = "returned"
  /\ UNCHANGED <<probeVars, abort, result>>

SearchNext == (\E p \in SerialPorts : Probe(p) \/ Expire(p)) \/ Receive \/ Return

SearchSpec ==
  /\ SearchInit /\ [][SearchNext]_searchVars
  /\ \A p \in SerialPorts : WF_searchVars(Probe(p)) /\ WF_searchVars(Expire(p))
  /\ WF_searchVars(Receive \/ Return)

-----------------------------------------------------------------------------
(* Properties *)

SearchTypeOK ==
  /\ probe \in [SerialPorts -> {"start", "check", "read", "matched", "done"}]
  /\ open \in [SerialPorts -> BOOLEAN]
  /\ accum \in [SerialPorts -> Seq(Tokens)]
  /\ \A p \in SerialPorts : probe[p] \in {"start", "check", "read"} => Len(accum[p]) <= Cap
  /\ heard \in [SerialPorts -> Seq(Tokens)]
  /\ expired \in [SerialPorts -> BOOLEAN]
  /\ matches \in Seq(SerialPorts)
  /\ abort \in BOOLEAN
  /\ main \in {"receive", "join", "returned"}
  /\ result \in SerialPorts \cup {NoPort}

\* When discover_device returns, the port that it returns is open and no
\* other is, however many probes matched at the same moment: the next
\* discovery, and every other program, can open them.
OnlyTheWinnerIsOpen ==
  main = "returned" => \A p \in SerialPorts : open[p] <=> p = result

\* The newline ends a line that begins with a prefix and fits in what the
\* buffer keeps when it drops its older part.
ShortFirmwareLine(s, i, j) ==
  /\ i < j /\ s[i] = "prefix" /\ StartsLine(s, i) /\ s[j] = "newline"
  /\ j - i + 1 <= Cap - Drop + 1

\* No banner is overlooked: a probe that gave up, and every probe when
\* discover_device returns nothing, never received a whole firmware line that
\* fits in the buffer, in however many pieces and after whatever else it came.
NoBannerIsMissed ==
  \A p \in SerialPorts :
    probe[p] = "done" /\ ~open[p] /\ (main = "returned" => result = NoPort) =>
      \A i, j \in 1..Len(heard[p]) : ~ShortFirmwareLine(heard[p], i, j)

\* The port that is returned is the only one kept, and a device that spoke up
\* in time is not passed over.
SearchIsSound == OnlyTheWinnerIsOpen /\ NoBannerIsMissed

\* Discovery ends, whether the devices are silent or never stop talking.
DiscoveryEnds == <>(main = "returned")

-----------------------------------------------------------------------------
(* The inductive invariant behind the safety properties. *)

\* A buffer is the newest part of what was heard, and what a probe threw away
\* left enough of it.
Lost(buf, all) == Len(all) - Len(buf)

Kept(buf, all) ==
  /\ Lost(buf, all) >= 0
  /\ Lost(buf, all) > 0 => Len(buf) > Cap - Drop
  /\ \A n \in 1..Len(buf) : buf[n] = all[n + Lost(buf, all)]

Quiet(all) == \A i, j \in 1..Len(all) : ~ShortFirmwareLine(all, i, j)

Listening(p) == probe[p] \in {"start", "check", "read"}
GaveUp(p) == probe[p] = "done" /\ ~open[p] /\ (main = "returned" => result = NoPort)

BuffersKeepUp ==
  \A p \in SerialPorts :
    /\ Kept(accum[p], heard[p])
    /\ Listening(p) \/ GaveUp(p) => Quiet(heard[p])

\* A port is open as long as somebody is there to close it.
Sent(p) == \E i \in DOMAIN matches : matches[i] = p

PortsAreHeld ==
  /\ \A p \in SerialPorts :
       open[p] <=> \/ probe[p] \in {"check", "read", "matched"}
                   \/ probe[p] = "done" /\ (Sent(p) \/ p = result)
  /\ \A p \in SerialPorts : Sent(p) => probe[p] = "done" /\ p # result
  /\ \A i, j \in DOMAIN matches : matches[i] = matches[j] => i = j

MainInStep ==
  /\ result # NoPort => probe[result] = "done"
  /\ main = "receive" => result = NoPort
  /\ main # "receive" /\ result = NoPort => matches = <<>> /\ AllDone
  /\ main = "returned" => matches = <<>> /\ AllDone

DiscoveryInv == SearchTypeOK /\ BuffersKeepUp /\ PortsAreHeld /\ MainInStep
=============================================================================
