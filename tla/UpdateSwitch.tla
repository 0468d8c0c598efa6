---------------------------- MODULE UpdateSwitch ----------------------------
(***************************************************************************)
(* The box for experimental builds (useUpdater.ts, lib/api/updater.ts):    *)
(* the page polls the daemon's status and posts the box's new value, and   *)
(* both answers set the box.  The buttons that check, download and install *)
(* take busy the same way.  The daemon has no CORS layer, so a page reads  *)
(* only the answers of the port that served it.                            *)
(***************************************************************************)
EXTENDS Bridge

CONSTANT Polls  \* status requests that may be under way at once

VARIABLES
  origin,  \* the port that served the page
  flag,    \* the daemon's experimental flag
  shown,   \* the box
  polls,   \* refresh() calls: idle, sent, or answered with a value
  press,   \* setNightly(): none, or the value sent and what became of it
  busy

switchVars == <<origin, flag, shown, polls, press, busy>>

NoPress == [step |-> "none", value |-> FALSE]

SwitchInit ==
  /\ origin = served /\ flag \in BOOLEAN /\ shown = FALSE
  /\ polls = [i \in Polls |-> "idle"]
  /\ press = NoPress /\ busy = FALSE

\* A request to any other port ends as null, and the box stays.
Refresh(i) ==
  /\ polls[i] = "idle" /\ portFile = origin
  /\ polls' = [polls EXCEPT ![i] = "sent"]
  /\ UNCHANGED <<origin, flag, shown, press, busy>>

Status(i) ==
  /\ polls[i] = "sent" /\ Answers(origin)
  /\ polls' = [polls EXCEPT ![i] = IF flag THEN "on" ELSE "off"]
  /\ UNCHANGED <<origin, flag, shown, press, busy>>

\* Mutant: an answer turns the box on and never off.
RefreshedOn(i) ==
  /\ polls[i] \in {"on", "off"}
  /\ shown' = (shown \/ polls[i] = "on")
  /\ polls' = [polls EXCEPT ![i] = "idle"]
  /\ UNCHANGED <<origin, flag, press, busy>>

Refreshed(i) ==
  /\ polls[i] \in {"on", "off"}
  /\ shown' = (polls[i] = "on")
  /\ polls' = [polls EXCEPT ![i] = "idle"]
  /\ UNCHANGED <<origin, flag, press, busy>>

\* The box is disabled while busy.
SetNightly ==
  /\ ~busy /\ portFile = origin
  /\ busy' = TRUE
  /\ press' = [step |-> "sent", value |-> ~shown]
  /\ UNCHANGED <<origin, flag, shown, polls>>

\* The flag is set whether or not it could be saved.
FlagSet ==
  /\ press.step = "sent" /\ Answers(origin)
  /\ flag' = press.value
  /\ \E step \in {"saved", "failed"} : press' = [press EXCEPT !.step = step]
  /\ UNCHANGED <<origin, shown, polls, busy>>

NightlySet ==
  /\ press.step \in {"saved", "failed"}
  /\ shown' = IF press.step = "saved" THEN press.value ELSE shown
  /\ press' = NoPress /\ busy' = FALSE
  /\ UNCHANGED <<origin, flag, polls>>

\* The end of the daemon fails the requests that it has not answered; the next
\* one has the saved flag.
FetchesBreak ==
  /\ polls' = [i \in Polls |-> IF polls[i] = "sent" THEN "idle" ELSE polls[i]]
  /\ press' = IF press.step = "sent" THEN [press EXCEPT !.step = "failed"] ELSE press
  /\ flag' \in BOOLEAN
  /\ UNCHANGED <<origin, shown, busy>>

SwitchPolls(i) == Refresh(i) \/ Status(i) \/ Refreshed(i)
SwitchEnds == FlagSet \/ NightlySet

SwitchTypeOK ==
  /\ origin \in Ports /\ flag \in BOOLEAN /\ shown \in BOOLEAN
  /\ polls \in [Polls -> {"idle", "sent", "on", "off"}]
  /\ press \in [step : {"none", "sent", "saved", "failed"}, value : BOOLEAN]
  /\ busy = (press.step # "none")

\* However late answers of polls and of the box cross each other, and whether or
\* not the flag could be saved: while the daemon of the page stays and its flag
\* does, the box comes to show it.
BoxCatchesUp ==
  \A v \in BOOLEAN :
    <>[](Healthy /\ served = origin /\ flag = v) => <>[](shown = v)
=============================================================================
