--------------------------- MODULE Interpolation ---------------------------
(***************************************************************************)
(* The threads of mouse_automove and bezier_move (interp_linear and        *)
(* interp_bezier of util/translator.rs).  A worker takes a whole number of *)
(* steps, and at each step moves by the difference between where the curve *)
(* is, in whole counts, and what it has emitted.  Time is left out: a      *)
(* sleep only spaces the steps.                                            *)
(***************************************************************************)
EXTENDS Packet

CONSTANTS
  Workers,    \* threads that may run
  Targets,    \* offsets on one axis
  Controls,   \* coordinates of control points on one axis
  Durations   \* milliseconds asked for, which may be negative

ASSUME InterpolationAssumption ==
  Targets \subseteq Int /\ Controls \subseteq Int /\ Durations \subseteq Int

VARIABLES
  job,      \* job[w]: what the worker was asked for
  at,       \* at[w]: steps taken
  emitted,  \* emitted[w]: how far the worker believes it has moved
  sent,     \* sent[w]: history: the sum of the moves that it gave the device
  clamped   \* clamped[w]: history: a move did not fit in an i16

workerVars == <<job, at, emitted, sent, clamped>>

StepMs == 4
Axes == {"x", "y"}
Vectors(S) == [Axes -> S]
Origin == [a \in Axes |-> 0]
Idle == [kind |-> "none", steps |-> 0, target |-> Origin, first |-> Origin, second |-> Origin]

InterpolationInit ==
  /\ job = [w \in Workers |-> Idle]
  /\ at = [w \in Workers |-> 0]
  /\ emitted = [w \in Workers |-> Origin]
  /\ sent = [w \in Workers |-> Origin]
  /\ clamped = [w \in Workers |-> FALSE]

\* A duration below one step, or below zero, is one step.
Steps(ms) == IF ms < StepMs THEN 1 ELSE (ms + StepMs - 1) \div StepMs

\* Division as on i64: towards zero.
Quotient(a, b) == IF a >= 0 THEN a \div b ELSE -((-a) \div b)

\* Mutant: the share of one step is rounded, and then taken i times.
OnLineByShare(target, i, n) == Quotient(target, n) * i

\* Where the line is after i of n steps.
OnLine(target, i, n) == Quotient(target * i, n)

\* n^3 times where the curve is after i of n steps.
OnCurve(target, first, second, i, n) ==
  3 * (n - i) * (n - i) * i * first + 3 * (n - i) * i * i * second + i * i * i * target

\* f64::round of a / b, where the f64 at a tie may lie on either side.
Rounded(a, b) ==
  LET floor == a \div b
      rest == 2 * (a - b * floor)
  IN {r \in {floor, floor + 1} : IF r = floor THEN rest <= b ELSE rest >= b}

\* The moves that the next step may make on axis a.
Deltas(w, a) ==
  LET j == job[w]
      i == at[w] + 1
      n == j.steps
  IN IF j.kind = "linear"
     THEN {OnLine(j.target[a], i, n) - emitted[w][a]}
     ELSE Rounded(OnCurve(j.target[a], j.first[a], j.second[a], i, n)
                    - emitted[w][a] * n * n * n, n * n * n)

\* thread::spawn, with the worker's locals.
SpawnWorker(w, j) ==
  /\ job[w] = Idle
  /\ job' = [job EXCEPT ![w] = j]
  /\ at' = [at EXCEPT ![w] = 0]
  /\ emitted' = [emitted EXCEPT ![w] = Origin]
  /\ sent' = [sent EXCEPT ![w] = Origin]
  /\ clamped' = [clamped EXCEPT ![w] = FALSE]

SpawnAutomove(w, target, ms) ==
  SpawnWorker(w, [kind |-> "linear", steps |-> Steps(ms), target |-> target,
                  first |-> Origin, second |-> Origin])

SpawnBezier(w, target, ms, first, second) ==
  SpawnWorker(w, [kind |-> "bezier", steps |-> Steps(ms), target |-> target,
                  first |-> first, second |-> second])

\* One turn of the loop gives the move d to apply_move.
StepBy(w, d) ==
  /\ at' = [at EXCEPT ![w] = @ + 1]
  /\ emitted' = [emitted EXCEPT ![w] = [a \in Axes |-> @[a] + d[a]]]
  /\ sent' = [sent EXCEPT ![w] = [a \in Axes |-> @[a] + ClampI16(d[a])]]
  /\ clamped' = [clamped EXCEPT ![w] = @ \/ \E a \in Axes : ClampI16(d[a]) # d[a]]
  /\ UNCHANGED job

Moves(w) == {d \in Vectors(Deltas(w, "x") \cup Deltas(w, "y")) :
               \A a \in Axes : d[a] \in Deltas(w, a)}

WorkerStep(w) == at[w] < job[w].steps /\ \E d \in Moves(w) : StepBy(w, d)

\* The thread ends, and its place is free for another.
WorkerEnds(w) ==
  /\ job[w] # Idle /\ at[w] = job[w].steps
  /\ job' = [job EXCEPT ![w] = Idle]
  /\ at' = [at EXCEPT ![w] = 0]
  /\ emitted' = [emitted EXCEPT ![w] = Origin]
  /\ sent' = [sent EXCEPT ![w] = Origin]
  /\ clamped' = [clamped EXCEPT ![w] = FALSE]

InterpolationNext ==
  \E w \in Workers :
    \/ \E t \in Vectors(Targets), ms \in Durations :
         \/ SpawnAutomove(w, t, ms)
         \/ \E c1, c2 \in Vectors(Controls) : SpawnBezier(w, t, ms, c1, c2)
    \/ WorkerStep(w) \/ WorkerEnds(w)

InterpolationSpec == InterpolationInit /\ [][InterpolationNext]_workerVars

-----------------------------------------------------------------------------
(* Properties *)

Jobs == [kind : {"none", "linear", "bezier"}, steps : Nat,
         target : Vectors(Int), first : Vectors(Int), second : Vectors(Int)]

InterpolationTypeOK ==
  /\ job \in [Workers -> Jobs]
  /\ \A w \in Workers : job[w] # Idle => job[w].kind # "none" /\ job[w].steps > 0
  /\ at \in [Workers -> Nat]
  /\ \A w \in Workers : at[w] <= job[w].steps
  /\ emitted \in [Workers -> Vectors(Int)]
  /\ sent \in [Workers -> Vectors(Int)]
  /\ clamped \in [Workers -> BOOLEAN]

\* However the target divides into steps and whatever its sign, and wherever
\* the control points draw the curve, the moves add up to the target, unless
\* one of them was too long for a packet.
LandsOnTarget ==
  \A w \in Workers :
    at[w] = job[w].steps /\ ~clamped[w] => sent[w] = job[w].target

\* A straight move is even: the next move differs from the share of a step
\* by less than one count and never goes back.
EvenSteps ==
  \A w \in Workers, a \in Axes :
    job[w].kind = "linear" /\ at[w] < job[w].steps =>
      \A d \in Deltas(w, a) :
        LET t == job[w].target[a]
            n == job[w].steps
        IN /\ t >= 0 => d >= 0 /\ d * n > t - n /\ d * n < t + n
           /\ t <= 0 => d <= 0 /\ d * n < t + n /\ d * n > t - n

\* A move that is cut into steps is the move that was asked for.
InterpolationIsExact == InterpolationTypeOK /\ LandsOnTarget /\ EvenSteps

-----------------------------------------------------------------------------
(* The inductive invariant behind InterpolationIsExact. *)

\* What a worker believes it has moved is what the device was told, unless a
\* move was cut short; it is on the line, and at the end it is the target.
WorkersInStep ==
  \A w \in Workers :
    /\ ~clamped[w] => sent[w] = emitted[w]
    /\ job[w].kind = "linear" =>
         \A a \in Axes : emitted[w][a] = OnLine(job[w].target[a], at[w], job[w].steps)
    /\ at[w] = job[w].steps => emitted[w] = job[w].target

ExactInv == InterpolationTypeOK /\ WorkersInStep
=============================================================================
