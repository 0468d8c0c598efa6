-------------------------- MODULE TranslatorProofs --------------------------
(***************************************************************************)
(* What is proved of the way of a datagram, for every width of a word,     *)
(* number of words and rounds of the cipher, every client and request.     *)
(* First the workers, which stay on their lines (ExactInv), and the        *)
(* packets, which the firmware reads as they were meant.  Then the cipher: *)
(* one update changes one word by what its neighbours alone give, so it is *)
(* undone by taking that away; encrypt is a run of updates, and decrypt    *)
(* goes back along it.  Then the wire format, and with all of these the    *)
(* invariant of Translator.                                                *)
(***************************************************************************)
EXTENDS Translator, WellFoundedInduction, TLAPS

\* What the quotient of a division leaves is less than the divisor.
LEMMA DivBounds ==
  ASSUME NEW a \in Int, NEW b \in Nat \ {0}
  PROVE  a \div b \in Int /\ b * (a \div b) <= a /\ a < b * (a \div b) + b
<1>1. a \div b \in Int OBVIOUS
<1>2. b * (a \div b) <= a BY Z3
<1>3. ASSUME NEW q \in Int, q = a \div b PROVE a < b * q + b
  BY <1>3, SMT
<1> QED BY <1>1, <1>2, <1>3

\* Products grow by steps of at least their factor.
LEMMA Below ==
  ASSUME NEW b \in Nat \ {0}, NEW p \in Int, NEW q \in Int, p < q
  PROVE  b * p + b <= b * q
OBVIOUS

\* A multiple divides without a rest.
LEMMA DivExact ==
  ASSUME NEW b \in Nat \ {0}, NEW k \in Int
  PROVE  (b * k) \div b = k
<1> DEFINE q == (b * k) \div b
<1>1. b * k \in Int OBVIOUS
<1>2. q \in Int /\ b * q <= b * k /\ b * k < b * q + b BY <1>1, DivBounds
<1> HIDE DEF q
<1>3. ~(q < k) BY <1>2, Below
<1>4. ~(k < q)
  <2>1. SUFFICES ASSUME k < q PROVE FALSE OBVIOUS
  <2>2. b * k + b <= b * q BY <1>2, <2>1, Below
  <2> QED BY <1>1, <1>2, <2>2
<1>5. q = k BY <1>2, <1>3, <1>4
<1> QED BY <1>5 DEF q

\* f64::round of a whole number is that number.
LEMMA RoundedExact ==
  ASSUME NEW b \in Nat \ {0}, NEW k \in Int
  PROVE  Rounded(b * k, b) = {k}
<1>1. (b * k) \div b = k BY DivExact
<1>2. b * k \in Int /\ 2 * (b * k - b * k) = 0 OBVIOUS
<1>3. k \in {k, k + 1} /\ 0 <= b /\ ~(0 >= b) /\ k + 1 # k OBVIOUS
<1> QED BY <1>1, <1>2, <1>3 DEF Rounded

\* Rounding gives whole numbers.
LEMMA RoundedIsInt ==
  ASSUME NEW a \in Int, NEW b \in Nat \ {0}
  PROVE  Rounded(a, b) \subseteq Int
BY DivBounds DEF Rounded

\* The denominator of a point on the curve.
LEMMA CubeIsPositive == ASSUME NEW n \in Nat \ {0} PROVE n * n * n \in Nat \ {0}
OBVIOUS

\* Points on the curve are whole numbers.
LEMMA CurveIsInt ==
  ASSUME NEW t \in Int, NEW c1 \in Int, NEW c2 \in Int, NEW n \in Nat, NEW i \in Nat
  PROVE  OnCurve(t, c1, c2, i, n) \in Int
BY DEF OnCurve

\* A Bezier curve ends at its target, wherever its control points are.
LEMMA CurveEnds ==
  ASSUME NEW t \in Int, NEW c1 \in Int, NEW c2 \in Int, NEW n \in Nat \ {0}
  PROVE  OnCurve(t, c1, c2, n, n) = n * n * n * t
BY DEF OnCurve

\* So are those on the line.
LEMMA LineIsInt ==
  ASSUME NEW t \in Int, NEW i \in Nat, NEW n \in Nat \ {0}
  PROVE  OnLine(t, i, n) \in Int
<1>1. t * i \in Int /\ -(t * i) \in Int OBVIOUS
<1> QED BY <1>1, DivBounds DEF OnLine, Quotient

\* Division as on i64 is the same on both sides of zero.
LEMMA LineIsOdd ==
  ASSUME NEW t \in Int, NEW i \in Nat, NEW n \in Nat \ {0}, t <= 0
  PROVE  OnLine(t, i, n) = -OnLine(-t, i, n)
<1>1. (-t) * i = -(t * i) /\ t * i \in Int OBVIOUS
<1>2. t * i <= 0 OBVIOUS
<1>3. CASE t * i = 0
  <2>1. (n * 0) \div n = 0 BY DivExact
  <2>2. 0 \div n = 0 BY <2>1
  <2> QED BY <1>1, <1>3, <2>2 DEF OnLine, Quotient
<1>4. CASE t * i < 0 BY <1>1, <1>4, DivBounds DEF OnLine, Quotient
<1> QED BY <1>1, <1>2, <1>3, <1>4

\* A line begins at nothing and ends at its target.
LEMMA LineEnds ==
  ASSUME NEW t \in Int, NEW n \in Nat \ {0}
  PROVE  OnLine(t, 0, n) = 0 /\ OnLine(t, n, n) = t
<1>1. ASSUME NEW u \in Nat PROVE OnLine(u, 0, n) = 0 /\ OnLine(u, n, n) = u
  <2>1. u * 0 = n * 0 /\ u * n = n * u /\ n * u >= 0 /\ n * 0 >= 0 OBVIOUS
  <2>2. (n * 0) \div n = 0 /\ (n * u) \div n = u BY DivExact
  <2> QED BY <2>1, <2>2 DEF OnLine, Quotient
<1>2. CASE t >= 0 BY <1>1, <1>2
<1>3. CASE t < 0
  <2>1. -t \in Nat /\ 0 \in Nat /\ n \in Nat BY <1>3
  <2>2. OnLine(-t, 0, n) = 0 /\ OnLine(-t, n, n) = -t BY <1>1, <2>1
  <2> QED BY <1>3, <2>1, <2>2, LineIsOdd
<1> QED BY <1>2, <1>3

\* To the right: the next move is the share of a step to within one count.
LEMMA StepRight ==
  ASSUME NEW t \in Nat, NEW i \in Nat, NEW n \in Nat \ {0},
         NEW d \in Int, d = OnLine(t, i + 1, n) - OnLine(t, i, n)
  PROVE  d >= 0 /\ d * n > t - n /\ d * n < t + n
<1> DEFINE p == (t * i) \div n
           q == (t * (i + 1)) \div n
<1>1. t * i \in Nat /\ t * (i + 1) \in Nat /\ t * (i + 1) = t * i + t OBVIOUS
<1>2. p \in Int /\ n * p <= t * i /\ t * i < n * p + n BY <1>1, DivBounds
<1>3. q \in Int /\ n * q <= t * (i + 1) /\ t * (i + 1) < n * q + n BY <1>1, DivBounds
<1>4. d = q - p BY <1>1 DEF OnLine, Quotient
<1> HIDE DEF p, q
<1>5. d * n = n * q - n * p
  <2>1. ASSUME NEW x \in Int, NEW y \in Int PROVE (y - x) * n = n * y - n * x OBVIOUS
  <2> QED BY <1>2, <1>3, <1>4, <2>1
<1>6. ~(q < p)
  <2>1. SUFFICES ASSUME q < p PROVE FALSE OBVIOUS
  <2>2. n * q + n <= n * p BY <1>2, <1>3, <2>1, Below
  <2>3. n * q \in Int /\ n * p \in Int BY <1>2, <1>3
  <2> QED BY <1>1, <1>2, <1>3, <2>2, <2>3
<1>7. n * q \in Int /\ n * p \in Int BY <1>2, <1>3
<1>8. d * n > t - n /\ d * n < t + n BY <1>1, <1>2, <1>3, <1>5, <1>7
<1> QED BY <1>2, <1>3, <1>4, <1>6, <1>8

\* To the left: the same with the signs turned.
LEMMA StepLeft ==
  ASSUME NEW t \in Int, t <= 0, NEW i \in Nat, NEW n \in Nat \ {0},
         NEW d \in Int, d = OnLine(t, i + 1, n) - OnLine(t, i, n)
  PROVE  d <= 0 /\ d * n < t + n /\ d * n > t - n
<1>1. -t \in Nat /\ i + 1 \in Nat /\ -d \in Int OBVIOUS
<1>2. /\ OnLine(t, i + 1, n) = -OnLine(-t, i + 1, n)
      /\ OnLine(t, i, n) = -OnLine(-t, i, n)
  BY <1>1, LineIsOdd
<1>3. OnLine(-t, i + 1, n) \in Int /\ OnLine(-t, i, n) \in Int BY <1>1, LineIsInt
<1>4. -d = OnLine(-t, i + 1, n) - OnLine(-t, i, n) BY <1>2, <1>3
<1>5. -d >= 0 /\ (-d) * n > -t - n /\ (-d) * n < -t + n BY <1>1, <1>4, StepRight
<1>6. (-d) * n = -(d * n) /\ d * n \in Int OBVIOUS
<1> QED BY <1>5, <1>6

-----------------------------------------------------------------------------
(* The workers *)

\* A worker has a step to make, whatever duration was asked for.
LEMMA StepsIsPositive == ASSUME NEW ms \in Int PROVE Steps(ms) \in Nat \ {0}
<1>1. CASE ms < StepMs BY <1>1 DEF Steps
<1>2. CASE ms >= StepMs
  <2>1. (ms + StepMs - 1) \div StepMs \in Nat \ {0} BY <1>2 DEF StepMs
  <2> QED BY <1>2, <2>1 DEF Steps, StepMs
<1> QED BY <1>1, <1>2 DEF StepMs

\* What a free place holds.
LEMMA IdleIsAJob == Idle \in Jobs /\ Origin \in Vectors(Int) /\ Origin \in Vectors(Nat)
BY DEF Idle, Jobs, Origin, Vectors

\* A move on an axis is a whole number, and the last one ends on the target.
LEMMA DeltasAreMoves ==
  ASSUME ExactInv, NEW w \in Workers, at[w] < job[w].steps, NEW a \in Axes
  PROVE  /\ Deltas(w, a) \subseteq Int
         /\ at[w] + 1 = job[w].steps => Deltas(w, a) = {job[w].target[a] - emitted[w][a]}
<1> DEFINE n == job[w].steps
           i == at[w] + 1
           t == job[w].target[a]
           c1 == job[w].first[a]
           c2 == job[w].second[a]
           e == emitted[w][a]
<1>1. /\ n \in Nat \ {0} /\ i \in Nat /\ t \in Int /\ c1 \in Int /\ c2 \in Int /\ e \in Int
  BY DEF ExactInv, InterpolationTypeOK, Jobs, Vectors
<1>2. Deltas(w, a) = IF job[w].kind = "linear"
                     THEN {OnLine(t, i, n) - e}
                     ELSE Rounded(OnCurve(t, c1, c2, i, n) - e * n * n * n, n * n * n)
  BY DEF Deltas
<1> HIDE DEF n, i, t, c1, c2, e
<1>3. CASE job[w].kind = "linear"
  <2>1. OnLine(t, i, n) \in Int /\ OnLine(t, n, n) = t BY <1>1, LineIsInt, LineEnds
  <2>2. Deltas(w, a) = {OnLine(t, i, n) - e} BY <1>2, <1>3
  <2>3. Deltas(w, a) \subseteq Int /\ (i = n => Deltas(w, a) = {t - e}) BY <1>1, <2>1, <2>2
  <2> QED BY <2>3 DEF n, i, t, e
<1>4. CASE job[w].kind # "linear"
  <2> DEFINE cube == n * n * n
             rest == OnCurve(t, c1, c2, i, n) - e * n * n * n
  <2>1. cube \in Nat \ {0} BY <1>1, CubeIsPositive
  <2>2. OnCurve(t, c1, c2, i, n) \in Int BY <1>1, CurveIsInt
  <2>3. e * n * n * n \in Int BY <1>1
  <2>4. rest \in Int BY <2>2, <2>3
  <2>5. i = n => rest = cube * (t - e)
    <3>1. ASSUME NEW x \in Int, NEW y \in Int, NEW m \in Nat
          PROVE  m * m * m * x - y * m * m * m = (m * m * m) * (x - y)
      OBVIOUS
    <3> QED BY <1>1, <3>1, CurveEnds
  <2>6. Deltas(w, a) = Rounded(rest, cube) BY <1>2, <1>4
  <2> HIDE DEF cube, rest
  <2>7. Deltas(w, a) \subseteq Int BY <2>1, <2>4, <2>6, RoundedIsInt
  <2>8. t - e \in Int BY <1>1
  <2>9. i = n => Deltas(w, a) = {t - e} BY <2>1, <2>5, <2>6, <2>8, RoundedExact
  <2> QED BY <2>7, <2>9 DEF n, i, t, e
<1> QED BY <1>3, <1>4

\* At first no worker runs.
LEMMA InitHolds == InterpolationInit => ExactInv
<1> SUFFICES ASSUME InterpolationInit PROVE ExactInv OBVIOUS
<1> USE DEF InterpolationInit
<1>1. InterpolationTypeOK
  <2>1. Idle.steps = 0 BY DEF Idle
  <2> QED BY <2>1, IdleIsAJob DEF InterpolationTypeOK
<1>2. WorkersInStep BY DEF WorkersInStep, Idle
<1> QED BY <1>1, <1>2 DEF ExactInv

\* A worker that starts has sent nothing and is at the beginning of its line.
LEMMA SpawnKeeps ==
  ASSUME ExactInv, NEW w \in Workers, NEW j \in Jobs, j.steps > 0, j.kind # "none",
         SpawnWorker(w, j)
  PROVE  ExactInv'
<1> USE DEF SpawnWorker, ExactInv
<1>1. InterpolationTypeOK'
  <2>1. job' \in [Workers -> Jobs] BY DEF InterpolationTypeOK
  <2>2. \A v \in Workers : job'[v] # Idle => job'[v].kind # "none" /\ job'[v].steps > 0
    BY DEF InterpolationTypeOK
  <2>3. \A v \in Workers : at'[v] <= job'[v].steps
    <3>1. 0 <= j.steps BY DEF Jobs
    <3> QED BY <3>1 DEF InterpolationTypeOK
  <2>4. /\ at' \in [Workers -> Nat] /\ clamped' \in [Workers -> BOOLEAN]
        /\ emitted' \in [Workers -> Vectors(Int)] /\ sent' \in [Workers -> Vectors(Int)]
    BY IdleIsAJob DEF InterpolationTypeOK
  <2> QED BY <2>1, <2>2, <2>3, <2>4 DEF InterpolationTypeOK
<1>2. ASSUME NEW v \in Workers
      PROVE  /\ ~clamped'[v] => sent'[v] = emitted'[v]
             /\ job'[v].kind = "linear" =>
                  \A a \in Axes :
                    emitted'[v][a] = OnLine(job'[v].target[a], at'[v], job'[v].steps)
             /\ at'[v] = job'[v].steps => emitted'[v] = job'[v].target
  <2>1. CASE v = w
    <3>1. job'[v] = j /\ at'[v] = 0 /\ emitted'[v] = Origin /\ sent'[v] = Origin
      BY <2>1 DEF InterpolationTypeOK
    <3>2. ASSUME NEW a \in Axes PROVE Origin[a] = OnLine(j.target[a], 0, j.steps)
      <4>1. j.target[a] \in Int /\ j.steps \in Nat \ {0} BY DEF Jobs, Vectors
      <4> QED BY <4>1, LineEnds DEF Origin
    <3> QED BY <3>1, <3>2
  <2>2. CASE v # w
    <3>1. /\ job'[v] = job[v] /\ at'[v] = at[v] /\ emitted'[v] = emitted[v]
          /\ sent'[v] = sent[v] /\ clamped'[v] = clamped[v]
      BY <2>2 DEF InterpolationTypeOK
    <3> QED BY <3>1 DEF WorkersInStep
  <2> QED BY <2>1, <2>2
<1>3. WorkersInStep' BY <1>2 DEF WorkersInStep
<1> QED BY <1>1, <1>3

\* A step keeps to the line, and the last one ends on the target.
LEMMA StepKeeps ==
  ASSUME ExactInv, NEW w \in Workers, WorkerStep(w)
  PROVE  ExactInv'
<1>1. PICK d \in Moves(w) : StepBy(w, d) BY DEF WorkerStep
<1>2. at[w] < job[w].steps BY DEF WorkerStep
<1>3. \A a \in Axes : d[a] \in Deltas(w, a) /\ d[a] \in Int
  BY <1>2, DeltasAreMoves DEF Moves
<1>4. /\ at[w] \in Nat /\ job[w] \in Jobs /\ job[w].steps \in Nat \ {0}
      /\ emitted[w] \in Vectors(Int) /\ sent[w] \in Vectors(Int)
      /\ job[w].target \in Vectors(Int)
  BY <1>2 DEF ExactInv, InterpolationTypeOK, Jobs
<1> DEFINE believed == [a \in Axes |-> emitted[w][a] + d[a]]
           told == [a \in Axes |-> sent[w][a] + ClampI16(d[a])]
<1>5. /\ job' = job /\ at' = [at EXCEPT ![w] = at[w] + 1]
      /\ emitted' = [emitted EXCEPT ![w] = believed] /\ sent' = [sent EXCEPT ![w] = told]
      /\ clamped' = [clamped EXCEPT ![w] = clamped[w] \/ \E a \in Axes : ClampI16(d[a]) # d[a]]
  BY <1>1 DEF StepBy
<1>6. believed \in Vectors(Int) /\ told \in Vectors(Int)
  BY <1>3, <1>4 DEF Vectors, ClampI16
<1>7. InterpolationTypeOK'
  <2> HIDE DEF believed, told
  <2>1. (\E a \in Axes : ClampI16(d[a]) # d[a]) \in BOOLEAN OBVIOUS
  <2>2. at[w] + 1 \in Nat /\ at[w] + 1 <= job[w].steps BY <1>2, <1>4
  <2> QED BY <1>5, <1>6, <2>1, <2>2 DEF ExactInv, InterpolationTypeOK
<1>8. ASSUME NEW v \in Workers
      PROVE  /\ ~clamped'[v] => sent'[v] = emitted'[v]
             /\ job'[v].kind = "linear" =>
                  \A a \in Axes :
                    emitted'[v][a] = OnLine(job'[v].target[a], at'[v], job'[v].steps)
             /\ at'[v] = job'[v].steps => emitted'[v] = job'[v].target
  <2>1. CASE v = w
    <3>1. /\ job'[v] = job[w] /\ at'[v] = at[w] + 1 /\ emitted'[v] = believed /\ sent'[v] = told
          /\ ~clamped'[v] => ~clamped[w] /\ \A a \in Axes : ClampI16(d[a]) = d[a]
      BY <1>5, <2>1 DEF ExactInv, InterpolationTypeOK
    <3>2. ~clamped'[v] => told = believed
      <4>1. ~clamped[w] => sent[w] = emitted[w] BY DEF ExactInv, WorkersInStep
      <4> QED BY <3>1, <4>1
    <3>3. job[w].kind = "linear" =>
            \A a \in Axes : believed[a] = OnLine(job[w].target[a], at[w] + 1, job[w].steps)
      <4> SUFFICES ASSUME job[w].kind = "linear", NEW a \in Axes
                   PROVE  believed[a] = OnLine(job[w].target[a], at[w] + 1, job[w].steps)
        OBVIOUS
      <4>1. d[a] = OnLine(job[w].target[a], at[w] + 1, job[w].steps) - emitted[w][a]
        BY <1>3 DEF Deltas
      <4>2. OnLine(job[w].target[a], at[w] + 1, job[w].steps) \in Int /\ emitted[w][a] \in Int
        <5>1. /\ at[w] + 1 \in Nat /\ job[w].steps \in Nat \ {0}
              /\ job[w].target[a] \in Int /\ emitted[w][a] \in Int
          BY <1>4 DEF Vectors
        <5> QED BY <5>1, LineIsInt
      <4> QED BY <4>1, <4>2
    <3>4. at[w] + 1 = job[w].steps => believed = job[w].target
      <4> SUFFICES ASSUME at[w] + 1 = job[w].steps PROVE believed = job[w].target OBVIOUS
      <4>1. ASSUME NEW a \in Axes PROVE believed[a] = job[w].target[a]
        <5>1. d[a] = job[w].target[a] - emitted[w][a] BY <1>2, <1>3, DeltasAreMoves
        <5>2. job[w].target[a] \in Int /\ emitted[w][a] \in Int BY <1>4 DEF Vectors
        <5> QED BY <5>1, <5>2
      <4>2. believed = [a \in Axes |-> believed[a]] OBVIOUS
      <4>3. job[w].target = [a \in Axes |-> job[w].target[a]] BY <1>4 DEF Vectors
      <4> QED BY <4>1, <4>2, <4>3
    <3> QED BY <3>1, <3>2, <3>3, <3>4
  <2>2. CASE v # w
    <3>1. /\ job'[v] = job[v] /\ at'[v] = at[v] /\ emitted'[v] = emitted[v]
          /\ sent'[v] = sent[v] /\ clamped'[v] = clamped[v]
      BY <1>5, <2>2 DEF ExactInv, InterpolationTypeOK
    <3> QED BY <3>1 DEF ExactInv, WorkersInStep
  <2> QED BY <2>1, <2>2
<1> QED BY <1>7, <1>8 DEF ExactInv, WorkersInStep

\* A thread that ends frees its place.
LEMMA EndKeeps ==
  ASSUME ExactInv, NEW w \in Workers, WorkerEnds(w)
  PROVE  ExactInv'
<1> USE DEF WorkerEnds, ExactInv
<1>1. InterpolationTypeOK'
  <2>1. Idle.steps = 0 BY DEF Idle
  <2> QED BY <2>1, IdleIsAJob DEF InterpolationTypeOK
<1>2. WorkersInStep'
  <2>1. Idle.kind = "none" /\ Idle.steps = 0 /\ Idle.target = Origin BY DEF Idle
  <2> QED BY <2>1 DEF WorkersInStep, InterpolationTypeOK
<1> QED BY <1>1, <1>2

\* So does every step of the workers.
LEMMA NextKeeps == ExactInv /\ [InterpolationNext]_workerVars => ExactInv'
<1> SUFFICES ASSUME ExactInv, [InterpolationNext]_workerVars PROVE ExactInv' OBVIOUS
<1>1. ASSUME NEW w \in Workers, NEW t \in Vectors(Targets), NEW ms \in Durations,
             SpawnAutomove(w, t, ms)
      PROVE  ExactInv'
  <2>1. /\ t \in Vectors(Int) /\ Steps(ms) \in Nat \ {0}
    BY InterpolationAssumption, StepsIsPositive DEF Vectors
  <2> QED BY <1>1, <2>1, IdleIsAJob, SpawnKeeps DEF SpawnAutomove, Jobs
<1>2. ASSUME NEW w \in Workers, NEW t \in Vectors(Targets), NEW ms \in Durations,
             NEW c1 \in Vectors(Controls), NEW c2 \in Vectors(Controls),
             SpawnBezier(w, t, ms, c1, c2)
      PROVE  ExactInv'
  <2>1. /\ t \in Vectors(Int) /\ c1 \in Vectors(Int) /\ c2 \in Vectors(Int)
        /\ Steps(ms) \in Nat \ {0}
    BY InterpolationAssumption, StepsIsPositive DEF Vectors
  <2> QED BY <1>2, <2>1, SpawnKeeps DEF SpawnBezier, Jobs
<1>3. CASE UNCHANGED workerVars
  BY <1>3 DEF workerVars, ExactInv, InterpolationTypeOK, WorkersInStep
<1> QED BY <1>1, <1>2, <1>3, StepKeeps, EndKeeps DEF InterpolationNext

(* Every worker is on its line, and at its target when it has no step left.   *)
THEOREM ExactInvariant == InterpolationSpec => []ExactInv
BY InitHolds, NextKeeps, PTL DEF InterpolationSpec

\* On its line and at its target at the end, a worker is exact and even.
LEMMA ExactIsEnough == ExactInv => InterpolationIsExact
<1>1. ExactInv => InterpolationTypeOK BY DEF ExactInv
<1>2. ExactInv => LandsOnTarget BY DEF ExactInv, WorkersInStep, LandsOnTarget
<1>3. ASSUME ExactInv PROVE EvenSteps
  <2> SUFFICES ASSUME NEW w \in Workers, NEW a \in Axes,
                      job[w].kind = "linear", at[w] < job[w].steps, NEW d \in Deltas(w, a)
               PROVE  /\ job[w].target[a] >= 0 =>
                           /\ d >= 0 /\ d * job[w].steps > job[w].target[a] - job[w].steps
                           /\ d * job[w].steps < job[w].target[a] + job[w].steps
                      /\ job[w].target[a] <= 0 =>
                           /\ d <= 0 /\ d * job[w].steps < job[w].target[a] + job[w].steps
                           /\ d * job[w].steps > job[w].target[a] - job[w].steps
    BY DEF EvenSteps
  <2>1. /\ job[w].steps \in Nat \ {0} /\ at[w] \in Nat /\ job[w].target[a] \in Int
    BY <1>3 DEF ExactInv, InterpolationTypeOK, Jobs, Vectors
  <2>2. d \in Int BY <1>3, DeltasAreMoves
  <2>3. d = OnLine(job[w].target[a], at[w] + 1, job[w].steps)
              - OnLine(job[w].target[a], at[w], job[w].steps)
    BY <1>3 DEF Deltas, ExactInv, WorkersInStep
  <2>4. CASE job[w].target[a] >= 0
    <3>1. job[w].target[a] \in Nat BY <2>1, <2>4
    <3>2. /\ d >= 0 /\ d * job[w].steps > job[w].target[a] - job[w].steps
          /\ d * job[w].steps < job[w].target[a] + job[w].steps
      BY <2>1, <2>2, <2>3, <3>1, StepRight
    <3>3. job[w].target[a] <= 0 => d <= 0 BY <2>1, <2>2, <2>3, StepLeft
    <3> QED BY <3>2, <3>3
  <2>5. CASE job[w].target[a] < 0 BY <2>1, <2>2, <2>3, <2>5, StepLeft
  <2> QED BY <2>1, <2>4, <2>5
<1> QED BY <1>1, <1>2, <1>3 DEF InterpolationIsExact

(* interp_linear and interp_bezier: the moves add up to the target for every  *)
(* target, duration and pair of control points, and those of a straight move  *)
(* are even, although each is rounded to whole counts.                        *)
THEOREM InterpolationStaysExact == InterpolationSpec => []InterpolationIsExact
BY ExactInvariant, ExactIsEnough, PTL

-----------------------------------------------------------------------------
(* The packets that carry the moves *)

\* A number is made of its low byte and of what is above it.
LEMMA Bytes ==
  ASSUME NEW v \in Int
  PROVE  /\ Low(v) \in Int /\ High(v) \in Int /\ v \div 256 \in Int
         /\ v = 256 * (v \div 256) + Low(v)
         /\ Low(v) >= 0 /\ Low(v) < 256 /\ High(v) >= 0 /\ High(v) < 256
BY Z3 DEF Low, High

\* An i16 survives the way through its two bytes.
LEMMA Pair ==
  ASSUME NEW v \in Int, v <= 32767, v >= -32768
  PROVE  SignedPair(Low(v), High(v)) = v
<1> DEFINE h == v \div 256
<1>1. h \in Int /\ v = 256 * h + Low(v) /\ Low(v) \in Int /\ Low(v) >= 0 /\ Low(v) < 256 BY Bytes
<1>2. h >= -128 /\ h < 128 BY <1>1
<1>3. High(v) = IF h >= 0 THEN h ELSE h + 256 BY <1>1, <1>2 DEF High
<1> HIDE DEF h
<1> QED BY <1>1, <1>2, <1>3 DEF SignedPair

\* So does an i8 through its one.
LEMMA Byte ==
  ASSUME NEW v \in Int, v < 128, v >= -128
  PROVE  SignedByte(Low(v)) = v
<1>1. Low(v) = IF v >= 0 THEN v ELSE v + 256 BY Z3 DEF Low
<1> QED BY <1>1 DEF SignedByte

\* What is clamped fits.
LEMMA Clamps ==
  ASSUME NEW v \in Int
  PROVE  /\ ClampI16(v) \in Int /\ ClampI16(v) <= 32767 /\ ClampI16(v) >= -32768
         /\ ClampI8(v) \in Int /\ ClampI8(v) < 128 /\ ClampI8(v) >= -128
BY DEF ClampI8, ClampI16

\* The direct byte of a coordinate is never mistaken for a sentinel, and where
\* there is a sentinel the extended bytes have the coordinate.
LEMMA Axis ==
  ASSUME NEW v \in Int, v <= 32767, v >= -32768
  PROVE  FirmwareAxis(AxisLo(v), Low(v), High(v)) = v
<1>1. CASE v >= 127 BY <1>1, Pair DEF FirmwareAxis, AxisLo
<1>2. CASE v <= -128 BY <1>2, Pair DEF FirmwareAxis, AxisLo
<1>3. CASE v < 127 /\ v > -128
  <2>1. AxisLo(v) = Low(v) BY <1>3 DEF AxisLo
  <2>2. Low(v) = IF v >= 0 THEN v ELSE v + 256 BY <1>3, Z3 DEF Low
  <2>3. Low(v) # 127 /\ Low(v) # 128 BY <1>3, <2>2
  <2>4. SignedByte(Low(v)) = v BY <1>3, Byte
  <2> QED BY <2>1, <2>3, <2>4 DEF FirmwareAxis
<1> QED BY <1>1, <1>2, <1>3

(* build_packet: whatever is asked for, the firmware reads it, clamped to what *)
(* the packet has room for, in the short form as well as in the extended one.  *)
THEOREM FirmwareReads ==
  ASSUME NEW buttons, NEW x \in Int, NEW y \in Int, NEW wheel \in Int
  PROVE  FirmwareMove(BuildPacket(buttons, x, y, wheel))
           = [buttons |-> buttons, x |-> ClampI16(x), y |-> ClampI16(y), wheel |-> ClampI8(wheel)]
<1> DEFINE p == BuildPacket(buttons, x, y, wheel)
           xi == ClampI16(x)
           yi == ClampI16(y)
           wi == ClampI8(wheel)
<1>1. /\ p[2] = buttons /\ p[3] = AxisLo(xi) /\ p[4] = AxisLo(yi) /\ p[5] = Low(wi)
      /\ p[6] = Low(xi) /\ p[7] = High(xi) /\ p[8] = Low(yi) /\ p[9] = High(yi)
  BY DEF BuildPacket
<1>2. /\ xi \in Int /\ xi <= 32767 /\ xi >= -32768
      /\ yi \in Int /\ yi <= 32767 /\ yi >= -32768
      /\ wi \in Int /\ wi < 128 /\ wi >= -128
  BY Clamps
<1> HIDE DEF p, xi, yi, wi
<1>3. FirmwareAxis(p[3], p[6], p[7]) = xi BY <1>1, <1>2, Axis
<1>4. FirmwareAxis(p[4], p[8], p[9]) = yi BY <1>1, <1>2, Axis
<1>5. SignedByte(p[5]) = wi BY <1>1, <1>2, Byte
<1>6. FirmwareMove(p) = [buttons |-> buttons, x |-> xi, y |-> yi, wheel |-> wi]
  BY <1>1, <1>3, <1>4, <1>5 DEF FirmwareMove
<1> QED BY <1>6 DEF p, xi, yi, wi

-----------------------------------------------------------------------------
(* The cipher *)

\* What is left of a division.
LEMMA ModBounds ==
  ASSUME NEW a \in Int, NEW b \in Nat \ {0}
  PROVE  a % b \in Int /\ a % b >= 0 /\ a % b < b /\ a = b * (a \div b) + (a % b)
<1>1. a % b \in Int OBVIOUS
<1>2. a % b >= 0 BY Z3
<1>3. a % b < b BY Z3
<1>4. a = b * (a \div b) + (a % b) BY Z3
<1> QED BY <1>1, <1>2, <1>3, <1>4

\* A quotient and a rest below the divisor are the only ones.
LEMMA ModUnique ==
  ASSUME NEW a \in Int, NEW b \in Nat \ {0}, NEW q \in Int, NEW r \in Int, r >= 0, r < b,
         a = b * q + r
  PROVE  a % b = r
<1> DEFINE p == a \div b
           s == a % b
<1>1. b * q \in Int OBVIOUS
<1>2. s \in Int /\ s >= 0 /\ s < b /\ a = b * p + s BY ModBounds
<1>3. p \in Int BY DivBounds
<1> HIDE DEF p, s
<1>5. b * p \in Int BY <1>3
<1>6. ~(p < q)
  <2> SUFFICES ASSUME p < q PROVE FALSE OBVIOUS
  <2>1. b * p + b <= b * q BY <1>3, Below
  <2> QED BY <2>1, <1>1, <1>2, <1>5
<1>7. ~(q < p)
  <2> SUFFICES ASSUME q < p PROVE FALSE OBVIOUS
  <2>1. b * q + b <= b * p BY <1>3, Below
  <2> QED BY <2>1, <1>1, <1>2, <1>5
<1>8. p = q BY <1>3, <1>6, <1>7
<1>9. s = r BY <1>1, <1>2, <1>8
<1> QED BY <1>9 DEF s

\* The least of some numbers, which stands for induction here.
LEMMA Least ==
  ASSUME NEW T, T \subseteq Nat, T # {}
  PROVE  \E x \in T : \A y \in T : x <= y
<1> DEFINE R == OpToRel(<, Nat)
<1>1. IsWellFoundedOn(R, Nat) BY NatLessThanWellFounded
<1>2. ASSUME NEW x \in Nat, NEW y \in Nat, y < x PROVE <<y, x>> \in R BY <1>2 DEF OpToRel
<1> HIDE DEF R
<1>3. PICK x \in T : \A y \in T : ~ (<<y, x>> \in R) BY <1>1, WFMin
<1>4. ASSUME NEW y \in T PROVE x <= y
  <2>1. ~(y < x) BY <1>2, <1>3
  <2> QED BY <2>1
<1> QED BY <1>4

\* The powers of two that a word's width brings with it.
LEMMA WordSize ==
  /\ 2^WordBits \in Nat \ {0} /\ 2^(WordBits - 1) \in Nat \ {0}
  /\ 2^WordBits = 2 * 2^(WordBits - 1) /\ 2^WordBits > 19
<1>1. WordBits \in {8, 12, 16, 20, 24, 28, 32} BY EncryptionAssumption, Z3
<1>2. CASE WordBits = 8
  <2>1. WordBits - 1 = 7 BY <1>2
  <2>2. 2^WordBits = 2^8 /\ 2^(WordBits - 1) = 2^7 BY <1>2, <2>1, Zenon
  <2> QED BY <2>2
<1>3. CASE WordBits = 12
  <2>1. WordBits - 1 = 11 BY <1>3
  <2>2. 2^WordBits = 2^12 /\ 2^(WordBits - 1) = 2^11 BY <1>3, <2>1, Zenon
  <2> QED BY <2>2
<1>4. CASE WordBits = 16
  <2>1. WordBits - 1 = 15 BY <1>4
  <2>2. 2^WordBits = 2^16 /\ 2^(WordBits - 1) = 2^15 BY <1>4, <2>1, Zenon
  <2> QED BY <2>2
<1>5. CASE WordBits = 20
  <2>1. WordBits - 1 = 19 BY <1>5
  <2>2. 2^WordBits = 2^20 /\ 2^(WordBits - 1) = 2^19 BY <1>5, <2>1, Zenon
  <2> QED BY <2>2
<1>6. CASE WordBits = 24
  <2>1. WordBits - 1 = 23 BY <1>6
  <2>2. 2^WordBits = 2^24 /\ 2^(WordBits - 1) = 2^23 BY <1>6, <2>1, Zenon
  <2> QED BY <2>2
<1>7. CASE WordBits = 28
  <2>1. WordBits - 1 = 27 BY <1>7
  <2>2. 2^WordBits = 2^28 /\ 2^(WordBits - 1) = 2^27 BY <1>7, <2>1, Zenon
  <2> QED BY <2>2
<1>8. CASE WordBits = 32
  <2>1. WordBits - 1 = 31 BY <1>8
  <2>2. 2^WordBits = 2^32 /\ 2^(WordBits - 1) = 2^31 BY <1>8, <2>1, Zenon
  <2> QED BY <2>2
<1> QED BY <1>1, <1>2, <1>3, <1>4, <1>5, <1>6, <1>7, <1>8

\* Whatever its arguments are, each bit is one of its place or none.
LEMMA XorIsNat == ASSUME NEW a, NEW b PROVE Xor(a, b) \in Nat
<1>1. XorByte(a, b, 0) \in Nat BY DEF XorByte, XorBit
<1>2. XorByte(a, b, 8) \in Nat BY DEF XorByte, XorBit
<1>3. XorByte(a, b, 16) \in Nat BY DEF XorByte, XorBit
<1>4. XorByte(a, b, 24) \in Nat BY DEF XorByte, XorBit
<1> QED BY <1>1, <1>2, <1>3, <1>4 DEF Xor

\* What is wrapped is a word.
LEMMA WrapIsWord == ASSUME NEW v \in Int PROVE Wrap(v) \in Words
<1>1. v % 2^WordBits \in Int /\ v % 2^WordBits >= 0 /\ v % 2^WordBits < 2^WordBits
  BY WordSize, ModBounds
<1> QED BY <1>1, WordSize DEF Wrap, Words

\* What was added is taken away, with the wraps of both.
LEMMA WrapBack ==
  ASSUME NEW w \in Words, NEW m \in Int
  PROVE  Wrap(Wrap(w + m) - m) = w
<1> DEFINE b == 2^WordBits
           q == (w + m) \div b
           r == (w + m) % b
<1>1. b \in Nat \ {0} /\ w \in Int /\ w >= 0 /\ w < b BY WordSize DEF Words
<1>2. q \in Int /\ r \in Int /\ w + m = b * q + r
  <2>1. w + m \in Int BY <1>1
  <2> HIDE DEF b
  <2> QED BY <1>1, <2>1, DivBounds, ModBounds, Zenon
<1>3. Wrap(w + m) = r /\ Wrap(r - m) = (r - m) % b BY DEF Wrap
<1> HIDE DEF b, q, r
<1>4. r - m = b * (-q) + w
  <2>1. b * (-q) = -(b * q) /\ b * q \in Int BY <1>1, <1>2
  <2> QED BY <1>1, <1>2, <2>1
<1>5. -q \in Int BY <1>2
<1>6. r - m \in Int BY <1>2
<1>7. (r - m) % b = w BY <1>1, <1>4, <1>5, <1>6, ModUnique
<1> QED BY <1>3, <1>7

\* A word and its neighbours are three places in the block, or two.
LEMMA Neighbours ==
  ASSUME NEW i \in Nat \ {0}
  PROVE  /\ Word(i) \in 0..(ENC_WORDS - 1)
         /\ Before(i) \in 0..(ENC_WORDS - 1) /\ Before(i) # Word(i)
         /\ After(i) \in 0..(ENC_WORDS - 1) /\ After(i) # Word(i)
<1> DEFINE n == ENC_WORDS
           k == Word(i)
<1>1. n \in Nat \ {0} /\ n >= 2 BY EncryptionAssumption
<1>2. k \in Int /\ k >= 0 /\ k < n
  <2>1. i - 1 \in Int OBVIOUS
  <2> QED BY <1>1, <2>1, ModBounds DEF Word
<1>3. Before(i) = (k + n - 1) % n /\ After(i) = (k + 1) % n BY DEF Before, After
<1> HIDE DEF n, k
<1>4. (k + n - 1) % n = IF k = 0 THEN n - 1 ELSE k - 1
  <2>1. CASE k = 0
    <3>1. k + n - 1 = n * 0 + (n - 1) /\ n - 1 \in Int /\ n - 1 >= 0 /\ n - 1 < n
      BY <1>1, <2>1
    <3>2. k + n - 1 \in Int BY <1>1, <1>2
    <3>3. (k + n - 1) % n = n - 1 BY <1>1, <3>1, <3>2, ModUnique
    <3> QED BY <2>1, <3>3
  <2>2. CASE k # 0
    <3>1. k + n - 1 = n * 1 + (k - 1) /\ k - 1 \in Int /\ k - 1 >= 0 /\ k - 1 < n
      BY <1>1, <1>2, <2>2
    <3>2. k + n - 1 \in Int BY <1>1, <1>2
    <3>3. (k + n - 1) % n = k - 1 BY <1>1, <3>1, <3>2, ModUnique
    <3> QED BY <2>2, <3>3
  <2> QED BY <2>1, <2>2
<1>5. (k + 1) % n = IF k = n - 1 THEN 0 ELSE k + 1
  <2>1. CASE k = n - 1
    <3>1. k + 1 = n * 1 + 0 /\ k + 1 \in Int BY <1>1, <2>1
    <3>2. (k + 1) % n = 0 BY <1>1, <3>1, ModUnique
    <3> QED BY <2>1, <3>2
  <2>2. CASE k # n - 1
    <3>1. k + 1 = n * 0 + (k + 1) /\ k + 1 \in Int /\ k + 1 >= 0 /\ k + 1 < n
      BY <1>1, <1>2, <2>2
    <3>2. (k + 1) % n = k + 1 BY <1>1, <3>1, ModUnique
    <3> QED BY <2>2, <3>2
  <2> QED BY <2>1, <2>2
<1> QED BY <1>1, <1>2, <1>3, <1>4, <1>5 DEF n, k

\* An update changes one word by what depends on its neighbours alone, and is
\* undone by taking that away again.
LEMMA UpdateIsUndone ==
  ASSUME NEW key, NEW words \in Blocks, NEW i \in Nat \ {0}
  PROVE  Added(words, i, key) \in Blocks /\ Undone(Added(words, i, key), i, key) = words
<1> DEFINE k == Word(i) + 1
           m == MixAt(words, i, key)
           w == Added(words, i, key)
<1>1. /\ k \in 1..ENC_WORDS
      /\ Before(i) + 1 \in 1..ENC_WORDS /\ Before(i) + 1 # k
      /\ After(i) + 1 \in 1..ENC_WORDS /\ After(i) + 1 # k
  BY Neighbours, EncryptionAssumption
<1>2. m \in Int BY XorIsNat DEF MixAt, Mix
<1>3. words[k] \in Words /\ words[k] \in Int BY <1>1, WordSize DEF Blocks, Words
<1>4. w = [words EXCEPT ![k] = Wrap(words[k] + m)] BY DEF Added
<1>5. Wrap(words[k] + m) \in Words BY <1>2, <1>3, WrapIsWord
<1>6. w \in Blocks
  <2> HIDE DEF w, k, m
  <2> QED BY <1>1, <1>4, <1>5 DEF Blocks
<1>7. w[k] = Wrap(words[k] + m) BY <1>1, <1>4 DEF Blocks
<1>8. MixAt(w, i, key) = m
  <2>1. w[Before(i) + 1] = words[Before(i) + 1] /\ w[After(i) + 1] = words[After(i) + 1]
    BY <1>1, <1>4 DEF Blocks
  <2> QED BY <2>1 DEF MixAt
<1>9. Undone(w, i, key) = [w EXCEPT ![k] = Wrap(w[k] - MixAt(w, i, key))] BY DEF Undone
<1>10. Wrap(Wrap(words[k] + m) - m) = words[k] BY <1>2, <1>3, WrapBack
<1>11. Undone(w, i, key) = [w EXCEPT ![k] = words[k]] BY <1>7, <1>8, <1>9, <1>10
<1>12. [w EXCEPT ![k] = words[k]] = words
  <2> HIDE DEF w, k, m
  <2> QED BY <1>1, <1>4, <1>6 DEF Blocks
<1> QED BY <1>6, <1>11, <1>12

-----------------------------------------------------------------------------
(* A run of updates *)

\* f holds the block after each of the first n updates.
Follows(f, n, words, key) ==
  f[0] = words /\ \A i \in 1..n : f[i] = Added(f[i - 1], i, key)

\* Rounds times words.
LEMMA UpdatesIsNat == Updates \in Nat
BY EncryptionAssumption DEF Updates

\* However many updates there are, there is a run of them.
LEMMA RunsExist ==
  ASSUME NEW key, NEW words \in Blocks, NEW n \in Nat
  PROVE  \E f \in [0..n -> Blocks] : Follows(f, n, words, key)
<1> DEFINE T == {k \in Nat : ~\E f \in [0..k -> Blocks] : Follows(f, k, words, key)}
<1>1. SUFFICES ASSUME T # {} PROVE FALSE OBVIOUS
<1>2. PICK k \in T : \A j \in T : k <= j
  <2> HIDE DEF T
  <2>1. T \subseteq Nat BY DEF T
  <2> QED BY <1>1, <2>1, Least
<1>3. k \in Nat OBVIOUS
<1>4. k # 0
  <2>1. [i \in 0..0 |-> words] \in [0..0 -> Blocks] OBVIOUS
  <2>2. Follows([i \in 0..0 |-> words], 0, words, key) BY DEF Follows
  <2> QED BY <2>1, <2>2
<1>5. k - 1 \in Nat /\ k - 1 \notin T BY <1>2, <1>3, <1>4
<1>6. PICK f \in [0..(k - 1) -> Blocks] : Follows(f, k - 1, words, key) BY <1>5
<1> DEFINE g == [i \in 0..k |-> IF i < k THEN f[i] ELSE Added(f[k - 1], k, key)]
<1>7. Added(f[k - 1], k, key) \in Blocks
  <2>1. f[k - 1] \in Blocks BY <1>5
  <2> QED BY <1>3, <1>4, <2>1, UpdateIsUndone
<1>8. g \in [0..k -> Blocks] BY <1>3, <1>7
<1>9. Follows(g, k, words, key)
  <2>1. g[0] = words BY <1>3, <1>4, <1>6 DEF Follows
  <2>2. ASSUME NEW i \in 1..k PROVE g[i] = Added(g[i - 1], i, key)
    <3>1. g[i - 1] = f[i - 1] /\ i \in Nat BY <1>3
    <3>2. CASE i = k BY <1>3, <3>1, <3>2
    <3>3. CASE i < k
      <4>1. g[i] = f[i] /\ i \in 1..(k - 1) BY <1>3, <3>3
      <4>2. f[i] = Added(f[i - 1], i, key) BY <4>1, <1>6 DEF Follows
      <4> QED BY <3>1, <4>1, <4>2
    <3> QED BY <1>3, <3>2, <3>3
  <2> QED BY <2>1, <2>2 DEF Follows
<1> QED BY <1>8, <1>9

\* encrypt is such a run.
LEMMA EncryptRuns ==
  ASSUME NEW key, NEW words \in Blocks
  PROVE  \E f \in [0..Updates -> Blocks] :
           Follows(f, Updates, words, key) /\ Encrypt(words, key) = f[Updates]
<1> DEFINE U == Updates
           Runs(f) == f = [i \in 0..U |-> IF i = 0 THEN words ELSE Added(f[i - 1], i, key)]
           h == CHOOSE f : Runs(f)
<1>1. U \in Nat BY UpdatesIsNat
<1>2. Encrypt(words, key) = h[U] BY DEF Encrypt
<1> HIDE DEF U
<1>3. PICK f \in [0..U -> Blocks] : Follows(f, U, words, key) BY <1>1, RunsExist
<1>4. Runs(f)
  <2>1. f = [i \in 0..U |-> f[i]] OBVIOUS
  <2>2. ASSUME NEW i \in 0..U
        PROVE  f[i] = IF i = 0 THEN words ELSE Added(f[i - 1], i, key)
    BY <1>1, <1>3 DEF Follows
  <2> QED BY <2>1, <2>2
<1>5. Runs(h) BY <1>4
<1> HIDE DEF h
<1>6. h[0] = words /\ \A i \in 1..U : h[i] = Added(h[i - 1], i, key)
  <2>1. ASSUME NEW i \in 0..U
        PROVE  h[i] = IF i = 0 THEN words ELSE Added(h[i - 1], i, key)
    BY <1>5
  <2> QED BY <1>1, <2>1
<1>7. Follows(h, U, words, key) BY <1>6 DEF Follows
<1>8. ASSUME NEW i \in 0..U PROVE h[i] \in Blocks
  <2> DEFINE T == {k \in 0..U : h[k] \notin Blocks}
  <2>1. SUFFICES ASSUME T # {} PROVE FALSE OBVIOUS
  <2>2. PICK k \in T : \A j \in T : k <= j
    <3> HIDE DEF T
    <3>1. T \subseteq Nat BY <1>1 DEF T
    <3> QED BY <2>1, <3>1, Least
  <2>3. k # 0 BY <1>6
  <2>4. k - 1 \in 0..U /\ k - 1 \notin T /\ k \in 1..U BY <1>1, <2>2, <2>3
  <2>5. h[k - 1] \in Blocks /\ h[k] = Added(h[k - 1], k, key) /\ k \in Nat \ {0}
    BY <1>1, <1>6, <2>4
  <2>6. h[k] \in Blocks BY <2>5, UpdateIsUndone
  <2> QED BY <2>6
<1>9. h \in [0..U -> Blocks] BY <1>5, <1>8
<1> QED BY <1>2, <1>7, <1>9 DEF U

\* decrypt goes back along it.
LEMMA DecryptGoesBack ==
  ASSUME NEW key, NEW words \in Blocks,
         NEW f \in [0..Updates -> Blocks], Follows(f, Updates, words, key)
  PROVE  Decrypt(f[Updates], key) = words
<1> DEFINE U == Updates
           Back(g) == g = [i \in 0..U |-> IF i = U THEN f[U] ELSE Undone(g[i + 1], i + 1, key)]
           h == CHOOSE g : Back(g)
<1>1. U \in Nat BY UpdatesIsNat
<1>2. Decrypt(f[U], key) = h[0] BY DEF Decrypt
<1>3. f \in [0..U -> Blocks] /\ Follows(f, U, words, key) OBVIOUS
<1> HIDE DEF U
<1>4. ASSUME NEW i \in 0..U, i # U PROVE f[i] = Undone(f[i + 1], i + 1, key)
  <2>1. i + 1 \in 1..U /\ i + 1 \in Nat \ {0} /\ i + 1 - 1 = i BY <1>1, <1>4
  <2>2. f[i + 1] = Added(f[i], i + 1, key) BY <1>3, <2>1 DEF Follows
  <2>3. f[i] \in Blocks BY <1>3
  <2>4. Undone(Added(f[i], i + 1, key), i + 1, key) = f[i] BY <2>1, <2>3, UpdateIsUndone
  <2> QED BY <2>2, <2>4
<1>5. Back(f)
  <2>1. f = [i \in 0..U |-> f[i]] BY <1>3
  <2>2. ASSUME NEW i \in 0..U
        PROVE  f[i] = IF i = U THEN f[U] ELSE Undone(f[i + 1], i + 1, key)
    BY <1>4
  <2> QED BY <2>1, <2>2
<1>6. Back(h) BY <1>5
<1> HIDE DEF h
<1>7. ASSUME NEW i \in 0..U
      PROVE  h[i] = IF i = U THEN f[U] ELSE Undone(h[i + 1], i + 1, key)
  BY <1>6
<1>8. ASSUME NEW j \in 0..U PROVE h[U - j] = f[U - j]
  <2> DEFINE T == {k \in 0..U : h[U - k] # f[U - k]}
  <2>1. SUFFICES ASSUME T # {} PROVE FALSE OBVIOUS
  <2>2. PICK k \in T : \A l \in T : k <= l
    <3> HIDE DEF T
    <3>1. T \subseteq Nat BY <1>1 DEF T
    <3> QED BY <2>1, <3>1, Least
  <2>3. k # 0
    <3>1. h[U] = f[U] /\ U - 0 = U BY <1>1, <1>7
    <3> QED BY <3>1
  <2>4. k - 1 \in 0..U /\ k - 1 \notin T /\ U - k \in 0..U /\ U - k # U
        /\ U - (k - 1) = U - k + 1
    BY <1>1, <2>2, <2>3
  <2>5. h[U - k + 1] = f[U - k + 1] BY <2>4
  <2>6. h[U - k] = f[U - k] BY <1>4, <1>7, <2>4, <2>5
  <2> QED BY <2>6
<1>9. h[0] = f[0]
  <2>1. U \in 0..U /\ U - U = 0 BY <1>1
  <2> QED BY <1>8, <2>1
<1> QED BY <1>2, <1>3, <1>9 DEF Follows, U

(* encryption.rs: whatever is encrypted under a key is decrypted under it,    *)
(* for every block and key, and for every number of rounds.                   *)
THEOREM DecryptInverts ==
  ASSUME NEW words \in Blocks, NEW key
  PROVE  Encrypt(words, key) \in Blocks /\ Decrypt(Encrypt(words, key), key) = words
<1>1. PICK f \in [0..Updates -> Blocks] :
        Follows(f, Updates, words, key) /\ Encrypt(words, key) = f[Updates]
  BY EncryptRuns
<1>2. Updates \in 0..Updates BY UpdatesIsNat
<1> QED BY <1>1, <1>2, DecryptGoesBack

-----------------------------------------------------------------------------
(* The wire format *)

\* A signed field survives the way through its word.
LEMMA SignedBack ==
  ASSUME NEW v \in Ints
  PROVE  v \in Int /\ Wrap(v) \in Words /\ Signed(Wrap(v)) = v
<1> DEFINE b == 2^WordBits
           h == 2^(WordBits - 1)
<1>1. b \in Nat \ {0} /\ h \in Nat \ {0} /\ b = 2 * h BY WordSize
<1>2. v \in Int /\ -h <= v /\ v < h BY <1>1 DEF Ints
<1>3. Wrap(v) = v % b /\ Wrap(v) \in Words BY <1>2, WrapIsWord DEF Wrap
<1>4. \A w : Signed(w) = IF w >= h THEN w - b ELSE w BY DEF Signed
<1> HIDE DEF b, h
<1>5. CASE v >= 0
  <2>1. v = b * 0 + v /\ v < b BY <1>1, <1>2
  <2>2. v % b = v BY <1>1, <1>2, <1>5, <2>1, ModUnique
  <2>3. Wrap(v) = v BY <1>3, <2>2
  <2> QED BY <1>1, <1>2, <1>3, <1>4, <2>3
<1>6. CASE v < 0
  <2>1. v = b * (-1) + (v + b) /\ v + b \in Int /\ v + b >= 0 /\ v + b < b /\ v + b >= h
    BY <1>1, <1>2, <1>6
  <2>2. v % b = v + b BY <1>1, <1>2, <2>1, ModUnique
  <2>3. Wrap(v) = v + b BY <1>3, <2>2
  <2> QED BY <1>1, <1>2, <1>3, <1>4, <2>1, <2>3
<1> QED BY <1>2, <1>5, <1>6

\* No two commands have one code.
LEMMA CodesDiffer ==
  ASSUME NEW c \in DOMAIN Code
  PROVE  Code[c] \in 1..19 /\ cmd_name(Code[c]) = c
<1>1. Code[c] \in 1..19 BY DEF Code
<1>2. ASSUME NEW d \in DOMAIN Code, Code[d] = Code[c] PROVE d = c BY <1>2 DEF Code
<1> QED BY <1>1, <1>2 DEF cmd_name

\* What a client sends is a sequence of words.
LEMMA SentAreWords ==
  ASSUME NEW r \in Requests, NEW mac \in Macs, NEW n \in 0..(MaxDatagrams - 1)
  PROVE  ToWords(Header(mac, n, r.cmd), r.body) \in [1..18 -> Words]
<1> DEFINE h == Header(mac, n, r.cmd)
           first == <<h.mac, h.rand, h.indexpts, Code[h.cmd],
                      Wrap(r.body.button), Wrap(r.body.x), Wrap(r.body.y), Wrap(r.body.wheel)>>
<1>1. r.cmd \in DOMAIN Code /\ r.body \in Bodies BY TranslatorAssumption
<1>2. mac \in Words /\ n \in Words /\ n + 1 \in Words BY TranslatorAssumption, WordSize DEF Words
<1>3. Code[r.cmd] \in Words BY <1>1, CodesDiffer, WordSize DEF Words
<1>4. /\ Wrap(r.body.button) \in Words /\ Wrap(r.body.x) \in Words
      /\ Wrap(r.body.y) \in Words /\ Wrap(r.body.wheel) \in Words
      /\ \A k \in 1..10 : Wrap(r.body.point[k]) \in Words
  BY <1>1, SignedBack DEF Bodies
<1>5. h.mac = mac /\ h.rand = n /\ h.indexpts = n + 1 /\ h.cmd = r.cmd BY DEF Header
<1>6. ASSUME NEW i \in 1..8 PROVE first[i] \in Words
  <2> HIDE DEF h
  <2> QED BY <1>2, <1>3, <1>4, <1>5
<1>7. ToWords(h, r.body) = [i \in 1..18 |-> IF i > 8 THEN Wrap(r.body.point[i - 8]) ELSE first[i]]
  BY DEF ToWords, HeaderWords, BodyWords
<1> HIDE DEF first, h
<1>8. ASSUME NEW i \in 1..18
      PROVE  (IF i > 8 THEN Wrap(r.body.point[i - 8]) ELSE first[i]) \in Words
  <2>1. i > 8 => i - 8 \in 1..10 OBVIOUS
  <2>2. ~(i > 8) => i \in 1..8 OBVIOUS
  <2> QED BY <1>4, <1>6, <2>1, <2>2
<1> QED BY <1>7, <1>8 DEF h

\* What the daemon parses is what was put in, whatever the words are part of.
LEMMA HeaderIsParsed ==
  ASSUME NEW r \in Requests, NEW mac \in Macs, NEW n \in 0..(MaxDatagrams - 1), NEW w,
         \A i \in 1..4 : w[i] = ToWords(Header(mac, n, r.cmd), r.body)[i]
  PROVE  ParseHeader(w) = [Header(mac, n, r.cmd) EXCEPT !.cmd = Code[r.cmd]]
<1> DEFINE h == Header(mac, n, r.cmd)
           words == ToWords(h, r.body)
<1>1. h = [mac |-> mac, rand |-> n, indexpts |-> n + 1, cmd |-> r.cmd] BY DEF Header
<1>2. words[1] = h.mac /\ words[2] = h.rand /\ words[3] = h.indexpts /\ words[4] = Code[h.cmd]
  <2> HIDE DEF h
  <2> QED BY DEF ToWords, HeaderWords, BodyWords
<1>3. w[1] = words[1] /\ w[2] = words[2] /\ w[3] = words[3] /\ w[4] = words[4] OBVIOUS
<1> HIDE DEF h, words
<1>4. ParseHeader(w) = [mac |-> mac, rand |-> n, indexpts |-> n + 1, cmd |-> Code[r.cmd]]
  BY <1>1, <1>2, <1>3 DEF ParseHeader
<1> QED BY <1>1, <1>4 DEF h

\* The same for the body.
LEMMA BodyIsParsed ==
  ASSUME NEW r \in Requests, NEW mac \in Macs, NEW n \in 0..(MaxDatagrams - 1), NEW w,
         \A i \in 1..18 : w[i] = ToWords(Header(mac, n, r.cmd), r.body)[i]
  PROVE  ParseSoftMouse(w) = r.body
<1> DEFINE words == ToWords(Header(mac, n, r.cmd), r.body)
           m == r.body
<1>1. m \in Bodies BY TranslatorAssumption
<1>2. /\ words[5] = Wrap(m.button) /\ words[6] = Wrap(m.x) /\ words[7] = Wrap(m.y)
      /\ words[8] = Wrap(m.wheel)
      /\ \A i \in 1..10 : words[8 + i] = Wrap(m.point[i])
  <2> HIDE DEF m
  <2>1. ASSUME NEW i \in 1..10 PROVE 8 + i \in 1..18 /\ 8 + i > 8 /\ 8 + i - 8 = i OBVIOUS
  <2> QED BY <2>1 DEF ToWords, HeaderWords, BodyWords, m
<1>3. /\ w[5] = words[5] /\ w[6] = words[6] /\ w[7] = words[7] /\ w[8] = words[8]
      /\ \A i \in 1..10 : w[8 + i] = words[8 + i]
  OBVIOUS
<1> HIDE DEF words, m
<1>4. /\ m.button \in Ints /\ m.x \in Ints /\ m.y \in Ints /\ m.wheel \in Ints
      /\ m.point \in [1..10 -> Ints]
  BY <1>1 DEF Bodies
<1>5. /\ Signed(w[5]) = m.button /\ Signed(w[6]) = m.x /\ Signed(w[7]) = m.y
      /\ Signed(w[8]) = m.wheel
  BY <1>2, <1>3, <1>4, SignedBack
<1>6. ASSUME NEW i \in 1..10 PROVE Signed(w[8 + i]) = m.point[i]
  BY <1>2, <1>3, <1>4, SignedBack
<1>7. [i \in 1..10 |-> Signed(w[8 + i])] = m.point BY <1>4, <1>6
<1>8. m = [button |-> m.button, x |-> m.x, y |-> m.y, wheel |-> m.wheel, point |-> m.point]
  BY <1>1 DEF Bodies
<1>9. ParseSoftMouse(w) = [button |-> m.button, x |-> m.x, y |-> m.y, wheel |-> m.wheel,
                          point |-> m.point]
  BY <1>5, <1>7 DEF ParseSoftMouse
<1> QED BY <1>8, <1>9 DEF m

\* What is in n places is a sequence of that length.
LEMMA FunctionIsSeq ==
  ASSUME NEW S, NEW n \in Nat, NEW w \in [1..n -> S]
  PROVE  w \in Seq(S) /\ Len(w) = n
OBVIOUS

\* A plain datagram has the length of no encrypted one, and is a beginning of
\* what was meant.
LEMMA PlainForms ==
  ASSUME NEW words \in [1..18 -> Words], NEW w \in Plain(words)
  PROVE  /\ Len(w) \in {18, 4, 3} /\ ~is_encrypted_length(w)
         /\ \A i \in 1..Len(w) : w[i] = words[i]
<1>1. ENC_WORDS \in Nat /\ ENC_WORDS > 18
  BY TranslatorAssumption, EncryptionAssumption DEF HeaderWords, BodyWords
<1>2. words \in Seq(Words) /\ Len(words) = 18 BY FunctionIsSeq
<1>3. w = words => Len(w) = 18 /\ \A i \in 1..Len(w) : w[i] = words[i] BY <1>2
<1>4. ASSUME NEW k \in {3, 4}, w = SubSeq(words, 1, k)
      PROVE  Len(w) = k /\ \A i \in 1..k : w[i] = words[i]
  BY <1>2, <1>4
<1>5. w # words => w = SubSeq(words, 1, 4) \/ w = SubSeq(words, 1, 3)
  BY DEF Plain, HeaderWords
<1>6. Len(w) \in {18, 4, 3} BY <1>3, <1>4, <1>5
<1>7. \A i \in 1..Len(w) : w[i] = words[i] BY <1>3, <1>4, <1>5
<1>8. Len(w) # ENC_WORDS
  <2>1. \A l \in {18, 4, 3} : l # ENC_WORDS BY <1>1
  <2> QED BY <1>6, <2>1
<1> QED BY <1>6, <1>7, <1>8 DEF is_encrypted_length

\* An encrypted one has that length, and under its own key it is what was meant
\* with zeros after it.
LEMMA EncryptedForm ==
  ASSUME NEW words \in [1..18 -> Words], NEW mac
  PROVE  /\ Len(Encrypted(words, mac)) = ENC_WORDS
         /\ is_encrypted_length(Encrypted(words, mac))
         /\ Decrypt(Encrypted(words, mac), KeyFromMac(mac)) = Pad(words)
         /\ Len(Pad(words)) = ENC_WORDS
         /\ \A i \in 1..18 : Pad(words)[i] = words[i]
<1>1. ENC_WORDS \in Nat /\ ENC_WORDS > 18
  BY TranslatorAssumption, EncryptionAssumption DEF HeaderWords, BodyWords
<1>2. Len(words) = 18 BY FunctionIsSeq
<1>3. Pad(words) \in Blocks
  <2>1. 0 \in Words BY WordSize DEF Words
  <2>2. ASSUME NEW i \in 1..ENC_WORDS PROVE (IF i <= Len(words) THEN words[i] ELSE 0) \in Words
    BY <1>2, <2>1
  <2> QED BY <2>2 DEF Pad, Blocks
<1>4. \A i \in 1..18 : Pad(words)[i] = words[i] BY <1>1, <1>2 DEF Pad
<1>5. /\ Encrypted(words, mac) \in Blocks
      /\ Decrypt(Encrypted(words, mac), KeyFromMac(mac)) = Pad(words)
  BY <1>3, DecryptInverts DEF Encrypted
<1>6. ASSUME NEW b \in Blocks PROVE Len(b) = ENC_WORDS
  BY <1>1, FunctionIsSeq DEF Blocks
<1> QED BY <1>3, <1>4, <1>5, <1>6 DEF is_encrypted_length

\* What our client sent is worked on as it was meant, plain or encrypted.
LEMMA OursIsReceived ==
  ASSUME wire # None, WireIsMeant, meant.header.mac = expected_mac, NEW w,
         w = IF is_encrypted_length(wire) THEN Decrypt(wire, KeyFromMac(expected_mac)) ELSE wire
  PROVE  /\ Len(w) \in Nat
         /\ Len(w) >= 4 =>
              /\ ParseHeader(w).mac = expected_mac
              /\ ParseHeader(w) = [meant.header EXCEPT !.cmd = Code[meant.header.cmd]]
         /\ Len(w) >= 18 => ParseSoftMouse(w) = meant.body
         /\ Len(wire) >= 4 => Len(w) >= 4
         /\ Len(wire) >= 18 => Len(w) >= 18
<1>1. PICK r \in Requests, mac \in Macs, n \in 0..(MaxDatagrams - 1) :
        /\ meant = [header |-> Header(mac, n, r.cmd), body |-> r.body]
        /\ \/ wire \in Plain(ToWords(Header(mac, n, r.cmd), r.body))
           \/ wire = Encrypted(ToWords(Header(mac, n, r.cmd), r.body), mac)
  BY DEF WireIsMeant
<1> DEFINE words == ToWords(Header(mac, n, r.cmd), r.body)
<1>2. words \in [1..18 -> Words] BY SentAreWords
<1>3. /\ meant.header = Header(mac, n, r.cmd) /\ meant.body = r.body
      /\ meant.header.mac = mac /\ meant.header.cmd = r.cmd /\ mac = expected_mac
  BY <1>1 DEF Header
<1>4. [Header(mac, n, r.cmd) EXCEPT !.cmd = Code[r.cmd]].mac = mac BY DEF Header
<1>5. \A i \in 1..4 : i \in 1..18 OBVIOUS
<1>6. CASE wire \in Plain(words)
  <2>1. Len(wire) \in {18, 4, 3} /\ ~is_encrypted_length(wire)
        /\ \A i \in 1..Len(wire) : wire[i] = words[i]
    BY <1>2, <1>6, PlainForms
  <2>2. w = wire /\ Len(w) \in Nat BY <2>1
  <2>3. Len(w) >= 4 => ParseHeader(w) = [Header(mac, n, r.cmd) EXCEPT !.cmd = Code[r.cmd]]
    <3> SUFFICES ASSUME Len(w) >= 4 PROVE \A i \in 1..4 : w[i] = words[i] BY HeaderIsParsed
    <3>1. \A i \in 1..4 : i \in 1..Len(w) BY <2>1, <2>2
    <3> QED BY <2>1, <2>2, <3>1
  <2>4. Len(w) >= 18 => ParseSoftMouse(w) = r.body
    <3> SUFFICES ASSUME Len(w) >= 18 PROVE \A i \in 1..18 : w[i] = words[i] BY BodyIsParsed
    <3>1. \A i \in 1..18 : i \in 1..Len(w) BY <2>1, <2>2
    <3> QED BY <2>1, <2>2, <3>1
  <2> HIDE DEF words
  <2>5. Len(w) >= 4 => ParseHeader(w).mac = mac BY <1>4, <2>3
  <2> QED BY <1>3, <2>2, <2>3, <2>4, <2>5
<1>7. CASE wire = Encrypted(words, mac)
  <2>1. /\ Len(wire) = ENC_WORDS /\ is_encrypted_length(wire)
        /\ Decrypt(wire, KeyFromMac(mac)) = Pad(words) /\ Len(Pad(words)) = ENC_WORDS
        /\ \A i \in 1..18 : Pad(words)[i] = words[i]
    BY <1>2, <1>7, EncryptedForm
  <2>2. w = Pad(words) /\ Len(w) = ENC_WORDS BY <1>3, <2>1
  <2>3. ENC_WORDS \in Nat /\ ENC_WORDS > 18
    BY TranslatorAssumption, EncryptionAssumption DEF HeaderWords, BodyWords
  <2>4. ParseHeader(w) = [Header(mac, n, r.cmd) EXCEPT !.cmd = Code[r.cmd]]
    <3>1. \A i \in 1..4 : w[i] = words[i] BY <1>5, <2>1, <2>2
    <3> QED BY <3>1, HeaderIsParsed
  <2>5. ParseSoftMouse(w) = r.body
    <3>1. \A i \in 1..18 : w[i] = words[i] BY <2>1, <2>2
    <3> QED BY <3>1, BodyIsParsed
  <2> HIDE DEF words
  <2>6. ParseHeader(w).mac = mac BY <1>4, <2>4
  <2> QED BY <1>3, <2>2, <2>3, <2>4, <2>5, <2>6
<1> QED BY <1>1, <1>6, <1>7

\* What another client sent has not our MAC in it, or is too short to have one.
LEMMA ForeignIsDropped ==
  ASSUME wire # None, WireIsMeant, meant.header.mac # expected_mac, NEW w,
         w = IF is_encrypted_length(wire) THEN Decrypt(wire, KeyFromMac(expected_mac)) ELSE wire
  PROVE  Len(w) < 4 \/ ParseHeader(w).mac # expected_mac
<1>1. PICK r \in Requests, mac \in Macs, n \in 0..(MaxDatagrams - 1) :
        /\ meant = [header |-> Header(mac, n, r.cmd), body |-> r.body]
        /\ \/ wire \in Plain(ToWords(Header(mac, n, r.cmd), r.body))
           \/ wire = Encrypted(ToWords(Header(mac, n, r.cmd), r.body), mac)
  BY DEF WireIsMeant
<1> DEFINE words == ToWords(Header(mac, n, r.cmd), r.body)
<1>2. words \in [1..18 -> Words] BY SentAreWords
<1>3. mac # expected_mac BY <1>1 DEF Header
<1>4. words[1] = mac BY DEF ToWords, Header, HeaderWords, BodyWords
<1>5. CASE wire \in Plain(words)
  <2>1. Len(wire) \in {18, 4, 3} /\ ~is_encrypted_length(wire)
        /\ \A i \in 1..Len(wire) : wire[i] = words[i]
    BY <1>2, <1>5, PlainForms
  <2>2. 1 \in 1..Len(wire)
    <3>1. \A l \in {18, 4, 3} : 1 \in 1..l OBVIOUS
    <3> QED BY <2>1, <3>1
  <2>3. w[1] = mac BY <1>4, <2>1, <2>2
  <2> QED BY <1>3, <2>3 DEF ParseHeader
<1>6. CASE wire = Encrypted(words, mac)
  <2>1. w = Decrypt(wire, KeyFromMac(expected_mac)) BY <1>2, <1>6, EncryptedForm
  <2>2. w[1] # expected_mac BY <1>3, <1>6, <2>1, ForeignStaysForeign
  <2> QED BY <2>2 DEF ParseHeader
<1> QED BY <1>1, <1>5, <1>6

\* What was meant can be dispatched.
LEMMA MeantIsKnown ==
  ASSUME wire # None, WireIsMeant
  PROVE  meant.header.cmd \in DOMAIN Code /\ meant.body \in Bodies
<1>1. PICK r \in Requests, mac \in Macs, n \in 0..(MaxDatagrams - 1) :
        meant = [header |-> Header(mac, n, r.cmd), body |-> r.body]
  BY DEF WireIsMeant
<1>2. r.cmd \in DOMAIN Code /\ r.body \in Bodies BY TranslatorAssumption
<1>3. meant.header.cmd = r.cmd /\ meant.body = r.body BY <1>1 DEF Header
<1> QED BY <1>2, <1>3

-----------------------------------------------------------------------------
(* The translator *)

\* The header that was meant, and the one that is parsed from it.
LEMMA MeantHeader ==
  ASSUME wire # None, WireIsMeant
  PROVE  LET h == meant.header
             parsed == [h EXCEPT !.cmd = Code[h.cmd]]
         IN /\ h = [mac |-> h.mac, rand |-> h.rand, indexpts |-> h.indexpts, cmd |-> h.cmd]
            /\ parsed = [mac |-> h.mac, rand |-> h.rand, indexpts |-> h.indexpts,
                         cmd |-> Code[h.cmd]]
            /\ parsed # None
<1>1. PICK r \in Requests, mac \in Macs, n \in 0..(MaxDatagrams - 1) :
        meant = [header |-> Header(mac, n, r.cmd), body |-> r.body]
  BY DEF WireIsMeant
<1>2. mac \in Words /\ n \in Words /\ n + 1 \in Words BY TranslatorAssumption, WordSize DEF Words
<1>3. Code[r.cmd] \in Words
  <2>1. r.cmd \in DOMAIN Code BY TranslatorAssumption
  <2> QED BY <2>1, CodesDiffer, WordSize DEF Words
<1>4. meant.header = [mac |-> mac, rand |-> n, indexpts |-> n + 1, cmd |-> r.cmd]
  BY <1>1 DEF Header
<1>5. [mac |-> mac, rand |-> n, indexpts |-> n + 1, cmd |-> Code[r.cmd]] # None
  BY <1>2, <1>3, TranslatorAssumption
<1> QED BY <1>4, <1>5

\* What the firmware reads is added to what was asked for on both sides.
LEMMA EmitAgrees ==
  ASSUME FirmwareReadsTheMoves, NEW buttons,
         NEW x \in Int, NEW y \in Int, NEW wheel \in Int, Emit(buttons, x, y, wheel)
  PROVE  FirmwareReadsTheMoves'
BY FirmwareReads DEF FirmwareReadsTheMoves, Emit

\* The arms of dispatch keep the workers on their lines and the firmware in
\* step, for every body that can be parsed.
LEMMA MouseKeeps ==
  ASSUME ExactInv, FirmwareReadsTheMoves, NEW cmd, NEW m \in Bodies, Mouse(cmd, m)
  PROVE  ExactInv' /\ FirmwareReadsTheMoves'
<1>1. /\ m.x \in Int /\ m.y \in Int /\ m.wheel \in Int
      /\ \A i \in 1..10 : m.point[i] \in Int
  BY WordSize DEF Bodies, Ints
<1> DEFINE target == [x |-> m.x, y |-> m.y]
           first == [x |-> m.point[2], y |-> m.point[3]]
           second == [x |-> m.point[4], y |-> m.point[5]]
<1>2. target \in Vectors(Int) /\ first \in Vectors(Int) /\ second \in Vectors(Int)
  <2>1. ASSUME NEW a \in Int, NEW b \in Int PROVE [x |-> a, y |-> b] \in Vectors(Int)
    BY DEF Vectors, Axes
  <2> QED BY <1>1, <2>1
<1>3. Steps(m.point[1]) \in Nat \ {0} BY <1>1, StepsIsPositive
<1>4. UNCHANGED workerVars => ExactInv'
  BY DEF workerVars, ExactInv, InterpolationTypeOK, WorkersInStep
<1>5. Silent => FirmwareReadsTheMoves' BY DEF Silent, FirmwareReadsTheMoves
<1>6. CASE /\ UNCHANGED workerVars
           /\ \E x \in Int, y \in Int, wheel \in Int : Emit(m.button % 256, x, y, wheel)
  BY <1>4, <1>6, EmitAgrees
<1>7. CASE Silent /\ \E w \in Workers : SpawnAutomove(w, target, m.point[1])
  <2>1. PICK w \in Workers : SpawnAutomove(w, target, m.point[1]) BY <1>7
  <2> DEFINE j == [kind |-> "linear", steps |-> Steps(m.point[1]), target |-> target,
                   first |-> Origin, second |-> Origin]
  <2>2. SpawnWorker(w, j) BY <2>1 DEF SpawnAutomove
  <2> HIDE DEF target
  <2>3. j \in Jobs /\ j.steps > 0 /\ j.kind # "none" BY <1>2, <1>3, IdleIsAJob DEF Jobs
  <2>4. ExactInv' BY <2>2, <2>3, SpawnKeeps
  <2> QED BY <1>5, <1>7, <2>4
<1>8. CASE /\ Silent
           /\ \E w \in Workers : SpawnBezier(w, target, m.point[1], first, second)
  <2>1. PICK w \in Workers : SpawnBezier(w, target, m.point[1], first, second) BY <1>8
  <2> DEFINE j == [kind |-> "bezier", steps |-> Steps(m.point[1]), target |-> target,
                   first |-> first, second |-> second]
  <2>2. SpawnWorker(w, j) BY <2>1 DEF SpawnBezier
  <2> HIDE DEF target, first, second
  <2>3. j \in Jobs /\ j.steps > 0 /\ j.kind # "none" BY <1>2, <1>3 DEF Jobs
  <2>4. ExactInv' BY <2>2, <2>3, SpawnKeeps
  <2> QED BY <1>5, <1>8, <2>4
<1>9. /\ ClampI16(m.x) \in Int /\ ClampI16(m.y) \in Int /\ ClampI8(m.wheel) \in Int /\ 0 \in Int
  BY <1>1, Clamps
<1>10. CASE cmd = "mouse_move" BY <1>6, <1>9, <1>10 DEF Mouse
<1>11. CASE cmd \in {"mouse_left", "mouse_right", "mouse_middle"} BY <1>6, <1>9, <1>11 DEF Mouse
<1>12. CASE cmd = "mouse_wheel" BY <1>6, <1>9, <1>12 DEF Mouse
<1>13. CASE cmd = "mouse_automove" BY <1>7, <1>13 DEF Mouse
<1>14. CASE cmd = "bezier_move" BY <1>8, <1>14 DEF Mouse
<1> QED BY <1>10, <1>11, <1>12, <1>13, <1>14 DEF Mouse

\* A command without a body moves nothing.
LEMMA DispatchKeeps ==
  ASSUME ExactInv, FirmwareReadsTheMoves, NEW cmd, NEW w,
         HasBody(w) => ParseSoftMouse(w) \in Bodies, Dispatch(cmd, w)
  PROVE  ExactInv' /\ FirmwareReadsTheMoves'
<1>1. UNCHANGED workerVars => ExactInv'
  BY DEF workerVars, ExactInv, InterpolationTypeOK, WorkersInStep
<1>2. Silent \/ UNCHANGED deviceVars => FirmwareReadsTheMoves'
  BY DEF Silent, deviceVars, FirmwareReadsTheMoves
<1>3. CASE HasBody(w) /\ Mouse(cmd, ParseSoftMouse(w)) BY <1>3, MouseKeeps
<1>4. CASE (Silent \/ UNCHANGED deviceVars) /\ UNCHANGED workerVars BY <1>1, <1>2, <1>4
<1> QED BY <1>3, <1>4 DEF Dispatch

\* A worker's move, and its step with the packet that it sends.
LEMMA WorkerKeeps ==
  ASSUME ExactInv, FirmwareReadsTheMoves, NEW w \in Workers, Worker(w)
  PROVE  ExactInv' /\ FirmwareReadsTheMoves'
<1>1. CASE WorkerEnds(w) /\ Silent
  BY <1>1, EndKeeps DEF Silent, FirmwareReadsTheMoves
<1>2. ASSUME at[w] < job[w].steps, NEW d \in Moves(w), StepBy(w, d),
             Emit(mask, ClampI16(d.x), ClampI16(d.y), 0)
      PROVE  ExactInv' /\ FirmwareReadsTheMoves'
  <2>1. WorkerStep(w) BY <1>2 DEF WorkerStep
  <2>2. d.x \in Int /\ d.y \in Int
    <3>1. "x" \in Axes /\ "y" \in Axes BY DEF Axes
    <3>2. d["x"] \in Int /\ d["y"] \in Int BY <1>2, <3>1, DeltasAreMoves DEF Moves
    <3> QED BY <3>2
  <2>3. ClampI16(d.x) \in Int /\ ClampI16(d.y) \in Int /\ 0 \in Int BY <2>2, Clamps
  <2> QED BY <1>2, <2>1, <2>3, StepKeeps, EmitAgrees
<1> QED BY <1>1, <1>2 DEF Worker

\* One datagram: it is dropped, or dispatched as it was meant.
LEMMA PacketKeeps == TranslatorInv /\ handle_packet => TranslatorInv'
<1> SUFFICES ASSUME TranslatorInv, handle_packet PROVE TranslatorInv' OBVIOUS
<1> USE DEF TranslatorInv
<1> DEFINE w == IF is_encrypted_length(wire)
                THEN Decrypt(wire, KeyFromMac(expected_mac)) ELSE wire
           header == ParseHeader(w)
           cmd == IF header.cmd \in {Code[c] : c \in DOMAIN Code}
                  THEN cmd_name(header.cmd) ELSE "unknown"
           body == IF HasBody(w) THEN ParseSoftMouse(w) ELSE None
<1>1. /\ wire # None /\ wire' = None /\ meant' = meant /\ count' = count
      /\ IF Len(w) < 4 \/ header.mac # expected_mac
         THEN UNCHANGED <<heard, reply, deviceVars, workerVars>>
         ELSE /\ heard' = [header |-> [header EXCEPT !.cmd = cmd], body |-> body]
              /\ reply' = header
              /\ Dispatch(cmd, w)
  BY DEF handle_packet, HeaderWords
<1>2. WireIsMeant' /\ (count \in 0..MaxDatagrams)' BY <1>1 DEF WireIsMeant
<1>3. meant.header.cmd \in DOMAIN Code /\ meant.body \in Bodies BY <1>1, MeantIsKnown
<1>4. HasBody(w) <=> Len(w) >= 18 BY DEF HasBody, HeaderWords, BodyWords
<1>5. CASE Len(w) < 4 \/ header.mac # expected_mac
  <2> HIDE DEF w, header
  <2>1. UNCHANGED <<heard, reply, deviceVars, workerVars>> BY <1>1, <1>5
  <2>2. ExactInv' BY <2>1 DEF workerVars, ExactInv, InterpolationTypeOK, WorkersInStep
  <2>3. FirmwareReadsTheMoves' BY <2>1 DEF deviceVars, FirmwareReadsTheMoves
  <2>4. HeardAsMeant' BY <1>1, <2>1 DEF HeardAsMeant
  <2> QED BY <1>2, <2>2, <2>3, <2>4
<1>6. CASE ~(Len(w) < 4 \/ header.mac # expected_mac)
  <2>1. /\ heard' = [header |-> [header EXCEPT !.cmd = cmd], body |-> body]
        /\ reply' = header /\ Dispatch(cmd, w)
    BY <1>1, <1>6
  <2>2. meant.header.mac = expected_mac BY <1>1, <1>6, ForeignIsDropped
  <2>3. /\ Len(w) \in Nat
        /\ Len(w) >= 4 => header = [meant.header EXCEPT !.cmd = Code[meant.header.cmd]]
        /\ Len(w) >= 18 => ParseSoftMouse(w) = meant.body
    BY <1>1, <2>2, OursIsReceived
  <2>4. /\ meant.header.mac = expected_mac
        /\ header = [meant.header EXCEPT !.cmd = Code[meant.header.cmd]]
        /\ HasBody(w) => ParseSoftMouse(w) = meant.body
    BY <1>4, <1>6, <2>2, <2>3
  <2>5. /\ meant.header = [mac |-> meant.header.mac, rand |-> meant.header.rand,
                           indexpts |-> meant.header.indexpts, cmd |-> meant.header.cmd]
        /\ header = [mac |-> meant.header.mac, rand |-> meant.header.rand,
                     indexpts |-> meant.header.indexpts, cmd |-> Code[meant.header.cmd]]
    BY <1>1, <2>4, MeantHeader
  <2>6. cmd = meant.header.cmd
    <3>1. header.cmd = Code[meant.header.cmd] BY <2>5
    <3>2. cmd_name(header.cmd) = meant.header.cmd BY <1>3, <3>1, CodesDiffer
    <3> QED BY <1>3, <3>1, <3>2
  <2>7. body \in {meant.body, None} /\ (HasBody(w) => ParseSoftMouse(w) \in Bodies)
    BY <1>3, <2>4
  <2> HIDE DEF w, header, cmd, body
  <2>8. [header EXCEPT !.cmd = cmd] = meant.header BY <2>5, <2>6
  <2>9. heard'.header = meant.header /\ heard'.body = body BY <2>1, <2>8
  <2>10. HeardAsMeant' BY <1>1, <2>1, <2>4, <2>7, <2>9 DEF HeardAsMeant
  <2>11. ExactInv' /\ FirmwareReadsTheMoves' BY <2>1, <2>7, DispatchKeeps
  <2> QED BY <1>2, <2>10, <2>11
<1> QED BY <1>5, <1>6

\* A client sends one form of what it means.
LEMMA SendIsMeant ==
  ASSUME count \in 0..MaxDatagrams, Send
  PROVE  WireIsMeant' /\ (count \in 0..MaxDatagrams)'
<1>1. count' = count + 1 /\ count < MaxDatagrams BY DEF Send
<1>2. count \in 0..(MaxDatagrams - 1) /\ (count \in 0..MaxDatagrams)'
  BY <1>1, TranslatorAssumption
<1>3. PICK r \in Requests, mac \in Macs :
        LET words == ToWords(Header(mac, count, r.cmd), r.body) IN
          /\ wire' \in Plain(words) \/ wire' = Encrypted(words, mac)
          /\ meant' = [header |-> Header(mac, count, r.cmd), body |-> r.body]
  BY DEF Send
<1> QED BY <1>2, <1>3 DEF WireIsMeant

\* A datagram that is sent takes the place of the last one.
LEMMA SendKeeps == TranslatorInv /\ Send => TranslatorInv'
<1> SUFFICES ASSUME TranslatorInv, Send PROVE TranslatorInv' OBVIOUS
<1> USE DEF TranslatorInv
<1>1. heard' = None /\ UNCHANGED deviceVars /\ UNCHANGED workerVars BY DEF Send
<1>2. ExactInv' BY <1>1 DEF workerVars, ExactInv, InterpolationTypeOK, WorkersInStep
<1>3. FirmwareReadsTheMoves' /\ HeardAsMeant'
  BY <1>1 DEF deviceVars, FirmwareReadsTheMoves, HeardAsMeant
<1>4. WireIsMeant' /\ (count \in 0..MaxDatagrams)' BY SendIsMeant
<1> QED BY <1>2, <1>3, <1>4

(* The whole of the model: the workers are on their lines, the firmware reads  *)
(* what it was asked for, and what is dispatched is what was meant.            *)
THEOREM TranslatorInvariant == Spec => []TranslatorInv
<1>1. Init => TranslatorInv
  <2> SUFFICES ASSUME Init PROVE TranslatorInv OBVIOUS
  <2>1. ExactInv BY InitHolds DEF Init
  <2>2. FirmwareReadsTheMoves /\ HeardAsMeant /\ WireIsMeant
    BY DEF Init, FirmwareReadsTheMoves, HeardAsMeant, WireIsMeant
  <2>3. count \in 0..MaxDatagrams BY TranslatorAssumption DEF Init
  <2> QED BY <2>1, <2>2, <2>3 DEF TranslatorInv
<1>2. TranslatorInv /\ [Next]_vars => TranslatorInv'
  <2> SUFFICES ASSUME TranslatorInv, [Next]_vars PROVE TranslatorInv' OBVIOUS
  <2>1. CASE Send BY <2>1, SendKeeps
  <2>2. CASE handle_packet BY <2>2, PacketKeeps
  <2>3. ASSUME NEW w \in Workers, Worker(w) PROVE TranslatorInv'
    <3>1. ExactInv' /\ FirmwareReadsTheMoves' BY <2>3, WorkerKeeps DEF TranslatorInv
    <3>2. UNCHANGED netVars BY <2>3 DEF Worker
    <3>3. HeardAsMeant' /\ WireIsMeant' /\ (count \in 0..MaxDatagrams)'
      BY <3>2 DEF netVars, TranslatorInv, HeardAsMeant, WireIsMeant
    <3> QED BY <3>1, <3>3 DEF TranslatorInv
  <2>4. CASE UNCHANGED vars
    <3>1. UNCHANGED netVars /\ UNCHANGED deviceVars /\ UNCHANGED workerVars BY <2>4 DEF vars
    <3>2. ExactInv' BY <3>1 DEF workerVars, TranslatorInv, ExactInv, InterpolationTypeOK,
                               WorkersInStep
    <3>3. /\ FirmwareReadsTheMoves' /\ HeardAsMeant' /\ WireIsMeant'
          /\ (count \in 0..MaxDatagrams)'
      BY <3>1 DEF netVars, deviceVars, TranslatorInv, FirmwareReadsTheMoves, HeardAsMeant,
                  WireIsMeant
    <3> QED BY <3>2, <3>3 DEF TranslatorInv
  <2> QED BY <2>1, <2>2, <2>3, <2>4 DEF Next
<1> QED BY <1>1, <1>2, PTL DEF Spec

(* handle_packet: a datagram that is dispatched is what a client with this    *)
(* device's MAC meant, plain or encrypted, down to what the firmware reads.   *)
THEOREM MeantStaysWhatMoves == Spec => []MeantIsWhatMoves
<1>1. TranslatorInv => MeantIsWhatMoves BY DEF TranslatorInv, MeantIsWhatMoves
<1> QED BY <1>1, TranslatorInvariant, PTL

(* The same for the workers that dispatch starts and that send beside it.     *)
THEOREM WorkersStayExact == Spec => []InterpolationIsExact
<1>1. TranslatorInv => InterpolationIsExact BY ExactIsEnough DEF TranslatorInv
<1> QED BY <1>1, TranslatorInvariant, PTL

\* What is on its way is what was meant, whoever sent it; this takes nothing of
\* ForeignStaysForeign.
LEMMA WireStaysMeant == Spec => []WireIsMeant
<1> DEFINE Inv == WireIsMeant /\ count \in 0..MaxDatagrams
<1>1. Init => Inv BY TranslatorAssumption DEF Init, WireIsMeant
<1>2. Inv /\ [Next]_vars => Inv'
  <2> SUFFICES ASSUME Inv, [Next]_vars PROVE Inv' OBVIOUS
  <2>1. CASE Send BY <2>1, SendIsMeant
  <2>2. CASE handle_packet BY <2>2 DEF handle_packet, WireIsMeant
  <2>3. ASSUME UNCHANGED netVars PROVE Inv' BY <2>3 DEF netVars, WireIsMeant
  <2> QED BY <2>1, <2>2, <2>3 DEF Next, Worker, vars
<1> QED BY <1>1, <1>2, PTL DEF Spec

(* No datagram of a client with this device's MAC is dropped, and a body that *)
(* came whole is dispatched whole, however it was encrypted.                  *)
THEOREM OurClientStaysHeard == Spec => OurClientIsHeard
<1> DEFINE Heard == handle_packet /\ meant.header.mac = expected_mac /\ Len(wire) >= HeaderWords =>
                      /\ reply' # None
                      /\ Len(wire) >= HeaderWords + BodyWords => heard'.body = meant.body
<1>1. WireIsMeant => Heard
  <2> SUFFICES ASSUME WireIsMeant, handle_packet, meant.header.mac = expected_mac, Len(wire) >= 4
               PROVE  reply' # None /\ (Len(wire) >= 18 => heard'.body = meant.body)
    BY DEF HeaderWords, BodyWords
  <2> DEFINE w == IF is_encrypted_length(wire)
                  THEN Decrypt(wire, KeyFromMac(expected_mac)) ELSE wire
             header == ParseHeader(w)
             cmd == IF header.cmd \in {Code[c] : c \in DOMAIN Code}
                    THEN cmd_name(header.cmd) ELSE "unknown"
             body == IF HasBody(w) THEN ParseSoftMouse(w) ELSE None
  <2>1. wire # None /\ WireIsMeant BY DEF handle_packet
  <2>2. /\ Len(w) >= 4 /\ header.mac = expected_mac
        /\ header = [meant.header EXCEPT !.cmd = Code[meant.header.cmd]]
        /\ Len(w) >= 18 => ParseSoftMouse(w) = meant.body
        /\ Len(wire) >= 18 => Len(w) >= 18
    BY <2>1, OursIsReceived
  <2>3. Len(w) \in Nat BY <2>1, OursIsReceived
  <2>4. IF Len(w) < 4 \/ header.mac # expected_mac
        THEN UNCHANGED <<heard, reply, deviceVars, workerVars>>
        ELSE /\ heard' = [header |-> [header EXCEPT !.cmd = cmd], body |-> body]
             /\ reply' = header
    BY DEF handle_packet, HeaderWords
  <2>5. header # None BY <2>1, <2>2, MeantHeader
  <2>6. Len(w) >= 18 => body = meant.body BY <2>2 DEF HasBody, HeaderWords, BodyWords
  <2> HIDE DEF w, header, cmd, body
  <2>7. heard' = [header |-> [header EXCEPT !.cmd = cmd], body |-> body] /\ reply' = header
    BY <2>2, <2>3, <2>4
  <2> QED BY <2>2, <2>5, <2>6, <2>7
<1>2. WireIsMeant /\ [Next]_vars => [Heard]_vars BY <1>1
<1> QED BY <1>2, WireStaysMeant, PTL DEF OurClientIsHeard, Spec
=============================================================================
