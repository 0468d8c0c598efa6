---------------------------- MODULE DeviceProofs ----------------------------
(***************************************************************************)
(* Theorems about DeviceController, for every set of maskable inputs, of   *)
(* button masks and of workers.  The safety properties follow from         *)
(* DeviceInv, which is inductive: a step of a command takes one entry off  *)
(* todo, and every conjunct says of the state what it says of the entries  *)
(* that are left.                                                          *)
(***************************************************************************)
EXTENDS DeviceController, SequenceTheorems, TLAPS

-----------------------------------------------------------------------------
(* What is left of a command when a step is taken, or commands are joined. *)

\* The head of a sequence is taken off: what remains was there before.
LEMMA TailFacts ==
  ASSUME NEW S, NEW q \in Seq(S), q # <<>>
  PROVE  /\ Head(q) \in S
         /\ Tail(q) \in Seq(S)
         /\ Head(q) \in Range(q)
         /\ Range(Tail(q)) \subseteq Range(q)
         /\ \A e \in Range(q) : e = Head(q) \/ e \in Range(Tail(q))
         /\ Range(q) \subseteq S
<1>1. /\ Len(q) \in Nat \ {0}
      /\ DOMAIN q = 1..Len(q)
  BY LenProperties, EmptySeq
<1>2. /\ Head(q) \in S
      /\ Tail(q) \in Seq(S)
      /\ Len(Tail(q)) = Len(q) - 1
      /\ \A i \in 1 .. Len(Tail(q)) : Tail(q)[i] = q[i + 1]
  BY HeadTailProperties
<1>3. DOMAIN Tail(q) = 1..(Len(q) - 1)
  BY <1>2, LenProperties
<1>4. Head(q) = q[1]
  OBVIOUS
<1>5. Head(q) \in Range(q)
  BY <1>1, <1>4 DEF Range
<1>6. ASSUME NEW e \in Range(Tail(q))
      PROVE  e \in Range(q)
  <2>1. PICK i \in DOMAIN Tail(q) : e = Tail(q)[i]
    BY DEF Range
  <2>2. e = q[i + 1] /\ i + 1 \in DOMAIN q
    BY <1>1, <1>2, <1>3, <2>1
  <2> QED BY <2>2 DEF Range
<1>7. ASSUME NEW e \in Range(q), e # Head(q)
      PROVE  e \in Range(Tail(q))
  <2>1. PICK i \in DOMAIN q : e = q[i]
    BY DEF Range
  <2>2. i # 1
    BY <1>4, <1>7, <2>1
  <2>3. i - 1 \in DOMAIN Tail(q) /\ Tail(q)[i - 1] = q[i]
    BY <1>1, <1>2, <1>3, <2>2
  <2> QED BY <2>1, <2>3 DEF Range
<1>8. Range(q) \subseteq S
  BY <1>1, ElementOfSeq DEF Range
<1> QED BY <1>2, <1>5, <1>6, <1>7, <1>8

\* A sequence that announces once still does without its head, and not at
\* all if the head was the announcement.
LEMMA TailAnnouncesOnce ==
  ASSUME NEW S, NEW q \in Seq(S), q # <<>>, AnnouncesOnce(q)
  PROVE  /\ AnnouncesOnce(Tail(q))
         /\ Announces(Head(q)) => \A e \in Range(Tail(q)) : ~Announces(e)
<1>1. /\ Len(q) \in Nat \ {0}
      /\ DOMAIN q = 1..Len(q)
  BY LenProperties, EmptySeq
<1>2. /\ Tail(q) \in Seq(S)
      /\ Len(Tail(q)) = Len(q) - 1
      /\ \A i \in 1 .. Len(Tail(q)) : Tail(q)[i] = q[i + 1]
  BY HeadTailProperties
<1>3. DOMAIN Tail(q) = 1..(Len(q) - 1)
  BY <1>2, LenProperties
<1>4. ASSUME NEW i \in DOMAIN Tail(q)
      PROVE  i + 1 \in DOMAIN q /\ Tail(q)[i] = q[i + 1] /\ i \in Nat /\ i + 1 # 1
  BY <1>1, <1>2, <1>3
<1>5. AnnouncesOnce(Tail(q))
  <2> SUFFICES ASSUME NEW i \in DOMAIN Tail(q), NEW j \in DOMAIN Tail(q),
                      Announces(Tail(q)[i]), Announces(Tail(q)[j])
               PROVE  i = j
    BY DEF AnnouncesOnce
  <2>1. i + 1 = j + 1
    BY <1>4 DEF AnnouncesOnce
  <2> QED BY <1>4, <2>1
<1>6. ASSUME Announces(Head(q)), NEW e \in Range(Tail(q))
      PROVE  ~Announces(e)
  <2>1. PICK i \in DOMAIN Tail(q) : e = Tail(q)[i]
    BY DEF Range
  <2>2. Head(q) = q[1] /\ 1 \in DOMAIN q
    BY <1>1
  <2> QED BY <1>4, <1>6, <2>1, <2>2 DEF AnnouncesOnce
<1> QED BY <1>5, <1>6

LEMMA ConcatFacts ==
  ASSUME NEW S, NEW p \in Seq(S), NEW q \in Seq(S)
  PROVE  /\ p \o q \in Seq(S)
         /\ Range(p \o q) = Range(p) \cup Range(q)
BY ConcatProperties, RangeConcatenation

LEMMA OneFacts ==
  ASSUME NEW S, NEW e \in S
  PROVE  /\ <<e>> \in Seq(S)
         /\ Range(<<e>>) = {e}
         /\ AnnouncesOnce(<<e>>)
BY DEF Range, AnnouncesOnce

LEMMA NoneFacts ==
  ASSUME NEW S
  PROVE  /\ <<>> \in Seq(S)
         /\ Range(<<>>) = {}
         /\ AnnouncesOnce(<<>>)
BY EmptySeq DEF Range, AnnouncesOnce

\* Of two sequences only one announces anything.
LEMMA ConcatAnnouncesOnce ==
  ASSUME NEW S, NEW p \in Seq(S), NEW q \in Seq(S),
         AnnouncesOnce(p), AnnouncesOnce(q),
         \/ \A e \in Range(p) : ~Announces(e)
         \/ \A e \in Range(q) : ~Announces(e)
  PROVE  AnnouncesOnce(p \o q)
<1>1. /\ Len(p) \in Nat /\ DOMAIN p = 1..Len(p)
      /\ Len(q) \in Nat /\ DOMAIN q = 1..Len(q)
  BY LenProperties
<1>2. /\ p \o q \in Seq(S)
      /\ Len(p \o q) = Len(p) + Len(q)
      /\ \A i \in 1 .. Len(p) + Len(q) :
           (p \o q)[i] = IF i <= Len(p) THEN p[i] ELSE q[i - Len(p)]
  BY ConcatProperties
<1>3. DOMAIN (p \o q) = 1 .. (Len(p) + Len(q))
  BY <1>2, LenProperties
<1>4. ASSUME NEW i \in DOMAIN (p \o q)
      PROVE  /\ i \in Nat
             /\ \/ /\ i \in DOMAIN p /\ (p \o q)[i] = p[i]
                   /\ (p \o q)[i] \in Range(p)
                \/ /\ i - Len(p) \in DOMAIN q /\ (p \o q)[i] = q[i - Len(p)]
                   /\ (p \o q)[i] \in Range(q)
  BY <1>1, <1>2, <1>3 DEF Range
<1> SUFFICES ASSUME NEW i \in DOMAIN (p \o q), NEW j \in DOMAIN (p \o q),
                    Announces((p \o q)[i]), Announces((p \o q)[j])
             PROVE  i = j
  BY DEF AnnouncesOnce
<1>5. \/ i \in DOMAIN p /\ j \in DOMAIN p /\ (p \o q)[i] = p[i] /\ (p \o q)[j] = p[j]
      \/ /\ i - Len(p) \in DOMAIN q /\ j - Len(p) \in DOMAIN q
         /\ (p \o q)[i] = q[i - Len(p)] /\ (p \o q)[j] = q[j - Len(p)]
  BY <1>4
<1>6. i = j \/ i - Len(p) = j - Len(p)
  BY <1>5 DEF AnnouncesOnce
<1>7. i \in Nat /\ j \in Nat
  BY <1>4
<1> QED BY <1>1, <1>6, <1>7

-----------------------------------------------------------------------------
(* What each command leaves to do.                                         *)

\* ButtonsChanged, if there is one, and nothing else.
LEMMA ChangedFacts ==
  ASSUME NEW from \in Masks, NEW to \in Masks
  PROVE  /\ Changed(from, to) \in Seq(Steps)
         /\ AnnouncesOnce(Changed(from, to))
         /\ \A e \in Range(Changed(from, to)) :
              e.do = "changed" /\ e.from = from /\ e.to = to
         /\ from # to => \E e \in Range(Changed(from, to)) : Announces(e)
<1>1. CASE from = to
  BY <1>1, NoneFacts DEF Changed
<1>2. CASE from # to
  <2> DEFINE e == [do |-> "changed", from |-> from, to |-> to]
  <2>1. e \in Steps
    BY DEF Steps
  <2>2. Changed(from, to) = <<e>>
    BY <1>2 DEF Changed
  <2>3. Announces(e)
    BY DEF Announces
  <2> QED BY <2>1, <2>2, <2>3, OneFacts
<1> QED BY <1>1, <1>2

\* An input packet, then the change.
LEMMA ButtonsTodo ==
  ASSUME NEW from \in Masks, NEW m \in Masks
  PROVE  LET q == Hid(m) \o Changed(from, m)
         IN /\ q \in Seq(Steps)
            /\ AnnouncesOnce(q)
            /\ \A e \in Range(q) :
                 \/ e.do = "hid" /\ e.mask = m
                 \/ e.do = "changed" /\ e.from = from /\ e.to = m
            /\ from # m => \E e \in Range(q) : Announces(e)
<1> DEFINE h == [do |-> "hid", mask |-> m]
<1>1. h \in Steps /\ ~Announces(h)
  BY DEF Steps, Announces
<1>2. Hid(m) \in Seq(Steps) /\ Range(Hid(m)) = {h} /\ AnnouncesOnce(Hid(m))
  BY <1>1, OneFacts DEF Hid
<1>3. Range(Hid(m) \o Changed(from, m)) = {h} \cup Range(Changed(from, m))
  BY <1>2, ConcatFacts, ChangedFacts
<1>4. AnnouncesOnce(Hid(m) \o Changed(from, m))
  BY <1>1, <1>2, ChangedFacts, ConcatAnnouncesOnce
<1>5. Hid(m) \o Changed(from, m) \in Seq(Steps)
  BY <1>2, ConcatFacts, ChangedFacts
<1>6. ASSUME NEW e \in Range(Hid(m) \o Changed(from, m))
      PROVE  \/ e.do = "hid" /\ e.mask = m
             \/ e.do = "changed" /\ e.from = from /\ e.to = m
  BY <1>3, ChangedFacts
<1>7. from # m => \E e \in Range(Hid(m) \o Changed(from, m)) : Announces(e)
  BY <1>3, ChangedFacts
<1> QED BY <1>4, <1>5, <1>6, <1>7

\* The same, then the report of the movement.
LEMMA MoveTodo ==
  ASSUME NEW from \in Masks, NEW m \in Masks
  PROVE  LET q == Hid(m) \o Changed(from, m) \o Emitted(m)
         IN /\ q \in Seq(Steps)
            /\ AnnouncesOnce(q)
            /\ \A e \in Range(q) :
                 \/ e.do = "hid" /\ e.mask = m
                 \/ e.do = "changed" /\ e.from = from /\ e.to = m
                 \/ e.do = "emitted"
            /\ from # m => \E e \in Range(q) : Announces(e)
<1> DEFINE p == Hid(m) \o Changed(from, m)
           r == [do |-> "emitted", mask |-> m]
<1>1. r \in Steps /\ ~Announces(r)
  BY DEF Steps, Announces
<1>2. Emitted(m) \in Seq(Steps) /\ Range(Emitted(m)) = {r} /\ AnnouncesOnce(Emitted(m))
  BY <1>1, OneFacts DEF Emitted
<1>3. /\ p \in Seq(Steps)
      /\ AnnouncesOnce(p)
      /\ \A e \in Range(p) :
           \/ e.do = "hid" /\ e.mask = m
           \/ e.do = "changed" /\ e.from = from /\ e.to = m
      /\ from # m => \E e \in Range(p) : Announces(e)
  BY ButtonsTodo
<1> HIDE DEF p
<1>4. /\ p \o Emitted(m) \in Seq(Steps)
      /\ Range(p \o Emitted(m)) = Range(p) \cup {r}
  BY <1>2, <1>3, ConcatFacts
<1>5. AnnouncesOnce(p \o Emitted(m))
  BY <1>1, <1>2, <1>3, ConcatAnnouncesOnce
<1>6. ASSUME NEW e \in Range(p \o Emitted(m))
      PROVE  \/ e.do = "hid" /\ e.mask = m
             \/ e.do = "changed" /\ e.from = from /\ e.to = m
             \/ e.do = "emitted"
  BY <1>3, <1>4
<1>7. from # m => \E e \in Range(p \o Emitted(m)) : Announces(e)
  BY <1>3, <1>4
<1> QED BY <1>4, <1>5, <1>6, <1>7 DEF p

\* The change, then a worker.
LEMMA InterpolateTodo ==
  ASSUME NEW from \in Masks, NEW m \in Masks,
         NEW w \in Workers, NEW n \in 1..MaxSteps
  PROVE  LET q == Changed(from, m) \o Spawn(w, n)
         IN /\ q \in Seq(Steps)
            /\ AnnouncesOnce(q)
            /\ \A e \in Range(q) :
                 \/ e.do = "changed" /\ e.from = from /\ e.to = m
                 \/ e.do = "spawn"
            /\ from # m => \E e \in Range(q) : Announces(e)
<1> DEFINE r == [do |-> "spawn", worker |-> w, steps |-> n]
<1>1. r \in Steps /\ ~Announces(r)
  BY DEF Steps, Announces
<1>2. Spawn(w, n) \in Seq(Steps) /\ Range(Spawn(w, n)) = {r} /\ AnnouncesOnce(Spawn(w, n))
  BY <1>1, OneFacts DEF Spawn
<1>3. /\ Changed(from, m) \o Spawn(w, n) \in Seq(Steps)
      /\ Range(Changed(from, m) \o Spawn(w, n)) = Range(Changed(from, m)) \cup {r}
  BY <1>2, ConcatFacts, ChangedFacts
<1>4. AnnouncesOnce(Changed(from, m) \o Spawn(w, n))
  BY <1>1, <1>2, ChangedFacts, ConcatAnnouncesOnce
<1>5. ASSUME NEW e \in Range(Changed(from, m) \o Spawn(w, n))
      PROVE  \/ e.do = "changed" /\ e.from = from /\ e.to = m
             \/ e.do = "spawn"
  BY <1>3, ChangedFacts
<1>6. from # m => \E e \in Range(Changed(from, m) \o Spawn(w, n)) : Announces(e)
  BY <1>3, ChangedFacts
<1> QED BY <1>3, <1>4, <1>5, <1>6

\* Entries of a mask command: settings and the pump, as the masks ask.
Agrees(q, masks) ==
  /\ q \in Seq(Steps)
  /\ \A e \in Range(q) :
       \/ e.do = "tell" /\ e.value = WantedOf(e.setting, masks)
       \/ e.do = "pump" /\ e.want = (masks \cap Axes # {})

LEMMA NoneAgrees == \A masks : Agrees(<<>>, masks)
BY NoneFacts DEF Agrees

\* The cases of WantedOf do not overlap.
LEMMA WantedValues ==
  ASSUME NEW masks
  PROVE  /\ \A b \in Buttons : WantedOf(b, masks) = IF b \in masks THEN 1 ELSE 0
         /\ \A a \in Axes : WantedOf(a, masks) = IF a \in masks THEN 0 ELSE 100
         /\ WantedOf("Enable", masks) = IF masks \cap Axes # {} THEN 1 ELSE 0
         /\ WantedOf("Window", masks) = 100
<1>1. ASSUME NEW b \in Buttons
      PROVE  WantedOf(b, masks) = IF b \in masks THEN 1 ELSE 0
  BY DEF WantedOf, Buttons, Axes
<1>2. ASSUME NEW a \in Axes
      PROVE  WantedOf(a, masks) = IF a \in masks THEN 0 ELSE 100
  BY DEF WantedOf, Buttons, Axes, Amount
<1>3. WantedOf("Enable", masks) = IF masks \cap Axes # {} THEN 1 ELSE 0
  BY DEF WantedOf, Buttons, Axes
<1>4. WantedOf("Window", masks) = 100
  BY DEF WantedOf, Buttons, Axes
<1> QED BY <1>1, <1>2, <1>3, <1>4

LEMMA TellAgrees ==
  ASSUME NEW masks, NEW s \in Settings, NEW v \in Values, v = WantedOf(s, masks)
  PROVE  Agrees(Tell(s, v), masks) /\ TellsOf(s, Tell(s, v))
<1> DEFINE e == [do |-> "tell", setting |-> s, value |-> v]
<1>1. e \in Steps
  BY DEF Steps
<1>2. Tell(s, v) \in Seq(Steps) /\ Range(Tell(s, v)) = {e}
  BY <1>1, OneFacts DEF Tell
<1> QED BY <1>2 DEF Agrees, TellsOf

LEMMA PumpAgrees ==
  ASSUME NEW masks, NEW want, want = (masks \cap Axes # {})
  PROVE  /\ Agrees(Pump(want), masks)
         /\ \E e \in Range(Pump(want)) : e.do = "pump"
<1> DEFINE e == [do |-> "pump", want |-> want]
<1>1. e \in Steps
  BY DEF Steps
<1>2. Pump(want) \in Seq(Steps) /\ Range(Pump(want)) = {e}
  BY <1>1, OneFacts DEF Pump
<1>3. e.do = "pump" /\ e.want = want
  BY Zenon
<1> HIDE DEF e
<1> QED BY <1>2, <1>3, Zenon DEF Agrees

LEMMA ConcatAgrees ==
  ASSUME NEW masks, NEW p, NEW q, Agrees(p, masks), Agrees(q, masks)
  PROVE  /\ Agrees(p \o q, masks)
         /\ \A s : TellsOf(s, p) \/ TellsOf(s, q) => TellsOf(s, p \o q)
         /\ \A e \in Range(p) \cup Range(q) : e \in Range(p \o q)
<1>1. p \o q \in Seq(Steps) /\ Range(p \o q) = Range(p) \cup Range(q)
  BY ConcatFacts DEF Agrees
<1>2. Agrees(p \o q, masks)
  BY <1>1 DEF Agrees
<1>3. \A s : TellsOf(s, p) \/ TellsOf(s, q) => TellsOf(s, p \o q)
  BY <1>1 DEF TellsOf
<1> QED BY <1>1, <1>2, <1>3

\* The passthrough of every button of B is told.
LEMMA TellButtonsAgrees ==
  ASSUME NEW B, NEW new
  PROVE  /\ Agrees(TellButtons(B, new), new)
         /\ \A b \in B \cap Buttons : TellsOf(b, TellButtons(B, new))
<1> DEFINE One(b) == IF b \in B THEN Tell(b, IF b \in new THEN 1 ELSE 0) ELSE <<>>
<1>1. ASSUME NEW b \in Buttons
      PROVE  Agrees(One(b), new) /\ (b \in B => TellsOf(b, One(b)))
  <2> DEFINE v == IF b \in new THEN 1 ELSE 0
  <2>1. b \in Settings /\ v \in Values /\ v = WantedOf(b, new)
    BY WantedValues DEF Settings, Values
  <2>2. Agrees(Tell(b, v), new) /\ TellsOf(b, Tell(b, v))
    BY <2>1, TellAgrees
  <2> QED BY <2>2, NoneAgrees
<1> HIDE DEF One
<1> DEFINE q1 == One("Lmb")
           q2 == q1 \o One("Rmb")
           q3 == q2 \o One("Mmb")
           q4 == q3 \o One("Side1")
           q5 == q4 \o One("Side2")
<1>2. /\ "Lmb" \in Buttons /\ "Rmb" \in Buttons /\ "Mmb" \in Buttons
      /\ "Side1" \in Buttons /\ "Side2" \in Buttons
  BY DEF Buttons
<1>3. Agrees(q1, new) /\ ("Lmb" \in B => TellsOf("Lmb", q1))
  BY <1>1, <1>2
<1>4. /\ Agrees(q2, new)
      /\ \A s : TellsOf(s, q1) \/ TellsOf(s, One("Rmb")) => TellsOf(s, q2)
  <2> HIDE DEF q1
  <2> QED BY <1>1, <1>2, <1>3, ConcatAgrees
<1>5. /\ Agrees(q3, new)
      /\ \A s : TellsOf(s, q2) \/ TellsOf(s, One("Mmb")) => TellsOf(s, q3)
  <2> HIDE DEF q2
  <2> QED BY <1>1, <1>2, <1>4, ConcatAgrees
<1>6. /\ Agrees(q4, new)
      /\ \A s : TellsOf(s, q3) \/ TellsOf(s, One("Side1")) => TellsOf(s, q4)
  <2> HIDE DEF q3
  <2> QED BY <1>1, <1>2, <1>5, ConcatAgrees
<1>7. /\ Agrees(q5, new)
      /\ \A s : TellsOf(s, q4) \/ TellsOf(s, One("Side2")) => TellsOf(s, q5)
  <2> HIDE DEF q4
  <2> QED BY <1>1, <1>2, <1>6, ConcatAgrees
<1>8. TellButtons(B, new) = q5
  BY DEF TellButtons, One
<1> HIDE DEF q1, q2, q3, q4, q5
<1>9. ASSUME NEW b \in B \cap Buttons
      PROVE  TellsOf(b, q5)
  <2>1. TellsOf(b, One(b))
    BY <1>1
  <2>2. b \in {"Lmb", "Rmb", "Mmb", "Side1", "Side2"}
    BY DEF Buttons
  <2> QED BY <1>1, <1>2, <1>3, <1>4, <1>5, <1>6, <1>7, <2>1, <2>2
<1> QED BY <1>7, <1>8, <1>9

\* Every setting of the axes that the new masks ask otherwise than the old
\* is told, and the pump is told when it has to start or stop.
LEMMA TellAxesAgrees ==
  ASSUME NEW old, NEW new
  PROVE  /\ Agrees(TellAxes(old, new), new)
         /\ \A s \in Axes \cup {"Enable"} :
              WantedOf(s, old) # WantedOf(s, new) => TellsOf(s, TellAxes(old, new))
         /\ (old \cap Axes # {}) # (new \cap Axes # {}) =>
              \E e \in Range(TellAxes(old, new)) : e.do = "pump"
<1> DEFINE moved == ((old \ new) \cup (new \ old)) \cap Axes
           was == old \cap Axes # {}
           now == new \cap Axes # {}
           on  == IF now /\ ~was THEN Tell("Enable", 1) \o Tell("Window", 100) ELSE <<>>
           x   == IF "X" \in moved THEN Tell("X", Amount("X", new)) ELSE <<>>
           y   == IF "Y" \in moved THEN Tell("Y", Amount("Y", new)) ELSE <<>>
           off == IF was /\ ~now THEN Tell("Enable", 0) ELSE <<>>
<1>1. Agrees(on, new) /\ (now /\ ~was => TellsOf("Enable", on))
  <2>1. CASE now /\ ~was
    <3>1. /\ "Enable" \in Settings /\ 1 \in Values /\ 1 = WantedOf("Enable", new)
          /\ "Window" \in Settings /\ 100 \in Values /\ 100 = WantedOf("Window", new)
      BY <2>1, WantedValues DEF Settings, Values
    <3>2. Agrees(Tell("Enable", 1), new) /\ TellsOf("Enable", Tell("Enable", 1))
      BY <3>1, TellAgrees
    <3>3. Agrees(Tell("Window", 100), new)
      BY <3>1, TellAgrees
    <3>4. /\ Agrees(Tell("Enable", 1) \o Tell("Window", 100), new)
          /\ TellsOf("Enable", Tell("Enable", 1) \o Tell("Window", 100))
      BY <3>2, <3>3, ConcatAgrees
    <3> QED BY <2>1, <3>4
  <2>2. CASE ~(now /\ ~was)
    BY <2>2, NoneAgrees
  <2> QED BY <2>1, <2>2
<1>2. Agrees(x, new) /\ ("X" \in moved => TellsOf("X", x))
  <2>1. /\ "X" \in Settings /\ Amount("X", new) \in Values
        /\ Amount("X", new) = WantedOf("X", new)
    BY WantedValues DEF Settings, Values, Axes, Amount
  <2> QED BY <2>1, TellAgrees, NoneAgrees
<1>3. Agrees(y, new) /\ ("Y" \in moved => TellsOf("Y", y))
  <2>1. /\ "Y" \in Settings /\ Amount("Y", new) \in Values
        /\ Amount("Y", new) = WantedOf("Y", new)
    BY WantedValues DEF Settings, Values, Axes, Amount
  <2> QED BY <2>1, TellAgrees, NoneAgrees
<1>4. Agrees(off, new) /\ (was /\ ~now => TellsOf("Enable", off))
  <2>1. CASE was /\ ~now
    <3>1. /\ "Enable" \in Settings /\ 0 \in Values /\ 0 = WantedOf("Enable", new)
      BY <2>1, WantedValues DEF Settings, Values
    <3> QED BY <2>1, <3>1, TellAgrees
  <2>2. CASE ~(was /\ ~now)
    BY <2>2, NoneAgrees
  <2> QED BY <2>1, <2>2
<1>5. Agrees(Pump(now), new) /\ \E e \in Range(Pump(now)) : e.do = "pump"
  BY PumpAgrees
<1>6. TellAxes(old, new) = IF moved = {} THEN <<>>
                           ELSE (((on \o x) \o y) \o off) \o Pump(now)
  BY DEF TellAxes
<1>7. \A s \in Axes \cup {"Enable"} : WantedOf(s, old) # WantedOf(s, new) =>
        /\ moved # {}
        /\ s \in moved \/ (s = "Enable" /\ was # now)
  BY WantedValues DEF Axes
<1>8. was # now => moved # {}
  OBVIOUS
<1>9. moved \subseteq {"X", "Y"}
  BY DEF Axes
<1>10. was \in BOOLEAN /\ now \in BOOLEAN
  OBVIOUS
<1> HIDE DEF moved, was, now, on, x, y, off
<1>11. CASE moved = {}
  <2>1. TellAxes(old, new) = <<>>
    BY <1>6, <1>11
  <2>2. ~(was # now)
    BY <1>8, <1>11
  <2> QED BY <1>7, <1>11, <2>1, <2>2, NoneAgrees DEF was, now
<1>12. CASE moved # {}
  <2> DEFINE q1 == on \o x
             q2 == q1 \o y
             q3 == q2 \o off
             q4 == q3 \o Pump(now)
  <2>1. /\ Agrees(q1, new)
        /\ \A s : TellsOf(s, on) \/ TellsOf(s, x) => TellsOf(s, q1)
    BY <1>1, <1>2, ConcatAgrees
  <2> HIDE DEF q1
  <2>2. /\ Agrees(q2, new)
        /\ \A s : TellsOf(s, q1) \/ TellsOf(s, y) => TellsOf(s, q2)
    BY <1>3, <2>1, ConcatAgrees
  <2> HIDE DEF q2
  <2>3. /\ Agrees(q3, new)
        /\ \A s : TellsOf(s, q2) \/ TellsOf(s, off) => TellsOf(s, q3)
    BY <1>4, <2>2, ConcatAgrees
  <2> HIDE DEF q3
  <2>4. /\ Agrees(q4, new)
        /\ \A s : TellsOf(s, q3) \/ TellsOf(s, Pump(now)) => TellsOf(s, q4)
        /\ \E e \in Range(q4) : e.do = "pump"
    BY <1>5, <2>3, ConcatAgrees
  <2>5. TellAxes(old, new) = q4
    BY <1>6, <1>12 DEF q1, q2, q3
  <2> HIDE DEF q4
  <2>6. ASSUME NEW s \in Axes \cup {"Enable"}, WantedOf(s, old) # WantedOf(s, new)
        PROVE  TellsOf(s, q4)
    <3>1. s \in moved \/ (s = "Enable" /\ was # now)
      BY <1>7, <2>6
    <3>2. (s \in {"X", "Y"} /\ s \in moved) \/ (s = "Enable" /\ was # now)
      BY <1>9, <3>1
    <3>3. \/ TellsOf(s, on) \/ TellsOf(s, x) \/ TellsOf(s, y) \/ TellsOf(s, off)
      BY <1>1, <1>2, <1>3, <1>4, <1>10, <3>2
    <3> QED BY <2>1, <2>2, <2>3, <2>4, <3>3
  <2> QED BY <2>4, <2>5, <2>6
<1> QED BY <1>11, <1>12

\* cmd_mask_mouse: the diff of the masks.
LEMMA MaskTodo ==
  ASSUME NEW old, NEW new
  PROVE  LET q == TellButtons((old \ new) \cup (new \ old), new) \o TellAxes(old, new)
         IN /\ Agrees(q, new)
            /\ \A s \in Settings :
                 WantedOf(s, old) # WantedOf(s, new) => TellsOf(s, q)
            /\ (old \cap Axes # {}) # (new \cap Axes # {}) =>
                 \E e \in Range(q) : e.do = "pump"
<1> DEFINE B == (old \ new) \cup (new \ old)
           b == TellButtons(B, new)
           a == TellAxes(old, new)
<1>1. Agrees(b, new) /\ \A s \in B \cap Buttons : TellsOf(s, b)
  BY TellButtonsAgrees
<1>2. /\ Agrees(a, new)
      /\ \A s \in Axes \cup {"Enable"} :
           WantedOf(s, old) # WantedOf(s, new) => TellsOf(s, a)
      /\ (old \cap Axes # {}) # (new \cap Axes # {}) =>
           \E e \in Range(a) : e.do = "pump"
  BY TellAxesAgrees
<1>3. \A s \in Buttons : WantedOf(s, old) # WantedOf(s, new) => s \in B
  BY WantedValues
<1>4. WantedOf("Window", old) = WantedOf("Window", new)
  BY WantedValues
<1>5. \A s \in Settings :
        s \in Buttons \/ s \in Axes \cup {"Enable"} \/ s = "Window"
  BY DEF Settings
<1> HIDE DEF B, a, b
<1>6. /\ Agrees(b \o a, new)
      /\ \A s : TellsOf(s, b) \/ TellsOf(s, a) => TellsOf(s, b \o a)
      /\ \A e \in Range(b) \cup Range(a) : e \in Range(b \o a)
  BY <1>1, <1>2, ConcatAgrees
<1>7. \A s \in Settings : WantedOf(s, old) # WantedOf(s, new) => TellsOf(s, b \o a)
  BY <1>1, <1>2, <1>3, <1>4, <1>5, <1>6
<1>8. (old \cap Axes # {}) # (new \cap Axes # {}) => \E e \in Range(b \o a) : e.do = "pump"
  BY <1>2, <1>6
<1> QED BY <1>6, <1>7, <1>8 DEF B, a, b

\* cmd_unmask_all: everything.
LEMMA UnmaskTodo ==
  LET q == TellButtons(Buttons, {}) \o Tell("X", 100) \o Tell("Y", 100)
           \o Tell("Enable", 0) \o Pump(FALSE)
  IN /\ Agrees(q, {})
     /\ \A s \in Settings \ {"Window"} : TellsOf(s, q)
     /\ \E e \in Range(q) : e.do = "pump"
<1> DEFINE b  == TellButtons(Buttons, {})
           q1 == b \o Tell("X", 100)
           q2 == q1 \o Tell("Y", 100)
           q3 == q2 \o Tell("Enable", 0)
           q4 == q3 \o Pump(FALSE)
<1>1. Agrees(b, {}) /\ \A s \in Buttons : TellsOf(s, b)
  BY TellButtonsAgrees
<1>2. /\ {"X", "Y", "Enable"} \subseteq Settings /\ {0, 100} \subseteq Values
      /\ 100 = WantedOf("X", {}) /\ 100 = WantedOf("Y", {}) /\ 0 = WantedOf("Enable", {})
  BY WantedValues DEF Settings, Values, Axes
<1>3. Agrees(Tell("X", 100), {}) /\ TellsOf("X", Tell("X", 100))
  BY <1>2, TellAgrees
<1>4. Agrees(Tell("Y", 100), {}) /\ TellsOf("Y", Tell("Y", 100))
  BY <1>2, TellAgrees
<1>5. Agrees(Tell("Enable", 0), {}) /\ TellsOf("Enable", Tell("Enable", 0))
  BY <1>2, TellAgrees
<1>6. Agrees(Pump(FALSE), {}) /\ \E e \in Range(Pump(FALSE)) : e.do = "pump"
  <2>1. FALSE = ({} \cap Axes # {})
    OBVIOUS
  <2> QED BY <2>1, PumpAgrees
<1> HIDE DEF b
<1>7. /\ Agrees(q1, {})
      /\ \A s : TellsOf(s, b) \/ TellsOf(s, Tell("X", 100)) => TellsOf(s, q1)
  BY <1>1, <1>3, ConcatAgrees
<1> HIDE DEF q1
<1>8. /\ Agrees(q2, {})
      /\ \A s : TellsOf(s, q1) \/ TellsOf(s, Tell("Y", 100)) => TellsOf(s, q2)
  BY <1>4, <1>7, ConcatAgrees
<1> HIDE DEF q2
<1>9. /\ Agrees(q3, {})
      /\ \A s : TellsOf(s, q2) \/ TellsOf(s, Tell("Enable", 0)) => TellsOf(s, q3)
  BY <1>5, <1>8, ConcatAgrees
<1> HIDE DEF q3
<1>10. /\ Agrees(q4, {})
       /\ \A s : TellsOf(s, q3) \/ TellsOf(s, Pump(FALSE)) => TellsOf(s, q4)
       /\ \E e \in Range(q4) : e.do = "pump"
  BY <1>6, <1>9, ConcatAgrees
<1>11. \A s \in Settings \ {"Window"} : s \in Buttons \/ s = "X" \/ s = "Y" \/ s = "Enable"
  BY DEF Settings, Axes
<1>12. \A s \in Settings \ {"Window"} : TellsOf(s, q4)
  <2> HIDE DEF q4
  <2> QED BY <1>1, <1>3, <1>4, <1>5, <1>7, <1>8, <1>9, <1>10, <1>11
<1> QED BY <1>10, <1>12 DEF b, q1, q2, q3

\* Stopping the pump puts its join before the rest.
LEMMA JoinTodo ==
  ASSUME NEW q \in Seq(Steps)
  PROVE  /\ JoinDog \o q \in Seq(Steps)
         /\ Range(JoinDog \o q) = {[do |-> "join"]} \cup Range(q)
         /\ AnnouncesOnce(q) => AnnouncesOnce(JoinDog \o q)
<1> DEFINE j == [do |-> "join"]
<1>1. j \in Steps /\ ~Announces(j)
  BY DEF Steps, Announces
<1>2. JoinDog \in Seq(Steps) /\ Range(JoinDog) = {j} /\ AnnouncesOnce(JoinDog)
  BY <1>1, OneFacts DEF JoinDog
<1>3. AnnouncesOnce(q) => AnnouncesOnce(JoinDog \o q)
  BY <1>1, <1>2, ConcatAnnouncesOnce
<1> QED BY <1>2, <1>3, ConcatFacts

\* A mask command announces nothing.
LEMMA AgreesIsQuiet ==
  ASSUME NEW q, NEW masks, Agrees(q, masks)
  PROVE  AnnouncesOnce(q)
<1>1. \A i \in DOMAIN q : q[i] \in Range(q)
  BY DEF Range
<1> QED BY <1>1 DEF Agrees, AnnouncesOnce, Announces

-----------------------------------------------------------------------------
(* The type invariant.                                                     *)

\* The fields of an entry.
LEMMA StepFields ==
  ASSUME NEW e \in Steps
  PROVE  /\ e.do \in {"hid", "emitted"} => e.mask \in Masks
         /\ e.do = "tell" => e.setting \in Settings /\ e.value \in Values
         /\ e.do = "spawn" => e.worker \in Workers /\ e.steps \in 1..MaxSteps
         /\ e.do = "pump" => e.want \in BOOLEAN
         /\ e.do = "changed" => e.from \in Masks /\ e.to \in Masks
BY DEF Steps

LEMMA ZeroFacts ==
  /\ 0 \in Masks
  /\ \A w \in Workers : w # "main" /\ w # "dog"
  /\ \A t \in Workers : t \in Threads
  /\ "main" \in Threads /\ "dog" \in Threads
BY ConstantsAssumption DEF Threads

\* What is left after a command's next step.
LEMMA TodoTypes ==
  ASSUME TypeOK, todo # <<>>
  PROVE  /\ Head(todo) \in Steps
         /\ Tail(todo) \in Seq(Steps)
         /\ Head(todo) \in Range(todo)
         /\ Range(Tail(todo)) \subseteq Range(todo)
         /\ \A e \in Range(todo) : e = Head(todo) \/ e \in Range(Tail(todo))
         /\ Range(todo) \subseteq Steps
BY TailFacts DEF TypeOK

\* A command arrives only when the last one is over.
LEMMA DispatchTodo ==
  ASSUME TypeOK, Dispatch
  PROVE  /\ todo = <<>>
         /\ todo' \in Seq(Steps)
         /\ AnnouncesOnce(todo')
<1>1. todo = <<>>
  BY DEF Dispatch, Connect, ApplyButtons, ApplyButtonsAndMove, Interpolate,
         MaskMouse, UnmaskAll, Receive
<1>2. CASE Connect
  <2> DEFINE e == [do |-> "reset"]
  <2>1. e \in Steps
    BY DEF Steps
  <2>2. todo' = <<e>>
    BY <1>2 DEF Connect, Receive, Reset
  <2> QED BY <1>1, <2>1, <2>2, OneFacts
<1>3. ASSUME NEW m \in Masks, ApplyButtons(m)
      PROVE  todo' \in Seq(Steps) /\ AnnouncesOnce(todo')
  BY <1>3, ButtonsTodo DEF TypeOK, ApplyButtons, Receive
<1>4. ASSUME NEW m \in Masks, ApplyButtonsAndMove(m)
      PROVE  todo' \in Seq(Steps) /\ AnnouncesOnce(todo')
  BY <1>4, MoveTodo DEF TypeOK, ApplyButtonsAndMove, Receive
<1>5. ASSUME NEW m \in Masks, NEW w \in Workers, NEW n \in 1..MaxSteps,
             Interpolate(m, w, n)
      PROVE  todo' \in Seq(Steps) /\ AnnouncesOnce(todo')
  BY <1>5, InterpolateTodo DEF TypeOK, Interpolate, Receive
<1>6. ASSUME NEW new \in SUBSET Maskable, MaskMouse(new)
      PROVE  todo' \in Seq(Steps) /\ AnnouncesOnce(todo')
  <2>1. Agrees(todo', new)
    BY <1>6, MaskTodo DEF MaskMouse, Receive
  <2> QED BY <2>1, AgreesIsQuiet DEF Agrees
<1>7. CASE UnmaskAll
  <2>1. Agrees(todo', {})
    BY <1>7, UnmaskTodo DEF UnmaskAll, Receive
  <2> QED BY <1>1, <2>1, AgreesIsQuiet DEF Agrees
<1> QED BY <1>1, <1>2, <1>3, <1>4, <1>5, <1>6, <1>7 DEF Dispatch

\* What the part of a command that holds the lock does, and leaves alone.
LockedPart ==
  /\ main = "recv" /\ main' = "check"
  /\ UNCHANGED <<running, attached, worker, dog, handle, told, hid,
                 seen>>
  /\ buttons' \in Masks
  /\ late' = IF buttons' = buttons THEN late ELSE [t \in Threads |-> 0]
  /\ bits' \subseteq Maskable
  /\ due' \subseteq Settings

LEMMA DispatchFrame ==
  ASSUME TypeOK, Dispatch
  PROVE  LockedPart
<1> USE DEF Receive, SetButtons, TypeOK, wireVars, LockedPart
<1>1. CASE Connect
  BY <1>1, ZeroFacts DEF Connect
<1>2. ASSUME NEW m \in Masks, ApplyButtons(m)
      PROVE  LockedPart
  BY <1>2 DEF ApplyButtons
<1>3. ASSUME NEW m \in Masks, ApplyButtonsAndMove(m)
      PROVE  LockedPart
  BY <1>3 DEF ApplyButtonsAndMove
<1>4. ASSUME NEW m \in Masks, NEW w \in Workers, NEW n \in 1..MaxSteps,
             Interpolate(m, w, n)
      PROVE  LockedPart
  BY <1>4 DEF Interpolate
<1>5. ASSUME NEW new \in SUBSET Maskable, MaskMouse(new)
      PROVE  LockedPart
  BY <1>5 DEF MaskMouse, Asked
<1>6. CASE UnmaskAll
  BY <1>6 DEF UnmaskAll
<1> QED BY <1>1, <1>2, <1>3, <1>4, <1>5, <1>6 DEF Dispatch

\* One packet more, for a thread whose packets were never old, or once.
LEMMA SendHidTypes ==
  ASSUME TypeOK, NEW t \in Threads, NEW m \in Masks, SendHid(t, m)
  PROVE  /\ hid' \in Masks \cup {NoMask}
         /\ told' = told
         /\ late' \in [Threads -> 0..2]
         /\ \A u \in Threads : u # t => late'[u] = late[u]
         /\ m = buttons => late'[t] = late[t]
         /\ late'[t] <= late[t] + 1
<1>1. late \in [Threads -> 0..2] /\ hid \in Masks \cup {NoMask}
  BY DEF TypeOK
<1>2. late[t] \in 0..2
  BY <1>1
<1> QED BY <1>1, <1>2 DEF SendHid

LEMMA TypeStep ==
  ASSUME DeviceInv, [Next]_vars
  PROVE  TypeOK'
<1> USE DEF DeviceInv
<1>1. CASE Dispatch
  <2>1. LockedPart
    BY <1>1, DispatchFrame
  <2>2. todo' \in Seq(Steps)
    BY <1>1, DispatchTodo
  <2>3. late' \in [Threads -> 0..2]
    BY <2>1 DEF LockedPart, TypeOK
  <2> QED BY <2>1, <2>2, <2>3 DEF LockedPart, TypeOK
<1>2. CASE SendInput
  <2>1. /\ todo # <<>> /\ todo' = Tail(todo) /\ Head(todo).do = "hid"
        /\ SendHid("main", Head(todo).mask)
        /\ UNCHANGED <<running, attached, main, buttons, bits, worker, dog,
                       handle, seen, due>>
    BY <1>2 DEF SendInput, Doing, Done
  <2>2. Head(todo).mask \in Masks /\ Tail(todo) \in Seq(Steps)
    BY <2>1, TodoTypes, StepFields
  <2>3. hid' \in Masks \cup {NoMask} /\ told' = told /\ late' \in [Threads -> 0..2]
    BY <2>1, <2>2, ZeroFacts, SendHidTypes
  <2> QED BY <2>1, <2>2, <2>3 DEF TypeOK
<1>3. CASE SendSettings
  <2>1. /\ todo # <<>> /\ todo' = Tail(todo) /\ Head(todo).do = "tell"
        /\ SendSetting(Head(todo).setting, Head(todo).value)
        /\ due' \subseteq due
        /\ UNCHANGED <<running, attached, main, buttons, bits, worker, dog,
                       handle, seen, late>>
    BY <1>3 DEF SendSettings, Doing, Done
  <2>2. /\ Head(todo).setting \in Settings /\ Head(todo).value \in Values
        /\ Tail(todo) \in Seq(Steps)
    BY <2>1, TodoTypes, StepFields
  <2>3. /\ hid' = hid
        /\ DOMAIN told' \subseteq Settings /\ \A s \in DOMAIN told' : told'[s] \in Values
    BY <2>1, <2>2 DEF SendSetting, TypeOK
  <2> QED BY <2>1, <2>2, <2>3 DEF TypeOK
<1>4. CASE PublishChanged
  <2>1. Head(todo).to \in Masks /\ Tail(todo) \in Seq(Steps)
    BY <1>4, TodoTypes, StepFields DEF PublishChanged, Doing
  <2> QED BY <1>4, <2>1 DEF PublishChanged, Done, TypeOK, wireVars
<1>5. CASE PublishEmitted
  <2>1. Head(todo).mask \in Masks /\ Tail(todo) \in Seq(Steps)
    BY <1>5, TodoTypes, StepFields DEF PublishEmitted, Doing
  <2> QED BY <1>5, <2>1 DEF PublishEmitted, Done, TypeOK, wireVars
<1>6. CASE PublishReset
  <2>1. Tail(todo) \in Seq(Steps)
    BY <1>6, TodoTypes DEF PublishReset, Doing
  <2> QED BY <1>6, <2>1, ZeroFacts DEF PublishReset, Done, TypeOK, wireVars
<1>7. CASE SpawnWorker
  <2>1. /\ Tail(todo) \in Seq(Steps)
        /\ Head(todo).worker \in Workers /\ Head(todo).steps \in 1..MaxSteps
    BY <1>7, TodoTypes, StepFields DEF SpawnWorker, Doing
  <2>2. worker' \in [Workers -> [pc : {"idle", "tick", "send", "publish"},
                                 left : 0..MaxSteps, mask : Masks]]
    <3>1. worker \in [Workers -> [pc : {"idle", "tick", "send", "publish"},
                                  left : 0..MaxSteps, mask : Masks]]
      BY DEF TypeOK
    <3>2. Head(todo).steps \in 0..MaxSteps
      BY <2>1, ConstantsAssumption
    <3> QED BY <1>7, <2>1, <3>1, <3>2 DEF SpawnWorker
  <2> QED BY <1>7, <2>1, <2>2 DEF SpawnWorker, Done, TypeOK, wireVars
<1>8. CASE UpdateWatchdog
  <2>1. /\ todo # <<>>
        /\ UNCHANGED <<running, attached, main, buttons, bits, worker, told,
                       hid, seen, late, due>>
        /\ \/ SpawnDog /\ Done
           \/ StopDog /\ todo' = JoinDog \o Tail(todo)
           \/ Done /\ UNCHANGED <<dog, handle>>
    BY <1>8 DEF UpdateWatchdog, Doing, wireVars
  <2>2. Tail(todo) \in Seq(Steps)
    BY <2>1, TodoTypes
  <2>3. JoinDog \in Seq(Steps)
    <3>1. [do |-> "join"] \in Steps
      BY DEF Steps
    <3> QED BY <3>1, OneFacts DEF JoinDog
  <2>4. todo' \in Seq(Steps)
    <3>1. JoinDog \o Tail(todo) \in Seq(Steps)
      BY <2>2, <2>3, ConcatFacts
    <3> QED BY <2>1, <2>2, <3>1 DEF Done
  <2>5. /\ dog' \in [pc : {"none", "check", "pump", "send"}, stop : BOOLEAN, mask : Masks]
        /\ handle' \in BOOLEAN
    <3>1. /\ dog \in [pc : {"none", "check", "pump", "send"}, stop : BOOLEAN, mask : Masks]
          /\ handle \in BOOLEAN
      BY DEF TypeOK
    <3>2. SpawnDog \/ StopDog \/ (dog' = dog /\ handle' = handle)
      BY <2>1
    <3>3. CASE SpawnDog
      BY <3>3, ZeroFacts DEF SpawnDog
    <3>4. CASE StopDog
      BY <3>1, <3>4 DEF StopDog
    <3> QED BY <3>1, <3>2, <3>3, <3>4
  <2> QED BY <2>1, <2>4, <2>5 DEF TypeOK
<1>9. CASE JoinWatchdog
  <2>1. Tail(todo) \in Seq(Steps)
    BY <1>9, TodoTypes DEF JoinWatchdog, Doing
  <2> QED BY <1>9, <2>1 DEF JoinWatchdog, Done, TypeOK, wireVars
<1>10. ASSUME NEW w \in Workers, Tick(w)
       PROVE  TypeOK'
  BY <1>10 DEF Tick, TypeOK, wireVars
<1>11. ASSUME NEW w \in Workers, SendMove(w)
       PROVE  TypeOK'
  <2>1. worker[w].mask \in Masks /\ w \in Threads
    BY ZeroFacts DEF TypeOK
  <2>2. hid' \in Masks \cup {NoMask} /\ told' = told /\ late' \in [Threads -> 0..2]
    BY <1>11, <2>1, SendHidTypes DEF SendMove
  <2>3. worker' \in [Workers -> [pc : {"idle", "tick", "send", "publish"},
                                 left : 0..MaxSteps, mask : Masks]]
    BY <1>11 DEF SendMove, TypeOK
  <2> QED BY <1>11, <2>2, <2>3 DEF SendMove, TypeOK
<1>12. ASSUME NEW w \in Workers, PublishMove(w)
       PROVE  TypeOK'
  <2>1. worker[w].left \in 0..MaxSteps /\ worker[w].left >= 1
    BY <1>12 DEF PublishMove, TypeOK, StaleOnce
  <2>2. worker[w].left - 1 \in 0..MaxSteps
    BY <2>1, ConstantsAssumption
  <2>3. worker' \in [Workers -> [pc : {"idle", "tick", "send", "publish"},
                                 left : 0..MaxSteps, mask : Masks]]
    BY <1>12, <2>2 DEF PublishMove, TypeOK
  <2> QED BY <1>12, <2>3 DEF PublishMove, TypeOK, wireVars
<1>13. CASE DogCheck
  BY <1>13 DEF DogCheck, TypeOK, wireVars
<1>14. CASE DogSnapshot
  BY <1>14 DEF DogSnapshot, TypeOK, wireVars
<1>15. CASE DogSend
  <2>1. dog.mask \in Masks
    BY DEF TypeOK
  <2>2. hid' \in Masks \cup {NoMask} /\ told' = told /\ late' \in [Threads -> 0..2]
    BY <1>15, <2>1, ZeroFacts, SendHidTypes DEF DogSend
  <2> QED BY <1>15, <2>2, ZeroFacts DEF DogSend, TypeOK
<1>16. CASE Attach \/ CtrlC
  BY <1>16 DEF Attach, CtrlC, TypeOK, wireVars
<1>17. CASE Detach
  BY <1>17 DEF Detach, ClearSlot, NothingTold, TypeOK
<1>18. CASE MainCheck
  BY <1>18 DEF MainCheck, ClearSlot, NothingTold, TypeOK, wireVars
<1>19. CASE RecvTimeout \/ MainExit
  BY <1>19 DEF RecvTimeout, MainExit, TypeOK, wireVars
<1>20. CASE DropMask
  BY <1>20 DEF DropMask, StopDog, TypeOK, wireVars
<1>21. CASE Exited \/ UNCHANGED vars
  BY <1>21 DEF Exited, vars, TypeOK, wireVars
<1> QED
  BY <1>1, <1>2, <1>3, <1>4, <1>5, <1>6, <1>7, <1>8, <1>9, <1>10, <1>11,
     <1>12, <1>13, <1>14, <1>15, <1>16, <1>17, <1>18, <1>19, <1>20, <1>21
     DEF Next, Command, Interpolation, Dog, MainLoop

-----------------------------------------------------------------------------
(* The conjuncts about todo.                                               *)

\* A step of a command takes the head off todo; stopping the pump puts the
\* join in its place.
LEMMA CommandTodo ==
  ASSUME TypeOK, OneAnnouncement, Command
  PROVE  /\ todo # <<>>
         /\ Head(todo) \in Range(todo)
         /\ \A e \in Range(todo') : e \in Range(todo) \/ e.do = "join"
         /\ \A e \in Range(todo) : e = Head(todo) \/ e \in Range(todo')
         /\ OneAnnouncement'
         /\ Announces(Head(todo)) => \A e \in Range(todo') : ~Announces(e)
<1>1. /\ todo # <<>>
      /\ \/ todo' = Tail(todo)
         \/ todo' = JoinDog \o Tail(todo) /\ Head(todo).do = "pump"
  BY DEF Command, SendInput, SendSettings, PublishChanged, PublishEmitted,
         PublishReset, SpawnWorker, UpdateWatchdog, JoinWatchdog, Doing, Done
<1>2. todo \in Seq(Steps)
  BY DEF TypeOK
<1>3. /\ Tail(todo) \in Seq(Steps)
      /\ Head(todo) \in Range(todo)
      /\ Range(Tail(todo)) \subseteq Range(todo)
      /\ \A e \in Range(todo) : e = Head(todo) \/ e \in Range(Tail(todo))
  BY <1>1, <1>2, TailFacts
<1>4. /\ AnnouncesOnce(Tail(todo))
      /\ Announces(Head(todo)) => \A e \in Range(Tail(todo)) : ~Announces(e)
  BY <1>1, <1>2, TailAnnouncesOnce DEF OneAnnouncement
<1>5. CASE todo' = Tail(todo)
  BY <1>1, <1>3, <1>4, <1>5 DEF OneAnnouncement
<1>6. CASE todo' = JoinDog \o Tail(todo) /\ Head(todo).do = "pump"
  <2> DEFINE j == [do |-> "join"]
  <2>1. j.do = "join" /\ ~Announces(j)
    BY DEF Announces
  <2>2. Range(todo') = {j} \cup Range(Tail(todo)) /\ AnnouncesOnce(todo')
    BY <1>3, <1>4, <1>6, JoinTodo
  <2>3. ~Announces(Head(todo))
    BY <1>6 DEF Announces
  <2> HIDE DEF j
  <2> QED BY <1>1, <1>3, <1>6, <2>1, <2>2, <2>3 DEF OneAnnouncement
<1> QED BY <1>1, <1>5, <1>6

\* What a step of a command leaves alone.
LEMMA CommandFrame ==
  ASSUME Command
  PROVE  /\ UNCHANGED <<running, attached, main, buttons, bits>>
         /\ seen' = seen \/ Announces(Head(todo))
BY DEF Command, SendInput, SendSettings, PublishChanged, PublishEmitted,
       PublishReset, SpawnWorker, UpdateWatchdog, JoinWatchdog, Doing,
       Announces

\* No other thread touches what a command is about.
LEMMA Elsewhere ==
  ASSUME [Next]_vars, ~Dispatch, ~Command
  PROVE  /\ UNCHANGED <<todo, buttons, bits, seen>>
         /\ \/ UNCHANGED <<attached, told, due>>
            \/ ~attached /\ attached' /\ UNCHANGED <<told, due>>
            \/ ~attached' /\ told' = NothingTold /\ due' = {}
<1>1. CASE MainCheck \/ RecvTimeout \/ DropMask \/ MainExit
  BY <1>1 DEF MainCheck, RecvTimeout, DropMask, MainExit, ClearSlot, wireVars
<1>2. ASSUME NEW w \in Workers, Tick(w) \/ SendMove(w) \/ PublishMove(w)
      PROVE  UNCHANGED <<todo, buttons, bits, seen, attached, told, due>>
  BY <1>2 DEF Tick, SendMove, PublishMove, SendHid, wireVars
<1>3. CASE DogCheck \/ DogSnapshot \/ DogSend
  BY <1>3 DEF DogCheck, DogSnapshot, DogSend, SendHid, wireVars
<1>4. CASE Attach \/ Detach \/ CtrlC
  BY <1>4 DEF Attach, Detach, CtrlC, ClearSlot, wireVars
<1>5. CASE Exited \/ UNCHANGED vars
  BY <1>5 DEF Exited, vars, wireVars
<1> QED BY <1>1, <1>2, <1>3, <1>4, <1>5 DEF Next, MainLoop, Interpolation, Dog

LEMMA TodoStep ==
  ASSUME DeviceInv, [Next]_vars
  PROVE  /\ TodoFollowsState'
         /\ OneAnnouncement'
         /\ AnnouncedOrPending'
<1> DEFINE Goal == TodoFollowsState' /\ OneAnnouncement' /\ AnnouncedOrPending'
<1>1. CASE Dispatch
  <2>1. todo = <<>> /\ AnnouncesOnce(todo') /\ LockedPart
    BY <1>1, DispatchTodo, DispatchFrame DEF DeviceInv
  <2>2. seen = buttons /\ seen' = seen /\ seen \in Masks /\ buttons \in Masks
    BY <2>1, NoneFacts DEF DeviceInv, AnnouncedOrPending, LockedPart, TypeOK
  <2>3. OneAnnouncement'
    BY <2>1 DEF OneAnnouncement
  <2>4. CASE Connect
    <3> DEFINE e == [do |-> "reset"]
    <3>1. e \in Steps /\ e.do = "reset" /\ Announces(e)
      BY DEF Steps, Announces
    <3>2. todo' = <<e>> /\ buttons' = 0
      BY <2>4 DEF Connect, Receive, Reset, SetButtons
    <3>3. Range(todo') = {e}
      BY <3>1, <3>2, OneFacts
    <3> HIDE DEF e
    <3> QED BY <2>3, <3>1, <3>2, <3>3 DEF TodoFollowsState, AnnouncedOrPending
  <2>5. ASSUME NEW m \in Masks, ApplyButtons(m)
        PROVE  Goal
    <3>1. todo' = Hid(m) \o Changed(buttons, m) /\ buttons' = m
      BY <2>5 DEF ApplyButtons, Receive, SetButtons
    <3>2. /\ \A e \in Range(todo') :
               \/ e.do = "hid" /\ e.mask = m
               \/ e.do = "changed" /\ e.from = buttons /\ e.to = m
          /\ buttons # m => \E e \in Range(todo') : Announces(e)
      BY <2>2, <3>1, ButtonsTodo
    <3> QED BY <2>2, <2>3, <3>1, <3>2 DEF TodoFollowsState, AnnouncedOrPending
  <2>6. ASSUME NEW m \in Masks, ApplyButtonsAndMove(m)
        PROVE  Goal
    <3>1. todo' = Hid(m) \o Changed(buttons, m) \o Emitted(m) /\ buttons' = m
      BY <2>6 DEF ApplyButtonsAndMove, Receive, SetButtons
    <3>2. /\ \A e \in Range(todo') :
               \/ e.do = "hid" /\ e.mask = m
               \/ e.do = "changed" /\ e.from = buttons /\ e.to = m
               \/ e.do = "emitted"
          /\ buttons # m => \E e \in Range(todo') : Announces(e)
      BY <2>2, <3>1, MoveTodo
    <3> QED BY <2>2, <2>3, <3>1, <3>2 DEF TodoFollowsState, AnnouncedOrPending
  <2>7. ASSUME NEW m \in Masks, NEW w \in Workers, NEW n \in 1..MaxSteps,
               Interpolate(m, w, n)
        PROVE  Goal
    <3>1. todo' = Changed(buttons, m) \o Spawn(w, n) /\ buttons' = m
      BY <2>7 DEF Interpolate, Receive, SetButtons
    <3>2. /\ \A e \in Range(todo') :
               \/ e.do = "changed" /\ e.from = buttons /\ e.to = m
               \/ e.do = "spawn"
          /\ buttons # m => \E e \in Range(todo') : Announces(e)
      BY <2>2, <3>1, InterpolateTodo
    <3> QED BY <2>2, <2>3, <3>1, <3>2 DEF TodoFollowsState, AnnouncedOrPending
  <2>8. ASSUME NEW new, Agrees(todo', new), bits' = new, buttons' = buttons
        PROVE  Goal
    <3>1. \A e \in Range(todo') :
            \/ e.do = "tell" /\ e.value = Wanted(e.setting)'
            \/ e.do = "pump" /\ e.want = AxesMasked'
      BY <2>8, Zenon DEF Agrees, Wanted, AxesMasked
    <3>2. TodoFollowsState'
      BY <3>1 DEF TodoFollowsState
    <3> QED BY <2>2, <2>3, <2>8, <3>2 DEF AnnouncedOrPending
  <2>9. ASSUME NEW new \in SUBSET Maskable, MaskMouse(new)
        PROVE  Goal
    <3>1. Agrees(todo', new) /\ bits' = new /\ buttons' = buttons
      BY <2>9, MaskTodo DEF MaskMouse, Receive
    <3> QED BY <2>8, <3>1
  <2>10. CASE UnmaskAll
    <3>1. Agrees(todo', {}) /\ bits' = {} /\ buttons' = buttons
      BY <2>10, UnmaskTodo DEF UnmaskAll, Receive
    <3> QED BY <2>8, <3>1
  <2> QED BY <1>1, <2>3, <2>4, <2>5, <2>6, <2>7, <2>9, <2>10 DEF Dispatch
<1>2. CASE Command
  <2>1. /\ Head(todo) \in Range(todo)
        /\ \A e \in Range(todo') : e \in Range(todo) \/ e.do = "join"
        /\ \A e \in Range(todo) : e = Head(todo) \/ e \in Range(todo')
        /\ OneAnnouncement'
        /\ Announces(Head(todo)) => \A e \in Range(todo') : ~Announces(e)
    BY <1>2, CommandTodo DEF DeviceInv
  <2>2. /\ UNCHANGED <<buttons, bits>>
        /\ seen' = seen \/ Announces(Head(todo))
    BY <1>2, CommandFrame
  <2>3. \A s : Wanted(s)' = Wanted(s)
    BY <2>2 DEF Wanted
  <2>4. AxesMasked' = AxesMasked
    BY <2>2 DEF AxesMasked
  <2>5. TodoFollowsState'
    <3> SUFFICES ASSUME NEW e \in Range(todo'), e \in Range(todo)
                 PROVE  /\ e.do = "hid" => e.mask = buttons'
                        /\ e.do = "changed" => e.from = seen' /\ e.to = buttons'
                        /\ e.do = "reset" => buttons' = 0
                        /\ e.do = "tell" => e.value = Wanted(e.setting)'
                        /\ e.do = "pump" => e.want = AxesMasked'
      BY <2>1 DEF TodoFollowsState
    <3>1. /\ e.do = "hid" => e.mask = buttons
          /\ e.do = "changed" => e.from = seen /\ e.to = buttons
          /\ e.do = "reset" => buttons = 0
          /\ e.do = "tell" => e.value = Wanted(e.setting)
          /\ e.do = "pump" => e.want = AxesMasked
      BY DEF DeviceInv, TodoFollowsState
    <3>2. e.do = "changed" => seen' = seen
      BY <2>1, <2>2 DEF Announces
    <3> QED BY <2>2, <2>3, <2>4, <3>1, <3>2
  <2>6. AnnouncedOrPending'
    <3>1. CASE PublishChanged
      BY <2>1, <2>2, <3>1 DEF PublishChanged, Doing, DeviceInv,
         TodoFollowsState, AnnouncedOrPending
    <3>2. CASE PublishReset
      BY <2>1, <2>2, <3>2 DEF PublishReset, Doing, DeviceInv,
         TodoFollowsState, AnnouncedOrPending
    <3>3. CASE ~Announces(Head(todo))
      BY <2>1, <2>2, <3>3 DEF DeviceInv, AnnouncedOrPending
    <3>4. Announces(Head(todo)) => PublishChanged \/ PublishReset
      BY <1>2 DEF Command, SendInput, SendSettings, PublishEmitted,
         SpawnWorker, UpdateWatchdog, JoinWatchdog, Doing, Announces
    <3> QED BY <3>1, <3>2, <3>3, <3>4
  <2> QED BY <2>1, <2>5, <2>6
<1>3. CASE ~Dispatch /\ ~Command
  <2>1. UNCHANGED <<todo, buttons, bits, seen>>
    BY <1>3, Elsewhere
  <2>2. (\A s : Wanted(s)' = Wanted(s)) /\ AxesMasked' = AxesMasked
    BY <2>1 DEF Wanted, AxesMasked
  <2> QED BY <2>1, <2>2 DEF DeviceInv, TodoFollowsState, OneAnnouncement,
             AnnouncedOrPending
<1> QED BY <1>1, <1>2, <1>3

-----------------------------------------------------------------------------
(* What the device was told, and the pump.                                 *)

\* A setting is told as the masks ask, or about to be.
LEMMA ToldStep ==
  ASSUME DeviceInv, [Next]_vars
  PROVE  ToldOrPending'
<1>1. CASE Dispatch
  <2>1. todo = <<>> /\ LockedPart
    BY <1>1, DispatchTodo, DispatchFrame DEF DeviceInv
  <2>2. /\ told' = told /\ attached' = attached
        /\ ~attached => DOMAIN told = {}
        /\ DOMAIN told \subseteq Settings
    BY <2>1 DEF LockedPart, DeviceInv, ToldOrPending, TypeOK
  <2>3. \A s \in DOMAIN told : told[s] = WantedOf(s, bits)
    BY <2>1, NoneFacts DEF DeviceInv, ToldOrPending, TellsOf, Wanted
  <2>4. CASE bits' = bits
    BY <2>2, <2>3, <2>4 DEF ToldOrPending, Wanted
  <2>5. ASSUME NEW new \in SUBSET Maskable, MaskMouse(new)
        PROVE  ToldOrPending'
    <3>1. /\ bits' = new
          /\ \A s \in Settings : WantedOf(s, bits) # WantedOf(s, new) => TellsOf(s, todo')
      BY <2>5, MaskTodo DEF MaskMouse, Receive
    <3>2. \A s \in DOMAIN told : told[s] = WantedOf(s, new) \/ TellsOf(s, todo')
      BY <2>2, <2>3, <3>1
    <3> QED BY <2>2, <3>1, <3>2 DEF ToldOrPending, Wanted, TellsOf
  <2>6. CASE UnmaskAll
    <3>1. bits' = {} /\ \A s \in Settings \ {"Window"} : TellsOf(s, todo')
      BY <2>6, UnmaskTodo DEF UnmaskAll, Receive
    <3>2. WantedOf("Window", bits) = WantedOf("Window", {})
      BY WantedValues
    <3>3. \A s \in DOMAIN told : told[s] = WantedOf(s, {}) \/ TellsOf(s, todo')
      BY <2>2, <2>3, <3>1, <3>2
    <3> QED BY <2>2, <3>1, <3>3 DEF ToldOrPending, Wanted, TellsOf
  <2>7. bits' = bits \/ UnmaskAll \/ \E new \in SUBSET Maskable : MaskMouse(new)
    BY <1>1 DEF Dispatch, Connect, ApplyButtons, ApplyButtonsAndMove, Interpolate
  <2> QED BY <2>4, <2>5, <2>6, <2>7
<1>2. CASE Command
  <2>1. /\ Head(todo) \in Range(todo)
        /\ \A e \in Range(todo) : e = Head(todo) \/ e \in Range(todo')
    BY <1>2, CommandTodo DEF DeviceInv
  <2>2. attached' = attached /\ bits' = bits
    BY <1>2, CommandFrame
  <2>3. CASE SendSettings
    <3> DEFINE s0 == Head(todo).setting
               v0 == Head(todo).value
    <3>1. Head(todo).do = "tell" /\ SendSetting(s0, v0)
      BY <2>3 DEF SendSettings, Doing
    <3>2. v0 = Wanted(s0)
      BY <2>1, <3>1 DEF DeviceInv, TodoFollowsState
    <3>3. \A s : TellsOf(s, todo) => s = s0 \/ TellsOf(s, todo')
      BY <2>1 DEF TellsOf
    <3> HIDE DEF s0, v0
    <3>4. CASE attached
      <4>1. told' = [x \in DOMAIN told \cup {s0} |-> IF x = s0 THEN v0 ELSE told[x]]
        BY <3>1, <3>4 DEF SendSetting
      <4>2. \A s \in DOMAIN told' : told'[s] = Wanted(s) \/ TellsOf(s, todo')
        BY <3>2, <3>3, <4>1 DEF DeviceInv, ToldOrPending
      <4> QED BY <2>2, <3>4, <4>2 DEF ToldOrPending, Wanted, TellsOf
    <3>5. CASE ~attached
      <4>1. told' = told /\ DOMAIN told = {}
        BY <3>1, <3>5 DEF SendSetting, DeviceInv, ToldOrPending
      <4> QED BY <2>2, <4>1 DEF ToldOrPending
    <3> QED BY <3>4, <3>5
  <2>4. CASE ~SendSettings
    <3>1. told' = told /\ Head(todo).do # "tell"
      BY <1>2, <2>4 DEF Command, SendInput, PublishChanged, PublishEmitted,
         PublishReset, SpawnWorker, UpdateWatchdog, JoinWatchdog, Doing,
         SendHid, wireVars
    <3>2. \A s : TellsOf(s, todo) => TellsOf(s, todo')
      BY <2>1, <3>1 DEF TellsOf
    <3>3. \A s \in DOMAIN told : told[s] = Wanted(s) \/ TellsOf(s, todo')
      BY <3>2 DEF DeviceInv, ToldOrPending
    <3>4. ~attached => DOMAIN told = {}
      BY DEF DeviceInv, ToldOrPending
    <3> QED BY <2>2, <3>1, <3>3, <3>4 DEF ToldOrPending, Wanted, TellsOf
  <2> QED BY <2>3, <2>4
<1>3. CASE ~Dispatch /\ ~Command
  <2>1. UNCHANGED <<todo, bits>>
    BY <1>3, Elsewhere
  <2>2. \/ UNCHANGED <<attached, told>>
        \/ attached' /\ told' = told
        \/ told' = NothingTold
    BY <1>3, Elsewhere
  <2>3. DOMAIN NothingTold = {}
    BY DEF NothingTold
  <2> QED BY <2>1, <2>2, <2>3 DEF DeviceInv, ToldOrPending, Wanted, TellsOf
<1> QED BY <1>1, <1>2, <1>3

\* What a command changed or swept is told by the rest of that command.
LEMMA DueStep ==
  ASSUME DeviceInv, [Next]_vars
  PROVE  DueIsPending'
<1>1. CASE Dispatch
  <2>1. due = {}
    <3>1. todo = <<>> BY <1>1, DispatchTodo DEF DeviceInv
    <3> QED BY <3>1, NoneFacts DEF DeviceInv, DueIsPending, TellsOf
  <2>2. ASSUME NEW new \in SUBSET Maskable, MaskMouse(new)
        PROVE  DueIsPending'
    <3>1. \A s \in Settings : WantedOf(s, bits) # WantedOf(s, new) => TellsOf(s, todo')
      BY <2>2, MaskTodo DEF MaskMouse, Receive
    <3>2. due' \subseteq Asked(bits, new)
      BY <2>2 DEF MaskMouse
    <3> QED BY <3>1, <3>2 DEF DueIsPending, Asked, TellsOf
  <2>3. CASE UnmaskAll
    <3>1. \A s \in Settings \ {"Window"} : TellsOf(s, todo')
      BY <2>3, UnmaskTodo DEF UnmaskAll, Receive
    <3>2. due' \subseteq Settings \ {"Window"}
      BY <2>3 DEF UnmaskAll
    <3> QED BY <3>1, <3>2 DEF DueIsPending, TellsOf
  <2>4. due' = due \/ UnmaskAll \/ \E new \in SUBSET Maskable : MaskMouse(new)
    BY <1>1 DEF Dispatch, Connect, ApplyButtons, ApplyButtonsAndMove, Interpolate
  <2> QED BY <2>1, <2>2, <2>3, <2>4 DEF DueIsPending
<1>2. CASE Command
  <2>1. \A e \in Range(todo) : e = Head(todo) \/ e \in Range(todo')
    BY <1>2, CommandTodo DEF DeviceInv
  <2>2. \A s \in due : TellsOf(s, todo)
    BY DEF DeviceInv, DueIsPending
  <2>3. CASE SendSettings
    <3>1. due' = due \ {Head(todo).setting}
      BY <2>3 DEF SendSettings
    <3>2. \A s : TellsOf(s, todo) => s = Head(todo).setting \/ TellsOf(s, todo')
      BY <2>1 DEF TellsOf
    <3> QED BY <2>2, <3>1, <3>2 DEF DueIsPending, TellsOf
  <2>4. CASE ~SendSettings
    <3>1. due' = due /\ Head(todo).do # "tell"
      BY <1>2, <2>4 DEF Command, SendInput, PublishChanged, PublishEmitted,
         PublishReset, SpawnWorker, UpdateWatchdog, JoinWatchdog, Doing
    <3>2. \A s : TellsOf(s, todo) => TellsOf(s, todo')
      BY <2>1, <3>1 DEF TellsOf
    <3> QED BY <2>2, <3>1, <3>2 DEF DueIsPending, TellsOf
  <2> QED BY <2>3, <2>4
<1>3. CASE ~Dispatch /\ ~Command
  <2>1. todo' = todo /\ (due' = due \/ due' = {})
    BY <1>3, Elsewhere
  <2> QED BY <2>1 DEF DeviceInv, DueIsPending, TellsOf
<1> QED BY <1>1, <1>2, <1>3

\* The pump has a handle while an axis is masked, or a step to that effect is
\* left; without its handle it is being joined.
LEMMA PumpStep ==
  ASSUME DeviceInv, [Next]_vars
  PROVE  PumpOrPending'
<1> DEFINE Pumped == /\ main \in {"check", "recv"} =>
                          handle = AxesMasked \/ \E e \in Range(todo) : e.do = "pump"
                     /\ dog.pc # "none" =>
                          \/ handle \/ main = "join"
                          \/ \E e \in Range(todo) : e.do = "join"
<1>0. Pumped
  BY DEF DeviceInv, PumpOrPending
<1>1. CASE Dispatch
  <2>1. todo = <<>> /\ LockedPart
    BY <1>1, DispatchTodo, DispatchFrame DEF DeviceInv
  <2>2. main = "recv" /\ handle' = handle /\ dog' = dog
    BY <2>1 DEF LockedPart
  <2>3. handle = AxesMasked /\ (dog.pc # "none" => handle)
    BY <1>0, <2>1, <2>2, NoneFacts
  <2>4. AxesMasked' = AxesMasked \/ \E e \in Range(todo') : e.do = "pump"
    <3>1. CASE bits' = bits
      BY <3>1 DEF AxesMasked
    <3>2. ASSUME NEW new \in SUBSET Maskable, MaskMouse(new)
          PROVE  AxesMasked' = AxesMasked \/ \E e \in Range(todo') : e.do = "pump"
      <4>1. /\ bits' = new
            /\ (bits \cap Axes # {}) # (new \cap Axes # {}) =>
                 \E e \in Range(todo') : e.do = "pump"
        BY <3>2, MaskTodo DEF MaskMouse, Receive
      <4> QED BY <4>1 DEF AxesMasked
    <3>3. CASE UnmaskAll
      BY <3>3, UnmaskTodo DEF UnmaskAll, Receive
    <3>4. bits' = bits \/ UnmaskAll \/ \E new \in SUBSET Maskable : MaskMouse(new)
      BY <1>1 DEF Dispatch, Connect, ApplyButtons, ApplyButtonsAndMove, Interpolate
    <3> QED BY <3>1, <3>2, <3>3, <3>4
  <2> QED BY <2>2, <2>3, <2>4, Zenon DEF PumpOrPending
<1>2. CASE Command
  <2>1. /\ Head(todo) \in Range(todo)
        /\ \A e \in Range(todo) : e = Head(todo) \/ e \in Range(todo')
    BY <1>2, CommandTodo DEF DeviceInv
  <2>2. main' = main /\ AxesMasked' = AxesMasked
    BY <1>2, CommandFrame DEF AxesMasked
  <2>3. CASE UpdateWatchdog
    <3> DEFINE want == Head(todo).want
    <3>1. /\ todo # <<>> /\ Head(todo).do = "pump"
          /\ \/ want /\ ~handle /\ SpawnDog
             \/ ~want /\ handle /\ StopDog /\ todo' = JoinDog \o Tail(todo)
             \/ want = handle /\ UNCHANGED <<dog, handle>>
      BY <2>3 DEF UpdateWatchdog, Doing
    <3>2. want = AxesMasked /\ want \in BOOLEAN /\ handle \in BOOLEAN
      BY <2>1, <3>1, TodoTypes, StepFields DEF DeviceInv, TodoFollowsState, TypeOK
    <3>3. (\E e \in Range(todo) : e.do = "join") => \E e \in Range(todo') : e.do = "join"
      BY <2>1, <3>1
    <3> HIDE DEF want
    <3>4. CASE want /\ ~handle /\ SpawnDog
      <4>1. handle' = TRUE /\ AxesMasked
        BY <3>2, <3>4 DEF SpawnDog
      <4> QED BY <2>2, <4>1, Zenon DEF PumpOrPending
    <3>5. CASE ~want /\ handle /\ StopDog /\ todo' = JoinDog \o Tail(todo)
      <4>1. handle' = FALSE /\ ~AxesMasked
        BY <3>2, <3>5 DEF StopDog
      <4>2. \E e \in Range(todo') : e.do = "join"
        <5>1. Tail(todo) \in Seq(Steps)
          BY <3>1, TodoTypes DEF DeviceInv
        <5>2. [do |-> "join"] \in Range(todo')
          BY <3>5, <5>1, JoinTodo
        <5> QED BY <5>2
      <4>3. handle' = AxesMasked'
        BY <2>2, <4>1 DEF AxesMasked
      <4> QED BY <4>2, <4>3, Zenon DEF PumpOrPending
    <3>6. CASE want = handle /\ UNCHANGED <<dog, handle>>
      <4>1. handle' = AxesMasked'
        BY <2>2, <3>2, <3>6
      <4>2. dog' = dog /\ handle' = handle
        BY <3>6
      <4>3. dog'.pc # "none" =>
              handle' \/ main' = "join" \/ \E e \in Range(todo') : e.do = "join"
        BY <1>0, <2>2, <3>3, <4>2
      <4> QED BY <4>1, <4>3, Zenon DEF PumpOrPending
    <3> QED BY <3>1, <3>4, <3>5, <3>6 DEF want
  <2>4. CASE JoinWatchdog
    <3>1. /\ dog.pc = "none" /\ dog' = dog /\ handle' = handle
          /\ Head(todo).do = "join"
      BY <2>4 DEF JoinWatchdog, Doing
    <3>2. (\E e \in Range(todo) : e.do = "pump") => \E e \in Range(todo') : e.do = "pump"
      BY <2>1, <3>1
    <3> QED BY <1>0, <2>2, <3>1, <3>2, Zenon DEF PumpOrPending
  <2>5. CASE ~UpdateWatchdog /\ ~JoinWatchdog
    <3>1. /\ dog' = dog /\ handle' = handle
          /\ Head(todo).do \notin {"pump", "join"}
      BY <1>2, <2>5 DEF Command, SendInput, SendSettings, PublishChanged,
         PublishEmitted, PublishReset, SpawnWorker, Doing
    <3>2. /\ (\E e \in Range(todo) : e.do = "pump") => \E e \in Range(todo') : e.do = "pump"
          /\ (\E e \in Range(todo) : e.do = "join") => \E e \in Range(todo') : e.do = "join"
      BY <2>1, <3>1
    <3> QED BY <1>0, <2>2, <3>1, <3>2, Zenon DEF PumpOrPending
  <2> QED BY <2>3, <2>4, <2>5
<1>3. CASE ~Dispatch /\ ~Command
  <2>1. todo' = todo /\ AxesMasked' = AxesMasked
    BY <1>3, Elsewhere DEF AxesMasked
  <2>2. \/ main' = main /\ handle' = handle /\ (dog'.pc # "none" => dog.pc # "none")
        \/ /\ main \in {"check", "recv"} /\ main' \in {"check", "recv", "drop"}
           /\ handle' = handle /\ dog' = dog
        \/ main' = "join"
        \/ main' = "gone" /\ dog' = dog /\ dog.pc = "none"
    <3>1. CASE MainCheck \/ RecvTimeout
      BY <3>1 DEF MainCheck, RecvTimeout
    <3>2. CASE DropMask \/ MainExit
      BY <3>2 DEF DropMask, MainExit
    <3>3. ASSUME NEW w \in Workers, Tick(w) \/ SendMove(w) \/ PublishMove(w)
          PROVE  main' = main /\ handle' = handle /\ dog' = dog
      BY <3>3 DEF Tick, SendMove, PublishMove
    <3>4. CASE DogCheck
      BY <3>4 DEF DogCheck
    <3>5. CASE DogSnapshot
      BY <3>5 DEF DogSnapshot
    <3>6. CASE DogSend
      BY <3>6 DEF DogSend
    <3>7. CASE Attach \/ Detach \/ CtrlC
      BY <3>7 DEF Attach, Detach, CtrlC
    <3>8. CASE Exited \/ UNCHANGED vars
      BY <3>8 DEF Exited, vars
    <3> QED BY <1>3, <3>1, <3>2, <3>3, <3>4, <3>5, <3>6, <3>7, <3>8
            DEF Next, MainLoop, Interpolation, Dog
  <2>3. CASE main' = main /\ handle' = handle /\ (dog'.pc # "none" => dog.pc # "none")
    BY <1>0, <2>1, <2>3, Zenon DEF PumpOrPending
  <2>4. CASE /\ main \in {"check", "recv"} /\ main' \in {"check", "recv", "drop"}
             /\ handle' = handle /\ dog' = dog
    <3>1. main # "join"
      BY <2>4
    <3> QED BY <1>0, <2>1, <2>4, <3>1, Zenon DEF PumpOrPending
  <2>5. CASE main' = "join"
    BY <2>5 DEF PumpOrPending
  <2>6. CASE main' = "gone" /\ dog' = dog /\ dog.pc = "none"
    BY <2>6 DEF PumpOrPending
  <2> QED BY <2>2, <2>3, <2>4, <2>5, <2>6
<1> QED BY <1>1, <1>2, <1>3

-----------------------------------------------------------------------------
(* How often a thread sends an old mask.                                   *)

LEMMA StaleStep ==
  ASSUME DeviceInv, [Next]_vars
  PROVE  StaleOnce'
<1>0. /\ TypeOK
      /\ StaleOnce
      /\ late \in [Threads -> 0..2]
      /\ worker \in [Workers -> [pc : {"idle", "tick", "send", "publish"},
                                 left : 0..MaxSteps, mask : Masks]]
  BY DEF DeviceInv, TypeOK
<1>1. CASE Dispatch
  <2>1. /\ worker' = worker /\ dog' = dog
        /\ late' = IF buttons' = buttons THEN late ELSE [t \in Threads |-> 0]
    BY <1>1, DispatchFrame DEF DeviceInv, LockedPart
  <2>2. CASE buttons' = buttons
    BY <1>0, <2>1, <2>2 DEF StaleOnce
  <2>3. CASE buttons' # buttons
    <3>1. late' = [t \in Threads |-> 0]
      BY <2>1, <2>3
    <3>2. late'["main"] = 0 /\ late'["dog"] = 0 /\ \A w \in Workers : late'[w] = 0
      BY <3>1, ZeroFacts
    <3> QED BY <1>0, <2>1, <3>2 DEF StaleOnce
  <2> QED BY <2>2, <2>3
<1>2. CASE SendInput
  <2>1. /\ todo # <<>> /\ Head(todo).do = "hid"
        /\ SendHid("main", Head(todo).mask)
        /\ worker' = worker /\ dog' = dog /\ buttons' = buttons
    BY <1>2 DEF SendInput, Doing
  <2>2. Head(todo).mask \in Masks /\ Head(todo).mask = buttons
    BY <1>0, <2>1, TodoTypes, StepFields DEF DeviceInv, TodoFollowsState
  <2>3. /\ late'["main"] = late["main"]
        /\ \A t \in Threads : t # "main" => late'[t] = late[t]
    BY <1>0, <2>1, <2>2, ZeroFacts, SendHidTypes
  <2>4. late'["dog"] = late["dog"] /\ \A w \in Workers : late'[w] = late[w]
    BY <2>3, ZeroFacts
  <2> QED BY <1>0, <2>1, <2>3, <2>4 DEF StaleOnce
<1>3. CASE SpawnWorker
  <2> DEFINE v == Head(todo).worker
             n == Head(todo).steps
  <2>1. /\ todo # <<>> /\ Head(todo).do = "spawn"
        /\ worker' = [worker EXCEPT ![v] = [@ EXCEPT !.pc = "tick", !.left = n]]
        /\ late' = late /\ dog' = dog /\ buttons' = buttons
    BY <1>3 DEF SpawnWorker, Doing
  <2>2. v \in Workers /\ n \in 1..MaxSteps
    BY <1>0, <2>1, TodoTypes, StepFields
  <2> HIDE DEF v, n
  <2>3. ASSUME NEW w \in Workers
        PROVE  /\ worker'[w].pc # "idle" => worker'[w].left >= 1
               /\ late[w] <= 1
               /\ late[w] = 1 /\ worker'[w].pc = "send" => worker'[w].mask = buttons
    <3>1. CASE w = v
      <4>1. worker'[w].pc = "tick" /\ worker'[w].left = n
        BY <1>0, <2>1, <2>2, <3>1
      <4> QED BY <1>0, <2>2, <4>1, ConstantsAssumption DEF StaleOnce
    <3>2. CASE w # v
      <4>1. worker'[w] = worker[w]
        BY <1>0, <2>1, <3>2
      <4> QED BY <1>0, <4>1 DEF StaleOnce
    <3> QED BY <3>1, <3>2
  <2> QED BY <1>0, <2>1, <2>3 DEF StaleOnce
<1>4. CASE UpdateWatchdog
  <2>1. /\ worker' = worker /\ late' = late /\ buttons' = buttons
        /\ \/ dog' = [pc |-> "check", stop |-> FALSE, mask |-> 0]
           \/ dog' = [dog EXCEPT !.stop = TRUE]
           \/ dog' = dog
    BY <1>4 DEF UpdateWatchdog, SpawnDog, StopDog
  <2>2. dog'.pc = "send" => dog.pc = "send" /\ dog'.mask = dog.mask
    BY <2>1 DEF DeviceInv, TypeOK
  <2> QED BY <1>0, <2>1, <2>2 DEF StaleOnce
<1>5. ASSUME NEW w \in Workers, Tick(w) \/ SendMove(w) \/ PublishMove(w)
      PROVE  StaleOnce'
  <2>1. dog' = dog /\ buttons' = buttons
    BY <1>5 DEF Tick, SendMove, PublishMove
  <2>2. \A u \in Workers : u # w => worker'[u] = worker[u]
    BY <1>0, <1>5 DEF Tick, SendMove, PublishMove
  <2>3. /\ w \in Threads /\ w # "main" /\ w # "dog"
        /\ worker[w].left \in Nat /\ late[w] \in Nat
    BY <1>0, ZeroFacts, ConstantsAssumption
  <2>4. /\ worker'[w].pc # "idle" => worker'[w].left >= 1
        /\ late'[w] <= 1
        /\ late'[w] = 1 /\ worker'[w].pc = "send" => worker'[w].mask = buttons
        /\ \A t \in Threads : t # w => late'[t] = late[t]
    <3>1. CASE Tick(w)
      <4>1. /\ worker'[w].pc = "send" /\ worker'[w].mask = buttons
            /\ worker'[w].left = worker[w].left /\ late' = late
            /\ worker[w].pc = "tick"
        BY <1>0, <3>1 DEF Tick
      <4> QED BY <1>0, <4>1 DEF StaleOnce
    <3>2. CASE SendMove(w)
      <4>1. /\ worker'[w].pc = "publish" /\ worker'[w].left = worker[w].left
            /\ worker[w].pc = "send"
            /\ SendHid(w, worker[w].mask) /\ worker[w].mask \in Masks
        BY <1>0, <3>2 DEF SendMove
      <4>2. /\ \A t \in Threads : t # w => late'[t] = late[t]
            /\ worker[w].mask = buttons => late'[w] = late[w]
            /\ late'[w] <= late[w] + 1
        BY <1>0, <2>3, <4>1, SendHidTypes
      <4>3. late[w] = 0 \/ (late[w] = 1 /\ worker[w].mask = buttons)
        BY <1>0, <2>3, <4>1 DEF StaleOnce
      <4>4. late'[w] <= 1
        BY <4>2, <4>3
      <4> QED BY <1>0, <4>1, <4>2, <4>4 DEF StaleOnce
    <3>3. CASE PublishMove(w)
      <4>1. /\ worker'[w].left = worker[w].left - 1 /\ late' = late
            /\ worker'[w].pc = IF worker[w].left = 1 THEN "idle" ELSE "tick"
            /\ worker[w].pc = "publish"
        BY <1>0, <3>3 DEF PublishMove
      <4>2. worker[w].left >= 1 /\ late[w] <= 1
        BY <1>0, <4>1 DEF StaleOnce
      <4> QED BY <2>3, <4>1, <4>2
    <3> QED BY <1>5, <3>1, <3>2, <3>3
  <2>5. late'["main"] = late["main"] /\ late'["dog"] = late["dog"]
    BY <2>3, <2>4, ZeroFacts
  <2>6. \A u \in Workers : u # w => late'[u] = late[u]
    BY <2>4, ZeroFacts
  <2>7. ASSUME NEW u \in Workers
        PROVE  /\ worker'[u].pc # "idle" => worker'[u].left >= 1
               /\ late'[u] <= 1
               /\ late'[u] = 1 /\ worker'[u].pc = "send" => worker'[u].mask = buttons
    <3>1. CASE u = w
      BY <2>4, <3>1
    <3>2. CASE u # w
      BY <1>0, <2>2, <2>6, <3>2 DEF StaleOnce
    <3> QED BY <3>1, <3>2
  <2> QED BY <1>0, <2>1, <2>5, <2>7 DEF StaleOnce
<1>6. CASE DogCheck
  <2>1. /\ worker' = worker /\ late' = late /\ buttons' = buttons
        /\ dog'.pc # "send"
    BY <1>6 DEF DogCheck, DeviceInv, TypeOK
  <2> QED BY <1>0, <2>1 DEF StaleOnce
<1>7. CASE DogSnapshot
  <2>1. /\ worker' = worker /\ late' = late /\ buttons' = buttons
        /\ dog'.mask = buttons
    BY <1>7 DEF DogSnapshot, DeviceInv, TypeOK
  <2> QED BY <1>0, <2>1 DEF StaleOnce
<1>8. CASE DogSend
  <2>1. /\ worker' = worker /\ buttons' = buttons /\ dog.pc = "send"
        /\ SendHid("dog", dog.mask) /\ dog.mask \in Masks
        /\ dog'.pc # "send"
    BY <1>8 DEF DogSend, DeviceInv, TypeOK
  <2>2. /\ \A t \in Threads : t # "dog" => late'[t] = late[t]
        /\ dog.mask = buttons => late'["dog"] = late["dog"]
        /\ late'["dog"] <= late["dog"] + 1
    BY <1>0, <2>1, ZeroFacts, SendHidTypes
  <2>3. late["dog"] \in Nat
    BY <1>0, ZeroFacts
  <2>4. late["dog"] = 0 \/ (late["dog"] = 1 /\ dog.mask = buttons)
    BY <1>0, <2>1, <2>3 DEF StaleOnce
  <2>5. late'["dog"] <= 1
    BY <2>2, <2>4
  <2>6. late'["main"] = late["main"] /\ \A w \in Workers : late'[w] = late[w]
    BY <2>2, ZeroFacts
  <2> QED BY <1>0, <2>1, <2>5, <2>6 DEF StaleOnce
<1>9. CASE DropMask
  <2>1. /\ worker' = worker /\ late' = late /\ buttons' = buttons
        /\ dog' = dog \/ dog' = [dog EXCEPT !.stop = TRUE]
    BY <1>9 DEF DropMask, StopDog
  <2>2. dog'.pc = dog.pc /\ dog'.mask = dog.mask
    BY <2>1 DEF DeviceInv, TypeOK
  <2> QED BY <1>0, <2>1, <2>2 DEF StaleOnce
<1>10. ASSUME worker' = worker, late' = late, buttons' = buttons, dog' = dog
       PROVE  StaleOnce'
  BY <1>0, <1>10 DEF StaleOnce
<1>11. CASE \/ SendSettings \/ PublishChanged \/ PublishEmitted \/ PublishReset
            \/ JoinWatchdog
  BY <1>10, <1>11 DEF SendSettings, PublishChanged, PublishEmitted,
     PublishReset, JoinWatchdog
<1>12. CASE \/ MainCheck \/ RecvTimeout \/ MainExit \/ Attach \/ Detach
            \/ CtrlC \/ Exited \/ UNCHANGED vars
  BY <1>10, <1>12 DEF MainCheck, RecvTimeout, MainExit, Attach, Detach, CtrlC,
     Exited, vars
<1> QED BY <1>1, <1>2, <1>3, <1>4, <1>5, <1>6, <1>7, <1>8, <1>9, <1>11, <1>12
        DEF Next, Command, MainLoop, Interpolation, Dog

-----------------------------------------------------------------------------
(* The theorems.                                                           *)

\* Where a run starts: nothing is masked, told or left to do.
LEMMA InitInv == Init => DeviceInv
<1> SUFFICES ASSUME Init
             PROVE  DeviceInv
  OBVIOUS
<1> USE DEF Init
<1>1. todo = <<>> /\ Range(todo) = {} /\ <<>> \in Seq(Steps) /\ AnnouncesOnce(todo)
  BY NoneFacts
<1>2. DOMAIN told = {}
  BY DEF NothingTold
<1>3. /\ 0 \in Masks /\ late["main"] = 0 /\ late["dog"] = 0
      /\ \A w \in Workers : late[w] = 0
  BY ZeroFacts
<1>4. MaxSteps \in Nat
  BY ConstantsAssumption
<1>5. TypeOK
  <2>1. worker \in [Workers -> [pc : {"idle", "tick", "send", "publish"},
                                left : 0..MaxSteps, mask : Masks]]
    BY <1>3, <1>4
  <2>2. dog \in [pc : {"none", "check", "pump", "send"}, stop : BOOLEAN, mask : Masks]
    BY <1>3
  <2>3. late \in [Threads -> 0..2]
    OBVIOUS
  <2>4. todo \in Seq(Steps)
    BY <1>1
  <2> QED BY <1>2, <1>3, <2>1, <2>2, <2>3, <2>4 DEF TypeOK
<1>6. TodoFollowsState /\ OneAnnouncement /\ AnnouncedOrPending
  BY <1>1 DEF TodoFollowsState, OneAnnouncement, AnnouncedOrPending
<1>7. ToldOrPending /\ DueIsPending
  BY <1>2 DEF ToldOrPending, DueIsPending
<1>8. ~AxesMasked
  BY DEF AxesMasked
<1>9. handle = AxesMasked
  BY <1>8 DEF AxesMasked
<1>10. PumpOrPending
  BY <1>9 DEF PumpOrPending
<1>11. StaleOnce
  BY <1>3 DEF StaleOnce
<1> QED BY <1>5, <1>6, <1>7, <1>10, <1>11 DEF DeviceInv

\* The state and what is left of a command agree, always (device.rs,
\* mask/controller.rs, mask/watchdog.rs).
THEOREM DeviceInvariant == Spec => []DeviceInv
<1>1. DeviceInv /\ [Next]_vars => DeviceInv'
  <2> SUFFICES ASSUME DeviceInv, [Next]_vars
               PROVE  DeviceInv'
    OBVIOUS
  <2>1. TypeOK'
    BY TypeStep
  <2>2. TodoFollowsState' /\ OneAnnouncement' /\ AnnouncedOrPending'
    BY TodoStep
  <2>3. ToldOrPending' /\ DueIsPending' /\ PumpOrPending' /\ StaleOnce'
    BY ToldStep, DueStep, PumpStep, StaleStep
  <2> QED BY <2>1, <2>2, <2>3 DEF DeviceInv
<1> QED BY <1>1, InitInv, PTL DEF Spec

\* Every variable keeps its type.
THEOREM DeviceTypes == Spec => []TypeOK
<1>1. DeviceInv => TypeOK
  BY DEF DeviceInv
<1> QED BY <1>1, DeviceInvariant, PTL

\* After a change of the mask no thread sends more than one packet with an
\* older one (translator.rs:466-472, watchdog.rs:66-69).
THEOREM StaleAtMostOnce == Spec => []OneStalePacket
<1>1. DeviceInv => OneStalePacket
  BY DEF DeviceInv, StaleOnce, OneStalePacket, Threads
<1> QED BY <1>1, DeviceInvariant, PTL

\* ButtonsChanged and Reset, followed from the start, give the mask
\* (device.rs:90-117, 243-265, 304-314).
THEOREM EventsChain == Spec => []EventsRebuildMask
<1>1. ASSUME DeviceInv
      PROVE  EventsRebuildMask
  <2>1. \A i \in DOMAIN todo : todo[i] \in Range(todo)
    BY DEF Range
  <2>2. \A e \in Range(todo) : \E i \in DOMAIN todo : e = todo[i]
    BY DEF Range
  <2> QED BY <1>1, <2>1, <2>2 DEF DeviceInv, TodoFollowsState,
             AnnouncedOrPending, Announces, EventsRebuildMask
<1> QED BY <1>1, DeviceInvariant, PTL

\* Between commands of a session nothing that they changed or swept is still
\* to be told, and what was told is what the masks in force ask
\* (mask/controller.rs:71-262).
THEOREM SettingsAgree == Spec => []SettingsFollowShadow
<1>1. ASSUME DeviceInv
      PROVE  SettingsFollowShadow
  <2> SUFFICES ASSUME Idle
               PROVE  due = {} /\ \A s \in DOMAIN told : told[s] = Wanted(s)
    BY DEF SettingsFollowShadow
  <2>1. \A s : ~TellsOf(s, todo)
    BY NoneFacts DEF Idle, TellsOf
  <2> QED BY <1>1, <2>1 DEF DeviceInv, ToldOrPending, DueIsPending
<1> QED BY <1>1, DeviceInvariant, PTL

\* Between commands the pump runs while an axis is masked, and never without
\* its handle (mask/controller.rs:277-293, mask/watchdog.rs:81-86).
THEOREM PumpAgreesWithMasks == Spec => []PumpFollowsShadow
<1>1. ASSUME DeviceInv
      PROVE  PumpFollowsShadow
  <2> SUFFICES ASSUME Idle, main \in {"check", "recv"}
               PROVE  /\ handle <=> bits \cap Axes # {}
                      /\ dog.pc # "none" => handle
    BY DEF PumpFollowsShadow
  <2>1. Range(todo) = {} /\ main # "join"
    BY NoneFacts DEF Idle
  <2>2. handle = AxesMasked /\ (dog.pc # "none" => handle)
    BY <1>1, <2>1 DEF DeviceInv, PumpOrPending
  <2> QED BY <2>2 DEF AxesMasked
<1> QED BY <1>1, DeviceInvariant, PTL

\* Between commands the device does what the commands of this session ask,
\* the pump included (mask/controller.rs:71-293); what was asked before the
\* session is lost, and no part of it.
THEOREM MasksAreFollowed == Spec => []DeviceFollowsMasks
<1>1. SettingsFollowShadow /\ PumpFollowsShadow => DeviceFollowsMasks
  BY DEF DeviceFollowsMasks
<1> QED BY <1>1, SettingsAgree, PumpAgreesWithMasks, PTL
=============================================================================
