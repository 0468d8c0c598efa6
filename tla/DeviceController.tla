-------------------------- MODULE DeviceController --------------------------
(***************************************************************************)
(* The state of the proxied mouse and the threads that change it and send  *)
(* packets about it: the UDP main thread, which dispatches one KMBox       *)
(* opcode at a time (translator.rs) through the DeviceController           *)
(* (device.rs) and the MaskController (mask/controller.rs); the            *)
(* interpolation workers it spawns; and the sens-reduction watchdog        *)
(* (mask/watchdog.rs).                                                     *)
(*                                                                         *)
(* Every apply_* call locks the state, changes it and builds the packet,   *)
(* unlocks, then sends, then publishes: those are separate steps here and  *)
(* other threads run between them.  The serial channel and the event bus   *)
(* are FIFO, so what matters of them is what their reader makes of them:   *)
(*                                                                         *)
(*   - told: the settings the device was told in this session; hid: the    *)
(*     buttons of the last input packet it was sent in this session;       *)
(*   - seen: the mask a bus subscriber rebuilds from ButtonsChanged and    *)
(*     Reset.                                                              *)
(*                                                                         *)
(* A session comes and goes at any time (module Session): its device       *)
(* starts with nothing told.                                               *)
(***************************************************************************)
EXTENDS Naturals, Sequences, Functions

CONSTANTS
  Maskable,  \* what the host masks: of the buttons, the axes and the wheel
  Masks,     \* button masks an opcode carries
  Workers,   \* bound: interpolations under way at once
  MaxSteps   \* bound: packets of one interpolation

Buttons == {"Lmb", "Rmb", "Mmb", "Side1", "Side2"}
Axes    == {"X", "Y"}
NoMask  == 256   \* no input packet yet; a button mask is one byte

ASSUME ConstantsAssumption ==
  /\ Maskable \subseteq Buttons \cup Axes \cup {"Wheel"}
  /\ Masks \subseteq 0..255 /\ 0 \in Masks
  /\ MaxSteps \in Nat \ {0}
  /\ {"main", "dog"} \cap Workers = {}

VARIABLES
  running,    \* the daemon's flag
  attached,   \* the slot holds a session's Sender
  main,       \* the main thread: "check", "recv", "drop", "join", "gone"
  todo,       \* what is left of the command the main thread is executing
  buttons,    \* DeviceState.button_mask
  bits,       \* MaskState.mouse_bits, as the set of what is masked
  worker,     \* the interpolation threads
  dog,        \* the watchdog thread
  handle,     \* MaskController.watchdog is Some
  told, hid, seen,
  late,       \* history: input packets each thread sent since the latest
              \* change of the mask that carry another mask
  due         \* history: settings on which a command of this session
              \* changed what the host asks, or which it swept, and which
              \* the device was not told since

wireVars == <<told, hid>>
vars == <<running, attached, main, todo, buttons, bits, worker, dog, handle,
          wireVars, seen, late, due>>

Settings == Buttons \cup Axes \cup {"Enable", "Window"}
Values   == {0, 1, 100}
NothingTold == [s \in {} |-> 0]
Threads  == Workers \cup {"main", "dog"}

-----------------------------------------------------------------------------
(* What is left of a command is a sequence of these.                       *)

Hid(m)      == <<[do |-> "hid", mask |-> m]>>
Tell(s, v)  == <<[do |-> "tell", setting |-> s, value |-> v]>>
Emitted(m)  == <<[do |-> "emitted", mask |-> m]>>
Reset       == <<[do |-> "reset"]>>
Spawn(w, n) == <<[do |-> "spawn", worker |-> w, steps |-> n]>>
Pump(want)  == <<[do |-> "pump", want |-> want]>>
JoinDog     == <<[do |-> "join"]>>

\* ButtonsChanged is published iff the mask changed.
Changed(from, to) ==
  IF from = to THEN <<>> ELSE <<[do |-> "changed", from |-> from, to |-> to]>>

Steps ==
       [do : {"hid", "emitted"}, mask : Masks]
  \cup [do : {"tell"}, setting : Settings, value : Values]
  \cup [do : {"reset", "join"}]
  \cup [do : {"spawn"}, worker : Workers, steps : 1..MaxSteps]
  \cup [do : {"pump"}, want : BOOLEAN]
  \cup [do : {"changed"}, from : Masks, to : Masks]

TypeOK ==
  /\ running \in BOOLEAN
  /\ attached \in BOOLEAN
  /\ main \in {"check", "recv", "drop", "join", "gone"}
  /\ todo \in Seq(Steps)
  /\ buttons \in Masks
  /\ bits \subseteq Maskable
  /\ worker \in [Workers -> [pc : {"idle", "tick", "send", "publish"},
                             left : 0..MaxSteps, mask : Masks]]
  /\ dog \in [pc : {"none", "check", "pump", "send"}, stop : BOOLEAN,
              mask : Masks]
  /\ handle \in BOOLEAN
  /\ DOMAIN told \subseteq Settings /\ \A s \in DOMAIN told : told[s] \in Values
  /\ hid \in Masks \cup {NoMask}
  /\ seen \in Masks
  /\ late \in [Threads -> 0..2]
  /\ due \subseteq Settings

Init ==
  /\ running = TRUE
  /\ attached = FALSE
  /\ main = "check"
  /\ todo = <<>>
  /\ buttons = 0
  /\ bits = {}
  /\ worker = [w \in Workers |-> [pc |-> "idle", left |-> 0, mask |-> 0]]
  /\ dog = [pc |-> "none", stop |-> FALSE, mask |-> 0]
  /\ handle = FALSE
  /\ told = NothingTold
  /\ hid = NoMask
  /\ seen = 0
  /\ late = [t \in Threads |-> 0]
  /\ due = {}

-----------------------------------------------------------------------------
(* Shared pieces of the calls.                                             *)

\* The state mutex: adopt the mask m.  Only the main thread does.
SetButtons(m) ==
  /\ buttons' = m
  /\ late' = IF m = buttons THEN late ELSE [t \in Threads |-> 0]

\* send_serial of an input packet: dropped when no session is open.
SendHid(t, m) ==
  /\ hid' = IF attached THEN m ELSE hid
  /\ late' = IF attached /\ m # buttons /\ late[t] < 2
             THEN [late EXCEPT ![t] = @ + 1] ELSE late
  /\ UNCHANGED told

\* send_serial of a settings packet.
SendSetting(s, v) ==
  /\ told' = IF attached
             THEN [x \in DOMAIN told \cup {s} |-> IF x = s THEN v ELSE told[x]]
             ELSE told
  /\ UNCHANGED hid

-----------------------------------------------------------------------------
(* A datagram arrives: Translator::dispatch does the part of the call that *)
(* holds the state's lock, and leaves the rest in todo.                    *)

Receive(rest) ==
  /\ main = "recv"
  /\ todo = <<>>
  /\ main' = "check"
  /\ todo' = rest
  /\ UNCHANGED <<running, attached, worker, dog, handle, wireVars, seen>>

\* Mutant: the reset is not published.
ConnectSilently ==
  /\ Receive(<<>>)
  /\ SetButtons(0)
  /\ UNCHANGED <<bits, due>>

\* cmd_connect: DeviceController::reset.
Connect ==
  /\ Receive(Reset)
  /\ SetButtons(0)
  /\ UNCHANGED <<bits, due>>

\* cmd_mouse_left, right and middle: apply_buttons.
ApplyButtons(m) ==
  /\ Receive(Hid(m) \o Changed(buttons, m))
  /\ SetButtons(m)
  /\ UNCHANGED <<bits, due>>

\* cmd_mouse_move and cmd_mouse_wheel: apply_buttons_and_move or _and_wheel.
ApplyButtonsAndMove(m) ==
  /\ Receive(Hid(m) \o Changed(buttons, m) \o Emitted(m))
  /\ SetButtons(m)
  /\ UNCHANGED <<bits, due>>

\* cmd_mouse_automove and cmd_bazier_move: set_button_mask_silent, then a
\* worker of n steps.
Interpolate(m, w, n) ==
  /\ worker[w].pc = "idle"
  /\ Receive(Changed(buttons, m) \o Spawn(w, n))
  /\ SetButtons(m)
  /\ UNCHANGED <<bits, due>>

\* emit_setting of the passthrough of each button of B.
TellButtons(B, new) ==
  LET One(b) == IF b \in B THEN Tell(b, IF b \in new THEN 1 ELSE 0) ELSE <<>>
  IN One("Lmb") \o One("Rmb") \o One("Mmb") \o One("Side1") \o One("Side2")

Amount(axis, new) == IF axis \in new THEN 0 ELSE 100

\* What a set of masks asks of the setting s.
WantedOf(s, masks) ==
  CASE s \in Buttons  -> IF s \in masks THEN 1 ELSE 0
    [] s \in Axes     -> Amount(s, masks)
    [] s = "Enable"   -> IF masks \cap Axes # {} THEN 1 ELSE 0
    [] s = "Window"   -> 100

\* The settings on which a change of the masks changes what is asked.
Asked(old, new) == {s \in Settings : WantedOf(s, old) # WantedOf(s, new)}

\* Mutant: the master enable follows X alone.
TellAxesByX(old, new) ==
  LET moved == ((old \ new) \cup (new \ old)) \cap Axes
  IN IF moved = {} THEN <<>>
     ELSE (IF "X" \in moved /\ "X" \in new
           THEN Tell("Enable", 1) \o Tell("Window", 100) ELSE <<>>)
          \o (IF "X" \in moved THEN Tell("X", Amount("X", new)) ELSE <<>>)
          \o (IF "Y" \in moved THEN Tell("Y", Amount("Y", new)) ELSE <<>>)
          \o (IF "X" \in moved /\ "X" \notin new THEN Tell("Enable", 0)
              ELSE <<>>)
          \o Pump(new \cap Axes # {})

\* The sens-reduction settings of a transition from old to new, and the
\* watchdog's start or stop after them.
TellAxes(old, new) ==
  LET moved == ((old \ new) \cup (new \ old)) \cap Axes
      was == old \cap Axes # {}
      now == new \cap Axes # {}
  IN IF moved = {} THEN <<>>
     ELSE (IF now /\ ~was THEN Tell("Enable", 1) \o Tell("Window", 100)
           ELSE <<>>)
          \o (IF "X" \in moved THEN Tell("X", Amount("X", new)) ELSE <<>>)
          \o (IF "Y" \in moved THEN Tell("Y", Amount("Y", new)) ELSE <<>>)
          \o (IF was /\ ~now THEN Tell("Enable", 0) ELSE <<>>)
          \o Pump(now)

\* cmd_mask_mouse: MaskController::apply_mask_mouse.
MaskMouse(new) ==
  /\ Receive(TellButtons((bits \ new) \cup (new \ bits), new)
             \o TellAxes(bits, new))
  /\ bits' = new
  /\ due' = IF attached THEN Asked(bits, new) ELSE {}
  /\ UNCHANGED <<buttons, late>>

\* cmd_unmask_all: MaskController::apply_unmask_all tells everything,
\* whatever the shadow says.
UnmaskAll ==
  /\ Receive(TellButtons(Buttons, {}) \o Tell("X", 100) \o Tell("Y", 100)
             \o Tell("Enable", 0) \o Pump(FALSE))
  /\ bits' = {}
  /\ due' = IF attached THEN Settings \ {"Window"} ELSE {}
  /\ UNCHANGED <<buttons, late>>

Dispatch ==
  \/ Connect
  \/ \E m \in Masks : ApplyButtons(m) \/ ApplyButtonsAndMove(m)
  \/ \E m \in Masks, w \in Workers, n \in 1..MaxSteps : Interpolate(m, w, n)
  \/ \E new \in SUBSET Maskable : MaskMouse(new)
  \/ UnmaskAll

-----------------------------------------------------------------------------
(* The rest of the command, one step at a time.                            *)

Doing(what) == todo # <<>> /\ Head(todo).do = what

Done == todo' = Tail(todo)

SendInput ==
  /\ Doing("hid")
  /\ Done
  /\ SendHid("main", Head(todo).mask)
  /\ UNCHANGED <<running, attached, main, buttons, bits, worker, dog, handle,
                 seen, due>>

SendSettings ==
  /\ Doing("tell")
  /\ Done
  /\ SendSetting(Head(todo).setting, Head(todo).value)
  /\ due' = due \ {Head(todo).setting}
  /\ UNCHANGED <<running, attached, main, buttons, bits, worker, dog, handle,
                 seen, late>>

PublishChanged ==
  /\ Doing("changed")
  /\ Done
  /\ seen' = Head(todo).to
  /\ UNCHANGED <<running, attached, main, buttons, bits, worker, dog, handle,
                 wireVars, late, due>>

\* MoveEmitted: its mask is a report, from which `seen` is not rebuilt.
PublishEmitted ==
  /\ Doing("emitted")
  /\ Done
  /\ UNCHANGED <<running, attached, main, buttons, bits, worker, dog, handle,
                 wireVars, seen, late, due>>

PublishReset ==
  /\ Doing("reset")
  /\ Done
  /\ seen' = 0
  /\ UNCHANGED <<running, attached, main, buttons, bits, worker, dog, handle,
                 wireVars, late, due>>

SpawnWorker ==
  /\ Doing("spawn")
  /\ Done
  /\ worker' = [worker EXCEPT ![Head(todo).worker] =
                  [@ EXCEPT !.pc = "tick", !.left = Head(todo).steps]]
  /\ UNCHANGED <<running, attached, main, buttons, bits, dog, handle,
                 wireVars, seen, late, due>>

\* Watchdog::spawn and the first half of Watchdog::stop.
SpawnDog ==
  /\ dog' = [pc |-> "check", stop |-> FALSE, mask |-> 0]
  /\ handle' = TRUE

StopDog ==
  /\ dog' = [dog EXCEPT !.stop = TRUE]
  /\ handle' = FALSE

\* update_watchdog: the stop waits, still in the same call, for the thread.
UpdateWatchdog ==
  /\ Doing("pump")
  /\ LET want == Head(todo).want
     IN \/ want /\ ~handle /\ SpawnDog /\ Done
        \/ ~want /\ handle /\ StopDog /\ todo' = JoinDog \o Tail(todo)
        \/ want = handle /\ Done /\ UNCHANGED <<dog, handle>>
  /\ UNCHANGED <<running, attached, main, buttons, bits, worker, wireVars,
                 seen, late, due>>

JoinWatchdog ==
  /\ Doing("join")
  /\ dog.pc = "none"
  /\ Done
  /\ UNCHANGED <<running, attached, main, buttons, bits, worker, dog, handle,
                 wireVars, seen, late, due>>

Command ==
  \/ SendInput \/ SendSettings
  \/ PublishChanged \/ PublishEmitted \/ PublishReset
  \/ SpawnWorker \/ UpdateWatchdog \/ JoinWatchdog

-----------------------------------------------------------------------------
(* The interpolation worker: apply_move at every tick.                     *)

\* apply_move takes the current mask under the lock.
Tick(w) ==
  /\ main # "gone"
  /\ worker[w].pc = "tick"
  /\ worker' = [worker EXCEPT ![w].pc = "send", ![w].mask = buttons]
  /\ UNCHANGED <<running, attached, main, todo, buttons, bits, dog, handle,
                 wireVars, seen, late, due>>

SendMove(w) ==
  /\ main # "gone"
  /\ worker[w].pc = "send"
  /\ SendHid(w, worker[w].mask)
  /\ worker' = [worker EXCEPT ![w].pc = "publish"]
  /\ UNCHANGED <<running, attached, main, todo, buttons, bits, dog, handle,
                 seen, due>>

\* Mutants: one packet too many; the mask read once, before the loop.
PublishMoveOneMore(w) ==
  /\ main # "gone"
  /\ worker[w].pc = "publish"
  /\ worker' = [worker EXCEPT
       ![w].left = @ - 1,
       ![w].pc = IF worker[w].left = 0 THEN "idle" ELSE "tick"]
  /\ UNCHANGED <<running, attached, main, todo, buttons, bits, dog, handle,
                 wireVars, seen, late, due>>

PublishMoveReadOnce(w) ==
  /\ main # "gone"
  /\ worker[w].pc = "publish"
  /\ worker' = [worker EXCEPT
       ![w].left = @ - 1,
       ![w].pc = IF worker[w].left = 1 THEN "idle" ELSE "send"]
  /\ UNCHANGED <<running, attached, main, todo, buttons, bits, dog, handle,
                 wireVars, seen, late, due>>

PublishMove(w) ==
  /\ main # "gone"
  /\ worker[w].pc = "publish"
  /\ worker' = [worker EXCEPT
       ![w].left = @ - 1,
       ![w].pc = IF worker[w].left = 1 THEN "idle" ELSE "tick"]
  /\ UNCHANGED <<running, attached, main, todo, buttons, bits, dog, handle,
                 wireVars, seen, late, due>>

Interpolation(w) == Tick(w) \/ SendMove(w) \/ PublishMove(w)

-----------------------------------------------------------------------------
(* The watchdog.                                                           *)

\* Mutant: the loop looks only at the daemon's flag.
DogCheckRunningOnly ==
  /\ main # "gone"
  /\ dog.pc = "check"
  /\ dog' = [dog EXCEPT !.pc = IF ~running THEN "none" ELSE "pump"]
  /\ UNCHANGED <<running, attached, main, todo, buttons, bits, worker, handle,
                 wireVars, seen, late, due>>

\* The loop's condition: the thread ends, or the pump interval has passed.
DogCheck ==
  /\ main # "gone"
  /\ dog.pc = "check"
  /\ dog' = [dog EXCEPT !.pc = IF dog.stop \/ ~running THEN "none" ELSE "pump"]
  /\ UNCHANGED <<running, attached, main, todo, buttons, bits, worker, handle,
                 wireVars, seen, late, due>>

DogSnapshot ==
  /\ main # "gone"
  /\ dog.pc = "pump"
  /\ dog' = [dog EXCEPT !.pc = "send", !.mask = buttons]
  /\ UNCHANGED <<running, attached, main, todo, buttons, bits, worker, handle,
                 wireVars, seen, late, due>>

\* Mutant: the pump ends after one packet.
DogSendOnce ==
  /\ main # "gone"
  /\ dog.pc = "send"
  /\ SendHid("dog", dog.mask)
  /\ dog' = [dog EXCEPT !.pc = "none", !.mask = 0]
  /\ UNCHANGED <<running, attached, main, todo, buttons, bits, worker, handle,
                 seen, due>>

\* apply_axis_mask_rearm: an input packet with wheel = 1, and no event.
DogSend ==
  /\ main # "gone"
  /\ dog.pc = "send"
  /\ SendHid("dog", dog.mask)
  /\ dog' = [dog EXCEPT !.pc = "check", !.mask = 0]
  /\ UNCHANGED <<running, attached, main, todo, buttons, bits, worker, handle,
                 seen, due>>

Dog == DogCheck \/ DogSnapshot \/ DogSend

-----------------------------------------------------------------------------
(* The session, the main loop and the end.                                 *)

\* The slot is None again: nothing is known of the next session's device.
ClearSlot ==
  /\ attached' = FALSE
  /\ told' = NothingTold
  /\ hid' = NoMask
  /\ due' = {}

\* The supervisor publishes a Sender: a device nothing was told to.
Attach ==
  /\ main # "gone"
  /\ ~attached
  /\ attached' = TRUE
  /\ UNCHANGED <<running, main, todo, buttons, bits, worker, dog, handle,
                 wireVars, seen, late, due>>

Detach ==
  /\ main # "gone"
  /\ attached
  /\ ClearSlot
  /\ UNCHANGED <<running, main, todo, buttons, bits, worker, dog, handle,
                 seen, late>>

CtrlC ==
  /\ main # "gone"
  /\ running
  /\ running' = FALSE
  /\ UNCHANGED <<attached, main, todo, buttons, bits, worker, dog, handle,
                 wireVars, seen, late, due>>

\* The head of the receive loop.  A stopping main thread clears the slot.
MainCheck ==
  /\ main = "check"
  /\ todo = <<>>
  /\ main' = IF running THEN "recv" ELSE "drop"
  /\ IF running THEN UNCHANGED <<attached, wireVars, due>> ELSE ClearSlot
  /\ UNCHANGED <<running, todo, buttons, bits, worker, dog, handle, seen,
                 late>>

RecvTimeout ==
  /\ main = "recv"
  /\ todo = <<>>
  /\ main' = "check"
  /\ UNCHANGED <<running, attached, todo, buttons, bits, worker, dog, handle,
                 wireVars, seen, late, due>>

\* The MaskController is dropped when run() returns.
DropMask ==
  /\ main = "drop"
  /\ main' = "join"
  /\ IF handle THEN StopDog ELSE UNCHANGED <<dog, handle>>
  /\ UNCHANGED <<running, attached, todo, buttons, bits, worker, wireVars,
                 seen, late, due>>

MainExit ==
  /\ main = "join"
  /\ dog.pc = "none"
  /\ main' = "gone"
  /\ UNCHANGED <<running, attached, todo, buttons, bits, worker, dog, handle,
                 wireVars, seen, late, due>>

Exited == main = "gone" /\ UNCHANGED vars

MainLoop == MainCheck \/ RecvTimeout \/ DropMask \/ MainExit

Next ==
  \/ Dispatch \/ Command \/ MainLoop
  \/ \E w \in Workers : Interpolation(w)
  \/ Dog
  \/ Attach \/ Detach \/ CtrlC
  \/ Exited

\* The scheduler runs every thread; the lock is never held across a wait.  Each
\* subscript is what every step of its thread changes.
Fairness ==
  /\ WF_todo(Command)
  /\ WF_main(MainLoop)
  /\ WF_dog(Dog)
  /\ \A w \in Workers : WF_worker(Interpolation(w))

Spec == Init /\ [][Next]_vars /\ Fairness

-----------------------------------------------------------------------------
(* Properties.                                                             *)

Idle == todo = <<>>

\* What the masks in force ask.
Wanted(s) == WantedOf(s, bits)

\* The diffs of cmd_mask_mouse add up: between commands the device has been
\* told all that commands of its session changed or swept, and whatever it
\* was told agrees with the masks in force, over any history of masks, lost
\* devices and new sessions; so after an unmask_all its settings are clean,
\* even if the shadow had drifted (mask/controller.rs:71-262).  Of masks set
\* with no device, or in an earlier session, it says nothing: they are lost
\* (WindowStaysArmed).
SettingsFollowShadow ==
  Idle => /\ due = {}
          /\ \A s \in DOMAIN told : told[s] = Wanted(s)

\* Between commands the pump has a handle exactly while an axis is masked,
\* and no pump thread outlives its handle: stop() joins it, so no wheel = 1
\* packet follows the end of the command that stopped it
\* (mask/controller.rs:277-293, mask/watchdog.rs:81-86).
PumpFollowsShadow ==
  Idle /\ main \in {"check", "recv"} =>
    /\ handle <=> bits \cap Axes # {}
    /\ dog.pc # "none" => handle

\* Between commands the device does what the commands of this session ask,
\* and the pump runs exactly while an axis is masked.
DeviceFollowsMasks == SettingsFollowShadow /\ PumpFollowsShadow

\* "keeps the firmware's event-gated sens-reduction window armed while the
\* host has X or Y masked" (mask/watchdog.rs:1-2): between commands an
\* attached device has sens reduction enabled while an axis is masked.  The
\* code does not keep this: the shadow records what the host asked, and a
\* device that comes later is never told, while the pump sends it wheel = 1
\* packets, which without sens reduction are scrolls.
WindowStaysArmed ==
  Idle /\ running /\ attached /\ bits \cap Axes # {} =>
    "Enable" \in DOMAIN told /\ told["Enable"] = 1

\* A subscriber that follows ButtonsChanged and Reset always rebuilds the
\* mask: the events chain, each starting at the mask the one before ended
\* at, silent changes included (device.rs:90-117, 243-265, 304-314).
EventsRebuildMask ==
  /\ \A i \in DOMAIN todo : todo[i].do = "changed" =>
       todo[i].from = seen /\ todo[i].to = buttons
  /\ (\A i \in DOMAIN todo : todo[i].do \notin {"changed", "reset"}) =>
       seen = buttons

\* The mask is copied outside the lock, so a packet may carry an old one, but
\* after a change of the mask each thread sends at most one such packet: the
\* next call reads the mask again (translator.rs:466-472, watchdog.rs:66-69).
OneStalePacket == \A t \in Threads : late[t] <= 1

\* No command blocks the UDP loop for good: the only wait in a command, the
\* watchdog's join, ends (mask/watchdog.rs:81-86).
CommandsReturn == ~Idle ~> Idle

\* While an axis stays masked the pump keeps sending (watchdog.rs:54-71).
PumpsWhileMasked == []<>(dog.pc = "send" \/ ~handle \/ ~running)

\* An interpolation ends however many packets it has (translator.rs:487-507).
InterpolationsEnd ==
  \A w \in Workers : worker[w].pc # "idle" ~> worker[w].pc = "idle" \/ main = "gone"

\* Ctrl+C ends the main thread, the watchdog's join included (main.rs:767-823).
ShutdownEnds == ~running ~> main = "gone"

\* No wait of a command, a worker or a shutdown on another thread is for ever.
WaitsEnd == CommandsReturn /\ InterpolationsEnd /\ ShutdownEnds

-----------------------------------------------------------------------------
(* The inductive invariant behind the safety properties.  A command leaves  *)
(* the state and its todo in agreement: what is not so yet is still to do.  *)

Announces(e) == e.do \in {"changed", "reset"}
TellsOf(s, q) == \E e \in Range(q) : e.do = "tell" /\ e.setting = s
AxesMasked == bits \cap Axes # {}

\* The steps left were computed from the state as it still is.
TodoFollowsState ==
  \A e \in Range(todo) :
    /\ e.do = "hid" => e.mask = buttons
    /\ e.do = "changed" => e.from = seen /\ e.to = buttons
    /\ e.do = "reset" => buttons = 0
    /\ e.do = "tell" => e.value = Wanted(e.setting)
    /\ e.do = "pump" => e.want = AxesMasked

AnnouncesOnce(q) ==
  \A i, j \in DOMAIN q : Announces(q[i]) /\ Announces(q[j]) => i = j

OneAnnouncement == AnnouncesOnce(todo)

AnnouncedOrPending == seen = buttons \/ \E e \in Range(todo) : Announces(e)

ToldOrPending ==
  /\ \A s \in DOMAIN told : told[s] = Wanted(s) \/ TellsOf(s, todo)
  /\ ~attached => DOMAIN told = {}

DueIsPending == \A s \in due : TellsOf(s, todo)

PumpOrPending ==
  /\ main \in {"check", "recv"} =>
       handle = AxesMasked \/ \E e \in Range(todo) : e.do = "pump"
  /\ dog.pc # "none" =>
       handle \/ main = "join" \/ \E e \in Range(todo) : e.do = "join"

\* A thread that has sent an old mask reads the mask before it sends again.
StaleOnce ==
  /\ \A w \in Workers : /\ worker[w].pc # "idle" => worker[w].left >= 1
                        /\ late[w] <= 1
                        /\ late[w] = 1 /\ worker[w].pc = "send" =>
                             worker[w].mask = buttons
  /\ late["main"] = 0
  /\ late["dog"] <= 1
  /\ late["dog"] = 1 /\ dog.pc = "send" => dog.mask = buttons

DeviceInv ==
  /\ TypeOK
  /\ TodoFollowsState
  /\ OneAnnouncement
  /\ AnnouncedOrPending
  /\ ToldOrPending
  /\ DueIsPending
  /\ PumpOrPending
  /\ StaleOnce

=============================================================================
