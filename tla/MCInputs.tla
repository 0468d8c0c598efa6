------------------------------ MODULE MCInputs ------------------------------
(***************************************************************************)
(* What the daemon takes from outside: the clients' datagrams, under the   *)
(* MAC of config.json, and config.json itself, which the user and the      *)
(* toggles change.  A behaviour follows one of them, which input names.    *)
(*                                                                         *)
(* The requests lie on both sides of every limit: of the direct byte, of   *)
(* an i8, of an i16, of a division without remainder.  Toggles come one    *)
(* after another or two at a time, with two saves by hand.                 *)
(***************************************************************************)
EXTENDS Translator, Settings

VARIABLE input

Body(button, x, y, wheel, point) ==
  [button |-> button, x |-> x, y |-> y, wheel |-> wheel,
   point |-> point \o [i \in 1..(10 - Len(point)) |-> 0]]

MCRequests ==
  {[cmd |-> "mouse_move", body |-> b] : b \in
     {Body(258, 126, 127, 0, <<>>), Body(1, -127, -128, 9, <<>>),
      Body(0, 32767, -32768, 0, <<>>), Body(-1, 40000, -40000, 0, <<>>)}}
  \cup {[cmd |-> "mouse_wheel", body |-> b] : b \in
     {Body(4, 5, 0, 127, <<>>), Body(0, 0, 0, -129, <<>>)}}
  \cup {[cmd |-> "mouse_automove", body |-> b] : b \in
     {Body(1, 7, -5, 0, <<9>>), Body(0, -400, 40000, 0, <<-3>>)}}
  \cup {[cmd |-> "bezier_move", body |-> b] : b \in
     {Body(1, -7, 5, 0, <<12, 20, -9, 3, 4>>), Body(2, 9, 0, 0, <<8, 0, 0, 0, 1>>)}}
  \cup {[cmd |-> c, body |-> Body(3, 1, 1, 1, <<>>)] : c \in
     {"connect", "mouse_right", "keyboard_all", "unknown"}}

\* Only the specification of Interpolation alone chooses from these.
MCTargets == {-7, 5, 40000}
MCControls == {-9, 20}
MCDurations == {-3, 9}

Symmetry == Permutations(Toggles)

InputsInit == Init /\ SettingsInit /\ input \in {"udp", "config"}

InputsNext ==
  \/ input = "udp" /\ Next /\ UNCHANGED <<settingsVars, input>>
  \/ input = "config" /\ SettingsNext /\ UNCHANGED <<vars, input>>

InputsSpec == InputsInit /\ [][InputsNext]_<<vars, settingsVars, input>>
=============================================================================
