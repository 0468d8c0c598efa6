----------------------------- MODULE Translator -----------------------------
(***************************************************************************)
(* What a KMBox Net datagram becomes: from the client's header and body    *)
(* through the wire format (schema.rs, parser.rs), the cipher and the      *)
(* dispatch of util/translator.rs to the packets that the firmware reads.  *)
(* One thread receives, and the workers of Interpolation run beside it.    *)
(* The serial queue is left out (Session has it): a packet that the        *)
(* DeviceController sends is one that the firmware reads.  So are the      *)
(* masks and the monitor (DeviceController, Monitor): their commands are   *)
(* acknowledged here.                                                      *)
(***************************************************************************)
EXTENDS Interpolation, Encryption

CONSTANTS
  Requests,      \* what a client may ask: records with cmd and body
  Macs,          \* the MACs that clients are configured with
  expected_mac,
  MaxDatagrams,  \* bound: datagrams sent
  MaxEncrypted,  \* bound: the first ones, which may be encrypted
  None

VARIABLES
  wire,    \* the datagram on its way: a sequence of words
  meant,   \* history: what the client put in the last datagram
  heard,   \* what dispatch was last called with
  reply,   \* the header that was sent back
  mask,    \* button_mask of the device state
  host,    \* what the firmware read: its totals, and the buttons
  moved,   \* history: the totals given to the DeviceController
  count    \* datagrams sent

netVars == <<wire, meant, heard, reply, count>>
deviceVars == <<mask, host, moved>>
vars == <<netVars, deviceVars, workerVars>>

HeaderWords == 4
BodyWords == 14

\* The command codes, each of them a number of its own; no code is 0.
Code == [connect |-> 1, mouse_move |-> 2, mouse_left |-> 3, mouse_right |-> 4,
         mouse_middle |-> 5, mouse_wheel |-> 6, mouse_automove |-> 7, bezier_move |-> 8,
         keyboard_all |-> 9, reboot |-> 10, monitor |-> 11, mask_mouse |-> 12,
         unmask_all |-> 13, setconfig |-> 14, setvidpid |-> 15, debug |-> 16,
         showpic |-> 17, trace_enable |-> 18, unknown |-> 19]
cmd_name(code) == CHOOSE c \in DOMAIN Code : Code[c] = code

Signed(w) == IF w >= 2^(WordBits - 1) THEN w - 2^WordBits ELSE w

Ints == -2^(WordBits - 1)..(2^(WordBits - 1) - 1)
Bodies == [button : Ints, x : Ints, y : Ints, wheel : Ints, point : [1..10 -> Ints]]

\* A client counts its datagrams.
Header(mac, n, cmd) == [mac |-> mac, rand |-> n, indexpts |-> n + 1, cmd |-> cmd]

ASSUME TranslatorAssumption ==
  /\ ENC_WORDS > HeaderWords + BodyWords
  /\ Macs \subseteq Words /\ expected_mac \in Macs
  /\ MaxDatagrams \in Nat /\ MaxDatagrams \in Words /\ MaxEncrypted \in Nat
  /\ Requests \subseteq [cmd : DOMAIN Code, body : Bodies]
  /\ None \notin [mac : Words, rand : Words, indexpts : Words, cmd : Words]

-----------------------------------------------------------------------------
(* The client *)

ToWords(header, body) ==
  [i \in 1..(HeaderWords + BodyWords) |->
     IF i > 8 THEN Wrap(body.point[i - 8])
     ELSE <<header.mac, header.rand, header.indexpts, Code[header.cmd],
            Wrap(body.button), Wrap(body.x), Wrap(body.y), Wrap(body.wheel)>>[i]]

Pad(words) == [i \in 1..ENC_WORDS |-> IF i <= Len(words) THEN words[i] ELSE 0]

\* A whole datagram in plain or encrypted form, the header alone, or a piece.
Plain(words) ==
  {words, SubSeq(words, 1, HeaderWords), SubSeq(words, 1, HeaderWords - 1)}
Encrypted(words, mac) == Encrypt(Pad(words), KeyFromMac(mac))

\* A header under another client's key looks like noise; that none of those sent
\* looks like this device's is luck, one in 2^WordBits against it.
ASSUME ForeignStaysForeign ==
  \A r \in Requests, mac \in Macs \ {expected_mac}, n \in 0..(MaxDatagrams - 1) :
    \A words \in {Encrypted(ToWords(Header(mac, n, r.cmd), r.body), mac)} :
      Decrypt(words, KeyFromMac(expected_mac))[1] # expected_mac

Send ==
  /\ wire = None /\ count < MaxDatagrams
  /\ \E r \in Requests, mac \in Macs :
       LET header == Header(mac, count, r.cmd)
           words == ToWords(header, r.body)
       IN /\ \/ wire' \in Plain(words)
             \/ count < MaxEncrypted /\ wire' = Encrypted(words, mac)
          /\ meant' = [header |-> header, body |-> r.body]
  /\ count' = count + 1
  /\ heard' = None /\ reply' = None
  /\ UNCHANGED <<deviceVars, workerVars>>

-----------------------------------------------------------------------------
(* The daemon *)

is_encrypted_length(words) == Len(words) = ENC_WORDS

ParseHeader(words) ==
  [mac |-> words[1], rand |-> words[2], indexpts |-> words[3], cmd |-> words[4]]

\* The words after the header.
ParseSoftMouse(words) ==
  [button |-> Signed(words[5]), x |-> Signed(words[6]), y |-> Signed(words[7]),
   wheel |-> Signed(words[8]), point |-> [i \in 1..10 |-> Signed(words[8 + i])]]

HasBody(words) == Len(words) >= HeaderWords + BodyWords

\* A packet with the mask as it is now, which the firmware reads and the
\* DeviceController was asked for.
Emit(buttons, x, y, wheel) ==
  LET f == FirmwareMove(BuildPacket(buttons, x, y, wheel)) IN
    /\ host' = [buttons |-> f.buttons, x |-> host.x + f.x, y |-> host.y + f.y,
                wheel |-> host.wheel + f.wheel]
    /\ moved' = [buttons |-> buttons, x |-> moved.x + ClampI16(x), y |-> moved.y + ClampI16(y),
                 wheel |-> moved.wheel + ClampI8(wheel)]

Silent == UNCHANGED <<host, moved>>

\* The arms of dispatch that a mouse body belongs to.
MouseCommands == {"mouse_move", "mouse_left", "mouse_right", "mouse_middle",
                  "mouse_wheel", "mouse_automove", "bezier_move"}

Mouse(cmd, m) ==
  LET buttons == m.button % 256
      target == [x |-> m.x, y |-> m.y]
  IN /\ mask' = buttons
     /\ \/ /\ cmd = "mouse_move"
           /\ Emit(buttons, ClampI16(m.x), ClampI16(m.y), 0)
           /\ UNCHANGED workerVars
        \/ /\ cmd \in {"mouse_left", "mouse_right", "mouse_middle"}
           /\ Emit(buttons, 0, 0, 0)
           /\ UNCHANGED workerVars
        \/ /\ cmd = "mouse_wheel"
           /\ Emit(buttons, 0, 0, ClampI8(m.wheel))
           /\ UNCHANGED workerVars
        \/ /\ cmd = "mouse_automove" /\ Silent
           /\ \E w \in Workers : SpawnAutomove(w, target, m.point[1])
        \/ /\ cmd = "bezier_move" /\ Silent
           /\ \E w \in Workers :
                SpawnBezier(w, target, m.point[1], [x |-> m.point[2], y |-> m.point[3]],
                            [x |-> m.point[4], y |-> m.point[5]])

\* A connect empties the mask and leaves the workers alone; the rest of the
\* commands, and a mouse command without its body, are acknowledged.
Dispatch(cmd, words) ==
  \/ cmd \in MouseCommands /\ HasBody(words) /\ Mouse(cmd, ParseSoftMouse(words))
  \/ cmd = "connect" /\ mask' = 0 /\ Silent /\ UNCHANGED workerVars
  \/ /\ cmd # "connect" /\ (cmd \in MouseCommands => ~HasBody(words))
     /\ UNCHANGED <<deviceVars, workerVars>>

\* Mutant: only a plain datagram has its MAC looked at.
handle_packet_trusts_cipher ==
  /\ wire # None
  /\ wire' = None
  /\ LET encrypted == is_encrypted_length(wire)
         working == IF encrypted THEN Decrypt(wire, KeyFromMac(expected_mac)) ELSE wire
     IN IF Len(working) < HeaderWords \/ (~encrypted /\ ParseHeader(working).mac # expected_mac)
        THEN UNCHANGED <<heard, reply, deviceVars, workerVars>>
        ELSE LET header == ParseHeader(working)
                 cmd == IF header.cmd \in {Code[c] : c \in DOMAIN Code}
                        THEN cmd_name(header.cmd) ELSE "unknown"
             IN /\ heard' = [header |-> [header EXCEPT !.cmd = cmd],
                             body |-> IF HasBody(working) THEN ParseSoftMouse(working) ELSE None]
                /\ reply' = header
                /\ Dispatch(cmd, working)
  /\ UNCHANGED <<meant, count>>

handle_packet ==
  /\ wire # None
  /\ wire' = None
  /\ LET working == IF is_encrypted_length(wire)
                    THEN Decrypt(wire, KeyFromMac(expected_mac)) ELSE wire
     IN IF Len(working) < HeaderWords \/ ParseHeader(working).mac # expected_mac
        THEN UNCHANGED <<heard, reply, deviceVars, workerVars>>
        ELSE LET header == ParseHeader(working)
                 cmd == IF header.cmd \in {Code[c] : c \in DOMAIN Code}
                        THEN cmd_name(header.cmd) ELSE "unknown"
             IN /\ heard' = [header |-> [header EXCEPT !.cmd = cmd],
                             body |-> IF HasBody(working) THEN ParseSoftMouse(working) ELSE None]
                /\ reply' = header
                /\ Dispatch(cmd, working)
  /\ UNCHANGED <<meant, count>>

\* A worker's step goes out with the mask of the moment.
Worker(w) ==
  /\ UNCHANGED <<netVars, mask>>
  /\ \/ /\ at[w] < job[w].steps
        /\ \E d \in Moves(w) : StepBy(w, d) /\ Emit(mask, ClampI16(d.x), ClampI16(d.y), 0)
     \/ WorkerEnds(w) /\ Silent

Init ==
  /\ wire = None /\ meant = None /\ heard = None /\ reply = None
  /\ mask = 0
  /\ host = [buttons |-> 0, x |-> 0, y |-> 0, wheel |-> 0]
  /\ moved = host
  /\ count = 0
  /\ InterpolationInit

Next == Send \/ handle_packet \/ \E w \in Workers : Worker(w)

Spec == Init /\ [][Next]_vars

-----------------------------------------------------------------------------
(* Properties *)

\* Plain or encrypted, at any length and with any sign, what is dispatched is
\* what a client with this device's MAC meant, and the reply echoes its
\* header; what a client with another MAC sends is not even answered.
HeardAsMeant ==
  heard # None =>
    /\ heard.header = meant.header
    /\ heard.body \in {meant.body, None}
    /\ reply = [heard.header EXCEPT !.cmd = Code[heard.header.cmd]]
    /\ meant.header.mac = expected_mac

\* A client with this device's MAC is always answered, and a body that came
\* whole is dispatched whole, however it was encrypted.
OurClientIsHeard ==
  [][handle_packet /\ meant.header.mac = expected_mac /\ Len(wire) >= HeaderWords =>
       /\ reply' # None
       /\ Len(wire) >= HeaderWords + BodyWords => heard'.body = meant.body]_vars

\* The firmware reads the moves that the DeviceController was asked for, at
\* the limits of the direct byte and of the sixteen bits as well.
FirmwareReadsTheMoves == host = moved

\* A datagram that is dispatched is what the client meant, down to what the
\* firmware reads.
MeantIsWhatMoves == HeardAsMeant /\ FirmwareReadsTheMoves

-----------------------------------------------------------------------------
(* The inductive invariant behind MeantIsWhatMoves and OurClientIsHeard. *)

\* What is on its way is one form of what a client meant.
WireIsMeant ==
  wire # None =>
    \E r \in Requests, mac \in Macs, n \in 0..(MaxDatagrams - 1) :
      LET words == ToWords(Header(mac, n, r.cmd), r.body) IN
        /\ meant = [header |-> Header(mac, n, r.cmd), body |-> r.body]
        /\ wire \in Plain(words) \/ wire = Encrypted(words, mac)

TranslatorInv ==
  /\ ExactInv /\ FirmwareReadsTheMoves /\ HeardAsMeant /\ WireIsMeant
  /\ count \in 0..MaxDatagrams
=============================================================================
