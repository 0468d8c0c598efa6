------------------------------- MODULE Packet -------------------------------
(***************************************************************************)
(* The nine bytes of a mouse packet (streamcheats/packet.rs), with what    *)
(* the firmware reads in them.                                             *)
(***************************************************************************)
EXTENDS Integers, Sequences

ClampI8(v) == IF v > 127 THEN 127 ELSE IF v < -128 THEN -128 ELSE v
ClampI16(v) == IF v > 32767 THEN 32767 ELSE IF v < -32768 THEN -32768 ELSE v

\* Two's complement; the low byte of an i16 comes first.
Low(v) == v % 256
High(v) == (v \div 256) % 256

\* A coordinate that does not fit in the byte leaves a sentinel there.
AxisLo(v) == IF v >= 127 THEN 127 ELSE IF v <= -128 THEN 128 ELSE Low(v)

BuildPacket(buttons, x, y, wheel) ==
  LET xi == ClampI16(x)
      yi == ClampI16(y)
  IN <<8, buttons, AxisLo(xi), AxisLo(yi), Low(ClampI8(wheel)),
       Low(xi), High(xi), Low(yi), High(yi)>>

-----------------------------------------------------------------------------
(* The other end of the wire *)

SignedByte(b) == IF b >= 128 THEN b - 256 ELSE b
SignedPair(lo, hi) == LET u == lo + 256 * hi IN IF u >= 32768 THEN u - 65536 ELSE u

\* The firmware takes a direct byte as it is, and looks at the extended bytes
\* where it finds a sentinel.
FirmwareAxis(lo, extLo, extHi) ==
  IF lo \in {127, 128} THEN SignedPair(extLo, extHi) ELSE SignedByte(lo)

FirmwareMove(p) ==
  [buttons |-> p[2],
   x |-> FirmwareAxis(p[3], p[6], p[7]),
   y |-> FirmwareAxis(p[4], p[8], p[9]),
   wheel |-> SignedByte(p[5])]
=============================================================================
