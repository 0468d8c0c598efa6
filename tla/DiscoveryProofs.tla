-------------------------- MODULE DiscoveryProofs --------------------------
(***************************************************************************)
(* Theorems about Discovery, for any number of ports, any sizes of buffer  *)
(* and of reads, and however much the devices send.  The safety properties *)
(* follow from DiscoveryInv, which is inductive: a probe's buffer is the   *)
(* end of what it heard, long enough after every cut to hold a short line, *)
(* and a port is open exactly as long as somebody is there to close it.    *)
(***************************************************************************)
EXTENDS Discovery, TLAPS

\* What a concatenation holds.
LEMMA Joins ==
  ASSUME NEW S, NEW s \in Seq(S), NEW t \in Seq(S)
  PROVE  /\ s \o t \in Seq(S) /\ Len(s \o t) = Len(s) + Len(t)
         /\ \A n \in 1..Len(s) : (s \o t)[n] = s[n]
         /\ \A n \in (Len(s) + 1)..(Len(s) + Len(t)) : (s \o t)[n] = t[n - Len(s)]
OBVIOUS

\* What a cut leaves.
LEMMA Cuts ==
  ASSUME NEW S, NEW s \in Seq(S), NEW k \in Nat, k < Len(s)
  PROVE  /\ SubSeq(s, k + 1, Len(s)) \in Seq(S)
         /\ Len(SubSeq(s, k + 1, Len(s))) = Len(s) - k
         /\ \A n \in 1..(Len(s) - k) : SubSeq(s, k + 1, Len(s))[n] = s[n + k]
OBVIOUS

\* Reading on keeps the buffer at the end of what was heard.
LEMMA ReadKeeps ==
  ASSUME NEW kept \in Seq(Tokens), NEW old \in Seq(Tokens), NEW chunk \in Seq(Tokens),
         Kept(kept, old)
  PROVE  /\ Lost(kept \o chunk, old \o chunk) = Lost(kept, old)
         /\ Kept(kept \o chunk, old \o chunk)
<1> DEFINE new == old \o chunk
           buf == kept \o chunk
           k == Lost(kept, old)
<1>1. /\ Len(new) = Len(old) + Len(chunk)
      /\ \A n \in 1..Len(old) : new[n] = old[n]
      /\ \A n \in (Len(old) + 1)..(Len(old) + Len(chunk)) : new[n] = chunk[n - Len(old)]
  BY Joins
<1>2. /\ Len(buf) = Len(kept) + Len(chunk)
      /\ \A n \in 1..Len(kept) : buf[n] = kept[n]
      /\ \A n \in (Len(kept) + 1)..(Len(kept) + Len(chunk)) : buf[n] = chunk[n - Len(kept)]
  BY Joins
<1>3. Len(old) \in Nat /\ Len(kept) \in Nat /\ Len(chunk) \in Nat OBVIOUS
<1>4. k \in Nat /\ k = Len(old) - Len(kept) BY <1>3 DEF Kept, Lost
<1>5. \A n \in 1..Len(kept) : kept[n] = old[n + k] BY DEF Kept
<1>6. k > 0 => Len(kept) > Cap - Drop BY DEF Kept
<1> HIDE DEF new, buf, k
<1>7. ASSUME NEW n \in 1..Len(buf) PROVE buf[n] = new[n + k]
  <2>1. CASE n <= Len(kept)
    <3>1. n \in 1..Len(kept) /\ n + k \in 1..Len(old) BY <1>2, <1>3, <1>4, <2>1
    <3> QED BY <3>1, <1>1, <1>2, <1>5
  <2>2. CASE n > Len(kept)
    <3>1. /\ n \in (Len(kept) + 1)..(Len(kept) + Len(chunk))
          /\ n + k \in (Len(old) + 1)..(Len(old) + Len(chunk))
          /\ n + k - Len(old) = n - Len(kept)
      BY <1>1, <1>2, <1>3, <1>4, <2>2
    <3>2. buf[n] = chunk[n - Len(kept)] BY <1>2, <3>1
    <3>3. PICK m \in (Len(old) + 1)..(Len(old) + Len(chunk)) : m = n + k BY <3>1
    <3>4. new[m] = chunk[m - Len(old)] BY <1>1
    <3>5. m - Len(old) = n - Len(kept) BY <1>3, <1>4, <3>1, <3>3
    <3> QED BY <3>2, <3>3, <3>4, <3>5, Zenon
  <2> QED BY <1>2, <1>3, <2>1, <2>2
<1>8. Lost(buf, new) = k BY <1>1, <1>2, <1>3, <1>4 DEF Lost
<1>9. k > 0 => Len(buf) > Cap - Drop BY <1>2, <1>3, <1>6, DiscoveryAssumption
<1>10. Kept(buf, new) BY <1>4, <1>7, <1>8, <1>9 DEF Kept
<1> QED BY <1>8, <1>10 DEF new, buf, k

\* What Capped leaves is the end of the buffer, within the cap, and enough.
LEMMA CapKeeps ==
  ASSUME NEW buf \in Seq(Tokens), NEW all \in Seq(Tokens), Kept(buf, all),
         Len(buf) <= Cap + Drop
  PROVE  Capped(buf) \in Seq(Tokens) /\ Len(Capped(buf)) <= Cap /\ Kept(Capped(buf), all)
<1>1. Len(buf) \in Nat /\ Len(all) \in Nat OBVIOUS
<1>2. CASE Len(buf) <= Cap BY <1>1, <1>2, DiscoveryAssumption DEF Capped
<1>3. CASE Len(buf) > Cap
  <2> DEFINE rest == SubSeq(buf, Drop + 1, Len(buf))
             k == Lost(buf, all)
  <2>1. Capped(buf) = rest BY <1>3 DEF Capped
  <2>2. /\ rest \in Seq(Tokens) /\ Len(rest) = Len(buf) - Drop
        /\ \A n \in 1..(Len(buf) - Drop) : rest[n] = buf[n + Drop]
    BY <1>1, <1>3, Cuts, DiscoveryAssumption
  <2>3. k \in Nat /\ k = Len(all) - Len(buf) BY <1>1 DEF Kept, Lost
  <2>4. \A n \in 1..Len(buf) : buf[n] = all[n + k] BY DEF Kept
  <2> HIDE DEF rest, k
  <2>5. Lost(rest, all) = k + Drop BY <1>1, <2>2, <2>3, DiscoveryAssumption DEF Lost
  <2>6. ASSUME NEW n \in 1..Len(rest) PROVE rest[n] = all[n + (k + Drop)]
    <3>1. n \in 1..(Len(buf) - Drop) /\ n + Drop \in 1..Len(buf)
      BY <1>1, <2>2, DiscoveryAssumption
    <3>2. (n + Drop) + k = n + (k + Drop) BY <2>3, DiscoveryAssumption
    <3>3. buf[n + Drop] = all[(n + Drop) + k] BY <2>4, <3>1
    <3> QED BY <2>2, <3>1, <3>2, <3>3
  <2>7. /\ Len(rest) > Cap - Drop /\ Len(rest) <= Cap /\ k + Drop >= 0
    BY <1>1, <1>3, <2>2, <2>3, DiscoveryAssumption
  <2>8. Kept(rest, all) BY <2>5, <2>6, <2>7 DEF Kept
  <2> QED BY <2>1, <2>2, <2>7, <2>8
<1> QED BY <1>1, <1>2, <1>3, DiscoveryAssumption

\* A buffer without a whole firmware line, which is the end of what was heard,
\* shows that no short line was heard: not before the newest chunk, and not
\* with an end in it, since its beginning is still in the buffer.
LEMMA NothingMissed ==
  ASSUME NEW kept \in Seq(Tokens), NEW old \in Seq(Tokens), NEW chunk \in Seq(Tokens),
         Kept(kept, old), Quiet(old), ~BufferHasFirmwareLine(kept \o chunk)
  PROVE  Quiet(old \o chunk)
<1> DEFINE new == old \o chunk
           buf == kept \o chunk
           k == Lost(kept, old)
<1>1. /\ Len(new) = Len(old) + Len(chunk) /\ \A n \in 1..Len(old) : new[n] = old[n]
  BY Joins
<1>2. Len(old) \in Nat /\ Len(kept) \in Nat /\ Len(chunk) \in Nat OBVIOUS
<1>3. k \in Nat /\ k = Len(old) - Len(kept) BY <1>2 DEF Kept, Lost
<1>4. k > 0 => Len(kept) > Cap - Drop BY DEF Kept
<1>5. Len(buf) = Len(kept) + Len(chunk) BY Joins
<1>6. \A n \in 1..Len(buf) : buf[n] = new[n + k]
  <2>1. Lost(buf, new) = k /\ Kept(buf, new) BY ReadKeeps
  <2> HIDE DEF buf, new, k
  <2> QED BY <2>1 DEF Kept
<1>7. ~BufferHasFirmwareLine(buf) OBVIOUS
<1> HIDE DEF new, buf, k
<1>8. SUFFICES ASSUME NEW i \in 1..Len(new), NEW j \in 1..Len(new), ShortFirmwareLine(new, i, j)
               PROVE  FALSE
  BY DEF new, Quiet
<1>9. i < j /\ new[i] = "prefix" /\ StartsLine(new, i) /\ new[j] = "newline"
      /\ j - i + 1 <= Cap - Drop + 1
  BY <1>8 DEF ShortFirmwareLine
<1>10. CASE j <= Len(old)
  <2>1. i \in 1..Len(old) /\ j \in 1..Len(old) BY <1>2, <1>8, <1>9, <1>10
  <2>2. StartsLine(old, i)
    <3>1. i # 1 => i - 1 \in 1..Len(old) BY <1>2, <2>1
    <3> QED BY <1>1, <1>9, <3>1 DEF StartsLine
  <2>3. ShortFirmwareLine(old, i, j) BY <1>1, <1>9, <2>1, <2>2 DEF ShortFirmwareLine
  <2> QED BY <2>1, <2>3 DEF Quiet
<1>11. CASE j > Len(old)
  <2>1. i > k BY <1>2, <1>3, <1>4, <1>8, <1>9, <1>11, DiscoveryAssumption
  <2>2. i - k \in 1..Len(buf) /\ j - k \in 1..Len(buf)
    BY <1>1, <1>2, <1>3, <1>5, <1>8, <1>9, <2>1
  <2>3. buf[i - k] = "prefix" /\ buf[j - k] = "newline"
    <3>1. (i - k) + k = i /\ (j - k) + k = j BY <1>3, <1>8
    <3>2. buf[i - k] = new[(i - k) + k] /\ buf[j - k] = new[(j - k) + k] BY <1>6, <2>2
    <3> QED BY <1>9, <3>1, <3>2
  <2>4. StartsLine(buf, i - k)
    <3>1. CASE i - k = 1 BY <3>1 DEF StartsLine
    <3>2. CASE i - k # 1
      <4>1. i - k - 1 \in 1..Len(buf) /\ i # 1
        BY <1>2, <1>3, <1>5, <1>8, <2>1, <2>2, <3>2
      <4>2. buf[i - k - 1] = new[i - k - 1 + k] /\ i - k - 1 + k = i - 1
        BY <1>3, <1>6, <1>8, <4>1
      <4> QED BY <1>8, <1>9, <4>1, <4>2 DEF StartsLine
    <3> QED BY <3>1, <3>2
  <2>5. i - k < j - k BY <1>3, <1>8, <1>9
  <2> QED BY <1>7, <2>2, <2>3, <2>4, <2>5 DEF BufferHasFirmwareLine
<1> QED BY <1>1, <1>2, <1>8, <1>10, <1>11

LEMMA InitHolds == SearchInit => DiscoveryInv
<1> SUFFICES ASSUME SearchInit PROVE DiscoveryInv OBVIOUS
<1> USE DiscoveryAssumption DEF SearchInit
<1>1. SearchTypeOK
  <2>1. <<>> \in Seq(Tokens) /\ <<>> \in Seq(SerialPorts) /\ Len(<<>>) = 0 OBVIOUS
  <2>2. /\ accum \in [SerialPorts -> Seq(Tokens)] /\ heard \in [SerialPorts -> Seq(Tokens)]
        /\ \A p \in SerialPorts : Len(accum[p]) <= Cap
    BY <2>1
  <2> QED BY <2>1, <2>2 DEF SearchTypeOK
<1>2. BuffersKeepUp BY <1>1 DEF SearchTypeOK, BuffersKeepUp, Kept, Lost, Quiet
<1>3. PortsAreHeld BY DEF PortsAreHeld, Sent
<1>4. MainInStep BY DEF MainInStep
<1> QED BY <1>1, <1>2, <1>3, <1>4 DEF DiscoveryInv

\* A step that leaves the buffers alone need only show who listens.
LEMMA BuffersUntouched ==
  ASSUME BuffersKeepUp, UNCHANGED <<accum, heard>>,
         \A p \in SerialPorts : Listening(p)' \/ GaveUp(p)' => Listening(p) \/ GaveUp(p)
  PROVE  BuffersKeepUp'
BY DEF BuffersKeepUp

LEMMA StutterKeeps == DiscoveryInv /\ UNCHANGED searchVars => DiscoveryInv'
<1> SUFFICES ASSUME DiscoveryInv, UNCHANGED searchVars PROVE DiscoveryInv' OBVIOUS
<1> USE DEF searchVars, probeVars, mainVars, DiscoveryInv
<1>1. SearchTypeOK' BY DEF SearchTypeOK
<1>2. BuffersKeepUp' BY BuffersUntouched DEF Listening, GaveUp
<1>3. PortsAreHeld' /\ MainInStep' BY DEF PortsAreHeld, Sent, MainInStep, AllDone
<1> QED BY <1>1, <1>2, <1>3

\* A probe that returns closes its port.
LEMMA GiveUpStep ==
  ASSUME DiscoveryInv, NEW p \in SerialPorts, Listening(p), GiveUp(p),
         UNCHANGED <<accum, heard, expired, matches, abort, main, result>>
  PROVE  DiscoveryInv'
<1> USE DEF DiscoveryInv, GiveUp, ProbeTo
<1>1. SearchTypeOK'
  <2>1. /\ probe' \in [SerialPorts -> {"start", "check", "read", "matched", "done"}]
        /\ open' \in [SerialPorts -> BOOLEAN]
    BY DEF SearchTypeOK
  <2>2. \A q \in SerialPorts : probe'[q] \in {"start", "check", "read"} => Len(accum'[q]) <= Cap
    BY DEF SearchTypeOK
  <2> QED BY <2>1, <2>2 DEF SearchTypeOK
<1>2. BuffersKeepUp'
  <2>1. \A q \in SerialPorts : Listening(q)' \/ GaveUp(q)' => Listening(q) \/ GaveUp(q)
    BY DEF SearchTypeOK, Listening, GaveUp
  <2> QED BY <2>1, BuffersUntouched
<1>3. PortsAreHeld'
  <2>1. ~Sent(p) /\ p # result
    BY DiscoveryAssumption DEF SearchTypeOK, Listening, PortsAreHeld, MainInStep
  <2>2. \A q \in SerialPorts : Sent(q)' <=> Sent(q) BY DEF Sent
  <2> QED BY <2>1, <2>2 DEF SearchTypeOK, PortsAreHeld
<1>4. MainInStep' BY DiscoveryAssumption DEF SearchTypeOK, MainInStep, AllDone, Listening
<1> QED BY <1>1, <1>2, <1>3, <1>4

\* A probe that goes on has its port open.
LEMMA GoOnStep ==
  ASSUME DiscoveryInv, NEW p \in SerialPorts, Listening(p),
         NEW place \in {"check", "read"}, ProbeTo(p, place), open' = [open EXCEPT ![p] = TRUE],
         UNCHANGED <<accum, heard, expired, matches, abort, main, result>>
  PROVE  DiscoveryInv'
<1> USE DEF DiscoveryInv, ProbeTo
<1>1. SearchTypeOK'
  <2>1. /\ probe' \in [SerialPorts -> {"start", "check", "read", "matched", "done"}]
        /\ open' \in [SerialPorts -> BOOLEAN]
    BY DEF SearchTypeOK
  <2>2. \A q \in SerialPorts : probe'[q] \in {"start", "check", "read"} => Len(accum'[q]) <= Cap
    BY DEF SearchTypeOK, Listening
  <2> QED BY <2>1, <2>2 DEF SearchTypeOK
<1>2. BuffersKeepUp'
  <2>1. \A q \in SerialPorts : Listening(q)' \/ GaveUp(q)' => Listening(q) \/ GaveUp(q)
    BY DEF SearchTypeOK, Listening, GaveUp
  <2> QED BY <2>1, BuffersUntouched
<1>3. PortsAreHeld'
  <2>1. ~Sent(p) /\ p # result
    BY DiscoveryAssumption DEF SearchTypeOK, Listening, PortsAreHeld, MainInStep
  <2>2. \A q \in SerialPorts : Sent(q)' <=> Sent(q) BY DEF Sent
  <2> QED BY <2>1, <2>2 DEF SearchTypeOK, PortsAreHeld
<1>4. MainInStep' BY DiscoveryAssumption DEF SearchTypeOK, MainInStep, AllDone, Listening
<1> QED BY <1>1, <1>2, <1>3, <1>4

LEMMA OpenStep ==
  ASSUME DiscoveryInv, NEW p \in SerialPorts, Open(p)
  PROVE  DiscoveryInv'
<1>1. Listening(p) BY DEF Open, Listening
<1>2. CASE GiveUp(p) BY <1>1, <1>2, GiveUpStep DEF Open, mainVars
<1>3. CASE open' = [open EXCEPT ![p] = TRUE] /\ ProbeTo(p, "check")
  BY <1>1, <1>3, GoOnStep DEF Open, mainVars
<1> QED BY <1>2, <1>3 DEF Open

LEMMA CheckStep ==
  ASSUME DiscoveryInv, NEW p \in SerialPorts, Check(p)
  PROVE  DiscoveryInv'
<1>1. Listening(p) BY DEF Check, Listening
<1>2. CASE GiveUp(p) BY <1>1, <1>2, GiveUpStep DEF Check, mainVars
<1>3. CASE ProbeTo(p, "read") /\ UNCHANGED open
  <2>1. open' = [open EXCEPT ![p] = TRUE]
    BY <1>3 DEF Check, DiscoveryInv, SearchTypeOK, PortsAreHeld
  <2> QED BY <1>1, <1>3, <2>1, GoOnStep DEF Check, mainVars
<1> QED BY <1>2, <1>3 DEF Check

LEMMA ReadNothingStep ==
  ASSUME DiscoveryInv, NEW p \in SerialPorts, ReadNothing(p)
  PROVE  DiscoveryInv'
<1>1. Listening(p) BY DEF ReadNothing, Listening
<1>2. open' = [open EXCEPT ![p] = TRUE]
  BY DEF ReadNothing, DiscoveryInv, SearchTypeOK, PortsAreHeld
<1> QED BY <1>1, <1>2, GoOnStep DEF ReadNothing, mainVars

LEMMA ReadFailsStep ==
  ASSUME DiscoveryInv, NEW p \in SerialPorts, ReadFails(p)
  PROVE  DiscoveryInv'
<1>1. Listening(p) BY DEF ReadFails, Listening
<1> QED BY <1>1, GiveUpStep DEF ReadFails, mainVars

LEMMA ExpireStep ==
  ASSUME DiscoveryInv, NEW p \in SerialPorts, Expire(p)
  PROVE  DiscoveryInv'
<1> USE DEF DiscoveryInv, Expire, mainVars
<1>1. SearchTypeOK' BY DEF SearchTypeOK
<1>2. BuffersKeepUp' BY BuffersUntouched DEF Listening, GaveUp
<1>3. PortsAreHeld' BY DEF SearchTypeOK, PortsAreHeld, Sent
<1>4. MainInStep' BY DEF SearchTypeOK, MainInStep, AllDone
<1> QED BY <1>1, <1>2, <1>3, <1>4

LEMMA SendStep ==
  ASSUME DiscoveryInv, NEW p \in SerialPorts, Send(p)
  PROVE  DiscoveryInv'
<1> USE DiscoveryAssumption DEF DiscoveryInv, Send, ProbeTo, mainVars
<1>1. SearchTypeOK' BY DEF SearchTypeOK
<1>2. BuffersKeepUp'
  <2>1. \A q \in SerialPorts : Listening(q)' \/ GaveUp(q)' => Listening(q) \/ GaveUp(q)
    BY DEF SearchTypeOK, Listening, GaveUp, PortsAreHeld
  <2> QED BY <2>1, BuffersUntouched
<1>3. PortsAreHeld'
  <2>1. /\ DOMAIN matches' = 1..(Len(matches) + 1) /\ DOMAIN matches = 1..Len(matches)
        /\ matches'[Len(matches) + 1] = p /\ Len(matches) \in Nat
        /\ \A i \in 1..Len(matches) : matches'[i] = matches[i]
    BY DEF SearchTypeOK
  <2>2. ~Sent(p) BY DEF PortsAreHeld
  <2>3. \A q \in SerialPorts : Sent(q)' <=> Sent(q) \/ q = p BY <2>1 DEF Sent
  <2>4. \A i, j \in DOMAIN matches' : matches'[i] = matches'[j] => i = j
    BY <2>1, <2>2 DEF Sent, PortsAreHeld
  <2>5. p # result BY DEF MainInStep, SearchTypeOK
  <2> QED BY <2>2, <2>3, <2>4, <2>5 DEF SearchTypeOK, PortsAreHeld
<1>4. MainInStep' BY DEF SearchTypeOK, MainInStep, AllDone
<1> QED BY <1>1, <1>2, <1>3, <1>4

LEMMA ReadStep ==
  ASSUME DiscoveryInv, NEW p \in SerialPorts, Read(p)
  PROVE  DiscoveryInv'
<1> USE DiscoveryAssumption DEF DiscoveryInv
<1>0. PICK n \in 1..Chunk : \E chunk \in [1..n -> Tokens] :
        /\ heard' = [heard EXCEPT ![p] = heard[p] \o chunk]
        /\ IF BufferHasFirmwareLine(accum[p] \o chunk)
           THEN ProbeTo(p, "matched") /\ accum' = [accum EXCEPT ![p] = accum[p] \o chunk]
           ELSE ProbeTo(p, "check") /\ accum' = [accum EXCEPT ![p] = Capped(accum[p] \o chunk)]
  BY DEF Read
<1>1. PICK chunk \in [1..n -> Tokens] :
        /\ heard' = [heard EXCEPT ![p] = heard[p] \o chunk]
        /\ IF BufferHasFirmwareLine(accum[p] \o chunk)
           THEN ProbeTo(p, "matched") /\ accum' = [accum EXCEPT ![p] = accum[p] \o chunk]
           ELSE ProbeTo(p, "check") /\ accum' = [accum EXCEPT ![p] = Capped(accum[p] \o chunk)]
  BY <1>0
<1> DEFINE buf == accum[p] \o chunk
           new == heard[p] \o chunk
<1>2. probe[p] = "read" /\ UNCHANGED <<open, expired, matches, abort, main, result>>
  BY DEF Read, mainVars
<1>3. chunk \in Seq(Tokens) /\ Len(chunk) = n /\ n \in Nat /\ n <= Drop BY <1>1
<1>4. accum[p] \in Seq(Tokens) /\ heard[p] \in Seq(Tokens) /\ Len(accum[p]) <= Cap
  BY <1>2 DEF SearchTypeOK
<1>5. Kept(accum[p], heard[p]) /\ Quiet(heard[p]) BY <1>2 DEF BuffersKeepUp, Listening
<1>6. /\ buf \in Seq(Tokens) /\ new \in Seq(Tokens) /\ Kept(buf, new)
      /\ Capped(buf) \in Seq(Tokens) /\ Len(Capped(buf)) <= Cap /\ Kept(Capped(buf), new)
      /\ BufferHasFirmwareLine(buf) \/ Quiet(new)
  <2>1. buf \in Seq(Tokens) /\ new \in Seq(Tokens) BY <1>3, <1>4, Joins
  <2>2. Len(buf) = Len(accum[p]) + n BY <1>3, <1>4, Joins
  <2>3. Len(accum[p]) \in Nat BY <1>4
  <2>4. Kept(buf, new) BY <1>3, <1>4, <1>5, ReadKeeps
  <2>5. BufferHasFirmwareLine(buf) \/ Quiet(new) BY <1>3, <1>4, <1>5, NothingMissed
  <2> HIDE DEF buf, new
  <2>6. Len(buf) <= Cap + Drop BY <1>3, <1>4, <2>2, <2>3
  <2> QED BY <2>1, <2>4, <2>5, <2>6, CapKeeps
<1>7. /\ heard' = [heard EXCEPT ![p] = new]
      /\ \/ /\ probe' = [probe EXCEPT ![p] = "matched"]
            /\ accum' = [accum EXCEPT ![p] = buf]
         \/ /\ probe' = [probe EXCEPT ![p] = "check"]
            /\ accum' = [accum EXCEPT ![p] = Capped(buf)]
            /\ ~BufferHasFirmwareLine(buf)
  BY <1>1 DEF ProbeTo
<1> HIDE DEF buf, new
<1>8. SearchTypeOK' BY <1>2, <1>6, <1>7 DEF SearchTypeOK
<1>9. BuffersKeepUp'
  <2>1. ASSUME NEW q \in SerialPorts, q # p
        PROVE  Kept(accum'[q], heard'[q]) /\ (Listening(q)' \/ GaveUp(q)' => Quiet(heard'[q]))
    <3>1. accum'[q] = accum[q] /\ heard'[q] = heard[q] /\ probe'[q] = probe[q]
      BY <1>7, <2>1 DEF SearchTypeOK
    <3> QED BY <1>2, <3>1 DEF BuffersKeepUp, Listening, GaveUp
  <2>2. Kept(accum'[p], heard'[p]) BY <1>6, <1>7 DEF SearchTypeOK
  <2>3. Listening(p)' \/ GaveUp(p)' => Quiet(heard'[p])
    BY <1>6, <1>7 DEF SearchTypeOK, Listening, GaveUp
  <2> QED BY <2>1, <2>2, <2>3 DEF BuffersKeepUp
<1>10. /\ \A q \in SerialPorts \ {p} : probe'[q] = probe[q]
       /\ probe'[p] \in {"check", "matched"}
  BY <1>7 DEF SearchTypeOK
<1>11. PortsAreHeld'
  <2>1. \A q \in SerialPorts : Sent(q)' <=> Sent(q) BY <1>2 DEF Sent
  <2>2. p # result /\ ~Sent(p) /\ open[p]
    BY <1>2 DEF SearchTypeOK, PortsAreHeld, MainInStep
  <2> QED BY <1>2, <1>10, <2>1, <2>2 DEF PortsAreHeld
<1>12. MainInStep'
  <2>1. p # result /\ ~AllDone BY <1>2 DEF SearchTypeOK, MainInStep, AllDone
  <2> QED BY <1>2, <1>10, <2>1 DEF SearchTypeOK, MainInStep
<1> QED BY <1>8, <1>9, <1>11, <1>12

LEMMA ReceiveStep ==
  ASSUME DiscoveryInv, Receive
  PROVE  DiscoveryInv'
<1> USE DiscoveryAssumption DEF DiscoveryInv, Receive, probeVars
<1>1. SearchTypeOK'
  <2>1. matches # <<>> => Head(matches) \in SerialPorts /\ Tail(matches) \in Seq(SerialPorts) BY DEF SearchTypeOK
  <2> QED BY <2>1 DEF SearchTypeOK
<1>2. BuffersKeepUp' BY BuffersUntouched DEF Listening, GaveUp
<1>3. PortsAreHeld' /\ MainInStep'
  <2>1. CASE matches = <<>> /\ AllDone /\ UNCHANGED <<result, matches>>
    BY <2>1 DEF SearchTypeOK, PortsAreHeld, Sent, MainInStep, AllDone
  <2>2. CASE matches # <<>> /\ result' = Head(matches) /\ matches' = Tail(matches)
    <3>1. /\ DOMAIN matches = 1..Len(matches) /\ DOMAIN matches' = 1..(Len(matches) - 1)
          /\ Len(matches) \in Nat \ {0} /\ result' = matches[1]
          /\ \A i \in 1..(Len(matches) - 1) : matches'[i] = matches[i + 1]
      BY <2>2 DEF SearchTypeOK
    <3>2. result' \in SerialPorts /\ Sent(result')
      <4>1. 1 \in DOMAIN matches BY <3>1
      <4>2. matches[1] \in SerialPorts BY <3>1, <4>1 DEF SearchTypeOK
      <4>3. Sent(result') BY <3>1, <4>1 DEF Sent
      <4> QED BY <3>1, <4>2, <4>3
    <3>3. ASSUME NEW q \in SerialPorts PROVE Sent(q)' <=> Sent(q) /\ q # result'
      <4>1. ASSUME NEW i \in DOMAIN matches' PROVE i + 1 \in DOMAIN matches /\ i + 1 # 1
        BY <3>1, <4>1
      <4>2. Sent(q)' => Sent(q) /\ q # result'
        BY <3>1, <4>1 DEF Sent, PortsAreHeld
      <4>3. ASSUME NEW i \in DOMAIN matches, matches[i] = q, q # result' PROVE Sent(q)'
        <5>1. i - 1 \in DOMAIN matches' /\ (i - 1) + 1 = i BY <3>1, <4>3
        <5> QED BY <3>1, <4>3, <5>1 DEF Sent
      <4> QED BY <4>2, <4>3 DEF Sent
    <3>4. \A i, j \in DOMAIN matches' : matches'[i] = matches'[j] => i = j
      <4> SUFFICES ASSUME NEW i \in DOMAIN matches', NEW j \in DOMAIN matches',
                          matches'[i] = matches'[j]
                   PROVE  i = j
        OBVIOUS
      <4>1. i + 1 \in DOMAIN matches /\ j + 1 \in DOMAIN matches BY <3>1
      <4>2. i + 1 = j + 1 BY <3>1, <4>1 DEF PortsAreHeld
      <4> QED BY <3>1, <4>2
    <3>5. result = NoPort BY DEF MainInStep
    <3>6. PortsAreHeld' BY <3>2, <3>3, <3>4, <3>5 DEF SearchTypeOK, PortsAreHeld
    <3>7. MainInStep' BY <3>2 DEF SearchTypeOK, PortsAreHeld, MainInStep
    <3> QED BY <3>6, <3>7
  <2> QED BY <2>1, <2>2
<1> QED BY <1>1, <1>2, <1>3

LEMMA ReturnStep ==
  ASSUME DiscoveryInv, Return
  PROVE  DiscoveryInv'
<1> USE DiscoveryAssumption DEF DiscoveryInv, Return, probeVars
<1>1. SearchTypeOK' BY DEF SearchTypeOK, AllDone
<1>2. result = NoPort => open' = open BY DEF SearchTypeOK, MainInStep
<1>3. BuffersKeepUp' BY <1>2, BuffersUntouched DEF Listening, GaveUp
<1>4. PortsAreHeld'
  <2>1. \A q \in SerialPorts : ~Sent(q)' BY DEF Sent
  <2>2. \A q \in SerialPorts : open'[q] <=> open[q] /\ ~Sent(q) BY DEF SearchTypeOK, Sent
  <2>3. \A i, j \in DOMAIN matches' : matches'[i] = matches'[j] => i = j OBVIOUS
  <2> QED BY <2>1, <2>2, <2>3 DEF PortsAreHeld, AllDone
<1>5. MainInStep' BY DEF SearchTypeOK, MainInStep, AllDone
<1> QED BY <1>1, <1>3, <1>4, <1>5

LEMMA StepKeeps == DiscoveryInv /\ [SearchNext]_searchVars => DiscoveryInv'
<1> SUFFICES ASSUME DiscoveryInv, [SearchNext]_searchVars PROVE DiscoveryInv' OBVIOUS
<1>1. ASSUME NEW p \in SerialPorts, Probe(p) \/ Expire(p) PROVE DiscoveryInv'
  BY <1>1, OpenStep, CheckStep, ReadStep, ReadNothingStep, ReadFailsStep, SendStep, ExpireStep
     DEF Probe
<1> QED BY <1>1, ReceiveStep, ReturnStep, StutterKeeps DEF SearchNext

(* What a probe keeps of what it heard, who holds which port, and how far     *)
(* discover_device is.                                                        *)
THEOREM DiscoveryInvariant == SearchSpec => []DiscoveryInv
BY InitHolds, StepKeeps, PTL DEF SearchSpec

(* Buffers hold tokens, and between reads no more than the cap.               *)
THEOREM DiscoveryTypeCorrect == SearchSpec => []SearchTypeOK
<1>1. DiscoveryInv => SearchTypeOK BY DEF DiscoveryInv
<1> QED BY <1>1, DiscoveryInvariant, PTL

(* discover_device returns with its result open and every other port closed,  *)
(* and returns nothing only if no device sent a line that fits in the buffer. *)
THEOREM SearchStaysSound == SearchSpec => []SearchIsSound
<1>1. DiscoveryInv => OnlyTheWinnerIsOpen
  BY DEF DiscoveryInv, PortsAreHeld, MainInStep, Sent, AllDone, OnlyTheWinnerIsOpen
<1>2. DiscoveryInv => NoBannerIsMissed
  BY DEF DiscoveryInv, BuffersKeepUp, Quiet, GaveUp, NoBannerIsMissed
<1> QED BY <1>1, <1>2, DiscoveryInvariant, PTL DEF SearchIsSound
=============================================================================
