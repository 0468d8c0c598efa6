----------------------------- MODULE Encryption -----------------------------
(***************************************************************************)
(* The vendor's cipher and its inverse (kmbox_net/encryption.rs), on a     *)
(* sequence of ENC_WORDS words of WordBits bits.  The code has 32 words of *)
(* 32 bits; TLC's integers leave room for about 24 bits.                   *)
(***************************************************************************)
EXTENDS Integers

CONSTANTS
  WordBits,    \* width of a word, a multiple of four
  ENC_WORDS,
  ENC_ROUNDS,
  DELTA

ASSUME EncryptionAssumption ==
  /\ WordBits \in 8..32 /\ WordBits % 4 = 0
  /\ ENC_WORDS \in Nat \ {0, 1} /\ ENC_ROUNDS \in Nat /\ DELTA \in 0..(2^WordBits - 1)

Words == 0..(2^WordBits - 1)
Blocks == [1..ENC_WORDS -> Words]

Wrap(v) == v % 2^WordBits

\* The low bits of a word go out at the left of a shift.
ShiftLeft(w, k) == (w % 2^(WordBits - k)) * 2^k
ShiftRight(w, k) == w \div 2^k

\* The exclusive or of two words: each of 32 bits that a word has and in which
\* they differ, at its place.
Bit(w, k) == (w \div 2^k) % 2
XorBit(a, b, k) == IF k < WordBits /\ Bit(a, k) # Bit(b, k) THEN 2^k ELSE 0
XorByte(a, b, k) ==
  XorBit(a, b, k) + XorBit(a, b, k + 1) + XorBit(a, b, k + 2) + XorBit(a, b, k + 3)
    + XorBit(a, b, k + 4) + XorBit(a, b, k + 5) + XorBit(a, b, k + 6) + XorBit(a, b, k + 7)
Xor(a, b) == XorByte(a, b, 0) + XorByte(a, b, 8) + XorByte(a, b, 16) + XorByte(a, b, 24)

\* The bytes of the MAC, the highest first, are read as one word, the lowest
\* first; the other three words of the key are zero.
KeyFromMac(mac) ==
  LET q == WordBits \div 4
      Part(k) == ShiftRight(mac, k * q) % 2^q
  IN <<Part(0) * 2^(3 * q) + Part(1) * 2^(2 * q) + Part(2) * 2^q + Part(3), 0, 0, 0>>

\* The word before, the word after, the round's sum, and the index from 0.
Mix(z, y, sum, p, key) ==
  LET e == ShiftRight(sum, 2) % 4
      p1 == Xor(ShiftRight(z, 5), ShiftLeft(y, 2))
      p2 == Xor(ShiftRight(y, 3), ShiftLeft(z, 4))
      p3 == Xor(sum, y)
      p4 == Xor(key[Xor(p % 4, e) + 1], z)
  IN Xor(Wrap(p1 + p2), Wrap(p3 + p4))

\* The updates of encrypt, round after round, word after word: the i-th one.
Updates == ENC_ROUNDS * ENC_WORDS
Word(i) == (i - 1) % ENC_WORDS
Sum(i) == Wrap(((i - 1) \div ENC_WORDS + 1) * DELTA)

\* What the i-th update adds to its word; both neighbours are as they are
\* now, and the first word and the last are neighbours.
Before(i) == (Word(i) + ENC_WORDS - 1) % ENC_WORDS
After(i) == (Word(i) + 1) % ENC_WORDS
MixAt(words, i, key) == Mix(words[Before(i) + 1], words[After(i) + 1], Sum(i), Word(i), key)

Added(words, i, key) == [words EXCEPT ![Word(i) + 1] = Wrap(@ + MixAt(words, i, key))]
Undone(words, i, key) == [words EXCEPT ![Word(i) + 1] = Wrap(@ - MixAt(words, i, key))]

Encrypt(words, key) ==
  LET after[i \in 0..Updates] == IF i = 0 THEN words ELSE Added(after[i - 1], i, key)
  IN after[Updates]

\* Mutant: the updates are undone in the order in which they were made.
DecryptForward(words, key) ==
  LET left[i \in 0..Updates] == IF i = 0 THEN words ELSE Undone(left[i - 1], i, key)
  IN left[Updates]

\* The last update is undone first: left[i] has the first i of them left.
Decrypt(words, key) ==
  LET left[i \in 0..Updates] == IF i = Updates THEN words ELSE Undone(left[i + 1], i + 1, key)
  IN left[0]
=============================================================================
