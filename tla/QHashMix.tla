------------------------------ MODULE QHashMix ------------------------------
(***************************************************************************)
(* The integer mixing primitives of src/src/crypto/neuralleadqhash_interface.cpp *)
(* at the bit level: the rotl / rotr macros, improvedMix and               *)
(* mixBetweenBlocks, over words of W bits (32 in the code).  A rotation by *)
(* b is a rotation by b mod W, so that the four rotation amounts 13, 7, 17 *)
(* and 11 stay distinct and non-zero at W = 8.                             *)
(*                                                                         *)
(* improvedMix takes its four words by reference and updates them one     *)
(* after the other, each update reading the words as they are at that     *)
(* point; it is modelled on the array itself, through the four indices    *)
(* it is given, so that the overlapping windows of mixBetweenBlocks (and  *)
(* any aliasing) are exactly the code's.                                   *)
(***************************************************************************)
EXTENDS Naturals, Sequences, SequencesExt, Bitwise

CONSTANT W      \* bits per word

ASSUME W \in 1..16

Modulus == 2^W
Word == 0..(Modulus - 1)
Amount(b) == b % W

\* #define rotl(x, b): (x << b) | (x >> (32 - b)), truncated to uint32_t.
RotL(x, b) == ((x * 2^Amount(b)) % Modulus) + (x \div 2^(W - Amount(b)))

\* #define rotr(x, b): (x >> b) | (x << (32 - b)), truncated to uint32_t.
RotR(x, b) == (x \div 2^Amount(b)) + ((x * 2^(W - Amount(b))) % Modulus)

\* uint32_t addition and subtraction wrap.
AddW(x, y) == (x + y) % Modulus
SubW(x, y) == (x + Modulus - y) % Modulus

(***************************************************************************)
(* improvedMix(a, b, c, d) on state[ia], state[ib], state[ic], state[id]:  *)
(*   a = rotl(a, 13) ^ b;  b = rotr(b, 7) + c;                              *)
(*   c = rotl(c, 17) ^ d;  d = rotr(d, 11) + a;                             *)
(***************************************************************************)
ImprovedMix(st, ia, ib, ic, id) ==
  LET s1 == [st EXCEPT ![ia] = RotL(st[ia], 13) ^^ st[ib]]
      s2 == [s1 EXCEPT ![ib] = AddW(RotR(s1[ib], 7), s1[ic])]
      s3 == [s2 EXCEPT ![ic] = RotL(s2[ic], 17) ^^ s2[id]]
  IN  [s3 EXCEPT ![id] = AddW(RotR(s3[id], 11), s3[ia])]

\* The windows of mixBetweenBlocks: improvedMix(state[i], ..., state[i+3]).
Windows == <<<<0, 1, 2, 3>>, <<1, 2, 3, 4>>, <<2, 3, 4, 5>>, <<3, 4, 5, 6>>,
             <<4, 5, 6, 7>>>>

\* Mutant of MixBetweenBlocks: the fourth call passes state[4] twice.
MixBetweenBlocksAliased(st) ==
  LET ws == [Windows EXCEPT ![4] = <<3, 4, 4, 6>>]
  IN  FoldLeft(LAMBDA s, w : ImprovedMix(s, w[1], w[2], w[3], w[4]), st, ws)

\* mixBetweenBlocks(state): the five calls in order on the same array.
MixBetweenBlocks(st) ==
  FoldLeft(LAMBDA s, w : ImprovedMix(s, w[1], w[2], w[3], w[4]), st, Windows)

-----------------------------------------------------------------------------
(***************************************************************************)
(* Reference inverse, from the algebra of the four updates: undo d, c, b,  *)
(* a in that order (xor undoes xor, subtraction undoes addition, a         *)
(* rotation the other way undoes a rotation), and the calls last to first. *)
(***************************************************************************)
UnImprovedMix(st, ia, ib, ic, id) ==
  LET s3 == [st EXCEPT ![id] = RotL(SubW(st[id], st[ia]), 11)]
      s2 == [s3 EXCEPT ![ic] = RotR(s3[ic] ^^ s3[id], 17)]
      s1 == [s2 EXCEPT ![ib] = RotL(SubW(s2[ib], s2[ic]), 7)]
  IN  [s1 EXCEPT ![ia] = RotR(s1[ia] ^^ s1[ib], 13)]

UnMixBetweenBlocks(st) ==
  FoldRight(LAMBDA w, s : UnImprovedMix(s, w[1], w[2], w[3], w[4]), Windows, st)
=============================================================================
