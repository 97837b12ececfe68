---------------------------- MODULE QHashDirect ----------------------------
(***************************************************************************)
(* The one-shot hash DirectComputeHash(data, length, hash_output) of       *)
(* src/src/crypto/neuralleadqhash_interface.cpp: its padding, its block    *)
(* loop (neural predicate, compress, mixBetweenBlocks) and the mixing      *)
(* accumulator quantum_mix threaded through the blocks.                    *)
(*                                                                         *)
(* The padding is modelled byte for byte.  compress is kept symbolic (a    *)
(* term per stage), like the compression in QHashStream: the SHA-2 rounds, *)
(* the float network and the simulated circuit are out of TLC's reach.     *)
(* A caller hashes one message of each length up to MaxLen; byte k of a    *)
(* message is MsgByte(k).                                                  *)
(*                                                                         *)
(* mixBetweenBlocks has external linkage, so it is also an entry point of  *)
(* its own: a caller may pass it any eight-word array.  That call is       *)
(* modelled at the bit level (module QHashMix, words of Width bits).       *)
(***************************************************************************)
EXTENDS Naturals, Sequences, SequencesExt

CONSTANTS
  MaxLen,     \* longest message hashed
  Width,      \* bits per word of a direct mixBetweenBlocks call
  MixInputs   \* the arrays a caller passes to mixBetweenBlocks

Mix == INSTANCE QHashMix WITH W <- Width

ASSUME MaxLen \in 0..(2^27)

BLOCK == 64
MsgByte(k) == k % 256
MsgBytes(n) == [i \in 1..n |-> MsgByte(i - 1)]
IV == "IVdirect"   \* the literal initial state of DirectComputeHash

\* Mutant of PaddedLength: the 9 bytes of marker and length forgotten.
PaddedLengthNoRoom(len) == ((len + 63) \div BLOCK) * BLOCK

\* padded_length = ((length + 9 + 63) / 64) * 64
PaddedLength(len) == ((len + 9 + 63) \div BLOCK) * BLOCK

\* (bit_len >> (i * 8)) & 0xFF with bit_len = length * 8 (below 2^31 here,
\* so bytes 4..7 are zero).
LenByte(bitLen, i) == IF i >= 4 THEN 0 ELSE (bitLen \div (256^i)) % 256

(***************************************************************************)
(* Pre-processing: padded_data is zero-filled, the message copied to its   *)
(* front, then padded_data[padded_length - 1 - i] set for i in 0..7.  The  *)
(* marker byte 0x80 is never written (line 570 is commented out).          *)
(***************************************************************************)
PadDirect(m) ==
  LET len == Len(m)
      p   == PaddedLength(len)
  IN  [j \in 1..p |-> IF j > p - 8 THEN LenByte(len * 8, p - j)
                      ELSE IF j <= len THEN m[j]
                      ELSE 0]

(***************************************************************************)
(* compress(state, block, quantum_mix, useNL), symbolically.  The four     *)
(* outer rounds XOR quantum_mix into every temp1; with useNL the state is  *)
(* fed forward and perturbed by the network, and the registers reloaded    *)
(* from it; the quantum stage folds five measured values into quantum_mix, *)
(* which the 65th step consumes; then the last improvedMix pair and the    *)
(* feed-forward into the state.                                            *)
(***************************************************************************)
Compress(state, block, qm, useNL) ==
  LET rounds == <<"rounds", state, block, qm>>
      st1    == IF useNL THEN <<"neural", <<"add", state, rounds>>>> ELSE state
      regs   == IF useNL THEN st1 ELSE rounds
      qm2    == <<"qmix", qm, regs>>
      regs2  == <<"mix", <<"step65", regs, block, qm2>>>>
  IN  [state |-> <<"add", st1, regs2>>, qm |-> qm2]

\* mixBetweenBlocks(state): five improvedMix calls over overlapping words.
MixBetweenBlocks(state) == <<"between", state>>

\* useNL = ((padded_data[i] + length) % 5 == 0) for the block at offset i.
UseNL(pd, i, len) == (pd[i + 1] + len) % 5 = 0

(***************************************************************************)
(* DirectComputeHash: the block loop from the initial state with           *)
(* quantum_mix = 0, then the eight words written big endian.               *)
(***************************************************************************)
DirectComputeHash(m) ==
  LET pd  == PadDirect(m)
      len == Len(m)
      step(acc, b) ==
        LET off == (b - 1) * BLOCK
            c   == Compress(acc.state, SubSeq(pd, off + 1, off + BLOCK), acc.qm,
                            UseNL(pd, off, len))
        IN  [state |-> MixBetweenBlocks(c.state), qm |-> c.qm]
      final == FoldLeft(step, [state |-> IV, qm |-> 0],
                        [b \in 1..(Len(pd) \div BLOCK) |-> b])
  IN  <<"be32", final.state>>

-----------------------------------------------------------------------------
(***************************************************************************)
(* Neither function keeps state between calls: the variables are the       *)
(* arguments and results of the last call, of one function or the other.  *)
(***************************************************************************)
VARIABLES hashedLen, padded, out, mixIn, mixOut

vars == <<hashedLen, padded, out, mixIn, mixOut>>

NoMix == <<>>

Init ==
  /\ hashedLen = -1
  /\ padded = <<>>
  /\ out = "none"
  /\ mixIn = NoMix
  /\ mixOut = NoMix

\* One call DirectComputeHash(data, len, out) for a message of length len.
Hash(len) ==
  LET m == MsgBytes(len)
  IN  /\ hashedLen' = len
      /\ padded' = PadDirect(m)
      /\ out' = DirectComputeHash(m)
      /\ mixIn' = NoMix
      /\ mixOut' = NoMix

\* One call mixBetweenBlocks(state) on the caller's array st, in place.
MixCall(st) ==
  /\ mixIn' = st
  /\ mixOut' = Mix!MixBetweenBlocks(st)
  /\ hashedLen' = -1
  /\ padded' = <<>>
  /\ out' = "none"

Next ==
  \/ \E len \in 0..MaxLen : Hash(len)
  \/ \E st \in MixInputs : MixCall(st)

Spec == Init /\ [][Next]_vars

-----------------------------------------------------------------------------
\* The Merkle-Damgard padding of spec 4.1 (the same reference as QHashStream).
MDPad(m) ==
  LET k == CHOOSE z \in 0..(BLOCK - 1) : (Len(m) + 1 + z + 8) % BLOCK = 0
  IN  m \o <<128>> \o [i \in 1..k |-> 0]
        \o [i \in 1..8 |-> LenByte(Len(m) * 8, 8 - i)]

\* The bit length stated by the last eight bytes of a padded message.
StatedBits(p) == FoldLeft(LAMBDA acc, b : acc * 256 + b, 0, SubSeq(p, Len(p) - 7, Len(p)))

(***************************************************************************)
(* The padding of DirectComputeHash can be undone: the padded data is a    *)
(* whole number of blocks, its last eight bytes state the bit length, and  *)
(* the message is the prefix of that length, untouched by the length field *)
(* (padded_length leaves room for it, lines 567-576).                      *)
(***************************************************************************)
PaddingDecodable ==
  hashedLen >= 0 =>
    /\ Len(padded) % BLOCK = 0
    /\ hashedLen <= Len(padded) - 8
    /\ StatedBits(padded) = hashedLen * 8
    /\ SubSeq(padded, 1, hashedLen) = MsgBytes(hashedLen)

(***************************************************************************)
(* Spec 4.1 / 9: the one-shot path frames a message exactly as the         *)
(* Merkle-Damgard rule does (data, 0x80, zeros, 64-bit length).            *)
(***************************************************************************)
PaddingIsMD ==
  hashedLen >= 0 => padded = MDPad(MsgBytes(hashedLen))

(***************************************************************************)
(* mixBetweenBlocks loses nothing: the array it leaves determines the one  *)
(* it was given, which the reference inverse recovers.  Five overlapping   *)
(* improvedMix calls update shared words through references, each reading *)
(* words the previous calls wrote; a permutation of the state between      *)
(* blocks is what keeps the extra mixing from merging states.              *)
(***************************************************************************)
MixInvertible ==
  mixIn /= NoMix => Mix!UnMixBetweenBlocks(mixOut) = mixIn
=============================================================================
