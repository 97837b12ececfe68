---------------------------- MODULE QHashStream ----------------------------
(***************************************************************************)
(* The streaming hasher NeuralLeadQHash_iface of                           *)
(* src/src/crypto/neuralleadqhash_interface.cpp: Write, Finalize, Reset    *)
(* and the block transform sha256::Transform they call.                    *)
(*                                                                         *)
(* Data abstraction.  The per-block compression DirectComputeHash (SHA-2   *)
(* rounds, neural and quantum stages, floating point) is out of TLC's      *)
(* reach and is kept uninterpreted: the eight-word state s is a term that  *)
(* records the computation that produced it.  Two digests are equal in the *)
(* model iff they are the same computation.  All CONTROL of Write,         *)
(* Finalize, Reset and Transform (buffer fill, multi-block path, tail      *)
(* copy, padding length, the aiai scratch block) is kept.  The caller      *)
(* writes the bytes of one message in chunks; byte k of the message has    *)
(* value MsgByte(k), so that every chunking of a message writes the same   *)
(* bytes.                                                                  *)
(***************************************************************************)
EXTENDS Naturals, Sequences, SequencesExt, FiniteSetsExt

CONSTANTS
  Chunks,     \* lengths the caller may pass to one Write call
  MaxLen,     \* bound on the length of one message
  MaxWrites,  \* bound on the number of Write calls for one message
  PairCounts, \* values of SHA256D64's blocks argument
  MaxResets   \* bound on the number of Reset calls on the one object

ASSUME Chunks \subseteq Nat /\ MaxLen \in 0..(2^27) /\ MaxWrites \in Nat /\ MaxResets \in Nat

BLOCK == 64                \* block size, the literal 64 of the code
IV == "IV"                 \* sha256::Initialize(s): the eight initial words
NoDigest == "none"

\* Byte k (from 0) of the message the caller hashes.
MsgByte(k) == k % 256
MsgBytes(from, n) == [i \in 1..n |-> MsgByte(from + i - 1)]
Zeros(n) == [i \in 1..n |-> 0]

(***************************************************************************)
(* Uninterpreted parts of the compression.                                 *)
(***************************************************************************)
\* aiai[a+j] += hhh[j] with hhh = WriteBE32(s[u % 8]): block plus state.
AddState(aiai, s) == <<"addbe", aiai, s>>
\* DirectComputeHash(aiai, 64, oioi).
Dch(aiai) == <<"dch", aiai>>
\* s[i] += ReadBE32(oioi + 4i).
AddWords(s, oioi) == <<"add", s, oioi>>

(***************************************************************************)
(* sha256::Transform(s, chunk, blocks).  aiai is copied from chunk once,   *)
(* before the loop; each iteration adds the state into aiai, compresses it *)
(* and adds the result into s.  chunk += 64 advances a pointer that is     *)
(* never read again, so blocks after the first are derived from aiai, not  *)
(* from the chunk.                                                         *)
(***************************************************************************)
RECURSIVE Absorb(_, _, _)
Absorb(s, aiai, n) ==
  IF n = 0 THEN s
  ELSE LET a2 == AddState(aiai, s)
       IN  Absorb(AddWords(s, Dch(a2)), a2, n - 1)

Transform(s, chunk, blocks) == Absorb(s, SubSeq(chunk, 1, BLOCK), blocks)

\* memcpy(buf + off, src, Len(src)) on the 64-byte array buf, kept as the
\* prefix of it written so far (the rest is uninitialised and never read).
Memcpy(buf, off, src) ==
  [i \in 1..Max({Len(buf), off + Len(src)}) |->
     IF off < i /\ i <= off + Len(src) THEN src[i - off] ELSE buf[i]]

\* The buffered bytes not yet transformed: buf[0 .. bytes % 64).
Live(h) == SubSeq(h.buf, 1, h.bytes % BLOCK)

\* Mutant of WriteOp: the fill branch forgets bufsize = 0, so the tail is
\* copied at the old offset.
WriteOpKeepsBufsize(h, data) ==
  LET len     == Len(data)
      bufsize == h.bytes % BLOCK
      fill    == bufsize /= 0 /\ bufsize + len >= BLOCK
      buf1    == IF fill THEN Memcpy(h.buf, bufsize, SubSeq(data, 1, BLOCK - bufsize))
                 ELSE h.buf
      d1      == IF fill THEN BLOCK - bufsize ELSE 0
      blocks  == (len - d1) \div BLOCK
      middle  == SubSeq(data, d1 + 1, d1 + BLOCK * blocks)
      s1      == IF fill THEN Transform(h.s, buf1, 1) ELSE h.s
      d2      == d1 + BLOCK * blocks
  IN [h   |-> [s     |-> IF blocks > 0 THEN Transform(s1, middle, blocks) ELSE s1,
               buf   |-> IF len > d2 THEN Memcpy(buf1, bufsize, SubSeq(data, d2 + 1, len))
                         ELSE buf1,
               bytes |-> h.bytes + len],
      fed |-> (IF fill THEN buf1 ELSE <<>>) \o middle]

(***************************************************************************)
(* NeuralLeadQHash_iface::Write(data, len) on a hasher h = [s, buf, bytes].*)
(* Returns the new hasher and the bytes handed to Transform.               *)
(***************************************************************************)
WriteOp(h, data) ==
  LET len     == Len(data)
      bufsize == h.bytes % BLOCK
      fill    == bufsize /= 0 /\ bufsize + len >= BLOCK
      buf1    == IF fill THEN Memcpy(h.buf, bufsize, SubSeq(data, 1, BLOCK - bufsize))
                 ELSE h.buf
      s1      == IF fill THEN Transform(h.s, buf1, 1) ELSE h.s
      d1      == IF fill THEN BLOCK - bufsize ELSE 0
      bs1     == IF fill THEN 0 ELSE bufsize
      blocks  == (len - d1) \div BLOCK
      middle  == SubSeq(data, d1 + 1, d1 + BLOCK * blocks)
      s2      == IF blocks > 0 THEN Transform(s1, middle, blocks) ELSE s1
      d2      == d1 + BLOCK * blocks
      tail    == SubSeq(data, d2 + 1, len)
  IN [h   |-> [s     |-> s2,
               buf   |-> IF len > d2 THEN Memcpy(buf1, bs1, tail) ELSE buf1,
               bytes |-> h.bytes + len],
      fed |-> (IF fill THEN buf1 ELSE <<>>) \o middle]

\* WriteBE64(sizedesc, bytes << 3): bytes << 3 on a uint64_t, big endian.
\* The shift cannot wrap below 2^61 bytes; MaxLen keeps bits under 2^31, so
\* the four high-order bytes are zero.
SizeDesc(bytes) ==
  LET bits == bytes * 8
  IN  [i \in 1..8 |-> IF i <= 4 THEN 0 ELSE (bits \div (256^(8 - i))) % 256]

\* Mutant of PadLen: 120 for 119.
PadLenOffByOne(bytes) == 1 + ((120 - (bytes % BLOCK)) % BLOCK)

\* Length of the Write(pad, 1 + ((119 - (bytes % 64)) % 64)) call.
PadLen(bytes) == 1 + ((119 - (bytes % BLOCK)) % BLOCK)
PadBytes(bytes) == <<128>> \o Zeros(PadLen(bytes) - 1)

(***************************************************************************)
(* NeuralLeadQHash_iface::Finalize: the size is taken before padding, then *)
(* two Writes, then the eight words of s are the digest.                   *)
(***************************************************************************)
FinalizeOp(h) ==
  LET sz == SizeDesc(h.bytes)
      w1 == WriteOp(h, PadBytes(h.bytes))
      w2 == WriteOp(w1.h, sz)
  IN  [h      |-> w2.h,
       fed    |-> w1.fed \o w2.fed,
       stream |-> PadBytes(h.bytes) \o sz,
       digest |-> w2.h.s]

\* The constructor NeuralLeadQHash_iface(UseGPU): bytes(0), Initialize(s);
\* buf is left uninitialised (never read before written).
Fresh == [s |-> IV, buf |-> <<>>, bytes |-> 0]

\* Mutant of ResetOp: the byte counter is not cleared.
ResetKeepsBytes(h) == [h EXCEPT !.s = IV]

\* NeuralLeadQHash_iface::Reset: bytes = 0, Initialize(s); buf untouched.
ResetOp(h) == [h EXCEPT !.s = IV, !.bytes = 0]

(***************************************************************************)
(* The batch pair API.  sha256::TransformD64(out, in) runs Transform(s,    *)
(* in, 2) from Initialize(s) and writes s[k] + C[k] big endian; C lists    *)
(* the constants in the order of lines 184-191, which is not Initialize's  *)
(* order (words 4 and 7 are exchanged).                                    *)
(***************************************************************************)
IVWords == <<"6a09e667", "bb67ae85", "3c6ef372", "a54ff53a",
             "5be0cd19", "9b05688c", "1f83d9ab", "510e527f">>
D64Added == <<"6a09e667", "bb67ae85", "3c6ef372", "a54ff53a",
              "510e527f", "9b05688c", "1f83d9ab", "5be0cd19">>

\* WriteBE32(out + 4k, s[k] + C[k]): byte j (1..32) of the output.
TransformD64(in) ==
  LET s == Transform(IV, in, 2)
  IN  [j \in 1..32 |-> <<"be32", <<"add", <<"word", s, (j - 1) \div 4>>,
                                   D64Added[(j - 1) \div 4 + 1]>>, (j - 1) % 4>>]

(***************************************************************************)
(* SHA256D64(out, in, blocks): while (blocks) TransformD64(out, in),       *)
(* out += 32, in += 64, --blocks, on the caller's arrays.                  *)
(***************************************************************************)
SHA256D64(out, in, blocks) ==
  FoldLeft(LAMBDA o, b : Memcpy(o, 32 * (b - 1),
                                TransformD64(SubSeq(in, BLOCK * (b - 1) + 1, BLOCK * b))),
           out, [b \in 1..blocks |-> b])

(***************************************************************************)
(* State.  hasher is the object; the rest is the caller and history:       *)
(* msgLen / writes count the message bytes and Write calls since the last  *)
(* construction or Reset, chunks is the list of chunk lengths written,     *)
(* stream every byte passed to Write (Finalize's padding included), fed    *)
(* every byte handed to Transform, digest the output of Finalize.  pairIn  *)
(* and pairOut are the arrays of the last SHA256D64 call; resets counts   *)
(* the Reset calls so far.                                                 *)
(***************************************************************************)
VARIABLES hasher, phase, msgLen, chunks, stream, fed, digest, pairIn, pairOut,
          resets

streamVars == <<hasher, phase, msgLen, chunks, stream, fed, digest, resets>>
vars == <<hasher, phase, msgLen, chunks, stream, fed, digest, pairIn, pairOut, resets>>

Init ==
  /\ hasher = Fresh
  /\ phase  = "fresh"
  /\ msgLen = 0
  /\ chunks = <<>>
  /\ stream = <<>>
  /\ fed    = <<>>
  /\ digest = NoDigest
  /\ pairIn = <<>>
  /\ pairOut = <<>>
  /\ resets = 0

\* The caller writes the next n bytes of its message.
Write(n) ==
  /\ phase \in {"fresh", "accum"}
  /\ msgLen + n <= MaxLen
  /\ Len(chunks) < MaxWrites
  /\ LET data == MsgBytes(msgLen, n)
         w    == WriteOp(hasher, data)
     IN /\ hasher' = w.h
        /\ fed'    = fed \o w.fed
        /\ stream' = stream \o data
  /\ phase'  = "accum"
  /\ msgLen' = msgLen + n
  /\ chunks' = Append(chunks, n)
  /\ UNCHANGED <<digest, pairIn, pairOut, resets>>

\* The caller finalizes; a second Finalize needs a Reset first (spec 4.6).
Finalize ==
  /\ phase \in {"fresh", "accum"}
  /\ LET f == FinalizeOp(hasher)
     IN /\ hasher' = f.h
        /\ fed'    = fed \o f.fed
        /\ stream' = stream \o f.stream
        /\ digest' = f.digest
  /\ phase' = "final"
  /\ UNCHANGED <<msgLen, chunks, pairIn, pairOut, resets>>

Reset ==
  /\ resets < MaxResets
  /\ resets' = resets + 1
  /\ hasher' = ResetOp(hasher)
  /\ phase'  = "fresh"
  /\ msgLen' = 0
  /\ chunks' = <<>>
  /\ stream' = <<>>
  /\ fed'    = <<>>
  /\ digest' = NoDigest
  /\ UNCHANGED <<pairIn, pairOut>>

\* Some thread hashes n pairs with SHA256D64 into a fresh output array; it
\* shares no state with the streaming hasher.
PairHash(n) ==
  LET in == MsgBytes(0, BLOCK * n)
  IN  /\ pairIn' = in
      /\ pairOut' = SHA256D64(<<>>, in, n)
      /\ UNCHANGED streamVars

Next ==
  \/ \E n \in Chunks : Write(n)
  \/ Finalize
  \/ Reset
  \/ \E n \in PairCounts : PairHash(n)

Spec == Init /\ [][Next]_vars

-----------------------------------------------------------------------------
(***************************************************************************)
(* Reference definitions (spec 4.1, 4.6).                                  *)
(***************************************************************************)

\* Merkle-Damgard padding: data, one 0x80 byte, the fewest zero bytes that
\* make room, the 8-byte big-endian bit length; a multiple of 64 bytes.
MDPad(m) ==
  LET k == CHOOSE z \in 0..(BLOCK - 1) : (Len(m) + 1 + z + 8) % BLOCK = 0
  IN  m \o <<128>> \o Zeros(k) \o SizeDesc(Len(m))

\* The digest the spec promises: the padded message compressed one 64-byte
\* block at a time from the initial state.
RefDigest(m) ==
  LET p == MDPad(m)
      step(s, i) == Transform(s, SubSeq(p, (i - 1) * BLOCK + 1, i * BLOCK), 1)
  IN  FoldLeft(step, IV, [i \in 1..(Len(p) \div BLOCK) |-> i])

\* The digest a never-used instance gives for the same Write calls.
FreshDigest(cs) ==
  LET wr(h, c) == WriteOp(h, MsgBytes(c[1], c[2])).h
      offs     == [i \in DOMAIN cs |->
                     <<FoldLeft(LAMBDA x, y : x + y, 0, SubSeq(cs, 1, i - 1)), cs[i]>>]
  IN  FinalizeOp(FoldLeft(wr, Fresh, offs)).digest

-----------------------------------------------------------------------------
TypeOK ==
  /\ hasher.bytes \in Nat
  /\ hasher.buf \in Seq(0..255)
  /\ Len(hasher.buf) <= BLOCK
  /\ phase \in {"fresh", "accum", "final"}
  /\ msgLen \in 0..MaxLen
  /\ chunks \in Seq(Chunks)
  /\ stream \in Seq(0..255)
  /\ fed \in Seq(0..255)

FinalizeFraming ==
  phase = "final" => stream = MDPad(MsgBytes(0, msgLen))

(***************************************************************************)
(* Spec 8.4: after Reset, an instance produces the digest a never-used     *)
(* instance produces for the same Write calls (Reset leaves buf as it is). *)
(***************************************************************************)
ResetEquivalence ==
  phase = "final" => digest = FreshDigest(chunks)

(***************************************************************************)
(* Spec 8.1 as refinement: the hasher implements QHashAbs, whose Finalize  *)
(* returns the padded message compressed block by block, whatever chunks   *)
(* the message was written in (Write's multi-block call to Transform).     *)
(***************************************************************************)
Abs == INSTANCE QHashAbs WITH H <- RefDigest, msg <- MsgBytes(0, msgLen)

ImplementsQHashAbs == Abs!AbsSpec

=============================================================================
