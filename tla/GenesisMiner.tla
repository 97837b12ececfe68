---------------------------- MODULE GenesisMiner ----------------------------
(***************************************************************************)
(* The genesis-block nonce search mineNow(mode, nTime, consensus, genesis, *)
(* nB, FileName) of src/src/chainparams.cpp.                               *)
(*                                                                         *)
(* Everything of the candidate block except the nonce is fixed by the      *)
(* caller, so the block hash is a function of nNonce alone: hashOf, chosen *)
(* once in Init from a small set of 256-bit values.  A hash is kept as its *)
(* 64 hex digits, most significant first, which is both what               *)
(* uint256::ToString() prints and, read as a number, what                  *)
(* UintToArith256 compares.  The loop counter i is a size_t, but the block *)
(* gets nNonce = (uint32_t)i and i is otherwise only printed, so i is kept *)
(* modulo the nonce space NonceSpace (2^32 in the code).  Logging and the  *)
(* output file are left out.                                               *)
(***************************************************************************)
EXTENDS Naturals, Sequences, FiniteSetsExt

CONSTANTS
  NonceSpace,   \* number of distinct nNonce values (2^32 in the code)
  Hashes,       \* the 256-bit values a candidate's GetHash() may take
  nB,           \* the compact target passed by the caller
  PowLimit      \* consensus.powLimit, as 64 hex digits

DIGITS == 64
Hex == 0..15
IsHex256(h) == DOMAIN h = 1..DIGITS /\ \A j \in 1..DIGITS : h[j] \in Hex
ASSUME /\ NonceSpace \in Nat \ {0}
       /\ \A h \in Hashes : IsHex256(h)
       /\ IsHex256(PowLimit)
       /\ nB \in Nat

Nonces == 0..(NonceSpace - 1)

\* size_t minDiff = 3
minDiff == 3

\* Big-endian digit strings of equal length compare as the numbers do.
Less(a, b) ==
  \E j \in 1..DIGITS : a[j] < b[j] /\ \A k \in 1..(j - 1) : a[k] = b[k]

(***************************************************************************)
(* The leading-'0' count of hb = hashGenesisBlock.ToString(): the loop     *)
(* over y stops at the first character that is not '0'.                    *)
(***************************************************************************)
LeadingZeros(h) ==
  IF \A j \in 1..DIGITS : h[j] = 0 THEN DIGITS
  ELSE Min({j \in 1..DIGITS : h[j] /= 0}) - 1

(***************************************************************************)
(* arith_uint256::SetCompact (Bitcoin's compact encoding, a collaborator   *)
(* outside this repository): a 23-bit mantissa shifted by 8*(size-3) bits, *)
(* with the sign bit and the overflow flagged.                             *)
(***************************************************************************)
nSize == nB \div 2^24
nWord == nB % 2^23
fNegative == nWord /= 0 /\ (nB \div 2^23) % 2 = 1
fOverflow == nWord /= 0 /\ \/ nSize > 34
                           \/ nWord > 255 /\ nSize > 33
                           \/ nWord > 65535 /\ nSize > 32
\* Hex digit j (1 is the most significant) of the decoded target: digit
\* 16^p of the value is digit 16^(p - 2*(nSize-3)) of nWord.
bnTarget ==
  [j \in 1..DIGITS |->
     LET k == (DIGITS - j) - 2 * (nSize - 3)
     IN  IF k \in 0..5 THEN (nWord \div 16^k) % 16 ELSE 0]

IsZero(h) == \A j \in 1..DIGITS : h[j] = 0

\* The range check of lines 108-111, whose branch does nothing.
TargetInRange ==
  ~(fNegative \/ IsZero(bnTarget) \/ fOverflow \/ Less(PowLimit, bnTarget))

NoHash == [j \in 1..DIGITS |-> 16]   \* before the first candidate

VARIABLES
  hashOf,         \* nNonce -> GetHash() of CreateGenesisBlock(nTime, nNonce, nB, ...)
  i,              \* the nonce under test
  diffragg,       \* best leading-zero count seen so far
  hashGenesisBlock, \* consensus.hashGenesisBlock, written every iteration
  returned        \* mineNow has left its loop

vars == <<hashOf, i, diffragg, hashGenesisBlock, returned>>

Init ==
  /\ hashOf \in [Nonces -> Hashes]
  /\ i = 0
  /\ diffragg = 0
  /\ hashGenesisBlock = NoHash
  /\ returned = FALSE

\* Mutant of ZeroBreak: the record test reads diffragg before the update.
ZeroBreakStale(y, d) == y > d /\ d >= minDiff

\* if (y > diffragg) { diffragg = y; if (diffragg >= minDiff) break; }
ZeroBreak(y, d) == y > d /\ y >= minDiff

\* i++, seen by the block through nNonce = (uint32_t)i.
NextNonce(n) == (n + 1) % NonceSpace

(***************************************************************************)
(* One iteration of while(true): build and hash the candidate, leave when  *)
(* its leading zeros set a record of at least minDiff, else leave when the *)
(* target is in range and above the hash, else try the next nonce.         *)
(***************************************************************************)
Iterate ==
  LET h         == hashOf[i]
      y         == LeadingZeros(h)
      zeroBreak == ZeroBreak(y, diffragg)
      powBreak  == TargetInRange /\ Less(h, bnTarget)
  IN  /\ ~returned
      /\ hashGenesisBlock' = h
      /\ diffragg' = IF y > diffragg THEN y ELSE diffragg
      /\ returned' = (zeroBreak \/ powBreak)
      /\ i' = IF zeroBreak \/ powBreak THEN i ELSE NextNonce(i)
      /\ UNCHANGED hashOf

Next == Iterate

\* The loop runs on the caller's thread without waiting on anything.
Spec == Init /\ [][Next]_vars /\ WF_vars(Iterate)

-----------------------------------------------------------------------------
\* Whether a nonce's hash would stop the search, by the code's own rules.
Stops(n) ==
  LeadingZeros(hashOf[n]) >= minDiff \/ (TargetInRange /\ Less(hashOf[n], bnTarget))

(***************************************************************************)
(* If any nonce of the 32-bit space gives a hash that stops the search,    *)
(* mineNow returns: the nonce counter visits every nonce, wrapping through *)
(* the uint32_t truncation, and diffragg never rises past a record without *)
(* the break being taken.                                                  *)
(***************************************************************************)
Termination == (\E n \in Nonces : Stops(n)) => <>returned

(***************************************************************************)
(* Spec 6, proof-of-work boundary: the digest the miner settles on, read   *)
(* as a big-endian integer, is at or below the target decoded from nB.     *)
(***************************************************************************)
MinedMeetsTarget ==
  returned => ~Less(bnTarget, hashGenesisBlock)
=============================================================================
