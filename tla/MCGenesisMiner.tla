--------------------------- MODULE MCGenesisMiner ---------------------------
(***************************************************************************)
(* The main-network call of mineNow (chainparams.cpp line 254): nB =       *)
(* 0x1F0fffff and powLimit 000fff...f, over three nonces and five hashes:  *)
(* one below the target, the target's own 000fffff prefix followed by a    *)
(* nonzero digit (three zeros, above the target), two and one leading      *)
(* zeros, and four zeros.                                                  *)
(***************************************************************************)
EXTENDS GenesisMiner

\* A 64-digit value: the given leading digits, then fill.
HexOf(prefix, fill) ==
  [j \in 1..DIGITS |-> IF j <= Len(prefix) THEN prefix[j] ELSE fill]

MCNonceSpace == 3
MCnB == 520093695   \* 0x1F0fffff
MCPowLimit == HexOf(<<0, 0, 0>>, 15)
MCHashes ==
  { HexOf(<<0, 0, 0, 13, 5>>, 15),                 \* 000d5f..., below the target
    HexOf(<<0, 0, 0, 15, 15, 15, 15, 15, 1>>, 0),  \* 000fffff1..., above it
    HexOf(<<0, 0, 1>>, 0),                         \* two leading zeros
    HexOf(<<0, 0, 0, 0, 1>>, 0),                   \* four leading zeros
    HexOf(<<15>>, 15) }                            \* fff...f
=============================================================================
