---------------------------- MODULE MCChainParams ----------------------------
(***************************************************************************)
(* Two nodes; COIN scaled to 100 so that rewards fit TLC's integers; a     *)
(* reward that is not a multiple of 100; heights on both sides of the main *)
(* and test switch heights; garbage values on both sides of them.  The     *)
(* compile-time constants take their values from Bitcoin's consensus.h     *)
(* layout: maturity 100, fee and unlocks in range.  int is scaled to 8     *)
(* bits (INT_MAX 127); the segwit heights are unset, -2 and -1 on both     *)
(* sides of the lower bound, INT_MAX (the first height out of range) and   *)
(* INT_MAX + 1, which would wrap to -128 when narrowed.  The -vbparams     *)
(* entries: an unparsable number, an unknown deployment, and two           *)
(* well-formed ones for taproot with different start times, so that a     *)
(* later entry overwrites an earlier one.                                  *)
(***************************************************************************)
EXTENDS ChainParams

MCNodes == {"n1", "n2"}
MCRewards == {3037}
MCGarbage == {0, 20000}
MCHeights == {0, 1500, 10000}
MCCOIN == 100
MCINT_MAX == 127
MCNO_TIMEOUT == 2147483647
MCSegwitArgs == {{}, {-2}, {-1}, {127}, {128}}
MCVbEntries ==
  {[parts |-> 3, name |-> "taproot", start |-> 0, startOK |-> FALSE,
    timeout |-> 30, timeoutOK |-> TRUE],
   [parts |-> 3, name |-> "bogus", start |-> 10, startOK |-> TRUE,
    timeout |-> 30, timeoutOK |-> TRUE]}
  \cup
  {[parts |-> 3, name |-> "taproot", start |-> st, startOK |-> TRUE,
    timeout |-> 30, timeoutOK |-> TRUE] : st \in {10, 40}}
=============================================================================
