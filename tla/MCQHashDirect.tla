--------------------------- MODULE MCQHashDirect ---------------------------
(* Lengths 0..140: every residue of a length modulo 64, so both the case   *)
(* where the length field fits the last data block and the case that needs *)
(* an extra block, and messages of one, two and three blocks.              *)
(* mixBetweenBlocks is called at 8-bit words, where the rotations by 13,   *)
(* 7, 17 and 11 become 5, 7, 1 and 3, on 256 arrays spread over the word   *)
(* range (all zero, all ones, and multiples of a step that is odd).        *)
EXTENDS QHashDirect

MCMaxLen == 140
MCWidth == 8
MCMixInputs ==
  {[k \in 0..7 |-> (seed * (2 * k + 1) * 37 + k * 11) % 256] : seed \in 0..253}
  \cup {[k \in 0..7 |-> 0], [k \in 0..7 |-> 255]}
=============================================================================
