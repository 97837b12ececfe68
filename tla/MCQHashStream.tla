--------------------------- MODULE MCQHashStream ---------------------------
(* Model-checking instance of QHashStream: chunk lengths around the block  *)
(* size (spec 8.1 lists 0, 1, 63, 64, 65), and 55 and 56 so that the      *)
(* message ends on both sides of the pad boundary; a message of up to three*)
(* blocks, so that Finalize's padding spills into a second block.  Pair    *)
(* batches of zero, one and two inputs, so that the pointer strides of     *)
(* SHA256D64 matter.                                                       *)
EXTENDS QHashStream

MCChunks == {0, 1, 55, 63, 64, 65, 128}
MCMaxLen == 130
MCMaxWrites == 3
MCPairCounts == {2}
MCMaxResets == 2
=============================================================================
