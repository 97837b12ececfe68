-------------------------- MODULE MCQHashSelfTest --------------------------
(* Three fixture files: enough for a stopping file to come before or after *)
(* another bad one in map order (the code has five).                       *)
EXTENDS QHashSelfTest

MCNFixtures == 3
=============================================================================
