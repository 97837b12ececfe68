------------------------------ MODULE QHashAbs ------------------------------
(***************************************************************************)
(* What the streaming hasher promises (spec 4.6, 4.7, 8.1, 8.4): it        *)
(* accumulates the message written since construction or Reset, and       *)
(* Finalize returns H of that message, whatever chunks it came in.         *)
(***************************************************************************)
EXTENDS Sequences, SequencesExt

CONSTANTS H(_), NoDigest

VARIABLES msg, phase, digest

absVars == <<msg, phase, digest>>

AbsInit ==
  /\ msg = <<>>
  /\ phase = "fresh"
  /\ digest = NoDigest

\* write(bytes): the message grows by the bytes written.
AbsWrite ==
  /\ phase \in {"fresh", "accum"}
  /\ IsPrefix(msg, msg')
  /\ phase' = "accum"
  /\ UNCHANGED digest

\* finalize(out): out is H of the whole message.
AbsFinalize ==
  /\ phase \in {"fresh", "accum"}
  /\ phase' = "final"
  /\ digest' = H(msg)
  /\ UNCHANGED msg

\* reset(): back to Fresh.
AbsReset ==
  /\ msg' = <<>>
  /\ phase' = "fresh"
  /\ digest' = NoDigest

AbsNext == AbsWrite \/ AbsFinalize \/ AbsReset

AbsSpec == AbsInit /\ [][AbsNext]_absVars
=============================================================================
