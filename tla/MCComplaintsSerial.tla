------------------------- MODULE MCComplaintsSerial -------------------------
(***************************************************************************)
(* The instance of ComplaintsSerial for TLC: ann files the same complaint  *)
(* about bob again and again, so that two fines share an accused, a        *)
(* payment, a sweep and the guards against spam; cat and dan are the       *)
(* neutral voters.                                                         *)
(***************************************************************************)
EXTENDS ComplaintsSerial, TLC

CONSTANTS ann, bob, cat, dan, litter

LitterForm == {[accuser |-> ann, accused |-> bob, rule |-> litter]}

\* cat and dan play the same part; only invariants and action properties
\* are checked in the run that uses this.
VoterSymmetry == Permutations({cat, dan})
=============================================================================
