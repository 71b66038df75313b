----------------------------- MODULE MCSessions -----------------------------
(***************************************************************************)
(* Sessions for TLC: one account, with a few passwords.                    *)
(***************************************************************************)
EXTENDS Sessions, TLC

CONSTANTS old

\* All passwords but the first are interchangeable.
Symmetry == Permutations(Passwords \ {old})
=============================================================================
