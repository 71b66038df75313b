---------------------------- MODULE MCComplaints ----------------------------
(***************************************************************************)
(* Instances of Complaints for TLC: ann complains about bob, and the other *)
(* members are the neutral voters.                                         *)
(***************************************************************************)
EXTENDS Complaints, TLC

CONSTANTS ann, bob, litter

OneForm    == {[accuser |-> ann, accused |-> bob, rule |-> None]}
LitterForm == {[accuser |-> ann, accused |-> bob, rule |-> litter]}

\* Request slots are interchangeable; only invariants and action
\* properties are checked in the run that uses this.
SlotSymmetry == Permutations(Requests)
=============================================================================
