---------------------------- MODULE MCProposals ----------------------------
(***************************************************************************)
(* Instances of Proposals for TLC: a few tenants, cat the guest, one house *)
(* rule (curfew) and room for one new rule.                                *)
(***************************************************************************)
EXTENDS Proposals, TLC

CONSTANTS ann, cat, curfew, late, quiet

Seed == [text |-> late, amount |-> 100, active |-> TRUE]

Addition == [by |-> cat, type |-> "new_rule", target |-> None, text |-> quiet, amount |-> None]
Change   == [by |-> ann, type |-> "modify_rule", target |-> curfew, text |-> None, amount |-> 50]
Removal  == [by |-> ann, type |-> "delete_rule", target |-> curfew, text |-> None, amount |-> None]

OneOfEach   == {Addition, Change, Removal}
BookChanges == {Change, Removal}
Additions   == {Addition}

\* update() has none of create()'s checks: an edit may name any amount.
Raise   == {[text |-> None, amount |-> 200]}
Blunder == {[text |-> None, amount |-> -1]}
NoEdit  == {}

\* Request slots are interchangeable; only invariants and action
\* properties are checked in the run that uses this.
SlotSymmetry == Permutations(Requests)
=============================================================================
