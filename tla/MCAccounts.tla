----------------------------- MODULE MCAccounts -----------------------------
(***************************************************************************)
(* Accounts for TLC: ann is in the flat, others sign up.                   *)
(***************************************************************************)
EXTENDS Accounts, TLC

CONSTANTS ann, bob, cat, annie, rob, kit

AnnsName == [m \in {ann} |-> annie]

\* Two people are handed the same invitation and share a mailbox, and ann
\* claims that address too.
Signup(e, u, i) == [flow |-> [email |-> e, owner |-> None], username |-> u, invite |-> i]
OneMailbox ==
  UNION {{Signup(e, u, i) : u \in {rob, kit}, i \in Invites} \cup
         {[flow |-> [email |-> e, owner |-> ann], username |-> None, invite |-> None]}
         : e \in Emails}

\* Only kit signs up, with no invitation.
KitsSignup == {Signup(e, kit, None) : e \in Emails}

\* Slots and newcomers are interchangeable, and the run that uses this
\* checks no liveness.
Symmetry == Permutations(Requests) \cup Permutations({bob, cat})
=============================================================================
