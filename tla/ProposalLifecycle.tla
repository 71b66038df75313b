------------------------- MODULE ProposalLifecycle -------------------------
(***************************************************************************)
(* What the flat may expect of a rule proposal: it moves along the diagram *)
(* at the head of app/services/proposals.py, comes to one resolution that  *)
(* is never revised, and changes the rule book exactly once, at the moment *)
(* it passes.                                                              *)
(***************************************************************************)
EXTENDS Naturals

CONSTANT Ideas

VARIABLES
  phase,      \* phase[i]: a proposal status, "absent" before it is written
  amendments  \* amendments[i]: how often idea i was merged into the rules

lifecycle == <<phase, amendments>>

Open == {"draft", "pending_review", "voting"}

Init ==
  /\ phase      = [i \in Ideas |-> "absent"]
  /\ amendments = [i \in Ideas |-> 0]

Moves(i, from, to) ==
  /\ phase[i] \in from
  /\ phase' = [phase EXCEPT ![i] = to]
  /\ UNCHANGED amendments

Write(i) == \E first \in Open : Moves(i, {"absent"}, first)

Submit(i) == \E next \in {"pending_review", "voting"} : Moves(i, {"draft"}, next)

Approve(i) == Moves(i, {"pending_review"}, "voting")

\* By an administrator before the vote, or by the vote.
Reject(i) == Moves(i, Open, "rejected")

Expire(i) == Moves(i, {"voting"}, "expired")

Cancel(i) == Moves(i, Open, "cancelled")

\* By the vote, or by an administrator who overrides it.
Pass(i) ==
  /\ phase[i] \in {"pending_review", "voting"}
  /\ phase' = [phase EXCEPT ![i] = "passed"]
  /\ amendments' = [amendments EXCEPT ![i] = @ + 1]

Next ==
  \E i \in Ideas :
    \/ Write(i) \/ Submit(i) \/ Approve(i) \/ Reject(i)
    \/ Expire(i) \/ Cancel(i) \/ Pass(i)

Spec == Init /\ [][Next]_lifecycle
=============================================================================
