------------------------- MODULE ComplaintLifecycle -------------------------
(***************************************************************************)
(* What a complaint promises the flat, whoever touches it: it is raised    *)
(* once, answered or left to lapse, decided at most once, and a decision   *)
(* to register it creates a debt that is paid once and for all.  Several   *)
(* complaints may move in the same step.                                   *)
(***************************************************************************)
CONSTANT Complaints

VARIABLES
  phase,  \* phase[c]: "none", "raised", "voting", "registered" or "rejected"
  debt    \* debt[c]: "none", "owed", "overdue", "claimed" or "settled"

lifecycle == <<phase, debt>>

Init ==
  /\ phase = [c \in Complaints |-> "none"]
  /\ debt  = [c \in Complaints |-> "none"]

Moves(c, from, to) == phase[c] \in from /\ phase'[c] = to /\ debt'[c] = debt[c]

Raise(c) == Moves(c, {"none"}, "raised")

OpenVote(c) == Moves(c, {"raised"}, "voting")

\* By the vote, or at once when nobody is left to vote.
Reject(c) == Moves(c, {"raised", "voting"}, "rejected")

\* By the accused, by lapse of the cooling window, or by the vote.
Register(c) ==
  /\ phase[c] \in {"raised", "voting"} /\ debt[c] = "none"
  /\ phase'[c] = "registered" /\ debt'[c] = "owed"

Owes(c, from, to) == debt[c] \in from /\ debt'[c] \in to /\ phase'[c] = phase[c]

Remind(c) == Owes(c, {"owed"}, {"overdue"})

Pay(c) == Owes(c, {"owed", "overdue"}, {"claimed", "settled"})

Verify(c) == Owes(c, {"claimed"}, {"settled"})

Stay(c) == phase'[c] = phase[c] /\ debt'[c] = debt[c]

Next ==
  \A c \in Complaints :
    \/ Raise(c) \/ OpenVote(c) \/ Reject(c) \/ Register(c)
    \/ Remind(c) \/ Pay(c) \/ Verify(c) \/ Stay(c)

Spec == Init /\ [][Next]_lifecycle
=============================================================================
