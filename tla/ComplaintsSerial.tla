-------------------------- MODULE ComplaintsSerial --------------------------
(***************************************************************************)
(* The handlers of Complaints when requests do not overlap: every request  *)
(* reads and writes in one step, the way the repository's tests drive it   *)
(* and its comments describe it.  The differences between this             *)
(* specification and Complaints!Spec are what concurrency costs.           *)
(***************************************************************************)
EXTENDS Complaints

\* The request of member m ends: nothing else was in flight.
Done == PaymentRequiresRegistered' /\ UNCHANGED <<standing, req>>

File(m) ==
  \E c \in Forms, f \in Fines :
    /\ MayFile(m, c)
    /\ Create(f, c, IF c.rule = None THEN 0 ELSE useCount[c.rule])
    /\ Done

Respond(m) ==
  \E f \in Fines :
    /\ MayAnswer(m, f, Row(f))
    /\ Accept(f, Row(f)) \/ Dispute(f, Eligible(f))
    /\ Done

Vote(m) ==
  \E f \in Fines, choice \in Ballots :
    /\ MayVote(m, f, Row(f))
    /\ CastVote(f, Row(f), m, votes[f][m], choice)
    /\ Done

PayFines(m) ==
  \E S \in (SUBSET Fines) \ {{}} :
    /\ \A f \in S : MayPay(m, f, Row(f))
    /\ MarkPaid(S)
    /\ Done

Verify ==
  \E f \in Fines : MayVerify(Row(f)) /\ VerifyPaid(f) /\ Done

SerialNext ==
  \/ \E m \in Active : File(m) \/ Respond(m) \/ Vote(m) \/ PayFines(m)
  \/ Verify
  \/ Sweep
  \/ Environment

SerialSpec == Init /\ [][SerialNext]_vars /\ Fairness

-----------------------------------------------------------------------------
(* The abstract lifecycle, implemented.                                    *)

Phase ==
  [f \in Fines |-> CASE status[f] = "absent"   -> "none"
                     [] status[f] = "pending"  -> "raised"
                     [] status[f] = "disputed" -> "voting"
                     [] status[f] = "void"     -> "rejected"
                     [] Registered(f)          -> "registered"]

Debt ==
  [f \in Fines |-> CASE pay[f] = "not_owed"    -> "none"
                     [] pay[f] = "marked_paid" -> "claimed"
                     [] OTHER                  -> pay[f]]

Lifecycle == INSTANCE ComplaintLifecycle
               WITH Complaints <- Fines, phase <- Phase, debt <- Debt

\* Every complaint follows the lifecycle drawn at the head of complaints.py
\* and of the PaymentStatus enumeration.
FollowsLifecycle == Lifecycle!Spec

\* The verdict on file is the one its ballots give, long after the vote.
VerdictMatchesBallots ==
  \A f \in Fines :
    status[f] \in {"upheld", "void"} => status[f] = Verdict(votes[f])

\* A vote that closes before its deadline, with nobody who voted having left
\* the flat, has heard every member entitled to vote.
EarlyCloseHeardEveryone ==
  [][\A f \in Fines :
       (/\ status[f] = "disputed" /\ status'[f] # "disputed"
        /\ clock[f]["vote"] = "running"
        /\ Casters(votes'[f]) \subseteq Active)
       => Eligible(f) \subseteq Casters(votes'[f])]_vars
=============================================================================
