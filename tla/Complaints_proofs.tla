-------------------------- MODULE Complaints_proofs -------------------------
(***************************************************************************)
(* Theorems about Complaints, for any number of members, complaints and    *)
(* overlapping requests; then about ComplaintsSerial, what the handlers    *)
(* guarantee in addition when requests do not overlap, and that they       *)
(* implement the lifecycle of complaints.py and fine.py.                   *)
(***************************************************************************)
EXTENDS ComplaintsSerial, FiniteSetTheorems, TLAPS

-----------------------------------------------------------------------------
(* Typing.                                                                 *)

\* A tally gives one of the two verdicts.
LEMMA VerdictType == \A ballots : Verdict(ballots) \in {"upheld", "void"}
  BY DEF Verdict

\* An idle slot is a well-typed slot.
LEMMA IdleType == Idle \in RequestType
<1>1. NoRows \in UNION {[S -> RowType] : S \in SUBSET Fines}
  <2>1. NoRows \in [{} -> RowType]
    BY DEF NoRows
  <2> QED
    BY <2>1
<1> QED
  BY <1>1 DEF Idle, RequestType

\* Reading rows leaves the request table typed.
LEMMA LoadType ==
  ASSUME TypeOK, NEW r \in Requests, NEW op, NEW S \in SUBSET Fines, NEW more \in RequestType,
         op \in {"create", "accept", "dispute", "vote", "pay", "verify"},
         Load(r, op, S, more)
  PROVE  TypeOK'
<1>1. [f \in S |-> Row(f)] \in UNION {[T -> RowType] : T \in SUBSET Fines}
  <2>1. [f \in S |-> Row(f)] \in [S -> RowType]
    BY DEF Load, TypeOK, Row, RowType
  <2> QED
    BY <2>1
<1>2. req[r].by \in Members \cup {None}
  BY DEF TypeOK, RequestType
<1>3. [more EXCEPT !.op = op, !.by = req[r].by, !.seen = [f \in S |-> Row(f)]] \in RequestType
  BY <1>1, <1>2 DEF RequestType
<1>4. req' \in [Requests -> RequestType]
  BY <1>3 DEF Load, TypeOK
<1>5. \A q \in Requests : req'[q].op # "idle" => req'[q].by \in Members
  BY DEF Load, TypeOK, RequestType
<1> QED
  BY <1>4, <1>5 DEF Load, TypeOK, rows

\* The end of a request leaves the request table typed.
LEMMA CommitType ==
  ASSUME TypeOK, NEW r \in Requests, req' = [req EXCEPT ![r] = Idle]
  PROVE  /\ req' \in [Requests -> RequestType]
         /\ \A q \in Requests : req'[q].op # "idle" => req'[q].by \in Members
  BY IdleType DEF TypeOK, Idle

\* Starting a window leaves the clocks typed.
LEMMA ClockType ==
  ASSUME TypeOK, NEW f \in Fines, NEW w \in Windows
  PROVE  [clock EXCEPT ![f][w] = "running"] \in [Fines -> [Windows -> Hands]]
<1>1. [clock[f] EXCEPT ![w] = "running"] \in [Windows -> Hands]
  BY DEF TypeOK, Hands
<1> QED
  BY <1>1 DEF TypeOK

\* The rows a handler writes keep the types of their columns.
LEMMA ObligationType ==
  ASSUME TypeOK, NEW f \in Fines, NEW row, RegisterObligation(f, row)
  PROVE  pay' \in [Fines -> PayStatuses] /\ clock' \in [Fines -> [Windows -> Hands]]
<1>1. "pay" \in Windows /\ "owed" \in PayStatuses
  BY DEF Windows, PayStatuses
<1>2. CASE row.pay = "not_owed"
  <2>1. pay' = [pay EXCEPT ![f] = "owed"] /\ clock' = [clock EXCEPT ![f]["pay"] = "running"]
    BY <1>2 DEF RegisterObligation
  <2> QED
    BY <2>1, <1>1, ClockType DEF TypeOK
<1>3. CASE row.pay # "not_owed"
  BY <1>3 DEF TypeOK, RegisterObligation
<1> QED
  BY <1>2, <1>3

\* Filing a complaint writes values of the columns' types.
LEMMA CreateType ==
  ASSUME TypeOK, NEW r \in Requests, CommitCreate(r)
  PROVE  TypeOK'
<1>1. PICK f \in Fines : Create(f, req[r].form, req[r].uses)
  BY DEF CommitCreate
<1>2. req[r].form \in FilledForms \cup {None} /\ req[r].uses \in Nat
  BY DEF TypeOK, RequestType
<1>3. /\ status' \in [Fines -> Statuses]
      /\ form' \in [Fines -> FilledForms \cup {None}]
  BY <1>1, <1>2 DEF Create, TypeOK, Statuses
<1>4. clock' \in [Fines -> [Windows -> Hands]]
  BY <1>1 DEF Create, TypeOK, Windows, Hands
<1>5. useCount' \in [Rules -> Nat]
  BY <1>1, <1>2 DEF Create, TypeOK
<1> QED
  BY <1>1, <1>3, <1>4, <1>5, CommitType DEF CommitCreate, Commit, Create, TypeOK

\* So does casting a vote, whether or not it closes the vote.
LEMMA VoteType ==
  ASSUME TypeOK, NEW r \in Requests, CommitVote(r)
  PROVE  TypeOK'
<1>1. PICK f \in Fines : CastVote(f, req[r].seen[f], req[r].by, req[r].prior, req[r].choice)
  BY DEF CommitVote, TypeOK, RequestType
<1>2. req[r].choice \in Ballots \cup {None}
  BY DEF TypeOK, RequestType
<1> DEFINE ballots == IF req[r].prior = req[r].choice THEN votes[f]
                      ELSE [votes[f] EXCEPT ![req[r].by] = req[r].choice]
<1>3. ballots \in [Members -> Ballots \cup {None}]
  BY <1>2 DEF TypeOK
<1>4. votes' \in [Fines -> [Members -> Ballots \cup {None}]]
  BY <1>1, <1>3 DEF CastVote, TypeOK
<1>5. /\ status' \in [Fines -> Statuses]
      /\ pay' \in [Fines -> PayStatuses]
      /\ clock' \in [Fines -> [Windows -> Hands]]
  <2>1. \/ FinalizeVote(f, req[r].seen[f], ballots)
        \/ UNCHANGED <<status, pay, clock>>
    BY <1>1 DEF CastVote
  <2>2. CASE FinalizeVote(f, req[r].seen[f], ballots)
    <3>1. status' \in [Fines -> Statuses]
      BY <2>2, VerdictType DEF FinalizeVote, TypeOK, Statuses
    <3> QED
      BY <2>2, <3>1, ObligationType DEF FinalizeVote, TypeOK
  <2> QED
    BY <2>1, <2>2 DEF TypeOK
<1> QED
  BY <1>1, <1>4, <1>5, CommitType DEF CommitVote, Commit, CastVote, TypeOK

\* So does a pass of the sweep.
LEMMA SweepType ==
  ASSUME TypeOK, Sweep
  PROVE  TypeOK'
<1>1. status' \in [Fines -> Statuses]
  BY VerdictType DEF Sweep, TypeOK, Statuses
<1>2. pay' \in [Fines -> PayStatuses]
  BY DEF Sweep, TypeOK, PayStatuses
<1>3. clock' \in [Fines -> [Windows -> Hands]]
  BY DEF Sweep, TypeOK, Windows, Hands
<1> QED
  BY <1>1, <1>2, <1>3 DEF Sweep, TypeOK

\* Every step keeps every variable in its type.
LEMMA TypeInductive == TypeOK /\ [Next]_vars => TypeOK'
<1> SUFFICES ASSUME TypeOK, [Next]_vars PROVE TypeOK'
  OBVIOUS
<1>1. ASSUME NEW r \in Requests, Authenticate(r) PROVE TypeOK'
  <2>1. PICK m \in Members : req' = [req EXCEPT ![r].op = "in", ![r].by = m]
    BY <1>1 DEF Authenticate, Active
  <2>2. [req[r] EXCEPT !.op = "in", !.by = m] \in RequestType
    BY DEF TypeOK, RequestType
  <2>3. req' = [req EXCEPT ![r] = [req[r] EXCEPT !.op = "in", !.by = m]]
    BY <2>1 DEF TypeOK, RequestType
  <2>4. req' \in [Requests -> RequestType]
    BY <2>2, <2>3 DEF TypeOK
  <2>5. \A q \in Requests : req'[q].op # "idle" => req'[q].by \in Members
    BY <2>3 DEF TypeOK, RequestType
  <2> QED
    BY <1>1, <2>4, <2>5 DEF Authenticate, TypeOK, rows
<1>2. ASSUME NEW r \in Requests, LoadCreate(r) PROVE TypeOK'
  <2>1. PICK c \in Forms : Load(r, "create", {}, [Idle EXCEPT !.form = c,
              !.uses = IF c.rule = None THEN 0 ELSE useCount[c.rule]])
    BY <1>2 DEF LoadCreate
  <2>2. (IF c.rule = None THEN 0 ELSE useCount[c.rule]) \in Nat
    BY FormsAssumption DEF FilledForms, TypeOK
  <2>3. [Idle EXCEPT !.form = c,
              !.uses = IF c.rule = None THEN 0 ELSE useCount[c.rule]] \in RequestType
    BY <2>2, IdleType, FormsAssumption DEF RequestType
  <2> QED
    BY <2>1, <2>3, LoadType
<1>3. ASSUME NEW r \in Requests, LoadAccept(r) PROVE TypeOK'
  BY <1>3, IdleType, LoadType DEF LoadAccept
<1>4. ASSUME NEW r \in Requests, LoadDispute(r) PROVE TypeOK'
  <2>1. PICK f \in Fines : Load(r, "dispute", {f}, [Idle EXCEPT !.voters = Eligible(f)])
    BY <1>4 DEF LoadDispute
  <2>2. [Idle EXCEPT !.voters = Eligible(f)] \in RequestType
    BY IdleType DEF RequestType, Eligible, Active
  <2> QED
    BY <2>1, <2>2, LoadType
<1>5. ASSUME NEW r \in Requests, LoadVote(r) PROVE TypeOK'
  <2>1. PICK f \in Fines, choice \in Ballots :
          Load(r, "vote", {f}, [Idle EXCEPT !.choice = choice,
              !.prior = votes[f][req[r].by]])
    BY <1>5 DEF LoadVote
  <2>3. req[r].by \in Members
    BY <2>1 DEF Load, TypeOK
  <2>2. [Idle EXCEPT !.choice = choice, !.prior = votes[f][req[r].by]] \in RequestType
    <3>1. votes[f][req[r].by] \in Ballots \cup {None}
      BY <2>3 DEF TypeOK
    <3> QED
      BY <3>1, IdleType DEF RequestType
  <2> QED
    BY <2>1, <2>2, LoadType
<1>6. ASSUME NEW r \in Requests, LoadPay(r) PROVE TypeOK'
  BY <1>6, IdleType, LoadType DEF LoadPay
<1>7. ASSUME NEW r \in Requests, LoadVerify(r) PROVE TypeOK'
  BY <1>7, IdleType, LoadType DEF LoadVerify
<1>8. ASSUME NEW r \in Requests, CommitCreate(r) PROVE TypeOK'
  BY <1>8, CreateType
<1>9. ASSUME NEW r \in Requests, CommitAccept(r) PROVE TypeOK'
  <2>1. PICK f \in Fines : Accept(f, req[r].seen[f])
    BY <1>9 DEF CommitAccept, TypeOK, RequestType
  <2>2. status' \in [Fines -> Statuses]
    BY <2>1 DEF Accept, TypeOK, Statuses
  <2> QED
    BY <1>9, <2>1, <2>2, ObligationType, CommitType DEF CommitAccept, Commit, Accept, TypeOK
<1>10. ASSUME NEW r \in Requests, CommitDispute(r) PROVE TypeOK'
  <2>1. PICK f \in Fines : Dispute(f, req[r].voters)
    BY <1>10 DEF CommitDispute, TypeOK, RequestType
  <2>2. status' \in [Fines -> Statuses]
    BY <2>1 DEF Dispute, TypeOK, Statuses
  <2>3. clock' \in [Fines -> [Windows -> Hands]]
    <3>1. "vote" \in Windows
      BY DEF Windows
    <3>2. clock' = clock \/ clock' = [clock EXCEPT ![f]["vote"] = "running"]
      BY <2>1 DEF Dispute
    <3>3. [clock EXCEPT ![f]["vote"] = "running"] \in [Fines -> [Windows -> Hands]]
      BY <3>1, ClockType
    <3> QED
      BY <3>2, <3>3 DEF TypeOK
  <2> QED
    BY <1>10, <2>1, <2>2, <2>3, CommitType DEF CommitDispute, Commit, Dispute, TypeOK
<1>11. ASSUME NEW r \in Requests, CommitVote(r) PROVE TypeOK'
  BY <1>11, VoteType
<1>12. ASSUME NEW r \in Requests, CommitPay(r) PROVE TypeOK'
  BY <1>12, CommitType DEF CommitPay, Commit, MarkPaid, PayStatuses, TypeOK
<1>13. ASSUME NEW r \in Requests, CommitVerify(r) PROVE TypeOK'
  BY <1>13, CommitType DEF CommitVerify, Commit, VerifyPaid, PayStatuses, TypeOK
<1>14. ASSUME NEW r \in Requests, Abandon(r) PROVE TypeOK'
  BY <1>14, CommitType DEF Abandon, rows, TypeOK
<1>15. CASE Sweep
  BY <1>15, SweepType
<1>16. ASSUME NEW f \in Fines, NEW w \in Passing, Elapse(f, w) PROVE TypeOK'
  BY <1>16, PassingAssumption DEF Elapse, Hands, TypeOK
<1>17. ASSUME NEW m \in Members, Join(m) \/ Remove(m) PROVE TypeOK'
  BY <1>17 DEF Join, Remove, rows, TypeOK
<1>18. CASE UNCHANGED vars
  BY <1>18 DEF vars, rows, TypeOK
<1> QED
  BY <1>1, <1>2, <1>3, <1>4, <1>5, <1>6, <1>7, <1>8, <1>9, <1>10, <1>11, <1>12,
     <1>13, <1>14, <1>15, <1>16, <1>17, <1>18 DEF Next, Request, Environment

-----------------------------------------------------------------------------
(* Safety.                                                                 *)

\* A debt seen by a request in flight still exists: obligations never go
\* away, so a stale row can only under-report them.
SeenDebtsExist ==
  \A r \in Requests : \A f \in DOMAIN req[r].seen :
    req[r].seen[f].pay # "not_owed" => pay[f] # "not_owed"

\* The inductive invariant behind the payment theorems.
DebtInv == TypeOK /\ ObligationIffRegistered /\ PaidIsRegistered /\ SeenDebtsExist

\* No step takes an obligation away, and every commit respects the CHECK
\* constraint, so a registered fine keeps its debt and its status.
LEMMA DebtStep ==
  ASSUME DebtInv, [Next]_vars
  PROVE  /\ \A f \in Fines : pay[f] # "not_owed" => pay'[f] # "not_owed"
         /\ ObligationIffRegistered'
         /\ PaidIsRegistered'
<1> DEFINE Goal ==
      /\ \A f \in Fines : pay[f] # "not_owed" => pay'[f] # "not_owed"
      /\ ObligationIffRegistered'
      /\ PaidIsRegistered'
<1> USE DEF DebtInv
<1>0. ASSUME UNCHANGED <<status, pay, paid>> PROVE Goal
  BY <1>0 DEF ObligationIffRegistered, PaidIsRegistered, Registered
<1>1. ASSUME NEW r \in Requests, CommitCreate(r) PROVE Goal
  <2>1. PICK f \in Fines : Create(f, req[r].form, req[r].uses)
    BY <1>1 DEF CommitCreate
  <2>2. /\ status[f] = "absent"
        /\ status' = [status EXCEPT ![f] = "pending"]
        /\ UNCHANGED <<pay, paid>>
    BY <2>1 DEF Create
  <2> QED
    BY <2>2 DEF TypeOK, ObligationIffRegistered, PaidIsRegistered, Registered, OwedStatuses
<1>2. ASSUME NEW r \in Requests, CommitAccept(r) PROVE Goal
  <2>1. PICK f \in DOMAIN req[r].seen : Accept(f, req[r].seen[f])
    BY <1>2 DEF CommitAccept
  <2>2. f \in Fines
    BY DEF TypeOK, RequestType
  <2>3. pay'[f] # "not_owed"
    BY <2>1, <2>2 DEF Accept, RegisterObligation, SeenDebtsExist, TypeOK
  <2>4. \A g \in Fines : g # f => pay'[g] = pay[g] /\ status'[g] = status[g]
    BY <2>1, <2>2 DEF Accept, RegisterObligation, TypeOK
  <2>5. status'[f] = "confirmed" /\ paid' = paid
    BY <2>1, <2>2 DEF Accept, TypeOK
  <2> QED
    BY <2>2, <2>3, <2>4, <2>5 DEF ObligationIffRegistered, PaidIsRegistered, Registered, OwedStatuses
<1>3. ASSUME NEW r \in Requests, CommitDispute(r) PROVE Goal
  <2>1. PICK f \in Fines : Dispute(f, req[r].voters)
    BY <1>3 DEF CommitDispute, TypeOK, RequestType
  <2>2. status'[f] \notin OwedStatuses /\ pay' = pay /\ paid' = paid
    BY <2>1 DEF Dispute, TypeOK, OwedStatuses
  <2>3. \A g \in Fines : g # f => status'[g] = status[g]
    BY <2>1 DEF Dispute, TypeOK
  <2>4. pay[f] = "not_owed"
    BY <1>3, <2>2 DEF CommitDispute, Commit, PaymentRequiresRegistered
  <2> QED
    BY <2>2, <2>3, <2>4 DEF ObligationIffRegistered, PaidIsRegistered, Registered
<1>4. ASSUME NEW r \in Requests, CommitVote(r) PROVE Goal
  <2>1. PICK f \in DOMAIN req[r].seen :
          CastVote(f, req[r].seen[f], req[r].by, req[r].prior, req[r].choice)
    BY <1>4 DEF CommitVote
  <2>2. f \in Fines
    BY DEF TypeOK, RequestType
  <2>3. CASE UNCHANGED <<status, pay, clock>>
    BY <1>0, <2>1, <2>3 DEF CastVote
  <2>4. ASSUME NEW ballots, FinalizeVote(f, req[r].seen[f], ballots) PROVE Goal
    <3>1. \A g \in Fines : g # f => pay'[g] = pay[g] /\ status'[g] = status[g]
      BY <2>2, <2>4 DEF FinalizeVote, RegisterObligation, TypeOK
    <3>2. status'[f] = Verdict(ballots) /\ paid' = paid
      BY <2>1, <2>2, <2>4 DEF FinalizeVote, CastVote, TypeOK
    <3>3. PaymentRequiresRegistered'
      BY <1>4 DEF CommitVote, Commit
    <3>4. CASE Verdict(ballots) = "upheld"
      <4>1. pay'[f] # "not_owed"
        BY <2>2, <2>4, <3>4 DEF FinalizeVote, RegisterObligation, SeenDebtsExist, TypeOK
      <4> QED
        BY <2>2, <3>1, <3>2, <3>4, <4>1 DEF ObligationIffRegistered, PaidIsRegistered, Registered, OwedStatuses
    <3>5. CASE Verdict(ballots) # "upheld"
      <4>1. status'[f] = "void" /\ pay'[f] = pay[f]
        BY <2>4, <3>2, <3>5, VerdictType DEF FinalizeVote
      <4>2. pay[f] = "not_owed"
        BY <2>2, <3>3, <4>1 DEF PaymentRequiresRegistered, OwedStatuses
      <4> QED
        BY <2>2, <3>1, <3>2, <4>1, <4>2 DEF ObligationIffRegistered, PaidIsRegistered, Registered, OwedStatuses
    <3> QED
      BY <3>4, <3>5
  <2> QED
    BY <2>1, <2>3, <2>4 DEF CastVote
<1>5. ASSUME NEW r \in Requests, CommitPay(r) PROVE Goal
  <2>1. MarkPaid(DOMAIN req[r].seen) /\ PaymentRequiresRegistered'
    BY <1>5 DEF CommitPay, Commit
  <2>2. \A g \in Fines : \/ pay'[g] = pay[g] /\ paid'[g] = paid[g]
                         \/ pay'[g] # "not_owed"
    BY <2>1 DEF MarkPaid, TypeOK
  <2>3. status' = status
    BY <2>1 DEF MarkPaid
  <2> QED
    BY <2>1, <2>2, <2>3 DEF PaymentRequiresRegistered, ObligationIffRegistered, PaidIsRegistered, Registered
<1>6. ASSUME NEW r \in Requests, CommitVerify(r) PROVE Goal
  <2>1. PICK f \in Fines : VerifyPaid(f) /\ PaymentRequiresRegistered'
    BY <1>6 DEF CommitVerify, Commit, TypeOK, RequestType
  <2>2. \A g \in Fines : pay'[g] = pay[g] \/ pay'[g] # "not_owed"
    BY <2>1 DEF VerifyPaid, TypeOK
  <2>3. status' = status /\ paid' = paid
    BY <2>1 DEF VerifyPaid
  <2> QED
    BY <2>1, <2>2, <2>3 DEF PaymentRequiresRegistered, ObligationIffRegistered, PaidIsRegistered, Registered
<1>7. CASE Sweep
  <2>1. \A f \in AutoConfirmed \cup VoteDue : f \in Fines /\ pay[f] = "not_owed"
    BY DEF AutoConfirmed, VoteDue, ObligationIffRegistered, Registered, OwedStatuses
  <2>2. \A f \in Fines : (f \in AutoConfirmed \/ (f \in VoteDue /\ Verdict(votes[f]) = "upheld"))
                          => pay'[f] = "owed" /\ status'[f] \in OwedStatuses
    BY <1>7, <2>1 DEF Sweep, OwedStatuses, AutoConfirmed, VoteDue
  <2>3. \A f \in VoteDue : Verdict(votes[f]) # "upheld"
                          => pay'[f] = "not_owed" /\ status'[f] = "void"
    BY <1>7, <2>1, VerdictType DEF Sweep, VoteDue, AutoConfirmed, PaymentDue
  <2>4. \A f \in Fines : f \notin AutoConfirmed \cup VoteDue
                          => status'[f] = status[f] /\ (pay'[f] = "not_owed" <=> pay[f] = "not_owed")
    BY <1>7 DEF Sweep, PaymentDue
  <2>5. paid' = paid
    BY <1>7 DEF Sweep
  <2>6. \A f \in AutoConfirmed \cup VoteDue : ~paid[f]
    BY <2>1 DEF ObligationIffRegistered, PaidIsRegistered
  <2>7. \A f \in Fines : Registered(f)' <=> pay'[f] # "not_owed"
    BY <2>2, <2>3, <2>4 DEF ObligationIffRegistered, Registered, OwedStatuses
  <2>8. \A f \in Fines : pay[f] # "not_owed" => pay'[f] # "not_owed"
    BY <2>1, <2>4
  <2>9. \A f \in Fines : paid'[f] => Registered(f)'
    BY <2>4, <2>5, <2>6 DEF PaidIsRegistered, Registered
  <2> QED
    BY <2>7, <2>8, <2>9 DEF ObligationIffRegistered, PaidIsRegistered
<1>8. ASSUME NEW r \in Requests,
             \/ Authenticate(r) \/ LoadCreate(r) \/ LoadAccept(r) \/ LoadDispute(r)
             \/ LoadVote(r) \/ LoadPay(r) \/ LoadVerify(r) \/ Abandon(r)
      PROVE  Goal
  BY <1>0, <1>8 DEF Authenticate, LoadCreate, LoadAccept, LoadDispute, LoadVote,
                    LoadPay, LoadVerify, Load, Abandon, rows
<1>9. CASE Environment
  BY <1>0, <1>9 DEF Environment, Elapse, Join, Remove, rows
<1>10. CASE UNCHANGED vars
  BY <1>0, <1>10 DEF vars, rows
<1> QED
  BY <1>1, <1>2, <1>3, <1>4, <1>5, <1>6, <1>7, <1>8, <1>9, <1>10 DEF Next, Request

\* What a step may do to the rows a request has cached: keep them, drop
\* them, or read them afresh from a database it does not change.
LEMMA SeenStep ==
  ASSUME TypeOK, [Next]_vars, NEW q \in Requests
  PROVE  \/ req'[q].seen = req[q].seen
         \/ DOMAIN req'[q].seen = {}
         \/ /\ pay' = pay
            /\ \A f \in DOMAIN req'[q].seen : f \in Fines /\ req'[q].seen[f].pay = pay[f]
<1> DEFINE Goal == \/ req'[q].seen = req[q].seen
                   \/ DOMAIN req'[q].seen = {}
                   \/ /\ pay' = pay
                      /\ \A f \in DOMAIN req'[q].seen :
                           f \in Fines /\ req'[q].seen[f].pay = pay[f]
<1>1. ASSUME NEW r \in Requests, req' = [req EXCEPT ![r] = Idle] PROVE Goal
  BY <1>1 DEF Idle, NoRows, TypeOK
<1>2. ASSUME NEW r \in Requests, NEW op, NEW S \in SUBSET Fines, NEW more \in RequestType,
             Load(r, op, S, more)
      PROVE  Goal
  <2>1. CASE q # r
    BY <1>2, <2>1 DEF Load, TypeOK
  <2>2. CASE q = r
    <3>1. req'[q].seen = [f \in S |-> Row(f)]
      BY <1>2, <2>2 DEF Load, TypeOK, RequestType
    <3> QED
      BY <1>2, <3>1 DEF Load, rows, Row
  <2> QED
    BY <2>1, <2>2
<1>3. ASSUME NEW r \in Requests, Authenticate(r) PROVE Goal
  BY <1>3 DEF Authenticate, TypeOK, RequestType
<1>4. ASSUME NEW r \in Requests, LoadCreate(r) PROVE Goal
  <2>1. PICK c \in Forms : Load(r, "create", {}, [Idle EXCEPT !.form = c,
              !.uses = IF c.rule = None THEN 0 ELSE useCount[c.rule]])
    BY <1>4 DEF LoadCreate
  <2>2. (IF c.rule = None THEN 0 ELSE useCount[c.rule]) \in Nat
    BY FormsAssumption DEF FilledForms, TypeOK
  <2>3. [Idle EXCEPT !.form = c,
              !.uses = IF c.rule = None THEN 0 ELSE useCount[c.rule]] \in RequestType
    BY <2>2, IdleType, FormsAssumption DEF RequestType
  <2> QED
    BY <1>2, <2>1, <2>3
<1>5. ASSUME NEW r \in Requests, LoadAccept(r) \/ LoadPay(r) \/ LoadVerify(r) PROVE Goal
  BY <1>2, <1>5, IdleType DEF LoadAccept, LoadPay, LoadVerify
<1>6. ASSUME NEW r \in Requests, LoadDispute(r) PROVE Goal
  <2>1. PICK f \in Fines : Load(r, "dispute", {f}, [Idle EXCEPT !.voters = Eligible(f)])
    BY <1>6 DEF LoadDispute
  <2>2. [Idle EXCEPT !.voters = Eligible(f)] \in RequestType
    BY IdleType DEF RequestType, Eligible, Active
  <2> QED
    BY <1>2, <2>1, <2>2
<1>7. ASSUME NEW r \in Requests, LoadVote(r) PROVE Goal
  <2>1. PICK f \in Fines, choice \in Ballots :
          Load(r, "vote", {f}, [Idle EXCEPT !.choice = choice,
              !.prior = votes[f][req[r].by]])
    BY <1>7 DEF LoadVote
  <2>2. votes[f][req[r].by] \in Ballots \cup {None}
    BY <2>1 DEF Load, TypeOK
  <2>3. [Idle EXCEPT !.choice = choice, !.prior = votes[f][req[r].by]] \in RequestType
    BY <2>2, IdleType DEF RequestType
  <2> QED
    BY <1>2, <2>1, <2>3
<1>8. ASSUME NEW r \in Requests,
             \/ CommitCreate(r) \/ CommitAccept(r) \/ CommitDispute(r) \/ CommitVote(r)
             \/ CommitPay(r) \/ CommitVerify(r) \/ Abandon(r)
      PROVE  Goal
  BY <1>1, <1>8 DEF CommitCreate, CommitAccept, CommitDispute, CommitVote, CommitPay,
                    CommitVerify, Commit, Abandon
<1>9. ASSUME req' = req PROVE Goal
  BY <1>9
<1> QED
  BY <1>3, <1>4, <1>5, <1>6, <1>7, <1>8, <1>9
     DEF Next, Request, Sweep, Environment, Elapse, Join, Remove, vars

\* The invariant holds at the start.
LEMMA DebtInit == Init => DebtInv
<1> SUFFICES ASSUME Init PROVE DebtInv
  OBVIOUS
<1>1. \A r \in Requests : req[r] = Idle
  BY DEF Init
<1>2. TypeOK
  <2>1. req \in [Requests -> RequestType] /\ \A r \in Requests : req[r].op = "idle"
    BY IdleType DEF Init, Idle
  <2>2. clock \in [Fines -> [Windows -> Hands]]
    BY DEF Init, Hands
  <2> QED
    BY <2>1, <2>2 DEF Init, TypeOK, Statuses, PayStatuses
<1>3. ObligationIffRegistered /\ PaidIsRegistered
  BY DEF Init, ObligationIffRegistered, PaidIsRegistered, Registered, OwedStatuses
<1>4. SeenDebtsExist
  BY <1>1 DEF SeenDebtsExist, Idle, NoRows
<1> QED
  BY <1>2, <1>3, <1>4 DEF DebtInv

\* Every step preserves the invariant.
LEMMA DebtInductive == DebtInv /\ [Next]_vars => DebtInv'
<1> SUFFICES ASSUME DebtInv, [Next]_vars PROVE DebtInv'
  OBVIOUS
<1>1. TypeOK'
  BY TypeInductive DEF DebtInv
<1>2. SeenDebtsExist'
  <2> SUFFICES ASSUME NEW q \in Requests, NEW f \in DOMAIN req'[q].seen,
                      req'[q].seen[f].pay # "not_owed"
               PROVE  pay'[f] # "not_owed"
    BY DEF SeenDebtsExist
  <2>1. f \in Fines
    BY <1>1 DEF TypeOK, RequestType
  <2>2. pay[f] # "not_owed"
    BY SeenStep DEF DebtInv, SeenDebtsExist
  <2> QED
    BY <2>1, <2>2, DebtStep
<1> QED
  BY <1>1, <1>2, DebtStep DEF DebtInv

\* Every reachable state satisfies the invariant.
THEOREM DebtInvariant == Spec => []DebtInv
  BY DebtInit, DebtInductive, PTL DEF Spec

\* Type correctness of the whole service under any interleaving.
THEOREM TypeCorrect == Spec => []TypeOK
<1>1. DebtInv => TypeOK
  BY DEF DebtInv
<1> QED
  BY <1>1, DebtInvariant, PTL

\* Whatever requests and sweeps overlap, a fine carries a debt exactly when
\* it is registered.
THEOREM DebtCorrect == Spec => []ObligationIffRegistered
<1>1. DebtInv => ObligationIffRegistered
  BY DEF DebtInv
<1> QED
  BY <1>1, DebtInvariant, PTL

\* "Void and paid" is unreachable.
THEOREM PaidCorrect == Spec => []PaidIsRegistered
<1>1. DebtInv => PaidIsRegistered
  BY DEF DebtInv
<1> QED
  BY <1>1, DebtInvariant, PTL

\* A registered fine is never opened again, rejected or forgotten.
THEOREM DebtPersists == Spec => DebtIsForever
<1>1. DebtInv /\ [Next]_vars => [\A f \in Fines : Registered(f) => Registered(f)']_vars
  BY DebtStep DEF DebtInv, ObligationIffRegistered
<1> QED
  BY <1>1, DebtInvariant, PTL DEF Spec, DebtIsForever

-----------------------------------------------------------------------------
(* Verdicts.                                                               *)

\* An upheld verdict counts at least one ballot to uphold.
LEMMA UpheldNeedsBallot ==
  ASSUME NEW ballots, Verdict(ballots) = "upheld"
  PROVE  \E m \in Members : ballots[m] = "uphold"
<1> SUFFICES ASSUME {m \in Members : ballots[m] = "uphold"} = {} PROVE FALSE
  OBVIOUS
<1>1. Count(ballots, "uphold") = 0
  BY FS_EmptySet DEF Count
<1>2. IsFiniteSet({m \in Members : ballots[m] = "void"})
  BY MembersAssumption, FS_Subset
<1>3. Count(ballots, "void") \in Nat
  BY <1>2, FS_CardinalityType DEF Count
<1> QED
  BY <1>1, <1>3 DEF Verdict

Neutral(m, f) == m \notin {form[f].accuser, form[f].accused}

\* Ballots on file, and those about to be filed, come from neutral members.
BallotsAreNeutral ==
  /\ \A f \in Fines, m \in Members :
       votes[f][m] # None => status[f] # "absent" /\ Neutral(m, f)
  /\ \A r \in Requests : req[r].op = "vote" =>
       /\ req[r].choice \in Ballots
       /\ \A f \in DOMAIN req[r].seen : status[f] # "absent" /\ Neutral(req[r].by, f)

\* The inductive invariant behind the verdict theorem.
VerdictInv == TypeOK /\ BallotsAreNeutral /\ UpheldByNeutral

\* A filed complaint is never unfiled, and its parties never change.
LEMMA FiledForGood ==
  ASSUME TypeOK, [Next]_vars, NEW f \in Fines, status[f] # "absent"
  PROVE  status'[f] # "absent" /\ form'[f] = form[f]
<1> DEFINE Goal == status'[f] # "absent" /\ form'[f] = form[f]
<1>1. ASSUME NEW r \in Requests, CommitCreate(r) PROVE Goal
  <2>1. PICK g \in Fines : Create(g, req[r].form, req[r].uses)
    BY <1>1 DEF CommitCreate
  <2> QED
    BY <2>1 DEF Create, TypeOK
<1>2. ASSUME NEW r \in Requests, CommitAccept(r) \/ CommitDispute(r) PROVE Goal
  BY <1>2 DEF CommitAccept, CommitDispute, Accept, Dispute, TypeOK
<1>3. ASSUME NEW r \in Requests, CommitVote(r) PROVE Goal
  BY <1>3, VerdictType DEF CommitVote, CastVote, FinalizeVote, TypeOK
<1>4. ASSUME NEW r \in Requests, CommitPay(r) \/ CommitVerify(r) PROVE Goal
  BY <1>4 DEF CommitPay, CommitVerify, MarkPaid, VerifyPaid
<1>5. CASE Sweep
  BY <1>5, VerdictType DEF Sweep
<1>6. ASSUME UNCHANGED <<status, form>> PROVE Goal
  BY <1>6
<1> QED
  BY <1>1, <1>2, <1>3, <1>4, <1>5, <1>6
     DEF Next, Request, Authenticate, LoadCreate, LoadAccept, LoadDispute, LoadVote, LoadPay,
         LoadVerify, Load, Abandon, Environment, Elapse, Join, Remove, rows, vars

\* Only a vote request touches the ballots, and it files its own.
LEMMA BallotStep ==
  ASSUME TypeOK, [Next]_vars, votes' # votes
  PROVE  \E r \in Requests : \E f \in DOMAIN req[r].seen :
           /\ req[r].op = "vote"
           /\ votes' = [votes EXCEPT ![f] = [votes[f] EXCEPT ![req[r].by] = req[r].choice]]
<1>1. ASSUME NEW r \in Requests, CommitVote(r)
      PROVE  \E f \in DOMAIN req[r].seen :
               /\ req[r].op = "vote"
               /\ votes' = [votes EXCEPT ![f] = [votes[f] EXCEPT ![req[r].by] = req[r].choice]]
  <2>1. PICK f \in DOMAIN req[r].seen :
          CastVote(f, req[r].seen[f], req[r].by, req[r].prior, req[r].choice)
    BY <1>1 DEF CommitVote
  <2>2. CASE req[r].prior = req[r].choice
    <3>1. votes' = [votes EXCEPT ![f] = votes[f]]
      BY <2>1, <2>2 DEF CastVote
    <3> QED
      BY <3>1 DEF TypeOK
  <2>3. CASE req[r].prior # req[r].choice
    BY <1>1, <2>1, <2>3 DEF CommitVote, CastVote
  <2> QED
    BY <2>2, <2>3
<1> QED
  BY <1>1 DEF Next, Request, Authenticate, LoadCreate, LoadAccept, LoadDispute, LoadVote, LoadPay,
         LoadVerify, Load, CommitCreate, Create, CommitAccept, Accept, CommitDispute, Dispute,
         CommitPay, MarkPaid, CommitVerify, VerifyPaid, Sweep,
         Abandon, Environment, Elapse, Join, Remove, rows, vars

\* A request on its way to vote either was so already or has just read.
LEMMA VoteRequestStep ==
  ASSUME TypeOK, [Next]_vars, NEW q \in Requests, req'[q].op = "vote"
  PROVE  req'[q] = req[q] \/ LoadVote(q)
<1>1. ASSUME NEW r \in Requests, Request(r) PROVE req'[q] = req[q] \/ LoadVote(q)
  <2>1. CASE q # r
    BY <1>1, <2>1 DEF Request, Authenticate, LoadCreate, LoadAccept, LoadDispute, LoadVote, LoadPay,
       LoadVerify, Load, CommitCreate, CommitAccept, CommitDispute, CommitVote, CommitPay,
       CommitVerify, Commit, Abandon, TypeOK
  <2>2. CASE q = r
    <3>1. CASE Authenticate(q)
      BY <3>1 DEF Authenticate, TypeOK, Idle, RequestType
    <3>2. CASE LoadCreate(q) \/ LoadAccept(q) \/ LoadDispute(q) \/ LoadPay(q) \/ LoadVerify(q)
      <4>1. ASSUME NEW op, NEW S, NEW more, more.op = "idle", DOMAIN more = DOMAIN Idle,
                   Load(q, op, S, more)
            PROVE  req'[q].op = op
        BY <4>1 DEF Load, Idle, TypeOK
      <4> QED
        BY <3>2, <4>1 DEF LoadCreate, LoadAccept, LoadDispute, LoadPay, LoadVerify, Idle
    <3>3. CASE \/ CommitCreate(q) \/ CommitAccept(q) \/ CommitDispute(q) \/ CommitVote(q)
               \/ CommitPay(q) \/ CommitVerify(q) \/ Abandon(q)
      BY <3>3 DEF CommitCreate, CommitAccept, CommitDispute, CommitVote, CommitPay,
         CommitVerify, Commit, Abandon, Idle, TypeOK
    <3> QED
      BY <1>1, <2>2, <3>1, <3>2, <3>3 DEF Request
  <2> QED
    BY <2>1, <2>2
<1> QED
  BY <1>1 DEF Next, Sweep, Environment, Elapse, Join, Remove, vars

\* A fine becomes upheld only as the verdict of the ballots then on file.
LEMMA UpheldStep ==
  ASSUME TypeOK, [Next]_vars, NEW f \in Fines, status[f] # "upheld", status'[f] = "upheld"
  PROVE  Verdict(votes'[f]) = "upheld"
<1> DEFINE Goal == Verdict(votes'[f]) = "upheld"
<1>1. ASSUME NEW r \in Requests, CommitCreate(r) PROVE Goal
  <2>1. PICK g \in Fines : Create(g, req[r].form, req[r].uses)
    BY <1>1 DEF CommitCreate
  <2> QED
    BY <2>1 DEF Create, TypeOK
<1>2. ASSUME NEW r \in Requests, CommitAccept(r) \/ CommitDispute(r) PROVE Goal
  BY <1>2 DEF CommitAccept, CommitDispute, Accept, Dispute, TypeOK
<1>3. ASSUME NEW r \in Requests, CommitVote(r) PROVE Goal
  <2>1. PICK g \in DOMAIN req[r].seen :
          CastVote(g, req[r].seen[g], req[r].by, req[r].prior, req[r].choice)
    BY <1>3 DEF CommitVote
  <2> DEFINE ballots == IF req[r].prior = req[r].choice THEN votes[g]
                        ELSE [votes[g] EXCEPT ![req[r].by] = req[r].choice]
  <2>2. FinalizeVote(g, req[r].seen[g], ballots)
    BY <2>1 DEF CastVote
  <2>3. f = g /\ Verdict(ballots) = "upheld"
    BY <2>2 DEF FinalizeVote, TypeOK
  <2>4. votes'[g] = ballots
    BY <2>1, <2>3 DEF CastVote, TypeOK
  <2> QED
    BY <2>3, <2>4
<1>4. ASSUME NEW r \in Requests, CommitPay(r) \/ CommitVerify(r) PROVE Goal
  BY <1>4 DEF CommitPay, CommitVerify, MarkPaid, VerifyPaid
<1>5. CASE Sweep
  BY <1>5 DEF Sweep
<1>6. ASSUME UNCHANGED status PROVE Goal
  BY <1>6
<1> QED
  BY <1>1, <1>2, <1>3, <1>4, <1>5, <1>6
     DEF Next, Request, Authenticate, LoadCreate, LoadAccept, LoadDispute, LoadVote, LoadPay,
         LoadVerify, Load, Abandon, Environment, Elapse, Join, Remove, rows, vars

\* No member's ballot is ever taken off the file.
LEMMA BallotsStay ==
  ASSUME TypeOK, BallotsAreNeutral, [Next]_vars,
         NEW f \in Fines, NEW m \in Members, votes[f][m] # None
  PROVE  votes'[f][m] # None
<1>1. CASE votes' = votes
  BY <1>1
<1>2. CASE votes' # votes
  <2>1. PICK r \in Requests : \E g \in DOMAIN req[r].seen :
          /\ req[r].op = "vote"
          /\ votes' = [votes EXCEPT ![g] = [votes[g] EXCEPT ![req[r].by] = req[r].choice]]
    BY <1>2, BallotStep
  <2>2. req[r].choice # None
    BY <2>1, NoneAssumption DEF BallotsAreNeutral
  <2> QED
    BY <2>1, <2>2 DEF TypeOK
<1> QED
  BY <1>1, <1>2

\* Ballots on file or about to be filed stay neutral.
LEMMA NeutralInductive ==
  ASSUME TypeOK, BallotsAreNeutral, [Next]_vars
  PROVE  BallotsAreNeutral'
<1>1. ASSUME NEW f \in Fines, NEW m \in Members, votes'[f][m] # None
      PROVE  status'[f] # "absent" /\ Neutral(m, f)'
  <2>1. status[f] # "absent" /\ Neutral(m, f)
    <3>1. CASE votes[f][m] # None
      BY <3>1 DEF BallotsAreNeutral
    <3>2. CASE votes[f][m] = None
      <4>1. PICK r \in Requests : \E g \in DOMAIN req[r].seen :
              /\ req[r].op = "vote"
              /\ votes' = [votes EXCEPT ![g] = [votes[g] EXCEPT ![req[r].by] = req[r].choice]]
        BY <1>1, <3>2, BallotStep
      <4>2. f \in DOMAIN req[r].seen /\ m = req[r].by
        BY <1>1, <3>2, <4>1 DEF TypeOK
      <4> QED
        BY <4>1, <4>2 DEF BallotsAreNeutral
    <3> QED
      BY <3>1, <3>2
  <2> QED
    BY <2>1, FiledForGood DEF Neutral
<1>2. ASSUME NEW r \in Requests, req'[r].op = "vote"
      PROVE  /\ req'[r].choice \in Ballots
             /\ \A f \in DOMAIN req'[r].seen : status'[f] # "absent" /\ Neutral(req[r].by, f)'
  <2>1. CASE req'[r] = req[r]
    <3>1. ASSUME NEW f \in DOMAIN req[r].seen PROVE f \in Fines
      BY DEF TypeOK, RequestType
    <3> QED
      BY <1>2, <2>1, <3>1, FiledForGood DEF BallotsAreNeutral, Neutral
  <2>2. CASE LoadVote(r)
    <3>1. PICK f \in Fines, choice \in Ballots :
            /\ Load(r, "vote", {f}, [Idle EXCEPT !.choice = choice, !.prior = votes[f][req[r].by]])
            /\ MayVote(req[r].by, f, Row(f))
      BY <2>2 DEF LoadVote
    <3>2. req'[r].choice = choice /\ req'[r].by = req[r].by /\ DOMAIN req'[r].seen = {f}
      BY <3>1 DEF Load, Idle, TypeOK
    <3>3. status[f] # "absent" /\ Neutral(req[r].by, f)
      BY <3>1 DEF MayVote, Row, Neutral
    <3> QED
      BY <3>2, <3>3, FiledForGood DEF Neutral
  <2> QED
    BY <1>2, <2>1, <2>2, VoteRequestStep
<1>3. \A f \in Fines, m \in Members :
        votes'[f][m] # None => status'[f] # "absent" /\ Neutral(m, f)'
  BY <1>1
<1>4. \A r \in Requests : req'[r].op = "vote" =>
        /\ req'[r].choice \in Ballots
        /\ \A f \in DOMAIN req'[r].seen : status'[f] # "absent" /\ Neutral(req[r].by, f)'
  BY <1>2
<1> QED
  BY <1>3, <1>4 DEF BallotsAreNeutral, Neutral

\* The verdict invariant holds when the server starts on an empty database.
LEMMA VerdictInit == Init => VerdictInv
<1> SUFFICES ASSUME Init PROVE BallotsAreNeutral /\ UpheldByNeutral
  BY DebtInit DEF VerdictInv, DebtInv
<1> QED
  BY DEF Init, Idle, BallotsAreNeutral, UpheldByNeutral

\* Every step of every request, of the sweep and of the flat preserves it.
LEMMA VerdictInductive == VerdictInv /\ [Next]_vars => VerdictInv'
<1> SUFFICES ASSUME VerdictInv, [Next]_vars PROVE VerdictInv'
  OBVIOUS
<1>1. TypeOK' /\ BallotsAreNeutral'
  BY TypeInductive, NeutralInductive DEF VerdictInv
<1>2. ASSUME NEW f \in Fines, status'[f] = "upheld"
      PROVE  \E m \in Members : votes'[f][m] # None /\ Neutral(m, f)'
  <2>1. CASE status[f] = "upheld"
    <3>1. PICK m \in Members : votes[f][m] # None
      BY <2>1 DEF VerdictInv, UpheldByNeutral, Casters
    <3>2. votes'[f][m] # None
      BY <3>1, BallotsStay DEF VerdictInv
    <3> QED
      BY <1>1, <3>2 DEF BallotsAreNeutral, Neutral
  <2>2. CASE status[f] # "upheld"
    <3>1. PICK m \in Members : votes'[f][m] = "uphold"
      BY <1>2, <2>2, UpheldStep, UpheldNeedsBallot DEF VerdictInv
    <3>2. votes'[f][m] # None
      BY <3>1, NoneAssumption DEF Ballots
    <3> QED
      BY <1>1, <3>2 DEF BallotsAreNeutral, Neutral
  <2> QED
    BY <2>1, <2>2
<1>3. UpheldByNeutral'
  BY <1>2 DEF UpheldByNeutral, Casters, Neutral
<1> QED
  BY <1>1, <1>3 DEF VerdictInv

\* No fine is ever upheld without the ballot of a neutral member, whoever
\* joins, leaves, votes late or races the sweep.
THEOREM VerdictCorrect == Spec => []UpheldByNeutral
<1>1. VerdictInv => UpheldByNeutral
  BY DEF VerdictInv
<1> QED
  BY <1>1, VerdictInit, VerdictInductive, PTL DEF Spec

-----------------------------------------------------------------------------
(* Requests that do not overlap: typing.                                   *)

LEMMA Verdicts == \A ballots : Verdict(ballots) \in {"upheld", "void"}
  BY DEF Verdict

\* A window started is a clock well set.
LEMMA HandsType ==
  ASSUME TypeOK, NEW f \in Fines, NEW w \in Windows, NEW hand \in Hands
  PROVE  [clock EXCEPT ![f][w] = hand] \in [Fines -> [Windows -> Hands]]
<1>1. [clock[f] EXCEPT ![w] = hand] \in [Windows -> Hands]
  BY DEF TypeOK
<1> QED
  BY <1>1 DEF TypeOK

LEMMA ObligationKind ==
  ASSUME TypeOK, NEW f \in Fines, NEW row, RegisterObligation(f, row)
  PROVE  pay' \in [Fines -> PayStatuses] /\ clock' \in [Fines -> [Windows -> Hands]]
<1>1. "pay" \in Windows /\ "owed" \in PayStatuses /\ "running" \in Hands
  BY DEF Windows, PayStatuses, Hands
<1>2. CASE row.pay = "not_owed"
  <2>1. pay' = [pay EXCEPT ![f] = "owed"] /\ clock' = [clock EXCEPT ![f]["pay"] = "running"]
    BY <1>2 DEF RegisterObligation
  <2> QED
    BY <1>1, <2>1, HandsType DEF TypeOK
<1>3. CASE row.pay # "not_owed"
  BY <1>3 DEF RegisterObligation, TypeOK
<1> QED
  BY <1>2, <1>3

LEMMA SerialTypes == TypeOK /\ [SerialNext]_vars => TypeOK'
<1> SUFFICES ASSUME TypeOK, [SerialNext]_vars PROVE TypeOK'
  OBVIOUS
<1>1. ASSUME NEW m \in Active, File(m) PROVE TypeOK'
  <2>1. PICK c \in Forms, f \in Fines :
          Create(f, c, IF c.rule = None THEN 0 ELSE useCount[c.rule]) /\ Done
    BY <1>1 DEF File
  <2>2. c \in FilledForms /\ (c.rule # None => useCount[c.rule] \in Nat)
    BY FormsAssumption DEF FilledForms, TypeOK
  <2>3. useCount' \in [Rules -> Nat]
    BY <2>1, <2>2 DEF Create, TypeOK
  <2>4. clock' \in [Fines -> [Windows -> Hands]]
    BY <2>1 DEF Create, TypeOK, Windows, Hands
  <2> QED
    BY <2>1, <2>2, <2>3, <2>4 DEF Create, Done, TypeOK, Statuses
<1>2. ASSUME NEW m \in Active, Respond(m) PROVE TypeOK'
  <2>1. PICK f \in Fines : (Accept(f, Row(f)) \/ Dispute(f, Eligible(f))) /\ Done
    BY <1>2 DEF Respond
  <2>2. CASE Accept(f, Row(f))
    <3>1. pay' \in [Fines -> PayStatuses] /\ clock' \in [Fines -> [Windows -> Hands]]
      BY <2>2, ObligationKind DEF Accept
    <3> QED
      BY <2>1, <2>2, <3>1 DEF Accept, Done, TypeOK, Statuses
  <2>3. CASE Dispute(f, Eligible(f))
    <3>1. clock' \in [Fines -> [Windows -> Hands]]
      <4>1. clock' = clock \/ clock' = [clock EXCEPT ![f]["vote"] = "running"]
        BY <2>3 DEF Dispute
      <4>2. "vote" \in Windows /\ "running" \in Hands
        BY DEF Windows, Hands
      <4> QED
        <5>1. [clock EXCEPT ![f]["vote"] = "running"] \in [Fines -> [Windows -> Hands]]
          BY <4>2, HandsType
        <5> QED
          BY <4>1, <5>1 DEF TypeOK
    <3> QED
      BY <2>1, <2>3, <3>1 DEF Dispute, Done, TypeOK, Statuses
  <2> QED
    BY <2>1, <2>2, <2>3
<1>3. ASSUME NEW m \in Active, Vote(m) PROVE TypeOK'
  <2>1. PICK f \in Fines, choice \in Ballots : CastVote(f, Row(f), m, votes[f][m], choice) /\ Done
    BY <1>3 DEF Vote
  <2> DEFINE ballots == IF votes[f][m] = choice THEN votes[f] ELSE [votes[f] EXCEPT ![m] = choice]
  <2>2. ballots \in [Members -> Ballots \cup {None}] /\ m \in Members
    BY DEF TypeOK, Active
  <2>3. votes' = [votes EXCEPT ![f] = ballots] /\ UNCHANGED <<paid, form, useCount>>
        /\ (FinalizeVote(f, Row(f), ballots) \/ UNCHANGED <<status, pay, clock>>)
    BY <2>1 DEF CastVote
  <2> HIDE DEF ballots
  <2>4. CASE FinalizeVote(f, Row(f), ballots)
    <3>1. status' \in [Fines -> Statuses]
      BY <2>4, Verdicts DEF FinalizeVote, TypeOK, Statuses
    <3>2. pay' \in [Fines -> PayStatuses] /\ clock' \in [Fines -> [Windows -> Hands]]
      BY <2>4, ObligationKind DEF FinalizeVote, TypeOK
    <3> QED
      BY <2>1, <2>2, <2>3, <3>1, <3>2 DEF Done, TypeOK
  <2> QED
    BY <2>1, <2>2, <2>3, <2>4 DEF Done, TypeOK
<1>4. ASSUME NEW m \in Active, PayFines(m) PROVE TypeOK'
  BY <1>4 DEF PayFines, MarkPaid, Done, TypeOK, PayStatuses
<1>5. CASE Verify
  BY <1>5 DEF Verify, VerifyPaid, Done, TypeOK, PayStatuses
<1>6. CASE Sweep
  <2>1. status' \in [Fines -> Statuses]
    BY <1>6, Verdicts DEF Sweep, TypeOK, Statuses
  <2>2. pay' \in [Fines -> PayStatuses]
    BY <1>6 DEF Sweep, TypeOK, PayStatuses
  <2>3. clock' \in [Fines -> [Windows -> Hands]]
    BY <1>6 DEF Sweep, TypeOK, Windows, Hands
  <2> QED
    BY <1>6, <2>1, <2>2, <2>3 DEF Sweep, TypeOK
<1>7. CASE Environment
  <2>1. ASSUME NEW f \in Fines, NEW w \in Passing, Elapse(f, w) PROVE TypeOK'
    <3>1. w \in Windows /\ "passed" \in Hands
      BY PassingAssumption DEF Hands
    <3>2. clock' \in [Fines -> [Windows -> Hands]]
      BY <2>1, <3>1, HandsType DEF Elapse
    <3> QED
      BY <2>1, <3>2 DEF Elapse, TypeOK
  <2>2. ASSUME NEW m \in Members, Join(m) \/ Remove(m) PROVE TypeOK'
    BY <2>2 DEF Join, Remove, rows, TypeOK
  <2> QED
    BY <1>7, <2>1, <2>2 DEF Environment
<1>8. CASE UNCHANGED vars
  BY <1>8 DEF vars, rows, TypeOK
<1> QED
  BY <1>1, <1>2, <1>3, <1>4, <1>5, <1>6, <1>7, <1>8 DEF SerialNext
-----------------------------------------------------------------------------
(* What one step does to one complaint.                                    *)

NeutralBallots == \A f \in Fines, m \in Members : votes[f][m] # None => Neutral(m, f)

\* Nobody votes on a complaint before it is disputed.
NothingHeard ==
  \A f \in Fines : status[f] \in {"absent", "pending"} => Casters(votes[f]) = {}

\* The inductive invariant.
SerialInv ==
  /\ TypeOK
  /\ ObligationIffRegistered /\ PaidAlias /\ VerdictMatchesBallots
  /\ NothingHeard /\ NeutralBallots

Same(f) == pay'[f] = pay[f] /\ paid'[f] = paid[f]

Rests(f) == /\ status'[f] = status[f] /\ votes'[f] = votes[f] /\ form'[f] = form[f]
            /\ Same(f)

Filed(f) == status[f] = "absent" /\ status'[f] = "pending" /\ votes'[f] = votes[f] /\ Same(f)

Decided(f, from, to) ==
  /\ status[f] = from /\ status'[f] = to
  /\ form'[f] = form[f] /\ paid'[f] = paid[f]
  /\ pay'[f] = IF to \in OwedStatuses THEN "owed" ELSE pay[f]

Answered(f) == /\ votes'[f] = votes[f]
               /\ \E to \in {"confirmed", "disputed", "void"} : Decided(f, "pending", to)

Heard(f) ==
  /\ \A m \in Members : votes'[f][m] # None => votes[f][m] # None \/ Neutral(m, f)
  /\ \/ Decided(f, "disputed", "disputed")
     \/ /\ Decided(f, "disputed", Verdict(votes'[f]))
        /\ HeardEveryone(f, votes'[f]) \/ clock[f]["vote"] = "passed"

Paying(f, from, to) ==
  /\ status'[f] = status[f] /\ votes'[f] = votes[f] /\ form'[f] = form[f]
  /\ pay[f] \in from /\ pay'[f] \in to

Settling(f) ==
  \/ Paying(f, PayableStatuses, {"marked_paid", "settled"}) /\ paid'[f] = TRUE
  \/ Paying(f, {"marked_paid"}, {"settled"}) /\ paid'[f] = paid[f]
  \/ Paying(f, {"owed"}, {"overdue"}) /\ paid'[f] = paid[f]

\* A complaint not yet registered carries no debt, so registering it creates one.
LEMMA Obliges ==
  ASSUME SerialInv, NEW f \in Fines, status[f] \in {"pending", "disputed"},
         RegisterObligation(f, Row(f))
  PROVE  pay' = [pay EXCEPT ![f] = "owed"]
<1>1. pay[f] = "not_owed"
  BY DEF SerialInv, ObligationIffRegistered, Registered, OwedStatuses
<1> QED
  BY <1>1 DEF RegisterObligation, Row

LEMMA VoteStep ==
  ASSUME SerialInv, NEW m \in Active, Vote(m), NEW f \in Fines
  PROVE  Rests(f) \/ Heard(f)
<1>1. PICK g \in Fines, choice \in Ballots :
        MayVote(m, g, Row(g)) /\ CastVote(g, Row(g), m, votes[g][m], choice)
  BY DEF Vote
<1> DEFINE ballots == IF votes[g][m] = choice THEN votes[g] ELSE [votes[g] EXCEPT ![m] = choice]
<1>2. status[g] = "disputed" /\ Neutral(m, g)
  BY <1>1 DEF MayVote, Row, Neutral
<1>3. /\ votes' = [votes EXCEPT ![g] = ballots] /\ UNCHANGED <<paid, form>>
      /\ IF HeardEveryone(g, ballots) THEN FinalizeVote(g, Row(g), ballots)
                                      ELSE UNCHANGED <<status, pay, clock>>
  BY <1>1 DEF CastVote
<1>4. \A n \in Members : ballots[n] # None => votes[g][n] # None \/ n = m
  BY DEF SerialInv, TypeOK
<1> HIDE DEF ballots
<1>5. votes'[g] = ballots
  BY <1>3 DEF SerialInv, TypeOK
<1>6. CASE ~HeardEveryone(g, ballots)
  <2>1. UNCHANGED <<status, pay>>
    BY <1>3, <1>6
  <2>2. CASE f = g
    BY <1>2, <1>3, <1>4, <1>5, <2>1, <2>2 DEF Heard, Decided, OwedStatuses
  <2>3. CASE f # g
    BY <1>3, <2>1, <2>3 DEF Rests, Same, SerialInv, TypeOK
  <2> QED
    BY <2>2, <2>3
<1>7. CASE HeardEveryone(g, ballots)
  <2>1. /\ status' = [status EXCEPT ![g] = Verdict(ballots)]
        /\ pay' = IF Verdict(ballots) = "upheld" THEN [pay EXCEPT ![g] = "owed"] ELSE pay
    BY <1>2, <1>3, <1>7, Obliges DEF FinalizeVote
  <2>2. CASE f = g
    <3>1. Decided(g, "disputed", Verdict(ballots))
      BY <1>2, <1>3, <2>1, Verdicts DEF Decided, OwedStatuses, SerialInv, TypeOK
    <3> QED
      BY <1>2, <1>4, <1>5, <1>7, <2>2, <3>1 DEF Heard
  <2>3. CASE f # g
    BY <1>3, <2>1, <2>3 DEF Rests, Same, SerialInv, TypeOK
  <2> QED
    BY <2>2, <2>3
<1> QED
  BY <1>6, <1>7

LEMMA SweepStep ==
  ASSUME SerialInv, Sweep, NEW f \in Fines
  PROVE  Rests(f) \/ Answered(f) \/ Heard(f) \/ Settling(f)
<1>1. /\ status'[f] = IF f \in AutoConfirmed THEN "confirmed"
                      ELSE IF f \in VoteDue THEN Verdict(votes[f]) ELSE status[f]
      /\ UNCHANGED <<paid, form, votes>>
  BY DEF Sweep
<1>2. pay'[f] = IF /\ f \in AutoConfirmed \/ (f \in VoteDue /\ Verdict(votes[f]) = "upheld")
                   /\ pay[f] = "not_owed"
                THEN "owed" ELSE IF f \in PaymentDue THEN "overdue" ELSE pay[f]
  BY DEF Sweep
<1>3. status[f] \in OwedStatuses <=> pay[f] # "not_owed"
  BY DEF SerialInv, ObligationIffRegistered, Registered
<1>4. CASE f \in AutoConfirmed
  BY <1>1, <1>2, <1>3, <1>4 DEF AutoConfirmed, Answered, Decided, OwedStatuses
<1>5. CASE f \in VoteDue
  BY <1>1, <1>2, <1>3, <1>5, Verdicts DEF AutoConfirmed, VoteDue, PaymentDue, Heard, Decided, OwedStatuses
<1>6. CASE f \notin AutoConfirmed /\ f \notin VoteDue
  BY <1>1, <1>2, <1>6 DEF PaymentDue, Settling, Paying, Rests, Same
<1> QED
  BY <1>4, <1>5, <1>6

LEMMA SerialStep ==
  ASSUME SerialInv, [SerialNext]_vars, NEW f \in Fines
  PROVE  \/ Filed(f) /\ \E m \in Active : File(m)
         \/ Rests(f) \/ Answered(f) \/ Heard(f) \/ Settling(f)
<1>1. ASSUME NEW m \in Active, File(m) PROVE Rests(f) \/ Filed(f)
  <2>1. PICK g \in Fines, c \in Forms : Create(g, c, IF c.rule = None THEN 0 ELSE useCount[c.rule])
    BY <1>1 DEF File
  <2> QED
    BY <2>1 DEF Create, Rests, Filed, Same, SerialInv, TypeOK
<1>2. ASSUME NEW m \in Active, Respond(m) PROVE Rests(f) \/ Answered(f)
  <2>1. PICK g \in Fines : /\ status[g] = "pending"
                           /\ Accept(g, Row(g)) \/ Dispute(g, Eligible(g))
    BY <1>2 DEF Respond, MayAnswer, Row
  <2>2. \E to \in {"confirmed", "disputed", "void"} :
          /\ status' = [status EXCEPT ![g] = to]
          /\ pay' = IF to \in OwedStatuses THEN [pay EXCEPT ![g] = "owed"] ELSE pay
          /\ UNCHANGED <<paid, form, votes>>
    BY <2>1, Obliges DEF Accept, Dispute, OwedStatuses
  <2> QED
    BY <2>1, <2>2 DEF Rests, Answered, Decided, Same, SerialInv, TypeOK
<1>3. ASSUME NEW m \in Active, PayFines(m) PROVE Rests(f) \/ Settling(f)
  <2>1. PICK S \in SUBSET Fines : (\A g \in S : pay[g] \in PayableStatuses) /\ MarkPaid(S)
    BY <1>3 DEF PayFines, MayPay, Row
  <2>2. /\ UNCHANGED <<status, form, votes>>
        /\ f \in S => pay'[f] \in {"marked_paid", "settled"} /\ paid'[f] = TRUE
        /\ f \notin S => pay'[f] = pay[f] /\ (paid'[f] <=> paid[f])
    BY <2>1 DEF MarkPaid
  <2>3. paid[f] \in BOOLEAN /\ paid'[f] \in BOOLEAN
    BY SerialTypes DEF SerialInv, TypeOK
  <2>4. CASE f \in S
    BY <2>1, <2>2, <2>4 DEF Settling, Paying
  <2>5. CASE f \notin S
    BY <2>2, <2>3, <2>5 DEF Rests, Same
  <2> QED
    BY <2>4, <2>5
<1>4. CASE Verify
  <2>1. PICK g \in Fines : pay[g] = "marked_paid" /\ VerifyPaid(g)
    BY <1>4 DEF Verify, MayVerify, Row
  <2>2. pay'[f] = IF f = g THEN "settled" ELSE pay[f]
    BY <2>1 DEF VerifyPaid, SerialInv, TypeOK
  <2> QED
    BY <2>1, <2>2 DEF VerifyPaid, Rests, Settling, Paying, Same
<1>5. CASE Environment \/ UNCHANGED vars
  BY <1>5 DEF Environment, Elapse, Join, Remove, rows, vars, Rests, Same
<1> QED
  BY <1>1, <1>2, <1>3, <1>4, <1>5, VoteStep, SweepStep DEF SerialNext

-----------------------------------------------------------------------------
(* The inductive invariant.                                                *)

\* With no ballots on file, or too few, the verdict is to reject.
LEMMA NoBallotsVoid ==
  ASSUME NEW ballots, Casters(ballots) = {}
  PROVE  Verdict(ballots) = "void"
<1>1. \A choice \in Ballots : {m \in Members : ballots[m] = choice} = {}
  BY NoneAssumption DEF Casters
<1>2. Count(ballots, "uphold") = 0 /\ Count(ballots, "void") = 0
  BY <1>1, FS_EmptySet DEF Count, Ballots
<1> QED
  BY <1>2 DEF Verdict

LEMMA SerialInit == Init => SerialInv
<1> SUFFICES ASSUME Init PROVE SerialInv
  OBVIOUS
<1>1. TypeOK
  <2>1. Idle \in RequestType /\ Idle.op = "idle"
    <3>1. NoRows \in [{} -> RowType]
      BY DEF NoRows
    <3>2. NoRows \in UNION {[S -> RowType] : S \in SUBSET Fines}
      BY <3>1
    <3> QED
      BY <3>2 DEF Idle, RequestType
  <2> QED
    BY <2>1 DEF Init, TypeOK, Statuses, PayStatuses, Hands, Windows
<1>2. NothingHeard /\ NeutralBallots
  BY DEF Init, NothingHeard, NeutralBallots, Casters
<1>3. ObligationIffRegistered /\ PaidAlias /\ VerdictMatchesBallots
  BY DEF Init, ObligationIffRegistered, Registered, OwedStatuses, PaidAlias, VerdictMatchesBallots
<1> QED
  BY <1>1, <1>2, <1>3 DEF SerialInv

LEMMA SerialInductive == SerialInv /\ [SerialNext]_vars => SerialInv'
<1> SUFFICES ASSUME SerialInv, [SerialNext]_vars PROVE SerialInv'
  OBVIOUS
<1>1. TypeOK'
  BY SerialTypes DEF SerialInv
<1>2. ASSUME NEW f \in Fines
      PROVE  /\ status'[f] \in OwedStatuses <=> pay'[f] # "not_owed"
             /\ paid'[f] <=> pay'[f] \in {"marked_paid", "settled"}
             /\ status'[f] \in {"upheld", "void"} => status'[f] = Verdict(votes'[f])
             /\ status'[f] \in {"absent", "pending"} => Casters(votes'[f]) = {}
             /\ \A m \in Members : votes'[f][m] # None => Neutral(m, f)'
  <2>1. /\ status[f] \in Statuses /\ pay[f] \in PayStatuses
        /\ status[f] \in OwedStatuses <=> pay[f] # "not_owed"
        /\ paid[f] <=> pay[f] \in {"marked_paid", "settled"}
        /\ status[f] \in {"upheld", "void"} => status[f] = Verdict(votes[f])
        /\ status[f] \in {"absent", "pending"} => Casters(votes[f]) = {}
        /\ \A m \in Members : votes[f][m] # None => Neutral(m, f)
    BY DEF SerialInv, TypeOK, ObligationIffRegistered, Registered, PaidAlias, VerdictMatchesBallots,
           NothingHeard, NeutralBallots
  <2>2. CASE Rests(f)
    BY <2>1, <2>2 DEF Rests, Same, Neutral
  <2>3. CASE Filed(f)
    <3>1. \A m \in Members : votes'[f][m] = None
      BY <2>1, <2>3 DEF Filed, Casters
    <3> QED
      BY <2>1, <2>3, <3>1 DEF Filed, Same, OwedStatuses
  <2>4. CASE Answered(f)
    BY <2>1, <2>4, NoBallotsVoid DEF Answered, Decided, OwedStatuses, Neutral
  <2>5. CASE Heard(f)
    BY <2>1, <2>5, Verdicts DEF Heard, Decided, OwedStatuses, Neutral
  <2>6. CASE Settling(f)
    BY <2>1, <2>6 DEF Settling, Paying, PayableStatuses, Neutral
  <2> QED
    BY <2>2, <2>3, <2>4, <2>5, <2>6, SerialStep
<1> QED
  BY <1>1, <1>2 DEF SerialInv, ObligationIffRegistered, Registered, PaidAlias, VerdictMatchesBallots,
       NothingHeard, NeutralBallots

\* Requests one after the other keep the serial invariant.
THEOREM SerialInvariant == SerialSpec => []SerialInv
  BY SerialInit, SerialInductive, PTL DEF SerialSpec

\* The alias of fine.py: a complaint is flagged as paid exactly when its
\* payment status says so.
THEOREM PaidAliasCorrect == SerialSpec => []PaidAlias
<1>1. SerialInv => PaidAlias
  BY DEF SerialInv
<1> QED
  BY <1>1, SerialInvariant, PTL

\* The verdict on file is the one its ballots give, long after the vote.
THEOREM VerdictIsFinal == SerialSpec => []VerdictMatchesBallots
<1>1. SerialInv => VerdictMatchesBallots
  BY DEF SerialInv
<1> QED
  BY <1>1, SerialInvariant, PTL

-----------------------------------------------------------------------------
(* The vote.                                                               *)

\* A vote that closes before its deadline, with nobody who voted having left
\* the flat, has heard every member entitled to vote: heads are counted, not
\* matched, but the heads counted are all entitled ones.
THEOREM EarlyCloseIsFair == SerialSpec => EarlyCloseHeardEveryone
<1> DEFINE Early(f) == /\ status[f] = "disputed" /\ status'[f] # "disputed"
                       /\ clock[f]["vote"] = "running"
                       /\ Casters(votes'[f]) \subseteq Active
<1>1. ASSUME SerialInv, [SerialNext]_vars, NEW f \in Fines, Early(f)
      PROVE  Eligible(f) \subseteq Casters(votes'[f])
  <2>1. Heard(f) /\ HeardEveryone(f, votes'[f])
    BY <1>1, SerialStep DEF Rests, Filed, Answered, Heard, Decided, Settling, Paying
  <2> DEFINE casters == Casters(votes'[f])
  <2>2. casters \subseteq Eligible(f)
    BY <1>1, <2>1 DEF Heard, SerialInv, NeutralBallots, Neutral, Casters, Eligible
  <2>3. IsFiniteSet(Eligible(f))
    BY MembersAssumption, FS_Subset DEF Eligible, Active
  <2>4. /\ IsFiniteSet(casters) /\ Cardinality(casters) <= Cardinality(Eligible(f))
        /\ Cardinality(casters) = Cardinality(Eligible(f)) => casters = Eligible(f)
    BY <2>2, <2>3, FS_Subset
  <2>5. Cardinality(casters) \in Nat /\ Cardinality(Eligible(f)) \in Nat
    BY <2>3, <2>4, FS_CardinalityType
  <2>6. Cardinality(casters) >= Cardinality(Eligible(f))
    BY <2>1 DEF HeardEveryone
  <2> QED
    BY <2>4, <2>5, <2>6
<1>2. SerialInv /\ [SerialNext]_vars =>
        [\A f \in Fines : Early(f) => Eligible(f) \subseteq Casters(votes'[f])]_vars
  BY <1>1
<1> QED
  BY <1>2, SerialInvariant, PTL DEF SerialSpec, EarlyCloseHeardEveryone

-----------------------------------------------------------------------------
(* The lifecycle.                                                          *)

LEMMA PhaseOf ==
  ASSUME NEW f \in Fines
  PROVE  /\ status[f] = "absent" => Phase[f] = "none"
         /\ status[f] = "pending" => Phase[f] = "raised"
         /\ status[f] = "disputed" => Phase[f] = "voting"
         /\ status[f] = "void" => Phase[f] = "rejected"
         /\ status[f] \in OwedStatuses => Phase[f] = "registered"
BY DEF Phase, Registered, OwedStatuses

LEMMA DebtOf ==
  ASSUME NEW f \in Fines
  PROVE  /\ pay[f] = "not_owed" => Debt[f] = "none"
         /\ pay[f] = "marked_paid" => Debt[f] = "claimed"
         /\ pay[f] \in {"owed", "overdue", "settled"} => Debt[f] = pay[f]
BY DEF Debt

LEMMA LifecycleStep ==
  SerialInv /\ [SerialNext]_vars => [Lifecycle!Next]_(Lifecycle!lifecycle)
<1> SUFFICES ASSUME SerialInv, [SerialNext]_vars PROVE Lifecycle!Next
  OBVIOUS
<1> SUFFICES ASSUME NEW f \in Fines
             PROVE  \/ Lifecycle!Raise(f) \/ Lifecycle!OpenVote(f) \/ Lifecycle!Reject(f)
                    \/ Lifecycle!Register(f) \/ Lifecycle!Remind(f) \/ Lifecycle!Pay(f)
                    \/ Lifecycle!Verify(f) \/ Lifecycle!Stay(f)
  BY DEF Lifecycle!Next
<1>1. /\ status'[f] = "absent" => Phase'[f] = "none"
      /\ status'[f] = "pending" => Phase'[f] = "raised"
      /\ status'[f] = "disputed" => Phase'[f] = "voting"
      /\ status'[f] = "void" => Phase'[f] = "rejected"
      /\ status'[f] \in OwedStatuses => Phase'[f] = "registered"
  BY DEF Phase, Registered, OwedStatuses
<1>2. /\ pay'[f] = "not_owed" => Debt'[f] = "none"
      /\ pay'[f] = "marked_paid" => Debt'[f] = "claimed"
      /\ pay'[f] \in {"owed", "overdue", "settled"} => Debt'[f] = pay'[f]
  BY DEF Debt
<1>3. /\ status[f] \in Statuses /\ pay[f] \in PayStatuses
      /\ status[f] \in OwedStatuses <=> pay[f] # "not_owed"
  BY DEF SerialInv, TypeOK, ObligationIffRegistered, Registered
<1>4. pay'[f] = pay[f] => Debt'[f] = Debt[f]
  BY <1>2, <1>3, DebtOf DEF PayStatuses
<1>5. status'[f] = status[f] => Phase'[f] = Phase[f]
  BY <1>1, <1>3, PhaseOf DEF Statuses, OwedStatuses
<1> USE DEF Lifecycle!Moves, Lifecycle!Owes
<1>6. CASE Rests(f)
  BY <1>4, <1>5, <1>6 DEF Rests, Same, Lifecycle!Stay
<1>7. CASE Filed(f)
  BY <1>1, <1>4, <1>7, PhaseOf DEF Filed, Same, Lifecycle!Raise
<1>8. CASE Answered(f)
  <2>1. PICK to \in {"confirmed", "disputed", "void"} : Decided(f, "pending", to)
    BY <1>8 DEF Answered
  <2>2. CASE to = "confirmed"
    BY <1>1, <1>2, <1>3, <2>1, <2>2, PhaseOf, DebtOf DEF Decided, OwedStatuses, Lifecycle!Register
  <2>3. CASE to = "disputed"
    BY <1>1, <1>4, <2>1, <2>3, PhaseOf DEF Decided, OwedStatuses, Lifecycle!OpenVote
  <2>4. CASE to = "void"
    BY <1>1, <1>4, <2>1, <2>4, PhaseOf DEF Decided, OwedStatuses, Lifecycle!Reject
  <2> QED
    BY <2>2, <2>3, <2>4
<1>9. CASE Heard(f)
  <2>1. PICK to \in {"disputed", "upheld", "void"} : Decided(f, "disputed", to)
    BY <1>9, Verdicts DEF Heard
  <2>2. CASE to = "disputed"
    BY <1>4, <1>5, <2>1, <2>2 DEF Decided, OwedStatuses, Lifecycle!Stay
  <2>3. CASE to = "upheld"
    BY <1>1, <1>2, <1>3, <2>1, <2>3, PhaseOf, DebtOf DEF Decided, OwedStatuses, Lifecycle!Register
  <2>4. CASE to = "void"
    BY <1>1, <1>4, <2>1, <2>4, PhaseOf DEF Decided, OwedStatuses, Lifecycle!Reject
  <2> QED
    BY <2>1, <2>2, <2>3, <2>4
<1>10. CASE Settling(f)
  BY <1>2, <1>5, <1>10, DebtOf DEF Settling, Paying, PayableStatuses,
     Lifecycle!Remind, Lifecycle!Pay, Lifecycle!Verify
<1> QED
  BY <1>6, <1>7, <1>8, <1>9, <1>10, SerialStep

\* Every complaint follows the lifecycle drawn at the head of complaints.py:
\* raised once, decided at most once, and a decision to register it creates a
\* debt that is paid once.
THEOREM ComplaintsFollowLifecycle == SerialSpec => FollowsLifecycle
<1>1. Init => Lifecycle!Init
  <2> SUFFICES ASSUME Init PROVE Lifecycle!Init
    OBVIOUS
  <2>1. \A f \in Fines : Phase[f] = "none" /\ Debt[f] = "none"
    BY PhaseOf, DebtOf DEF Init
  <2> QED
    BY <2>1 DEF Phase, Debt, Lifecycle!Init
<1> QED
  BY <1>1, LifecycleStep, SerialInvariant, PTL DEF SerialSpec, FollowsLifecycle, Lifecycle!Spec

-----------------------------------------------------------------------------
(* The guard against duplicates.                                           *)

Fresh(f) == status[f] \notin {"absent", "void"} /\ clock[f]["duplicate"] = "running"

\* Only filing starts a duplicate window.
LEMMA WindowStep ==
  ASSUME SerialInv, [SerialNext]_vars, NEW f \in Fines, clock'[f]["duplicate"] = "running"
  PROVE  \/ clock[f]["duplicate"] = "running"
         \/ \E m \in Active : File(m)
<1> DEFINE Goal == clock[f]["duplicate"] = "running"
<1>1. clock \in [Fines -> [Windows -> Hands]] /\ "duplicate" \in Windows
  BY DEF SerialInv, TypeOK, Windows
<1>2. ASSUME NEW g \in Fines, NEW w, w # "duplicate", clock' = [clock EXCEPT ![g][w] = "running"]
      PROVE  Goal
  BY <1>1, <1>2
<1>3. ASSUME NEW m \in Active, Respond(m) PROVE Goal
  <2>1. PICK g \in Fines : Accept(g, Row(g)) \/ Dispute(g, Eligible(g))
    BY <1>3 DEF Respond
  <2>2. clock' = clock \/ \E w \in {"pay", "vote"} : clock' = [clock EXCEPT ![g][w] = "running"]
    BY <2>1 DEF Accept, Dispute, RegisterObligation
  <2> QED
    BY <1>2, <2>2
<1>4. ASSUME NEW m \in Active, Vote(m) PROVE Goal
  <2>1. PICK g \in Fines : clock' = clock \/ clock' = [clock EXCEPT ![g]["pay"] = "running"]
    BY <1>4 DEF Vote, CastVote, FinalizeVote, RegisterObligation
  <2> QED
    BY <1>2, <2>1
<1>5. ASSUME (\E m \in Active : PayFines(m)) \/ Verify PROVE Goal
  BY <1>5 DEF PayFines, MarkPaid, Verify, VerifyPaid
<1>6. CASE Sweep
  <2>1. clock'[f] = clock[f] \/ clock'[f] = [clock[f] EXCEPT !["pay"] = "running"]
    BY <1>6 DEF Sweep
  <2> QED
    BY <1>1, <2>1
<1>7. CASE Environment
  <2>1. ASSUME NEW g \in Fines, NEW w \in Passing, Elapse(g, w) PROVE Goal
    BY <1>1, <2>1 DEF Elapse
  <2>2. ASSUME NEW m \in Members, Join(m) \/ Remove(m) PROVE Goal
    BY <2>2 DEF Join, Remove, rows
  <2> QED
    BY <1>7, <2>1, <2>2 DEF Environment
<1>8. CASE UNCHANGED vars
  BY <1>8 DEF vars, rows
<1> QED
  BY <1>3, <1>4, <1>5, <1>6, <1>7, <1>8 DEF SerialNext

LEMMA FileStep ==
  ASSUME SerialInv, NEW m \in Active, File(m), DuplicateWindow
  PROVE  \E g \in Fines, c \in Forms :
           /\ form'[g] = c
           /\ c.rule # None => \A f \in Fines : ~(Fresh(f) /\ form[f] = c)
           /\ \A f \in Fines \ {g} : form'[f] = form[f] /\ (Fresh(f)' => Fresh(f))
<1>1. PICK g \in Fines, c \in Forms :
        MayFile(m, c) /\ Create(g, c, IF c.rule = None THEN 0 ELSE useCount[c.rule])
  BY DEF File
<1>2. form'[g] = c /\ \A f \in Fines \ {g} : form'[f] = form[f] /\ (Fresh(f)' => Fresh(f))
  BY <1>1 DEF Create, Fresh, SerialInv, TypeOK
<1>3. c.rule # None => \A f \in Fines : ~(Fresh(f) /\ form[f] = c)
  BY <1>1 DEF MayFile, RecentDuplicates, Fresh
<1> QED
  BY <1>2, <1>3

LEMMA DuplicateInductive ==
  ASSUME DuplicateWindow, SerialInv, NoLiveDuplicate, [SerialNext]_vars
  PROVE  NoLiveDuplicate'
<1> DEFINE Clash(f, g) == Fresh(f) /\ Fresh(g) /\ form[f] = form[g] /\ form[f].rule # None
<1>1. NoLiveDuplicate <=> \A f, g \in Fines : f # g => ~Clash(f, g)
  BY DEF NoLiveDuplicate, Fresh
<1>2. ASSUME NEW m \in Active, File(m), NEW f \in Fines, NEW g \in Fines, f # g, Clash(f, g)'
      PROVE  FALSE
  <2>1. PICK h \in Fines, c \in Forms :
          /\ form'[h] = c
          /\ c.rule # None => \A x \in Fines : ~(Fresh(x) /\ form[x] = c)
          /\ \A x \in Fines \ {h} : form'[x] = form[x] /\ (Fresh(x)' => Fresh(x))
    BY <1>2, FileStep
  <2> QED
    BY <1>1, <1>2, <2>1
<1>3. ASSUME ~\E m \in Active : File(m), NEW f \in Fines, Fresh(f)'
      PROVE  Fresh(f) /\ form'[f] = form[f]
  <2>1. clock[f]["duplicate"] = "running"
    BY <1>3, WindowStep DEF Fresh
  <2>2. Rests(f) \/ Answered(f) \/ Heard(f) \/ Settling(f)
    BY <1>3, SerialStep
  <2> QED
    BY <1>3, <2>1, <2>2 DEF Fresh, Rests, Answered, Heard, Decided, Settling, Paying
<1>4. ASSUME NEW f \in Fines, NEW g \in Fines, f # g, Clash(f, g)' PROVE FALSE
  BY <1>1, <1>2, <1>3, <1>4
<1> QED
  BY <1>4 DEF NoLiveDuplicate, Fresh

\* With the guard switched on, the same accuser never has two live complaints
\* against the same member under the same rule while the window runs.
THEOREM NoDuplicates == DuplicateWindow /\ SerialSpec => []NoLiveDuplicate
<1>1. Init => NoLiveDuplicate
  BY DEF Init, NoLiveDuplicate
<1>2. DuplicateWindow /\ SerialInv /\ NoLiveDuplicate /\ [SerialNext]_vars => NoLiveDuplicate'
  BY DuplicateInductive
<1>3. CASE DuplicateWindow
  <2>1. SerialInv /\ NoLiveDuplicate /\ [SerialNext]_vars => NoLiveDuplicate'
    BY <1>2, <1>3
  <2> QED
    BY <1>1, <2>1, SerialInvariant, PTL DEF SerialSpec
<1>4. CASE ~DuplicateWindow
  BY <1>4
<1> QED
  BY <1>3, <1>4

=============================================================================
