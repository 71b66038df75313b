----------------------------- MODULE Complaints -----------------------------
(***************************************************************************)
(* The complaint (fine) lifecycle of app/services/complaints.py as the     *)
(* server runs it: many requests at once, each in a database session of    *)
(* its own, next to the background sweep.                                  *)
(*                                                                         *)
(* A handler first reads (the member behind the cookie, then the row and   *)
(* the queries it needs) outside any transaction, and takes SQLite's write *)
(* lock only with its first flush, keeping it until the commit.  So each   *)
(* request is three steps here: Authenticate, a Load that caches the rows  *)
(* it saw, and a Commit that applies the rest of the handler atomically.   *)
(* The commit decides from the cached row (the ORM's identity map) but     *)
(* writes only the columns it changed, over whatever the row has become.   *)
(*                                                                         *)
(* The sweep's first statement is already an UPDATE, so a whole pass runs  *)
(* under the lock and is a single step.                                    *)
(***************************************************************************)
EXTENDS Integers, FiniteSets

CONSTANTS
  Members,              \* everyone who is ever a member of the flat
  Founders,             \* the members active at the start
  Fines,                \* complaint ids (bounds the number of complaints)
  Rules,                \* ids of house rules a complaint can cite
  Forms,                \* the complaints members may think of filing
  Requests,             \* request slots (bounds the requests in flight)
  None,                 \* SQL NULL / "nothing cached"
  Passing,              \* the time windows that may run out
  MaxComplaintsPerDay,  \* settings.max_complaints_per_day; 0 switches it off
  DuplicateWindow,      \* settings.duplicate_window_hours > 0
  PaymentVerification   \* settings.payment_verification

Statuses    == {"absent", "pending", "confirmed", "disputed", "upheld", "void"}
PayStatuses == {"not_owed", "owed", "overdue", "marked_paid", "settled"}
OwedStatuses    == {"confirmed", "upheld"}
PayableStatuses == {"owed", "overdue"}
Ballots     == {"uphold", "void"}
Windows     == {"duplicate", "day", "confirm", "vote", "pay"}
Hands       == {"none", "running", "passed"}

FilledForms == [accuser : Members, accused : Members, rule : Rules \cup {None}]

ASSUME MembersAssumption  == IsFiniteSet(Members)
ASSUME FormsAssumption    == Forms \subseteq FilledForms
ASSUME FoundersAssumption == Founders \subseteq Members
ASSUME NoneAssumption     == None \notin Members \cup Rules \cup Ballots
ASSUME PassingAssumption  == Passing \subseteq Windows
ASSUME SettingsAssumption ==
  /\ MaxComplaintsPerDay \in Nat
  /\ DuplicateWindow \in BOOLEAN
  /\ PaymentVerification \in BOOLEAN

VARIABLES
  standing,  \* standing[m]: "outside" (not yet a member), "active" or "removed"
  status,    \* fines.status
  pay,       \* fines.payment_status
  paid,      \* fines.paid
  form,      \* who accused whom, and under which rule; fixed when filed
  clock,     \* clock[f][w]: is the deadline of window w unset, ahead or past
  votes,     \* fine_votes: the ballot of each member, None if there is no row
  useCount,  \* rules.use_count
  req        \* what each request in flight has read so far

rows == <<status, pay, paid, form, clock, votes, useCount>>
vars == <<standing, rows, req>>

-----------------------------------------------------------------------------
(* What the handlers read.                                                 *)

Active == {m \in Members : standing[m] = "active"}

Eligible(f) == Active \ {form[f].accuser, form[f].accused}

Row(f) == [status |-> status[f], pay |-> pay[f]]

Casters(ballots) == {m \in Members : ballots[m] # None}

Count(ballots, choice) == Cardinality({m \in Members : ballots[m] = choice})

\* Mutant: a tie, even of no ballots at all, upholds the complaint.
TiesUphold(ballots) ==
  IF Count(ballots, "uphold") >= Count(ballots, "void") THEN "upheld" ELSE "void"

Verdict(ballots) ==
  IF Count(ballots, "uphold") > Count(ballots, "void") THEN "upheld" ELSE "void"

\* Mutant: the vote closes when half of the electorate has voted.
HeardHalf(f, ballots) ==
  2 * Cardinality(Casters(ballots)) >= Cardinality(Eligible(f))

\* Heads are counted, not matched: the ballots of those who left count too.
HeardEveryone(f, ballots) ==
  Cardinality(Casters(ballots)) >= Cardinality(Eligible(f))

FiledToday(m) ==
  {f \in Fines : /\ status[f] # "absent"
                 /\ form[f].accuser = m
                 /\ clock[f]["day"] = "running"}

RecentDuplicates(c) ==
  {f \in Fines : /\ status[f] \notin {"absent", "void"}
                 /\ form[f] = c
                 /\ clock[f]["duplicate"] = "running"}

-----------------------------------------------------------------------------
(* The conditions and early returns of each handler, on the row it read.   *)

\* Mutant: the duplicate guard is forgotten.
MayFileAgain(m, c) ==
  /\ c.accuser = m
  /\ c.accused # m
  /\ c.accused \in Active
  /\ MaxComplaintsPerDay > 0 => Cardinality(FiledToday(m)) < MaxComplaintsPerDay

MayFile(m, c) ==
  /\ c.accuser = m
  /\ c.accused # m
  /\ c.accused \in Active
  /\ MaxComplaintsPerDay > 0 => Cardinality(FiledToday(m)) < MaxComplaintsPerDay
  /\ DuplicateWindow /\ c.rule # None => RecentDuplicates(c) = {}

\* Mutant: a complaint can be answered whatever became of it.
MayAnswerAnytime(m, f, row) == row.status # "absent" /\ form[f].accused = m

MayAnswer(m, f, row) == row.status = "pending" /\ form[f].accused = m

\* Mutant: ballots are taken after the vote has closed.
MayVoteAfterwards(m, f, row) ==
  /\ row.status \in {"disputed", "upheld", "void"}
  /\ m \notin {form[f].accuser, form[f].accused}

MayVote(m, f, row) ==
  /\ row.status = "disputed"
  /\ m \notin {form[f].accuser, form[f].accused}

MayPay(m, f, row) == row.pay \in PayableStatuses /\ form[f].accused = m

MayVerify(row) == row.pay = "marked_paid"

-----------------------------------------------------------------------------
(* The writing half of each handler: `row' is the row it cached.           *)

\* Mutant: the constraint was lost in a migration.
Unconstrained == TRUE

\* The CHECK constraint payment_requires_registered, tested by the database
\* on every write; a write that breaks it rolls the request back.
PaymentRequiresRegistered ==
  \A f \in Fines : pay[f] = "not_owed" \/ status[f] \in OwedStatuses

\* Mutant: a fine is registered without an obligation to pay.
RegisterWithoutDebt(f, row) == UNCHANGED <<pay, clock>>

RegisterObligation(f, row) ==
  IF row.pay = "not_owed"
    THEN /\ pay' = [pay EXCEPT ![f] = "owed"]
         /\ clock' = [clock EXCEPT ![f]["pay"] = "running"]
    ELSE UNCHANGED <<pay, clock>>

Create(f, c, uses) ==
  /\ status[f] = "absent"
  /\ status' = [status EXCEPT ![f] = "pending"]
  /\ form' = [form EXCEPT ![f] = c]
  /\ clock' = [clock EXCEPT ![f] = [w \in Windows |->
                 IF w \in {"duplicate", "day", "confirm"} THEN "running" ELSE "none"]]
  /\ useCount' = [r \in Rules |-> IF r = c.rule THEN uses + 1 ELSE useCount[r]]
  /\ UNCHANGED <<pay, paid, votes>>

Accept(f, row) ==
  /\ status' = [status EXCEPT ![f] = "confirmed"]
  /\ RegisterObligation(f, row)
  /\ UNCHANGED <<paid, form, votes, useCount>>

Dispute(f, voters) ==
  /\ IF voters = {}
       THEN /\ status' = [status EXCEPT ![f] = "void"]
            /\ UNCHANGED clock
       ELSE /\ status' = [status EXCEPT ![f] = "disputed"]
            /\ clock' = [clock EXCEPT ![f]["vote"] = "running"]
  /\ UNCHANGED <<pay, paid, form, votes, useCount>>

FinalizeVote(f, row, ballots) ==
  /\ status' = [status EXCEPT ![f] = Verdict(ballots)]
  /\ IF Verdict(ballots) = "upheld"
       THEN RegisterObligation(f, row)
       ELSE UNCHANGED <<pay, clock>>

\* The ballot is written only if it differs from the one the request saw.
\* The tally counts every ballot on file; the electorate is whoever is
\* eligible at the moment of the write.
CastVote(f, row, m, prior, choice) ==
  LET ballots == IF prior = choice THEN votes[f]
                                   ELSE [votes[f] EXCEPT ![m] = choice] IN
  /\ votes' = [votes EXCEPT ![f] = ballots]
  /\ IF HeardEveryone(f, ballots)
       THEN FinalizeVote(f, row, ballots)
       ELSE UNCHANGED <<status, pay, clock>>
  /\ UNCHANGED <<paid, form, useCount>>

\* Mutant: the payment status moves but the paid flag is left behind.
MarkPaidStatusOnly(S) ==
  /\ pay' = [f \in Fines |-> IF f \in S THEN "marked_paid" ELSE pay[f]]
  /\ UNCHANGED <<status, paid, form, clock, votes, useCount>>

MarkPaid(S) ==
  /\ pay' = [f \in Fines |-> IF f \notin S THEN pay[f]
                             ELSE IF PaymentVerification THEN "marked_paid" ELSE "settled"]
  /\ paid' = [f \in Fines |-> f \in S \/ paid[f]]
  /\ UNCHANGED <<status, form, clock, votes, useCount>>

VerifyPaid(f) ==
  /\ pay' = [pay EXCEPT ![f] = "settled"]
  /\ UNCHANGED <<status, paid, form, clock, votes, useCount>>

-----------------------------------------------------------------------------
(* Requests.  A slot is Idle, "in" (authenticated), or holds the operation *)
(* it will commit together with everything it read beforehand.             *)

NoRows == [f \in {} |-> None]

Idle == [op |-> "idle", by |-> None, seen |-> NoRows, voters |-> {},
         prior |-> None, choice |-> None, form |-> None, uses |-> 0]

\* Mutant: a session without a member gets in.
AuthenticateAnybody(r) ==
  /\ req[r] = Idle
  /\ \E m \in Active \cup {None} : req' = [req EXCEPT ![r].op = "in", ![r].by = m]
  /\ UNCHANGED <<standing, rows>>

\* deps.current_member: the session's member is looked up and must be active.
Authenticate(r) ==
  /\ req[r] = Idle
  /\ \E m \in Active : req' = [req EXCEPT ![r].op = "in", ![r].by = m]
  /\ UNCHANGED <<standing, rows>>

\* The request reads the rows of S, on its way to operation op.
Load(r, op, S, more) ==
  /\ req[r].op = "in"
  /\ \A f \in S : status[f] # "absent"
  /\ req' = [req EXCEPT ![r] = [more EXCEPT !.op = op, !.by = req[r].by,
                                            !.seen = [f \in S |-> Row(f)]]]
  /\ UNCHANGED <<standing, rows>>

LoadCreate(r) ==
  \E c \in Forms :
    /\ MayFile(req[r].by, c)
    /\ Load(r, "create", {}, [Idle EXCEPT !.form = c,
              !.uses = IF c.rule = None THEN 0 ELSE useCount[c.rule]])

LoadAccept(r) ==
  \E f \in Fines :
    /\ Load(r, "accept", {f}, Idle)
    /\ MayAnswer(req[r].by, f, Row(f))

\* dispute() also queries the electorate before its first write.
LoadDispute(r) ==
  \E f \in Fines :
    /\ Load(r, "dispute", {f}, [Idle EXCEPT !.voters = Eligible(f)])
    /\ MayAnswer(req[r].by, f, Row(f))

\* record_vote() looks for the caller's ballot row before it writes one.
LoadVote(r) ==
  \E f \in Fines, choice \in Ballots :
    /\ Load(r, "vote", {f}, [Idle EXCEPT !.choice = choice,
              !.prior = votes[f][req[r].by]])
    /\ MayVote(req[r].by, f, Row(f))

LoadPay(r) ==
  \E S \in (SUBSET Fines) \ {{}} :
    /\ Load(r, "pay", S, Idle)
    /\ \A f \in S : MayPay(req[r].by, f, Row(f))

LoadVerify(r) ==
  \E f \in Fines :
    /\ Load(r, "verify", {f}, Idle)
    /\ MayVerify(Row(f))

\* The transaction commits, unless the database refuses the rows it leaves.
Commit(r) ==
  /\ req' = [req EXCEPT ![r] = Idle]
  /\ PaymentRequiresRegistered'
  /\ UNCHANGED standing

CommitCreate(r) ==
  /\ req[r].op = "create"
  /\ \E f \in Fines : Create(f, req[r].form, req[r].uses)
  /\ Commit(r)

CommitAccept(r) ==
  /\ req[r].op = "accept"
  /\ \E f \in DOMAIN req[r].seen : Accept(f, req[r].seen[f])
  /\ Commit(r)

CommitDispute(r) ==
  /\ req[r].op = "dispute"
  /\ \E f \in DOMAIN req[r].seen : Dispute(f, req[r].voters)
  /\ Commit(r)

\* A ballot row that appeared since the lookup breaks one_vote_per_voter.
CommitVote(r) ==
  /\ req[r].op = "vote"
  /\ \E f \in DOMAIN req[r].seen :
       /\ req[r].prior = None => votes[f][req[r].by] = None
       /\ CastVote(f, req[r].seen[f], req[r].by, req[r].prior, req[r].choice)
  /\ Commit(r)

CommitPay(r) ==
  /\ req[r].op = "pay"
  /\ MarkPaid(DOMAIN req[r].seen)
  /\ Commit(r)

CommitVerify(r) ==
  /\ req[r].op = "verify"
  /\ \E f \in DOMAIN req[r].seen : VerifyPaid(f)
  /\ Commit(r)

\* An early return, a domain error, a lost client, a lock timeout, a refused
\* constraint or a restart of the server: the session rolls back.
Abandon(r) ==
  /\ req[r] # Idle
  /\ req' = [req EXCEPT ![r] = Idle]
  /\ UNCHANGED <<standing, rows>>

-----------------------------------------------------------------------------
(* The background sweep, the passing of time, and the other services.      *)

AutoConfirmed == {f \in Fines : status[f] = "pending" /\ clock[f]["confirm"] = "passed"}

\* Mutant: the sweep waits for a first ballot that nobody has to cast.
VoteDueOnceVoted ==
  {f \in Fines : /\ status[f] = "disputed" /\ clock[f]["vote"] = "passed"
                 /\ Casters(votes[f]) # {}}

VoteDue == {f \in Fines : status[f] = "disputed" /\ clock[f]["vote"] = "passed"}

PaymentDue == {f \in Fines : pay[f] = "owed" /\ clock[f]["pay"] = "passed"}

\* sweep_due, sweep_votes and sweep_overdue, in one transaction.
Sweep ==
  LET registered == AutoConfirmed \cup {f \in VoteDue : Verdict(votes[f]) = "upheld"}
      obliged    == {f \in registered : pay[f] = "not_owed"} IN
  /\ AutoConfirmed \cup VoteDue \cup PaymentDue # {}
  /\ status' = [f \in Fines |-> IF f \in AutoConfirmed THEN "confirmed"
                                ELSE IF f \in VoteDue THEN Verdict(votes[f])
                                ELSE status[f]]
  /\ pay' = [f \in Fines |-> IF f \in obliged THEN "owed"
                             ELSE IF f \in PaymentDue THEN "overdue"
                             ELSE pay[f]]
  /\ clock' = [f \in Fines |-> IF f \in obliged
                               THEN [clock[f] EXCEPT !["pay"] = "running"]
                               ELSE clock[f]]
  /\ UNCHANGED <<standing, paid, form, votes, useCount, req>>

Elapse(f, w) ==
  /\ clock[f][w] = "running"
  /\ clock' = [clock EXCEPT ![f][w] = "passed"]
  /\ UNCHANGED <<standing, status, pay, paid, form, votes, useCount, req>>

Join(m) ==
  /\ standing[m] = "outside"
  /\ standing' = [standing EXCEPT ![m] = "active"]
  /\ UNCHANGED <<rows, req>>

\* members.remove: somebody is always left to manage the flat.
Remove(m) ==
  /\ standing[m] = "active"
  /\ Active # {m}
  /\ standing' = [standing EXCEPT ![m] = "removed"]
  /\ UNCHANGED <<rows, req>>

-----------------------------------------------------------------------------
Init ==
  /\ standing = [m \in Members |-> IF m \in Founders THEN "active" ELSE "outside"]
  /\ status   = [f \in Fines |-> "absent"]
  /\ pay      = [f \in Fines |-> "not_owed"]
  /\ paid     = [f \in Fines |-> FALSE]
  /\ form     = [f \in Fines |-> None]
  /\ clock    = [f \in Fines |-> [w \in Windows |-> "none"]]
  /\ votes    = [f \in Fines |-> [m \in Members |-> None]]
  /\ useCount = [r \in Rules |-> 0]
  /\ req      = [r \in Requests |-> Idle]

Request(r) ==
  \/ Authenticate(r)
  \/ LoadCreate(r) \/ LoadAccept(r) \/ LoadDispute(r)
  \/ LoadVote(r) \/ LoadPay(r) \/ LoadVerify(r)
  \/ CommitCreate(r) \/ CommitAccept(r) \/ CommitDispute(r)
  \/ CommitVote(r) \/ CommitPay(r) \/ CommitVerify(r)
  \/ Abandon(r)

Environment ==
  \/ \E f \in Fines, w \in Passing : Elapse(f, w)
  \/ \E m \in Members : Join(m) \/ Remove(m)

Next == (\E r \in Requests : Request(r)) \/ Sweep \/ Environment

\* The sweep runs for ever ("one bad pass never kills the loop") and time
\* passes; nobody is obliged to answer, vote or pay.
Fairness ==
  /\ WF_vars(Sweep)
  /\ \A f \in Fines, w \in Passing : WF_vars(Elapse(f, w))

Spec == Init /\ [][Next]_vars /\ Fairness

-----------------------------------------------------------------------------
(* Properties.                                                             *)

RowType == [status : Statuses \ {"absent"}, pay : PayStatuses]

RequestType ==
  [op     : {"idle", "in", "create", "accept", "dispute", "vote", "pay", "verify"},
   by     : Members \cup {None},
   seen   : UNION {[S -> RowType] : S \in SUBSET Fines},
   voters : SUBSET Members,
   prior  : Ballots \cup {None},
   choice : Ballots \cup {None},
   form   : FilledForms \cup {None},
   uses   : Nat]

\* Every variable holds values the database columns and the handlers use.
TypeOK ==
  /\ standing \in [Members -> {"outside", "active", "removed"}]
  /\ status   \in [Fines -> Statuses]
  /\ pay      \in [Fines -> PayStatuses]
  /\ paid     \in [Fines -> BOOLEAN]
  /\ form     \in [Fines -> FilledForms \cup {None}]
  /\ clock    \in [Fines -> [Windows -> Hands]]
  /\ votes    \in [Fines -> [Members -> Ballots \cup {None}]]
  /\ useCount \in [Rules -> Nat]
  /\ req      \in [Requests -> RequestType]
  /\ \A r \in Requests : req[r].op # "idle" => req[r].by \in Members

Registered(f) == status[f] \in OwedStatuses

\* However requests and sweeps overlap, a complaint carries a debt exactly
\* when it is registered: no registered fine is left without an obligation
\* to pay, and no pending, disputed or void one keeps a debt.
ObligationIffRegistered == \A f \in Fines : Registered(f) <=> pay[f] # "not_owed"

\* "Void and paid" is unrepresentable (fine.py): money taken into the pot
\* always belongs to a registered fine, though the constraint that ensures
\* it mentions only payment_status and never `paid'.
PaidIsRegistered == \A f \in Fines : paid[f] => Registered(f)

\* Once registered, a fine stays registered: no late dispute, vote or sweep
\* turns a debt back into an open or rejected complaint.
DebtIsForever == [][\A f \in Fines : Registered(f) => Registered(f)']_vars

\* A fine is upheld only on the strength of a ballot cast by somebody who
\* is neither its accuser nor its accused.
UpheldByNeutral ==
  \A f \in Fines : status[f] = "upheld" =>
    Casters(votes[f]) \ {form[f].accuser, form[f].accused} # {}

\* Every complaint is concluded even if nobody lifts a finger: the sweep
\* throws it out or registers it, and then it is paid or reported overdue.
Concludes ==
  \A f \in Fines :
    status[f] = "pending" ~>
      (status[f] = "void" \/ pay[f] \in {"overdue", "marked_paid", "settled"})

\* The alias of fine.py: paid == payment_status in marked_paid/settled.
PaidAlias == \A f \in Fines : paid[f] <=> pay[f] \in {"marked_paid", "settled"}

\* While the duplicate window runs, the same accuser has no two live
\* complaints against the same member under the same rule.
NoLiveDuplicate ==
  \A f, g \in Fines :
    (/\ f # g
     /\ {status[f], status[g]} \cap {"absent", "void"} = {}
     /\ form[f] = form[g]
     /\ form[f].rule # None)
    => ~(clock[f]["duplicate"] = "running" /\ clock[g]["duplicate"] = "running")
=============================================================================
