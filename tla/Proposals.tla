----------------------------- MODULE Proposals -----------------------------
(***************************************************************************)
(* Rule proposals and the rule book: app/services/proposals.py and         *)
(* app/services/rulebook.py, under concurrent requests and the sweep.      *)
(*                                                                         *)
(* As in Complaints, a request reads first and takes the write lock with   *)
(* its first flush, so it is two steps: a Load (session, proposal, rule    *)
(* row, earlier ballot) and a Commit.  Here the proposal row carries an    *)
(* optimistic lock: an UPDATE names the version it read and fails if the   *)
(* row has been updated since.  Versions only grow, so all that matters of *)
(* them is whether the row a request holds is still the current one: that  *)
(* is `stale'.  Ballots and rules carry no such lock.  Comments, events    *)
(* and notifications are left out: nothing reads them back.                *)
(***************************************************************************)
EXTENDS Integers, FiniteSets, Sequences

CONSTANTS
  Members,            \* the people of the flat
  Tenants,            \* those who are tenants (and so administrators) at the start
  Moving,             \* those whose role may change
  Proposals,          \* proposal ids (bounds the number of proposals)
  Rules,              \* rule ids, enough for every new rule proposed
  HouseRules,         \* the rules seeded when the flat was set up
  SeedRule,           \* their row
  Drafts,             \* the proposals members may think of
  Edits,              \* the changes a proposer may make to a draft
  Requests,           \* request slots (bounds the requests in flight)
  None,               \* SQL NULL
  Passing,            \* the time windows that may run out
  Quorum,             \* settings.proposal_quorum
  PassPct,            \* settings.proposal_pass_pct
  MinYes,             \* settings.proposal_min_yes
  RequireReview,      \* settings.proposal_require_review
  MaxProposalsPerDay, \* settings.proposal_max_per_day; 0 switches it off
  MaxVersions         \* bound on the versions of a rule that rollbacks add

Statuses == {"absent", "draft", "pending_review", "voting",
             "passed", "rejected", "expired", "cancelled"}
Live     == {"draft", "pending_review", "voting", "passed"}
Resolved == {"passed", "rejected", "expired", "cancelled"}
Choices  == {"yes", "no", "abstain"}

\* What a proposer may write, a row of the rule book, and a version of one.
Texts == ({SeedRule.text} \cup {d.text : d \in Drafts} \cup {e.text : e \in Edits}) \ {None}
DraftType ==
  [by : Members, type : {"new_rule", "modify_rule", "delete_rule"},
   target : Rules \cup {None}, text : Texts \cup {None}, amount : Int \cup {None}]
RowType      == [text : Texts, amount : Nat, active : BOOLEAN]
SnapshotType == [text : Texts, amount : Nat, active : BOOLEAN, proposal : Proposals \cup {None}]

ASSUME SettingsAssumption ==
  /\ {Quorum, PassPct, MinYes, MaxProposalsPerDay, MaxVersions} \subseteq Nat
  /\ RequireReview \in BOOLEAN
  /\ Passing \subseteq {"day", "vote"}
  /\ Tenants \cup Moving \subseteq Members
  /\ HouseRules \subseteq Rules
ASSUME DraftsAssumption ==
  /\ SeedRule \in RowType
  /\ Drafts \subseteq DraftType
  /\ \A d \in Drafts : IF d.type = "new_rule" THEN d.text # None ELSE d.target \in Rules
  /\ \A e \in Edits : e.amount \in Int \cup {None}
ASSUME NoneAssumption == None \notin Proposals /\ None \notin RowType

VARIABLES
  role,     \* role[m]: "tenant", "guest" or "gone"
  status,   \* rule_proposals.status
  draft,    \* who proposes what: by, type, target, text, amount
  recent,   \* filed less than 24 hours ago
  closing,  \* voting_closes_at: "none", "running" or "passed"
  frozen,   \* rule_proposals.frozen
  ballots,  \* proposal_votes: the choice of each member, None without a row
  rule,     \* rules: text, amount and active, None without a row
  history,  \* rule_versions of each rule, oldest first
  req       \* what each request in flight has read and means to do

rows == <<role, status, draft, recent, closing, frozen, ballots, rule, history>>
vars == <<rows, req>>

-----------------------------------------------------------------------------
(* The vote.                                                               *)

Admin(m) == role[m] = "tenant"

Count(p, choice) == Cardinality({m \in Members : ballots[p][m] = choice})

\* Python's round(100 * n / d): the nearest integer, a half to the even one.
Percent(n, d) ==
  LET whole == (100 * n) \div d
      twice == 2 * ((100 * n) % d) IN
  IF twice > d \/ (twice = d /\ whole % 2 = 1) THEN whole + 1 ELSE whole

YesPct(yes, no) == IF yes + no = 0 THEN 0 ELSE Percent(yes, yes + no)

Outcome(p) ==
  LET yes == Count(p, "yes")
      no  == Count(p, "no") IN
  IF yes + no + Count(p, "abstain") < Quorum THEN "expired"
  ELSE IF YesPct(yes, no) >= PassPct /\ yes >= MinYes THEN "passed"
  ELSE "rejected"

Due(p) == status[p] = "voting" /\ closing[p] = "passed" /\ ~frozen[p]

-----------------------------------------------------------------------------
(* The rule book.                                                          *)

\* The ORM writes the columns in which the row it means to leave differs
\* from the row it cached, over whatever the row has become.
Written(live, cached, wanted) ==
  [c \in DOMAIN wanted |-> IF wanted[c] # cached[c] THEN wanted[c] ELSE live[c]]

Publish(r, row, snapshot) ==
  /\ rule' = [rule EXCEPT ![r] = row]
  /\ history' = [history EXCEPT ![r] = Append(@, snapshot)]

\* Mutant: a proposal that names no amount merges a NULL, which is refused.
MergeableIfPriced(p) ==
  draft[p].type = "delete_rule" \/ (draft[p].amount # None /\ draft[p].amount >= 0)

\* The CHECK constraint fine_amount_non_negative would refuse the merge.
Mergeable(p) ==
  \/ draft[p].type = "delete_rule"
  \/ draft[p].amount # None => draft[p].amount >= 0

Amended(d, row) ==
  IF d.type = "delete_rule" THEN [row EXCEPT !.active = FALSE]
  ELSE [row EXCEPT !.text   = IF d.text # None THEN d.text ELSE @,
                   !.amount = IF d.amount # None THEN d.amount ELSE @]

Snapshot(row, active, p) ==
  [text |-> row.text, amount |-> row.amount, active |-> active, proposal |-> p]

\* Mutant: a missing amount is stored as it is.
AmountAsIs(d) == d.amount

AmountOf(d) == IF d.amount = None THEN 0 ELSE d.amount

MergeNew(p) ==
  /\ draft[p].type = "new_rule"
  /\ \E r \in Rules :
       LET row == [text |-> draft[p].text, amount |-> AmountOf(draft[p]), active |-> TRUE] IN
       /\ rule[r] = None
       /\ Publish(r, row, Snapshot(row, TRUE, p))

\* A modified rule is recorded as active, whether it is or not.
MergeChange(p, cached) ==
  LET r      == draft[p].target
      wanted == Amended(draft[p], cached) IN
  /\ draft[p].type # "new_rule"
  /\ Publish(r, Written(rule[r], cached, wanted),
             Snapshot(wanted, draft[p].type = "modify_rule", p))

Merge(p, cached) == Mergeable(p) /\ (MergeNew(p) \/ MergeChange(p, cached))

-----------------------------------------------------------------------------
(* Requests: reading.                                                      *)

Idle == [op |-> "idle", by |-> None, p |-> None, stale |-> FALSE, draft |-> None,
         flag |-> FALSE, choice |-> None, prior |-> None, rule |-> None, cached |-> None,
         version |-> None]

Start(r, op, m, p, more) ==
  /\ req[r] = Idle
  /\ role[m] # "gone"
  /\ req' = [req EXCEPT ![r] = [more EXCEPT !.op = op, !.by = m, !.p = p]]
  /\ UNCHANGED rows

\* A handler on an existing proposal: p is read with the session's member m.
Read(r, op, m, p, more) == status[p] # "absent" /\ Start(r, op, m, p, more)

\* Anti-spam: the daily limit and the near-identical live proposal.
MayPropose(d) ==
  /\ d.type # "new_rule" => rule[d.target] # None
  /\ MaxProposalsPerDay > 0 =>
       Cardinality({p \in Proposals : /\ status[p] # "absent" /\ recent[p]
                                      /\ draft[p].by = d.by}) < MaxProposalsPerDay
  /\ d.text # None =>
       ~\E p \in Proposals : /\ status[p] \in Live /\ recent[p]
                             /\ draft[p].type = d.type /\ draft[p].text = d.text

LoadCreate(r) ==
  \E d \in Drafts, submit \in BOOLEAN :
    /\ MayPropose(d)
    /\ Start(r, "create", d.by, None, [Idle EXCEPT !.draft = d, !.flag = submit])

LoadEdit(r, m, p) ==
  \E e \in Edits :
    LET edited == [draft[p] EXCEPT !.text   = IF e.text # None THEN e.text ELSE @,
                                   !.amount = IF e.amount # None THEN e.amount ELSE @] IN
    /\ status[p] = "draft"
    /\ draft[p].by = m
    /\ edited # draft[p]
    /\ Read(r, "edit", m, p, [Idle EXCEPT !.draft = edited])

LoadSubmit(r, m, p) ==
  /\ status[p] = "draft"
  /\ draft[p].by = m \/ Admin(m)
  /\ Read(r, "submit", m, p, Idle)

LoadVote(r, m, p) ==
  /\ status[p] = "voting"
  /\ closing[p] = "running"
  /\ Admin(m)
  /\ \E choice \in Choices :
       Read(r, "vote", m, p, [Idle EXCEPT !.choice = choice, !.prior = ballots[p][m]])

LoadApprove(r, m, p) ==
  Admin(m) /\ status[p] = "pending_review" /\ Read(r, "approve", m, p, Idle)

LoadReject(r, m, p) ==
  Admin(m) /\ status[p] \in {"pending_review", "draft"} /\ Read(r, "reject", m, p, Idle)

LoadExtend(r, m, p) ==
  Admin(m) /\ status[p] = "voting" /\ Read(r, "extend", m, p, Idle)

\* Whatever the status; setting the flag it has already changes no row.
LoadFreeze(r, m, p) ==
  Admin(m) /\ Read(r, "freeze", m, p, [Idle EXCEPT !.flag = ~frozen[p]])

LoadCancel(r, m, p) ==
  /\ status[p] \notin {"absent"} \cup Resolved
  /\ draft[p].by = m \/ Admin(m)
  /\ Read(r, "cancel", m, p, Idle)

LoadForceMerge(r, m, p) ==
  /\ Admin(m)
  /\ status[p] \in {"voting", "pending_review"}
  /\ Read(r, "force_merge", m, p,
          [Idle EXCEPT !.cached = IF draft[p].type = "new_rule" THEN None
                                  ELSE rule[draft[p].target]])

LoadRollback(r, m) ==
  \E u \in Rules :
    /\ Admin(m)
    /\ Len(history[u]) < MaxVersions
    /\ \E v \in DOMAIN history[u] :
         Start(r, "rollback", m, None,
               [Idle EXCEPT !.rule = u, !.cached = rule[u], !.version = history[u][v]])

-----------------------------------------------------------------------------
(* Requests: writing.                                                      *)

\* The row of p has been updated: whoever read it earlier holds an old version.
Outdated(p) ==
  [q \in Requests |-> IF req[q].p = p THEN [req[q] EXCEPT !.stale = TRUE] ELSE req[q]]

\* Mutant: the version column is dropped.
UpdateUnversioned(r, op) ==
  /\ req[r].op = op
  /\ req' = [Outdated(req[r].p) EXCEPT ![r] = Idle]

\* A commit that updates the row of its proposal.
Update(r, op) ==
  /\ req[r].op = op
  /\ ~req[r].stale
  /\ req' = [Outdated(req[r].p) EXCEPT ![r] = Idle]

Finish(r, op) == req[r].op = op /\ req' = [req EXCEPT ![r] = Idle]

OpenVoting(p) ==
  /\ status'  = [status EXCEPT ![p] = "voting"]
  /\ closing' = [closing EXCEPT ![p] = "running"]

Submitted(p) ==
  IF RequireReview
    THEN status' = [status EXCEPT ![p] = "pending_review"] /\ UNCHANGED closing
    ELSE OpenVoting(p)

CommitCreate(r) ==
  /\ Finish(r, "create")
  /\ \E p \in Proposals :
       /\ status[p] = "absent"
       /\ draft' = [draft EXCEPT ![p] = req[r].draft]
       /\ recent' = [recent EXCEPT ![p] = TRUE]
       /\ IF req[r].flag THEN Submitted(p)
                         ELSE status' = [status EXCEPT ![p] = "draft"] /\ UNCHANGED closing
  /\ UNCHANGED <<role, frozen, ballots, rule, history>>

CommitEdit(r) ==
  /\ Update(r, "edit")
  /\ draft' = [draft EXCEPT ![req[r].p] = req[r].draft]
  /\ UNCHANGED <<role, status, recent, closing, frozen, ballots, rule, history>>

CommitSubmit(r) ==
  /\ Update(r, "submit")
  /\ Submitted(req[r].p)
  /\ UNCHANGED <<role, draft, recent, frozen, ballots, rule, history>>

\* No UPDATE of the proposal, hence no version check.  A ballot row that
\* appeared since the lookup breaks one_vote_per_voter.
CommitVote(r) ==
  LET p == req[r].p
      m == req[r].by IN
  /\ Finish(r, "vote")
  /\ req[r].prior = None => ballots[p][m] = None
  /\ ballots' = IF req[r].prior = req[r].choice THEN ballots
                ELSE [ballots EXCEPT ![p][m] = req[r].choice]
  /\ UNCHANGED <<role, status, draft, recent, closing, frozen, rule, history>>

CommitApprove(r) ==
  /\ Update(r, "approve")
  /\ OpenVoting(req[r].p)
  /\ UNCHANGED <<role, draft, recent, frozen, ballots, rule, history>>

Resolve(r, op, resolution) ==
  /\ Update(r, op)
  /\ status' = [status EXCEPT ![req[r].p] = resolution]
  /\ UNCHANGED <<role, draft, recent, closing, frozen, ballots>>

CommitReject(r) == Resolve(r, "reject", "rejected") /\ UNCHANGED <<rule, history>>

CommitCancel(r) == Resolve(r, "cancel", "cancelled") /\ UNCHANGED <<rule, history>>

CommitForceMerge(r) ==
  Resolve(r, "force_merge", "passed") /\ Merge(req[r].p, req[r].cached)

\* The hours are added to the old deadline: it may still lie in the past.
CommitExtend(r) ==
  LET p == req[r].p IN
  /\ Update(r, "extend")
  /\ \E c \in {closing[p], "running"} : closing' = [closing EXCEPT ![p] = c]
  /\ UNCHANGED <<role, status, draft, recent, frozen, ballots, rule, history>>

CommitFreeze(r) ==
  /\ Update(r, "freeze")
  /\ frozen' = [frozen EXCEPT ![req[r].p] = req[r].flag]
  /\ UNCHANGED <<role, status, draft, recent, closing, ballots, rule, history>>

CommitRollback(r) ==
  LET u      == req[r].rule
      v      == req[r].version
      wanted == [text |-> v.text, amount |-> v.amount, active |-> v.active] IN
  /\ Finish(r, "rollback")
  /\ Publish(u, Written(rule[u], req[r].cached, wanted), Snapshot(wanted, v.active, None))
  /\ UNCHANGED <<role, status, draft, recent, closing, frozen, ballots>>

\* An early return, an error, a version conflict or a restart.
Abandon(r) ==
  /\ req[r] # Idle
  /\ req' = [req EXCEPT ![r] = Idle]
  /\ UNCHANGED rows

-----------------------------------------------------------------------------
(* The sweep, the passing of time, and the member service.                 *)

\* A pass holds the write lock throughout and closes every due vote; that is
\* several of these steps in a row.  A merge the database refuses rolls the
\* whole pass back.
Sweep(p) ==
  /\ Due(p)
  /\ \A q \in Proposals : Due(q) /\ Outcome(q) = "passed" => Mergeable(q)
  /\ status' = [status EXCEPT ![p] = Outcome(p)]
  /\ IF Outcome(p) = "passed"
       THEN Merge(p, IF draft[p].type = "new_rule" THEN None ELSE rule[draft[p].target])
       ELSE UNCHANGED <<rule, history>>
  /\ req' = Outdated(p)
  /\ UNCHANGED <<role, draft, recent, closing, frozen, ballots>>

Elapse(p) ==
  /\ "vote" \in Passing
  /\ closing[p] = "running"
  /\ closing' = [closing EXCEPT ![p] = "passed"]
  /\ UNCHANGED <<role, status, draft, recent, frozen, ballots, rule, history, req>>

Age(p) ==
  /\ "day" \in Passing
  /\ recent[p]
  /\ recent' = [recent EXCEPT ![p] = FALSE]
  /\ UNCHANGED <<role, status, draft, closing, frozen, ballots, rule, history, req>>

\* members.change_role and members.remove, guarded against the last admin.
ChangeRole(m) ==
  /\ role[m] # "gone"
  /\ \E new \in {"tenant", "guest", "gone"} \ {role[m]} :
       /\ Admin(m) => \E other \in Members \ {m} : Admin(other)
       /\ role' = [role EXCEPT ![m] = new]
  /\ UNCHANGED <<status, draft, recent, closing, frozen, ballots, rule, history, req>>

-----------------------------------------------------------------------------
Init ==
  /\ role    = [m \in Members |-> IF m \in Tenants THEN "tenant" ELSE "guest"]
  /\ status  = [p \in Proposals |-> "absent"]
  /\ draft   = [p \in Proposals |-> None]
  /\ recent  = [p \in Proposals |-> FALSE]
  /\ closing = [p \in Proposals |-> "none"]
  /\ frozen  = [p \in Proposals |-> FALSE]
  /\ ballots = [p \in Proposals |-> [m \in Members |-> None]]
  /\ rule    = [r \in Rules |-> IF r \in HouseRules THEN SeedRule ELSE None]
  /\ history = [r \in Rules |-> <<>>]
  /\ req     = [r \in Requests |-> Idle]

Load(r) ==
  \/ LoadCreate(r)
  \/ \E m \in Members : LoadRollback(r, m)
  \/ \E m \in Members, p \in Proposals :
       \/ LoadEdit(r, m, p) \/ LoadSubmit(r, m, p) \/ LoadVote(r, m, p)
       \/ LoadApprove(r, m, p) \/ LoadReject(r, m, p) \/ LoadExtend(r, m, p)
       \/ LoadFreeze(r, m, p) \/ LoadCancel(r, m, p) \/ LoadForceMerge(r, m, p)

Commit(r) ==
  \/ CommitCreate(r) \/ CommitEdit(r) \/ CommitSubmit(r) \/ CommitVote(r)
  \/ CommitApprove(r) \/ CommitReject(r) \/ CommitExtend(r) \/ CommitFreeze(r)
  \/ CommitCancel(r) \/ CommitForceMerge(r) \/ CommitRollback(r)

Next ==
  \/ \E r \in Requests : Load(r) \/ Commit(r) \/ Abandon(r)
  \/ \E p \in Proposals : Sweep(p) \/ Elapse(p) \/ Age(p)
  \/ \E m \in Moving : ChangeRole(m)

\* The sweep runs for ever and time passes; nobody is obliged to do anything.
Fairness == \A p \in Proposals : WF_vars(Sweep(p)) /\ WF_vars(Elapse(p))

Spec == Init /\ [][Next]_vars /\ Fairness

-----------------------------------------------------------------------------
(* Properties.                                                             *)

\* Every variable holds values the columns admit; amounts in the rule book
\* are never negative.
TypeOK ==
  /\ role    \in [Members -> {"tenant", "guest", "gone"}]
  /\ status  \in [Proposals -> Statuses]
  /\ draft   \in [Proposals -> DraftType \cup {None}]
  /\ recent  \in [Proposals -> BOOLEAN]
  /\ closing \in [Proposals -> {"none", "running", "passed"}]
  /\ frozen  \in [Proposals -> BOOLEAN]
  /\ ballots \in [Proposals -> [Members -> Choices \cup {None}]]
  /\ rule    \in [Rules -> RowType \cup {None}]
  /\ history \in [Rules -> Seq(SnapshotType)]
  /\ \A r \in Requests : req[r].op = "idle" <=> req[r] = Idle

\* The versions of the rule book that proposal p brought about.
Merges(p) ==
  {v \in UNION {{r} \X DOMAIN history[r] : r \in Rules} : history[v[1]][v[2]].proposal = p}

Lifecycle == INSTANCE ProposalLifecycle
               WITH Ideas <- Proposals, phase <- status,
                    amendments <- [p \in Proposals |-> Cardinality(Merges(p))]

\* However administrators, the proposer and the sweep race each other, a
\* proposal follows the diagram of proposals.py, is resolved once and, if it
\* passes, changes the rule book once.
FollowsLifecycle == Lifecycle!Spec

\* An open vote whose deadline is past does not stay open: it is closed,
\* frozen or extended.
DueVotesClose == \A p \in Proposals : Due(p) ~> ~Due(p)

\* "Latest wins while voting is open" (record_vote): once the vote is no
\* longer open the ballots stay as they are.
BallotsCloseWithVote ==
  [][\A p \in Proposals : status[p] # "voting" => ballots'[p] = ballots[p]]_vars

\* The newest version of a rule is a snapshot of the rule in force.
NewestVersionInForce ==
  \A r \in Rules : history[r] # <<>> =>
    LET newest == history[r][Len(history[r])] IN
    \A c \in {"text", "amount", "active"} : rule[r][c] = newest[c]
=============================================================================
