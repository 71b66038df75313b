# A verification project for hive-api

hive-api is the server of a shared flat: members file complaints ("fines")
against each other, propose and vote on house rules, split expenses, pay rent,
declare bills and settle up.  This directory holds TLA+ models of it, the TLC configurations
that check them on small instances, and theorems checked by TLAPS.

`tlc -config X.cfg M` runs a check, `tlapm M_proofs.tla` a proof.
`PROJECT.json` lists the components, the runs, which source lines each
definition models, a plausible bug ("mutant") that breaks each property, the
findings, the hazards and the theorems.

## 1. The system

FastAPI handlers (`app/api/routes`, thin) call services (`app/services`, the
logic), which use repositories (`app/repositories`, the queries) on SQLAlchemy
models (`app/db/models`), plus pure functions (`app/domain`).  One worker process
with one event loop, SQLite in WAL mode, and two background tasks started by
`app/main.py`: the deadline sweep and the notification dispatcher.  All shared
state is in the database; handlers interact only through it.

### How a request runs

This is what makes the system hard, and what every model with requests is built on.

* Each request has a session of its own (`db/session.py: get_session`), which
  commits when the handler returns and rolls back on any error.
* pysqlite opens a transaction with the first INSERT, UPDATE or DELETE, not with
  a SELECT.  Everything a handler reads before its first flush is therefore read
  outside the transaction, and each `await` lets another request run.
* From the first flush to the commit the handler holds SQLite's single write lock;
  whoever waits for it longer than the busy timeout fails.
* Rows read earlier stay in the session's identity map: a second `get` in the same
  handler returns the old row.  On flush the ORM writes the columns whose values
  changed with respect to the cached row, over whatever the row is by now.
* Queries that count or list (tallies, electorates) do see the current tables.
* Constraints are tested on what the write leaves; a violation rolls the request back.

So a request is: reads (possibly stale later), then one atomic commit deciding
from the cached rows.  The sweep's first statement is an UPDATE, so a whole pass
is one transaction, and one failing step rolls back the whole pass.

### Components

| component | state | operations | interacts with |
|---|---|---|---|
| complaints (`services/complaints.py`) | `fines`, `fine_votes`, `rules.use_count` | create, accept, dispute, cast_vote, finalize_vote, mark_paid, verify_paid; sweep_due, sweep_votes, sweep_overdue | members (electorate), rules, sweep, settle-up (pays fines) |
| proposals (`services/proposals.py`) | `rule_proposals`, `proposal_votes` | create, update, submit, vote, approve, reject, extend, freeze, cancel, force_merge; sweep_due | members (administrators), rule book, sweep |
| rule book (`services/rulebook.py`, `rules.py`) | `rules`, `rule_versions` | merge, rollback, diff | proposals, complaints |
| members (`services/members.py`) | `members` | change_role, remove, set_rent_shares, profile | everything that has an electorate or a split |
| expenses (`services/expenses.py`, `domain/splits.py`) | `expenses`, `expense_splits`, `payments` | create, edit, void, record_payment | balances, recurring, rent |
| balances, settle-up (`services/balances.py`, `settle_up.py`, `domain/settle.py`) | `settle_runs`, `settle_txns` | preview, close, mark_txn_paid, cancel_txn | expenses, complaints |
| rent, monthly settlements (`services/rent.py`, `settlements.py`) | `payments`, `settlements` | record_rent_payment, close | members, complaints, expenses |
| recurring, bills (`services/recurring.py`, `billing.py`) | `expense_templates`, `recurring_expenses`, `bills`, `bill_shares` | create, dispute, mark_share_paid; sweep_due | expenses, members, sweep |
| ledger (`services/ledger.py`) | `ledger_entries` | charge, credit, adjustment; pay-outs of a settlement | settlements, members |
| notifications (`services/notifications.py`, `repositories/outbox.py`) | `notifications`, `notification_outbox` | enqueue, mark read, dispatch (claim, send, finalize) | every service; dispatcher task; push targets |
| push targets (`repositories/devices.py`, `push.py`) | `devices`, `push_subscriptions` | subscribe, unsubscribe, prune | dispatcher |
| codes (`services/otp.py`, `verification.py`) | `otp_challenges` | issue, resend, verify, purge; registration, password reset, e-mail change | accounts, sweep |
| accounts, invitations (`services/accounts.py`, `invitations.py`) | `members`, `invitations` | create_member; create, revoke, redeem | codes |
| sign-in and sessions (`services/accounts.py`, `core/security.py`, `api/deps.py`) | `failed_logins`, `locked_until`, `session_version`, cookies | authenticate, change and reset password, log out here and everywhere | codes, every request |
| money overview, reporting | none | read-only views | all |
| NFC, location | none of their own | read | complaints |
| mail, storage, templates, configuration | none | input and output | |

What makes each of them correct:

* complaints: a debt exists exactly for a registered fine; a decision is final;
  a verdict follows from the ballots of neutral members; every complaint ends;
  paid flag and payment status agree; no duplicates inside the window.
* proposals and rule book: a proposal follows its diagram, is resolved once and
  changes the rule book once; ballots close with the vote; due votes close; the
  newest version is the rule in force.
* expenses, balances, settle-up: splits sum to the amount; nets sum to zero; a
  transaction is never overpaid; a closed run settles exactly what it listed.
* rent and settlements: rent collected never exceeds the rent; every fine is
  counted in exactly one settlement; pay-outs and ledgers add up.
* members: the flat always has an administrator.
* outbox: every notification goes out, in order, again only after a lost pass;
  only dead push targets are pruned.
* codes, invitations, accounts: used once, limited guesses, dead once superseded;
  an invitation admits one; an address has one active owner.
* sessions: a cookie of before a sign-out stays out; wrong passwords are counted.
* recurring, bills: every month served once or paused for a human; a declared bill
  is decided; shares are paid only once a bill was confirmed.

## 2. The modules

### ComplaintLifecycle, ProposalLifecycle, TransferPlan, Delivery

The abstract specifications: what the flat may expect.  A complaint is raised
once, answered or left to lapse, decided at most once, and a registered one
carries a debt that is paid once and for all.  A proposal moves along its diagram,
is resolved once, and amends the rule book exactly once, at the moment it passes.  A
proposed transfer is paid off or called off for good, and shows the money recorded.
`Delivery` is a log with one consumer: in order, at least once, nothing skipped.

### Complaints

| variable | in the program |
|---|---|
| `status`, `pay`, `paid`, `form` | columns of `fines` (accuser, accused and rule are one `form`) |
| `votes` | `fine_votes` |
| `clock[f][w]` | the deadlines and timestamps of a fine, as hands of a clock: unset, running, passed (duplicate window, daily limit, cooling, vote, payment) |
| `useCount` | `rules.use_count` |
| `standing` | whether a member exists and is active |
| `req` | the identity map of each request in flight |

A request is `Authenticate` (`deps.current_member`), a `Load…` that reads the row
and whatever else the handler queries before its first flush, and a `Commit…` that
applies the rest of the handler.  `MayFile`, `MayAnswer`, … are the handlers' guards
on the row read; `Create`, `Accept`, `Dispute`, `CastVote`, `MarkPaid`, … their writes,
which use the cached row where the code does and the current tables where it queries
after the flush.  `PaymentRequiresRegistered` is the CHECK constraint, tested by every
commit.  `Abandon` stands for everything that ends a request without a commit: a
domain error, a lock timeout, a lost client, a refused constraint, a restart.
`Sweep` is one pass of the three complaint sweeps.  `Join` and `Remove` are the member
service; `Elapse` is time.

Left out: the amount, proof photos, the texts, the event log and notifications; none
is read by a guard modelled here.

### ComplaintsSerial

The same guards and writes, each request reading and writing in one step: the system
as its tests drive it.  Properties that hold here and fail in `Complaints` are what
concurrency costs.  `Phase` and `Debt` map it to `ComplaintLifecycle`.

### Proposals

Proposals, ballots, rules and versions, again with a Load and a Commit per request.
The optimistic lock (`version_id_col`) is the flag `stale` of a request: versions only
grow, so all that matters is whether the row a request holds is still current.
`Written` is the ORM's partial update of a rule.  `Percent` is Python's `round` (a half
goes to the even neighbour).  Category, title and text of a draft are one `text`.

`Sweep(p)` closes one due vote; the pass of the code closes all due votes under the
lock, which is several of these steps in a row.  A merge the database would refuse
anywhere blocks every one of them, since it rolls the pass back.

Left out: comments, the event log, notifications, the ids of merged rules, the wording
of resolutions.  Membership is reduced to roles.

### Expenses

| variable | in the program |
|---|---|
| `expense` | `expenses` with their `expense_splits` (`share`) and split inputs (`weights`) |
| `sent`, `fresh` | `payments`, summed per pair, and those of the last 60 seconds |
| `transfer`, `received` | `settle_txns`, and the payments recorded against each |
| `role` | `members.role` and `is_active` |
| `req` | what each request in flight has read |

Balances are folds over these, as in the code.  All split strategies come down to
weights (fixed amounts are weights that add up to the amount).  Ratios, shares and fixed
amounts are checked for negative numbers and percentages are not, only that they total
100 (`Shareable`); `Storable` is the CHECK constraint on a share, which fails the whole
request.  `Money` has the largest
remainder method, which bills, charges and settlements use too.  It cuts off towards zero
as `int()` does, and takes nothing back where negative weights made that too much.  Where fractions tie, the order of the participants and the error of a
float decide in the code, and any choice is allowed here.  `Simplify` is the greedy loop
of `domain/settle.py`, written as a recursive function.  With one request slot the model
is the system without overlap; with two it has the races.

Left out: payments to the house, months other than one, unequal rent shares, templates and
recurring expenses, event log, notifications.

### Outbox

`outbox`, `to` and `feed` are the rows of `notification_outbox` and `notifications`;
`devices` and `legacy` the two tables of push targets; `batch` and `outcome` what the
dispatcher holds in memory between its three phases (`Claim`, `Deliver`, `Finalize`).
`LosePass` is a restart, or a last phase that rolls back.  The announcement helpers at
the end of `notifications.py` are one action, `Event`: each comes down to one row per
recipient, in the transaction of what it reports.  A channel's failure is swallowed by
the code, so a delivered job is always settled as sent; the retry branch is unreachable.

### Accounts

Signing up (with or without an invitation), changing an address, resending and
guessing codes, inviting and revoking, each a Load and a Commit.  The rows of
`otp_challenges` are `challenge`, with their age in place of four timestamps.  When a
code is verified, marking it makes the session dirty, and the next query flushes it:
the invitation, username and address are therefore checked again under the lock, and
belong to the Commit.  The challenge itself is not read again: the guess decides on the
row it has cached (finding 9).

### Sessions

Sign-ins (`signIn`) and requests that end sessions (`ending`) read the member's row,
compare passwords, and write later.  An ask for a reset (`asking`) reads what is open for
the address and supersedes that later; a resend and the trade of a code for a token
(`coding`) decide on the newest row they have read.  A cookie is what `login_session` stores, with a
ghost field for how often sessions had been ended when its row was read.  A `ticket`
is a `password_reset` challenge from mailing to token to use.

### Flat, Bills, Recurring, Settlements, Household

`Flat` is what the others share: roster, clock, request slots and the operations of
`services/members.py`.  `Bills`, `Recurring` and `Settlements` (with the ledger) extend
it by a component each; `Household` composes them.  The sweep confirms overdue bills
and generates recurring expenses in one transaction, and `OneInstance`, the unique
constraint on the month, takes the whole step with it if it is violated.  So does
`SharesStorable`: the splits are written outside the `try` that pauses a broken template,
and percentages such as 150 and -50 pass every check until the database refuses the share.  `agenda` is a
bound: each behaviour mixes the kinds of request in one set of `Agendas`.

Left out: types, months and notes of bills, amounts and strategies of templates (what is
kept of them is `storable`: whether the database takes their shares), the event logs, the
report.

### Proof modules

`M_proofs` extends `M` with its theorems; section 5 lists them.  `Complaints_proofs` has those of
`ComplaintsSerial` too, and `Expenses_proofs` and `Household_proofs` extend `Money_proofs`,
which has the laws of sums and splits.

### MC modules

The `MC` modules only define values for the constants and symmetries.  Symmetry is used
only where no liveness is checked.

## 3. The runs

| run | checks | states | shows |
|---|---|---|---|
| `ComplaintsRaces` | TypeOK, ObligationIffRegistered, PaidIsRegistered, UpheldByNeutral, DebtIsForever | 0.84 M | with two overlapping requests, members joining and leaving, and all windows running, debts and verdicts stay right |
| `ComplaintsConclude` | Concludes (liveness) | 18 k | if only the sweep and the clock act for sure, every complaint ends |
| `ComplaintsSerial` | PaidAlias, NoLiveDuplicate, VerdictMatchesBallots, FollowsLifecycle, EarlyCloseHeardEveryone | 1.0 M | without overlap the code keeps its documented promises and implements `ComplaintLifecycle` |
| `Proposals` | TypeOK, FollowsLifecycle | 0.92 M | the optimistic lock makes `Proposals` implement `ProposalLifecycle` |
| `ProposalsClose` | DueVotesClose (liveness) | 0.14 M | due votes close, if no draft was edited to a negative amount |
| `ExpensesRaces` | TypeOK, NeverShort | 0.23 M | with two overlapping requests and changing roles, transfers never claim money that was not recorded |
| `ExpensesSerial` | SharesFollowWeights, SettleSquares, FollowsPlan | 0.90 M | without overlap no rupee is lost in a split (and none made, unless a percentage is negative), the simplifier squares everybody, and transfers implement `TransferPlan` |
| `SettleAfterRemoval` | StaysSettleable violated | | finding 1 |
| `Household` | TypeOK, AdminRemains, PaidOnlyOnceConfirmed, EveryRupeeAccounted, CountedOnce; BillsDecided, NeverPassedOver (liveness) | 0.38 M | a request overlapping changes of the roster, payments and the sweep loses no rupee, counts no fine twice, and the sweep decides every bill and serves every month, except while a template with shares the database refuses holds it up |
| `Outbox` | TypeOK, SettledInOrder, RedeliveredOnlyAfterFailure, ImplementsDelivery, OnlyDeadTokensPruned; EverythingIsSent (liveness) | 0.15 M | with passes lost anywhere, `Outbox` implements `Delivery` and sends everything |
| `Accounts` | TypeOK, EmailsUnique, InviteAdmitsOne, ClosedForGood | 0.68 M | with two overlapping requests, addresses stay unique, an invitation admits one, the rows of dead codes stay closed |
| `Sessions` | TypeOK, SignedOutStaysOut, MissesCounted, OneWayIn | 2.7 M | a sign-in that overlaps a password change, reset or sign-out everywhere leaves no old cookie alive and forgets no wrong password; a second reset closes the first, whatever resend, trade or redemption is in flight |

### Bounds, and why they are enough

* `Requests` of complaints, proposals and expenses: two slots.  Every race found is between two requests, or a request and
  the sweep; a slot is reused without limit, so runs are of any length.
* `Fines`: one where the property is about one fine (fines share only the daily limit,
  the duplicate guard and the use count); two where it relates two.
* `Members`: an accuser, an accused, and two neutral members, one of whom joins late in
  `ComplaintsRaces`: ties, empty electorates, votes of members who left, early closes
  all occur.  The theorems lift the bound.
* `Passing` names the windows that may run out in a run; a window not in it stays
  running, which only removes behaviour irrelevant to the property.
* `MaxVersions` bounds how many versions rollbacks add.  `Rules` has one free id, as
  many as a run has proposals of new rules that can be merged.
* `Moving` names the members whose role may change.
* `MaxExpenses`, `MaxPlanned` and `MaxSent` bound the rows of `Expenses`.  Two expenses of
  three people make the simplifier meet chains and stars of debts; one transfer of two
  rupees is enough for part payments that overlap; amounts of one to four rupees give
  unequal fractions, ties and sharers who owe nothing.  One cost has negative percentages
  whose shares are stored, one those the database refuses.
* `Accounts`: one mailbox, one invitation, two newcomers and a member who all want them;
  two challenges, so one supersedes the other; one guess, so its exhaustion is reached.
* `Sessions`: one account, since nothing relates two; three passwords, two misses to the
  lock, two bumps, two reset tickets.  One slot each for sign-ins, requests that end
  sessions, asks for a reset, and resends or trades: any of them overlap, two of a kind do
  not (see finding 7 for those).
* `Outbox`: three jobs in batches of two, so a batch is full, a second follows, and rows
  arrive while one is out; two lost passes; one token that changes hands.
* `Household`: two people, of whom each can be demoted or leave; one slot for a request and
  one for changes of the roster, so that tenants change between a read and its write; a
  total of three rupees for two; a template to serve, one nobody pays for and one whose
  shares cannot be stored; two months; two settlements, two fines; `MaxNow` leaves
  room for every window to close.

Deadlock checking is off in every run: the flat may fall silent (all ids used, all
windows passed), which is no error of the program.

### Fairness

Weak fairness of the sweep: `_sweep_loop` runs for ever and catches every exception
("One bad pass never kills the loop"), and so does `_notify_dispatch_loop` (`Dispatcher`);
how often a pass is lost is bounded.  Weak fairness of `Elapse` and `Tick`: time passes.  Nothing
is assumed of members: nobody has to answer, vote, pay, or finish a request.

## 4. Findings

1. **Settling up after a removal** (`SettleAfterRemoval`, a run of the project).  Balances
   are computed for active tenants only.  An expense is stored, a tenant who shared it owes,
   nothing is in flight; then the tenant is removed, or becomes a guest, which no code ties
   to a settled balance.  What is left does not sum to zero, and the simplifier refuses it,
   against "always sums to zero across members".

The next eight (2 to 6, 8 to 10) have a configuration here that shows them (`tlc -config X.cfg M`,
which ends with the counterexample), and are not among the runs of `PROJECT.json`:

2. **A stale accept un-pays a fine** (`PaidAliasRace.cfg`, `MCComplaints`).  `accept` decides
   on the row it read before the lock.  If the fine is accepted and paid meanwhile, it writes
   `payment_status = owed` over it and leaves `paid` set, against `fine.py`'s "`paid` is
   kept in sync as a derived alias".
3. **Ballots after the close** (`BallotRace.cfg`, `MCProposals`).  A ballot does not touch the
   versioned row.
4. **The version history drifts from the rule** (`RuleBookDrift.cfg`, `MCProposals`).  A change
   merged after a removal of the same rule records an active version of an inactive rule.
5. **A poisoned sweep** (`PoisonedSweep.cfg`, `MCProposals`).  `update` has none of `create`'s
   checks; a negative amount reaches the merge, which the database refuses, in every pass
   from then on.
6. **A late payment is in no pot** (`LateFine.cfg`, `MCHousehold`).  `paid_pot_in_period` goes by
   the time a fine was registered.  One that is registered in one period and paid after its
   close is counted neither then nor later, against `settlements.py`'s "the fine pot
   collected since the last settlement is applied".

7. **Promises that hold without overlap** and fail when two requests of the same kind are in
   flight, for the same reason as finding 2.  To see one, check the property in the
   configuration named with the change given:
   * `NoLiveDuplicate` (`ComplaintsRaces`, `Fines = {f1, f2}`, `Rules = {litter}`,
     `Forms <- LitterForm`, `DuplicateWindow = TRUE`): the duplicate guard of a complaint is a query
     before the insert, and so is the one of a direct payment in `Expenses`.
   * `FollowsPlan` (`ExpensesSerial`, `Requests = {q1, q2}`): of two overlapping part payments
     both are recorded as money, but the running total shows one.
   * `SharesFollowWeights` (the same): of two overlapping edits the one that leaves the amount as it read it does
     not write it, yet replaces the splits.
   * `SettleSquares` (`ExpensesSerial`, `Requests = {q1, q2}`): a settle-up works on balances read
     before the lock; an expense or payment recorded meanwhile is not in them.
   * `AdminRemains` (`Household`, `RosterSlots = {r2, r3}`): two administrators who demote
     each other leave none.
   * `CountedOnce` (`Household`, `Requests = {r1, r3}`): two closings of one period count its
     fines, and pay them out, twice.
   * `MissesCounted` (`Sessions`, `SignIns = {s1, s2}`): two wrong passwords count once.
   * `OneWayIn` (`Sessions`, `Asks = {a1, a2}`): two asks for a reset of one address both read
     what is open before either adds its own, and leave two codes open.
   * `SignedOutStaysOut` (`Sessions`, `Endings = {e1, e2}`): two overlapping password changes
     raise the version to the same number, so the cookie set by the first outlives the second;
     a third, slow one can lower it again, and cookies signed out long ago come back.
   * The rent of a month can exceed its target, against the head of `rent.py`: two overlapping
     payments, or an expense entered or edited with the category rent, which no code checks.

8. **Percentages below zero** (`NegativePercentage.cfg`, `MCExpenses`).  Only their total is
   checked.  One rupee split 200, -50 and -50 is stored as 2, 0 and 0: the negative shares are
   cut off to nought and nothing is taken back, against `money.py`'s "the parts sum to exactly
   `total`" and `splits.py`'s "owed amounts that sum to *exactly* the total".  The balances
   then do not cancel either.
9. **A dead code still opens** (`DeadCode.cfg`, `MCAccounts`).  `verify` decides on the row it
   read.  A code that is superseded, or spent by another request, before that guess commits
   completes a signup or an address change all the same, against the head of `otp.py`: "one-time
   use (`consumed_at`)", "an old code dies the moment a new one is sent".  What has to be unique
   is checked again under the lock, so the two do not share an address or an invitation.
10. **A template that blocks the sweep** (`PoisonedTemplate.cfg`, `MCHousehold`).  Percentages
   such as 150 and -50 pass `create_template`.  The share below zero is refused by the database
   when the sweep generates the expense, outside the `try` that would pause it: every pass is
   rolled back for ever, bills stay undecided, and the template is neither generated nor paused,
   against "Never silently skip a broken template".

And one branch is never taken: `_deliver_job` swallows what a channel raises, so the retry and
the dead letter of `mark_retry` ("a whole-job failure -> retry with backoff") cannot happen.

## 5. What is proved

Each theorem holds for every value of the constants: any number of members, rows and
requests in flight, any amounts, any setting; from the named `ASSUME`s of its module and
nothing else.  Every safety property that a passing run checks is the subject of one.  A
bound such as `MaxSent` is a constant like any other.

### No hypothesis on overlaps

| module | theorems | inductive invariant |
|---|---|---|
| `Complaints_proofs` | `TypeCorrect`, `DebtCorrect`, `PaidCorrect`, `DebtPersists` | `DebtInv` |
| | `VerdictCorrect` | `VerdictInv` |
| | `PaidAliasCorrect`, `VerdictIsFinal`, `EarlyCloseIsFair`, `NoDuplicates`, `ComplaintsFollowLifecycle` (of `ComplaintsSerial`) | `SerialInv` |
| `Proposals_proofs` | `ProposalTypes`, `ProposalsFollowLifecycle` | `TypeInv` |
| `Outbox_proofs` | `OutboxTypes`, `InOrder`, `RedeliveryBounded`, `PruningIsJustified`, `OutboxImplementsDelivery` | `QueueInv` |
| `Accounts_proofs` | `AccountTypes`, `OneMemberPerEmail`, `OneMemberPerInvite`, `ClosedChallengesStay` | `TypeInv` |
| `Sessions_proofs` | `SessionTypes` | `TypeOK` |
| `Expenses_proofs` | `ExpenseTypes`, `TransfersNeverShort` | `MoneyInv` |
| `Household_proofs` | `HouseholdTypes`, `RupeesAccounted`, `PaidWasConfirmed` | `HouseholdInv` |
| `Money_proofs` | `SplitAddsUp`, `SplitNeverShort`, `SplitIsFair`, `SplitExists`, `RatioSplitAddsUp` | about operators |

### With a hypothesis

Some properties are false when two requests of one kind overlap: that is findings 2 and 7.
Their theorems say exactly which requests must not.  Such a hypothesis is about what is in
flight, lets everything else overlap, and is true of the run that checks the property,
which has one slot for those requests.  Without it there is the counterexample of finding 7.
Two hypotheses are about something else: `LeaversSquare` (without it, finding 1) and
`NoneNegative`, that no live expense has a negative weight (without it, finding 8).  No theorem
assumes that the inputs are not negative: the constants allow every weight the code does.

| theorem | hypothesis | invariant |
|---|---|---|
| `SessionsEnd` (`SignedOutStaysOut`) | `EndingsApart`: no two requests that end the sessions of one member | `SessionInv` |
| `OneReset` (`OneWayIn`) | `AsksApart`: no two asks that supersede the codes of one address | `OneWayInv` |
| `MissesStay` (`MissesCounted`) | `SignInsApart`: no two sign-ins of one member | `MissInv` |
| `AdminStays` (`AdminRemains`) | `RosterApart`: no two changes of the roster | `AdminInv` |
| `FinesCountedOnce` (`CountedOnce`) | `ClosingsApart`: no two closings of a period | `CloseInv` |
| `SharesAreFair` (`SharesFollowWeights`) | `EditsApart`: no two edits of one expense | `SplitInv` |
| `BalancesAlwaysCancel` | `EditsApart`, and `NoneNegative` | `SplitInv` |
| `TransfersFollowPlan` (`FollowsPlan`) | `PaymentsApart`: no two payments or call-offs of one transfer | `PlanInv` |
| `ClosingSquares` (`SettleSquares`) | `ClosesApart`: with a close, nothing that moves a balance | `CloseInv` |
| `SettleableUnlessLeft` (`AlwaysSettleable`) | `EditsApart`, `NoneNegative`, and `LeaversSquare`: nobody leaves the tenants with a balance open | `SplitInv` |

`OneRequestAtATime` says that serial use grants the hypotheses of `Expenses` on overlaps; that
balances cancel keeps `NoneNegative` as its condition.
`SettleableUnlessLeft` is the other half of findings 1 and 8: the docstring's "always sums to
zero across members" is true except for what they and overlapping edits show.

### Why the invariants are what they are

*Debts.*  `ObligationIffRegistered` is not inductive: a commit decides on a cached row,
and a cached debt that had vanished would register a fine without one.  `DebtInv` adds
`SeenDebtsExist`: a row that was cached with a debt still has one.  It holds because no
step takes a debt away, and no step does because the CHECK constraint refuses every
write that would leave a debt on an unregistered fine, which is just what a stale
dispute or verdict attempts.  The constraint never mentions `paid`; `PaidIsRegistered`
follows since a payment needs a debt.

*Verdicts.*  `UpheldByNeutral` needs that every ballot on file is neutral
(`BallotsAreNeutral`, which in turn needs that vote requests in flight are), that
ballots stay, and that `form` never changes once a fine is filed.  A strict majority of
ballots to uphold then contains a neutral one.  `SerialInv` adds that nobody has voted
on what is not disputed yet.  The theorems of `ComplaintsSerial` assume no overlap, since that
module has none; `NoDuplicates` also assumes that the setting `DuplicateWindow` is on.

*Proposals.*  As long as the row a request holds is not stale, the proposal is in a status
that allows the request (`Fits`); whoever writes the row makes the rows of all others
stale.  So of two racing resolutions the second is refused, and each commit that goes
through is a step of the diagram.

*Outbox.*  What is settled is a prefix of what was posted, and the batch in hand lies just
beyond it (`Position`).  Order, redelivery and the refinement of `Delivery` follow: a
lost pass puts the log back to that prefix.

*Accounts, sessions.*  What a request read before the lock may be out of date; its commit
tests again what it relies on.  `SessionInv` says that versions and sign-outs of rows,
cookies and requests count together, so an old cookie has an old version.  `MissInv` says
that what a sign-in read is no less than the misses there were.  `OneWayInv` says that what an ask
in flight is going to supersede is still all that is open for its address (`AllRead`): trades and
resends only work on what is open, and nothing that was consumed comes back.

*Household.*  The inputs of a close or a bill were read before the lock, and whatever the
roster did since, they add up among themselves: the theorem on splits says so at the
moment of writing.  The sweep's loop over bills and plans is a set of independent rows.
`PeriodsInOrder` makes the periods of settlements disjoint.

*Expenses.*  The row a payment has cached may show less paid than was recorded since,
never more (`PaysFor`); that is enough for `NeverShort`.  With `EditsApart` and `PaymentsApart`
the cached row is the current one.  `ClosesCurrent` says that the plan of a close is the
simplifier's, for the balances as they are.

*Conservation.*  What members fronted and what they used are the row and column sums of
tables over expenses and members (`TotalSwap`): the columns are balances, the rows are
expenses, and each row adds up to the amount by `SplitAddsUp`, which is where negative weights
must be excluded; of those `SplitNeverShort` says that the shares cover the amount.

### How folds and recursion are reasoned about

The library's induction theorems take an operator as a parameter, which is out of the
provers' reach here.  What is used instead is that the naturals are well-founded
(`LeastNumber`), applied to a set: of the subsets on which a law of `Total` fails one is
smallest (`SmallestSubset`), and taking an element out of it gives the contradiction.  The
first law is that the fold's recursive function exists (`PartialDef`): functions on the
subsets of up to n elements exist for every n and agree.  The simplifier, a recursive
function on balances, is treated in the same way, by how many are not yet square
(`PlanOfIs`); that each transfer makes somebody square (`FewerUnsettled`) is also why
there are fewer transfers than people.  So nothing about sums or the simplifier is left to TLC.

Each action has a step of its own under the lemma that an invariant is preserved;
facts used by several are lemmas.

### Only model-checked

* Liveness: `Concludes`, `DueVotesClose`, `EverythingIsSent`, `BillsDecided`, `NeverPassedOver`.  The
  sweep's are about passes that commit, so not about a flat with the poison of finding 5 or 10;
  `BillsDecided` and `NeverPassedOver` except that of finding 10 themselves.  The
  prover reasons neither about fairness (ENABLED) nor about leads-to over steps.
* The findings, which are counterexamples.
* That the bounds are reached and the mutants are caught.

## 6. Plan

Every module of the plan is written, checked and proved about.  What would say more:

1. The promises of finding 7 again with the hypotheses as guards, as a specification of
   the locks that would grant them: which row each handler has to read under the lock.
2. The events that `Household` leaves out (bill and template notices) as posts of `Outbox`,
   so that "whoever is affected is told" can be stated across the two.
3. Proposals: that ballots close with the vote, which `BallotRace.cfg` refutes, for
   ballots that do not overlap the close.

## 7. Not modelled

Money overview and reports only read.  NFC and location read single independent rows.
Mail, storage, templates and UPI links are input and output or formatting.  Password hashing,
the signing of cookies, the hourly cap on codes, rate limiting and request sizes guard the
door and do not change the state modelled here; the rate limiter's counters live in one
process and nothing else reads them.  Migrations, seeds and the admin command are operator
tooling.
