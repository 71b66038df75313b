------------------------------- MODULE Outbox -------------------------------
(***************************************************************************)
(* Notifications: the in-app feed, the outbox written in the transaction   *)
(* of the event it reports, and the dispatcher that drains it.             *)
(*                                                                         *)
(* dispatch_outbox works in three phases.  It claims a batch and reads the *)
(* targets of its recipients in one session, sends with no session open,   *)
(* and settles the batch in another session; requests run in between.  A   *)
(* crash, or a transaction that fails in the last phase, forgets the batch *)
(* and what became of it; the rows are still pending.                      *)
(***************************************************************************)
EXTENDS Integers, Sequences, FiniteSets, Functions

CONSTANTS
  Members,      \* recipients
  MaxJobs,      \* how many rows the outbox can hold (bound)
  Audiences,    \* whom one event notifies: sequences of members
  Tokens,       \* push endpoints and device tokens
  BatchLimit,   \* dispatch_outbox's limit (25)
  MaxFailures,  \* how many passes may be lost (bound)
  None

\* Row ids: SQLite hands them out under the write lock, so a row with a
\* smaller id was committed earlier.
Jobs == 1 .. MaxJobs

ASSUME BoundsAssumption == /\ MaxJobs \in Nat /\ MaxFailures \in Nat
                           /\ BatchLimit \in Nat \ {0}
ASSUME NoneAssumption   == None \notin Members
ASSUME AudienceAssumption == Audiences \subseteq Seq(Members)

VARIABLES
  outbox,   \* notification_outbox.status
  to,       \* notification_outbox.member_id
  feed,     \* notifications.read, "absent" before the row is written
  devices,  \* devices.member_id of each token, None if there is no row
  legacy,   \* push_subscriptions.member_id of each token
  gone,     \* tokens the push services no longer know
  batch,    \* phase B: the claimed jobs, and the targets read for each
  outcome,  \* phase B: the jobs sent so far, and the dead tokens of each
  handed,   \* history: how often each job was sent
  failures  \* history: how many passes were lost

queue    == <<outbox, to, feed>>
targets  == <<devices, legacy>>
pass     == <<batch, outcome, handed, failures>>
vars     == <<queue, targets, gone, pass>>

Nobody == [j \in {} |-> {}]

Pending == {j \in Jobs : outbox[j] = "pending"}

\* Mutant: the newest rows are taken first.
Newest(S, n) == {j \in S : Cardinality({i \in S : i > j}) < n}

Oldest(S, n) == {j \in S : Cardinality({i \in S : i < j}) < n}

\* Mutant: the limit is applied before the settled rows are filtered out.
ClaimWindow == Oldest({j \in Jobs : outbox[j] # "absent"}, BatchLimit) \cap Pending

\* Every pending row is due: next_attempt_at is the moment it was enqueued.
ClaimBatch == Oldest(Pending, BatchLimit)

\* Both tables are asked; a token can stand in both, under two members.
TargetsOf(m) == {t \in Tokens : m \in {devices[t], legacy[t]}}

-----------------------------------------------------------------------------
(* Requests and the outside world.                                         *)

\* notify_members: one feed row and one outbox row for each recipient, in
\* the transaction of the event.
Notify(list) ==
  LET before == Cardinality({j \in Jobs : outbox[j] # "absent"})
      new(j) == j \in before + 1 .. before + Len(list) IN
  /\ before + Len(list) <= MaxJobs
  /\ outbox' = [j \in Jobs |-> IF new(j) THEN "pending" ELSE outbox[j]]
  /\ feed'   = [j \in Jobs |-> IF new(j) THEN "unread" ELSE feed[j]]
  /\ to'     = [j \in Jobs |-> IF new(j) THEN list[j - before] ELSE to[j]]
  /\ UNCHANGED <<targets, gone, pass>>

MarkRead(m, j) ==
  /\ to[j] = m
  /\ feed[j] = "unread"
  /\ feed' = [feed EXCEPT ![j] = "read"]
  /\ UNCHANGED <<outbox, to, targets, gone, pass>>

MarkAllRead(m) ==
  /\ \E j \in Jobs : to[j] = m /\ feed[j] = "unread"
  /\ feed' = [j \in Jobs |-> IF to[j] = m THEN "read" ELSE feed[j]]
  /\ UNCHANGED <<outbox, to, targets, gone, pass>>

\* Registering a known token re-points it; the legacy table is not touched.
Subscribe(m, t) ==
  /\ devices' = [devices EXCEPT ![t] = m]
  /\ UNCHANGED <<queue, legacy, gone, pass>>

Unsubscribe(t) ==
  /\ devices' = [devices EXCEPT ![t] = None]
  /\ legacy'  = [legacy EXCEPT ![t] = None]
  /\ UNCHANGED <<queue, gone, pass>>

\* The push service forgets a token for good.
Expire(t) ==
  /\ gone' = gone \cup {t}
  /\ UNCHANGED <<queue, targets, pass>>

-----------------------------------------------------------------------------
(* The dispatcher: a single sequential task.                               *)

\* Mutant: the rows are settled as they are claimed, before the send.
ClaimAsSent ==
  /\ batch = Nobody
  /\ ClaimBatch # {}
  /\ batch' = [j \in ClaimBatch |-> TargetsOf(to[j])]
  /\ outbox' = [j \in Jobs |-> IF j \in ClaimBatch THEN "sent" ELSE outbox[j]]
  /\ UNCHANGED <<to, feed, targets, gone, outcome, handed, failures>>

Claim ==
  /\ batch = Nobody
  /\ ClaimBatch # {}
  /\ batch' = [j \in ClaimBatch |-> TargetsOf(to[j])]
  /\ UNCHANGED <<queue, targets, gone, outcome, handed, failures>>

\* Mutant: whatever a send failed on is taken for dead.
DeadOrFailed(j) == SUBSET batch[j]

\* The targets that a push service answers 404, 410 or (FCM) 403 for; any
\* other failure of a channel is logged and swallowed.
Dead(j) == SUBSET (batch[j] \cap gone)

\* Mutant: a send that met a dead token is not counted as done.
SentUnlessDead == {j \in DOMAIN outcome : outcome[j] = {}}

\* The jobs that phase C marks sent.
Sent == DOMAIN outcome

\* _deliver_job: the oldest claimed job goes out on every channel.
Deliver ==
  \E j \in Oldest(DOMAIN batch \ DOMAIN outcome, 1) :
    /\ \E dead \in Dead(j) :
         outcome' = [i \in DOMAIN outcome \cup {j} |-> IF i = j THEN dead ELSE outcome[i]]
    /\ handed'  = [handed EXCEPT ![j] = @ + 1]
    /\ UNCHANGED <<queue, targets, gone, batch, failures>>

\* Phase C settles the batch and prunes the dead tokens from both tables,
\* whoever they belong to by now.
Finalize ==
  LET dead == UNION Range(outcome) IN
  /\ batch # Nobody
  /\ DOMAIN outcome = DOMAIN batch
  /\ outbox'  = [j \in Jobs |-> IF j \in Sent THEN "sent" ELSE outbox[j]]
  /\ devices' = [t \in Tokens |-> IF t \in dead THEN None ELSE devices[t]]
  /\ legacy'  = [t \in Tokens |-> IF t \in dead THEN None ELSE legacy[t]]
  /\ batch'   = Nobody
  /\ outcome' = Nobody
  /\ UNCHANGED <<to, feed, gone, handed, failures>>

\* Mutant: the results of the lost pass are kept for the next one.
LosePassHalf ==
  /\ batch # Nobody
  /\ failures < MaxFailures
  /\ failures' = failures + 1
  /\ batch'    = Nobody
  /\ UNCHANGED <<queue, targets, gone, outcome, handed>>

\* A restart, or phase C rolled back: the loop starts again from the table.
LosePass ==
  /\ batch # Nobody
  /\ failures < MaxFailures
  /\ failures' = failures + 1
  /\ batch'    = Nobody
  /\ outcome'  = Nobody
  /\ UNCHANGED <<queue, targets, gone, handed>>

-----------------------------------------------------------------------------
Init ==
  /\ outbox   = [j \in Jobs |-> "absent"]
  /\ to       = [j \in Jobs |-> None]
  /\ feed     = [j \in Jobs |-> "absent"]
  /\ devices  = [t \in Tokens |-> None]
  /\ legacy   \in [Tokens -> Members \cup {None}]
  /\ gone     = {}
  /\ batch    = Nobody
  /\ outcome  = Nobody
  /\ handed   = [j \in Jobs |-> 0]
  /\ failures = 0

\* Whatever happens in the flat is told to the members it concerns.
Event == \E list \in Audiences : Notify(list)

Users ==
  \/ Event
  \/ \E m \in Members, j \in Jobs : MarkRead(m, j)
  \/ \E m \in Members : MarkAllRead(m)
  \/ \E m \in Members, t \in Tokens : Subscribe(m, t)
  \/ \E t \in Tokens : Unsubscribe(t) \/ Expire(t)

Dispatcher == Claim \/ Deliver \/ Finalize

Next == Users \/ Dispatcher \/ LosePass

\* "One bad pass never kills the loop": the dispatcher always goes on.
Spec == Init /\ [][Next]_vars /\ WF_vars(Dispatcher)

-----------------------------------------------------------------------------
(* Properties.                                                             *)

Claims == UNION {[S -> SUBSET Tokens] : S \in SUBSET Jobs}

\* Every variable holds what the columns and the dispatcher can hold.
TypeOK ==
  /\ outbox   \in [Jobs -> {"absent", "pending", "sent"}]
  /\ to       \in [Jobs -> Members \cup {None}]
  /\ feed     \in [Jobs -> {"absent", "unread", "read"}]
  /\ devices  \in [Tokens -> Members \cup {None}]
  /\ legacy   \in [Tokens -> Members \cup {None}]
  /\ gone     \subseteq Tokens
  /\ batch    \in Claims
  /\ outcome  \in Claims
  /\ DOMAIN outcome \subseteq DOMAIN batch
  /\ handed   \in [Jobs -> Nat]
  /\ failures \in 0 .. MaxFailures

Count(state) == Cardinality({j \in Jobs : outbox[j] = state})

\* The outbox implements the log of Delivery: however passes are lost,
\* nothing is skipped, overtaken or settled without having been sent.
Log == INSTANCE Delivery WITH
         posted <- MaxJobs - Count("absent"),
         cursor <- Count("sent") + Cardinality(DOMAIN outcome),
         saved  <- Count("sent")

ImplementsDelivery == Log!Spec

\* A message is settled only after every older one, and a row the
\* dispatcher is working on is never one it has already settled.
SettledInOrder ==
  /\ \A i, j \in Jobs : i < j /\ outbox[j] = "sent" => outbox[i] = "sent"
  /\ \A j \in DOMAIN batch : outbox[j] = "pending"

\* A message goes out again only because a pass was lost: at most once for
\* each crash or failed transaction ("at-least-once redelivery").
RedeliveredOnlyAfterFailure == \A j \in Jobs : handed[j] <= 1 + failures

Withdrawn(t) == \/ devices[t] # None /\ devices'[t] = None
                \/ legacy[t] # None /\ legacy'[t] = None

\* Only a token its push service has given up, or one its user withdrew,
\* stops being a target: a failing network unregisters nobody.
OnlyDeadTokensPruned ==
  [][\A t \in Tokens : Withdrawn(t) => t \in gone \/ Unsubscribe(t)]_vars

\* Whatever is posted is sent, in spite of lost passes and new messages
\* arriving all the time.
EverythingIsSent == \A j \in Jobs : outbox[j] = "pending" ~> outbox[j] = "sent"
=============================================================================
