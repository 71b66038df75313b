---------------------------- MODULE Outbox_proofs ----------------------------
(***************************************************************************)
(* Theorems about Outbox, for every number of members, rows, tokens and    *)
(* lost passes, every batch limit, and every way events address members.   *)
(***************************************************************************)
EXTENDS Outbox, FiniteSetTheorems, TLAPS

-----------------------------------------------------------------------------
(* The queue is three stretches of row ids.                                *)

\* Rows up to s are sent, up to p posted; the dispatcher has claimed the
\* pending ones up to b and sent those up to d.
Shape(s, p, b, d) ==
  /\ 0 <= s /\ s <= d /\ d <= b /\ b <= p /\ p <= MaxJobs
  /\ \A j \in Jobs : /\ outbox[j] = "sent" <=> j <= s
                     /\ outbox[j] = "absent" <=> j > p
  /\ DOMAIN batch = s + 1 .. b
  /\ DOMAIN outcome = s + 1 .. d

\* A row has been handed out at most once more than passes were lost, and the
\* one more only if it has gone out in this pass or is settled.
HandedBy(d) ==
  \A j \in Jobs : /\ handed[j] <= failures + 1
                  /\ j > d => handed[j] <= failures

Position == \E s, p, b, d \in 0 .. MaxJobs : Shape(s, p, b, d) /\ HandedBy(d)

LEMMA Bounds == MaxJobs \in Nat /\ MaxFailures \in Nat /\ BatchLimit \in Nat \ {0}
  BY BoundsAssumption

LEMMA JobIds == /\ IsFiniteSet(Jobs) /\ Cardinality(Jobs) = MaxJobs
                /\ \A j : j \in Jobs <=> j \in Int /\ 1 <= j /\ j <= MaxJobs
  BY Bounds, FS_Interval DEF Jobs

\* The size of a stretch that may be empty.
LEMMA StretchSize ==
  ASSUME NEW a \in Int, NEW b \in Int, a <= b + 1, NEW c, c = b - a + 1
  PROVE  Cardinality(a .. b) = c
<1>1. Cardinality(a .. b) = IF a > b THEN 0 ELSE b - a + 1
  BY FS_Interval
<1>2. CASE a > b
  BY <1>1, <1>2
<1>3. CASE ~ (a > b)
  BY <1>1, <1>3
<1> QED
  BY <1>2, <1>3

\* The n oldest rows of a stretch are its first n.
LEMMA OldestOfStretch ==
  ASSUME NEW a \in Int, NEW b \in Int, NEW n \in Nat
  PROVE  Oldest(a .. b, n) = {j \in a .. b : j < a + n}
<1>1. ASSUME NEW j \in a .. b
      PROVE  Cardinality({i \in a .. b : i < j}) = j - a
  <2>1. {i \in a .. b : i < j} = a .. (j - 1)
    OBVIOUS
  <2>2. Cardinality(a .. (j - 1)) = j - a
    <3> DEFINE h == j - 1
    <3>1. h \in Int /\ a <= h + 1 /\ j - a = h - a + 1
      OBVIOUS
    <3> HIDE DEF h
    <3>2. Cardinality(a .. h) = j - a
      BY <3>1, StretchSize
    <3> QED
      BY <3>2 DEF h
  <2> QED
    BY <2>1, <2>2, Zenon
<1>2. \A j \in a .. b : Cardinality({i \in a .. b : i < j}) < n <=> j < a + n
  BY <1>1
<1> QED
  BY <1>2 DEF Oldest

\* A stretch after row i, up to row k.
LEMMA StretchAfter ==
  ASSUME NEW i \in 0 .. MaxJobs, NEW k \in 0 .. MaxJobs, i <= k
  PROVE  Cardinality(i + 1 .. k) = k - i
<1> DEFINE a == i + 1
<1>1. a \in Int /\ k \in Int /\ a <= k + 1 /\ k - i = k - a + 1
  BY Bounds
<1> HIDE DEF a
<1>2. Cardinality(a .. k) = k - i
  BY <1>1, StretchSize
<1> QED
  BY <1>2 DEF a

\* What the stretches say of the sets that the code asks for.
LEMMA ShapeSets ==
  ASSUME NEW s \in 0 .. MaxJobs, NEW p \in 0 .. MaxJobs, s <= p,
         NEW box \in [Jobs -> {"absent", "pending", "sent"}],
         \A j \in Jobs : /\ box[j] = "sent" <=> j <= s
                         /\ box[j] = "absent" <=> j > p
  PROVE  /\ {j \in Jobs : box[j] = "pending"} = s + 1 .. p
         /\ {j \in Jobs : box[j] = "sent"} = 1 .. s
         /\ {j \in Jobs : box[j] = "absent"} = p + 1 .. MaxJobs
         /\ {j \in Jobs : box[j] # "absent"} = 1 .. p
<1>1. {j \in Jobs : box[j] = "sent"} = 1 .. s
  BY JobIds, Bounds
<1>2. {j \in Jobs : box[j] = "absent"} = p + 1 .. MaxJobs
  BY JobIds, Bounds
<1>3. {j \in Jobs : box[j] # "absent"} = 1 .. p
  BY JobIds, Bounds
<1>4. {j \in Jobs : box[j] = "pending"} = s + 1 .. p
  <2>1. \A j \in Jobs : box[j] = "pending" <=> j > s /\ j <= p
    BY JobIds, Bounds
  <2>2. {j \in Jobs : j > s /\ j <= p} = s + 1 .. p
    BY JobIds, Bounds
  <2> QED
    BY <2>1, <2>2
<1> QED
  BY <1>1, <1>2, <1>3, <1>4

-----------------------------------------------------------------------------
(* Types.                                                                  *)

LEMMA ClaimsMember ==
  ASSUME NEW S \in SUBSET Jobs, NEW f \in [S -> SUBSET Tokens]
  PROVE  f \in Claims
  BY DEF Claims

LEMMA ClaimsElement ==
  ASSUME NEW f \in Claims
  PROVE  DOMAIN f \in SUBSET Jobs /\ f \in [DOMAIN f -> SUBSET Tokens]
  BY DEF Claims

LEMMA NobodyType == Nobody \in Claims /\ DOMAIN Nobody = {}
<1>1. DOMAIN Nobody = {} /\ Nobody \in [{} -> SUBSET Tokens]
  BY DEF Nobody
<1> QED
  BY <1>1, ClaimsMember

\* The rows of an event get the ids that follow the ones there are.
LEMMA NotifyType ==
  ASSUME TypeOK, NEW list \in Audiences, Notify(list)
  PROVE  TypeOK'
<1> DEFINE before == Cardinality({j \in Jobs : outbox[j] # "absent"})
<1>1. before \in Nat
  <2>1. IsFiniteSet({j \in Jobs : outbox[j] # "absent"})
    BY JobIds, FS_Subset
  <2> QED
    BY <2>1, FS_CardinalityType
<1>2. list \in Seq(Members)
  BY AudienceAssumption
<1>3. /\ outbox' = [j \in Jobs |-> IF j \in before + 1 .. before + Len(list) THEN "pending" ELSE outbox[j]]
      /\ feed'   = [j \in Jobs |-> IF j \in before + 1 .. before + Len(list) THEN "unread" ELSE feed[j]]
      /\ to'     = [j \in Jobs |-> IF j \in before + 1 .. before + Len(list) THEN list[j - before] ELSE to[j]]
      /\ UNCHANGED <<targets, gone, pass>>
  BY DEF Notify
<1> HIDE DEF before
<1>4. \A j \in Jobs : j \in before + 1 .. before + Len(list) => list[j - before] \in Members
  <2>1. \A i \in 1 .. Len(list) : list[i] \in Members
    BY <1>2
  <2> QED
    BY <1>1, <1>2, <2>1, JobIds
<1> QED
  BY <1>3, <1>4 DEF TypeOK, targets, pass

LEMMA DeliverType ==
  ASSUME TypeOK, Deliver
  PROVE  TypeOK'
<1>0. PICK j \in DOMAIN batch :
        /\ \E dead \in Dead(j) :
             outcome' = [i \in DOMAIN outcome \cup {j} |-> IF i = j THEN dead ELSE outcome[i]]
        /\ handed'  = [handed EXCEPT ![j] = @ + 1]
        /\ UNCHANGED <<queue, targets, gone, batch, failures>>
  BY DEF Deliver, Oldest
<1>1. PICK dead \in Dead(j) :
        outcome' = [i \in DOMAIN outcome \cup {j} |-> IF i = j THEN dead ELSE outcome[i]]
  BY <1>0
<1>2. /\ DOMAIN batch \in SUBSET Jobs /\ batch \in [DOMAIN batch -> SUBSET Tokens]
      /\ DOMAIN outcome \in SUBSET Jobs /\ outcome \in [DOMAIN outcome -> SUBSET Tokens]
  BY ClaimsElement DEF TypeOK
<1>3. outcome' \in [DOMAIN outcome \cup {j} -> SUBSET Tokens]
  BY <1>1, <1>2 DEF Dead
<1>4. outcome' \in Claims /\ DOMAIN outcome' = DOMAIN outcome \cup {j}
  BY <1>2, <1>3, ClaimsMember
<1>5. handed' \in [Jobs -> Nat]
  BY <1>0, <1>2 DEF TypeOK
<1> QED
  BY <1>0, <1>4, <1>5 DEF TypeOK, queue, targets

LEMMA TypeInductive == TypeOK /\ [Next]_vars => TypeOK'
<1> SUFFICES ASSUME TypeOK, [Next]_vars PROVE TypeOK'
  OBVIOUS
<1>1. ASSUME NEW m \in Members, NEW j \in Jobs, MarkRead(m, j) PROVE TypeOK'
  BY <1>1 DEF MarkRead, TypeOK, targets, pass
<1>2. ASSUME NEW m \in Members, MarkAllRead(m) PROVE TypeOK'
  BY <1>2 DEF MarkAllRead, TypeOK, targets, pass
<1>3. ASSUME NEW m \in Members, NEW t \in Tokens, Subscribe(m, t) PROVE TypeOK'
  BY <1>3 DEF Subscribe, TypeOK, queue, pass
<1>4. ASSUME NEW t \in Tokens, Unsubscribe(t) PROVE TypeOK'
  BY <1>4 DEF Unsubscribe, TypeOK, queue, pass
<1>5. ASSUME NEW t \in Tokens, Expire(t) PROVE TypeOK'
  BY <1>5 DEF Expire, TypeOK, queue, targets, pass
<1>6. ASSUME Claim PROVE TypeOK'
  <2>1. ClaimBatch \in SUBSET Jobs
    BY DEF ClaimBatch, Oldest, Pending
  <2>2. batch' \in [ClaimBatch -> SUBSET Tokens]
    BY <1>6 DEF Claim, TargetsOf
  <2>3. batch' \in Claims
    BY <2>1, <2>2, ClaimsMember
  <2>4. DOMAIN outcome = {}
    BY <1>6, NobodyType DEF Claim, TypeOK
  <2> QED
    BY <1>6, <2>3, <2>4 DEF Claim, TypeOK, queue, targets
<1>7. ASSUME Finalize PROVE TypeOK'
  BY <1>7, NobodyType DEF Finalize, TypeOK
<1>8. ASSUME LosePass PROVE TypeOK'
  BY <1>8, NobodyType, Bounds DEF LosePass, TypeOK, queue, targets
<1>9. CASE UNCHANGED vars
  BY <1>9 DEF vars, queue, targets, pass, TypeOK
<1> QED
  BY <1>1, <1>2, <1>3, <1>4, <1>5, <1>6, <1>7, <1>8, <1>9, NotifyType, DeliverType
     DEF Next, Users, Event, Dispatcher

LEMMA TypeInit == Init => TypeOK
  BY NobodyType, Bounds DEF Init, TypeOK

-----------------------------------------------------------------------------
(* How a step moves the stretches.                                         *)

\* From <<s, p, b, d>> to <<s2, p2, b2, d2>>: messages are posted, a batch is
\* claimed, its next row goes out, the batch is settled, or a pass is lost.
Moves(s, p, b, d, s2, p2, b2, d2) ==
  \/ /\ p <= p2 /\ <<s2, d2>> = <<s, d>>
     /\ UNCHANGED <<handed, failures>>
  \/ /\ d < p /\ <<s2, p2, d2>> = <<s, p, d + 1>>
     /\ handed' = [handed EXCEPT ![d + 1] = @ + 1]
     /\ failures' = failures
  \/ /\ <<s2, p2, d2>> = <<d, p, d>>
     /\ UNCHANGED <<handed, failures>>
  \/ /\ <<s2, p2, d2>> = <<s, p, s>>
     /\ handed' = handed
     /\ failures' = failures + 1

LEMMA ShapeMoves ==
  ASSUME TypeOK, [Next]_vars,
         NEW s \in 0 .. MaxJobs, NEW p \in 0 .. MaxJobs, NEW b \in 0 .. MaxJobs, NEW d \in 0 .. MaxJobs,
         Shape(s, p, b, d)
  PROVE  \E s2, p2, b2, d2 \in 0 .. MaxJobs :
           Shape(s2, p2, b2, d2)' /\ Moves(s, p, b, d, s2, p2, b2, d2)
<1> DEFINE Goal == \E s2, p2, b2, d2 \in 0 .. MaxJobs :
                     Shape(s2, p2, b2, d2)' /\ Moves(s, p, b, d, s2, p2, b2, d2)
<1>0. s <= d /\ d <= b /\ b <= p /\ s <= p
  BY DEF Shape
<1>1. Pending = s + 1 .. p /\ Cardinality({j \in Jobs : outbox[j] # "absent"}) = p
  <2>1. outbox \in [Jobs -> {"absent", "pending", "sent"}]
    BY DEF TypeOK
  <2>2. \A j \in Jobs : (outbox[j] = "sent" <=> j <= s) /\ (outbox[j] = "absent" <=> j > p)
    BY DEF Shape
  <2>3. {j \in Jobs : outbox[j] = "pending"} = s + 1 .. p
    BY <1>0, <2>1, <2>2, ShapeSets
  <2>4. {j \in Jobs : outbox[j] # "absent"} = 1 .. p
    BY <1>0, <2>1, <2>2, ShapeSets
  <2>5. Cardinality(1 .. p) = p
    BY FS_Interval
  <2> QED
    BY <2>3, <2>4, <2>5 DEF Pending
<1>2. ASSUME UNCHANGED <<outbox, batch, outcome, handed, failures>> PROVE Goal
  <2>1. Shape(s, p, b, d)'
    BY <1>2 DEF Shape
  <2>2. Moves(s, p, b, d, s, p, b, d)
    BY <1>2 DEF Moves
  <2> QED
    BY <2>1, <2>2
<1>3. ASSUME NEW list \in Audiences, Notify(list) PROVE Goal
  <2>1. Len(list) \in Nat
    BY AudienceAssumption
  <2>2. /\ p + Len(list) <= MaxJobs
        /\ outbox' = [j \in Jobs |-> IF j \in p + 1 .. p + Len(list) THEN "pending" ELSE outbox[j]]
        /\ UNCHANGED pass
    BY <1>1, <1>3 DEF Notify
  <2>3. Shape(s, p + Len(list), b, d)'
    BY <1>0, <2>1, <2>2, JobIds DEF Shape, pass
  <2>4. Moves(s, p, b, d, s, p + Len(list), b, d) /\ p + Len(list) \in 0 .. MaxJobs
    BY <2>1, <2>2 DEF Moves, pass
  <2> QED
    BY <2>3, <2>4
<1>4. ASSUME Claim PROVE Goal
  <2> DEFINE top == IF s + BatchLimit < p THEN s + BatchLimit ELSE p
  <2>1. ClaimBatch = {j \in s + 1 .. p : j < (s + 1) + BatchLimit}
    BY <1>1, OldestOfStretch, Bounds DEF ClaimBatch
  <2>2. top \in 0 .. MaxJobs /\ s <= top /\ top <= p /\ ClaimBatch = s + 1 .. top
    BY <1>0, <2>1, Bounds
  <2>3. d = s
    BY <1>0, <1>4, NobodyType DEF Claim, Shape
  <2>4. DOMAIN batch' = s + 1 .. top /\ UNCHANGED <<outbox, outcome, handed, failures>>
    BY <1>4, <2>2 DEF Claim, queue
  <2> HIDE DEF top
  <2>5. Shape(s, p, top, d)'
    BY <2>2, <2>3, <2>4 DEF Shape
  <2>6. Moves(s, p, b, d, s, p, top, d)
    BY <2>4 DEF Moves
  <2> QED
    BY <2>2, <2>5, <2>6
<1>5. ASSUME Deliver PROVE Goal
  <2>1. DOMAIN batch \ DOMAIN outcome = d + 1 .. b
    BY <1>0 DEF Shape
  <2>2. Oldest(d + 1 .. b, 1) = {i \in d + 1 .. b : i < (d + 1) + 1}
    BY OldestOfStretch
  <2>3. PICK j \in Oldest(d + 1 .. b, 1) :
          /\ \E dead \in Dead(j) :
               outcome' = [i \in DOMAIN outcome \cup {j} |-> IF i = j THEN dead ELSE outcome[i]]
          /\ handed' = [handed EXCEPT ![j] = @ + 1]
          /\ UNCHANGED <<queue, batch, failures>>
    BY <1>5, <2>1 DEF Deliver
  <2>4. j = d + 1 /\ d + 1 <= b /\ d + 1 \in 0 .. MaxJobs
    <3>1. j \in {i \in d + 1 .. b : i < (d + 1) + 1}
      BY <2>2, <2>3
    <3> QED
      BY <1>0, <3>1, Bounds
  <2>5. DOMAIN outcome' = s + 1 .. d + 1
    BY <1>0, <2>3, <2>4 DEF Shape
  <2>6. Shape(s, p, b, d + 1)'
    BY <1>0, <2>3, <2>4, <2>5 DEF Shape, queue
  <2>7. Moves(s, p, b, d, s, p, b, d + 1)
    BY <1>0, <2>3, <2>4 DEF Moves
  <2> QED
    BY <2>4, <2>6, <2>7
<1>6. ASSUME Finalize PROVE Goal
  <2>1. d = b
    BY <1>0, <1>6 DEF Finalize, Shape
  <2>2. /\ outbox' = [j \in Jobs |-> IF j \in s + 1 .. d THEN "sent" ELSE outbox[j]]
        /\ DOMAIN batch' = {} /\ DOMAIN outcome' = {}
        /\ UNCHANGED <<handed, failures>>
    BY <1>6, NobodyType DEF Finalize, Sent, Shape
  <2>3. Shape(d, p, d, d)'
    BY <1>0, <2>1, <2>2, JobIds DEF Shape
  <2>4. Moves(s, p, b, d, d, p, d, d)
    BY <2>2 DEF Moves
  <2> QED
    BY <2>3, <2>4
<1>7. ASSUME LosePass PROVE Goal
  <2>1. /\ DOMAIN batch' = {} /\ DOMAIN outcome' = {}
        /\ UNCHANGED <<outbox, handed>> /\ failures' = failures + 1
    BY <1>7, NobodyType DEF LosePass, queue
  <2>2. Shape(s, p, s, s)'
    BY <1>0, <2>1 DEF Shape
  <2>3. Moves(s, p, b, d, s, p, s, s)
    BY <2>1 DEF Moves
  <2> QED
    BY <2>2, <2>3
<1>8. ASSUME \/ \E m \in Members, j \in Jobs : MarkRead(m, j)
             \/ \E m \in Members : MarkAllRead(m)
             \/ \E m \in Members, t \in Tokens : Subscribe(m, t)
             \/ \E t \in Tokens : Unsubscribe(t) \/ Expire(t)
             \/ UNCHANGED vars
      PROVE  Goal
  BY <1>2, <1>8 DEF MarkRead, MarkAllRead, Subscribe, Unsubscribe, Expire, vars, queue, pass
<1> QED
  BY <1>3, <1>4, <1>5, <1>6, <1>7, <1>8 DEF Next, Users, Event, Dispatcher

-----------------------------------------------------------------------------
(* Order and redelivery.                                                   *)

\* A settled row was sent before, and nothing dead is known that is not gone.
DeadAreGone == \A j \in DOMAIN outcome : outcome[j] \subseteq gone

QueueInv == TypeOK /\ Position /\ DeadAreGone

LEMMA HandedMoves ==
  ASSUME TypeOK, TypeOK',
         NEW s \in 0 .. MaxJobs, NEW p \in 0 .. MaxJobs, NEW b \in 0 .. MaxJobs, NEW d \in 0 .. MaxJobs,
         NEW s2 \in 0 .. MaxJobs, NEW p2 \in 0 .. MaxJobs, NEW b2 \in 0 .. MaxJobs, NEW d2 \in 0 .. MaxJobs,
         s <= d, HandedBy(d), Moves(s, p, b, d, s2, p2, b2, d2)
  PROVE  HandedBy(d2)'
<1>1. failures \in Nat /\ handed \in [Jobs -> Nat] /\ \A j \in Jobs : j \in Int
  BY Bounds, JobIds DEF TypeOK
<1>2. CASE d2 = d /\ UNCHANGED <<handed, failures>>
  BY <1>1, <1>2 DEF HandedBy
<1>3. CASE /\ d2 = d + 1 /\ failures' = failures
           /\ handed' = [handed EXCEPT ![d + 1] = @ + 1]
  BY <1>1, <1>3 DEF HandedBy
<1>4. CASE d2 = s /\ handed' = handed /\ failures' = failures + 1
  BY <1>1, <1>4 DEF HandedBy
<1> QED
  BY <1>2, <1>3, <1>4 DEF Moves

LEMMA DeadStep ==
  ASSUME TypeOK, DeadAreGone, [Next]_vars
  PROVE  DeadAreGone'
<1>1. ASSUME Deliver PROVE DeadAreGone'
  <2>1. PICK j \in DOMAIN batch :
          /\ \E dead \in Dead(j) :
               outcome' = [i \in DOMAIN outcome \cup {j} |-> IF i = j THEN dead ELSE outcome[i]]
          /\ gone' = gone
    BY <1>1 DEF Deliver, Oldest
  <2>2. PICK dead \in Dead(j) :
          outcome' = [i \in DOMAIN outcome \cup {j} |-> IF i = j THEN dead ELSE outcome[i]]
    BY <2>1
  <2>3. dead \subseteq gone
    BY <2>2 DEF Dead
  <2> QED
    BY <2>1, <2>2, <2>3 DEF DeadAreGone
<1>2. ASSUME Finalize \/ LosePass PROVE DeadAreGone'
  BY <1>2, NobodyType DEF Finalize, LosePass, DeadAreGone
<1>3. ASSUME outcome' = outcome, gone \subseteq gone' PROVE DeadAreGone'
  BY <1>3 DEF DeadAreGone
<1> QED
  BY <1>1, <1>2, <1>3
     DEF Next, Users, Event, Dispatcher, Notify, MarkRead, MarkAllRead, Subscribe, Unsubscribe, Expire,
         Claim, vars, pass

LEMMA QueueInit == Init => QueueInv
<1> SUFFICES ASSUME Init PROVE QueueInv
  OBVIOUS
<1>1. Shape(0, 0, 0, 0) /\ HandedBy(0)
  BY NobodyType, JobIds, Bounds DEF Init, Shape, HandedBy
<1>2. DeadAreGone
  BY NobodyType DEF Init, DeadAreGone
<1>3. Position
  BY <1>1, Bounds DEF Position
<1> QED
  BY <1>2, <1>3, TypeInit DEF QueueInv

LEMMA QueueInductive == QueueInv /\ [Next]_vars => QueueInv'
<1> SUFFICES ASSUME QueueInv, [Next]_vars PROVE QueueInv'
  OBVIOUS
<1>1. TypeOK /\ TypeOK'
  BY TypeInductive DEF QueueInv
<1>2. PICK s, p, b, d \in 0 .. MaxJobs : Shape(s, p, b, d) /\ HandedBy(d)
  BY DEF QueueInv, Position
<1>3. PICK s2, p2, b2, d2 \in 0 .. MaxJobs : Shape(s2, p2, b2, d2)' /\ Moves(s, p, b, d, s2, p2, b2, d2)
  BY <1>1, <1>2, ShapeMoves
<1>4. s <= d
  BY <1>2 DEF Shape
<1>5. HandedBy(d2)'
  BY <1>1, <1>2, <1>3, <1>4, HandedMoves
<1>6. Position'
  BY <1>3, <1>5 DEF Position
<1> QED
  BY <1>1, <1>6, DeadStep DEF QueueInv

\* What is settled is a prefix of what was posted, and the batch in hand lies
\* just beyond it, in order, whenever a pass is lost.
THEOREM QueueInvariant == Spec => []QueueInv
  BY QueueInit, QueueInductive, PTL DEF Spec

\* The columns, the claimed batch and what became of it stay what they can be.
THEOREM OutboxTypes == Spec => []TypeOK
<1>1. QueueInv => TypeOK
  BY DEF QueueInv
<1> QED
  BY <1>1, QueueInvariant, PTL

\* No message is settled before an older one, and the dispatcher never works
\* on a row that is already settled, however many passes are lost.
THEOREM InOrder == Spec => []SettledInOrder
<1>1. QueueInv => SettledInOrder
  <2> SUFFICES ASSUME QueueInv PROVE SettledInOrder
    OBVIOUS
  <2>1. PICK s, p, b, d \in 0 .. MaxJobs : Shape(s, p, b, d)
    BY DEF QueueInv, Position
  <2>2. ASSUME NEW i \in Jobs, NEW j \in Jobs, i < j, outbox[j] = "sent" PROVE outbox[i] = "sent"
    BY <2>1, <2>2, JobIds DEF Shape
  <2>3. ASSUME NEW j \in DOMAIN batch PROVE outbox[j] = "pending"
    <3>1. j \in Jobs /\ s < j /\ j <= p
      <4>1. j \in s + 1 .. b /\ 0 <= s /\ b <= p /\ p <= MaxJobs
        BY <2>1, <2>3 DEF Shape
      <4> QED
        BY <4>1, JobIds, Bounds
    <3>2. outbox[j] # "sent" /\ outbox[j] # "absent"
      BY <2>1, <3>1 DEF Shape
    <3> QED
      BY <3>1, <3>2 DEF QueueInv, TypeOK
  <2> QED
    BY <2>2, <2>3 DEF SettledInOrder
<1> QED
  BY <1>1, QueueInvariant, PTL

\* A message goes out again only for a pass that was lost: the number of
\* times is bounded by the number of losses, for each message.
THEOREM RedeliveryBounded == Spec => []RedeliveredOnlyAfterFailure
<1>1. QueueInv => RedeliveredOnlyAfterFailure
  BY Bounds DEF QueueInv, Position, HandedBy, RedeliveredOnlyAfterFailure, TypeOK
<1> QED
  BY <1>1, QueueInvariant, PTL

\* A token stops being a target only when its push service gave it up or its
\* user withdrew it.
THEOREM PruningIsJustified == Spec => OnlyDeadTokensPruned
<1>1. QueueInv /\ [Next]_vars => [\A t \in Tokens : Withdrawn(t) => t \in gone \/ Unsubscribe(t)]_vars
  <2> SUFFICES ASSUME QueueInv, Next, NEW t \in Tokens, Withdrawn(t)
               PROVE  t \in gone \/ Unsubscribe(t)
    BY DEF vars
  <2>1. TypeOK
    BY DEF QueueInv
  <2>2. ASSUME UNCHANGED targets PROVE FALSE
    BY <2>2 DEF Withdrawn, targets
  <2>3. ASSUME NEW m \in Members, NEW u \in Tokens, Subscribe(m, u) PROVE FALSE
    BY <2>1, <2>3, NoneAssumption DEF Subscribe, Withdrawn, TypeOK
  <2>4. ASSUME NEW u \in Tokens, Unsubscribe(u) PROVE Unsubscribe(t)
    <3>1. u = t
      BY <2>1, <2>4 DEF Unsubscribe, Withdrawn, TypeOK
    <3> QED
      BY <2>4, <3>1
  <2>5. ASSUME Finalize PROVE t \in gone
    <3>1. t \in UNION Range(outcome)
      BY <2>1, <2>5 DEF Finalize, Withdrawn, TypeOK
    <3> QED
      BY <3>1 DEF Range, QueueInv, DeadAreGone
  <2>6. ASSUME \/ Claim \/ Deliver \/ LosePass
               \/ \E list \in Audiences : Notify(list)
               \/ \E m \in Members, j \in Jobs : MarkRead(m, j)
               \/ \E m \in Members : MarkAllRead(m)
               \/ \E u \in Tokens : Expire(u)
        PROVE  FALSE
    BY <2>2, <2>6 DEF Claim, Deliver, LosePass, Notify, MarkRead, MarkAllRead, Expire
  <2> QED
    BY <2>3, <2>4, <2>5, <2>6 DEF Next, Users, Event, Dispatcher
<1> QED
  BY <1>1, QueueInvariant, PTL DEF Spec, OnlyDeadTokensPruned

-----------------------------------------------------------------------------
(* The log that the outbox promises.                                       *)

\* How many rows are in each stretch.
LEMMA StretchCounts ==
  ASSUME NEW s \in 0 .. MaxJobs, NEW p \in 0 .. MaxJobs, NEW d \in 0 .. MaxJobs, s <= d
  PROVE  /\ Cardinality(1 .. s) = s
         /\ MaxJobs - Cardinality(p + 1 .. MaxJobs) = p
         /\ s + Cardinality(s + 1 .. d) = d
<1>1. Cardinality(1 .. s) = s
  BY FS_Interval
<1>2. Cardinality(p + 1 .. MaxJobs) = MaxJobs - p
  BY StretchAfter, Bounds
<1>3. Cardinality(s + 1 .. d) = d - s
  BY StretchAfter
<1> QED
  BY <1>1, <1>2, <1>3, Bounds

\* Every step of the outbox is a step of the log, or one the log does not see.
LEMMA LogStep ==
  ASSUME QueueInv, [Next]_vars
  PROVE  [Log!Next]_(Log!vars)
<1> DEFINE posted == MaxJobs - Count("absent")
           cursor == Count("sent") + Cardinality(DOMAIN outcome)
           saved  == Count("sent")
<1>1. TypeOK /\ TypeOK'
  BY TypeInductive DEF QueueInv
<1>2. PICK s, p, b, d \in 0 .. MaxJobs : Shape(s, p, b, d) /\ HandedBy(d)
  BY DEF QueueInv, Position
<1>3. PICK s2, p2, b2, d2 \in 0 .. MaxJobs : Shape(s2, p2, b2, d2)' /\ Moves(s, p, b, d, s2, p2, b2, d2)
  BY <1>1, <1>2, ShapeMoves
<1>4. posted = p /\ cursor = d /\ saved = s
  <2>1. /\ s <= d /\ d <= p /\ DOMAIN outcome = s + 1 .. d
        /\ outbox \in [Jobs -> {"absent", "pending", "sent"}]
        /\ \A j \in Jobs : (outbox[j] = "sent" <=> j <= s) /\ (outbox[j] = "absent" <=> j > p)
    BY <1>1, <1>2, Bounds DEF Shape, TypeOK
  <2>2. {j \in Jobs : outbox[j] = "sent"} = 1 .. s /\ s <= p
    BY <2>1, ShapeSets
  <2>3. {j \in Jobs : outbox[j] = "absent"} = p + 1 .. MaxJobs
    BY <2>1, <2>2, ShapeSets
  <2>4. /\ Cardinality(1 .. s) = s
        /\ MaxJobs - Cardinality(p + 1 .. MaxJobs) = p
        /\ s + Cardinality(s + 1 .. d) = d
    BY <2>1, StretchCounts
  <2> QED
    BY <2>1, <2>2, <2>3, <2>4 DEF Count
<1>5. posted' = p2 /\ cursor' = d2 /\ saved' = s2
  <2>1. /\ s2 <= d2 /\ d2 <= p2 /\ DOMAIN outcome' = s2 + 1 .. d2
        /\ outbox' \in [Jobs -> {"absent", "pending", "sent"}]
        /\ \A j \in Jobs : (outbox'[j] = "sent" <=> j <= s2) /\ (outbox'[j] = "absent" <=> j > p2)
    BY <1>1, <1>3, Bounds DEF Shape, TypeOK
  <2>2. {j \in Jobs : outbox'[j] = "sent"} = 1 .. s2 /\ s2 <= p2
    BY <2>1, ShapeSets
  <2>3. {j \in Jobs : outbox'[j] = "absent"} = p2 + 1 .. MaxJobs
    BY <2>1, <2>2, ShapeSets
  <2>4. /\ Cardinality(1 .. s2) = s2
        /\ MaxJobs - Cardinality(p2 + 1 .. MaxJobs) = p2
        /\ s2 + Cardinality(s2 + 1 .. d2) = d2
    BY <2>1, StretchCounts
  <2> QED
    BY <2>1, <2>2, <2>3, <2>4 DEF Count
<1>6. s <= d /\ d <= p
  BY <1>2, Bounds DEF Shape
<1> HIDE DEF posted, cursor, saved
<1>7. \/ posted' > posted /\ UNCHANGED <<cursor, saved>>
      \/ cursor < posted /\ cursor' = cursor + 1 /\ UNCHANGED <<posted, saved>>
      \/ saved < cursor /\ saved' = cursor /\ UNCHANGED <<posted, cursor>>
      \/ saved < cursor /\ cursor' = saved /\ UNCHANGED <<posted, saved>>
      \/ UNCHANGED <<posted, cursor, saved>>
  <2>1. \/ p2 > p /\ s2 = s /\ d2 = d
        \/ d < p /\ d2 = d + 1 /\ p2 = p /\ s2 = s
        \/ s < d /\ s2 = d /\ p2 = p /\ d2 = d
        \/ s < d /\ d2 = s /\ p2 = p /\ s2 = s
        \/ p2 = p /\ d2 = d /\ s2 = s
    BY <1>3, <1>6, Bounds DEF Moves
  <2> QED
    BY <1>4, <1>5, <2>1
<1> QED
  BY <1>7 DEF posted, cursor, saved, Log!Next, Log!Post, Log!Hand, Log!Save, Log!Lose, Log!vars

\* The outbox is the log of Delivery: messages are handed out in the order in
\* which they were posted, none is skipped, and what is handed out again is
\* what a lost pass had handed out and not settled.
THEOREM OutboxImplementsDelivery == Spec => ImplementsDelivery
<1>1. Init => Log!Init
  <2> SUFFICES ASSUME Init PROVE Log!Init
    OBVIOUS
  <2>1. Shape(0, 0, 0, 0) /\ TypeOK
    BY NobodyType, JobIds, Bounds, TypeInit DEF Init, Shape
  <2>2. /\ DOMAIN outcome = {}
        /\ outbox \in [Jobs -> {"absent", "pending", "sent"}]
        /\ \A j \in Jobs : (outbox[j] = "sent" <=> j <= 0) /\ (outbox[j] = "absent" <=> j > 0)
    BY <2>1 DEF Shape, TypeOK
  <2>3. {j \in Jobs : outbox[j] = "sent"} = {}
    BY <2>2, JobIds
  <2>4. {j \in Jobs : outbox[j] = "absent"} = Jobs
    BY <2>2, JobIds
  <2>5. Cardinality({}) = 0
    BY FS_EmptySet
  <2>6. Count("sent") = 0
    BY <2>3, <2>5 DEF Count
  <2>7. Count("absent") = MaxJobs
    BY <2>4, JobIds DEF Count
  <2>8. Cardinality(DOMAIN outcome) = 0
    BY <2>2, <2>5
  <2> QED
    BY <2>6, <2>7, <2>8, Bounds DEF Log!Init
<1>2. QueueInv /\ [Next]_vars => [Log!Next]_(Log!vars)
  BY LogStep
<1> QED
  BY <1>1, <1>2, QueueInvariant, PTL DEF Spec, ImplementsDelivery, Log!Spec

=============================================================================
