--------------------------- MODULE Accounts_proofs ---------------------------
(***************************************************************************)
(* Theorems about Accounts, for every set of members, addresses and        *)
(* invitations, every number of requests in flight and every bound.        *)
(***************************************************************************)
EXTENDS Accounts, WellFoundedInduction, TLAPS

-----------------------------------------------------------------------------
(* The newest of a set of row ids.                                         *)

\* The least-number principle, from the well-founded order of the naturals.
LEMMA LeastNatural ==
  ASSUME NEW T \in SUBSET Nat, T # {}
  PROVE  \E x \in T : \A y \in T : x <= y
<1> DEFINE R == OpToRel(<, Nat)
<1>1. IsWellFoundedOn(R, Nat)
  BY NatLessThanWellFounded
<1>2. \A x, y \in Nat : <<y, x>> \in R <=> y < x
  BY DEF OpToRel
<1> HIDE DEF R
<1>3. PICK x \in T : \A y \in T : ~ (<<y, x>> \in R)
  BY <1>1, WFMin
<1>4. ASSUME NEW y \in T PROVE x <= y
  <2>1. x \in Nat /\ y \in Nat /\ ~ (<<y, x>> \in R)
    BY <1>3
  <2>2. ~ (y < x)
    BY <1>2, <2>1
  <2> QED
    BY <2>1, <2>2
<1> QED
  BY <1>4

LEMMA MaxOfInterval ==
  ASSUME NEW n \in Nat, NEW S \in SUBSET (1 .. n), S # {}
  PROVE  Max(S) \in S /\ \A y \in S : Max(S) >= y
<1> DEFINE T == {n - x : x \in S}
<1>1. T \in SUBSET Nat /\ T # {}
  <2>1. \A x \in S : n - x \in Nat
    OBVIOUS
  <2> QED
    BY <2>1
<1>2. PICK t \in T : \A y \in T : t <= y
  BY <1>1, LeastNatural
<1>3. PICK x \in S : t = n - x
  OBVIOUS
<1>4. ASSUME NEW y \in S PROVE x >= y
  <2>1. n - y \in T
    OBVIOUS
  <2> QED
    BY <1>2, <1>3, <2>1
<1> QED
  BY <1>4 DEF Max

\* The challenge a request goes for is an open row of its flow.
LEMMA LatestIsOpen ==
  ASSUME TypeOK, NEW flow, Open(flow) # {}
  PROVE  /\ LatestOpen(flow) \in Written
         /\ challenge[LatestOpen(flow)] \in Rows
         /\ challenge[LatestOpen(flow)].flow = flow
<1>1. Open(flow) \in SUBSET (1 .. MaxChallenges)
  BY DEF Open, Written, Challenges
<1>2. LatestOpen(flow) \in Open(flow)
  BY <1>1, MaxOfInterval, BoundsAssumption DEF LatestOpen
<1> QED
  BY <1>2 DEF Open, Written, TypeOK

-----------------------------------------------------------------------------
(* Types.                                                                  *)

\* What the requests in flight hold: a verification has read a row that it
\* may still guess at, and that stays in the table while it does.
InFlightOK ==
  \A r \in Requests :
    /\ req[r].op \in {"start", "resend", "verify"} => req[r].flow \in Flows
    /\ req[r].op = "resend" => req[r].cid \in Challenges
    /\ req[r].op = "verify" => /\ req[r].cid \in Written
                               /\ req[r].row \in Rows
                               /\ req[r].row.attempts < MaxAttempts
    /\ req[r].op = "revoke" => req[r].invite \in Invites

TypeInv == TypeOK /\ InFlightOK

LEMMA WrittenRows ==
  ASSUME TypeOK
  PROVE  \A c \in Challenges : c \in Written <=> challenge[c] \in Rows
  BY NoneAssumption DEF TypeOK, Written

LEMMA IdleType == Idle \in RequestType /\ Idle.op = "idle"
  BY DEF Idle, RequestType

\* A request that has just read keeps what the others hold.
LEMMA LoadType ==
  ASSUME TypeInv, NEW r \in Requests, NEW read \in RequestType, Load(r, read),
         read.op \in {"start", "resend", "verify"} => read.flow \in Flows,
         read.op = "resend" => read.cid \in Challenges,
         read.op = "verify" => /\ read.cid \in Written
                               /\ read.row \in Rows
                               /\ read.row.attempts < MaxAttempts,
         read.op = "revoke" => read.invite \in Invites
  PROVE  TypeInv'
<1>1. /\ req' \in [Requests -> RequestType]
      /\ Written' = Written
  BY DEF Load, TypeInv, TypeOK, Written
<1>2. TypeOK'
  BY <1>1 DEF Load, TypeInv, TypeOK, people
<1>3. InFlightOK'
  BY <1>1 DEF Load, TypeInv, InFlightOK, TypeOK
<1> QED
  BY <1>2, <1>3 DEF TypeInv

\* A request that ends leaves the others in flight, if their rows stay.
LEMMA CommitType ==
  ASSUME TypeInv, NEW r \in Requests, req' = [req EXCEPT ![r] = Idle], Written \subseteq Written'
  PROVE  req' \in [Requests -> RequestType] /\ InFlightOK'
<1>1. req' \in [Requests -> RequestType]
  BY IdleType DEF TypeInv, TypeOK
<1>2. ASSUME NEW q \in Requests PROVE req'[q] = req[q] \/ req'[q].op = "idle"
  BY IdleType DEF TypeInv, TypeOK
<1> QED
  BY <1>1, <1>2 DEF TypeInv, InFlightOK

\* Challenges whose rows are rewritten, or written anew, stay in the table.
LEMMA RewriteType ==
  ASSUME TypeOK, NEW new \in [Challenges -> Rows \cup {None, Purged}], challenge' = new,
         \A c \in Challenges : challenge[c] \in Rows => new[c] \in Rows
  PROVE  /\ challenge' \in [Challenges -> Rows \cup {None, Purged}]
         /\ Written \subseteq Written'
<1>1. \A c \in Challenges : challenge'[c] \in Rows => c \in Written'
  BY NoneAssumption DEF Written
<1> QED
  BY <1>1, WrittenRows DEF Written

LEMMA TypeInit == Init => TypeInv
<1> SUFFICES ASSUME Init PROVE TypeInv
  OBVIOUS
<1>1. TypeOK
  BY FoundersAssumption, IdleType DEF Init, TypeOK
<1>2. InFlightOK
  BY IdleType DEF Init, InFlightOK
<1> QED
  BY <1>1, <1>2 DEF TypeInv

LEMMA StartType ==
  ASSUME TypeInv, NEW r \in Requests, CommitStart(r)
  PROVE  TypeInv'
<1> DEFINE q == req[r]
<1>1. q \in RequestType /\ q.flow \in Flows
  BY DEF CommitStart, TypeInv, TypeOK, InFlightOK
<1>2. /\ challenge' \in [Challenges -> Rows \cup {None, Purged}]
      /\ Written \subseteq Written'
  <2>1. CASE q.cid # None
    <3>1. q.cid \in Challenges /\ challenge[q.cid] \in Rows
      BY <1>1, <2>1, WrittenRows DEF CommitStart, Present, RequestType, TypeInv
    <3>2. challenge' = [challenge EXCEPT ![q.cid].username = q.username, ![q.cid].invite = q.invite]
      BY <2>1 DEF CommitStart, Refresh
    <3>3. [challenge EXCEPT ![q.cid].username = q.username, ![q.cid].invite = q.invite]
             \in [Challenges -> Rows \cup {None, Purged}]
      BY <1>1, <3>1 DEF RequestType, Rows, TypeInv, TypeOK
    <3>4. \A c \in Challenges : challenge[c] \in Rows => challenge'[c] \in Rows
      BY <1>1, <3>1, <3>2 DEF RequestType, Rows, TypeInv, TypeOK
    <3> QED
      BY <3>2, <3>3, <3>4, RewriteType DEF TypeInv
  <2>2. CASE q.cid = None
    <3>1. PICK new \in Challenges :
            /\ challenge[new] = None
            /\ challenge' = [c \in Challenges |->
                 IF c = new THEN [flow |-> q.flow, username |-> q.username, invite |-> q.invite,
                                  attempts |-> 0, age |-> "cooling", open |-> TRUE]
                 ELSE IF c \in q.stale THEN [challenge[c] EXCEPT !.open = FALSE]
                 ELSE challenge[c]]
      BY <2>2 DEF CommitStart, Supersede
    <3>2. [flow |-> q.flow, username |-> q.username, invite |-> q.invite,
           attempts |-> 0, age |-> "cooling", open |-> TRUE] \in Rows
      BY <1>1, BoundsAssumption DEF RequestType, Rows, Ages
    <3>3. \A c \in Challenges : c \in q.stale => challenge[c] \in Rows
      BY <1>1, WrittenRows, NoneAssumption DEF CommitStart, Present, RequestType, TypeInv
    <3>4. \A c \in Challenges : challenge[c] \in Rows => [challenge[c] EXCEPT !.open = FALSE] \in Rows
      BY DEF Rows
    <3>5. \A c \in Challenges : /\ challenge'[c] \in Rows \cup {None, Purged}
                                /\ challenge[c] \in Rows => challenge'[c] \in Rows
      BY <3>1, <3>2, <3>3, <3>4 DEF TypeInv, TypeOK
    <3>6. challenge' \in [Challenges -> Rows \cup {None, Purged}]
      BY <3>1, <3>5
    <3> QED
      BY <3>5, <3>6, RewriteType DEF TypeInv
  <2> QED
    BY <2>1, <2>2
<1>3. req' \in [Requests -> RequestType] /\ InFlightOK'
  BY <1>2, CommitType DEF CommitStart
<1> QED
  BY <1>2, <1>3 DEF CommitStart, TypeInv, TypeOK, people

\* Changing a written row's attempts, age or mark keeps it a row.
LEMMA RowUpdates ==
  ASSUME NEW row \in Rows
  PROVE  /\ \A n \in 0 .. MaxAttempts : [row EXCEPT !.attempts = n] \in Rows
         /\ \A a \in Ages : [row EXCEPT !.age = a] \in Rows
         /\ [row EXCEPT !.open = FALSE] \in Rows
         /\ [row EXCEPT !.attempts = 0, !.age = "cooling"] \in Rows
<1>1. \A n \in 0 .. MaxAttempts : [row EXCEPT !.attempts = n] \in Rows
  BY DEF Rows
<1>2. \A a \in Ages : [row EXCEPT !.age = a] \in Rows
  BY DEF Rows
<1>3. [row EXCEPT !.open = FALSE] \in Rows
  BY DEF Rows
<1>4. [row EXCEPT !.attempts = 0, !.age = "cooling"] \in Rows
  <2>1. [row EXCEPT !.attempts = 0] \in Rows
    BY <1>1, BoundsAssumption
  <2>2. [[row EXCEPT !.attempts = 0] EXCEPT !.age = "cooling"] \in Rows
    BY <2>1 DEF Rows, Ages
  <2>3. [row EXCEPT !.attempts = 0, !.age = "cooling"] =
          [[row EXCEPT !.attempts = 0] EXCEPT !.age = "cooling"]
    OBVIOUS
  <2> QED
    BY <2>2, <2>3
<1> QED
  BY <1>1, <1>2, <1>3, <1>4

LEMMA OneRowType ==
  ASSUME TypeOK, NEW c \in Challenges, NEW row \in Rows,
         challenge' = [challenge EXCEPT ![c] = row]
  PROVE  /\ challenge' \in [Challenges -> Rows \cup {None, Purged}]
         /\ Written \subseteq Written'
<1> DEFINE new == [challenge EXCEPT ![c] = row]
<1>1. /\ new \in [Challenges -> Rows \cup {None, Purged}]
      /\ \A d \in Challenges : challenge[d] \in Rows => new[d] \in Rows
  BY DEF TypeOK
<1> HIDE DEF new
<1> QED
  BY <1>1, RewriteType DEF new

\* The row that a request holds the id of, rewritten when it ends.
LEMMA ResendType ==
  ASSUME TypeInv, NEW r \in Requests, CommitResend(r)
  PROVE  TypeInv'
<1> DEFINE c == req[r].cid
<1>1. c \in Challenges /\ challenge[c] \in Rows
  <2>1. c \in Challenges /\ c \in Written \cup {None}
    BY DEF CommitResend, Present, TypeInv, InFlightOK
  <2> QED
    BY <2>1, WrittenRows, NoneAssumption DEF TypeInv
<1>2. challenge' = [challenge EXCEPT ![c] = [challenge[c] EXCEPT !.attempts = 0, !.age = "cooling"]]
  BY <1>1 DEF CommitResend, Rotate, TypeInv, TypeOK
<1>3. /\ challenge' \in [Challenges -> Rows \cup {None, Purged}]
      /\ Written \subseteq Written'
  BY <1>1, <1>2, RowUpdates, OneRowType DEF TypeInv
<1>4. req' \in [Requests -> RequestType] /\ InFlightOK'
  BY <1>3, CommitType DEF CommitResend
<1> QED
  BY <1>3, <1>4 DEF CommitResend, TypeInv, TypeOK, people

LEMMA WrongCodeType ==
  ASSUME TypeInv, NEW r \in Requests, CommitWrongCode(r)
  PROVE  TypeInv'
<1> DEFINE c == req[r].cid
<1>1. /\ c \in Challenges /\ challenge[c] \in Rows
      /\ req[r].row \in Rows /\ req[r].row.attempts < MaxAttempts
  BY WrittenRows DEF CommitWrongCode, TypeInv, InFlightOK, Written
<1>2. req[r].row.attempts + 1 \in 0 .. MaxAttempts
  BY <1>1, BoundsAssumption DEF Rows
<1>3. challenge' = [challenge EXCEPT ![c] = [challenge[c] EXCEPT !.attempts = req[r].row.attempts + 1]]
  BY <1>1 DEF CommitWrongCode, TypeInv, TypeOK
<1>4. /\ challenge' \in [Challenges -> Rows \cup {None, Purged}]
      /\ Written \subseteq Written'
  BY <1>1, <1>2, <1>3, RowUpdates, OneRowType DEF TypeInv
<1>5. req' \in [Requests -> RequestType] /\ InFlightOK'
  BY <1>4, CommitType DEF CommitWrongCode
<1> QED
  BY <1>4, <1>5 DEF CommitWrongCode, TypeInv, TypeOK, people

\* A verified code closes its row.
LEMMA VerifiedType ==
  ASSUME TypeInv, NEW r \in Requests, req[r].op = "verify",
         challenge' = [challenge EXCEPT ![req[r].cid].open = FALSE],
         req' = [req EXCEPT ![r] = Idle]
  PROVE  /\ challenge' \in [Challenges -> Rows \cup {None, Purged}]
         /\ req' \in [Requests -> RequestType] /\ InFlightOK'
<1> DEFINE c == req[r].cid
<1>1. c \in Challenges /\ challenge[c] \in Rows
  BY WrittenRows DEF TypeInv, InFlightOK, Written
<1>2. challenge' = [challenge EXCEPT ![c] = [challenge[c] EXCEPT !.open = FALSE]]
  BY <1>1 DEF TypeInv, TypeOK
<1>3. /\ challenge' \in [Challenges -> Rows \cup {None, Purged}]
      /\ Written \subseteq Written'
  BY <1>1, <1>2, RowUpdates, OneRowType DEF TypeInv
<1> QED
  BY <1>3, CommitType

LEMMA SignupType ==
  ASSUME TypeInv, NEW r \in Requests, CommitSignup(r)
  PROVE  TypeInv'
<1>1. req[r].row \in Rows /\ req[r].flow \in Flows
  BY DEF CommitSignup, TypeInv, InFlightOK
<1>2. /\ challenge' \in [Challenges -> Rows \cup {None, Purged}]
      /\ req' \in [Requests -> RequestType] /\ InFlightOK'
  BY VerifiedType DEF CommitSignup
<1>3. invite' \in [Invites -> {"absent", "pending", "lapsed", "accepted", "revoked"}]
  BY DEF CommitSignup, MarkAccepted, TypeInv, TypeOK
<1>4. PICK m \in Members :
        /\ standing' = [standing EXCEPT ![m] = "active"]
        /\ username' = [username EXCEPT ![m] = req[r].row.username]
        /\ email'    = [email EXCEPT ![m] = req[r].flow.email]
        /\ via'      = [via EXCEPT ![m] = req[r].row.invite]
  BY DEF CommitSignup
<1>5. /\ standing' \in [Members -> {"absent", "active", "removed"}]
      /\ username' \in [Members -> Usernames \cup {None}]
      /\ email' \in [Members -> Emails \cup {None}]
      /\ via' \in [Members -> Invites \cup {None}]
  BY <1>1, <1>4 DEF TypeInv, TypeOK, Rows, Flows
<1> QED
  BY <1>2, <1>3, <1>5 DEF TypeInv, TypeOK

LEMMA EmailChangeType ==
  ASSUME TypeInv, NEW r \in Requests, CommitEmailChange(r)
  PROVE  TypeInv'
<1>1. req[r].flow \in Flows
  BY DEF CommitEmailChange, TypeInv, InFlightOK
<1>2. /\ challenge' \in [Challenges -> Rows \cup {None, Purged}]
      /\ req' \in [Requests -> RequestType] /\ InFlightOK'
  BY VerifiedType DEF CommitEmailChange
<1>3. email' \in [Members -> Emails \cup {None}]
  BY <1>1 DEF CommitEmailChange, TypeInv, TypeOK, Flows
<1> QED
  BY <1>2, <1>3 DEF CommitEmailChange, TypeInv, TypeOK

\* What a verification has read is not purged under it.
LEMMA PurgeType ==
  ASSUME TypeInv, Purge
  PROVE  TypeInv'
<1>1. PICK S \in SUBSET Written :
        /\ \A r \in Requests : req[r].op = "verify" => req[r].cid \notin S
        /\ challenge' = [c \in Challenges |-> IF c \in S THEN Purged ELSE challenge[c]]
        /\ UNCHANGED <<people, invite, req>>
  BY DEF Purge
<1>2. Written \ S \subseteq Written'
  BY <1>1 DEF Written
<1>3. TypeOK'
  BY <1>1 DEF TypeInv, TypeOK, people
<1>4. InFlightOK'
  BY <1>1, <1>2 DEF TypeInv, InFlightOK
<1> QED
  BY <1>3, <1>4 DEF TypeInv

LEMMA TypeInductive == TypeInv /\ [Next]_vars => TypeInv'
<1> SUFFICES ASSUME TypeInv, [Next]_vars PROVE TypeInv'
  OBVIOUS
<1>1. ASSUME NEW r \in Requests, LoadStart(r) PROVE TypeInv'
  <2>1. PICK s \in Starts :
          Load(r, [Idle EXCEPT !.op = "start", !.flow = s.flow,
                  !.username = s.username, !.invite = s.invite,
                  !.cid = Reusable(s.flow),
                  !.stale = IF Reusable(s.flow) = None THEN Open(s.flow) ELSE {}])
    BY <1>1 DEF LoadStart
  <2>2. s \in StartForms /\ s.flow \in Flows
    BY StartsAssumption DEF StartForms
  <2>3. Reusable(s.flow) \in Challenges \cup {None}
    BY LatestIsOpen DEF Reusable, TypeInv, Written
  <2>4. Open(s.flow) \in SUBSET Challenges
    BY DEF Open, Written
  <2> DEFINE read == [Idle EXCEPT !.op = "start", !.flow = s.flow,
                        !.username = s.username, !.invite = s.invite,
                        !.cid = Reusable(s.flow),
                        !.stale = IF Reusable(s.flow) = None THEN Open(s.flow) ELSE {}]
  <2>5. read \in RequestType /\ read.op = "start" /\ read.flow \in Flows
    BY <2>2, <2>3, <2>4, IdleType DEF RequestType, StartForms
  <2> QED
    BY <2>1, <2>5, LoadType
<1>2. ASSUME NEW r \in Requests, LoadResend(r) PROVE TypeInv'
  <2>1. PICK flow \in Flows :
          /\ Open(flow) # {}
          /\ Load(r, [Idle EXCEPT !.op = "resend", !.flow = flow, !.cid = LatestOpen(flow)])
    BY <1>2 DEF LoadResend
  <2>2. LatestOpen(flow) \in Challenges
    BY <2>1, LatestIsOpen DEF TypeInv, Written
  <2> DEFINE read == [Idle EXCEPT !.op = "resend", !.flow = flow, !.cid = LatestOpen(flow)]
  <2>3. read \in RequestType /\ read.op = "resend" /\ read.flow \in Flows /\ read.cid \in Challenges
    BY <2>2, IdleType DEF RequestType
  <2> QED
    BY <2>1, <2>3, LoadType
<1>3. ASSUME NEW r \in Requests, LoadVerify(r) PROVE TypeInv'
  <2>1. PICK flow \in Flows :
          /\ Open(flow) # {}
          /\ Guessable(challenge[LatestOpen(flow)])
          /\ Load(r, [Idle EXCEPT !.op = "verify", !.flow = flow, !.cid = LatestOpen(flow),
                                  !.row = challenge[LatestOpen(flow)]])
    BY <1>3 DEF LoadVerify
  <2>2. LatestOpen(flow) \in Written /\ challenge[LatestOpen(flow)] \in Rows
    BY <2>1, LatestIsOpen DEF TypeInv
  <2>3. LatestOpen(flow) \in Challenges
    BY <2>2 DEF Written
  <2> DEFINE read == [Idle EXCEPT !.op = "verify", !.flow = flow, !.cid = LatestOpen(flow),
                                  !.row = challenge[LatestOpen(flow)]]
  <2>4. /\ read \in RequestType /\ read.op = "verify" /\ read.flow \in Flows
        /\ read.cid \in Written /\ read.row \in Rows /\ read.row.attempts < MaxAttempts
    BY <2>1, <2>2, <2>3, IdleType DEF RequestType, Guessable
  <2> QED
    BY <2>1, <2>4, LoadType
<1>4. ASSUME NEW r \in Requests, LoadRevoke(r) PROVE TypeInv'
  <2>1. PICK i \in Invites : Load(r, [Idle EXCEPT !.op = "revoke", !.invite = i])
    BY <1>4 DEF LoadRevoke
  <2> DEFINE read == [Idle EXCEPT !.op = "revoke", !.invite = i]
  <2>2. read \in RequestType /\ read.op = "revoke" /\ read.invite \in Invites
    BY IdleType DEF RequestType
  <2> QED
    BY <2>1, <2>2, LoadType
<1>5. ASSUME NEW r \in Requests, CommitRevoke(r) PROVE TypeInv'
  <2>1. req' \in [Requests -> RequestType] /\ InFlightOK'
    BY <1>5, CommitType DEF CommitRevoke, Written
  <2> QED
    BY <1>5, <2>1 DEF CommitRevoke, TypeInv, TypeOK, people
<1>6. ASSUME NEW r \in Requests, Abandon(r) PROVE TypeInv'
  <2>1. req' \in [Requests -> RequestType] /\ InFlightOK'
    BY <1>6, CommitType DEF Abandon, Written
  <2> QED
    BY <1>6, <2>1 DEF Abandon, TypeInv, TypeOK, people
<1>7. ASSUME NEW c \in Challenges, Age(c) PROVE TypeInv'
  <2>1. challenge[c] \in Rows /\ Later[challenge[c].age] \in Ages
    BY <1>7, WrittenRows DEF Age, Rows, Ages, Later, TypeInv
  <2>2. challenge' = [challenge EXCEPT ![c] = [challenge[c] EXCEPT !.age = Later[challenge[c].age]]]
    BY <1>7, <2>1 DEF Age, TypeInv, TypeOK
  <2>3. /\ challenge' \in [Challenges -> Rows \cup {None, Purged}]
        /\ Written \subseteq Written'
    BY <2>1, <2>2, RowUpdates, OneRowType DEF TypeInv
  <2> QED
    BY <1>7, <2>3 DEF Age, TypeInv, InFlightOK, TypeOK, people
<1>8. ASSUME NEW i \in Invites, CreateInvite(i) \/ Lapse(i) PROVE TypeInv'
  BY <1>8 DEF CreateInvite, Lapse, TypeInv, InFlightOK, TypeOK, Written, people
<1>9. ASSUME NEW m \in Members, ClearEmail(m) \/ Remove(m) PROVE TypeInv'
  BY <1>9 DEF ClearEmail, Remove, TypeInv, InFlightOK, TypeOK, Written
<1>10. CASE UNCHANGED vars
  BY <1>10 DEF vars, people, TypeInv, InFlightOK, TypeOK, Written
<1> QED
  BY <1>1, <1>2, <1>3, <1>4, <1>5, <1>6, <1>7, <1>8, <1>9, <1>10, StartType, ResendType,
     WrongCodeType, SignupType, EmailChangeType, PurgeType DEF Next, Request, Background

\* Types hold together with what ties challenges, invitations and requests to
\* rows that exist.
THEOREM TypeInvariant == Spec => []TypeInv
  BY TypeInit, TypeInductive, PTL DEF Spec

\* Columns and requests stay what they can be: above all no challenge counts
\* more wrong guesses than the limit, although requests count from what they
\* read, and no request works on a row that is not there.
THEOREM AccountTypes == Spec => []TypeOK
<1>1. TypeInv => TypeOK
  BY DEF TypeInv
<1> QED
  BY <1>1, TypeInvariant, PTL

-----------------------------------------------------------------------------
(* Addresses.                                                              *)

\* An address is only ever taken while nobody who is active has it: the check
\* and the write are one step, under the write lock.
LEMMA EmailsStep ==
  ASSUME TypeInv, EmailsUnique, [Next]_vars
  PROVE  EmailsUnique'
<1>1. ASSUME NEW r \in Requests, CommitSignup(r) PROVE EmailsUnique'
  <2>1. PICK m \in Members :
          /\ standing[m] = "absent"
          /\ standing' = [standing EXCEPT ![m] = "active"]
          /\ email' = [email EXCEPT ![m] = req[r].flow.email]
    BY <1>1 DEF CommitSignup
  <2>2. \A n \in Active : email[n] # req[r].flow.email
    BY <1>1, NoneAssumption DEF CommitSignup, AddressFree, EmailInUse, Active
  <2>3. Active' = Active \cup {m} /\ m \notin Active
    BY <2>1 DEF Active, TypeInv, TypeOK
  <2>4. email'[m] = req[r].flow.email /\ \A n \in Active : email'[n] = email[n]
    BY <2>1, <2>3 DEF Active, TypeInv, TypeOK
  <2> QED
    BY <2>2, <2>3, <2>4 DEF EmailsUnique
<1>2. ASSUME NEW r \in Requests, CommitEmailChange(r) PROVE EmailsUnique'
  <2> DEFINE m == req[r].flow.owner
  <2>1. m \in Members
    BY <1>2 DEF CommitEmailChange, TypeInv, InFlightOK, Flows
  <2>2. /\ email' = [email EXCEPT ![m] = req[r].flow.email]
        /\ Active' = Active
        /\ \A n \in Active \ {m} : email[n] # req[r].flow.email
    BY <1>2 DEF CommitEmailChange, AddressFree, EmailInUse, Active
  <2>3. email'[m] = req[r].flow.email /\ \A n \in Active \ {m} : email'[n] = email[n]
    BY <2>1, <2>2 DEF Active, TypeInv, TypeOK
  <2> QED
    BY <2>2, <2>3 DEF EmailsUnique
<1>3. ASSUME NEW m \in Members, ClearEmail(m) PROVE EmailsUnique'
  BY <1>3 DEF ClearEmail, EmailsUnique, Active, TypeInv, TypeOK
<1>4. ASSUME NEW m \in Members, Remove(m) PROVE EmailsUnique'
  BY <1>4 DEF Remove, EmailsUnique, Active, TypeInv, TypeOK
<1>5. ASSUME UNCHANGED <<standing, email>> PROVE EmailsUnique'
  BY <1>5 DEF EmailsUnique, Active
<1>6. ASSUME NEW r \in Requests,
             \/ LoadStart(r) \/ LoadResend(r) \/ LoadVerify(r) \/ LoadRevoke(r)
             \/ CommitStart(r) \/ CommitResend(r) \/ CommitRevoke(r)
             \/ CommitWrongCode(r) \/ Abandon(r)
      PROVE  EmailsUnique'
  BY <1>5, <1>6 DEF LoadStart, LoadResend, LoadVerify, LoadRevoke, Load, CommitStart, CommitResend,
                    CommitRevoke, CommitWrongCode, Abandon, people
<1>7. ASSUME \/ \E c \in Challenges : Age(c)
             \/ \E i \in Invites : CreateInvite(i) \/ Lapse(i)
             \/ Purge
             \/ UNCHANGED vars
      PROVE  EmailsUnique'
  BY <1>5, <1>7 DEF Age, CreateInvite, Lapse, Purge, vars, people
<1> QED
  BY <1>1, <1>2, <1>3, <1>4, <1>6, <1>7 DEF Next, Request, Background

\* However signups and email changes overlap, no two active members have the
\* same address, without an index that would ensure it.
THEOREM OneMemberPerEmail == Spec => []EmailsUnique
<1>1. Init => EmailsUnique
  BY DEF Init, EmailsUnique, Active
<1>2. (TypeInv /\ EmailsUnique) /\ [Next]_vars => (TypeInv /\ EmailsUnique)'
  BY TypeInductive, EmailsStep
<1> QED
  BY <1>1, <1>2, TypeInit, PTL DEF Spec

-----------------------------------------------------------------------------
(* Invitations.                                                            *)

\* An invitation is spent with the member it admits, and never reopened.
LEMMA InviteStep ==
  ASSUME TypeInv, InviteAdmitsOne, [Next]_vars
  PROVE  InviteAdmitsOne'
<1>1. ASSUME NEW r \in Requests, CommitSignup(r) PROVE InviteAdmitsOne'
  <2> DEFINE i == req[r].row.invite
  <2>1. PICK m \in Members : via' = [via EXCEPT ![m] = i]
    BY <1>1 DEF CommitSignup
  <2>2. i \in Invites \cup {None}
    BY <1>1 DEF CommitSignup, TypeInv, InFlightOK, Rows
  <2>3. i # None => invite[i] = "pending"
    BY <1>1 DEF CommitSignup, StillRedeemable, Redeemable
  <2>4. invite' = [j \in Invites |-> IF j = i THEN "accepted" ELSE invite[j]]
    BY <1>1 DEF CommitSignup, MarkAccepted
  <2>5. \A n \in Members : via[n] # None => via[n] # i /\ via[n] \in Invites
    BY <2>3 DEF InviteAdmitsOne, TypeInv, TypeOK
  <2>6. via'[m] = i /\ \A n \in Members \ {m} : via'[n] = via[n]
    BY <2>1 DEF TypeInv, TypeOK
  <2>7. ASSUME NEW k \in Members, via'[k] # None
        PROVE  /\ invite'[via'[k]] \in {"accepted", "revoked"}
               /\ \A n \in Members : n # k => via'[n] # via'[k]
    <3>1. CASE k = m
      BY <2>2, <2>4, <2>5, <2>6, <2>7, <3>1
    <3>2. CASE k # m
      BY <2>4, <2>5, <2>6, <2>7, <3>2 DEF InviteAdmitsOne
    <3> QED
      BY <3>1, <3>2
  <2> QED
    BY <2>7 DEF InviteAdmitsOne
<1>2. ASSUME NEW r \in Requests, CommitRevoke(r) PROVE InviteAdmitsOne'
  BY <1>2 DEF CommitRevoke, InviteAdmitsOne, people, TypeInv, TypeOK
<1>3. ASSUME NEW i \in Invites, CreateInvite(i) \/ Lapse(i) PROVE InviteAdmitsOne'
  BY <1>3 DEF CreateInvite, Lapse, InviteAdmitsOne, people, TypeInv, TypeOK
<1>4. ASSUME UNCHANGED <<via, invite>> PROVE InviteAdmitsOne'
  BY <1>4 DEF InviteAdmitsOne
<1>5. ASSUME NEW r \in Requests,
             \/ LoadStart(r) \/ LoadResend(r) \/ LoadVerify(r) \/ LoadRevoke(r)
             \/ CommitStart(r) \/ CommitResend(r) \/ CommitWrongCode(r)
             \/ CommitEmailChange(r) \/ Abandon(r)
      PROVE  InviteAdmitsOne'
  BY <1>4, <1>5 DEF LoadStart, LoadResend, LoadVerify, LoadRevoke, Load, CommitStart, CommitResend,
                    CommitWrongCode, CommitEmailChange, Abandon, people
<1>6. ASSUME \/ \E c \in Challenges : Age(c)
             \/ \E m \in Members : ClearEmail(m) \/ Remove(m)
             \/ Purge
             \/ UNCHANGED vars
      PROVE  InviteAdmitsOne'
  BY <1>4, <1>6 DEF Age, ClearEmail, Remove, Purge, vars, people
<1> QED
  BY <1>1, <1>2, <1>3, <1>5, <1>6 DEF Next, Request, Background

\* An invitation admits one person, whatever is verified, revoked or expires
\* at the same time, and once it has it is open to nobody.
THEOREM OneMemberPerInvite == Spec => []InviteAdmitsOne
<1>1. Init => InviteAdmitsOne
  BY DEF Init, InviteAdmitsOne
<1>2. (TypeInv /\ InviteAdmitsOne) /\ [Next]_vars => (TypeInv /\ InviteAdmitsOne)'
  BY TypeInductive, InviteStep
<1> QED
  BY <1>1, <1>2, TypeInit, PTL DEF Spec

-----------------------------------------------------------------------------
(* Challenges.                                                             *)

\* No step opens a row that was closed.
LEMMA ClosedStep ==
  ASSUME TypeInv, [Next]_vars, NEW c \in Written, ~challenge[c].open
  PROVE  challenge'[c] = Purged \/ ~challenge'[c].open
<1> DEFINE Goal == challenge'[c] = Purged \/ ~challenge'[c].open
<1>0. c \in Challenges /\ challenge[c] \in Rows
  BY WrittenRows DEF Written, TypeInv
<1>1. challenge' = challenge => Goal
  OBVIOUS
<1>2. ASSUME NEW r \in Requests, CommitStart(r) PROVE Goal
  <2> DEFINE q == req[r]
  <2>1. CASE q.cid # None
    BY <1>0, <1>2, <2>1 DEF CommitStart, Refresh, Rows, TypeInv, TypeOK
  <2>2. CASE q.cid = None
    <3>1. PICK new \in Challenges :
            /\ challenge[new] = None
            /\ challenge' = [d \in Challenges |->
                 IF d = new THEN [flow |-> q.flow, username |-> q.username, invite |-> q.invite,
                                  attempts |-> 0, age |-> "cooling", open |-> TRUE]
                 ELSE IF d \in q.stale THEN [challenge[d] EXCEPT !.open = FALSE]
                 ELSE challenge[d]]
      BY <1>2, <2>2 DEF CommitStart, Supersede
    <3>2. c # new
      BY <3>1 DEF Written
    <3> QED
      BY <1>0, <3>1, <3>2 DEF Rows
  <2> QED
    BY <2>1, <2>2
<1>3. ASSUME NEW r \in Requests, CommitResend(r) \/ CommitWrongCode(r) PROVE Goal
  BY <1>0, <1>3 DEF CommitResend, Rotate, CommitWrongCode, Rows, TypeInv, TypeOK
<1>4. ASSUME NEW r \in Requests, CommitSignup(r) \/ CommitEmailChange(r) PROVE Goal
  BY <1>0, <1>4 DEF CommitSignup, CommitEmailChange, Rows, TypeInv, TypeOK
<1>5. ASSUME NEW d \in Challenges, Age(d) PROVE Goal
  BY <1>0, <1>5 DEF Age, Rows, TypeInv, TypeOK
<1>6. ASSUME Purge PROVE Goal
  BY <1>0, <1>6 DEF Purge
<1>7. ASSUME NEW r \in Requests,
             \/ LoadStart(r) \/ LoadResend(r) \/ LoadVerify(r) \/ LoadRevoke(r)
             \/ CommitRevoke(r) \/ Abandon(r)
      PROVE  Goal
  BY <1>1, <1>7 DEF LoadStart, LoadResend, LoadVerify, LoadRevoke, Load, CommitRevoke, Abandon
<1>8. ASSUME \/ \E i \in Invites : CreateInvite(i) \/ Lapse(i)
             \/ \E m \in Members : ClearEmail(m) \/ Remove(m)
             \/ UNCHANGED vars
      PROVE  Goal
  BY <1>1, <1>8 DEF CreateInvite, Lapse, ClearEmail, Remove, vars
<1> QED
  BY <1>2, <1>3, <1>4, <1>5, <1>6, <1>7, <1>8 DEF Next, Request, Background

\* The row of a code that was superseded, or spent on a member, is never open
\* again.  (What a guess achieves that read it while it was: see the README.)
THEOREM ClosedChallengesStay == Spec => ClosedForGood
<1>1. TypeInv /\ [Next]_vars =>
        [\A c \in Written : ~challenge[c].open => challenge'[c] = Purged \/ ~challenge'[c].open]_vars
  BY ClosedStep
<1> QED
  BY <1>1, TypeInvariant, PTL DEF Spec, ClosedForGood

=============================================================================
