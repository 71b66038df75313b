------------------------------ MODULE Accounts ------------------------------
(***************************************************************************)
(* Signing up, changing an email address and inviting people, on top of    *)
(* the one-time codes of services/otp.py.                                  *)
(*                                                                         *)
(* A request reads the challenge (and, when a flow starts, everything it   *)
(* validates) before it holds the write lock, and writes later: a Load and *)
(* a Commit, as in Complaints.  When a code is verified only the challenge *)
(* is read that early: marking it verified makes the session dirty, so the *)
(* next query flushes the mark first, and the checks that follow (invite,  *)
(* username, email) are already made under the lock, in the Commit.        *)
(*                                                                         *)
(* A flow is an address and, for an email change, the member who asked;    *)
(* a flow without an owner is a signup.                                    *)
(***************************************************************************)
EXTENDS Integers, FiniteSets, FiniteSetsExt

CONSTANTS
  Members,        \* everyone who is ever a member
  Founders,       \* the members active at the start
  NameOf,         \* the usernames of the founders
  Usernames,
  Emails,
  Invites,
  Starts,         \* the signups and email changes people may think of
  MaxChallenges,  \* how many challenge rows there can be (bound)
  MaxAttempts,    \* settings.otp_max_attempts
  Requests,       \* request slots (bounds the requests in flight)
  None, Purged

Challenges == 1 .. MaxChallenges
Ages       == {"cooling", "live", "expired"}
Flows      == [email : Emails, owner : Members \cup {None}]
StartForms == [flow : Flows, username : Usernames \cup {None}, invite : Invites \cup {None}]
Rows       == [flow : Flows, username : Usernames \cup {None},
               invite : Invites \cup {None}, attempts : 0 .. MaxAttempts,
               age : Ages, open : BOOLEAN]

ASSUME FoundersAssumption ==
  Founders \subseteq Members /\ NameOf \in [Founders -> Usernames]
ASSUME StartsAssumption ==
  /\ Starts \subseteq StartForms
  /\ \A s \in Starts : IF s.flow.owner = None THEN s.username # None
                       ELSE s.username = None /\ s.invite = None
ASSUME BoundsAssumption   == MaxChallenges \in Nat /\ MaxAttempts \in Nat \ {0}
ASSUME NoneAssumption     == /\ None \notin Members /\ None \notin Challenges
                             /\ None \notin Rows /\ Purged \notin Rows

VARIABLES
  standing,   \* members.is_active: "absent", "active" or "removed"
  username,   \* members.username
  email,      \* members.email
  via,        \* the invitation a member joined through (accepted_by)
  challenge,  \* otp_challenges: None before the row is written, Purged after
  invite,     \* invitations.status; "lapsed" is pending past its expires_at
  req         \* what each request in flight has read

people == <<standing, username, email, via>>
vars   == <<people, challenge, invite, req>>

Active == {m \in Members : standing[m] = "active"}

\* lower(username) is unique over everybody, those who left included.
NameTaken(u) == \E m \in Members : standing[m] # "absent" /\ username[m] = u

EmailInUse(e, except) == \E m \in Active \ {except} : email[m] = e

Redeemable(i) == invite[i] = "pending"

Written == {c \in Challenges : challenge[c] \notin {None, Purged}}

Open(flow) == {c \in Written : challenge[c].flow = flow /\ challenge[c].open}

\* The newest open challenge of a flow, expired or not.
LatestOpen(flow) == Max(Open(flow))

Idle == [op |-> "idle", flow |-> None, cid |-> None, row |-> None,
         username |-> None, invite |-> None, stale |-> {}]

-----------------------------------------------------------------------------
(* Starting a flow: start_registration and start_email_change, then issue. *)

Load(r, read) ==
  /\ req[r] = Idle
  /\ req' = [req EXCEPT ![r] = read]
  /\ UNCHANGED <<people, challenge, invite>>

MayStart(flow, u, i) ==
  IF flow.owner = None
    THEN /\ i # None => Redeemable(i)
         /\ ~NameTaken(u)
         /\ ~EmailInUse(flow.email, None)
    ELSE /\ flow.owner \in Active
         /\ email[flow.owner] # flow.email
         /\ ~EmailInUse(flow.email, flow.owner)

\* Inside the resend cooldown the live challenge is kept.
Reusable(flow) ==
  IF Open(flow) # {} /\ challenge[LatestOpen(flow)].age = "cooling"
    THEN LatestOpen(flow)
    ELSE None

LoadStart(r) ==
  \E s \in Starts :
    /\ MayStart(s.flow, s.username, s.invite)
    /\ Load(r, [Idle EXCEPT !.op = "start", !.flow = s.flow,
                  !.username = s.username, !.invite = s.invite,
                  !.cid = Reusable(s.flow),
                  !.stale = IF Reusable(s.flow) = None THEN Open(s.flow) ELSE {}])

Refresh(c, u, i) ==
  challenge' = [challenge EXCEPT ![c].username = u, ![c].invite = i]

Supersede(stale, flow, u, i) ==
  \E new \in Challenges :
    /\ challenge[new] = None
    /\ \A c \in Challenges : c < new => challenge[c] # None
    /\ challenge' = [c \in Challenges |->
         IF c = new THEN [flow |-> flow, username |-> u, invite |-> i,
                          attempts |-> 0, age |-> "cooling", open |-> TRUE]
         ELSE IF c \in stale THEN [challenge[c] EXCEPT !.open = FALSE]
         ELSE challenge[c]]

\* An UPDATE that finds its row purged rolls the request back.
Present(r) == {req[r].cid} \cup req[r].stale \subseteq Written \cup {None}

CommitStart(r) ==
  LET q == req[r] IN
  /\ q.op = "start" /\ Present(r)
  /\ IF q.cid # None THEN Refresh(q.cid, q.username, q.invite)
                     ELSE Supersede(q.stale, q.flow, q.username, q.invite)
  /\ req' = [req EXCEPT ![r] = Idle]
  /\ UNCHANGED <<people, invite>>

-----------------------------------------------------------------------------
(* Resending and checking a code.                                          *)

\* The routes of an email change are for the member who asked.
Caller(flow) == flow.owner \in Active \cup {None}

LoadResend(r) ==
  \E flow \in Flows :
    /\ Caller(flow)
    /\ Open(flow) # {}
    /\ challenge[LatestOpen(flow)].age # "cooling"
    /\ Load(r, [Idle EXCEPT !.op = "resend", !.flow = flow, !.cid = LatestOpen(flow)])

\* Mutant: the row is set up like a new one.
RotateReopens(c) ==
  challenge' = [challenge EXCEPT ![c].attempts = 0, ![c].age = "cooling", ![c].open = TRUE]

\* A new code, with a fresh expiry and no wrong guesses.
Rotate(c) == challenge' = [challenge EXCEPT ![c].attempts = 0, ![c].age = "cooling"]

CommitResend(r) ==
  /\ req[r].op = "resend" /\ Present(r)
  /\ Rotate(req[r].cid)
  /\ req' = [req EXCEPT ![r] = Idle]
  /\ UNCHANGED <<people, invite>>

\* Mutant: wrong guesses are counted but never refused.
GuessableForEver(row) == row.age # "expired"

Guessable(row) == row.age # "expired" /\ row.attempts < MaxAttempts

LoadVerify(r) ==
  \E flow \in Flows :
    /\ Caller(flow)
    /\ Open(flow) # {}
    /\ LET c == LatestOpen(flow) IN
         /\ Guessable(challenge[c])
         /\ Load(r, [Idle EXCEPT !.op = "verify", !.flow = flow, !.cid = c,
                                 !.row = challenge[c]])

\* A wrong guess is kept although the request fails (persist=True).
CommitWrongCode(r) ==
  /\ req[r].op = "verify"
  /\ challenge' = [challenge EXCEPT ![req[r].cid].attempts = req[r].row.attempts + 1]
  /\ req' = [req EXCEPT ![r] = Idle]
  /\ UNCHANGED <<people, invite>>

\* Mutant: the invitation was checked when the signup started.
TrustedInvite(i) == TRUE

\* The second look at the invitation, when the code is verified.
StillRedeemable(i) == i # None => Redeemable(i)

\* Mutant: the address was checked when the flow started.
AddressTrusted(e, except) == TRUE

AddressFree(e, except) == ~EmailInUse(e, except)

MarkAccepted(i) ==
  invite' = [j \in Invites |-> IF j = i THEN "accepted" ELSE invite[j]]

\* complete_registration: the registration cached with the challenge becomes
\* a member, and the invitation it named is spent.
CommitSignup(r) ==
  LET q == req[r] IN
  /\ q.op = "verify" /\ q.flow.owner = None
  /\ StillRedeemable(q.row.invite)
  /\ ~NameTaken(q.row.username)
  /\ AddressFree(q.flow.email, None)
  /\ \E m \in Members :
       /\ standing[m] = "absent"
       /\ standing' = [standing EXCEPT ![m] = "active"]
       /\ username' = [username EXCEPT ![m] = q.row.username]
       /\ email'    = [email EXCEPT ![m] = q.flow.email]
       /\ via'      = [via EXCEPT ![m] = q.row.invite]
  /\ MarkAccepted(q.row.invite)
  /\ challenge' = [challenge EXCEPT ![q.cid].open = FALSE]
  /\ req' = [req EXCEPT ![r] = Idle]

CommitEmailChange(r) ==
  LET q == req[r] IN
  /\ q.op = "verify" /\ q.flow.owner # None
  /\ AddressFree(q.flow.email, q.flow.owner)
  /\ email' = [email EXCEPT ![q.flow.owner] = q.flow.email]
  /\ challenge' = [challenge EXCEPT ![q.cid].open = FALSE]
  /\ req' = [req EXCEPT ![r] = Idle]
  /\ UNCHANGED <<standing, username, via, invite>>

-----------------------------------------------------------------------------
(* Invitations, members, and the sweep.                                    *)

CreateInvite(i) ==
  /\ invite[i] = "absent"
  /\ Active # {}
  /\ invite' = [invite EXCEPT ![i] = "pending"]
  /\ UNCHANGED <<people, challenge, req>>

LoadRevoke(r) ==
  \E i \in Invites :
    /\ invite[i] \in {"pending", "lapsed"}
    /\ Load(r, [Idle EXCEPT !.op = "revoke", !.invite = i])

CommitRevoke(r) ==
  /\ req[r].op = "revoke"
  /\ invite' = [invite EXCEPT ![req[r].invite] = "revoked"]
  /\ req' = [req EXCEPT ![r] = Idle]
  /\ UNCHANGED <<people, challenge>>

ClearEmail(m) ==
  /\ m \in Active /\ email[m] # None
  /\ email' = [email EXCEPT ![m] = None]
  /\ UNCHANGED <<standing, username, via, challenge, invite, req>>

Remove(m) ==
  /\ m \in Active /\ Active # {m}
  /\ standing' = [standing EXCEPT ![m] = "removed"]
  /\ UNCHANGED <<username, email, via, challenge, invite, req>>

Lapse(i) ==
  /\ invite[i] = "pending"
  /\ invite' = [invite EXCEPT ![i] = "lapsed"]
  /\ UNCHANGED <<people, challenge, req>>

Later == [cooling |-> "live", live |-> "expired"]

Age(c) ==
  /\ c \in Written /\ challenge[c].age # "expired"
  /\ challenge' = [challenge EXCEPT ![c].age = Later[@]]
  /\ UNCHANGED <<people, invite, req>>

\* otp.purge, the last part of the background sweep, drops what expired more
\* than a day ago; no request that verifies a code lasts that long.
Purge ==
  \E S \in (SUBSET Written) \ {{}} :
    /\ \A c \in S : challenge[c].age = "expired"
    /\ \A r \in Requests : req[r].op = "verify" => req[r].cid \notin S
    /\ challenge' = [c \in Challenges |-> IF c \in S THEN Purged ELSE challenge[c]]
    /\ UNCHANGED <<people, invite, req>>

\* A refused check, a rate limit, a lost client or a rolled back commit.
Abandon(r) ==
  /\ req[r] # Idle
  /\ req' = [req EXCEPT ![r] = Idle]
  /\ UNCHANGED <<people, challenge, invite>>

-----------------------------------------------------------------------------
Init ==
  /\ standing  = [m \in Members |-> IF m \in Founders THEN "active" ELSE "absent"]
  /\ username  = [m \in Members |-> IF m \in Founders THEN NameOf[m] ELSE None]
  /\ email     = [m \in Members |-> None]
  /\ via       = [m \in Members |-> None]
  /\ challenge = [c \in Challenges |-> None]
  /\ invite    = [i \in Invites |-> "absent"]
  /\ req       = [r \in Requests |-> Idle]

Request(r) ==
  \/ LoadStart(r) \/ LoadResend(r) \/ LoadVerify(r) \/ LoadRevoke(r)
  \/ CommitStart(r) \/ CommitResend(r) \/ CommitRevoke(r)
  \/ CommitWrongCode(r) \/ CommitSignup(r) \/ CommitEmailChange(r)
  \/ Abandon(r)

Background ==
  \/ \E c \in Challenges : Age(c)
  \/ \E i \in Invites : CreateInvite(i) \/ Lapse(i)
  \/ \E m \in Members : ClearEmail(m) \/ Remove(m)
  \/ Purge

Next == (\E r \in Requests : Request(r)) \/ Background

Spec == Init /\ [][Next]_vars

-----------------------------------------------------------------------------
(* Properties.                                                             *)

RequestType ==
  [op : {"idle", "start", "resend", "verify", "revoke"}, flow : Flows \cup {None},
   cid : Challenges \cup {None}, row : Rows \cup {None},
   username : Usernames \cup {None}, invite : Invites \cup {None},
   stale : SUBSET Challenges]

\* Every variable holds what the columns and the requests can hold.
TypeOK ==
  /\ standing  \in [Members -> {"absent", "active", "removed"}]
  /\ username  \in [Members -> Usernames \cup {None}]
  /\ email     \in [Members -> Emails \cup {None}]
  /\ via       \in [Members -> Invites \cup {None}]
  /\ challenge \in [Challenges -> Rows \cup {None, Purged}]
  /\ invite    \in [Invites -> {"absent", "pending", "lapsed", "accepted", "revoked"}]
  /\ req       \in [Requests -> RequestType]

\* However signups and email changes overlap, two active members never have
\* the same address (members.list_active_by_email: "new addresses are kept
\* unique by the accounts service"), with no unique index to ensure it.
EmailsUnique ==
  \A m, n \in Active : m # n /\ email[m] # None => email[m] # email[n]

\* An invitation admits one person, whatever is verified, revoked or expires
\* at the same time, and is not open to anybody once it has.
InviteAdmitsOne ==
  \A m \in Members : via[m] # None =>
    /\ invite[via[m]] \in {"accepted", "revoked"}
    /\ \A n \in Members : n # m => via[n] # via[m]

\* The row of a code that was superseded, or spent on a member, stays closed
\* until it is purged: a resend or a wrong guess that read it while it was
\* open, and commits after, does not open it again.  What a right guess that
\* read it then still achieves is another matter.
ClosedForGood ==
  [][\A c \in Written :
       ~challenge[c].open => challenge'[c] = Purged \/ ~challenge'[c].open]_vars

\* "One-time use (`consumed_at`)": a verification succeeds only with a code
\* that has been neither superseded nor spent by then.  The code decides on
\* the row it has read, so of two that read it both succeed.
DeadCodesOpenNothing ==
  [][\A r \in Requests :
       CommitSignup(r) \/ CommitEmailChange(r) => challenge[req[r].cid].open]_vars
=============================================================================
