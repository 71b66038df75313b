------------------------------ MODULE Sessions ------------------------------
(***************************************************************************)
(* Passwords, sign-in and session cookies: services/accounts.py, the       *)
(* password part of services/verification.py, and the session version that *)
(* api/deps.current_member compares with the cookie.                       *)
(*                                                                         *)
(* A request reads rows and writes later, under the lock.  A sign-in, a    *)
(* request that ends sessions (a new password, a sign-out everywhere), an  *)
(* ask for a reset, and a resend or a trade of its code each have these    *)
(* two steps and overlap with everything else.  How a code is guessed and  *)
(* limited is the same engine as in Accounts.                              *)
(***************************************************************************)
EXTENDS Integers

CONSTANTS
  Members,
  Passwords,
  FirstPassword,
  MaxFailures,   \* settings.login_max_failures
  MaxTickets,    \* bound on the password resets asked for
  MaxVersion,    \* bound on how often sessions are ended
  SignIns,       \* slots for sign-ins in flight (bound)
  Endings,       \* slots for requests in flight that end sessions (bound)
  Asks,          \* slots for asks for a reset in flight (bound)
  Codes,         \* slots for resends and trades of codes in flight (bound)
  None

ASSUME NoneAssumption     == None \notin Members \cup 1 .. MaxTickets
ASSUME PasswordAssumption == FirstPassword \in Passwords
ASSUME BoundsAssumption   == /\ MaxFailures \in Nat \ {0}
                             /\ {MaxTickets, MaxVersion} \subseteq Nat

VARIABLES
  active,    \* members.is_active
  secret,    \* members.password_hash
  version,   \* members.session_version
  failed,    \* members.failed_logins
  lock,      \* members.locked_until: none, to come or past
  ticket,    \* the password_reset challenges, oldest first
  cookies,   \* the session cookies in browsers
  signIn,    \* what each sign-in in flight has read
  ending,    \* what each request in flight that ends sessions has read
  asking,    \* what each ask for a reset in flight has read
  coding,    \* what each resend or trade of a code in flight has read
  signOuts,  \* history: how often a member's sessions were ended
  misses     \* history: wrong passwords since the last success, lock or reset

account  == <<active, secret, version, failed, lock>>
history  == <<signOuts, misses>>
resets   == <<asking, coding>>
inFlight == <<signIn, ending, resets>>
vars     == <<account, ticket, cookies, inFlight, history>>

Tickets == 1 .. MaxTickets

Idle == [row |-> None]

\* current_member: the cookie's member, unless the version moved on.
Authenticates(c) == active[c.member] /\ c.version = version[c.member]

\* What a request reads of a member's row.
Row(m) ==
  [member |-> m, version |-> version[m], failed |-> failed[m], lock |-> lock[m],
   signOuts |-> signOuts[m]]

\* Only columns that differ from what was read are written.
ClearFailures(q) ==
  /\ failed' = IF q.failed # 0 THEN [failed EXCEPT ![q.member] = 0] ELSE failed
  /\ lock'   = IF q.lock # "open" THEN [lock EXCEPT ![q.member] = "open"] ELSE lock
  /\ misses' = [misses EXCEPT ![q.member] = 0]

-----------------------------------------------------------------------------
(* Signing in.                                                             *)

\* A locked account is not even compared; a right password only helps
\* somebody who is still a member.
LoadSignIn(s) ==
  \E m \in Members, p \in Passwords :
    /\ signIn[s] = Idle
    /\ lock[m] # "locked"
    /\ p = secret[m] => active[m]
    /\ signIn' = [signIn EXCEPT ![s] = [row |-> Row(m), right |-> p = secret[m]]]
    /\ UNCHANGED <<account, ticket, cookies, ending, resets, history>>

\* Mutant: the cookie gets the version of the moment it is written.
CookieOfTheMoment(q) ==
  [member |-> q.member, version |-> version[q.member], signOuts |-> q.signOuts]

CookieFor(q) == [member |-> q.member, version |-> q.version, signOuts |-> q.signOuts]

CommitSignIn(s) ==
  LET q == signIn[s].row IN
  /\ signIn[s] # Idle /\ signIn[s].right
  /\ ClearFailures(q)
  /\ cookies' = cookies \cup {CookieFor(q)}
  /\ signIn'  = [signIn EXCEPT ![s] = Idle]
  /\ UNCHANGED <<active, secret, version, ticket, ending, resets, signOuts>>

\* Mutant: one miss too many is allowed.
AllowsOneMore(n) == n > MaxFailures

TooMany(n) == n >= MaxFailures

\* Mutant: the count is rolled back with the request, except by the lock.
Forgotten(q) == IF TooMany(q.failed + 1) THEN 0 ELSE q.failed

\* The count is kept although the request fails (persist=True).
Counted(q) == IF TooMany(q.failed + 1) THEN 0 ELSE q.failed + 1

CommitMiss(s) ==
  LET q == signIn[s].row
      locks == TooMany(q.failed + 1) IN
  /\ signIn[s] # Idle /\ ~signIn[s].right
  /\ failed' = [failed EXCEPT ![q.member] = Counted(q)]
  /\ lock'   = [lock EXCEPT ![q.member] = IF locks THEN "locked" ELSE @]
  /\ misses' = [misses EXCEPT ![q.member] = IF locks THEN 0 ELSE @ + 1]
  /\ signIn' = [signIn EXCEPT ![s] = Idle]
  /\ UNCHANGED <<active, secret, version, ticket, cookies, ending, resets, signOuts>>

-----------------------------------------------------------------------------
(* Ending sessions and changing passwords.                                 *)

LoadEnding(e, m, sets, old, t) ==
  /\ ending[e] = Idle
  /\ version[m] < MaxVersion
  /\ ending' = [ending EXCEPT ![e] = [row |-> Row(m), sets |-> sets, old |-> old, ticket |-> t]]
  /\ UNCHANGED <<account, ticket, cookies, signIn, resets, history>>

LoadChangePassword(e, c) ==
  \E p \in Passwords :
    /\ Authenticates(c)
    /\ p # secret[c.member]
    /\ LoadEnding(e, c.member, p, {c}, None)

LoadLogoutEverywhere(e, c) ==
  /\ Authenticates(c)
  /\ LoadEnding(e, c.member, None, {c}, None)

LoadRedeem(e, t) ==
  \E p \in Passwords :
    /\ ticket[t].state = "granted"
    /\ ticket[t].member # None /\ active[ticket[t].member]
    /\ LoadEnding(e, ticket[t].member, p, {}, t)

\* Every cookie handed out so far stops authenticating.
NextVersion(q) == q.version + 1

End(q) ==
  /\ version'  = [version EXCEPT ![q.member] = NextVersion(q)]
  /\ signOuts' = [signOuts EXCEPT ![q.member] = @ + 1]

\* The caller's own browser gets a cookie of the new version and stays in.
FreshCookie(q) ==
  [member |-> q.member, version |-> NextVersion(q), signOuts |-> signOuts'[q.member]]

\* _set_password; a redeemed token is spent.
CommitPassword(e) ==
  LET q == ending[e].row IN
  /\ ending[e] # Idle /\ ending[e].sets # None
  /\ secret' = [secret EXCEPT ![q.member] = ending[e].sets]
  /\ End(q)
  /\ ClearFailures(q)
  /\ cookies' = (cookies \ ending[e].old) \cup {FreshCookie(q)}
  /\ ticket' = [t \in Tickets |->
       IF t = ending[e].ticket THEN [ticket[t] EXCEPT !.state = "spent"] ELSE ticket[t]]
  /\ ending' = [ending EXCEPT ![e] = Idle]
  /\ UNCHANGED <<active, signIn, resets>>

CommitLogoutEverywhere(e) ==
  /\ ending[e] # Idle /\ ending[e].sets = None
  /\ End(ending[e].row)
  /\ cookies' = cookies \ ending[e].old
  /\ ending' = [ending EXCEPT ![e] = Idle]
  /\ UNCHANGED <<active, secret, failed, lock, ticket, signIn, resets, misses>>

Logout(c) ==
  /\ cookies' = cookies \ {c}
  /\ UNCHANGED <<account, ticket, inFlight, history>>

\* A lost client or a rolled back commit.
Abandon ==
  /\ \/ \E s \in SignIns : /\ signIn[s] # Idle
                           /\ signIn' = [signIn EXCEPT ![s] = Idle]
                           /\ UNCHANGED <<ending, resets>>
     \/ \E e \in Endings : /\ ending[e] # Idle
                           /\ ending' = [ending EXCEPT ![e] = Idle]
                           /\ UNCHANGED <<signIn, resets>>
     \/ \E a \in Asks : /\ asking[a] # Idle
                        /\ asking' = [asking EXCEPT ![a] = Idle]
                        /\ UNCHANGED <<signIn, ending, coding>>
     \/ \E k \in Codes : /\ coding[k] # Idle
                         /\ coding' = [coding EXCEPT ![k] = Idle]
                         /\ UNCHANGED <<signIn, ending, asking>>
  /\ UNCHANGED <<account, ticket, cookies, history>>

-----------------------------------------------------------------------------
(* Resetting a forgotten password.  A ticket is a challenge row: mailed,   *)
(* lapsed (its code expired), granted (its code was traded for a token),   *)
(* stale (its token expired) or spent (consumed_at).                       *)

Live(t) == ticket[t].state \notin {"absent", "spent"}

\* Mutant: a challenge that was verified is not looked at any more.
UnverifiedOf(who) == {t \in Tickets : ticket[t].of = who /\ ticket[t].state \in {"mailed", "lapsed"}}

LiveOf(who) == {t \in Tickets : Live(t) /\ ticket[t].of = who}

\* An address that belongs to no active member gets a decoy.
Target(who) == IF who # None /\ active[who] THEN who ELSE None

\* latest_open: the newest challenge that is open for the address, if any.
Latest(who) == {t \in LiveOf(who) : \A u \in LiveOf(who) : u <= t}

LoadAsk(a, who, keeps, stale) ==
  /\ asking[a] = Idle
  /\ asking' = [asking EXCEPT ![a] =
       [of |-> who, target |-> Target(who), keeps |-> keeps, stale |-> stale]]
  /\ UNCHANGED <<account, ticket, cookies, signIn, ending, coding, history>>

\* Inside the cooldown the mailed challenge is kept; only a target that
\* changed is written.
LoadAskAgain(a, who) ==
  \E t \in Latest(who) :
    /\ ticket[t].state = "mailed" /\ ticket[t].member # Target(who)
    /\ LoadAsk(a, who, t, {})

CommitAskAgain(a) ==
  LET q == asking[a] IN
  /\ q # Idle /\ q.keeps # None
  /\ ticket' = [ticket EXCEPT ![q.keeps].member = q.target]
  /\ asking' = [asking EXCEPT ![a] = Idle]
  /\ UNCHANGED <<account, cookies, signIn, ending, coding, history>>

\* Otherwise whatever was open for the address when it was read is superseded.
LoadAskReset(a, who) == LoadAsk(a, who, None, LiveOf(who))

CommitAskReset(a) ==
  LET q == asking[a] IN
  \E new \in Tickets :
    /\ q # Idle /\ q.keeps = None
    /\ ticket[new].state = "absent"
    /\ \A t \in Tickets : t < new => ticket[t].state # "absent"
    /\ ticket' = [t \in Tickets |->
         IF t = new THEN [of |-> q.of, member |-> q.target, state |-> "mailed"]
         ELSE IF t \in q.stale THEN [ticket[t] EXCEPT !.state = "spent"]
         ELSE ticket[t]]
    /\ asking' = [asking EXCEPT ![a] = Idle]
    /\ UNCHANGED <<account, cookies, signIn, ending, coding, history>>

LoadCode(k, t, trades) ==
  /\ coding[k] = Idle
  /\ coding' = [coding EXCEPT ![k] = [ticket |-> t, trades |-> trades]]
  /\ UNCHANGED <<account, ticket, cookies, signIn, ending, asking, history>>

LoadResend(k, who) ==
  \E t \in Latest(who) : ticket[t].state \in {"mailed", "lapsed"} /\ LoadCode(k, t, FALSE)

\* A decoy's code, even if it were guessed, is never traded for a token.
LoadTrade(k, who) ==
  \E t \in Latest(who) :
    ticket[t].state = "mailed" /\ ticket[t].member # None /\ LoadCode(k, t, TRUE)

\* A new expiry, a new token: neither opens a challenge that was consumed
\* meanwhile, nor forgets that its code was verified.
CommitCode(k) ==
  LET t == coding[k].ticket IN
  /\ coding[k] # Idle
  /\ ticket' = [ticket EXCEPT ![t].state =
       IF coding[k].trades /\ Live(t) THEN "granted" ELSE IF @ = "lapsed" THEN "mailed" ELSE @]
  /\ coding' = [coding EXCEPT ![k] = Idle]
  /\ UNCHANGED <<account, cookies, signIn, ending, asking, history>>

-----------------------------------------------------------------------------
(* Time, and members who leave.                                            *)

Unlock(m) ==
  /\ lock[m] = "locked"
  /\ lock' = [lock EXCEPT ![m] = "lapsed"]
  /\ UNCHANGED <<active, secret, version, failed, ticket, cookies, inFlight, history>>

TooLate == [mailed |-> "lapsed", granted |-> "stale"]

Expire(t) ==
  /\ ticket[t].state \in DOMAIN TooLate
  /\ ticket' = [ticket EXCEPT ![t].state = TooLate[@]]
  /\ UNCHANGED <<account, cookies, inFlight, history>>

Remove(m) ==
  /\ active[m]
  /\ active' = [active EXCEPT ![m] = FALSE]
  /\ UNCHANGED <<secret, version, failed, lock, ticket, cookies, inFlight, history>>

Init ==
  /\ active   = [m \in Members |-> TRUE]
  /\ secret   = [m \in Members |-> FirstPassword]
  /\ version  = [m \in Members |-> 0]
  /\ failed   = [m \in Members |-> 0]
  /\ lock     = [m \in Members |-> "open"]
  /\ ticket   = [t \in Tickets |-> [of |-> None, member |-> None, state |-> "absent"]]
  /\ cookies  = {}
  /\ signIn   = [s \in SignIns |-> Idle]
  /\ ending   = [e \in Endings |-> Idle]
  /\ asking   = [a \in Asks |-> Idle]
  /\ coding   = [k \in Codes |-> Idle]
  /\ signOuts = [m \in Members |-> 0]
  /\ misses   = [m \in Members |-> 0]

SigningIn == \E s \in SignIns : LoadSignIn(s) \/ CommitSignIn(s) \/ CommitMiss(s)

EndingSessions ==
  \/ \E c \in cookies : \/ Logout(c)
                       \/ \E e \in Endings : LoadChangePassword(e, c) \/ LoadLogoutEverywhere(e, c)
  \/ \E e \in Endings : CommitPassword(e) \/ CommitLogoutEverywhere(e)

Asking ==
  \E a \in Asks :
    \/ \E who \in Members \cup {None} : LoadAskReset(a, who) \/ LoadAskAgain(a, who)
    \/ CommitAskReset(a) \/ CommitAskAgain(a)

Coding ==
  \E k \in Codes :
    \/ \E who \in Members \cup {None} : LoadResend(k, who) \/ LoadTrade(k, who)
    \/ CommitCode(k)

Resetting ==
  \/ Asking \/ Coding
  \/ \E e \in Endings, t \in Tickets : LoadRedeem(e, t)

Next ==
  \/ SigningIn \/ EndingSessions \/ Resetting \/ Abandon
  \/ \E m \in Members : Unlock(m) \/ Remove(m)
  \/ \E t \in Tickets : Expire(t)

Spec == Init /\ [][Next]_vars

-----------------------------------------------------------------------------
(* Properties.                                                             *)

Rows ==
  [member : Members, version : 0 .. MaxVersion, failed : 0 .. MaxFailures - 1,
   lock : {"open", "locked", "lapsed"}, signOuts : Nat]

Cookies == [member : Members, version : 0 .. MaxVersion, signOuts : Nat]

TicketRows ==
  [of : Members \cup {None}, member : Members \cup {None},
   state : {"absent", "mailed", "lapsed", "granted", "stale", "spent"}]

\* A sign-in in flight, a request in flight that ends sessions (the row read
\* is at a version that may still be raised), and those of the resets.
SignInState == {Idle} \cup [row : Rows, right : BOOLEAN]
EndingState ==
  {Idle} \cup [row : {r \in Rows : r.version < MaxVersion}, sets : Passwords \cup {None},
               old : SUBSET Cookies, ticket : Tickets \cup {None}]
AskState ==
  {Idle} \cup [of : Members \cup {None}, target : Members \cup {None},
               keeps : Tickets \cup {None}, stale : SUBSET Tickets]
CodeState == {Idle} \cup [ticket : Tickets, trades : BOOLEAN]

\* Every variable holds what the columns, cookies and requests can hold.
TypeOK ==
  /\ active  \in [Members -> BOOLEAN]
  /\ secret  \in [Members -> Passwords]
  /\ version \in [Members -> 0 .. MaxVersion]
  /\ failed  \in [Members -> 0 .. MaxFailures - 1]
  /\ lock    \in [Members -> {"open", "locked", "lapsed"}]
  /\ ticket  \in [Tickets -> TicketRows]
  /\ cookies \subseteq Cookies
  /\ signIn \in [SignIns -> SignInState]
  /\ ending \in [Endings -> EndingState]
  /\ asking \in [Asks -> AskState]
  /\ coding \in [Codes -> CodeState]
  /\ {signOuts, misses} \subseteq [Members -> Nat]

\* A cookie "minted before the member's last session-version bump (password
\* change, reset, log out everywhere) no longer authenticates" (deps.py), nor
\* does one whose password was compared before the bump and that reaches the
\* browser after it.
SignedOutStaysOut ==
  \A c \in cookies : Authenticates(c) => c.signOuts = signOuts[c.member]

\* While sign-ins do not overlap with one another, no wrong password is
\* forgotten, however resets and changes fall between its comparison and its
\* counting: "LOGIN_MAX_FAILURES consecutive misses lock the account", with
\* counters that "persist even though the failed request rolls back"
\* (accounts.authenticate).
MissesCounted == \A m \in Members : misses[m] <= failed[m]

\* While asks for one address do not overlap, asking for a reset again kills
\* whatever was open for it, a code traded for a token included and one whose
\* trade or resend is in flight meanwhile (otp.issue: "older open challenges
\* for the same flow are superseded"): one way in at a time.
OneWayIn ==
  \A t, u \in Tickets : Live(t) /\ Live(u) /\ ticket[t].of = ticket[u].of => t = u
=============================================================================
