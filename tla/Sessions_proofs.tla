--------------------------- MODULE Sessions_proofs ---------------------------
(***************************************************************************)
(* Theorems about Sessions, for every set of members and passwords, every  *)
(* number of sign-ins and of requests in flight, and every bound.          *)
(***************************************************************************)
EXTENDS Sessions, TLAPS

-----------------------------------------------------------------------------
(* Types.                                                                  *)

\* A request in flight is a record of what it has read.
LEMMA InFlight ==
  ASSUME TypeOK
  PROVE  /\ \A s \in SignIns : signIn[s] # Idle => signIn[s] \in [row : Rows, right : BOOLEAN]
         /\ \A e \in Endings : ending[e] # Idle =>
              ending[e] \in [row : {r \in Rows : r.version < MaxVersion}, sets : Passwords \cup {None},
                             old : SUBSET Cookies, ticket : Tickets \cup {None}]
  BY DEF TypeOK, SignInState, EndingState

LEMMA RowType == TypeOK => \A m \in Members : Row(m) \in Rows
  BY DEF TypeOK, Row, Rows

\* Forgiving the misses of a member keeps the counters' types.
LEMMA ClearType ==
  ASSUME TypeOK, NEW q \in Rows, ClearFailures(q)
  PROVE  /\ failed' \in [Members -> 0 .. MaxFailures - 1]
         /\ lock' \in [Members -> {"open", "locked", "lapsed"}]
         /\ misses' \in [Members -> Nat]
  BY BoundsAssumption DEF TypeOK, ClearFailures, Rows

\* Ending sessions stays within the bound: a request is let in only below it.
LEMMA EndType ==
  ASSUME TypeOK, NEW q \in Rows, q.version < MaxVersion, End(q)
  PROVE  /\ version' \in [Members -> 0 .. MaxVersion]
         /\ signOuts' \in [Members -> Nat]
         /\ FreshCookie(q) \in Cookies
<1>1. NextVersion(q) \in 0 .. MaxVersion /\ q.member \in Members
  BY BoundsAssumption DEF NextVersion, Rows
<1>2. version' \in [Members -> 0 .. MaxVersion] /\ signOuts' \in [Members -> Nat]
  BY <1>1 DEF End, TypeOK
<1> QED
  BY <1>1, <1>2 DEF FreshCookie, Cookies

LEMMA LoadEndingType ==
  ASSUME TypeOK, NEW e \in Endings, NEW m \in Members, NEW sets \in Passwords \cup {None},
         NEW old \in SUBSET Cookies, NEW t \in Tickets \cup {None}, LoadEnding(e, m, sets, old, t)
  PROVE  TypeOK'
<1>1. Row(m) \in {r \in Rows : r.version < MaxVersion}
  BY RowType DEF LoadEnding, Row
<1>2. ending' \in [Endings -> EndingState]
  BY <1>1 DEF LoadEnding, TypeOK, EndingState
<1> QED
  BY <1>2 DEF LoadEnding, TypeOK, account, history, resets

\* A ticket's record stays well typed when its state or its target changes.
LEMMA TicketType ==
  ASSUME TypeOK, NEW t \in Tickets,
         \/ \E s \in {"absent", "mailed", "lapsed", "granted", "stale", "spent"} :
              ticket' = [ticket EXCEPT ![t].state = s]
         \/ \E m \in Members \cup {None} : ticket' = [ticket EXCEPT ![t].member = m]
  PROVE  ticket' \in [Tickets -> TicketRows]
  BY DEF TypeOK, TicketRows

\* An ask, and a resend or trade, touch nothing but their slot and the tickets.
LEMMA ResetKeeps == Asking \/ Coding => UNCHANGED <<account, cookies, signIn, ending, history>>
  BY DEF Asking, Coding, LoadAskReset, LoadAskAgain, LoadAsk, CommitAskReset, CommitAskAgain,
         LoadResend, LoadTrade, LoadCode, CommitCode

LEMMA TypeInit == Init => TypeOK
  BY PasswordAssumption, BoundsAssumption
     DEF Init, TypeOK, TicketRows, SignInState, EndingState, AskState, CodeState

LEMMA AskType ==
  ASSUME TypeOK, Asking
  PROVE  /\ asking' \in [Asks -> AskState]
         /\ ticket' \in [Tickets -> TicketRows]
         /\ coding' = coding
<1>1. PICK a \in Asks :
        \/ \E who \in Members \cup {None} : LoadAskReset(a, who) \/ LoadAskAgain(a, who)
        \/ CommitAskReset(a) \/ CommitAskAgain(a)
  BY DEF Asking
<1>2. ASSUME NEW who \in Members \cup {None}, LoadAskReset(a, who) \/ LoadAskAgain(a, who)
      PROVE  asking' \in [Asks -> AskState] /\ ticket' = ticket /\ coding' = coding
  <2>1. PICK keeps \in Tickets \cup {None}, stale \in SUBSET Tickets : LoadAsk(a, who, keeps, stale)
    BY <1>2 DEF LoadAskReset, LoadAskAgain, Latest, LiveOf
  <2>2. [of |-> who, target |-> Target(who), keeps |-> keeps, stale |-> stale] \in AskState
    BY DEF AskState, Target
  <2> QED
    BY <2>1, <2>2 DEF LoadAsk, TypeOK
<1>3. asking[a] # Idle =>
        asking[a] \in [of : Members \cup {None}, target : Members \cup {None},
                       keeps : Tickets \cup {None}, stale : SUBSET Tickets]
  BY DEF TypeOK, AskState
<1>4. CASE CommitAskReset(a)
  BY <1>3, <1>4 DEF CommitAskReset, TypeOK, TicketRows, AskState
<1>5. CASE CommitAskAgain(a)
  <2>1. asking[a].keeps \in Tickets /\ asking[a].target \in Members \cup {None}
    BY <1>3, <1>5 DEF CommitAskAgain
  <2>2. ticket' \in [Tickets -> TicketRows]
    BY <1>5, <2>1, TicketType DEF CommitAskAgain
  <2> QED
    BY <1>5, <2>2 DEF CommitAskAgain, TypeOK, AskState
<1> QED
  BY <1>1, <1>2, <1>4, <1>5 DEF TypeOK

LEMMA CodeType ==
  ASSUME TypeOK, Coding
  PROVE  /\ coding' \in [Codes -> CodeState]
         /\ ticket' \in [Tickets -> TicketRows]
         /\ asking' = asking
<1>1. PICK k \in Codes :
        \/ \E who \in Members \cup {None} : LoadResend(k, who) \/ LoadTrade(k, who)
        \/ CommitCode(k)
  BY DEF Coding
<1>2. ASSUME NEW who \in Members \cup {None}, LoadResend(k, who) \/ LoadTrade(k, who)
      PROVE  coding' \in [Codes -> CodeState] /\ ticket' = ticket /\ asking' = asking
  <2>1. PICK t \in Tickets, trades \in BOOLEAN : LoadCode(k, t, trades)
    BY <1>2 DEF LoadResend, LoadTrade, Latest, LiveOf
  <2>2. [ticket |-> t, trades |-> trades] \in CodeState
    BY DEF CodeState
  <2> QED
    BY <2>1, <2>2 DEF LoadCode, TypeOK
<1>3. CASE CommitCode(k)
  <2>1. coding[k].ticket \in Tickets
    BY <1>3 DEF CommitCode, TypeOK, CodeState
  <2>2. ticket' \in [Tickets -> TicketRows]
    <3>1. PICK s \in {"absent", "mailed", "lapsed", "granted", "stale", "spent"} :
            ticket' = [ticket EXCEPT ![coding[k].ticket].state = s]
      BY <1>3, <2>1 DEF CommitCode, TypeOK, TicketRows
    <3> QED
      BY <2>1, <3>1, TicketType
  <2>3. coding' \in [Codes -> CodeState]
    BY <1>3 DEF CommitCode, TypeOK, CodeState
  <2> QED
    BY <1>3, <2>2, <2>3 DEF CommitCode
<1> QED
  BY <1>1, <1>2, <1>3 DEF TypeOK

LEMMA TypeInductive == TypeOK /\ [Next]_vars => TypeOK'
<1> SUFFICES ASSUME TypeOK, [Next]_vars PROVE TypeOK'
  OBVIOUS
<1>1. ASSUME NEW s \in SignIns, LoadSignIn(s) PROVE TypeOK'
  <2>1. PICK m \in Members, p \in Passwords :
          signIn' = [signIn EXCEPT ![s] = [row |-> Row(m), right |-> p = secret[m]]]
    BY <1>1 DEF LoadSignIn
  <2>2. [row |-> Row(m), right |-> p = secret[m]] \in SignInState
    BY RowType DEF SignInState
  <2>3. signIn' \in [SignIns -> SignInState]
    BY <2>1, <2>2 DEF TypeOK
  <2> QED
    BY <1>1, <2>3 DEF LoadSignIn, TypeOK, account, history, resets
<1>2. ASSUME NEW s \in SignIns, CommitSignIn(s) PROVE TypeOK'
  <2>1. signIn[s].row \in Rows
    BY <1>2, InFlight DEF CommitSignIn
  <2>2. CookieFor(signIn[s].row) \in Cookies
    BY <2>1 DEF CookieFor, Cookies, Rows
  <2>3. signIn' \in [SignIns -> SignInState]
    BY <1>2 DEF CommitSignIn, TypeOK, SignInState
  <2>4. /\ failed' \in [Members -> 0 .. MaxFailures - 1]
        /\ lock' \in [Members -> {"open", "locked", "lapsed"}]
        /\ misses' \in [Members -> Nat]
    BY <1>2, <2>1, ClearType DEF CommitSignIn
  <2> QED
    BY <1>2, <2>2, <2>3, <2>4 DEF CommitSignIn, TypeOK, resets
<1>3. ASSUME NEW s \in SignIns, CommitMiss(s) PROVE TypeOK'
  <2>1. signIn[s].row \in Rows
    BY <1>3, InFlight DEF CommitMiss
  <2>2. Counted(signIn[s].row) \in 0 .. MaxFailures - 1
    BY <2>1, BoundsAssumption DEF Counted, TooMany, Rows
  <2>3. signIn' \in [SignIns -> SignInState]
    BY <1>3 DEF CommitMiss, TypeOK, SignInState
  <2>4. misses' \in [Members -> Nat] /\ lock' \in [Members -> {"open", "locked", "lapsed"}]
    BY <1>3, <2>1 DEF CommitMiss, TypeOK, Rows
  <2>5. failed' \in [Members -> 0 .. MaxFailures - 1]
    BY <1>3, <2>1, <2>2 DEF CommitMiss, TypeOK, Rows
  <2> QED
    BY <1>3, <2>3, <2>4, <2>5 DEF CommitMiss, TypeOK, resets
<1>4. ASSUME NEW c \in cookies, Logout(c) PROVE TypeOK'
  BY <1>4 DEF Logout, TypeOK, account, history, inFlight, resets
<1>5. ASSUME NEW c \in cookies, NEW e \in Endings, LoadChangePassword(e, c) PROVE TypeOK'
  <2>1. PICK p \in Passwords : LoadEnding(e, c.member, p, {c}, None)
    BY <1>5 DEF LoadChangePassword
  <2>2. c \in Cookies /\ c.member \in Members
    BY DEF TypeOK, Cookies
  <2> QED
    BY <2>1, <2>2, LoadEndingType
<1>6. ASSUME NEW c \in cookies, NEW e \in Endings, LoadLogoutEverywhere(e, c) PROVE TypeOK'
  <2>1. c \in Cookies /\ c.member \in Members
    BY DEF TypeOK, Cookies
  <2> QED
    BY <1>6, <2>1, LoadEndingType DEF LoadLogoutEverywhere
<1>7. ASSUME NEW e \in Endings, CommitPassword(e) PROVE TypeOK'
  <2> DEFINE q == ending[e].row
  <2>1. /\ q \in Rows /\ q.version < MaxVersion
        /\ ending[e].sets \in Passwords /\ ending[e].old \subseteq Cookies
    BY <1>7, InFlight DEF CommitPassword
  <2>2. /\ version' \in [Members -> 0 .. MaxVersion]
        /\ signOuts' \in [Members -> Nat]
        /\ FreshCookie(q) \in Cookies
    BY <1>7, <2>1, EndType DEF CommitPassword
  <2>3. /\ failed' \in [Members -> 0 .. MaxFailures - 1]
        /\ lock' \in [Members -> {"open", "locked", "lapsed"}]
        /\ misses' \in [Members -> Nat]
    BY <1>7, <2>1, ClearType DEF CommitPassword
  <2>4. secret' \in [Members -> Passwords]
    BY <1>7, <2>1 DEF CommitPassword, TypeOK, Rows
  <2>5. cookies' \subseteq Cookies
    BY <1>7, <2>2 DEF CommitPassword, TypeOK
  <2>6. ending' \in [Endings -> EndingState]
    BY <1>7 DEF CommitPassword, TypeOK, EndingState
  <2>7. ticket' \in [Tickets -> TicketRows]
    BY <1>7 DEF CommitPassword, TypeOK, TicketRows
  <2> QED
    BY <1>7, <2>2, <2>3, <2>4, <2>5, <2>6, <2>7 DEF CommitPassword, TypeOK, resets
<1>8. ASSUME NEW e \in Endings, CommitLogoutEverywhere(e) PROVE TypeOK'
  <2>1. ending[e].row \in Rows /\ ending[e].row.version < MaxVersion
    BY <1>8, InFlight DEF CommitLogoutEverywhere
  <2>2. version' \in [Members -> 0 .. MaxVersion] /\ signOuts' \in [Members -> Nat]
    BY <1>8, <2>1, EndType DEF CommitLogoutEverywhere
  <2>3. ending' \in [Endings -> EndingState]
    BY <1>8 DEF CommitLogoutEverywhere, TypeOK, EndingState
  <2> QED
    BY <1>8, <2>2, <2>3 DEF CommitLogoutEverywhere, TypeOK, resets
<1>9. ASSUME Asking PROVE TypeOK'
  <2>1. asking' \in [Asks -> AskState] /\ ticket' \in [Tickets -> TicketRows] /\ coding' = coding
    BY <1>9, AskType
  <2> QED
    BY <1>9, <2>1, ResetKeeps DEF TypeOK, account, history
<1>10. ASSUME Coding PROVE TypeOK'
  <2>1. coding' \in [Codes -> CodeState] /\ ticket' \in [Tickets -> TicketRows] /\ asking' = asking
    BY <1>10, CodeType
  <2> QED
    BY <1>10, <2>1, ResetKeeps DEF TypeOK, account, history
<1>11. ASSUME NEW e \in Endings, NEW t \in Tickets, LoadRedeem(e, t) PROVE TypeOK'
  <2>1. PICK p \in Passwords : LoadEnding(e, ticket[t].member, p, {}, t)
    BY <1>11 DEF LoadRedeem
  <2>2. ticket[t].member \in Members
    BY <1>11 DEF LoadRedeem, TypeOK, TicketRows
  <2> QED
    BY <2>1, <2>2, LoadEndingType
<1>12. ASSUME Abandon PROVE TypeOK'
  <2>1. /\ signIn' \in [SignIns -> SignInState] /\ ending' \in [Endings -> EndingState]
        /\ asking' \in [Asks -> AskState] /\ coding' \in [Codes -> CodeState]
    BY <1>12 DEF Abandon, TypeOK, SignInState, EndingState, AskState, CodeState, resets
  <2> QED
    BY <1>12, <2>1 DEF Abandon, TypeOK, account, history
<1>13. ASSUME NEW m \in Members, Unlock(m) PROVE TypeOK'
  BY <1>13 DEF Unlock, TypeOK, inFlight, history, resets
<1>14. ASSUME NEW m \in Members, Remove(m) PROVE TypeOK'
  BY <1>14 DEF Remove, TypeOK, inFlight, history, resets
<1>15. ASSUME NEW t \in Tickets, Expire(t) PROVE TypeOK'
  <2>1. TooLate[ticket[t].state] \in {"lapsed", "stale"}
    BY <1>15 DEF Expire, TooLate
  <2>2. ticket' = [ticket EXCEPT ![t].state = TooLate[ticket[t].state]]
    BY <1>15 DEF Expire, TypeOK
  <2>3. ticket' \in [Tickets -> TicketRows]
    BY <2>1, <2>2, TicketType
  <2> QED
    BY <1>15, <2>3 DEF Expire, TypeOK, account, history, inFlight, resets
<1>16. CASE UNCHANGED vars
  BY <1>16 DEF vars, account, inFlight, history, TypeOK, resets
<1> QED
  BY <1>1, <1>2, <1>3, <1>4, <1>5, <1>6, <1>7, <1>8, <1>9, <1>10, <1>11, <1>12,
     <1>13, <1>14, <1>15, <1>16
     DEF Next, SigningIn, EndingSessions, Resetting

\* The columns, the cookies and what requests hold stay what they can be:
\* above all, no count of failures reaches LOGIN_MAX_FAILURES without the lock
\* taking it back to nought, and a token is only ever granted to a member.
THEOREM SessionTypes == Spec => []TypeOK
<1> QED
  BY TypeInit, TypeInductive, PTL DEF Spec

-----------------------------------------------------------------------------
(* Sessions that were ended.                                               *)

\* What the theorem below asks of the requests: two that end the sessions of
\* one member do not overlap.  (SQLite lets them: see the README.)
EndingsApart ==
  \A e, f \in Endings :
    ending[e] # Idle /\ ending[f] # Idle /\ ending[e].row.member = ending[f].row.member => e = f

\* The session version counts the bumps, and every cookie, whether it is in a
\* browser or about to be set, carries the version of its moment.
VersionCounts ==
  /\ \A m \in Members : version[m] = signOuts[m]
  /\ \A c \in cookies : c.version = c.signOuts
  /\ \A s \in SignIns : signIn[s] # Idle => signIn[s].row.version = signIn[s].row.signOuts
  /\ \A e \in Endings : ending[e] # Idle => ending[e].row.version = version[ending[e].row.member]

SessionInv == TypeOK /\ VersionCounts

\* Only ending a member's sessions moves the version.
LEMMA VersionMoves ==
  ASSUME TypeOK, [Next]_vars,
         ~\E e \in Endings : CommitPassword(e) \/ CommitLogoutEverywhere(e)
  PROVE  version' = version /\ signOuts' = signOuts
<1>1. ASSUME NEW e \in Endings, NEW m, NEW p, NEW old, NEW t, LoadEnding(e, m, p, old, t)
      PROVE  version' = version /\ signOuts' = signOuts
  BY <1>1 DEF LoadEnding, account, history
<1>2. CASE SigningIn
  BY <1>2 DEF SigningIn, LoadSignIn, CommitSignIn, CommitMiss, account, history
<1>3. CASE EndingSessions
  BY <1>1, <1>3 DEF EndingSessions, Logout, LoadChangePassword, LoadLogoutEverywhere, account, history
<1>4. CASE Resetting
  <2>1. Asking \/ Coding => version' = version /\ signOuts' = signOuts
    BY ResetKeeps DEF account, history
  <2> QED
    BY <1>1, <1>4, <2>1 DEF Resetting, LoadRedeem
<1> QED
  BY <1>2, <1>3, <1>4 DEF Next, Abandon, Unlock, Remove, Expire, vars, account, history

\* A request that ends sessions has just read the version, or has kept what it read.
LEMMA EndingKeeps ==
  ASSUME TypeOK, [Next]_vars, NEW e \in Endings, ending'[e] # Idle
  PROVE  \/ ending'[e] = ending[e]
         \/ /\ ending'[e].row.member \in Members
            /\ ending'[e].row.version = version[ending'[e].row.member]
            /\ version' = version
<1>0. ending \in [Endings -> EndingState]
  BY DEF TypeOK
<1>1. ASSUME NEW f \in Endings, NEW m \in Members, NEW p, NEW old, NEW t, LoadEnding(f, m, p, old, t)
      PROVE  \/ ending'[e] = ending[e]
             \/ /\ ending'[e].row.member \in Members
                /\ ending'[e].row.version = version[ending'[e].row.member]
                /\ version' = version
  BY <1>0, <1>1 DEF LoadEnding, Row, account
<1>2. ASSUME NEW f \in Endings, ending' = [ending EXCEPT ![f] = Idle]
      PROVE  ending'[e] = ending[e]
  BY <1>0, <1>2
<1>3. CASE SigningIn
  BY <1>3 DEF SigningIn, LoadSignIn, CommitSignIn, CommitMiss
<1>4. CASE EndingSessions
  <2>1. \A c \in cookies : c.member \in Members
    BY DEF TypeOK, Cookies
  <2> QED
    BY <1>1, <1>2, <1>4, <2>1
       DEF EndingSessions, Logout, LoadChangePassword, LoadLogoutEverywhere, CommitPassword,
           CommitLogoutEverywhere, inFlight
<1>5. CASE Resetting
  <2>1. Asking \/ Coding => ending' = ending
    BY ResetKeeps
  <2>2. \A f \in Endings, t \in Tickets : LoadRedeem(f, t) =>
          \E p \in Passwords : ticket[t].member \in Members /\ LoadEnding(f, ticket[t].member, p, {}, t)
    BY DEF LoadRedeem, TypeOK, TicketRows
  <2> QED
    BY <1>1, <1>5, <2>1, <2>2 DEF Resetting
<1>6. CASE Abandon
  BY <1>2, <1>6 DEF Abandon
<1> QED
  BY <1>3, <1>4, <1>5, <1>6 DEF Next, Unlock, Remove, Expire, vars, inFlight

\* A sign-in has just read the row, or has kept what it read.
LEMMA SignInKeeps ==
  ASSUME TypeOK, [Next]_vars, NEW s \in SignIns, signIn'[s] # Idle
  PROVE  \/ signIn'[s] = signIn[s]
         \/ \E m \in Members : /\ signIn'[s].row = Row(m)
                               /\ UNCHANGED <<account, cookies, ending, history>>
<1>0. signIn \in [SignIns -> SignInState]
  BY DEF TypeOK
<1>1. CASE SigningIn
  <2>1. ASSUME NEW r \in SignIns, LoadSignIn(r)
        PROVE  \/ signIn'[s] = signIn[s]
               \/ \E m \in Members : /\ signIn'[s].row = Row(m)
                                     /\ UNCHANGED <<account, cookies, ending, history>>
    BY <1>0, <2>1 DEF LoadSignIn
  <2>2. ASSUME NEW r \in SignIns, CommitSignIn(r) \/ CommitMiss(r)
        PROVE  signIn'[s] = signIn[s]
    BY <1>0, <2>2 DEF CommitSignIn, CommitMiss
  <2> QED
    BY <1>1, <2>1, <2>2 DEF SigningIn
<1>2. CASE EndingSessions
  BY <1>2 DEF EndingSessions, Logout, LoadChangePassword, LoadLogoutEverywhere, LoadEnding,
              CommitPassword, CommitLogoutEverywhere, inFlight
<1>3. CASE Resetting
  <2>1. Asking \/ Coding => signIn' = signIn
    BY ResetKeeps
  <2> QED
    BY <1>3, <2>1 DEF Resetting, LoadRedeem, LoadEnding
<1>4. CASE Abandon
  BY <1>0, <1>4 DEF Abandon
<1> QED
  BY <1>1, <1>2, <1>3, <1>4 DEF Next, Unlock, Remove, Expire, vars, inFlight

\* A cookie is set by a sign-in, or for the browser of whoever changed the password.
LEMMA CookieOrigin ==
  ASSUME TypeOK, [Next]_vars, NEW c \in cookies', c \notin cookies
  PROVE  \/ \E s \in SignIns : CommitSignIn(s) /\ c = CookieFor(signIn[s].row)
         \/ \E e \in Endings : CommitPassword(e) /\ c = FreshCookie(ending[e].row)
<1>1. CASE SigningIn
  BY <1>1 DEF SigningIn, LoadSignIn, CommitSignIn, CommitMiss
<1>2. CASE EndingSessions
  BY <1>2 DEF EndingSessions, Logout, LoadChangePassword, LoadLogoutEverywhere, LoadEnding,
              CommitPassword, CommitLogoutEverywhere
<1>3. CASE Resetting
  <2>1. Asking \/ Coding => cookies' = cookies
    BY ResetKeeps
  <2> QED
    BY <1>3, <2>1 DEF Resetting, LoadRedeem, LoadEnding
<1> QED
  BY <1>1, <1>2, <1>3 DEF Next, Abandon, Unlock, Remove, Expire, vars

\* What ending sessions does to the two counts of a member and of the others.
LEMMA Bump ==
  ASSUME SessionInv, NEW e \in Endings, CommitPassword(e) \/ CommitLogoutEverywhere(e)
  PROVE  /\ ending[e].row.member \in Members
         /\ version' = [version EXCEPT ![ending[e].row.member] = @ + 1]
         /\ signOuts' = [signOuts EXCEPT ![ending[e].row.member] = @ + 1]
         /\ ending' = [ending EXCEPT ![e] = Idle]
<1>1. ending[e] # Idle /\ End(ending[e].row) /\ ending' = [ending EXCEPT ![e] = Idle]
  BY DEF CommitPassword, CommitLogoutEverywhere
<1>2. ending[e].row \in Rows
  BY <1>1, InFlight DEF SessionInv, TypeOK
<1>3. ending[e].row.version = version[ending[e].row.member]
  BY <1>1 DEF SessionInv, VersionCounts
<1> QED
  BY <1>1, <1>2, <1>3 DEF End, NextVersion, Rows, SessionInv, TypeOK

LEMMA SessionStep ==
  ASSUME SessionInv, EndingsApart, [Next]_vars
  PROVE  SessionInv'
<1>1. TypeOK'
  BY TypeInductive DEF SessionInv
<1>2. \A m \in Members : version'[m] = signOuts'[m]
  <2>1. CASE \E e \in Endings : CommitPassword(e) \/ CommitLogoutEverywhere(e)
    BY <2>1, Bump DEF SessionInv, VersionCounts, TypeOK
  <2> QED
    BY <2>1, VersionMoves DEF SessionInv, VersionCounts
<1>3. ASSUME NEW c \in cookies' PROVE c.version = c.signOuts
  <2>1. CASE c \in cookies
    BY <2>1 DEF SessionInv, VersionCounts
  <2>2. ASSUME NEW s \in SignIns, CommitSignIn(s), c = CookieFor(signIn[s].row)
        PROVE  c.version = c.signOuts
    BY <2>2 DEF CommitSignIn, CookieFor, SessionInv, VersionCounts
  <2>3. ASSUME NEW e \in Endings, CommitPassword(e), c = FreshCookie(ending[e].row)
        PROVE  c.version = c.signOuts
    <3>1. /\ ending[e].row.version = version[ending[e].row.member]
          /\ ending[e].row.member \in Members
      BY <2>3, Bump DEF CommitPassword, SessionInv, VersionCounts
    <3>2. version'[ending[e].row.member] = ending[e].row.version + 1
      BY <2>3, <3>1, Bump DEF SessionInv, TypeOK
    <3> QED
      BY <1>2, <2>3, <3>1, <3>2 DEF FreshCookie, NextVersion
  <2> QED
    BY <2>1, <2>2, <2>3, CookieOrigin DEF SessionInv
<1>4. ASSUME NEW s \in SignIns, signIn'[s] # Idle
      PROVE  signIn'[s].row.version = signIn'[s].row.signOuts
  <2>1. CASE signIn'[s] = signIn[s]
    BY <1>4, <2>1 DEF SessionInv, VersionCounts
  <2>2. ASSUME NEW m \in Members, signIn'[s].row = Row(m)
        PROVE  signIn'[s].row.version = signIn'[s].row.signOuts
    BY <2>2 DEF Row, SessionInv, VersionCounts
  <2> QED
    BY <1>4, <2>1, <2>2, SignInKeeps DEF SessionInv
<1>5. ASSUME NEW e \in Endings, ending'[e] # Idle
      PROVE  ending'[e].row.version = version'[ending'[e].row.member]
  <2>1. CASE ending'[e] # ending[e]
    BY <1>5, <2>1, EndingKeeps DEF SessionInv
  <2>2. CASE ending'[e] = ending[e]
    <3>1. /\ ending[e].row.version = version[ending[e].row.member]
          /\ ending[e].row.member \in Members
      BY <1>5, <2>2, InFlight DEF SessionInv, VersionCounts, TypeOK, Rows
    <3>2. ASSUME NEW f \in Endings, CommitPassword(f) \/ CommitLogoutEverywhere(f)
          PROVE  version'[ending[e].row.member] = version[ending[e].row.member]
      <4>1. ending[f] # Idle /\ ending'[f] = Idle
        BY <3>2, Bump DEF CommitPassword, CommitLogoutEverywhere, SessionInv, TypeOK
      <4>2. e # f
        BY <1>5, <4>1
      <4>3. ending[e].row.member # ending[f].row.member
        BY <1>5, <2>2, <4>1, <4>2 DEF EndingsApart
      <4> QED
        BY <3>1, <3>2, <4>3, Bump DEF SessionInv, TypeOK
    <3> QED
      BY <2>2, <3>1, <3>2, VersionMoves DEF SessionInv
  <2> QED
    BY <2>1, <2>2
<1> QED
  BY <1>1, <1>2, <1>3, <1>4, <1>5 DEF SessionInv, VersionCounts

\* A cookie of before a member's last password change, reset or sign-out
\* everywhere does not authenticate, nor does one that was being handed out at
\* that moment: with any number of requests in flight, as long as no two that
\* end the sessions of one member overlap.
THEOREM SessionsEnd == Spec /\ []EndingsApart => []SignedOutStaysOut
<1>1. Init => SessionInv
  <2>1. Init => VersionCounts
    BY DEF Init, VersionCounts
  <2> QED
    BY <2>1, TypeInit DEF SessionInv
<1>2. SessionInv /\ EndingsApart /\ [Next]_vars => SessionInv'
  BY SessionStep
<1>3. SessionInv => SignedOutStaysOut
  BY DEF SessionInv, VersionCounts, SignedOutStaysOut, Authenticates, TypeOK, Cookies
<1> QED
  BY <1>1, <1>2, <1>3, PTL DEF Spec

-----------------------------------------------------------------------------
(* Counting misses.                                                        *)

\* What the theorem below asks: the sign-ins of one member do not overlap.
SignInsApart ==
  \A s, u \in SignIns :
    signIn[s] # Idle /\ signIn[u] # Idle /\ signIn[s].row.member = signIn[u].row.member => s = u

\* What a sign-in has read is no less than the misses there have been: others
\* may only forgive them before it counts its own.
MissesRead ==
  \A s \in SignIns : signIn[s] # Idle => misses[signIn[s].row.member] <= signIn[s].row.failed

MissInv == TypeOK /\ MissesCounted /\ MissesRead

\* The counts of a step: kept, forgiven together, or one miss counted.
LEMMA MissesMove ==
  ASSUME TypeOK, [Next]_vars
  PROVE  \/ failed' = failed /\ misses' = misses
         \/ \E q \in Rows : ClearFailures(q)
         \/ \E s \in SignIns : CommitMiss(s)
<1>1. ASSUME NEW e, NEW m, NEW p, NEW old, NEW t, LoadEnding(e, m, p, old, t)
      PROVE  failed' = failed /\ misses' = misses
  BY <1>1 DEF LoadEnding, account, history
<1>2. CASE SigningIn
  <2>1. ASSUME NEW s \in SignIns, CommitSignIn(s) PROVE \E q \in Rows : ClearFailures(q)
    BY <2>1, InFlight DEF CommitSignIn, TypeOK
  <2> QED
    BY <1>2, <2>1 DEF SigningIn, LoadSignIn, account, history
<1>3. CASE EndingSessions
  <2>1. ASSUME NEW e \in Endings, CommitPassword(e) PROVE \E q \in Rows : ClearFailures(q)
    BY <2>1, InFlight DEF CommitPassword, TypeOK
  <2> QED
    BY <1>1, <1>3, <2>1 DEF EndingSessions, Logout, LoadChangePassword, LoadLogoutEverywhere,
                            CommitLogoutEverywhere, account, history
<1>4. CASE Resetting
  <2>1. Asking \/ Coding => failed' = failed /\ misses' = misses
    BY ResetKeeps DEF account, history
  <2> QED
    BY <1>1, <1>4, <2>1 DEF Resetting, LoadRedeem
<1> QED
  BY <1>2, <1>3, <1>4 DEF Next, Abandon, Unlock, Remove, Expire, vars, account, history

LEMMA MissStep ==
  ASSUME MissInv, SignInsApart, [Next]_vars
  PROVE  MissInv'
<1> USE DEF MissInv
<1>1. TypeOK'
  BY TypeInductive
<1>2. ASSUME NEW s \in SignIns, CommitMiss(s)
      PROVE  /\ signIn[s] # Idle /\ signIn[s].row \in Rows
             /\ failed' = [failed EXCEPT ![signIn[s].row.member] = Counted(signIn[s].row)]
             /\ misses' = [misses EXCEPT ![signIn[s].row.member] =
                             IF TooMany(signIn[s].row.failed + 1) THEN 0 ELSE @ + 1]
             /\ signIn' = [signIn EXCEPT ![s] = Idle]
  BY <1>2, InFlight DEF CommitMiss, TypeOK
<1>3. MissesCounted'
  <2>1. ASSUME NEW q \in Rows, ClearFailures(q) PROVE MissesCounted'
    BY <2>1 DEF ClearFailures, MissesCounted, TypeOK, Rows
  <2>2. ASSUME NEW s \in SignIns, CommitMiss(s) PROVE MissesCounted'
    <3>1. misses[signIn[s].row.member] <= signIn[s].row.failed
      BY <1>2, <2>2 DEF MissesRead
    <3> QED
      BY <1>2, <2>2, <3>1, BoundsAssumption DEF MissesCounted, Counted, TypeOK, Rows
  <2> QED
    BY <2>1, <2>2, MissesMove DEF MissesCounted
<1>4. ASSUME NEW s \in SignIns, signIn'[s] # Idle
      PROVE  misses'[signIn'[s].row.member] <= signIn'[s].row.failed
  <2>1. ASSUME NEW m \in Members, signIn'[s].row = Row(m), UNCHANGED <<account, history>>
        PROVE  misses'[signIn'[s].row.member] <= signIn'[s].row.failed
    BY <2>1 DEF Row, MissesCounted, account, history
  <2>2. CASE signIn'[s] = signIn[s]
    <3>1. signIn[s].row \in Rows /\ misses[signIn[s].row.member] <= signIn[s].row.failed
      BY <1>4, <2>2, InFlight DEF MissesRead, TypeOK
    <3>2. ASSUME NEW q \in Rows, ClearFailures(q)
          PROVE  misses'[signIn[s].row.member] <= signIn[s].row.failed
      BY <3>1, <3>2 DEF ClearFailures, TypeOK, Rows
    <3>3. ASSUME NEW r \in SignIns, CommitMiss(r)
          PROVE  misses'[signIn[s].row.member] = misses[signIn[s].row.member]
      <4>1. r # s
        BY <1>2, <1>4, <3>3 DEF TypeOK
      <4>2. signIn[r].row.member # signIn[s].row.member
        BY <1>2, <1>4, <2>2, <3>3, <4>1 DEF SignInsApart
      <4> QED
        BY <1>2, <3>1, <3>3, <4>2 DEF TypeOK, Rows
    <3> QED
      BY <2>2, <3>1, <3>2, <3>3, MissesMove
  <2> QED
    BY <1>4, <2>1, <2>2, SignInKeeps
<1> QED
  BY <1>1, <1>3, <1>4 DEF MissesRead

\* No wrong password is forgotten, whatever resets, password changes and
\* roll-backs fall between its comparison and its counting, and whatever the
\* other members do: as long as the sign-ins of one member do not overlap.
THEOREM MissesStay == Spec /\ []SignInsApart => []MissesCounted
<1>1. Init => MissInv
  <2>1. Init => MissesCounted /\ MissesRead
    BY DEF Init, MissesCounted, MissesRead
  <2> QED
    BY <2>1, TypeInit DEF MissInv
<1>2. MissInv /\ SignInsApart /\ [Next]_vars => MissInv'
  BY MissStep
<1>3. MissInv => MissesCounted
  BY DEF MissInv
<1> QED
  BY <1>1, <1>2, <1>3, PTL DEF Spec

-----------------------------------------------------------------------------
(* Resets.                                                                 *)

\* What the theorem below asks: no two asks for one address overlap that
\* supersede what is open for it.  (SQLite lets them: see the README.)
AsksApart ==
  \A a, b \in Asks :
    /\ asking[a] # Idle /\ asking[a].keeps = None
    /\ asking[b] # Idle /\ asking[b].keeps = None
    /\ asking[a].of = asking[b].of
    => a = b

\* What an ask in flight is going to supersede is all that is open.
AllRead ==
  \A a \in Asks :
    asking[a] # Idle /\ asking[a].keeps = None => LiveOf(asking[a].of) \subseteq asking[a].stale

OneWayInv == TypeOK /\ OneWayIn /\ AllRead

\* No ticket changes its address, and none comes back to life.
Kept ==
  \A t \in Tickets : /\ Live(t)' => Live(t)
                     /\ ticket[t].state # "absent" => ticket'[t].of = ticket[t].of

\* Whatever a step does but opening a new ticket leaves at most what was open.
LEMMA KeptSuffices ==
  ASSUME TypeOK, OneWayIn, Kept
  PROVE  /\ OneWayIn'
         /\ \A who : LiveOf(who)' \subseteq LiveOf(who)
  BY DEF Kept, OneWayIn, Live, LiveOf

\* Every other step keeps the tickets in that sense.
LEMMA TicketsKept ==
  ASSUME TypeOK, [Next]_vars, ~\E a \in Asks : CommitAskReset(a)
  PROVE  Kept
<1>1. ASSUME NEW t \in Tickets, NEW s, Live(t), ticket' = [ticket EXCEPT ![t].state = s]
      PROVE  Kept
  BY <1>1 DEF TypeOK, TicketRows, Live, Kept
<1>2. ticket' = ticket => Kept
  BY DEF Live, Kept
<1>3. ASSUME NEW a \in Asks, CommitAskAgain(a) PROVE Kept
  BY <1>3 DEF CommitAskAgain, TypeOK, TicketRows, Live, Kept
<1>4. ASSUME NEW k \in Codes, CommitCode(k) PROVE Kept
  BY <1>4 DEF CommitCode, TypeOK, TicketRows, Live, Kept
<1>5. ASSUME NEW e \in Endings, CommitPassword(e) PROVE Kept
  BY <1>5 DEF CommitPassword, TypeOK, TicketRows, Live, Kept
<1>6. ASSUME NEW t \in Tickets, Expire(t) PROVE Kept
  <2>1. ticket' = [ticket EXCEPT ![t].state = TooLate[ticket[t].state]]
    BY <1>6 DEF Expire, TypeOK
  <2> QED
    BY <1>1, <1>6, <2>1 DEF Expire, TooLate, Live
<1>7. ASSUME NEW e, NEW m, NEW p, NEW old, NEW t, LoadEnding(e, m, p, old, t)
      PROVE  ticket' = ticket
  BY <1>7 DEF LoadEnding
<1>8. CASE SigningIn
  BY <1>2, <1>8 DEF SigningIn, LoadSignIn, CommitSignIn, CommitMiss
<1>9. CASE EndingSessions
  BY <1>2, <1>5, <1>7, <1>9 DEF EndingSessions, Logout, LoadChangePassword, LoadLogoutEverywhere,
                                CommitLogoutEverywhere
<1>10. CASE Asking
  BY <1>2, <1>3, <1>10 DEF Asking, LoadAskReset, LoadAskAgain, LoadAsk
<1>11. CASE Coding
  BY <1>2, <1>4, <1>11 DEF Coding, LoadResend, LoadTrade, LoadCode
<1>12. CASE \E e \in Endings, t \in Tickets : LoadRedeem(e, t)
  BY <1>2, <1>7, <1>12 DEF LoadRedeem
<1> QED
  BY <1>2, <1>6, <1>8, <1>9, <1>10, <1>11, <1>12 DEF Next, Resetting, Abandon, Unlock, Remove, vars

\* An ask in flight has just read what is open, or has kept what it read.
LEMMA AskKeeps ==
  ASSUME TypeOK, [Next]_vars, NEW a \in Asks, asking'[a] # Idle, asking'[a].keeps = None
  PROVE  \/ asking'[a] = asking[a]
         \/ asking'[a].stale = LiveOf(asking'[a].of) /\ ticket' = ticket
<1>0. asking \in [Asks -> AskState]
  BY DEF TypeOK
<1>1. asking' = asking => asking'[a] = asking[a]
  OBVIOUS
<1>2. ASSUME NEW b \in Asks, asking' = [asking EXCEPT ![b] = Idle] PROVE asking'[a] = asking[a]
  BY <1>0, <1>2
<1>3. ASSUME NEW b \in Asks, NEW who \in Members \cup {None}, LoadAskReset(b, who)
      PROVE  \/ asking'[a] = asking[a]
             \/ asking'[a].stale = LiveOf(asking'[a].of) /\ ticket' = ticket
  BY <1>0, <1>3 DEF LoadAskReset, LoadAsk
<1>4. ASSUME NEW b \in Asks, NEW who \in Members \cup {None}, LoadAskAgain(b, who)
      PROVE  asking'[a] = asking[a]
  <2>1. PICK t \in Tickets : LoadAsk(b, who, t, {})
    BY <1>4 DEF LoadAskAgain, Latest, LiveOf
  <2>2. CASE a # b
    BY <1>0, <2>1, <2>2 DEF LoadAsk
  <2>3. CASE a = b
    <3>1. asking'[a].keeps = t
      BY <1>0, <2>1, <2>3 DEF LoadAsk
    <3> QED
      BY <3>1, NoneAssumption DEF Tickets
  <2> QED
    BY <2>2, <2>3
<1>5. CASE Asking
  BY <1>2, <1>3, <1>4, <1>5 DEF Asking, CommitAskReset, CommitAskAgain
<1>6. CASE Abandon
  BY <1>1, <1>2, <1>6 DEF Abandon, resets
<1>7. ASSUME NEW e, NEW m, NEW p, NEW old, NEW t, LoadEnding(e, m, p, old, t)
      PROVE  asking' = asking
  BY <1>7 DEF LoadEnding, resets
<1>8. CASE SigningIn
  BY <1>1, <1>8 DEF SigningIn, LoadSignIn, CommitSignIn, CommitMiss, resets
<1>9. CASE EndingSessions
  BY <1>1, <1>7, <1>9 DEF EndingSessions, Logout, LoadChangePassword, LoadLogoutEverywhere,
                          CommitPassword, CommitLogoutEverywhere, inFlight, resets
<1>10. CASE Coding
  BY <1>1, <1>10 DEF Coding, LoadResend, LoadTrade, LoadCode, CommitCode
<1>11. CASE \E e \in Endings, t \in Tickets : LoadRedeem(e, t)
  BY <1>1, <1>7, <1>11 DEF LoadRedeem
<1> QED
  BY <1>1, <1>5, <1>6, <1>8, <1>9, <1>10, <1>11 DEF Next, Resetting, Unlock, Remove, Expire, vars,
                                                   inFlight, resets

LEMMA OneWayStep ==
  ASSUME OneWayInv, AsksApart, [Next]_vars
  PROVE  OneWayInv'
<1> USE DEF OneWayInv
<1>1. TypeOK'
  BY TypeInductive
<1>2. CASE ~\E a \in Asks : CommitAskReset(a)
  <2>1. OneWayIn' /\ \A who : LiveOf(who)' \subseteq LiveOf(who)
    BY <1>2, TicketsKept, KeptSuffices
  <2>2. ASSUME NEW a \in Asks, asking'[a] # Idle, asking'[a].keeps = None
        PROVE  (LiveOf(asking[a].of) \subseteq asking[a].stale)'
    <3>1. LiveOf(asking'[a].of) \subseteq asking'[a].stale
      BY <2>2, AskKeeps DEF AllRead
    <3> QED
      BY <2>1, <3>1 DEF LiveOf, Live
  <2>3. AllRead'
    BY <2>2 DEF AllRead
  <2> QED
    BY <1>1, <2>1, <2>3
<1>3. ASSUME NEW a \in Asks, CommitAskReset(a) PROVE OneWayInv'
  <2> DEFINE q == asking[a]
  <2>1. PICK new \in Tickets :
         /\ ticket[new].state = "absent"
         /\ ticket' = [t \in Tickets |->
              IF t = new THEN [of |-> q.of, member |-> q.target, state |-> "mailed"]
              ELSE IF t \in q.stale THEN [ticket[t] EXCEPT !.state = "spent"]
              ELSE ticket[t]]
    BY <1>3 DEF CommitAskReset
  <2>2. q # Idle /\ q.keeps = None /\ LiveOf(q.of) \subseteq q.stale
    BY <1>3 DEF CommitAskReset, AllRead
  <2>3. ticket'[new].of = q.of
    BY <2>1
  <2>4. \A t \in Tickets \ {new} : Live(t)' => Live(t) /\ ticket'[t].of = ticket[t].of /\ ticket[t].of # q.of
    <3>1. ASSUME NEW t \in Tickets \ {new}, Live(t)'
          PROVE  t \notin q.stale /\ ticket'[t] = ticket[t]
      BY <2>1, <3>1 DEF Live, TypeOK, TicketRows
    <3> QED
      BY <2>2, <3>1 DEF Live, LiveOf
  <2>5. OneWayIn'
    BY <2>3, <2>4 DEF OneWayIn
  <2>6. ASSUME NEW b \in Asks, asking'[b] # Idle, asking'[b].keeps = None
        PROVE  (LiveOf(asking[b].of) \subseteq asking[b].stale)'
    <3>1. a # b /\ asking'[b] = asking[b]
      BY <1>3, <2>6 DEF CommitAskReset, TypeOK
    <3>2. asking[b].of # q.of
      BY <2>2, <2>6, <3>1 DEF AsksApart
    <3>3. LiveOf(asking[b].of) \subseteq asking[b].stale
      BY <2>6, <3>1 DEF AllRead
    <3>4. ASSUME NEW t \in Tickets, Live(t)', ticket'[t].of = asking[b].of
          PROVE  t \in asking[b].stale
      <4>1. t # new
        BY <2>3, <3>2, <3>4
      <4> QED
        BY <2>4, <3>3, <3>4, <4>1 DEF LiveOf
    <3> QED
      BY <3>1, <3>4 DEF LiveOf
  <2>7. AllRead'
    BY <2>6 DEF AllRead
  <2> QED
    BY <1>1, <2>5, <2>7
<1> QED
  BY <1>2, <1>3

\* As long as no two asks for one address overlap, at most one reset is open
\* for it at any time, codes already traded for a token included, whatever
\* resends, trades, redemptions and removals are in flight meanwhile.
THEOREM OneReset == Spec /\ []AsksApart => []OneWayIn
<1>1. Init => OneWayInv
  BY TypeInit DEF Init, OneWayInv, OneWayIn, AllRead, Live
<1>2. OneWayInv /\ AsksApart /\ [Next]_vars => OneWayInv'
  BY OneWayStep
<1>3. OneWayInv => OneWayIn
  BY DEF OneWayInv
<1> QED
  BY <1>1, <1>2, <1>3, PTL DEF Spec

=============================================================================
