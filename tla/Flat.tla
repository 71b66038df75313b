-------------------------------- MODULE Flat --------------------------------
(***************************************************************************)
(* What bills, recurring expenses and settlements share: the members and   *)
(* their roles (services/members.py, domain/permissions.py), the clock,    *)
(* and the requests in flight.                                             *)
(*                                                                         *)
(* A request reads first and writes later: a Load and a Commit, as in      *)
(* Complaints.  It decides on what it read; the rows may have moved on.    *)
(***************************************************************************)
EXTENDS Money

CONSTANTS
  Members,
  Tenants,      \* the tenants at the start, the others being guests
  ShareForms,   \* the rent shares that may be submitted
  Agendas,      \* the kinds of request that one behaviour mixes (bound)
  Requests,     \* request slots (bounds the requests in flight)
  RosterSlots,  \* those for requests that change the roster
  None,
  MonthLength,  \* how many clock ticks a month has
  MaxNow        \* the last clock tick considered (bound)

ASSUME MembersAssumption == Tenants \subseteq Members /\ Tenants # {} /\ IsFiniteSet(Members)
ASSUME SharesAssumption  == \A f \in ShareForms : DOMAIN f \subseteq Members
ASSUME ClockAssumption   == MonthLength \in Nat \ {0} /\ MaxNow \in Nat

VARIABLES
  role,    \* members.role
  active,  \* members.is_active
  pct,     \* members.rent_share_pct, an unset one being 0
  now,     \* the time in ticks
  agenda,  \* the kinds of request made in this behaviour; never changes
  req      \* what each request in flight has read and means to do

people == <<role, active, pct>>
flat   == <<people, now, agenda, req>>

Month == now \div MonthLength

ActiveTenants == {m \in Members : active[m] /\ role[m] = "tenant"}

TenantPcts == [m \in ActiveTenants |-> pct[m]]

-----------------------------------------------------------------------------
(* Requests.                                                               *)

Idle == [op |-> "idle", what |-> None]

\* Every route used here is for active tenants: they hold every permission.
Load(r, op, what) ==
  /\ req[r] = Idle
  /\ op \in agenda
  /\ ActiveTenants # {}
  /\ req' = [req EXCEPT ![r] = [op |-> op, what |-> what]]
  /\ UNCHANGED <<people, now, agenda>>

Finish(r, op) ==
  /\ req[r].op = op
  /\ req' = [req EXCEPT ![r] = Idle]
  /\ UNCHANGED <<now, agenda>>

\* A lost client or a rolled back commit.
Abandon(r) ==
  /\ req[r] # Idle
  /\ req' = [req EXCEPT ![r] = Idle]
  /\ UNCHANGED <<people, now, agenda>>

-----------------------------------------------------------------------------
(* The roster.                                                             *)

\* Mutant: members who have left are counted as administrators too.
CountsTheDeparted(m) ==
  role[m] = "tenant" /\ Cardinality({n \in Members : role[n] = "tenant"}) <= 1

IsLastAdmin(m) == role[m] = "tenant" /\ Cardinality(ActiveTenants) <= 1

LoadRole(r) ==
  \E m \in Members, to \in {"tenant", "guest"} :
    /\ active[m] /\ role[m] # to
    /\ to = "guest" => ~IsLastAdmin(m)
    /\ Load(r, "role", [member |-> m, role |-> to])

CommitRole(r) ==
  /\ Finish(r, "role")
  /\ role' = [role EXCEPT ![req[r].what.member] = req[r].what.role]
  /\ UNCHANGED <<active, pct>>

LoadRemove(r) ==
  \E m \in Members :
    /\ active[m]
    /\ ~IsLastAdmin(m)
    /\ Load(r, "remove", [member |-> m])

CommitRemove(r) ==
  /\ Finish(r, "remove")
  /\ active' = [active EXCEPT ![req[r].what.member] = FALSE]
  /\ UNCHANGED <<role, pct>>

LoadRentShares(r) ==
  \E f \in ShareForms :
    /\ DOMAIN f = ActiveTenants
    /\ f \in [ActiveTenants -> 0 .. 100]
    /\ Total(f) = 100
    /\ Load(r, "rentshares", [share |-> f])

CommitRentShares(r) ==
  LET f == req[r].what.share IN
  /\ Finish(r, "rentshares")
  /\ pct' = [m \in Members |-> IF m \in DOMAIN f THEN f[m] ELSE pct[m]]
  /\ UNCHANGED <<role, active>>

RosterRequest(r) ==
  \/ LoadRole(r) \/ LoadRemove(r) \/ LoadRentShares(r)
  \/ CommitRole(r) \/ CommitRemove(r) \/ CommitRentShares(r)

Tick ==
  /\ now < MaxNow
  /\ now' = now + 1
  /\ UNCHANGED <<people, agenda, req>>

FlatInit ==
  /\ role   = [m \in Members |-> IF m \in Tenants THEN "tenant" ELSE "guest"]
  /\ active = [m \in Members |-> TRUE]
  /\ pct    = [m \in Members |-> 0]
  /\ now    = 0
  /\ agenda \in Agendas
  /\ req    = [r \in Requests \cup RosterSlots |-> Idle]
=============================================================================
