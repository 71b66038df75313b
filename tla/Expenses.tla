------------------------------ MODULE Expenses ------------------------------
(***************************************************************************)
(* The shared money of the flat: services/expenses.py, rent.py,            *)
(* balances.py and settle_up.py with domain/splits.py, money.py and        *)
(* settle.py.  A balance is never stored: it is folded from the expenses,  *)
(* their splits and the payments.                                          *)
(*                                                                         *)
(* A request reads first and takes the write lock with its first flush, so *)
(* it is a Load and a Commit, as in Complaints; nothing here carries a     *)
(* version.  With a single request slot no two requests overlap.           *)
(*                                                                         *)
(* Payments to the house (no payee) are left out, they enter no balance    *)
(* among members; so are methods, notes, events and notifications.         *)
(***************************************************************************)
EXTENDS Money, Sequences

CONSTANTS
  Members,       \* member ids; they also break ties among transfers
  Tenants,       \* the tenants at the start, the others being guests
  Moving,        \* those whose role may change
  Costs,         \* what members may enter: amount, weight of each sharer, rent or not
  RentPayments,  \* the amounts of rent a tenant may front
  RentTarget,    \* settings.monthly_rent, of the one month considered
  Transfers,     \* the payments members may record directly
  Requests,      \* request slots (bounds the requests in flight)
  None,          \* nothing cached
  MaxExpenses,   \* bound on the number of expenses
  MaxPlanned,    \* bound on the number of transfers proposed
  MaxSent        \* bound on what a direct payment may bring a pair to

\* A number for each person of some group: of rupees, which the database
\* keeps from being negative, or a weight, which nothing does.
Allotment(f) == DOMAIN f \subseteq Members /\ f \in [DOMAIN f -> Nat]
Weighting(f) == DOMAIN f \subseteq Members /\ f \in [DOMAIN f -> Int]

NonNegative(f) == \A m \in DOMAIN f : f[m] >= 0

TransferType == [from : Members, to : Members, amount : Nat \ {0}]

ASSUME MembersAssumption  == Members \subseteq Nat /\ IsFiniteSet(Members)
ASSUME TenantsAssumption  == Tenants \cup Moving \subseteq Members
ASSUME InputsAssumption   ==
  /\ \A cost \in Costs : /\ cost.amount \in Nat \ {0}
                          /\ cost.rent \in BOOLEAN
                          /\ Weighting(cost.weights)
  /\ Transfers \subseteq TransferType
  /\ \A p \in Transfers : p.from # p.to
  /\ RentPayments \subseteq Nat \ {0}
ASSUME BoundsAssumption   == {RentTarget, MaxExpenses, MaxPlanned, MaxSent} \subseteq Nat

VARIABLES
  role,      \* role[m]: "tenant", "guest" or "gone"
  expense,   \* the expenses in the order they were entered
  sent,      \* sent[m][n]: what m has paid n, in all
  fresh,     \* the direct payments recorded within the last 60 seconds
  transfer,  \* settle_txns, in the order they were proposed
  received,  \* received[t]: the payments recorded against transfer t
  req        \* what each request in flight has read and means to do

rows == <<role, expense, sent, fresh, transfer, received>>
vars == <<rows, req>>

-----------------------------------------------------------------------------
(* Splitting an amount.                                                    *)

Splits(cost) == LargestRemainder(cost.amount, cost.weights)

\* CHECK (owed_amount >= 0) on every split: an insert it refuses fails the
\* whole request.
Storable(share) == NonNegative(share)

-----------------------------------------------------------------------------
(* Balances.                                                               *)

ActiveTenants == {m \in Members : role[m] = "tenant"}

Live == {e \in DOMAIN expense : expense[e].status # "void"}

Fronted(m) ==
  Total([e \in {e \in Live : expense[e].payer = m} |-> expense[e].amount])

Share(m) ==
  Total([e \in {e \in Live : m \in DOMAIN expense[e].share} |-> expense[e].share[m]])

SettleNet(m) ==
  Fronted(m) - Share(m) + Total(sent[m]) - Total([n \in Members |-> sent[n][m]])

RentCollected ==
  Total([e \in {e \in Live : expense[e].rent} |-> expense[e].amount])

-----------------------------------------------------------------------------
(* The debt simplifier.                                                    *)

Size(n) == IF n < 0 THEN -n ELSE n

Largest(net, S) ==
  CHOOSE m \in S : \A n \in S \ {m} :
    Size(net[m]) > Size(net[n]) \/ (Size(net[m]) = Size(net[n]) /\ m < n)

Debtors(net)   == {m \in DOMAIN net : net[m] < 0}
Creditors(net) == {m \in DOMAIN net : net[m] > 0}

\* Mutant: whoever has paid or been paid once is not looked at again.
SimplifyOnce(nets) ==
  LET plan[net \in [DOMAIN nets -> Int]] ==
        IF Debtors(net) = {} \/ Creditors(net) = {} THEN <<>>
        ELSE LET d   == Largest(net, Debtors(net))
                 c   == Largest(net, Creditors(net))
                 pay == IF -net[d] < net[c] THEN -net[d] ELSE net[c] IN
             <<[from |-> d, to |-> c, amount |-> pay]>>
               \o plan[[net EXCEPT ![d] = 0, ![c] = 0]]
  IN plan[nets]

Simplify(nets) ==
  LET plan[net \in [DOMAIN nets -> Int]] ==
        IF Debtors(net) = {} \/ Creditors(net) = {} THEN <<>>
        ELSE LET d   == Largest(net, Debtors(net))
                 c   == Largest(net, Creditors(net))
                 pay == IF -net[d] < net[c] THEN -net[d] ELSE net[c] IN
             <<[from |-> d, to |-> c, amount |-> pay]>>
               \o plan[[net EXCEPT ![d] = @ + pay, ![c] = @ - pay]]
  IN plan[nets]

PeerNets == [m \in ActiveTenants |-> SettleNet(m)]

-----------------------------------------------------------------------------
(* Requests: reading.                                                      *)

Idle == [op |-> "idle", cost |-> None, payer |-> None, id |-> 0,
         cached |-> None, transfer |-> None, amount |-> 0, plan |-> <<>>]

\* Only an active tenant gets past the route and the service.
Load(r, op, more) ==
  /\ req[r] = Idle
  /\ req' = [req EXCEPT ![r] = [more EXCEPT !.op = op]]
  /\ UNCHANGED rows

\* Ratios, shares and fixed amounts must not be negative; percentages need
\* only total 100.
Shareable(cost) ==
  /\ DOMAIN cost.weights # {}
  /\ DOMAIN cost.weights \subseteq ActiveTenants
  /\ Total(cost.weights) > 0
  /\ \/ NonNegative(cost.weights)
     \/ Total(cost.weights) = 100

LoadCreate(r) ==
  \E cost \in Costs, payer \in ActiveTenants :
    /\ Shareable(cost)
    /\ Load(r, "create", [Idle EXCEPT !.cost = cost, !.payer = payer])

\* The amount still open is read before the lock is held.  Rent shares are
\* taken as not set: the tenants then share the rent equally.
LoadRent(r) ==
  \E amount \in RentPayments, payer \in ActiveTenants :
    /\ RentCollected + amount <= RentTarget
    /\ Load(r, "create", [Idle EXCEPT !.payer = payer,
              !.cost = [amount |-> amount, rent |-> TRUE,
                        weights |-> [m \in ActiveTenants |-> 1]]])

\* Only the payer of a live expense edits or deletes it.
MayEdit(e) == expense[e].payer \in ActiveTenants /\ expense[e].status # "void"

LoadEdit(r) ==
  \E e \in DOMAIN expense, cost \in Costs :
    /\ MayEdit(e)
    /\ Shareable(cost)
    /\ Load(r, "edit", [Idle EXCEPT !.id = e, !.cost = cost, !.cached = expense[e]])

LoadVoid(r) ==
  \E e \in DOMAIN expense : MayEdit(e) /\ Load(r, "void", [Idle EXCEPT !.id = e])

LoadPay(r) ==
  \E p \in Transfers :
    /\ {p.from, p.to} \subseteq ActiveTenants
    /\ p \notin fresh
    /\ Load(r, "pay", [Idle EXCEPT !.transfer = p])

\* preview() is computed before the first flush.  The simplifier refuses
\* balances that do not cancel out: the request then ends in an error.
LoadClose(r) ==
  /\ ActiveTenants # {}
  /\ Total(PeerNets) = 0
  /\ Simplify(PeerNets) # <<>>
  /\ Load(r, "close", [Idle EXCEPT !.plan = Simplify(PeerNets)])

\* Mutant: a transfer that was called off can still be paid.
MaySettleAgain(t) ==
  /\ {transfer[t].from, transfer[t].to} \cap ActiveTenants # {}
  /\ transfer[t].paid < transfer[t].amount

\* One of the two parties, and a tenant.
MaySettle(t) ==
  /\ {transfer[t].from, transfer[t].to} \cap ActiveTenants # {}
  /\ transfer[t].status = "proposed"

\* Mutant: the payment may exceed what is outstanding.
PayableInExcess(t) == 1..transfer[t].amount

Payable(t) == 1..(transfer[t].amount - transfer[t].paid)

LoadSettle(r) ==
  \E t \in DOMAIN transfer :
    /\ MaySettle(t)
    /\ \E amount \in Payable(t) :
         Load(r, "settle", [Idle EXCEPT !.id = t, !.cached = transfer[t], !.amount = amount])

LoadCancel(r) ==
  \E t \in DOMAIN transfer : MaySettle(t) /\ Load(r, "cancel", [Idle EXCEPT !.id = t])

-----------------------------------------------------------------------------
(* Requests: writing.                                                      *)

Finish(r, op) == req[r].op = op /\ req' = [req EXCEPT ![r] = Idle]

\* The ORM writes the columns in which the row wanted differs from the row
\* cached, over whatever the row has become.
Written(live, cached, wanted, c) == IF wanted[c] # cached[c] THEN wanted[c] ELSE live[c]

CommitCreate(r) ==
  LET cost == req[r].cost IN
  /\ Finish(r, "create")
  /\ Len(expense) < MaxExpenses
  /\ \E share \in Splits(cost) :
       /\ Storable(share)
       /\ expense' = Append(expense, [payer |-> req[r].payer, amount |-> cost.amount,
                       rent |-> cost.rent, weights |-> cost.weights,
                       share |-> share, status |-> "confirmed"])
  /\ UNCHANGED <<role, sent, fresh, transfer, received>>

\* The splits are deleted and entered anew, whatever the row keeps.
CommitEdit(r) ==
  LET e    == req[r].id
      New(c) == Written(expense[e], req[r].cached, req[r].cost, c) IN
  /\ Finish(r, "edit")
  /\ \E share \in Splits(req[r].cost) :
       /\ Storable(share)
       /\ expense' = [expense EXCEPT ![e].amount = New("amount"), ![e].rent = New("rent"),
                                     ![e].weights = New("weights"), ![e].share = share]
  /\ UNCHANGED <<role, sent, fresh, transfer, received>>

CommitVoid(r) ==
  /\ Finish(r, "void")
  /\ expense' = [expense EXCEPT ![req[r].id].status = "void"]
  /\ UNCHANGED <<role, sent, fresh, transfer, received>>

CommitPay(r) ==
  LET p == req[r].transfer IN
  /\ Finish(r, "pay")
  /\ sent[p.from][p.to] + p.amount <= MaxSent
  /\ sent' = [sent EXCEPT ![p.from][p.to] = @ + p.amount]
  /\ fresh' = fresh \cup {p}
  /\ UNCHANGED <<role, expense, transfer, received>>

CommitClose(r) ==
  LET plan == req[r].plan IN
  /\ Finish(r, "close")
  /\ Len(transfer) + Len(plan) <= MaxPlanned
  /\ transfer' = transfer \o [i \in DOMAIN plan |->
       [from |-> plan[i].from, to |-> plan[i].to, amount |-> plan[i].amount,
        paid |-> 0, status |-> "proposed"]]
  /\ received' = received \o [i \in DOMAIN plan |-> 0]
  /\ UNCHANGED <<role, expense, sent, fresh>>

\* Mutant: a part payment is ticked off but not recorded.
SettleUnrecorded(t, cached, amount) ==
  /\ transfer' = [transfer EXCEPT ![t].paid = cached.paid + amount,
       ![t].status = IF cached.paid + amount = cached.amount THEN "paid" ELSE @]
  /\ UNCHANGED <<sent, received>>

\* The payment is always recorded; the running total is the cached one.
Settle(t, cached, amount) ==
  /\ transfer' = [transfer EXCEPT ![t].paid = cached.paid + amount,
       ![t].status = IF cached.paid + amount = cached.amount THEN "paid" ELSE @]
  /\ sent' = [sent EXCEPT ![cached.from][cached.to] = @ + amount]
  /\ received' = [received EXCEPT ![t] = @ + amount]

CommitSettle(r) ==
  /\ Finish(r, "settle")
  /\ Settle(req[r].id, req[r].cached, req[r].amount)
  /\ UNCHANGED <<role, expense, fresh>>

CommitCancel(r) ==
  /\ Finish(r, "cancel")
  /\ transfer' = [transfer EXCEPT ![req[r].id].status = "cancelled"]
  /\ UNCHANGED <<role, expense, sent, fresh, received>>

\* An error, a lock timeout, a lost client or a restart.
Abandon(r) ==
  /\ req[r] # Idle
  /\ req' = [req EXCEPT ![r] = Idle]
  /\ UNCHANGED rows

-----------------------------------------------------------------------------
(* Time and the member service.                                            *)

Age(p) ==
  /\ p \in fresh
  /\ fresh' = fresh \ {p}
  /\ UNCHANGED <<role, expense, sent, transfer, received, req>>

\* members.change_role and members.remove, guarded against the last admin.
ChangeRole(m) ==
  /\ role[m] # "gone"
  /\ \E new \in {"tenant", "guest", "gone"} \ {role[m]} :
       /\ role[m] = "tenant" => ActiveTenants # {m}
       /\ role' = [role EXCEPT ![m] = new]
  /\ UNCHANGED <<expense, sent, fresh, transfer, received, req>>

-----------------------------------------------------------------------------
Init ==
  /\ role     = [m \in Members |-> IF m \in Tenants THEN "tenant" ELSE "guest"]
  /\ expense  = <<>>
  /\ sent     = [m \in Members |-> [n \in Members |-> 0]]
  /\ fresh    = {}
  /\ transfer = <<>>
  /\ received = <<>>
  /\ req      = [r \in Requests |-> Idle]

Request(r) ==
  \/ LoadCreate(r) \/ LoadRent(r) \/ LoadEdit(r) \/ LoadVoid(r) \/ LoadPay(r)
  \/ LoadClose(r) \/ LoadSettle(r) \/ LoadCancel(r)
  \/ CommitCreate(r) \/ CommitEdit(r) \/ CommitVoid(r) \/ CommitPay(r)
  \/ CommitClose(r) \/ CommitSettle(r) \/ CommitCancel(r)
  \/ Abandon(r)

Next ==
  \/ \E r \in Requests : Request(r)
  \/ \E p \in Transfers : Age(p)
  \/ \E m \in Moving : ChangeRole(m)

Spec == Init /\ [][Next]_vars

-----------------------------------------------------------------------------
(* Properties.                                                             *)

ExpenseOK(x) ==
  /\ x.payer \in Members
  /\ x.amount \in Nat \ {0}
  /\ x.rent \in BOOLEAN
  /\ x.status \in {"confirmed", "void"}
  /\ Weighting(x.weights)
  /\ Allotment(x.share)

PlannedType ==
  [from : Members, to : Members, amount : Nat \ {0}, paid : Nat,
   status : {"proposed", "paid", "cancelled"}]

\* Every variable holds values the columns admit: in particular no share is
\* negative and no transfer shows more paid than it asks for, though the
\* running total may be written from a stale row.
TypeOK ==
  /\ role     \in [Members -> {"tenant", "guest", "gone"}]
  /\ \A e \in DOMAIN expense : ExpenseOK(expense[e])
  /\ sent     \in [Members -> [Members -> Nat]]
  /\ fresh    \subseteq Transfers
  /\ transfer \in Seq(PlannedType)
  /\ received \in Seq(Nat)
  /\ Len(received) = Len(transfer)
  /\ \A t \in DOMAIN transfer : transfer[t].paid <= transfer[t].amount

\* However payments of one transfer overlap, it never shows more as paid
\* than the money recorded for it, and a transfer marked as paid has been
\* paid in full.
NeverShort ==
  \A t \in DOMAIN transfer :
    /\ transfer[t].paid <= received[t]
    /\ transfer[t].status = "paid" => received[t] >= transfer[t].amount

\* Each share of an expense is less than a rupee away from the exact
\* proportion of its weight, and the shares cover the amount; they add up to
\* it, to the rupee, unless a percentage is negative.
SharesFollowWeights ==
  \A e \in Live :
    LET x == expense[e]
        W == Total(x.weights) IN
    /\ DOMAIN x.share = DOMAIN x.weights
    /\ Total(x.share) >= x.amount
    /\ NonNegative(x.weights) => Total(x.share) = x.amount
    /\ \A m \in DOMAIN x.share :
         LET off == x.share[m] * W - x.amount * x.weights[m] IN -W < off /\ off < W

\* When a settle-up is closed, paying the transfers it proposes would square
\* everybody they mention, and there are fewer of them than such people.
SettleSquares ==
  [][LET new       == (Len(transfer) + 1)..Len(transfer')
         parties   == UNION {{transfer'[t].from, transfer'[t].to} : t \in new}
         Pays(m)   == Total([t \in {t \in new : transfer'[t].from = m} |-> transfer'[t].amount])
         Gets(m)   == Total([t \in {t \in new : transfer'[t].to = m} |-> transfer'[t].amount])
     IN /\ \A m \in parties : SettleNet(m) + Pays(m) - Gets(m) = 0
        /\ new # {} => Cardinality(new) < Cardinality(parties)]_vars

Plan == INSTANCE TransferPlan
          WITH money <- received,
               plan  <- [t \in DOMAIN transfer |-> [amount |-> transfer[t].amount,
                           paid |-> transfer[t].paid, status |-> transfer[t].status]]

\* As long as requests do not overlap, transfers are paid off or called off
\* for good, and show exactly the money recorded for them.
FollowsPlan == Plan!Spec

\* "Every strategy compiles a set of participants + a total into
\* per-participant owed amounts that sum to *exactly* the total".  With a
\* negative percentage they do not: 200 %, -50 % and -50 % of one rupee are
\* stored as 2, 0 and 0.
SumToExactly == \A e \in Live : Total(expense[e].share) = expense[e].amount

\* "This component always sums to zero across members": the precondition of
\* the simplifier, on the balances it is given.
AlwaysSettleable == Total(PeerNets) = 0

\* A step taken while no request is in flight, such as the removal or the
\* demotion of a tenant, does not take the flat from balances that can be
\* settled up to balances that cannot.  The code lets a tenant go whose
\* balance is open.
StaysSettleable ==
  [][(\A r \in Requests : req[r] = Idle) /\ AlwaysSettleable => AlwaysSettleable']_vars
=============================================================================
