-------------------------- MODULE Household_proofs --------------------------
(***************************************************************************)
(* Theorems about Household, for every flat, whatever is declared, spent   *)
(* and fined, any number of requests in flight, and every bound.           *)
(***************************************************************************)
EXTENDS Household, Money_proofs

-----------------------------------------------------------------------------
(* What the variables hold.                                                *)

Slots == Requests \cup RosterSlots

Allotments == UNION {[S -> Nat] : S \in SUBSET Members}

\* An amount divided among members.
Divided(share, total) == share \in Allotments /\ Total(share) = total

RoleAsked   == [member : Members, role : {"tenant", "guest"}]
RemoveAsked == [member : Members]
SharesAsked == [share : UNION {[S -> 0 .. 100] : S \in SUBSET Members}]
BillAsked   == {q \in [payer : Members, total : Nat, share : Allotments] : Divided(q.share, q.total)}
ChargeAsked == {q \in [amount : Int, share : Allotments] : Divided(q.share, -q.amount)}
EntryAsked  == [amount : Int, member : Members]

\* The figures of a period: the pot is what goes to the rent and what is left,
\* and what is left is what the tenants are paid.
SettlementRow ==
  {s \in [from : Int, to : 0 .. MaxNow, fines : SUBSET Fines, pot : Nat \ {0},
          applied : Int, leftover : Nat, payout : Allotments] :
     s.pot = s.applied + s.leftover /\ Divided(s.payout, s.leftover)}

BillColumns ==
  [payer : Members, total : Nat, share : Allotments,
   status : {"pending", "confirmed", "disputed"}, deadline : 0 .. MaxNow,
   resolved : BOOLEAN, paid : SUBSET Members]

\* The shares of a bill make up its total, and none is paid before it was
\* confirmed.
BillRow ==
  {b \in BillColumns : /\ Divided(b.share, b.total)
                       /\ b.paid \subseteq DOMAIN b.share
                       /\ b.status = "confirmed" => b.resolved
                       /\ b.paid # {} => b.resolved}

RequestOK(q) ==
  \/ q = Idle
  \/ q.op = "role"       /\ q.what \in RoleAsked
  \/ q.op = "remove"     /\ q.what \in RemoveAsked
  \/ q.op = "rentshares" /\ q.what \in SharesAsked
  \/ q.op = "bill"       /\ q.what \in BillAsked
  \/ q.op = "dispute"    /\ q.what \in [bill : Nat]
  \/ q.op = "share"      /\ q.what \in [bill : Nat, member : Members]
  \/ q.op = "template"   /\ q.what \in TemplateForms
  \/ q.op = "close"      /\ q.what \in SettlementRow
  \/ q.op = "charge"     /\ q.what \in ChargeAsked
  \/ q.op = "entry"      /\ q.what \in EntryAsked

RequestsOK == DOMAIN req = Slots /\ \A r \in Slots : RequestOK(req[r])

PeopleOK ==
  /\ role \in [Members -> {"tenant", "guest"}] /\ active \in [Members -> BOOLEAN]
  /\ pct \in [Members -> 0 .. 100]
  /\ now \in 0 .. MaxNow

FlatOK == PeopleOK /\ RequestsOK

BillsOK == bill \in Seq(BillRow)

\* A share that is being paid belongs to a bill that was confirmed.
SharesConfirmed ==
  \A r \in Slots : req[r].op = "share" =>
    LET b == req[r].what.bill IN
    b \in DOMAIN bill /\ req[r].what.member \in DOMAIN bill[b].share /\ bill[b].resolved

RecurringRow == [template : TemplateForms, status : {"active", "paused"}, months : SUBSET (0 .. MaxNow)]

PlansOK ==
  /\ template \subseteq TemplateForms
  /\ recurring \in Seq(RecurringRow)
  /\ \A k \in DOMAIN recurring : /\ recurring[k].template \in template
                                 /\ recurring[k].months \subseteq 0 .. Month

PotOK ==
  /\ fine \in [Fines -> [owed : BOOLEAN, resolved : Int, paid : BOOLEAN, paidAt : Int]]
  /\ settlement \in Seq(SettlementRow)
  /\ ledger \in [Members -> Int]
  /\ booked \in Int

Leftovers == Total([i \in DOMAIN settlement |-> settlement[i].leftover])

LedgerBalances == Total(ledger) = booked + Leftovers

HouseholdInv == FlatOK /\ BillsOK /\ SharesConfirmed /\ PlansOK /\ PotOK /\ LedgerBalances

-----------------------------------------------------------------------------
(* Requests and the roster.                                                *)

LEMMA AllotmentIs ==
  ASSUME NEW S \in SUBSET Members, NEW f \in [S -> Nat]
  PROVE  f \in Allotments
BY DEF Allotments

LEMMA AllotmentOf ==
  ASSUME NEW f \in Allotments
  PROVE  DOMAIN f \in SUBSET Members /\ f \in [DOMAIN f -> Nat] /\ f \in [DOMAIN f -> Int]
         /\ IsFiniteSet(DOMAIN f)
BY MembersAssumption, FS_Subset DEF Allotments

\* A slot is given a request of its own, or cleared.
LEMMA RequestSet ==
  ASSUME RequestsOK, NEW r \in Slots, NEW q, RequestOK(q), req' = [req EXCEPT ![r] = q]
  PROVE  RequestsOK' /\ req'[r] = q /\ \A s \in Slots : s # r => req'[s] = req[s]
<1>1. DOMAIN req' = Slots /\ req'[r] = q /\ \A s \in Slots : s # r => req'[s] = req[s]
  BY DEF RequestsOK
<1>2. \A s \in Slots : RequestOK(req'[s])
  BY <1>1 DEF RequestsOK
<1>3. \A s \in Slots : RequestOK(req[s])'
  BY <1>2 DEF RequestOK
<1> QED
  BY <1>1, <1>3 DEF RequestsOK

LEMMA LoadKeeps ==
  ASSUME FlatOK, NEW r \in Slots, NEW op, NEW what, Load(r, op, what),
         RequestOK([op |-> op, what |-> what])
  PROVE  /\ FlatOK' /\ req[r] = Idle /\ ActiveTenants # {}
         /\ req'[r] = [op |-> op, what |-> what]
         /\ \A s \in Slots : s # r => req'[s] = req[s]
<1>1. /\ req' = [req EXCEPT ![r] = [op |-> op, what |-> what]]
      /\ req[r] = Idle /\ ActiveTenants # {}
      /\ UNCHANGED <<people, now, agenda>>
  BY DEF Load
<1>2. /\ RequestsOK' /\ req'[r] = [op |-> op, what |-> what]
      /\ \A s \in Slots : s # r => req'[s] = req[s]
  BY <1>1, RequestSet DEF FlatOK
<1>3. PeopleOK'
  BY <1>1 DEF FlatOK, PeopleOK, people
<1> QED
  BY <1>1, <1>2, <1>3 DEF FlatOK

\* A slot cleared, whether its request was carried out or given up.
LEMMA FinishKeeps ==
  ASSUME RequestsOK, NEW r \in Slots, req' = [req EXCEPT ![r] = Idle]
  PROVE  RequestsOK' /\ req'[r] = Idle /\ \A s \in Slots : s # r => req'[s] = req[s]
<1>1. RequestOK(Idle)
  BY DEF RequestOK
<1> QED
  BY <1>1, RequestSet

\* What a request of some kind asks for.
LEMMA AskedFor ==
  ASSUME RequestsOK, NEW r \in Slots
  PROVE  /\ req[r].op = "role"       => req[r].what \in RoleAsked
         /\ req[r].op = "remove"     => req[r].what \in RemoveAsked
         /\ req[r].op = "rentshares" => req[r].what \in SharesAsked
         /\ req[r].op = "bill"       => req[r].what \in BillAsked
         /\ req[r].op = "dispute"    => req[r].what \in [bill : Nat]
         /\ req[r].op = "share"      => req[r].what \in [bill : Nat, member : Members]
         /\ req[r].op = "template"   => req[r].what \in TemplateForms
         /\ req[r].op = "close"      => req[r].what \in SettlementRow
         /\ req[r].op = "charge"     => req[r].what \in ChargeAsked
         /\ req[r].op = "entry"      => req[r].what \in EntryAsked
<1>1. RequestOK(req[r])
  BY DEF RequestsOK
<1>2. req[r] = Idle => req[r].op = "idle"
  BY DEF Idle
<1> QED
  BY <1>1, <1>2 DEF RequestOK

LEMMA RosterKeeps ==
  ASSUME FlatOK, NEW r \in Slots, RosterRequest(r)
  PROVE  FlatOK' /\ \A s \in Slots : req'[s].op = "share" => req'[s] = req[s]
<1>0. PeopleOK /\ RequestsOK
  BY DEF FlatOK
<1>1. CASE LoadRole(r)
  <2>1. PICK m \in Members, to \in {"tenant", "guest"} : Load(r, "role", [member |-> m, role |-> to])
    BY <1>1 DEF LoadRole
  <2>2. RequestOK([op |-> "role", what |-> [member |-> m, role |-> to]])
    BY DEF RequestOK, RoleAsked
  <2> QED
    BY <2>1, <2>2, LoadKeeps
<1>2. CASE LoadRemove(r)
  <2>1. PICK m \in Members : Load(r, "remove", [member |-> m])
    BY <1>2 DEF LoadRemove
  <2>2. RequestOK([op |-> "remove", what |-> [member |-> m]])
    BY DEF RequestOK, RemoveAsked
  <2> QED
    BY <2>1, <2>2, LoadKeeps
<1>3. CASE LoadRentShares(r)
  <2>1. PICK f \in ShareForms : f \in [ActiveTenants -> 0 .. 100] /\ Load(r, "rentshares", [share |-> f])
    BY <1>3 DEF LoadRentShares
  <2>2. [share |-> f] \in SharesAsked
    BY <2>1 DEF SharesAsked, ActiveTenants
  <2>3. RequestOK([op |-> "rentshares", what |-> [share |-> f]])
    BY <2>2 DEF RequestOK
  <2> QED
    BY <2>1, <2>3, LoadKeeps
<1>4. CASE CommitRole(r)
  <2>1. /\ req[r].op = "role" /\ req' = [req EXCEPT ![r] = Idle] /\ UNCHANGED <<now, agenda, active, pct>>
        /\ role' = [role EXCEPT ![req[r].what.member] = req[r].what.role]
    BY <1>4 DEF CommitRole, Finish
  <2>2. req[r].what \in RoleAsked
    BY <1>0, <2>1, AskedFor
  <2>3. RequestsOK' /\ req'[r] = Idle /\ \A s \in Slots : s # r => req'[s] = req[s]
    BY <1>0, <2>1, FinishKeeps
  <2>4. PeopleOK'
    BY <1>0, <2>1, <2>2 DEF PeopleOK, RoleAsked
  <2> QED
    BY <2>3, <2>4 DEF FlatOK, Idle
<1>5. CASE CommitRemove(r)
  <2>1. /\ req[r].op = "remove" /\ req' = [req EXCEPT ![r] = Idle] /\ UNCHANGED <<now, agenda, role, pct>>
        /\ active' = [active EXCEPT ![req[r].what.member] = FALSE]
    BY <1>5 DEF CommitRemove, Finish
  <2>2. req[r].what \in RemoveAsked
    BY <1>0, <2>1, AskedFor
  <2>3. RequestsOK' /\ req'[r] = Idle /\ \A s \in Slots : s # r => req'[s] = req[s]
    BY <1>0, <2>1, FinishKeeps
  <2>4. PeopleOK'
    BY <1>0, <2>1, <2>2 DEF PeopleOK, RemoveAsked
  <2> QED
    BY <2>3, <2>4 DEF FlatOK, Idle
<1>6. CASE CommitRentShares(r)
  <2> DEFINE f == req[r].what.share
  <2>1. /\ req[r].op = "rentshares" /\ req' = [req EXCEPT ![r] = Idle] /\ UNCHANGED <<now, agenda, role, active>>
        /\ pct' = [m \in Members |-> IF m \in DOMAIN f THEN f[m] ELSE pct[m]]
    BY <1>6 DEF CommitRentShares, Finish
  <2>2. req[r].what \in SharesAsked
    BY <1>0, <2>1, AskedFor
  <2>3. \A m \in DOMAIN f : f[m] \in 0 .. 100
    BY <2>2 DEF SharesAsked
  <2>4. RequestsOK' /\ req'[r] = Idle /\ \A s \in Slots : s # r => req'[s] = req[s]
    BY <1>0, <2>1, FinishKeeps
  <2> HIDE DEF f
  <2>5. PeopleOK'
    BY <1>0, <2>1, <2>3 DEF PeopleOK
  <2> QED
    BY <2>4, <2>5 DEF FlatOK, Idle
<1> QED
  BY <1>1, <1>2, <1>3, <1>4, <1>5, <1>6 DEF RosterRequest

LEMMA AbandonKeeps ==
  ASSUME FlatOK, NEW r \in Slots, Abandon(r)
  PROVE  FlatOK' /\ \A s \in Slots : req'[s].op = "share" => req'[s] = req[s]
<1>1. req' = [req EXCEPT ![r] = Idle] /\ UNCHANGED <<role, active, pct, now>>
  BY DEF Abandon, people
<1>2. RequestsOK' /\ req'[r] = Idle /\ \A s \in Slots : s # r => req'[s] = req[s]
  BY <1>1, FinishKeeps DEF FlatOK
<1>3. PeopleOK'
  BY <1>1 DEF FlatOK, PeopleOK
<1> QED
  BY <1>2, <1>3 DEF FlatOK, Idle

\* What is confirmed stays confirmed, and belongs to whom it belonged.
LEMMA SharesStay ==
  ASSUME SharesConfirmed, \A s \in Slots : req'[s].op = "share" => req'[s] = req[s],
         \A b \in DOMAIN bill : /\ b \in DOMAIN bill' /\ bill'[b].share = bill[b].share
                                /\ bill[b].resolved => bill'[b].resolved
  PROVE  SharesConfirmed'
BY DEF SharesConfirmed

-----------------------------------------------------------------------------
(* Dividing among the active tenants.                                      *)

LEMMA TenantsDivide ==
  ASSUME PeopleOK, ActiveTenants # {}, NEW total \in Nat
  PROVE  /\ \A share \in SplitByRatio(total, TenantPcts) : Divided(share, total)
         /\ \A share \in SplitByRatio(total, Even(ActiveTenants)) : Divided(share, total)
         /\ \A share \in SplitByRatio(total, RentRatioWeights(TenantPcts)) : Divided(share, total)
<1>1. ActiveTenants \in SUBSET Members /\ IsFiniteSet(ActiveTenants)
  BY MembersAssumption, FS_Subset DEF ActiveTenants
<1>2. TenantPcts \in [ActiveTenants -> Nat] /\ DOMAIN TenantPcts = ActiveTenants
  BY <1>1 DEF TenantPcts, PeopleOK
<1>3. Even(ActiveTenants) \in [ActiveTenants -> Nat]
  BY DEF Even
<1>4. ASSUME NEW weights \in [ActiveTenants -> Nat], NEW share \in SplitByRatio(total, weights)
      PROVE  Divided(share, total)
  <2>1. share \in [ActiveTenants -> Nat] /\ Total(share) = total
    BY <1>1, <1>4, RatioSplitAddsUp
  <2> QED
    BY <1>1, <2>1, AllotmentIs DEF Divided
<1>5. RentRatioWeights(TenantPcts) \in [ActiveTenants -> Nat]
  BY <1>2, <1>3 DEF RentRatioWeights
<1> QED
  BY <1>2, <1>3, <1>4, <1>5

-----------------------------------------------------------------------------
(* Bills.                                                                  *)

LEMMA Appended ==
  ASSUME NEW S, NEW list \in Seq(S), NEW e \in S
  PROVE  /\ Append(list, e) \in Seq(S)
         /\ Len(Append(list, e)) = Len(list) + 1
         /\ Append(list, e)[Len(list) + 1] = e
         /\ DOMAIN list = 1 .. Len(list)
         /\ DOMAIN Append(list, e) = 1 .. Len(list) + 1
         /\ \A i \in 1 .. Len(list) : Append(list, e)[i] = list[i]
OBVIOUS

\* A list rewritten row by row.
LEMMA Rewritten ==
  ASSUME NEW S, NEW list \in Seq(S), NEW new, new = [i \in DOMAIN list |-> new[i]],
         \A i \in DOMAIN list : new[i] \in S
  PROVE  new \in Seq(S) /\ DOMAIN new = DOMAIN list
<1>1. Len(list) \in Nat /\ DOMAIN list = 1 .. Len(list)
  OBVIOUS
<1>2. new \in [1 .. Len(list) -> S]
  BY <1>1
<1> QED
  BY <1>1, <1>2

\* A bill disputed, paid a share of, or confirmed is still one.
LEMMA BillDisputed ==
  ASSUME NEW x \in BillRow, NEW y, y = [x EXCEPT !.status = "disputed"]
  PROVE  y \in BillRow /\ y.share = x.share /\ y.resolved = x.resolved
<1>1. x \in BillColumns
  BY DEF BillRow
<1>2. /\ y \in BillColumns /\ y.status = "disputed" /\ y.paid = x.paid
      /\ y.share = x.share /\ y.total = x.total /\ y.resolved = x.resolved
  BY <1>1 DEF BillColumns
<1> QED
  BY <1>2 DEF BillRow

LEMMA BillSharePaid ==
  ASSUME NEW x \in BillRow, x.resolved, NEW m \in DOMAIN x.share, m \in Members,
         NEW y, y = [x EXCEPT !.paid = x.paid \cup {m}]
  PROVE  y \in BillRow /\ y.share = x.share /\ y.resolved = x.resolved
<1>1. x \in BillColumns
  BY DEF BillRow
<1>2. /\ y \in BillColumns /\ y.status = x.status /\ y.paid = x.paid \cup {m}
      /\ y.share = x.share /\ y.total = x.total /\ y.resolved = x.resolved
  BY <1>1 DEF BillColumns
<1> QED
  BY <1>2 DEF BillRow

LEMMA BillConfirmed ==
  ASSUME NEW x \in BillRow, NEW y, y = [x EXCEPT !.status = "confirmed", !.resolved = TRUE]
  PROVE  y \in BillRow /\ y.share = x.share /\ y.resolved
<1>1. x \in BillColumns
  BY DEF BillRow
<1>2. /\ y \in BillColumns /\ y.status = "confirmed" /\ y.paid = x.paid
      /\ y.share = x.share /\ y.total = x.total /\ y.resolved = TRUE
  BY <1>1 DEF BillColumns
<1> QED
  BY <1>2 DEF BillRow

LEMMA BillLoads ==
  ASSUME FlatOK, BillsOK, SharesConfirmed, NEW r \in Slots,
         LoadBill(r) \/ LoadDispute(r) \/ LoadSharePaid(r)
  PROVE  FlatOK' /\ SharesConfirmed' /\ bill' = bill
<1>1. CASE LoadBill(r)
  <2>1. PICK who \in ActiveTenants, form \in BillForms : \E share \in BillShares(form) :
          /\ DOMAIN share # {}
          /\ Load(r, "bill", [payer |-> who, total |-> form.total, share |-> share])
          /\ UNCHANGED bill
    BY <1>1 DEF LoadBill
  <2>2. PICK share \in BillShares(form) :
          /\ Load(r, "bill", [payer |-> who, total |-> form.total, share |-> share])
          /\ UNCHANGED bill
    BY <2>1
  <2> DEFINE what == [payer |-> who, total |-> form.total, share |-> share]
  <2>3. form.total \in Nat /\ who \in Members
    BY BillsAssumption DEF ActiveTenants
  <2>4. share \in SplitByRatio(form.total, TenantPcts) \cup SplitByRatio(form.total, Even(ActiveTenants))
    BY <2>2 DEF BillShares
  <2>5. Divided(share, form.total)
    BY <2>1, <2>3, <2>4, TenantsDivide DEF FlatOK
  <2>6. what \in BillAsked
    BY <2>3, <2>5 DEF BillAsked, Divided
  <2>7. Load(r, "bill", what)
    BY <2>2
  <2> HIDE DEF what
  <2>8. RequestOK([op |-> "bill", what |-> what])
    BY <2>6 DEF RequestOK
  <2>9. FlatOK' /\ req'[r] = [op |-> "bill", what |-> what] /\ \A s \in Slots : s # r => req'[s] = req[s]
    BY <2>7, <2>8, LoadKeeps
  <2> QED
    BY <2>2, <2>9, SharesStay
<1>2. CASE LoadDispute(r)
  <2>1. PICK b \in DOMAIN bill : Load(r, "dispute", [bill |-> b]) /\ UNCHANGED bill
    BY <1>2 DEF LoadDispute
  <2>2. b \in Nat
    BY DEF BillsOK
  <2>3. RequestOK([op |-> "dispute", what |-> [bill |-> b]])
    BY <2>2 DEF RequestOK
  <2>4. /\ FlatOK' /\ req'[r] = [op |-> "dispute", what |-> [bill |-> b]]
        /\ \A s \in Slots : s # r => req'[s] = req[s]
    BY <2>1, <2>3, LoadKeeps
  <2> QED
    BY <2>1, <2>4, SharesStay
<1>3. CASE LoadSharePaid(r)
  <2>1. PICK b \in DOMAIN bill : \E m \in Sharers(b) :
          Payable(b) /\ Load(r, "share", [bill |-> b, member |-> m]) /\ UNCHANGED bill
    BY <1>3 DEF LoadSharePaid
  <2>2. PICK m \in Sharers(b) :
          Payable(b) /\ Load(r, "share", [bill |-> b, member |-> m]) /\ UNCHANGED bill
    BY <2>1
  <2>3. b \in Nat /\ bill[b] \in BillRow
    BY DEF BillsOK
  <2>4. m \in DOMAIN bill[b].share /\ bill[b].resolved
    BY <2>2, <2>3 DEF Sharers, Payable, BillRow
  <2>5. m \in Members
    BY <2>3, <2>4, AllotmentOf DEF BillRow, BillColumns
  <2>6. RequestOK([op |-> "share", what |-> [bill |-> b, member |-> m]])
    BY <2>3, <2>5 DEF RequestOK
  <2>7. /\ FlatOK' /\ req'[r] = [op |-> "share", what |-> [bill |-> b, member |-> m]]
        /\ \A s \in Slots : s # r => req'[s] = req[s]
    BY <2>2, <2>6, LoadKeeps
  <2>8. SharesConfirmed'
    BY <2>2, <2>4, <2>7 DEF SharesConfirmed
  <2> QED
    BY <2>2, <2>7, <2>8
<1> QED
  BY <1>1, <1>2, <1>3

LEMMA BillCommits ==
  ASSUME FlatOK, BillsOK, SharesConfirmed, NEW r \in Slots,
         CommitBill(r) \/ CommitDispute(r) \/ CommitSharePaid(r)
  PROVE  FlatOK' /\ BillsOK' /\ SharesConfirmed'
<1>0. /\ req' = [req EXCEPT ![r] = Idle] /\ UNCHANGED <<role, active, pct, now>>
      /\ RequestsOK /\ PeopleOK
  BY DEF CommitBill, CommitDispute, CommitSharePaid, Finish, people, FlatOK
<1>1. RequestsOK' /\ req'[r] = Idle /\ \A s \in Slots : s # r => req'[s] = req[s]
  BY <1>0, FinishKeeps
<1>2. FlatOK'
  BY <1>0, <1>1 DEF FlatOK, PeopleOK
<1>3. \A s \in Slots : req'[s].op = "share" => req'[s] = req[s]
  BY <1>1 DEF Idle
<1>4. CASE CommitBill(r)
  <2> DEFINE q == req[r].what
             row == [payer |-> q.payer, total |-> q.total, share |-> q.share,
                     status |-> "pending", deadline |-> now + ConfirmWindow,
                     resolved |-> FALSE, paid |-> {}]
  <2>1. req[r].op = "bill" /\ now + ConfirmWindow < MaxNow /\ bill' = Append(bill, row)
    BY <1>4 DEF CommitBill, Finish
  <2>2. q \in BillAsked
    BY <1>0, <2>1, AskedFor
  <2>3. now + ConfirmWindow \in 0 .. MaxNow
    BY <1>0, <2>1, BillsAssumption, ClockAssumption DEF PeopleOK
  <2>4. row \in BillRow
    BY <2>2, <2>3 DEF BillRow, BillColumns, BillAsked
  <2> HIDE DEF row, q
  <2>5. BillsOK' /\ \A b \in DOMAIN bill : b \in DOMAIN bill' /\ bill'[b] = bill[b]
    BY <2>1, <2>4, Appended DEF BillsOK
  <2> QED
    BY <1>2, <1>3, <2>5, SharesStay
<1>5. CASE CommitDispute(r)
  <2> DEFINE b == req[r].what.bill
  <2>1. bill' = [bill EXCEPT ![b].status = "disputed"]
    BY <1>5 DEF CommitDispute
  <2> HIDE DEF b
  <2>2. \A c \in DOMAIN bill : bill'[c] = IF c = b THEN [bill[c] EXCEPT !.status = "disputed"] ELSE bill[c]
    BY <2>1
  <2>3. bill' = [c \in DOMAIN bill |-> bill'[c]]
    BY <2>1
  <2>4. \A c \in DOMAIN bill : bill[c] \in BillRow
    BY DEF BillsOK
  <2>5. \A c \in DOMAIN bill : /\ bill'[c] \in BillRow /\ bill'[c].share = bill[c].share
                               /\ bill[c].resolved = bill'[c].resolved
    BY <2>2, <2>4, BillDisputed
  <2>6. BillsOK' /\ DOMAIN bill' = DOMAIN bill
    BY <2>3, <2>5, Rewritten DEF BillsOK
  <2> QED
    BY <1>2, <1>3, <2>5, <2>6, SharesStay
<1>6. CASE CommitSharePaid(r)
  <2> DEFINE b == req[r].what.bill
             m == req[r].what.member
  <2>1. req[r].op = "share" /\ bill' = [bill EXCEPT ![b].paid = @ \cup {m}]
    BY <1>6 DEF CommitSharePaid, Finish
  <2>2. b \in DOMAIN bill /\ m \in DOMAIN bill[b].share /\ bill[b].resolved
    BY <2>1 DEF SharesConfirmed
  <2>22. m \in Members
    BY <1>0, <2>1, AskedFor
  <2> HIDE DEF b, m
  <2>3. \A c \in DOMAIN bill : bill'[c] = IF c = b THEN [bill[c] EXCEPT !.paid = @ \cup {m}] ELSE bill[c]
    BY <2>1
  <2>4. bill' = [c \in DOMAIN bill |-> bill'[c]]
    BY <2>1
  <2>5. \A c \in DOMAIN bill : bill[c] \in BillRow
    BY DEF BillsOK
  <2>6. \A c \in DOMAIN bill : /\ bill'[c] \in BillRow /\ bill'[c].share = bill[c].share
                               /\ bill[c].resolved = bill'[c].resolved
    <3> SUFFICES ASSUME NEW c \in DOMAIN bill
                 PROVE  /\ bill'[c] \in BillRow /\ bill'[c].share = bill[c].share
                        /\ bill[c].resolved = bill'[c].resolved
      OBVIOUS
    <3>1. CASE c = b
      <4> DEFINE x == bill[b]
      <4>1. x \in BillRow /\ m \in DOMAIN x.share /\ x.resolved
        BY <2>2, <2>5
      <4>2. bill'[c] = [x EXCEPT !.paid = x.paid \cup {m}]
        BY <2>3, <3>1
      <4> HIDE DEF x
      <4>3. bill'[c] \in BillRow /\ bill'[c].share = x.share /\ bill'[c].resolved = x.resolved
        BY <2>22, <4>1, <4>2, BillSharePaid
      <4> QED
        BY <3>1, <4>3 DEF x
    <3>2. CASE c # b
      BY <2>3, <2>5, <3>2
    <3> QED
      BY <3>1, <3>2
  <2>7. BillsOK' /\ DOMAIN bill' = DOMAIN bill
    BY <2>4, <2>6, Rewritten DEF BillsOK
  <2> QED
    BY <1>2, <1>3, <2>6, <2>7, SharesStay
<1> QED
  BY <1>4, <1>5, <1>6

LEMMA ConfirmKeeps ==
  ASSUME BillsOK, SharesConfirmed, ConfirmOverdue, UNCHANGED req
  PROVE  BillsOK' /\ SharesConfirmed'
<1>1. \A b \in DOMAIN bill : bill[b] \in BillRow
  BY DEF BillsOK
<1>2. bill' = [b \in DOMAIN bill |-> bill'[b]]
  BY DEF ConfirmOverdue
<1>3. ASSUME NEW b \in DOMAIN bill
      PROVE  /\ bill'[b] \in BillRow /\ bill'[b].share = bill[b].share
             /\ bill[b].resolved => bill'[b].resolved
  <2>1. bill'[b] = IF Overdue(b) THEN [bill[b] EXCEPT !.status = "confirmed", !.resolved = TRUE]
                                 ELSE bill[b]
    BY DEF ConfirmOverdue
  <2> QED
    BY <1>1, <2>1, BillConfirmed
<1>4. BillsOK' /\ DOMAIN bill' = DOMAIN bill
  BY <1>2, <1>3, Rewritten DEF BillsOK
<1> QED
  BY <1>3, <1>4, SharesStay

-----------------------------------------------------------------------------
(* Recurring expenses.                                                     *)

\* Months only begin.
LEMMA MonthsPass ==
  ASSUME PeopleOK
  PROVE  /\ Month \in 0 .. MaxNow
         /\ Tick => Month <= Month' /\ Month' \in Nat
<1>1. ASSUME NEW a \in Nat, NEW L \in Nat \ {0}
      PROVE  a \div L \in Nat /\ a \div L <= a /\ a \div L <= (a + 1) \div L
  <2> DEFINE p == a \div L
             q == (a + 1) \div L
  <2>1. p \in Nat /\ q \in Nat
    OBVIOUS
  <2>2. a = L * p + (a % L) /\ a % L \in 0 .. L - 1
    OBVIOUS
  <2>3. a + 1 = L * q + ((a + 1) % L) /\ (a + 1) % L \in 0 .. L - 1
    OBVIOUS
  <2> HIDE DEF p, q
  <2>4. L * p < L * (q + 1)
    <3>1. L * (q + 1) = L * q + L
      BY <2>1
    <3> QED
      BY <2>1, <2>2, <2>3, <3>1
  <2>5. p < q + 1
    BY <2>1, <2>4
  <2>6. p <= a
    BY <2>1, <2>2
  <2> QED
    BY <2>1, <2>5, <2>6 DEF p, q
<1>2. now \in Nat /\ now <= MaxNow /\ MonthLength \in Nat \ {0} /\ MaxNow \in Nat
  BY ClockAssumption DEF PeopleOK
<1>3. Month \in 0 .. MaxNow
  BY <1>1, <1>2 DEF Month
<1>4. ASSUME Tick PROVE Month <= Month' /\ Month' \in Nat
  <2>1. now' = now + 1
    BY <1>4 DEF Tick
  <2>2. now \div MonthLength <= (now + 1) \div MonthLength /\ (now + 1) \div MonthLength \in Nat
    BY <1>1, <1>2
  <2>3. Month' = (now + 1) \div MonthLength
    BY <2>1 DEF Month
  <2> QED
    BY <2>2, <2>3 DEF Month
<1> QED
  BY <1>3, <1>4

\* Nothing of the plans moves while months pass.
LEMMA PlansStay ==
  ASSUME PeopleOK, PlansOK, UNCHANGED plans, UNCHANGED now \/ Tick
  PROVE  PlansOK'
<1>1. Month \in Nat /\ Month <= Month' /\ Month' \in Nat
  BY MonthsPass DEF Month
<1> QED
  BY <1>1 DEF PlansOK, plans

LEMMA TemplateKeeps ==
  ASSUME FlatOK, PlansOK, NEW r \in Slots, TemplateRequest(r)
  PROVE  FlatOK' /\ PlansOK' /\ \A s \in Slots : req'[s].op = "share" => req'[s] = req[s]
<1>0. PeopleOK /\ RequestsOK
  BY DEF FlatOK
<1>1. CASE LoadTemplate(r)
  <2>1. PICK t \in TemplateForms \ template : Load(r, "template", t) /\ UNCHANGED <<template, recurring>>
    BY <1>1 DEF LoadTemplate
  <2>2. RequestOK([op |-> "template", what |-> t])
    BY DEF RequestOK
  <2>3. /\ FlatOK' /\ req'[r] = [op |-> "template", what |-> t]
        /\ \A s \in Slots : s # r => req'[s] = req[s]
    BY <2>1, <2>2, LoadKeeps
  <2>4. UNCHANGED now
    BY <2>1 DEF Load
  <2>5. PlansOK'
    BY <1>0, <2>1, <2>4, PlansStay DEF plans
  <2> QED
    BY <2>3, <2>5
<1>2. CASE CommitTemplate(r)
  <2>1. /\ req[r].op = "template" /\ req' = [req EXCEPT ![r] = Idle]
        /\ UNCHANGED <<now, role, active, pct, recurring>>
        /\ template' = template \cup {req[r].what}
    BY <1>2 DEF CommitTemplate, Finish, people
  <2>2. req[r].what \in TemplateForms
    BY <1>0, <2>1, AskedFor
  <2>3. RequestsOK' /\ req'[r] = Idle /\ \A s \in Slots : s # r => req'[s] = req[s]
    BY <1>0, <2>1, FinishKeeps
  <2>4. PeopleOK'
    BY <1>0, <2>1 DEF PeopleOK
  <2>5. PlansOK'
    BY <2>1, <2>2 DEF PlansOK, Month
  <2> QED
    BY <2>3, <2>4, <2>5 DEF FlatOK, Idle
<1> QED
  BY <1>1, <1>2 DEF TemplateRequest

LEMMA CreateKeeps ==
  ASSUME PlansOK, CreateRecurring
  PROVE  PlansOK'
<1>1. PICK t \in template :
        recurring' = Append(recurring, [template |-> t, status |-> "active", months |-> {}])
  BY DEF CreateRecurring
<1> DEFINE e == [template |-> t, status |-> "active", months |-> {}]
<1>2. e \in RecurringRow /\ e.template \in template /\ e.months = {}
  BY DEF PlansOK, RecurringRow
<1>3. recurring' = Append(recurring, e)
  BY <1>1
<1> HIDE DEF e
<1>4. /\ recurring' \in Seq(RecurringRow) /\ DOMAIN recurring' = 1 .. Len(recurring) + 1
      /\ recurring'[Len(recurring) + 1] = e /\ DOMAIN recurring = 1 .. Len(recurring)
      /\ \A i \in 1 .. Len(recurring) : recurring'[i] = recurring[i]
  BY <1>2, <1>3, Appended DEF PlansOK
<1>5. UNCHANGED <<template, now>>
  BY DEF CreateRecurring, flat
<1>6. ASSUME NEW k \in DOMAIN recurring'
      PROVE  recurring'[k].template \in template /\ recurring'[k].months \subseteq 0 .. Month
  <2>1. CASE k = Len(recurring) + 1
    BY <1>2, <1>4, <2>1
  <2>2. CASE k # Len(recurring) + 1
    <3>1. k \in 1 .. Len(recurring)
      BY <1>4, <2>2 DEF PlansOK
    <3> QED
      BY <1>4, <3>1 DEF PlansOK
  <2> QED
    BY <2>1, <2>2
<1> QED
  BY <1>4, <1>5, <1>6 DEF PlansOK, Month

LEMMA GenerateKeeps ==
  ASSUME PeopleOK, PlansOK, GenerateDue, UNCHANGED <<template, now>>
  PROVE  PlansOK'
<1>1. Month \in 0 .. MaxNow /\ Month' = Month
  BY MonthsPass DEF Month
<1>2. \A k \in DOMAIN recurring :
        /\ recurring[k] \in RecurringRow /\ recurring[k].template \in template
        /\ recurring[k].months \subseteq 0 .. Month
  BY DEF PlansOK
<1>3. recurring' = [k \in DOMAIN recurring |-> recurring'[k]]
  BY DEF GenerateDue
<1>4. ASSUME NEW k \in DOMAIN recurring
      PROVE  /\ recurring'[k] \in RecurringRow /\ recurring'[k].template \in template
             /\ recurring'[k].months \subseteq 0 .. Month
  <2> DEFINE x == recurring[k]
             y == recurring'[k]
  <2>1. \/ y = x
        \/ y = [x EXCEPT !.months = x.months \cup {Month}]
        \/ y = [x EXCEPT !.status = "paused"]
    BY DEF GenerateDue, Pause
  <2>2. x \in RecurringRow /\ x.template \in template /\ x.months \subseteq 0 .. Month
    BY <1>2
  <2> HIDE DEF x, y
  <2>3. y \in RecurringRow /\ y.template \in template /\ y.months \subseteq 0 .. Month
    BY <1>1, <2>1, <2>2 DEF RecurringRow
  <2> QED
    BY <2>3 DEF y
<1>5. recurring' \in Seq(RecurringRow) /\ DOMAIN recurring' = DOMAIN recurring
  BY <1>3, <1>4, Rewritten DEF PlansOK
<1> QED
  BY <1>1, <1>4, <1>5 DEF PlansOK

-----------------------------------------------------------------------------
(* The fine pot, settlements and the ledger.                               *)

LEMMA LatestClose ==
  ASSUME settlement \in Seq(SettlementRow)
  PROVE  LastClose \in Int /\ \A i \in DOMAIN settlement : settlement[i].to <= LastClose
<1>1. CASE settlement = <<>>
  BY <1>1 DEF LastClose, Epoch
<1>2. CASE settlement # <<>>
  <2> DEFINE Ends == {settlement[i].to : i \in DOMAIN settlement}
             T == {MaxNow - t : t \in Ends}
  <2>1. Ends \subseteq 0 .. MaxNow /\ Ends # {} /\ MaxNow \in Nat
    <3>1. \A i \in DOMAIN settlement : settlement[i] \in SettlementRow
      OBVIOUS
    <3>2. \A i \in DOMAIN settlement : settlement[i].to \in 0 .. MaxNow
      BY <3>1 DEF SettlementRow
    <3>3. 1 \in DOMAIN settlement
      BY <1>2
    <3> QED
      BY <3>2, <3>3, ClockAssumption
  <2>2. T \in SUBSET Nat /\ T # {}
    <3> HIDE DEF Ends
    <3>1. \A t \in Ends : MaxNow - t \in Nat
      BY <2>1
    <3> QED
      BY <2>1, <3>1
  <2>3. PICK x \in T : \A y \in T : x <= y
    BY <2>2, LeastNumber
  <2>4. PICK last \in Ends : x = MaxNow - last
    BY <2>3
  <2>5. \A t \in Ends : t <= last
    <3> HIDE DEF Ends
    <3>1. ASSUME NEW t \in Ends PROVE t <= last
      <4>1. MaxNow - last <= MaxNow - t
        BY <2>3, <2>4
      <4> QED
        BY <2>1, <4>1
    <3> QED
      BY <3>1
  <2>6. \E t \in Ends : \A i \in DOMAIN settlement : settlement[i].to <= t
    BY <2>5
  <2> DEFINE Latest(t) == \A i \in DOMAIN settlement : settlement[i].to <= t
  <2>7. LastClose = CHOOSE t \in Ends : Latest(t)
    BY <1>2 DEF LastClose
  <2>8. \E t \in Ends : Latest(t)
    BY <2>6
  <2> HIDE DEF Latest, Ends
  <2>9. LastClose \in Ends /\ Latest(LastClose)
    BY <2>7, <2>8
  <2> QED
    BY <2>1, <2>9 DEF Latest
<1> QED
  BY <1>1, <1>2

\* What a pot comes to, and how it is spent.
LEMMA PotSpent ==
  ASSUME NEW S \in SUBSET Fines
  PROVE  LET sum == Amount(S)
             applied == AppliedToRent(sum) IN
         sum \in Nat /\ applied \in Int /\ sum - applied \in Nat
<1>1. IsFiniteSet(S) /\ [f \in S |-> FineAmount[f]] \in [S -> Nat]
  BY PotAssumption, FS_Subset
<1>2. Amount(S) \in Nat
  BY <1>1, TotalNat DEF Amount
<1>3. AppliedToRent(Amount(S)) \in Int /\ Amount(S) - AppliedToRent(Amount(S)) \in Nat
  BY <1>2, PotAssumption DEF AppliedToRent
<1> QED
  BY <1>2, <1>3

\* Closing a period: the figures that the request carries.
LEMMA CloseLoads ==
  ASSUME FlatOK, PotOK, NEW r \in Slots, LoadClose(r)
  PROVE  LET what == req'[r].what IN
         /\ FlatOK' /\ UNCHANGED <<fine, money>>
         /\ req'[r].op = "close" /\ req[r] = Idle
         /\ \A s \in Slots : s # r => req'[s] = req[s]
         /\ what.from = LastClose /\ what.to = now
         /\ what.fines = PaidPot(LastClose, now)
<1> DEFINE paidIn == PaidPot(LastClose, now)
           left == Amount(paidIn) - AppliedToRent(Amount(paidIn))
<1>1. PICK payout \in SplitByRatio(left, RentRatioWeights(TenantPcts)) :
        /\ Amount(paidIn) # 0
        /\ Load(r, "close", Figures(paidIn, payout))
        /\ UNCHANGED <<fine, money>>
  BY DEF LoadClose
<1>2. paidIn \in SUBSET Fines
  BY DEF PaidPot
<1>3. Amount(paidIn) \in Nat /\ AppliedToRent(Amount(paidIn)) \in Int /\ left \in Nat
  BY <1>2, PotSpent
<1>4. ActiveTenants # {} /\ PeopleOK
  BY <1>1 DEF Load, FlatOK
<1>5. Divided(payout, left)
  BY <1>1, <1>3, <1>4, TenantsDivide
<1>6. LastClose \in Int
  BY LatestClose DEF PotOK
<1> DEFINE what == Figures(paidIn, payout)
<1>7. /\ what.from = LastClose /\ what.to = now /\ what.fines = paidIn
      /\ what \in SettlementRow
  <2>1. what = [from |-> LastClose, to |-> now, fines |-> paidIn, pot |-> Amount(paidIn),
                applied |-> AppliedToRent(Amount(paidIn)), leftover |-> left, payout |-> payout]
    BY DEF Figures
  <2>2. now \in 0 .. MaxNow /\ Amount(paidIn) = AppliedToRent(Amount(paidIn)) + left
    BY <1>3, <1>4 DEF PeopleOK
  <2> HIDE DEF what, paidIn, left
  <2>3. Amount(paidIn) \in Nat \ {0}
    BY <1>1, <1>3
  <2> QED
    BY <1>2, <1>3, <1>5, <1>6, <2>1, <2>2, <2>3 DEF SettlementRow, Divided
<1>8. Load(r, "close", what)
  BY <1>1
<1> HIDE DEF what, paidIn
<1>9. RequestOK([op |-> "close", what |-> what])
  BY <1>7 DEF RequestOK
<1>10. /\ FlatOK' /\ req[r] = Idle /\ req'[r] = [op |-> "close", what |-> what]
       /\ \A s \in Slots : s # r => req'[s] = req[s]
  BY <1>8, <1>9, LoadKeeps
<1> QED
  BY <1>1, <1>7, <1>10 DEF paidIn

LEMMA EntryLoads ==
  ASSUME FlatOK, NEW r \in Slots, LoadCharge(r) \/ LoadEntry(r)
  PROVE  /\ FlatOK' /\ UNCHANGED <<fine, money>>
         /\ req'[r].op \in {"charge", "entry"}
         /\ \A s \in Slots : s # r => req'[s] = req[s]
<1>1. CASE LoadCharge(r)
  <2>1. PICK c \in Charges :
          \E share \in SplitByRatio(c.total, IF c.ratio THEN TenantPcts ELSE Even(ActiveTenants)) :
            /\ Load(r, "charge", [amount |-> -c.total, share |-> share])
            /\ UNCHANGED <<fine, money>>
    BY <1>1 DEF LoadCharge
  <2>2. PICK share \in SplitByRatio(c.total, IF c.ratio THEN TenantPcts ELSE Even(ActiveTenants)) :
          /\ Load(r, "charge", [amount |-> -c.total, share |-> share])
          /\ UNCHANGED <<fine, money>>
    BY <2>1
  <2>3. c.total \in Nat /\ ActiveTenants # {} /\ PeopleOK
    BY <2>2, PotAssumption DEF Load, FlatOK
  <2>4. Divided(share, c.total)
    BY <2>2, <2>3, TenantsDivide
  <2> DEFINE what == [amount |-> -c.total, share |-> share]
  <2>5. what \in ChargeAsked
    <3>1. -(-c.total) = c.total /\ -c.total \in Int
      BY <2>3
    <3> QED
      BY <2>4, <3>1 DEF ChargeAsked, Divided
  <2>6. Load(r, "charge", what)
    BY <2>2
  <2> HIDE DEF what
  <2>7. RequestOK([op |-> "charge", what |-> what])
    BY <2>5 DEF RequestOK
  <2>8. /\ FlatOK' /\ req'[r] = [op |-> "charge", what |-> what]
        /\ \A s \in Slots : s # r => req'[s] = req[s]
    BY <2>6, <2>7, LoadKeeps
  <2> QED
    BY <2>2, <2>8
<1>2. CASE LoadEntry(r)
  <2>1. PICK m \in Members, amount \in Credits \cup Adjustments :
          /\ Load(r, "entry", [amount |-> amount, member |-> m])
          /\ UNCHANGED <<fine, money>>
    BY <1>2 DEF LoadEntry
  <2>0. amount \in Int
    BY PotAssumption
  <2>2. RequestOK([op |-> "entry", what |-> [amount |-> amount, member |-> m]])
    BY <2>0 DEF RequestOK, EntryAsked
  <2>3. /\ FlatOK' /\ req'[r] = [op |-> "entry", what |-> [amount |-> amount, member |-> m]]
        /\ \A s \in Slots : s # r => req'[s] = req[s]
    BY <2>1, <2>2, LoadKeeps
  <2> QED
    BY <2>1, <2>3
<1> QED
  BY <1>1, <1>2

\* What a list of settlements left over, and what one more adds to it.
LEMMA LeftoversGrow ==
  ASSUME settlement \in Seq(SettlementRow), NEW s \in SettlementRow,
         settlement' = Append(settlement, s)
  PROVE  /\ settlement' \in Seq(SettlementRow)
         /\ Leftovers \in Int /\ Leftovers' = Leftovers + s.leftover
<1> DEFINE n == Len(settlement)
           f == [i \in DOMAIN settlement |-> settlement[i].leftover]
           h == [i \in DOMAIN settlement' |-> settlement'[i].leftover]
<1>1. /\ settlement' \in Seq(SettlementRow) /\ n \in Nat
      /\ DOMAIN settlement = 1 .. n /\ DOMAIN settlement' = 1 .. n + 1
      /\ settlement'[n + 1] = s /\ \A i \in 1 .. n : settlement'[i] = settlement[i]
  BY Appended
<1>2. \A x \in SettlementRow : x.leftover \in Int
  BY DEF SettlementRow
<1>3. \A i \in 1 .. n : settlement[i] \in SettlementRow
  BY <1>1
<1>4. f \in [1 .. n -> Int] /\ \A i \in 1 .. n : f[i] = settlement[i].leftover
  BY <1>1, <1>2, <1>3
<1>5. /\ h \in [1 .. n + 1 -> Int] /\ h[n + 1] = s.leftover
      /\ \A i \in 1 .. n : h[i] = settlement[i].leftover
  <2>1. \A i \in 1 .. n + 1 : settlement'[i] \in SettlementRow
    BY <1>1
  <2>2. \A i \in 1 .. n + 1 : h[i] = settlement'[i].leftover
    BY <1>1
  <2>3. n + 1 \in 1 .. n + 1 /\ \A i \in 1 .. n : i \in 1 .. n + 1
    BY <1>1
  <2>4. h \in [1 .. n + 1 -> Int]
    BY <1>1, <1>2, <2>1
  <2> QED
    BY <1>1, <2>2, <2>3, <2>4
<1>6. Leftovers = Total(f) /\ Leftovers' = Total(h)
  BY DEF Leftovers
<1> HIDE DEF f, h, n
<1>7. \A i \in 1 .. n : h[i] = f[i]
  BY <1>4, <1>5
<1>8. Total(h) = Total(f) + h[n + 1]
  BY <1>1, <1>4, <1>5, <1>7, TotalAppended
<1>9. Total(f) \in Int
  <2>1. IsFiniteSet(1 .. n)
    BY <1>1, FS_Interval
  <2> QED
    BY <1>4, <2>1, TotalInt
<1> QED
  BY <1>1, <1>5, <1>6, <1>8, <1>9

\* Entering an allotment brings the ledger up, or down, by what it comes to.
LEMMA EnterAdds ==
  ASSUME ledger \in [Members -> Int], NEW share \in Allotments
  PROVE  /\ Enter(share, 1) => ledger' \in [Members -> Int] /\ Total(ledger') = Total(ledger) + Total(share)
         /\ Enter(share, -1) => ledger' \in [Members -> Int] /\ Total(ledger) = Total(ledger') + Total(share)
<1>1. /\ DOMAIN share \in SUBSET Members /\ share \in [DOMAIN share -> Int]
      /\ \A m \in DOMAIN share : share[m] \in Int
  BY AllotmentOf
<1>2. \A m \in Members : ledger[m] \in Int
  OBVIOUS
<1>3. ASSUME Enter(share, 1)
      PROVE  ledger' \in [Members -> Int] /\ Total(ledger') = Total(ledger) + Total(share)
  <2>1. \A m \in DOMAIN share : 1 * share[m] = share[m]
    BY <1>1
  <2>2. ledger' = [m \in Members |-> IF m \in DOMAIN share THEN ledger[m] + share[m] ELSE ledger[m]]
    BY <1>3, <2>1 DEF Enter
  <2>3. ledger' \in [Members -> Int]
    BY <1>1, <1>2, <2>2
  <2>4. \A m \in Members : ledger'[m] = ledger[m] + IF m \in DOMAIN share THEN share[m] ELSE 0
    BY <1>2, <2>2
  <2>5. IsSum(ledger', ledger, share, DOMAIN share, Members)
    BY <1>1, <2>3, <2>4 DEF IsSum
  <2> QED
    BY <2>3, <2>5, MembersAssumption, TotalAdds
<1>4. ASSUME Enter(share, -1)
      PROVE  ledger' \in [Members -> Int] /\ Total(ledger) = Total(ledger') + Total(share)
  <2>1. \A m \in DOMAIN share : \A x \in Int : x + (-1) * share[m] = x - share[m]
    BY <1>1
  <2>2. ledger' = [m \in Members |-> IF m \in DOMAIN share THEN ledger[m] - share[m] ELSE ledger[m]]
    BY <1>2, <1>4, <2>1 DEF Enter
  <2>3. ledger' \in [Members -> Int]
    BY <1>1, <1>2, <2>2
  <2>4. \A m \in Members : ledger[m] = ledger'[m] + IF m \in DOMAIN share THEN share[m] ELSE 0
    BY <1>1, <1>2, <2>2
  <2>5. IsSum(ledger, ledger', share, DOMAIN share, Members)
    BY <1>1, <2>3, <2>4 DEF IsSum
  <2> QED
    BY <2>3, <2>5, MembersAssumption, TotalAdds
<1> QED
  BY <1>3, <1>4

LEMMA MoneyCommits ==
  ASSUME FlatOK, PotOK, LedgerBalances, NEW r \in Slots,
         CommitClose(r) \/ CommitCharge(r) \/ CommitEntry(r)
  PROVE  /\ FlatOK' /\ PotOK' /\ LedgerBalances'
         /\ req'[r] = Idle /\ \A s \in Slots : s # r => req'[s] = req[s]
<1>0. /\ req' = [req EXCEPT ![r] = Idle] /\ UNCHANGED <<role, active, pct, now, fine>>
      /\ RequestsOK /\ PeopleOK
  BY DEF CommitClose, CommitCharge, CommitEntry, Finish, people, FlatOK
<1>1. RequestsOK' /\ req'[r] = Idle /\ \A s \in Slots : s # r => req'[s] = req[s]
  BY <1>0, FinishKeeps
<1>2. FlatOK'
  BY <1>0, <1>1 DEF FlatOK, PeopleOK
<1>3. /\ Total(ledger) \in Int /\ Leftovers \in Int /\ booked \in Int
      /\ settlement \in Seq(SettlementRow) /\ ledger \in [Members -> Int]
      /\ Total(ledger) = booked + Leftovers
  <2>1. settlement \in Seq(SettlementRow) /\ ledger \in [Members -> Int] /\ booked \in Int
    BY DEF PotOK
  <2>2. Total(ledger) \in Int
    BY <2>1, MembersAssumption, TotalInt
  <2>3. Leftovers \in Int
    <3>1. \A x \in SettlementRow : x.leftover \in Int
      BY DEF SettlementRow
    <3>2. /\ DOMAIN settlement = 1 .. Len(settlement) /\ Len(settlement) \in Nat
          /\ \A i \in DOMAIN settlement : settlement[i] \in SettlementRow
      BY <2>1
    <3>3. [i \in DOMAIN settlement |-> settlement[i].leftover] \in [DOMAIN settlement -> Int]
      BY <3>1, <3>2
    <3>4. IsFiniteSet(DOMAIN settlement)
      BY <3>2, FS_Interval
    <3> QED
      BY <3>3, <3>4, TotalInt DEF Leftovers
  <2> QED
    BY <2>1, <2>2, <2>3 DEF LedgerBalances
<1>4. CASE CommitClose(r)
  <2> DEFINE q == req[r].what
  <2>1. /\ req[r].op = "close" /\ settlement' = Append(settlement, q) /\ Enter(q.payout, 1)
        /\ UNCHANGED booked
    BY <1>4 DEF CommitClose, Finish
  <2>2. q \in SettlementRow
    BY <1>0, <2>1, AskedFor
  <2> HIDE DEF q
  <2>3. q.payout \in Allotments /\ Total(q.payout) = q.leftover /\ q.leftover \in Int
    BY <2>2 DEF SettlementRow, Divided
  <2>4. settlement' \in Seq(SettlementRow) /\ Leftovers' = Leftovers + q.leftover
    BY <1>3, <2>1, <2>2, LeftoversGrow
  <2>5. ledger' \in [Members -> Int] /\ Total(ledger') = Total(ledger) + q.leftover
    BY <1>3, <2>1, <2>3, EnterAdds
  <2>6. PotOK'
    BY <1>0, <2>1, <2>4, <2>5 DEF PotOK
  <2>7. booked' = booked /\ Total(ledger') = booked + (Leftovers + q.leftover)
    BY <1>3, <2>1, <2>3, <2>5
  <2>8. LedgerBalances'
    BY <2>4, <2>7 DEF LedgerBalances
  <2> QED
    BY <1>1, <1>2, <2>6, <2>8
<1>5. CASE CommitCharge(r)
  <2> DEFINE q == req[r].what
  <2>1. /\ req[r].op = "charge" /\ Enter(q.share, -1) /\ booked' = booked + q.amount
        /\ UNCHANGED settlement
    BY <1>5 DEF CommitCharge, Finish
  <2>2. q \in ChargeAsked
    BY <1>0, <2>1, AskedFor
  <2> HIDE DEF q
  <2>3. q.share \in Allotments /\ Total(q.share) = -q.amount /\ q.amount \in Int
    BY <2>2 DEF ChargeAsked, Divided
  <2>4. ledger' \in [Members -> Int] /\ Total(ledger) = Total(ledger') + (-q.amount)
    BY <1>3, <2>1, <2>3, EnterAdds
  <2>5. Total(ledger') \in Int
    BY <2>4, MembersAssumption, TotalInt
  <2>6. Total(ledger') = (booked + q.amount) + Leftovers
    <3> DEFINE a == Total(ledger)
               b == Total(ledger')
               v == q.amount
    <3>1. a \in Int /\ b \in Int /\ v \in Int /\ a = b + (-v) /\ a = booked + Leftovers
      BY <1>3, <2>3, <2>4, <2>5
    <3> HIDE DEF a, b, v
    <3>2. b = a + v
      BY <3>1
    <3>3. b = (booked + v) + Leftovers
      BY <1>3, <3>1, <3>2
    <3> QED
      BY <3>3 DEF b, v
  <2>7. PotOK'
    BY <1>0, <2>1, <2>3, <2>4 DEF PotOK
  <2>8. Leftovers' = Leftovers
    BY <2>1 DEF Leftovers
  <2>9. LedgerBalances'
    BY <2>1, <2>6, <2>8 DEF LedgerBalances
  <2> QED
    BY <1>1, <1>2, <2>7, <2>9
<1>6. CASE CommitEntry(r)
  <2> DEFINE q == req[r].what
  <2>1. /\ req[r].op = "entry" /\ ledger' = [ledger EXCEPT ![q.member] = @ + q.amount]
        /\ booked' = booked + q.amount /\ UNCHANGED settlement
    BY <1>6 DEF CommitEntry, Finish
  <2>2. q \in EntryAsked
    BY <1>0, <2>1, AskedFor
  <2> HIDE DEF q
  <2>3. q.member \in Members /\ q.amount \in Int
    BY <2>2 DEF EntryAsked
  <2>4. /\ ledger' \in [Members -> Int]
        /\ \A m \in Members : ledger'[m] = IF m = q.member THEN ledger[m] + q.amount ELSE ledger[m]
    BY <1>3, <2>1, <2>3
  <2>5. Total(ledger') = Total(ledger) + q.amount
    <3>1. IsChanged(ledger', ledger, q.member, q.amount, Members)
      BY <1>3, <2>3, <2>4 DEF IsChanged
    <3> QED
      BY <3>1, MembersAssumption, TotalChanged
  <2>6. Total(ledger') = (booked + q.amount) + Leftovers
    BY <1>3, <2>3, <2>5
  <2>7. PotOK'
    BY <1>0, <2>1, <2>3, <2>4 DEF PotOK
  <2>8. Leftovers' = Leftovers
    BY <2>1 DEF Leftovers
  <2>9. LedgerBalances'
    BY <2>1, <2>6, <2>8 DEF LedgerBalances
  <2> QED
    BY <1>1, <1>2, <2>7, <2>9
<1> QED
  BY <1>4, <1>5, <1>6

\* What a fine is registered or paid with keeps the types of the pot.
LEMMA FineKeeps ==
  ASSUME PeopleOK, PotOK, NEW f \in Fines, Register(f) \/ Pay(f)
  PROVE  PotOK' /\ UNCHANGED <<money, flat>>
<1>1. now \in Int
  BY DEF PeopleOK
<1> DEFINE FineRow == [owed : BOOLEAN, resolved : Int, paid : BOOLEAN, paidAt : Int]
           x == fine[f]
<1>0. fine \in [Fines -> FineRow]
  BY DEF PotOK
<1>4. fine' \in [Fines -> FineRow]
  <2>1. CASE Register(f)
    <3>1. fine' = [fine EXCEPT ![f].owed = TRUE, ![f].resolved = now]
      BY <2>1 DEF Register
    <3>2. fine' = [fine EXCEPT ![f] = [x EXCEPT !.owed = TRUE, !.resolved = now]]
      BY <1>0, <3>1
    <3>3. [x EXCEPT !.owed = TRUE, !.resolved = now] \in FineRow
      BY <1>0, <1>1
    <3> QED
      BY <1>0, <3>2, <3>3
  <2>2. CASE Pay(f)
    <3>1. fine' = [fine EXCEPT ![f].paid = TRUE, ![f].paidAt = now]
      BY <2>2 DEF Pay
    <3>2. fine' = [fine EXCEPT ![f] = [x EXCEPT !.paid = TRUE, !.paidAt = now]]
      BY <1>0, <3>1
    <3>3. [x EXCEPT !.paid = TRUE, !.paidAt = now] \in FineRow
      BY <1>0, <1>1
    <3> QED
      BY <1>0, <3>2, <3>3
  <2> QED
    BY <2>1, <2>2
<1>2. fine' \in [Fines -> [owed : BOOLEAN, resolved : Int, paid : BOOLEAN, paidAt : Int]]
  BY <1>4
<1>3. UNCHANGED <<money, flat>>
  BY DEF Register, Pay
<1> QED
  BY <1>2, <1>3 DEF PotOK, money

-----------------------------------------------------------------------------
(* The inductive invariant.                                                *)

LEMMA HouseholdInit == Init => HouseholdInv
<1> SUFFICES ASSUME Init PROVE HouseholdInv
  OBVIOUS
<1>1. PeopleOK
  BY ClockAssumption DEF Init, FlatInit, PeopleOK
<1>2. RequestsOK /\ \A r \in Slots : req[r].op = "idle"
  <2>1. DOMAIN req = Slots /\ \A r \in Slots : req[r] = Idle
    BY DEF Init, FlatInit, Slots
  <2>2. RequestOK(Idle) /\ Idle.op = "idle"
    BY DEF RequestOK, Idle
  <2> QED
    BY <2>1, <2>2 DEF RequestsOK
<1>3. BillsOK /\ SharesConfirmed
  BY <1>2 DEF Init, BillsOK, SharesConfirmed
<1>4. PlansOK
  BY DEF Init, PlansOK
<1>5. PotOK
  BY DEF Init, PotOK
<1>6. LedgerBalances
  <2>1. IsFiniteSet(Members) /\ ledger \in [Members -> Int] /\ \A m \in Members : ledger[m] = 0
    BY MembersAssumption DEF Init
  <2>2. Total(ledger) = 0
    BY <2>1, TotalZero
  <2>3. settlement = <<>> /\ booked = 0
    BY DEF Init
  <2>4. [i \in DOMAIN settlement |-> settlement[i].leftover] \in [{} -> Int]
    BY <2>3
  <2>5. Leftovers = 0
    BY <2>4, TotalEmpty DEF Leftovers
  <2> QED
    BY <2>2, <2>3, <2>5 DEF LedgerBalances
<1> QED
  BY <1>1, <1>2, <1>3, <1>4, <1>5, <1>6 DEF HouseholdInv, FlatOK

LEMMA HouseholdInductive == HouseholdInv /\ [Next]_vars => HouseholdInv'
<1> SUFFICES ASSUME HouseholdInv, [Next]_vars PROVE HouseholdInv'
  OBVIOUS
<1>0. /\ FlatOK /\ PeopleOK /\ RequestsOK /\ BillsOK /\ SharesConfirmed
      /\ PlansOK /\ PotOK /\ LedgerBalances
  BY DEF HouseholdInv, FlatOK
<1>1. ASSUME UNCHANGED pot PROVE PotOK' /\ LedgerBalances'
  BY <1>0, <1>1 DEF pot, money, PotOK, LedgerBalances, Leftovers
<1>2. ASSUME UNCHANGED bill, \A s \in Slots : req'[s].op = "share" => req'[s] = req[s]
      PROVE  BillsOK' /\ SharesConfirmed'
  BY <1>0, <1>2, SharesStay DEF BillsOK
<1>3. ASSUME UNCHANGED plans, UNCHANGED now \/ Tick PROVE PlansOK'
  BY <1>0, <1>3, PlansStay
<1>4. ASSUME NEW r \in Requests, BillRequest(r), UNCHANGED <<plans, pot>> PROVE HouseholdInv'
  <2>0. r \in Slots
    BY DEF Slots
  <2>1. FlatOK' /\ BillsOK' /\ SharesConfirmed'
    <3>1. CASE LoadBill(r) \/ LoadDispute(r) \/ LoadSharePaid(r)
      BY <1>0, <2>0, <3>1, BillLoads DEF BillsOK
    <3>2. CASE CommitBill(r) \/ CommitDispute(r) \/ CommitSharePaid(r)
      BY <1>0, <2>0, <3>2, BillCommits
    <3> QED
      BY <1>4, <3>1, <3>2 DEF BillRequest
  <2>2. UNCHANGED now
    BY <1>4 DEF BillRequest, LoadBill, LoadDispute, LoadSharePaid, Load,
                CommitBill, CommitDispute, CommitSharePaid, Finish
  <2> QED
    BY <1>1, <1>3, <1>4, <2>1, <2>2 DEF HouseholdInv
<1>5. ASSUME NEW r \in Requests, TemplateRequest(r), UNCHANGED <<bills, pot>> PROVE HouseholdInv'
  <2>1. r \in Slots
    BY DEF Slots
  <2>2. FlatOK' /\ PlansOK' /\ \A s \in Slots : req'[s].op = "share" => req'[s] = req[s]
    BY <1>0, <1>5, <2>1, TemplateKeeps
  <2> QED
    BY <1>1, <1>2, <1>5, <2>2 DEF HouseholdInv, bills
<1>6. ASSUME NEW r \in Requests, MoneyRequest(r), UNCHANGED <<bills, plans>> PROVE HouseholdInv'
  <2>0. r \in Slots
    BY DEF Slots
  <2>1. UNCHANGED now
    BY <1>6 DEF MoneyRequest, LoadClose, LoadCharge, LoadEntry, Load,
                CommitClose, CommitCharge, CommitEntry, Finish
  <2>2. CASE LoadClose(r)
    <3>1. /\ FlatOK' /\ UNCHANGED <<fine, money>> /\ req'[r].op = "close"
          /\ \A s \in Slots : s # r => req'[s] = req[s]
      BY <1>0, <2>0, <2>2, CloseLoads
    <3>2. \A s \in Slots : req'[s].op = "share" => req'[s] = req[s]
      BY <3>1
    <3>3. BillsOK' /\ SharesConfirmed'
      BY <1>2, <1>6, <3>2 DEF bills
    <3> QED
      BY <1>1, <1>3, <1>6, <2>1, <3>1, <3>3 DEF HouseholdInv, pot
  <2>3. CASE LoadCharge(r) \/ LoadEntry(r)
    <3>1. /\ FlatOK' /\ UNCHANGED <<fine, money>> /\ req'[r].op \in {"charge", "entry"}
          /\ \A s \in Slots : s # r => req'[s] = req[s]
      BY <1>0, <2>0, <2>3, EntryLoads
    <3>2. \A s \in Slots : req'[s].op = "share" => req'[s] = req[s]
      BY <3>1
    <3>3. BillsOK' /\ SharesConfirmed'
      BY <1>2, <1>6, <3>2 DEF bills
    <3> QED
      BY <1>1, <1>3, <1>6, <2>1, <3>1, <3>3 DEF HouseholdInv, pot
  <2>4. CASE CommitClose(r) \/ CommitCharge(r) \/ CommitEntry(r)
    <3>1. /\ FlatOK' /\ PotOK' /\ LedgerBalances'
          /\ req'[r] = Idle /\ \A s \in Slots : s # r => req'[s] = req[s]
      BY <1>0, <2>0, <2>4, MoneyCommits
    <3>2. \A s \in Slots : req'[s].op = "share" => req'[s] = req[s]
      BY <3>1 DEF Idle
    <3>3. BillsOK' /\ SharesConfirmed'
      BY <1>2, <1>6, <3>2 DEF bills
    <3> QED
      BY <1>3, <1>6, <2>1, <3>1, <3>3 DEF HouseholdInv
  <2> QED
    BY <1>6, <2>2, <2>3, <2>4 DEF MoneyRequest
<1>7. ASSUME NEW r \in RosterSlots, RosterRequest(r), UNCHANGED <<bills, plans, pot>>
      PROVE  HouseholdInv'
  <2>1. r \in Slots
    BY DEF Slots
  <2>2. FlatOK' /\ \A s \in Slots : req'[s].op = "share" => req'[s] = req[s]
    BY <1>0, <1>7, <2>1, RosterKeeps
  <2>3. UNCHANGED now
    BY <1>7 DEF RosterRequest, LoadRole, LoadRemove, LoadRentShares, Load,
                CommitRole, CommitRemove, CommitRentShares, Finish
  <2> QED
    BY <1>1, <1>2, <1>3, <1>7, <2>2, <2>3 DEF HouseholdInv, bills
<1>8. ASSUME NEW r \in DOMAIN req, Abandon(r), UNCHANGED <<bills, plans, pot>> PROVE HouseholdInv'
  <2>1. r \in Slots
    BY <1>0 DEF RequestsOK
  <2>2. FlatOK' /\ \A s \in Slots : req'[s].op = "share" => req'[s] = req[s]
    BY <1>0, <1>8, <2>1, AbandonKeeps
  <2>3. UNCHANGED now
    BY <1>8 DEF Abandon
  <2> QED
    BY <1>1, <1>2, <1>3, <1>8, <2>2, <2>3 DEF HouseholdInv, bills
<1>9. ASSUME UNCHANGED flat PROVE FlatOK' /\ UNCHANGED now /\ UNCHANGED req
  BY <1>0, <1>9 DEF FlatOK, PeopleOK, RequestsOK, RequestOK, flat, people
<1>10. CASE CreateRecurring /\ UNCHANGED <<bills, pot>>
  <2>1. PlansOK'
    BY <1>0, <1>10, CreateKeeps
  <2>2. UNCHANGED flat
    BY <1>10 DEF CreateRecurring
  <2> QED
    BY <1>1, <1>2, <1>9, <1>10, <2>1, <2>2 DEF HouseholdInv, bills
<1>11. CASE (\E f \in Fines : Register(f) \/ Pay(f)) /\ UNCHANGED <<bills, plans>>
  <2>1. PotOK' /\ UNCHANGED <<money, flat>>
    BY <1>0, <1>11, FineKeeps
  <2>2. LedgerBalances'
    BY <1>0, <2>1 DEF LedgerBalances, Leftovers, money
  <2> QED
    BY <1>2, <1>3, <1>9, <1>11, <2>1, <2>2 DEF HouseholdInv, bills
<1>12. CASE Sweep
  <2>1. UNCHANGED flat /\ UNCHANGED pot /\ UNCHANGED template /\ ConfirmOverdue /\ GenerateDue
    BY <1>12 DEF Sweep
  <2>2. FlatOK' /\ UNCHANGED now /\ UNCHANGED req
    BY <1>9, <2>1
  <2>3. BillsOK' /\ SharesConfirmed'
    BY <1>0, <2>1, <2>2, ConfirmKeeps
  <2>4. PlansOK'
    BY <1>0, <2>1, <2>2, GenerateKeeps
  <2> QED
    BY <1>1, <2>1, <2>2, <2>3, <2>4 DEF HouseholdInv
<1>13. CASE Tick /\ UNCHANGED <<bills, plans, pot>>
  <2>1. UNCHANGED <<role, active, pct, req>> /\ now' = now + 1 /\ now < MaxNow
    BY <1>13 DEF Tick, people
  <2>2. PeopleOK'
    BY <1>0, <2>1, ClockAssumption DEF PeopleOK
  <2>3. FlatOK'
    BY <1>0, <2>1, <2>2 DEF FlatOK, RequestsOK, RequestOK
  <2> QED
    BY <1>1, <1>2, <1>3, <1>13, <2>1, <2>3 DEF HouseholdInv, bills
<1>14. CASE UNCHANGED vars
  <2>1. UNCHANGED flat /\ UNCHANGED bill /\ UNCHANGED plans /\ UNCHANGED pot
    BY <1>14 DEF vars, bills
  <2> QED
    BY <1>1, <1>2, <1>3, <1>9, <2>1 DEF HouseholdInv
<1>15. ASSUME NEW r \in Requests, Request(r) PROVE HouseholdInv'
  BY <1>4, <1>5, <1>6, <1>15 DEF Request
<1> QED
  BY <1>7, <1>8, <1>10, <1>11, <1>12, <1>13, <1>14, <1>15 DEF Next

\* What holds in every state of a household, however its requests overlap.
THEOREM HouseholdInvariant == Spec => []HouseholdInv
  BY HouseholdInit, HouseholdInductive, PTL DEF Spec

\* Every variable keeps its type, and no recurring expense belongs to a
\* month that has not begun.
THEOREM HouseholdTypes == Spec => []TypeOK
<1>1. HouseholdInv => TypeOK
  <2> SUFFICES ASSUME HouseholdInv PROVE TypeOK
    OBVIOUS
  <2>1. PeopleOK /\ BillsOK /\ PlansOK /\ PotOK
    BY DEF HouseholdInv, FlatOK
  <2>2. ASSUME NEW b \in DOMAIN bill
        PROVE  /\ bill[b].status \in {"pending", "confirmed", "disputed"}
               /\ bill[b].paid \subseteq DOMAIN bill[b].share
               /\ bill[b].share \in [DOMAIN bill[b].share -> Nat]
               /\ bill[b].deadline \in 0 .. MaxNow
    <3>1. bill[b] \in BillRow
      BY <2>1 DEF BillsOK
    <3>2. bill[b] \in BillColumns /\ bill[b].paid \subseteq DOMAIN bill[b].share
      BY <3>1 DEF BillRow
    <3>3. bill[b].share \in Allotments
      BY <3>2 DEF BillColumns
    <3>4. bill[b].share \in [DOMAIN bill[b].share -> Nat]
      BY <3>3, AllotmentOf
    <3> QED
      BY <3>2, <3>4 DEF BillColumns
  <2>3. \A k \in DOMAIN recurring : recurring[k].status \in {"active", "paused"}
    <3>1. \A x \in RecurringRow : x.status \in {"active", "paused"}
      BY DEF RecurringRow
    <3>2. \A k \in DOMAIN recurring : recurring[k] \in RecurringRow
      BY <2>1 DEF PlansOK
    <3> QED
      BY <3>1, <3>2
  <2>4. \A i \in DOMAIN settlement : settlement[i].pot > 0
    <3>1. \A s \in SettlementRow : s.pot > 0
      BY DEF SettlementRow
    <3>2. \A i \in DOMAIN settlement : settlement[i] \in SettlementRow
      BY <2>1 DEF PotOK
    <3> QED
      BY <3>1, <3>2
  <2> QED
    BY <2>1, <2>2, <2>3, <2>4 DEF TypeOK, PeopleOK, PlansOK, PotOK
<1> QED
  BY <1>1, HouseholdInvariant, PTL

\* No rupee is lost or made, whatever the roster does between the reading
\* and the writing (money.py, settlements.py): the shares of a bill make up
\* its total, a pot is what went to the rent and what was left, and the
\* ledger is the sum of what was left and what was entered by hand.
THEOREM RupeesAccounted == Spec => []EveryRupeeAccounted
<1>1. HouseholdInv => EveryRupeeAccounted
  <2> SUFFICES ASSUME HouseholdInv PROVE EveryRupeeAccounted
    OBVIOUS
  <2>1. BillsOK /\ PotOK /\ LedgerBalances
    BY DEF HouseholdInv
  <2>2. \A b \in DOMAIN bill : Total(bill[b].share) = bill[b].total
    <3>1. \A x \in BillRow : Total(x.share) = x.total
      BY DEF BillRow, Divided
    <3>2. \A b \in DOMAIN bill : bill[b] \in BillRow
      BY <2>1 DEF BillsOK
    <3> QED
      BY <3>1, <3>2
  <2>3. \A i \in DOMAIN settlement :
          settlement[i].pot = settlement[i].applied + settlement[i].leftover
    <3>1. \A s \in SettlementRow : s.pot = s.applied + s.leftover
      BY DEF SettlementRow
    <3>2. \A i \in DOMAIN settlement : settlement[i] \in SettlementRow
      BY <2>1 DEF PotOK
    <3> QED
      BY <3>1, <3>2
  <2> QED
    BY <2>1, <2>2, <2>3 DEF EveryRupeeAccounted, LedgerBalances, Leftovers
<1> QED
  BY <1>1, HouseholdInvariant, PTL

\* No share of a bill is paid before the bill was confirmed, though a dispute
\* read before the sweep may reopen it after (billing.mark_share_paid).
THEOREM PaidWasConfirmed == Spec => []PaidOnlyOnceConfirmed
<1>1. HouseholdInv => PaidOnlyOnceConfirmed
  BY DEF HouseholdInv, BillsOK, BillRow, PaidOnlyOnceConfirmed
<1> QED
  BY <1>1, HouseholdInvariant, PTL

-----------------------------------------------------------------------------
(* Who is doing what.                                                      *)

\* A step leaves the requests as they are, but for one that ends or is of
\* one of the kinds given.
Touches(kinds) == \A s \in Slots : req'[s] = req[s] \/ req'[s].op \in kinds \cup {"idle"}

LEMMA LoadTouches ==
  ASSUME RequestsOK, NEW r \in Slots, NEW op, NEW what, Load(r, op, what)
  PROVE  Touches({op}) /\ UNCHANGED people
BY DEF Load, Touches, RequestsOK

LEMMA FinishTouches ==
  ASSUME RequestsOK, NEW r \in Slots, req' = [req EXCEPT ![r] = Idle]
  PROVE  Touches({})
BY DEF Touches, RequestsOK, Idle

LEMMA RequestKinds ==
  ASSUME RequestsOK, NEW r \in Slots
  PROVE  /\ BillRequest(r) => Touches({"bill", "dispute", "share"}) /\ UNCHANGED people
         /\ TemplateRequest(r) => Touches({"template"}) /\ UNCHANGED people
         /\ LoadCharge(r) \/ LoadEntry(r) => Touches({"charge", "entry"}) /\ UNCHANGED people
         /\ LoadClose(r) => Touches({"close"}) /\ UNCHANGED people
         /\ CommitClose(r) \/ CommitCharge(r) \/ CommitEntry(r) => Touches({}) /\ UNCHANGED people
         /\ LoadRentShares(r) => Touches({"rentshares"}) /\ UNCHANGED people
         /\ CommitRentShares(r) => Touches({}) /\ UNCHANGED <<role, active>>
         /\ LoadRole(r) => Touches({"role"}) /\ UNCHANGED people
         /\ LoadRemove(r) => Touches({"remove"}) /\ UNCHANGED people
         /\ CommitRole(r) \/ CommitRemove(r) => Touches({})
         /\ Abandon(r) => Touches({}) /\ UNCHANGED people
<1>1. ASSUME BillRequest(r) PROVE Touches({"bill", "dispute", "share"}) /\ UNCHANGED people
  <2>1. CASE LoadBill(r)
    <3>0. PICK who \in ActiveTenants, form \in BillForms : \E share \in BillShares(form) :
            Load(r, "bill", [payer |-> who, total |-> form.total, share |-> share])
      BY <2>1 DEF LoadBill
    <3>1. PICK what : Load(r, "bill", what)
      BY <3>0
    <3> QED
      BY <3>1, LoadTouches DEF Touches
  <2>2. CASE LoadDispute(r)
    <3>1. PICK what : Load(r, "dispute", what)
      BY <2>2 DEF LoadDispute
    <3> QED
      BY <3>1, LoadTouches DEF Touches
  <2>3. CASE LoadSharePaid(r)
    <3>1. PICK what : Load(r, "share", what)
      BY <2>3 DEF LoadSharePaid
    <3> QED
      BY <3>1, LoadTouches DEF Touches
  <2>4. CASE CommitBill(r) \/ CommitDispute(r) \/ CommitSharePaid(r)
    <3>1. req' = [req EXCEPT ![r] = Idle] /\ UNCHANGED people
      BY <2>4 DEF CommitBill, CommitDispute, CommitSharePaid, Finish
    <3> QED
      BY <3>1, FinishTouches DEF Touches
  <2> QED
    BY <1>1, <2>1, <2>2, <2>3, <2>4 DEF BillRequest
<1>2. ASSUME TemplateRequest(r) PROVE Touches({"template"}) /\ UNCHANGED people
  <2>1. CASE LoadTemplate(r)
    <3>1. PICK what : Load(r, "template", what)
      BY <2>1 DEF LoadTemplate
    <3> QED
      BY <3>1, LoadTouches
  <2>2. CASE CommitTemplate(r)
    <3>1. req' = [req EXCEPT ![r] = Idle] /\ UNCHANGED people
      BY <2>2 DEF CommitTemplate, Finish
    <3> QED
      BY <3>1, FinishTouches DEF Touches
  <2> QED
    BY <1>2, <2>1, <2>2 DEF TemplateRequest
<1>3. ASSUME LoadCharge(r) \/ LoadEntry(r) PROVE Touches({"charge", "entry"}) /\ UNCHANGED people
  <2>1. PICK op \in {"charge", "entry"} : \E what : Load(r, op, what)
    BY <1>3 DEF LoadCharge, LoadEntry
  <2>2. PICK what : Load(r, op, what)
    BY <2>1
  <2> QED
    BY <2>2, LoadTouches DEF Touches
<1>4. ASSUME LoadClose(r) PROVE Touches({"close"}) /\ UNCHANGED people
  <2>1. PICK what : Load(r, "close", what)
    BY <1>4 DEF LoadClose
  <2> QED
    BY <2>1, LoadTouches
<1>5. ASSUME CommitClose(r) \/ CommitCharge(r) \/ CommitEntry(r) PROVE Touches({}) /\ UNCHANGED people
  <2>1. req' = [req EXCEPT ![r] = Idle] /\ UNCHANGED people
    BY <1>5 DEF CommitClose, CommitCharge, CommitEntry, Finish
  <2> QED
    BY <2>1, FinishTouches
<1>6. ASSUME LoadRentShares(r) PROVE Touches({"rentshares"}) /\ UNCHANGED people
  <2>1. PICK what : Load(r, "rentshares", what)
    BY <1>6 DEF LoadRentShares
  <2> QED
    BY <2>1, LoadTouches
<1>7. ASSUME LoadRole(r) PROVE Touches({"role"}) /\ UNCHANGED people
  <2>1. PICK what : Load(r, "role", what)
    BY <1>7 DEF LoadRole
  <2> QED
    BY <2>1, LoadTouches
<1>8. ASSUME LoadRemove(r) PROVE Touches({"remove"}) /\ UNCHANGED people
  <2>1. PICK what : Load(r, "remove", what)
    BY <1>8 DEF LoadRemove
  <2> QED
    BY <2>1, LoadTouches
<1>9. ASSUME CommitRole(r) \/ CommitRemove(r) \/ CommitRentShares(r) \/ Abandon(r) PROVE Touches({})
  <2>1. req' = [req EXCEPT ![r] = Idle]
    BY <1>9 DEF CommitRole, CommitRemove, CommitRentShares, Abandon, Finish
  <2> QED
    BY <2>1, FinishTouches
<1>10. /\ CommitRentShares(r) => UNCHANGED <<role, active>>
       /\ Abandon(r) => UNCHANGED people
  BY DEF CommitRentShares, Abandon
<1> QED
  BY <1>1, <1>2, <1>3, <1>4, <1>5, <1>6, <1>7, <1>8, <1>9, <1>10

-----------------------------------------------------------------------------
(* An administrator remains.                                               *)

Alters(q) == q.op \in {"role", "remove"}

\* Nobody changes a role or removes a member while another such request is
\* in flight: the guard against the last administrator is read before it is
\* relied on, and nothing holds the roster in between (members.py).
RosterApart == \A r, s \in DOMAIN req : Alters(req[r]) /\ Alters(req[s]) => r = s

Demotes(q) == q.op = "remove" \/ (q.op = "role" /\ q.what.role = "guest")

\* Whoever is about to go leaves an administrator behind.
LeavesOne == \A r \in Slots : Demotes(req[r]) => ActiveTenants \ {req[r].what.member} # {}

AdminInv == HouseholdInv /\ AdminRemains /\ LeavesOne

LEMMA RosterQuiet ==
  ASSUME AdminInv, UNCHANGED <<role, active>>, NEW kinds, Touches(kinds),
         {"role", "remove"} \cap kinds = {}
  PROVE  AdminRemains' /\ LeavesOne'
<1>1. ActiveTenants' = ActiveTenants
  BY DEF ActiveTenants
<1>2. AdminRemains'
  BY <1>1 DEF AdminInv, AdminRemains
<1>3. ASSUME NEW s \in Slots, Demotes(req[s])' PROVE (ActiveTenants \ {req[s].what.member})' # {}
  <2>1. req'[s].op \in {"role", "remove"}
    BY <1>3 DEF Demotes
  <2>2. req'[s] = req[s]
    BY <2>1 DEF Touches
  <2>3. Demotes(req[s])
    BY <1>3, <2>2 DEF Demotes
  <2>4. ActiveTenants \ {req[s].what.member} # {}
    BY <2>3 DEF AdminInv, LeavesOne
  <2> QED
    BY <1>1, <2>2, <2>4
<1> QED
  BY <1>2, <1>3 DEF LeavesOne

LEMMA NotLast ==
  ASSUME PeopleOK, AdminRemains, NEW m \in Members, ~IsLastAdmin(m)
  PROVE  ActiveTenants \ {m} # {}
<1>1. CASE role[m] # "tenant"
  <2>1. m \notin ActiveTenants
    BY <1>1 DEF ActiveTenants
  <2> QED
    BY <2>1 DEF AdminRemains
<1>2. CASE role[m] = "tenant"
  <2>1. IsFiniteSet(ActiveTenants)
    BY MembersAssumption, FS_Subset DEF ActiveTenants
  <2>2. ~(Cardinality(ActiveTenants) <= 1)
    BY <1>2 DEF IsLastAdmin
  <2> SUFFICES ASSUME ActiveTenants \subseteq {m} PROVE FALSE
    OBVIOUS
  <2>3. IsFiniteSet({m}) /\ Cardinality({m}) = 1
    BY FS_Singleton
  <2>4. Cardinality(ActiveTenants) <= Cardinality({m})
    BY <2>3, FS_Subset
  <2> QED
    BY <2>2, <2>3, <2>4
<1> QED
  BY <1>1, <1>2

LEMMA DemotionLoads ==
  ASSUME AdminInv, NEW r \in Slots, LoadRole(r) \/ LoadRemove(r)
  PROVE  AdminRemains' /\ LeavesOne'
<1>0. PeopleOK /\ RequestsOK /\ AdminRemains
  BY DEF AdminInv, HouseholdInv, FlatOK
<1>1. PICK q : /\ req' = [req EXCEPT ![r] = q] /\ UNCHANGED people
               /\ Demotes(q) => ActiveTenants \ {q.what.member} # {}
  <2>1. CASE LoadRole(r)
    <3>1. PICK m \in Members, to \in {"tenant", "guest"} :
            (to = "guest" => ~IsLastAdmin(m)) /\ Load(r, "role", [member |-> m, role |-> to])
      BY <2>1 DEF LoadRole
    <3> DEFINE q == [op |-> "role", what |-> [member |-> m, role |-> to]]
    <3>2. req' = [req EXCEPT ![r] = q] /\ UNCHANGED people
      BY <3>1 DEF Load
    <3>3. Demotes(q) => to = "guest" /\ q.what.member = m
      BY DEF Demotes
    <3>4. Demotes(q) => ActiveTenants \ {q.what.member} # {}
      BY <1>0, <3>1, <3>3, NotLast
    <3> QED
      BY <3>2, <3>4
  <2>2. CASE LoadRemove(r)
    <3>1. PICK m \in Members : ~IsLastAdmin(m) /\ Load(r, "remove", [member |-> m])
      BY <2>2 DEF LoadRemove
    <3> DEFINE q == [op |-> "remove", what |-> [member |-> m]]
    <3>2. req' = [req EXCEPT ![r] = q] /\ UNCHANGED people
      BY <3>1 DEF Load
    <3>3. ActiveTenants \ {q.what.member} # {}
      BY <1>0, <3>1, NotLast
    <3> QED
      BY <3>2, <3>3
  <2> QED
    BY <2>1, <2>2
<1>2. ActiveTenants' = ActiveTenants
  BY <1>1 DEF ActiveTenants, people
<1>3. req'[r] = q /\ \A s \in Slots : s # r => req'[s] = req[s]
  BY <1>0, <1>1 DEF RequestsOK
<1>4. ASSUME NEW s \in Slots, Demotes(req'[s]) PROVE ActiveTenants \ {req'[s].what.member} # {}
  <2>1. CASE s = r
    BY <1>1, <1>3, <1>4, <2>1
  <2>2. CASE s # r
    BY <1>3, <1>4, <2>2 DEF AdminInv, LeavesOne
  <2> QED
    BY <2>1, <2>2
<1>5. \A s \in Slots : Demotes(req[s])' <=> Demotes(req'[s])
  BY DEF Demotes
<1>6. LeavesOne'
  BY <1>2, <1>4, <1>5 DEF LeavesOne
<1> QED
  BY <1>0, <1>2, <1>6 DEF AdminRemains

LEMMA DemotionCommits ==
  ASSUME AdminInv, RosterApart, NEW r \in Slots, CommitRole(r) \/ CommitRemove(r)
  PROVE  AdminRemains' /\ LeavesOne'
<1>0. PeopleOK /\ RequestsOK /\ AdminRemains /\ LeavesOne
  BY DEF AdminInv, HouseholdInv, FlatOK
<1>1. Alters(req[r]) /\ req' = [req EXCEPT ![r] = Idle]
  BY DEF CommitRole, CommitRemove, Finish, Alters
<1>2. \A s \in Slots : ~Alters(req'[s])
  <2>1. \A s \in Slots : s # r => req'[s] = req[s] /\ ~Alters(req[s])
    BY <1>0, <1>1 DEF RequestsOK, RosterApart
  <2>2. req'[r] = Idle /\ ~Alters(Idle)
    BY <1>0, <1>1 DEF RequestsOK, Alters, Idle
  <2> QED
    BY <2>1, <2>2
<1>3. LeavesOne'
  BY <1>2 DEF LeavesOne, Demotes, Alters
<1>4. AdminRemains'
  <2> DEFINE m == req[r].what.member
  <2>1. CASE CommitRemove(r)
    <3>1. req[r].op = "remove" /\ UNCHANGED role /\ active' = [active EXCEPT ![m] = FALSE]
      BY <2>1 DEF CommitRemove, Finish
    <3>2. ActiveTenants \ {m} # {}
      BY <1>0, <3>1 DEF LeavesOne, Demotes
    <3> HIDE DEF m
    <3>3. ActiveTenants \ {m} \subseteq ActiveTenants'
      BY <1>0, <3>1 DEF ActiveTenants, PeopleOK
    <3> QED
      BY <3>2, <3>3 DEF AdminRemains
  <2>2. CASE CommitRole(r)
    <3> DEFINE to == req[r].what.role
    <3>1. req[r].op = "role" /\ UNCHANGED active /\ role' = [role EXCEPT ![m] = to]
      BY <2>2 DEF CommitRole, Finish
    <3>2. to \in {"tenant", "guest"} /\ m \in Members
      BY <1>0, <3>1, AskedFor DEF RoleAsked
    <3>3. to = "guest" => ActiveTenants \ {m} # {}
      BY <1>0, <3>1 DEF LeavesOne, Demotes
    <3> HIDE DEF m, to
    <3>4. ActiveTenants \ {m} \subseteq ActiveTenants'
      BY <1>0, <3>1 DEF ActiveTenants, PeopleOK
    <3>5. to = "tenant" => ActiveTenants \subseteq ActiveTenants'
      BY <1>0, <3>1 DEF ActiveTenants, PeopleOK
    <3> QED
      BY <1>0, <3>2, <3>3, <3>4, <3>5 DEF AdminRemains
  <2> QED
    BY <2>1, <2>2
<1> QED
  BY <1>3, <1>4

LEMMA AdminInductive == AdminInv /\ RosterApart /\ [Next]_vars => AdminInv'
<1> SUFFICES ASSUME AdminInv, RosterApart, [Next]_vars PROVE AdminInv'
  OBVIOUS
<1>0. HouseholdInv /\ RequestsOK
  BY DEF AdminInv, HouseholdInv, FlatOK
<1>1. HouseholdInv'
  BY <1>0, HouseholdInductive
<1> SUFFICES AdminRemains' /\ LeavesOne'
  BY <1>1 DEF AdminInv
<1>2. ASSUME NEW r \in Requests, Request(r) PROVE AdminRemains' /\ LeavesOne'
  <2>1. r \in Slots
    BY DEF Slots
  <2>2. PICK kinds \in {{"bill", "dispute", "share"}, {"template"}, {"charge", "entry"}, {"close"}, {}} :
          Touches(kinds) /\ UNCHANGED people
    BY <1>0, <1>2, <2>1, RequestKinds DEF Request, MoneyRequest
  <2>3. {"role", "remove"} \cap kinds = {} /\ UNCHANGED <<role, active>>
    BY <2>2 DEF people
  <2> QED
    BY <2>2, <2>3, RosterQuiet
<1>3. ASSUME NEW r \in RosterSlots, RosterRequest(r) PROVE AdminRemains' /\ LeavesOne'
  <2>1. r \in Slots
    BY DEF Slots
  <2>2. CASE LoadRentShares(r) \/ CommitRentShares(r)
    <3>1. PICK kinds \in {{"rentshares"}, {}} : Touches(kinds) /\ UNCHANGED <<role, active>>
      BY <1>0, <2>1, <2>2, RequestKinds DEF people
    <3>2. {"role", "remove"} \cap kinds = {}
      BY <3>1
    <3> QED
      BY <3>1, <3>2, RosterQuiet
  <2> QED
    BY <1>3, <2>1, <2>2, DemotionLoads, DemotionCommits DEF RosterRequest
<1>4. ASSUME NEW r \in DOMAIN req, Abandon(r) PROVE AdminRemains' /\ LeavesOne'
  <2>1. r \in Slots
    BY <1>0 DEF RequestsOK
  <2>2. Touches({}) /\ UNCHANGED <<role, active>>
    BY <1>0, <1>4, <2>1, RequestKinds DEF people
  <2> QED
    BY <2>2, RosterQuiet
<1>5. ASSUME UNCHANGED <<people, req>> PROVE AdminRemains' /\ LeavesOne'
  <2>1. Touches({}) /\ UNCHANGED <<role, active>>
    BY <1>5 DEF Touches, people
  <2> QED
    BY <2>1, RosterQuiet
<1>6. CASE CreateRecurring
  BY <1>5, <1>6 DEF CreateRecurring, flat
<1>7. CASE \E f \in Fines : Register(f) \/ Pay(f)
  BY <1>5, <1>7 DEF Register, Pay, flat
<1>8. CASE Sweep
  BY <1>5, <1>8 DEF Sweep, flat
<1>9. CASE Tick
  BY <1>5, <1>9 DEF Tick
<1>10. CASE UNCHANGED vars
  BY <1>5, <1>10 DEF vars, flat
<1> QED
  BY <1>2, <1>3, <1>4, <1>6, <1>7, <1>8, <1>9, <1>10 DEF Next

LEMMA AdminInit == Init => AdminInv
<1> SUFFICES ASSUME Init PROVE AdminInv
  OBVIOUS
<1>1. HouseholdInv
  BY HouseholdInit
<1>2. AdminRemains
  BY MembersAssumption DEF Init, FlatInit, AdminRemains, ActiveTenants
<1>3. \A r \in Slots : req[r] = Idle
  BY DEF Init, FlatInit, Slots
<1>4. LeavesOne
  BY <1>3 DEF LeavesOne, Demotes, Idle
<1> QED
  BY <1>1, <1>2, <1>4 DEF AdminInv

\* The flat is never without an administrator (members.py: "the final member
\* who can manage users can't be removed or demoted"), however the requests
\* that do not change the roster overlap with the one that does.
THEOREM AdminStays == Spec /\ []RosterApart => []AdminRemains
<1>1. AdminInv => AdminRemains
  BY DEF AdminInv
<1> QED
  BY <1>1, AdminInit, AdminInductive, PTL DEF Spec

-----------------------------------------------------------------------------
(* No fine is counted twice.                                               *)

\* No period is closed while another is being closed: the end of the last
\* one is read before the next is written (settlements.py).
ClosingsApart == \A r, s \in DOMAIN req : req[r].op = "close" /\ req[s].op = "close" => r = s

\* A fine falls in a period by the time it was registered.
InPeriod(s) ==
  \A f \in s.fines : fine[f].owed /\ s.from < fine[f].resolved /\ fine[f].resolved <= s.to

PeriodsInOrder ==
  /\ \A i \in DOMAIN settlement : InPeriod(settlement[i])
  /\ \A i, j \in DOMAIN settlement : i < j => settlement[i].to <= settlement[j].from

\* The period being closed begins after those that are closed.
ClosesTheNext ==
  \A r \in Slots : req[r].op = "close" =>
    /\ InPeriod(req[r].what)
    /\ \A i \in DOMAIN settlement : settlement[i].to <= req[r].what.from

CloseInv == HouseholdInv /\ PeriodsInOrder /\ ClosesTheNext

\* A period does not lose its fines while others are registered and paid.
LEMMA CloseQuiet ==
  ASSUME CloseInv, UNCHANGED settlement, NEW kinds, Touches(kinds), "close" \notin kinds,
         \A f \in Fines : fine[f].owed => fine'[f].owed /\ fine'[f].resolved = fine[f].resolved
  PROVE  PeriodsInOrder' /\ ClosesTheNext'
<1>0. PotOK /\ RequestsOK /\ PeriodsInOrder /\ ClosesTheNext
  BY DEF CloseInv, HouseholdInv, FlatOK
<1>2. \A i \in DOMAIN settlement : settlement[i] \in SettlementRow
  BY <1>0 DEF PotOK
<1>3. PeriodsInOrder'
  <2>1. \A i \in DOMAIN settlement : InPeriod(settlement[i])'
    <3> SUFFICES ASSUME NEW i \in DOMAIN settlement PROVE InPeriod(settlement[i])'
      OBVIOUS
    <3> DEFINE s == settlement[i]
    <3>1. s \in SettlementRow /\ \A f \in s.fines :
            fine[f].owed /\ s.from < fine[f].resolved /\ fine[f].resolved <= s.to
      BY <1>0, <1>2 DEF PeriodsInOrder, InPeriod
    <3>2. s' = s
      OBVIOUS
    <3>3. s.fines \subseteq Fines
      BY <3>1 DEF SettlementRow
    <3>4. \A f \in s.fines : fine'[f].owed /\ s.from < fine'[f].resolved /\ fine'[f].resolved <= s.to
      BY <3>1, <3>3
    <3> QED
      BY <3>2, <3>4 DEF InPeriod
  <2> QED
    BY <1>0, <2>1 DEF PeriodsInOrder
<1>4. ClosesTheNext'
  <2> SUFFICES ASSUME NEW r \in Slots, req'[r].op = "close"
               PROVE  /\ InPeriod(req[r].what)'
                      /\ \A i \in DOMAIN settlement : settlement[i].to <= req'[r].what.from
    BY DEF ClosesTheNext
  <2>1. req'[r] = req[r]
    BY DEF Touches
  <2> DEFINE s == req[r].what
  <2>2. /\ s \in SettlementRow
        /\ \A i \in DOMAIN settlement : settlement[i].to <= s.from
        /\ \A f \in s.fines : fine[f].owed /\ s.from < fine[f].resolved /\ fine[f].resolved <= s.to
    BY <1>0, <2>1, AskedFor DEF ClosesTheNext, InPeriod
  <2>3. s' = s
    BY <2>1
  <2>4. s.fines \subseteq Fines
    BY <2>2 DEF SettlementRow
  <2>5. \A f \in s.fines : fine'[f].owed /\ s.from < fine'[f].resolved /\ fine'[f].resolved <= s.to
    BY <2>2, <2>4
  <2>6. InPeriod(req[r].what)'
    BY <2>3, <2>5 DEF InPeriod
  <2> QED
    BY <2>1, <2>2, <2>6
<1> QED
  BY <1>3, <1>4

LEMMA CloseLoaded ==
  ASSUME CloseInv, NEW r \in Slots, LoadClose(r)
  PROVE  PeriodsInOrder' /\ ClosesTheNext'
<1>0. FlatOK /\ PotOK /\ PeopleOK /\ PeriodsInOrder /\ ClosesTheNext
  BY DEF CloseInv, HouseholdInv, FlatOK
<1> DEFINE what == req'[r].what
<1>1. /\ UNCHANGED <<fine, settlement>> /\ \A s \in Slots : s # r => req'[s] = req[s]
      /\ what.from = LastClose /\ what.to = now /\ what.fines = PaidPot(LastClose, now)
  BY <1>0, CloseLoads DEF money
<1>2. LastClose \in Int /\ \A i \in DOMAIN settlement : settlement[i].to <= LastClose
  BY <1>0, LatestClose DEF PotOK
<1>3. \A f \in what.fines : fine[f].owed /\ what.from < fine[f].resolved /\ fine[f].resolved <= what.to
  <2> SUFFICES ASSUME NEW f \in PaidPot(LastClose, now)
               PROVE  fine[f].owed /\ LastClose < fine[f].resolved /\ fine[f].resolved <= now
    BY <1>1
  <2>1. fine[f].owed /\ fine[f].resolved \in LastClose + 1 .. now
    BY DEF PaidPot
  <2>2. now \in Int
    BY <1>0 DEF PeopleOK
  <2> QED
    BY <1>2, <2>1, <2>2
<1>5. PeriodsInOrder'
  BY <1>0, <1>1 DEF PeriodsInOrder, InPeriod
<1>6. ASSUME NEW s \in Slots, req'[s].op = "close"
      PROVE  /\ \A f \in req'[s].what.fines :
                  /\ fine[f].owed
                  /\ req'[s].what.from < fine[f].resolved /\ fine[f].resolved <= req'[s].what.to
             /\ \A i \in DOMAIN settlement : settlement[i].to <= req'[s].what.from
  <2>1. CASE s = r
    BY <1>1, <1>2, <1>3, <2>1
  <2>2. CASE s # r
    <3>1. req'[s] = req[s]
      BY <1>1, <2>2
    <3> QED
      BY <1>0, <1>6, <3>1 DEF ClosesTheNext, InPeriod
  <2> QED
    BY <2>1, <2>2
<1> HIDE DEF what
<1>7. ClosesTheNext'
  BY <1>1, <1>6 DEF ClosesTheNext, InPeriod
<1> QED
  BY <1>5, <1>7

LEMMA CloseCommitted ==
  ASSUME CloseInv, ClosingsApart, NEW r \in Slots, CommitClose(r)
  PROVE  PeriodsInOrder' /\ ClosesTheNext'
<1>0. PotOK /\ RequestsOK /\ PeriodsInOrder /\ ClosesTheNext
  BY DEF CloseInv, HouseholdInv, FlatOK
<1> DEFINE q == req[r].what
           n == Len(settlement)
<1>1. /\ req[r].op = "close" /\ req' = [req EXCEPT ![r] = Idle] /\ UNCHANGED fine
      /\ settlement' = Append(settlement, q)
  BY DEF CommitClose, Finish
<1>2. q \in SettlementRow
  BY <1>0, <1>1, AskedFor
<1>3. /\ InPeriod(q) /\ \A i \in DOMAIN settlement : settlement[i].to <= q.from
  BY <1>1, <1>0 DEF ClosesTheNext
<1> HIDE DEF q
<1>4. /\ n \in Nat /\ DOMAIN settlement = 1 .. n /\ DOMAIN settlement' = 1 .. n + 1
      /\ settlement'[n + 1] = q /\ \A i \in 1 .. n : settlement'[i] = settlement[i]
  BY <1>0, <1>1, <1>2, Appended DEF PotOK
<1> HIDE DEF n
<1>5. ASSUME NEW i \in 1 .. n + 1 PROVE i \in 1 .. n \/ i = n + 1
  BY <1>4
<1>6. \A i \in 1 .. n + 1 : \A f \in settlement'[i].fines :
        /\ fine[f].owed
        /\ settlement'[i].from < fine[f].resolved /\ fine[f].resolved <= settlement'[i].to
  <2> SUFFICES ASSUME NEW i \in 1 .. n + 1, NEW f \in settlement'[i].fines
               PROVE  /\ fine[f].owed
                      /\ settlement'[i].from < fine[f].resolved /\ fine[f].resolved <= settlement'[i].to
    OBVIOUS
  <2>1. CASE i \in 1 .. n
    BY <1>0, <1>4, <2>1 DEF PeriodsInOrder, InPeriod
  <2>2. CASE i = n + 1
    BY <1>3, <1>4, <2>2 DEF InPeriod
  <2> QED
    BY <1>5, <2>1, <2>2
<1>7. ASSUME NEW i \in 1 .. n + 1, NEW j \in 1 .. n + 1, i < j
      PROVE  settlement'[i].to <= settlement'[j].from
  <2>1. i \in 1 .. n
    BY <1>4, <1>7
  <2>2. CASE j \in 1 .. n
    BY <1>0, <1>4, <1>7, <2>1, <2>2 DEF PeriodsInOrder
  <2>3. CASE j = n + 1
    BY <1>3, <1>4, <2>1, <2>3
  <2> QED
    BY <1>5, <2>2, <2>3
<1>8. PeriodsInOrder'
  BY <1>1, <1>4, <1>6, <1>7 DEF PeriodsInOrder, InPeriod
<1>9. \A s \in Slots : req'[s].op # "close"
  <2>1. \A s \in Slots : s # r => req'[s] = req[s] /\ req[s].op # "close"
    BY <1>0, <1>1 DEF RequestsOK, ClosingsApart
  <2>2. req'[r].op # "close"
    BY <1>0, <1>1 DEF RequestsOK, Idle
  <2> QED
    BY <2>1, <2>2
<1>10. ClosesTheNext'
  BY <1>9 DEF ClosesTheNext
<1> QED
  BY <1>8, <1>10

LEMMA CloseInductive == CloseInv /\ ClosingsApart /\ [Next]_vars => CloseInv'
<1> SUFFICES ASSUME CloseInv, ClosingsApart, [Next]_vars PROVE CloseInv'
  OBVIOUS
<1>0. HouseholdInv /\ RequestsOK /\ PotOK /\ PeopleOK
  BY DEF CloseInv, HouseholdInv, FlatOK
<1>1. HouseholdInv'
  BY <1>0, HouseholdInductive
<1> SUFFICES PeriodsInOrder' /\ ClosesTheNext'
  BY <1>1 DEF CloseInv
<1>2. ASSUME UNCHANGED <<fine, settlement>>, NEW kinds, Touches(kinds), "close" \notin kinds
      PROVE  PeriodsInOrder' /\ ClosesTheNext'
  BY <1>2, CloseQuiet
<1>3. ASSUME NEW r \in Requests, Request(r) PROVE PeriodsInOrder' /\ ClosesTheNext'
  <2>1. r \in Slots
    BY DEF Slots
  <2>2. CASE BillRequest(r) /\ UNCHANGED <<plans, pot>>
    <3>1. Touches({"bill", "dispute", "share"})
      BY <1>0, <2>1, <2>2, RequestKinds
    <3> QED
      BY <1>2, <2>2, <3>1 DEF pot, money
  <2>3. CASE TemplateRequest(r) /\ UNCHANGED <<bills, pot>>
    <3>1. Touches({"template"})
      BY <1>0, <2>1, <2>3, RequestKinds
    <3> QED
      BY <1>2, <2>3, <3>1 DEF pot, money
  <2>4. CASE LoadCharge(r) \/ LoadEntry(r)
    <3>1. Touches({"charge", "entry"})
      BY <1>0, <2>1, <2>4, RequestKinds
    <3>2. UNCHANGED <<fine, settlement>>
      BY <2>4 DEF LoadCharge, LoadEntry, money
    <3> QED
      BY <1>2, <3>1, <3>2
  <2>5. CASE CommitCharge(r) \/ CommitEntry(r)
    <3>1. Touches({})
      BY <1>0, <2>1, <2>5, RequestKinds
    <3>2. UNCHANGED <<fine, settlement>>
      BY <2>5 DEF CommitCharge, CommitEntry
    <3> QED
      BY <1>2, <3>1, <3>2
  <2> QED
    BY <1>3, <2>1, <2>2, <2>3, <2>4, <2>5, CloseLoaded, CloseCommitted DEF Request, MoneyRequest
<1>4. ASSUME NEW r \in RosterSlots, RosterRequest(r), UNCHANGED pot
      PROVE  PeriodsInOrder' /\ ClosesTheNext'
  <2>1. r \in Slots
    BY DEF Slots
  <2>2. PICK kinds \in {{"role"}, {"remove"}, {"rentshares"}, {}} : Touches(kinds)
    BY <1>0, <1>4, <2>1, RequestKinds DEF RosterRequest
  <2>3. "close" \notin kinds
    BY <2>2
  <2> QED
    BY <1>2, <1>4, <2>2, <2>3 DEF pot, money
<1>5. ASSUME NEW r \in DOMAIN req, Abandon(r), UNCHANGED pot PROVE PeriodsInOrder' /\ ClosesTheNext'
  <2>1. r \in Slots
    BY <1>0 DEF RequestsOK
  <2>2. Touches({})
    BY <1>0, <1>5, <2>1, RequestKinds
  <2> QED
    BY <1>2, <1>5, <2>2 DEF pot, money
<1>6. ASSUME UNCHANGED req PROVE Touches({})
  BY <1>6 DEF Touches
<1>7. CASE \E f \in Fines : Register(f) \/ Pay(f)
  <2>1. UNCHANGED <<settlement, req>>
    BY <1>7 DEF Register, Pay, money, flat
  <2>2. \A f \in Fines : fine[f].owed => fine'[f].owed /\ fine'[f].resolved = fine[f].resolved
    <3>1. fine \in [Fines -> [owed : BOOLEAN, resolved : Int, paid : BOOLEAN, paidAt : Int]]
      BY <1>0 DEF PotOK
    <3>2. PICK g \in Fines : Register(g) \/ Pay(g)
      BY <1>7
    <3>3. ASSUME NEW f \in Fines, fine[f].owed
          PROVE  fine'[f].owed /\ fine'[f].resolved = fine[f].resolved
      <4>1. CASE Register(g)
        <5>1. f # g /\ fine' = [fine EXCEPT ![g].owed = TRUE, ![g].resolved = now]
          BY <3>3, <4>1 DEF Register
        <5>2. fine'[f] = fine[f]
          BY <3>1, <5>1
        <5> QED
          BY <3>3, <5>2
      <4>2. CASE Pay(g)
        <5>1. fine' = [fine EXCEPT ![g].paid = TRUE, ![g].paidAt = now]
          BY <4>2 DEF Pay
        <5>2. fine'[f].owed = fine[f].owed /\ fine'[f].resolved = fine[f].resolved
          BY <3>1, <5>1
        <5> QED
          BY <3>3, <5>2
      <4> QED
        BY <3>2, <4>1, <4>2
    <3> QED
      BY <3>3
  <2> QED
    BY <1>6, <2>1, <2>2, CloseQuiet
<1>8. CASE CreateRecurring /\ UNCHANGED <<bills, pot>>
  BY <1>2, <1>6, <1>8 DEF CreateRecurring, flat, pot, money
<1>9. CASE Sweep
  BY <1>2, <1>6, <1>9 DEF Sweep, flat, pot, money
<1>10. CASE Tick /\ UNCHANGED <<bills, plans, pot>>
  BY <1>2, <1>6, <1>10 DEF Tick, pot, money
<1>11. CASE UNCHANGED vars
  BY <1>2, <1>6, <1>11 DEF vars, flat, pot, money
<1> QED
  BY <1>3, <1>4, <1>5, <1>7, <1>8, <1>9, <1>10, <1>11 DEF Next

LEMMA CloseInit == Init => CloseInv
<1> SUFFICES ASSUME Init PROVE CloseInv
  OBVIOUS
<1>1. HouseholdInv
  BY HouseholdInit
<1>2. settlement = <<>>
  BY DEF Init
<1>3. PeriodsInOrder
  BY <1>2 DEF PeriodsInOrder
<1>4. \A r \in Slots : req[r].op # "close"
  BY DEF Init, FlatInit, Slots, Idle
<1> QED
  BY <1>1, <1>3, <1>4 DEF CloseInv, ClosesTheNext

\* No fine is in the pot of two settlements (settlements.py: "the fine pot
\* collected since the last settlement"), as long as no two closings overlap,
\* though fines go on being registered and paid during each.
THEOREM FinesCountedOnce == Spec /\ []ClosingsApart => []CountedOnce
<1>1. CloseInv => CountedOnce
  <2> SUFFICES ASSUME CloseInv PROVE CountedOnce
    OBVIOUS
  <2>0. PeriodsInOrder /\ PotOK
    BY DEF CloseInv, HouseholdInv
  <2>1. ASSUME NEW i \in DOMAIN settlement, NEW j \in DOMAIN settlement, i < j
        PROVE  settlement[i].fines \cap settlement[j].fines = {}
    <3> SUFFICES ASSUME NEW f \in settlement[i].fines \cap settlement[j].fines PROVE FALSE
      OBVIOUS
    <3>1. /\ fine[f].resolved <= settlement[i].to /\ settlement[j].from < fine[f].resolved
          /\ settlement[i].to <= settlement[j].from
      BY <2>0, <2>1 DEF PeriodsInOrder, InPeriod
    <3>2. \A s \in SettlementRow : s.from \in Int /\ s.to \in Int /\ s.fines \in SUBSET Fines
      BY DEF SettlementRow
    <3>3. settlement[i] \in SettlementRow /\ settlement[j] \in SettlementRow
      BY <2>0 DEF PotOK
    <3>4. f \in Fines /\ settlement[i].to \in Int /\ settlement[j].from \in Int
      BY <3>2, <3>3
    <3>5. fine[f].resolved \in Int
      BY <2>0, <3>4 DEF PotOK
    <3> QED
      BY <3>1, <3>4, <3>5
  <2>2. DOMAIN settlement \subseteq Nat
    BY <2>0 DEF PotOK
  <2>3. \A i, j \in DOMAIN settlement : i # j => i < j \/ j < i
    BY <2>2
  <2> QED
    BY <2>1, <2>3 DEF CountedOnce
<1> QED
  BY <1>1, CloseInit, CloseInductive, PTL DEF Spec

=============================================================================
