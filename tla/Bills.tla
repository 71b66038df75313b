------------------------------- MODULE Bills -------------------------------
(***************************************************************************)
(* services/billing.py and repositories/bills.py: a tenant declares a bill *)
(* paid, the others may dispute it until its deadline, and the background  *)
(* sweep confirms what nobody disputed.  Only then are the shares payable. *)
(***************************************************************************)
EXTENDS Flat, Sequences

CONSTANTS
  BillForms,      \* the bills that may be declared: total, rent or not
  ConfirmWindow,  \* settings.bill_confirm_hours, in ticks
  MaxBills        \* bound on the number of bills

ASSUME BillsAssumption ==
  /\ \A form \in BillForms : form.total \in Nat /\ form.rent \in BOOLEAN
  /\ {ConfirmWindow, MaxBills} \subseteq Nat

VARIABLE bill     \* the bills in the order they were declared

\* Each active tenant's share, frozen when the bill is declared.
BillShares(form) ==
  IF form.rent
    THEN IF RentSharesSet(TenantPcts) THEN SplitByRatio(form.total, TenantPcts) ELSE {}
    ELSE SplitByRatio(form.total, Even(ActiveTenants))

LoadBill(r) ==
  \E who \in ActiveTenants, form \in BillForms :
    \E share \in BillShares(form) :
      /\ DOMAIN share # {}
      /\ Load(r, "bill", [payer |-> who, total |-> form.total, share |-> share])
      /\ UNCHANGED bill

\* The bound on the clock leaves room for the window to close.
CommitBill(r) ==
  LET q == req[r].what IN
  /\ Finish(r, "bill")
  /\ Len(bill) < MaxBills /\ now + ConfirmWindow < MaxNow
  /\ bill' = Append(bill,
       [payer |-> q.payer, total |-> q.total, share |-> q.share,
        status |-> "pending", deadline |-> now + ConfirmWindow,
        resolved |-> FALSE, paid |-> {}])
  /\ UNCHANGED people

LoadDispute(r) ==
  \E who \in ActiveTenants, b \in DOMAIN bill :
    /\ bill[b].status = "pending"
    /\ bill[b].payer # who
    /\ ~(bill[b].deadline < now)
    /\ Load(r, "dispute", [bill |-> b])
    /\ UNCHANGED bill

\* The status is written over whatever the row has become.
CommitDispute(r) ==
  /\ Finish(r, "dispute")
  /\ bill' = [bill EXCEPT ![req[r].what.bill].status = "disputed"]
  /\ UNCHANGED people

\* Mutant: a share can be paid as soon as nobody disputes the bill.
PayableUnlessDisputed(b) == bill[b].status # "disputed"

Payable(b) == bill[b].status = "confirmed"

\* Mutant: a missing share is made up.
Anybody(b) == Members

Sharers(b) == DOMAIN bill[b].share

\* Any tenant may mark any share; where there is none nothing is written.
LoadSharePaid(r) ==
  \E b \in DOMAIN bill :
    \E m \in Sharers(b) :
      /\ Payable(b)
      /\ Load(r, "share", [bill |-> b, member |-> m])
      /\ UNCHANGED bill

CommitSharePaid(r) ==
  LET q == req[r].what IN
  /\ Finish(r, "share")
  /\ bill' = [bill EXCEPT ![q.bill].paid = @ \cup {q.member}]
  /\ UNCHANGED people

Overdue(b) == bill[b].status = "pending" /\ bill[b].deadline < now

\* bulk_auto_confirm, one UPDATE inside the sweep.
ConfirmOverdue ==
  bill' = [b \in DOMAIN bill |->
             IF Overdue(b) THEN [bill[b] EXCEPT !.status = "confirmed", !.resolved = TRUE]
                           ELSE bill[b]]

BillRequest(r) ==
  \/ LoadBill(r) \/ LoadDispute(r) \/ LoadSharePaid(r)
  \/ CommitBill(r) \/ CommitDispute(r) \/ CommitSharePaid(r)
=============================================================================
