----------------------------- MODULE Household -----------------------------
(***************************************************************************)
(* Bills, recurring expenses and settlements of one flat, composed: they   *)
(* share the roster, the clock and the request slots, and the sweep serves *)
(* bills and recurring expenses in one transaction, which takes the write  *)
(* lock with its first UPDATE and so is one step (main._sweep_loop).       *)
(***************************************************************************)
EXTENDS Bills, Recurring, Settlements

bills  == <<bill>>
plans  == <<template, recurring>>
pot    == <<fine, money>>
vars   == <<flat, bills, plans, pot>>

Init ==
  /\ FlatInit
  /\ bill = <<>>
  /\ template = {} /\ recurring = <<>>
  /\ fine = [f \in Fines |-> [owed |-> FALSE, resolved |-> 0, paid |-> FALSE, paidAt |-> 0]]
  /\ settlement = <<>>
  /\ ledger = [m \in Members |-> 0]
  /\ entries = 0 /\ booked = 0

Sweep ==
  /\ ConfirmOverdue
  /\ GenerateDue
  /\ UNCHANGED <<flat, template, pot>>

Request(r) ==
  \/ BillRequest(r)     /\ UNCHANGED <<plans, pot>>
  \/ TemplateRequest(r) /\ UNCHANGED <<bills, pot>>
  \/ MoneyRequest(r)    /\ UNCHANGED <<bills, plans>>

Next ==
  \/ \E r \in Requests : Request(r)
  \/ (\E r \in RosterSlots : RosterRequest(r)) /\ UNCHANGED <<bills, plans, pot>>
  \/ (\E r \in DOMAIN req : Abandon(r)) /\ UNCHANGED <<bills, plans, pot>>
  \/ CreateRecurring /\ UNCHANGED <<bills, pot>>
  \/ (\E f \in Fines : Register(f) \/ Pay(f)) /\ UNCHANGED <<bills, plans>>
  \/ Sweep
  \/ Tick /\ UNCHANGED <<bills, plans, pot>>

\* The sweep loop never ends and time passes; nobody has to ask for anything.
Spec == Init /\ [][Next]_vars
             /\ WF_vars(Sweep)
             /\ WF_vars(Tick /\ UNCHANGED <<bills, plans, pot>>)

-----------------------------------------------------------------------------
(* Properties.                                                             *)

\* Every column holds what its type and its CHECK constraints allow; a bill
\* belongs to its sharers and a recurring expense to months that have begun.
TypeOK ==
  /\ role \in [Members -> {"tenant", "guest"}] /\ active \in [Members -> BOOLEAN]
  /\ pct \in [Members -> 0 .. 100]
  /\ now \in 0 .. MaxNow
  /\ \A b \in DOMAIN bill : /\ bill[b].status \in {"pending", "confirmed", "disputed"}
                            /\ bill[b].paid \subseteq DOMAIN bill[b].share
                            /\ bill[b].share \in [DOMAIN bill[b].share -> Nat]
                            /\ bill[b].deadline \in 0 .. MaxNow
  /\ \A k \in DOMAIN recurring : /\ recurring[k].template \in template
                                 /\ recurring[k].status \in {"active", "paused"}
                                 /\ recurring[k].months \subseteq 0 .. Month
  /\ \A i \in DOMAIN settlement : settlement[i].pot > 0
  /\ ledger \in [Members -> Int]

\* The flat is never without an administrator (members.py: "the final member
\* who can manage users can't be removed or demoted"), as long as changes of
\* the roster do not overlap with one another.
AdminRemains == ActiveTenants # {}

\* A share is payable only after the bill was confirmed: none vanishes from
\* the dues of a bill that never was (billing.mark_share_paid), even when a
\* dispute read before the sweep reopens the bill after it.
PaidOnlyOnceConfirmed == \A b \in DOMAIN bill : bill[b].paid # {} => bill[b].resolved

\* "No rupee is ever lost" (money.py), whatever the roster does between the
\* reading and the writing: the shares of a bill make up its total, a
\* settlement's pot is what went to the rent and what was left, and the
\* ledger is the sum of what was left over and what was entered by hand.
EveryRupeeAccounted ==
  /\ \A b \in DOMAIN bill : Total(bill[b].share) = bill[b].total
  /\ \A i \in DOMAIN settlement :
       settlement[i].pot = settlement[i].applied + settlement[i].leftover
  /\ Total(ledger) = booked + Total([i \in DOMAIN settlement |-> settlement[i].leftover])

\* No fine is in the pot of two settlements (settlements.py: "the fine pot
\* collected since the last settlement"), though fines go on being registered
\* and paid while one period is being closed.
CountedOnce ==
  \A i, j \in DOMAIN settlement : i # j => settlement[i].fines \cap settlement[j].fines = {}

\* A recurring expense is due whose shares the database refuses: every pass
\* is rolled back.
HeldUp == ~SharesStorable

\* Lazy consensus: a declared bill does not stay undecided, whatever becomes
\* of the recurring expenses served in the same pass, unless one of them
\* goes on holding up the passes.
BillsDecided ==
  \A b \in 1 .. MaxBills :
    (b \in DOMAIN bill) ~> (b \in DOMAIN bill /\ bill[b].status # "pending") \/ HeldUp

\* Generated in the month at hand, or paused for a human to see.
Attended(k, month) ==
  k \in DOMAIN recurring /\ recurring[k].template.payer # None =>
    month \in recurring[k].months \/ recurring[k].status = "paused"

\* A recurring expense somebody pays for is attended to while the month
\* lasts (recurring.sweep_due), whoever has left the tenants by then, unless
\* the passes are held up.
NeverPassedOver ==
  \A k \in 1 .. MaxRecurring, month \in 0 .. MaxNow :
    Month = month ~> Month # month \/ Attended(k, month) \/ HeldUp

\* "Never silently skip a broken template [...] Pause it (so we don't
\* retry-spam every sweep)": the same without the exception.  A template
\* whose shares the database refuses is neither generated nor paused.
BrokenArePaused ==
  \A k \in 1 .. MaxRecurring, month \in 0 .. MaxNow :
    Month = month ~> Month # month \/ Attended(k, month)

\* What settlements.py says first: at close the pot collected since the last
\* settlement is applied.  So once a period that ends after the payment has
\* been closed, every fine paid is in the pot of some settlement (those apart
\* that were registered or paid in the very second of a closing).
PotAppliedAtClose ==
  LET Closings == {settlement[i].to : i \in DOMAIN settlement} IN
  \A f \in Fines :
    /\ fine[f].paid /\ {fine[f].resolved, fine[f].paidAt} \cap Closings = {}
    /\ \E t \in Closings : fine[f].paidAt < t
    => \E i \in DOMAIN settlement : f \in settlement[i].fines
=============================================================================
