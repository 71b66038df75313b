---------------------------- MODULE Settlements ----------------------------
(***************************************************************************)
(* services/settlements.py, services/ledger.py: the fine pot is applied to *)
(* the rent when an administrator closes a period, what is left goes back  *)
(* to the tenants as ledger entries; and entries made by hand.             *)
(*                                                                         *)
(* How a fine comes to be registered and paid is the subject of Complaints;*)
(* here each is one step.  A ledger is kept as the sum of its entries.     *)
(***************************************************************************)
EXTENDS Flat, Sequences

CONSTANTS
  Fines,
  FineAmount,      \* what each fine costs
  MonthlyRent,     \* settings.monthly_rent, 0 when it is not set
  Charges,         \* the charges that may be made: total, by ratio or equally
  Credits,         \* the amounts a tenant may be credited with
  Adjustments,     \* the amounts a ledger may be corrected by
  MaxSettlements,  \* bound on the number of settlements
  MaxEntries       \* bound on the entries made by hand

ASSUME PotAssumption ==
  /\ IsFiniteSet(Fines) /\ FineAmount \in [Fines -> Nat]
  /\ \A c \in Charges : c.total \in Nat \ {0} /\ c.ratio \in BOOLEAN
  /\ Credits \subseteq Nat \ {0} /\ Adjustments \subseteq Int \ {0}
  /\ {MonthlyRent, MaxSettlements, MaxEntries} \subseteq Nat

VARIABLES
  fine,        \* whether it is registered, when (resolved_at), when paid (paid_at)
  settlement,  \* the settlements, each with the fines in its pot
  ledger,      \* ledger[m]: the sum of m's entries
  entries,     \* how many entries were made by hand
  booked       \* the sum of those entries

money == <<settlement, ledger, entries, booked>>

Epoch == -1

Register(f) ==
  /\ "close" \in agenda
  /\ ~fine[f].owed
  /\ fine' = [fine EXCEPT ![f].owed = TRUE, ![f].resolved = now]
  /\ UNCHANGED <<money, flat>>

Pay(f) ==
  /\ fine[f].owed /\ ~fine[f].paid
  /\ fine' = [fine EXCEPT ![f].paid = TRUE, ![f].paidAt = now]
  /\ UNCHANGED <<money, flat>>

-----------------------------------------------------------------------------
(* Closing a period.                                                       *)

LastClose ==
  IF settlement = <<>> THEN Epoch
  ELSE CHOOSE t \in {settlement[i].to : i \in DOMAIN settlement} :
         \A i \in DOMAIN settlement : settlement[i].to <= t

\* Mutant: the moment of the last settlement belongs to both periods.
PaidPotClosed(after, until) ==
  {f \in Fines : fine[f].owed /\ fine[f].paid /\ fine[f].resolved \in after .. until}

\* paid_pot_in_period: the period a fine falls in is decided by the time it
\* was registered, not by the time it was paid.
PaidPot(after, until) ==
  {f \in Fines : fine[f].owed /\ fine[f].paid /\ fine[f].resolved \in after + 1 .. until}

Amount(S) == Total([f \in S |-> FineAmount[f]])

AppliedToRent(pot) == IF MonthlyRent > 0 /\ MonthlyRent < pot THEN MonthlyRent ELSE pot

\* _compute; now_iso() is read before the pot.
Figures(pot, payout) ==
  [from |-> LastClose, to |-> now, fines |-> pot, pot |-> Amount(pot),
   applied  |-> AppliedToRent(Amount(pot)),
   leftover |-> Amount(pot) - AppliedToRent(Amount(pot)),
   payout   |-> payout]

LoadClose(r) ==
  LET pot == PaidPot(LastClose, now) IN
  \E payout \in SplitByRatio(Amount(pot) - AppliedToRent(Amount(pot)),
                             RentRatioWeights(TenantPcts)) :
    /\ Amount(pot) # 0
    /\ Load(r, "close", Figures(pot, payout))
    /\ UNCHANGED <<fine, money>>

\* Somebody's entry for each share of an allotment.
Enter(allotment, sign) ==
  ledger' = [m \in Members |->
    IF m \in DOMAIN allotment THEN ledger[m] + sign * allotment[m] ELSE ledger[m]]

CommitClose(r) ==
  /\ Finish(r, "close")
  /\ Len(settlement) < MaxSettlements
  /\ settlement' = Append(settlement, req[r].what)
  /\ Enter(req[r].what.payout, 1)
  /\ UNCHANGED <<people, fine, entries, booked>>

-----------------------------------------------------------------------------
(* Entries made by hand.                                                   *)

LoadCharge(r) ==
  \E c \in Charges :
    \E share \in SplitByRatio(c.total, IF c.ratio THEN TenantPcts ELSE Even(ActiveTenants)) :
      /\ c.ratio => RentSharesSet(TenantPcts)
      /\ Load(r, "charge", [amount |-> -c.total, share |-> share])
      /\ UNCHANGED <<fine, money>>

CommitCharge(r) ==
  /\ Finish(r, "charge")
  /\ entries < MaxEntries
  /\ Enter(req[r].what.share, -1)
  /\ entries' = entries + 1
  /\ booked' = booked + req[r].what.amount
  /\ UNCHANGED <<people, fine, settlement>>

\* A credit is for tenants, those who left included; a correction for anyone.
LoadEntry(r) ==
  \E m \in Members, amount \in Credits \cup Adjustments :
    /\ role[m] = "tenant" \/ amount \in Adjustments
    /\ Load(r, "entry", [amount |-> amount, member |-> m])
    /\ UNCHANGED <<fine, money>>

CommitEntry(r) ==
  LET q == req[r].what IN
  /\ Finish(r, "entry")
  /\ entries < MaxEntries
  /\ ledger' = [ledger EXCEPT ![q.member] = @ + q.amount]
  /\ entries' = entries + 1
  /\ booked' = booked + q.amount
  /\ UNCHANGED <<people, fine, settlement>>

MoneyRequest(r) ==
  \/ LoadClose(r) \/ LoadCharge(r) \/ LoadEntry(r)
  \/ CommitClose(r) \/ CommitCharge(r) \/ CommitEntry(r)
=============================================================================
