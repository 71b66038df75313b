----------------------------- MODULE MCExpenses -----------------------------
(***************************************************************************)
(* Instances of Expenses for TLC, with two or three tenants.               *)
(***************************************************************************)
EXTENDS Expenses, TLC

\* Two rupees by the weights 1, 1 and 3 leave unequal fractions and a tie.
Internet == [amount |-> 2, rent |-> FALSE, weights |-> <<1, 1, 3>>]
Dinner   == [amount |-> 4, rent |-> FALSE, weights |-> <<1, 1>>]

\* Percentages that total 100 all the same: the shares 2, 0 and 0, which the
\* database takes, and 2 and -1, which it does not.
Advance == [amount |-> 1, rent |-> FALSE, weights |-> <<200, -50, -50>>]
Refused == [amount |-> 1, rent |-> FALSE, weights |-> <<200, -100>>]

OnlyInternet       == {Internet}
InternetAndAdvance == {Internet, Advance}
DinnerOrRefused    == {Dinner, Refused}
OnlyAdvance        == {Advance}

Repayment == {[from |-> 2, to |-> 1, amount |-> 1]}

\* Request slots are interchangeable.
SlotSymmetry == Permutations(Requests)
=============================================================================
