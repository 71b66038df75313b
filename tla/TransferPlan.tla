---------------------------- MODULE TransferPlan ----------------------------
(***************************************************************************)
(* What settling up promises: a transfer that was proposed is paid off in  *)
(* instalments or called off, either for good; what it shows as paid is    *)
(* the money that was recorded for it, no more and no less.                *)
(***************************************************************************)
EXTENDS Naturals, Sequences

VARIABLES
  plan,   \* the transfers proposed so far: amount, paid and status
  money   \* money[t]: what was really recorded for transfer t

Init == plan = <<>> /\ money = <<>>

\* Any number of transfers, all of them open and unpaid.
Propose ==
  /\ Len(plan') > Len(plan)
  /\ plan  = SubSeq(plan', 1, Len(plan))
  /\ money = SubSeq(money', 1, Len(plan))
  /\ Len(money') = Len(plan')
  /\ \A t \in (Len(plan) + 1)..Len(plan') :
       /\ plan'[t] = [amount |-> plan'[t].amount, paid |-> 0, status |-> "proposed"]
       /\ plan'[t].amount > 0
       /\ money'[t] = 0

Pay(t) ==
  /\ plan[t].status = "proposed"
  /\ \E part \in 1..(plan[t].amount - money[t]) :
       LET paid == money[t] + part IN
       /\ money' = [money EXCEPT ![t] = paid]
       /\ plan'  = [plan EXCEPT ![t].paid = paid, ![t].status =
                      IF paid = plan[t].amount THEN "paid" ELSE "proposed"]

Cancel(t) ==
  /\ plan[t].status = "proposed"
  /\ plan' = [plan EXCEPT ![t].status = "cancelled"]
  /\ UNCHANGED money

Next == Propose \/ \E t \in DOMAIN plan : Pay(t) \/ Cancel(t)

Spec == Init /\ [][Next]_<<plan, money>>
=============================================================================
