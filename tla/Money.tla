------------------------------- MODULE Money -------------------------------
(***************************************************************************)
(* domain/money.py and services/billing._bill_shares: dividing whole       *)
(* rupees among people in proportion to weights.                           *)
(*                                                                         *)
(* An operator returns the SET of the allotments that may result: the      *)
(* order of the people and the error of a float break ties in the code.    *)
(***************************************************************************)
EXTENDS Integers, FiniteSets, Functions

Total(f) == SumFunction(f)

Even(S) == [m \in S |-> 1]

\* Mutant: the rupees that do not divide are dropped.
RoundedDown(total, weights) ==
  {[m \in DOMAIN weights |-> (total * weights[m]) \div Total(weights)]}

\* int(): the fraction is cut off, towards zero.
Truncated(x, W) == IF x >= 0 THEN x \div W ELSE -((-x) \div W)

\* Largest remainder: everyone gets the proportional share without its
\* fraction, and the rupees left, if any, go to the largest fractions.  Where
\* a weight is negative its share is cut off upwards, so more than the total
\* may have been given out already; nothing is then taken back.
LargestRemainder(total, weights) ==
  LET W        == Total(weights)
      People   == DOMAIN weights
      whole    == [m \in People |-> Truncated(total * weights[m], W)]
      rest     == [m \in People |-> total * weights[m] - W * whole[m]]
      left     == total - Total(whole)
      Luckiest == {S \in SUBSET People :
                     /\ Cardinality(S) = IF left > 0 THEN left ELSE 0
                     /\ \A m \in S, n \in People \ S : rest[m] >= rest[n]} IN
  {[m \in People |-> IF m \in S THEN whole[m] + 1 ELSE whole[m]] : S \in Luckiest}

\* Nobody at all gets nothing; without weights everyone gets the same.
SplitByRatio(total, weights) ==
  IF DOMAIN weights = {} THEN {weights}
  ELSE IF Total(weights) <= 0 THEN LargestRemainder(total, Even(DOMAIN weights))
  ELSE LargestRemainder(total, weights)

RentSharesSet(pcts) == Total(pcts) = 100

RentRatioWeights(pcts) == IF RentSharesSet(pcts) THEN pcts ELSE Even(DOMAIN pcts)
=============================================================================
