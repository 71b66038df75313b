--------------------------- MODULE Expenses_proofs ---------------------------
(***************************************************************************)
(* Theorems about Expenses, for every flat, whatever is spent and paid,    *)
(* any number of requests in flight, and every bound.                      *)
(***************************************************************************)
EXTENDS Expenses, Money_proofs

-----------------------------------------------------------------------------
(* What the rows and the requests in flight hold.                          *)

Allotments == UNION {[S -> Nat] : S \in SUBSET Members}

Weightings == UNION {[S -> Int] : S \in SUBSET Members}

\* Somebody shares the expense.
Weights == {w \in Weightings : Total(w) > 0}

CostOK(cost) ==
  cost.amount \in Nat \ {0} /\ cost.rent \in BOOLEAN /\ cost.weights \in Weights

ExpenseRow ==
  [payer : Members, amount : Nat \ {0}, rent : BOOLEAN, weights : Weights,
   share : Allotments, status : {"confirmed", "void"}]

\* A payment of a transfer goes by the row it has read: less may be shown as
\* paid there than was recorded since, never more.
PaysFor(q, plan, money) ==
  /\ q.id \in DOMAIN plan
  /\ q.cached \in PlannedType
  /\ q.cached.from = plan[q.id].from
  /\ q.cached.to = plan[q.id].to
  /\ q.cached.amount = plan[q.id].amount
  /\ q.cached.paid <= money[q.id]
  /\ q.amount \in Nat \ {0}
  /\ q.cached.paid + q.amount <= q.cached.amount

RequestOK(q, entered, plan, money) ==
  /\ q.op = "create" => CostOK(q.cost) /\ q.payer \in Members
  /\ q.op = "edit"   => CostOK(q.cost) /\ q.id \in DOMAIN entered
  /\ q.op = "void"   => q.id \in DOMAIN entered
  /\ q.op = "pay"    => q.transfer \in Transfers
  /\ q.op = "close"  => q.plan \in Seq(TransferType)
  /\ q.op = "settle" => PaysFor(q, plan, money)
  /\ q.op = "cancel" => q.id \in DOMAIN plan

RequestsOK ==
  /\ DOMAIN req = Requests
  /\ \A s \in Requests : RequestOK(req[s], expense, transfer, received)

RowsOK ==
  /\ role \in [Members -> {"tenant", "guest", "gone"}]
  /\ expense \in Seq(ExpenseRow)
  /\ sent \in [Members -> [Members -> Nat]]
  /\ fresh \subseteq Transfers
  /\ transfer \in Seq(PlannedType)
  /\ received \in Seq(Nat)
  /\ Len(received) = Len(transfer)

\* What a transfer shows as paid is asked for, and was recorded.
ShownWasPaid ==
  \A t \in DOMAIN transfer :
    /\ transfer[t].paid <= transfer[t].amount
    /\ transfer[t].paid <= received[t]
    /\ transfer[t].status = "paid" => received[t] >= transfer[t].amount

MoneyInv == RowsOK /\ ShownWasPaid /\ RequestsOK

\* Rows are only added, and of a transfer only the money received, the money
\* shown and the status change.
Grows ==
  /\ DOMAIN expense \subseteq DOMAIN expense'
  /\ DOMAIN transfer \subseteq DOMAIN transfer'
  /\ \A t \in DOMAIN transfer :
       /\ transfer'[t].from = transfer[t].from
       /\ transfer'[t].to = transfer[t].to
       /\ transfer'[t].amount = transfer[t].amount
       /\ received[t] <= received'[t]

-----------------------------------------------------------------------------
(* Allotments and requests.                                                *)

LEMMA AllotmentIs ==
  ASSUME NEW S \in SUBSET Members, NEW f \in [S -> Nat]
  PROVE  f \in Allotments
BY DEF Allotments

LEMMA AllotmentOf ==
  ASSUME NEW f \in Allotments
  PROVE  /\ DOMAIN f \in SUBSET Members /\ IsFiniteSet(DOMAIN f)
         /\ f \in [DOMAIN f -> Nat] /\ f \in [DOMAIN f -> Int]
BY MembersAssumption, FS_Subset DEF Allotments

LEMMA WeightingIs ==
  ASSUME NEW S \in SUBSET Members, NEW f \in [S -> Int]
  PROVE  f \in Weightings
BY DEF Weightings

LEMMA WeightingOf ==
  ASSUME NEW f \in Weightings
  PROVE  /\ DOMAIN f \in SUBSET Members /\ IsFiniteSet(DOMAIN f)
         /\ f \in [DOMAIN f -> Int]
BY MembersAssumption, FS_Subset DEF Weightings

\* However a cost is divided, shares the database takes are an allotment.
LEMMA SharesAllot ==
  ASSUME NEW cost, CostOK(cost), NEW share \in Splits(cost), Storable(share)
  PROVE  share \in Allotments
<1>1. /\ cost.weights \in Weightings /\ Total(cost.weights) > 0 /\ cost.amount \in Nat
      /\ share \in LargestRemainder(cost.amount, cost.weights)
  BY DEF CostOK, Weights, Splits
<1> DEFINE D == DOMAIN cost.weights
<1>2. D \in SUBSET Members /\ IsFiniteSet(D) /\ cost.weights \in [D -> Int]
  BY <1>1, WeightingOf
<1> HIDE DEF D
<1>3. share \in [D -> Int]
  BY <1>1, <1>2, SplitNeverShort
<1>4. share \in [D -> Nat]
  BY <1>3 DEF Storable, NonNegative
<1> QED
  BY <1>2, <1>4, AllotmentIs

\* A slot is given a request, or cleared; the others keep theirs.
LEMMA SlotSet ==
  ASSUME RowsOK, RowsOK', RequestsOK, Grows, NEW r \in Requests, NEW q,
         req' = [req EXCEPT ![r] = q], RequestOK(q, expense', transfer', received')
  PROVE  RequestsOK'
<1>0. /\ received \in Seq(Nat) /\ DOMAIN received = DOMAIN transfer
      /\ received' \in Seq(Nat) /\ DOMAIN received' = DOMAIN transfer'
  BY DEF RowsOK
<1>1. DOMAIN req' = Requests /\ req'[r] = q /\ \A s \in Requests : s # r => req'[s] = req[s]
  BY DEF RequestsOK
<1>2. ASSUME NEW s \in Requests PROVE RequestOK(req'[s], expense', transfer', received')
  <2>1. CASE s = r
    BY <1>1, <2>1
  <2>2. CASE s # r
    <3>1. req'[s] = req[s] /\ RequestOK(req[s], expense, transfer, received)
      BY <1>1, <2>2 DEF RequestsOK
    <3>2. req[s].op = "settle" => PaysFor(req[s], transfer', received')
      <4> SUFFICES ASSUME req[s].op = "settle" PROVE PaysFor(req[s], transfer', received')
        OBVIOUS
      <4>1. PaysFor(req[s], transfer, received)
        BY <3>1 DEF RequestOK
      <4>2. req[s].id \in DOMAIN transfer /\ req[s].cached.paid \in Nat
        BY <4>1 DEF PaysFor, PlannedType
      <4>3. /\ received[req[s].id] \in Nat /\ received'[req[s].id] \in Nat
            /\ received[req[s].id] <= received'[req[s].id]
        BY <1>0, <4>2 DEF Grows
      <4>4. req[s].cached.paid <= received[req[s].id]
        BY <4>1 DEF PaysFor
      <4>5. req[s].cached.paid <= received'[req[s].id]
        BY <4>2, <4>3, <4>4
      <4> QED
        BY <4>1, <4>2, <4>5 DEF PaysFor, Grows
    <3>3. /\ req[s].op = "create" => CostOK(req[s].cost) /\ req[s].payer \in Members
          /\ req[s].op = "edit"   => CostOK(req[s].cost) /\ req[s].id \in DOMAIN expense'
          /\ req[s].op = "void"   => req[s].id \in DOMAIN expense'
          /\ req[s].op = "pay"    => req[s].transfer \in Transfers
          /\ req[s].op = "close"  => req[s].plan \in Seq(TransferType)
          /\ req[s].op = "cancel" => req[s].id \in DOMAIN transfer'
      BY <3>1 DEF RequestOK, Grows
    <3>4. RequestOK(req[s], expense', transfer', received')
      BY <3>2, <3>3 DEF RequestOK
    <3> QED
      BY <3>1, <3>4
  <2> QED
    BY <2>1, <2>2
<1> QED
  BY <1>1, <1>2 DEF RequestsOK

LEMMA IdleOK == \A entered, plan, money : RequestOK(Idle, entered, plan, money)
  BY DEF RequestOK, Idle

-----------------------------------------------------------------------------
(* One step of the debt simplifier.                                        *)

Beats(net, m, n) == Size(net[m]) > Size(net[n]) \/ (Size(net[m]) = Size(net[n]) /\ m < n)

\* Of any people there is one with the largest balance.
LEMMA LargestExists ==
  ASSUME NEW D \in SUBSET Members, NEW net \in [D -> Int], NEW S \in SUBSET D, S # {}
  PROVE  Largest(net, S) \in S
<1> DEFINE Leads(T) == \E m \in T : \A n \in T \ {m} : Beats(net, m, n)
           Bad == {T \in SUBSET D : T # {} /\ ~Leads(T)}
<1>1. IsFiniteSet(D) /\ \A m \in D : m \in Nat /\ Size(net[m]) \in Int
  <2>1. IsFiniteSet(D)
    BY MembersAssumption, FS_Subset
  <2>2. ASSUME NEW m \in D PROVE m \in Nat /\ Size(net[m]) \in Int
    <3>1. net[m] \in Int /\ m \in Nat
      BY MembersAssumption
    <3> QED
      BY <3>1 DEF Size
  <2> QED
    BY <2>1, <2>2
<1>2. Bad = {}
  <2> SUFFICES ASSUME Bad # {} PROVE FALSE
    OBVIOUS
  <2>1. PICK T \in Bad : \A x \in T : T \ {x} \notin Bad
    BY <1>1, SmallestSubset
  <2>2. PICK x \in T : TRUE
    OBVIOUS
  <2>3. CASE T \ {x} = {}
    <3>1. \A n \in T \ {x} : Beats(net, x, n)
      BY <2>3
    <3> QED
      BY <2>2, <3>1
  <2>4. CASE T \ {x} # {}
    <3>1. PICK m \in T \ {x} : \A n \in (T \ {x}) \ {m} : Beats(net, m, n)
      BY <2>1, <2>2, <2>4
    <3>2. T \in SUBSET D /\ x \in D /\ m \in D /\ m # x
      BY <2>2
    <3>3. CASE Beats(net, m, x)
      <4>1. \A n \in T \ {m} : Beats(net, m, n)
        BY <3>1, <3>3
      <4> QED
        BY <3>1, <4>1
    <3>4. CASE ~Beats(net, m, x)
      <4>1. Beats(net, x, m)
        BY <1>1, <3>2, <3>4 DEF Beats
      <4>2. ASSUME NEW n \in T \ {x} PROVE Beats(net, x, n)
        <5>1. n \in D /\ (n # m => Beats(net, m, n))
          BY <3>1, <3>2
        <5> QED
          BY <1>1, <3>2, <4>1, <5>1 DEF Beats
      <4> QED
        BY <2>2, <4>2
    <3> QED
      BY <3>3, <3>4
  <2> QED
    BY <2>3, <2>4
<1>3. Leads(S)
  BY <1>2
<1>4. \E m \in S : \A n \in S \ {m} :
        Size(net[m]) > Size(net[n]) \/ (Size(net[m]) = Size(net[n]) /\ m < n)
  BY <1>3 DEF Beats
<1> QED
  BY <1>4 DEF Largest

\* The transfer the simplifier proposes next, and the balances after it.
Pays(net)   == Largest(net, Debtors(net))
Gets(net)   == Largest(net, Creditors(net))
Amount(net) == IF -net[Pays(net)] < net[Gets(net)] THEN -net[Pays(net)] ELSE net[Gets(net)]

Move(net)  == [from |-> Pays(net), to |-> Gets(net), amount |-> Amount(net)]
After(net) == [net EXCEPT ![Pays(net)] = @ + Amount(net), ![Gets(net)] = @ - Amount(net)]

Squared(net) == Debtors(net) = {} \/ Creditors(net) = {}

Unsettled(net) == Debtors(net) \cup Creditors(net)

LEMMA UnsettledIs ==
  ASSUME NEW D \in SUBSET Members, NEW net \in [D -> Int]
  PROVE  /\ IsFiniteSet(D) /\ Unsettled(net) \in SUBSET D /\ IsFiniteSet(Unsettled(net))
         /\ Cardinality(Unsettled(net)) \in Nat
         /\ \A m \in D : m \in Unsettled(net) <=> net[m] # 0
<1>1. IsFiniteSet(D)
  BY MembersAssumption, FS_Subset
<1>2. Unsettled(net) \in SUBSET D /\ \A m \in D : m \in Unsettled(net) <=> net[m] # 0
  BY DEF Unsettled, Debtors, Creditors
<1> QED
  BY <1>1, <1>2, FS_Subset, FS_CardinalityType

\* A transfer goes from somebody who owes to somebody who is owed, by no more
\* than either; it settles one of the two.
LEMMA MoveIs ==
  ASSUME NEW D \in SUBSET Members, NEW net \in [D -> Int], ~Squared(net)
  PROVE  LET d == Pays(net)
             c == Gets(net)
             a == Amount(net) IN
         /\ d \in D /\ c \in D /\ d # c /\ a \in Nat \ {0}
         /\ net[d] < 0 /\ net[c] > 0 /\ net[d] + a <= 0 /\ net[c] - a >= 0
         /\ net[d] + a = 0 \/ net[c] - a = 0
         /\ After(net) \in [D -> Int]
         /\ \A m \in D : After(net)[m] = IF m = d THEN net[d] + a
                                         ELSE IF m = c THEN net[c] - a ELSE net[m]
<1> DEFINE d == Pays(net)
           c == Gets(net)
           a == Amount(net)
<1>1. d \in Debtors(net) /\ c \in Creditors(net)
  <2>1. Debtors(net) \in SUBSET D /\ Creditors(net) \in SUBSET D
        /\ Debtors(net) # {} /\ Creditors(net) # {}
    BY DEF Squared, Debtors, Creditors
  <2> QED
    BY <2>1, LargestExists DEF Pays, Gets
<1>2. d \in D /\ c \in D /\ net[d] < 0 /\ net[c] > 0
  BY <1>1 DEF Debtors, Creditors
<1>3. a = IF -net[d] < net[c] THEN -net[d] ELSE net[c]
  BY DEF Amount
<1>4. After(net) = [net EXCEPT ![d] = @ + a, ![c] = @ - a]
  BY DEF After
<1> HIDE DEF d, c, a
<1>5. net[d] \in Int /\ net[c] \in Int
  BY <1>2
<1>6. /\ a \in Nat \ {0} /\ d # c /\ net[d] + a <= 0 /\ net[c] - a >= 0
      /\ net[d] + a = 0 \/ net[c] - a = 0
  BY <1>2, <1>3, <1>5
<1>7. /\ After(net) \in [D -> Int]
      /\ \A m \in D : After(net)[m] = IF m = d THEN net[d] + a
                                      ELSE IF m = c THEN net[c] - a ELSE net[m]
  BY <1>2, <1>4, <1>5, <1>6
<1> QED
  BY <1>2, <1>6, <1>7 DEF d, c, a

LEMMA MoveTyped ==
  ASSUME NEW D \in SUBSET Members, NEW net \in [D -> Int], ~Squared(net)
  PROVE  Move(net) \in TransferType /\ After(net) \in [D -> Int]
<1>1. Pays(net) \in D /\ Gets(net) \in D /\ Amount(net) \in Nat \ {0} /\ After(net) \in [D -> Int]
  BY MoveIs
<1> QED
  BY <1>1 DEF Move, TransferType

\* So after each transfer fewer people have a balance.
LEMMA FewerUnsettled ==
  ASSUME NEW D \in SUBSET Members, NEW net \in [D -> Int], ~Squared(net)
  PROVE  Cardinality(Unsettled(After(net))) < Cardinality(Unsettled(net))
<1> DEFINE d == Pays(net)
           c == Gets(net)
           a == Amount(net)
           next == After(net)
           U == Unsettled(net)
<1>1. /\ d \in D /\ c \in D /\ d # c /\ net[d] < 0 /\ net[c] > 0
      /\ net[d] + a = 0 \/ net[c] - a = 0
      /\ next \in [D -> Int]
      /\ \A m \in D : next[m] = IF m = d THEN net[d] + a ELSE IF m = c THEN net[c] - a ELSE net[m]
  BY MoveIs
<1> HIDE DEF d, c, a, next
<1>2. /\ U \in SUBSET D /\ IsFiniteSet(U) /\ Cardinality(U) \in Nat
      /\ \A m \in D : m \in U <=> net[m] # 0
  BY UnsettledIs
<1>3. /\ Unsettled(next) \in SUBSET D /\ \A m \in D : m \in Unsettled(next) <=> next[m] # 0
  BY <1>1, UnsettledIs
<1> HIDE DEF U
<1>4. PICK x \in U : next[x] = 0
  BY <1>1, <1>2
<1>5. Unsettled(next) \in SUBSET (U \ {x})
  BY <1>1, <1>2, <1>3, <1>4
<1>6. Cardinality(U \ {x}) = Cardinality(U) - 1 /\ IsFiniteSet(U \ {x})
  BY <1>2, <1>4, FS_RemoveElement
<1>7. Cardinality(Unsettled(next)) <= Cardinality(U \ {x}) /\ Cardinality(Unsettled(next)) \in Nat
  BY <1>5, <1>6, FS_Subset, FS_CardinalityType
<1>8. Cardinality(Unsettled(next)) < Cardinality(U)
  BY <1>2, <1>6, <1>7
<1> QED
  BY <1>8 DEF next, U

-----------------------------------------------------------------------------
(* The recursion of the simplifier.                                        *)

PlanStep(p, net) == IF Squared(net) THEN <<>> ELSE <<Move(net)>> \o p[After(net)]

PlanOf(D) == CHOOSE p : p = [net \in [D -> Int] |-> PlanStep(p, net)]

LEMMA SimplifyIs ==
  ASSUME NEW nets
  PROVE  Simplify(nets) = PlanOf(DOMAIN nets)[nets]
BY DEF Simplify, PlanOf, PlanStep, Squared, Move, After, Pays, Gets, Amount

\* Of the balances that break a law some break it for the first time: the law
\* holds for what is left of them after one transfer.
LEMMA FewestUnsettled ==
  ASSUME NEW D \in SUBSET Members, NEW Bad \in SUBSET [D -> Int], Bad # {}
  PROVE  \E net \in Bad : ~Squared(net) => After(net) \notin Bad
<1> DEFINE T == {Cardinality(Unsettled(net)) : net \in Bad}
<1>1. \A net \in [D -> Int] : Cardinality(Unsettled(net)) \in Nat
  BY UnsettledIs
<1>2. PICK net \in Bad : \A other \in Bad : Cardinality(Unsettled(net)) <= Cardinality(Unsettled(other))
  <2>1. T \in SUBSET Nat /\ T # {}
    BY <1>1
  <2>2. PICK n \in T : \A k \in T : n <= k
    BY <2>1, LeastNumber
  <2> QED
    BY <2>2
<1>3. ASSUME ~Squared(net), After(net) \in Bad PROVE FALSE
  <2>1. net \in [D -> Int] /\ After(net) \in [D -> Int]
    BY <1>3
  <2>2. Cardinality(Unsettled(After(net))) < Cardinality(Unsettled(net))
    BY <1>3, <2>1, FewerUnsettled
  <2>3. Cardinality(Unsettled(net)) <= Cardinality(Unsettled(After(net)))
    BY <1>2, <1>3
  <2>4. Cardinality(Unsettled(net)) \in Nat /\ Cardinality(Unsettled(After(net))) \in Nat
    BY <1>1, <2>1
  <2> QED
    BY <2>2, <2>3, <2>4
<1> QED
  BY <1>3

\* There is a function as the recursion prescribes, for up to n people to be
\* settled.
PlansUpTo(D, n) ==
  \E p \in [[D -> Int] -> Seq(TransferType)] :
    \A net \in [D -> Int] : Cardinality(Unsettled(net)) <= n => p[net] = PlanStep(p, net)

LEMMA PlanStepTyped ==
  ASSUME NEW D \in SUBSET Members, NEW p \in [[D -> Int] -> Seq(TransferType)], NEW net \in [D -> Int]
  PROVE  PlanStep(p, net) \in Seq(TransferType)
<1>1. CASE Squared(net)
  BY <1>1 DEF PlanStep
<1>2. CASE ~Squared(net)
  <2>1. Move(net) \in TransferType /\ p[After(net)] \in Seq(TransferType)
    BY <1>2, MoveTyped
  <2>2. <<Move(net)>> \o p[After(net)] \in Seq(TransferType)
    <3>1. <<Move(net)>> \in Seq(TransferType)
      BY <2>1
    <3> QED
      BY <2>1, <3>1
  <2> QED
    BY <1>2, <2>2 DEF PlanStep
<1> QED
  BY <1>1, <1>2

LEMMA PlansExist ==
  ASSUME NEW D \in SUBSET Members, NEW n \in Nat
  PROVE  PlansUpTo(D, n)
<1> DEFINE Fits(k) == PlansUpTo(D, k)
           Bad == {k \in Nat : ~Fits(k)}
<1>0. \A net \in [D -> Int] : Cardinality(Unsettled(net)) \in Nat /\ IsFiniteSet(Unsettled(net))
  BY UnsettledIs
<1>1. Fits(0)
  <2> DEFINE p == [net \in [D -> Int] |-> <<>>]
  <2>1. p \in [[D -> Int] -> Seq(TransferType)]
    <3>1. <<>> \in Seq(TransferType)
      OBVIOUS
    <3> QED
      BY <3>1
  <2>2. ASSUME NEW net \in [D -> Int], Cardinality(Unsettled(net)) <= 0
        PROVE  p[net] = PlanStep(p, net)
    <3>1. Unsettled(net) = {}
      BY <1>0, <2>2, FS_EmptySet
    <3>2. Squared(net)
      BY <3>1 DEF Unsettled, Squared
    <3> QED
      BY <3>2 DEF PlanStep
  <2> HIDE DEF p
  <2> QED
    BY <2>1, <2>2 DEF PlansUpTo
<1>2. ASSUME NEW k \in Nat, Fits(k) PROVE Fits(k + 1)
  <2>1. PICK p \in [[D -> Int] -> Seq(TransferType)] :
          \A net \in [D -> Int] : Cardinality(Unsettled(net)) <= k => p[net] = PlanStep(p, net)
    BY <1>2 DEF PlansUpTo
  <2> DEFINE q == [net \in [D -> Int] |->
                     IF Cardinality(Unsettled(net)) <= k THEN p[net] ELSE PlanStep(p, net)]
  <2>2. \A net \in [D -> Int] : PlanStep(p, net) \in Seq(TransferType)
    BY PlanStepTyped
  <2>3. q \in [[D -> Int] -> Seq(TransferType)]
    BY <2>2
  <2>4. ASSUME NEW net \in [D -> Int], Cardinality(Unsettled(net)) <= k + 1
        PROVE  q[net] = PlanStep(q, net)
    <3>1. q[net] = PlanStep(p, net)
      BY <2>1
    <3>2. CASE Squared(net)
      BY <3>1, <3>2 DEF PlanStep
    <3>3. CASE ~Squared(net)
      <4>1. After(net) \in [D -> Int] /\ Cardinality(Unsettled(After(net))) < Cardinality(Unsettled(net))
        BY <3>3, MoveTyped, FewerUnsettled
      <4>2. Cardinality(Unsettled(After(net))) <= k
        BY <1>0, <2>4, <4>1
      <4>3. q[After(net)] = p[After(net)]
        BY <4>1, <4>2
      <4> HIDE DEF q
      <4> QED
        BY <3>1, <3>3, <4>3 DEF PlanStep
    <3> QED
      BY <3>2, <3>3
  <2> HIDE DEF q
  <2> QED
    BY <2>3, <2>4 DEF PlansUpTo
<1> HIDE DEF Fits
<1>3. Bad = {}
  <2> SUFFICES ASSUME Bad # {} PROVE FALSE
    OBVIOUS
  <2>1. PICK k \in Bad : \A j \in Bad : k <= j
    BY LeastNumber
  <2>2. k # 0 /\ k - 1 \in Nat
    BY <1>1
  <2>3. Fits(k - 1)
    BY <2>1, <2>2
  <2>4. Fits((k - 1) + 1)
    BY <1>2, <2>2, <2>3
  <2> QED
    BY <2>1, <2>2, <2>4
<1> QED
  BY <1>3 DEF Fits

\* Whatever the balances, the loop ends, and what it returns is the transfer
\* it starts with and what it returns for the balances after that one.
LEMMA PlanOfIs ==
  ASSUME NEW D \in SUBSET Members
  PROVE  /\ \A net \in [D -> Int] : PlanOf(D)[net] = PlanStep(PlanOf(D), net)
         /\ PlanOf(D) \in [[D -> Int] -> Seq(TransferType)]
<1> DEFINE n == Cardinality(D)
<1>0. n \in Nat /\ IsFiniteSet(D)
  BY MembersAssumption, FS_Subset, FS_CardinalityType
<1> HIDE DEF n
<1>1. PICK p \in [[D -> Int] -> Seq(TransferType)] :
        \A net \in [D -> Int] : Cardinality(Unsettled(net)) <= n => p[net] = PlanStep(p, net)
  <2>1. PlansUpTo(D, n)
    BY <1>0, PlansExist
  <2> QED
    BY <2>1 DEF PlansUpTo
<1>2. p = [net \in [D -> Int] |-> PlanStep(p, net)]
  <2>1. \A net \in [D -> Int] : Cardinality(Unsettled(net)) <= n
    <3>1. \A net \in [D -> Int] : Unsettled(net) \in SUBSET D
      BY UnsettledIs
    <3> QED
      BY <1>0, <3>1, FS_Subset DEF n
  <2>2. \A net \in [D -> Int] : p[net] = PlanStep(p, net)
    BY <1>1, <2>1
  <2>3. p = [net \in [D -> Int] |-> p[net]]
    OBVIOUS
  <2> QED
    BY <2>2, <2>3
<1>3. PlanOf(D) = [net \in [D -> Int] |-> PlanStep(PlanOf(D), net)]
  <2> DEFINE Is(q) == q = [net \in [D -> Int] |-> PlanStep(q, net)]
  <2>1. Is(p)
    BY <1>2
  <2>2. PlanOf(D) = CHOOSE q : Is(q)
    BY Zenon DEF PlanOf
  <2> HIDE DEF Is
  <2>3. Is(PlanOf(D))
    BY <2>1, <2>2, Zenon
  <2> QED
    BY <2>3 DEF Is
<1>4. \A net \in [D -> Int] : PlanOf(D)[net] = PlanStep(PlanOf(D), net)
  BY <1>3
<1> DEFINE Bad == {net \in [D -> Int] : PlanOf(D)[net] \notin Seq(TransferType)}
<1>5. Bad = {}
  <2> SUFFICES ASSUME Bad # {} PROVE FALSE
    OBVIOUS
  <2>1. PICK net \in Bad : ~Squared(net) => After(net) \notin Bad
    BY FewestUnsettled
  <2>2. CASE Squared(net)
    <3>1. PlanOf(D)[net] = <<>>
      BY <1>4, <2>2 DEF PlanStep
    <3>2. <<>> \in Seq(TransferType)
      OBVIOUS
    <3>3. PlanOf(D)[net] \in Seq(TransferType)
      BY <3>1, <3>2, Zenon
    <3> QED
      BY <3>3
  <2>3. CASE ~Squared(net)
    <3>1. Move(net) \in TransferType /\ After(net) \in [D -> Int]
      BY <2>3, MoveTyped
    <3>2. PlanOf(D)[After(net)] \in Seq(TransferType)
      BY <2>1, <2>3, <3>1
    <3>3. PlanOf(D)[net] = <<Move(net)>> \o PlanOf(D)[After(net)]
      BY <1>4, <2>3 DEF PlanStep
    <3>4. <<Move(net)>> \in Seq(TransferType)
      BY <3>1
    <3>5. <<Move(net)>> \o PlanOf(D)[After(net)] \in Seq(TransferType)
      BY <3>2, <3>4
    <3> QED
      BY <3>3, <3>5
  <2> QED
    BY <2>2, <2>3
<1>6. DOMAIN PlanOf(D) = [D -> Int]
  BY <1>3
<1> QED
  BY <1>3, <1>4, <1>5, <1>6

LEMMA SimplifyTyped ==
  ASSUME NEW D \in SUBSET Members, NEW nets \in [D -> Int]
  PROVE  Simplify(nets) \in Seq(TransferType) /\ Simplify(nets) = PlanOf(D)[nets]
<1>1. DOMAIN nets = D
  OBVIOUS
<1> QED
  BY <1>1, SimplifyIs, PlanOfIs

-----------------------------------------------------------------------------
(* Requests that read.                                                     *)

LEMMA BalancesTyped ==
  ASSUME RowsOK
  PROVE  /\ \A m \in Members : SettleNet(m) \in Int
         /\ ActiveTenants \in SUBSET Members
         /\ PeerNets \in [ActiveTenants -> Int]
<1>1. IsFiniteSet(DOMAIN expense) /\ \A e \in DOMAIN expense : expense[e] \in ExpenseRow
  <2>1. DOMAIN expense = 1 .. Len(expense) /\ Len(expense) \in Nat
    BY DEF RowsOK
  <2>2. \A e \in DOMAIN expense : expense[e] \in ExpenseRow
    BY DEF RowsOK
  <2> QED
    BY <2>1, <2>2, FS_Interval
<1>2. ASSUME NEW m \in Members PROVE SettleNet(m) \in Int
  <2> DEFINE paid  == {e \in Live : expense[e].payer = m}
             used  == {e \in Live : m \in DOMAIN expense[e].share}
             costs == [e \in paid |-> expense[e].amount]
             parts == [e \in used |-> expense[e].share[m]]
             back  == [n \in Members |-> sent[n][m]]
  <2>1. IsFiniteSet(paid) /\ IsFiniteSet(used) /\ IsFiniteSet(Members)
    <3>1. paid \in SUBSET DOMAIN expense /\ used \in SUBSET DOMAIN expense
      BY DEF Live
    <3> QED
      BY <1>1, <3>1, MembersAssumption, FS_Subset
  <2>2. costs \in [paid -> Int]
    <3>1. \A e \in paid : expense[e].amount \in Int
      BY <1>1 DEF Live, ExpenseRow
    <3> QED
      BY <3>1
  <2>3. parts \in [used -> Int]
    <3>1. ASSUME NEW e \in used PROVE expense[e].share[m] \in Int
      <4>1. expense[e].share \in Allotments /\ m \in DOMAIN expense[e].share
        BY <1>1 DEF Live, ExpenseRow
      <4> QED
        BY <4>1, AllotmentOf
    <3> QED
      BY <3>1
  <2>4. sent[m] \in [Members -> Int] /\ back \in [Members -> Int]
    BY DEF RowsOK
  <2> HIDE DEF paid, used, costs, parts, back
  <2>5. Total(costs) \in Int /\ Total(parts) \in Int /\ Total(sent[m]) \in Int /\ Total(back) \in Int
    BY <2>1, <2>2, <2>3, <2>4, TotalInt
  <2>6. SettleNet(m) = Total(costs) - Total(parts) + Total(sent[m]) - Total(back)
    BY DEF SettleNet, Fronted, Share, costs, parts, back, paid, used
  <2> QED
    BY <2>5, <2>6
<1>3. ActiveTenants \in SUBSET Members
  BY DEF ActiveTenants
<1> QED
  BY <1>2, <1>3 DEF PeerNets

LEMMA SameGrows ==
  ASSUME RowsOK, UNCHANGED <<expense, transfer, received>>
  PROVE  Grows
<1>1. \A t \in DOMAIN transfer : received[t] \in Nat
  BY DEF RowsOK
<1> QED
  BY <1>1 DEF Grows

LEMMA SameRows ==
  ASSUME RowsOK, ShownWasPaid, UNCHANGED rows
  PROVE  RowsOK' /\ ShownWasPaid' /\ Grows
<1>1. UNCHANGED <<role, expense, sent, fresh, transfer, received>>
  BY DEF rows
<1> QED
  BY <1>1, SameGrows DEF RowsOK, ShownWasPaid

LEMMA LoadKeeps ==
  ASSUME MoneyInv, NEW r \in Requests, NEW op, NEW more, Load(r, op, more),
         RequestOK([more EXCEPT !.op = op], expense, transfer, received)
  PROVE  MoneyInv'
<1>1. /\ req' = [req EXCEPT ![r] = [more EXCEPT !.op = op]] /\ UNCHANGED rows
      /\ UNCHANGED <<expense, transfer, received>>
  BY DEF Load, rows
<1>2. RowsOK' /\ ShownWasPaid' /\ Grows
  BY <1>1, SameRows DEF MoneyInv
<1>3. RequestOK([more EXCEPT !.op = op], expense', transfer', received')
  BY <1>1
<1>4. RequestsOK'
  <2> DEFINE q == [more EXCEPT !.op = op]
  <2>1. req' = [req EXCEPT ![r] = q] /\ RequestOK(q, expense', transfer', received')
    BY <1>1, <1>3
  <2> HIDE DEF q
  <2> QED
    BY <1>2, <2>1, SlotSet DEF MoneyInv
<1> QED
  BY <1>2, <1>4 DEF MoneyInv

LEMMA ShareableIs ==
  ASSUME NEW cost \in Costs, Shareable(cost)
  PROVE  CostOK(cost)
<1>1. /\ cost.amount \in Nat \ {0} /\ cost.rent \in BOOLEAN /\ Total(cost.weights) > 0
      /\ DOMAIN cost.weights \in SUBSET Members /\ cost.weights \in [DOMAIN cost.weights -> Int]
  BY InputsAssumption DEF Shareable, Weighting
<1>2. cost.weights \in Weightings
  BY <1>1, WeightingIs
<1> QED
  BY <1>1, <1>2 DEF CostOK, Weights

LEMMA LoadEnterKeeps ==
  ASSUME MoneyInv, NEW r \in Requests, LoadCreate(r) \/ LoadRent(r) \/ LoadEdit(r) \/ LoadVoid(r)
  PROVE  MoneyInv'
<1>1. ASSUME LoadCreate(r) PROVE MoneyInv'
  <2>1. PICK cost \in Costs, payer \in ActiveTenants :
          /\ Shareable(cost)
          /\ Load(r, "create", [Idle EXCEPT !.cost = cost, !.payer = payer])
    BY <1>1 DEF LoadCreate
  <2>2. CostOK(cost) /\ payer \in Members
    BY <2>1, ShareableIs DEF ActiveTenants
  <2> DEFINE more == [Idle EXCEPT !.cost = cost, !.payer = payer]
             q == [more EXCEPT !.op = "create"]
  <2>3. q.op = "create" /\ q.cost = cost /\ q.payer = payer
    BY DEF Idle
  <2> HIDE DEF q
  <2>4. RequestOK(q, expense, transfer, received)
    BY <2>2, <2>3 DEF RequestOK
  <2> HIDE DEF more
  <2>5. RequestOK([more EXCEPT !.op = "create"], expense, transfer, received)
    BY <2>4 DEF q
  <2> QED
    BY <2>1, <2>5, LoadKeeps DEF more
<1>2. ASSUME LoadRent(r) PROVE MoneyInv'
  <2> DEFINE Cost(amount) == [amount |-> amount, rent |-> TRUE, weights |-> [m \in ActiveTenants |-> 1]]
  <2>1. PICK amount \in RentPayments, payer \in ActiveTenants :
          Load(r, "create", [Idle EXCEPT !.payer = payer, !.cost = Cost(amount)])
    BY <1>2 DEF LoadRent
  <2> DEFINE S == ActiveTenants
             w == [m \in S |-> 1]
  <2>2. S \in SUBSET Members /\ IsFiniteSet(S) /\ payer \in S
    BY MembersAssumption, FS_Subset DEF ActiveTenants
  <2> HIDE DEF S
  <2>3. w \in [S -> Int] /\ \A m \in S : w[m] = 1
    OBVIOUS
  <2> HIDE DEF w
  <2>4. Total(w) = Cardinality(S)
    BY <2>2, <2>3, TotalOnes
  <2>5. Total(w) > 0
    BY <2>2, <2>4, FS_EmptySet, FS_CardinalityType
  <2>6. w \in Weights
    BY <2>2, <2>3, <2>5, WeightingIs DEF Weights
  <2>7. CostOK(Cost(amount))
    <3>1. amount \in Nat \ {0}
      BY InputsAssumption
    <3>2. Cost(amount) = [amount |-> amount, rent |-> TRUE, weights |-> w]
      BY DEF w, S
    <3> QED
      BY <2>6, <3>1, <3>2 DEF CostOK
  <2> DEFINE cost == Cost(amount)
             more == [Idle EXCEPT !.payer = payer, !.cost = cost]
             q == [more EXCEPT !.op = "create"]
  <2> HIDE DEF cost
  <2>8. q.op = "create" /\ q.cost = cost /\ q.payer = payer
    BY DEF Idle
  <2> HIDE DEF q
  <2>9. RequestOK(q, expense, transfer, received)
    <3>1. payer \in Members /\ CostOK(cost)
      BY <2>2, <2>7 DEF cost
    <3> QED
      BY <2>8, <3>1 DEF RequestOK
  <2>10. RequestOK([more EXCEPT !.op = "create"], expense, transfer, received)
    BY <2>9 DEF q
  <2>11. Load(r, "create", more)
    BY <2>1 DEF more, cost
  <2> HIDE DEF more
  <2> QED
    BY <2>10, <2>11, LoadKeeps
<1>3. ASSUME LoadEdit(r) PROVE MoneyInv'
  <2>1. PICK e \in DOMAIN expense, cost \in Costs :
          /\ Shareable(cost)
          /\ Load(r, "edit", [Idle EXCEPT !.id = e, !.cost = cost, !.cached = expense[e]])
    BY <1>3 DEF LoadEdit
  <2>2. CostOK(cost)
    BY <2>1, ShareableIs
  <2> DEFINE more == [Idle EXCEPT !.id = e, !.cost = cost, !.cached = expense[e]]
             q == [more EXCEPT !.op = "edit"]
  <2>3. q.op = "edit" /\ q.cost = cost /\ q.id = e
    BY DEF Idle
  <2> HIDE DEF q
  <2>4. RequestOK(q, expense, transfer, received)
    BY <2>2, <2>3 DEF RequestOK
  <2> HIDE DEF more
  <2>5. RequestOK([more EXCEPT !.op = "edit"], expense, transfer, received)
    BY <2>4 DEF q
  <2> QED
    BY <2>1, <2>5, LoadKeeps DEF more
<1>4. ASSUME LoadVoid(r) PROVE MoneyInv'
  <2>1. PICK e \in DOMAIN expense : Load(r, "void", [Idle EXCEPT !.id = e])
    BY <1>4 DEF LoadVoid
  <2> DEFINE more == [Idle EXCEPT !.id = e]
             q == [more EXCEPT !.op = "void"]
  <2>2. q.op = "void" /\ q.id = e
    BY DEF Idle
  <2> HIDE DEF q
  <2>3. RequestOK(q, expense, transfer, received)
    BY <2>2 DEF RequestOK
  <2> HIDE DEF more
  <2>4. RequestOK([more EXCEPT !.op = "void"], expense, transfer, received)
    BY <2>3 DEF q
  <2> QED
    BY <2>1, <2>4, LoadKeeps DEF more
<1> QED
  BY <1>1, <1>2, <1>3, <1>4

LEMMA LoadPayKeeps ==
  ASSUME MoneyInv, NEW r \in Requests,
         LoadPay(r) \/ LoadClose(r) \/ LoadSettle(r) \/ LoadCancel(r)
  PROVE  MoneyInv'
<1>1. ASSUME LoadPay(r) PROVE MoneyInv'
  <2>1. PICK p \in Transfers : Load(r, "pay", [Idle EXCEPT !.transfer = p])
    BY <1>1 DEF LoadPay
  <2> DEFINE more == [Idle EXCEPT !.transfer = p]
             q == [more EXCEPT !.op = "pay"]
  <2>2. q.op = "pay" /\ q.transfer = p
    BY DEF Idle
  <2> HIDE DEF q
  <2>3. RequestOK(q, expense, transfer, received)
    BY <2>2 DEF RequestOK
  <2> HIDE DEF more
  <2>4. RequestOK([more EXCEPT !.op = "pay"], expense, transfer, received)
    BY <2>3 DEF q
  <2> QED
    BY <2>1, <2>4, LoadKeeps DEF more
<1>2. ASSUME LoadClose(r) PROVE MoneyInv'
  <2> DEFINE p == Simplify(PeerNets)
             more == [Idle EXCEPT !.plan = p]
             q == [more EXCEPT !.op = "close"]
  <2>1. Load(r, "close", more)
    BY <1>2 DEF LoadClose
  <2>2. p \in Seq(TransferType)
    BY BalancesTyped, SimplifyTyped DEF MoneyInv
  <2> HIDE DEF p
  <2>3. q.op = "close" /\ q.plan = p
    BY DEF Idle
  <2> HIDE DEF q
  <2>4. RequestOK(q, expense, transfer, received)
    BY <2>2, <2>3 DEF RequestOK
  <2> HIDE DEF more
  <2>5. RequestOK([more EXCEPT !.op = "close"], expense, transfer, received)
    BY <2>4 DEF q
  <2> QED
    BY <2>1, <2>5, LoadKeeps
<1>3. ASSUME LoadSettle(r) PROVE MoneyInv'
  <2>1. PICK t \in DOMAIN transfer : \E amount \in Payable(t) :
          Load(r, "settle", [Idle EXCEPT !.id = t, !.cached = transfer[t], !.amount = amount])
    BY <1>3 DEF LoadSettle
  <2>0. PICK amount \in Payable(t) :
          Load(r, "settle", [Idle EXCEPT !.id = t, !.cached = transfer[t], !.amount = amount])
    BY <2>1
  <2> DEFINE more == [Idle EXCEPT !.id = t, !.cached = transfer[t], !.amount = amount]
             q == [more EXCEPT !.op = "settle"]
  <2>2. q.op = "settle" /\ q.id = t /\ q.cached = transfer[t] /\ q.amount = amount
    BY DEF Idle
  <2> HIDE DEF q
  <2>3. /\ transfer[t] \in PlannedType /\ transfer[t].paid <= received[t]
        /\ transfer[t].paid \in Nat /\ transfer[t].amount \in Nat
    <3>1. transfer[t] \in PlannedType
      BY DEF MoneyInv, RowsOK
    <3>2. transfer[t].paid <= received[t]
      BY DEF MoneyInv, ShownWasPaid
    <3> QED
      BY <3>1, <3>2 DEF PlannedType
  <2>4. amount \in Nat \ {0} /\ transfer[t].paid + amount <= transfer[t].amount
    BY <2>3 DEF Payable
  <2>5. PaysFor(q, transfer, received)
    BY <2>2, <2>3, <2>4 DEF PaysFor
  <2>6. RequestOK(q, expense, transfer, received)
    BY <2>2, <2>5 DEF RequestOK
  <2> HIDE DEF more
  <2>7. RequestOK([more EXCEPT !.op = "settle"], expense, transfer, received)
    BY <2>6 DEF q
  <2> QED
    BY <2>0, <2>7, LoadKeeps DEF more
<1>4. ASSUME LoadCancel(r) PROVE MoneyInv'
  <2>1. PICK t \in DOMAIN transfer : Load(r, "cancel", [Idle EXCEPT !.id = t])
    BY <1>4 DEF LoadCancel
  <2> DEFINE more == [Idle EXCEPT !.id = t]
             q == [more EXCEPT !.op = "cancel"]
  <2>2. q.op = "cancel" /\ q.id = t
    BY DEF Idle
  <2> HIDE DEF q
  <2>3. RequestOK(q, expense, transfer, received)
    BY <2>2 DEF RequestOK
  <2> HIDE DEF more
  <2>4. RequestOK([more EXCEPT !.op = "cancel"], expense, transfer, received)
    BY <2>3 DEF q
  <2> QED
    BY <2>1, <2>4, LoadKeeps DEF more
<1> QED
  BY <1>1, <1>2, <1>3, <1>4

-----------------------------------------------------------------------------
(* Requests that write.                                                    *)

LEMMA SeqSet ==
  ASSUME NEW R, NEW s \in Seq(R), NEW i \in DOMAIN s, NEW x \in R
  PROVE  LET t == [s EXCEPT ![i] = x] IN
         /\ t \in Seq(R) /\ Len(t) = Len(s) /\ DOMAIN t = DOMAIN s
         /\ \A j \in DOMAIN s : t[j] = IF j = i THEN x ELSE s[j]
OBVIOUS

LEMMA CommitKeeps ==
  ASSUME MoneyInv, NEW r \in Requests, req' = [req EXCEPT ![r] = Idle],
         RowsOK', ShownWasPaid', Grows
  PROVE  MoneyInv'
<1>1. RequestOK(Idle, expense', transfer', received')
  BY IdleOK
<1>2. RequestsOK'
  BY <1>1, SlotSet DEF MoneyInv
<1> QED
  BY <1>2 DEF MoneyInv

\* The expenses may change as long as none is removed.
LEMMA ExpensesKept ==
  ASSUME MoneyInv, NEW r \in Requests, req' = [req EXCEPT ![r] = Idle],
         UNCHANGED <<role, sent, fresh, transfer, received>>,
         expense' \in Seq(ExpenseRow), DOMAIN expense \subseteq DOMAIN expense'
  PROVE  MoneyInv'
<1>1. RowsOK' /\ ShownWasPaid'
  BY DEF MoneyInv, RowsOK, ShownWasPaid
<1>2. \A t \in DOMAIN transfer : received[t] \in Nat
  BY DEF MoneyInv, RowsOK
<1>3. Grows
  BY <1>2 DEF Grows
<1> QED
  BY <1>1, <1>3, CommitKeeps

LEMMA CreateKeeps ==
  ASSUME MoneyInv, NEW r \in Requests, CommitCreate(r)
  PROVE  MoneyInv'
<1>1. PICK share \in Splits(req[r].cost) :
        /\ Storable(share)
        /\ expense' = Append(expense, [payer |-> req[r].payer, amount |-> req[r].cost.amount,
                        rent |-> req[r].cost.rent, weights |-> req[r].cost.weights,
                        share |-> share, status |-> "confirmed"])
  BY DEF CommitCreate
<1>2. /\ req[r].op = "create" /\ req' = [req EXCEPT ![r] = Idle]
      /\ UNCHANGED <<role, sent, fresh, transfer, received>>
  BY DEF CommitCreate, Finish
<1>3. CostOK(req[r].cost) /\ req[r].payer \in Members
  BY <1>2 DEF MoneyInv, RequestsOK, RequestOK
<1>4. share \in Allotments
  BY <1>1, <1>3, SharesAllot
<1> DEFINE x == [payer |-> req[r].payer, amount |-> req[r].cost.amount,
                 rent |-> req[r].cost.rent, weights |-> req[r].cost.weights,
                 share |-> share, status |-> "confirmed"]
<1>5. x \in ExpenseRow
  BY <1>3, <1>4 DEF CostOK, ExpenseRow
<1> HIDE DEF x
<1>6. expense \in Seq(ExpenseRow) /\ expense' = Append(expense, x)
  BY <1>1 DEF MoneyInv, RowsOK, x
<1>7. expense' \in Seq(ExpenseRow) /\ DOMAIN expense \subseteq DOMAIN expense'
  BY <1>5, <1>6
<1> QED
  BY <1>2, <1>7, ExpensesKept

\* What a commit makes of the row it edits.
Edited(q, live, share) ==
  [live EXCEPT !.amount = Written(live, q.cached, q.cost, "amount"),
               !.rent = Written(live, q.cached, q.cost, "rent"),
               !.weights = Written(live, q.cached, q.cost, "weights"),
               !.share = share]

LEMMA EditedRow ==
  ASSUME NEW q, CostOK(q.cost), NEW live \in ExpenseRow, NEW share \in Allotments
  PROVE  Edited(q, live, share) \in ExpenseRow
<1> DEFINE a == Written(live, q.cached, q.cost, "amount")
           b == Written(live, q.cached, q.cost, "rent")
           w == Written(live, q.cached, q.cost, "weights")
<1>1. /\ live.amount \in Nat \ {0} /\ live.rent \in BOOLEAN /\ live.weights \in Weights
      /\ q.cost.amount \in Nat \ {0} /\ q.cost.rent \in BOOLEAN /\ q.cost.weights \in Weights
  BY DEF ExpenseRow, CostOK
<1>2. a = live.amount \/ a = q.cost.amount
  BY DEF Written
<1>3. b = live.rent \/ b = q.cost.rent
  BY DEF Written
<1>4. w = live.weights \/ w = q.cost.weights
  BY DEF Written
<1>5. a \in Nat \ {0} /\ b \in BOOLEAN /\ w \in Weights
  BY <1>1, <1>2, <1>3, <1>4
<1>6. Edited(q, live, share) = [live EXCEPT !.amount = a, !.rent = b, !.weights = w, !.share = share]
  BY DEF Edited
<1> HIDE DEF a, b, w
<1> QED
  BY <1>5, <1>6 DEF ExpenseRow

LEMMA EditIs ==
  ASSUME MoneyInv, NEW r \in Requests, CommitEdit(r)
  PROVE  LET e == req[r].id IN
         /\ req[r].op = "edit" /\ CostOK(req[r].cost) /\ e \in DOMAIN expense
         /\ \E share \in Splits(req[r].cost) :
              /\ expense' = [expense EXCEPT ![e] = Edited(req[r], expense[e], share)]
              /\ Edited(req[r], expense[e], share) \in ExpenseRow
<1> DEFINE e == req[r].id
<1>1. req[r].op = "edit" /\ CostOK(req[r].cost) /\ e \in DOMAIN expense
  BY DEF CommitEdit, Finish, MoneyInv, RequestsOK, RequestOK
<1>2. expense[e] \in ExpenseRow
  BY <1>1 DEF MoneyInv, RowsOK
<1>3. PICK share \in Splits(req[r].cost) :
       /\ Storable(share)
       /\ expense' = [expense EXCEPT
            ![e].amount = Written(expense[e], req[r].cached, req[r].cost, "amount"),
            ![e].rent = Written(expense[e], req[r].cached, req[r].cost, "rent"),
            ![e].weights = Written(expense[e], req[r].cached, req[r].cost, "weights"),
            ![e].share = share]
  BY Zenon DEF CommitEdit
<1>4. share \in Allotments
  BY <1>1, <1>3, SharesAllot
<1>5. Edited(req[r], expense[e], share) \in ExpenseRow
  BY <1>1, <1>2, <1>4, EditedRow
<1>6. expense' = [expense EXCEPT ![e] = Edited(req[r], expense[e], share)]
  BY <1>1, <1>3 DEF Edited
<1> QED
  BY <1>1, <1>5, <1>6

LEMMA EditKeeps ==
  ASSUME MoneyInv, NEW r \in Requests, CommitEdit(r) \/ CommitVoid(r)
  PROVE  MoneyInv'
<1>0. expense \in Seq(ExpenseRow)
  BY DEF MoneyInv, RowsOK
<1>1. CASE CommitEdit(r)
  <2>1. PICK x \in ExpenseRow : req[r].id \in DOMAIN expense /\ expense' = [expense EXCEPT ![req[r].id] = x]
    BY <1>1, EditIs
  <2>2. expense' \in Seq(ExpenseRow) /\ DOMAIN expense' = DOMAIN expense
    BY <1>0, <2>1, SeqSet
  <2>3. req' = [req EXCEPT ![r] = Idle] /\ UNCHANGED <<role, sent, fresh, transfer, received>>
    BY <1>1 DEF CommitEdit, Finish
  <2> QED
    BY <2>2, <2>3, ExpensesKept
<1>2. CASE CommitVoid(r)
  <2> DEFINE e == req[r].id
             x == [expense[e] EXCEPT !.status = "void"]
  <2>1. /\ req[r].op = "void" /\ req' = [req EXCEPT ![r] = Idle]
        /\ expense' = [expense EXCEPT ![e] = x]
        /\ UNCHANGED <<role, sent, fresh, transfer, received>>
    BY <1>2 DEF CommitVoid, Finish
  <2>2. e \in DOMAIN expense
    BY <2>1 DEF MoneyInv, RequestsOK, RequestOK
  <2>3. x \in ExpenseRow
    <3>1. expense[e] \in ExpenseRow
      BY <1>0, <2>2
    <3> QED
      BY <3>1 DEF ExpenseRow
  <2> HIDE DEF e, x
  <2>4. expense' \in Seq(ExpenseRow) /\ DOMAIN expense' = DOMAIN expense
    BY <1>0, <2>1, <2>2, <2>3, SeqSet
  <2> QED
    BY <2>1, <2>4, ExpensesKept
<1> QED
  BY <1>1, <1>2

LEMMA PayKeeps ==
  ASSUME MoneyInv, NEW r \in Requests, CommitPay(r)
  PROVE  MoneyInv'
<1> DEFINE p == req[r].transfer
<1>1. /\ req[r].op = "pay" /\ req' = [req EXCEPT ![r] = Idle]
      /\ sent' = [sent EXCEPT ![p.from][p.to] = @ + p.amount]
      /\ fresh' = fresh \cup {p}
      /\ UNCHANGED <<role, expense, transfer, received>>
  BY DEF CommitPay, Finish
<1>2. p \in Transfers
  BY <1>1 DEF MoneyInv, RequestsOK, RequestOK
<1>3. p.from \in Members /\ p.to \in Members /\ p.amount \in Nat
  BY <1>2, InputsAssumption DEF TransferType
<1>4. sent' \in [Members -> [Members -> Nat]]
  <2>1. sent \in [Members -> [Members -> Nat]]
    BY DEF MoneyInv, RowsOK
  <2> QED
    BY <1>1, <1>3, <2>1
<1>5. RowsOK' /\ ShownWasPaid'
  BY <1>1, <1>2, <1>4 DEF MoneyInv, RowsOK, ShownWasPaid
<1>6. Grows
  BY <1>1, SameGrows DEF MoneyInv
<1> QED
  BY <1>1, <1>5, <1>6, CommitKeeps

-----------------------------------------------------------------------------
(* Transfers: proposing, paying, calling off.                              *)

\* all is s followed by t.
Follows(all, s, t) ==
  /\ Len(all) = Len(s) + Len(t)
  /\ \A i \in DOMAIN s : all[i] = s[i]
  /\ \A j \in DOMAIN all :
       j \in DOMAIN s \/ (j - Len(s) \in DOMAIN t /\ all[j] = t[j - Len(s)])

LEMMA Joined ==
  ASSUME NEW R, NEW s \in Seq(R), NEW t \in Seq(R)
  PROVE  s \o t \in Seq(R) /\ Follows(s \o t, s, t)
BY DEF Follows

Fresh(move) ==
  [from |-> move.from, to |-> move.to, amount |-> move.amount, paid |-> 0, status |-> "proposed"]

LEMMA CloseIs ==
  ASSUME MoneyInv, NEW r \in Requests, CommitClose(r)
  PROVE  LET plan == req[r].plan
             n == Len(transfer) IN
         /\ req[r].op = "close" /\ plan \in Seq(TransferType)
         /\ transfer' \in Seq(PlannedType) /\ Len(transfer') = n + Len(plan)
         /\ received' \in Seq(Nat) /\ Len(received') = n + Len(plan)
         /\ \A t \in DOMAIN transfer : transfer'[t] = transfer[t] /\ received'[t] = received[t]
         /\ \A t \in DOMAIN transfer' :
              \/ t \in DOMAIN transfer
              \/ /\ t - n \in DOMAIN plan /\ transfer'[t] = Fresh(plan[t - n])
                 /\ received'[t] = 0
<1> DEFINE plan == req[r].plan
           n == Len(transfer)
           new == [i \in DOMAIN plan |-> Fresh(plan[i])]
           zero == [i \in DOMAIN plan |-> 0]
<1>1. /\ req[r].op = "close" /\ transfer' = transfer \o new /\ received' = received \o zero
  BY DEF CommitClose, Finish, Fresh
<1>2. plan \in Seq(TransferType)
  BY <1>1 DEF MoneyInv, RequestsOK, RequestOK
<1>3. /\ transfer \in Seq(PlannedType) /\ received \in Seq(Nat) /\ Len(received) = n /\ n \in Nat
      /\ DOMAIN received = DOMAIN transfer
  BY DEF MoneyInv, RowsOK
<1> HIDE DEF plan, n
<1>4. DOMAIN plan = 1 .. Len(plan) /\ Len(plan) \in Nat
  BY <1>2
<1>5. new \in Seq(PlannedType) /\ Len(new) = Len(plan) /\ DOMAIN new = DOMAIN plan
  <2>1. ASSUME NEW i \in DOMAIN plan PROVE Fresh(plan[i]) \in PlannedType
    <3>1. plan[i] \in TransferType
      BY <1>2
    <3> QED
      BY <3>1 DEF Fresh, TransferType, PlannedType
  <2>2. new \in [1 .. Len(plan) -> PlannedType]
    BY <1>4, <2>1
  <2> QED
    BY <1>4, <2>2
<1>6. zero \in Seq(Nat) /\ Len(zero) = Len(plan) /\ DOMAIN zero = DOMAIN plan
  <2>1. zero \in [1 .. Len(plan) -> Nat]
    BY <1>4
  <2> QED
    BY <1>4, <2>1
<1>7. \A i \in DOMAIN plan : new[i] = Fresh(plan[i]) /\ zero[i] = 0
  OBVIOUS
<1> HIDE DEF new, zero
<1>8. /\ transfer' \in Seq(PlannedType) /\ Len(transfer') = n + Len(plan)
      /\ \A t \in DOMAIN transfer : transfer'[t] = transfer[t]
      /\ \A t \in DOMAIN transfer' :
           t \in DOMAIN transfer \/ (t - n \in DOMAIN plan /\ transfer'[t] = Fresh(plan[t - n]))
  <2> DEFINE all == transfer \o new
  <2>1. all \in Seq(PlannedType) /\ Follows(all, transfer, new)
    BY <1>3, <1>5, Joined
  <2>2. transfer' = all
    BY <1>1
  <2> HIDE DEF all
  <2> QED
    BY <1>5, <1>7, <2>1, <2>2 DEF n, Follows
<1>9. /\ received' \in Seq(Nat) /\ Len(received') = n + Len(plan)
      /\ \A t \in DOMAIN received : received'[t] = received[t]
      /\ \A t \in DOMAIN received' : t \in DOMAIN received \/ received'[t] = 0
  <2> DEFINE all == received \o zero
  <2>1. all \in Seq(Nat) /\ Follows(all, received, zero)
    BY <1>3, <1>6, Joined
  <2>2. received' = all
    BY <1>1
  <2> HIDE DEF all
  <2> QED
    BY <1>3, <1>6, <1>7, <2>1, <2>2 DEF Follows
<1>10. DOMAIN received' = DOMAIN transfer'
  BY <1>8, <1>9
<1> QED
  BY <1>1, <1>2, <1>3, <1>8, <1>9, <1>10 DEF plan, n

LEMMA CloseKeeps ==
  ASSUME MoneyInv, NEW r \in Requests, CommitClose(r)
  PROVE  MoneyInv'
<1> DEFINE plan == req[r].plan
           n == Len(transfer)
<1>1. /\ plan \in Seq(TransferType)
      /\ transfer' \in Seq(PlannedType) /\ Len(transfer') = n + Len(plan)
      /\ received' \in Seq(Nat) /\ Len(received') = n + Len(plan)
      /\ \A t \in DOMAIN transfer : transfer'[t] = transfer[t] /\ received'[t] = received[t]
      /\ \A t \in DOMAIN transfer' :
           \/ t \in DOMAIN transfer
           \/ /\ t - n \in DOMAIN plan /\ transfer'[t] = Fresh(plan[t - n]) /\ received'[t] = 0
  BY CloseIs
<1>2. req' = [req EXCEPT ![r] = Idle] /\ UNCHANGED <<role, expense, sent, fresh>>
  BY DEF CommitClose, Finish
<1>3. /\ transfer \in Seq(PlannedType) /\ received \in Seq(Nat) /\ Len(received) = n
      /\ n \in Nat /\ Len(plan) \in Nat
  BY <1>1 DEF MoneyInv, RowsOK
<1> HIDE DEF n, plan
<1>4. DOMAIN transfer \subseteq DOMAIN transfer'
  BY <1>1, <1>3 DEF n
<1>5. RowsOK'
  BY <1>1, <1>2 DEF MoneyInv, RowsOK
<1>6. ShownWasPaid'
  <2> SUFFICES ASSUME NEW t \in DOMAIN transfer'
               PROVE  /\ transfer'[t].paid <= transfer'[t].amount
                      /\ transfer'[t].paid <= received'[t]
                      /\ transfer'[t].status = "paid" => received'[t] >= transfer'[t].amount
    BY DEF ShownWasPaid
  <2>1. CASE t \in DOMAIN transfer
    BY <1>1, <2>1 DEF MoneyInv, ShownWasPaid
  <2>2. CASE t \notin DOMAIN transfer
    <3>1. t - n \in DOMAIN plan /\ transfer'[t] = Fresh(plan[t - n]) /\ received'[t] = 0
      BY <1>1, <2>2
    <3>2. plan[t - n] \in TransferType
      BY <1>1, <3>1
    <3> QED
      BY <3>1, <3>2 DEF Fresh, TransferType
  <2> QED
    BY <2>1, <2>2
<1>7. Grows
  <2>1. \A t \in DOMAIN transfer : received[t] \in Nat
    BY <1>3 DEF n
  <2> QED
    BY <1>1, <1>2, <1>4, <2>1 DEF Grows
<1> QED
  BY <1>2, <1>5, <1>6, <1>7, CommitKeeps

\* One transfer changes, in what it shows as paid, its status or the money
\* recorded for it.
LEMMA TransferKept ==
  ASSUME MoneyInv, NEW r \in Requests, req' = [req EXCEPT ![r] = Idle],
         UNCHANGED <<role, expense, fresh>>, sent' \in [Members -> [Members -> Nat]],
         NEW t \in DOMAIN transfer, NEW row \in PlannedType, NEW money \in Nat,
         row.from = transfer[t].from, row.to = transfer[t].to, row.amount = transfer[t].amount,
         received[t] <= money, row.paid <= row.amount, row.paid <= money,
         row.status = "paid" => money >= row.amount,
         transfer' = [transfer EXCEPT ![t] = row], received' = [received EXCEPT ![t] = money]
  PROVE  MoneyInv'
<1>1. /\ transfer \in Seq(PlannedType) /\ received \in Seq(Nat)
      /\ Len(received) = Len(transfer) /\ DOMAIN received = DOMAIN transfer
  BY DEF MoneyInv, RowsOK
<1>2. /\ transfer' \in Seq(PlannedType) /\ Len(transfer') = Len(transfer)
      /\ DOMAIN transfer' = DOMAIN transfer
      /\ \A j \in DOMAIN transfer : transfer'[j] = IF j = t THEN row ELSE transfer[j]
  BY <1>1, SeqSet
<1>3. /\ received' \in Seq(Nat) /\ Len(received') = Len(received)
      /\ \A j \in DOMAIN received : received'[j] = IF j = t THEN money ELSE received[j]
  BY <1>1, SeqSet
<1>4. RowsOK'
  BY <1>1, <1>2, <1>3 DEF MoneyInv, RowsOK
<1>5. ShownWasPaid'
  BY <1>1, <1>2, <1>3 DEF MoneyInv, ShownWasPaid
<1>6. Grows
  <2>1. \A j \in DOMAIN transfer : received[j] \in Nat
    BY <1>1
  <2>2. DOMAIN expense \subseteq DOMAIN expense'
    OBVIOUS
  <2>3. ASSUME NEW j \in DOMAIN transfer
        PROVE  /\ transfer'[j].from = transfer[j].from /\ transfer'[j].to = transfer[j].to
               /\ transfer'[j].amount = transfer[j].amount /\ received[j] <= received'[j]
    BY <1>1, <1>2, <1>3, <2>1
  <2> QED
    BY <1>2, <2>2, <2>3 DEF Grows
<1> QED
  BY <1>4, <1>5, <1>6, CommitKeeps

LEMMA SettleKeeps ==
  ASSUME MoneyInv, NEW r \in Requests, CommitSettle(r)
  PROVE  MoneyInv'
<1> DEFINE q == req[r]
           t == q.id
           paid == q.cached.paid + q.amount
           row == [transfer[t] EXCEPT !.paid = paid,
                     !.status = IF paid = q.cached.amount THEN "paid" ELSE @]
           money == received[t] + q.amount
<1>1. /\ q.op = "settle" /\ req' = [req EXCEPT ![r] = Idle]
      /\ transfer' = [transfer EXCEPT ![t].paid = paid,
                        ![t].status = IF paid = q.cached.amount THEN "paid" ELSE @]
      /\ sent' = [sent EXCEPT ![q.cached.from][q.cached.to] = @ + q.amount]
      /\ received' = [received EXCEPT ![t] = money]
      /\ UNCHANGED <<role, expense, fresh>>
  BY DEF CommitSettle, Settle, Finish
<1>2. PaysFor(q, transfer, received)
  BY <1>1 DEF MoneyInv, RequestsOK, RequestOK
<1>3. t \in DOMAIN transfer
  BY <1>2 DEF PaysFor
<1>4. transfer[t] \in PlannedType /\ received[t] \in Nat
  BY <1>3 DEF MoneyInv, RowsOK
<1>5. /\ q.cached \in PlannedType /\ q.cached.amount = transfer[t].amount
      /\ q.cached.paid <= received[t] /\ q.amount \in Nat \ {0} /\ paid <= q.cached.amount
  BY <1>2 DEF PaysFor
<1>6. /\ q.cached.from \in Members /\ q.cached.to \in Members /\ q.cached.paid \in Nat
      /\ q.cached.amount \in Nat
  BY <1>5 DEF PlannedType
<1>7. transfer' = [transfer EXCEPT ![t] = row]
  BY <1>1, <1>3
<1> HIDE DEF q, t
<1>8. paid \in Nat /\ money \in Nat /\ received[t] <= money /\ paid <= money /\ paid <= transfer[t].amount
  BY <1>4, <1>5, <1>6
<1>9. /\ row \in PlannedType /\ row.from = transfer[t].from /\ row.to = transfer[t].to
      /\ row.amount = transfer[t].amount /\ row.paid = paid
      /\ row.status = IF paid = q.cached.amount THEN "paid" ELSE transfer[t].status
  <2> HIDE DEF paid
  <2> QED
    BY <1>4, <1>8 DEF PlannedType
<1>10. row.status = "paid" => money >= row.amount
  <2>1. transfer[t].status = "paid" => received[t] >= transfer[t].amount
    BY <1>3 DEF MoneyInv, ShownWasPaid
  <2>2. transfer[t].amount \in Nat
    BY <1>4 DEF PlannedType
  <2> HIDE DEF row
  <2> QED
    BY <1>4, <1>5, <1>6, <1>8, <1>9, <2>1, <2>2
<1>11. sent' \in [Members -> [Members -> Nat]]
  <2>1. sent \in [Members -> [Members -> Nat]]
    BY DEF MoneyInv, RowsOK
  <2>2. sent[q.cached.from][q.cached.to] + q.amount \in Nat
    BY <1>5, <1>6, <2>1
  <2> QED
    BY <1>1, <1>6, <2>1, <2>2
<1> HIDE DEF row, money, paid
<1> QED
  BY <1>1, <1>3, <1>7, <1>8, <1>9, <1>10, <1>11, TransferKept

LEMMA CancelKeeps ==
  ASSUME MoneyInv, NEW r \in Requests, CommitCancel(r)
  PROVE  MoneyInv'
<1> DEFINE t == req[r].id
           row == [transfer[t] EXCEPT !.status = "cancelled"]
<1>1. /\ req[r].op = "cancel" /\ req' = [req EXCEPT ![r] = Idle]
      /\ transfer' = [transfer EXCEPT ![t] = row]
      /\ UNCHANGED <<role, expense, sent, fresh, received>>
  BY DEF CommitCancel, Finish
<1>2. t \in DOMAIN transfer
  BY <1>1 DEF MoneyInv, RequestsOK, RequestOK
<1>3. /\ transfer[t] \in PlannedType /\ received[t] \in Nat /\ DOMAIN received = DOMAIN transfer
      /\ received \in Seq(Nat) /\ sent \in [Members -> [Members -> Nat]]
  BY <1>2 DEF MoneyInv, RowsOK
<1>4. transfer[t].paid <= transfer[t].amount /\ transfer[t].paid <= received[t]
  BY <1>2 DEF MoneyInv, ShownWasPaid
<1>5. /\ row \in PlannedType /\ row.from = transfer[t].from /\ row.to = transfer[t].to
      /\ row.amount = transfer[t].amount /\ row.paid = transfer[t].paid /\ row.status = "cancelled"
  BY <1>3 DEF PlannedType
<1>6. received' = [received EXCEPT ![t] = received[t]]
  BY <1>1, <1>2, <1>3
<1> HIDE DEF t, row
<1>7. received[t] <= received[t] /\ sent' \in [Members -> [Members -> Nat]]
  BY <1>1, <1>3
<1>8. row.paid <= row.amount /\ row.paid <= received[t] /\ row.status # "paid"
  BY <1>4, <1>5
<1> QED
  BY <1>1, <1>2, <1>3, <1>5, <1>6, <1>7, <1>8, TransferKept

-----------------------------------------------------------------------------
(* What holds however requests overlap.                                    *)

LEMMA MoneyInit == Init => MoneyInv
<1> SUFFICES ASSUME Init PROVE MoneyInv
  OBVIOUS
<1>1. RowsOK
  <2>1. role \in [Members -> {"tenant", "guest", "gone"}]
    BY DEF Init
  <2>2. sent \in [Members -> [Members -> Nat]]
    BY DEF Init
  <2>3. /\ expense \in Seq(ExpenseRow) /\ fresh \subseteq Transfers /\ transfer \in Seq(PlannedType)
        /\ received \in Seq(Nat) /\ Len(received) = Len(transfer)
    BY DEF Init
  <2> QED
    BY <2>1, <2>2, <2>3 DEF RowsOK
<1>2. ShownWasPaid
  BY DEF Init, ShownWasPaid
<1>3. RequestsOK
  BY IdleOK DEF Init, RequestsOK
<1> QED
  BY <1>1, <1>2, <1>3 DEF MoneyInv

LEMMA MoneyInductive == MoneyInv /\ [Next]_vars => MoneyInv'
<1> SUFFICES ASSUME MoneyInv, [Next]_vars PROVE MoneyInv'
  OBVIOUS
<1>1. ASSUME NEW r \in Requests, Request(r) PROVE MoneyInv'
  <2>1. ASSUME Abandon(r) PROVE MoneyInv'
    <3>1. req' = [req EXCEPT ![r] = Idle] /\ UNCHANGED rows
      BY <2>1 DEF Abandon
    <3>2. RowsOK' /\ ShownWasPaid' /\ Grows
      BY <3>1, SameRows DEF MoneyInv
    <3> QED
      BY <3>1, <3>2, CommitKeeps
  <2> QED
    BY <1>1, <2>1, LoadEnterKeeps, LoadPayKeeps, CreateKeeps, EditKeeps, PayKeeps, CloseKeeps,
       SettleKeeps, CancelKeeps DEF Request
<1>2. ASSUME NEW p \in Transfers, Age(p) PROVE MoneyInv'
  BY <1>2 DEF Age, MoneyInv, RowsOK, ShownWasPaid, RequestsOK
<1>3. ASSUME NEW m \in Moving, ChangeRole(m) PROVE MoneyInv'
  <2>1. m \in Members
    BY TenantsAssumption
  <2>2. role' \in [Members -> {"tenant", "guest", "gone"}]
    BY <1>3, <2>1 DEF ChangeRole, MoneyInv, RowsOK
  <2> QED
    BY <1>3, <2>2 DEF ChangeRole, MoneyInv, RowsOK, ShownWasPaid, RequestsOK
<1>4. ASSUME UNCHANGED vars PROVE MoneyInv'
  BY <1>4 DEF vars, rows, MoneyInv, RowsOK, ShownWasPaid, RequestsOK
<1> QED
  BY <1>1, <1>2, <1>3, <1>4 DEF Next

\* Rows, requests in flight and the money recorded fit together in every
\* reachable state.
THEOREM MoneyInvariant == Spec => []MoneyInv
  BY MoneyInit, MoneyInductive, PTL DEF Spec

LEMMA RowsTyped == MoneyInv => TypeOK
<1> SUFFICES ASSUME MoneyInv PROVE TypeOK
  OBVIOUS
<1>1. ASSUME NEW e \in DOMAIN expense PROVE ExpenseOK(expense[e])
  <2>1. expense[e] \in ExpenseRow
    BY DEF MoneyInv, RowsOK
  <2>2. expense[e].weights \in Weightings /\ expense[e].share \in Allotments
    BY <2>1 DEF ExpenseRow, Weights
  <2>3. Weighting(expense[e].weights) /\ Allotment(expense[e].share)
    BY <2>2, AllotmentOf, WeightingOf DEF Allotment, Weighting
  <2> QED
    BY <2>1, <2>3 DEF ExpenseRow, ExpenseOK
<1> QED
  BY <1>1 DEF MoneyInv, RowsOK, ShownWasPaid, TypeOK

\* No share is negative and no transfer shows more paid than it asks for,
\* though the running total may be written from a stale row.
THEOREM ExpenseTypes == Spec => []TypeOK
  BY RowsTyped, MoneyInvariant, PTL

\* However payments of one transfer overlap, it never shows more as paid than
\* was recorded for it, and one marked as paid has been paid in full.
THEOREM TransfersNeverShort == Spec => []NeverShort
<1>1. MoneyInv => NeverShort
  BY DEF MoneyInv, ShownWasPaid, NeverShort
<1> QED
  BY <1>1, MoneyInvariant, PTL

-----------------------------------------------------------------------------
(* What requests have read.                                                *)

\* A request that has just read holds the row as it is, a transfer that is
\* still open, or the transfers that square the balances as they are.
Read(q) ==
  /\ q.op = "edit" => q.id \in DOMAIN expense /\ q.cached = expense[q.id]
  /\ q.op = "settle" => /\ q.id \in DOMAIN transfer /\ q.cached = transfer[q.id]
                        /\ transfer[q.id].status = "proposed"
  /\ q.op = "cancel" => q.id \in DOMAIN transfer /\ transfer[q.id].status = "proposed"
  /\ q.op = "close"  => /\ Total(PeerNets) = 0 /\ q.plan = Simplify(PeerNets)
                        /\ q.plan # <<>>

ReadsNow(s) == UNCHANGED rows /\ Read(req'[s])

LEMMA LoadReads ==
  ASSUME MoneyInv, NEW r \in Requests, NEW op, NEW more, Load(r, op, more),
         Read([more EXCEPT !.op = op]), NEW s \in Requests
  PROVE  req'[s] = req[s] \/ ReadsNow(s)
<1>0. DOMAIN req = Requests
  BY DEF MoneyInv, RequestsOK
<1> DEFINE q == [more EXCEPT !.op = op]
<1>1. req' = [req EXCEPT ![r] = q] /\ UNCHANGED rows /\ Read(q)
  BY DEF Load
<1> HIDE DEF q
<1>2. CASE s = r
  <2>1. req'[s] = q
    BY <1>0, <1>1, <1>2
  <2> QED
    BY <1>1, <2>1 DEF ReadsNow
<1>3. CASE s # r
  BY <1>0, <1>1, <1>3
<1> QED
  BY <1>2, <1>3

LEMMA LoadReadsAny ==
  ASSUME MoneyInv, NEW r \in Requests, NEW s \in Requests,
         \/ LoadCreate(r) \/ LoadRent(r) \/ LoadEdit(r) \/ LoadVoid(r) \/ LoadPay(r)
         \/ LoadClose(r) \/ LoadSettle(r) \/ LoadCancel(r)
  PROVE  req'[s] = req[s] \/ ReadsNow(s)
<1> DEFINE Goal == req'[s] = req[s] \/ ReadsNow(s)
<1>1. ASSUME LoadCreate(r) PROVE Goal
  <2>1. PICK cost \in Costs, payer \in ActiveTenants :
          Load(r, "create", [Idle EXCEPT !.cost = cost, !.payer = payer])
    BY <1>1 DEF LoadCreate
  <2> DEFINE more == [Idle EXCEPT !.cost = cost, !.payer = payer]
             q == [more EXCEPT !.op = "create"]
  <2>2. q.op = "create"
    BY DEF Idle
  <2> HIDE DEF q
  <2>3. Read(q)
    BY <2>2 DEF Read
  <2> HIDE DEF more
  <2> QED
    BY <2>1, <2>3, LoadReads DEF more, q
<1>2. ASSUME LoadRent(r) PROVE Goal
  <2>1. PICK payer, cost : Load(r, "create", [Idle EXCEPT !.payer = payer, !.cost = cost])
    BY <1>2 DEF LoadRent
  <2> DEFINE more == [Idle EXCEPT !.payer = payer, !.cost = cost]
             q == [more EXCEPT !.op = "create"]
  <2>2. q.op = "create"
    BY DEF Idle
  <2> HIDE DEF q
  <2>3. Read(q)
    BY <2>2 DEF Read
  <2> HIDE DEF more
  <2> QED
    BY <2>1, <2>3, LoadReads DEF more, q
<1>3. ASSUME LoadEdit(r) PROVE Goal
  <2>1. PICK e \in DOMAIN expense, cost \in Costs :
          Load(r, "edit", [Idle EXCEPT !.id = e, !.cost = cost, !.cached = expense[e]])
    BY <1>3 DEF LoadEdit
  <2> DEFINE more == [Idle EXCEPT !.id = e, !.cost = cost, !.cached = expense[e]]
             q == [more EXCEPT !.op = "edit"]
  <2>2. q.op = "edit" /\ q.id = e /\ q.cached = expense[e]
    BY DEF Idle
  <2> HIDE DEF q
  <2>3. Read(q)
    BY <2>2 DEF Read
  <2> HIDE DEF more
  <2> QED
    BY <2>1, <2>3, LoadReads DEF more, q
<1>4. ASSUME LoadVoid(r) PROVE Goal
  <2>1. PICK e \in DOMAIN expense : Load(r, "void", [Idle EXCEPT !.id = e])
    BY <1>4 DEF LoadVoid
  <2> DEFINE more == [Idle EXCEPT !.id = e]
             q == [more EXCEPT !.op = "void"]
  <2>2. q.op = "void"
    BY DEF Idle
  <2> HIDE DEF q
  <2>3. Read(q)
    BY <2>2 DEF Read
  <2> HIDE DEF more
  <2> QED
    BY <2>1, <2>3, LoadReads DEF more, q
<1>5. ASSUME LoadPay(r) PROVE Goal
  <2>1. PICK p \in Transfers : Load(r, "pay", [Idle EXCEPT !.transfer = p])
    BY <1>5 DEF LoadPay
  <2> DEFINE more == [Idle EXCEPT !.transfer = p]
             q == [more EXCEPT !.op = "pay"]
  <2>2. q.op = "pay"
    BY DEF Idle
  <2> HIDE DEF q
  <2>3. Read(q)
    BY <2>2 DEF Read
  <2> HIDE DEF more
  <2> QED
    BY <2>1, <2>3, LoadReads DEF more, q
<1>6. ASSUME LoadClose(r) PROVE Goal
  <2> DEFINE p == Simplify(PeerNets)
             more == [Idle EXCEPT !.plan = p]
             q == [more EXCEPT !.op = "close"]
  <2>1. Load(r, "close", more) /\ Total(PeerNets) = 0 /\ p # <<>>
    BY <1>6 DEF LoadClose
  <2>2. p = Simplify(PeerNets)
    OBVIOUS
  <2> HIDE DEF p
  <2>3. q.op = "close" /\ q.plan = p
    BY DEF Idle
  <2> HIDE DEF q
  <2>4. Read(q)
    BY <2>1, <2>2, <2>3 DEF Read
  <2> HIDE DEF more
  <2> QED
    BY <2>1, <2>4, LoadReads DEF q
<1>7. ASSUME LoadSettle(r) PROVE Goal
  <2>1. PICK t \in DOMAIN transfer : /\ MaySettle(t)
          /\ \E amount \in Payable(t) :
               Load(r, "settle", [Idle EXCEPT !.id = t, !.cached = transfer[t], !.amount = amount])
    BY <1>7 DEF LoadSettle
  <2>2. PICK amount \in Payable(t) :
          Load(r, "settle", [Idle EXCEPT !.id = t, !.cached = transfer[t], !.amount = amount])
    BY <2>1
  <2> DEFINE more == [Idle EXCEPT !.id = t, !.cached = transfer[t], !.amount = amount]
             q == [more EXCEPT !.op = "settle"]
  <2>3. q.op = "settle" /\ q.id = t /\ q.cached = transfer[t]
    BY DEF Idle
  <2> HIDE DEF q
  <2>4. Read(q)
    BY <2>1, <2>3 DEF Read, MaySettle
  <2> HIDE DEF more
  <2> QED
    BY <2>2, <2>4, LoadReads DEF more, q
<1>8. ASSUME LoadCancel(r) PROVE Goal
  <2>1. PICK t \in DOMAIN transfer : MaySettle(t) /\ Load(r, "cancel", [Idle EXCEPT !.id = t])
    BY <1>8 DEF LoadCancel
  <2> DEFINE more == [Idle EXCEPT !.id = t]
             q == [more EXCEPT !.op = "cancel"]
  <2>2. q.op = "cancel" /\ q.id = t
    BY DEF Idle
  <2> HIDE DEF q
  <2>3. Read(q)
    BY <2>1, <2>2 DEF Read, MaySettle
  <2> HIDE DEF more
  <2> QED
    BY <2>1, <2>3, LoadReads DEF more, q
<1> QED
  BY <1>1, <1>2, <1>3, <1>4, <1>5, <1>6, <1>7, <1>8

\* A request in flight was there before, or has just read.
LEMMA RequestReads ==
  ASSUME MoneyInv, [Next]_vars, NEW s \in Requests
  PROVE  req'[s] = req[s] \/ req'[s] = Idle \/ ReadsNow(s)
<1>0. DOMAIN req = Requests
  BY DEF MoneyInv, RequestsOK
<1>1. ASSUME NEW r \in Requests, Request(r)
      PROVE  req'[s] = req[s] \/ req'[s] = Idle \/ ReadsNow(s)
  <2>1. CASE req' = [req EXCEPT ![r] = Idle]
    BY <1>0, <2>1
  <2>2. CASE \/ LoadCreate(r) \/ LoadRent(r) \/ LoadEdit(r) \/ LoadVoid(r) \/ LoadPay(r)
             \/ LoadClose(r) \/ LoadSettle(r) \/ LoadCancel(r)
    BY <2>2, LoadReadsAny
  <2> QED
    BY <1>1, <2>1, <2>2 DEF Request, CommitCreate, CommitEdit, CommitVoid, CommitPay,
       CommitClose, CommitSettle, CommitCancel, Finish, Abandon
<1>2. CASE UNCHANGED req
  BY <1>2
<1> QED
  BY <1>1, <1>2 DEF Next, Age, ChangeRole, vars

-----------------------------------------------------------------------------
(* Splits.                                                                 *)

\* No two edits of one expense are in flight at the same time.
EditsApart ==
  \A r, s \in Requests :
    r # s /\ req[r].op = "edit" /\ req[s].op = "edit" => req[r].id # req[s].id

IsSplit(x) == x.share \in LargestRemainder(x.amount, x.weights)

SameSplit(x, y) == x.amount = y.amount /\ x.weights = y.weights /\ x.share = y.share

\* An edit works on the amount and the weights the expense has.
EditsCurrent ==
  \A s \in Requests : req[s].op = "edit" =>
    /\ req[s].cached.amount = expense[req[s].id].amount
    /\ req[s].cached.weights = expense[req[s].id].weights

SplitInv ==
  MoneyInv /\ (\A e \in DOMAIN expense : IsSplit(expense[e])) /\ EditsCurrent

LEMMA Appended ==
  ASSUME NEW R, NEW s \in Seq(R), NEW x, NEW e \in DOMAIN Append(s, x)
  PROVE  \/ e \in DOMAIN s /\ Append(s, x)[e] = s[e]
         \/ e \notin DOMAIN s /\ Append(s, x)[e] = x
<1> DEFINE Q == R \cup {x}
<1>1. x \in Q
  OBVIOUS
<1>2. s \in Seq(Q)
  <2>1. Len(s) \in Nat /\ s \in [1 .. Len(s) -> R] /\ R \subseteq Q
    OBVIOUS
  <2> HIDE DEF Q
  <2>2. s \in [1 .. Len(s) -> Q]
    BY <2>1
  <2> QED
    BY <2>1, <2>2
<1> HIDE DEF Q
<1> QED
  BY <1>1, <1>2

LEMMA ExpenseMoves ==
  ASSUME MoneyInv, [Next]_vars, NEW e \in DOMAIN expense'
  PROVE  \/ e \in DOMAIN expense /\ SameSplit(expense'[e], expense[e])
         \/ e \notin DOMAIN expense /\ IsSplit(expense'[e])
         \/ \E r \in Requests : CommitEdit(r) /\ e = req[r].id
<1>0. expense \in Seq(ExpenseRow)
  BY DEF MoneyInv, RowsOK
<1>1. CASE UNCHANGED expense
  BY <1>1 DEF SameSplit
<1>2. ASSUME NEW r \in Requests, CommitCreate(r)
      PROVE  \/ e \in DOMAIN expense /\ SameSplit(expense'[e], expense[e])
             \/ e \notin DOMAIN expense /\ IsSplit(expense'[e])
  <2>1. PICK share \in Splits(req[r].cost) :
          expense' = Append(expense, [payer |-> req[r].payer, amount |-> req[r].cost.amount,
                       rent |-> req[r].cost.rent, weights |-> req[r].cost.weights,
                       share |-> share, status |-> "confirmed"])
    BY <1>2 DEF CommitCreate
  <2> DEFINE x == [payer |-> req[r].payer, amount |-> req[r].cost.amount,
                   rent |-> req[r].cost.rent, weights |-> req[r].cost.weights,
                   share |-> share, status |-> "confirmed"]
  <2>2. IsSplit(x)
    BY <2>1 DEF IsSplit, Splits
  <2> HIDE DEF x
  <2>3. expense' = Append(expense, x)
    BY <2>1 DEF x
  <2>4. \/ e \in DOMAIN expense /\ expense'[e] = expense[e]
        \/ e \notin DOMAIN expense /\ expense'[e] = x
    BY <1>0, <2>3, Appended
  <2> QED
    BY <2>2, <2>4 DEF SameSplit
<1>3. ASSUME NEW r \in Requests, CommitVoid(r)
      PROVE  e \in DOMAIN expense /\ SameSplit(expense'[e], expense[e])
  <2> DEFINE x == [expense[req[r].id] EXCEPT !.status = "void"]
  <2>1. expense' = [expense EXCEPT ![req[r].id] = x]
    BY <1>3 DEF CommitVoid
  <2>2. req[r].id \in DOMAIN expense
    BY <1>3 DEF CommitVoid, Finish, MoneyInv, RequestsOK, RequestOK
  <2>3. SameSplit(x, expense[req[r].id])
    <3>1. expense[req[r].id] \in ExpenseRow
      BY <1>0, <2>2
    <3> QED
      BY <3>1 DEF SameSplit, ExpenseRow
  <2> HIDE DEF x
  <2>4. e \in DOMAIN expense /\ expense'[e] = IF e = req[r].id THEN x ELSE expense[e]
    BY <2>1
  <2> QED
    BY <2>3, <2>4 DEF SameSplit
<1>4. ASSUME NEW r \in Requests, CommitEdit(r)
      PROVE  \/ e \in DOMAIN expense /\ SameSplit(expense'[e], expense[e])
             \/ e = req[r].id
  <2>1. PICK x : expense' = [expense EXCEPT ![req[r].id] = x]
    BY <1>4, EditIs
  <2>2. e \in DOMAIN expense /\ (e # req[r].id => expense'[e] = expense[e])
    BY <2>1
  <2> QED
    BY <2>2 DEF SameSplit
<1>5. ASSUME NEW r \in Requests,
             \/ LoadCreate(r) \/ LoadRent(r) \/ LoadEdit(r) \/ LoadVoid(r) \/ LoadPay(r)
             \/ LoadClose(r) \/ LoadSettle(r) \/ LoadCancel(r)
      PROVE  UNCHANGED expense
  BY <1>5 DEF LoadCreate, LoadRent, LoadEdit, LoadVoid, LoadPay, LoadClose, LoadSettle, LoadCancel,
     Load, rows
<1>6. ASSUME NEW r \in Requests,
             CommitPay(r) \/ CommitClose(r) \/ CommitSettle(r) \/ CommitCancel(r) \/ Abandon(r)
      PROVE  UNCHANGED expense
  BY <1>6 DEF CommitPay, CommitClose, CommitSettle, CommitCancel, Abandon, rows
<1>7. CASE \E r \in Requests : Request(r)
  BY <1>1, <1>2, <1>3, <1>4, <1>5, <1>6, <1>7 DEF Request
<1> QED
  BY <1>1, <1>7 DEF Next, Age, ChangeRole, vars, rows

LEMMA SplitInductive == SplitInv /\ EditsApart /\ [Next]_vars => SplitInv'
<1> SUFFICES ASSUME SplitInv, EditsApart, [Next]_vars PROVE SplitInv'
  OBVIOUS
<1>0. MoneyInv /\ MoneyInv' /\ DOMAIN req = Requests
  BY MoneyInductive DEF SplitInv, MoneyInv, RequestsOK
\* An edit that ends finds the row as it read it.
<1>1. ASSUME NEW r \in Requests, CommitEdit(r)
      PROVE  IsSplit(expense'[req[r].id])
  <2> DEFINE q == req[r]
             e == q.id
  <2>1. /\ q.op = "edit" /\ CostOK(q.cost) /\ e \in DOMAIN expense
        /\ \E share \in Splits(q.cost) : expense' = [expense EXCEPT ![e] = Edited(q, expense[e], share)]
    BY <1>0, <1>1, EditIs
  <2>2. PICK share \in Splits(q.cost) : expense' = [expense EXCEPT ![e] = Edited(q, expense[e], share)]
    BY <2>1
  <2>3. q.cached.amount = expense[e].amount /\ q.cached.weights = expense[e].weights
    BY <2>1 DEF SplitInv, EditsCurrent
  <2>4. expense[e] \in ExpenseRow
    BY <1>0, <2>1 DEF MoneyInv, RowsOK
  <2> HIDE DEF q, e
  <2> DEFINE x == Edited(q, expense[e], share)
  <2>5. /\ Written(expense[e], q.cached, q.cost, "amount") = q.cost.amount
        /\ Written(expense[e], q.cached, q.cost, "weights") = q.cost.weights
    BY <2>3 DEF Written
  <2>6. x.amount = q.cost.amount /\ x.weights = q.cost.weights /\ x.share = share
    BY <2>4, <2>5 DEF Edited, ExpenseRow
  <2> HIDE DEF x
  <2>7. IsSplit(x)
    BY <2>6 DEF IsSplit, Splits
  <2>8. expense'[e] = x
    BY <2>1, <2>2 DEF x
  <2> QED
    BY <2>7, <2>8 DEF e, q
<1>2. ASSUME NEW e \in DOMAIN expense' PROVE IsSplit(expense'[e])
  <2>1. CASE e \in DOMAIN expense /\ SameSplit(expense'[e], expense[e])
    BY <2>1 DEF SplitInv, SameSplit, IsSplit
  <2>2. CASE \E r \in Requests : CommitEdit(r) /\ e = req[r].id
    BY <1>1, <2>2
  <2> QED
    BY <1>0, <2>1, <2>2, ExpenseMoves
<1>3. EditsCurrent'
  <2> SUFFICES ASSUME NEW s \in Requests, req'[s].op = "edit"
               PROVE  /\ req'[s].cached.amount = expense'[req'[s].id].amount
                      /\ req'[s].cached.weights = expense'[req'[s].id].weights
    BY DEF EditsCurrent
  <2>1. CASE req'[s] = Idle
    BY <2>1 DEF Idle
  <2>2. CASE ReadsNow(s)
    BY <2>2 DEF ReadsNow, Read, rows
  <2>3. CASE req'[s] = req[s] /\ req'[s] # Idle
    <3> DEFINE e == req[s].id
    <3>1. /\ req[s].op = "edit" /\ req[s].cached.amount = expense[e].amount
          /\ req[s].cached.weights = expense[e].weights
      BY <2>3 DEF SplitInv, EditsCurrent
    <3>2. e \in DOMAIN expense /\ e \in DOMAIN expense'
      <4>1. e \in DOMAIN expense
        BY <1>0, <3>1 DEF MoneyInv, RequestsOK, RequestOK
      <4>2. req'[s].id \in DOMAIN expense'
        BY <1>0, <2>3 DEF MoneyInv, RequestsOK, RequestOK
      <4> QED
        BY <2>3, <4>1, <4>2
    <3>3. ~ \E r \in Requests : CommitEdit(r) /\ e = req[r].id
      <4> SUFFICES ASSUME NEW r \in Requests, CommitEdit(r), e = req[r].id PROVE FALSE
        OBVIOUS
      <4>1. req[r].op = "edit" /\ req'[r] = Idle
        BY <1>0 DEF CommitEdit, Finish
      <4>2. r # s
        BY <2>3, <4>1
      <4> QED
        BY <3>1, <4>1, <4>2 DEF EditsApart
    <3> HIDE DEF e
    <3>4. SameSplit(expense'[e], expense[e])
      BY <1>0, <3>2, <3>3, ExpenseMoves
    <3>5. req'[s].id = e
      BY <2>3 DEF e
    <3> QED
      BY <2>3, <3>1, <3>4, <3>5 DEF SameSplit
  <2> QED
    BY <1>0, <2>1, <2>2, <2>3, RequestReads
<1> QED
  BY <1>0, <1>2, <1>3 DEF SplitInv

\* The shares of an expense, whose weights are none of them negative, are
\* what it cost.
LEMMA PlainSplit ==
  ASSUME NEW x \in ExpenseRow, IsSplit(x), NonNegative(x.weights)
  PROVE  Total(x.share) = x.amount
<1> DEFINE D == DOMAIN x.weights
<1>1. /\ x.amount \in Nat /\ x.weights \in Weightings /\ Total(x.weights) > 0
      /\ x.share \in LargestRemainder(x.amount, x.weights)
  BY DEF ExpenseRow, Weights, IsSplit
<1>2. IsFiniteSet(D) /\ x.weights \in [D -> Int]
  BY <1>1, WeightingOf
<1>3. \A m \in D : x.weights[m] >= 0
  BY DEF NonNegative
<1> HIDE DEF D
<1>4. x.weights \in [D -> Nat]
  BY <1>2, <1>3
<1> QED
  BY <1>1, <1>2, <1>4, SplitAddsUp

LEMMA SharesFollow == SplitInv => SharesFollowWeights
<1> SUFFICES ASSUME SplitInv, NEW e \in DOMAIN expense
             PROVE  LET x == expense[e]
                        W == Total(x.weights) IN
                    /\ DOMAIN x.share = DOMAIN x.weights
                    /\ Total(x.share) >= x.amount
                    /\ NonNegative(x.weights) => Total(x.share) = x.amount
                    /\ \A m \in DOMAIN x.share :
                         LET off == x.share[m] * W - x.amount * x.weights[m] IN -W < off /\ off < W
  BY DEF SharesFollowWeights, Live
<1> DEFINE x == expense[e]
           D == DOMAIN x.weights
<1>0. x \in ExpenseRow /\ IsSplit(x)
  BY DEF SplitInv, MoneyInv, RowsOK
<1>1. /\ x.amount \in Nat /\ x.weights \in Weightings /\ Total(x.weights) > 0
      /\ x.share \in LargestRemainder(x.amount, x.weights)
  BY <1>0 DEF ExpenseRow, Weights, IsSplit
<1>2. IsFiniteSet(D) /\ x.weights \in [D -> Int]
  BY <1>1, WeightingOf
<1> HIDE DEF x, D
<1>3. x.share \in [D -> Int] /\ Total(x.share) >= x.amount
  BY <1>1, <1>2, SplitNeverShort
<1>4. NonNegative(x.weights) => Total(x.share) = x.amount
  BY <1>0, PlainSplit
<1>5. ASSUME NEW m \in D
      PROVE  LET W == Total(x.weights)
                 off == x.share[m] * W - x.amount * x.weights[m] IN -W < off /\ off < W
  BY <1>1, <1>2, SplitIsFair
<1>6. DOMAIN x.share = D
  BY <1>3
<1> QED
  BY <1>3, <1>4, <1>5, <1>6 DEF x, D

\* Every share is less than a rupee from the exact proportion of its weight
\* and the shares cover the amount; unless a percentage is negative they add
\* up to it, to the rupee (money.py, splits.py).  This holds after any edits,
\* as long as no two edits of one expense overlap.
THEOREM SharesAreFair == Spec /\ []EditsApart => []SharesFollowWeights
<1>1. Init => SplitInv
  BY MoneyInit DEF Init, SplitInv, EditsCurrent, Idle
<1> QED
  BY <1>1, SplitInductive, SharesFollow, PTL DEF Spec

-----------------------------------------------------------------------------
(* Transfers follow the plan.                                              *)

\* No two requests that pay or call off one transfer are in flight.
PaymentsApart ==
  \A r, s \in Requests :
    r # s /\ req[r].op \in {"settle", "cancel"} /\ req[s].op \in {"settle", "cancel"}
      => req[r].id # req[s].id

\* A payment or a call-off in flight has the row as it is, and it is open.
TransfersCurrent ==
  \A s \in Requests :
    /\ req[s].op = "settle" => req[s].cached = transfer[req[s].id]
    /\ req[s].op \in {"settle", "cancel"} => transfer[req[s].id].status = "proposed"

ShowsWhatWasPaid == \A t \in DOMAIN transfer : transfer[t].paid = received[t]

PlanInv == MoneyInv /\ ShowsWhatWasPaid /\ TransfersCurrent

\* What a step does to the transfers.
LEMMA TransferMoves ==
  ASSUME MoneyInv, [Next]_vars
  PROVE  \/ UNCHANGED <<transfer, received>>
         \/ \E r \in Requests : CommitClose(r) \/ CommitSettle(r) \/ CommitCancel(r)
<1>1. ASSUME NEW r \in Requests,
             \/ LoadCreate(r) \/ LoadRent(r) \/ LoadEdit(r) \/ LoadVoid(r) \/ LoadPay(r)
             \/ LoadClose(r) \/ LoadSettle(r) \/ LoadCancel(r)
      PROVE  UNCHANGED <<transfer, received>>
  BY <1>1 DEF LoadCreate, LoadRent, LoadEdit, LoadVoid, LoadPay, LoadClose, LoadSettle, LoadCancel,
     Load, rows
<1>2. ASSUME NEW r \in Requests,
             CommitCreate(r) \/ CommitEdit(r) \/ CommitVoid(r) \/ CommitPay(r) \/ Abandon(r)
      PROVE  UNCHANGED <<transfer, received>>
  BY <1>2 DEF CommitCreate, CommitEdit, CommitVoid, CommitPay, Abandon, rows
<1>3. CASE \E r \in Requests : Request(r)
  BY <1>1, <1>2, <1>3 DEF Request
<1> QED
  BY <1>3 DEF Next, Age, ChangeRole, vars, rows

LEMMA SettleIs ==
  ASSUME PlanInv, NEW r \in Requests, CommitSettle(r)
  PROVE  LET t == req[r].id
             paid == received[t] + req[r].amount IN
         /\ req[r].op = "settle" /\ t \in DOMAIN transfer
         /\ transfer[t].status = "proposed"
         /\ req[r].amount \in 1 .. transfer[t].amount - received[t]
         /\ transfer' = [transfer EXCEPT ![t] =
              [transfer[t] EXCEPT !.paid = paid,
                 !.status = IF paid = transfer[t].amount THEN "paid" ELSE "proposed"]]
         /\ received' = [received EXCEPT ![t] = paid]
<1> DEFINE q == req[r]
           t == q.id
<1>1. /\ q.op = "settle"
      /\ transfer' = [transfer EXCEPT ![t].paid = q.cached.paid + q.amount,
           ![t].status = IF q.cached.paid + q.amount = q.cached.amount THEN "paid" ELSE @]
      /\ received' = [received EXCEPT ![t] = @ + q.amount]
  BY DEF CommitSettle, Settle, Finish
<1>2. PaysFor(q, transfer, received)
  BY <1>1 DEF PlanInv, MoneyInv, RequestsOK, RequestOK
<1>3. /\ t \in DOMAIN transfer /\ q.amount \in Nat \ {0} /\ q.cached.paid + q.amount <= q.cached.amount
  BY <1>2 DEF PaysFor
<1>4. q.cached = transfer[t] /\ transfer[t].status = "proposed"
  BY <1>1 DEF PlanInv, TransfersCurrent
<1>5. transfer[t].paid = received[t]
  BY <1>3 DEF PlanInv, ShowsWhatWasPaid
<1>6. transfer[t] \in PlannedType /\ received[t] \in Nat /\ DOMAIN received = DOMAIN transfer
  BY <1>3 DEF PlanInv, MoneyInv, RowsOK
<1>7. transfer[t].amount \in Nat
  BY <1>6 DEF PlannedType
<1>8. /\ transfer' = [transfer EXCEPT ![t].paid = received[t] + q.amount,
           ![t].status = IF received[t] + q.amount = transfer[t].amount THEN "paid" ELSE @]
      /\ received' = [received EXCEPT ![t] = received[t] + q.amount]
  BY <1>1, <1>3, <1>4, <1>5, <1>6
<1> HIDE DEF q, t
<1>9. transfer' = [transfer EXCEPT ![t] =
        [transfer[t] EXCEPT !.paid = received[t] + q.amount,
           !.status = IF received[t] + q.amount = transfer[t].amount THEN "paid" ELSE "proposed"]]
  BY <1>3, <1>4, <1>8
<1>10. q.amount \in 1 .. transfer[t].amount - received[t]
  BY <1>3, <1>4, <1>5, <1>6, <1>7
<1> QED
  BY <1>1, <1>3, <1>4, <1>8, <1>9, <1>10 DEF q, t

LEMMA CancelIs ==
  ASSUME PlanInv, NEW r \in Requests, CommitCancel(r)
  PROVE  LET t == req[r].id IN
         /\ req[r].op = "cancel" /\ t \in DOMAIN transfer /\ transfer[t].status = "proposed"
         /\ transfer' = [transfer EXCEPT ![t] = [transfer[t] EXCEPT !.status = "cancelled"]]
         /\ received' = received
BY DEF CommitCancel, Finish, PlanInv, MoneyInv, RequestsOK, RequestOK, TransfersCurrent

\* Only the transfer a request is about changes, and it ends with that.
LEMMA OthersKeep ==
  ASSUME PlanInv, PaymentsApart, [Next]_vars, NEW s \in Requests,
         req[s].op \in {"settle", "cancel"}, req'[s] = req[s]
  PROVE  transfer'[req[s].id] = transfer[req[s].id]
<1> DEFINE t == req[s].id
<1>0. DOMAIN req = Requests /\ t \in DOMAIN transfer
  BY DEF PlanInv, MoneyInv, RequestsOK, RequestOK, PaysFor
<1>1. ASSUME NEW r \in Requests, CommitClose(r) PROVE transfer'[t] = transfer[t]
  BY <1>0, <1>1, CloseIs DEF PlanInv
<1>2. ASSUME NEW r \in Requests, CommitSettle(r) PROVE transfer'[t] = transfer[t]
  <2>1. PICK x : req[r].op = "settle" /\ transfer' = [transfer EXCEPT ![req[r].id] = x]
    BY <1>2, SettleIs
  <2>2. req'[r] = Idle
    BY <1>0, <1>2 DEF CommitSettle, Finish
  <2>3. r # s
    BY <2>2 DEF Idle
  <2>4. req[r].id # t
    BY <2>1, <2>3 DEF PaymentsApart
  <2> QED
    BY <1>0, <2>1, <2>4
<1>3. ASSUME NEW r \in Requests, CommitCancel(r) PROVE transfer'[t] = transfer[t]
  <2>1. PICK x : req[r].op = "cancel" /\ transfer' = [transfer EXCEPT ![req[r].id] = x]
    BY <1>3, CancelIs
  <2>2. req'[r] = Idle
    BY <1>0, <1>3 DEF CommitCancel, Finish
  <2>3. r # s
    BY <2>2 DEF Idle
  <2>4. req[r].id # t
    BY <2>1, <2>3 DEF PaymentsApart
  <2> QED
    BY <1>0, <2>1, <2>4
<1> QED
  BY <1>1, <1>2, <1>3, TransferMoves DEF PlanInv

LEMMA PlanInductive == PlanInv /\ PaymentsApart /\ [Next]_vars => PlanInv'
<1> SUFFICES ASSUME PlanInv, PaymentsApart, [Next]_vars PROVE PlanInv'
  OBVIOUS
<1>0. /\ MoneyInv /\ MoneyInv' /\ DOMAIN req = Requests
      /\ DOMAIN received = DOMAIN transfer
  <2>1. MoneyInv /\ MoneyInv'
    BY MoneyInductive DEF PlanInv
  <2>2. received \in Seq(Nat) /\ transfer \in Seq(PlannedType) /\ Len(received) = Len(transfer)
    BY <2>1 DEF MoneyInv, RowsOK
  <2> QED
    BY <2>1, <2>2 DEF MoneyInv, RequestsOK
<1>1. ShowsWhatWasPaid'
  <2>1. ASSUME NEW r \in Requests, CommitClose(r), NEW t \in DOMAIN transfer'
        PROVE  transfer'[t].paid = received'[t]
    <3>1. CASE t \in DOMAIN transfer
      BY <1>0, <2>1, <3>1, CloseIs DEF PlanInv, ShowsWhatWasPaid
    <3>2. CASE t \notin DOMAIN transfer
      <4>1. PICK move : transfer'[t] = Fresh(move) /\ received'[t] = 0
        BY <1>0, <2>1, <3>2, CloseIs
      <4> QED
        BY <4>1 DEF Fresh
    <3> QED
      BY <3>1, <3>2
  <2>2. ASSUME NEW r \in Requests, CommitSettle(r), NEW t \in DOMAIN transfer'
        PROVE  transfer'[t].paid = received'[t]
    <3> DEFINE u == req[r].id
               paid == received[u] + req[r].amount
               row == [transfer[u] EXCEPT !.paid = paid,
                         !.status = IF paid = transfer[u].amount THEN "paid" ELSE "proposed"]
    <3>1. /\ u \in DOMAIN transfer /\ transfer' = [transfer EXCEPT ![u] = row]
          /\ received' = [received EXCEPT ![u] = paid]
      BY <2>2, SettleIs
    <3>2. row.paid = paid
      <4>1. transfer[u] \in PlannedType
        BY <1>0, <3>1 DEF MoneyInv, RowsOK
      <4> QED
        BY <4>1 DEF PlannedType
    <3> HIDE DEF row, paid, u
    <3> QED
      BY <1>0, <2>2, <3>1, <3>2 DEF PlanInv, ShowsWhatWasPaid
  <2>3. ASSUME NEW r \in Requests, CommitCancel(r), NEW t \in DOMAIN transfer'
        PROVE  transfer'[t].paid = received'[t]
    <3> DEFINE u == req[r].id
               row == [transfer[u] EXCEPT !.status = "cancelled"]
    <3>1. u \in DOMAIN transfer /\ transfer' = [transfer EXCEPT ![u] = row] /\ received' = received
      BY <2>3, CancelIs
    <3>2. row.paid = transfer[u].paid
      OBVIOUS
    <3> HIDE DEF row, u
    <3> QED
      BY <1>0, <2>3, <3>1, <3>2 DEF PlanInv, ShowsWhatWasPaid
  <2> QED
    BY <1>0, <2>1, <2>2, <2>3, TransferMoves DEF PlanInv, ShowsWhatWasPaid
<1>2. TransfersCurrent'
  <2> SUFFICES ASSUME NEW s \in Requests
               PROVE  /\ req'[s].op = "settle" => req'[s].cached = transfer'[req'[s].id]
                      /\ req'[s].op \in {"settle", "cancel"} => transfer'[req'[s].id].status = "proposed"
    BY DEF TransfersCurrent
  <2>1. CASE req'[s] = Idle
    BY <2>1 DEF Idle
  <2>2. CASE ReadsNow(s)
    BY <2>2 DEF ReadsNow, Read, rows
  <2>3. CASE req'[s] = req[s]
    BY <2>3, OthersKeep DEF PlanInv, TransfersCurrent
  <2> QED
    BY <1>0, <2>1, <2>2, <2>3, RequestReads
<1> QED
  BY <1>0, <1>1, <1>2 DEF PlanInv

\* The transfers as the plan shows them.
Shown(tr) ==
  [t \in DOMAIN tr |-> [amount |-> tr[t].amount, paid |-> tr[t].paid, status |-> tr[t].status]]

ShownType == [amount : Nat \ {0}, paid : Nat, status : {"proposed", "paid", "cancelled"}]

LEMMA ShownIs ==
  ASSUME NEW tr \in Seq(PlannedType)
  PROVE  /\ Shown(tr) \in Seq(ShownType) /\ Len(Shown(tr)) = Len(tr) /\ DOMAIN Shown(tr) = DOMAIN tr
         /\ \A t \in DOMAIN tr : /\ Shown(tr)[t].amount = tr[t].amount
                                 /\ Shown(tr)[t].paid = tr[t].paid
                                 /\ Shown(tr)[t].status = tr[t].status
<1>1. DOMAIN tr = 1 .. Len(tr) /\ Len(tr) \in Nat
  OBVIOUS
<1>2. ASSUME NEW t \in DOMAIN tr
      PROVE  [amount |-> tr[t].amount, paid |-> tr[t].paid, status |-> tr[t].status] \in ShownType
  <2>1. tr[t] \in PlannedType
    OBVIOUS
  <2> QED
    BY <2>1 DEF PlannedType, ShownType
<1>3. Shown(tr) \in [1 .. Len(tr) -> ShownType]
  BY <1>1, <1>2 DEF Shown
<1>4. Shown(tr) \in Seq(ShownType) /\ Len(Shown(tr)) = Len(tr) /\ DOMAIN Shown(tr) = DOMAIN tr
  BY <1>1, <1>3
<1> QED
  BY <1>4 DEF Shown

\* A list that begins as another one has it as its first part.
LEMMA FirstPart ==
  ASSUME NEW R, NEW a \in Seq(R), NEW b \in Seq(R), Len(a) <= Len(b),
         \A i \in DOMAIN a : b[i] = a[i]
  PROVE  a = SubSeq(b, 1, Len(a))
OBVIOUS

LEMMA CloseProposes ==
  ASSUME PlanInv, PlanInv', NEW r \in Requests, CommitClose(r), req[r].plan # <<>>
  PROVE  Plan!Propose
<1> DEFINE p == Shown(transfer)
           q == Shown(transfer')
           n == Len(transfer)
           new == req[r].plan
<1>1. /\ transfer \in Seq(PlannedType) /\ received \in Seq(Nat) /\ Len(received) = n
      /\ transfer' \in Seq(PlannedType) /\ received' \in Seq(Nat) /\ Len(received') = Len(transfer')
  BY DEF PlanInv, MoneyInv, RowsOK
<1>2. /\ new \in Seq(TransferType) /\ new # <<>> /\ Len(transfer') = n + Len(new)
      /\ \A t \in DOMAIN transfer : transfer'[t] = transfer[t] /\ received'[t] = received[t]
      /\ \A t \in DOMAIN transfer' :
           \/ t \in DOMAIN transfer
           \/ t - n \in DOMAIN new /\ transfer'[t] = Fresh(new[t - n]) /\ received'[t] = 0
  BY CloseIs DEF PlanInv
<1>3. /\ p \in Seq(ShownType) /\ Len(p) = n /\ DOMAIN p = DOMAIN transfer
      /\ q \in Seq(ShownType) /\ Len(q) = Len(transfer') /\ DOMAIN q = DOMAIN transfer'
      /\ \A t \in DOMAIN transfer' : /\ q[t].amount = transfer'[t].amount
                                     /\ q[t].paid = transfer'[t].paid
                                     /\ q[t].status = transfer'[t].status
  BY <1>1, ShownIs
<1>4. \A t \in DOMAIN transfer : q[t] = p[t]
  <2> SUFFICES ASSUME NEW t \in DOMAIN transfer PROVE q[t] = p[t]
    OBVIOUS
  <2>1. t \in DOMAIN transfer' /\ transfer'[t] = transfer[t]
    BY <1>1, <1>2
  <2> QED
    BY <2>1 DEF Shown
<1> HIDE DEF p, q, n, new
<1>5. n \in Nat /\ Len(new) \in Nat \ {0}
  BY <1>1, <1>2 DEF n
<1>6. Len(q) > Len(p) /\ Len(received') = Len(q)
  BY <1>1, <1>2, <1>3, <1>5
<1>7. p = SubSeq(q, 1, Len(p))
  <2>1. p \in Seq(ShownType) /\ q \in Seq(ShownType) /\ \A t \in DOMAIN p : q[t] = p[t]
    BY <1>3, <1>4
  <2>2. Len(p) <= Len(q)
    BY <1>6, <2>1
  <2> QED
    BY <2>1, <2>2, FirstPart
<1>8. received = SubSeq(received', 1, Len(p))
  <2>1. Len(received) <= Len(received') /\ DOMAIN received = DOMAIN transfer
    BY <1>1, <1>2, <1>5 DEF n
  <2>2. received = SubSeq(received', 1, Len(received))
    BY <1>1, <1>2, <2>1, FirstPart
  <2> QED
    BY <1>1, <1>3, <2>2
<1>9. ASSUME NEW t \in (Len(p) + 1) .. Len(q)
      PROVE  /\ q[t] = [amount |-> q[t].amount, paid |-> 0, status |-> "proposed"]
             /\ q[t].amount > 0 /\ received'[t] = 0
  <2>1. t \in DOMAIN transfer' /\ t \notin DOMAIN transfer
    BY <1>1, <1>3, <1>5 DEF n
  <2>2. t - n \in DOMAIN new /\ transfer'[t] = Fresh(new[t - n]) /\ received'[t] = 0
    BY <1>2, <2>1
  <2>3. q[t] \in ShownType /\ q[t].paid = 0 /\ q[t].status = "proposed"
    BY <1>3, <2>1, <2>2 DEF Fresh
  <2> QED
    BY <2>2, <2>3 DEF ShownType
<1> QED
  BY <1>6, <1>7, <1>8, <1>9 DEF Plan!Propose, p, q, Shown

Updated(p, t, paid, status) == [p EXCEPT ![t].paid = paid, ![t].status = status]

LEMMA UpdatedIs ==
  ASSUME NEW p \in Seq(ShownType), NEW t \in DOMAIN p, NEW paid, NEW status
  PROVE  LET q == Updated(p, t, paid, status) IN
         /\ q = [u \in DOMAIN p |-> q[u]]
         /\ q[t] = [amount |-> p[t].amount, paid |-> paid, status |-> status]
         /\ \A u \in DOMAIN p : u # t => q[u] = p[u]
<1>1. p[t] \in ShownType
  OBVIOUS
<1>2. p[t] = [amount |-> p[t].amount, paid |-> p[t].paid, status |-> p[t].status]
  BY <1>1 DEF ShownType
<1>3. Updated(p, t, paid, status)[t] = [[p[t] EXCEPT !.paid = paid] EXCEPT !.status = status]
  BY DEF Updated
<1>4. [[p[t] EXCEPT !.paid = paid] EXCEPT !.status = status]
        = [amount |-> p[t].amount, paid |-> paid, status |-> status]
  <2> DEFINE x == p[t]
  <2>1. x = [amount |-> x.amount, paid |-> x.paid, status |-> x.status]
    BY <1>2
  <2> HIDE DEF x
  <2>2. [x EXCEPT !.paid = paid] = [amount |-> x.amount, paid |-> paid, status |-> x.status]
    BY <2>1
  <2> DEFINE y == [amount |-> x.amount, paid |-> paid, status |-> x.status]
  <2>3. [y EXCEPT !.status = status] = [amount |-> x.amount, paid |-> paid, status |-> status]
    OBVIOUS
  <2> HIDE DEF y
  <2> QED
    BY <2>2, <2>3 DEF x, y
<1> QED
  BY <1>3, <1>4 DEF Updated

\* One transfer's row changes: so does what the plan shows of it.
LEMMA ShownChanges ==
  ASSUME NEW tr \in Seq(PlannedType), NEW t \in DOMAIN tr, NEW row \in PlannedType,
         row.amount = tr[t].amount
  PROVE  Shown([tr EXCEPT ![t] = row]) = Updated(Shown(tr), t, row.paid, row.status)
<1> DEFINE new == [tr EXCEPT ![t] = row]
           a == Shown(tr)
           b == Updated(a, t, row.paid, row.status)
<1>1. new \in Seq(PlannedType) /\ DOMAIN new = DOMAIN tr
      /\ \A u \in DOMAIN tr : new[u] = IF u = t THEN row ELSE tr[u]
  BY SeqSet
<1>2. a \in Seq(ShownType) /\ DOMAIN a = DOMAIN tr /\ a[t].amount = tr[t].amount
  BY ShownIs
<1>3. /\ b = [u \in DOMAIN tr |-> b[u]]
      /\ b[t] = [amount |-> tr[t].amount, paid |-> row.paid, status |-> row.status]
      /\ \A u \in DOMAIN tr : u # t => b[u] = a[u]
  BY <1>2, UpdatedIs
<1> HIDE DEF b
<1>4. ASSUME NEW u \in DOMAIN tr PROVE Shown(new)[u] = b[u]
  <2>1. CASE u = t
    <3>1. Shown(new)[t] = [amount |-> row.amount, paid |-> row.paid, status |-> row.status]
      BY <1>1, <2>1 DEF Shown
    <3> QED
      BY <1>3, <2>1, <3>1
  <2>2. CASE u # t
    BY <1>1, <1>3, <2>2 DEF Shown
  <2> QED
    BY <2>1, <2>2
<1>5. Shown(new) = [u \in DOMAIN tr |-> Shown(new)[u]]
  BY <1>1 DEF Shown
<1> HIDE DEF a, new
<1>6. Shown(new) = b
  BY <1>3, <1>4, <1>5
<1> QED
  BY <1>6 DEF a, b, new

LEMMA SettlePays ==
  ASSUME PlanInv, NEW r \in Requests, CommitSettle(r)
  PROVE  \E t \in DOMAIN Shown(transfer) : Plan!Pay(t)
<1>0. PICK t : t = req[r].id
  OBVIOUS
<1> DEFINE part == req[r].amount
           paid == received[t] + part
           row == [transfer[t] EXCEPT !.paid = paid,
                     !.status = IF paid = transfer[t].amount THEN "paid" ELSE "proposed"]
           p == Shown(transfer)
           q == Shown(transfer')
<1>1. /\ t \in DOMAIN transfer /\ transfer[t].status = "proposed"
      /\ part \in 1 .. transfer[t].amount - received[t]
      /\ transfer' = [transfer EXCEPT ![t] = row]
      /\ received' = [received EXCEPT ![t] = paid]
  BY <1>0, SettleIs
<1>2. transfer \in Seq(PlannedType) /\ transfer[t] \in PlannedType /\ received[t] \in Nat
  BY <1>1 DEF PlanInv, MoneyInv, RowsOK
<1>3. /\ row \in PlannedType /\ row.amount = transfer[t].amount /\ row.paid = paid
      /\ row.status = IF paid = transfer[t].amount THEN "paid" ELSE "proposed"
  <2>1. paid \in Nat
    BY <1>1, <1>2 DEF PlannedType
  <2> HIDE DEF paid
  <2> QED
    BY <1>2, <2>1 DEF PlannedType
<1>4. /\ DOMAIN p = DOMAIN transfer /\ p[t].amount = transfer[t].amount
      /\ p[t].status = transfer[t].status
  BY <1>1, <1>2, ShownIs
<1> HIDE DEF row, p, part
<1>5. q = Updated(p, t, row.paid, row.status)
  <2>1. Shown([transfer EXCEPT ![t] = row]) = Updated(Shown(transfer), t, row.paid, row.status)
    BY <1>1, <1>2, <1>3, ShownChanges
  <2> QED
    BY <1>1, <2>1 DEF p
<1>6. q = [p EXCEPT ![t].paid = paid,
                    ![t].status = IF paid = p[t].amount THEN "paid" ELSE "proposed"]
  BY <1>3, <1>4, <1>5 DEF Updated
<1> HIDE DEF q
<1>7. Plan!Pay(t)
  <2>1. /\ p[t].status = "proposed"
        /\ \E i \in 1 .. (p[t].amount - received[t]) :
             LET new == received[t] + i IN
             /\ received' = [received EXCEPT ![t] = new]
             /\ q = [p EXCEPT ![t].paid = new,
                              ![t].status = IF new = p[t].amount THEN "paid" ELSE "proposed"]
    BY <1>1, <1>4, <1>6
  <2> QED
    BY <2>1, Zenon DEF Plan!Pay, p, q, Shown
<1>8. t \in DOMAIN Shown(transfer)
  BY <1>1, <1>4 DEF p
<1> QED
  BY <1>7, <1>8, Zenon

LEMMA CancelCancels ==
  ASSUME PlanInv, NEW r \in Requests, CommitCancel(r)
  PROVE  \E t \in DOMAIN Shown(transfer) : Plan!Cancel(t)
<1>0. PICK t : t = req[r].id
  OBVIOUS
<1> DEFINE row == [transfer[t] EXCEPT !.status = "cancelled"]
           p == Shown(transfer)
           q == Shown(transfer')
<1>1. /\ t \in DOMAIN transfer /\ transfer[t].status = "proposed"
      /\ transfer' = [transfer EXCEPT ![t] = row] /\ received' = received
  BY <1>0, CancelIs
<1>2. transfer \in Seq(PlannedType) /\ transfer[t] \in PlannedType
  BY <1>1 DEF PlanInv, MoneyInv, RowsOK
<1>3. /\ row \in PlannedType /\ row.amount = transfer[t].amount
      /\ row.paid = transfer[t].paid /\ row.status = "cancelled"
  BY <1>2 DEF PlannedType
<1>4. /\ p \in Seq(ShownType) /\ DOMAIN p = DOMAIN transfer /\ p[t].paid = transfer[t].paid
      /\ p[t].status = transfer[t].status
  BY <1>1, <1>2, ShownIs
<1> HIDE DEF row, p
<1>5. q = Updated(p, t, row.paid, row.status)
  <2>1. Shown([transfer EXCEPT ![t] = row]) = Updated(Shown(transfer), t, row.paid, row.status)
    BY <1>1, <1>2, <1>3, ShownChanges
  <2> QED
    BY <1>1, <2>1 DEF p
<1>6. q = [p EXCEPT ![t].status = "cancelled"]
  <2> DEFINE x == Updated(p, t, row.paid, row.status)
  <2>0. /\ x = [u \in DOMAIN p |-> x[u]] /\ \A u \in DOMAIN p : u # t => x[u] = p[u]
        /\ x[t] = [amount |-> p[t].amount, paid |-> row.paid, status |-> row.status]
    BY <1>1, <1>4, UpdatedIs
  <2> HIDE DEF x
  <2>1. q = [u \in DOMAIN p |-> q[u]] /\ \A u \in DOMAIN p : u # t => q[u] = p[u]
    BY <1>5, <2>0 DEF x
  <2>2. q[t] = [amount |-> p[t].amount, paid |-> p[t].paid, status |-> "cancelled"]
    BY <1>3, <1>4, <1>5, <2>0 DEF x
  <2>3. p[t] \in ShownType
    BY <1>1, <1>4
  <2>4. q[t] = [p[t] EXCEPT !.status = "cancelled"]
    BY <2>2, <2>3 DEF ShownType
  <2> HIDE DEF q
  <2> QED
    BY <1>1, <1>4, <2>1, <2>4
<1> HIDE DEF q
<1>7. Plan!Cancel(t)
  BY <1>1, <1>4, <1>6 DEF Plan!Cancel, p, q, Shown
<1>8. t \in DOMAIN Shown(transfer)
  BY <1>1, <1>4 DEF p
<1> QED
  BY <1>7, <1>8, Zenon

\* Every step proposes transfers, pays one, calls one off, or does nothing
\* that the plan shows.
LEMMA StepFollowsPlan ==
  ASSUME PlanInv, PlanInv', [Next]_vars
  PROVE  [Plan!Next]_<<Shown(transfer), received>>
<1>1. ASSUME NEW r \in Requests, CommitClose(r)
      PROVE  Plan!Propose \/ UNCHANGED <<transfer, received>>
  <2>1. CASE req[r].plan # <<>>
    BY <1>1, <2>1, CloseProposes
  <2>2. CASE req[r].plan = <<>>
    <3>1. transfer' = transfer \o <<>> /\ received' = received \o <<>>
      <4>1. DOMAIN req[r].plan = {}
        BY <2>2
      <4>2. \A f : [i \in {} |-> f] = <<>>
        OBVIOUS
      <4> QED
        BY <1>1, <4>1, <4>2 DEF CommitClose
    <3>2. transfer \in Seq(PlannedType) /\ received \in Seq(Nat)
      BY DEF PlanInv, MoneyInv, RowsOK
    <3> QED
      BY <3>1, <3>2
  <2> QED
    BY <2>1, <2>2
<1>2. ASSUME UNCHANGED <<transfer, received>>
      PROVE  UNCHANGED <<Shown(transfer), received>>
  BY <1>2 DEF Shown
<1>3. \/ UNCHANGED <<transfer, received>>
      \/ \E r \in Requests : CommitClose(r) \/ CommitSettle(r) \/ CommitCancel(r)
  BY TransferMoves DEF PlanInv
<1>4. ASSUME NEW r \in Requests, CommitSettle(r) PROVE Plan!Next
  BY <1>4, SettlePays, Zenon DEF Plan!Next, Shown
<1>5. ASSUME NEW r \in Requests, CommitCancel(r) PROVE Plan!Next
  BY <1>5, CancelCancels, Zenon DEF Plan!Next, Shown
<1> QED
  BY <1>1, <1>2, <1>3, <1>4, <1>5 DEF Plan!Next

\* As long as no two requests that pay or call off one transfer overlap,
\* transfers are paid off in instalments or called off, for good, and show
\* exactly what was recorded for them (settle_up.py), whatever else happens.
THEOREM TransfersFollowPlan == Spec /\ []PaymentsApart => FollowsPlan
<1>1. Init => PlanInv
  <2> SUFFICES ASSUME Init PROVE PlanInv
    OBVIOUS
  <2>1. MoneyInv
    BY MoneyInit
  <2> QED
    BY <2>1 DEF Init, PlanInv, ShowsWhatWasPaid, TransfersCurrent, Idle
<1>2. Init => Plan!Init
  BY DEF Init, Plan!Init
<1>3. PlanInv /\ PlanInv' /\ [Next]_vars => [Plan!Next]_<<Shown(transfer), received>>
  BY StepFollowsPlan
<1>4. [][Plan!Next]_<<Shown(transfer), received>> /\ Plan!Init => Plan!Spec
  BY PTL DEF Plan!Spec, Shown
<1> QED
  BY <1>1, <1>2, <1>3, <1>4, PlanInductive, PTL DEF Spec, FollowsPlan

-----------------------------------------------------------------------------
(* What the simplifier's plan settles.                                     *)

\* What transfer i of a plan brings m: paying lifts a balance.
Part(move, m) ==
  (IF move.from = m THEN move.amount ELSE 0) - (IF move.to = m THEN move.amount ELSE 0)

Flow(plan, m) == [i \in DOMAIN plan |-> Part(plan[i], m)]

\* A plan among the people of S that squares them all, in fewer transfers
\* than there are people with a balance.
Settles(S, net, plan) ==
  /\ plan \in Seq(TransferType)
  /\ \A i \in DOMAIN plan : plan[i].from \in S /\ plan[i].to \in S
  /\ \A m \in S : net[m] + Total(Flow(plan, m)) = 0
  /\ Unsettled(net) = {} => plan = <<>>
  /\ Unsettled(net) # {} => Len(plan) < Cardinality(Unsettled(net))

\* Balances of one sign that cancel out are all nothing.
LEMMA NobodyOwed ==
  ASSUME NEW S, IsFiniteSet(S), NEW net \in [S -> Int], Total(net) = 0,
         \A m \in S : net[m] >= 0
  PROVE  \A m \in S : net[m] = 0
<1> SUFFICES ASSUME NEW m \in S, net[m] > 0 PROVE FALSE
  OBVIOUS
<1> DEFINE rest == On(net, S \ {m})
<1>1. Total(net) = net[m] + Total(rest)
  BY TotalTakes
<1>2. rest \in [S \ {m} -> Nat] /\ IsFiniteSet(S \ {m})
  BY FS_Subset DEF On
<1> HIDE DEF rest
<1>3. Total(rest) \in Nat /\ net[m] \in Int
  BY <1>2, TotalNat
<1> QED
  BY <1>1, <1>3

LEMMA SquaredMeansSettled ==
  ASSUME NEW S, IsFiniteSet(S), NEW net \in [S -> Int], Total(net) = 0, Squared(net)
  PROVE  \A m \in S : net[m] = 0
<1>1. CASE Debtors(net) = {}
  <2>1. \A m \in S : net[m] >= 0
    BY <1>1 DEF Debtors
  <2> QED
    BY <2>1, NobodyOwed
<1>2. CASE Creditors(net) = {}
  <2> DEFINE neg == [m \in S |-> -net[m]]
  <2>0. PICK k \in Int : k = 0 - 1
    OBVIOUS
  <2>1. neg \in [S -> Int] /\ \A m \in S : neg[m] = k * net[m]
    <3>1. \A m \in S : net[m] \in Int /\ -net[m] \in Int /\ -net[m] = k * net[m]
      BY <2>0
    <3> QED
      BY <3>1
  <2>2. \A m \in S : neg[m] >= 0
    BY <1>2 DEF Creditors
  <2> HIDE DEF neg
  <2>3. Total(neg) = k * Total(net)
    BY <2>1, TotalTimes
  <2>4. Total(neg) = 0
    BY <2>0, <2>3
  <2>5. \A m \in S : neg[m] = 0
    BY <2>1, <2>2, <2>4, NobodyOwed
  <2> QED
    <3>1. \A m \in S : net[m] \in Int
      OBVIOUS
    <3> QED
      BY <2>0, <2>1, <2>5, <3>1
<1> QED
  BY <1>1, <1>2 DEF Squared

\* A transfer changes what two people owe, not what all owe together.
LEMMA AfterTotal ==
  ASSUME NEW S \in SUBSET Members, NEW net \in [S -> Int], ~Squared(net)
  PROVE  Total(After(net)) = Total(net)
<1> DEFINE d == Pays(net)
           c == Gets(net)
           a == Amount(net)
           next == After(net)
           half == [net EXCEPT ![d] = @ + a]
<1>1. /\ d \in S /\ c \in S /\ d # c /\ a \in Nat /\ next \in [S -> Int]
      /\ \A m \in S : next[m] = IF m = d THEN net[d] + a ELSE IF m = c THEN net[c] - a ELSE net[m]
  BY MoveIs
<1>2. IsFiniteSet(S)
  BY MembersAssumption, FS_Subset
<1> HIDE DEF d, c, a, next
<1>3. half \in [S -> Int] /\ \A m \in S : half[m] = IF m = d THEN net[m] + a ELSE net[m]
  BY <1>1
<1> HIDE DEF half
<1>4. IsChanged(half, net, d, a, S)
  BY <1>1, <1>3 DEF IsChanged
<1>5. IsChanged(next, half, c, -a, S)
  BY <1>1, <1>3 DEF IsChanged
<1>6. Total(half) = Total(net) + a
  BY <1>2, <1>4, TotalChanged
<1>7. Total(next) = Total(half) + -a
  BY <1>2, <1>5, TotalChanged
<1>8. Total(net) \in Int
  BY <1>2, TotalInt
<1>9. Total(next) = Total(net)
  BY <1>1, <1>6, <1>7, <1>8
<1> QED
  BY <1>9 DEF next

\* One transfer put before a plan.
LEMMA FlowPrepended ==
  ASSUME NEW move \in TransferType, NEW plan \in Seq(TransferType), NEW m
  PROVE  Total(Flow(<<move>> \o plan, m)) = Part(move, m) + Total(Flow(plan, m))
<1> DEFINE all == <<move>> \o plan
           n == Len(plan)
           h == Flow(all, m)
           f == Flow(plan, m)
<1>1. /\ n \in Nat /\ DOMAIN plan = 1 .. n /\ all \in Seq(TransferType) /\ DOMAIN all = 1 .. n + 1
      /\ all[1] = move /\ \A i \in 1 .. n : all[i + 1] = plan[i]
  OBVIOUS
<1> HIDE DEF all, n
<1>2. \A t \in TransferType : Part(t, m) \in Int
  BY DEF Part, TransferType
<1>3. f \in [1 .. n -> Int] /\ \A i \in 1 .. n : f[i] = Part(plan[i], m)
  BY <1>1, <1>2 DEF Flow
<1>4. h \in [1 .. n + 1 -> Int] /\ \A i \in 1 .. n + 1 : h[i] = Part(all[i], m)
  BY <1>1, <1>2 DEF Flow
<1> HIDE DEF h, f
<1>5. \A i \in 1 .. n : i + 1 \in 1 .. n + 1 /\ h[i + 1] = f[i]
  BY <1>1, <1>3, <1>4
<1>6. IsPrepended(h, f, n)
  BY <1>1, <1>3, <1>4, <1>5 DEF IsPrepended
<1>7. Total(h) = h[1] + Total(f)
  BY <1>6, TotalPrepended
<1>8. h[1] = Part(move, m)
  BY <1>1, <1>4
<1> QED
  BY <1>7, <1>8 DEF h, f, all

LEMMA NothingFlows ==
  ASSUME NEW plan \in Seq(TransferType), NEW m, \A i \in DOMAIN plan : plan[i].from # m /\ plan[i].to # m
  PROVE  Total(Flow(plan, m)) = 0
<1> DEFINE f == Flow(plan, m)
<1>1. IsFiniteSet(DOMAIN plan)
  BY FS_Interval
<1>2. f \in [DOMAIN plan -> Int] /\ \A i \in DOMAIN plan : f[i] = 0
  BY DEF Flow, Part
<1> HIDE DEF f
<1>3. Total(f) = 0
  BY <1>1, <1>2, TotalZero
<1> QED
  BY <1>3 DEF f

\* A transfer, and a plan that settles what is left after it.
LEMMA MoveSettles ==
  ASSUME NEW S \in SUBSET Members, NEW net \in [S -> Int], ~Squared(net), NEW plan,
         Settles(S, After(net), plan)
  PROVE  Settles(S, net, <<Move(net)>> \o plan)
<1> DEFINE d == Pays(net)
           c == Gets(net)
           a == Amount(net)
           next == After(net)
           move == Move(net)
           all == <<move>> \o plan
           U == Unsettled(net)
           V == Unsettled(next)
<1>1. /\ d \in S /\ c \in S /\ d # c /\ net[d] < 0 /\ net[c] > 0 /\ a \in Nat \ {0}
      /\ next \in [S -> Int]
      /\ \A m \in S : next[m] = IF m = d THEN net[d] + a ELSE IF m = c THEN net[c] - a ELSE net[m]
  BY MoveIs
<1>2. move \in TransferType /\ move.from = d /\ move.to = c /\ move.amount = a
  BY MoveTyped DEF Move
<1>3. /\ plan \in Seq(TransferType) /\ \A i \in DOMAIN plan : plan[i].from \in S /\ plan[i].to \in S
      /\ \A m \in S : next[m] + Total(Flow(plan, m)) = 0
      /\ V = {} => plan = <<>>
      /\ V # {} => Len(plan) < Cardinality(V)
  BY DEF Settles
<1>4. /\ IsFiniteSet(U) /\ Cardinality(U) \in Nat /\ \A m \in S : m \in U <=> net[m] # 0
  BY UnsettledIs
<1>5. Cardinality(V) \in Nat /\ Cardinality(V) < Cardinality(U)
  BY <1>1, UnsettledIs, FewerUnsettled
<1> HIDE DEF d, c, a, next, move, U, V
<1>6. /\ all \in Seq(TransferType) /\ Len(all) = Len(plan) + 1
      /\ \A i \in DOMAIN all : all[i] = move \/ \E j \in DOMAIN plan : all[i] = plan[j]
  <2>1. all \in Seq(TransferType) /\ Len(all) = Len(plan) + 1 /\ DOMAIN all = 1 .. Len(plan) + 1
        /\ DOMAIN plan = 1 .. Len(plan) /\ Len(plan) \in Nat
    BY <1>2, <1>3
  <2>2. all[1] = move /\ \A i \in 2 .. Len(plan) + 1 : i - 1 \in 1 .. Len(plan) /\ all[i] = plan[i - 1]
    <3>1. <<move>> \in Seq(TransferType) /\ Len(<<move>>) = 1 /\ <<move>>[1] = move
      BY <1>2
    <3> QED
      BY <1>3, <3>1
  <2>3. ASSUME NEW i \in DOMAIN all
        PROVE  all[i] = move \/ \E j \in DOMAIN plan : all[i] = plan[j]
    <3>1. CASE i = 1
      BY <2>2, <3>1
    <3>2. CASE i # 1
      <4> HIDE DEF all
      <4>1. i \in 2 .. Len(plan) + 1
        BY <2>1, <3>2
      <4>2. i - 1 \in DOMAIN plan /\ all[i] = plan[i - 1]
        BY <2>1, <2>2, <4>1
      <4> QED
        BY <4>2
    <3> QED
      BY <3>1, <3>2
  <2> HIDE DEF all
  <2> QED
    BY <2>1, <2>3
<1>7. \A i \in DOMAIN all : all[i].from \in S /\ all[i].to \in S
  BY <1>1, <1>2, <1>3, <1>6
<1>8. ASSUME NEW m \in S PROVE net[m] + Total(Flow(all, m)) = 0
  <2>1. Total(Flow(all, m)) = Part(move, m) + Total(Flow(plan, m))
    BY <1>2, <1>3, FlowPrepended
  <2>2. Part(move, m) = IF m = d THEN a ELSE IF m = c THEN -a ELSE 0
    BY <1>1, <1>2 DEF Part
  <2>3. next[m] = net[m] + Part(move, m)
    BY <1>1, <2>2
  <2>4. next[m] + Total(Flow(plan, m)) = 0
    BY <1>3
  <2>5. net[m] \in Int /\ Part(move, m) \in Int /\ Total(Flow(plan, m)) \in Int
    <3> DEFINE f == Flow(plan, m)
    <3>1. IsFiniteSet(DOMAIN plan) /\ f \in [DOMAIN plan -> Int]
      <4>1. \A t \in TransferType : Part(t, m) \in Int
        BY DEF Part, TransferType
      <4>2. \A i \in DOMAIN plan : plan[i] \in TransferType
        BY <1>3
      <4> QED
        BY <1>3, <4>1, <4>2, FS_Interval DEF Flow
    <3> HIDE DEF f
    <3>2. Total(f) \in Int
      BY <3>1, TotalInt
    <3> QED
      BY <1>1, <2>2, <3>2 DEF f
  <2> QED
    BY <2>1, <2>3, <2>4, <2>5
<1>9. U # {} /\ Len(all) < Cardinality(U)
  <2>1. d \in U /\ c \in U
    BY <1>1, <1>4
  <2>2. CASE V = {}
    <3>1. Len(all) = 1
      BY <1>3, <1>6, <2>2
    <3>2. Cardinality(U \ {d}) = Cardinality(U) - 1 /\ IsFiniteSet(U \ {d})
      BY <1>4, <2>1, FS_RemoveElement
    <3>3. U \ {d} # {} /\ Cardinality(U \ {d}) \in Nat
      BY <1>1, <2>1, <3>2, FS_CardinalityType
    <3>4. Cardinality(U \ {d}) # 0
      BY <3>2, <3>3, FS_EmptySet
    <3> QED
      BY <1>4, <2>1, <3>1, <3>2, <3>3, <3>4
  <2>3. CASE V # {}
    <3>1. Len(plan) \in Nat
      BY <1>3
    <3> QED
      BY <1>3, <1>4, <1>5, <1>6, <2>1, <2>3, <3>1
  <2> QED
    BY <2>2, <2>3
<1>10. Settles(S, net, all)
  BY <1>6, <1>7, <1>8, <1>9 DEF Settles, U
<1> QED
  BY <1>10 DEF all, move

\* Whoever the balances are of: when they cancel out, the plan squares
\* everybody, in fewer transfers than people.
LEMMA PlanSettles ==
  ASSUME NEW S \in SUBSET Members, NEW nets \in [S -> Int], Total(nets) = 0
  PROVE  Settles(S, nets, PlanOf(S)[nets])
<1> DEFINE p == PlanOf(S)
           Bad == {net \in [S -> Int] : Total(net) = 0 /\ ~Settles(S, net, p[net])}
<1>0. IsFiniteSet(S)
  BY MembersAssumption, FS_Subset
<1>1. \A net \in [S -> Int] : p[net] = PlanStep(p, net)
  BY PlanOfIs
<1> HIDE DEF p
<1>2. Bad = {}
  <2> SUFFICES ASSUME Bad # {} PROVE FALSE
    OBVIOUS
  <2>1. PICK net \in Bad : ~Squared(net) => After(net) \notin Bad
    BY FewestUnsettled
  <2>2. net \in [S -> Int] /\ Total(net) = 0 /\ ~Settles(S, net, p[net])
    BY <2>1
  <2> HIDE DEF Bad
  <2>3. CASE Squared(net)
    <3>1. p[net] = <<>>
      BY <1>1, <2>2, <2>3 DEF PlanStep
    <3>2. \A m \in S : net[m] = 0
      BY <1>0, <2>2, <2>3, SquaredMeansSettled
    <3>3. Unsettled(net) = {}
      <4>1. /\ Unsettled(net) \in SUBSET S /\ \A m \in S : m \in Unsettled(net) <=> net[m] # 0
        BY <2>2, UnsettledIs
      <4> QED
        BY <3>2, <4>1
    <3> DEFINE none == p[net]
    <3>4. none \in Seq(TransferType) /\ DOMAIN none = {}
      BY <3>1
    <3> HIDE DEF none
    <3>5. \A m \in S : Total(Flow(none, m)) = 0
      BY <3>4, NothingFlows
    <3>6. Settles(S, net, none)
      BY <3>1, <3>2, <3>3, <3>4, <3>5 DEF Settles, none
    <3> QED
      BY <2>2, <3>6 DEF none
  <2>4. CASE ~Squared(net)
    <3>1. After(net) \in [S -> Int] /\ Total(After(net)) = 0
      BY <2>2, <2>4, MoveTyped, AfterTotal
    <3>2. Settles(S, After(net), p[After(net)])
      BY <2>1, <2>4, <3>1 DEF Bad
    <3>3. Settles(S, net, <<Move(net)>> \o p[After(net)])
      BY <2>2, <2>4, <3>2, MoveSettles
    <3>4. p[net] = <<Move(net)>> \o p[After(net)]
      BY <1>1, <2>2, <2>4 DEF PlanStep
    <3> QED
      BY <2>2, <3>3, <3>4
  <2> QED
    BY <2>3, <2>4
<1> QED
  BY <1>2 DEF p

-----------------------------------------------------------------------------
(* Closing squares the balances it was given.                              *)

\* While a close is in flight no request that moves a balance is.
ClosesApart ==
  \A r, s \in Requests :
    req[r].op = "close" => req[s].op \notin {"create", "edit", "void", "pay", "settle"}

\* The plan is the simplifier's, for the balances of some people as they are.
PlansFor(S, nets, plan) ==
  /\ nets \in [S -> Int] /\ Total(nets) = 0
  /\ plan = PlanOf(S)[nets]
  /\ \A m \in S : nets[m] = SettleNet(m)

PlansBalances(plan) == \E S \in SUBSET Members : \E nets \in [S -> Int] : PlansFor(S, nets, plan)

ClosesCurrent == \A s \in Requests : req[s].op = "close" => PlansBalances(req[s].plan)

CloseInv == MoneyInv /\ ClosesCurrent

\* Balances move only with what a request enters, edits, deletes or pays.
LEMMA BalanceMoves ==
  ASSUME MoneyInv, [Next]_vars
  PROVE  \/ UNCHANGED <<expense, sent>>
         \/ \E r \in Requests : req[r].op \in {"create", "edit", "void", "pay", "settle"}
<1>1. ASSUME NEW r \in Requests,
             \/ LoadCreate(r) \/ LoadRent(r) \/ LoadEdit(r) \/ LoadVoid(r) \/ LoadPay(r)
             \/ LoadClose(r) \/ LoadSettle(r) \/ LoadCancel(r)
      PROVE  UNCHANGED <<expense, sent>>
  BY <1>1 DEF LoadCreate, LoadRent, LoadEdit, LoadVoid, LoadPay, LoadClose, LoadSettle, LoadCancel,
     Load, rows
<1>2. ASSUME NEW r \in Requests, CommitClose(r) \/ CommitCancel(r) \/ Abandon(r)
      PROVE  UNCHANGED <<expense, sent>>
  BY <1>2 DEF CommitClose, CommitCancel, Abandon, rows
<1>3. ASSUME NEW r \in Requests,
             CommitCreate(r) \/ CommitEdit(r) \/ CommitVoid(r) \/ CommitPay(r) \/ CommitSettle(r)
      PROVE  req[r].op \in {"create", "edit", "void", "pay", "settle"}
  BY <1>3 DEF CommitCreate, CommitEdit, CommitVoid, CommitPay, CommitSettle, Finish
<1>4. CASE \E r \in Requests : Request(r)
  BY <1>1, <1>2, <1>3, <1>4 DEF Request
<1> QED
  BY <1>4 DEF Next, Age, ChangeRole, vars, rows

LEMMA BalancesSame ==
  ASSUME UNCHANGED <<expense, sent>>, NEW plan
  PROVE  PlansBalances(plan) => PlansBalances(plan)'
<1>1. \A m : SettleNet(m)' = SettleNet(m)
  BY DEF SettleNet, Fronted, Share, Live
<1> QED
  BY <1>1 DEF PlansBalances, PlansFor

\* A close reads the balances as they are.
LEMMA CloseReads ==
  ASSUME MoneyInv, Total(PeerNets) = 0, NEW plan, plan = Simplify(PeerNets)
  PROVE  PlansBalances(plan)
<1> DEFINE S == ActiveTenants
           nets == PeerNets
<1>1. S \in SUBSET Members /\ nets \in [S -> Int]
  BY BalancesTyped DEF MoneyInv
<1>2. Simplify(nets) = PlanOf(S)[nets]
  BY <1>1, SimplifyTyped
<1>3. \A m \in S : nets[m] = SettleNet(m)
  BY DEF PeerNets
<1>4. PlansFor(S, nets, plan)
  BY <1>1, <1>2, <1>3 DEF PlansFor
<1> HIDE DEF S, nets
<1> QED
  BY <1>1, <1>4 DEF PlansBalances

LEMMA CloseInductive == CloseInv /\ ClosesApart /\ [Next]_vars => CloseInv'
<1> SUFFICES ASSUME CloseInv, ClosesApart, [Next]_vars PROVE CloseInv'
  OBVIOUS
<1>0. MoneyInv /\ MoneyInv'
  BY MoneyInductive DEF CloseInv
<1>1. ASSUME NEW s \in Requests, req'[s].op = "close" PROVE PlansBalances(req[s].plan)'
  <2>0. PICK plan : plan = req'[s].plan
    OBVIOUS
  <2>1. PlansBalances(plan) /\ UNCHANGED <<expense, sent>>
    <3>1. CASE req'[s] = Idle
      BY <1>1, <3>1 DEF Idle
    <3>2. CASE ReadsNow(s)
      <4>1. Total(PeerNets) = 0 /\ plan = Simplify(PeerNets) /\ UNCHANGED <<expense, sent>>
        BY <1>1, <2>0, <3>2 DEF ReadsNow, Read, rows
      <4> QED
        BY <1>0, <4>1, CloseReads
    <3>3. CASE req'[s] = req[s]
      <4>1. req[s].op = "close" /\ plan = req[s].plan
        BY <1>1, <2>0, <3>3
      <4>2. PlansBalances(plan)
        BY <4>1 DEF CloseInv, ClosesCurrent
      <4>3. UNCHANGED <<expense, sent>>
        BY <1>0, <4>1, BalanceMoves DEF ClosesApart
      <4> QED
        BY <4>2, <4>3
    <3> QED
      BY <1>0, <3>1, <3>2, <3>3, RequestReads
  <2>2. PlansBalances(plan)'
    BY <2>1, BalancesSame
  <2> QED
    BY <2>0, <2>2 DEF PlansBalances, PlansFor
<1> QED
  BY <1>0, <1>1 DEF CloseInv, ClosesCurrent

\* The transfers a step proposes, those they mention, and what each of them is
\* to pay and to get.
Proposed == (Len(transfer) + 1) .. Len(transfer')
Parties  == UNION {{transfer'[t].from, transfer'[t].to} : t \in Proposed}
Due(m)   == Total([t \in {t \in Proposed : transfer'[t].from = m} |-> transfer'[t].amount])
Owed(m)  == Total([t \in {t \in Proposed : transfer'[t].to = m} |-> transfer'[t].amount])

Squares ==
  /\ \A m \in Parties : SettleNet(m) + Due(m) - Owed(m) = 0
  /\ Proposed # {} => Cardinality(Proposed) < Cardinality(Parties)

\* Only the transfers of T count.
Amounts(plan, T) == [i \in DOMAIN plan |-> IF i \in T THEN plan[i].amount ELSE 0]

LEMMA AmountsTyped ==
  ASSUME NEW plan \in Seq(TransferType), NEW T
  PROVE  /\ IsFiniteSet(DOMAIN plan) /\ DOMAIN plan = 1 .. Len(plan) /\ Len(plan) \in Nat
         /\ \A i \in DOMAIN plan : /\ plan[i].from \in Members /\ plan[i].to \in Members
                                   /\ plan[i].amount \in Nat
         /\ Amounts(plan, T) \in [DOMAIN plan -> Int]
         /\ Total(Amounts(plan, T)) \in Int
<1>1. IsFiniteSet(DOMAIN plan) /\ DOMAIN plan = 1 .. Len(plan) /\ Len(plan) \in Nat
  BY FS_Interval
<1>2. ASSUME NEW i \in DOMAIN plan
      PROVE  plan[i].from \in Members /\ plan[i].to \in Members /\ plan[i].amount \in Nat
  <2>1. plan[i] \in TransferType
    OBVIOUS
  <2> QED
    BY <2>1 DEF TransferType
<1>3. Amounts(plan, T) \in [DOMAIN plan -> Int]
  BY <1>2 DEF Amounts
<1> QED
  BY <1>1, <1>2, <1>3, TotalInt

LEMMA FlowIs ==
  ASSUME NEW plan \in Seq(TransferType), NEW m
  PROVE  Total(Flow(plan, m)) =
           Total(Amounts(plan, {i \in DOMAIN plan : plan[i].from = m}))
             - Total(Amounts(plan, {i \in DOMAIN plan : plan[i].to = m}))
<1> DEFINE D == DOMAIN plan
           T == {i \in D : plan[i].from = m}
           U == {i \in D : plan[i].to = m}
           out == Amounts(plan, T)
           in == Amounts(plan, U)
           f == Flow(plan, m)
<1>1. /\ IsFiniteSet(D) /\ out \in [D -> Int] /\ in \in [D -> Int]
      /\ Total(out) \in Int /\ Total(in) \in Int
      /\ \A i \in D : plan[i].amount \in Nat
  BY AmountsTyped
<1>2. f \in [D -> Int] /\ \A i \in D : out[i] = f[i] + in[i]
  <2>1. ASSUME NEW i \in D PROVE f[i] \in Int /\ out[i] = f[i] + in[i]
    <3>1. /\ f[i] = Part(plan[i], m)
          /\ out[i] = IF plan[i].from = m THEN plan[i].amount ELSE 0
          /\ in[i] = IF plan[i].to = m THEN plan[i].amount ELSE 0
      BY DEF Flow, Amounts
    <3>2. plan[i].amount \in Nat
      BY <1>1
    <3> HIDE DEF f, out, in
    <3> QED
      BY <3>1, <3>2 DEF Part
  <2>2. f = [i \in D |-> f[i]]
    BY DEF Flow
  <2> HIDE DEF f, out, in, D
  <2> QED
    BY <2>1, <2>2
<1> HIDE DEF f, out, in, D, T, U
<1>3. IsSum(out, f, in, D, D)
  BY <1>1, <1>2 DEF IsSum
<1>4. Total(out) = Total(f) + Total(in)
  BY <1>1, <1>3, TotalAdds
<1>5. Total(f) \in Int
  BY <1>1, <1>2, TotalInt
<1>6. Total(f) = Total(out) - Total(in)
  BY <1>1, <1>4, <1>5
<1> QED
  BY <1>6 DEF f, out, in, T, U, D

\* The sum over some transfers of a plan, k places further on.
LEMMA AmountsMoved ==
  ASSUME NEW plan \in Seq(TransferType), NEW T \in SUBSET DOMAIN plan, NEW k \in Int,
         NEW g \in [Moved(T, k) -> Int], \A i \in T : g[i + k] = plan[i].amount
  PROVE  Total(g) = Total(Amounts(plan, T))
<1> DEFINE D == DOMAIN plan
           f == [i \in T |-> plan[i].amount]
           all == Amounts(plan, T)
<1>1. /\ IsFiniteSet(D) /\ D \in SUBSET Int /\ all \in [D -> Int]
      /\ \A i \in D : plan[i].amount \in Int /\ all[i] = IF i \in T THEN plan[i].amount ELSE 0
  <2>1. /\ IsFiniteSet(D) /\ D = 1 .. Len(plan) /\ Len(plan) \in Nat /\ all \in [D -> Int]
        /\ \A i \in D : plan[i].amount \in Nat
    BY AmountsTyped
  <2>2. \A i \in D : all[i] = IF i \in T THEN plan[i].amount ELSE 0
    BY DEF Amounts
  <2> HIDE DEF D, all
  <2> QED
    BY <2>1, <2>2
<1>2. f \in [T -> Int] /\ (\A i \in T : f[i] = plan[i].amount) /\ T \in SUBSET D /\ IsFiniteSet(T)
  BY <1>1, FS_Subset
<1> HIDE DEF D, f, all
<1>3. IsFilled(all, f, T, D)
  BY <1>1, <1>2 DEF IsFilled
<1>4. Total(all) = Total(f)
  BY <1>1, <1>3, TotalWithout
<1>5. IsMoved(g, f, T, k)
  BY <1>1, <1>2 DEF IsMoved
<1>6. Total(g) = Total(f)
  BY <1>2, <1>5, TotalMoved
<1> QED
  BY <1>4, <1>6 DEF all

\* The transfers of U are those of T, n places further on.
IsPart(tr, U, plan, T, n) ==
  /\ T \in SUBSET DOMAIN plan /\ U \in SUBSET (n + 1 .. n + Len(plan))
  /\ \A t \in n + 1 .. n + Len(plan) : tr[t].amount = plan[t - n].amount /\ (t \in U <=> t - n \in T)

LEMMA ProposedPart ==
  ASSUME NEW plan \in Seq(TransferType), NEW n \in Nat, NEW T, NEW tr, NEW U,
         IsPart(tr, U, plan, T, n)
  PROVE  Total([t \in U |-> tr[t].amount]) = Total(Amounts(plan, T))
<1> DEFINE g == [t \in U |-> tr[t].amount]
           W == n + 1 .. n + Len(plan)
<1>0. /\ T \in SUBSET DOMAIN plan /\ U \in SUBSET W
      /\ \A t \in W : tr[t].amount = plan[t - n].amount /\ (t \in U <=> t - n \in T)
  BY DEF IsPart
<1>1. /\ DOMAIN plan = 1 .. Len(plan) /\ Len(plan) \in Nat
      /\ \A i \in DOMAIN plan : plan[i].amount \in Nat
  BY AmountsTyped
<1>2. \A t \in W : t \in Int /\ t - n \in DOMAIN plan
  BY <1>1
<1>3. \A i \in DOMAIN plan : i + n \in W /\ (i + n) - n = i
  BY <1>1
<1>4. \A t \in W : (t - n) + n = t
  BY <1>1
<1> HIDE DEF W
<1>5. U = Moved(T, n)
  <2>1. ASSUME NEW t \in U PROVE t \in Moved(T, n)
    <3>1. t \in W /\ t - n \in T
      BY <1>0
    <3>2. t = (t - n) + n
      BY <1>4, <3>1
    <3> QED
      BY <3>1, <3>2 DEF Moved
  <2>2. ASSUME NEW i \in T PROVE i + n \in U
    <3>1. i + n \in W /\ (i + n) - n \in T
      BY <1>0, <1>3
    <3> QED
      BY <1>0, <3>1
  <2> QED
    BY <2>1, <2>2 DEF Moved
<1>6. ASSUME NEW t \in U PROVE tr[t].amount = plan[t - n].amount /\ plan[t - n].amount \in Int
  <2>1. t \in W
    BY <1>0
  <2> QED
    BY <1>0, <1>1, <1>2, <2>1
<1>7. g \in [U -> Int]
  BY <1>6
<1>8. \A i \in T : g[i + n] = plan[i].amount
  BY <1>0, <1>3, <1>5, <1>6 DEF Moved
<1> HIDE DEF g
<1>9. Total(g) = Total(Amounts(plan, T))
  <2>1. n \in Int /\ g \in [Moved(T, n) -> Int]
    BY <1>5, <1>7
  <2> QED
    BY <1>0, <1>8, <2>1, AmountsMoved
<1> QED
  BY <1>9 DEF g

LEMMA CloseSquares ==
  ASSUME CloseInv, NEW r \in Requests, CommitClose(r)
  PROVE  Squares
<1> DEFINE n == Len(transfer)
           New(t) == transfer'[t]
<1>0. PICK plan : plan = req[r].plan
  OBVIOUS
<1>1. /\ req[r].op = "close" /\ plan \in Seq(TransferType) /\ Len(transfer') = n + Len(plan)
      /\ \A t \in DOMAIN transfer' :
           t \in DOMAIN transfer \/ (t - n \in DOMAIN plan /\ transfer'[t] = Fresh(plan[t - n]))
  BY <1>0, CloseIs DEF CloseInv
<1>2. /\ DOMAIN transfer = 1 .. n /\ n \in Nat /\ DOMAIN transfer' = 1 .. Len(transfer')
  <2>1. transfer \in Seq(PlannedType) /\ transfer' \in Seq(PlannedType)
    BY CloseIs DEF CloseInv, MoneyInv, RowsOK
  <2> QED
    BY <2>1
<1>3. PICK S \in SUBSET Members : \E nets \in [S -> Int] : PlansFor(S, nets, plan)
  BY <1>0, <1>1 DEF CloseInv, ClosesCurrent, PlansBalances
<1>4. PICK nets \in [S -> Int] : PlansFor(S, nets, plan)
  BY <1>3
<1>5. Settles(S, nets, plan) /\ \A m \in S : nets[m] = SettleNet(m)
  BY <1>4, PlanSettles DEF PlansFor
<1> DEFINE D == DOMAIN plan
<1>6. /\ IsFiniteSet(D) /\ D = 1 .. Len(plan) /\ Len(plan) \in Nat
      /\ \A i \in D : plan[i].from \in S /\ plan[i].to \in S
  BY <1>1, <1>5, AmountsTyped DEF Settles
<1>7. Proposed = n + 1 .. n + Len(plan)
  BY <1>1 DEF Proposed
<1> HIDE DEF n
<1>8. ASSUME NEW t \in Proposed
      PROVE  /\ t - n \in D /\ New(t).from = plan[t - n].from /\ New(t).to = plan[t - n].to
             /\ New(t).amount = plan[t - n].amount
  <2>1. t \in DOMAIN transfer' /\ t \notin DOMAIN transfer
    BY <1>1, <1>2, <1>6, <1>7
  <2> QED
    BY <1>1, <2>1 DEF Fresh
<1>9. ASSUME NEW i \in D PROVE i + n \in Proposed /\ (i + n) - n = i
  BY <1>2, <1>6, <1>7
<1>10. Parties \in SUBSET S
  BY <1>6, <1>8 DEF Parties
<1>14. PICK tr : tr = transfer'
  OBVIOUS
<1>11. ASSUME NEW m
      PROVE  /\ Due(m) \in Int /\ Owed(m) \in Int
             /\ Due(m) - Owed(m) = Total(Flow(plan, m))
  <2> DEFINE T == {i \in D : plan[i].from = m}
             U == {t \in Proposed : New(t).from = m}
             X == {i \in D : plan[i].to = m}
             Y == {t \in Proposed : New(t).to = m}
  <2>1. Due(m) = Total(Amounts(plan, T))
    <3>1. /\ T \in SUBSET D /\ U \in SUBSET Proposed
          /\ \A t \in Proposed : New(t).amount = plan[t - n].amount /\ (t \in U <=> t - n \in T)
      BY <1>8
    <3> HIDE DEF T, U
    <3>3. IsPart(tr, U, plan, T, n)
      BY <1>7, <1>14, <3>1 DEF IsPart
    <3>2. Total([t \in U |-> tr[t].amount]) = Total(Amounts(plan, T))
      BY <1>1, <1>2, <3>3, ProposedPart
    <3> QED
      BY <1>14, <3>2 DEF Due, U
  <2>2. Owed(m) = Total(Amounts(plan, X))
    <3>1. /\ X \in SUBSET D /\ Y \in SUBSET Proposed
          /\ \A t \in Proposed : New(t).amount = plan[t - n].amount /\ (t \in Y <=> t - n \in X)
      BY <1>8
    <3> HIDE DEF X, Y
    <3>3. IsPart(tr, Y, plan, X, n)
      BY <1>7, <1>14, <3>1 DEF IsPart
    <3>2. Total([t \in Y |-> tr[t].amount]) = Total(Amounts(plan, X))
      BY <1>1, <1>2, <3>3, ProposedPart
    <3> QED
      BY <1>14, <3>2 DEF Owed, Y
  <2> QED
    BY <1>1, <2>1, <2>2, FlowIs, AmountsTyped
<1>12. ASSUME NEW m \in Parties PROVE SettleNet(m) + Due(m) - Owed(m) = 0
  <2>1. m \in S /\ nets[m] + Total(Flow(plan, m)) = 0 /\ nets[m] = SettleNet(m)
    BY <1>5, <1>10 DEF Settles
  <2>2. SettleNet(m) \in Int
    BY <2>1, BalancesTyped DEF CloseInv, MoneyInv
  <2> QED
    BY <1>11, <2>1, <2>2
<1>13. ASSUME Proposed # {} PROVE Cardinality(Proposed) < Cardinality(Parties)
  <2> DEFINE V == Unsettled(nets)
  <2>1. Cardinality(Proposed) = Len(plan) /\ Len(plan) # 0
    <3> DEFINE a == n + 1
               b == n + Len(plan)
    <3>1. a \in Int /\ b \in Int /\ Proposed = a .. b /\ b - a + 1 = Len(plan)
      BY <1>2, <1>6, <1>7
    <3>2. a <= b
      <4>1. \E t \in Proposed : t \in Int /\ a <= t /\ t <= b
        BY <1>13, <3>1
      <4> HIDE DEF a, b
      <4> QED
        BY <3>1, <4>1
    <3>3. Len(plan) # 0
      BY <1>2, <1>6, <3>2
    <3> HIDE DEF a, b
    <3>4. Cardinality(a .. b) = IF a > b THEN 0 ELSE b - a + 1
      BY <3>1, FS_Interval
    <3> QED
      BY <3>1, <3>2, <3>3, <3>4
  <2>2. V # {} /\ Len(plan) < Cardinality(V)
    BY <1>5, <2>1 DEF Settles
  <2>3. /\ IsFiniteSet(S) /\ V \in SUBSET S /\ Cardinality(V) \in Nat
        /\ \A m \in S : m \in V <=> nets[m] # 0
    BY UnsettledIs
  <2> HIDE DEF V
  <2>4. ASSUME NEW m \in V PROVE m \in Parties
    <3> SUFFICES ASSUME m \notin Parties PROVE FALSE
      OBVIOUS
    <3>1. \A i \in D : plan[i].from # m /\ plan[i].to # m
      BY <1>8, <1>9 DEF Parties
    <3>2. Total(Flow(plan, m)) = 0
      BY <1>1, <3>1, NothingFlows
    <3>3. m \in S /\ nets[m] \in Int /\ nets[m] # 0 /\ nets[m] + Total(Flow(plan, m)) = 0
      BY <1>5, <2>3 DEF Settles
    <3> QED
      BY <3>2, <3>3
  <2>5. IsFiniteSet(Parties) /\ V \in SUBSET Parties
    BY <1>10, <2>3, <2>4, FS_Subset
  <2>6. Cardinality(V) <= Cardinality(Parties) /\ Cardinality(Parties) \in Nat
    BY <2>5, FS_Subset, FS_CardinalityType
  <2> QED
    BY <1>6, <2>1, <2>2, <2>3, <2>6
<1> QED
  BY <1>12, <1>13 DEF Squares

\* Only a close proposes transfers.
LEMMA OnlyClosesPropose ==
  ASSUME MoneyInv, [Next]_vars
  PROVE  Proposed = {} \/ \E r \in Requests : CommitClose(r)
<1>0. MoneyInv'
  BY MoneyInductive
<1>1. transfer \in Seq(PlannedType) /\ transfer' \in Seq(PlannedType)
  BY <1>0 DEF MoneyInv, RowsOK
<1>2. ASSUME DOMAIN transfer' = DOMAIN transfer PROVE Proposed = {}
  <2>1. Len(transfer') = Len(transfer) /\ Len(transfer) \in Nat
    BY <1>1, <1>2
  <2> QED
    BY <2>1 DEF Proposed
<1>3. ASSUME NEW r \in Requests, CommitSettle(r) \/ CommitCancel(r)
      PROVE  DOMAIN transfer' = DOMAIN transfer
  BY <1>3 DEF CommitSettle, CommitCancel, Settle
<1> QED
  BY <1>2, <1>3, TransferMoves

LEMMA StepSquares == CloseInv /\ [Next]_vars => [Squares]_vars
<1> SUFFICES ASSUME CloseInv, [Next]_vars PROVE Squares
  OBVIOUS
<1>1. CASE Proposed = {}
  BY <1>1 DEF Squares, Parties
<1>2. CASE \E r \in Requests : CommitClose(r)
  BY <1>2, CloseSquares
<1> QED
  BY <1>1, <1>2, OnlyClosesPropose DEF CloseInv

\* Paying the transfers a settle-up proposes squares everybody they mention,
\* and there are fewer of them than such people (domain/settle.py), whatever
\* was spent and paid, as long as nothing that moves a balance is in flight
\* with the close.
THEOREM ClosingSquares == Spec /\ []ClosesApart => SettleSquares
<1>1. Init => CloseInv
  BY MoneyInit DEF Init, CloseInv, ClosesCurrent, Idle
<1> QED
  BY <1>1, CloseInductive, StepSquares, PTL DEF Spec, SettleSquares, Squares, Proposed, Parties, Due, Owed

-----------------------------------------------------------------------------
(* What one is owed another owes: balances cancel out.                     *)

\* What one expense adds to the balance of m, and takes from it.
PaidFor(x, m) == IF x.status # "void" /\ x.payer = m THEN x.amount ELSE 0

UsedBy(x, m) == IF x.status # "void" /\ m \in DOMAIN x.share THEN x.share[m] ELSE 0

Spent(x) == IF x.status # "void" THEN x.amount ELSE 0

LEMMA PayerPays ==
  ASSUME NEW x \in ExpenseRow
  PROVE  /\ [m \in Members |-> PaidFor(x, m)] \in [Members -> Int]
         /\ Total([m \in Members |-> PaidFor(x, m)]) = Spent(x)
<1> DEFINE row == [m \in Members |-> PaidFor(x, m)]
           one == [m \in {x.payer} |-> Spent(x)]
<1>1. x.payer \in Members /\ x.amount \in Int
  BY DEF ExpenseRow
<1>2. row \in [Members -> Int] /\ one \in [{x.payer} -> Int] /\ one[x.payer] = Spent(x)
  BY <1>1 DEF PaidFor, Spent
<1>3. \A m \in Members : row[m] = IF m \in {x.payer} THEN one[m] ELSE 0
  BY DEF PaidFor, Spent
<1> HIDE DEF row, one
<1>4. IsFilled(row, one, {x.payer}, Members)
  BY <1>1, <1>2, <1>3 DEF IsFilled
<1>5. Total(row) = Total(one)
  BY <1>4, MembersAssumption, TotalWithout
<1>6. Total(one) = one[x.payer]
  BY <1>2, TotalSingle
<1> QED
  BY <1>2, <1>5, <1>6 DEF row

LEMMA SharersUse ==
  ASSUME NEW x \in ExpenseRow, IsSplit(x), x.status # "void" => NonNegative(x.weights)
  PROVE  /\ [m \in Members |-> UsedBy(x, m)] \in [Members -> Int]
         /\ Total([m \in Members |-> UsedBy(x, m)]) = Spent(x)
<1> DEFINE row  == [m \in Members |-> UsedBy(x, m)]
           D    == DOMAIN x.share
           zero == [m \in Members |-> 0]
<1>1. D \subseteq Members /\ x.share \in [D -> Int] /\ x.amount \in Int
  <2>1. x.share \in Allotments /\ x.amount \in Int
    BY DEF ExpenseRow
  <2> QED
    BY <2>1, AllotmentOf
<1>2. row \in [Members -> Int]
  BY <1>1 DEF UsedBy
<1>3. x.status # "void" => Total(x.share) = x.amount
  BY PlainSplit
<1>4. CASE x.status # "void"
  <2>1. \A m \in Members : row[m] = IF m \in D THEN x.share[m] ELSE 0
    BY <1>4 DEF UsedBy
  <2> HIDE DEF row, D
  <2>2. IsFilled(row, x.share, D, Members)
    BY <1>1, <1>2, <2>1 DEF IsFilled
  <2>3. Total(row) = Total(x.share)
    BY <2>2, MembersAssumption, TotalWithout
  <2> QED
    BY <1>2, <1>3, <1>4, <2>3 DEF row, Spent
<1>5. CASE x.status = "void"
  <2>1. \A m \in Members : row[m] = 0
    BY <1>5 DEF UsedBy
  <2> HIDE DEF row
  <2>2. Total(row) = 0
    BY <1>2, <2>1, MembersAssumption, TotalZero
  <2> QED
    BY <1>2, <1>5, <2>2 DEF row, Spent
<1> QED
  BY <1>4, <1>5

\* What everybody fronted, and what everybody used, is what was spent.
LEMMA FrontedAddsUp ==
  ASSUME RowsOK
  PROVE  /\ [m \in Members |-> Fronted(m)] \in [Members -> Int]
         /\ Total([m \in Members |-> Fronted(m)]) = Total([e \in DOMAIN expense |-> Spent(expense[e])])
<1> DEFINE D     == DOMAIN expense
           table == [e \in D |-> [m \in Members |-> PaidFor(expense[e], m)]]
<1>1. IsFiniteSet(D) /\ \A e \in D : expense[e] \in ExpenseRow
  <2>1. D = 1 .. Len(expense) /\ Len(expense) \in Nat
    BY DEF RowsOK
  <2>2. \A e \in D : expense[e] \in ExpenseRow
    BY DEF RowsOK
  <2> QED
    BY <2>1, <2>2, FS_Interval
<1>2. \A e \in D : table[e] \in [Members -> Int] /\ Total(table[e]) = Spent(expense[e])
  BY <1>1, PayerPays
<1>3. RowTotals(table, D) = [e \in D |-> Spent(expense[e])]
  BY <1>2 DEF RowTotals
<1>4. ASSUME NEW m \in Members PROVE Total(Column(table, D, m)) = Fronted(m)
  <2> DEFINE S == {e \in Live : expense[e].payer = m}
             f == [e \in S |-> expense[e].amount]
             g == Column(table, D, m)
  <2>1. S \subseteq D /\ f \in [S -> Int]
    <3>1. \A e \in S : e \in D /\ expense[e].amount \in Int
      BY <1>1 DEF Live, ExpenseRow
    <3> QED
      BY <3>1
  <2>2. \A e \in D : g[e] = IF e \in S THEN f[e] ELSE 0
    BY DEF Column, PaidFor, Live
  <2>3. g \in [D -> Int]
    BY <1>1, <1>2, MembersAssumption, TableTyped
  <2>4. Total(f) = Fronted(m)
    BY DEF Fronted
  <2> HIDE DEF S, f, g, D
  <2>5. IsFilled(g, f, S, D)
    BY <2>1, <2>2, <2>3 DEF IsFilled
  <2>6. Total(g) = Total(f)
    BY <1>1, <2>5, TotalWithout
  <2> QED
    BY <2>4, <2>6 DEF g
<1>5. ColumnTotals(table, D, Members) = [m \in Members |-> Fronted(m)]
  BY <1>4 DEF ColumnTotals
<1>6. ColumnTotals(table, D, Members) \in [Members -> Int]
  BY <1>1, <1>2, MembersAssumption, TableTyped
<1>7. Total(RowTotals(table, D)) = Total(ColumnTotals(table, D, Members))
  BY <1>1, <1>2, MembersAssumption, TotalSwap
<1> QED
  BY <1>3, <1>5, <1>6, <1>7

\* No live expense is split by a negative percentage.
NoneNegative == \A e \in Live : NonNegative(expense[e].weights)

LEMMA SharesAddUp ==
  ASSUME RowsOK, \A e \in DOMAIN expense : IsSplit(expense[e]), NoneNegative
  PROVE  /\ [m \in Members |-> Share(m)] \in [Members -> Int]
         /\ Total([m \in Members |-> Share(m)]) = Total([e \in DOMAIN expense |-> Spent(expense[e])])
<1> DEFINE D     == DOMAIN expense
           table == [e \in D |-> [m \in Members |-> UsedBy(expense[e], m)]]
<1>1. IsFiniteSet(D) /\ \A e \in D : expense[e] \in ExpenseRow
  <2>1. D = 1 .. Len(expense) /\ Len(expense) \in Nat
    BY DEF RowsOK
  <2>2. \A e \in D : expense[e] \in ExpenseRow
    BY DEF RowsOK
  <2> QED
    BY <2>1, <2>2, FS_Interval
<1>2. \A e \in D : table[e] \in [Members -> Int] /\ Total(table[e]) = Spent(expense[e])
  <2>1. \A e \in D : expense[e].status # "void" => NonNegative(expense[e].weights)
    BY DEF NoneNegative, Live
  <2> QED
    BY <1>1, <2>1, SharersUse
<1>3. RowTotals(table, D) = [e \in D |-> Spent(expense[e])]
  BY <1>2 DEF RowTotals
<1>4. ASSUME NEW m \in Members PROVE Total(Column(table, D, m)) = Share(m)
  <2> DEFINE S == {e \in Live : m \in DOMAIN expense[e].share}
             f == [e \in S |-> expense[e].share[m]]
             g == Column(table, D, m)
  <2>1. S \subseteq D
    BY DEF Live
  <2>2. \A e \in D : g[e] = IF e \in S THEN f[e] ELSE 0
    BY DEF Column, UsedBy, Live
  <2>3. g \in [D -> Int]
    BY <1>1, <1>2, MembersAssumption, TableTyped
  <2>4. f \in [S -> Int]
    <3>1. \A e \in S : f[e] = g[e]
      BY <2>1, <2>2
    <3> HIDE DEF g
    <3>2. \A e \in S : f[e] \in Int
      BY <2>1, <2>3, <3>1
    <3> QED
      BY <3>2
  <2>5. Total(f) = Share(m)
    BY DEF Share
  <2> HIDE DEF S, f, g, D
  <2>6. IsFilled(g, f, S, D)
    BY <2>1, <2>2, <2>3, <2>4 DEF IsFilled
  <2>7. Total(g) = Total(f)
    BY <1>1, <2>6, TotalWithout
  <2> QED
    BY <2>5, <2>7 DEF g
<1>5. ColumnTotals(table, D, Members) = [m \in Members |-> Share(m)]
  BY <1>4 DEF ColumnTotals
<1>6. ColumnTotals(table, D, Members) \in [Members -> Int]
  BY <1>1, <1>2, MembersAssumption, TableTyped
<1>7. Total(RowTotals(table, D)) = Total(ColumnTotals(table, D, Members))
  BY <1>1, <1>2, MembersAssumption, TotalSwap
<1> QED
  BY <1>3, <1>5, <1>6, <1>7

\* What everybody paid is what everybody was paid.
Paid(m) == Total(sent[m])

WasPaid(m) == Total([n \in Members |-> sent[n][m]])

LEMMA PaymentsAddUp ==
  ASSUME RowsOK
  PROVE  /\ [m \in Members |-> Paid(m)] \in [Members -> Int]
         /\ [m \in Members |-> WasPaid(m)] \in [Members -> Int]
         /\ Total([m \in Members |-> Paid(m)]) = Total([m \in Members |-> WasPaid(m)])
<1>1. \A m \in Members : sent[m] \in [Members -> Int]
  BY DEF RowsOK
<1>2. RowTotals(sent, Members) \in [Members -> Int] /\ ColumnTotals(sent, Members, Members) \in [Members -> Int]
  BY <1>1, MembersAssumption, TableTyped
<1>3. Total(RowTotals(sent, Members)) = Total(ColumnTotals(sent, Members, Members))
  BY <1>1, MembersAssumption, TotalSwap
<1>4. RowTotals(sent, Members) = [m \in Members |-> Paid(m)]
  BY DEF RowTotals, Paid
<1>5. ColumnTotals(sent, Members, Members) = [m \in Members |-> WasPaid(m)]
  BY DEF ColumnTotals, Column, WasPaid
<1> QED
  BY <1>2, <1>3, <1>4, <1>5

\* The balances of all members, present and past.
Nets == [m \in Members |-> SettleNet(m)]

BalancesCancel == Total(Nets) = 0

LEMMA CancelOut ==
  ASSUME NEW D, IsFiniteSet(D), NEW net, NEW a \in [D -> Int], NEW b \in [D -> Int],
         NEW c \in [D -> Int], NEW d \in [D -> Int],
         Total(a) = Total(b), Total(c) = Total(d),
         net = [m \in D |-> a[m] - b[m] + c[m] - d[m]]
  PROVE  Total(net) = 0
<1> DEFINE gave == [m \in D |-> a[m] + c[m]]
           took == [m \in D |-> b[m] + d[m]]
<1>1. /\ net \in [D -> Int] /\ gave \in [D -> Int] /\ took \in [D -> Int]
      /\ \A m \in D : gave[m] = a[m] + c[m]
      /\ \A m \in D : took[m] = b[m] + d[m]
  OBVIOUS
<1>2. \A m \in D : gave[m] = net[m] + took[m]
  OBVIOUS
<1> HIDE DEF gave, took
<1>3. IsSum(gave, a, c, D, D) /\ IsSum(took, b, d, D, D) /\ IsSum(gave, net, took, D, D)
  BY <1>1, <1>2 DEF IsSum
<1>4. Total(gave) = Total(a) + Total(c)
  BY <1>3, TotalAdds
<1>5. Total(took) = Total(b) + Total(d)
  BY <1>3, TotalAdds
<1>6. Total(gave) = Total(net) + Total(took)
  BY <1>3, TotalAdds
<1>7. /\ Total(a) \in Int /\ Total(b) \in Int /\ Total(c) \in Int /\ Total(d) \in Int
      /\ Total(net) \in Int /\ Total(took) \in Int
  BY <1>1, TotalInt
<1>8. Total(gave) = Total(took)
  BY <1>4, <1>5
<1>9. \A n, t \in Int : t = n + t => n = 0
  OBVIOUS
<1> QED
  BY <1>6, <1>7, <1>8, <1>9, Zenon

LEMMA SplitsCancel == SplitInv /\ NoneNegative => BalancesCancel
<1> SUFFICES ASSUME SplitInv, NoneNegative PROVE Total(Nets) = 0
  BY DEF BalancesCancel
<1>0. RowsOK /\ \A e \in DOMAIN expense : IsSplit(expense[e])
  BY DEF SplitInv, MoneyInv
<1> DEFINE D   == Members
           A == [m \in D |-> Fronted(m)]
           B == [m \in D |-> Share(m)]
           C == [m \in D |-> Paid(m)]
           E == [m \in D |-> WasPaid(m)]
<1>1. A \in [D -> Int] /\ B \in [D -> Int] /\ Total(A) = Total(B)
  BY <1>0, FrontedAddsUp, SharesAddUp
<1>2. C \in [D -> Int] /\ E \in [D -> Int] /\ Total(C) = Total(E)
  BY <1>0, PaymentsAddUp
<1>3. Nets = [m \in D |-> A[m] - B[m] + C[m] - E[m]]
  BY DEF Nets, SettleNet, Paid, WasPaid
<1>4. IsFiniteSet(D)
  BY MembersAssumption
<1> HIDE DEF A, B, C, D, E
<1> QED
  BY <1>1, <1>2, <1>3, <1>4, CancelOut

\* No money is made or lost: what some are owed others owe, to the rupee,
\* over all who ever lived in the flat (balances.py), after any expenses,
\* edits, deletions and payments, as long as no two edits of one expense
\* overlap and no live expense is split by a negative percentage, which the
\* code accepts (NegativePercentage.cfg).
THEOREM BalancesAlwaysCancel == Spec /\ []EditsApart /\ []NoneNegative => []BalancesCancel
<1>1. Init => SplitInv
  BY MoneyInit DEF Init, SplitInv, EditsCurrent, Idle
<1> QED
  BY <1>1, SplitInductive, SplitsCancel, PTL DEF Spec

\* Whoever is not an active tenant is square.
LeaversSquare == \A m \in Members \ ActiveTenants : SettleNet(m) = 0

LEMMA SquareLeavers == MoneyInv /\ BalancesCancel /\ LeaversSquare => AlwaysSettleable
<1> SUFFICES ASSUME MoneyInv, BalancesCancel, LeaversSquare PROVE Total(PeerNets) = 0
  BY DEF AlwaysSettleable
<1>1. /\ \A m \in Members : SettleNet(m) \in Int
      /\ ActiveTenants \subseteq Members /\ PeerNets \in [ActiveTenants -> Int]
  BY BalancesTyped DEF MoneyInv
<1>2. Nets \in [Members -> Int]
  BY <1>1 DEF Nets
<1>3. \A m \in Members : Nets[m] = IF m \in ActiveTenants THEN PeerNets[m] ELSE 0
  BY <1>1 DEF Nets, PeerNets, LeaversSquare
<1>4. IsFilled(Nets, PeerNets, ActiveTenants, Members)
  BY <1>1, <1>2, <1>3 DEF IsFilled
<1>5. Total(Nets) = Total(PeerNets)
  BY <1>4, MembersAssumption, TotalWithout
<1> QED
  BY <1>5 DEF BalancesCancel

\* "This component always sums to zero across members" (balances.py) is true
\* of the balances a settle-up is given as long as nobody leaves the tenants
\* with money owed or owing, no two edits of one expense overlap, and no live
\* expense is split by a negative percentage.  The code sees to none of the
\* three: SettleAfterRemoval shows a member removed unsquared.
THEOREM SettleableUnlessLeft ==
  Spec /\ []EditsApart /\ []NoneNegative /\ []LeaversSquare => []AlwaysSettleable
<1>1. Init => SplitInv
  BY MoneyInit DEF Init, SplitInv, EditsCurrent, Idle
<1>2. SplitInv => MoneyInv
  BY DEF SplitInv
<1> QED
  BY <1>1, <1>2, SplitInductive, SplitsCancel, SquareLeavers, PTL DEF Spec

-----------------------------------------------------------------------------
(* One request at a time.                                                  *)

OneAtATime == \A r, s \in Requests : req[r].op # "idle" /\ req[s].op # "idle" => r = s

LEMMA AloneIsApart == OneAtATime => EditsApart /\ PaymentsApart
<1>1. OneAtATime => EditsApart
  BY DEF OneAtATime, EditsApart
<1>2. OneAtATime => PaymentsApart
  BY DEF OneAtATime, PaymentsApart
<1> QED
  BY <1>1, <1>2

LEMMA AloneCloses == OneAtATime => ClosesApart
BY DEF OneAtATime, ClosesApart

\* A flat whose requests never overlap gets all that the code promises of
\* its money: shares in proportion, settle-ups that square, transfers that
\* keep to the plan and, unless an expense is split by a negative percentage,
\* balances that cancel out.
THEOREM OneRequestAtATime ==
  Spec /\ []OneAtATime =>
    /\ []SharesFollowWeights
    /\ []NoneNegative => []BalancesCancel
    /\ SettleSquares
    /\ FollowsPlan
<1>1. []OneAtATime => []EditsApart /\ []PaymentsApart /\ []ClosesApart
  BY AloneIsApart, AloneCloses, PTL
<1> QED
  BY <1>1, SharesAreFair, BalancesAlwaysCancel, ClosingSquares, TransfersFollowPlan, PTL

=============================================================================
