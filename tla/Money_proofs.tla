---------------------------- MODULE Money_proofs ----------------------------
(***************************************************************************)
(* What adds up, for any group of people and any amounts: laws of Total,   *)
(* and that dividing an amount loses and invents nothing.                  *)
(*                                                                         *)
(* Total is a fold: a function on the subsets of its domain, defined by    *)
(* recursion on their size.  Laws about it are proved by considering a     *)
(* smallest subset that would break them.                                  *)
(***************************************************************************)
EXTENDS Money, WellFoundedInduction, FiniteSetTheorems, TLAPS

-----------------------------------------------------------------------------
(* Smallest counterexamples.                                               *)

\* The least-number principle, from the well-founded order of the naturals.
LEMMA LeastNumber ==
  ASSUME NEW T \in SUBSET Nat, T # {}
  PROVE  \E x \in T : \A y \in T : x <= y
<1> DEFINE R == OpToRel(<, Nat)
<1>1. IsWellFoundedOn(R, Nat)
  BY NatLessThanWellFounded
<1>2. \A x, y \in Nat : <<y, x>> \in R <=> y < x
  BY DEF OpToRel
<1> HIDE DEF R
<1>3. PICK x \in T : \A y \in T : ~ (<<y, x>> \in R)
  BY <1>1, WFMin
<1>4. ASSUME NEW y \in T PROVE x <= y
  <2>1. x \in Nat /\ y \in Nat /\ ~ (<<y, x>> \in R)
    BY <1>3
  <2>2. ~ (y < x)
    BY <1>2, <2>1
  <2> QED
    BY <2>1, <2>2
<1> QED
  BY <1>4

\* Among the subsets of a finite set that break a law one is smallest: the
\* law holds for all of that one's proper subsets.
LEMMA SmallestSubset ==
  ASSUME NEW D, IsFiniteSet(D), NEW Bad \in SUBSET SUBSET D, Bad # {}
  PROVE  \E s \in Bad : \A x \in s : s \ {x} \notin Bad
<1>1. \A s \in SUBSET D : IsFiniteSet(s) /\ Cardinality(s) \in Nat
  BY FS_Subset, FS_CardinalityType
<1> DEFINE T == {Cardinality(s) : s \in Bad}
<1>2. PICK s \in Bad : \A t \in Bad : Cardinality(s) <= Cardinality(t)
  <2>1. T \in SUBSET Nat /\ T # {}
    BY <1>1
  <2>2. PICK n \in T : \A k \in T : n <= k
    BY <2>1, LeastNumber
  <2> QED
    BY <2>2
<1>3. ASSUME NEW x \in s, s \ {x} \in Bad PROVE FALSE
  <2>1. IsFiniteSet(s) /\ Cardinality(s) \in Nat
    BY <1>1
  <2>2. Cardinality(s \ {x}) = Cardinality(s) - 1
    BY <2>1, FS_RemoveElement
  <2>3. Cardinality(s) <= Cardinality(s \ {x})
    BY <1>2, <1>3
  <2> QED
    BY <2>1, <2>2, <2>3
<1> QED
  BY <1>3

-----------------------------------------------------------------------------
(* The recursion behind Total.                                             *)

Chosen(s) == CHOOSE x \in s : TRUE

\* What the fold prescribes for s, given g for smaller sets.
FoldStep(f, g, s) == IF s = {} THEN 0 ELSE f[Chosen(s)] + g[s \ {Chosen(s)}]

Partial(f) == CHOOSE g : g = [s \in SUBSET DOMAIN f |-> FoldStep(f, g, s)]

LEMMA TotalIsPartial ==
  ASSUME NEW f
  PROVE  Total(f) = Partial(f)[DOMAIN f]
BY DEF Total, SumFunction, SumFunctionOnSet, FoldFunctionOnSet, MapThenFoldSet,
       Partial, FoldStep, Chosen

LEMMA ChosenIn == ASSUME NEW s, s # {} PROVE Chosen(s) \in s
  BY DEF Chosen

\* There is a function as the fold prescribes, for sets of up to n elements.
FoldsUpTo(D, f, n) ==
  \E g \in [SUBSET D -> Int] :
    \A s \in SUBSET D : Cardinality(s) <= n => g[s] = FoldStep(f, g, s)

LEMMA PartialUpTo ==
  ASSUME NEW D, IsFiniteSet(D), NEW f \in [D -> Int], NEW n \in Nat
  PROVE  FoldsUpTo(D, f, n)
<1> DEFINE Fits(k) == FoldsUpTo(D, f, k)
           Bad == {k \in Nat : ~Fits(k)}
<1>0. \A s \in SUBSET D : IsFiniteSet(s) /\ Cardinality(s) \in Nat
  BY FS_Subset, FS_CardinalityType
<1>1. Fits(0)
  <2> DEFINE g == [s \in SUBSET D |-> 0]
  <2>1. \A s \in SUBSET D : Cardinality(s) <= 0 => s = {}
    BY <1>0, FS_EmptySet
  <2>2. g \in [SUBSET D -> Int] /\ \A s \in SUBSET D : Cardinality(s) <= 0 => g[s] = FoldStep(f, g, s)
    BY <2>1 DEF FoldStep
  <2> QED
    BY <2>2 DEF FoldsUpTo
<1>2. ASSUME NEW k \in Nat, Fits(k) PROVE Fits(k + 1)
  <2>1. PICK g \in [SUBSET D -> Int] :
          \A s \in SUBSET D : Cardinality(s) <= k => g[s] = FoldStep(f, g, s)
    BY <1>2 DEF FoldsUpTo
  <2> DEFINE h == [s \in SUBSET D |-> IF Cardinality(s) <= k THEN g[s] ELSE FoldStep(f, g, s)]
  <2>2. \A s \in SUBSET D : FoldStep(f, g, s) \in Int
    BY ChosenIn DEF FoldStep
  <2>3. h \in [SUBSET D -> Int]
    BY <2>2
  <2>4. ASSUME NEW s \in SUBSET D, Cardinality(s) <= k + 1 PROVE h[s] = FoldStep(f, h, s)
    <3>1. h[s] = FoldStep(f, g, s)
      BY <2>1
    <3>2. s # {} => /\ s \ {Chosen(s)} \in SUBSET D
                    /\ Cardinality(s \ {Chosen(s)}) <= k
      <4>1. s # {} => Cardinality(s \ {Chosen(s)}) = Cardinality(s) - 1
        BY <1>0, ChosenIn, FS_RemoveElement
      <4> QED
        BY <1>0, <2>4, <4>1
    <3>3. s # {} => h[s \ {Chosen(s)}] = g[s \ {Chosen(s)}]
      BY <3>2
    <3> HIDE DEF h
    <3> QED
      BY <3>1, <3>3 DEF FoldStep
  <2> HIDE DEF h
  <2> QED
    BY <2>3, <2>4 DEF FoldsUpTo
<1> HIDE DEF Fits
<1>3. Bad = {}
  <2> SUFFICES ASSUME Bad # {} PROVE FALSE
    OBVIOUS
  <2>1. PICK k \in Bad : \A j \in Bad : k <= j
    BY LeastNumber
  <2>2. k # 0 /\ k - 1 \in Nat
    BY <1>1
  <2>3. Fits(k - 1)
    BY <2>1, <2>2
  <2>4. Fits((k - 1) + 1)
    BY <1>2, <2>2, <2>3
  <2> QED
    BY <2>1, <2>2, <2>4
<1> QED
  BY <1>3 DEF Fits

LEMMA PartialDef ==
  ASSUME NEW D, IsFiniteSet(D), NEW f \in [D -> Int]
  PROVE  /\ Partial(f) \in [SUBSET D -> Int]
         /\ \A s \in SUBSET D : Partial(f)[s] = FoldStep(f, Partial(f), s)
<1> DEFINE n == Cardinality(D)
<1>0. n \in Nat
  BY FS_CardinalityType
<1> HIDE DEF n
<1>1. PICK g \in [SUBSET D -> Int] :
        \A s \in SUBSET D : Cardinality(s) <= n => g[s] = FoldStep(f, g, s)
  <2>1. FoldsUpTo(D, f, n)
    BY <1>0, PartialUpTo
  <2> QED
    BY <2>1 DEF FoldsUpTo
<1>2. g = [s \in SUBSET DOMAIN f |-> FoldStep(f, g, s)]
  <2>1. \A s \in SUBSET D : Cardinality(s) <= n
    BY FS_Subset DEF n
  <2>2. \A s \in SUBSET D : g[s] = FoldStep(f, g, s)
    BY <1>1, <2>1
  <2>3. g = [s \in SUBSET D |-> g[s]] /\ DOMAIN f = D
    OBVIOUS
  <2> QED
    BY <2>2, <2>3
<1>3. Partial(f) = [s \in SUBSET DOMAIN f |-> FoldStep(f, Partial(f), s)]
  <2> DEFINE Is(h) == h = [s \in SUBSET DOMAIN f |-> FoldStep(f, h, s)]
  <2>1. Is(g)
    BY <1>2
  <2>2. Partial(f) = CHOOSE h : Is(h)
    BY Zenon DEF Partial
  <2> HIDE DEF Is
  <2>3. Is(Partial(f))
    BY <2>1, <2>2, Zenon
  <2> QED
    BY <2>3 DEF Is
<1>4. \A s \in SUBSET D : Partial(f)[s] = FoldStep(f, Partial(f), s)
  BY <1>3
<1> DEFINE Bad == {s \in SUBSET D : Partial(f)[s] \notin Int}
<1>5. Bad = {}
  <2> SUFFICES ASSUME Bad # {} PROVE FALSE
    OBVIOUS
  <2>1. PICK s \in Bad : \A x \in s : s \ {x} \notin Bad
    BY SmallestSubset
  <2>2. s # {} => f[Chosen(s)] \in Int /\ Partial(f)[s \ {Chosen(s)}] \in Int
    BY <2>1, ChosenIn
  <2> QED
    BY <1>4, <2>1, <2>2 DEF FoldStep
<1>6. DOMAIN Partial(f) = SUBSET D
  BY <1>3
<1> QED
  BY <1>3, <1>4, <1>5, <1>6
-----------------------------------------------------------------------------
(* Laws of Total.                                                          *)

\* The order in which the fold goes through a set does not matter.
LEMMA PartialTakes ==
  ASSUME NEW D, IsFiniteSet(D), NEW f \in [D -> Int], NEW s \in SUBSET D, NEW x \in s
  PROVE  Partial(f)[s] = f[x] + Partial(f)[s \ {x}]
<1> DEFINE P == Partial(f)
           Takes(t) == \A y \in t : P[t] = f[y] + P[t \ {y}]
           Bad == {t \in SUBSET D : ~Takes(t)}
<1>1. P \in [SUBSET D -> Int] /\ \A t \in SUBSET D : P[t] = FoldStep(f, P, t)
  BY PartialDef
<1> HIDE DEF P
<1>2. ASSUME NEW t \in SUBSET D, \A y \in t : Takes(t \ {y}) PROVE Takes(t)
  <2> SUFFICES ASSUME NEW y \in t PROVE P[t] = f[y] + P[t \ {y}]
    OBVIOUS
  <2> DEFINE c == Chosen(t)
  <2>1. c \in t /\ P[t] = f[c] + P[t \ {c}]
    BY <1>1, ChosenIn DEF FoldStep
  <2> HIDE DEF c
  <2>2. CASE y = c
    BY <2>1, <2>2
  <2>3. CASE y # c
    <3>1. P[t \ {c}] = f[y] + P[(t \ {c}) \ {y}]
      BY <1>2, <2>1, <2>3
    <3>2. P[t \ {y}] = f[c] + P[(t \ {y}) \ {c}]
      BY <1>2, <2>1, <2>3
    <3>3. (t \ {c}) \ {y} = (t \ {y}) \ {c}
      OBVIOUS
    <3> DEFINE rest == P[(t \ {y}) \ {c}]
    <3>4. f[y] \in Int /\ f[c] \in Int /\ rest \in Int
      BY <1>1, <2>1
    <3>5. P[t] = f[c] + (f[y] + rest) /\ P[t \ {y}] = f[c] + rest
      BY <2>1, <3>1, <3>2, <3>3
    <3> HIDE DEF rest
    <3> QED
      BY <3>4, <3>5
  <2> QED
    BY <2>2, <2>3
<1> HIDE DEF Takes
<1>3. Bad = {}
  <2> SUFFICES ASSUME Bad # {} PROVE FALSE
    OBVIOUS
  <2>1. PICK t \in Bad : \A y \in t : t \ {y} \notin Bad
    BY SmallestSubset
  <2>2. \A y \in t : Takes(t \ {y})
    BY <2>1
  <2> QED
    BY <1>2, <2>1, <2>2
<1> QED
  BY <1>3 DEF Takes, P

LEMMA PartialNothing ==
  ASSUME NEW D, IsFiniteSet(D), NEW f \in [D -> Int]
  PROVE  Partial(f)[{}] = 0
BY PartialDef DEF FoldStep

\* Amounts added person by person add up: the sum of two allotments over a
\* set is the sum of their sums.
LEMMA PartialAdds ==
  ASSUME NEW D, IsFiniteSet(D), NEW E, IsFiniteSet(E), NEW f \in [D -> Int], NEW h \in [E -> Int],
         D \subseteq E, NEW g \in [E -> Int],
         \A x \in E : h[x] = g[x] + IF x \in D THEN f[x] ELSE 0,
         NEW s \in SUBSET E
  PROVE  Partial(h)[s] = Partial(g)[s] + Partial(f)[s \cap D]
<1> DEFINE F == Partial(f)
           G == Partial(g)
           H == Partial(h)
           Adds(t) == H[t] = G[t] + F[t \cap D]
           Bad == {t \in SUBSET E : ~Adds(t)}
<1>1. /\ F \in [SUBSET D -> Int] /\ F[{}] = 0
      /\ \A t \in SUBSET D : \A x \in t : F[t] = f[x] + F[t \ {x}]
  <2>1. F \in [SUBSET D -> Int]
    BY PartialDef, Zenon
  <2>2. F[{}] = 0
    BY PartialNothing, Zenon
  <2>3. ASSUME NEW t \in SUBSET D, NEW x \in t PROVE F[t] = f[x] + F[t \ {x}]
    BY PartialTakes
  <2> QED
    BY <2>1, <2>2, <2>3
<1>2. /\ G \in [SUBSET E -> Int] /\ G[{}] = 0
      /\ \A t \in SUBSET E : \A x \in t : G[t] = g[x] + G[t \ {x}]
  <2>1. G \in [SUBSET E -> Int]
    BY PartialDef, Zenon
  <2>2. G[{}] = 0
    BY PartialNothing, Zenon
  <2>3. ASSUME NEW t \in SUBSET E, NEW x \in t PROVE G[t] = g[x] + G[t \ {x}]
    BY PartialTakes
  <2> QED
    BY <2>1, <2>2, <2>3
<1>3. /\ H \in [SUBSET E -> Int] /\ H[{}] = 0
      /\ \A t \in SUBSET E : \A x \in t : H[t] = h[x] + H[t \ {x}]
  <2>1. H \in [SUBSET E -> Int]
    BY PartialDef, Zenon
  <2>2. H[{}] = 0
    BY PartialNothing, Zenon
  <2>3. ASSUME NEW t \in SUBSET E, NEW x \in t PROVE H[t] = h[x] + H[t \ {x}]
    BY PartialTakes
  <2> QED
    BY <2>1, <2>2, <2>3
<1> HIDE DEF F, G, H
<1>4. ASSUME NEW t \in SUBSET E, \A x \in t : Adds(t \ {x}) PROVE Adds(t)
  <2>1. CASE t = {}
    BY <1>1, <1>2, <1>3, <2>1
  <2>2. CASE t # {}
    <3>1. PICK x \in t : TRUE
      BY <2>2
    <3>2. H[t] = h[x] + H[t \ {x}] /\ G[t] = g[x] + G[t \ {x}] /\ Adds(t \ {x})
      BY <1>2, <1>3, <1>4, <3>1
    <3>3. F[t \cap D] = (IF x \in D THEN f[x] ELSE 0) + F[(t \ {x}) \cap D]
      <4>1. CASE x \in D
        <5>1. (t \cap D) \ {x} = (t \ {x}) \cap D
          OBVIOUS
        <5>2. t \cap D \in SUBSET D /\ x \in t \cap D
          BY <3>1, <4>1
        <5>3. F[t \cap D] = f[x] + F[(t \cap D) \ {x}]
          BY <1>1, <5>2
        <5> QED
          BY <4>1, <5>1, <5>3
      <4>2. CASE x \notin D
        <5>1. (t \ {x}) \cap D = t \cap D
          BY <4>2
        <5>2. F[t \cap D] \in Int
          BY <1>1
        <5>3. F[t \cap D] = F[(t \ {x}) \cap D]
          BY <5>1, Zenon
        <5> DEFINE r == F[t \cap D]
        <5>4. r \in Int /\ F[(t \ {x}) \cap D] = r
          BY <5>2, <5>3, Zenon
        <5> HIDE DEF r
        <5>5. r = 0 + F[(t \ {x}) \cap D]
          BY <5>4
        <5>6. F[t \cap D] = 0 + F[(t \ {x}) \cap D]
          BY <5>5, Zenon DEF r
        <5> QED
          BY <4>2, <5>6
      <4> QED
        BY <4>1, <4>2
    <3>4. /\ h[x] = g[x] + IF x \in D THEN f[x] ELSE 0
          /\ (IF x \in D THEN f[x] ELSE 0) \in Int /\ g[x] \in Int
          /\ G[t \ {x}] \in Int /\ F[(t \ {x}) \cap D] \in Int
      BY <1>1, <1>2, <3>1
    <3> QED
      BY <3>2, <3>3, <3>4 DEF Adds
  <2> QED
    BY <2>1, <2>2
<1> HIDE DEF Adds
<1>5. Bad = {}
  <2> SUFFICES ASSUME Bad # {} PROVE FALSE
    OBVIOUS
  <2>1. PICK t \in Bad : \A y \in t : t \ {y} \notin Bad
    BY SmallestSubset
  <2>2. \A y \in t : Adds(t \ {y})
    BY <2>1
  <2> QED
    BY <1>4, <2>1, <2>2
<1> QED
  BY <1>5 DEF Adds, F, G, H

\* A sum of whole rupees is a number of whole rupees; nobody's is nothing.
LEMMA TotalInt ==
  ASSUME NEW D, IsFiniteSet(D), NEW f \in [D -> Int]
  PROVE  Total(f) \in Int
<1>1. Partial(f) \in [SUBSET D -> Int]
  BY PartialDef, Zenon
<1>2. DOMAIN f = D
  OBVIOUS
<1>3. Total(f) = Partial(f)[D]
  BY <1>2, TotalIsPartial
<1> QED
  BY <1>1, <1>3

LEMMA TotalEmpty ==
  ASSUME NEW f \in [{} -> Int]
  PROVE  Total(f) = 0
<1>1. IsFiniteSet({})
  BY FS_EmptySet
<1>2. Partial(f)[{}] = 0
  BY <1>1, PartialNothing
<1>3. DOMAIN f = {}
  OBVIOUS
<1> QED
  BY <1>2, <1>3, TotalIsPartial

\* h is g on E with f added for those in D.
IsSum(h, g, f, D, E) ==
  /\ D \subseteq E /\ f \in [D -> Int] /\ g \in [E -> Int] /\ h \in [E -> Int]
  /\ \A x \in E : h[x] = g[x] + IF x \in D THEN f[x] ELSE 0

LEMMA TotalAdds ==
  ASSUME NEW D, NEW E, IsFiniteSet(E), NEW f, NEW g, NEW h, IsSum(h, g, f, D, E)
  PROVE  Total(h) = Total(g) + Total(f)
<1>0. /\ D \subseteq E /\ f \in [D -> Int] /\ g \in [E -> Int] /\ h \in [E -> Int]
      /\ \A x \in E : h[x] = g[x] + IF x \in D THEN f[x] ELSE 0
  BY DEF IsSum
<1>1. IsFiniteSet(D)
  BY <1>0, FS_Subset
<1>2. E \in SUBSET E /\ E \cap D = D
  BY <1>0
<1>3. Partial(h)[E] = Partial(g)[E] + Partial(f)[E \cap D]
  BY <1>0, <1>1, <1>2, PartialAdds
<1>4. DOMAIN f = D /\ DOMAIN g = E /\ DOMAIN h = E
  BY <1>0
<1>5. Total(h) = Partial(h)[E] /\ Total(g) = Partial(g)[E] /\ Total(f) = Partial(f)[D]
  BY <1>4, TotalIsPartial
<1> QED
  BY <1>2, <1>3, <1>5

LEMMA TotalZero ==
  ASSUME NEW D, IsFiniteSet(D), NEW zero \in [D -> Int], \A x \in D : zero[x] = 0
  PROVE  Total(zero) = 0
<1>1. IsSum(zero, zero, zero, D, D)
  BY DEF IsSum
<1>2. Total(zero) = Total(zero) + Total(zero)
  BY <1>1, TotalAdds
<1>3. Total(zero) \in Int
  BY TotalInt
<1>4. \A t \in Int : t = t + t => t = 0
  OBVIOUS
<1> QED
  BY <1>2, <1>3, <1>4, Zenon

\* The others' amounts, as they are or with nothing for x.
IsFilled(g, f, S, D) ==
  /\ S \subseteq D /\ f \in [S -> Int] /\ g \in [D -> Int]
  /\ \A m \in D : g[m] = IF m \in S THEN f[m] ELSE 0

LEMMA TotalWithout ==
  ASSUME NEW D, IsFiniteSet(D), NEW g, NEW S, NEW f, IsFilled(g, f, S, D)
  PROVE  Total(g) = Total(f)
<1> DEFINE zero == [m \in D |-> 0]
<1>1. zero \in [D -> Int] /\ \A m \in D : zero[m] = 0
  OBVIOUS
<1> HIDE DEF zero
<1>2. IsSum(g, zero, f, S, D)
  BY <1>1 DEF IsSum, IsFilled
<1>3. Total(g) = Total(zero) + Total(f)
  BY <1>2, TotalAdds
<1>4. Total(zero) = 0
  BY <1>1, TotalZero
<1>5. Total(f) \in Int
  BY FS_Subset, TotalInt DEF IsFilled
<1> QED
  BY <1>3, <1>4, <1>5

LEMMA TotalSingle ==
  ASSUME NEW x, NEW f \in [{x} -> Int]
  PROVE  Total(f) = f[x]
<1> DEFINE S == {x}
<1>0. S \in SUBSET S /\ x \in S /\ S \ {x} = {} /\ IsFiniteSet(S) /\ f \in [S -> Int]
  BY FS_Singleton
<1>1. DOMAIN f = S
  OBVIOUS
<1> HIDE DEF S
<1>2. Partial(f)[S] = f[x] + Partial(f)[S \ {x}]
  BY <1>0, PartialTakes
<1>3. Partial(f)[{}] = 0
  BY <1>0, PartialNothing
<1>4. Partial(f)[S \ {x}] = 0
  BY <1>0, <1>3
<1>5. f[x] \in Int
  BY <1>0
<1>6. Total(f) = Partial(f)[S]
  BY <1>1, TotalIsPartial
<1> QED
  BY <1>2, <1>4, <1>5, <1>6

\* What those in s have.
On(f, s) == [m \in s |-> f[m]]

\* What one person has comes on top of what all the others have.
LEMMA TotalTakes ==
  ASSUME NEW D, IsFiniteSet(D), NEW f \in [D -> Int], NEW x \in D
  PROVE  Total(f) = f[x] + Total(On(f, D \ {x}))
<1> DEFINE g == [m \in D \ {x} |-> f[m]]
           one == [m \in {x} |-> f[x]]
           z == [m \in D |-> IF m = x THEN 0 ELSE f[m]]
<1>1. /\ g \in [D \ {x} -> Int] /\ one \in [{x} -> Int] /\ z \in [D -> Int]
      /\ one[x] = f[x]
      /\ \A m \in D : z[m] = IF m = x THEN 0 ELSE f[m]
      /\ \A m \in D \ {x} : g[m] = f[m]
  OBVIOUS
<1>2. IsFiniteSet(D \ {x}) /\ D \ {x} \in SUBSET D
  BY FS_Subset
<1> HIDE DEF g, one, z
<1>3. IsSum(f, z, one, {x}, D)
  BY <1>1 DEF IsSum
<1>4. Total(f) = Total(z) + Total(one)
  BY <1>3, TotalAdds
<1>5. Total(one) = f[x]
  BY <1>1, TotalSingle
<1>6. IsFilled(z, g, D \ {x}, D)
  BY <1>1 DEF IsFilled
<1>7. Total(z) = Total(g)
  BY <1>6, TotalWithout
<1>8. f[x] \in Int /\ Total(g) \in Int
  BY <1>1, <1>2, TotalInt
<1>9. Total(f) = f[x] + Total(g)
  BY <1>4, <1>5, <1>7, <1>8
<1> QED
  BY <1>9 DEF g, On

-----------------------------------------------------------------------------
(* Sums over part of a domain, and what follows from them person by person.*)

LEMMA OnIsTyped ==
  ASSUME NEW D, IsFiniteSet(D), NEW f \in [D -> Int], NEW s \in SUBSET D
  PROVE  /\ IsFiniteSet(s) /\ On(f, s) \in [s -> Int] /\ Total(On(f, s)) \in Int
         /\ On(f, D) = f
<1>1. IsFiniteSet(s)
  BY FS_Subset
<1>2. On(f, s) \in [s -> Int] /\ On(f, D) = f
  BY DEF On
<1> QED
  BY <1>1, <1>2, TotalInt

LEMMA TotalOn ==
  ASSUME NEW D, IsFiniteSet(D), NEW f \in [D -> Int], NEW s \in SUBSET D
  PROVE  /\ s = {} => Total(On(f, s)) = 0
         /\ \A x \in s : /\ Total(On(f, s)) = f[x] + Total(On(f, s \ {x}))
                         /\ f[x] \in Int /\ Total(On(f, s \ {x})) \in Int
<1>1. IsFiniteSet(s) /\ On(f, s) \in [s -> Int]
  BY OnIsTyped
<1>2. ASSUME s = {} PROVE Total(On(f, s)) = 0
  BY <1>1, <1>2, TotalEmpty
<1>3. ASSUME NEW x \in s
      PROVE  /\ Total(On(f, s)) = f[x] + Total(On(f, s \ {x}))
             /\ f[x] \in Int /\ Total(On(f, s \ {x})) \in Int
  <2>1. Total(On(f, s)) = On(f, s)[x] + Total(On(On(f, s), s \ {x}))
    BY <1>1, TotalTakes
  <2>2. On(f, s)[x] = f[x] /\ On(On(f, s), s \ {x}) = On(f, s \ {x})
    BY DEF On
  <2>3. s \ {x} \in SUBSET D
    OBVIOUS
  <2>4. Total(On(f, s \ {x})) \in Int
    BY <2>3, OnIsTyped
  <2> QED
    BY <2>1, <2>2, <2>4
<1> QED
  BY <1>2, <1>3

LEMMA TotalNat ==
  ASSUME NEW D, IsFiniteSet(D), NEW f \in [D -> Nat]
  PROVE  Total(f) \in Nat
<1> DEFINE Bad == {s \in SUBSET D : Total(On(f, s)) \notin Nat}
<1>0. f \in [D -> Int]
  OBVIOUS
<1>1. Bad = {}
  <2> SUFFICES ASSUME Bad # {} PROVE FALSE
    OBVIOUS
  <2>1. PICK s \in Bad : \A x \in s : s \ {x} \notin Bad
    BY SmallestSubset
  <2>2. s # {}
    BY <1>0, <2>1, TotalOn
  <2>3. PICK x \in s : TRUE
    BY <2>2
  <2>4. Total(On(f, s)) = f[x] + Total(On(f, s \ {x}))
    BY <1>0, <2>3, TotalOn
  <2>5. Total(On(f, s \ {x})) \in Nat /\ f[x] \in Nat
    BY <2>1, <2>3
  <2> QED
    BY <2>1, <2>4, <2>5
<1>2. On(f, D) = f
  BY DEF On
<1> QED
  BY <1>1, <1>2

\* Everybody's amount times c.
LEMMA TotalTimes ==
  ASSUME NEW D, IsFiniteSet(D), NEW f \in [D -> Int], NEW c \in Int, NEW h \in [D -> Int],
         \A x \in D : h[x] = c * f[x]
  PROVE  Total(h) = c * Total(f)
<1> DEFINE Bad == {s \in SUBSET D : Total(On(h, s)) # c * Total(On(f, s))}
<1>1. Bad = {}
  <2> SUFFICES ASSUME Bad # {} PROVE FALSE
    OBVIOUS
  <2>1. PICK s \in Bad : \A x \in s : s \ {x} \notin Bad
    BY SmallestSubset
  <2>2. CASE s = {}
    <3>1. Total(On(h, s)) = 0 /\ Total(On(f, s)) = 0
      BY <2>2, TotalOn
    <3> QED
      BY <2>1, <3>1
  <2>3. CASE s # {}
    <3>1. PICK x \in s : TRUE
      BY <2>3
    <3> DEFINE p == Total(On(f, s \ {x}))
               q == Total(On(h, s \ {x}))
    <3>2. Total(On(f, s)) = f[x] + p /\ f[x] \in Int /\ p \in Int
      BY <3>1, TotalOn
    <3>3. Total(On(h, s)) = h[x] + q /\ h[x] = c * f[x]
      BY <3>1, TotalOn
    <3>4. q = c * p
      BY <2>1, <3>1
    <3> HIDE DEF p, q
    <3>5. c * (f[x] + p) = c * f[x] + c * p
      BY <3>2
    <3> QED
      BY <2>1, <3>2, <3>3, <3>4, <3>5
  <2> QED
    BY <2>2, <2>3
<1>2. On(f, D) = f /\ On(h, D) = h
  BY DEF On
<1> QED
  BY <1>1, <1>2

\* As many rupees as people, when everybody has one.
LEMMA TotalOnes ==
  ASSUME NEW D, IsFiniteSet(D), NEW f \in [D -> Int], \A x \in D : f[x] = 1
  PROVE  Total(f) = Cardinality(D)
<1> DEFINE Bad == {s \in SUBSET D : Total(On(f, s)) # Cardinality(s)}
<1>1. Bad = {}
  <2> SUFFICES ASSUME Bad # {} PROVE FALSE
    OBVIOUS
  <2>1. PICK s \in Bad : \A x \in s : s \ {x} \notin Bad
    BY SmallestSubset
  <2>2. IsFiniteSet(s) /\ Cardinality(s) \in Nat
    BY <2>1, FS_Subset, FS_CardinalityType
  <2>3. CASE s = {}
    <3>1. Total(On(f, s)) = 0 /\ Cardinality(s) = 0
      BY <2>3, TotalOn, FS_EmptySet
    <3> QED
      BY <2>1, <3>1
  <2>4. CASE s # {}
    <3>1. PICK x \in s : TRUE
      BY <2>4
    <3>2. Total(On(f, s)) = f[x] + Total(On(f, s \ {x})) /\ f[x] = 1
      BY <3>1, TotalOn
    <3>3. Total(On(f, s \ {x})) = Cardinality(s \ {x})
      BY <2>1, <3>1
    <3>4. Cardinality(s \ {x}) = Cardinality(s) - 1
      BY <2>2, <3>1, FS_RemoveElement
    <3> QED
      BY <2>1, <2>2, <3>2, <3>3, <3>4
  <2> QED
    BY <2>3, <2>4
<1>2. On(f, D) = f
  BY DEF On
<1> QED
  BY <1>1, <1>2

\* Whoever gets no less brings the total to no less.
LEMMA TotalAtMost ==
  ASSUME NEW D, IsFiniteSet(D), NEW f \in [D -> Int], NEW g \in [D -> Int],
         \A x \in D : f[x] <= g[x]
  PROVE  Total(f) <= Total(g)
<1> DEFINE Bad == {s \in SUBSET D : ~ (Total(On(f, s)) <= Total(On(g, s)))}
<1>1. Bad = {}
  <2> SUFFICES ASSUME Bad # {} PROVE FALSE
    OBVIOUS
  <2>1. PICK s \in Bad : \A x \in s : s \ {x} \notin Bad
    BY SmallestSubset
  <2>2. CASE s = {}
    <3>1. Total(On(f, s)) = 0 /\ Total(On(g, s)) = 0
      BY <2>2, TotalOn
    <3> QED
      BY <2>1, <3>1
  <2>3. CASE s # {}
    <3>1. PICK x \in s : TRUE
      BY <2>3
    <3> DEFINE p == Total(On(f, s \ {x}))
               q == Total(On(g, s \ {x}))
    <3>2. Total(On(f, s)) = f[x] + p /\ f[x] \in Int /\ p \in Int
      BY <3>1, TotalOn
    <3>3. Total(On(g, s)) = g[x] + q /\ g[x] \in Int /\ q \in Int
      BY <3>1, TotalOn
    <3>4. p <= q /\ f[x] <= g[x]
      BY <2>1, <3>1
    <3> HIDE DEF p, q
    <3> QED
      BY <2>1, <3>2, <3>3, <3>4
  <2> QED
    BY <2>2, <2>3
<1>2. On(f, D) = f /\ On(g, D) = g
  BY DEF On
<1> QED
  BY <1>1, <1>2

-----------------------------------------------------------------------------
(* The largest remainder.                                                  *)

Whole(total, weights) ==
  [m \in DOMAIN weights |-> Truncated(total * weights[m], Total(weights))]

Rest(total, weights) ==
  [m \in DOMAIN weights |-> total * weights[m] - Total(weights) * Whole(total, weights)[m]]

\* The rupees that are handed out one by one.
Left(total, weights) == total - Total(Whole(total, weights))

Handed(total, weights) == IF Left(total, weights) > 0 THEN Left(total, weights) ELSE 0

\* The people who get a rupee more than the whole part of their share.
Lucky(total, weights, S) ==
  /\ S \in SUBSET DOMAIN weights
  /\ Cardinality(S) = Handed(total, weights)
  /\ \A m \in S, n \in DOMAIN weights \ S :
       Rest(total, weights)[m] >= Rest(total, weights)[n]

Raised(whole, S) == [m \in DOMAIN whole |-> IF m \in S THEN whole[m] + 1 ELSE whole[m]]

LEMMA LargestRemainderIs ==
  ASSUME NEW total, NEW weights
  PROVE  LargestRemainder(total, weights) =
           {Raised(Whole(total, weights), S) : S \in {S \in SUBSET DOMAIN weights : Lucky(total, weights, S)}}
<1> DEFINE whole == [m \in DOMAIN weights |-> Truncated(total * weights[m], Total(weights))]
           rest == [m \in DOMAIN weights |-> total * weights[m] - Total(weights) * whole[m]]
           left == total - Total(whole)
           Luckiest == {S \in SUBSET DOMAIN weights :
                          /\ Cardinality(S) = IF left > 0 THEN left ELSE 0
                          /\ \A m \in S, n \in DOMAIN weights \ S : rest[m] >= rest[n]}
<1>1. LargestRemainder(total, weights) =
        {[m \in DOMAIN weights |-> IF m \in S THEN whole[m] + 1 ELSE whole[m]] : S \in Luckiest}
  BY Zenon DEF LargestRemainder
<1>2. whole = Whole(total, weights)
  BY Zenon DEF Whole
<1>3. rest = Rest(total, weights) /\ left = Left(total, weights)
  BY <1>2, Zenon DEF Rest, Left
<1>4. (IF left > 0 THEN left ELSE 0) = Handed(total, weights)
  BY <1>3, Zenon DEF Handed
<1>5. Luckiest = {S \in SUBSET DOMAIN weights : Lucky(total, weights, S)}
  <2> HIDE DEF rest, left
  <2> QED
    BY <1>3, <1>4, Zenon DEF Lucky
<1>6. \A S : [m \in DOMAIN weights |-> IF m \in S THEN whole[m] + 1 ELSE whole[m]] = Raised(whole, S)
  BY DEF Raised
<1> HIDE DEF Luckiest, whole
<1>7. {[m \in DOMAIN weights |-> IF m \in S THEN whole[m] + 1 ELSE whole[m]] : S \in Luckiest}
        = {Raised(whole, S) : S \in Luckiest}
  BY <1>6
<1> QED
  BY <1>1, <1>2, <1>5, <1>7

\* What int() cuts off is less than one.
LEMMA CutOff ==
  ASSUME NEW x \in Int, NEW W \in Nat \ {0}
  PROVE  /\ Truncated(x, W) \in Int
         /\ x - W * Truncated(x, W) \in 1 - W .. W - 1
         /\ x >= 0 => Truncated(x, W) \in Nat /\ x - W * Truncated(x, W) \in 0 .. W - 1
<1>1. \A y \in Nat : y \div W \in Nat /\ y % W \in 0 .. W - 1 /\ y = W * (y \div W) + (y % W)
  OBVIOUS
<1>2. CASE x >= 0
  <2>1. x \in Nat /\ Truncated(x, W) = x \div W
    BY <1>2 DEF Truncated
  <2> DEFINE q == x \div W
             r == x % W
  <2>2. q \in Nat /\ r \in 0 .. W - 1 /\ x = W * q + r /\ W * q \in Int
    BY <1>1, <2>1
  <2> HIDE DEF q, r
  <2>3. x - W * q = r
    BY <2>2
  <2> QED
    BY <2>1, <2>2, <2>3 DEF q
<1>3. CASE x < 0
  <2>1. -x \in Nat /\ Truncated(x, W) = -((-x) \div W)
    BY <1>3 DEF Truncated
  <2> DEFINE q == (-x) \div W
             r == (-x) % W
  <2>2. q \in Nat /\ r \in 0 .. W - 1 /\ -x = W * q + r /\ W * q \in Int
    BY <1>1, <2>1
  <2> HIDE DEF q, r
  <2>3. W * (-q) = -(W * q)
    BY <2>2
  <2>4. x - W * (-q) = -r
    BY <2>2, <2>3
  <2>5. -q \in Int /\ -r \in 1 - W .. W - 1
    BY <2>2
  <2> QED
    BY <1>3, <2>1, <2>4, <2>5 DEF q
<1> QED
  BY <1>2, <1>3

\* Nothing is lost between the whole parts and the fractions.
WholeAndRestAddUp(total, weights) ==
  \A m \in DOMAIN weights :
    total * weights[m] = Total(weights) * Whole(total, weights)[m] + Rest(total, weights)[m]

\* What the code calls the leftover rupees, in whole shares of W.
LEMMA Leftover ==
  ASSUME NEW D, IsFiniteSet(D), NEW total \in Nat, NEW weights \in [D -> Int], Total(weights) > 0
  PROVE  LET W == Total(weights)
             whole == Whole(total, weights)
             rest == Rest(total, weights) IN
         /\ W \in Nat \ {0}
         /\ whole \in [D -> Int] /\ Total(whole) \in Int
         /\ rest \in [D -> 1 - W .. W - 1] /\ Total(rest) \in Int
         /\ WholeAndRestAddUp(total, weights)
         /\ Total(rest) = W * Left(total, weights)
         /\ weights \in [D -> Nat] => whole \in [D -> Nat] /\ rest \in [D -> 0 .. W - 1]
<1> DEFINE W == Total(weights)
           whole == Whole(total, weights)
           rest == Rest(total, weights)
<1>1. W \in Nat \ {0}
  <2>1. W \in Int
    BY TotalInt
  <2> QED
    BY <2>1
<1>2. /\ whole = [m \in D |-> Truncated(total * weights[m], W)]
      /\ rest = [m \in D |-> total * weights[m] - W * whole[m]]
  BY DEF Whole, Rest
<1> HIDE DEF W, whole, rest
<1>3. ASSUME NEW m \in D
      PROVE  /\ whole[m] \in Int
             /\ rest[m] \in 1 - W .. W - 1
             /\ total * weights[m] = W * whole[m] + rest[m]
             /\ weights[m] >= 0 => whole[m] \in Nat /\ rest[m] \in 0 .. W - 1
  <2> DEFINE x == total * weights[m]
             t == Truncated(x, W)
  <2>1. x \in Int /\ (weights[m] >= 0 => x >= 0)
    OBVIOUS
  <2>2. whole[m] = t /\ rest[m] = x - W * t
    BY <1>2
  <2> HIDE DEF x
  <2>3. /\ t \in Int /\ x - W * t \in 1 - W .. W - 1
        /\ x >= 0 => t \in Nat /\ x - W * t \in 0 .. W - 1
    BY <1>1, <2>1, CutOff
  <2> HIDE DEF t
  <2>4. x = W * t + (x - W * t)
    BY <1>1, <2>1, <2>3
  <2> QED
    BY <2>1, <2>2, <2>3, <2>4 DEF x
<1>4. whole \in [D -> Int] /\ rest \in [D -> 1 - W .. W - 1]
  BY <1>2, <1>3
<1>5. \A m \in D : total * weights[m] = W * whole[m] + rest[m]
  BY <1>3
<1>6. rest \in [D -> Int]
  BY <1>1, <1>4
<1>7. Total(whole) \in Int /\ Total(rest) \in Int
  BY <1>4, <1>6, TotalInt
<1> DEFINE asked == [m \in D |-> total * weights[m]]
           given == [m \in D |-> W * whole[m]]
<1>8. /\ asked \in [D -> Int] /\ \A m \in D : asked[m] = total * weights[m]
      /\ given \in [D -> Int] /\ \A m \in D : given[m] = W * whole[m]
  BY <1>1, <1>4
<1> HIDE DEF asked, given
<1>9. weights \in [D -> Int] /\ whole \in [D -> Int] /\ rest \in [D -> Int]
  BY <1>4, <1>6
<1>10. Total(asked) = total * W
  <2>1. total \in Int
    OBVIOUS
  <2>2. Total(asked) = total * Total(weights)
    BY <1>8, <1>9, <2>1, TotalTimes
  <2> QED
    BY <2>2 DEF W
<1>11. Total(given) = W * Total(whole)
  BY <1>1, <1>8, <1>9, TotalTimes
<1>12. Total(asked) = Total(given) + Total(rest)
  <2>1. \A m \in D : asked[m] = given[m] + IF m \in D THEN rest[m] ELSE 0
    BY <1>5, <1>8
  <2>2. IsSum(asked, given, rest, D, D)
    BY <1>8, <1>9, <2>1 DEF IsSum
  <2> QED
    BY <2>2, TotalAdds
<1>13. Total(rest) = W * (total - Total(whole))
  <2> DEFINE a == Total(whole)
             b == Total(rest)
  <2>1. total * W = W * a + b /\ a \in Int /\ b \in Int
    BY <1>7, <1>10, <1>11, <1>12
  <2> HIDE DEF a, b
  <2>2. b = W * (total - a)
    BY <1>1, <2>1
  <2> QED
    BY <2>2 DEF a, b
<1>14. WholeAndRestAddUp(total, weights)
  BY <1>5 DEF WholeAndRestAddUp, W, whole, rest
<1>15. weights \in [D -> Nat] => whole \in [D -> Nat] /\ rest \in [D -> 0 .. W - 1]
  BY <1>3, <1>4
<1> QED
  BY <1>1, <1>4, <1>7, <1>13, <1>14, <1>15 DEF W, whole, rest, Left

\* Who is lucky gets one more; the rest of the shares are the whole parts.
LEMMA RaisedTotal ==
  ASSUME NEW D, IsFiniteSet(D), NEW whole \in [D -> Int], NEW S \in SUBSET D
  PROVE  /\ Raised(whole, S) \in [D -> Int]
         /\ \A m \in D : Raised(whole, S)[m] = IF m \in S THEN whole[m] + 1 ELSE whole[m]
         /\ Total(Raised(whole, S)) = Total(whole) + Cardinality(S)
<1> DEFINE share == Raised(whole, S)
<1>1. /\ share \in [D -> Int]
      /\ \A m \in D : share[m] = IF m \in S THEN whole[m] + 1 ELSE whole[m]
  BY DEF Raised
<1> HIDE DEF share
<1>2. IsFiniteSet(S)
  BY FS_Subset
<1>3. Even(S) \in [S -> Int] /\ \A m \in S : Even(S)[m] = 1
  BY DEF Even
<1>4. IsSum(share, whole, Even(S), S, D)
  BY <1>1, <1>3 DEF IsSum
<1>5. Total(share) = Total(whole) + Total(Even(S))
  BY <1>4, TotalAdds
<1>6. Total(Even(S)) = Cardinality(S)
  BY <1>2, <1>3, TotalOnes
<1> QED
  BY <1>1, <1>5, <1>6 DEF share

\* However an amount is divided, every share is a whole number of rupees and
\* the shares together are no less than the amount: no rupee is lost.  That
\* they may be more, where a weight is negative, is the code's doing.
THEOREM SplitNeverShort ==
  ASSUME NEW D, IsFiniteSet(D), NEW total \in Nat, NEW weights \in [D -> Int], Total(weights) > 0,
         NEW share \in LargestRemainder(total, weights)
  PROVE  share \in [D -> Int] /\ Total(share) \in Int /\ Total(share) >= total
<1> DEFINE whole == Whole(total, weights)
           a == Total(whole)
           k == Handed(total, weights)
<1>1. whole \in [D -> Int] /\ a \in Int
  BY Leftover
<1>2. PICK S \in SUBSET DOMAIN weights : Lucky(total, weights, S) /\ share = Raised(whole, S)
  BY LargestRemainderIs
<1>3. S \in SUBSET D /\ Cardinality(S) = k
  BY <1>2 DEF Lucky
<1>4. k = IF total - a > 0 THEN total - a ELSE 0
  BY DEF Handed, Left
<1> HIDE DEF whole
<1>5. share \in [D -> Int] /\ Total(share) = a + k
  BY <1>1, <1>2, <1>3, RaisedTotal
<1> HIDE DEF a, k
<1> QED
  BY <1>1, <1>4, <1>5

\* By weights of which none is negative an amount is divided without loss
\* and without gain (money.split_by_ratio: "parts sum to exactly `total`").
THEOREM SplitAddsUp ==
  ASSUME NEW D, IsFiniteSet(D), NEW total \in Nat, NEW weights \in [D -> Nat], Total(weights) > 0,
         NEW share \in LargestRemainder(total, weights)
  PROVE  share \in [D -> Nat] /\ Total(share) = total
<1> DEFINE W == Total(weights)
           whole == Whole(total, weights)
           rest == Rest(total, weights)
           left == Left(total, weights)
           a == Total(whole)
           k == Handed(total, weights)
<1>0. weights \in [D -> Int]
  OBVIOUS
<1>1. /\ W \in Nat \ {0} /\ whole \in [D -> Nat] /\ whole \in [D -> Int] /\ a \in Int
      /\ rest \in [D -> 0 .. W - 1] /\ Total(rest) = W * left
  <2>1. /\ W \in Nat \ {0} /\ whole \in [D -> Int] /\ a \in Int
        /\ Total(rest) = W * left
    BY <1>0, Leftover
  <2>2. whole \in [D -> Nat] /\ rest \in [D -> 0 .. W - 1]
    BY <1>0, Leftover
  <2> QED
    BY <2>1, <2>2
<1>2. left = total - a /\ k = IF left > 0 THEN left ELSE 0
  BY DEF Handed, Left
<1>3. PICK S \in SUBSET DOMAIN weights : Lucky(total, weights, S) /\ share = Raised(whole, S)
  BY LargestRemainderIs
<1>4. S \in SUBSET D /\ Cardinality(S) = k
  BY <1>3 DEF Lucky
<1> HIDE DEF W, whole, rest, left, a, k
<1>5. /\ share \in [D -> Int] /\ Total(share) = Total(whole) + k
      /\ \A m \in D : share[m] = IF m \in S THEN whole[m] + 1 ELSE whole[m]
  BY <1>1, <1>3, <1>4, RaisedTotal
<1>6. share \in [D -> Nat]
  BY <1>1, <1>5
<1>7. left >= 0
  <2>1. rest \in [D -> Nat]
    BY <1>1
  <2>2. Total(rest) \in Nat
    BY <2>1, TotalNat
  <2>3. W * left \in Nat /\ left \in Int
    BY <1>1, <1>2, <2>2
  <2> QED
    BY <1>1, <2>3
<1> QED
  BY <1>1, <1>2, <1>5, <1>6, <1>7 DEF a

\* Nobody who is lucky had nothing left over: where the leftover rupees are
\* dealt out, there are fewer of them than people with a fraction.
LEMMA LuckyHasRest ==
  ASSUME NEW D, IsFiniteSet(D), NEW total \in Nat, NEW weights \in [D -> Int], Total(weights) > 0,
         NEW S, Lucky(total, weights, S), NEW m \in S
  PROVE  Rest(total, weights)[m] > 0
<1> DEFINE W == Total(weights)
           rest == Rest(total, weights)
           k == Cardinality(S)
           left == Left(total, weights)
<1>1. /\ W \in Nat \ {0} /\ rest \in [D -> 1 - W .. W - 1] /\ Total(rest) \in Int
      /\ Total(rest) = W * left
  BY Leftover
<1>2. /\ S \in SUBSET D /\ k = IF left > 0 THEN left ELSE 0
      /\ \A i \in S, n \in D \ S : rest[i] >= rest[n]
  BY DEF Lucky, Handed
<1>3. Total(rest) = W * k
  <2>1. IsFiniteSet(S)
    BY <1>2, FS_Subset
  <2>2. k # 0
    BY <2>1, FS_EmptySet
  <2>3. k = left
    BY <1>2, <2>2
  <2> QED
    BY <1>1, <2>3
<1> HIDE DEF W, rest, k, left
<1> SUFFICES ASSUME rest[m] <= 0 PROVE FALSE
  BY <1>1, <1>2 DEF rest
<1> DEFINE T == S \ {m}
           most == [n \in D |-> IF n \in T THEN W - 1 ELSE 0]
           same == [n \in T |-> W - 1]
           ones == Even(T)
<1>4. IsFiniteSet(S) /\ IsFiniteSet(T) /\ T \in SUBSET D /\ Cardinality(T) = k - 1 /\ k \in Nat
  BY <1>2, FS_Subset, FS_RemoveElement, FS_CardinalityType DEF k
<1>5. /\ most \in [D -> Int] /\ \A n \in D : most[n] = IF n \in T THEN same[n] ELSE 0
      /\ \A n \in D : most[n] = IF n \in T THEN W - 1 ELSE 0
      /\ same \in [T -> Int] /\ \A n \in T : same[n] = (W - 1) * ones[n]
      /\ ones \in [T -> Int] /\ \A n \in T : ones[n] = 1
  <2>1. W - 1 \in Int
    BY <1>1
  <2> QED
    BY <2>1 DEF Even
<1>6. rest \in [D -> Int] /\ \A n \in D : rest[n] <= most[n]
  <2>1. rest \in [D -> Int]
    BY <1>1
  <2>2. ASSUME NEW n \in D PROVE rest[n] <= most[n]
    <3>1. rest[n] \in 1 - W .. W - 1 /\ most[n] = IF n \in T THEN W - 1 ELSE 0
      BY <1>1, <1>5
    <3>2. n \notin T => rest[n] <= 0
      <4>1. rest[n] \in Int /\ rest[m] \in Int /\ rest[m] <= 0
        BY <1>1, <1>2
      <4>2. n \notin T => n = m \/ rest[m] >= rest[n]
        BY <1>2
      <4> QED
        BY <4>1, <4>2
    <3> QED
      BY <1>1, <3>1, <3>2
  <2> QED
    BY <2>1, <2>2
<1> HIDE DEF most, same, ones, T
<1>7. Total(rest) <= Total(most)
  BY <1>5, <1>6, TotalAtMost
<1>8. Total(most) = Total(same)
  <2>1. IsFilled(most, same, T, D)
    BY <1>4, <1>5 DEF IsFilled
  <2> QED
    BY <2>1, TotalWithout
<1>9. Total(same) = (W - 1) * Total(ones)
  <2>1. W - 1 \in Int
    BY <1>1
  <2> QED
    BY <1>4, <1>5, <2>1, TotalTimes
<1>10. Total(ones) = k - 1
  BY <1>4, <1>5, TotalOnes
<1>11. W * k <= (W - 1) * (k - 1)
  BY <1>3, <1>7, <1>8, <1>9, <1>10
<1>12. k > 0
  BY <1>4, FS_EmptySet DEF k
<1>13. (W - 1) * (k - 1) = W * k - W - k + 1
  BY <1>1, <1>4
<1> QED
  BY <1>1, <1>4, <1>11, <1>12, <1>13

\* Every share is less than a rupee away from the exact proportion of its
\* weight, whoever the leftover rupees go to and also where a weight is
\* negative.
THEOREM SplitIsFair ==
  ASSUME NEW D, IsFiniteSet(D), NEW total \in Nat, NEW weights \in [D -> Int], Total(weights) > 0,
         NEW share \in LargestRemainder(total, weights), NEW m \in D
  PROVE  LET W == Total(weights)
             off == share[m] * W - total * weights[m] IN -W < off /\ off < W
<1> DEFINE W == Total(weights)
           whole == Whole(total, weights)
           rest == Rest(total, weights)
<1>1. /\ W \in Nat \ {0} /\ whole \in [D -> Int] /\ rest \in [D -> 1 - W .. W - 1]
      /\ total * weights[m] = W * whole[m] + rest[m]
  <2>1. W \in Nat \ {0} /\ whole \in [D -> Int] /\ rest \in [D -> 1 - W .. W - 1]
    BY Leftover
  <2>2. \A n \in D : total * weights[n] = W * whole[n] + rest[n]
    <3>1. WholeAndRestAddUp(total, weights)
      BY Leftover
    <3> QED
      BY <3>1 DEF WholeAndRestAddUp
  <2> QED
    BY <2>1, <2>2
<1>2. PICK S \in SUBSET DOMAIN weights : Lucky(total, weights, S) /\ share = Raised(whole, S)
  BY LargestRemainderIs
<1>3. S \in SUBSET D
  BY <1>2
<1>4. m \in S => rest[m] > 0
  BY <1>2, LuckyHasRest
<1> HIDE DEF W, whole, rest
<1>5. share[m] = IF m \in S THEN whole[m] + 1 ELSE whole[m]
  BY <1>1, <1>2, <1>3, RaisedTotal
<1> DEFINE a == whole[m]
           b == rest[m]
           x == total * weights[m]
<1>6. a \in Int /\ b \in 1 - W .. W - 1 /\ x = W * a + b
  BY <1>1
<1>7. share[m] = a \/ (share[m] = a + 1 /\ b > 0)
  BY <1>4, <1>5, <1>6 DEF x
<1> HIDE DEF a, b, x
<1>8. (a + 1) * W = W * a + W /\ a * W = W * a
  BY <1>1, <1>6
<1>9. -W < share[m] * W - x /\ share[m] * W - x < W
  BY <1>1, <1>6, <1>7, <1>8
<1> QED
  BY <1>9 DEF x, W

\* k of the people whose fractions nobody else's exceeds.
HasLuckiest(D, rest, k) ==
  \E S \in SUBSET D : /\ Cardinality(S) = k
                      /\ \A m \in S, n \in D \ S : rest[m] >= rest[n]

LEMMA LuckiestExist ==
  ASSUME NEW D, IsFiniteSet(D), NEW W \in Nat \ {0}, NEW rest \in [D -> 1 - W .. W - 1],
         NEW k \in 0 .. Cardinality(D)
  PROVE  HasLuckiest(D, rest, k)
<1>0. Cardinality(D) \in Nat
  BY FS_CardinalityType
<1>1. HasLuckiest(D, rest, 0)
  <2>1. {} \in SUBSET D /\ Cardinality({}) = 0
    BY FS_EmptySet
  <2> QED
    BY <2>1 DEF HasLuckiest
<1>2. ASSUME NEW j \in Nat, j < Cardinality(D), HasLuckiest(D, rest, j)
      PROVE  HasLuckiest(D, rest, j + 1)
  <2>1. PICK S \in SUBSET D : /\ Cardinality(S) = j
                              /\ \A m \in S, n \in D \ S : rest[m] >= rest[n]
    BY <1>2 DEF HasLuckiest
  <2>2. D \ S # {}
    <3> SUFFICES ASSUME D \ S = {} PROVE FALSE
      OBVIOUS
    <3>1. S = D
      OBVIOUS
    <3> QED
      BY <1>0, <1>2, <2>1, <3>1
  <2>3. PICK x \in D \ S : \A n \in D \ S : rest[n] <= rest[x]
    <3> DEFINE T == {W - rest[n] : n \in D \ S}
    <3>1. T \in SUBSET Nat /\ T # {}
      BY <2>2
    <3>2. PICK t \in T : \A u \in T : t <= u
      BY <3>1, LeastNumber
    <3>3. PICK y \in D \ S : t = W - rest[y]
      BY <3>2
    <3>4. \A n \in D \ S : W - rest[y] <= W - rest[n]
      BY <3>2, <3>3
    <3>5. \A n \in D : rest[n] \in Int
      OBVIOUS
    <3>6. \A n \in D \ S : rest[n] <= rest[y]
      BY <3>3, <3>4, <3>5
    <3> QED
      BY <3>3, <3>6
  <2> DEFINE R == S \cup {x}
  <2>4. Cardinality(R) = j + 1
    <3>1. IsFiniteSet(S)
      BY FS_Subset
    <3>2. Cardinality(R) = Cardinality(S) + 1
      BY <2>3, <3>1, FS_AddElement
    <3> QED
      BY <2>1, <3>2
  <2>5. R \in SUBSET D /\ \A m \in R, n \in D \ R : rest[m] >= rest[n]
    <3>1. \A n \in D : rest[n] \in Int
      OBVIOUS
    <3>2. \A m \in R, n \in D \ R : rest[m] >= rest[n]
      BY <2>1, <2>3, <3>1
    <3> QED
      BY <2>3, <3>2
  <2> HIDE DEF R
  <2> QED
    BY <2>4, <2>5 DEF HasLuckiest
<1> DEFINE Bad == {j \in Nat : j <= Cardinality(D) /\ ~HasLuckiest(D, rest, j)}
<1>3. Bad = {}
  <2> SUFFICES ASSUME Bad # {} PROVE FALSE
    OBVIOUS
  <2>1. PICK j \in Bad : \A i \in Bad : j <= i
    BY LeastNumber
  <2>2. j # 0 /\ j - 1 \in Nat
    BY <1>1
  <2>3. j - 1 < Cardinality(D) /\ j - 1 \notin Bad
    BY <1>0, <2>1, <2>2
  <2>4. HasLuckiest(D, rest, j - 1)
    BY <1>0, <2>2, <2>3
  <2>5. HasLuckiest(D, rest, (j - 1) + 1)
    BY <1>2, <2>2, <2>3, <2>4
  <2> QED
    BY <2>1, <2>2, <2>5
<1> QED
  BY <1>0, <1>3

\* There is always a way to divide an amount among people whose weights add
\* up to more than nothing: the leftover rupees are no more than the people to
\* take one each.
THEOREM SplitExists ==
  ASSUME NEW D, IsFiniteSet(D), NEW total \in Nat, NEW weights \in [D -> Int], Total(weights) > 0
  PROVE  LargestRemainder(total, weights) # {}
<1> DEFINE W == Total(weights)
           rest == Rest(total, weights)
           left == Left(total, weights)
           k == Handed(total, weights)
           n == Cardinality(D)
<1>1. /\ W \in Nat \ {0} /\ rest \in [D -> 1 - W .. W - 1]
      /\ Total(rest) \in Int /\ Total(rest) = W * left /\ Total(Whole(total, weights)) \in Int
  BY Leftover
<1>2. n \in Nat /\ left \in Int /\ k = IF left > 0 THEN left ELSE 0
  BY <1>1, FS_CardinalityType DEF Left, Handed
<1> HIDE DEF W, rest, k, left, n
<1> DEFINE most == [m \in D |-> W - 1]
           ones == Even(D)
<1>3. /\ most \in [D -> Int] /\ \A m \in D : most[m] = W - 1
      /\ \A m \in D : most[m] = (W - 1) * ones[m]
      /\ ones \in [D -> Int] /\ \A m \in D : ones[m] = 1
  BY <1>1 DEF Even
<1>4. rest \in [D -> Int] /\ W - 1 \in Int /\ \A m \in D : rest[m] <= W - 1
  BY <1>1
<1> HIDE DEF most, ones
<1>5. Total(rest) <= Total(most)
  <2>1. \A m \in D : rest[m] <= most[m]
    BY <1>3, <1>4
  <2> QED
    BY <1>3, <1>4, <2>1, TotalAtMost
<1>6. Total(most) = (W - 1) * Total(ones)
  BY <1>3, <1>4, TotalTimes
<1>7. Total(ones) = n
  BY <1>3, TotalOnes DEF n
<1>8. W * left <= (W - 1) * n
  BY <1>1, <1>5, <1>6, <1>7
<1>9. k >= 0
  BY <1>2
<1>10. k <= n
  <2>1. (W - 1) * n <= W * n
    BY <1>1, <1>2
  <2>2. W * left <= W * n
    BY <1>1, <1>2, <1>8, <2>1
  <2>3. left <= n
    BY <1>1, <1>2, <2>2
  <2> QED
    BY <1>2, <2>3
<1>11. HasLuckiest(D, rest, k)
  BY <1>1, <1>2, <1>9, <1>10, LuckiestExist DEF n
<1>12. PICK S \in SUBSET D : /\ Cardinality(S) = k
                             /\ \A m \in S, i \in D \ S : rest[m] >= rest[i]
  BY <1>11 DEF HasLuckiest
<1>13. Lucky(total, weights, S)
  BY <1>12 DEF Lucky, k, rest
<1>14. S \in SUBSET DOMAIN weights
  OBVIOUS
<1> QED
  BY <1>13, <1>14, LargestRemainderIs

\* The same for the rule the flat uses, which shares equally where nobody
\* has a weight (billing._bill_shares, settlements._compute).
THEOREM RatioSplitAddsUp ==
  ASSUME NEW D, IsFiniteSet(D), D # {}, NEW total \in Nat, NEW weights \in [D -> Nat],
         NEW share \in SplitByRatio(total, weights)
  PROVE  share \in [D -> Nat] /\ Total(share) = total
<1>1. DOMAIN weights = D
  OBVIOUS
<1>2. Total(weights) \in Nat
  BY TotalNat
<1>3. CASE Total(weights) = 0
  <2>1. share \in LargestRemainder(total, Even(D))
    BY <1>1, <1>3 DEF SplitByRatio
  <2>2. Even(D) \in [D -> Nat] /\ Even(D) \in [D -> Int] /\ \A m \in D : Even(D)[m] = 1
    BY DEF Even
  <2>3. Total(Even(D)) = Cardinality(D)
    BY <2>2, TotalOnes
  <2>4. Cardinality(D) \in Nat /\ Cardinality(D) # 0
    BY FS_CardinalityType, FS_EmptySet
  <2>5. Total(Even(D)) > 0
    BY <2>3, <2>4
  <2> QED
    BY <2>1, <2>2, <2>5, SplitAddsUp
<1>4. CASE Total(weights) # 0
  <2>1. Total(weights) > 0 /\ ~ (Total(weights) <= 0)
    BY <1>2, <1>4
  <2>2. share \in LargestRemainder(total, weights)
    BY <1>1, <2>1, Zenon DEF SplitByRatio
  <2> QED
    BY <2>1, <2>2, SplitAddsUp
<1> QED
  BY <1>3, <1>4

-----------------------------------------------------------------------------
(* One amount changed, and one added at the end of a list.                 *)

\* h is f with v added for x.
IsChanged(h, f, x, v, D) ==
  /\ f \in [D -> Int] /\ h \in [D -> Int] /\ x \in D /\ v \in Int
  /\ \A m \in D : h[m] = IF m = x THEN f[m] + v ELSE f[m]

LEMMA TotalChanged ==
  ASSUME NEW D, IsFiniteSet(D), NEW f, NEW x, NEW v, NEW h, IsChanged(h, f, x, v, D)
  PROVE  Total(h) = Total(f) + v
<1> DEFINE one == [m \in {x} |-> v]
<1>1. one \in [{x} -> Int] /\ one[x] = v
  BY DEF IsChanged
<1> HIDE DEF one
<1>2. IsSum(h, f, one, {x}, D)
  BY <1>1 DEF IsSum, IsChanged
<1>3. Total(h) = Total(f) + Total(one)
  BY <1>2, TotalAdds
<1>4. Total(one) = v
  BY <1>1, TotalSingle
<1> QED
  BY <1>3, <1>4

LEMMA TotalAppended ==
  ASSUME NEW n \in Nat, NEW f \in [1 .. n -> Int], NEW h \in [1 .. n + 1 -> Int],
         \A i \in 1 .. n : h[i] = f[i]
  PROVE  Total(h) = Total(f) + h[n + 1]
<1>1. IsFiniteSet(1 .. n + 1) /\ IsFiniteSet(1 .. n)
  BY FS_Interval
<1>2. n + 1 \in 1 .. n + 1 /\ (1 .. n + 1) \ {n + 1} = 1 .. n
  OBVIOUS
<1> DEFINE E == 1 .. n + 1
           x == n + 1
<1>3. h \in [E -> Int] /\ IsFiniteSet(E) /\ x \in E
  BY <1>1, <1>2
<1>4. On(h, E \ {x}) = f
  BY <1>2 DEF On
<1> HIDE DEF E, x
<1>6. Total(h) = h[x] + Total(On(h, E \ {x}))
  BY <1>3, TotalTakes
<1>5. Total(f) \in Int /\ h[n + 1] \in Int
  BY <1>1, <1>2, TotalInt
<1> QED
  BY <1>4, <1>5, <1>6 DEF x

\* The same numbers in a row, k places further on.
Moved(S, k) == {a + k : a \in S}

IsMoved(g, f, D, k) ==
  /\ D \in SUBSET Int /\ k \in Int /\ f \in [D -> Int] /\ g \in [Moved(D, k) -> Int]
  /\ \A a \in D : g[a + k] = f[a]

LEMMA MovedIs ==
  ASSUME NEW D \in SUBSET Int, NEW k \in Int
  PROVE  /\ Moved({}, k) = {}
         /\ \A s \in SUBSET D : Moved(s, k) \in SUBSET Moved(D, k)
         /\ \A s \in SUBSET D : \A x \in s :
              x + k \in Moved(s, k) /\ Moved(s, k) \ {x + k} = Moved(s \ {x}, k)
<1>1. Moved({}, k) = {} /\ \A s \in SUBSET D : Moved(s, k) \in SUBSET Moved(D, k)
  BY DEF Moved
<1>2. ASSUME NEW s \in SUBSET D, NEW x \in s
      PROVE  x + k \in Moved(s, k) /\ Moved(s, k) \ {x + k} = Moved(s \ {x}, k)
  <2>1. \A a \in s : a \in Int
    OBVIOUS
  <2>2. \A a \in s : a + k = x + k <=> a = x
    BY <2>1
  <2> QED
    BY <2>2 DEF Moved
<1> QED
  BY <1>1, <1>2

LEMMA TotalMoved ==
  ASSUME NEW D, IsFiniteSet(D), NEW f, NEW g, NEW k, IsMoved(g, f, D, k)
  PROVE  Total(g) = Total(f)
<1> DEFINE E == Moved(D, k)
           Bad == {s \in SUBSET D : Total(On(g, Moved(s, k))) # Total(On(f, s))}
<1>1. /\ D \in SUBSET Int /\ k \in Int /\ f \in [D -> Int] /\ g \in [E -> Int]
      /\ \A a \in D : g[a + k] = f[a]
  BY DEF IsMoved
<1>2. IsFiniteSet(E)
  <2> DEFINE move == [a \in D |-> a + k]
  <2>1. move \in Surjection(D, E)
    BY DEF Moved, Surjection
  <2> HIDE DEF move, E
  <2> QED
    BY <2>1, FS_Surjection
<1>3. /\ Moved({}, k) = {} /\ \A s \in SUBSET D : Moved(s, k) \in SUBSET E
      /\ \A s \in SUBSET D : \A x \in s :
           x + k \in Moved(s, k) /\ Moved(s, k) \ {x + k} = Moved(s \ {x}, k)
  BY <1>1, MovedIs
<1> HIDE DEF E
<1>4. Bad = {}
  <2> SUFFICES ASSUME Bad # {} PROVE FALSE
    OBVIOUS
  <2>1. PICK s \in Bad : \A x \in s : s \ {x} \notin Bad
    BY SmallestSubset
  <2>2. CASE s = {}
    <3>1. Total(On(f, s)) = 0
      BY <1>1, <2>2, TotalOn
    <3>2. Moved(s, k) \in SUBSET E /\ Moved(s, k) = {}
      BY <1>3, <2>2
    <3>3. Total(On(g, Moved(s, k))) = 0
      BY <1>1, <1>2, <3>2, TotalOn
    <3> QED
      BY <2>1, <3>1, <3>3
  <2>3. CASE s # {}
    <3>1. PICK x \in s : TRUE
      BY <2>3
    <3>2. Total(On(f, s)) = f[x] + Total(On(f, s \ {x}))
      <4>1. f \in [D -> Int] /\ s \in SUBSET D /\ x \in s
        BY <1>1
      <4> HIDE DEF Bad
      <4> QED
        BY <4>1, TotalOn
    <3>3. Moved(s, k) \in SUBSET E /\ x + k \in Moved(s, k) /\ Moved(s, k) \ {x + k} = Moved(s \ {x}, k)
      BY <1>3, <2>1, <3>1
    <3>4. Total(On(g, Moved(s, k))) = g[x + k] + Total(On(g, Moved(s, k) \ {x + k}))
      <4> DEFINE t == Moved(s, k)
                 y == x + k
      <4>1. t \in SUBSET E /\ y \in t /\ g \in [E -> Int] /\ IsFiniteSet(E)
        BY <1>1, <1>2, <3>3
      <4> HIDE DEF t, y
      <4>2. Total(On(g, t)) = g[y] + Total(On(g, t \ {y}))
        BY <4>1, TotalOn
      <4> QED
        BY <4>2 DEF t, y
    <3>5. Total(On(g, Moved(s \ {x}, k))) = Total(On(f, s \ {x}))
      BY <2>1, <3>1
    <3>6. g[x + k] = f[x]
      BY <1>1, <2>1, <3>1
    <3> QED
      BY <2>1, <3>2, <3>3, <3>4, <3>5, <3>6
  <2> QED
    BY <2>2, <2>3
<1>5. On(f, D) = f /\ On(g, E) = g
  BY <1>1 DEF On
<1>6. Total(On(g, Moved(D, k))) = Total(On(f, D))
  BY <1>4
<1> QED
  BY <1>5, <1>6 DEF E

\* A list of numbers with one put before it.
IsPrepended(h, f, n) ==
  /\ n \in Nat /\ f \in [1 .. n -> Int] /\ h \in [1 .. n + 1 -> Int]
  /\ \A i \in 1 .. n : h[i + 1] = f[i]

LEMMA TotalPrepended ==
  ASSUME NEW n, NEW f, NEW h, IsPrepended(h, f, n)
  PROVE  Total(h) = h[1] + Total(f)
<1> DEFINE D == 1 .. n
           E == 1 .. n + 1
           g == [i \in E \ {1} |-> h[i]]
<1>1. /\ n \in Nat /\ f \in [D -> Int] /\ h \in [E -> Int] /\ \A i \in D : h[i + 1] = f[i]
      /\ IsFiniteSet(D) /\ IsFiniteSet(E) /\ 1 \in E
  BY FS_Interval DEF IsPrepended
<1>2. E \ {1} = Moved(D, 1) /\ D \in SUBSET Int
  <2>1. n \in Nat
    BY <1>1
  <2>2. ASSUME NEW j \in E \ {1} PROVE j - 1 \in D /\ j = (j - 1) + 1
    BY <2>1
  <2>3. \A i \in D : i + 1 \in E \ {1}
    BY <2>1
  <2> HIDE DEF D, E
  <2>4. E \ {1} = Moved(D, 1)
    BY <2>2, <2>3 DEF Moved
  <2> QED
    BY <2>4 DEF D
<1>3. g \in [E \ {1} -> Int] /\ \A j \in E \ {1} : g[j] = h[j]
  BY <1>1
<1>4. \A i \in D : i + 1 \in E \ {1}
  BY <1>2 DEF Moved
<1>5. IsMoved(g, f, D, 1)
  <2> HIDE DEF D, E, g
  <2> QED
    BY <1>1, <1>2, <1>3, <1>4 DEF IsMoved
<1> HIDE DEF D, E
<1>6. Total(h) = h[1] + Total(g)
  <2>1. h \in [E -> Int] /\ IsFiniteSet(E) /\ 1 \in E
    BY <1>1
  <2>2. Total(h) = h[1] + Total(On(h, E \ {1}))
    BY <2>1, TotalTakes
  <2> QED
    BY <2>2 DEF On
<1> HIDE DEF g
<1>7. Total(g) = Total(f)
  BY <1>1, <1>5, TotalMoved
<1> QED
  BY <1>6, <1>7

-----------------------------------------------------------------------------
(* A table adds up the same by rows and by columns.                        *)

RowTotals(f, s) == [x \in s |-> Total(f[x])]

Column(f, s, y) == [x \in s |-> f[x][y]]

ColumnTotals(f, s, E) == [y \in E |-> Total(Column(f, s, y))]

LEMMA TableTyped ==
  ASSUME NEW s, IsFiniteSet(s), NEW E, IsFiniteSet(E), NEW f, \A x \in s : f[x] \in [E -> Int]
  PROVE  /\ RowTotals(f, s) \in [s -> Int] /\ ColumnTotals(f, s, E) \in [E -> Int]
         /\ \A y \in E : Column(f, s, y) \in [s -> Int]
<1>1. \A x \in s : Total(f[x]) \in Int
  BY TotalInt
<1>2. ASSUME NEW y \in E PROVE Column(f, s, y) \in [s -> Int] /\ Total(Column(f, s, y)) \in Int
  <2>1. Column(f, s, y) \in [s -> Int]
    <3>1. \A x \in s : f[x][y] \in Int
      OBVIOUS
    <3> QED
      BY <3>1 DEF Column
  <2> QED
    BY <2>1, TotalInt
<1>3. RowTotals(f, s) \in [s -> Int]
  BY <1>1 DEF RowTotals
<1>4. ColumnTotals(f, s, E) \in [E -> Int]
  BY <1>2 DEF ColumnTotals
<1> QED
  BY <1>2, <1>3, <1>4

LEMMA TableWithoutRows ==
  ASSUME NEW E, IsFiniteSet(E), NEW f
  PROVE  Total(RowTotals(f, {})) = Total(ColumnTotals(f, {}, E))
<1>1. /\ RowTotals(f, {}) \in [{} -> Int]
      /\ \A y \in E : Column(f, {}, y) \in [{} -> Int]
  BY DEF RowTotals, Column
<1>2. Total(RowTotals(f, {})) = 0
  BY <1>1, TotalEmpty
<1>3. \A y \in E : Total(Column(f, {}, y)) = 0
  BY <1>1, TotalEmpty
<1>4. /\ ColumnTotals(f, {}, E) \in [E -> Int]
      /\ \A y \in E : ColumnTotals(f, {}, E)[y] = 0
  BY <1>3 DEF ColumnTotals
<1>5. Total(ColumnTotals(f, {}, E)) = 0
  BY <1>4, TotalZero
<1> QED
  BY <1>2, <1>5

LEMMA TableTakesRow ==
  ASSUME NEW s, IsFiniteSet(s), NEW E, IsFiniteSet(E), NEW f, \A x \in s : f[x] \in [E -> Int],
         NEW x \in s, Total(RowTotals(f, s \ {x})) = Total(ColumnTotals(f, s \ {x}, E))
  PROVE  Total(RowTotals(f, s)) = Total(ColumnTotals(f, s, E))
<1> DEFINE rest == s \ {x}
<1>1. IsFiniteSet(rest) /\ \A z \in rest : f[z] \in [E -> Int]
  BY FS_Subset
<1>2. /\ RowTotals(f, s) \in [s -> Int] /\ ColumnTotals(f, s, E) \in [E -> Int]
      /\ \A y \in E : Column(f, s, y) \in [s -> Int]
  BY TableTyped
<1>3. RowTotals(f, rest) \in [rest -> Int] /\ ColumnTotals(f, rest, E) \in [E -> Int]
  BY <1>1, TableTyped
<1>4. Total(RowTotals(f, s)) = Total(f[x]) + Total(RowTotals(f, rest))
  <2> DEFINE h == RowTotals(f, s)
  <2>2. h \in [s -> Int] /\ h[x] = Total(f[x])
    BY <1>2 DEF RowTotals
  <2>3. On(h, s \ {x}) = RowTotals(f, rest)
    BY DEF On, RowTotals
  <2> HIDE DEF h
  <2>1. Total(h) = h[x] + Total(On(h, s \ {x}))
    BY <2>2, TotalTakes
  <2> QED
    BY <2>1, <2>2, <2>3 DEF h
<1>5. ASSUME NEW y \in E
      PROVE  ColumnTotals(f, s, E)[y] = ColumnTotals(f, rest, E)[y] + f[x][y]
  <2> DEFINE h == Column(f, s, y)
  <2>2. h \in [s -> Int] /\ h[x] = f[x][y]
    BY <1>2 DEF Column
  <2>3. On(h, s \ {x}) = Column(f, rest, y)
    BY DEF On, Column
  <2>4. /\ ColumnTotals(f, s, E)[y] = Total(h)
        /\ ColumnTotals(f, rest, E)[y] = Total(Column(f, rest, y))
    BY DEF ColumnTotals
  <2>5. f[x][y] \in Int /\ ColumnTotals(f, rest, E)[y] \in Int
    BY <1>3
  <2> HIDE DEF rest, h
  <2>1. Total(h) = h[x] + Total(On(h, s \ {x}))
    BY <2>2, TotalTakes
  <2> QED
    BY <2>1, <2>2, <2>3, <2>4, <2>5
<1> HIDE DEF rest
<1>6. IsSum(ColumnTotals(f, s, E), ColumnTotals(f, rest, E), f[x], E, E)
  BY <1>2, <1>3, <1>5 DEF IsSum
<1>7. Total(ColumnTotals(f, s, E)) = Total(ColumnTotals(f, rest, E)) + Total(f[x])
  BY <1>6, TotalAdds
<1>8. Total(RowTotals(f, rest)) \in Int /\ Total(f[x]) \in Int
  BY <1>1, <1>3, TotalInt
<1>9. Total(RowTotals(f, rest)) = Total(ColumnTotals(f, rest, E))
  BY DEF rest
<1> QED
  BY <1>4, <1>7, <1>8, <1>9

LEMMA TotalSwap ==
  ASSUME NEW D, IsFiniteSet(D), NEW E, IsFiniteSet(E), NEW f, \A x \in D : f[x] \in [E -> Int]
  PROVE  Total(RowTotals(f, D)) = Total(ColumnTotals(f, D, E))
<1> DEFINE Bad == {s \in SUBSET D : Total(RowTotals(f, s)) # Total(ColumnTotals(f, s, E))}
<1>1. Bad \in SUBSET SUBSET D
  OBVIOUS
<1> SUFFICES ASSUME Bad # {} PROVE FALSE
  OBVIOUS
<1>2. PICK s \in Bad : \A x \in s : s \ {x} \notin Bad
  BY <1>1, SmallestSubset
<1>3. s \in SUBSET D /\ Total(RowTotals(f, s)) # Total(ColumnTotals(f, s, E))
  BY <1>2
<1>4. IsFiniteSet(s) /\ \A x \in s : f[x] \in [E -> Int]
  BY <1>3, FS_Subset
<1>5. s # {}
  BY <1>3, TableWithoutRows
<1>6. PICK x \in s : TRUE
  BY <1>5
<1>7. s \ {x} \in SUBSET D /\ s \ {x} \notin Bad
  BY <1>2, <1>3
<1>8. Total(RowTotals(f, s \ {x})) = Total(ColumnTotals(f, s \ {x}, E))
  BY <1>7
<1> QED
  BY <1>3, <1>4, <1>6, <1>8, TableTakesRow

=============================================================================
