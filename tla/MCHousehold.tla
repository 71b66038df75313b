---------------------------- MODULE MCHousehold ----------------------------
(***************************************************************************)
(* Household for TLC: two people, whose roles change under everything else.*)
(***************************************************************************)
EXTENDS Household

CONSTANTS ann, bob, f1, f2, f3

Halves == [m \in {ann, bob} |-> 50]

AllOfIt(m) == [n \in {m} |-> 100]

SomeShares == {Halves, AllOfIt(ann)}

\* A total that does not divide.
SomeBills == {[total |-> 3, rent |-> TRUE], [total |-> 3, rent |-> FALSE]}

\* One more is split 150 to -50 per cent.
SomeTemplates ==
  {[payer |-> ann,  parts |-> {ann, bob}, storable |-> TRUE],
   [payer |-> None, parts |-> {bob},      storable |-> TRUE],
   [payer |-> ann,  parts |-> {ann, bob}, storable |-> FALSE]}

Fined == [f \in Fines |-> IF f = f1 THEN 3 ELSE 2]

SomeCharges == {[total |-> 1, ratio |-> TRUE], [total |-> 3, ratio |-> FALSE]}

Advances == {2}

Corrections == {-1}

\* Each part of the household with the roster, and the sweep's two parts.
Mixes == {{"role", "remove", "rentshares", "bill", "dispute", "share"},
          {"role", "bill", "template"},
          {"remove", "rentshares", "close"},
          {"role", "rentshares", "charge", "entry"}}

JustClosing   == {{"close"}}
JustTemplates == {{"template"}}
=============================================================================
