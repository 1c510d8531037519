------------------------------- MODULE Totals -------------------------------
(***************************************************************************)
(* Total(f), the sum of a function into Nat, as the number of elements of  *)
(* a disjoint union: f[i] units tagged i for every i.  The program keeps   *)
(* running totals; the properties compare them with this sum.  Stated by   *)
(* cardinality, the lemmas about it follow from those on finite sets       *)
(* without an induction of their own.                                      *)
(***************************************************************************)
EXTENDS Integers, FiniteSets

UnitsOf(f, i) == {i} \X (1 .. f[i])

Units(f) == UNION {UnitsOf(f, i) : i \in DOMAIN f}

Total(f) == Cardinality(Units(f))
=============================================================================
