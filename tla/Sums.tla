-------------------------------- MODULE Sums --------------------------------
(***************************************************************************)
(* Sums of natural numbers over a finite set.  A sum counts units: f[x] of *)
(* them for every x.  Written so, it has no order of summation, and facts  *)
(* about sums are facts about cardinalities.                               *)
(***************************************************************************)
EXTENDS Integers, FiniteSets

Units(f) == UNION {{x} \X (1..f[x]) : x \in DOMAIN f}

\* The sum of f[x] over the domain of f.
Total(f) == Cardinality(Units(f))
=============================================================================
