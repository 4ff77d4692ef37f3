------------------------------- MODULE Totals -------------------------------
(***************************************************************************)
(* Sums over a finite map of amounts.  A total is written as the number of *)
(* its units, a cardinality, rather than as a recursion: the proof system  *)
(* cannot reason by induction over data, and it can about cardinalities.   *)
(***************************************************************************)
EXTENDS Integers, FiniteSets

\* One element <<x, i>> for each unit i of f[x].
Units(f) == UNION {{x} \X (1..f[x]) : x \in DOMAIN f}

\* The sum of f[x] over the domain of f.
Total(f) == Cardinality(Units(f))
=============================================================================
