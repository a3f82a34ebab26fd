-------------------------------- MODULE Sums --------------------------------
(***************************************************************************)
(* Sums of amounts, by counting: the sum of f over I is the number of      *)
(* units, a unit being a pair <<i, k>> with k one of the f[i] units of i.  *)
(* No recursion is needed, so that sums can be proved about.               *)
(***************************************************************************)
EXTENDS Integers, FiniteSets

Units(f, I) == UNION {{i} \X (1..f[i]) : i \in I}

SumOver(f, I) == Cardinality(Units(f, I))

=============================================================================
