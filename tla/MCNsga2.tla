------------------------------- MODULE MCNsga2 -------------------------------
(* Values for the instance of Nsga2 that TLC checks. *)
EXTENDS Nsga2

Row(first, second, violation) == [first |-> first, second |-> second, violation |-> violation]

\* Four rows that do not dominate one another, unevenly spread, one dominated by
\* one of them alone, and two that violate a constraint.
SevenRows ==
  {Row(0, 6, 0), Row(1, 3, 0), Row(3, 1, 0), Row(6, 0, 0), Row(3, 3, 0), Row(0, 0, 1), Row(0, 0, 2)}
=============================================================================
