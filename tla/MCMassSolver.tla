---------------------------- MODULE MCMassSolver ----------------------------
(* Curves and hash for the instance of MassSolver that TLC checks. *)
EXTENDS MassSolver

Levels == {-4, -2, 0, 3}

\* Every third mass begins its probing at the same slot.
HomeByThrees == [m \in 0..MassMax + Xtol |-> m % 3]
=============================================================================
