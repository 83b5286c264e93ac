--------------------------- MODULE MCRuntimeTrace ---------------------------
(* Values for the instances of RuntimeTrace that TLC checks. *)
EXTENDS RuntimeTrace, TLC

SecondIsLong == {2}
\* Lane 0 emits once; lane 1 twice, enough to find its ring full or to be interrupted.
OneThenTwo == (0 :> 1) @@ (1 :> 2)
=============================================================================
