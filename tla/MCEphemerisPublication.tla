----------------------- MODULE MCEphemerisPublication -----------------------
(* EphemerisPublication for TLC: the threads are interchangeable. *)
EXTENDS EphemerisPublication, TLC

Symmetry == Permutations(Threads)
=============================================================================
