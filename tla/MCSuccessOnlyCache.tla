------------------------- MODULE MCSuccessOnlyCache -------------------------
(* SuccessOnlyCache for TLC: the two caches of jb_rs, compiled and part_a,   *)
(* each under its own cold-load lock.                                        *)
EXTENDS SuccessOnlyCache, TLC

CONSTANTS compiled, part_a

PartAParent == (compiled :> NoCache) @@ (part_a :> compiled)

OwnLock == [c \in Caches |-> c]
=============================================================================
