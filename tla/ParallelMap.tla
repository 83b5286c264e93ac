---------------------------- MODULE ParallelMap ----------------------------
(***************************************************************************)
(* What a caller of run_cells may rely on, with no threads, locks or pool:  *)
(* a call works through its cells in any order, each once, and returns the  *)
(* results in input order, unless a cell panicked and the call panics too.  *)
(***************************************************************************)
EXTENDS Naturals

VARIABLES
  size,     \* cells of the current call
  done,     \* cells whose result is held
  outcome,  \* "running", "returned" or "panicked"
  output    \* the vector returned

vars == <<size, done, outcome, output>>

Init == size = 0 /\ done = {} /\ outcome = "returned" /\ output = <<>>

Start ==
  /\ outcome = "returned" /\ outcome' = "running"
  /\ size' \in Nat /\ done' = {} /\ output' = <<>>

Complete ==
  /\ outcome = "running"
  /\ \E c \in (1..size) \ done : done' = done \cup {c}
  /\ UNCHANGED <<size, outcome, output>>

Return ==
  /\ outcome = "running" /\ done = 1..size
  /\ outcome' = "returned" /\ output' = [c \in 1..size |-> c]
  /\ UNCHANGED <<size, done>>

Panic ==
  /\ outcome = "running" /\ outcome' = "panicked"
  /\ UNCHANGED <<size, done, output>>

Next == Start \/ Complete \/ Return \/ Panic

Spec == Init /\ [][Next]_vars
=============================================================================
