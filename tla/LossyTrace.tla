----------------------------- MODULE LossyTrace -----------------------------
(***************************************************************************)
(* What a reader of a finished trace file may rely on, with no rings, no    *)
(* writer and no file system: per lane the log is a subsequence, in order,  *)
(* of what was emitted; it is sealed at most once and only after shutdown   *)
(* was asked for; and sealed "complete" it has everything emitted by every  *)
(* lane that was quiet from the shutdown on.                                *)
(***************************************************************************)
EXTENDS Naturals, Sequences

CONSTANT Drivers
Lanes == 0..Drivers

VARIABLES
  emitted,   \* events each lane has numbered
  log,       \* event numbers recorded, by lane
  closing,   \* shutdown was asked for
  verdict,   \* "open" until sealed
  late       \* lanes that were not quiet from the shutdown on

vars == <<emitted, log, closing, verdict, late>>

Init ==
  /\ emitted = [l \in Lanes |-> 0]
  /\ log = [l \in Lanes |-> <<>>]
  /\ closing = FALSE /\ verdict = "open" /\ late = {}

\* A lane emits; an emit that is itself interrupted by one is not numbered.
Emit(l) ==
  /\ \/ emitted' = [emitted EXCEPT ![l] = @ + 1]
     \/ UNCHANGED emitted
  /\ late' = IF closing THEN late \cup {l} ELSE late
  /\ UNCHANGED <<log, closing, verdict>>

Last(s) == IF s = <<>> THEN 0 ELSE s[Len(s)]

Record(l) ==
  /\ verdict = "open"
  /\ \E k \in (Last(log[l]) + 1)..emitted[l] : log' = [log EXCEPT ![l] = Append(@, k)]
  /\ UNCHANGED <<emitted, closing, verdict, late>>

Shutdown ==
  /\ ~closing /\ closing' = TRUE
  /\ late' \in SUBSET Lanes
  /\ UNCHANGED <<emitted, log, verdict>>

Seal ==
  /\ closing /\ verdict = "open"
  /\ \/ verdict' = "lossy"
     \/ /\ verdict' = "complete"
        /\ \A l \in Lanes \ late : log[l] = [k \in 1..emitted[l] |-> k]
  /\ UNCHANGED <<emitted, log, closing, late>>

Next == (\E l \in Lanes : Emit(l) \/ Record(l)) \/ Shutdown \/ Seal

Spec == Init /\ [][Next]_vars
=============================================================================
