--------------------------- MODULE Rectification ---------------------------
(***************************************************************************)
(* The Encke propagations of crates/lightyear_odeint_rs, integrator.rs: a    *)
(* thread answers one call after the other, sampled or final, with or        *)
(* without events.  The deviation from a two-body baseline is integrated in  *)
(* legs; between legs the baseline moves to where the satellite is, and what *)
(* a leg returns has to be put back on the baseline the caller gave.         *)
(*                                                                         *)
(* Time is counted in ticks from t0 = 0 towards tf (a backward arc is its    *)
(* mirror image), and a baseline is named by the tick its elements belong    *)
(* to.  What a leg computes is one choice among the answers of its solver,   *)
(* whose own promises (AdaptiveStep) it keeps.  An arc with solar radiation  *)
(* pressure is the business of EclipseCoordinator.                           *)
(***************************************************************************)
EXTENDS Integers, Sequences

CONSTANTS
  Ends,        \* the t_final_s a caller may ask for
  Grids,       \* the t_eval a caller may pass
  Segment,     \* MAX_RECTIFICATION_SEGMENT_S
  MaxLegs,     \* the 100 of integrate_sampled_rectified_path
  MaxRestarts, \* max_restarts of the checked final path
  MaxCalls     \* how many calls the thread makes

ASSUME RectificationAssumption ==
  /\ Ends \subseteq Nat /\ Segment \in Nat \ {0}
  /\ MaxLegs \in Nat /\ MaxRestarts \in Nat \ {0} /\ MaxCalls \in Nat
  /\ \A g \in Grids : g \in Seq(Int) /\ \A i, j \in 1..Len(g) : i < j => g[i] < g[j]

None == -1
Sampling == {"sampled", "events"}         \* integrate_adaptive
Checked == {"final", "finalEvents"}       \* integrate_final_checked
Routes == Sampling \union Checked \union {"reusable"}
Methods == {"dopri5", "pair", "esdirk"}   \* "pair": the other explicit tableaus

VARIABLES
  (* the call *)
  calls, route, method,
  forced,    \* SampledOutputMode::ForceEvaluationTimes
  clamped,   \* dt_max <= HCARRY_UNCLAMPED_DT_MAX_S
  tf, evalSlice,
  (* SampledRectState, or the locals of the final paths *)
  phase, ending,
  baseT,     \* current_t0_s, the epoch of current_equinoc
  hadRebase, reached, consumed, legs,
  rows,      \* what is handed back
  walked,    \* ghost: how far the dynamics have been integrated
  (* of the thread and of the process *)
  carry,     \* HCARRY_H: the call that stored it
  opened     \* the call whose step size opened the last leg

request == <<calls, route, method, forced, clamped, tf, evalSlice>>
baseline == <<baseT, hadRebase>>
progress == <<reached, consumed>>
vars == <<request, phase, ending, baseline, progress, legs, rows, walked, carry, opened>>

Init ==
  /\ calls = 0 /\ route = "sampled" /\ method = "dopri5" /\ forced = FALSE /\ clamped = FALSE
  /\ tf = 0 /\ evalSlice = <<>>
  /\ phase = "idle" /\ ending = "none"
  /\ baseT = 0 /\ hadRebase = FALSE /\ reached = FALSE /\ consumed = 0 /\ legs = 0
  /\ rows = <<>> /\ walked = 0 /\ carry = None /\ opened = None
-----------------------------------------------------------------------------
(* Entry *)

\* partition_point: how many samples at the front are at t or before.
LeadingUpTo(samples, t) ==
  CHOOSE n \in 0..Len(samples) :
    /\ \A i \in 1..n : samples[i] <= t
    /\ n < Len(samples) => samples[n + 1] > t

\* The samples before t0 are skipped, and a request without samples is for tf.
EvalSlice(grid, end) ==
  LET after == SubSeq(grid, LeadingUpTo(grid, -1) + 1, Len(grid))
  IN  IF after = <<>> THEN <<end>> ELSE after

SpansRequest(slice, end) == slice[1] <= 0 /\ slice[Len(slice)] >= end

CarryKept(r) == carry
CarryAtEntry(r) == IF r = "sampled" THEN None ELSE carry

Enter ==
  /\ phase = "idle" /\ calls < MaxCalls
  /\ calls' = calls + 1
  /\ route' \in Routes /\ method' \in Methods /\ clamped' \in BOOLEAN /\ tf' \in Ends
  /\ IF route' \in Sampling
     THEN forced' \in BOOLEAN /\ \E grid \in Grids : evalSlice' = EvalSlice(grid, tf')
     ELSE forced' = FALSE /\ evalSlice' = <<tf'>>
  /\ carry' = CarryAtEntry(route')
  /\ reached' = (route' = "sampled" /\ tf' = 0)
  /\ UNCHANGED <<baseline, consumed, legs, rows, walked, opened>>
  /\ IF route' = "events" /\ method' # "dopri5" /\ ~SpansRequest(evalSlice', tf')
     THEN phase' = "done" /\ ending' = "refused"
     ELSE phase' = "head" /\ ending' = "none"

\* The caller takes the result: only the thread's slot is left.
Leave ==
  /\ phase = "done" /\ phase' = "idle" /\ ending' = "none"
  /\ route' = "sampled" /\ method' = "dopri5" /\ forced' = FALSE /\ clamped' = FALSE
  /\ tf' = 0 /\ evalSlice' = <<>>
  /\ baseT' = 0 /\ hadRebase' = FALSE /\ reached' = FALSE /\ consumed' = 0 /\ legs' = 0
  /\ rows' = <<>> /\ walked' = 0 /\ opened' = None
  /\ UNCHANGED <<calls, carry>>
-----------------------------------------------------------------------------
(* What the solver answers *)

\* A state and the tick it is the state at; what was never written is all zero.
Written(labels, n, shift) ==
  [i \in 1..Len(labels) |-> [at |-> labels[i], of |-> IF i <= n THEN labels[i] - shift ELSE None]]
FirstOf(labels, n, shift) == Written(SubSeq(labels, 1, n), n, shift)

Answer(status, states) == [status |-> status, states |-> states]
Gravity == Answer("gravity", <<>>)

Solve(labels) ==
  {Gravity, Answer("success", FirstOf(labels, Len(labels), 0))}
    \union {Answer("failed", FirstOf(labels, n, 0)) : n \in 0..Len(labels) - 1}

\* The run into a slice filled n of its rows and is repeated from the start.
KeepFirst(labels, n) == {Answer("failed", Written(labels, n, 0))}
Retry(labels, n) == Solve(labels)

SolveForced(labels) ==
  {Gravity, Answer("success", Written(labels, Len(labels), 0))}
    \union UNION {Retry(labels, n) : n \in 0..Len(labels) - 1}

Answers(labels) ==
  IF forced /\ method # "dopri5" THEN SolveForced(labels) ELSE Solve(labels)

\* integrate_segment_with_method with boundary Rebased, except for ESDIRK.
OpensWith ==
  IF method = "pair" /\ ~clamped THEN carry ELSE None
Carries(answer) ==
  IF method = "esdirk" \/ clamped \/ (answer = Gravity /\ forced /\ method = "pair")
  THEN {carry} ELSE {carry, calls}
-----------------------------------------------------------------------------
(* Steps shared by the loops *)

BoundedEnd(t, end) == IF end - t > Segment THEN t + Segment ELSE end

Rebased(end) == baseT' = end /\ hadRebase' = TRUE

\* The deviation is over the threshold, or the arc goes on.
Rectifies(end) == \E far \in BOOLEAN : IF far \/ end # tf THEN Rebased(end) ELSE UNCHANGED baseline

ReturnWith(how) == phase' = "done" /\ ending' = how
Go == UNCHANGED <<phase, ending>>

Row(state, against, added) ==
  [at |-> state.at, of |-> state.of, against |-> against, added |-> added]

\* The baseline a leg's rows are put back with: none as long as it is the caller's.
AddedBack == IF hadRebase THEN baseT ELSE None

InLoop(cap) == phase = "head" /\ ~reached /\ legs < cap
-----------------------------------------------------------------------------
(* integrate_sampled_rectified_path *)

SegmentEnd == BoundedEnd(baseT, tf)
Count(end) == LeadingUpTo(SubSeq(evalSlice, consumed + 1, Len(evalSlice)), end)

ReachedByBaseline(end) == baseT' = tf
ReachedAfter(end) == end = tf

Continue(end) == /\ Go /\ reached' = ReachedAfter(end) /\ walked' = end

UnsampledLeg ==
  /\ route = "sampled" /\ InLoop(MaxLegs) /\ Count(SegmentEnd) = 0
  /\ legs' = legs + 1
  /\ \/ Rectifies(SegmentEnd) /\ Continue(SegmentEnd)
     \/ \E how \in {"gravity", "failed"} : ReturnWith(how) /\ UNCHANGED <<baseline, reached, walked>>
  /\ opened' = None
  /\ UNCHANGED <<request, consumed, rows, carry>>

\* The samples of the leg, with a hidden start and a hidden endpoint if it needs them.
NeedsHiddenStart == method # "dopri5" /\ evalSlice[consumed + 1] # baseT
NeedsHiddenEnd(end) == evalSlice[consumed + Count(end)] # end
SolverEval(end) ==
  (IF NeedsHiddenStart THEN <<baseT>> ELSE <<>>)
    \o SubSeq(evalSlice, consumed + 1, consumed + Count(end))
    \o (IF NeedsHiddenEnd(end) THEN <<end>> ELSE <<>>)

EndpointReturned(states, end) == states # <<>> /\ states[Len(states)].at = end
Visible(states, end) ==
  SubSeq(states,
         IF NeedsHiddenStart /\ states # <<>> /\ states[1].at = baseT THEN 2 ELSE 1,
         Len(states) - (IF NeedsHiddenEnd(end) /\ EndpointReturned(states, end) THEN 1 ELSE 0))

\* On the caller's baseline.
Corrected(states) == [i \in 1..Len(states) |-> Row(states[i], baseT, AddedBack)]

SampledLeg ==
  /\ route = "sampled" /\ InLoop(MaxLegs) /\ Count(SegmentEnd) > 0
  /\ legs' = legs + 1
  /\ opened' = OpensWith
  /\ \E answer \in Answers(SolverEval(SegmentEnd)) :
       /\ carry' \in Carries(answer)
       /\ rows' = rows \o Corrected(Visible(answer.states, SegmentEnd))
       /\ IF answer.status = "success"
          THEN /\ consumed' = consumed + Count(SegmentEnd)
               /\ Rectifies(SegmentEnd) /\ Continue(SegmentEnd)
          ELSE ReturnWith(answer.status) /\ UNCHANGED <<baseline, progress, walked>>
  /\ UNCHANGED request

OutOfLegs == ~reached /\ legs >= MaxLegs

\* An exhausted cap fails, a reached endpoint succeeds.
CapIsSuccess == "success"
CapEnding == "max_steps_exceeded"
FinishSampled ==
  /\ route = "sampled" /\ phase = "head"
  /\ \/ reached /\ ReturnWith("success")
     \/ OutOfLegs /\ ReturnWith(CapEnding)
  /\ UNCHANGED <<request, baseline, progress, legs, rows, walked, carry, opened>>
-----------------------------------------------------------------------------
(* integrate_sampled_event_path: one leg.  Only DOPRI5 is told t0 and tf;    *)
(* the other methods integrate from the first sample to the last.            *)

Start == IF method = "dopri5" THEN 0 ELSE evalSlice[1]
Stop == IF method = "dopri5" THEN tf ELSE evalSlice[Len(evalSlice)]
SamplesUpTo(t) == SubSeq(evalSlice, 1, LeadingUpTo(evalSlice, t))

\* A sample between two steps is written only after the event of its step was
\* asked for; a step cut at each sample (ESDIRK's always are) passes none.
StepsEndOnSamples == forced \/ method = "esdirk"
KeptBefore(t) ==
  LET before == Len(SamplesUpTo(t - 1))
  IN  IF StepsEndOnSamples THEN {before} ELSE 0..before

EventLeg ==
  /\ route = "events" /\ phase = "head"
  /\ legs' = 1
  /\ opened' = None
  /\ carry' \in {carry} \union (IF method = "esdirk" \/ clamped THEN {} ELSE {calls})
  /\ LET labels == SamplesUpTo(Stop)
     IN  \/ /\ ReturnWith("success") /\ walked' = Stop
            /\ rows' = Corrected(FirstOf(labels, Len(labels), Start))
         \/ \E how \in {"failed", "event_invalid"}, n \in 0..Len(labels) :
              ReturnWith(how) /\ rows' = Corrected(FirstOf(labels, n, Start)) /\ UNCHANGED walked
         \/ /\ ReturnWith("gravity") /\ UNCHANGED <<rows, walked>>
         \* a terminal event, or too large a deviation
         \/ \E t \in Start..Stop :
              \E n \in KeptBefore(t) :
                /\ ReturnWith("event") /\ walked' = t
                /\ rows' = Corrected(FirstOf(Append(SubSeq(SamplesUpTo(t - 1), 1, n), t),
                                             n + 1, Start))
  /\ UNCHANGED <<request, baseline, progress>>
-----------------------------------------------------------------------------
(* The final paths *)

Give(state, against, added) ==
  /\ rows' = <<Row(state, against, added)>>
  /\ ReturnWith("success")

GiveUp ==
  /\ ReturnWith("failed") /\ UNCHANGED <<baseline, rows, walked>>

AtEnd == [at |-> tf, of |-> tf]

FinalArrived ==
  /\ route = "final" /\ InLoop(MaxRestarts) /\ hadRebase /\ baseT = tf
  /\ Give(AtEnd, baseT, baseT)
  /\ UNCHANGED <<request, baseline, progress, legs, walked, carry, opened>>

FinalLeg ==
  /\ route = "final" /\ InLoop(MaxRestarts) /\ ~(hadRebase /\ baseT = tf)
  /\ legs' = legs + 1
  /\ \/ /\ walked' = SegmentEnd
        /\ \/ Rebased(SegmentEnd) /\ Go /\ UNCHANGED rows
           \/ SegmentEnd = tf /\ Give(AtEnd, baseT, AddedBack) /\ UNCHANGED baseline
     \/ GiveUp
  /\ UNCHANGED <<request, progress, carry, opened>>

\* An event at the very start of the leg would restart it for ever.
RestartsAt == {t \in baseT..tf : t # baseT}

FinalEventLeg ==
  /\ route = "finalEvents" /\ InLoop(MaxRestarts)
  /\ legs' = legs + 1
  /\ \/ /\ method # "esdirk"
        /\ \E t \in RestartsAt : Rebased(t) /\ walked' = t /\ Go /\ UNCHANGED rows
     \/ /\ method # "esdirk" /\ Give(AtEnd, baseT, baseT) /\ walked' = tf
        /\ UNCHANGED baseline
     \/ GiveUp
  /\ UNCHANGED <<request, progress, carry, opened>>

OutOfRestarts ==
  /\ route \in Checked /\ phase = "head" /\ legs >= MaxRestarts
  /\ GiveUp
  /\ UNCHANGED <<request, progress, legs, carry, opened>>

\* ReusableFinalNoEventIntegrator: the whole arc is one leg.
ReusableLeg ==
  /\ route = "reusable" /\ phase = "head"
  /\ legs' = 1
  /\ \/ method # "esdirk" /\ Give(AtEnd, 0, None) /\ walked' = tf /\ UNCHANGED baseline
     \/ GiveUp
  /\ UNCHANGED <<request, progress, carry, opened>>

Step ==
  \/ UnsampledLeg \/ SampledLeg \/ FinishSampled \/ EventLeg
  \/ FinalArrived \/ FinalLeg \/ FinalEventLeg \/ OutOfRestarts \/ ReusableLeg

Next == Enter \/ Step \/ Leave

Spec == Init /\ [][Next]_vars
-----------------------------------------------------------------------------
Endings == {"none", "refused", "success", "failed", "gravity", "max_steps_exceeded", "event",
            "event_invalid"}
Ticks == {None} \union Nat

(* Every variable has its type: the baseline stays within the arc and no     *)
(* more samples are consumed than there are.                                 *)
TypeOK ==
  /\ calls \in 0..MaxCalls /\ route \in Routes /\ method \in Methods
  /\ forced \in BOOLEAN /\ clamped \in BOOLEAN /\ tf \in Ends \union {0}
  /\ evalSlice \in Seq(Nat)
  /\ phase \in {"idle", "head", "done"} /\ ending \in Endings
  /\ baseT \in 0..tf /\ hadRebase \in BOOLEAN /\ reached \in BOOLEAN
  /\ consumed \in 0..Len(evalSlice) /\ legs \in Nat
  /\ rows \in Seq([at : Nat, of : Int, against : Nat, added : Ticks])
  /\ walked \in Nat
  /\ carry \in {None} \union 1..MaxCalls /\ opened \in {None} \union 1..MaxCalls

IsTrue(row) ==
  /\ row.of = row.at
  /\ row.against = (IF row.added = None THEN 0 ELSE row.added)

(* What is handed back is true: the rows are the requested samples from the  *)
(* first on, each once and in order (an event adds its own), each the state  *)
(* at its label, relative to the caller's baseline.  A hidden start or       *)
(* endpoint that is not taken off, a sample consumed twice, rows corrected   *)
(* with the baseline of the next leg, the half-filled rows of a first        *)
(* attempt, or a grid that starts after t0 and relabels the initial state    *)
(* would each break it.                                                      *)
RowsAreTrue ==
  /\ \A i \in 1..Len(rows) : IsTrue(rows[i])
  /\ \A i \in 1..Len(rows) :
       (ending = "event" => i < Len(rows)) => i <= Len(evalSlice) /\ rows[i].at = evalSlice[i]

(* Every leg starts where the trajectory has arrived.  The baseline does not *)
(* tell: the last leg of an arc moves it only if the deviation is large, and *)
(* a loop that took it for its progress recomputed that leg until its cap.   *)
LegsFollowOn == phase = "head" /\ ~reached => baseT = walked

(* A propagation that reports success has reached tf and handed back every   *)
(* sample of its interval; an exhausted cap never passes for success.        *)
SuccessIsComplete ==
  phase = "done" /\ ending = "success" /\ tf > 0 =>
    /\ walked >= tf
    /\ \A i \in 1..Len(evalSlice) : evalSlice[i] <= tf => i <= Len(rows)

(* The step size a leg opens with comes from the same arc: what the previous *)
(* call left in the thread's slot would make the result depend on what the   *)
(* thread did before.                                                        *)
CarryStaysInArc == opened \in {None, calls}
=============================================================================
