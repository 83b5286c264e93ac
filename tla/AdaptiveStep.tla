---------------------------- MODULE AdaptiveStep ----------------------------
(***************************************************************************)
(* The adaptive step loops of crates/lightyear_odeint_rs, odesolve:          *)
(* integrate_internal (the explicit Runge-Kutta tableaus) and                *)
(* integrate_internal_esdirk (the implicit one) of solver.rs, which differ   *)
(* in a few branches that the variable loop selects, and                     *)
(* integrate_lightyear_dopri5_impl of lightyear_compat.rs, whose controller  *)
(* and bookkeeping are its own.                                              *)
(*                                                                         *)
(* Time is counted in ticks from t0 = 0 towards tf = Span, so a state is the *)
(* time it stands for and eval_tol is less than a tick.  What a trial step   *)
(* computes is its verdict: the stages, the error norm and the PI factor are *)
(* a choice within the bounds the code clamps them to.                       *)
(***************************************************************************)
EXTENDS Integers, Sequences

CONSTANTS
  Grids,      \* the t_eval a caller may pass
  Span,       \* |tf - t0|
  HMin, HMax, \* config.h_min and config.h_max
  MaxGrowth,  \* (1 + 20/order).min(5), the largest of the tableaus
  MaxSteps,   \* config.max_steps
  MaxRejects, \* config.max_rejects
  RampSlots   \* RAMP_PROBE_STEPS

IsGrid(g) ==
  /\ Len(g) >= 2 /\ g[1] = 0 /\ g[Len(g)] = Span
  /\ \A i, j \in 1..Len(g) : i <= j => g[i] <= g[j]
  /\ g[1] < g[2]   \* the forced loop never takes a second sample at t0

ASSUME StepAssumption ==
  /\ Span \in Nat \ {0} /\ HMin \in Nat \ {0} /\ HMax \in Nat /\ HMin <= HMax
  /\ MaxGrowth \in Nat \ {0, 1} /\ MaxSteps \in Nat /\ MaxRejects \in Nat /\ RampSlots \in Nat
  /\ \A g \in Grids : g \in Seq(0..Span) /\ IsGrid(g)

ESDIRK_MAX_NEWTON_FAILS == 3
Nothing == -1   \* no remembered error, no cached derivative
NoEvent == [label |-> Nothing, at |-> Nothing, method |-> "none"]

VARIABLES
  loop,        \* "explicit", "esdirk" or "compat"
  sampling,    \* "final" (no t_eval), "forced" (steps land on t_eval) or "dense"
  hasHandler,  \* is there an event handler
  fsal,        \* is the last stage of an explicit tableau the next step's first
  grid,        \* t_eval
  taken,       \* eval_idx
  out,         \* samples pushed: the label and the time its state stands for
  t, h,        \* current time, and the step the controller wants next
  status,
  memory,      \* end of the step whose error is err_prev (Nothing: have_err_prev is false)
  k1,          \* where the cached derivative was evaluated
  justRejected,
  rejects,     \* consecutive rejections
  newtonFails,
  verdict,     \* of the last trial
  odd,         \* ghost: parity of the trials, so that every retry is a step
  event,       \* what sanitize_event handed back
  steps, saturated, underflow, minH, ramp  \* IntegrationStats

call == <<loop, sampling, hasHandler, fsal, grid>>
trajectory == <<t, k1>>
control == <<h, memory, justRejected, rejects, newtonFails>>
samples == <<taken, out>>
stats == <<steps, underflow, minH, ramp>>
vars == <<call, samples, trajectory, status, control, verdict, odd, event, stats, saturated>>

Least(a, b) == IF a <= b THEN a ELSE b
Greatest(a, b) == IF a >= b THEN a ELSE b

\* compat_h_min is less than eval_tol: nothing but the shortest step is that short.
CompatHMin == 1
Floor == IF loop = "compat" THEN CompatHMin ELSE HMin
Clamp(size) == Least(Greatest(size, Floor), HMax)

Methods ==
  /\ loop \in {"explicit", "esdirk", "compat"}
  /\ sampling \in {"final", "forced", "dense"} /\ (loop = "esdirk" => sampling # "dense")
  /\ hasHandler \in BOOLEAN /\ fsal \in BOOLEAN /\ (loop # "explicit" => ~fsal)

\* The derivative at t0 is computed before the loop.
CompatStart == k1 = 0

\* One call of the loop, past the checks of its arguments.
Init ==
  /\ Methods
  /\ grid \in (IF sampling = "final" THEN {<<>>} ELSE Grids)
  /\ taken = (IF sampling = "final" THEN 0 ELSE 1)
  /\ out = (IF sampling = "final" THEN <<>> ELSE <<<<0, 0>>>>)
  /\ t = 0 /\ h \in Floor..HMax /\ status = "running"
  /\ IF loop = "compat" THEN CompatStart ELSE k1 = Nothing
  /\ memory = Nothing /\ justRejected = FALSE
  /\ rejects = 0 /\ newtonFails = 0 /\ verdict = "none" /\ odd = FALSE /\ event = NoEvent
  /\ steps = 0 /\ saturated = 0 /\ underflow = 0 /\ minH = 0
  /\ ramp = [i \in 1..RampSlots |-> 0]
-----------------------------------------------------------------------------
(* The size of the next trial *)

Remaining == Span - t

NeverForced == Remaining
\* Distance a step may not exceed for the sake of the next sample.
ToNextSample ==
  IF sampling = "forced" /\ taken < Len(grid) /\ grid[taken + 1] > t
  THEN grid[taken + 1] - t ELSE Remaining

HStep == Least(h, Least(Remaining, ToNextSample))

TooSmallEvenLast == HStep < HMin
TooSmall == HStep < HMin /\ (loop = "explicit" => HStep # Remaining)

CanTry ==
  /\ loop # "compat" /\ status = "running" /\ t < Span /\ steps < MaxSteps
  /\ ~TooSmall
-----------------------------------------------------------------------------
(* Trials that are thrown away *)

NotCounted == rejects
Counted == rejects + 1

Leave(with) == status' = with /\ UNCHANGED h
GiveUpOr(tooMany, with, sizes) ==
  IF tooMany THEN Leave(with) ELSE h' \in sizes /\ UNCHANGED status

Discard(why) ==
  /\ CanTry /\ verdict' = why /\ odd' = ~odd
  /\ rejects' = Counted
  /\ k1' = Nothing
  /\ UNCHANGED <<call, samples, t, event, stats, saturated>>

AbandonedMemory == IF loop = "esdirk" /\ status' = "running" THEN Nothing ELSE memory

\* A component of the new state, of the error estimate or the norm is not finite.
NonFinite ==
  /\ Discard("nonFinite")
  /\ GiveUpOr(Counted > MaxRejects, "NonFiniteState", {Clamp(HStep \div 10)})
  /\ memory' = AbandonedMemory
  /\ UNCHANGED <<justRejected, newtonFails>>

\* The implicit stages do not converge.
NewtonFailed ==
  /\ loop = "esdirk"
  /\ Discard("newtonFailed")
  /\ newtonFails' = newtonFails + 1
  /\ GiveUpOr(newtonFails' >= ESDIRK_MAX_NEWTON_FAILS, "MaxRejectsExceeded",
              {IF newtonFails' >= 2 THEN Clamp(HStep \div 4) ELSE h})
  /\ memory' = AbandonedMemory
  /\ UNCHANGED justRejected

CannotShrink == HStep <= Floor

RememberDiscarded == t + HStep
RejectedMemory == memory

\* The error test fails and the step can still be cut.
Rejected ==
  /\ ~CannotShrink
  /\ Discard("failed")
  /\ GiveUpOr(Counted > MaxRejects, "MaxRejectsExceeded",
              {Clamp(size) : size \in (HStep \div 10)..(HStep \div 2)})
  /\ justRejected' = IF status' = "running" THEN TRUE ELSE justRejected
  /\ memory' = RejectedMemory
  /\ UNCHANGED newtonFails

\* rk_step or esdirk_step refuses its own input.
Refused ==
  /\ CanTry /\ verdict' = "refused" /\ odd' = ~odd /\ Leave("InvalidInput")
  /\ UNCHANGED <<call, samples, trajectory, memory, justRejected, rejects, newtonFails,
                 event, stats, saturated>>
-----------------------------------------------------------------------------
(* Trials that are accepted *)

ControllerChose == HStep >= h

Accept ==
  /\ CanTry /\ odd' = ~odd
  /\ verdict' \in {"passed"} \union (IF CannotShrink THEN {"failed"} ELSE {})
  /\ underflow' = underflow + (IF verdict' = "failed" THEN 1 ELSE 0)
  /\ steps' = steps + 1
  /\ minH' = (IF ControllerChose /\ (minH = 0 \/ HStep < minH) THEN HStep ELSE minH)
  /\ ramp' = [i \in 1..RampSlots |-> IF ControllerChose /\ i = steps' THEN HStep ELSE ramp[i]]
  /\ rejects' = 0 /\ newtonFails' = 0
  /\ UNCHANGED call

IsDue(sample, next) == IF sampling = "dense" THEN sample <= next ELSE sample = next

\* A step that ends at next publishes count samples: all that are due.
Publishes(count, next) ==
  /\ \A i \in taken + 1..taken + count : IsDue(grid[i], next)
  /\ taken + count < Len(grid) => ~IsDue(grid[taken + count + 1], next)

\* A dense sample is interpolated, with tau clamped to the step.
Published(count, next) ==
  out \o [i \in 1..count |->
            <<grid[taken + i], Least(Greatest(grid[taken + i], t), next)>>]

KeepsDerivative == loop = "esdirk" \/ fsal \/ hasHandler \/ sampling = "dense"
Growth == IF justRejected THEN Least(2, MaxGrowth) ELSE MaxGrowth

\* The handler, if there is one, lets the integration go on.
Advance ==
  /\ Accept
  /\ t' = t + HStep
  /\ k1' = IF KeepsDerivative THEN t' ELSE Nothing
  /\ \E count \in 0..Len(grid) - taken :
       Publishes(count, t') /\ out' = Published(count, t') /\ taken' = taken + count
  /\ \E demanded \in (HStep \div 5)..(HStep * Growth) :
       /\ h' = Clamp(demanded)
       /\ saturated' = saturated + (IF demanded > HMax THEN 1 ELSE 0)
  /\ memory' = t' /\ justRejected' = FALSE
  /\ UNCHANGED <<status, event>>

Discontinued == UNCHANGED <<trajectory, h, memory, justRejected, saturated, taken>>

EventLabel(raw) ==
  IF raw = Nothing THEN t + HStep ELSE Least(Greatest(raw, t), t + HStep)

\* A state the handler got wrong is replaced by a linear one at the label.
Sanitized(raw, valid) ==
  LET label == EventLabel(raw)
      clamped == raw # label
  IN  [label |-> label,
       at |-> IF valid /\ raw # Nothing THEN raw ELSE label,
       method |-> IF clamped THEN IF valid THEN "Clamp" ELSE "LinearClamp"
                  ELSE IF valid THEN "Handler" ELSE "Linear"]

LeakStep ==
  IF \E count \in 1..Len(grid) - taken : Publishes(count, t + HStep)
  THEN Published(1, t + HStep) ELSE out
BeforeEvent == out

\* The handler stops the integration at t_event, which may be any time at all.
HandlerStops ==
  /\ \E raw \in {Nothing, t + HStep + 1} \union Greatest(t - 1, 0)..(t + HStep), valid \in BOOLEAN :
       event' = Sanitized(raw, valid)
  /\ out' = IF sampling = "final" \/ BeforeEvent[Len(BeforeEvent)][1] = event'.label
            THEN BeforeEvent
            ELSE Append(BeforeEvent, <<event'.label, event'.at>>)
  /\ status' = "EventTriggered"
  /\ Discontinued
Stop == hasHandler /\ Accept /\ HandlerStops

\* Neither the handler's state nor the linear one is finite.
HandlerIsInvalid ==
  /\ status' = "EventInvalid"
  /\ Discontinued /\ UNCHANGED <<out, event>>
StopInvalid == hasHandler /\ Accept /\ HandlerIsInvalid
-----------------------------------------------------------------------------
(* The DOPRI5-compat loop: it counts every trial as a step, has no underflow
   and no statistics but that count, keeps the derivative over a rejection, and
   remembers the error of a rejected step, as its comment admits. *)

CompatTry == loop = "compat" /\ status = "running" /\ t < Span /\ steps < MaxSteps

CompatDiscard(why, with, sizes) ==
  /\ CompatTry /\ verdict' = why /\ odd' = ~odd
  /\ steps' = steps + 1 /\ rejects' = Counted
  /\ GiveUpOr(Counted > MaxRejects, with, sizes)
  /\ UNCHANGED <<call, samples, trajectory, newtonFails, event, underflow, minH, ramp, saturated>>

CompatNonFinite ==
  /\ CompatDiscard("nonFinite", "NonFiniteState", {Clamp(HStep \div 10)})
  /\ UNCHANGED <<memory, justRejected>>

CompatRejected ==
  /\ ~CannotShrink
  /\ CompatDiscard("failed", "MaxRejectsExceeded",
                   {Clamp(size) : size \in (HStep \div 10)..(HStep \div 2)})
  /\ IF status' = "running" THEN memory' = t + HStep /\ justRejected' = TRUE
                            ELSE UNCHANGED <<memory, justRejected>>

CompatRefused ==
  /\ CompatTry /\ verdict' = "refused" /\ odd' = ~odd /\ Leave("InvalidInput")
  /\ UNCHANGED <<call, samples, trajectory, memory, justRejected, rejects, newtonFails,
                 event, stats, saturated>>

CompatAccept ==
  /\ CompatTry /\ odd' = ~odd
  /\ verdict' \in {"passed"} \union (IF CannotShrink THEN {"failed"} ELSE {})
  /\ steps' = steps + 1 /\ rejects' = 0
  /\ UNCHANGED <<call, newtonFails, underflow, minH, ramp, saturated>>

\* Forced, a sample is due within eval_tol of the end of the step; dense, before it.
CompatAdvance ==
  /\ CompatAccept
  /\ t' = t + HStep /\ k1' = t'
  /\ \E count \in 0..Len(grid) - taken :
       Publishes(count, t') /\ out' = Published(count, t') /\ taken' = taken + count
  /\ h' \in {Clamp(size) : size \in (HStep \div 5)..(HStep * (IF justRejected THEN 2 ELSE 5))}
  /\ memory' = t' /\ justRejected' = FALSE
  /\ UNCHANGED <<status, event>>

CompatStop == hasHandler /\ CompatAccept /\ HandlerStops
CompatStopInvalid == hasHandler /\ CompatAccept /\ HandlerIsInvalid
-----------------------------------------------------------------------------
(* The ways out at the top of the loop *)

Finish(with) ==
  /\ status = "running" /\ status' = with
  /\ UNCHANGED <<call, trajectory, control, verdict, odd, event, stats, saturated>>

OutOfSteps ==
  /\ t < Span /\ steps >= MaxSteps
  /\ Finish("MaxStepsExceeded") /\ UNCHANGED samples

Underflow ==
  /\ loop # "compat" /\ t < Span /\ steps < MaxSteps /\ TooSmall
  /\ Finish("StepUnderflow") /\ UNCHANGED samples

\* Samples still owed at the end are filled with the final state.
Arrive ==
  /\ loop # "compat" /\ t = Span
  /\ Finish("Success")
  /\ out' = out \o [i \in 1..Len(grid) - taken |-> <<grid[taken + i], t>>]
  /\ taken' = Len(grid)

\* Samples still owed would be left out.
CompatArrive ==
  /\ loop = "compat" /\ t = Span
  /\ Finish("Success") /\ UNCHANGED samples

Next ==
  \/ NonFinite \/ NewtonFailed \/ Rejected \/ Refused
  \/ Advance \/ Stop \/ StopInvalid
  \/ CompatNonFinite \/ CompatRejected \/ CompatRefused
  \/ CompatAdvance \/ CompatStop \/ CompatStopInvalid
  \/ OutOfSteps \/ Underflow \/ Arrive \/ CompatArrive

\* The loop runs on the thread of its caller: it goes on until it returns.
Spec == Init /\ [][Next]_vars /\ WF_vars(Next)
-----------------------------------------------------------------------------
Statuses == {"running", "Success", "MaxStepsExceeded", "StepUnderflow", "InvalidInput",
             "NonFiniteState", "MaxRejectsExceeded", "EventTriggered", "EventInvalid"}

(* Every variable has its type: the step the controller wants stays within   *)
(* h_min..h_max, the time within the span, and the counters within what      *)
(* max_steps and max_rejects allow.                                          *)
TypeOK ==
  /\ Methods /\ grid \in {<<>>} \union Grids /\ taken \in 0..Len(grid)
  /\ out \in Seq((0..Span) \X (0..Span + 1))
  /\ t \in 0..Span /\ h \in Floor..HMax /\ status \in Statuses
  /\ memory \in {Nothing} \union 0..Span /\ k1 \in {Nothing} \union 0..Span
  /\ justRejected \in BOOLEAN
  /\ newtonFails \in 0..ESDIRK_MAX_NEWTON_FAILS
  /\ rejects \in 0..MaxRejects + ESDIRK_MAX_NEWTON_FAILS
  /\ odd \in BOOLEAN
  /\ verdict \in {"none", "passed", "failed", "nonFinite", "newtonFailed", "refused"}
  /\ event \in [label : {Nothing} \union 0..Span, at : {Nothing} \union 0..Span + 1,
                method : {"none", "Handler", "Clamp", "Linear", "LinearClamp"}]
  /\ steps \in 0..MaxSteps /\ saturated \in 0..steps /\ underflow \in 0..steps
  /\ minH \in {0} \union 1..HMax /\ ramp \in [1..RampSlots -> {0} \union 1..HMax]

(* Every published sample is the solution at the time it is labelled with,   *)
(* the labels are a prefix of t_eval, and a successful return has published  *)
(* all of t_eval.  A step that lands past a sample leaves eval_idx behind    *)
(* for ever, and at the end the fill labels the final state with times long  *)
(* past, or (the compat loop fills nothing) success is reported without it.  *)
SamplesAreTrue ==
  /\ \A i \in 1..taken : out[i] = <<grid[i], grid[i]>>
  /\ status = "Success" => taken = Len(grid) /\ t = Span
  /\ status # "EventTriggered" => Len(out) = taken

(* An event discards the step it happens in: nothing is published after the  *)
(* event, the labels never go back, and a state that does not belong to its  *)
(* label is marked as clamped.                                               *)
NothingLeaks ==
  status = "EventTriggered" =>
    /\ event.label \in t..Span
    /\ \A i \in 1..Len(out) : out[i][1] <= event.label
    /\ \A i \in 1..taken : out[i][1] <= t
    /\ event.at # event.label => event.method = "Clamp"
    /\ sampling # "final" => out[Len(out)][1] = event.label

(* What a trial inherits from earlier trials belongs to the state it starts  *)
(* from: the remembered error is that of the accepted step which ends at t   *)
(* (a discarded step must not touch the PI memory), and so is the derivative *)
(* that stands for the first stage.  The memory of the compat loop is left   *)
(* out: it is that of a rejected step, a defect kept on purpose.             *)
InheritedBelongsHere ==
  /\ loop # "compat" => memory \in {Nothing, t}
  /\ k1 \in {Nothing, t}

(* The explicit loop never reports an underflow of its own making: h stays   *)
(* at h_min or above and the last step may be as short as it has to be, so   *)
(* only a sample of the caller's less than h_min away, and not at tf, ends   *)
(* the integration with StepUnderflow.                                       *)
UnderflowIsCallers ==
  loop = "explicit" /\ status = "StepUnderflow" =>
    /\ sampling = "forced" /\ taken < Len(grid)
    /\ grid[taken + 1] - t \in 1..HMin - 1 /\ grid[taken + 1] < Span

(* The loop returns: every accepted step gets closer to tf, max_rejects and  *)
(* the limit on Newton failures bound the trials in between.                 *)
Returns == <>(status # "running")
=============================================================================
