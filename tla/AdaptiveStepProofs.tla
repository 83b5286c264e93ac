------------------------- MODULE AdaptiveStepProofs -------------------------
(***************************************************************************)
(* Theorems about AdaptiveStep, for every span, every grid of samples, every *)
(* step size and every limit, of the three loops and all ways of sampling.   *)
(***************************************************************************)
EXTENDS AdaptiveStep, SequenceTheorems, TLAPS

USE DEF call

Kinds ==
  /\ Methods
  /\ grid \in Seq(0..Span)
  /\ sampling = "final" => grid = <<>>
  /\ sampling # "final" => IsGrid(grid) /\ taken >= 1
  /\ taken \in 0..Len(grid)
  /\ out \in Seq(Nat \X Nat) /\ taken <= Len(out)
  /\ t \in 0..Span /\ h \in Floor..HMax

\* The samples not yet taken are ahead, and those taken are not.
Ahead ==
  /\ status = "running" => \A i \in taken + 1..Len(grid) : t < grid[i]
  /\ \A i \in 1..taken : grid[i] <= t

\* min_accepted_h and the ramp hold steps the controller chose, never the
\* remainder before an endpoint or a sample: none is below h_min, and no
\* recorded step is smaller than the smallest.
StatsExcludeShortened ==
  /\ minH # 0 => minH >= HMin
  /\ \A i \in 1..RampSlots : ramp[i] # 0 => minH # 0 /\ ramp[i] >= minH

Stats ==
  /\ steps \in Nat /\ minH \in Nat /\ ramp \in [1..RampSlots -> Nat]
  /\ StatsExcludeShortened

IInv ==
  /\ Kinds /\ Ahead /\ SamplesAreTrue /\ NothingLeaks
  /\ InheritedBelongsHere /\ UnderflowIsCallers /\ Stats

LEMMA Floors ==
  /\ Floor \in Nat /\ 0 < Floor /\ Floor <= HMax /\ HMax \in Nat
  /\ loop # "compat" => Floor = HMin
BY StepAssumption, SMT DEF Floor, CompatHMin

LEMMA FloorStays ==
  ASSUME UNCHANGED call
  PROVE  Floor' = Floor
BY Zenon DEF Floor

LEMMA Sizes ==
  ASSUME NEW size \in Int
  PROVE  Clamp(size) \in Floor..HMax
BY Floors, SMT DEF Clamp, Least, Greatest

LEMMA GridFacts ==
  ASSUME Kinds
  PROVE  /\ Len(grid) \in Nat /\ Len(out) \in Nat
         /\ \A i \in 1..Len(grid) : grid[i] \in 0..Span
         /\ \A i \in 1..Len(out) : out[i] \in Nat \X Nat
<1>1. grid \in Seq(0..Span) /\ out \in Seq(Nat \X Nat)
  BY Zenon DEF Kinds
<1>2. Len(grid) \in Nat /\ Len(out) \in Nat
  BY <1>1, SMT
<1>3. QED
  BY <1>1, <1>2, ElementOfSeq, Zenon

\* A trial is a positive step that passes neither the end nor, when steps are
\* forced onto the samples, the next sample.
LEMMA StepFacts ==
  ASSUME IInv, status = "running", t < Span
  PROVE  /\ HStep \in Nat /\ 0 < HStep /\ HStep <= h /\ t + HStep <= Span
         /\ sampling = "forced" /\ taken < Len(grid) => t + HStep <= grid[taken + 1]
         /\ HStep < h /\ HStep # Remaining =>
              /\ sampling = "forced" /\ taken < Len(grid)
              /\ grid[taken + 1] - t = HStep
<1>1. t \in 0..Span /\ h \in Nat /\ 0 < h /\ taken \in 0..Len(grid) /\ Span \in Nat
  BY Floors, StepAssumption, SMT DEF IInv, Kinds
<1>2. taken < Len(grid) => grid[taken + 1] \in 0..Span /\ t < grid[taken + 1]
  BY <1>1, GridFacts, SMT DEF IInv, Ahead
<1>3. ToNextSample \in Nat /\ 0 < ToNextSample /\ Remaining \in Nat /\ 0 < Remaining
  BY <1>1, <1>2, SMT DEF ToNextSample, Remaining
<1>4. QED
  BY <1>1, <1>2, <1>3, SMTT(30) DEF HStep, Least, ToNextSample, Remaining

-----------------------------------------------------------------------------
LEMMA Start == Init => IInv
<1>1. SUFFICES ASSUME Init PROVE IInv
  OBVIOUS
<1>2. grid \in Seq(0..Span) /\ (sampling # "final" => IsGrid(grid))
  <2>1. \A g \in Grids : g \in Seq(0..Span) /\ IsGrid(g)
    BY StepAssumption, Zenon
  <2>2. <<>> \in Seq(0..Span)
    BY SMT
  <2>3. QED
    BY <1>1, <2>1, <2>2, Zenon DEF Init
<1>3. sampling # "final" => /\ Len(grid) >= 2 /\ grid[1] = 0
                            /\ \A i \in 2..Len(grid) : 0 < grid[i]
  <2>1. Len(grid) \in Nat /\ \A i \in 1..Len(grid) : grid[i] \in 0..Span
    <3>1. Len(grid) \in Nat
      BY <1>2, SMT
    <3>2. QED
      BY <1>2, <3>1, ElementOfSeq, Zenon
  <2>2. Span \in Nat
    BY StepAssumption, Zenon
  <2>3. QED
    BY <1>2, <2>1, <2>2, SMT DEF IsGrid
<1>4. Kinds
  <2>1. CASE sampling = "final"
    BY <1>1, <1>2, <2>1, Floors, StepAssumption, SMT DEF Init, Kinds, Methods
  <2>2. CASE sampling # "final"
    BY <1>1, <1>2, <1>3, <2>2, Floors, StepAssumption, SMT DEF Init, Kinds, Methods
  <2>3. QED
    BY <2>1, <2>2
<1>5. Ahead
  BY <1>1, <1>3, SMT DEF Init, Ahead
<1>6. SamplesAreTrue
  <2>1. CASE sampling = "final"
    BY <1>1, <2>1, SMT DEF Init, SamplesAreTrue
  <2>2. CASE sampling # "final"
    BY <1>1, <1>3, <2>2, SMT DEF Init, SamplesAreTrue
  <2>3. QED
    BY <2>1, <2>2
<1>7. NothingLeaks /\ InheritedBelongsHere /\ UnderflowIsCallers /\ Stats
  BY <1>1, SMT DEF Init, CompatStart, NothingLeaks, InheritedBelongsHere,
     UnderflowIsCallers, Stats, StatsExcludeShortened
<1>8. QED
  BY <1>4, <1>5, <1>6, <1>7 DEF IInv

-----------------------------------------------------------------------------
(* A trial that is thrown away, and a return that publishes nothing *)

Returned == {"NonFiniteState", "MaxRejectsExceeded", "InvalidInput", "MaxStepsExceeded",
             "EventInvalid"}

LEMMA Quiet ==
  ASSUME IInv, status = "running", UNCHANGED <<call, taken, out, t>>,
         h' \in Floor..HMax, k1' \in {Nothing, k1},
         loop # "compat" => memory' \in {Nothing, memory},
         status' \in {"running"} \union Returned, Stats'
  PROVE  IInv'
<1>1. status' \notin {"Success", "EventTriggered", "StepUnderflow"}
  BY Zenon DEF Returned
<1>2. Kinds'
  BY FloorStays, Zenon DEF IInv, Kinds, Methods
<1>3. Ahead' /\ SamplesAreTrue'
  BY <1>1, Zenon DEF IInv, Ahead, SamplesAreTrue
<1>4. NothingLeaks' /\ UnderflowIsCallers'
  BY <1>1, Zenon DEF NothingLeaks, UnderflowIsCallers
<1>5. InheritedBelongsHere'
  BY Zenon DEF IInv, InheritedBelongsHere
<1>6. QED
  BY <1>2, <1>3, <1>4, <1>5 DEF IInv

LEMMA StatsStay ==
  ASSUME Stats, UNCHANGED stats
  PROVE  Stats'
BY Zenon DEF Stats, stats, StatsExcludeShortened

\* The compat loop keeps none of them but the count of its trials.
LEMMA StatsCount ==
  ASSUME Stats, steps' \in {steps, steps + 1}, UNCHANGED <<minH, ramp>>
  PROVE  Stats'
<1>1. steps' \in Nat
  BY SMT DEF Stats
<1>2. QED
  BY <1>1, Zenon DEF Stats, StatsExcludeShortened

LEMMA GivesUp ==
  ASSUME IInv, NEW tooMany, NEW with \in Returned, NEW sizes, sizes \subseteq Floor..HMax,
         status = "running", GiveUpOr(tooMany, with, sizes)
  PROVE  h' \in Floor..HMax /\ status' \in {"running"} \union Returned
BY Zenon DEF GiveUpOr, Leave, IInv, Kinds

\* The three ways in which a trial is thrown away, and an input refused.
LEMMA DiscardStep ==
  ASSUME IInv, NonFinite \/ NewtonFailed \/ Rejected \/ Refused
  PROVE  IInv'
<1>1. status = "running" /\ t < Span /\ UNCHANGED <<call, taken, out, t, stats>>
      /\ k1' \in {Nothing, k1}
  BY Zenon DEF NonFinite, NewtonFailed, Rejected, Refused, Discard, CanTry, samples, trajectory
<1>2. HStep \in Nat
  BY <1>1, StepFacts
<1>3. HStep \div 10 \in Int /\ HStep \div 4 \in Int
  BY <1>2, SMT
<1>4. (HStep \div 10)..(HStep \div 2) \subseteq Int
  BY <1>2, SMT
<1>5. memory' \in {Nothing, memory}
  BY Zenon DEF NonFinite, NewtonFailed, Rejected, Refused, AbandonedMemory, RejectedMemory
<1>6. h \in Floor..HMax
  BY Zenon DEF IInv, Kinds
<1>7. h' \in Floor..HMax /\ status' \in {"running"} \union Returned
  <2>1. {"NonFiniteState", "MaxRejectsExceeded", "InvalidInput"} \subseteq Returned
    BY Zenon DEF Returned
  <2>2. CASE NonFinite
    BY <1>1, <1>3, <2>1, <2>2, Sizes, GivesUp, Zenon DEF NonFinite
  <2>3. CASE NewtonFailed
    BY <1>1, <1>3, <1>6, <2>1, <2>3, Sizes, GivesUp, ZenonT(40) DEF NewtonFailed
  <2>4. CASE Rejected
    <3>1. {Clamp(size) : size \in (HStep \div 10)..(HStep \div 2)} \subseteq Floor..HMax
      BY <1>4, Sizes, Zenon
    <3>2. GiveUpOr(Counted > MaxRejects, "MaxRejectsExceeded",
                   {Clamp(size) : size \in (HStep \div 10)..(HStep \div 2)})
      BY <2>4, Zenon DEF Rejected
    <3>3. QED
      BY <1>1, <2>1, <3>1, <3>2, GivesUp, Zenon
  <2>5. CASE Refused
    BY <1>6, <2>1, <2>5, Zenon DEF Refused, Leave
  <2>6. QED
    BY <2>2, <2>3, <2>4, <2>5
<1>8. Stats'
  BY <1>1, StatsStay, Zenon DEF IInv
<1>9. QED
  BY <1>1, <1>5, <1>7, <1>8, Quiet, Zenon

LEMMA AcceptStats ==
  ASSUME IInv, Accept
  PROVE  Stats'
<1>1. status = "running" /\ t < Span /\ loop # "compat"
  BY Zenon DEF Accept, CanTry
<1>2. HStep \in Nat /\ 0 < HStep /\ HStep <= h
  BY <1>1, StepFacts
<1>3. h \in Nat /\ HMin <= h /\ steps \in Nat /\ minH \in Nat /\ ramp \in [1..RampSlots -> Nat]
      /\ HMin \in Nat /\ RampSlots \in Nat /\ StatsExcludeShortened
  BY <1>1, Floors, StepAssumption, SMT DEF IInv, Kinds, Stats
<1>4. steps' \in Nat /\ minH' \in Nat /\ ramp' \in [1..RampSlots -> Nat]
  BY <1>2, <1>3, SMT DEF Accept
<1>5. minH' # 0 => minH' >= HMin
  BY <1>2, <1>3, SMT DEF Accept, ControllerChose, StatsExcludeShortened
<1>6. ASSUME NEW i \in 1..RampSlots, ramp'[i] # 0
      PROVE  minH' # 0 /\ ramp'[i] >= minH'
  <2>1. ramp[i] \in Nat /\ (ramp[i] # 0 => minH # 0 /\ ramp[i] >= minH)
    BY <1>3, SMT DEF StatsExcludeShortened
  <2>2. ramp'[i] = IF ControllerChose /\ i = steps' THEN HStep ELSE ramp[i]
    BY Zenon DEF Accept
  <2>3. minH' = IF ControllerChose /\ (minH = 0 \/ HStep < minH) THEN HStep ELSE minH
    BY Zenon DEF Accept
  <2>4. QED
    BY <1>2, <1>3, <1>6, <2>1, <2>2, <2>3, SMT
<1>7. QED
  BY <1>4, <1>5, <1>6, Zenon DEF Stats, StatsExcludeShortened

LEMMA CompatDiscardStep ==
  ASSUME IInv, CompatNonFinite \/ CompatRejected \/ CompatRefused
  PROVE  IInv'
<1>1. /\ loop = "compat" /\ status = "running" /\ t < Span
      /\ UNCHANGED <<call, taken, out, t, k1, minH, ramp>>
      /\ steps' \in {steps, steps + 1}
  BY Zenon DEF CompatNonFinite, CompatRejected, CompatRefused, CompatDiscard, CompatTry,
     samples, trajectory, stats
<1>2. HStep \in Nat
  BY <1>1, StepFacts
<1>3. HStep \div 10 \in Int /\ (HStep \div 10)..(HStep \div 2) \subseteq Int
  BY <1>2, SMT
<1>4. h' \in Floor..HMax /\ status' \in {"running"} \union Returned
  <2>1. {"NonFiniteState", "MaxRejectsExceeded", "InvalidInput"} \subseteq Returned
    BY Zenon DEF Returned
  <2>2. CASE CompatNonFinite
    BY <1>1, <1>3, <2>1, <2>2, Sizes, GivesUp, Zenon DEF CompatNonFinite, CompatDiscard
  <2>3. CASE CompatRejected
    <3>1. {Clamp(size) : size \in (HStep \div 10)..(HStep \div 2)} \subseteq Floor..HMax
      BY <1>3, Sizes, Zenon
    <3>2. GiveUpOr(Counted > MaxRejects, "MaxRejectsExceeded",
                   {Clamp(size) : size \in (HStep \div 10)..(HStep \div 2)})
      BY <2>3, Zenon DEF CompatRejected, CompatDiscard
    <3>3. QED
      BY <1>1, <2>1, <3>1, <3>2, GivesUp, Zenon
  <2>4. CASE CompatRefused
    BY <2>1, <2>4, Zenon DEF IInv, Kinds, CompatRefused, Leave
  <2>5. QED
    BY <2>2, <2>3, <2>4
<1>5. Stats'
  BY <1>1, StatsCount, Zenon DEF IInv
<1>6. QED
  BY <1>1, <1>4, <1>5, Quiet, Zenon

\* A step a handler stops, whichever loop took it.
LEMMA Halted ==
  ASSUME IInv, Accept \/ CompatAccept
  PROVE  status = "running" /\ t < Span /\ UNCHANGED call /\ Stats'
<1>1. CASE Accept
  BY <1>1, AcceptStats, Zenon DEF Accept, CanTry
<1>2. CASE CompatAccept
  <2>1. steps' \in {steps, steps + 1} /\ UNCHANGED <<minH, ramp>>
    BY <1>2, Zenon DEF CompatAccept
  <2>2. Stats'
    BY <2>1, StatsCount, Zenon DEF IInv
  <2>3. QED
    BY <1>2, <2>2, Zenon DEF CompatAccept, CompatTry
<1>3. QED
  BY <1>1, <1>2

LEMMA StopInvalidStep ==
  ASSUME IInv, StopInvalid \/ CompatStopInvalid
  PROVE  IInv'
<1>1. HandlerIsInvalid /\ (Accept \/ CompatAccept)
  BY Zenon DEF StopInvalid, CompatStopInvalid
<1>2. status = "running" /\ UNCHANGED <<call, taken, out, t, h, memory, k1>> /\ Stats'
  BY <1>1, Halted, Zenon DEF HandlerIsInvalid, Discontinued, trajectory
<1>3. h' \in Floor..HMax /\ status' \in Returned
  BY <1>1, <1>2, Zenon DEF IInv, Kinds, HandlerIsInvalid, Returned
<1>4. QED
  BY <1>2, <1>3, Quiet, Zenon

-----------------------------------------------------------------------------
(* A step that is taken *)

\* What is published are the samples themselves, and what is left lies ahead.
LEMMA AdvanceSamples ==
  ASSUME IInv, Advance \/ CompatAdvance
  PROVE  /\ taken' \in 0..Len(grid) /\ taken <= taken'
         /\ out' \in Seq(Nat \X Nat) /\ Len(out') = taken'
         /\ \A i \in 1..taken' : out'[i] = <<grid[i], grid[i]>> /\ grid[i] <= t'
         /\ \A i \in taken' + 1..Len(grid) : t' < grid[i]
<1>1. status = "running" /\ t < Span /\ t' = t + HStep
  BY Halted, Zenon DEF Advance, CompatAdvance
<1>2. /\ HStep \in Nat /\ 0 < HStep
      /\ (sampling = "forced" /\ taken < Len(grid) => t' <= grid[taken + 1])
  BY <1>1, StepFacts
<1>3. t \in Nat /\ t' \in Nat /\ t < t' /\ taken \in Nat /\ taken <= Len(grid)
  BY <1>1, <1>2, StepAssumption, SMT DEF IInv, Kinds
<1>4. Len(grid) \in Nat /\ \A i \in 1..Len(grid) : grid[i] \in Nat
  BY GridFacts, StepAssumption, SMT DEF IInv
<1>5. out \in Seq(Nat \X Nat) /\ Len(out) = taken
  BY <1>1, Zenon DEF IInv, Kinds, SamplesAreTrue
<1>6. PICK count \in 0..Len(grid) - taken :
        Publishes(count, t') /\ out' = Published(count, t') /\ taken' = taken + count
  BY Zenon DEF Advance, CompatAdvance
<1>7. count \in Nat /\ taken + count <= Len(grid) /\ taken' \in 0..Len(grid)
  BY <1>3, <1>4, <1>6, SMT
<1>8. \A i \in taken + 1..taken + count : t < grid[i] /\ grid[i] <= t'
  <2>1. SUFFICES ASSUME NEW i \in taken + 1..taken + count PROVE t < grid[i] /\ grid[i] <= t'
    OBVIOUS
  <2>2. i \in taken + 1..Len(grid)
    BY <1>3, <1>4, <1>7, SMT
  <2>3. t < grid[i]
    BY <1>1, <2>2, Zenon DEF IInv, Ahead
  <2>4. grid[i] <= t'
    BY <1>3, <1>6, SMT DEF Publishes, IsDue
  <2>5. QED
    BY <2>3, <2>4
<1> DEFINE Piece == [i \in 1..count |->
                      <<grid[taken + i], Least(Greatest(grid[taken + i], t), t')>>]
<1>9. \A i \in 1..count : Piece[i] = <<grid[taken + i], grid[taken + i]>>
                          /\ Piece[i] \in Nat \X Nat
  <2>1. SUFFICES ASSUME NEW i \in 1..count
                 PROVE  /\ Piece[i] = <<grid[taken + i], grid[taken + i]>>
                        /\ Piece[i] \in Nat \X Nat
    OBVIOUS
  <2>2. taken + i \in taken + 1..taken + count /\ taken + i \in 1..Len(grid)
    BY <1>3, <1>4, <1>7, SMT
  <2>3. grid[taken + i] \in Nat /\ t < grid[taken + i] /\ grid[taken + i] <= t'
    BY <1>4, <1>8, <2>2
  <2>4. Least(Greatest(grid[taken + i], t), t') = grid[taken + i]
    BY <1>3, <2>3, SMT DEF Least, Greatest
  <2>5. QED
    BY <2>3, <2>4, Zenon
<1>10. Piece \in Seq(Nat \X Nat) /\ Len(Piece) = count
  <2>1. Piece \in [1..count -> Nat \X Nat]
    BY <1>9, Zenon DEF Piece
  <2>2. Piece \in Seq(Nat \X Nat)
    BY <1>7, <2>1, SMT
  <2>3. DOMAIN Piece = 1..count /\ DOMAIN Piece = 1..Len(Piece) /\ Len(Piece) \in Nat
    BY <2>1, <2>2, LenProperties, Zenon
  <2>4. QED
    BY <1>7, <2>2, <2>3, SMT
<1>11. out' = out \o Piece
  BY <1>6, Zenon DEF Published
<1> HIDE DEF Piece
<1>12. out' \in Seq(Nat \X Nat) /\ Len(out') = taken'
  <2>1. out' \in Seq(Nat \X Nat) /\ Len(out') = Len(out) + Len(Piece)
    BY <1>5, <1>10, <1>11, ConcatProperties, Zenon
  <2>2. QED
    BY <1>5, <1>6, <1>10, <2>1, Zenon
<1>13. ASSUME NEW i \in 1..taken'
       PROVE  out'[i] = <<grid[i], grid[i]>> /\ grid[i] <= t'
  <2>1. CASE i <= taken
    <3>1. i \in 1..taken
      BY <1>3, <2>1, SMT
    <3>2. out'[i] = out[i]
      BY <1>5, <1>10, <1>11, <1>3, <2>1, <3>1, ConcatProperties, SMT
    <3>3. out[i] = <<grid[i], grid[i]>> /\ grid[i] <= t
      BY <3>1, Zenon DEF IInv, SamplesAreTrue, Ahead
    <3>4. grid[i] \in Nat
      BY <1>3, <1>4, <3>1, SMT
    <3>5. QED
      BY <1>3, <3>2, <3>3, <3>4, SMT
  <2>2. CASE ~(i <= taken)
    <3>1. i \in taken + 1..taken + count /\ i - taken \in 1..count /\ taken + (i - taken) = i
      BY <1>3, <1>6, <1>7, <2>2, SMT
    <3>2. out'[i] = Piece[i - taken]
      <4>1. i \in 1..Len(out) + Len(Piece) /\ ~(i <= Len(out))
        BY <1>3, <1>5, <1>6, <1>7, <1>10, <2>2, SMT
      <4>2. (out \o Piece)[i] = Piece[i - Len(out)]
        BY <1>5, <1>10, <4>1, ConcatProperties, Zenon
      <4>3. QED
        BY <1>5, <1>11, <4>2, Zenon
    <3>3. QED
      BY <1>8, <1>9, <3>1, <3>2, Zenon
  <2>3. QED
    BY <2>1, <2>2
<1>14. ASSUME NEW i \in taken' + 1..Len(grid)
       PROVE  t' < grid[i]
  <2> DEFINE first == taken + count + 1
  <2>1. /\ first \in 1..Len(grid) /\ i \in 1..Len(grid) /\ first <= i
        /\ taken + count < Len(grid) /\ taken < Len(grid) /\ taken + 1 \in 1..Len(grid)
    BY <1>3, <1>4, <1>6, <1>7, <1>14, SMT
  <2>2. sampling # "final"
    <3>1. sampling = "final" => grid = <<>>
      BY DEF IInv, Kinds
    <3>2. QED
      BY <2>1, <3>1, SMT
  <2>3. grid[first] <= grid[i] /\ grid[taken + 1] <= grid[first]
    <3>1. taken + 1 <= first
      BY <1>3, <1>7, SMT
    <3>2. QED
      BY <2>1, <2>2, <3>1, Zenon DEF IInv, Kinds, IsGrid
  <2>4. ~IsDue(grid[first], t')
    BY <1>6, <2>1, Zenon DEF Publishes
  <2>5. grid[first] \in Nat /\ grid[i] \in Nat /\ grid[taken + 1] \in Nat
    BY <1>4, <2>1
  <2>6. CASE sampling = "dense"
    BY <1>3, <2>3, <2>4, <2>5, <2>6, SMT DEF IsDue
  <2>7. CASE sampling # "dense"
    <3>1. sampling = "forced"
      BY <2>2, <2>7, Zenon DEF IInv, Kinds, Methods
    <3>2. t' <= grid[taken + 1]
      BY <1>2, <2>1, <3>1
    <3>3. grid[first] # t'
      BY <2>4, <2>7, Zenon DEF IsDue
    <3>4. QED
      BY <1>3, <2>3, <2>5, <3>2, <3>3, SMTT(30)
  <2>8. QED
    BY <2>6, <2>7
<1>15. taken <= taken'
  BY <1>3, <1>6, <1>7, SMT
<1>16. QED
  BY <1>7, <1>12, <1>13, <1>14, <1>15

LEMMA AdvanceStep ==
  ASSUME IInv, Advance \/ CompatAdvance
  PROVE  IInv'
<1>1. /\ status = "running" /\ status' = "running" /\ t < Span /\ t' = t + HStep
      /\ memory' = t' /\ k1' \in {Nothing, t'} /\ UNCHANGED call /\ Stats'
  BY Halted, Zenon DEF Advance, CompatAdvance
<1>2. HStep \in Nat /\ 0 < HStep /\ t' <= Span
  BY <1>1, StepFacts
<1>3. t' \in 0..Span /\ h' \in Floor..HMax
  <2>1. t' \in 0..Span
    BY <1>1, <1>2, StepAssumption, SMT DEF IInv, Kinds
  <2>2. Growth \in Nat
    BY StepAssumption, SMT DEF Growth, Least
  <2>3. (HStep \div 5)..(HStep * Growth) \subseteq Int
    BY <1>2, <2>2, SMT
  <2>4. (HStep \div 5)..(HStep * (IF justRejected THEN 2 ELSE 5)) \subseteq Int
    BY <1>2, SMT
  <2>5. h' \in Floor..HMax
    BY <2>3, <2>4, Sizes, Zenon DEF Advance, CompatAdvance
  <2>6. QED
    BY <2>1, <2>5
<1>4. Floor' = Floor
  BY <1>1, FloorStays
<1>5. /\ taken' \in 0..Len(grid) /\ taken <= taken' /\ out' \in Seq(Nat \X Nat)
      /\ Len(out') = taken'
  BY AdvanceSamples, Zenon
<1>6. Kinds'
  <2>1. Len(grid) \in Nat /\ taken \in Nat /\ (sampling # "final" => taken >= 1)
    BY GridFacts, SMT DEF IInv, Kinds
  <2>2. taken' <= Len(out') /\ (sampling # "final" => taken' >= 1)
    BY <1>5, <2>1, SMT
  <2>3. QED
    BY <1>1, <1>3, <1>4, <1>5, <2>2, Zenon DEF IInv, Kinds, Methods
<1>7. Ahead' /\ SamplesAreTrue'
  BY <1>1, AdvanceSamples, Zenon DEF Ahead, SamplesAreTrue
<1>8. NothingLeaks' /\ UnderflowIsCallers' /\ InheritedBelongsHere'
  BY <1>1, Zenon DEF NothingLeaks, UnderflowIsCallers, InheritedBelongsHere
<1>9. QED
  BY <1>1, <1>6, <1>7, <1>8 DEF IInv

-----------------------------------------------------------------------------
(* The ways out *)

\* The event lies within the step, and a state that is not of its time says so.
LEMMA EventFacts ==
  ASSUME NEW raw \in Nat \union {Nothing}, NEW valid \in BOOLEAN,
         t \in Nat, HStep \in Nat, NEW e, e = Sanitized(raw, valid)
  PROVE  /\ e.label \in t..t + HStep /\ e.at \in Nat
         /\ e.at # e.label => e.method = "Clamp"
<1>1. EventLabel(raw) \in t..t + HStep
  BY SMT DEF EventLabel, Least, Greatest, Nothing
<1>2. EventLabel(raw) \in Nat
  BY <1>1, SMT
<1>3. /\ e.label = EventLabel(raw)
      /\ e.at = IF valid /\ raw # Nothing THEN raw ELSE EventLabel(raw)
      /\ raw # EventLabel(raw) /\ valid => e.method = "Clamp"
  BY SMT DEF Sanitized
<1>4. QED
  BY <1>1, <1>2, <1>3, SMT

LEMMA StopStep ==
  ASSUME IInv, Stop \/ CompatStop
  PROVE  IInv'
<1>0. HandlerStops /\ (Accept \/ CompatAccept)
  BY Zenon DEF Stop, CompatStop
<1>1. /\ status = "running" /\ t < Span /\ status' = "EventTriggered"
      /\ UNCHANGED <<call, taken, t, h, memory, k1>> /\ Stats'
  BY <1>0, Halted, Zenon DEF HandlerStops, Discontinued, trajectory
<1>2. HStep \in Nat /\ 0 < HStep /\ t + HStep <= Span /\ t \in Nat /\ Span \in Nat
  BY <1>1, StepFacts, StepAssumption, SMT DEF IInv, Kinds
<1>3. PICK raw \in {Nothing, t + HStep + 1} \union Greatest(t - 1, 0)..(t + HStep),
           valid \in BOOLEAN : event' = Sanitized(raw, valid)
  BY <1>0, Zenon DEF HandlerStops
<1>4. raw \in Nat \union {Nothing}
  BY <1>2, <1>3, SMT DEF Greatest, Nothing
<1>5. /\ event'.label \in t..t + HStep /\ event'.at \in Nat
      /\ event'.at # event'.label => event'.method = "Clamp"
  BY <1>2, <1>3, <1>4, EventFacts
<1>6. event'.label \in t..Span /\ event'.label \in Nat
  BY <1>2, <1>5, SMT
<1>7. out \in Seq(Nat \X Nat) /\ Len(out) = taken /\ Len(grid) \in Nat /\ taken \in Nat
      /\ taken <= Len(grid) /\ taken <= Len(out)
      /\ \A i \in 1..taken : out[i] = <<grid[i], grid[i]>> /\ grid[i] <= t
  BY <1>1, GridFacts, SMTT(30) DEF IInv, Kinds, SamplesAreTrue, Ahead
<1>8. \A i \in 1..taken : grid[i] \in Nat
  BY <1>2, <1>7, GridFacts, SMTT(30) DEF IInv
<1>9. /\ out' \in Seq(Nat \X Nat) /\ taken <= Len(out')
      /\ \A i \in 1..taken : out'[i] = out[i]
      /\ \A i \in 1..Len(out') : i \in 1..taken \/ out'[i][1] = event'.label
      /\ sampling # "final" => out'[Len(out')][1] = event'.label
  <2>1. CASE sampling = "final" \/ out[Len(out)][1] = event'.label
    <3>1. out' = out
      BY <1>0, <2>1, Zenon DEF HandlerStops, BeforeEvent
    <3>2. QED
      BY <1>7, <2>1, <3>1, Zenon
  <2>2. CASE ~(sampling = "final" \/ out[Len(out)][1] = event'.label)
    <3> DEFINE last == <<event'.label, event'.at>>
    <3>1. out' = Append(out, last) /\ last \in Nat \X Nat
      BY <1>0, <1>5, <1>6, <2>2, Zenon DEF HandlerStops, BeforeEvent
    <3>2. /\ out' \in Seq(Nat \X Nat) /\ Len(out') = taken + 1
          /\ (\A i \in 1..taken : out'[i] = out[i]) /\ out'[taken + 1] = last
      <4>1. /\ out' \in Seq(Nat \X Nat) /\ Len(out') = Len(out) + 1
            /\ (\A i \in 1..Len(out) : out'[i] = out[i]) /\ out'[Len(out) + 1] = last
        <5>1. \A e \in Nat \X Nat :
                /\ Append(out, e) \in Seq(Nat \X Nat) /\ Len(Append(out, e)) = Len(out) + 1
                /\ \A i \in 1..Len(out) : Append(out, e)[i] = out[i]
                /\ Append(out, e)[Len(out) + 1] = e
          BY <1>7, AppendProperties
        <5> HIDE DEF last
        <5>2. QED
          BY <3>1, <5>1, Zenon
      <4>2. QED
        BY <1>7, <4>1, Zenon
    <3>3. \A i \in 1..taken + 1 : i \in 1..taken \/ i = taken + 1
      BY <1>7, SMT
    <3>4. taken <= Len(out')
      BY <1>7, <3>2, SMT
    <3>5. last[1] = event'.label
      BY Zenon
    <3>6. out'[Len(out')][1] = event'.label
      BY <3>2, <3>5, Zenon
    <3> HIDE DEF last
    <3>7. \A i \in 1..Len(out') : i \in 1..taken \/ out'[i][1] = event'.label
      BY <3>2, <3>3, <3>5, Zenon
    <3>8. QED
      BY <3>2, <3>4, <3>6, <3>7, Zenon
  <2>3. QED
    BY <2>1, <2>2
<1>10. Kinds'
  BY <1>1, <1>9, FloorStays, Zenon DEF IInv, Kinds, Methods
<1>11. Ahead' /\ SamplesAreTrue'
  BY <1>1, <1>7, <1>9, Zenon DEF Ahead, SamplesAreTrue
<1>12. NothingLeaks'
  <2>1. ASSUME NEW i \in 1..taken
        PROVE  out'[i][1] <= t /\ out'[i][1] <= event'.label
    <3>1. out'[i][1] = grid[i]
      <4>1. out'[i] = <<grid[i], grid[i]>>
        BY <1>7, <1>9, Zenon
      <4>2. QED
        BY <4>1
    <3>2. QED
      BY <1>2, <1>5, <1>7, <1>8, <3>1, SMTT(30)
  <2>2. \A i \in 1..Len(out') : out'[i][1] <= event'.label
    BY <1>6, <1>9, <2>1, SMT
  <2>3. QED
    BY <1>1, <1>5, <1>6, <1>9, <2>1, <2>2, Zenon DEF NothingLeaks
<1>13. UnderflowIsCallers' /\ InheritedBelongsHere'
  BY <1>1, Zenon DEF IInv, UnderflowIsCallers, InheritedBelongsHere
<1>14. QED
  BY <1>1, <1>10, <1>11, <1>12, <1>13 DEF IInv

LEMMA OutOfStepsStep ==
  ASSUME IInv, OutOfSteps
  PROVE  IInv'
<1>1. status = "running" /\ status' \in Returned
      /\ UNCHANGED <<call, taken, out, t, h, memory, k1, stats>>
  BY Zenon DEF OutOfSteps, Finish, samples, trajectory, control, Returned
<1>2. h' \in Floor..HMax /\ Stats'
  BY <1>1, StatsStay, Zenon DEF IInv, Kinds
<1>3. QED
  BY <1>1, <1>2, Quiet, Zenon

LEMMA UnderflowStep ==
  ASSUME IInv, Underflow
  PROVE  IInv'
<1>1. loop # "compat" /\ status = "running" /\ t < Span /\ TooSmall /\ status' = "StepUnderflow"
      /\ UNCHANGED <<call, taken, out, t, h, memory, k1, stats>>
  BY Zenon DEF Underflow, Finish, samples, trajectory, control
<1>2. UnderflowIsCallers'
  <2>1. SUFFICES ASSUME loop = "explicit"
                 PROVE  /\ sampling = "forced" /\ taken < Len(grid)
                        /\ grid[taken + 1] - t \in 1..HMin - 1 /\ grid[taken + 1] < Span
    BY <1>1, Zenon DEF UnderflowIsCallers
  <2>2. HStep < HMin /\ HStep # Remaining
    BY <1>1, <2>1, Zenon DEF TooSmall
  <2>3. t \in 0..Span /\ h \in Int /\ HMin <= h /\ HMin \in Nat /\ Span \in Nat
        /\ taken \in Nat /\ Len(grid) \in Nat
    BY <1>1, Floors, StepAssumption, GridFacts, SMT DEF IInv, Kinds
  <2>4. HStep \in Nat /\ 0 < HStep /\ t + HStep <= Span
    BY <1>1, StepFacts
  <2>5. sampling = "forced" /\ taken < Len(grid) /\ grid[taken + 1] - t = HStep
    BY <1>1, <2>2, <2>3, <2>4, StepFacts, SMT
  <2>6. grid[taken + 1] \in 0..Span
    BY <2>3, <2>5, GridFacts, SMT DEF IInv
  <2>7. QED
    BY <2>2, <2>3, <2>4, <2>5, <2>6, SMT DEF Remaining
<1>3. Kinds' /\ Stats'
  BY <1>1, FloorStays, StatsStay, Zenon DEF IInv, Kinds, Methods
<1>4. Ahead' /\ SamplesAreTrue' /\ NothingLeaks' /\ InheritedBelongsHere'
  BY <1>1, Zenon DEF IInv, Ahead, SamplesAreTrue, NothingLeaks, InheritedBelongsHere
<1>5. QED
  BY <1>2, <1>3, <1>4 DEF IInv

\* No sample is owed at the end.
LEMMA NoneOwed ==
  ASSUME IInv, status = "running", t = Span
  PROVE  taken = Len(grid) /\ Len(grid) \in Nat
<1>1. taken \in Nat /\ taken <= Len(grid) /\ Len(grid) \in Nat /\ Span \in Nat
  BY StepAssumption, GridFacts, SMT DEF IInv, Kinds
<1>2. taken = Len(grid)
  <2>1. SUFFICES ASSUME taken < Len(grid) PROVE FALSE
    BY <1>1, SMT
  <2>2. taken + 1 \in taken + 1..Len(grid) /\ taken + 1 \in 1..Len(grid)
    BY <1>1, <2>1, SMT
  <2>3. t < grid[taken + 1] /\ grid[taken + 1] \in 0..Span
    BY <2>2, GridFacts, Zenon DEF IInv, Ahead
  <2>4. QED
    BY <1>1, <2>3, SMT
<1>3. QED
  BY <1>1, <1>2

\* So the fill adds none, and the loop that fills nothing misses none.
LEMMA ArriveStep ==
  ASSUME IInv, Arrive \/ CompatArrive
  PROVE  IInv'
<1>1. status = "running" /\ t = Span /\ status' = "Success"
      /\ UNCHANGED <<call, t, h, memory, k1, stats>>
  BY Zenon DEF Arrive, CompatArrive, Finish, trajectory, control
<1>2. taken = Len(grid) /\ Len(grid) \in Nat
  BY <1>1, NoneOwed
<1>3. taken' = Len(grid)
  BY <1>2, Zenon DEF Arrive, CompatArrive, samples
<1>4. out' = out
  <2>1. CASE Arrive
    <3>1. Len(grid) - taken = 0 /\ 1..0 = {}
      BY <1>2, SMT
    <3>2. [i \in 1..Len(grid) - taken |-> <<grid[taken + i], t>>] = <<>>
      BY <3>1, SMT
    <3>3. out \in Seq(Nat \X Nat)
      BY Zenon DEF IInv, Kinds
    <3>4. out \o <<>> = out
      BY <3>3, ConcatEmptySeq
    <3>5. QED
      BY <2>1, <3>2, <3>4, Zenon DEF Arrive
  <2>2. CASE CompatArrive
    BY <2>2, Zenon DEF CompatArrive, samples
  <2>3. QED
    BY <2>1, <2>2
<1>5. Kinds' /\ Stats'
  BY <1>1, <1>2, <1>3, <1>4, FloorStays, StatsStay, Zenon DEF IInv, Kinds, Methods
<1>6. Ahead' /\ SamplesAreTrue'
  BY <1>1, <1>2, <1>3, <1>4, Zenon DEF IInv, Ahead, SamplesAreTrue
<1>7. NothingLeaks' /\ UnderflowIsCallers' /\ InheritedBelongsHere'
  BY <1>1, Zenon DEF IInv, NothingLeaks, UnderflowIsCallers, InheritedBelongsHere
<1>8. QED
  BY <1>5, <1>6, <1>7 DEF IInv

LEMMA Stutter ==
  ASSUME IInv, UNCHANGED vars
  PROVE  IInv'
<1>1. UNCHANGED <<call, taken, out, t, h, status, memory, k1, event, stats>>
  BY Zenon DEF vars, samples, trajectory, control
<1>2. Kinds'
  BY <1>1, FloorStays, Zenon DEF IInv, Kinds, Methods
<1>3. Ahead' /\ SamplesAreTrue' /\ NothingLeaks'
  BY <1>1, Zenon DEF IInv, Ahead, SamplesAreTrue, NothingLeaks
<1>4. InheritedBelongsHere' /\ UnderflowIsCallers' /\ Stats'
  BY <1>1, StatsStay, Zenon DEF IInv, InheritedBelongsHere, UnderflowIsCallers
<1>5. QED
  BY <1>2, <1>3, <1>4 DEF IInv

-----------------------------------------------------------------------------
\* The samples stay true, nothing leaks, nothing inherited is stale.
THEOREM Invariant == Spec => []IInv
<1>1. IInv /\ [Next]_vars => IInv'
  BY DiscardStep, CompatDiscardStep, AdvanceStep, StopStep, StopInvalidStep, OutOfStepsStep, UnderflowStep,
     ArriveStep, Stutter, Zenon DEF Next
<1>2. QED
  BY Start, <1>1, PTL DEF Spec

\* For every grid of samples and every sequence of failures: each published
\* sample is the solution at its label, and success publishes all of them.
THEOREM TrueSamples == Spec => []SamplesAreTrue
<1>1. IInv => SamplesAreTrue
  BY DEF IInv
<1>2. QED
  BY Invariant, <1>1, PTL

\* Wherever a handler stops: the step it stops in publishes nothing of its own.
THEOREM NoLeak == Spec => []NothingLeaks
<1>1. IInv => NothingLeaks
  BY DEF IInv
<1>2. QED
  BY Invariant, <1>1, PTL

\* The remembered error and the cached derivative are those of the accepted
\* step that ends at t.
THEOREM Inherited == Spec => []InheritedBelongsHere
<1>1. IInv => InheritedBelongsHere
  BY DEF IInv
<1>2. QED
  BY Invariant, <1>1, PTL

\* For every h_min: the explicit loop underflows only before a sample.
THEOREM CallersUnderflow == Spec => []UnderflowIsCallers
<1>1. IInv => UnderflowIsCallers
  BY DEF IInv
<1>2. QED
  BY Invariant, <1>1, PTL

\* No endpoint remainder enters min_accepted_h or the ramp.
THEOREM ControllersStats == Spec => []StatsExcludeShortened
<1>1. IInv => StatsExcludeShortened
  BY DEF IInv, Stats
<1>2. QED
  BY Invariant, <1>1, PTL
=============================================================================
