------------------------- MODULE EclipseCoordinator -------------------------
(***************************************************************************)
(* The binary-eclipse coordinator of crates/lightyear_odeint_rs,            *)
(* eclipse_coordinator.rs: an arc is integrated in segments with the shadow  *)
(* side frozen, every crossing of the shadow boundary discards the step that *)
(* saw it, is replayed in short steps, proved from the old side and then     *)
(* committed as a root from which the next segment starts on the other side. *)
(*                                                                         *)
(* Time is counted in ticks from t0 = 0 towards tf = Span (a backward arc is *)
(* its mirror image) and a tick is what a scan can resolve: the sky says at   *)
(* which ticks the satellite is in the shadow.  One leg of the solver is one  *)
(* choice among what its accepted steps can report; a scan may miss an even   *)
(* number of crossings within a step.                                        *)
(***************************************************************************)
EXTENDS Integers, Sequences, FiniteSets

CONSTANTS
  Span,        \* tf - t0
  Skies,       \* where the shadow may lie: functions from ticks to BOOLEAN
  Grids,       \* the t_eval a caller may pass
  Segment,     \* MAX_RECT_SEGMENT
  FineStep,    \* MAX_ROOT_REFINEMENT_STEP_S
  Uncertainty, \* ticks that MAX_ROOT_TOTAL_UNCERTAINTY_KM covers
  Margin,      \* ticks that ROOT_OLD_SIDE_MARGIN_KM covers
  MaxRestarts, \* MAX_OLD_SIDE_PROOF_RESTARTS
  MaxSplits,   \* MAX_ECLIPSE_SPLITS
  MaxPasses    \* MAX_STEPS, here the passes of the outer loop

ASSUME EclipseAssumption ==
  /\ Span \in Nat \ {0} /\ Segment \in Nat \ {0} /\ FineStep \in Nat \ {0}
  /\ Margin \in Nat \ {0} /\ Uncertainty \in Nat /\ Margin < Uncertainty
  /\ MaxRestarts \in Nat /\ MaxSplits \in Nat /\ MaxPasses \in Nat
  /\ Skies \subseteq [0..Span -> BOOLEAN]
  /\ \A g \in Grids : g \in Seq(Int) /\ \A i, j \in 1..Len(g) : i <= j => g[i] <= g[j]

None == -1
NoLeg == [saw |-> "nothing", old |-> None, new |-> None, at |-> None]

VARIABLES
  sky, tEval,        \* the sky and the request
  phase,             \* where the code is: head of the loop, refine, proof, window, done
  ending,            \* how it returned
  passes,            \* of the outer loop
  (* CoordinatorProgress *)
  currT, currEquinoc,  \* curr_equinoc is the elements of the state at that tick
  side, evalIndex, splitCount, lastRoot,
  out,                 \* per sample: its label, the epoch of the leg's baseline, the epoch added back
  (* one pass *)
  publicStart, publicEnd,  \* public_times is t_eval[publicStart + 1 .. publicEnd]
  prePublic,               \* public_start + pre_step_public_count
  bracket,                 \* the crossing step being resolved
  anchor, restartsLeft     \* of acquire_old_side_proof

request == <<sky, tEval>>
progress == <<currT, currEquinoc, side, evalIndex, splitCount, lastRoot, out>>
transaction == <<bracket, anchor, restartsLeft, prePublic>>
public == <<publicStart, publicEnd>>
vars == <<request, phase, ending, passes, progress, transaction, public>>

Least(a, b) == IF a <= b THEN a ELSE b
Greatest(a, b) == IF a >= b THEN a ELSE b

\* From t towards limit, but not further than reach.
Towards(t, limit, reach) ==
  IF t <= limit THEN Least(limit, t + reach) ELSE Greatest(limit, t - reach)

\* classify_binary_cylinder: TRUE in the shadow.
Side(t) == sky[t]

\* partition_point over a part of t_eval.
CountUpTo(from, to, t) == Cardinality({i \in from + 1..to : tEval[i] <= t})

Init ==
  /\ sky \in Skies /\ tEval \in Grids
  /\ phase = "head" /\ ending = "none" /\ passes = 0
  /\ currT = 0 /\ currEquinoc = 0 /\ side = Side(0)
  /\ evalIndex = CountUpTo(0, Len(tEval), -1)
  /\ splitCount = 0 /\ lastRoot = None /\ out = <<>>
  /\ publicStart = 0 /\ publicEnd = 0 /\ prePublic = 0
  /\ bracket = NoLeg /\ anchor = None /\ restartsLeft = 0
-----------------------------------------------------------------------------
(* What a leg from a to b with its side frozen to s can report.  A step that *)
(* leaves the last root is only scanned from the edge of the root's          *)
(* uncertainty on, and a step no longer than that is refused.                *)

ScanFrom(p, q) == IF p = lastRoot THEN Towards(p, q, Uncertainty) ELSE p

Scannable(p, q, s) == ScanFrom(p, q) < q /\ Side(ScanFrom(p, q)) = s

\* The boundary is passed between c and c + 1.
Seen(p, q, s) == {c \in ScanFrom(p, q)..q - 1 : Side(c) = s /\ Side(c + 1) # s}

\* The boundary is not reported: it was not crossed or crossed an even number of times.
Quiet(p, q, s) == Scannable(p, q, s) /\ Side(q) = s

\* Accepted steps of at most cap ticks lead from a to p without a report.
Reaches(a, p, s, cap) ==
  \/ p = a
  \/ \E y \in a + 1..Least(a + cap, p) :
       /\ Quiet(a, y, s) /\ Side(p) = s
       /\ \A x \in y..p - cap : \E z \in x + 1..x + cap : Side(z) = s

Report(saw, p, q, at) == [saw |-> saw, old |-> p, new |-> q, at |-> at]

Stops(a, b, s, cap) == {p \in a..b : Reaches(a, p, s, cap)}

Steps(a, b, s, cap) ==
  {pq \in Stops(a, b, s, cap) \X (a + 1..b) :
     pq[1] < pq[2] /\ pq[2] <= pq[1] + cap /\ Scannable(pq[1], pq[2], s)}

Crossings(p, q, s) == {Report("crossing", p, q, c) : c \in Seen(p, q, s)}

\* An event before a crossing that was seen, or anywhere in a step without one.
Events(p, q, s) ==
  {Report(kind, p, q, e) :
     kind \in {"perturb", "terminal"},
     e \in {e \in p..q : Side(q) = s \/ \E c \in Seen(p, q, s) : e <= c}}

Legs(a, b, s, cap) ==
  LET steps == Steps(a, b, s, cap)
  IN  {Report("error", a, a, None)}
      \union {Report("failed", p, p, None) : p \in Stops(a, b, s, cap)}
      \union {Report("success", b, b, None) : p \in Stops(a, b, s, cap) \intersect {b}}
      \union {Report("invalid", pq[1], pq[2], None) : pq \in {pq \in steps : Side(pq[2]) = s}}
      \union (UNION {Crossings(pq[1], pq[2], s) : pq \in steps})
      \union (UNION {Events(pq[1], pq[2], s) : pq \in steps})

\* The labels a leg has a state for: up to its last whole step, and its event.
HasSample(leg, t) == t <= leg.old \/ t = leg.at

IsEvent(leg) == leg.saw \in {"perturb", "terminal", "invalid"}
-----------------------------------------------------------------------------
Samples(from, count, legBase, addedBase) ==
  [i \in 1..count |-> <<tEval[from + i], legBase, addedBase>>]

Return(how) == phase' = "done" /\ ending' = how
Fail == Return("Err") /\ UNCHANGED <<progress, transaction>>

Rebase(t, epoch) == currT' = t /\ currEquinoc' = epoch

\* eval_index after an event: everything up to and including it is public.
AfterEventForgotten(from, to, t) == from
AfterEvent(from, to, t) == from + CountUpTo(from, to, t)

RootAfterRebase == None

MovedUnchecked(leg, base) == TRUE
Moved(leg, base) == leg.at # base

(* complete_non_eclipse_segment on t_eval[from + 1 .. to] and a leg that      *)
(* should have reached end.  legBase is the epoch of the leg's baseline; base, *)
(* index and soFar are curr_t, eval_index and the output when it is called.  *)
Complete(leg, from, to, end, legBase, base, index, soFar) ==
  /\ UNCHANGED <<side, splitCount, transaction>>
  /\ \/ /\ leg.saw \in {"invalid", "terminal", "failed"}
        /\ Return(leg.saw)
        /\ Rebase(base, base) /\ out' = soFar /\ evalIndex' = index /\ UNCHANGED lastRoot
     \/ /\ leg.saw = "perturb"
        /\ LET count == CountUpTo(from, to, leg.at)
               known == \A i \in from + 1..from + count : HasSample(leg, tEval[i])
           IN  IF Moved(leg, base) /\ known
               THEN /\ phase' = "head" /\ UNCHANGED ending
                    /\ out' = soFar \o Samples(from, count, legBase, base)
                    /\ Rebase(leg.at, leg.at)
                    /\ evalIndex' = AfterEvent(from, to, leg.at)
                    /\ lastRoot' = RootAfterRebase
               ELSE Return("Err") /\ Rebase(base, base) /\ out' = soFar
                    /\ evalIndex' = index /\ UNCHANGED lastRoot
     \/ /\ leg.saw = "success"
        /\ out' = soFar \o Samples(from, to - from, legBase, base)
        /\ evalIndex' = index
        /\ IF end = Span
           THEN Return("Success") /\ Rebase(base, base) /\ UNCHANGED lastRoot
           ELSE /\ phase' = "head" /\ UNCHANGED ending
                /\ Rebase(end, end) /\ lastRoot' = RootAfterRebase
-----------------------------------------------------------------------------
(* The outer loop: one pass integrates to the end of the segment.            *)

SegmentEnd == IF Span - currT > Segment THEN currT + Segment ELSE Span

Arrived ==
  /\ phase = "head" /\ passes < MaxPasses /\ currT = Span
  /\ Return("Success")
  /\ UNCHANGED <<request, passes, progress, transaction, public>>

OutOfPasses ==
  /\ phase = "head" /\ passes = MaxPasses
  /\ Return("Err")
  /\ UNCHANGED <<request, passes, progress, transaction, public>>

NextPublic == evalIndex + CountUpTo(evalIndex, Len(tEval), SegmentEnd)

Main(leg) ==
  /\ phase = "head" /\ passes < MaxPasses /\ currT < Span
  /\ passes' = passes + 1
  /\ publicStart' = evalIndex /\ publicEnd' = NextPublic
  /\ UNCHANGED request
  /\ \/ leg.saw = "error" /\ Fail
     \/ /\ leg.saw = "crossing"
        /\ phase' = "refine" /\ bracket' = leg /\ evalIndex' = NextPublic
        /\ UNCHANGED <<ending, currT, currEquinoc, side, splitCount, lastRoot, out,
                       anchor, restartsLeft, prePublic>>
     \/ Complete(leg, evalIndex, NextPublic, SegmentEnd, currT, currT, NextPublic, out)
-----------------------------------------------------------------------------
(* resolve_eclipse_split: the step that saw the crossing is replayed from its *)
(* start in short steps.  The replay may see nothing.                         *)

SourcePublic == publicStart + CountUpTo(publicStart, publicEnd, bracket.old)
SourceEnd == publicStart + CountUpTo(publicStart, publicEnd, bracket.new)
BeforeSource == out \o Samples(publicStart, SourcePublic - publicStart, currT, currT)

ReplayBaseStale == currT
ReplayBase == bracket.old

Refine(leg) ==
  /\ phase = "refine"
  /\ UNCHANGED <<request, passes, public>>
  /\ \/ leg.saw \in {"error", "failed"} /\ Fail
     \/ /\ leg.saw = "crossing"
        /\ LET count == CountUpTo(SourcePublic, SourceEnd, leg.old)
           IN  /\ out' = BeforeSource \o Samples(SourcePublic, count, bracket.old, ReplayBase)
               /\ prePublic' = SourcePublic + count
               /\ evalIndex' = SourcePublic + count
        /\ Rebase(leg.old, leg.old)
        /\ phase' = "proof" /\ bracket' = leg
        /\ anchor' = leg.at /\ restartsLeft' = MaxRestarts
        /\ UNCHANGED <<ending, side, splitCount, lastRoot>>
     \/ /\ leg.saw \notin {"error", "failed", "crossing"}
        /\ Complete(leg, SourcePublic, SourceEnd, bracket.new, bracket.old, ReplayBase,
                    SourceEnd, BeforeSource)
-----------------------------------------------------------------------------
(* acquire_old_side_proof: a leg from the checkpoint to a little before the   *)
(* crossing must see nothing; if it does see a crossing, that one is earlier  *)
(* and the proof starts over from the checkpoint.                             *)

ProofPoint == IF anchor = currT THEN currT ELSE Towards(anchor, currT, Margin)
ProofCount == IF anchor = currT THEN 0 ELSE CountUpTo(prePublic, publicEnd, ProofPoint)
OriginIsCrossing == ProofPoint = currT

NothingToProve ==
  /\ phase = "proof" /\ OriginIsCrossing
  /\ phase' = "window"
  /\ UNCHANGED <<request, ending, passes, progress, transaction, public>>

Prove(leg) ==
  /\ phase = "proof" /\ ~OriginIsCrossing
  /\ UNCHANGED <<request, passes, public>>
  /\ \/ leg.saw \in {"error", "failed"} /\ Fail
     \/ /\ leg.saw = "crossing"
        /\ IF restartsLeft > 0 /\ leg.at < anchor
           THEN /\ anchor' = leg.at /\ restartsLeft' = restartsLeft - 1
                /\ UNCHANGED <<phase, ending, progress, bracket, prePublic>>
           ELSE Fail
     \/ /\ leg.saw = "success" /\ phase' = "window"
        /\ UNCHANGED <<ending, progress, transaction>>
     \/ /\ IsEvent(leg)
        /\ Complete(leg, prePublic, prePublic + ProofCount, ProofPoint, currT, currT, evalIndex, out)
-----------------------------------------------------------------------------
(* The rest of commit_eclipse_root_transaction: the crossing is looked for    *)
(* once more from the proven point on, within the uncertainty of a root, and  *)
(* the end of the step that sees it becomes the root.                         *)

WindowLimit == Towards(ProofPoint, bracket.new, Uncertainty)
WindowStart == prePublic + ProofCount
AfterProof ==
  IF OriginIsCrossing THEN out ELSE out \o Samples(prePublic, ProofCount, currT, currT)

CanCommitAnySide(leg) == splitCount < MaxSplits
CanCommit(leg) ==
  /\ Side(leg.new) = ~side
  /\ lastRoot # None => leg.new > lastRoot
  /\ splitCount < MaxSplits

CommittedIndex(leg) == prePublic + CountUpTo(prePublic, publicEnd, leg.new)

RootEpoch(leg) == leg.new

Commit(leg) ==
  /\ out' = AfterProof \o Samples(WindowStart, CommittedIndex(leg) - WindowStart, currT, currT)
  /\ Rebase(leg.new, RootEpoch(leg))
  /\ side' = ~side /\ lastRoot' = leg.new /\ splitCount' = splitCount + 1
  /\ evalIndex' = CommittedIndex(leg)
  /\ phase' = "head"
  /\ UNCHANGED <<ending, transaction>>

WindowTooShort ==
  /\ phase = "window" /\ WindowLimit <= bracket.at
  /\ Fail /\ UNCHANGED <<request, passes, public>>

Window(leg) ==
  /\ phase = "window" /\ WindowLimit > bracket.at
  /\ UNCHANGED <<request, passes, public>>
  /\ \/ leg.saw \in {"error", "failed", "success"} /\ Fail
     \/ leg.saw = "crossing" /\ IF CanCommit(leg) THEN Commit(leg) ELSE Fail
     \/ /\ IsEvent(leg)
        /\ Complete(leg, WindowStart,
                    WindowStart + CountUpTo(WindowStart, publicEnd, WindowLimit),
                    WindowLimit, currT, currT, evalIndex, AfterProof)

-----------------------------------------------------------------------------
MainLegs == Legs(currT, SegmentEnd, side, Span)
RefineLegs == Legs(bracket.old, bracket.new, side, FineStep)
TransactionLegs(from, to) == Legs(from, to, side, FineStep)

Next ==
  \/ Arrived \/ OutOfPasses
  \/ phase = "head" /\ \E leg \in MainLegs : Main(leg)
  \/ phase = "refine" /\ \E leg \in RefineLegs : Refine(leg)
  \/ NothingToProve
  \/ phase = "proof" /\ \E leg \in TransactionLegs(currT, ProofPoint) : Prove(leg)
  \/ WindowTooShort
  \/ phase = "window" /\ \E leg \in TransactionLegs(ProofPoint, WindowLimit) : Window(leg)

Spec == Init /\ [][Next]_vars
-----------------------------------------------------------------------------
Phases == {"head", "refine", "proof", "window", "done"}
Endings == {"none", "Success", "Err", "invalid", "terminal", "failed"}
Reports == [saw : {"nothing", "crossing"}, old : {None} \union 0..Span,
            new : {None} \union 0..Span, at : {None} \union 0..Span]

(* Every variable has its type; a root is remembered only while it is the    *)
(* epoch the next leg starts from.                                           *)
TypeOK ==
  /\ sky \in Skies /\ tEval \in Grids
  /\ phase \in Phases /\ ending \in Endings /\ (ending # "none") = (phase = "done")
  /\ passes \in 0..MaxPasses /\ splitCount \in 0..MaxSplits
  /\ currT \in 0..Span /\ currEquinoc \in 0..Span /\ side \in BOOLEAN
  /\ lastRoot \in {None} \union 0..currT
  /\ phase \in {"head", "refine"} => lastRoot \in {None, currT}
  /\ {evalIndex, publicStart, publicEnd, prePublic} \subseteq 0..Len(tEval)
  /\ out \in Seq((0..Span) \X (0..Span) \X (0..Span))
  /\ bracket \in Reports /\ anchor \in {None} \union 0..Span
  /\ restartsLeft \in 0..MaxRestarts

Skipped == CountUpTo(0, Len(tEval), -1)

(* The samples are a prefix of the t_eval in [t0, tf], each once and in order, *)
(* whatever was replayed, restarted or cut short by an event: nothing that   *)
(* lies after the checkpoint is published while an attempt may still be      *)
(* abandoned, nothing before it is owed at the head of the loop, and a       *)
(* successful return owes nothing.                                           *)
EachSampleOnce ==
  /\ \A i \in 1..Len(out) : out[i][1] = tEval[Skipped + i]
  /\ phase # "done" => \A i \in 1..Len(out) : out[i][1] <= currT
  /\ phase = "head" /\ passes > 0 =>
       /\ Skipped + Len(out) = evalIndex
       /\ evalIndex = CountUpTo(0, Len(tEval), currT)
  /\ ending = "Success" => Skipped + Len(out) = CountUpTo(0, Len(tEval), Span)

(* The baseline is that of the current epoch, and a sample's deviation is     *)
(* added back to the baseline of the leg it was integrated on, although a     *)
(* pass may change the baseline three times.                                  *)
BaselineIsCurrent ==
  /\ currEquinoc = currT
  /\ \A i \in 1..Len(out) : out[i][2] = out[i][3] /\ out[i][2] <= out[i][1]

(* A root is committed only with a boundary between a point proved to lie on  *)
(* the old side and the root, no further from that point than the root's      *)
(* uncertainty, later than the checkpoint, and the frozen side becomes the    *)
(* true one of the new epoch.                                                 *)
RootsAreProved ==
  [][splitCount' # splitCount =>
       /\ Side(ProofPoint) = side /\ side' # side /\ side' = Side(currT')
       /\ currT < currT' /\ currT' <= ProofPoint + Uncertainty
       /\ \E c \in ProofPoint..currT' - 1 : Side(c) = side /\ Side(c + 1) # side]_vars

(* A pass of the outer loop that goes on has moved the epoch forward, so that *)
(* no sequence of crossings, replays and deviations makes the loop run in     *)
(* place until MAX_STEPS.                                                     *)
PassesAdvance == phase = "head" => currT >= passes
=============================================================================
