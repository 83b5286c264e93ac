----------------------------- MODULE MassSolver -----------------------------
(***************************************************************************)
(* The deterministic mass of one event (crates/dust_estimates_rs,            *)
(* mass_solver.rs): the smallest mass whose miss distance reaches the        *)
(* target, searched with a handful of high-fidelity propagations.            *)
(*                                                                         *)
(* A mass is a number of ticks, and a miss distance is counted from the      *)
(* target: below zero is unsafe.  The miss as a function of the mass is any  *)
(* function at all, not necessarily monotone or finite; "known" is as much   *)
(* of it as has been computed.                                               *)
(***************************************************************************)
EXTENDS MissMemo

CONSTANTS
  Residuals,  \* the finite miss distances, less the target
  NonFinite,  \* the miss distance of an orbit that does not exist
  Xtol, Rtol, MassMax, MaxIter,  \* SolverConfig
  MaxProbes   \* the probes of the search for an upper mass: 80

ASSUME MassSolverAssumption ==
  /\ Residuals \subseteq Int /\ NonFinite \notin Int /\ Unknown \notin Residuals \union {NonFinite}
  /\ Xtol \in Nat \ {0, 1} /\ Rtol \in Nat \ {0} /\ MassMax \in Nat \ {0} /\ MaxIter \in Nat
  /\ MaxProbes \in Nat \ {0}
  /\ 0..MassMax + Xtol \subseteq DOMAIN Home

VARIABLES
  phase,
  route,    \* "validate": solve_single_event_hf_validate_only, "full": the whole bracket
  exact,    \* the zero-mass anchor is the propagation itself
  lo, hi,   \* the bracket: the last unsafe point, the last point
  window,   \* the masses an upper bound is searched between, and where
  brent,    \* the points of Brent's method
  calls,    \* hf_calls, or the iterations of the loop the full path is in
  memo, known, result

bracket == <<lo, hi>>
facts == <<memo, known>>
vars == <<phase, route, exact, bracket, window, brent, calls, facts, result>>

Point(mass, miss) == [m |-> mass, r |-> miss]
NoPoint == Point(0, 0)
NoMass == -1
NoWindow == [floor |-> 0, ceil |-> NoMass, probe |-> 0]
NoBrent == [best |-> NoPoint, prev |-> NoPoint, brk |-> NoPoint, safe |-> NoPoint]
NoResult == [mass |-> NoMass, status |-> "none"]

Init ==
  /\ phase = "start" /\ route = "validate" /\ exact = FALSE
  /\ lo = NoPoint /\ hi = NoPoint /\ window = NoWindow /\ brent = NoBrent
  /\ calls = 0 /\ memo = EmptyMemo /\ known = <<>> /\ result = NoResult

Larger(a, b) == IF a >= b THEN a ELSE b
Smaller(a, b) == IF a <= b THEN a ELSE b
Size(r) == IF r < 0 THEN -r ELSE r
Half(a) == (a + 1) \div 2

Budget == Larger(MaxIter, 4)
Safe(r) == r # NonFinite /\ r >= 0
Unsafe(r) == r # NonFinite /\ r < 0

\* memoized_exact_mass_eval
Miss(mass) == IF mass \in DOMAIN known THEN {known[mass]} ELSE Residuals \union {NonFinite}
Remembered(mass) == Get(memo, mass)
Outcomes(mass) == IF Remembered(mass) # Unknown THEN {Remembered(mass)} ELSE Miss(mass)
Learn(mass, r) == [m \in DOMAIN known \union {mass} |-> IF m = mass THEN r ELSE known[m]]
Evaluate(mass, r) ==
  /\ known' = Learn(mass, r)
  /\ memo' = IF Remembered(mass) # Unknown THEN memo ELSE Insert(memo, mass, r)

Finish(mass, status) == phase' = "done" /\ result' = [mass |-> mass, status |-> status]
ConvergedAt(mass) ==
  Finish(mass, IF mass <= 0 THEN "ConvergedNonPositive" ELSE "Converged")
Goto(p) == phase' = p /\ UNCHANGED result
-----------------------------------------------------------------------------
(* solve_single_event_hf_validate_only *)

\* The low-fidelity solve gives a seed, or no usable one, or nothing can be prepared.
Begin ==
  /\ phase = "start"
  /\ \/ route' = "full" /\ Goto("zero") /\ UNCHANGED <<exact, hi>>
     \/ /\ exact' \in BOOLEAN /\ Goto("initial") /\ UNCHANGED route
        /\ \E seed \in 0..MassMax : hi' = Point(seed, 0)
     \/ Finish(NoMass, "Refused") /\ UNCHANGED <<route, exact, hi>>
     \/ /\ \E seed \in 0..MassMax : Finish(seed, "FallbackLfSeed")
        /\ UNCHANGED <<route, exact, hi>>
  /\ UNCHANGED <<lo, window, brent, calls, facts>>

Initial ==
  /\ phase = "initial" /\ calls' = 1
  /\ \E r \in Outcomes(hi.m) :
       /\ Evaluate(hi.m, r)
       /\ \/ r = NonFinite /\ Finish(NoMass, "InitialMissNonFinite") /\ UNCHANGED bracket
          \/ Safe(r) /\ hi.m = 0 /\ Finish(0, "SafeByDefault") /\ UNCHANGED bracket
          \/ Safe(r) /\ hi.m > 0 /\ Goto("anchor") /\ hi' = Point(hi.m, r) /\ UNCHANGED lo
          \/ Unsafe(r) /\ Goto("correct") /\ hi' = Point(hi.m, r) /\ lo' = Point(hi.m, r)
  /\ UNCHANGED <<route, exact, window, brent>>

\* The affine root through (0, miss(0)) and the seed lies within Xtol of the seed.
RetiresAtSeed(zero) == exact /\ hi.m * hi.r <= Xtol * (hi.r - zero)

\* A safe seed needs an unsafe lower end; an exact anchor is one already.
Anchor ==
  /\ phase = "anchor" /\ calls' = calls + 1
  /\ \E zero \in Outcomes(0) :
       /\ IF exact THEN zero \in Residuals /\ known' = Learn(0, zero) /\ UNCHANGED memo
          ELSE Evaluate(0, zero)
       /\ \/ zero = NonFinite /\ Finish(NoMass, "RepairMissNonFinite") /\ UNCHANGED lo
          \/ Safe(zero) /\ Finish(0, "SafeByDefault") /\ UNCHANGED lo
          \/ Unsafe(zero) /\ RetiresAtSeed(zero) /\ ConvergedAt(hi.m) /\ UNCHANGED lo
          \/ Unsafe(zero) /\ ~RetiresAtSeed(zero) /\ Goto("gate") /\ lo' = Point(0, zero)
  /\ UNCHANGED <<route, exact, hi, window, brent>>

\* One evaluation above the last unsafe point.
ProbeAt(mass) ==
  /\ calls' = calls + 1
  /\ \E r \in Outcomes(mass) :
       /\ Evaluate(mass, r)
       /\ \/ /\ r = NonFinite /\ Goto("recover") /\ UNCHANGED bracket
             /\ window' = [floor |-> lo.m, ceil |-> mass, probe |-> 0]
          \/ Safe(r) /\ Goto("gate") /\ hi' = Point(mass, r) /\ UNCHANGED <<lo, window>>
          \/ /\ Unsafe(r) /\ Goto("repair") /\ UNCHANGED window
             /\ hi' = Point(mass, r) /\ lo' = Point(mass, r)
  /\ UNCHANGED <<route, exact, brent>>

\* validate_one_shot_target: past Xtol the affine estimate itself, below it a step of
\* at least half of Xtol, which is not held to MassMax.
WideTargets(seed) == {m \in 1..MassMax : seed > 0 /\ m > seed + Xtol}
NarrowTargets(seed) ==
  {seed + step : step \in {s \in Half(Xtol)..Xtol - 1 : exact /\ 0 < seed /\ seed < MassMax}}
EstimateTooClose(seed) == seed = 0 \/ seed = MassMax \/ ~exact \/ seed + Xtol <= MassMax

OneShot ==
  /\ phase = "correct"
  /\ \/ \E mass \in WideTargets(lo.m) \union NarrowTargets(lo.m) : ProbeAt(mass)
     \/ /\ EstimateTooClose(lo.m) /\ Goto("repair")
        /\ UNCHANGED <<route, exact, bracket, window, brent, calls, facts>>

\* next_validate_repair_mass_candidate: past Xtol, or MassMax.
AnyGrowth(from) == {m \in 0..MassMax : m >= from}
Candidates(from) == {m \in 0..MassMax : m > from + Xtol} \union {MassMax}

Repair ==
  /\ phase = "repair" /\ calls < Budget
  /\ \E mass \in Candidates(hi.m) : mass > hi.m + Xtol /\ ProbeAt(mass)

GiveUp ==
  /\ phase = "repair"
  /\ \/ calls >= Budget
     \/ \E mass \in Candidates(hi.m) : mass <= hi.m + Xtol
  /\ IF hi.m >= MassMax - Xtol THEN Finish(MassMax, "PhysicsLimited")
     ELSE Finish(hi.m, "BudgetExhausted")
  /\ UNCHANGED <<route, exact, bracket, window, brent, calls, facts>>

\* recover_finite_safe_validate_probe
Unresolved == window.ceil - window.floor > Xtol
Middle == (window.floor + window.ceil) \div 2

Recover ==
  /\ phase = "recover" /\ calls < Budget /\ Unresolved
  /\ calls' = calls + 1
  /\ \E r \in Outcomes(Middle) :
       /\ Evaluate(Middle, r)
       /\ \/ /\ r = NonFinite /\ Goto("recover") /\ UNCHANGED hi
             /\ window' = [window EXCEPT !.ceil = Middle]
          \/ Safe(r) /\ Goto("gate") /\ hi' = Point(Middle, r) /\ window' = NoWindow
          \/ /\ Unsafe(r) /\ Goto("recover") /\ UNCHANGED hi
             /\ window' = [window EXCEPT !.floor = Middle]
  /\ UNCHANGED <<route, exact, lo, brent>>

RecoverFails ==
  /\ phase = "recover" /\ (calls >= Budget \/ ~Unresolved)
  /\ Finish(NoMass, "RepairMissNonFinite")
  /\ UNCHANGED <<route, exact, bracket, window, brent, calls, facts>>

\* validate_bracket_arm
Retired == hi.m - lo.m <= Xtol \/ Size(hi.r) <= Rtol

StartBrent(low, high) == [best |-> high, prev |-> low, brk |-> low, safe |-> high]

Gate ==
  /\ phase = "gate"
  /\ IF Retired THEN ConvergedAt(hi.m) /\ UNCHANGED brent
     ELSE Goto("refine") /\ brent' = StartBrent(lo, hi)
  /\ UNCHANGED <<route, exact, bracket, window, calls, facts>>
-----------------------------------------------------------------------------
(* Brent's method, for both paths *)

SameSide(a, b) == (a > 0 /\ b > 0) \/ (a < 0 /\ b < 0)

\* The other end has the other sign, and the best point is the nearer to the target.
Contra(b) == IF SameSide(b.best.r, b.brk.r) THEN [b EXCEPT !.brk = b.prev] ELSE b
Ordered(b) ==
  IF Size(b.brk.r) < Size(b.best.r)
  THEN [best |-> b.brk, prev |-> b.best, brk |-> b.best, safe |-> b.safe] ELSE b
Oriented == Ordered(Contra(brent))

Width(b) == Size(b.brk.m - b.best.m)
Settled(b) == Width(b) <= Xtol \/ Size(b.best.r) < Rtol

\* An interpolated step, the midpoint, or at least half of Xtol: never past the other end.
StepsFrom(b) ==
  LET sign == IF b.brk.m >= b.best.m THEN 1 ELSE -1
  IN  {b.best.m + sign * d : d \in Half(Xtol)..(3 * Width(b)) \div 4}

MovedForgetsSafe(b, p) == [b EXCEPT !.prev = b.best, !.best = p]
Moved(b, p) ==
  [best |-> p, prev |-> b.best, brk |-> b.brk, safe |-> IF Safe(p.r) THEN p ELSE b.safe]

\* The last safe point stands in for a best point that falls short.
BestMass(b) == b.best.m
SafeMass(b) == IF b.best.r >= 0 THEN b.best.m ELSE b.safe.m

BrentStep(status) ==
  /\ ~Settled(Oriented)
  /\ calls' = calls + 1
  /\ \E mass \in StepsFrom(Oriented) : \E r \in Outcomes(mass) :
       /\ Evaluate(mass, r)
       /\ IF r = NonFinite THEN Finish(mass, status) /\ UNCHANGED brent
          ELSE brent' = Moved(Oriented, Point(mass, r)) /\ UNCHANGED <<phase, result>>
  /\ UNCHANGED <<route, exact, bracket, window>>

Refine == phase = "refine" /\ calls < Budget /\ BrentStep("RefineNonFinite")

RefineEnds ==
  /\ phase = "refine"
  /\ \/ calls >= Budget /\ Finish(brent.best.m, "BudgetExhausted")
     \/ calls < Budget /\ Settled(Oriented) /\ ConvergedAt(SafeMass(Oriented))
  /\ UNCHANGED <<route, exact, bracket, window, brent, calls, facts>>
-----------------------------------------------------------------------------
(* solve_single_event_hf_internal, the full path *)

FirstProbe(initial) == Larger(Smaller(initial, MassMax), Smaller(Xtol, MassMax))

ZeroBound ==
  /\ phase = "zero"
  /\ \E r \in Outcomes(0) :
       /\ Evaluate(0, r)
       /\ \/ r = NonFinite /\ Finish(NoMass, "MissAtZero") /\ UNCHANGED <<lo, window>>
          \/ Safe(r) /\ Finish(0, "SafeByDefault") /\ UNCHANGED <<lo, window>>
          \/ /\ Unsafe(r) /\ Goto("upper") /\ lo' = Point(0, r)
             /\ \E initial \in 1..MassMax :
                  window' = [NoWindow EXCEPT !.probe = FirstProbe(initial)]
  /\ UNCHANGED <<route, exact, hi, brent, calls>>

\* find_finite_safe_upper_bound
NextProbe(w) ==
  IF w.ceil = NoMass THEN Smaller(Larger(2 * w.probe, w.probe + Xtol), MassMax)
  ELSE (w.floor + w.ceil) \div 2
EndsAtNonFinite(w) == w.ceil # NoMass \/ Size(NextProbe(w) - w.probe) <= Xtol
AtStandstill(w) == Size(NextProbe(w) - w.probe) <= Xtol \/ NextProbe(w) <= w.floor

Limited(w) ==
  IF w.floor > 0 THEN Finish(w.floor, "PhysicsLimited") ELSE Finish(NoMass, "UpperNonFinite")
LastProbe == calls + 1 >= MaxProbes
SearchOn(w) ==
  IF AtStandstill(w) \/ LastProbe THEN Limited(w) /\ window' = w
  ELSE Goto("upper") /\ window' = [w EXCEPT !.probe = NextProbe(w)]

Lowered(w) ==
  [w EXCEPT !.ceil = IF w.ceil = NoMass THEN w.probe ELSE Smaller(w.ceil, w.probe)]
Raised(w) == [w EXCEPT !.floor = Larger(w.floor, w.probe)]

Upper ==
  /\ phase = "upper"
  /\ \E r \in Outcomes(window.probe) :
       /\ Evaluate(window.probe, r)
       /\ \/ /\ Safe(r) /\ Goto("brent") /\ UNCHANGED window /\ calls' = 0
             /\ brent' = StartBrent(lo, Point(window.probe, r))
          \/ /\ ~Safe(r) /\ calls' = calls + 1 /\ UNCHANGED brent
             /\ \/ r = NonFinite /\ SearchOn(Lowered(window))
                \/ /\ Unsafe(r) /\ window.probe >= MassMax - Xtol
                   /\ Limited(Raised(window)) /\ window' = Raised(window)
                \/ /\ Unsafe(r) /\ window.probe < MassMax - Xtol
                   /\ SearchOn(Raised(window))
  /\ UNCHANGED <<route, exact, bracket>>

Brent == phase = "brent" /\ calls < MaxIter /\ BrentStep("NonFiniteDuringBrent")

BrentEnds ==
  /\ phase = "brent"
  /\ \/ calls >= MaxIter /\ Finish(NoMass, "MaxIterReached")
     \/ calls < MaxIter /\ Settled(Oriented) /\ ConvergedAt(BestMass(Oriented))
  /\ UNCHANGED <<route, exact, bracket, window, brent, calls, facts>>
-----------------------------------------------------------------------------
Validate ==
  Begin \/ Initial \/ Anchor \/ OneShot \/ Repair \/ GiveUp \/ Recover \/ RecoverFails
        \/ Gate \/ Refine \/ RefineEnds
Full == ZeroBound \/ Upper \/ Brent \/ BrentEnds

Next == Validate \/ Full

Spec == Init /\ [][Next]_vars
-----------------------------------------------------------------------------
IsUnsafe(m) == m \in DOMAIN known /\ Unsafe(known[m])
IsSafe(m) == m \in DOMAIN known /\ Safe(known[m])

(* A converged mass is proved.  On the validated path it is a mass that was  *)
(* itself propagated and found safe, above one that was found unsafe; on the *)
(* full path it may fall short, but only within Rtol or next to a safe one.  *)
ConvergedIsProved ==
  result.status = "Converged" =>
    IF route = "validate"
    THEN IsSafe(result.mass) /\ \E m \in DOMAIN known : m < result.mass /\ IsUnsafe(m)
    ELSE \/ IsSafe(result.mass)
         \/ IsUnsafe(result.mass) /\ Size(known[result.mass]) < Rtol
         \/ \E m \in DOMAIN known : IsSafe(m) /\ Size(m - result.mass) <= Xtol

(* Brent's points bracket a crossing: one end propagated and unsafe, the     *)
(* other the last mass found safe, whatever the curve does in between (or    *)
(* the target is hit exactly, and the next test settles).                    *)
BracketHolds ==
  phase \in {"refine", "brent"} =>
    LET b == Contra(brent)
    IN  /\ {b.best.m, b.brk.m} \subseteq DOMAIN known
        /\ known[b.best.m] = b.best.r /\ known[b.brk.m] = b.brk.r
        /\ \/ Safe(b.best.r) /\ (Unsafe(b.brk.r) \/ b.best.r = 0) /\ b.safe = b.best
           \/ Unsafe(b.best.r) /\ Safe(b.brk.r) /\ b.safe = b.brk

BudgetSpent == route = "validate" /\ calls >= Budget
ProbesSpent == route = "full" /\ calls >= MaxProbes
NonFiniteWithin(m, gap) ==
  \E n \in DOMAIN known : known[n] = NonFinite /\ Size(n - m) <= gap

WithinLimits ==
  calls <= IF route = "validate" THEN Budget ELSE Larger(MaxIter, MaxProbes)

LimitIsReal ==
  result.status = "PhysicsLimited" =>
    \E m \in DOMAIN known :
      /\ IsUnsafe(m) /\ result.mass \in {m, MassMax}
      /\ \/ m >= MassMax - Xtol \/ m <= Xtol
         \/ NonFiniteWithin(m, 2 * Xtol + 1) \/ ProbesSpent

NothingIsLeft ==
  /\ result.status = "UpperNonFinite" => NonFiniteWithin(0, 2 * Xtol + 1) \/ ProbesSpent
  /\ result.status = "RepairMissNonFinite" =>
       \/ NonFiniteWithin(0, 0) \/ BudgetSpent
       \/ \E m \in DOMAIN known : IsUnsafe(m) /\ NonFiniteWithin(m, Xtol)

(* The search gives up for the reason it states, and never too early: its    *)
(* budget or its probes are spent, or the largest mass it may use was        *)
(* propagated and is unsafe, or what is left below an orbit that does not    *)
(* exist is too narrow to search.  (A first probe of at most Xtol is the     *)
(* exception: see PreseedIsOnlyAProbe.)                                      *)
GivesUpHonestly ==
  /\ WithinLimits /\ LimitIsReal /\ NothingIsLeft
  /\ result.status = "BudgetExhausted" => BudgetSpent

(* The memo never loses or confuses an entry: its slots hold the last masses *)
(* inserted, each once, each found where it is and with its own miss.        *)
MemoIsSound ==
  /\ Occupied(memo) = {memo.order[n] : n \in 0..memo.len - 1}
  /\ \A n1, n2 \in 0..memo.len - 1 : memo.order[n1] = memo.order[n2] => n1 = n2
  /\ \A i \in Occupied(memo) :
       /\ Hits(memo.slots, memo.slots[i].key) # {}
       /\ ExistingSlot(memo.slots, memo.slots[i].key) = i
       /\ memo.slots[i].value = known[memo.slots[i].key]

(* The doc of find_finite_safe_upper_bound: a preseed is only a first probe  *)
(* and cannot define the physical ceiling; if it is unsafe the search        *)
(* expands toward mass_max.                                                  *)
PreseedIsOnlyAProbe ==
  result.status = "PhysicsLimited" =>
    result.mass >= MassMax - Xtol \/ \E m \in DOMAIN known : known[m] = NonFinite

(* The doc of SolverConfig: mass_max is the upper bound for the mass search. *)
NeverAboveMassMax == \A m \in DOMAIN known : m <= MassMax
=============================================================================
