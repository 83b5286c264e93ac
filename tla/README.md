# Verification of bqp

bqp (`src/dust_transfer`) is a Rust workspace that searches two-phase transfers
and estimates dust masses: a large body of floating-point science, carried by a
small amount of protocol. The protocol is what this directory verifies: the
threads, queues, latches, caches and step loops that decide *which* result
reaches *whom*, and the promises the comments make about them.

TLC checks every module on small instances; TLAPS proves the safety properties
that matter most for every value of the constants. All paths below are relative
to `src/dust_transfer/crates`.

| Module | Models | Abstract specification | Proofs |
|---|---|---|---|
| `RuntimeTrace` | a running trace session, `nd_runtime_trace/src/lib.rs` | `LossyTrace` | `RuntimeTraceProofs` |
| `CellScheduler` | `run_cells`, `nd_sched/src/cells.rs`, and the trace lanes it uses | `ParallelMap` | `CellSchedulerProofs` |
| `GlobalPool` | `nd_sched/src/pool.rs` | | `OneTimeInitProofs` |
| `EphemerisPublication` | the catalogue set of `lightyear_odeint_rs/src/precomputed_ephem.rs` | | `EphemerisPublicationProofs` |
| `SuccessOnlyCache` | `success_only_cached` of `jb_rs/src/drivers.rs` and its copies | | `OneTimeInitProofs` |
| `AdaptiveStep` | the step loops of `lightyear_odeint_rs/src/odesolve`: two in `solver.rs`, one in `lightyear_compat.rs` | | `AdaptiveStepProofs` |
| `Rectification` | the Encke propagations of `lightyear_odeint_rs/src/integrator.rs` | | `RectificationProofs` |
| `EclipseCoordinator` | shadow crossings, `lightyear_odeint_rs/src/eclipse_coordinator.rs` | | `EclipseCoordinatorProofs` |
| `MissMemo`, `MassSolver` | the memo and the solves of `dust_estimates_rs/src/mass_solver.rs` | | `SearchProofs` |
| `NondominatedSort`, `Nsga2` | `sort.rs` and `nsga2.rs` of `two_phase_transfer_rs/src/oxymoo` | | `SearchProofs` |

`MassSolver` extends `MissMemo` and `Nsga2` extends `NondominatedSort`: in both a
pure algorithm is used by a protocol, and the run checks the algorithm in its use.
`SearchProofs` holds the theorems of both, `OneTimeInitProofs` those of the two latches.
The `MC*` modules only give values to constants or name a symmetry set
(`MCEphemerisPublication`). `PROJECT.json` maps each definition to the lines it
stands for, lists the runs, one mutant per checked property, the hazards with
their lines, and the theorems.

To run: `tlc -config RuntimeTraceSession.cfg MCRuntimeTrace.tla`, and
`tlapm RuntimeTraceProofs.tla`.

## 1. Inventory

What each part keeps, does and has to get right. *Modelled* says where.

### Process-wide infrastructure

**Runtime trace** (`nd_runtime_trace`). State: one single-producer
single-consumer ring and four atomic counters per lane, a writer thread with its
per-lane accounting, a sink with a byte cap, three possible names of one file, a
terminal channel, a completion channel, an abandon flag. Operations:
`TraceSession::start`, `emit` (through a thread-local producer), `note_unbound`,
`finish`, `Drop`, and the writer's `run_writer`, `drain_lanes`, `finish_writer`.
Interactions: every driver thread of the scheduler owns a lane; the controller
owns lane 0. Hard: producers never wait, so records are dropped and must be
counted; the writer looks at the rings while they fill; `finish` gives up after
five seconds while the writer may be anywhere, renaming included; each of write,
flush, sync, link and unlink may fail; emit may interrupt itself. Correct when:
every record is accounted for, the report and the name of the file tell the
truth, `finish` returns and no emit waits. *Modelled:* `RuntimeTrace`.

**Cell scheduler** (`nd_sched/src/cells.rs`). State: a locked backlog, locked
results, a start signal (mutex and condition variable), the trace lanes taken
and returned. Operations: `run_cells` with its reentrant, serial and driver
paths. Interactions: cells fan out on the global Rayon pool (`flat_eval`,
`nd_sched/src/flat.rs`), drivers bind trace lanes. Hard: the decision to run is
taken after the drivers exist, spawns fail half way, cells panic, a call may come
from inside the pool. Correct when: every cell runs once, results come in input
order, lanes come back, nobody waits for ever. *Modelled:* `CellScheduler`.

**Global pool** (`nd_sched/src/pool.rs`). State: one `OnceLock` with the width
and origin of the pool; Rayon's own registry, which others may initialise.
Operations: `num_threads` (generic first touch), the explicit authoritative
request, and the query. Hard: the races for the first touch, Rayon's panic inside
the latch. Correct when: nobody is told a width that is not real, the
authoritative request succeeds only if it decided. *Modelled:* `GlobalPool`.

**Success-only caches** (`jb_rs/src/drivers.rs`, and copies in `satpy_core`,
`lightyear_odeint_rs`, `two_phase_transfer_rs`). State: a `OnceLock` and a
cold-load `Mutex` per cache. Operation: get, or lock, look again, load, store.
Hard: a load that fails or panics must leave nothing behind; a cache built from
another one nests the loads. Correct when: one load at a time, none after a
success, no thread waits holding a lock. *Modelled:* `SuccessOnlyCache`.

**Ephemeris publication** (`lightyear_odeint_rs/src/precomputed_ephem.rs`).
State: `GLOBAL_EPHEMERIS` under a read-write lock, and three atomics
(`PUBLISHED_EPHEMERIS`, `PUBLISHED_EMBEDDED_CONFLICT`, `LOADED_BODY_FLAGS`) for
readers that take no lock; published sets are leaked. Operations: load from
embedded bytes or from directories with merge, borrow, get. Hard: three stores
seen one by one, partial loads that race, bytes that disagree with the compiled
ones. Correct when: a load that succeeded can be borrowed, conflicts are
reported on every path, no body is lost. *Modelled:* `EphemerisPublication`;
parsing and evaluation are not.

**Propagation census** (`lightyear_odeint_rs/src/probe.rs`). State: sharded
atomic counters, pairs of extremes, a validity flag with the kind of its first
error. Hard: the flag and the kind are two stores. Correct when: a valid snapshot
adds up. *Not modelled:* it is a diagnostic behind a feature, and no decision of
the program reads it.

**Seeds** (`nd_sched/src/seed.rs`), **configuration** (`nd_config`), **shared
numerics** (`common_rs`), **Python binding** (`src/dust_transfer/src/lib.rs`):
no state after start. *Not modelled.*

### Integration

**Adaptive step loops** (`lightyear_odeint_rs/src/odesolve/solver.rs`). State:
time, step, the error of the last accepted step, the cached derivative, rejection
counters, the index of the next sample, statistics. Operations:
`integrate_internal` and `integrate_internal_esdirk`, one iteration at a time.
Interactions: an event handler may stop any step; callers read samples and
statistics. Hard: a dozen exits from the middle of an iteration, each of which
must leave the right part of the state alone; a sample index that only moves when
a step ends on it; a step shortened for an endpoint that must not look like the
controller's. Correct when: every sample is the solution at its label, a discarded
step leaves nothing behind, the loop returns. *Modelled:* `AdaptiveStep`.

**DOPRI5-compat loop** (`odesolve/lightyear_compat.rs`): a second loop with its
own controller, which counts trials where the others count steps and remembers the
error of a step it rejected. Correct when: what the other loops promise of samples and
of discarded steps. *Modelled:* `AdaptiveStep`, as its third loop.

**Encke integrator and rectification** (`integrator.rs`, `adaptive_solver.rs`).
State: the epoch of the baseline, how many samples are consumed, the rows handed
back, and a step size that a thread carries from leg to leg. Operations: a sampled
or a final propagation, with or without events, and the reusable one. Interactions:
each leg is a call of a step loop; arcs in sunlight and shadow go to the eclipse
coordinator. Hard: each leg is given a hidden start and often a hidden end that have
to be taken off again, the last leg may move the baseline or not, a sampled attempt
that failed is repeated through another path, the carried step size outlives the
call. Correct when: the rows are the samples asked for, each the state at its label
on the caller's baseline, every leg starts where the last one ended, success means
the end was reached. *Modelled:* `Rectification`.

**Eclipse coordinator** (`eclipse_coordinator.rs`, `eclipse.rs`). State: the
checkpoint and its baseline, the side of the shadow, the last root, the index of
the next sample; for one crossing the step that saw it, the anchor of the proof and
the restarts left. Operations: a pass of the main loop, the replay of the crossing
step, the proof of the old side, the window in which the root is committed. Hard: a
crossing is a transaction of four legs, each of which may see nothing, see another
crossing, meet an event or fail, and samples are handed out in between. Correct
when: a root is committed once and only behind a proof, every sample appears once
and on its own baseline, every pass moves forward. *Modelled:* `EclipseCoordinator`.

**Event detection** (`events.rs`), **force model** (`rhs.rs`, `rhs_dual.rs`,
`satpy_core/src/gravity.rs`), **stages and tableaus** (`odesolve`), **strict
enclosure** (`strict_hf_enclosure.rs`), **frames and time**
(`satpy_core/src/frame_time`), **atmosphere** (`jb_rs/src/jb2008.rs`):
floating-point numerics without state. *Not modelled;* what they answer is a choice
in the modules above.
**Sessions and batches** (`session.rs`, `batch.rs`): parallel maps over disjoint
chunks. *Not modelled.*

### Search and estimation

**Nondominated sorting and NSGA-II** (`two_phase_transfer_rs/src/oxymoo`). State:
a population with ranks and crowding distances, its fronts, the number of
evaluations. Operations: breed, evaluate, select the survivors. Hard: with two
objectives the fronts come from one sweep that has to agree with the definition of
a front, constraints and ties included; only as many fronts are computed as are
needed; ranks and distances are found among twice as many rows as survive. Correct
when: nobody survives in place of a better one and what is stored of the survivors
is true of them. *Modelled:* `NondominatedSort`, `Nsga2`.

**Pareto front** (`solve/front.rs`): thinning and sort keys of one finished list,
without state. *Not modelled.*

**Dust mass solver** (`dust_estimates_rs/src/mass_solver.rs`). State of a solve: the
last unsafe and the last safe mass, a window for the upper bound, Brent's points, a
count of propagations, and a table of the misses already computed. Operations: the
validated solve (seed, anchor, one-shot correction, repair, recovery, refinement) and
the full one (zero, upper bound, Brent). Hard: the curve may be anything, a
propagation may give no number at all, several arms hand a bracket to the same
refinement, and the table is open-addressed, bounded and leaves tombstones. Correct
when: a converged mass was propagated and is safe above an unsafe one, a stated
reason for giving up is true, the memo answers for no other mass. *Modelled:*
`MissMemo`, `MassSolver`.

**Transfer search**, **Lambert solver**, **replay verification**, **mass
fractions**, **Gaussian splitting and UKF**, **postprocessing**: numerics or
sequential preparation. *Not modelled*, for the reasons in `PROJECT.json`.

## 2. Plan

Order: first what the whole process shares, since an error there spoils every
result silently; then the step loop, which every propagation runs through; then
what is built on it; selection and search last. The modules of the table above are
written, checked and proved in that order.

What would come next, none of it needed by what is there:

1. `SampledSolution`, one abstract promise of a sampled integration (a prefix of the
   grid, each sample true, complete on success), implemented by `AdaptiveStep` and
   assumed by the legs of `Rectification` and `EclipseCoordinator`, which state that
   promise today as the legs they allow.
2. The selection of the transfer search around `Nsga2`, if its decisions can be
   separated from the distances they are computed from.
3. The sort for three objectives and more, where the sweep gives way to the counting of
   dominators alone.

## 3. The models and the code

Every module keeps the control of its code and abstracts the data to what the
properties tell apart. What each leaves out is said here.

### RuntimeTrace

A record is its lane sequence number and a line of the file has length one, so
`ByteCap` and `Reserve` count lines and `LongEvents` are those past
`MAX_EVENT_LINE_BYTES`. Producer: `EmitBegin` raises `IN_EMIT` and numbers the
record, `EmitPush` pushes, `EmitRefused` finds the ring full and looks again
whether the writer is gone (the two looks are two steps, as they are in the code),
`EmitReentrant` is an emit that interrupts one. Writer: `wpc` is its place in
`run_writer` and `finish_writer`, one action per place at which another thread can
see or change something, from `WriterHeader` to `WriterSend`; `WriterPop` is one
pop of a burst, `WriterPoll` the look at the terminal channel with the heartbeat,
`WriterCheck` the look at the rings *lane by lane* while producers go on,
`WriterExit` the second look at the flag, `WriterTerminal`, `WriterFooterLane` and
`WriterFooter` the accounting, `WriterSync`, `WriterRename` (one rename, or
where the file system refuses it a hard link) and `WriterUnlink` the end of the
file, `WriterSend` the report and `WriterEnds` the thread's end after it. `WriterDies`
is a panic or a failure outside the sink anywhere, also after the report was sent.
Session: `Finish` sends the terminal record, `FinishReceives` takes the report,
`FinishJoins` joins the writer and, if it panicked, makes the report incomplete and
points it at the open name (`AfterJoin`); `FinishTimesOut` ends the wait, `DropSession`
is `Drop`.

`FileTellsTheTruth` joins four promises: the records of a lane are in the file in
the order they were numbered, the counts of a report are those of the file, the
final name is only given to a file that was completely written and synced, and a
report that claims an end names the file by it. A report whose writer panicked after
sending it claims none, but its path is the open name although the file may have been
renamed by then (`nd_runtime_trace/src/lib.rs:1148`); the property says so and asks no
more of it. What it does ask is that such a writer is never reported as complete.

A timeout may come at any moment, as a clock relative to a writer allows. `late`
is a ghost: the lanes that emitted during or after `finish`, of which the report
cannot be complete. The text of lines, the echo to stderr, the environment and
the capacity arithmetic of `start` are left out, and of a report the flag `sink_error`.

### CellScheduler

A cell is its index. `Call` takes one of three paths by the code's conditions:
called inside the pool or with no cells (`reentrant`), `max_concurrent` at most 1
(`serial`), or `drivers`.
`Spawn`/`SpawnFails` is the loop that creates drivers, `SetStart` and `NotifyAll`
the two halves of the signal under its mutex and after it, `DriverLooks` the wait
with its condition, `DriverPops`, `CellRuns`, `FanOut`, `DriverPushes` the work,
`CallerTakes` the fallback of the caller, `Join` the end of the scope with the
sort and the return of the lanes, `Panics` the panic passed on by the scope.
`FanOut` needs a free worker of the pool, which is what makes a re-entrant call
dangerous. Results are the indices, so the sort by index is the identity of the
vector that comes out; `SortByKey` is the sort by distinct keys, used for the results
and for the lanes that the drivers give back. `LanesAreAccounted` joins two halves:
the lanes come back in the order they were taken, less at most the one moved into a
thread that could not be spawned, and a call that counted no unbound driver brought
both events of every cell into a lane.

### GlobalPool

`latch` is the `OnceLock` (`Running` while a thread is in its initialiser),
`rayon` Rayon's registry. `AskGeneric`, `AskExplicit` and `Query` are the three
calls with their early returns, `Enter` and `Build`, `BuildFindsPool`,
`BuildFindsNothing` the initialiser, the last being Rayon's panic after a failed
first attempt. `ForeignTouch` is any other code that uses Rayon first, for example
`two_phase_transfer_rs/src/lambert.rs:1992`. `answers` is a ghost with everything
ever told. Rayon is external and modelled from the use made of it.

### EphemerisPublication

The k-th publication stores each atomic once, so a store is its publication's
number, and `view[t][x]` is the oldest store to `x` that thread `t` may still
load. An Acquire load merges what the storing thread had stored before
(`CarriedBy`); this is the release-acquire fragment of the memory model, without
fences. `LoadFlags`, `LoadVerdict` and `Recheck` are the fast path, `Lock` to
`Unlock` the slow one, `LoadMissing` and `Publish` the merge, `Store` one of the
three stores in program order. A catalogue is compiled bytes or others. The reset,
compiled only into unit tests, is left out.

### SuccessOnlyCache

`at[t][c]` is the frame of thread `t` in the accessor of cache `c`, so a nested
load is two frames of a thread. `Get`, `Lock`, `Recheck`, `Store`, `Unlock` and
`Return` are `success_only_cached`; `Warmed`, `GetAgain`, `AskParent` and
`ParentAnswers` the accessor that resolves its parent first; `Fails` and `Panics`
unwind the frames and drop the guards. `LockOf` says which caches share a lock.

### AdaptiveStep

Time is in ticks from `t0 = 0`; a state *is* the time it stands for, so a sample
is true when its state equals its label; `eval_tol` is less than a tick. One
action is one iteration of the loop: what the stages compute is a verdict and a
new step size within the bounds the code clamps it to. `HStep` is the step after
both cuts, `TooSmall` the underflow test (with the exemption for the last step
that only the explicit loop has), `NonFinite`, `NewtonFailed` and `Rejected` the
discarded trials, `Refused` the input error of the stage functions, `Advance` the
accepted step with its samples and the controller, `Stop` and `StopInvalid` the
event handler's two endings, `OutOfSteps`, `Underflow` and `Arrive` the ways out
at the top. `loop`, `sampling`, `hasHandler` and `fsal` are what a call is made
with: `Init` chooses them (`Methods`), no step changes them, and they select the
branches in which the loops and the ways of sampling differ. `odd` is a
ghost that makes a retry with nothing changed a step, so that fairness has to
bring the counters to their limits. A grid (`IsGrid`) starts at `t0`, ends at
`tf`, does not go back, and does not repeat `t0`: the forced loop never takes a
second sample at `t0`; the public API asks for strictly increasing times.

The third loop, `integrate_lightyear_dopri5_impl`, has actions of its own, `CompatTry`
to `CompatStopInvalid` and `CompatArrive`: every trial is a step, there is no
underflow, the only statistic is the count of steps, the derivative is kept over a
rejection, the samples owed at the end are not filled. Its floor `compat_h_min` is
below `eval_tol`, so `CompatHMin` is one tick. It keeps the error of a rejected step
as `err_prev` on purpose, which is why `InheritedBelongsHere` speaks of the memory of
the loops of `solver.rs` alone. `final` stands there for
`integrate_lightyear_dopri5_final`, whose grid is `tf` alone; `dt_max` is taken to
be at least 1e-3, the least first step, which a smaller one would not bound; the
zeros that wrapper returns after a failure are not a state of the loop.

Left out: the checks of the input before the loop, stage arithmetic, Kahan
compensation, and the counters `evals`, `rejected_steps`, `tail_h` and
`cache_cluster`. The growth cap is one number for all methods, the largest a
tableau has (5); a smaller one allows fewer of the same steps.

### Rectification

A baseline is named by the tick its elements belong to; a row is the sample's label,
the tick its state is the state *at*, the baseline it was integrated against and the
one it was added back to, so that a relabelled, repeated or wrongly corrected row is
a false one. `Enter` is one of the five routes with the code's cutting of `t_eval`
(`EvalSlice`) and the refusal of event requests that do not span the interval;
`UnsampledLeg`, `SampledLeg`, `FinishSampled` the loop of
`integrate_sampled_rectified_path` with its hidden start and end samples
(`SolverEval`, `Visible`), the repeat of a failed slice run (`Retry`) and the rebase;
`LeadingUpTo` is the `partition_point` that cuts a grid in sorted order, at the entry
and for each leg;
`EventLeg` the event wrappers, where an event keeps every sample before it only if the
steps end on samples (`KeptBefore`): an interpolated sample of the step that is stopped
was not written yet; `FinalArrived`, `FinalLeg`, `FinalEventLeg`,
`OutOfRestarts` the checked final paths; `ReusableLeg` the reusable one; `Leave` the
return, after which only the thread's carried step size is left. What a leg of the
solver answers is a choice that keeps the promises checked in `AdaptiveStep`: a prefix
of the labels it was asked for, all of them on success.

`walked` is a ghost: how far the dynamics really were integrated. Ticks stand for the
code's comparisons within 1e-9 of a second; a grid increases strictly, as the public
API asks; arcs with radiation pressure belong to the eclipse coordinator; of the
gravity-error latch only its effect is kept, a finished leg that counts as failed;
statistics are left out. A sampled request with `tf = t0` succeeds at once without
rows, as the code does.

### EclipseCoordinator

A tick is what a scan of a step can resolve; a sky says at which ticks the satellite
is in the shadow, and any number of crossings within a step is possible, an even one
being invisible (`Seen`, `Quiet`). `Legs` are the answers a leg with a frozen side can
give: it failed, it was refused, it arrived, it saw a crossing, it met an event before
one. `Main` is a pass of the outer loop, `Refine` the replay of the step that saw the
crossing, which may see nothing, `Prove` and `NothingToProve` the proof of the old
side with its restarts, `Window` and `WindowTooShort` the last look within the root's
uncertainty and `Commit` the root with its checks; `Complete` is
`complete_non_eclipse_segment`, which four places call with their own base, index and
output. A sample in `out` is its label with the epoch of the leg's baseline and the
epoch added back.

Left out: what the root finder does inside a step, the distances behind `Margin` and
`Uncertainty` (ticks here), statistics and the dispatch to this path.

### MassSolver and MissMemo

`MissMemo` is the table as it is: slots that are empty, occupied or tombstones,
probing from a home slot, an order of insertion, the oldest entry evicted when the
capacity is reached. `MassSolver` uses it for every propagation (`Evaluate`), so the
table is checked and proved in the sequences of masses that solves produce. A curve
of miss distance is any function of the mass into `Residuals` or `NonFinite`, decided
when it is first asked for; `known` is a ghost, the curve as far as it was propagated,
against which the memo and the results are judged.

`Begin` to `RefineEnds` are the validated solve: `Initial`, `Anchor` (the safe seed
and its unsafe lower end), `OneShot` (the affine estimate, or a narrow step), `Repair`
and `GiveUp`, `Recover` and `RecoverFails` (the bisection between an unsafe mass and
one without an orbit), `Gate` with its retirements, `Refine` with Brent's steps.
`ZeroBound` to `BrentEnds` are the full solve. An affine estimate is any target on the
side the code clamps it to, an interpolated Brent step any point between the ends
(`StepsFrom`). The upper search ends at a standstill or at its last probe (`SearchOn`,
`LastProbe`): `MaxProbes` is the code's 80. `calls` counts the propagations of the
phase, so it starts again where the full solve goes over to Brent. Left out: the
low-fidelity seed and the diagnostics. `Rtol > 0` is assumed; the code
does not validate it and defaults to 1e-5.

### Nsga2 and NondominatedSort

A row is an evaluated individual (`Evaluation`) with two objectives and a violation, in
ticks. `Arranged` is a sort by any order, and every sort of the code is one: of row
numbers (`Ascending`), of the rows for the sweep (`Swept`), of the places of a front by
either objective (`ByFirst`, `BySecond`), of those that may survive (`Selected`).
`FastRanks` is the sweep of the two-objective path, `FrontsOf` its counting sort into
fronts, `Peel` the counting of dominators, which is both the path for a positive tolerance
and the reference; `Capped` keeps only the fronts a capacity needs. `Rebuilt` makes fronts
from ranks after a generation: a rank nobody has leaves an empty front there, while
`FrontsOf` skips it (that no rank is skipped is part of what is proved).
`Crowding` counts in parts of `Scale`, a multiple of every spread in the
instance, so that the division is exact there; the theorems hold for any `Scale`, the
division being a function of the same numbers on both sides. `Breed` puts any rows beside the population,
since tournaments, crossover, mutation and the problem are data; `BreedFails` is a
refused evaluation; `Survive` is `assign_capped_survivor_selection_into` with the
fronts rebuilt from ranks and the split front's distances computed again.

Production runs two objectives with zero tolerance (`moo.rs`), so the sweep is the live
path. With more objectives and a positive tolerance dominance can be cyclic; that path
is not modelled.

## 4. The runs

Distinct states in parentheses. Every passing run is exhaustive within its bounds.

| Run | Bounds | What it shows |
|---|---|---|
| `trace_session` (471 554) | 2 lanes with one-slot rings, burst 1, one emit of lane 0 and two of lane 1, the second line too long, 7 lines of which 4 in reserve, I/O faults, no fairness for the writer | no record is lost uncounted (`LaneConservation`), the accounting always fits (`AccountingFits`), the report and the names tell the truth (`FileTellsTheTruth`), the trace implements `LossyTrace` (`KeepsPromise`), an abandoned writer never renames (`AbandonedStaysOpen`), a report that came from the writer is final (`ReportIsFinal`), `FinishReturns` although the writer may stall for ever, and a writer that does run ends (`WriterStops`) |
| `cells_calls` (289 268) | 2 calls of at most 4 cells, at most 3 drivers, a pool of 1 to 3 workers, 3 lanes, failing spawns, panics, calls from inside the pool | `CellsRunOnce`, `FallbackIsSerial` (no driver works unless all were spawned and told so), `LanesAreAccounted`, `CallsEnd`, and that a call implements `ParallelMap`, results in input order included (`ImplementsMap`) |
| `pool_first_touch` (57 214) | 3 threads, widths 0, 1, 2, 3 calls, failing builds | `NoFakeWidth`, `AuthorityIsExclusive`, and `AsksReturn`, Rayon's panic included |
| `ephemeris_races` (333 496) | 3 threads (symmetric), 2 bodies of which one compiled, 3 loads, failing loads | `LoadedCanBeBorrowed`, `ConflictIsReported`, `LeakIsBounded` |
| `cache_own_locks` (117 029) | 3 threads, 2 calls each, a lock per cache | `OneLoad`, `NeverWaitsHolding`, `CallsReturn` |
| `step_calls` (289 410) | the three loops, samples forced, dense or none, with and without handler, span 7, `h_min` 2, `h_max` 4, 3 steps, 2 rejections, two ramp slots, six grids | `SamplesAreTrue`, `NothingLeaks`, `InheritedBelongsHere`, `UnderflowIsCallers`, `Returns` |
| `rect_calls` (24 220) | 2 calls by every route and method from a choice of four ends, legs of 2 ticks, at most 3 legs and 5 restarts, five grids | `RowsAreTrue`, `LegsFollowOn`, `SuccessIsComplete`, `CarryStaysInArc` |
| `eclipse_roots` (375 985) | span 7, baselines of 5 ticks, fine step 6, uncertainty 4, margin 1, 2 restarts, every sky with at most 3 crossings, two grids | `EachSampleOnce`, `BaselineIsCurrent`, `PassesAdvance`, `RootsAreProved` |
| `mass_solves` (377 296) | masses to 14, `xtol` 3, `rtol` 2, misses -4, -2, 0, 3 or none at all, a table of 4 slots for 2 entries, 4 iterations, 2 probes of the upper search | `ConvergedIsProved`, `BracketHolds`, `GivesUpHonestly`, `MemoIsSound` |
| `nsga_generations` (236 966) | populations of 3 out of seven rows with ties, duplicates and two degrees of infeasibility; tolerances 0 and 1; 6 evaluations | `BestSurvive`, `MetadataIsFresh` |
| `mass_doc_preseed`, `mass_doc_ceiling` | those of `mass_solves`, with the code's 80 probes | two statements of the documentation that the code does not keep (below) |

The grids of `step_calls` are the ends alone, samples apart, closer than `h_min`, one
given twice, several, and one just before the end; those of `rect_calls` have samples
before, between, on and past the ends of the legs. Type correctness is a theorem or a
part of an inductive invariant wherever there are proofs (section 5).

**Why these bounds are enough.** One-slot rings make full, empty and
"full and the writer gone" adjacent states; two lanes are the least at which the
writer's look at the rings is not atomic, and two emits of a lane the least at
which order and loss can both occur. Three usable lines before the reserve let the
cap bite during draining, heartbeats included. Three drivers let a spawn fail
between two that succeed and leave one behind to be woken; a second call shows what
the first left behind in the lanes. Three threads at a latch are a builder, a waiter
and a late reader. Two bodies, one of them not compiled, are the least that a partial
load can lose. With span 7 and steps from 2 to 4 a trial can end before, on and (were
it not cut) past a sample, and remainders below `h_min` occur both at a sample and at
`tf`; three steps reach `tf` from some verdicts and run out before it under others.

In `rect_calls` the ends 3 and 5 are no multiples of a leg, 7 takes more legs than are
allowed, and the second call is the one that finds a carried step size. In
`eclipse_roots` a baseline is longer than an uncertainty and shorter than the arc, so
that roots fall before, on and after the end of one, and three crossings are a pair
that a step misses and a third it sees; the limits of splits and of restarts are not
all reached, as the arc is over first. In `mass_solves` the table is smaller than the
number of masses of a solve and its homes collide, so entries are evicted and
tombstones probed over; misses on both sides of the target and of the tolerance, equal to
it, and missing, are all that the solver's comparisons distinguish. Two probes are the
fewest after which an upper search that went somewhere is cut off: with `xtol` 3 and
masses to 14 some searches reach a standstill by then and others are stopped by the
count, with and without an orbit at their last mass. In
`nsga_generations` one generation is bred before the evaluations run out; a second
would start from three rows with true ranks, and every such population is an
initial state.

**Deadlock** is checked in `ephemeris_races`. It is off where the system may
really stop: a finished command, a computation that has returned, threads that
make no more calls. There a liveness property excludes the stuck call instead
(`FinishReturns` and `WriterStops`, `CallsEnd`, which covers calls from inside the
pool, `AsksReturn`, `CallsReturn`, `Returns`); `rect_calls`, `eclipse_roots`, `mass_solves`
and `nsga_generations` are sequential, and their limits on legs, passes, probes and
evaluations are in the guards. That a solve returns is therefore not a property of
its own: every loop of it has a count beside its measure.

**Fairness.** The operating system runs every thread that can run: weak fairness of
the wait in `finish` (whose timeout is enabled until the report is there, because a
clock goes on), of every driver, cell and caller, and of every thread inside a call.
The trace's `Spec` withholds it from the writer, since a write to a dead file system
may never return, but not from `WriterEnds`: the file is closed before the report is
sent, so nothing that can stall is left, and the join that follows the report has no
timeout of its own. `WriterStops` is stated for a writer that is not stalled
(`WriterRuns`). Producers need none: no property waits for them. Nobody is assumed to
emit, to call or to finish. The step loop runs on its caller's thread; nothing is
assumed about its verdicts, so `Returns` rests on the counters. Locks need only weak
fairness in the runs, where calls are bounded; the code's mutexes promise no order.

### Where the code and its documentation disagree

Two runs each check one statement of the documentation of
`dust_estimates_rs/src/mass_solver.rs` that the code does not keep; TLC finds the
violation.

- `mass_doc_preseed` (`PreseedIsOnlyAProbe`): a preseed "is only a first probe. It
  cannot define the HF physical ceiling" (line 3130). A preseed of at most `xtol` does:
  if it is unsafe the next probe is within the tolerance of it and the search ends as
  `PhysicsLimited` at `xtol` (line 3176).
- `mass_doc_ceiling` (`NeverAboveMassMax`): `mass_max` is the "upper bound for mass
  search" (line 1454) and "still caps" (the test at line 5174). The narrow arm of the
  one-shot correction steps from the seed by at least half of `xtol` without the cap
  (line 3052), so a seed just below `mass_max` is corrected to a mass above it.

Met while modelling, and without a run of their own:

- `dust_estimates_rs/src/mass_solver.rs`: the comment on the one-shot correction (line
  3036) says that the refinement it replaces "retires on `|residual| < rtol` and so may
  return a mass whose HF miss falls up to `rtol * target` SHORT". It does not: where the
  best point falls short, the refinement returns the last safe mass (line 3291).
  `ConvergedIsProved` says what the code does, a propagated safe mass above an unsafe one
  on every validated route, and holds.
- `odesolve/solver.rs`: the reject note (line 1897) says the non-finite branches clear
  `have_err_prev`; those of the explicit loop do not (1395-1412, 1522-1538), so the next accept still
  uses the error of the last accepted step. The implicit loop does clear it.
  This changes the next step size within its clamps; `SamplesAreTrue` does not depend on it.
- Steps shortened for `tf` or a sample "are not counted either" in `saturated_steps`
  (128); they are, when the size demanded after them passes `h_max` (494). Only trailing
  entries of `first_accepted_h` "stay 0.0" (201); a shortened step among the first leaves
  a zero before entries that are set (1592). `underflow_accepts` counts steps accepted
  "because `h` had already reached `h_min`" (137); the test is on the shortened step (1540).
- The implicit loop repeats (2636) the explicit loop's remark about a last step below
  `h_min`, which it does not exempt from the underflow test (2430).
- `jb_rs/src/drivers.rs:126` says that one lock for both caches would deadlock. That is
  out of date, since the parent is now resolved first (`OneTimeInitProofs!NoHoldAndWait`
  holds for every assignment of locks).
- `MaxIterReached` is documented as "returning best approximation"
  (`mass_solver/status.rs:112`); the full solve returns NaN with it (`mass_solver.rs:3999`).
- The sweep of `oxymoo/sort.rs` sorts by `total_cmp`, in which -0.0 precedes 0.0, and
  groups by equality, in which they are the same; with both zeros in the first objective
  its ranks could differ from those of the counting sort. Ticks have one zero, so no run shows it.

## 5. What is proved

For every value of the constants that the named assumptions of the modules allow
(`TraceAssumption`, `SchedulerAssumption`, `PoolAssumption`,
`PublicationAssumption`, `CacheAssumption`, `DepthAssumption`, `StepAssumption`,
`RectificationAssumption`, `EclipseAssumption`, `MassSolverAssumption`,
`MemoAssumption`, `SortAssumption`, `Nsga2Assumption`; of the grids they say what section 3 says, that they increase):
any number of lanes, threads, cells and bodies, any capacity, span, grid, curve, population and
limit. TLC evaluates each assumption for the values of its runs. The proofs are
about the same definitions that the runs check.

| Theorem | Property | Argument |
|---|---|---|
| `RuntimeTraceProofs!TypeCorrect` | `TypeOK` | by parts of the state; a named verdict (`NamedVerdict`) is what makes the rename well typed |
| `Conservation` | `LaneConservation` | inductive as it stands, over `TypeOK` |
| `Abandoned` | `AbandonedStaysOpen` | only the open name exists before the rename (`OpenUntilRename`); from the second look on, giving up (`GivesUp`) is stable |
| `ReportFinal` | `ReportIsFinal` | a report that did not time out came from a writer that is gone (`ReportFromTheGone`), and a writer that is gone does nothing |
| `ReserveSuffices` | `AccountingFits` | `ReserveKept`: draining stays within the cap less the reserve, and each line of the accounting uses one line of the reserve |
| `TruthTold` | `FileTellsTheTruth` | `TraceInv`, below |
| `Refinement` | `KeepsPromise` | `TraceInv` makes every step one of `LossyTrace` or a stutter, below |
| `OneTimeInitProofs!WidthsAreReal`, `Exclusive`, `FirstTouch` | `NoFakeWidth`, `AuthorityIsExclusive`, `FirstTouchWins` | `Settled`: the latch and Rayon agree, one thread initialises, every answer given is what the latch would answer now |
| `CellSchedulerProofs!CellsOnce` | `CellsRunOnce` | `Discipline` (who can hold a cell) and `Accounted` (nothing beyond the front of the backlog was run) |
| `SerialFallback` | `FallbackIsSerial` | `HeldBack`: no driver works before a signal that is `Run` only if every spawn succeeded |
| `Implements` | `ImplementsMap` | `Progress`: cells are numbered as the abstract call numbers them, the backlog is only left once it is empty, and the sort puts each result at its index |
| `LanesAccounted` | `LanesAreAccounted` | `LaneInv`: the lanes kept, lent and not yet handed out are adjacent slices of those the call was given; `Traces`: while no driver went unbound, every driver has its lane and every result its two events |
| `EphemerisPublicationProofs!TypeCorrect`, `Borrowable`, `ConflictsReported`, `LeakBounded` | `TypeOK`, `LoadedCanBeBorrowed`, `ConflictIsReported`, `LeakIsBounded` | `Cumulative` (publications never lose a body) and `Answerable` (whoever has seen the flags has seen the conflict bit and the pointer stored before them); a publication adds a body, which bounds their number |
| `OneTimeInitProofs!LoadedOnce`, `NoHoldAndWait`, `GuardsDropped` | `OneLoad`, `NeverWaitsHolding`, `GuardsAreDropped` | `CacheInv`: frames nest, a parent is loaded past the warm-up so a nested call answers without a lock, a cold frame holds its lock |
| `AdaptiveStepProofs!TrueSamples`, `NoLeak`, `Inherited`, `CallersUnderflow`, `ControllersStats` | `SamplesAreTrue`, `NothingLeaks`, `InheritedBelongsHere`, `UnderflowIsCallers`; the last one `StatsExcludeShortened`, stated with the proofs | `IInv`: besides these, the samples not yet taken lie ahead of `t` while the loop runs and those taken do not (`Ahead`) |
| `EclipseCoordinatorProofs!EclipseEachSampleOnce`, `EclipseBaselineIsCurrent`, `EclipsePassesAdvance`, `EclipseRootsAreProved` | the same names without `Eclipse` | `IInv` by phase (`AtHead`, `AtRefine`, `AtProof`, `AtEnd`): what is published are the samples up to a time and no others (`Published`), and that time is where the next leg starts |
| `RectificationProofs!TrueRows`, `NoLegTwice`, `CompleteSuccess`, `CarryConfined` | `RowsAreTrue`, `LegsFollowOn`, `SuccessIsComplete`, `CarryStaysInArc` | `RectInv`, below |
| `SearchProofs!MassConvergedIsProved`, `MassBracketHolds`, `MassGivesUpHonestly`, `MassMemoIsSound` | the same names without `Mass` | `IInv` by phase: what is known of each end of the bracket (`Low`, `High`, `Bracketed`, `UpperWindow`); of the memo, that its order lists the occupied slots, keys are unique, and no empty slot lies between an entry and its home |
| `SurvivorsAreBest`, `MetadataStaysFresh` | `BestSurvive`, `MetadataIsFresh` | `SearchInv`: the types and `MetadataIsFresh` itself; each generation by `Layered`, below |
| `SweepFindsTheFronts` | the sweep, the counting of dominators and the longest chains agree on any rows; stated with the proofs | `SweepOK`, the invariant of the sweep over places in its order, below |
| `SearchTypesHold` | `SearchTypes`, stated with the proofs: the shape of the population and the budgets of generations and evaluations | part of `SearchInv` |

`Ahead` shows why an inductive strengthening is needed. That a sample is true says
nothing of the next one; that the next one is still ahead, together with the cut of
a forced step (or the interpolation of a dense one), is what lets a step land on it
and never pass it, and so what makes the fill at the end add nothing. Its base case
is where the precondition on `t0` in `IsGrid` enters. Likewise `NeverWaitsHolding`
is not inductive: a thread holds its child's lock while it asks for the parent, and
only `ParentIsLoaded` says that this call finds the parent without a lock, whichever
lock the parent would take. In `EclipseCoordinator` four legs hand samples out in the
middle of one crossing, each from its own base; the invariant is that the output, the
index and the base agree at *every* phase, also on the ways out.

**The trace.** `FileTellsTheTruth` speaks of a file, a report and a name; what makes it
true happened long before in a ring. `TraceInv` has one part for each link of that chain.
`Fifo`: file, ring and the record in `emit` are in the order of their numbers, and a
record is behind its number by no more than the records lost so far (`Near`). That bound
is why nothing lost means nothing missing (`LosslessIsExact`), and why the terminal line,
numbered by what was counted, comes after every record of its lane (`TerminalIsLast`).
`ShutdownInv`: whatever ends the writer was asked for by `finish` or by `Drop`.
`QuietInv`: a lane that did not emit since is idle, and once the writer has looked at its
ring, empty; this carries the look lane by lane through `WriterCheck`. `ReportInv`: from
the moment a lane's numbers are taken until the report is read, they are still those of
its file. `NamesInv`: a verdict has been earned (`Earned`) before the name is given, and
stays so since it speaks of quiet lanes only. `MatchInv`: a report's path is one of the
file's names, if the writer ended without a panic; of a writer that panicked after it,
the report that `AfterJoin` makes claims no end. A report that gave up is only promised
to have given up.

`Refinement` takes the same invariant through the steps. `EmitBegin`, `EmitReentrant`
and `NoteUnbound` are `Emit`; a `WriterPop` that writes is `Record`, whose number is
beyond the last one by `Fifo`; `Finish` and `DropSession` are `Shutdown`; a
`WriterRename` that succeeds is `Seal`, where `NamesInv` supplies everything a file
named complete must hold; `WriterUnlink` and every other step
stutters. The mapping is the one of the run: records by lane, the best name the file has.

**Rectification.** That the rows are true is not inductive: it says nothing of what the
next leg will hand back. `RectInv` relates three counts between two legs of the sampled
loop (`SampledInv`): the rows are as many as the samples consumed, and these are all the
samples up to where the trajectory has arrived. A leg's labels then are the next samples
with a start or an end added in front or behind (`LabelFacts`); the solver answers with a
prefix of them (`AnswerFacts`), and taking off what was added leaves a prefix of exactly
the next samples (`VisibleFacts`), also where the hidden end coincides with a sample, or
the answer stops short of it. So the rows go on being the grid. `OtherInv` says that the
other routes come to their end with nothing handed out, and that an event request has a
grid that spans the interval; `BaselineInv` that a baseline that never moved is the caller's. The
grid is cut by `LeadingUpTo`, of which the proofs use only what `partition_point`
promises on sorted input (`LeadingFacts`).

**Selection.** What a front is has three definitions here: the length of the longest
chain of dominators (`Depth`, by which `BestSurvive` judges), the order in which rows are
peeled (`Peel`) and the ranks of the sweep (`FastRanks`). `Layered` is what they have in
common: a row's number is above those of all that dominate it and just above one of
them, if any. Any rows have exactly one such numbering (`OneLayering`), because whatever
the tolerance a dominator is better by one measure, the sum of the objectives among the
feasible and the violation among the others; counting those that are better gives each row
a weight (`Weight`) that dominators have less of, and so an induction over rows that needs
neither an order of the rows nor that dominance is transitive. It is also what proves that
the recursive functions `Depth`, `Peel` and `Sweep` exist, each compared with a function
that is written down.

The sweep is the hard third. `Ranked` says of the first places of its order that their
ranks are layered among themselves and that the best second objectives of the ranks rise,
so that the binary search for the next row finds the number of ranks with somebody that
dominates it (`PartitionFacts`); a duplicate takes the rank of its twin (`RankedAgain`), any other row is
beyond all before it in the order, so lowers one tail or adds one (`RankedNew`). Infeasible
rows come after, one layer for each violation.

`CutAt` and `Survives` are what a generation does in those terms: whole layers stay,
a part of one more, in an order that within a whole layer is that of the row numbers. A
dominator of a survivor stands in an earlier layer and so survives: the numbering of the
survivors is layered among them (`KeptLayered`), hence the one that sorting anew would
find. Distances are a matter of whole fronts: one that stayed whole has the same rows at the
same places (`KeptStanding`, by the uniqueness of a sorted list, `OneAscending`), and the one
that was cut is the one `RecomputeSplit` computes again. `NotRecomputed` shows in the run
that this is needed.

## 6. What is only model-checked

Liveness under fairness (`FinishReturns`, `WriterStops`, `CallsEnd`, `AsksReturn`,
`CallsReturn`, `Returns`) is out of the prover's reach. Every safety
property and every action property of the runs that pass is a theorem.

## 7. What is not modelled, and why

Floating-point science (force models, stages and tableaus, Chebyshev segments,
Lambert, atmosphere, frames, splitting, quadrature, the strict enclosure) is most of
this workspace by lines and has no small state space that
would say anything about it. What it answers is a choice in the modules that use it:
verdicts of a step, answers of a leg, a curve of misses, rows of objectives.
Configuration, seeds, file parsing, the Python binding
and the formatting of trace lines keep no state that concurrent or repeated
operations share. The
selection of the transfer search and the thinning of the Pareto front decide on
distances they compute and keep no state from one call to the next. The census is
a diagnostic that no decision reads. In the workspace itself `run_cells` and
`TraceSession` are called from tests and the emit benchmark only; they are modelled
as the library functions they are.
