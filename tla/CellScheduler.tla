--------------------------- MODULE CellScheduler ---------------------------
(***************************************************************************)
(* run_cells of crates/nd_sched: independent cells run by scoped OS threads *)
(* (drivers) pulling from one backlog, next to the one global Rayon pool on *)
(* which a cell may fan out its inner work.                                 *)
(*                                                                         *)
(* A cell is its input index and so is its result.  The backlog, which is   *)
(* popped from the front, is the first index not yet taken.  A trace lane   *)
(* is a number; 0 is no lane.                                               *)
(***************************************************************************)
EXTENDS Naturals, Sequences, FiniteSets

CONSTANTS
  MaxCells,      \* bound: cells of one call
  MaxConcurrent, \* bound: max_concurrent of one call
  PoolWidth,     \* bound: workers of the global Rayon pool
  TraceLanes,    \* driver lanes of the trace session
  Calls,         \* bound: calls that share the lanes
  SpawnFaults,   \* may thread::Builder::spawn_scoped fail
  CellPanics     \* may a cell panic

ASSUME SchedulerAssumption ==
  /\ MaxCells \in Nat /\ MaxConcurrent \in Nat /\ Calls \in Nat /\ TraceLanes \in Nat
  /\ PoolWidth \in Nat \ {0}
  /\ SpawnFaults \in BOOLEAN /\ CellPanics \in BOOLEAN

Workers == 1..PoolWidth
Caller == 0
Threads == 0..PoolWidth   \* the calling thread and the drivers

VARIABLES
  width,     \* workers of the global Rayon pool
  pc,        \* pc[t]: where thread t is
  inside,    \* the caller is itself a Rayon worker
  mode,      \* "reentrant", "serial" or "drivers"
  n,         \* cells.len()
  workers,   \* drivers this call wants
  next,      \* first cell of the backlog
  held,      \* held[t]: cell in the hands of thread t (0: none)
  results,   \* results in the order they were pushed
  start,     \* DriverStart
  spawned,   \* drivers spawned so far
  spawnFailed,
  lanes,     \* TraceDriverLanes.lanes
  available, \* lanes taken for this call and not yet given to a driver
  lane,      \* lane[w]: lane bound to driver w
  returned,  \* <<worker, lane>> pairs in the order they were given back
  defects,   \* unbound_defects
  calls,     \* calls begun
  output,    \* what the last call returned
  given,     \* ghost: the lanes this call was given
  before,    \* ghost: defects when this call began
  traced     \* ghost: cells both of whose events reached a lane

laneVars == <<lanes, available, lane, returned>>
callVars == <<width, inside, mode, n, workers, calls, given, before>>
vars == <<pc, held, next, results, start, spawned, spawnFailed, defects, output, traced,
          laneVars, callVars>>

Least(a, b) == IF a <= b THEN a ELSE b
Goto(t, where) == pc' = [pc EXCEPT ![t] = where]

Init ==
  /\ width \in 1..PoolWidth
  /\ pc = [t \in Threads |-> IF t = Caller THEN "returned" ELSE "none"]
  /\ inside = FALSE /\ mode = "serial" /\ n = 0 /\ workers = 0
  /\ next = 1 /\ held = [t \in Threads |-> 0] /\ results = <<>>
  /\ start = "Wait" /\ spawned = 0 /\ spawnFailed = FALSE
  /\ lanes = [i \in 1..TraceLanes |-> i] /\ available = <<>>
  /\ lane = [w \in Workers |-> 0] /\ returned = <<>>
  /\ defects = 0 /\ calls = 0 /\ output = <<>>
  /\ given = lanes /\ before = 0 /\ traced = {}
-----------------------------------------------------------------------------
(* The calling thread *)

ReentryTakesDrivers == FALSE
\* A Rayon worker keeps the whole call on itself.
StaysOnWorker == inside'

\* Drivers for which TraceDriverLanes has no lane.
Shortfall(wanted) == IF wanted > Len(lanes) THEN wanted - Len(lanes) ELSE 0

\* take_for_scheduler: the last lanes, at most as many as asked for.
TakeLanes(count) ==
  LET keep == IF Len(lanes) > count THEN Len(lanes) - count ELSE 0
  IN  /\ lanes' = SubSeq(lanes, 1, keep)
      /\ available' = SubSeq(lanes, keep + 1, Len(lanes))

\* Enter run_cells, from outside the pool or from one of its workers.
Call ==
  /\ pc[Caller] = "returned" /\ calls < Calls /\ calls' = calls + 1
  /\ n' \in 0..MaxCells /\ inside' \in BOOLEAN
  /\ next' = 1 /\ results' = <<>> /\ output' = <<>> /\ traced' = {}
  /\ start' = "Wait" /\ spawned' = 0 /\ spawnFailed' = FALSE /\ returned' = <<>>
  /\ given' = lanes /\ before' = defects
  /\ \E maxConcurrent \in 0..MaxConcurrent :
       LET wanted == Least(Least(maxConcurrent, n'), width)
       IN  \/ /\ n' = 0 \/ StaysOnWorker
              /\ mode' = "reentrant" /\ defects' = defects + n'
              /\ pc' = [pc EXCEPT ![Caller] = "drain"]
              /\ workers' = 0 /\ UNCHANGED <<lanes, available>>
           \/ /\ n' # 0 /\ ~StaysOnWorker /\ maxConcurrent <= 1
              /\ mode' = "serial" /\ UNCHANGED defects
              /\ pc' = [pc EXCEPT ![Caller] = "drain"]
              /\ workers' = 0 /\ UNCHANGED <<lanes, available>>
           \/ /\ n' # 0 /\ ~StaysOnWorker /\ maxConcurrent > 1
              /\ mode' = "drivers" /\ defects' = defects + Shortfall(wanted)
              /\ pc' = [t \in Threads |-> IF t = Caller THEN "spawn" ELSE "none"]
              /\ workers' = wanted /\ TakeLanes(wanted)
  /\ UNCHANGED <<width, held, lane>>

NextLane == IF available = <<>> THEN 0 ELSE Head(available)
RestOfLanes == IF available = <<>> THEN <<>> ELSE Tail(available)

Spawn ==
  /\ pc[Caller] = "spawn" /\ spawned < workers
  /\ spawned' = spawned + 1
  /\ lane' = [lane EXCEPT ![spawned + 1] = NextLane]
  /\ available' = RestOfLanes
  /\ Goto(spawned + 1, "start")
  /\ UNCHANGED <<held, next, results, start, spawnFailed, defects, output, traced,
                 lanes, returned, callVars>>

\* The closure, with the lane moved into it, is dropped.
SpawnFails ==
  /\ SpawnFaults
  /\ pc[Caller] = "spawn" /\ spawned < workers
  /\ spawnFailed' = TRUE /\ available' = RestOfLanes
  /\ Goto(Caller, "signal")
  /\ UNCHANGED <<held, next, results, start, spawned, defects, output, traced,
                 lanes, lane, returned, callVars>>

AllSpawned ==
  /\ pc[Caller] = "spawn" /\ spawned = workers
  /\ Goto(Caller, "signal")
  /\ UNCHANGED <<held, next, results, start, spawned, spawnFailed, defects, output, traced,
                 laneVars, callVars>>

Signal == IF spawnFailed THEN "Stop" ELSE "Run"

SetStart ==
  /\ pc[Caller] = "signal" /\ start' = Signal
  /\ Goto(Caller, "notify")
  /\ UNCHANGED <<held, next, results, spawned, spawnFailed, defects, output, traced,
                 laneVars, callVars>>

Parked == {w \in Workers : pc[w] = "parked"}
Notified == Parked

\* notify_all; then drain the backlog alone after a failed spawn, or join.
NotifyAll ==
  /\ pc[Caller] = "notify"
  /\ pc' = [t \in Threads |-> IF t = Caller THEN (IF spawnFailed THEN "drain" ELSE "join")
                              ELSE IF t \in Notified THEN "start" ELSE pc[t]]
  /\ UNCHANGED <<held, next, results, start, spawned, spawnFailed, defects, output, traced,
                 laneVars, callVars>>

PeekOnly == next
\* pop_front takes the cell out of the backlog under the lock.
AfterPop == next + 1

\* The caller takes a cell: the serial paths and the fallback.
CallerTakes ==
  /\ pc[Caller] = "drain" /\ next <= n
  /\ held' = [held EXCEPT ![Caller] = next] /\ next' = AfterPop
  /\ Goto(Caller, "run")
  /\ UNCHANGED <<results, start, spawned, spawnFailed, defects, output, traced,
                 laneVars, callVars>>

\* The cell is done; the reentrant path alone emits no events.
CallerFinishes ==
  /\ pc[Caller] = "push" /\ Goto(Caller, "drain")
  /\ results' = Append(results, held[Caller])
  /\ traced' = IF mode = "reentrant" THEN traced ELSE traced \cup {held[Caller]}
  /\ held' = [held EXCEPT ![Caller] = 0]
  /\ UNCHANGED <<next, start, spawned, spawnFailed, defects, output, laneVars, callVars>>

CallerDrained ==
  /\ pc[Caller] = "drain" /\ next > n
  /\ IF mode = "drivers"
     THEN Goto(Caller, "join") /\ UNCHANGED output
     ELSE Goto(Caller, "returned") /\ output' = results
  /\ UNCHANGED <<held, next, results, start, spawned, spawnFailed, defects, traced,
                 laneVars, callVars>>

Ended == {"none", "gone", "panicked"}
DriversEnded == \A w \in Workers : pc[w] \in Ended

\* sort_unstable_by_key: s in the order of its keys, which differ.
SortByKey(s, key) ==
  LET smaller(i) == {j \in 1..Len(s) : key[j] < key[i]}
  IN  [k \in 1..Len(s) |-> s[CHOOSE i \in 1..Len(s) : Cardinality(smaller(i)) = k - 1]]

UnsortedResults == results
SortedResults == SortByKey(results, results)

FirstOf(pairs) == [i \in 1..Len(pairs) |-> pairs[i][1]]
SecondOf(pairs) == [i \in 1..Len(pairs) |-> pairs[i][2]]
RestoredWithoutRest == SecondOf(SortByKey(returned, FirstOf(returned)))
\* The lanes of the drivers in the drivers' order, then those never handed out.
Restored == SecondOf(SortByKey(returned, FirstOf(returned))) \o available

NobodyPanicked == \A w \in Workers : pc[w] # "panicked"

\* thread::scope has joined every driver and nobody panicked.
Join ==
  /\ pc[Caller] = "join" /\ DriversEnded
  /\ NobodyPanicked
  /\ defects' = defects + (IF spawnFailed THEN 1 ELSE 0)
  /\ lanes' = lanes \o Restored /\ available' = <<>> /\ returned' = <<>>
  /\ output' = SortedResults
  /\ Goto(Caller, "returned")
  /\ UNCHANGED <<held, next, results, start, spawned, spawnFailed, traced, lane, callVars>>

\* The scope joins the other threads before it raises the panic again.
Panics ==
  /\ pc[Caller] \in {"join", "unwinding"} /\ DriversEnded
  /\ pc[Caller] = "unwinding" \/ \E w \in Workers : pc[w] = "panicked"
  /\ Goto(Caller, "panicked")
  /\ UNCHANGED <<held, next, results, start, spawned, spawnFailed, defects, output, traced,
                 laneVars, callVars>>
-----------------------------------------------------------------------------
(* A driver *)

NotStopped == start # "Stop"
MayRun == start = "Run"

\* With the lane bound: look at the start state, under its lock.
DriverLooks(w) ==
  /\ pc[w] = "start"
  /\ \/ start = "Wait" /\ Goto(w, "parked") /\ UNCHANGED <<lane, returned>>
     \/ MayRun /\ Goto(w, "pop") /\ UNCHANGED <<lane, returned>>
     \/ /\ start = "Stop" /\ Goto(w, "gone")
        /\ lane' = [lane EXCEPT ![w] = 0]
        /\ returned' = IF lane[w] = 0 THEN returned ELSE Append(returned, <<w, lane[w]>>)
  /\ UNCHANGED <<held, next, results, start, spawned, spawnFailed, defects, output, traced,
                 lanes, available, callVars>>

DriverPops(w) ==
  /\ pc[w] = "pop" /\ next <= n
  /\ held' = [held EXCEPT ![w] = next] /\ next' = AfterPop
  /\ Goto(w, "run")
  /\ UNCHANGED <<results, start, spawned, spawnFailed, defects, output, traced,
                 laneVars, callVars>>

\* The backlog is empty: the lane is unbound and given back.
DriverLeaves(w) ==
  /\ pc[w] = "pop" /\ next > n /\ Goto(w, "gone")
  /\ lane' = [lane EXCEPT ![w] = 0]
  /\ returned' = IF lane[w] = 0 THEN returned ELSE Append(returned, <<w, lane[w]>>)
  /\ UNCHANGED <<held, next, results, start, spawned, spawnFailed, defects, output, traced,
                 lanes, available, callVars>>

DriverPushes(w) ==
  /\ pc[w] = "push" /\ Goto(w, "pop")
  /\ results' = Append(results, held[w])
  /\ traced' = IF lane[w] = 0 THEN traced ELSE traced \cup {held[w]}
  /\ held' = [held EXCEPT ![w] = 0]
  /\ UNCHANGED <<next, start, spawned, spawnFailed, defects, output, laneVars, callVars>>
-----------------------------------------------------------------------------
(* The cell itself, on whichever thread runs it *)

\* It either computes alone or hands inner work to the pool and waits for it.
CellRuns(t) ==
  /\ pc[t] = "run"
  /\ Goto(t, "push") \/ Goto(t, "fanout")
  /\ UNCHANGED <<held, next, results, start, spawned, spawnFailed, defects, output, traced,
                 laneVars, callVars>>

\* Inner work runs on the calling Rayon worker itself, or for any other thread
\* on a pool worker that is not stuck in run_cells.
FanOut(t) ==
  /\ pc[t] = "fanout"
  /\ (t = Caller /\ inside) \/ width > (IF inside THEN 1 ELSE 0)
  /\ Goto(t, "push")
  /\ UNCHANGED <<held, next, results, start, spawned, spawnFailed, defects, output, traced,
                 laneVars, callVars>>

\* The cell panics: its thread unwinds and drops the cell and the lane it bound.
CellPanicked(t) ==
  /\ CellPanics /\ pc[t] = "run"
  /\ Goto(t, IF t = Caller THEN "unwinding" ELSE "panicked")
  /\ held' = [held EXCEPT ![t] = 0]
  /\ lane' = IF t = Caller THEN lane ELSE [lane EXCEPT ![t] = 0]
  /\ UNCHANGED <<next, results, start, spawned, spawnFailed, defects, output, traced,
                 lanes, available, returned, callVars>>

\* The last call has ended and the program goes on to other things.
Finished ==
  /\ pc[Caller] = "panicked" \/ (pc[Caller] = "returned" /\ calls = Calls)
  /\ UNCHANGED vars

CallerStep ==
  \/ Spawn \/ SpawnFails \/ AllSpawned \/ SetStart \/ NotifyAll \/ CallerTakes
  \/ CallerFinishes \/ CallerDrained \/ Join \/ Panics
Cell(t) == CellRuns(t) \/ FanOut(t) \/ CellPanicked(t)
Driver(w) == DriverLooks(w) \/ DriverPops(w) \/ DriverLeaves(w) \/ DriverPushes(w)

Next ==
  \/ Call \/ CallerStep \/ Finished
  \/ \E w \in Workers : Driver(w)
  \/ \E t \in Threads : Cell(t)

\* The operating system runs every thread that can run; cells end; free pool
\* workers take queued work.  Nothing makes a program call again.
Fairness ==
  /\ WF_vars(CallerStep)
  /\ \A w \in Workers : WF_vars(Driver(w))
  /\ \A t \in Threads : WF_vars(Cell(t))

Spec == Init /\ [][Next]_vars /\ Fairness
-----------------------------------------------------------------------------
(* Properties *)

Places == {"none", "returned", "drain", "spawn", "signal", "notify", "join", "unwinding",
           "panicked", "start", "parked", "pop", "run", "fanout", "push", "gone"}

\* Every variable keeps its type and no call starts more drivers than it wants.
TypeOK ==
  /\ pc \in [Threads -> Places]
  /\ inside \in BOOLEAN /\ mode \in {"reentrant", "serial", "drivers"}
  /\ n \in 0..MaxCells /\ next \in 1..MaxCells + 1
  /\ width \in 1..PoolWidth /\ workers \in 0..width /\ spawned \in 0..workers
  /\ held \in [Threads -> 0..MaxCells]
  /\ results \in Seq(1..MaxCells)
  /\ start \in {"Wait", "Run", "Stop"} /\ spawnFailed \in BOOLEAN
  /\ lanes \in Seq(1..TraceLanes) /\ available \in Seq(1..TraceLanes)
  /\ lane \in [Workers -> 0..TraceLanes]
  /\ returned \in Seq(Workers \X (1..TraceLanes))
  /\ defects \in Nat /\ calls \in 0..Calls

RangeOf(s) == {s[i] : i \in 1..Len(s)}

\* No cell is run twice: a cell is in the backlog, in one thread's hands or
\* among the results, and only a panic makes one disappear.
CellsRunOnce ==
  /\ \A i, j \in 1..Len(results) : results[i] = results[j] => i = j
  /\ \A t \in Threads : held[t] # 0 =>
       /\ held[t] < next /\ held[t] \notin RangeOf(results)
       /\ \A u \in Threads : held[u] = held[t] => u = t
  /\ \A c \in 1..(next - 1) :
       \/ c \in RangeOf(results)
       \/ \E t \in Threads : held[t] = c
       \/ \E t \in Threads : pc[t] \in {"panicked", "unwinding"}

\* A call gives back the driver lanes it took, in the order it took them; a
\* failed spawn costs the one lane that had been moved into the thread.
LanesComeBack ==
  pc[Caller] = "returned" =>
    IF spawnFailed /\ Len(given) > 0
    THEN \E i \in 1..Len(given) :
           lanes = SubSeq(given, 1, i - 1) \o SubSeq(given, i + 1, Len(given))
           \/ lanes = given
    ELSE lanes = given

\* A trace that reports no unbound driver has both events of every cell.
UnboundIsCounted ==
  pc[Caller] = "returned" /\ defects = before => traced = 1..n

\* After a failed spawn the waiting drivers stop before taking work: only the
\* caller ever runs a cell of that call.
FallbackIsSerial ==
  spawnFailed => \A w \in Workers : held[w] = 0 /\ pc[w] \notin {"pop", "run", "fanout", "push"}

\* The trace of a call can be trusted and so can that of the next call.
LanesAreAccounted == LanesComeBack /\ UnboundIsCounted

\* Every call comes to an end: no driver sleeps through the start signal, the
\* scope is never left waiting, and a call from inside the pool ends even when
\* its worker is the only one and its cells need the pool.
CallsEnd ==
  pc[Caller] \notin {"returned", "panicked"} ~> pc[Caller] \in {"returned", "panicked"}
-----------------------------------------------------------------------------
\* What run_cells promises: see ParallelMap.
Map == INSTANCE ParallelMap WITH
  size <- n, done <- RangeOf(results),
  outcome <- IF pc[Caller] \in {"returned", "panicked"} THEN pc[Caller] ELSE "running"

\* The drivers, the backlog and the serial paths implement an ordered map:
\* "results are placed by index", whatever order the cells ended in.
ImplementsMap == Map!Spec
=============================================================================
