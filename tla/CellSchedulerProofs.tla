------------------------ MODULE CellSchedulerProofs ------------------------
(* Theorems about CellScheduler, for any number of cells, drivers and lanes. *)
EXTENDS CellScheduler, SequenceTheorems, FiniteSetTheorems, TLAPS

Busy == {"run", "fanout", "push"}

\* What the steps of a call keep besides the property itself: only a thread
\* inside a cell holds one, drivers not yet spawned are nowhere, and a call that
\* is over, or never had drivers, has none left at work.
Discipline ==
  /\ pc \in [Threads -> Places]
  /\ held \in [Threads -> Nat] /\ next \in Nat \ {0} /\ results \in Seq(Nat)
  /\ width \in 1..PoolWidth /\ workers \in 0..width /\ spawned \in 0..workers
  /\ \A t \in Threads : held[t] # 0 => pc[t] \in Busy
  /\ \A t \in Threads : pc[t] \in Busy => held[t] # 0
  /\ pc[Caller] = "spawn" => \A w \in Workers : w > spawned => pc[w] = "none"
  /\ pc[Caller] \in {"spawn", "signal", "notify"} => mode = "drivers"
  /\ pc[Caller] \in {"returned", "panicked"} \/ mode # "drivers" => DriversEnded

LEMMA ThreadFacts ==
  /\ Caller \in Threads /\ Workers \subseteq Threads /\ PoolWidth \in Nat \ {0}
  /\ \A w \in Workers : w # Caller
BY SchedulerAssumption, SMT DEF Caller, Threads, Workers

LEMMA DisciplineInit == Init => Discipline
<1> SUFFICES ASSUME Init PROVE Discipline
  OBVIOUS
<1>1. /\ pc \in [Threads -> Places] /\ pc[Caller] = "returned"
      /\ \A w \in Workers : pc[w] = "none"
  BY ThreadFacts, Zenon DEF Init, Places
<1>2. /\ held \in [Threads -> Nat] /\ next \in Nat \ {0} /\ results \in Seq(Nat)
      /\ width \in 1..PoolWidth /\ workers \in 0..width /\ spawned \in 0..workers
      /\ \A t \in Threads : held[t] = 0
  BY ThreadFacts, SMT DEF Init
<1>3. \A t \in Threads : pc[t] \notin Busy
  BY ThreadFacts, Zenon DEF Init, Busy
<1>4. QED
  BY <1>1, <1>2, <1>3, Zenon DEF Discipline, DriversEnded, Ended

\* A thread goes from one place outside cells to another and nothing else of
\* what Discipline speaks of changes, except perhaps the DriverStart.
LEMMA Moves ==
  ASSUME Discipline, NEW t \in Threads, NEW where \in Places,
         pc[t] \notin Busy, where \notin Busy, Goto(t, where),
         UNCHANGED <<held, next, results, width, workers, spawned, mode>>,
         t = Caller => where # "spawn" /\ (where \in {"returned", "panicked"} => DriversEnded)
                        /\ (where \in {"signal", "notify"} => mode = "drivers"),
         t # Caller => pc[t] \notin Ended
  PROVE  Discipline'
<1> USE DEF Discipline
<1>1. pc' \in [Threads -> Places] /\ pc'[t] = where
      /\ \A u \in Threads : u # t => pc'[u] = pc[u]
  BY Zenon DEF Goto
<1>2. \A u \in Threads : (pc'[u] \in Busy <=> pc[u] \in Busy)
  BY <1>1, Zenon
<1>3. CASE t = Caller
  <2>1. \A w \in Workers : pc'[w] = pc[w]
    BY <1>1, <1>3, ThreadFacts, Zenon
  <2>2. DriversEnded' <=> DriversEnded
    BY <2>1, Zenon DEF DriversEnded, Ended
  <2>3. QED
    BY <1>1, <1>2, <1>3, <2>2, Zenon
<1>4. CASE t # Caller
  <2>1. t \in Workers /\ pc'[Caller] = pc[Caller]
    BY <1>1, <1>4, ThreadFacts, SMT DEF Threads, Workers, Caller
  <2>2. ~DriversEnded
    BY <1>4, <2>1, Zenon DEF DriversEnded
  <2>3. pc[t] # "none"
    BY <1>4, Zenon DEF Ended
  <2>4. pc[Caller] = "spawn" => \A w \in Workers : w > spawned => pc'[w] = "none"
    BY <1>1, <2>1, <2>3, ThreadFacts, Zenon
  <2>5. QED
    BY <1>1, <1>2, <2>1, <2>2, <2>4, Zenon
<1>5. QED
  BY <1>3, <1>4

\* A thread takes the first cell of the backlog.
LEMMA Takes ==
  ASSUME Discipline, NEW t \in Threads, Goto(t, "run"),
         t = Caller => pc[t] = "drain", t # Caller => pc[t] \notin Ended,
         held' = [held EXCEPT ![t] = next], next' = next + 1,
         UNCHANGED <<results, width, workers, spawned, mode>>
  PROVE  Discipline'
<1> USE DEF Discipline
<1>1. pc' \in [Threads -> Places] /\ pc'[t] = "run"
      /\ \A u \in Threads : u # t => pc'[u] = pc[u]
  BY Zenon DEF Goto, Places
<1>2. held'[t] = next /\ \A u \in Threads : u # t => held'[u] = held[u]
  BY Zenon
<1>3. next \in Nat \ {0} /\ next' \in Nat \ {0}
  BY SMT
<1>4. held' \in [Threads -> Nat]
  BY <1>3, SMT
<1>5. \A u \in Threads : (held'[u] # 0 => pc'[u] \in Busy) /\ (pc'[u] \in Busy => held'[u] # 0)
  BY <1>1, <1>2, <1>3, Zenon DEF Busy
<1>6. CASE t = Caller
  <2>1. \A w \in Workers : pc'[w] = pc[w]
    BY <1>1, <1>6, ThreadFacts, Zenon
  <2>2. DriversEnded' <=> DriversEnded
    BY <2>1, Zenon DEF DriversEnded, Ended
  <2>3. QED
    BY <1>1, <1>3, <1>4, <1>5, <1>6, <2>2, Zenon
<1>7. CASE t # Caller
  <2>1. t \in Workers /\ pc'[Caller] = pc[Caller]
    BY <1>1, <1>7, ThreadFacts, SMT DEF Threads, Workers, Caller
  <2>2. ~DriversEnded /\ pc[t] # "none"
    BY <1>7, <2>1, Zenon DEF DriversEnded, Ended
  <2>3. pc[Caller] = "spawn" => \A w \in Workers : w > spawned => pc'[w] = "none"
    BY <1>1, <2>1, <2>2, ThreadFacts, Zenon
  <2>4. QED
    BY <1>1, <1>3, <1>4, <1>5, <2>1, <2>2, <2>3, Zenon
<1>8. QED
  BY <1>6, <1>7

\* A thread leaves a cell, whose result it may push.
LEMMA Leaves ==
  ASSUME Discipline, NEW t \in Threads, NEW where \in Places, Goto(t, where),
         pc[t] \in Busy, where \notin Busy \cup {"spawn", "signal", "notify", "returned"},
         t = Caller => where # "panicked",
         held' = [held EXCEPT ![t] = 0], results' \in Seq(Nat),
         UNCHANGED <<next, width, workers, spawned, mode>>
  PROVE  Discipline'
<1> USE DEF Discipline
<1>1. pc' \in [Threads -> Places] /\ pc'[t] = where
      /\ \A u \in Threads : u # t => pc'[u] = pc[u]
  BY Zenon DEF Goto
<1>2. held'[t] = 0 /\ \A u \in Threads : u # t => held'[u] = held[u]
  BY Zenon
<1>3. held' \in [Threads -> Nat]
  BY SMT
<1>4. \A u \in Threads : (held'[u] # 0 => pc'[u] \in Busy) /\ (pc'[u] \in Busy => held'[u] # 0)
  BY <1>1, <1>2, Zenon
<1>5. CASE t = Caller
  <2>1. \A w \in Workers : pc'[w] = pc[w]
    BY <1>1, <1>5, ThreadFacts, Zenon
  <2>2. DriversEnded' <=> DriversEnded
    BY <2>1, Zenon DEF DriversEnded, Ended
  <2>3. QED
    BY <1>1, <1>3, <1>4, <1>5, <2>2, Zenon
<1>6. CASE t # Caller
  <2>1. t \in Workers /\ pc'[Caller] = pc[Caller]
    BY <1>1, <1>6, ThreadFacts, SMT DEF Threads, Workers, Caller
  <2>2. ~DriversEnded /\ pc[t] # "none"
    BY <1>6, <2>1, Zenon DEF DriversEnded, Ended, Busy
  <2>3. pc[Caller] = "spawn" => \A w \in Workers : w > spawned => pc'[w] = "none"
    BY <1>1, <2>1, <2>2, ThreadFacts, Zenon
  <2>4. QED
    BY <1>1, <1>3, <1>4, <2>1, <2>2, <2>3, Zenon
<1>7. QED
  BY <1>5, <1>6

\* A thread goes on with its cell.
LEMMA GoesOn ==
  ASSUME Discipline, NEW t \in Threads, NEW where \in Busy, Goto(t, where), pc[t] \in Busy,
         UNCHANGED <<held, next, results, width, workers, spawned, mode>>
  PROVE  Discipline'
<1> USE DEF Discipline
<1>1. pc' \in [Threads -> Places] /\ pc'[t] = where
      /\ \A u \in Threads : u # t => pc'[u] = pc[u]
  BY Zenon DEF Goto, Busy, Places
<1>2. \A u \in Threads : (pc'[u] \in Busy <=> pc[u] \in Busy)
  BY <1>1, Zenon
<1>3. \A w \in Workers : pc'[w] \in Ended <=> pc[w] \in Ended
  BY <1>1, ThreadFacts, Zenon DEF Ended, Busy
<1>4. \A w \in Workers : pc[w] = "none" => pc'[w] = "none"
  BY <1>1, ThreadFacts, Zenon DEF Busy
<1>5. pc'[Caller] = pc[Caller] \/ (pc'[Caller] \in Busy /\ pc[Caller] \in Busy)
  BY <1>1, ThreadFacts, Zenon
<1>6. QED
  BY <1>1, <1>2, <1>3, <1>4, <1>5, Zenon DEF Busy, DriversEnded

LEMMA DisciplineStep ==
  ASSUME Discipline, [Next]_vars
  PROVE  Discipline'
<1>a. pc \in [Threads -> Places] /\ results \in Seq(Nat) /\ held \in [Threads -> Nat]
  BY DEF Discipline
<1>1. CASE Call
  <2>1. pc[Caller] = "returned" /\ DriversEnded
    BY <1>1, Zenon DEF Call, Discipline
  <2>2. \A t \in Threads : pc[t] \notin Busy /\ held[t] = 0
    <3>1. \A t \in Threads : t = Caller \/ t \in Workers
      BY ThreadFacts, SMT DEF Threads, Workers, Caller
    <3>2. QED
      BY <2>1, <3>1, Zenon DEF Discipline, DriversEnded, Ended, Busy
  <2>3. next' \in Nat \ {0} /\ results' \in Seq(Nat) /\ UNCHANGED held
    BY <1>1, SMT DEF Call
  <2>4. spawned' = 0
    BY <1>1, Zenon DEF Call
  <2>5. CASE pc' = [pc EXCEPT ![Caller] = "drain"] /\ workers' = 0
    <3>1. pc' \in [Threads -> Places] /\ pc'[Caller] = "drain"
          /\ \A w \in Workers : pc'[w] = pc[w]
      BY <1>a, <2>5, ThreadFacts, Zenon DEF Places
    <3>2. DriversEnded'
      BY <2>1, <3>1, Zenon DEF DriversEnded, Ended
    <3>3. width' \in 1..PoolWidth /\ workers' \in 0..width' /\ spawned' \in 0..workers'
      BY <1>1, <2>4, <2>5, ThreadFacts, SMT DEF Call, Discipline
    <3>4. \A t \in Threads : pc'[t] \notin Busy
      BY <1>a, <2>2, <2>5, Zenon DEF Busy
    <3>5. QED
      BY <1>a, <2>2, <2>3, <3>1, <3>2, <3>3, <3>4, Zenon DEF Discipline
  <2>6. CASE \E m \in 0..MaxConcurrent :
               /\ workers' = Least(Least(m, n'), width) /\ n' \in 0..MaxCells
               /\ pc' = [t \in Threads |-> IF t = Caller THEN "spawn" ELSE "none"]
               /\ mode' = "drivers"
    <3>1. pc' \in [Threads -> Places] /\ pc'[Caller] = "spawn"
          /\ \A w \in Workers : pc'[w] = "none"
      BY <2>6, ThreadFacts, Zenon DEF Places
    <3>2. width' \in 1..PoolWidth /\ workers' \in 0..width' /\ spawned' \in 0..workers'
      <4>1. width' = width /\ width \in 1..PoolWidth
        BY <1>1, Zenon DEF Call, Discipline
      <4>2. QED
        BY <2>4, <2>6, <4>1, SchedulerAssumption, SMT DEF Least
    <3>3. \A t \in Threads : pc'[t] \notin Busy
      BY <2>6, Zenon DEF Busy
    <3>4. QED
      BY <1>a, <2>2, <2>3, <2>6, <3>1, <3>2, <3>3, Zenon DEF Discipline
  <2>7. QED
    BY <1>1, <2>5, <2>6, Zenon DEF Call
<1>2. CASE Spawn
  <2>1. spawned \in 0..workers /\ spawned < workers /\ workers \in 0..width
        /\ width \in 1..PoolWidth
        /\ spawned' = spawned + 1 /\ pc[Caller] = "spawn"
    BY <1>2, Zenon DEF Spawn, Discipline
  <2>2. spawned + 1 \in Workers /\ spawned' \in 0..workers /\ spawned + 1 > spawned
        /\ \A w \in Workers : w > spawned' => w > spawned /\ w # spawned + 1
    BY <2>1, ThreadFacts, SMT DEF Workers
  <2>3. pc[spawned + 1] = "none" /\ pc' = [pc EXCEPT ![spawned + 1] = "start"]
    BY <1>2, <2>1, <2>2, Zenon DEF Spawn, Goto, Discipline
  <2>4. pc' \in [Threads -> Places] /\ pc'[Caller] = "spawn" /\ pc'[spawned + 1] = "start"
        /\ \A t \in Threads : t # spawned + 1 => pc'[t] = pc[t]
    BY <1>a, <2>1, <2>2, <2>3, ThreadFacts, Zenon DEF Places
  <2>5. \A w \in Workers : w > spawned' => pc'[w] = "none"
    BY <2>1, <2>2, <2>4, ThreadFacts, Zenon DEF Discipline
  <2>6. \A t \in Threads : pc'[t] \in Busy <=> pc[t] \in Busy
    BY <2>3, <2>4, Zenon DEF Busy
  <2>7. mode = "drivers"
    BY <2>1, Zenon DEF Discipline
  <2>8. QED
    BY <1>2, <2>1, <2>2, <2>4, <2>5, <2>6, <2>7, Zenon DEF Spawn, callVars, Discipline
<1>3. CASE SpawnFails \/ AllSpawned
  BY <1>3, Moves, ThreadFacts, Zenon DEF SpawnFails, AllSpawned, callVars, Discipline, Places, Busy
<1>4. CASE SetStart
  BY <1>4, Moves, ThreadFacts, Zenon DEF SetStart, callVars, Discipline, Places, Busy
<1>5. CASE NotifyAll
  <2>1. /\ pc[Caller] = "notify" /\ mode = "drivers"
        /\ UNCHANGED <<held, next, results, width, workers, spawned, mode>>
    BY <1>5, Zenon DEF NotifyAll, callVars, Discipline
  <2>2. /\ pc'[Caller] \in {"drain", "join"}
        /\ \A t \in Threads : t # Caller => pc'[t] = pc[t] \/ (pc[t] = "parked" /\ pc'[t] = "start")
    BY <1>5, ThreadFacts, Zenon DEF NotifyAll, Notified, Parked
  <2>3. pc' \in [Threads -> Places]
    <3>1. \A t \in Threads : pc'[t] \in Places
      BY <1>a, <2>2, Zenon DEF Places
    <3>2. pc' = [t \in Threads |-> pc'[t]]
      BY <1>5, Zenon DEF NotifyAll
    <3>3. QED
      BY <3>1, <3>2, Zenon
  <2>4. \A t \in Threads : pc'[t] \in Busy <=> pc[t] \in Busy
    BY <2>1, <2>2, Zenon DEF Busy
  <2>5. QED
    BY <2>1, <2>2, <2>3, <2>4, Zenon DEF Discipline
<1>6. CASE CallerTakes
  BY <1>6, Takes, ThreadFacts, Zenon DEF CallerTakes, AfterPop, callVars
<1>7. CASE CallerFinishes
  <2>1. held[Caller] \in Nat
    BY <1>a, ThreadFacts, Zenon
  <2>2. results' \in Seq(Nat)
    BY <1>7, <1>a, <2>1, AppendProperties DEF CallerFinishes
  <2>3. QED
    BY <1>7, <2>2, Leaves, ThreadFacts, Zenon DEF CallerFinishes, callVars, Busy, Places
<1>8. CASE CallerDrained
  <2>1. mode # "drivers" => DriversEnded
    BY Zenon DEF Discipline
  <2>2. QED
    BY <1>8, <2>1, Moves, ThreadFacts, Zenon DEF CallerDrained, callVars, Busy, Places
<1>9. CASE Join \/ Panics
  BY <1>9, Moves, ThreadFacts, Zenon DEF Join, Panics, callVars, Busy, Places
<1>10. ASSUME NEW w \in Workers, DriverLooks(w) \/ DriverLeaves(w) PROVE Discipline'
  BY <1>10, Moves, ThreadFacts, Zenon
     DEF DriverLooks, MayRun, DriverLeaves, callVars, Busy, Places, Ended
<1>11. ASSUME NEW w \in Workers, DriverPops(w) PROVE Discipline'
  BY <1>11, Takes, ThreadFacts, Zenon DEF DriverPops, AfterPop, callVars, Ended
<1>12. ASSUME NEW w \in Workers, DriverPushes(w) PROVE Discipline'
  <2>1. held[w] \in Nat
    BY <1>a, ThreadFacts, Zenon
  <2>2. results' \in Seq(Nat)
    BY <1>12, <1>a, <2>1, AppendProperties DEF DriverPushes
  <2>3. QED
    BY <1>12, <2>2, Leaves, ThreadFacts, Zenon DEF DriverPushes, callVars, Busy, Places
<1>13. ASSUME NEW t \in Threads, CellRuns(t) \/ FanOut(t) PROVE Discipline'
  BY <1>13, GoesOn, Zenon DEF CellRuns, FanOut, callVars, Busy
<1>14. ASSUME NEW t \in Threads, CellPanicked(t) PROVE Discipline'
  BY <1>14, <1>a, Leaves, Zenon DEF CellPanicked, callVars, Busy, Places
<1>15. CASE Finished \/ UNCHANGED vars
  BY <1>15, Zenon DEF Finished, vars, callVars, Discipline, DriversEnded, Ended
<1>16. QED
  BY <1>1, <1>2, <1>3, <1>4, <1>5, <1>6, <1>7, <1>8, <1>9, <1>10, <1>11, <1>12, <1>13,
     <1>14, <1>15, Zenon DEF Next, CallerStep, Driver, Cell
-----------------------------------------------------------------------------
Lost == \E t \in Threads : pc[t] \in {"panicked", "unwinding"}

\* CellsRunOnce and what it needs to survive the next pop: nothing beyond the
\* front of the backlog has been run.
Accounted ==
  /\ CellsRunOnce
  /\ \A i \in 1..Len(results) : results[i] < next

LEMMA RangeFacts ==
  ASSUME NEW s \in Seq(Nat), NEW e \in Nat
  PROVE  /\ RangeOf(<<>>) = {}
         /\ RangeOf(Append(s, e)) = RangeOf(s) \cup {e}
         /\ \A i \in 1..Len(s) : s[i] \in RangeOf(s)
<1>1. Append(s, e) \in Seq(Nat) /\ Len(Append(s, e)) = Len(s) + 1 /\ Len(s) \in Nat
      /\ Append(s, e)[Len(s) + 1] = e /\ \A i \in 1..Len(s) : Append(s, e)[i] = s[i]
  BY AppendProperties, LenProperties
<1>2. 1..(Len(s) + 1) = (1..Len(s)) \cup {Len(s) + 1}
  BY <1>1, SMT
<1>3. RangeOf(Append(s, e)) = RangeOf(s) \cup {e}
  BY <1>1, <1>2, Zenon DEF RangeOf
<1>4. RangeOf(<<>>) = {}
  BY SMT DEF RangeOf
<1>5. QED
  BY <1>3, <1>4, Zenon DEF RangeOf

\* A step that moves threads about and takes, pushes and loses no cell.
LEMMA AccountedStays ==
  ASSUME Accounted, UNCHANGED <<held, next, results>>, Lost => Lost'
  PROVE  Accounted'
BY Zenon DEF Accounted, CellsRunOnce, Lost

LEMMA AccountedTakes ==
  ASSUME Discipline, Accounted, NEW t \in Threads, pc[t] \notin Busy, Goto(t, "run"),
         pc[t] \notin {"panicked", "unwinding"},
         held' = [held EXCEPT ![t] = next], next' = next + 1, UNCHANGED results
  PROVE  Accounted'
<1>1. /\ next \in Nat \ {0} /\ next' = next + 1 /\ held[t] = 0
      /\ pc \in [Threads -> Places] /\ held \in [Threads -> Nat] /\ results \in Seq(Nat)
  BY Zenon DEF Discipline
<1>2. held'[t] = next /\ \A u \in Threads : u # t => held'[u] = held[u]
  BY <1>1, Zenon
<1>3. \A u \in Threads : u # t => pc'[u] = pc[u]
  BY <1>1, Zenon DEF Goto
<1>4. Lost => Lost'
  BY <1>3, Zenon DEF Lost
<1>5. /\ \A i \in 1..Len(results) : results[i] < next /\ results[i] \in Nat
      /\ \A u \in Threads : held[u] \in Nat
      /\ \A u \in Threads : held[u] # 0 => held[u] < next
  BY <1>1, ElementOfSeq, Zenon DEF Accounted, CellsRunOnce
<1>6. /\ next \notin RangeOf(results) /\ next # 0 /\ next < next'
      /\ \A u \in Threads : held[u] # next
      /\ \A k \in Nat : k < next => k < next'
  BY <1>1, <1>5, SMT DEF RangeOf
<1>7. \A u \in Threads : held'[u] # 0 =>
        /\ held'[u] < next' /\ held'[u] \notin RangeOf(results')
        /\ \A v \in Threads : held'[v] = held'[u] => v = u
  <2>1. results' = results /\ \A u \in Threads : held[u] # 0 =>
          /\ held[u] \in Nat /\ held[u] < next /\ held[u] \notin RangeOf(results)
          /\ \A v \in Threads : held[v] = held[u] => v = u
    BY <1>5, Zenon DEF Accounted, CellsRunOnce
  <2>2. \A u \in Threads \ {t} : held'[u] = held[u]
    BY <1>2, Zenon
  <2>3. \A v \in Threads : held'[v] = held'[t] => v = t
    BY <1>2, <1>6, Zenon
  <2>4. ASSUME NEW u \in Threads, u # t, held'[u] # 0
        PROVE  /\ held'[u] < next' /\ held'[u] \notin RangeOf(results')
               /\ \A v \in Threads : held'[v] = held'[u] => v = u
    <3>1. held'[u] = held[u] /\ held[u] # next
      BY <1>2, <1>6, <2>4, Zenon
    <3>2. \A v \in Threads : held'[v] = held'[u] => v = u
      BY <1>2, <2>1, <2>4, <3>1, Zenon
    <3>3. QED
      BY <1>6, <2>1, <2>4, <3>1, <3>2, Zenon
  <2>5. QED
    BY <1>2, <1>6, <2>1, <2>3, <2>4, Zenon
<1>8. 1..(next' - 1) = (1..(next - 1)) \cup {next}
  BY <1>1, SMT
<1>9. \A c \in 1..(next' - 1) :
        c \in RangeOf(results') \/ (\E u \in Threads : held'[u] = c) \/ Lost'
  <2>1. \A c \in 1..(next - 1) : c # 0
    BY <1>1, SMT
  <2>2. \A c \in 1..(next - 1) :
          c \in RangeOf(results) \/ (\E u \in Threads : u # t /\ held[u] = c) \/ Lost
    BY <1>1, <2>1, Zenon DEF Accounted, CellsRunOnce, Lost
  <2>3. QED
    BY <1>2, <1>4, <1>8, <2>2, Zenon
<1>10. QED
  BY <1>5, <1>6, <1>7, <1>9, Zenon DEF Accounted, CellsRunOnce, Lost

LEMMA AccountedPushes ==
  ASSUME Discipline, Accounted, NEW t \in Threads, NEW where, Goto(t, where), pc[t] = "push",
         held' = [held EXCEPT ![t] = 0], results' = Append(results, held[t]), UNCHANGED next
  PROVE  Accounted'
<1>1. /\ next \in Nat \ {0} /\ held[t] \in Nat /\ held[t] # 0
      /\ pc \in [Threads -> Places] /\ held \in [Threads -> Nat] /\ results \in Seq(Nat)
  BY Zenon DEF Discipline, Busy
<1>2. held'[t] = 0 /\ \A u \in Threads : u # t => held'[u] = held[u]
  BY <1>1, Zenon
<1>3. \A u \in Threads : u # t => pc'[u] = pc[u]
  BY <1>1, Zenon DEF Goto
<1>4. Lost => Lost'
  BY <1>3, Zenon DEF Lost
<1>5. RangeOf(results') = RangeOf(results) \cup {held[t]}
      /\ \A i \in 1..Len(results) : results[i] \in RangeOf(results)
  BY <1>1, RangeFacts, Zenon
<1>6. held[t] < next /\ held[t] \notin RangeOf(results)
      /\ \A u \in Threads : held[u] = held[t] => u = t
  BY <1>1, Zenon DEF Accounted, CellsRunOnce
<1>7. /\ Len(results') = Len(results) + 1 /\ Len(results) \in Nat
      /\ results'[Len(results) + 1] = held[t]
      /\ \A i \in 1..Len(results) : results'[i] = results[i]
  BY <1>1, AppendProperties, LenProperties
<1>8. 1..Len(results') = (1..Len(results)) \cup {Len(results) + 1}
  BY <1>7, SMT
<1>9. \A i \in 1..Len(results') : results'[i] < next'
  BY <1>6, <1>7, <1>8, Zenon DEF Accounted
<1>10. \A i, j \in 1..Len(results') : results'[i] = results'[j] => i = j
  <2>1. \A i, j \in 1..Len(results) : results[i] = results[j] => i = j
    BY Zenon DEF Accounted, CellsRunOnce
  <2>2. \A i \in 1..Len(results) : results'[i] # held[t]
    BY <1>5, <1>6, <1>7, Zenon
  <2>3. SUFFICES ASSUME NEW i \in 1..Len(results'), NEW j \in 1..Len(results'),
                        results'[i] = results'[j]
                 PROVE  i = j
    OBVIOUS
  <2>4. (i \in 1..Len(results) \/ i = Len(results) + 1)
        /\ (j \in 1..Len(results) \/ j = Len(results) + 1)
    BY <1>8, Zenon
  <2>5. QED
    BY <1>7, <2>1, <2>2, <2>3, <2>4, Zenon
<1>11. \A u \in Threads : held'[u] # 0 =>
         /\ held'[u] < next' /\ held'[u] \notin RangeOf(results')
         /\ \A v \in Threads : held'[v] = held'[u] => v = u
  <2>1. SUFFICES ASSUME NEW u \in Threads, held'[u] # 0
                 PROVE  /\ held'[u] < next' /\ held'[u] \notin RangeOf(results')
                        /\ \A v \in Threads : held'[v] = held'[u] => v = u
    OBVIOUS
  <2>2. u # t /\ held'[u] = held[u] /\ held[u] # 0
    BY <1>2, <2>1, Zenon
  <2>3. /\ held[u] < next /\ held[u] \notin RangeOf(results)
        /\ \A v \in Threads : held[v] = held[u] => v = u
    BY <2>2, Zenon DEF Accounted, CellsRunOnce
  <2>4. held[u] # held[t]
    BY <1>6, <2>2, Zenon
  <2>5. \A v \in Threads : held'[v] = held'[u] => v = u
    BY <1>2, <2>2, <2>3, Zenon
  <2>6. QED
    BY <1>5, <2>2, <2>3, <2>4, <2>5, Zenon
<1>12. \A c \in 1..(next' - 1) :
         c \in RangeOf(results') \/ (\E u \in Threads : held'[u] = c) \/ Lost'
  BY <1>2, <1>4, <1>5, ZenonT(40) DEF Accounted, CellsRunOnce, Lost
<1>13. QED
  BY <1>9, <1>10, <1>11, <1>12, Zenon DEF Accounted, CellsRunOnce, Lost

LEMMA AccountedPanics ==
  ASSUME Discipline, Accounted, NEW t \in Threads, CellPanicked(t)
  PROVE  Accounted'
<1>1. pc \in [Threads -> Places] /\ held \in [Threads -> Nat]
      /\ held' = [held EXCEPT ![t] = 0] /\ UNCHANGED <<next, results>>
  BY Zenon DEF CellPanicked, Discipline
<1>2. held'[t] = 0 /\ \A u \in Threads : u # t => held'[u] = held[u]
  BY <1>1, Zenon
<1>3. Lost'
  BY <1>1, Zenon DEF CellPanicked, Goto, Lost
<1>4. QED
  BY <1>1, <1>2, <1>3, Zenon DEF Accounted, CellsRunOnce, Lost

LEMMA AccountedStep ==
  ASSUME Discipline, Accounted, [Next]_vars
  PROVE  Accounted'
<1>a. pc \in [Threads -> Places]
  BY DEF Discipline
<1>1. CASE Call
  <2>1. pc[Caller] = "returned" /\ DriversEnded
    BY <1>1, Zenon DEF Call, Discipline
  <2>2. \A t \in Threads : held[t] = 0
    <3>1. \A t \in Threads : t = Caller \/ t \in Workers
      BY ThreadFacts, SMT DEF Threads, Workers, Caller
    <3>2. QED
      BY <2>1, <3>1, Zenon DEF Discipline, DriversEnded, Ended, Busy
  <2>3. results' = <<>> /\ next' = 1 /\ UNCHANGED held
    BY <1>1, Zenon DEF Call
  <2>4. 1..Len(results') = {} /\ 1..(next' - 1) = {}
    BY <2>3, SMT
  <2>5. QED
    BY <2>2, <2>3, <2>4, Zenon DEF Accounted, CellsRunOnce
<1>2. CASE Spawn
  <2>1. spawned + 1 \in Workers /\ pc[Caller] = "spawn" /\ spawned + 1 > spawned
    BY <1>2, ThreadFacts, SMT DEF Spawn, Discipline, Workers
  <2>2. pc[spawned + 1] = "none"
    BY <2>1, Zenon DEF Discipline
  <2>3. Lost => Lost'
    BY <1>2, <1>a, <2>2, Zenon DEF Lost, Spawn, Goto
  <2>4. QED
    BY <1>2, <2>3, AccountedStays, Zenon DEF Spawn
<1>3. CASE SpawnFails \/ AllSpawned \/ SetStart \/ CallerDrained \/ Join
  <2>1. Lost => Lost'
    BY <1>3, <1>a, Zenon DEF Lost, SpawnFails, AllSpawned, SetStart, CallerDrained, Join, Goto
  <2>2. QED
    BY <1>3, <2>1, AccountedStays, Zenon
       DEF SpawnFails, AllSpawned, SetStart, CallerDrained, Join
<1>4. CASE NotifyAll
  <2>1. \A t \in Threads : pc[t] \in {"panicked", "unwinding"} => pc'[t] = pc[t]
    BY <1>4, Zenon DEF NotifyAll, Notified, Parked
  <2>2. Lost => Lost'
    BY <2>1, Zenon DEF Lost
  <2>3. QED
    BY <1>4, <2>2, AccountedStays, Zenon DEF NotifyAll
<1>5. CASE Panics
  <2>1. pc'[Caller] = "panicked"
    BY <1>5, <1>a, ThreadFacts, Zenon DEF Panics, Goto
  <2>2. QED
    BY <1>5, <2>1, ThreadFacts, AccountedStays, Zenon DEF Panics, Lost
<1>6. CASE CallerTakes
  BY <1>6, AccountedTakes, ThreadFacts, Zenon DEF CallerTakes, AfterPop, Busy
<1>7. CASE CallerFinishes
  BY <1>7, AccountedPushes, ThreadFacts, Zenon DEF CallerFinishes
<1>8. ASSUME NEW w \in Workers, DriverLooks(w) \/ DriverLeaves(w) PROVE Accounted'
  <2>1. Lost => Lost'
    BY <1>8, <1>a, Zenon DEF Lost, DriverLooks, MayRun, DriverLeaves, Goto
  <2>2. QED
    BY <1>8, <2>1, AccountedStays, Zenon DEF DriverLooks, MayRun, DriverLeaves
<1>9. ASSUME NEW w \in Workers, DriverPops(w) PROVE Accounted'
  BY <1>9, AccountedTakes, ThreadFacts, Zenon DEF DriverPops, AfterPop, Busy
<1>10. ASSUME NEW w \in Workers, DriverPushes(w) PROVE Accounted'
  BY <1>10, AccountedPushes, ThreadFacts, Zenon DEF DriverPushes
<1>11. ASSUME NEW t \in Threads, CellRuns(t) \/ FanOut(t) PROVE Accounted'
  <2>1. Lost => Lost'
    BY <1>11, <1>a, Zenon DEF Lost, CellRuns, FanOut, Goto
  <2>2. QED
    BY <1>11, <2>1, AccountedStays, Zenon DEF CellRuns, FanOut
<1>12. ASSUME NEW t \in Threads, CellPanicked(t) PROVE Accounted'
  BY <1>12, AccountedPanics
<1>13. CASE Finished \/ UNCHANGED vars
  BY <1>13, AccountedStays, Zenon DEF Finished, vars, Lost
<1>14. QED
  BY <1>1, <1>2, <1>3, <1>4, <1>5, <1>6, <1>7, <1>8, <1>9, <1>10, <1>11, <1>12, <1>13,
     Zenon DEF Next, CallerStep, Driver, Cell

\* However many threads pull from the backlog, no cell is run twice and none
\* disappears unless some cell panicked: the pop under the lock and the push
\* under the other lock hand each cell from one place to exactly one other.
THEOREM CellsOnce == Spec => []CellsRunOnce
<1>1. Init => Discipline /\ Accounted
  <2> SUFFICES ASSUME Init PROVE Accounted
    BY DisciplineInit
  <2>1. results = <<>> /\ next = 1 /\ \A t \in Threads : held[t] = 0
    BY Zenon DEF Init
  <2>2. 1..Len(results) = {} /\ 1..(next - 1) = {}
    BY <2>1, SMT
  <2>3. QED
    BY <2>1, <2>2, Zenon DEF Accounted, CellsRunOnce
<1>2. Discipline /\ Accounted /\ [Next]_vars => Discipline' /\ Accounted'
  BY DisciplineStep, AccountedStep
<1>3. Accounted => CellsRunOnce
  BY DEF Accounted
<1>4. QED
  BY <1>1, <1>2, <1>3, PTL DEF Spec
-----------------------------------------------------------------------------
AtWork == Busy \cup {"pop"}

\* No driver is at work before the start signal, which is only ever Run when
\* every spawn succeeded.
HeldBack ==
  /\ spawnFailed => start # "Run"
  /\ pc[Caller] \in {"spawn", "signal"} => start = "Wait"
  /\ start # "Run" => \A w \in Workers : pc[w] \notin AtWork

\* A thread moves on without touching the signal.
LEMMA HeldBackMoves ==
  ASSUME Discipline, HeldBack, NEW t \in Threads, NEW where, Goto(t, where),
         t = Caller => where \notin {"spawn", "signal"},
         t # Caller /\ start # "Run" => where \notin AtWork,
         UNCHANGED <<start, spawnFailed>>
  PROVE  HeldBack'
<1>1. pc \in [Threads -> Places]
  BY DEF Discipline
<1>2. pc'[t] = where /\ \A u \in Threads : u # t => pc'[u] = pc[u]
  BY <1>1, Zenon DEF Goto
<1>3. QED
  BY <1>2, ThreadFacts, Zenon DEF HeldBack

LEMMA HeldBackStep ==
  ASSUME Discipline, HeldBack, [Next]_vars
  PROVE  HeldBack'
<1>a. pc \in [Threads -> Places]
  BY DEF Discipline
<1>1. CASE Call
  <2>1. pc[Caller] = "returned" /\ DriversEnded
    BY <1>1, Zenon DEF Call, Discipline
  <2>2. start' = "Wait" /\ spawnFailed' = FALSE
    BY <1>1, Zenon DEF Call
  <2>3. pc' = [pc EXCEPT ![Caller] = "drain"]
        \/ pc' = [t \in Threads |-> IF t = Caller THEN "spawn" ELSE "none"]
    BY <1>1, Zenon DEF Call
  <2>4. \A w \in Workers : pc'[w] = pc[w] \/ pc'[w] = "none"
    BY <1>a, <2>3, ThreadFacts, Zenon
  <2>5. QED
    BY <2>1, <2>2, <2>4, Zenon DEF HeldBack, AtWork, Busy, DriversEnded, Ended
<1>2. CASE Spawn
  <2>1. spawned + 1 \in Workers
    BY <1>2, ThreadFacts, SMT DEF Spawn, Discipline, Workers
  <2>2. QED
    BY <1>2, <2>1, HeldBackMoves, ThreadFacts, Zenon DEF Spawn, AtWork, Busy
<1>3. CASE SpawnFails
  <2>1. pc' = [pc EXCEPT ![Caller] = "signal"] /\ start = "Wait" /\ start' = start
    BY <1>3, Zenon DEF SpawnFails, Goto, HeldBack
  <2>2. \A w \in Workers : pc'[w] = pc[w]
    BY <1>a, <2>1, ThreadFacts, Zenon
  <2>3. QED
    BY <2>1, <2>2, Zenon DEF HeldBack
<1>4. CASE AllSpawned
  <2>1. pc' = [pc EXCEPT ![Caller] = "signal"] /\ start = "Wait"
        /\ UNCHANGED <<start, spawnFailed>>
    BY <1>4, Zenon DEF AllSpawned, Goto, HeldBack
  <2>2. \A w \in Workers : pc'[w] = pc[w]
    BY <1>a, <2>1, ThreadFacts, Zenon
  <2>3. QED
    BY <2>1, <2>2, Zenon DEF HeldBack
<1>5. CASE SetStart
  <2>1. pc' = [pc EXCEPT ![Caller] = "notify"] /\ start = "Wait" /\ start' = Signal
        /\ UNCHANGED spawnFailed
    BY <1>5, Zenon DEF SetStart, Goto, HeldBack
  <2>2. \A w \in Workers : pc'[w] = pc[w]
    BY <1>a, <2>1, ThreadFacts, Zenon
  <2>3. pc'[Caller] = "notify"
    BY <1>a, <2>1, ThreadFacts, Zenon
  <2>4. QED
    BY <2>1, <2>2, <2>3, Zenon DEF HeldBack, Signal
<1>6. CASE NotifyAll
  <2>1. pc'[Caller] \notin {"spawn", "signal"} /\ UNCHANGED <<start, spawnFailed>>
    BY <1>6, ThreadFacts, Zenon DEF NotifyAll
  <2>2. \A w \in Workers : pc'[w] = pc[w] \/ pc'[w] = "start"
    BY <1>6, ThreadFacts, Zenon DEF NotifyAll
  <2>3. QED
    BY <2>1, <2>2, Zenon DEF HeldBack, AtWork, Busy
<1>7. CASE CallerTakes \/ CallerFinishes \/ CallerDrained \/ Join \/ Panics
  BY <1>7, HeldBackMoves, ThreadFacts, Zenon
     DEF CallerTakes, CallerFinishes, CallerDrained, Join, Panics
<1>8. ASSUME NEW w \in Workers, Driver(w) PROVE HeldBack'
  <2>1. pc[w] \in AtWork => start = "Run"
    BY Zenon DEF HeldBack
  <2>2. QED
    BY <1>8, <2>1, HeldBackMoves, ThreadFacts, Zenon
       DEF Driver, DriverLooks, MayRun, DriverPops, DriverLeaves, DriverPushes, AtWork, Busy
<1>9. ASSUME NEW t \in Threads, Cell(t) PROVE HeldBack'
  <2>1. t # Caller => t \in Workers
    BY ThreadFacts, SMT DEF Threads, Workers, Caller
  <2>2. t # Caller => start = "Run"
    BY <1>9, <2>1, Zenon DEF Cell, CellRuns, FanOut, CellPanicked, HeldBack, AtWork, Busy
  <2>3. QED
    BY <1>9, <2>2, HeldBackMoves, Zenon DEF Cell, CellRuns, FanOut, CellPanicked
<1>10. CASE Finished \/ UNCHANGED vars
  <2>1. UNCHANGED <<pc, start, spawnFailed>>
    BY <1>10, Zenon DEF Finished, vars
  <2>2. QED
    BY <2>1, Zenon DEF HeldBack
<1>11. QED
  BY <1>1, <1>2, <1>3, <1>4, <1>5, <1>6, <1>7, <1>8, <1>9, <1>10, Zenon DEF Next, CallerStep

\* After a failed spawn the drivers already running, which wait for the start
\* signal, never take a cell: the caller alone runs every cell of that call.
THEOREM SerialFallback == Spec => []FallbackIsSerial
<1>1. Init => Discipline /\ HeldBack
  BY DisciplineInit, ThreadFacts, Zenon DEF Init, HeldBack, AtWork, Busy
<1>2. Discipline /\ HeldBack /\ [Next]_vars => Discipline' /\ HeldBack'
  BY DisciplineStep, HeldBackStep
<1>3. Discipline /\ HeldBack => FallbackIsSerial
  BY ThreadFacts, Zenon DEF Discipline, HeldBack, FallbackIsSerial, AtWork, Busy
<1>4. QED
  BY <1>1, <1>2, <1>3, PTL DEF Spec
-----------------------------------------------------------------------------
(* run_cells implements ParallelMap.                                        *)

\* Cells are numbered up to n and the backlog ends behind the last.
Numbered ==
  /\ n \in Nat /\ next <= n + 1
  /\ \A t \in Threads : held[t] <= n
  /\ \A c \in RangeOf(results) : c \in 1..n

\* A driver leaves an empty backlog only; with every spawn done the first
\* driver exists, so that joining it means the backlog is empty.
Gate ==
  /\ start = "Run" => \A w \in Workers : pc[w] = "gone" => next > n
  /\ mode = "drivers" /\ start = "Wait" => \A w \in Workers : pc[w] # "gone"
  /\ mode = "drivers" => workers >= 1 /\ (spawned >= 1 => pc[1] # "none")
  /\ pc[Caller] = "notify" => start = Signal
  /\ pc[Caller] \in {"signal", "notify"} /\ ~spawnFailed => spawned >= 1
  /\ pc[Caller] = "join" => mode = "drivers" /\ (next > n \/ (start = "Run" /\ spawned >= 1))

\* Without drivers the caller pushes the cells in their order.
InOrder ==
  mode # "drivers" /\ pc[Caller] \in Busy \cup {"drain"} =>
    /\ Len(results) = IF held[Caller] = 0 THEN next - 1 ELSE next - 2
    /\ held[Caller] # 0 => held[Caller] = next - 1
    /\ \A i \in 1..Len(results) : results[i] = i

Progress == Numbered /\ Gate /\ InOrder

LEMMA IntervalFacts ==
  ASSUME NEW m \in Nat
  PROVE  IsFiniteSet(1..m) /\ Cardinality(1..m) = m
<1>1. 1 \in Int /\ m \in Int /\ (IF 1 > m THEN 0 ELSE m - 1 + 1) = m
  BY SMT
<1>2. QED
  BY <1>1, FS_Interval

LEMMA SeqOf ==
  ASSUME NEW S, NEW m \in Nat, NEW f \in [1..m -> S]
  PROVE  f \in Seq(S) /\ Len(f) = m
<1>1. f \in Seq(S)
  BY SeqDef, Zenon
<1>2. DOMAIN f = 1..m /\ DOMAIN f = 1..Len(f) /\ Len(f) \in Nat
  BY <1>1, LenProperties, Zenon
<1>3. QED
  BY <1>1, <1>2, SMT

\* The keys are 1 to m, each once.
Ranks(key, len, m) ==
  /\ key \in [1..len -> Nat]
  /\ \A i \in 1..len : key[i] \in 1..m
  /\ \A c \in 1..m : \E i \in 1..len : key[i] = c
  /\ \A i, j \in 1..len : key[i] = key[j] => i = j

\* Sorting by distinct keys that are 1 to m puts each element at its key.
LEMMA SortPlaces ==
  ASSUME NEW m \in Nat, NEW S, NEW s \in Seq(S), NEW key, Ranks(key, Len(s), m)
  PROVE  /\ SortByKey(s, key) \in [1..m -> S]
         /\ \A i \in 1..Len(s) : SortByKey(s, key)[key[i]] = s[i]
<1> DEFINE Smaller(i) == {j \in 1..Len(s) : key[j] < key[i]}
           Picked(k) == CHOOSE i \in 1..Len(s) : Cardinality(Smaller(i)) = k - 1
<1> USE DEF Ranks
<1>1. Len(s) \in Nat /\ \A i \in 1..Len(s) : key[i] \in Nat /\ s[i] \in S
  BY LenProperties, ElementOfSeq, Zenon
<1>2. \A i \in 1..Len(s) : Cardinality(Smaller(i)) = key[i] - 1
  <2>1. SUFFICES ASSUME NEW i \in 1..Len(s) PROVE Cardinality(Smaller(i)) = key[i] - 1
    OBVIOUS
  <2>2. key[i] \in 1..m /\ key[i] \in Nat /\ key[i] - 1 \in Nat /\ 1..(key[i] - 1) \subseteq 1..m
        /\ \A c \in 1..m : c < key[i] <=> c \in 1..(key[i] - 1)
    <3>1. key[i] \in 1..m /\ key[i] \in Nat
      BY <1>1
    <3>2. QED
      BY <3>1, SMT
  <2>3. DEFINE f == [j \in Smaller(i) |-> key[j]]
  <2>4. f \in [Smaller(i) -> 1..(key[i] - 1)]
    BY <1>1, <2>2, Zenon
  <2>5. \A c \in 1..(key[i] - 1) : \E j \in Smaller(i) : f[j] = c
    <3>1. SUFFICES ASSUME NEW c \in 1..(key[i] - 1) PROVE \E j \in Smaller(i) : key[j] = c
      BY Zenon
    <3>2. PICK j \in 1..Len(s) : key[j] = c
      BY <1>1, <2>2, <3>1, Zenon
    <3>3. c < key[i]
      BY <2>2, <3>1, Zenon
    <3>4. QED
      BY <3>2, <3>3, Zenon
  <2>6. \A j, k \in Smaller(i) : f[j] = f[k] => j = k
    BY Zenon
  <2>7. f \in Bijection(Smaller(i), 1..(key[i] - 1))
    BY <2>4, <2>5, <2>6, Zenon DEF Bijection, Injection, Surjection, IsInjective
  <2>8. IsFiniteSet(Smaller(i))
    BY <1>1, IntervalFacts, FS_Subset, Zenon
  <2> HIDE DEF Smaller, f
  <2>9. Cardinality(1..(key[i] - 1)) = Cardinality(Smaller(i))
    <3>1. ExistsBijection(Smaller(i), 1..(key[i] - 1))
      BY <2>7, Zenon DEF ExistsBijection
    <3>2. QED
      BY <2>8, <3>1, FS_Bijection, Zenon
  <2>10. Cardinality(1..(key[i] - 1)) = key[i] - 1
    BY <2>2, IntervalFacts, Zenon
  <2>11. QED
    BY <2>9, <2>10
<1>3. Len(s) = m
  <2>1. key \in Bijection(1..Len(s), 1..m)
    BY <1>1, Zenon DEF Bijection, Injection, Surjection, IsInjective
  <2>2. IsFiniteSet(1..Len(s)) /\ Cardinality(1..Len(s)) = Len(s) /\ Cardinality(1..m) = m
    BY <1>1, IntervalFacts, Zenon
  <2>3. QED
    BY <2>1, <2>2, FS_Bijection, Zenon DEF ExistsBijection
<1>4. ASSUME NEW i \in 1..Len(s) PROVE Picked(key[i]) = i
  <2>1. \A j \in 1..Len(s) : Cardinality(Smaller(j)) = key[i] - 1 <=> j = i
    <3>1. SUFFICES ASSUME NEW j \in 1..Len(s)
                   PROVE  Cardinality(Smaller(j)) = key[i] - 1 <=> j = i
      OBVIOUS
    <3>2. Cardinality(Smaller(j)) = key[j] - 1 /\ key[j] \in Nat /\ key[i] \in Nat
          /\ (key[j] = key[i] => j = i)
      BY <1>1, <1>2
    <3>3. Cardinality(Smaller(j)) = key[i] - 1 <=> key[j] = key[i]
      BY <3>2, SMT
    <3>4. QED
      BY <3>2, <3>3
  <2> HIDE DEF Smaller
  <2>2. QED
    BY <2>1, Zenon
<1>5. SortByKey(s, key) = [k \in 1..Len(s) |-> s[Picked(k)]]
  BY Zenon DEF SortByKey
<1> HIDE DEF Picked
<1>6. ASSUME NEW i \in 1..Len(s) PROVE SortByKey(s, key)[key[i]] = s[i]
  <2>1. key[i] \in 1..Len(s) /\ Picked(key[i]) = i
    BY <1>3, <1>4, Zenon
  <2>2. SortByKey(s, key)[key[i]] = s[Picked(key[i])]
    BY <1>5, <2>1, Zenon
  <2>3. QED
    BY <2>1, <2>2
<1>7. ASSUME NEW c \in 1..m PROVE SortByKey(s, key)[c] \in S
  <2>1. PICK i \in 1..Len(s) : key[i] = c
    BY Zenon
  <2>2. SortByKey(s, key)[c] = s[i]
    BY <1>6, <2>1, Zenon
  <2>3. QED
    BY <1>1, <2>2, Zenon
<1>8. QED
  BY <1>3, <1>5, <1>6, <1>7, Zenon

LEMMA WithoutDrivers ==
  ASSUME Discipline, pc[Caller] \in {"returned", "panicked"} \/ mode # "drivers",
         NEW w \in Workers
  PROVE  pc[w] \in Ended /\ held[w] = 0
BY ThreadFacts, Zenon DEF Discipline, DriversEnded, Ended, Busy

LEMMA NumberedPushes ==
  ASSUME Discipline, Numbered, NEW t \in Threads, pc[t] = "push",
         held' = [held EXCEPT ![t] = 0], results' = Append(results, held[t]),
         UNCHANGED <<n, next>>
  PROVE  Numbered'
<1>1. held \in [Threads -> Nat] /\ results \in Seq(Nat) /\ held[t] \in Nat /\ held[t] # 0
  BY Zenon DEF Discipline, Busy
<1>2. n \in Nat /\ held[t] <= n
  BY Zenon DEF Numbered
<1>3. held[t] \in 1..n /\ 0 <= n
  BY <1>1, <1>2, SMT
<1>4. RangeOf(results') = RangeOf(results) \cup {held[t]}
  BY <1>1, RangeFacts, Zenon
<1>5. \A u \in Threads : held'[u] <= n
  BY <1>1, <1>3, Zenon DEF Numbered
<1>6. QED
  BY <1>3, <1>4, <1>5, Zenon DEF Numbered

LEMMA NumberedTakes ==
  ASSUME Discipline, Numbered, NEW t \in Threads, next <= n,
         held' = [held EXCEPT ![t] = next], next' = next + 1, UNCHANGED <<n, results>>
  PROVE  Numbered'
<1>1. held \in [Threads -> Nat] /\ next \in Nat /\ n \in Nat
  BY Zenon DEF Discipline, Numbered
<1>2. next' <= n + 1
  BY <1>1, SMT
<1>3. \A u \in Threads : held'[u] <= n
  BY <1>1, Zenon DEF Numbered
<1>4. QED
  BY <1>2, <1>3, Zenon DEF Numbered

LEMMA NumberedStep ==
  ASSUME Discipline, Numbered, [Next]_vars
  PROVE  Numbered'
<1>1. CASE Call
  <2>1. n' \in 0..MaxCells /\ next' = 1 /\ results' = <<>> /\ held' = held
        /\ pc[Caller] = "returned"
    BY <1>1, Zenon DEF Call
  <2>2. \A t \in Threads : held[t] = 0
    <3>1. \A t \in Threads : t = Caller \/ t \in Workers
      BY ThreadFacts, SMT DEF Threads, Workers, Caller
    <3>2. held[Caller] = 0
      BY <2>1, ThreadFacts, Zenon DEF Discipline, Busy
    <3>3. QED
      BY <2>1, <3>1, <3>2, WithoutDrivers, Zenon
  <2>3. n' \in Nat /\ next' <= n' + 1 /\ 0 <= n'
    <3>1. \A i \in 0..MaxCells : i \in Nat /\ 1 <= i + 1 /\ 0 <= i
      BY SchedulerAssumption, SMT
    <3>2. QED
      BY <2>1, <3>1, Zenon
  <2>4. RangeOf(results') = {}
    <3>1. RangeOf(<<>>) = {}
      BY SMT DEF RangeOf
    <3>2. QED
      BY <2>1, <3>1, Zenon DEF RangeOf
  <2>5. \A t \in Threads : held'[t] <= n'
    BY <2>1, <2>2, <2>3, Zenon
  <2>6. QED
    BY <2>3, <2>4, <2>5, Zenon DEF Numbered
<1>2. CASE CallerTakes
  BY <1>2, ThreadFacts, NumberedTakes, Zenon DEF CallerTakes, AfterPop, callVars
<1>3. CASE CallerFinishes
  BY <1>3, ThreadFacts, NumberedPushes, Zenon DEF CallerFinishes, callVars
<1>4. ASSUME NEW w \in Workers, DriverPops(w) PROVE Numbered'
  BY <1>4, ThreadFacts, NumberedTakes, Zenon DEF DriverPops, AfterPop, callVars
<1>5. ASSUME NEW w \in Workers, DriverPushes(w) PROVE Numbered'
  BY <1>5, ThreadFacts, NumberedPushes, Zenon DEF DriverPushes, callVars
<1>6. ASSUME NEW t \in Threads, CellPanicked(t) PROVE Numbered'
  <2>1. held' = [held EXCEPT ![t] = 0] /\ UNCHANGED <<n, next, results>>
    BY <1>6, Zenon DEF CellPanicked, callVars
  <2>2. held \in [Threads -> Nat] /\ n \in Nat /\ \A u \in Threads : held[u] <= n
    BY Zenon DEF Discipline, Numbered
  <2>3. 0 <= n
    BY <2>2, SMT
  <2>4. \A u \in Threads : held'[u] <= n
    BY <2>1, <2>2, <2>3, Zenon
  <2>5. QED
    BY <2>1, <2>4, Zenon DEF Numbered
<1>7. CASE UNCHANGED <<n, next, held, results>>
  BY <1>7, Zenon DEF Numbered
<1>8. CASE Spawn \/ SpawnFails \/ AllSpawned \/ SetStart \/ NotifyAll \/ CallerDrained \/ Join \/ Panics
  BY <1>7, <1>8, Zenon
     DEF Spawn, SpawnFails, AllSpawned, SetStart, NotifyAll, CallerDrained, Join, Panics, callVars
<1>9. ASSUME NEW w \in Workers, DriverLooks(w) \/ DriverLeaves(w) PROVE Numbered'
  BY <1>7, <1>9, Zenon DEF DriverLooks, MayRun, DriverLeaves, callVars
<1>10. ASSUME NEW t \in Threads, CellRuns(t) \/ FanOut(t) PROVE Numbered'
  BY <1>7, <1>10, Zenon DEF CellRuns, FanOut, callVars
<1>11. CASE Finished \/ UNCHANGED vars
  BY <1>7, <1>11, Zenon DEF Finished, vars, callVars
<1>12. QED
  BY <1>1, <1>2, <1>3, <1>4, <1>5, <1>6, <1>8, <1>9, <1>10, <1>11, Zenon
     DEF Next, CallerStep, Driver, Cell

\* A thread moves on while the start signal and the drivers stay as they are.
LEMMA GateMoves ==
  ASSUME Discipline, Gate, Numbered, NEW t \in Threads, NEW where, Goto(t, where),
         UNCHANGED <<start, spawnFailed, mode, n, workers, spawned>>,
         next' = next \/ next' = next + 1,
         t # Caller => where # "none" /\ (where = "gone" => start # "Wait" /\ (start = "Run" => next > n)),
         t = Caller => where \notin {"signal", "notify"}
                        /\ (where = "join" => mode = "drivers" /\ next > n)
  PROVE  Gate'
<1>1. pc \in [Threads -> Places] /\ next \in Nat /\ n \in Nat
  BY Zenon DEF Discipline, Numbered
<1>2. pc'[t] = where /\ \A u \in Threads : u # t => pc'[u] = pc[u]
  BY <1>1, Zenon DEF Goto
<1>3. next > n => next' > n
  BY <1>1, SMT
<1>4. 1 \in Workers
  BY ThreadFacts, SMT DEF Workers
<1>5. CASE t = Caller
  <2>1. \A w \in Workers : pc'[w] = pc[w]
    BY <1>2, <1>5, ThreadFacts, Zenon
  <2>2. QED
    BY <1>2, <1>3, <1>4, <1>5, <2>1, Zenon DEF Gate, Signal
<1>6. CASE t # Caller
  <2>1. pc'[Caller] = pc[Caller]
    BY <1>2, <1>6, ThreadFacts, Zenon
  <2>2. \A w \in Workers : pc'[w] = pc[w] \/ pc'[w] = where
    BY <1>2, ThreadFacts, Zenon
  <2>3. QED
    BY <1>2, <1>3, <1>4, <1>6, <2>1, <2>2, Zenon DEF Gate, Signal
<1>7. QED
  BY <1>5, <1>6

LEMMA GateStep ==
  ASSUME Discipline, HeldBack, Numbered, Gate, [Next]_vars
  PROVE  Gate'
<1>a. pc \in [Threads -> Places] /\ 1 \in Workers /\ next \in Nat /\ n \in Nat
  BY ThreadFacts, SMT DEF Discipline, Numbered, Workers
<1>1. CASE Call
  <2>1. start' = "Wait" /\ spawned' = 0 /\ spawnFailed' = FALSE /\ ~(spawned' >= 1)
    <3>1. start' = "Wait" /\ spawned' = 0 /\ spawnFailed' = FALSE
      BY <1>1, Zenon DEF Call
    <3>2. QED
      BY <3>1, SMT
  <2>2. CASE mode' # "drivers" /\ pc' = [pc EXCEPT ![Caller] = "drain"]
    <3>1. pc'[Caller] = "drain"
      BY <1>a, <2>2, ThreadFacts, Zenon
    <3>2. QED
      BY <2>1, <2>2, <3>1, Zenon DEF Gate
  <2>3. CASE \E m \in 0..MaxConcurrent :
               /\ m > 1 /\ n' # 0 /\ n' \in 0..MaxCells /\ width \in 1..PoolWidth
               /\ workers' = Least(Least(m, n'), width)
               /\ pc' = [t \in Threads |-> IF t = Caller THEN "spawn" ELSE "none"]
    <3>1. workers' >= 1
      BY <2>3, SchedulerAssumption, SMT DEF Least
    <3>2. pc'[Caller] = "spawn" /\ \A w \in Workers : pc'[w] = "none"
      BY <2>3, ThreadFacts, Zenon
    <3>3. QED
      BY <2>1, <3>1, <3>2, Zenon DEF Gate
  <2>4. \A m \in 0..MaxConcurrent : ~(m <= 1) <=> m > 1
    BY SchedulerAssumption, SMT
  <2>5. QED
    BY <1>1, <2>2, <2>3, Zenon DEF Call, Discipline
<1>2. CASE Spawn
  <2>1. /\ pc[Caller] = "spawn" /\ mode = "drivers" /\ spawned' = spawned + 1
        /\ UNCHANGED <<start, spawnFailed, mode, workers, n, next>>
        /\ pc' = [pc EXCEPT ![spawned + 1] = "start"] /\ spawned \in Nat
        /\ spawned + 1 \in Workers /\ start = "Wait"
    <3>1. /\ pc[Caller] = "spawn" /\ spawned' = spawned + 1 /\ spawned < workers
          /\ UNCHANGED <<start, spawnFailed, mode, workers, n, next>>
          /\ pc' = [pc EXCEPT ![spawned + 1] = "start"]
      BY <1>2, Zenon DEF Spawn, callVars, Goto
    <3>2. mode = "drivers" /\ start = "Wait" /\ spawned \in 0..workers
          /\ workers \in 0..width /\ width \in 1..PoolWidth
      BY <3>1, Zenon DEF Discipline, HeldBack
    <3>3. spawned \in Nat /\ spawned + 1 \in Workers
      BY <3>1, <3>2, ThreadFacts, SMT DEF Workers
    <3>4. QED
      BY <3>1, <3>2, <3>3
  <2>2. pc'[spawned + 1] = "start" /\ \A t \in Threads : t # spawned + 1 => pc'[t] = pc[t]
    BY <1>a, <2>1, ThreadFacts, Zenon
  <2>3. pc'[Caller] = "spawn" /\ \A w \in Workers : pc'[w] = pc[w] \/ pc'[w] = "start"
    BY <2>1, <2>2, ThreadFacts, Zenon
  <2>4. pc'[1] # "none"
    <3>1. CASE spawned = 0
      <4>1. spawned + 1 = 1
        BY <3>1, SMT
      <4>2. QED
        BY <2>2, <4>1, Zenon
    <3>2. CASE spawned # 0
      <4>1. spawned >= 1
        BY <2>1, <3>2, SMT
      <4>2. pc[1] # "none"
        BY <2>1, <4>1, Zenon DEF Gate
      <4>3. QED
        BY <1>a, <2>3, <4>2, Zenon
    <3>3. QED
      BY <3>1, <3>2
  <2>5. QED
    BY <2>1, <2>3, <2>4, Zenon DEF Gate
<1>3. CASE SpawnFails \/ AllSpawned
  <2>1. /\ pc[Caller] = "spawn" /\ mode = "drivers" /\ pc' = [pc EXCEPT ![Caller] = "signal"]
        /\ UNCHANGED <<start, mode, workers, spawned, n, next>>
        /\ spawnFailed' = TRUE \/ (spawnFailed' = spawnFailed /\ spawned = workers)
    BY <1>3, Zenon DEF SpawnFails, AllSpawned, callVars, Goto, Discipline
  <2>2. pc'[Caller] = "signal" /\ \A w \in Workers : pc'[w] = pc[w]
    BY <1>a, <2>1, ThreadFacts, Zenon
  <2>3. spawnFailed' \/ spawned' >= 1
    BY <2>1, Zenon DEF Gate
  <2>4. QED
    BY <1>a, <2>1, <2>2, <2>3, Zenon DEF Gate
<1>4. CASE SetStart
  <2>1. /\ pc[Caller] = "signal" /\ mode = "drivers" /\ start = "Wait" /\ start' = Signal
        /\ pc' = [pc EXCEPT ![Caller] = "notify"]
        /\ UNCHANGED <<spawnFailed, mode, workers, spawned, n, next>>
    BY <1>4, Zenon DEF SetStart, callVars, Goto, Discipline, HeldBack
  <2>2. pc'[Caller] = "notify" /\ \A w \in Workers : pc'[w] = pc[w]
    BY <1>a, <2>1, ThreadFacts, Zenon
  <2>3. \A w \in Workers : pc[w] # "gone"
    BY <2>1, Zenon DEF Gate
  <2>4. QED
    BY <1>a, <2>1, <2>2, <2>3, Zenon DEF Gate, Signal
<1>5. CASE NotifyAll
  <2>1. /\ pc[Caller] = "notify" /\ mode = "drivers" /\ start = Signal
        /\ pc'[Caller] = IF spawnFailed THEN "drain" ELSE "join"
        /\ UNCHANGED <<start, spawnFailed, mode, workers, spawned, n, next>>
    BY <1>5, ThreadFacts, Zenon DEF NotifyAll, callVars, Discipline, Gate
  <2>2. \A w \in Workers : pc'[w] = pc[w] \/ pc'[w] = "start"
    BY <1>5, ThreadFacts, Zenon DEF NotifyAll
  <2>3. pc'[Caller] = "join" => start = "Run" /\ spawned >= 1
    BY <2>1, Zenon DEF Gate, Signal
  <2>4. QED
    BY <1>a, <2>1, <2>2, <2>3, Zenon DEF Gate
<1>6. CASE CallerTakes \/ CallerFinishes \/ CallerDrained \/ Join \/ Panics
  <2>1. CASE CallerTakes
    BY <2>1, GateMoves, ThreadFacts, Zenon DEF CallerTakes, AfterPop, callVars
  <2>2. CASE CallerFinishes
    BY <2>2, GateMoves, ThreadFacts, Zenon DEF CallerFinishes, callVars
  <2>3. CASE CallerDrained
    BY <2>3, GateMoves, ThreadFacts, Zenon DEF CallerDrained, callVars
  <2>4. CASE Join \/ Panics
    BY <2>4, GateMoves, ThreadFacts, Zenon DEF Join, Panics, callVars
  <2>5. QED
    BY <1>6, <2>1, <2>2, <2>3, <2>4
<1>7. ASSUME NEW w \in Workers, Driver(w) PROVE Gate'
  <2>1. pc[w] = "pop" => start = "Run"
    BY Zenon DEF HeldBack, AtWork
  <2>2. CASE DriverLooks(w)
    BY <2>2, GateMoves, ThreadFacts, Zenon DEF DriverLooks, MayRun, callVars
  <2>3. CASE DriverPops(w)
    BY <2>3, GateMoves, ThreadFacts, Zenon DEF DriverPops, AfterPop, callVars
  <2>4. CASE DriverLeaves(w)
    BY <2>1, <2>4, GateMoves, ThreadFacts, Zenon DEF DriverLeaves, callVars
  <2>5. CASE DriverPushes(w)
    BY <2>5, GateMoves, ThreadFacts, Zenon DEF DriverPushes, callVars
  <2>6. QED
    BY <1>7, <2>2, <2>3, <2>4, <2>5, Zenon DEF Driver
<1>8. ASSUME NEW t \in Threads, Cell(t) PROVE Gate'
  BY <1>8, GateMoves, Zenon DEF Cell, CellRuns, FanOut, CellPanicked, callVars
<1>9. CASE Finished \/ UNCHANGED vars
  <2>1. UNCHANGED <<pc, start, spawnFailed, mode, workers, spawned, n, next>>
    BY <1>9, Zenon DEF Finished, vars, callVars
  <2>2. Signal' = Signal
    BY <2>1, Zenon DEF Signal
  <2>3. QED
    BY <2>1, <2>2, Zenon DEF Gate
<1>10. QED
  BY <1>1, <1>2, <1>3, <1>4, <1>5, <1>6, <1>7, <1>8, <1>9, Zenon DEF Next, CallerStep

LEMMA InOrderStep ==
  ASSUME Discipline, InOrder, [Next]_vars
  PROVE  InOrder'
<1>a. /\ pc \in [Threads -> Places] /\ held \in [Threads -> Nat] /\ results \in Seq(Nat)
      /\ next \in Nat \ {0} /\ held[Caller] \in Nat /\ Len(results) \in Nat
  BY ThreadFacts, LenProperties, Zenon DEF Discipline
<1>1. CASE Call
  <2>1. next' = 1 /\ results' = <<>> /\ held' = held /\ pc[Caller] = "returned"
    BY <1>1, Zenon DEF Call
  <2>2. held'[Caller] = 0
    BY <2>1, ThreadFacts, Zenon DEF Discipline, Busy
  <2>3. Len(results') = 0 /\ 1..Len(results') = {} /\ next' - 1 = 0
    BY <2>1, SMT
  <2>4. QED
    BY <2>2, <2>3, Zenon DEF InOrder
<1>2. CASE CallerTakes
  <2>1. /\ pc[Caller] = "drain" /\ held[Caller] = 0 /\ held'[Caller] = next
        /\ next' = next + 1 /\ UNCHANGED <<results, mode>>
    BY <1>2, <1>a, ThreadFacts, Zenon DEF CallerTakes, AfterPop, callVars, Discipline, Busy
  <2>2. next - 1 = next' - 2 /\ next = next' - 1
    BY <1>a, <2>1, SMT
  <2>3. QED
    BY <1>a, <2>1, <2>2, Zenon DEF InOrder
<1>3. CASE CallerFinishes
  <2>1. /\ pc[Caller] = "push" /\ held[Caller] # 0 /\ held'[Caller] = 0 /\ next' = next
        /\ mode' = mode /\ results' = Append(results, held[Caller])
    BY <1>3, <1>a, ThreadFacts, Zenon DEF CallerFinishes, callVars, Discipline, Busy
  <2>2. SUFFICES ASSUME mode # "drivers"
                 PROVE  Len(results') = next - 1 /\ \A i \in 1..Len(results') : results'[i] = i
    BY <2>1, Zenon DEF InOrder
  <2>3. Len(results) = next - 2 /\ held[Caller] = next - 1
        /\ \A i \in 1..Len(results) : results[i] = i
    BY <2>1, <2>2, Zenon DEF InOrder, Busy
  <2>4. /\ Len(results') = Len(results) + 1 /\ results'[Len(results) + 1] = held[Caller]
        /\ \A i \in 1..Len(results) : results'[i] = results[i]
    BY <1>a, <2>1, AppendProperties
  <2>5. Len(results) + 1 = next - 1
        /\ \A i \in 1..(Len(results) + 1) : i \in 1..Len(results) \/ i = Len(results) + 1
    BY <1>a, <2>3, SMT
  <2>6. QED
    BY <2>3, <2>4, <2>5, Zenon
<1>4. ASSUME NEW w \in Workers, Driver(w) \/ Cell(w) PROVE InOrder'
  <2>1. pc[w] \notin Ended
    BY <1>4, Zenon DEF Driver, DriverLooks, MayRun, DriverPops, DriverLeaves, DriverPushes,
                       Cell, CellRuns, FanOut, CellPanicked, Ended
  <2>2. mode = "drivers"
    BY <2>1, WithoutDrivers, Zenon
  <2>3. mode' = mode
    BY <1>4, Zenon DEF Driver, DriverLooks, MayRun, DriverPops, DriverLeaves, DriverPushes,
                       Cell, CellRuns, FanOut, CellPanicked, callVars
  <2>4. QED
    BY <2>2, <2>3, Zenon DEF InOrder
<1>5. CASE Cell(Caller)
  <2>1. CASE CellRuns(Caller) \/ FanOut(Caller)
    <3>1. pc[Caller] \in Busy /\ UNCHANGED <<held, next, results, mode>>
      BY <2>1, Zenon DEF CellRuns, FanOut, callVars, Busy
    <3>2. QED
      BY <3>1, Zenon DEF InOrder
  <2>2. CASE CellPanicked(Caller)
    <3>1. pc'[Caller] = "unwinding"
      BY <1>a, <2>2, ThreadFacts, Zenon DEF CellPanicked, Goto
    <3>2. QED
      BY <3>1, Zenon DEF InOrder, Busy
  <2>3. QED
    BY <1>5, <2>1, <2>2, Zenon DEF Cell
<1>6. CASE Spawn \/ SpawnFails \/ AllSpawned \/ SetStart \/ NotifyAll
  <2>1. pc[Caller] \in {"spawn", "signal", "notify"} /\ mode' = mode
    BY <1>6, Zenon DEF Spawn, SpawnFails, AllSpawned, SetStart, NotifyAll, callVars
  <2>2. QED
    BY <2>1, Zenon DEF InOrder, Discipline
<1>7. CASE CallerDrained \/ Join \/ Panics
  <2>1. pc'[Caller] \in {"join", "returned", "panicked"}
    BY <1>7, <1>a, ThreadFacts, Zenon DEF CallerDrained, Join, Panics, Goto
  <2>2. QED
    BY <2>1, Zenon DEF InOrder, Busy
<1>8. CASE Finished \/ UNCHANGED vars
  <2>1. UNCHANGED <<pc, held, next, results, mode>>
    BY <1>8, Zenon DEF Finished, vars, callVars
  <2>2. QED
    BY <2>1, Zenon DEF InOrder
<1>9. \A t \in Threads : t = Caller \/ t \in Workers
  BY ThreadFacts, SMT DEF Threads, Workers, Caller
<1>10. QED
  BY <1>1, <1>2, <1>3, <1>4, <1>5, <1>6, <1>7, <1>8, <1>9, Zenon DEF Next, CallerStep

\* When the last driver is joined and none panicked, every cell has its result.
LEMMA JoinedIsComplete ==
  ASSUME Discipline, Accounted, Progress, pc[Caller] = "join", DriversEnded, NobodyPanicked
  PROVE  RangeOf(results) = 1..n /\ SortedResults = [c \in 1..n |-> c]
<1>1. next \in Nat /\ n \in Nat /\ results \in Seq(Nat) /\ 1 \in Workers
  BY ThreadFacts, SMT DEF Discipline, Progress, Numbered, Workers
<1>2. next > n
  <2>1. CASE start = "Run" /\ spawned >= 1
    <3>1. pc[1] = "gone"
      BY <1>1, <2>1, Zenon DEF Progress, Gate, DriversEnded, NobodyPanicked, Ended
    <3>2. QED
      BY <1>1, <2>1, <3>1, Zenon DEF Progress, Gate
  <2>2. QED
    BY <2>1, Zenon DEF Progress, Gate
<1>3. \A t \in Threads : t = Caller \/ t \in Workers
  BY ThreadFacts, SMT DEF Threads, Workers, Caller
<1>4. \A t \in Threads : held[t] = 0 /\ pc[t] \notin {"panicked", "unwinding"}
  BY <1>3, Zenon DEF Discipline, DriversEnded, NobodyPanicked, Ended, Busy
<1>5. \A c \in 1..n : c \in 1..(next - 1) /\ c # 0
  BY <1>1, <1>2, SMT
<1>6. RangeOf(results) = 1..n
  <2>1. \A c \in 1..n : c \in RangeOf(results)
    BY <1>4, <1>5, Zenon DEF Accounted, CellsRunOnce
  <2>2. QED
    BY <2>1, Zenon DEF Progress, Numbered
<1>7. \A i, j \in 1..Len(results) : results[i] = results[j] => i = j
  BY Zenon DEF Accounted, CellsRunOnce
<1>8. /\ results \in [1..Len(results) -> Nat]
      /\ \A i \in 1..Len(results) : results[i] \in 1..n
      /\ \A c \in 1..n : \E i \in 1..Len(results) : results[i] = c
  BY <1>1, <1>6, LenProperties, Zenon DEF RangeOf
<1>9. /\ SortedResults \in [1..n -> Nat]
      /\ \A i \in 1..Len(results) : SortedResults[results[i]] = results[i]
  <2>1. /\ SortByKey(results, results) \in [1..n -> Nat]
        /\ \A i \in 1..Len(results) : SortByKey(results, results)[results[i]] = results[i]
    <3>1. Ranks(results, Len(results), n)
      BY <1>7, <1>8, Zenon DEF Ranks
    <3>2. QED
      BY <1>1, <3>1, SortPlaces
  <2>2. QED
    BY <2>1 DEF SortedResults
<1>10. \A c \in 1..n : SortedResults[c] = c
  BY <1>8, <1>9, Zenon
<1>11. QED
  BY <1>6, <1>9, <1>10, Zenon

LEMMA SerialIsComplete ==
  ASSUME Discipline, Progress, pc[Caller] = "drain", next > n, mode # "drivers"
  PROVE  RangeOf(results) = 1..n /\ results = [c \in 1..n |-> c]
<1>1. next \in Nat /\ n \in Nat /\ results \in Seq(Nat) /\ held[Caller] = 0 /\ next <= n + 1
  BY ThreadFacts, Zenon DEF Discipline, Progress, Numbered, Busy
<1>2. Len(results) = next - 1 /\ \A i \in 1..Len(results) : results[i] = i
  BY <1>1, Zenon DEF Progress, InOrder
<1>3. Len(results) = n
  BY <1>1, <1>2, SMT
<1>4. results = [c \in 1..Len(results) |-> results[c]]
  BY <1>1, LenProperties, Zenon
<1>5. QED
  BY <1>2, <1>3, <1>4, Zenon DEF RangeOf

Outcome == IF pc[Caller] \in {"returned", "panicked"} THEN pc[Caller] ELSE "running"

\* Pushing the result of the cell a thread holds completes that cell.
LEMMA PushCompletes ==
  ASSUME Discipline, Accounted, Numbered, NEW t \in Threads, pc[t] = "push",
         results' = Append(results, held[t]), UNCHANGED <<n, output>>,
         Outcome = "running", Outcome' = "running"
  PROVE  Map!Complete
<1>1. held[t] \in Nat /\ held[t] # 0 /\ held[t] <= n /\ n \in Nat /\ results \in Seq(Nat)
  BY Zenon DEF Discipline, Numbered, Busy
<1>2. held[t] \in 1..n
  BY <1>1, SMT
<1>3. held[t] \notin RangeOf(results)
  BY <1>1, Zenon DEF Accounted, CellsRunOnce
<1>4. RangeOf(results') = RangeOf(results) \cup {held[t]}
  BY <1>1, RangeFacts, Zenon
<1>5. (RangeOf(results))' = RangeOf(results')
  BY Zenon DEF RangeOf
<1>6. QED
  BY <1>2, <1>3, <1>4, <1>5, Zenon DEF Map!Complete, Outcome

\* Every step of run_cells is a step of the map, or none that its caller sees.
LEMMA MapStep ==
  ASSUME Discipline, Accounted, HeldBack, Progress, [Next]_vars
  PROVE  [Map!Next]_Map!vars
<1>a. pc \in [Threads -> Places] /\ (RangeOf(results))' = RangeOf(results')
  BY Zenon DEF Discipline, RangeOf
<1>b. ASSUME UNCHANGED <<n, results, output>>, Outcome' = Outcome PROVE UNCHANGED Map!vars
  BY <1>b, Zenon DEF Map!vars, RangeOf, Outcome
<1>1. CASE Call
  <2>1. pc[Caller] = "returned" /\ n' \in 0..MaxCells /\ results' = <<>> /\ output' = <<>>
        /\ (pc' = [pc EXCEPT ![Caller] = "drain"]
            \/ pc' = [t \in Threads |-> IF t = Caller THEN "spawn" ELSE "none"])
    BY <1>1, Zenon DEF Call
  <2>2. pc'[Caller] \in {"drain", "spawn"}
    BY <1>a, <2>1, ThreadFacts, Zenon
  <2>3. \A i \in 0..MaxCells : i \in Nat
    BY SchedulerAssumption, SMT
  <2>4. RangeOf(<<>>) = {}
    BY SMT DEF RangeOf
  <2>5. Map!Start
    BY <1>a, <2>1, <2>2, <2>3, <2>4, Zenon DEF Map!Start
  <2>6. QED
    BY <2>5, Zenon DEF Map!Next
<1>2. CASE Spawn \/ SpawnFails \/ AllSpawned \/ SetStart \/ NotifyAll \/ CallerTakes
  <2>1. /\ UNCHANGED <<n, results, output>>
        /\ pc[Caller] \in {"spawn", "signal", "notify", "drain"}
    BY <1>2, Zenon
       DEF Spawn, SpawnFails, AllSpawned, SetStart, NotifyAll, CallerTakes, callVars
  <2>2. CASE Spawn
    <3>1. spawned + 1 # Caller
      BY <2>2, SMT DEF Spawn, Discipline, Caller
    <3>2. pc'[Caller] = pc[Caller]
      BY <1>a, <2>2, <3>1, ThreadFacts, Zenon DEF Spawn, Goto
    <3>3. QED
      BY <1>b, <2>1, <3>2, Zenon DEF Outcome
  <2>3. CASE SpawnFails \/ AllSpawned \/ SetStart \/ NotifyAll \/ CallerTakes
    <3>1. pc'[Caller] \in {"signal", "notify", "drain", "join", "run"}
      BY <1>a, <2>3, ThreadFacts, Zenon
         DEF SpawnFails, AllSpawned, SetStart, NotifyAll, CallerTakes, Goto
    <3>2. QED
      BY <1>b, <2>1, <3>1, Zenon DEF Outcome
  <2>4. QED
    BY <1>2, <2>2, <2>3
<1>3. CASE CallerFinishes
  <2>1. /\ pc[Caller] = "push" /\ pc'[Caller] = "drain" /\ UNCHANGED <<n, output>>
        /\ results' = Append(results, held[Caller])
    BY <1>3, <1>a, ThreadFacts, Zenon DEF CallerFinishes, callVars, Goto
  <2>2. QED
    BY <2>1, ThreadFacts, PushCompletes, Zenon DEF Progress, Outcome, Map!Next
<1>4. CASE CallerDrained
  <2>1. pc[Caller] = "drain" /\ next > n /\ UNCHANGED <<n, results>>
    BY <1>4, Zenon DEF CallerDrained, callVars
  <2>2. CASE mode = "drivers"
    <3>1. pc'[Caller] = "join" /\ UNCHANGED output
      BY <1>4, <1>a, <2>2, ThreadFacts, Zenon DEF CallerDrained, Goto
    <3>2. QED
      BY <1>b, <2>1, <3>1, Zenon DEF Outcome
  <2>3. CASE mode # "drivers"
    <3>1. pc'[Caller] = "returned" /\ output' = results
      BY <1>4, <1>a, <2>3, ThreadFacts, Zenon DEF CallerDrained, Goto
    <3>2. RangeOf(results) = 1..n /\ results = [c \in 1..n |-> c]
      BY <2>1, <2>3, SerialIsComplete
    <3>3. Map!Return
      BY <1>a, <2>1, <3>1, <3>2, Zenon DEF Map!Return
    <3>4. QED
      BY <3>3, Zenon DEF Map!Next
  <2>4. QED
    BY <2>2, <2>3
<1>5. CASE Join
  <2>1. /\ pc[Caller] = "join" /\ pc'[Caller] = "returned" /\ DriversEnded /\ NobodyPanicked
        /\ UNCHANGED <<n, results>> /\ output' = SortedResults
    BY <1>5, <1>a, ThreadFacts, Zenon DEF Join, Goto, callVars
  <2>2. RangeOf(results) = 1..n /\ SortedResults = [c \in 1..n |-> c]
    BY <2>1, JoinedIsComplete
  <2>3. Map!Return
    BY <1>a, <2>1, <2>2, Zenon DEF Map!Return
  <2>4. QED
    BY <2>3, Zenon DEF Map!Next
<1>6. CASE Panics
  <2>1. /\ pc[Caller] \in {"join", "unwinding"} /\ pc'[Caller] = "panicked"
        /\ UNCHANGED <<n, results, output>>
    BY <1>6, <1>a, ThreadFacts, Zenon DEF Panics, Goto, callVars
  <2>2. Map!Panic
    BY <1>a, <2>1, Zenon DEF Map!Panic
  <2>3. QED
    BY <2>2, Zenon DEF Map!Next
<1>7. ASSUME NEW w \in Workers, Driver(w) PROVE [Map!Next]_Map!vars
  <2>1. /\ pc'[Caller] = pc[Caller] /\ UNCHANGED <<n, output>>
        /\ pc[w] \notin Ended
    BY <1>7, <1>a, ThreadFacts, Zenon
       DEF Driver, DriverLooks, MayRun, DriverPops, DriverLeaves, DriverPushes, Goto, callVars, Ended
  <2>2. CASE DriverPushes(w)
    <3>1. pc[Caller] \notin {"returned", "panicked"}
      BY <2>1, WithoutDrivers, Zenon
    <3>2. pc[w] = "push" /\ results' = Append(results, held[w])
      BY <2>2, Zenon DEF DriverPushes
    <3>3. QED
      BY <2>1, <3>1, <3>2, ThreadFacts, PushCompletes, Zenon DEF Progress, Outcome, Map!Next
  <2>3. CASE DriverLooks(w) \/ DriverPops(w) \/ DriverLeaves(w)
    <3>1. UNCHANGED results
      BY <2>3, Zenon DEF DriverLooks, MayRun, DriverPops, DriverLeaves
    <3>2. QED
      BY <1>b, <2>1, <3>1, Zenon DEF Outcome
  <2>4. QED
    BY <1>7, <2>2, <2>3, Zenon DEF Driver
<1>8. ASSUME NEW t \in Threads, Cell(t) PROVE [Map!Next]_Map!vars
  <2>1. UNCHANGED <<n, results, output>>
    BY <1>8, Zenon DEF Cell, CellRuns, FanOut, CellPanicked, callVars
  <2>2. \/ pc'[Caller] = pc[Caller]
        \/ pc[Caller] \in Busy /\ pc'[Caller] \in {"push", "fanout", "unwinding"}
    BY <1>8, <1>a, ThreadFacts, Zenon DEF Cell, CellRuns, FanOut, CellPanicked, Goto, Busy
  <2>3. QED
    BY <1>b, <2>1, <2>2, Zenon DEF Outcome, Busy
<1>9. CASE Finished \/ UNCHANGED vars
  <2>1. UNCHANGED <<pc, n, results, output>>
    BY <1>9, Zenon DEF Finished, vars, callVars
  <2>2. QED
    BY <1>b, <2>1, Zenon DEF Outcome
<1>10. QED
  BY <1>1, <1>2, <1>3, <1>4, <1>5, <1>6, <1>7, <1>8, <1>9, Zenon DEF Next, CallerStep

LEMMA StartsWell == Init => Accounted /\ HeldBack /\ Progress
<1> SUFFICES ASSUME Init PROVE Accounted /\ HeldBack /\ Progress
  OBVIOUS
<1>1. /\ results = <<>> /\ next = 1 /\ n = 0 /\ start = "Wait"
      /\ mode = "serial" /\ pc[Caller] = "returned" /\ \A t \in Threads : held[t] = 0
  BY ThreadFacts, Zenon DEF Init
<1>2. 1..Len(results) = {} /\ 1..(next - 1) = {} /\ RangeOf(results) = {}
  BY <1>1, SMT DEF RangeOf
<1>3. Accounted
  BY <1>1, <1>2, Zenon DEF Accounted, CellsRunOnce
<1>4. HeldBack
  BY ThreadFacts, Zenon DEF Init, HeldBack, AtWork, Busy
<1>5. Numbered
  <2>1. n \in Nat /\ next <= n + 1 /\ 0 <= n
    BY <1>1, SMT
  <2>2. QED
    BY <1>1, <1>2, <2>1, Zenon DEF Numbered
<1>6. Gate /\ InOrder
  BY <1>1, Zenon DEF Gate, InOrder, Busy
<1>7. QED
  BY <1>3, <1>4, <1>5, <1>6 DEF Progress

\* run_cells is an ordered parallel map: whatever the drivers, the spawns that
\* fail and the order in which cells end, a call that returns has run each cell
\* once and gives the results in input order.
THEOREM Implements == Spec => ImplementsMap
<1>1. Init => Discipline /\ Accounted /\ HeldBack /\ Progress /\ Map!Init
  <2>1. Init => Map!Init
    <3> SUFFICES ASSUME Init PROVE Map!Init
      OBVIOUS
    <3>1. results = <<>> /\ output = <<>> /\ pc[Caller] = "returned"
      BY ThreadFacts, Zenon DEF Init
    <3>2. RangeOf(results) = {}
      BY <3>1, SMT DEF RangeOf
    <3>3. QED
      BY <3>1, <3>2, Zenon DEF Init, Map!Init
  <2>2. QED
    BY <2>1, DisciplineInit, StartsWell
<1>2. Discipline /\ Accounted /\ HeldBack /\ Progress /\ [Next]_vars
        => Discipline' /\ Accounted' /\ HeldBack' /\ Progress'
  BY DisciplineStep, AccountedStep, HeldBackStep, NumberedStep, GateStep, InOrderStep
     DEF Progress
<1>3. Discipline /\ Accounted /\ HeldBack /\ Progress /\ [Next]_vars => [Map!Next]_Map!vars
  BY MapStep
<1>4. QED
  BY <1>1, <1>2, <1>3, PTL DEF Spec, ImplementsMap, Map!Spec
-----------------------------------------------------------------------------
(* The trace lanes.                                                         *)

Pos == Nat \ {0}
Kept == Len(lanes)
Full == Len(given)
\* Lanes moved into closures: one per driver, the driver that failed included.
Consumed == IF spawnFailed THEN spawned + 1 ELSE spawned
LaneFor(w) == IF Kept + w <= Full THEN given[Kept + w] ELSE 0

\* Who has come back: each driver that left with a lane, once.
GivenBack ==
  /\ \A i \in 1..Len(returned) :
       /\ returned[i][1] <= spawned /\ pc[returned[i][1]] = "gone"
       /\ returned[i][2] = LaneFor(returned[i][1])
  /\ \A i, j \in 1..Len(returned) : returned[i][1] = returned[j][1] => i = j
  /\ \A w \in Workers : pc[w] = "gone" /\ LaneFor(w) # 0 =>
       \E i \in 1..Len(returned) : returned[i][1] = w

\* While drivers run, the lanes the call was given are those it kept, those it
\* lent and those it has not handed out.
Lent ==
  /\ Kept <= Full /\ lanes = SubSeq(given, 1, Kept) /\ Full <= Kept + workers
  /\ available = SubSeq(given, Kept + Consumed + 1, Full)
  /\ spawnFailed => spawned < workers /\ pc[Caller] # "spawn"
  /\ \A w \in Workers : pc[w] \notin {"none", "gone", "panicked"} => lane[w] = LaneFor(w)
  /\ GivenBack

LaneTypes ==
  /\ lanes \in Seq(Pos) /\ given \in Seq(Pos) /\ available \in Seq(Pos)
  /\ returned \in Seq(Workers \X Pos) /\ lane \in [Workers -> Nat]

Underway == mode = "drivers" /\ pc[Caller] \notin {"returned", "panicked"}

LaneInv ==
  /\ LaneTypes /\ LanesComeBack
  /\ mode # "drivers" => lanes = given /\ ~spawnFailed
  /\ mode = "drivers" => \A w \in Workers : w <= spawned <=> pc[w] # "none"
  /\ Underway => Lent

LEMMA LaneSizes ==
  ASSUME Discipline, LaneTypes
  PROVE  /\ Kept \in Nat /\ Full \in Nat /\ spawned \in Nat /\ workers \in Nat
         /\ Consumed \in Nat /\ \A w \in Workers : w \in Pos /\ LaneFor(w) \in Nat
         /\ \A w \in Workers : LaneFor(w) # 0 <=> Kept + w <= Full
<1>1. Kept \in Nat /\ Full \in Nat
  BY LenProperties, Zenon DEF LaneTypes, Kept, Full
<1>2. spawned \in Nat /\ workers \in Nat /\ Consumed \in Nat
  BY SMT DEF Discipline, Consumed
<1>3. ASSUME NEW w \in Workers
      PROVE  w \in Pos /\ LaneFor(w) \in Nat /\ (LaneFor(w) # 0 <=> Kept + w <= Full)
  <2>1. w \in Pos
    BY ThreadFacts, SMT DEF Workers, Pos
  <2>2. CASE Kept + w <= Full
    <3>1. Kept + w \in 1..Len(given)
      BY <1>1, <2>1, <2>2, SMT DEF Full, Pos
    <3>2. given[Kept + w] \in Pos
      BY <3>1, ElementOfSeq, Zenon DEF LaneTypes
    <3>3. QED
      BY <2>1, <2>2, <3>2, Zenon DEF LaneFor, Pos
  <2>3. CASE ~(Kept + w <= Full)
    BY <2>1, <2>3, SMT DEF LaneFor
  <2>4. QED
    BY <2>2, <2>3
<1>4. QED
  BY <1>1, <1>2, <1>3, Zenon

\* Nobody leaves and nothing is given back; a driver may be added.
LEMMA GivenBackStays ==
  ASSUME Discipline, LaneTypes, GivenBack, UNCHANGED <<returned, lanes, given>>,
         spawned' = spawned \/ spawned' = spawned + 1,
         \A w \in Workers : pc'[w] = "gone" <=> pc[w] = "gone"
  PROVE  GivenBack'
<1>1. spawned \in Nat /\ Len(returned) \in Nat /\ returned' = returned
  BY LaneSizes, LenProperties, Zenon DEF LaneTypes
<1>2. \A w \in Workers : LaneFor(w)' = LaneFor(w)
  BY Zenon DEF LaneFor, Kept, Full
<1>3. ASSUME NEW i \in 1..Len(returned)
      PROVE  /\ returned[i][1] <= spawned' /\ pc'[returned[i][1]] = "gone"
             /\ returned[i][2] = LaneFor(returned[i][1])'
  <2>1. returned[i] \in Workers \X Pos
    BY ElementOfSeq, Zenon DEF LaneTypes
  <2>2. returned[i][1] \in Workers /\ returned[i][1] \in Nat
    BY <2>1, SMT DEF Workers
  <2>3. /\ returned[i][1] <= spawned /\ pc[returned[i][1]] = "gone"
        /\ returned[i][2] = LaneFor(returned[i][1])
    BY Zenon DEF GivenBack
  <2>4. returned[i][1] <= spawned'
    BY <1>1, <2>2, <2>3, SMT
  <2>5. pc'[returned[i][1]] = "gone"
    BY <2>2, <2>3, Zenon
  <2>6. LaneFor(returned[i][1])' = LaneFor(returned[i][1])
    BY <1>1, Zenon DEF LaneFor, Kept, Full
  <2>7. QED
    BY <2>3, <2>4, <2>5, <2>6, Zenon
<1>4. ASSUME NEW w \in Workers, pc'[w] = "gone", LaneFor(w)' # 0
      PROVE  \E i \in 1..Len(returned) : returned[i][1] = w
  BY <1>2, <1>4, Zenon DEF GivenBack
<1>5. \A i \in 1..Len(returned') :
        /\ returned'[i][1] <= spawned' /\ pc'[returned'[i][1]] = "gone"
        /\ returned'[i][2] = (LaneFor(returned[i][1]))'
  BY <1>1, <1>3
<1>6. QED
  BY <1>1, <1>4, <1>5, Zenon DEF GivenBack

\* A step that touches no lane, starts no driver and ends none.
LEMMA LaneStays ==
  ASSUME Discipline, LaneInv, UNCHANGED <<laneVars, mode, given, spawned, spawnFailed, workers>>,
         \A w \in Workers : /\ pc'[w] = "gone" <=> pc[w] = "gone"
                            /\ pc'[w] = "none" <=> pc[w] = "none"
                            /\ pc[w] = "panicked" => pc'[w] = "panicked",
         pc'[Caller] = "spawn" => pc[Caller] = "spawn",
         pc'[Caller] = "returned" => pc[Caller] = "returned" \/ mode # "drivers",
         Underway' => Underway
  PROVE  LaneInv'
<1>1. UNCHANGED <<lanes, available, lane, returned>>
  BY Zenon DEF laneVars
<1>2. LaneTypes'
  BY <1>1, Zenon DEF LaneInv, LaneTypes
<1>3. /\ Kept' = Kept /\ Full' = Full /\ Consumed' = Consumed
      /\ \A w \in Workers : LaneFor(w)' = LaneFor(w)
  BY <1>1, Zenon DEF Kept, Full, Consumed, LaneFor
<1>4. LanesComeBack'
  <2>1. CASE pc[Caller] = "returned"
    BY <1>1, <2>1, Zenon DEF LaneInv, LanesComeBack
  <2>2. CASE mode # "drivers"
    BY <1>1, <2>2, Zenon DEF LaneInv, LanesComeBack
  <2>3. QED
    BY <2>1, <2>2, Zenon DEF LanesComeBack
<1>5. ASSUME Underway' PROVE Lent'
  <2>1. Lent
    BY <1>5, Zenon DEF LaneInv
  <2>3. GivenBack'
    BY <1>1, <2>1, GivenBackStays, Zenon DEF LaneInv, Lent
  <2>4. \A w \in Workers : pc'[w] \notin {"none", "gone", "panicked"} => lane'[w] = LaneFor(w)'
    BY <1>1, <1>3, <2>1, Zenon DEF Lent
  <2>5. QED
    BY <1>1, <1>3, <2>1, <2>3, <2>4, Zenon DEF Lent
<1>6. QED
  BY <1>1, <1>2, <1>4, <1>5, Zenon DEF LaneInv

LEMMA LaneCall ==
  ASSUME Discipline, LaneInv, Call
  PROVE  LaneInv'
<1>a. pc \in [Threads -> Places] /\ LaneTypes /\ given' = lanes /\ spawnFailed' = FALSE
      /\ spawned' = 0 /\ returned' = <<>> /\ lane' = lane
  BY Zenon DEF Discipline, LaneInv, Call
<1>1. returned' \in Seq(Workers \X Pos)
  BY <1>a, EmptySeq, Zenon
<1>2. CASE /\ mode' # "drivers" /\ UNCHANGED <<lanes, available>>
           /\ pc' = [pc EXCEPT ![Caller] = "drain"]
  <2>1. LaneTypes'
    BY <1>a, <1>1, <1>2, Zenon DEF LaneTypes
  <2>2. pc'[Caller] = "drain"
    BY <1>a, <1>2, ThreadFacts, Zenon
  <2>3. QED
    BY <1>a, <1>2, <2>1, <2>2, Zenon DEF LaneInv, LanesComeBack, Underway
<1>3. ASSUME NEW m \in 0..MaxConcurrent, mode' = "drivers", n' \in 0..MaxCells,
             workers' = Least(Least(m, n'), width), TakeLanes(workers'),
             pc' = [t \in Threads |-> IF t = Caller THEN "spawn" ELSE "none"]
      PROVE  LaneInv'
  <2>1. workers' \in Nat
    BY <1>3, SchedulerAssumption, SMT DEF Least, Discipline
  <2>2. DEFINE len == Len(lanes)
               keep == IF len > workers' THEN len - workers' ELSE 0
  <2>3. len \in Nat /\ keep \in 0..len /\ len <= keep + workers'
    <3>1. len \in Nat
      BY <1>a, LenProperties, Zenon DEF LaneTypes
    <3>2. QED
      BY <2>1, <3>1, SMT
  <2>4. lanes' = SubSeq(lanes, 1, keep) /\ available' = SubSeq(lanes, keep + 1, len)
    BY <1>3, Zenon DEF TakeLanes
  <2> HIDE DEF keep, len
  <2>5. \A i \in 1..len : lanes[i] \in Pos
    BY <1>a, ElementOfSeq, Zenon DEF LaneTypes, len
  <2>6. lanes' \in Seq(Pos) /\ Len(lanes') = keep
    <3>1. 1 \in Int /\ keep \in Int /\ (\A i \in 1..keep : lanes[i] \in Pos)
          /\ (IF 1 <= keep THEN keep - 1 + 1 ELSE 0) = keep
      BY <2>3, <2>5, SMT
    <3>2. QED
      BY <2>4, <3>1, SubSeqProperties
  <2>7. available' \in Seq(Pos)
    <3>1. keep + 1 \in Int /\ len \in Int /\ \A i \in (keep + 1)..len : lanes[i] \in Pos
      BY <2>3, <2>5, SMT
    <3>2. QED
      BY <2>4, <3>1, SubSeqProperties
  <2>8. LaneTypes'
    BY <1>a, <1>1, <2>6, <2>7, Zenon DEF LaneTypes
  <2>9. pc'[Caller] = "spawn" /\ \A w \in Workers : pc'[w] = "none"
    BY <1>3, ThreadFacts, Zenon
  <2>10. Kept' = keep /\ Full' = len /\ Consumed' = 0
    BY <1>a, <2>6, Zenon DEF Kept, Full, Consumed, len
  <2>11. GivenBack'
    <3>1. 1..Len(returned') = {}
      BY <1>a, SMT
    <3>2. QED
      BY <2>9, <3>1, Zenon DEF GivenBack
  <2>12. Lent'
    <3>1. keep <= len /\ keep + 0 + 1 = keep + 1
      BY <2>3, SMT
    <3>2. QED
      BY <1>a, <2>3, <2>4, <2>9, <2>10, <2>11, <3>1, Zenon DEF Lent, len
  <2>13. \A w \in Workers : ~(w <= spawned')
    BY <1>a, ThreadFacts, SMT DEF Workers
  <2>14. QED
    BY <1>3, <2>8, <2>9, <2>12, <2>13, Zenon DEF LaneInv, LanesComeBack
<1>4. QED
  BY <1>2, <1>3, Zenon DEF Call

LEMMA LaneTail ==
  ASSUME NEW s \in Seq(Pos), NEW a \in Nat \ {0}
  PROVE  LET rest == SubSeq(s, a, Len(s))
         IN  /\ a <= Len(s) => rest # <<>> /\ Head(rest) = s[a]
                               /\ Tail(rest) = SubSeq(s, a + 1, Len(s))
             /\ ~(a <= Len(s)) => rest = <<>> /\ SubSeq(s, a + 1, Len(s)) = <<>>
<1>1. Len(s) \in Nat /\ a \in Int /\ Len(s) \in Int /\ a + 1 \in Int
  BY LenProperties, SMT
<1>2. CASE a <= Len(s)
  <2>1. a \in 1..Len(s) /\ Len(s) \in a..Len(s)
    BY <1>1, <1>2, SMT
  <2>2. \A i \in a..Len(s) : s[i] \in Pos
    BY <1>1, ElementOfSeq, SMT
  <2>3. SubSeq(s, a, Len(s)) # <<>>
    <3>1. Len(SubSeq(s, a, Len(s))) = Len(s) - a + 1
      BY <1>1, <1>2, <2>2, SubSeqProperties
    <3>2. Len(s) - a + 1 # 0
      BY <1>1, <1>2, SMT
    <3>3. QED
      BY <3>1, <3>2, EmptySeq
  <2>4. QED
    BY <1>2, <2>1, <2>3, HeadTailOfSubSeq
<1>3. CASE ~(a <= Len(s))
  <2>1. Len(s) < a /\ Len(s) < a + 1
    BY <1>1, <1>3, SMT
  <2>2. QED
    BY <1>1, <1>3, <2>1, SubSeqEmpty
<1>4. QED
  BY <1>2, <1>3

\* The next lane goes into a closure, which the thread gets or which is dropped.
LEMMA LaneLends ==
  ASSUME Discipline, LaneInv, pc[Caller] = "spawn"
  PROVE  /\ mode = "drivers" /\ ~spawnFailed /\ Lent
         /\ NextLane = LaneFor(spawned + 1)
         /\ RestOfLanes = SubSeq(given, Kept + spawned + 2, Full)
         /\ RestOfLanes \in Seq(Pos)
<1>1. mode = "drivers" /\ Lent /\ ~spawnFailed
  BY Zenon DEF Discipline, LaneInv, Underway, Lent
<1>2. Kept \in Nat /\ Full \in Nat /\ spawned \in Nat
  BY LaneSizes, Zenon DEF LaneInv
<1>3. available = SubSeq(given, Kept + spawned + 1, Full)
  BY <1>1, Zenon DEF Lent, Consumed
<1>4. Kept + spawned + 1 \in Nat \ {0} /\ Kept + spawned + 1 + 1 = Kept + spawned + 2
      /\ Kept + (spawned + 1) = Kept + spawned + 1
  BY <1>2, SMT
<1>5. given \in Seq(Pos) /\ available \in Seq(Pos)
  BY Zenon DEF LaneInv, LaneTypes
<1>6. CASE Kept + spawned + 1 <= Full
  <2>1. /\ available # <<>> /\ Head(available) = given[Kept + spawned + 1]
        /\ Tail(available) = SubSeq(given, Kept + spawned + 2, Full)
    BY <1>3, <1>4, <1>5, <1>6, LaneTail DEF Full
  <2>2. Tail(available) \in Seq(Pos)
    BY <1>5, <2>1, HeadTailProperties
  <2>3. QED
    BY <1>1, <1>4, <1>6, <2>1, <2>2, Zenon DEF NextLane, RestOfLanes, LaneFor
<1>7. CASE ~(Kept + spawned + 1 <= Full)
  <2>1. available = <<>> /\ SubSeq(given, Kept + spawned + 2, Full) = <<>>
    BY <1>3, <1>4, <1>5, <1>7, LaneTail DEF Full
  <2>2. QED
    BY <1>1, <1>4, <1>5, <1>7, <2>1, Zenon DEF NextLane, RestOfLanes, LaneFor
<1>8. QED
  BY <1>6, <1>7

LEMMA LaneSpawns ==
  ASSUME Discipline, LaneInv, Spawn \/ SpawnFails
  PROVE  LaneInv'
<1>a. /\ pc[Caller] = "spawn" /\ pc \in [Threads -> Places] /\ spawned < workers
      /\ available' = RestOfLanes
      /\ UNCHANGED <<lanes, returned, mode, given, workers>>
  BY Zenon DEF Spawn, SpawnFails, callVars, Discipline
<1>b. /\ mode = "drivers" /\ ~spawnFailed /\ Lent /\ LaneTypes
      /\ NextLane = LaneFor(spawned + 1)
      /\ available' = SubSeq(given, Kept + spawned + 2, Full) /\ available' \in Seq(Pos)
  BY <1>a, LaneLends, Zenon DEF LaneInv
<1>c. /\ spawned \in Nat /\ Kept \in Nat /\ Full \in Nat /\ spawned + 1 \in Workers
      /\ LaneFor(spawned + 1) \in Nat
  <2>1. spawned \in Nat /\ Kept \in Nat /\ Full \in Nat
    BY <1>b, LaneSizes, Zenon
  <2>2. spawned + 1 \in Workers
    BY <1>a, <2>1, ThreadFacts, SMT DEF Discipline, Workers
  <2>3. QED
    BY <1>b, <2>1, <2>2, LaneSizes, Zenon
<1>d. Kept' = Kept /\ Full' = Full /\ \A w \in Workers : LaneFor(w)' = LaneFor(w)
  BY <1>a, Zenon DEF Kept, Full, LaneFor
<1>e. pc[spawned + 1] = "none" /\ \A w \in Workers : w <= spawned <=> pc[w] # "none"
  <2>1. ~(spawned + 1 <= spawned)
    BY <1>c, SMT
  <2>2. QED
    BY <1>b, <1>c, <2>1, Zenon DEF LaneInv
<1>1. CASE Spawn
  <2>1. /\ spawned' = spawned + 1 /\ lane' = [lane EXCEPT ![spawned + 1] = LaneFor(spawned + 1)]
        /\ pc' = [pc EXCEPT ![spawned + 1] = "start"] /\ spawnFailed' = spawnFailed
    BY <1>1, <1>b, Zenon DEF Spawn, Goto
  <2>2. /\ lane' \in [Workers -> Nat] /\ lane'[spawned + 1] = LaneFor(spawned + 1)
        /\ \A w \in Workers : w # spawned + 1 => lane'[w] = lane[w]
    BY <1>b, <1>c, <2>1, Zenon DEF LaneTypes
  <2>3. /\ pc'[spawned + 1] = "start" /\ pc'[Caller] = "spawn"
        /\ \A w \in Workers : w # spawned + 1 => pc'[w] = pc[w]
    BY <1>a, <1>c, <2>1, ThreadFacts, Zenon
  <2>4. LaneTypes'
    BY <1>a, <1>b, <2>2, Zenon DEF LaneTypes
  <2>5. Consumed' = spawned + 1 /\ Kept + (spawned + 1) + 1 = Kept + spawned + 2
    BY <1>b, <1>c, <2>1, SMT DEF Consumed
  <2>6. \A w \in Workers : w <= spawned + 1 <=> w <= spawned \/ w = spawned + 1
    BY <1>c, SMT DEF Workers
  <2>7. GivenBack'
    BY <1>a, <1>b, <1>e, <2>1, <2>3, GivenBackStays, Zenon DEF Lent
  <2>8. \A w \in Workers : pc'[w] \notin {"none", "gone", "panicked"} => lane'[w] = LaneFor(w)'
    BY <1>b, <1>c, <1>d, <2>2, <2>3, Zenon DEF Lent
  <2>9. Lent'
    BY <1>a, <1>b, <1>d, <2>1, <2>5, <2>7, <2>8, Zenon DEF Lent
  <2>10. \A w \in Workers : w <= spawned' <=> pc'[w] # "none"
    BY <1>c, <1>e, <2>1, <2>3, <2>6, Zenon
  <2>11. QED
    BY <1>a, <1>b, <2>3, <2>4, <2>9, <2>10, Zenon DEF LaneInv, LanesComeBack
<1>2. CASE SpawnFails
  <2>1. /\ pc' = [pc EXCEPT ![Caller] = "signal"] /\ spawnFailed' = TRUE
        /\ UNCHANGED <<lane, spawned>>
    BY <1>2, Zenon DEF SpawnFails, Goto
  <2>2. pc'[Caller] = "signal" /\ \A w \in Workers : pc'[w] = pc[w]
    BY <1>a, <2>1, ThreadFacts, Zenon
  <2>3. LaneTypes'
    BY <1>a, <1>b, <2>1, Zenon DEF LaneTypes
  <2>4. Consumed' = spawned + 1 /\ Kept + (spawned + 1) + 1 = Kept + spawned + 2
    BY <1>b, <1>c, <2>1, SMT DEF Consumed
  <2>5. GivenBack'
    BY <1>a, <1>b, <2>1, <2>2, GivenBackStays, Zenon DEF Lent
  <2>6. \A w \in Workers : pc'[w] \notin {"none", "gone", "panicked"} => lane'[w] = LaneFor(w)'
    BY <1>b, <1>d, <2>1, <2>2, Zenon DEF Lent
  <2>7. Lent'
    BY <1>a, <1>b, <1>d, <2>1, <2>2, <2>4, <2>5, <2>6, Zenon DEF Lent
  <2>8. QED
    BY <1>a, <1>b, <1>e, <2>1, <2>2, <2>3, <2>7, Zenon DEF LaneInv, LanesComeBack
<1>3. QED
  BY <1>1, <1>2

\* A driver unbinds its lane and gives it back.
LEMMA LaneLeaves ==
  ASSUME Discipline, LaneInv, NEW w \in Workers,
         pc[w] \notin {"none", "gone", "panicked"}, Goto(w, "gone"),
         lane' = [lane EXCEPT ![w] = 0],
         returned' = IF lane[w] = 0 THEN returned ELSE Append(returned, <<w, lane[w]>>),
         UNCHANGED <<lanes, available, mode, given, spawned, spawnFailed, workers>>
  PROVE  LaneInv'
<1>a. pc \in [Threads -> Places] /\ LaneTypes
  BY Zenon DEF Discipline, LaneInv
<1>b. mode = "drivers" /\ pc[Caller] \notin {"returned", "panicked"}
  <2>1. pc[w] \in Ended => pc[w] = "none" \/ pc[w] = "gone" \/ pc[w] = "panicked"
    BY Zenon DEF Ended
  <2>2. QED
    BY <2>1, WithoutDrivers, Zenon
<1>c. Lent /\ w <= spawned
  BY <1>b, Zenon DEF LaneInv, Underway
<1>d. /\ pc'[w] = "gone" /\ pc'[Caller] = pc[Caller]
      /\ \A u \in Workers : u # w => pc'[u] = pc[u]
  BY <1>a, ThreadFacts, Zenon DEF Goto
<1>e. /\ Kept' = Kept /\ Full' = Full /\ Consumed' = Consumed
      /\ \A u \in Workers : LaneFor(u)' = LaneFor(u)
  BY Zenon DEF Kept, Full, Consumed, LaneFor
<1>1. lane[w] = LaneFor(w) /\ LaneFor(w) \in Nat
  BY <1>a, <1>c, LaneSizes, Zenon DEF Lent
<1>2. lane' \in [Workers -> Nat] /\ \A u \in Workers : u # w => lane'[u] = lane[u]
  BY <1>a, Zenon DEF LaneTypes
<1>3. \A i \in 1..Len(returned) :
        /\ returned[i][1] \in Workers /\ returned[i][1] # w
        /\ returned[i][1] <= spawned /\ pc'[returned[i][1]] = "gone"
        /\ returned[i][2] = LaneFor(returned[i][1])
  <2>1. \A i \in 1..Len(returned) : returned[i] \in Workers \X Pos
    BY <1>a, ElementOfSeq, Zenon DEF LaneTypes
  <2>2. \A i \in 1..Len(returned) : returned[i][1] \in Workers
    BY <2>1, SMT
  <2>3. \A i \in 1..Len(returned) :
          /\ returned[i][1] <= spawned /\ pc[returned[i][1]] = "gone"
          /\ returned[i][2] = LaneFor(returned[i][1])
    BY <1>c, Zenon DEF Lent, GivenBack
  <2>4. QED
    BY <1>d, <2>2, <2>3, Zenon
<1>4. ASSUME lane[w] = 0 PROVE GivenBack' /\ LaneTypes'
  <2>1. returned' = returned
    BY <1>4
  <2>2. \A i \in 1..Len(returned) : LaneFor(returned[i][1])' = LaneFor(returned[i][1])
    BY <2>1, Zenon DEF LaneFor, Kept, Full
  <2>3. \A u \in Workers : pc'[u] = "gone" /\ LaneFor(u) # 0 =>
          \E i \in 1..Len(returned) : returned[i][1] = u
    BY <1>1, <1>4, <1>c, <1>d, ZenonT(40) DEF Lent, GivenBack
  <2>4. \A i, j \in 1..Len(returned) : returned[i][1] = returned[j][1] => i = j
    BY <1>c, Zenon DEF Lent, GivenBack
  <2>5. GivenBack'
    <3>1. \A i \in 1..Len(returned') :
            /\ returned'[i][1] <= spawned' /\ pc'[returned'[i][1]] = "gone"
            /\ returned'[i][2] = (LaneFor(returned[i][1]))'
      BY <1>3, <2>1, <2>2
    <3>2. \A u \in Workers : pc'[u] = "gone" /\ LaneFor(u)' # 0 =>
            \E i \in 1..Len(returned') : returned'[i][1] = u
      BY <1>e, <2>1, <2>3, Zenon
    <3>3. \A i, j \in 1..Len(returned') : returned'[i][1] = returned'[j][1] => i = j
      BY <2>1, <2>4, Zenon
    <3>4. QED
      BY <3>1, <3>2, <3>3, Zenon DEF GivenBack
  <2>6. LaneTypes'
    BY <1>a, <1>2, <2>1, Zenon DEF LaneTypes
  <2>7. QED
    BY <2>5, <2>6
<1>5. ASSUME lane[w] # 0 PROVE GivenBack' /\ LaneTypes'
  <2>1. /\ returned' = Append(returned, <<w, lane[w]>>) /\ <<w, lane[w]>> \in Workers \X Pos
    BY <1>1, <1>5, SMT DEF Pos
  <2>2. /\ returned' \in Seq(Workers \X Pos) /\ Len(returned') = Len(returned) + 1
        /\ \A i \in 1..Len(returned) : returned'[i] = returned[i]
        /\ returned'[Len(returned) + 1] = <<w, lane[w]>> /\ Len(returned) \in Nat
    <3>1. returned \in Seq(Workers \X Pos)
      BY <1>a DEF LaneTypes
    <3>2. QED
      BY <2>1, <3>1, AppendProperties, LenProperties
  <2>3. 1..Len(returned') = (1..Len(returned)) \cup {Len(returned) + 1}
        /\ \A i \in 1..Len(returned) : i # Len(returned) + 1
    BY <2>2, SMT
  <2>4. returned'[Len(returned) + 1][1] = w /\ returned'[Len(returned) + 1][2] = lane[w]
    <3>1. <<w, lane[w]>>[1] = w /\ <<w, lane[w]>>[2] = lane[w]
      BY SMT
    <3>2. QED
      BY <2>2, <3>1, Zenon
  <2>5. \A i \in 1..Len(returned') : returned'[i][1] \in Workers
    BY <1>3, <2>2, <2>3, <2>4, Zenon
  <2>6. ASSUME NEW i \in 1..Len(returned')
        PROVE  /\ returned'[i][1] <= spawned' /\ pc'[returned'[i][1]] = "gone"
               /\ returned'[i][2] = (LaneFor(returned[i][1]))'
    <3>1. (LaneFor(returned[i][1]))' = LaneFor(returned'[i][1])
      BY Zenon DEF LaneFor, Kept, Full
    <3>2. CASE i \in 1..Len(returned)
      BY <1>3, <2>2, <3>1, <3>2, Zenon
    <3>3. CASE i = Len(returned) + 1
      BY <1>1, <1>c, <1>d, <2>4, <3>1, <3>3, Zenon
    <3>4. QED
      BY <2>3, <3>2, <3>3, Zenon
  <2>7. ASSUME NEW i \in 1..Len(returned'), NEW j \in 1..Len(returned'),
               returned'[i][1] = returned'[j][1]
        PROVE  i = j
    <3>1. \A k, l \in 1..Len(returned) : returned[k][1] = returned[l][1] => k = l
      BY <1>c, Zenon DEF Lent, GivenBack
    <3>2. CASE i = Len(returned) + 1 /\ j = Len(returned) + 1
      BY <3>2
    <3>3. CASE i \in 1..Len(returned) /\ j \in 1..Len(returned)
      BY <2>2, <2>7, <3>1, <3>3, Zenon
    <3>4. CASE i \in 1..Len(returned) /\ j = Len(returned) + 1
      BY <1>3, <2>2, <2>4, <2>7, <3>4, Zenon
    <3>5. CASE i = Len(returned) + 1 /\ j \in 1..Len(returned)
      BY <1>3, <2>2, <2>4, <2>7, <3>5, Zenon
    <3>6. QED
      BY <2>3, <3>2, <3>3, <3>4, <3>5, Zenon
  <2>8. ASSUME NEW u \in Workers, pc'[u] = "gone", LaneFor(u)' # 0
        PROVE  \E i \in 1..Len(returned') : returned'[i][1] = u
    <3>1. CASE u = w
      BY <2>3, <2>4, <3>1, Zenon
    <3>2. CASE u # w
      <4>1. PICK i \in 1..Len(returned) : returned[i][1] = u
        BY <1>c, <1>d, <1>e, <2>8, <3>2, Zenon DEF Lent, GivenBack
      <4>2. QED
        BY <2>2, <2>3, <4>1, Zenon
    <3>3. QED
      BY <3>1, <3>2
  <2>9. GivenBack'
    BY <2>6, <2>7, <2>8, Zenon DEF GivenBack
  <2>10. LaneTypes'
    BY <1>a, <1>2, <2>2, Zenon DEF LaneTypes
  <2>11. QED
    BY <2>9, <2>10
<1>6. GivenBack' /\ LaneTypes'
  BY <1>4, <1>5
<1>7. \A u \in Workers : pc'[u] \notin {"none", "gone", "panicked"} => lane'[u] = LaneFor(u)'
  BY <1>2, <1>c, <1>d, <1>e, Zenon DEF Lent
<1>8. Lent'
  BY <1>6, <1>7, <1>c, <1>d, <1>e, Zenon DEF Lent
<1>9. \A u \in Workers : u <= spawned' <=> pc'[u] # "none"
  BY <1>b, <1>d, Zenon DEF LaneInv
<1>10. QED
  BY <1>6, <1>8, <1>9, <1>b, <1>d, Zenon DEF LaneInv, LanesComeBack

\* A driver panics and drops the lane it had.
LEMMA LanePanics ==
  ASSUME Discipline, LaneInv, NEW w \in Workers, pc[w] = "run", Goto(w, "panicked"),
         lane' = [lane EXCEPT ![w] = 0],
         UNCHANGED <<lanes, available, returned, mode, given, spawned, spawnFailed, workers>>
  PROVE  LaneInv'
<1>a. pc \in [Threads -> Places] /\ LaneTypes
  BY Zenon DEF Discipline, LaneInv
<1>b. mode = "drivers" /\ pc[Caller] \notin {"returned", "panicked"}
  BY WithoutDrivers, Zenon DEF Ended
<1>c. Lent
  BY <1>b, Zenon DEF LaneInv, Underway
<1>d. /\ pc'[w] = "panicked" /\ pc'[Caller] = pc[Caller]
      /\ \A u \in Workers : u # w => pc'[u] = pc[u]
  BY <1>a, ThreadFacts, Zenon DEF Goto
<1>e. /\ Kept' = Kept /\ Full' = Full /\ Consumed' = Consumed
      /\ \A u \in Workers : LaneFor(u)' = LaneFor(u)
  BY Zenon DEF Kept, Full, Consumed, LaneFor
<1>1. lane' \in [Workers -> Nat] /\ \A u \in Workers : u # w => lane'[u] = lane[u]
  BY <1>a, Zenon DEF LaneTypes
<1>2. LaneTypes'
  BY <1>a, <1>1, Zenon DEF LaneTypes
<1>3. \A u \in Workers : pc'[u] = "gone" <=> pc[u] = "gone"
  BY <1>d, Zenon
<1>4. GivenBack'
  BY <1>a, <1>c, <1>3, GivenBackStays, Zenon DEF Lent
<1>5. \A u \in Workers : pc'[u] \notin {"none", "gone", "panicked"} => lane'[u] = LaneFor(u)'
  BY <1>1, <1>c, <1>d, <1>e, Zenon DEF Lent
<1>6. Lent'
  BY <1>4, <1>5, <1>c, <1>d, <1>e, Zenon DEF Lent
<1>7. \A u \in Workers : u <= spawned' <=> pc'[u] # "none"
  BY <1>b, <1>d, Zenon DEF LaneInv
<1>8. QED
  BY <1>2, <1>6, <1>7, <1>b, <1>d, Zenon DEF LaneInv, LanesComeBack

LEMMA SliceOf ==
  ASSUME NEW s \in Seq(Pos), NEW a \in Nat, NEW c \in Nat, a + c <= Len(s)
  PROVE  LET part == SubSeq(s, a + 1, a + c)
         IN  part \in Seq(Pos) /\ Len(part) = c /\ \A i \in 1..c : part[i] = s[a + i]
<1>1. ASSUME NEW lo \in Int, NEW hi \in Int, lo = a + 1, hi = a + c
      PROVE  /\ SubSeq(s, lo, hi) \in Seq(Pos) /\ Len(SubSeq(s, lo, hi)) = c
             /\ \A i \in 1..c : SubSeq(s, lo, hi)[i] = s[a + i]
  <2>1. \A i \in lo..hi : i \in 1..Len(s)
    BY <1>1, LenProperties, SMT
  <2>2. \A i \in lo..hi : s[i] \in Pos
    BY <2>1, ElementOfSeq, Zenon
  <2>3. /\ SubSeq(s, lo, hi) \in Seq(Pos)
        /\ Len(SubSeq(s, lo, hi)) = IF lo <= hi THEN hi - lo + 1 ELSE 0
        /\ \A i \in 1..(hi - lo + 1) : SubSeq(s, lo, hi)[i] = s[lo + i - 1]
    BY <2>2, SubSeqProperties
  <2>4. /\ hi - lo + 1 = c /\ (IF lo <= hi THEN hi - lo + 1 ELSE 0) = c
        /\ \A i \in 1..c : lo + i - 1 = a + i
    BY <1>1, SMT
  <2>5. QED
    BY <2>3, <2>4, Zenon
<1>2. a + 1 \in Int /\ a + c \in Int
  BY SMT
<1>3. QED
  BY <1>1, <1>2, Zenon

\* How many drivers of a joined call had a lane.
WithLane == IF Full - Kept <= spawned THEN Full - Kept ELSE spawned

\* Sorting by worker puts the lanes of the drivers back in their order.
LEMMA LanesRestored ==
  ASSUME Discipline, LaneInv, Lent, mode = "drivers", DriversEnded, NobodyPanicked
  PROVE  /\ WithLane \in Nat /\ Kept + WithLane <= Full
         /\ Restored = SubSeq(given, Kept + 1, Kept + WithLane) \o available
<1> DEFINE m == WithLane
           key == FirstOf(returned)
           sorted == SortByKey(returned, key)
<1>a. /\ given \in Seq(Pos) /\ returned \in Seq(Workers \X Pos) /\ LaneTypes
  BY Zenon DEF LaneInv, LaneTypes
<1>b. /\ Kept \in Nat /\ Full \in Nat /\ spawned \in Nat /\ Kept <= Full
      /\ \A w \in Workers : LaneFor(w) # 0 <=> Kept + w <= Full
  BY LaneSizes, Zenon DEF LaneInv, Lent
<1>1. /\ m \in Nat /\ Kept + m <= Full
      /\ \A c \in Nat : c <= m <=> c <= spawned /\ Kept + c <= Full
  BY <1>b, SMT DEF WithLane
<1> HIDE DEF m
<1>2. \A c \in 1..m : c \in Workers /\ c <= spawned /\ Kept + c <= Full
  <2>1. spawned <= PoolWidth
    BY <1>b, ThreadFacts, SMT DEF Discipline
  <2>2. QED
    BY <1>1, <1>b, <2>1, ThreadFacts, SMT DEF Workers
<1>3. /\ Len(returned) \in Nat /\ key \in [1..Len(returned) -> Nat]
      /\ \A i \in 1..Len(returned) : key[i] = returned[i][1] /\ key[i] \in Workers
  <2>1. Len(returned) \in Nat /\ \A i \in 1..Len(returned) : returned[i] \in Workers \X Pos
    BY <1>a, ElementOfSeq, LenProperties, Zenon
  <2>2. \A i \in 1..Len(returned) : returned[i][1] \in Workers /\ returned[i][1] \in Nat
    BY <2>1, SMT DEF Workers
  <2>3. QED
    BY <2>1, <2>2, Zenon DEF FirstOf
<1>4. \A w \in Workers : w <= spawned => pc[w] = "gone"
  BY Zenon DEF LaneInv, DriversEnded, NobodyPanicked, Ended
<1>5. Ranks(key, Len(returned), m)
  <2>1. ASSUME NEW i \in 1..Len(returned) PROVE key[i] \in 1..m
    <3>1. /\ key[i] \in Workers /\ key[i] <= spawned /\ returned[i][2] = LaneFor(key[i])
      BY <1>3, ZenonT(40) DEF Lent, GivenBack
    <3>2. returned[i][2] # 0
      <4>1. returned[i] \in Workers \X Pos
        BY <1>a, ElementOfSeq, Zenon
      <4>2. QED
        BY <4>1, SMT DEF Pos
    <3>3. key[i] \in Nat /\ key[i] >= 1 /\ Kept + key[i] <= Full
      BY <1>b, <3>1, <3>2, SMT DEF Workers
    <3>4. QED
      BY <1>1, <3>1, <3>3, SMT
  <2>2. ASSUME NEW c \in 1..m PROVE \E i \in 1..Len(returned) : key[i] = c
    <3>1. c \in Workers /\ pc[c] = "gone" /\ LaneFor(c) # 0
      BY <1>2, <1>4, <1>b, Zenon
    <3>2. PICK i \in 1..Len(returned) : returned[i][1] = c
      BY <3>1, Zenon DEF Lent, GivenBack
    <3>3. QED
      BY <1>3, <3>2, Zenon
  <2>3. \A i, j \in 1..Len(returned) : key[i] = key[j] => i = j
    BY <1>3, Zenon DEF Lent, GivenBack
  <2>4. QED
    BY <1>3, <2>1, <2>2, <2>3, Zenon DEF Ranks
<1> HIDE DEF key
<1>6. /\ sorted \in [1..m -> Workers \X Pos]
      /\ \A i \in 1..Len(returned) : sorted[key[i]] = returned[i]
  BY <1>1, <1>5, <1>a, SortPlaces
<1> HIDE DEF sorted
<1>7. Len(sorted) = m
  BY <1>1, <1>6, SeqOf
<1>8. \A c \in 1..m : sorted[c][2] = given[Kept + c] /\ sorted[c][2] \in Pos
  <2>1. SUFFICES ASSUME NEW c \in 1..m
                 PROVE  sorted[c][2] = given[Kept + c] /\ sorted[c][2] \in Pos
    OBVIOUS
  <2>2. PICK i \in 1..Len(returned) : key[i] = c
    BY <1>5, Zenon DEF Ranks
  <2>3. sorted[c] = returned[i] /\ returned[i][2] = LaneFor(c)
    <3>1. returned[i][1] = c /\ returned[i][2] = LaneFor(returned[i][1])
      BY <1>3, <2>2, Zenon DEF Lent, GivenBack
    <3>2. QED
      BY <1>6, <2>2, <3>1, Zenon
  <2>4. LaneFor(c) = given[Kept + c]
    BY <1>2, Zenon DEF LaneFor
  <2>5. sorted[c][2] \in Pos
    BY <1>6, SMT
  <2>6. QED
    BY <2>3, <2>4, <2>5, Zenon
<1>9. SecondOf(sorted) \in [1..m -> Pos] /\ \A c \in 1..m : SecondOf(sorted)[c] = given[Kept + c]
  BY <1>7, <1>8, Zenon DEF SecondOf
<1>10. SecondOf(sorted) \in Seq(Pos) /\ Len(SecondOf(sorted)) = m
  BY <1>1, <1>9, SeqOf
<1>11. LET part == SubSeq(given, Kept + 1, Kept + m)
       IN  /\ part \in Seq(Pos) /\ Len(part) = m
           /\ \A i \in 1..m : part[i] = given[Kept + i]
  BY <1>1, <1>a, <1>b, SliceOf DEF Full
<1>12. SecondOf(sorted) = SubSeq(given, Kept + 1, Kept + m)
  BY <1>9, <1>10, <1>11, SeqEqual
<1>13. QED
  BY <1>1, <1>12, Zenon DEF Restored, sorted, key, m

\* The slices of the lanes fit together again; a failed spawn may cost one.
LEMMA LaneJoins ==
  ASSUME Discipline, Progress, LaneInv, Join
  PROVE  LaneInv'
<1>a. /\ mode = "drivers" /\ pc[Caller] = "join" /\ DriversEnded /\ NobodyPanicked
      /\ lanes' = lanes \o Restored /\ available' = <<>> /\ returned' = <<>>
      /\ pc' = [pc EXCEPT ![Caller] = "returned"]
      /\ UNCHANGED <<mode, given, spawned, spawnFailed, lane>>
  BY Zenon DEF Progress, Gate, Join, Goto, callVars
<1>b. Lent /\ LaneTypes /\ pc \in [Threads -> Places]
  BY <1>a, Zenon DEF LaneInv, Underway, Discipline
<1>1. /\ WithLane \in Nat /\ Kept + WithLane <= Full
      /\ Restored = SubSeq(given, Kept + 1, Kept + WithLane) \o available
  BY <1>a, <1>b, LanesRestored
<1>2. /\ Kept \in Nat /\ Full \in Nat /\ spawned \in Nat /\ Kept <= Full
      /\ given \in Seq(Pos) /\ lanes \in Seq(Pos) /\ available \in Seq(Pos)
  BY <1>b, LaneSizes, Zenon DEF LaneTypes, Lent
<1>3. /\ SubSeq(given, Kept + 1, Kept + WithLane) \in Seq(Pos)
      /\ SubSeq(given, 1, Kept) \o SubSeq(given, Kept + 1, Kept + WithLane)
           = SubSeq(given, 1, Kept + WithLane)
  <2>1. SubSeq(given, Kept + 1, Kept + WithLane) \in Seq(Pos)
    BY <1>1, <1>2, SliceOf DEF Full
  <2>2. /\ 1 \in 1..(Len(given) + 1) /\ Kept \in (1 - 1)..Len(given)
        /\ Kept + WithLane \in Kept..Len(given)
    BY <1>1, <1>2, SMT DEF Full
  <2>3. QED
    BY <1>2, <2>1, <2>2, ConcatAdjacentSubSeq
<1>4. lanes' = SubSeq(given, 1, Kept + WithLane) \o available
  <2>1. lanes' = (lanes \o SubSeq(given, Kept + 1, Kept + WithLane)) \o available
    <3>1. \A x, y, z \in Seq(Pos) : (x \o y) \o z = x \o (y \o z)
      BY ConcatAssociative
    <3>2. QED
      BY <1>a, <1>1, <1>2, <1>3, <3>1, Zenon
  <2>2. QED
    BY <1>b, <1>3, <2>1, Zenon DEF Lent
<1>5. SubSeq(given, 1, Kept + WithLane) \in Seq(Pos)
  <2>1. SubSeq(given, 1, Kept) \in Seq(Pos) /\ SubSeq(given, Kept + 1, Kept + WithLane) \in Seq(Pos)
    BY <1>2, <1>3, <1>b, Zenon DEF Lent
  <2>2. SubSeq(given, 1, Kept) \o SubSeq(given, Kept + 1, Kept + WithLane) \in Seq(Pos)
    BY <2>1, ConcatProperties, Zenon
  <2>3. QED
    BY <1>3, <2>2, Zenon
<1>6. lanes' \in Seq(Pos)
  BY <1>2, <1>4, <1>5, ConcatProperties, Zenon
<1>7. available = SubSeq(given, Kept + Consumed + 1, Full)
  BY <1>b, Zenon DEF Lent
<1>8. ASSUME Full - Kept <= spawned PROVE LanesComeBack'
  <2>1. Kept + WithLane = Full /\ Full < Kept + Consumed + 1
        /\ Kept + Consumed + 1 \in Int /\ Full \in Int
    BY <1>2, <1>8, SMT DEF WithLane, Consumed
  <2>2. available = <<>>
    BY <1>7, <2>1, SubSeqEmpty
  <2>3. SubSeq(given, 1, Kept + WithLane) = given
    BY <1>2, <2>1, SubSeqFull DEF Full
  <2>4. lanes' = given
    BY <1>2, <1>4, <2>2, <2>3, ConcatEmptySeq
  <2>5. Len(given) > 0 => 1 \in 1..Len(given)
    BY <1>2, SMT DEF Full
  <2>6. QED
    BY <1>a, <2>4, <2>5, Zenon DEF LanesComeBack
<1>9. ASSUME ~(Full - Kept <= spawned) /\ ~spawnFailed PROVE LanesComeBack'
  <2>1. WithLane = spawned /\ Consumed = spawned
    BY <1>9, Zenon DEF WithLane, Consumed
  <2>2. /\ 1 \in 1..(Len(given) + 1) /\ Kept + spawned \in (1 - 1)..Len(given)
        /\ Full \in (Kept + spawned)..Len(given)
    BY <1>2, <1>9, SMT DEF Full
  <2>3. lanes' = SubSeq(given, 1, Full)
    BY <1>2, <1>4, <1>7, <2>1, <2>2, ConcatAdjacentSubSeq
  <2>4. lanes' = given
    BY <1>2, <2>3, SubSeqFull DEF Full
  <2>5. QED
    BY <1>9, <1>a, <2>4, Zenon DEF LanesComeBack
<1>10. ASSUME ~(Full - Kept <= spawned) /\ spawnFailed PROVE LanesComeBack'
  <2>1. WithLane = spawned /\ Consumed = spawned + 1
    BY <1>10, Zenon DEF WithLane, Consumed
  <2>2. DEFINE i == Kept + spawned + 1
  <2>3. /\ i \in 1..Len(given) /\ i - 1 = Kept + WithLane /\ i + 1 = Kept + Consumed + 1
    BY <1>2, <1>10, <2>1, SMT DEF Full
  <2> HIDE DEF i
  <2>4. lanes' = SubSeq(given, 1, i - 1) \o SubSeq(given, i + 1, Len(given))
    BY <1>4, <1>7, <2>3, Zenon DEF Full
  <2>5. Len(given) > 0
    BY <2>3, <1>2, SMT DEF Full
  <2>6. QED
    BY <1>10, <1>a, <2>3, <2>4, <2>5, Zenon DEF LanesComeBack
<1>11. LanesComeBack'
  BY <1>8, <1>9, <1>10
<1>12. LaneTypes'
  BY <1>a, <1>b, <1>6, EmptySeq, Zenon DEF LaneTypes
<1>13. pc'[Caller] = "returned" /\ \A w \in Workers : pc'[w] = pc[w]
  BY <1>a, <1>b, ThreadFacts, Zenon
<1>14. QED
  BY <1>a, <1>11, <1>12, <1>13, Zenon DEF LaneInv, Underway

\* A thread moves on and no lane is involved.
LEMMA LaneMoves ==
  ASSUME Discipline, LaneInv, NEW t \in Threads, NEW where, Goto(t, where),
         UNCHANGED <<laneVars, mode, given, spawned, spawnFailed, workers>>,
         pc[t] \notin {"none", "gone", "panicked", "returned"},
         where \notin {"none", "gone", "spawn"},
         where = "returned" => mode # "drivers"
  PROVE  LaneInv'
<1>1. /\ pc'[t] = where /\ \A u \in Threads : u # t => pc'[u] = pc[u]
  BY Zenon DEF Discipline, Goto
<1>2. \A w \in Workers : /\ pc'[w] = "gone" <=> pc[w] = "gone"
                         /\ pc'[w] = "none" <=> pc[w] = "none"
                         /\ pc[w] = "panicked" => pc'[w] = "panicked"
  BY <1>1, ThreadFacts, Zenon
<1>3. /\ pc'[Caller] = "spawn" => pc[Caller] = "spawn"
      /\ pc'[Caller] = "returned" => pc[Caller] = "returned" \/ mode # "drivers"
  BY <1>1, ThreadFacts, Zenon
<1>4. Underway' => Underway
  BY <1>1, ThreadFacts, Zenon DEF Underway
<1>5. QED
  BY <1>2, <1>3, <1>4, LaneStays

LEMMA LaneStep ==
  ASSUME Discipline, Progress, LaneInv, [Next]_vars
  PROVE  LaneInv'
<1>1. ASSUME Call PROVE LaneInv'
  BY <1>1, LaneCall
<1>2. ASSUME Spawn \/ SpawnFails PROVE LaneInv'
  BY <1>2, LaneSpawns
<1>3. ASSUME AllSpawned \/ SetStart PROVE LaneInv'
  <2>1. /\ pc[Caller] \in {"spawn", "signal"}
        /\ \E where \in {"signal", "notify"} : Goto(Caller, where)
        /\ UNCHANGED <<laneVars, mode, given, spawned, spawnFailed, workers>>
    BY <1>3, Zenon DEF AllSpawned, SetStart, callVars
  <2>2. QED
    BY <2>1, ThreadFacts, LaneMoves
<1>4. ASSUME NotifyAll PROVE LaneInv'
  <2>1. /\ pc[Caller] = "notify" /\ pc'[Caller] \in {"drain", "join"}
        /\ \A w \in Workers : pc'[w] = IF w \in Notified THEN "start" ELSE pc[w]
        /\ UNCHANGED <<laneVars, mode, given, spawned, spawnFailed, workers>>
    BY <1>4, ThreadFacts, Zenon DEF NotifyAll, callVars
  <2>2. \A w \in Workers : w \in Notified => pc[w] = "parked"
    BY Zenon DEF Notified, Parked
  <2>3. \A w \in Workers : /\ pc'[w] = "gone" <=> pc[w] = "gone"
                           /\ pc'[w] = "none" <=> pc[w] = "none"
                           /\ pc[w] = "panicked" => pc'[w] = "panicked"
    BY <2>1, <2>2, Zenon
  <2>4. Underway' => Underway
    BY <2>1, Zenon DEF Underway
  <2>5. pc'[Caller] # "spawn" /\ pc'[Caller] # "returned"
    BY <2>1, Zenon
  <2>6. QED
    BY <2>1, <2>3, <2>4, <2>5, LaneStays
<1>5. ASSUME CallerTakes \/ CallerFinishes PROVE LaneInv'
  <2>1. /\ pc[Caller] \in {"drain", "push"}
        /\ \E where \in {"run", "drain"} : Goto(Caller, where)
        /\ UNCHANGED <<laneVars, mode, given, spawned, spawnFailed, workers>>
    BY <1>5, Zenon DEF CallerTakes, CallerFinishes, callVars
  <2>2. QED
    BY <2>1, ThreadFacts, LaneMoves
<1>6. ASSUME CallerDrained PROVE LaneInv'
  <2>1. /\ pc[Caller] = "drain"
        /\ Goto(Caller, "join") \/ (Goto(Caller, "returned") /\ mode # "drivers")
        /\ UNCHANGED <<laneVars, mode, given, spawned, spawnFailed, workers>>
    BY <1>6, Zenon DEF CallerDrained, callVars
  <2>2. QED
    BY <2>1, ThreadFacts, LaneMoves
<1>7. ASSUME Join PROVE LaneInv'
  BY <1>7, LaneJoins
<1>8. ASSUME Panics PROVE LaneInv'
  <2>1. /\ pc[Caller] \in {"join", "unwinding"} /\ Goto(Caller, "panicked")
        /\ UNCHANGED <<laneVars, mode, given, spawned, spawnFailed, workers>>
    BY <1>8, Zenon DEF Panics, callVars
  <2>2. QED
    BY <2>1, ThreadFacts, LaneMoves
<1>9. ASSUME NEW w \in Workers, DriverLooks(w) PROVE LaneInv'
  <2>1. CASE start \in {"Wait", "Run"}
    <3>1. /\ pc[w] = "start"
          /\ \E where \in {"parked", "pop"} : Goto(w, where)
          /\ UNCHANGED <<laneVars, mode, given, spawned, spawnFailed, workers>>
      BY <1>9, <2>1, Zenon DEF DriverLooks, MayRun, laneVars, callVars
    <3>2. QED
      BY <3>1, ThreadFacts, LaneMoves
  <2>2. CASE start \notin {"Wait", "Run"}
    <3>1. /\ pc[w] = "start" /\ Goto(w, "gone") /\ lane' = [lane EXCEPT ![w] = 0]
          /\ returned' = IF lane[w] = 0 THEN returned ELSE Append(returned, <<w, lane[w]>>)
          /\ UNCHANGED <<lanes, available, mode, given, spawned, spawnFailed, workers>>
      BY <1>9, <2>2, Zenon DEF DriverLooks, MayRun, callVars
    <3>2. QED
      BY <3>1, LaneLeaves
  <2>3. QED
    BY <2>1, <2>2
<1>10. ASSUME NEW w \in Workers, DriverPops(w) \/ DriverPushes(w) PROVE LaneInv'
  <2>1. /\ pc[w] \in {"pop", "push"}
        /\ \E where \in {"run", "pop"} : Goto(w, where)
        /\ UNCHANGED <<laneVars, mode, given, spawned, spawnFailed, workers>>
    BY <1>10, Zenon DEF DriverPops, DriverPushes, callVars
  <2>2. QED
    BY <2>1, ThreadFacts, LaneMoves
<1>11. ASSUME NEW w \in Workers, DriverLeaves(w) PROVE LaneInv'
  <2>1. /\ pc[w] = "pop" /\ Goto(w, "gone") /\ lane' = [lane EXCEPT ![w] = 0]
        /\ returned' = IF lane[w] = 0 THEN returned ELSE Append(returned, <<w, lane[w]>>)
        /\ UNCHANGED <<lanes, available, mode, given, spawned, spawnFailed, workers>>
    BY <1>11, Zenon DEF DriverLeaves, callVars
  <2>2. QED
    BY <2>1, LaneLeaves
<1>12. ASSUME NEW t \in Threads, CellRuns(t) \/ FanOut(t) PROVE LaneInv'
  <2>1. /\ pc[t] \in {"run", "fanout"}
        /\ \E where \in {"push", "fanout"} : Goto(t, where)
        /\ UNCHANGED <<laneVars, mode, given, spawned, spawnFailed, workers>>
    BY <1>12, Zenon DEF CellRuns, FanOut, callVars
  <2>2. QED
    BY <2>1, LaneMoves
<1>13. ASSUME NEW t \in Threads, CellPanicked(t) PROVE LaneInv'
  <2>1. CASE t = Caller
    <3>1. /\ pc[t] = "run" /\ Goto(t, "unwinding")
          /\ UNCHANGED <<laneVars, mode, given, spawned, spawnFailed, workers>>
      BY <1>13, <2>1, Zenon DEF CellPanicked, laneVars, callVars
    <3>2. QED
      BY <3>1, LaneMoves
  <2>2. CASE t # Caller
    <3>1. t \in Workers
      BY <2>2, SMT DEF Threads, Workers, Caller
    <3>2. /\ pc[t] = "run" /\ Goto(t, "panicked") /\ lane' = [lane EXCEPT ![t] = 0]
          /\ UNCHANGED <<lanes, available, returned, mode, given, spawned, spawnFailed, workers>>
      BY <1>13, <2>2, Zenon DEF CellPanicked, callVars
    <3>3. QED
      BY <3>1, <3>2, LanePanics
  <2>3. QED
    BY <2>1, <2>2
<1>14. ASSUME Finished \/ UNCHANGED vars PROVE LaneInv'
  <2>1. UNCHANGED <<pc, laneVars, mode, given, spawned, spawnFailed, workers>>
    BY <1>14, Zenon DEF Finished, vars, callVars
  <2>2. Underway' => Underway
    BY <2>1, Zenon DEF Underway
  <2>3. QED
    BY <2>1, <2>2, LaneStays
<1>15. QED
  BY <1>1, <1>2, <1>3, <1>4, <1>5, <1>6, <1>7, <1>8, <1>9, <1>10, <1>11, <1>12, <1>13, <1>14,
     Zenon DEF Next, CallerStep, Driver, Cell

\* A call that has counted no defect so far lent every driver a lane, and both
\* events of every result reached one.
Traces ==
  /\ defects \in Nat /\ before \in Nat /\ before <= defects
  /\ mode \in {"reentrant", "serial", "drivers"}
  /\ traced \subseteq 1..n /\ UnboundIsCounted
  /\ pc[Caller] # "returned" =>
       /\ mode = "reentrant" => defects = before + n
       /\ mode = "serial" => RangeOf(results) \subseteq traced
       /\ mode = "drivers" /\ defects = before =>
            Kept + workers <= Full /\ RangeOf(results) \subseteq traced

LEMMA TracesStay ==
  ASSUME Traces, UNCHANGED <<defects, before, traced, n, mode, results, lanes, given, workers>>,
         pc'[Caller] = "returned" <=> pc[Caller] = "returned"
  PROVE  Traces'
<1>1. RangeOf(results)' = RangeOf(results) /\ Kept' = Kept /\ Full' = Full
  BY Zenon DEF RangeOf, Kept, Full
<1>2. UnboundIsCounted'
  BY Zenon DEF Traces, UnboundIsCounted
<1>3. QED
  BY <1>1, <1>2, Zenon DEF Traces

LEMMA TracesCall ==
  ASSUME Discipline, LaneInv, Traces, Call
  PROVE  Traces'
<1>a. /\ pc \in [Threads -> Places] /\ lanes \in Seq(Pos) /\ n' \in 0..MaxCells
      /\ traced' = {} /\ results' = <<>> /\ given' = lanes /\ before' = defects
  BY Zenon DEF Discipline, LaneInv, LaneTypes, Call
<1>b. /\ n' \in Nat /\ defects \in Nat /\ Len(lanes) \in Nat /\ RangeOf(results') = {}
  <2>1. n' \in Nat /\ Len(lanes) \in Nat
    BY <1>a, LenProperties, SchedulerAssumption, SMT
  <2>2. RangeOf(<<>>) = {}
    BY SMT DEF RangeOf
  <2>3. QED
    BY <1>a, <2>1, <2>2, Zenon DEF Traces
<1>1. ASSUME mode' = "reentrant", defects' = defects + n', pc' = [pc EXCEPT ![Caller] = "drain"]
      PROVE  Traces'
  <2>1. pc'[Caller] = "drain"
    BY <1>1, <1>a, ThreadFacts, Zenon
  <2>2. defects' \in Nat /\ defects <= defects'
    <3>1. \A a, b \in Nat : a + b \in Nat /\ a <= a + b
      BY SMT
    <3>2. QED
      BY <1>1, <1>b, <3>1, Zenon
  <2>3. QED
    BY <1>1, <1>a, <1>b, <2>1, <2>2, Zenon DEF Traces, UnboundIsCounted
<1>2. ASSUME mode' = "serial", defects' = defects, pc' = [pc EXCEPT ![Caller] = "drain"]
      PROVE  Traces'
  <2>1. pc'[Caller] = "drain"
    BY <1>2, <1>a, ThreadFacts, Zenon
  <2>2. defects <= defects
    BY <1>b, SMT
  <2>3. RangeOf(results)' = {}
    BY <1>b, Zenon DEF RangeOf
  <2>4. QED
    BY <1>2, <1>a, <1>b, <2>1, <2>2, <2>3, Zenon DEF Traces, UnboundIsCounted
<1>3. ASSUME NEW m \in 0..MaxConcurrent, mode' = "drivers",
             workers' = Least(Least(m, n'), width), TakeLanes(workers'),
             defects' = defects + Shortfall(workers'),
             pc' = [t \in Threads |-> IF t = Caller THEN "spawn" ELSE "none"]
      PROVE  Traces'
  <2>1. workers' \in Nat
    BY <1>3, <1>b, SchedulerAssumption, SMT DEF Least, Discipline
  <2>2. pc'[Caller] = "spawn"
    BY <1>3, ThreadFacts, Zenon
  <2>3. Shortfall(workers') \in Nat /\ (Shortfall(workers') = 0 => workers' <= Len(lanes))
    BY <2>1, <1>b, SMT DEF Shortfall
  <2>4. defects' \in Nat /\ defects <= defects' /\ (defects' = defects => Shortfall(workers') = 0)
    BY <1>3, <1>b, <2>3, SMT
  <2>5. Len(lanes') = IF Len(lanes) > workers' THEN Len(lanes) - workers' ELSE 0
    <3>1. DEFINE keep == IF Len(lanes) > workers' THEN Len(lanes) - workers' ELSE 0
    <3>2. keep \in Nat /\ 0 \in Nat /\ 0 + keep <= Len(lanes) /\ 0 + 1 = 1 /\ 0 + keep = keep
      BY <1>b, <2>1, SMT
    <3>3. lanes' = SubSeq(lanes, 1, keep)
      BY <1>3, Zenon DEF TakeLanes
    <3> HIDE DEF keep
    <3>4. Len(SubSeq(lanes, 0 + 1, 0 + keep)) = keep
      BY <1>a, <3>2, SliceOf
    <3>5. Len(lanes') = keep
      BY <3>2, <3>3, <3>4, Zenon
    <3>6. QED
      BY <3>5 DEF keep
  <2>6. defects' = before' => Kept' + workers' <= Full'
    <3>1. Shortfall(workers') = 0 => Len(lanes') + workers' <= Len(lanes)
      BY <1>b, <2>1, <2>3, <2>5, SMT
    <3>2. QED
      BY <1>a, <2>4, <3>1, Zenon DEF Kept, Full
  <2>7. RangeOf(results)' = {}
    BY <1>b, Zenon DEF RangeOf
  <2>8. QED
    BY <1>3, <1>a, <1>b, <2>2, <2>4, <2>6, <2>7, Zenon DEF Traces, UnboundIsCounted
<1>4. QED
  BY <1>1, <1>2, <1>3, Zenon DEF Call

\* A result is pushed; both events of its cell reached a lane, if there is one.
LEMMA TracesPush ==
  ASSUME Discipline, Numbered, Traces, NEW t \in Threads, pc[t] = "push",
         results' = Append(results, held[t]),
         \/ traced' = traced \cup {held[t]}
         \/ traced' = traced /\ mode # "serial" /\ (mode = "drivers" => defects # before),
         UNCHANGED <<defects, before, n, mode, lanes, given, workers>>,
         pc[Caller] # "returned", pc'[Caller] # "returned"
  PROVE  Traces'
<1>1. results \in Seq(Nat) /\ held[t] \in Nat /\ held[t] # 0 /\ n \in Nat /\ held[t] <= n
  BY Zenon DEF Discipline, Busy, Numbered
<1>2. held[t] \in 1..n
  BY <1>1, SMT
<1>3. RangeOf(results)' = RangeOf(results) \cup {held[t]}
  <2>1. RangeOf(results)' = RangeOf(results')
    BY Zenon DEF RangeOf
  <2>2. QED
    BY <1>1, <2>1, RangeFacts, Zenon
<1>4. Kept' = Kept /\ Full' = Full
  BY Zenon DEF Kept, Full
<1>5. traced \subseteq 1..n /\ traced' \subseteq 1..n
  BY <1>2, Zenon DEF Traces
<1>6. QED
  BY <1>3, <1>4, <1>5, Zenon DEF Traces, UnboundIsCounted

LEMMA TracesStep ==
  ASSUME Discipline, Accounted, Progress, LaneInv, Traces, [Next]_vars
  PROVE  Traces'
<1>a. pc \in [Threads -> Places] /\ Numbered
  BY Zenon DEF Discipline, Progress
<1>b. /\ defects \in Nat /\ before \in Nat /\ n \in Nat /\ defects + 0 = defects
      /\ defects + 1 \in Nat /\ (before <= defects => before <= defects + 1 /\ before # defects + 1)
  <2>1. defects \in Nat /\ before \in Nat /\ n \in Nat
    BY <1>a, Zenon DEF Traces, Numbered
  <2>2. QED
    BY <2>1, SMT
<1>1. ASSUME Call PROVE Traces'
  BY <1>1, TracesCall
<1>2. ASSUME CallerFinishes PROVE Traces'
  <2>1. /\ pc[Caller] = "push" /\ results' = Append(results, held[Caller])
        /\ traced' = IF mode = "reentrant" THEN traced ELSE traced \cup {held[Caller]}
        /\ UNCHANGED <<defects, before, n, mode, lanes, given, workers>>
        /\ pc'[Caller] = "drain"
    BY <1>2, <1>a, ThreadFacts, Zenon DEF CallerFinishes, Goto, laneVars, callVars
  <2>2. QED
    BY <1>a, <2>1, ThreadFacts, TracesPush
<1>3. ASSUME CallerDrained PROVE Traces'
  <2>1. /\ pc[Caller] = "drain" /\ next > n
        /\ UNCHANGED <<defects, before, traced, n, mode, results, lanes, given, workers>>
    BY <1>3, Zenon DEF CallerDrained, laneVars, callVars
  <2>2. CASE mode = "drivers"
    <3>1. pc'[Caller] = "join"
      BY <1>3, <1>a, <2>2, ThreadFacts, Zenon DEF CallerDrained, Goto
    <3>2. QED
      BY <2>1, <3>1, TracesStay
  <2>3. CASE mode # "drivers"
    <3>1. pc'[Caller] = "returned"
      BY <1>3, <1>a, <2>3, ThreadFacts, Zenon DEF CallerDrained, Goto
    <3>2. RangeOf(results) = 1..n
      BY <2>1, <2>3, SerialIsComplete
    <3>3. mode = "reentrant" /\ defects = before => 1..n = {}
      <4>1. mode = "reentrant" => defects = before + n
        BY <2>1, Zenon DEF Traces
      <4>2. QED
        BY <1>b, <4>1, SMT
    <3>4. defects = before => traced = 1..n
      BY <2>1, <2>3, <3>2, <3>3, Zenon DEF Traces
    <3>5. QED
      BY <2>1, <3>1, <3>4, Zenon DEF Traces, UnboundIsCounted
  <2>4. QED
    BY <2>2, <2>3
<1>4. ASSUME Join PROVE Traces'
  <2>1. /\ pc[Caller] = "join" /\ DriversEnded /\ NobodyPanicked /\ mode = "drivers"
        /\ defects' = defects + (IF spawnFailed THEN 1 ELSE 0)
        /\ UNCHANGED <<before, traced, n, mode>>
    BY <1>4, Zenon DEF Join, callVars, Progress, Gate
  <2>2. pc'[Caller] = "returned"
    BY <1>4, <1>a, ThreadFacts, Zenon DEF Join, Goto
  <2>3. RangeOf(results) = 1..n
    BY <2>1, JoinedIsComplete
  <2>4. /\ defects' \in Nat /\ before <= defects' /\ (defects' = before => defects = before)
    <3>1. before <= defects
      BY Zenon DEF Traces
    <3>2. defects' = IF spawnFailed THEN defects + 1 ELSE defects
      BY <1>b, <2>1, Zenon
    <3>3. QED
      BY <1>b, <3>1, <3>2, Zenon
  <2>5. defects = before => traced = 1..n
    BY <2>1, <2>3, Zenon DEF Traces
  <2>6. QED
    BY <2>1, <2>2, <2>4, <2>5, Zenon DEF Traces, UnboundIsCounted
<1>5. ASSUME NEW w \in Workers, DriverPushes(w) PROVE Traces'
  <2>1. /\ pc[w] = "push" /\ results' = Append(results, held[w])
        /\ traced' = IF lane[w] = 0 THEN traced ELSE traced \cup {held[w]}
        /\ UNCHANGED <<defects, before, n, mode, lanes, given, workers>>
    BY <1>5, Zenon DEF DriverPushes, laneVars, callVars
  <2>2. mode = "drivers" /\ pc[Caller] \notin {"returned", "panicked"}
    BY <2>1, WithoutDrivers, Zenon DEF Ended
  <2>3. pc'[Caller] = pc[Caller]
    BY <1>5, <1>a, ThreadFacts, Zenon DEF DriverPushes, Goto
  <2>4. lane[w] = LaneFor(w) /\ w <= spawned
    BY <2>1, <2>2, Zenon DEF LaneInv, Underway, Lent
  <2>5. defects = before => lane[w] # 0
    <3>1. /\ Kept \in Nat /\ Full \in Nat /\ spawned \in Nat /\ workers \in Nat
          /\ spawned <= workers /\ w \in Nat /\ (LaneFor(w) # 0 <=> Kept + w <= Full)
      <4>1. /\ Kept \in Nat /\ Full \in Nat /\ spawned \in Nat /\ workers \in Nat
            /\ (LaneFor(w) # 0 <=> Kept + w <= Full)
        BY LaneSizes, Zenon DEF LaneInv
      <4>2. spawned <= workers /\ w \in Nat
        BY <4>1, SMT DEF Discipline, Workers
      <4>3. QED
        BY <4>1, <4>2
    <3>2. defects = before => Kept + workers <= Full
      BY <2>2, Zenon DEF Traces
    <3>3. Kept + workers <= Full => Kept + w <= Full
      BY <2>4, <3>1, SMT
    <3>4. QED
      BY <2>4, <3>1, <3>2, <3>3, Zenon
  <2>6. w \in Threads /\ mode # "serial"
    BY <2>2, ThreadFacts, Zenon
  <2>7. QED
    BY <1>a, <2>1, <2>2, <2>3, <2>5, <2>6, TracesPush
<1>6. ASSUME UNCHANGED <<defects, before, traced, n, mode, results, lanes, given, workers>>,
             pc'[Caller] = "returned" <=> pc[Caller] = "returned"
      PROVE  Traces'
  BY <1>6, TracesStay
<1>7. ASSUME \/ Spawn \/ SpawnFails \/ AllSpawned \/ SetStart \/ NotifyAll \/ CallerTakes \/ Panics
      PROVE  Traces'
  <2>1. UNCHANGED <<defects, before, traced, n, mode, results, lanes, given, workers>>
    BY <1>7, Zenon DEF Spawn, SpawnFails, AllSpawned, SetStart, NotifyAll, CallerTakes, Panics,
                       laneVars, callVars
  <2>2. pc[Caller] # "returned"
    BY <1>7, Zenon DEF Spawn, SpawnFails, AllSpawned, SetStart, NotifyAll, CallerTakes, Panics
  <2>3. pc'[Caller] # "returned"
    <3>1. CASE NotifyAll
      BY <3>1, ThreadFacts, Zenon DEF NotifyAll
    <3>2. CASE Spawn
      <4>1. pc[Caller] = "spawn" /\ pc' = [pc EXCEPT ![spawned + 1] = "start"]
        BY <3>2, Zenon DEF Spawn, Goto
      <4>2. QED
        BY <1>a, <4>1, ThreadFacts, Zenon
    <3>3. CASE SpawnFails \/ AllSpawned \/ SetStart \/ CallerTakes \/ Panics
      BY <1>a, <3>3, ThreadFacts, Zenon DEF SpawnFails, AllSpawned, SetStart, CallerTakes,
                                            Panics, Goto
    <3>4. QED
      BY <1>7, <3>1, <3>2, <3>3, Zenon
  <2>4. QED
    BY <1>6, <2>1, <2>2, <2>3
<1>8. ASSUME NEW w \in Workers, DriverLooks(w) \/ DriverPops(w) \/ DriverLeaves(w) PROVE Traces'
  <2>1. UNCHANGED <<defects, before, traced, n, mode, results, lanes, given, workers>>
    BY <1>8, Zenon DEF DriverLooks, MayRun, DriverPops, DriverLeaves, laneVars, callVars
  <2>2. pc'[Caller] = pc[Caller]
    BY <1>8, <1>a, ThreadFacts, Zenon DEF DriverLooks, MayRun, DriverPops, DriverLeaves, Goto
  <2>3. QED
    BY <1>6, <2>1, <2>2
<1>9. ASSUME NEW t \in Threads, Cell(t) PROVE Traces'
  <2>1. UNCHANGED <<defects, before, traced, n, mode, results, lanes, given, workers>>
    BY <1>9, Zenon DEF Cell, CellRuns, FanOut, CellPanicked, laneVars, callVars
  <2>2. pc'[Caller] = "returned" <=> pc[Caller] = "returned"
    BY <1>9, <1>a, ThreadFacts, Zenon DEF Cell, CellRuns, FanOut, CellPanicked, Goto
  <2>3. QED
    BY <1>6, <2>1, <2>2
<1>10. ASSUME Finished \/ UNCHANGED vars PROVE Traces'
  BY <1>6, <1>10, Zenon DEF Finished, vars, laneVars, callVars
<1>11. QED
  BY <1>1, <1>2, <1>3, <1>4, <1>5, <1>7, <1>8, <1>9, <1>10,
     Zenon DEF Next, CallerStep, Driver

\* Whatever the drivers do and whichever spawn fails, a call that returns has
\* given its lanes back in their order, less at most the one a failed spawn had
\* taken; and if it counted no unbound driver, both events of every cell reached
\* a lane.
THEOREM LanesAccounted == Spec => []LanesAreAccounted
<1>1. Init => Discipline /\ Accounted /\ HeldBack /\ Progress /\ LaneInv /\ Traces
  <2> SUFFICES ASSUME Init
               PROVE  Accounted /\ HeldBack /\ Progress /\ LaneInv /\ Traces
    BY DisciplineInit
  <2>1. /\ n = 0 /\ results = <<>> /\ mode = "serial" /\ pc[Caller] = "returned"
        /\ spawnFailed = FALSE /\ given = lanes /\ defects = 0 /\ before = 0 /\ traced = {}
        /\ available = <<>> /\ returned = <<>> /\ lane = [w \in Workers |-> 0]
        /\ lanes = [i \in 1..TraceLanes |-> i]
    BY ThreadFacts, Zenon DEF Init
  <2>2. Accounted /\ HeldBack /\ Progress
    BY StartsWell
  <2>3. LaneTypes
    <3>1. lanes \in [1..TraceLanes -> Pos] /\ TraceLanes \in Nat
      BY <2>1, SchedulerAssumption, SMT DEF Pos
    <3>2. lanes \in Seq(Pos)
      BY <3>1, SeqOf
    <3>3. 0 \in Nat
      BY SMT
    <3>4. QED
      BY <2>1, <3>2, <3>3, EmptySeq, Zenon DEF LaneTypes
  <2>4. LaneInv
    BY <2>1, <2>3, Zenon DEF LaneInv, LanesComeBack, Underway
  <2>5. Traces
    <3>1. 0 \in Nat /\ 0 <= 0 /\ 1..0 = {}
      BY SMT
    <3>2. QED
      BY <2>1, <3>1, Zenon DEF Traces, UnboundIsCounted
  <2>6. QED
    BY <2>2, <2>4, <2>5
<1>2. Discipline /\ Accounted /\ HeldBack /\ Progress /\ LaneInv /\ Traces /\ [Next]_vars
        => Discipline' /\ Accounted' /\ HeldBack' /\ Progress' /\ LaneInv' /\ Traces'
  BY DisciplineStep, AccountedStep, HeldBackStep, NumberedStep, GateStep, InOrderStep,
     LaneStep, TracesStep DEF Progress
<1>3. LaneInv /\ Traces => LanesAreAccounted
  BY Zenon DEF LaneInv, Traces, LanesAreAccounted
<1>4. QED
  BY <1>1, <1>2, <1>3, PTL DEF Spec
=============================================================================
