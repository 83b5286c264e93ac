--------------------------- MODULE NondominatedSort ---------------------------
(***************************************************************************)
(* The constrained Pareto sort of crates/two_phase_transfer_rs               *)
(* (oxymoo/sort.rs) for two objectives, both minimised.  A row is an         *)
(* evaluated individual; objectives and violations are counted in ticks.     *)
(* Rows, fronts and ranks are counted from one.                              *)
(*                                                                         *)
(* With no objective tolerance the ranks come from one sweep over the rows   *)
(* in the order of their first objective, which keeps for every rank the     *)
(* best second objective seen; otherwise from counting who dominates whom.   *)
(***************************************************************************)
EXTENDS Integers, Sequences, FiniteSets, FiniteSetsExt, Functions

CONSTANTS
  ConstraintTolerance,
  Scale   \* a multiple of every spread of an objective: crowding is counted in parts of it

ASSUME SortAssumption == ConstraintTolerance \in Nat /\ Scale \in Nat

\* What an evaluation can say of an individual.
Evaluation == [first : Int, second : Int, violation : Int]

Feasible(row) == row.violation <= ConstraintTolerance

\* constrained_dominance, pareto_flags_2
Dominates(p, q, tolerance) ==
  IF Feasible(p) /\ Feasible(q)
  THEN LET d1 == p.first - q.first
           d2 == p.second - q.second
       IN  d1 <= tolerance /\ d2 <= tolerance /\ (d1 < -tolerance \/ d2 < -tolerance)
  ELSE Feasible(p) \/ (~Feasible(q) /\ p.violation < q.violation)

\* The elements of a set as a sort leaves them: each after all those that go before it.
Arranged(S, before) ==
  LET places == {<<i, Cardinality({j \in S : <<j, i>> \in before}) + 1>> : i \in S}
  IN  [p \in 1..Cardinality(S) |-> CHOOSE i \in S : <<i, p>> \in places]

Ascending(numbers) ==
  Arranged(numbers, {pair \in numbers \X numbers : pair[1] < pair[2]})

\* The rows of the first k fronts.
RowsIn(fronts, k) == UNION {Range(fronts[l]) : l \in 1..k}
Covered(fronts, k) == Cardinality(RowsIn(fronts, k))

\* The fronts that cover a capacity, the last of them whole.
Capped(fronts, capacity) ==
  LET enough == {k \in DOMAIN fronts : Covered(fronts, k) >= capacity}
  IN  IF enough = {} THEN fronts
      ELSE SubSeq(fronts, 1, CHOOSE k \in enough : \A l \in enough : k <= l)

\* generic_nondominated_sort_limited_into: who is dominated by earlier fronts alone.
NextFront(rows, done, tolerance) ==
  {i \in DOMAIN rows \ done :
     \A j \in DOMAIN rows : Dominates(rows[j], rows[i], tolerance) => j \in done}
Peel(rows, tolerance) ==
  LET peeled[k \in 0..Len(rows)] ==
        IF k = 0 THEN <<>>
        ELSE LET earlier == peeled[k - 1]
                 front == NextFront(rows, RowsIn(earlier, Len(earlier)), tolerance)
             IN  IF front = {} THEN earlier ELSE Append(earlier, Ascending(front))
  IN  peeled[Len(rows)]
-----------------------------------------------------------------------------
(* fast_two_objective_capped_sort_into *)

Earlier(rows, j, i) ==
  \/ rows[j].first < rows[i].first
  \/ /\ rows[j].first = rows[i].first
     /\ \/ rows[j].second < rows[i].second
        \/ rows[j].second = rows[i].second /\ j < i
Swept(rows) ==
  LET feasible == {i \in DOMAIN rows : Feasible(rows[i])}
  IN  Arranged(feasible, {pair \in feasible \X feasible : Earlier(rows, pair[1], pair[2])})

\* partition_point: how many ranks have a member that is at least as good as this.
PartitionPointStrict(tails, second) == Cardinality({k \in DOMAIN tails : tails[k] < second})
PartitionPoint(tails, second) == Cardinality({k \in DOMAIN tails : tails[k] <= second})

\* One row of the sweep.  Rows with the same objectives share a rank.
SweepRow(rows, sweep, i) ==
  LET row == rows[i]
      same == /\ sweep.last # 0 /\ rows[sweep.last].first = row.first
              /\ rows[sweep.last].second = row.second
      rank == IF same THEN sweep.rank[sweep.last] ELSE PartitionPoint(sweep.tails, row.second) + 1
  IN  [last  |-> i,
       rank  |-> [sweep.rank EXCEPT ![i] = rank],
       tails |-> IF same THEN sweep.tails
                 ELSE IF rank > Len(sweep.tails) THEN Append(sweep.tails, row.second)
                 ELSE [sweep.tails EXCEPT ![rank] = IF @ <= row.second THEN @ ELSE row.second]]

Sweep(rows) ==
  LET order == Swept(rows)
      sweep[k \in 0..Len(order)] ==
        IF k = 0 THEN [last |-> 0, rank |-> [i \in DOMAIN rows |-> 0], tails |-> <<>>]
        ELSE LET earlier == sweep[k - 1] IN SweepRow(rows, earlier, order[k])
  IN  sweep[Len(order)]

\* Infeasible rows come after all feasible ones, by their violation.
Violations(rows) == {rows[j].violation : j \in {k \in DOMAIN rows : ~Feasible(rows[k])}}
InfeasibleRank(rows, i, feasibleRanks) ==
  feasibleRanks + Cardinality({v \in Violations(rows) : v < rows[i].violation}) + 1

FastRanks(rows) ==
  LET sweep == Sweep(rows)
  IN  [i \in DOMAIN rows |->
         IF Feasible(rows[i]) THEN sweep.rank[i] ELSE InfeasibleRank(rows, i, Len(sweep.tails))]

\* A counting sort by rank; a rank nobody has gives no front.
FrontsOf(rank) ==
  LET used == Ascending(Range(rank))
  IN  [k \in DOMAIN used |-> Ascending({i \in DOMAIN rank : rank[i] = used[k]})]

\* fast_nondominated_sort_limited_into
Fronts(rows, tolerance, capacity) ==
  Capped(IF tolerance = 0 THEN FrontsOf(FastRanks(rows)) ELSE Peel(rows, tolerance), capacity)

\* rebuild_fronts_from_ranks: a rank nobody has leaves an empty front.
Rebuilt(rank) ==
  [k \in 1..Max(Range(rank)) |-> Ascending({i \in DOMAIN rank : rank[i] = k})]
-----------------------------------------------------------------------------
(* crowding_distance_into *)

Infinite == 2 * Scale + 1

\* The places in a front by one objective.  Ties stay in the order they were in: at
\* first that of the places, then that of the first objective.
ByFirst(places, first) ==
  Arranged(places, {pair \in places \X places :
    LET p == pair[1]
        q == pair[2]
    IN  first[p] < first[q] \/ (first[p] = first[q] /\ p < q)})
BySecond(places, first, second) ==
  Arranged(places, {pair \in places \X places :
    LET p == pair[1]
        q == pair[2]
    IN  \/ second[p] < second[q]
        \/ second[p] = second[q] /\ (first[p] < first[q] \/ (first[p] = first[q] /\ p < q))})

\* The ends of a front are infinitely far from anybody.
Spread(distance, order, value) ==
  LET n == Len(order)
      width == value[order[n]] - value[order[1]]
      At(p) == CHOOSE k \in 1..Len(order) : order[k] = p
      Gap(p) == (Scale * (value[order[At(p) + 1]] - value[order[At(p) - 1]])) \div width
  IN  [p \in DOMAIN distance |->
         IF At(p) \in {1, n} \/ distance[p] = Infinite THEN Infinite
         ELSE IF width = 0 THEN distance[p] ELSE distance[p] + Gap(p)]

\* By the place in the front.
Crowding(rows, front) ==
  LET first == [p \in DOMAIN front |-> rows[front[p]].first]
      second == [p \in DOMAIN front |-> rows[front[p]].second]
      zero == [p \in DOMAIN front |-> 0]
  IN  IF Len(front) <= 2 THEN [p \in DOMAIN front |-> Infinite]
      ELSE Spread(Spread(zero, ByFirst(DOMAIN front, first), first),
                  BySecond(DOMAIN front, first, second), second)
=============================================================================
