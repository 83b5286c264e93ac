-------------------------------- MODULE Nsga2 --------------------------------
(***************************************************************************)
(* The multi-objective optimizer of the transfer search                      *)
(* (crates/two_phase_transfer_rs, oxymoo/nsga2.rs): a population of fixed    *)
(* size and the offspring it breeds compete in every generation, by the      *)
(* fronts of NondominatedSort and then by how crowded they stand.            *)
(*                                                                         *)
(* What offspring a population has is any rows at all: tournaments,          *)
(* crossover, mutation and the problem itself are data.                      *)
(***************************************************************************)
EXTENDS NondominatedSort

CONSTANTS
  Rows,            \* the evaluations that occur
  PopulationSize,
  Tolerances,      \* objective_tolerance
  Generations, MaxEvaluations

ASSUME Nsga2Assumption ==
  /\ PopulationSize \in Nat /\ PopulationSize >= 2
  /\ MaxEvaluations \in Nat /\ MaxEvaluations >= PopulationSize
  /\ Generations \in Nat /\ Tolerances \subseteq Nat /\ Rows \subseteq Evaluation

VARIABLES
  tolerance,    \* of the sort
  population,   \* rows with their rank and crowding
  fronts,       \* row numbers of the population by rank
  offspring,    \* evaluated and not yet judged
  generation, evaluations,
  failed        \* an evaluation was refused

searchVars == <<tolerance, population, fronts, offspring, generation, evaluations, failed>>

Groups == [1..PopulationSize -> Rows]
RowsOf(pop) == [i \in DOMAIN pop |-> pop[i].row]
Member(row, rank, crowding) == [row |-> row, rank |-> rank, crowding |-> crowding]

\* Where a row stands: its front and its place in it.
FrontNumber(sorted, i) == CHOOSE k \in DOMAIN sorted : i \in Range(sorted[k])
Place(front, i) == CHOOSE p \in DOMAIN front : front[p] = i

\* Every row of every front with its rank and crowding.
Judged(rows, sorted) ==
  LET distance == [k \in DOMAIN sorted |-> Crowding(rows, sorted[k])]
  IN  [i \in RowsIn(sorted, Len(distance)) |->
         LET k == FrontNumber(sorted, i)
         IN  Member(rows[i], k, distance[k][Place(sorted[k], i)])]

\* assign_rank_and_crowding_into
Assigned(rows, sorted) ==
  LET judged == Judged(rows, sorted) IN [i \in DOMAIN rows |-> judged[i]]

\* Nsga2::new
SearchInit ==
  /\ tolerance \in Tolerances
  /\ \E rows \in Groups :
       /\ fronts = Fronts(rows, tolerance, PopulationSize)
       /\ population = Assigned(rows, fronts)
  /\ offspring = <<>> /\ generation = 0 /\ evaluations = PopulationSize /\ failed = FALSE
-----------------------------------------------------------------------------
(* assign_capped_survivor_selection_into *)

Combined == RowsOf(population) \o offspring

\* How many fronts fit.
WholeFronts(sorted) == Max({k \in 0..Len(sorted) : Covered(sorted, k) <= PopulationSize})

\* Front after front; of the one that does not fit, the least crowded, ties by number.
Preferred(judged, whole, j, i) ==
  \/ judged[j].rank < judged[i].rank
  \/ /\ judged[j].rank = judged[i].rank
     /\ IF judged[i].rank <= whole THEN j < i
        ELSE \/ judged[j].crowding > judged[i].crowding
             \/ judged[j].crowding = judged[i].crowding /\ j < i
Selected(judged, whole) ==
  LET all == DOMAIN judged
  IN  SubSeq(Arranged(all, {pair \in all \X all : Preferred(judged, whole, pair[1], pair[2])}),
             1, PopulationSize)

\* Nobody of the split front keeps the distance to neighbours that are gone.
NotRecomputed(pop, rows, sorted, split) == pop
RecomputeSplit(pop, rows, sorted, split) ==
  IF split \notin DOMAIN sorted THEN pop
  ELSE LET distance == Crowding(rows, sorted[split])
       IN  [i \in DOMAIN pop |->
              IF i \in Range(sorted[split])
              THEN [pop[i] EXCEPT !.crowding = distance[Place(sorted[split], i)]]
              ELSE pop[i]]
-----------------------------------------------------------------------------
(* Nsga2::step *)

MayStep ==
  /\ ~failed /\ offspring = <<>> /\ generation < Generations
  /\ evaluations + PopulationSize <= MaxEvaluations

Breed ==
  /\ MayStep
  /\ offspring' \in Groups /\ evaluations' = evaluations + PopulationSize
  /\ UNCHANGED <<tolerance, population, fronts, generation, failed>>

\* The problem returns an error, a value that is not finite, or a bad shape.
BreedFails ==
  /\ MayStep /\ failed' = TRUE
  /\ UNCHANGED <<tolerance, population, fronts, offspring, generation, evaluations>>

Survive ==
  /\ offspring # <<>>
  /\ \E sorted \in {Fronts(Combined, tolerance, PopulationSize)} :
     \E judged \in {Judged(Combined, sorted)} :
     \E taken \in {Selected(judged, WholeFronts(sorted))} :
       LET next == [n \in DOMAIN taken |-> judged[taken[n]]]
       IN  /\ fronts' = Rebuilt([n \in DOMAIN taken |-> next[n].rank])
           /\ population' = RecomputeSplit(next, RowsOf(next), fronts', WholeFronts(sorted) + 1)
  /\ offspring' = <<>> /\ generation' = generation + 1
  /\ UNCHANGED <<tolerance, evaluations, failed>>

SearchNext == Breed \/ BreedFails \/ Survive

SearchSpec == SearchInit /\ [][SearchNext]_searchVars
-----------------------------------------------------------------------------
(* Properties *)

\* The length of the longest chain of rows that dominate one another up to a row.
Depth(rows, t) ==
  LET depth[i \in DOMAIN rows] ==
        LET above == {depth[j] : j \in {k \in DOMAIN rows : Dominates(rows[k], rows[i], t)}}
        IN  IF above = {} THEN 1 ELSE 1 + Max(above)
  IN  depth

(* The best survive: what a generation drops is never in an earlier front    *)
(* than what it keeps, the fronts being those of the definition and not of   *)
(* the sweep, ties, duplicates and constraints included; and exactly as many *)
(* survive as the population holds.                                          *)
BestSurvive ==
  offspring # <<>> =>
    LET rows == Combined
        sorted == Fronts(rows, tolerance, PopulationSize)
        survivors == Range(Selected(Judged(rows, sorted), WholeFronts(sorted)))
        depth == Depth(rows, tolerance)
    IN  /\ Cardinality(survivors) = PopulationSize
        /\ \A s \in survivors, d \in DOMAIN rows \ survivors : depth[s] <= depth[d]

(* The ranks, distances and fronts that the next tournament and the result   *)
(* read are those of the population as it stands, although they were found   *)
(* while twice as many competed: sorting it anew changes nothing.            *)
MetadataIsFresh ==
  LET rows == RowsOf(population)
      sorted == Peel(rows, tolerance)
  IN  fronts = sorted /\ population = Assigned(rows, sorted)
=============================================================================
