---------------------------- MODULE SearchProofs ----------------------------
(***************************************************************************)
(* Theorems about the two searches: the optimizer of the transfer search     *)
(* (Nsga2, with the sort it rests on) and the mass of one event (MassSolver).*)
(*                                                                         *)
(* The optimizer, for every population size, set of rows and tolerance.  A   *)
(* numbering of the rows is Layered when every row is above all rows that    *)
(* dominate it and just above one of them, if any.  There is one such        *)
(* numbering of any rows; the depth of the definition, the ranks of the      *)
(* sweep and the order of peeling all are it, and so is what the survivors   *)
(* of a generation keep of it.                                               *)
(*                                                                         *)
(* The mass solver, for every curve of miss distance, every budget and       *)
(* tolerance, and a memo of every size.                                      *)
(***************************************************************************)
EXTENDS MassSolver, Nsga2, FiniteSetTheorems, FunctionTheorems, SequenceTheorems,
        WellFoundedInduction, TLAPS

(* Numbers and sets of numbers. *)

LEMMA LeastOne ==
  ASSUME NEW S \in SUBSET Nat, S # {}
  PROVE  \E n \in S : \A m \in S : n <= m
<1> DEFINE R == {ss \in Nat \X Nat : ss[1] < ss[2]}
<1>1. IsWellFoundedOn(R, Nat)
  BY NatLessThanWellFounded DEF OpToRel
<1> HIDE DEF R
<1>2. \E n \in S : \A m \in S : ~(<<m, n>> \in R)
  BY <1>1, WFMin, Zenon
<1>3. \A n, m \in Nat : ~(<<m, n>> \in R) => n <= m
  BY SMT DEF R
<1>4. QED
  BY <1>2, <1>3, Zenon

LEMMA GreatestOne ==
  ASSUME NEW b \in Nat, NEW S \in SUBSET (0..b), S # {}
  PROVE  Max(S) \in S /\ \A m \in S : m <= Max(S)
<1> DEFINE U == {u \in 0..b : b - u \in S}
<1>1. U \in SUBSET Nat /\ U # {}
  <2>1. PICK m \in S : TRUE
    OBVIOUS
  <2>2. m \in 0..b /\ b - m \in 0..b /\ b - (b - m) = m
    BY <2>1, SMT
  <2>3. b - m \in U
    BY <2>1, <2>2
  <2>4. U \subseteq Nat
    BY SMT
  <2>5. QED
    BY <2>3, <2>4
<1>2. PICK u \in U : \A v \in U : u <= v
  BY <1>1, LeastOne, Zenon
<1>3. \A m \in S : m <= b - u
  <2>1. TAKE m \in S
  <2>2. m \in 0..b /\ b - m \in 0..b /\ b - (b - m) = m
    BY SMT
  <2>3. b - m \in U
    BY <2>2
  <2>4. u <= b - m /\ u \in 0..b
    BY <1>2, <2>3
  <2>5. QED
    BY <2>2, <2>4, SMT
<1>4. \E x \in S : \A y \in S : x >= y
  <2>1. b - u \in S /\ b - u \in Int
    BY <1>2
  <2>2. \A y \in S : y \in Int
    BY SMT
  <2>3. \A y \in S : b - u >= y
    BY <1>3, <2>1, <2>2
  <2>4. QED
    BY <2>1, <2>3
<1>5. Max(S) \in S /\ \A y \in S : Max(S) >= y
  BY <1>4, Zenon DEF Max
<1>6. QED
  BY <1>5, SMT

LEMMA UpTo ==
  ASSUME NEW m \in Nat
  PROVE  IsFiniteSet(1..m) /\ Cardinality(1..m) = m
<1>1. 1 \in Int /\ m \in Int /\ (IF 1 > m THEN 0 ELSE m - 1 + 1) = m
  BY SMT
<1>2. QED
  BY <1>1, FS_Interval

LEMMA FewerIn ==
  ASSUME NEW S, NEW T, IsFiniteSet(T), S \subseteq T, NEW x, x \in T, x \notin S
  PROVE  /\ IsFiniteSet(S) /\ Cardinality(S) \in Nat /\ Cardinality(T) \in Nat
         /\ Cardinality(S) < Cardinality(T)
<1>1. IsFiniteSet(S) /\ Cardinality(S) <= Cardinality(T) /\ Cardinality(S) # Cardinality(T)
  BY FS_Subset
<1>2. Cardinality(S) \in Nat /\ Cardinality(T) \in Nat
  BY <1>1, FS_CardinalityType
<1>3. QED
  BY <1>1, <1>2, SMT

\* A set of places that has the ones below each of its own is an initial part.
LEMMA InitialPart ==
  ASSUME NEW m \in Nat, NEW S \in SUBSET (1..m),
         \A a \in S : \A c \in 1..m : c <= a => c \in S
  PROVE  Cardinality(S) \in 0..m /\ S = 1..Cardinality(S)
<1> DEFINE L == {k \in 0..m : 1..k \subseteq S}
<1>1. L \in SUBSET (0..m) /\ 0 \in L
  <2>1. 0 \in 0..m /\ 1..0 = {}
    BY SMT
  <2>2. QED
    BY <2>1
<1>2. Max(L) \in L /\ \A k \in L : k <= Max(L)
  BY <1>1, GreatestOne
<1> DEFINE top == Max(L)
<1> HIDE DEF top
<1>3. top \in 0..m /\ 1..top \subseteq S
  BY <1>2 DEF top
<1>4. S \subseteq 1..top
  <2>1. SUFFICES ASSUME NEW a \in S, a \notin 1..top PROVE FALSE
    OBVIOUS
  <2>2. a \in 1..m /\ a \in Nat
    BY SMT
  <2>3. a \in 0..m /\ top < a
    BY <1>3, <2>1, <2>2, SMT
  <2>4. 1..a \subseteq S
    <3>1. \A c \in 1..a : c \in 1..m /\ c <= a
      BY <2>2, SMT
    <3>2. QED
      BY <3>1
  <2>5. a <= top
    BY <1>2, <2>3, <2>4 DEF top
  <2>6. QED
    BY <1>3, <2>2, <2>3, <2>5, SMT
<1>5. S = 1..top
  BY <1>3, <1>4, Zenon
<1>6. Cardinality(S) = top
  BY <1>3, <1>5, UpTo
<1>7. QED
  BY <1>3, <1>5, <1>6, Zenon
-----------------------------------------------------------------------------
(* Sorting *)

\* An order in which any two elements of a set are compared.
StrictOrder(S, before) ==
  /\ \A i \in S : <<i, i>> \notin before
  /\ \A i, j, k \in S : <<i, j>> \in before /\ <<j, k>> \in before => <<i, k>> \in before
  /\ \A i, j \in S : i # j => <<i, j>> \in before \/ <<j, i>> \in before

\* A list of the elements of a set, none before one that goes before it.
Lists(list, m, S, before) ==
  /\ list \in [1..m -> S]
  /\ \A i \in S : \E p \in 1..m : list[p] = i
  /\ \A p, q \in 1..m : p < q => <<list[p], list[q]>> \in before

LEMMA OneToOne ==
  ASSUME NEW S, NEW before, StrictOrder(S, before), NEW m \in Nat, NEW list, Lists(list, m, S, before)
  PROVE  /\ \A p, q \in 1..m : list[p] = list[q] => p = q
         /\ \A p, q \in 1..m : <<list[p], list[q]>> \in before => p < q
         /\ list \in Bijection(1..m, S)
         /\ IsFiniteSet(S) /\ Cardinality(S) = m
<1>1. /\ \A p \in 1..m : p \in Nat /\ list[p] \in S
      /\ \A p, q \in 1..m : p < q => <<list[p], list[q]>> \in before
      /\ \A i \in S : \E p \in 1..m : list[p] = i
      /\ list \in [1..m -> S]
  BY DEF Lists
<1>2. /\ \A i \in S : <<i, i>> \notin before
      /\ \A i, j \in S : <<i, j>> \in before => <<j, i>> \notin before
  BY DEF StrictOrder
<1>3. ASSUME NEW p \in 1..m, NEW q \in 1..m, list[p] = list[q] PROVE p = q
  <2>1. ~(p < q) /\ ~(q < p)
    BY <1>1, <1>2, <1>3
  <2>2. p \in Nat /\ q \in Nat
    BY <1>1
  <2>3. QED
    BY <2>1, <2>2, SMT
<1>4. ASSUME NEW p \in 1..m, NEW q \in 1..m, <<list[p], list[q]>> \in before PROVE p < q
  <2>1. ~(q < p) /\ p # q
    BY <1>1, <1>2, <1>4
  <2>2. p \in Nat /\ q \in Nat
    BY <1>1
  <2>3. QED
    BY <2>1, <2>2, SMT
<1>5. list \in Bijection(1..m, S)
  BY <1>1, <1>3, Zenon DEF Bijection, Injection, Surjection, IsInjective
<1>6. IsFiniteSet(1..m) /\ Cardinality(1..m) = m
  BY UpTo
<1>7. ExistsBijection(1..m, S)
  BY <1>5, Zenon DEF ExistsBijection
<1>8. IsFiniteSet(S) /\ Cardinality(S) = m
  BY <1>6, <1>7, FS_Bijection, Zenon
<1>9. QED
  BY <1>3, <1>4, <1>5, <1>8, Zenon

LEMMA ArrangedLists ==
  ASSUME NEW S, IsFiniteSet(S), NEW before, StrictOrder(S, before)
  PROVE  /\ Cardinality(S) \in Nat
         /\ Lists(Arranged(S, before), Cardinality(S), S, before)
<1> DEFINE n == Cardinality(S)
           Ahead(i) == {j \in S : <<j, i>> \in before}
           Pl(i) == Cardinality(Ahead(i)) + 1
           a == Arranged(S, before)
<1>1. n \in Nat
  BY FS_CardinalityType
<1>2. \A i \in S : Pl(i) \in 1..n
  <2>1. SUFFICES ASSUME NEW i \in S PROVE Pl(i) \in 1..n
    OBVIOUS
  <2>2. Ahead(i) \subseteq S /\ i \notin Ahead(i)
    BY DEF StrictOrder
  <2>3. Cardinality(Ahead(i)) \in Nat /\ Cardinality(Ahead(i)) < n
    BY <2>2, FewerIn
  <2>4. QED
    BY <1>1, <2>3, SMT
<1>3. ASSUME NEW i \in S, NEW j \in S, <<j, i>> \in before PROVE Pl(j) < Pl(i)
  <2>1. Ahead(j) \subseteq Ahead(i) /\ j \in Ahead(i) /\ j \notin Ahead(j)
    BY <1>3 DEF StrictOrder
  <2>2. IsFiniteSet(Ahead(i))
    BY FS_Subset
  <2>3. /\ Cardinality(Ahead(j)) \in Nat /\ Cardinality(Ahead(i)) \in Nat
        /\ Cardinality(Ahead(j)) < Cardinality(Ahead(i))
    BY <2>1, <2>2, FewerIn
  <2>4. QED
    BY <2>3, SMT
<1>4. ASSUME NEW i \in S, NEW j \in S, Pl(i) = Pl(j) PROVE i = j
  <2>1. Pl(i) \in Nat /\ Pl(j) \in Nat
    BY <1>1, <1>2
  <2>2. ~(Pl(j) < Pl(i)) /\ ~(Pl(i) < Pl(j))
    BY <1>4, <2>1, SMT
  <2>3. <<i, j>> \notin before /\ <<j, i>> \notin before
    BY <1>3, <2>2
  <2>4. QED
    BY <2>3 DEF StrictOrder
<1> DEFINE f == [i \in S |-> Pl(i)]
<1>5. \A p \in 1..n : \E i \in S : Pl(i) = p
  <2>1. f \in [S -> 1..n] /\ \A i \in S : f[i] = Pl(i)
    BY <1>2
  <2>2. f \in Injection(S, 1..n)
    BY <1>4, <2>1, Zenon DEF Injection, IsInjective
  <2>3. IsFiniteSet(1..n) /\ Cardinality(1..n) = n
    BY <1>1, UpTo
  <2>4. f \in Surjection(S, 1..n)
    BY <2>2, <2>3, FS_Injection, Zenon
  <2>5. QED
    BY <2>1, <2>4, Zenon DEF Surjection
<1> DEFINE R == {<<j, Pl(j)>> : j \in S}
<1>6. a = [p \in 1..n |-> CHOOSE i \in S : <<i, p>> \in R]
  BY DEF Arranged
<1> HIDE DEF Pl, a, n
<1>12. \A i \in S : \A p : <<i, p>> \in R <=> Pl(i) = p
  OBVIOUS
<1> HIDE DEF R
<1>7. \A p \in 1..n : a[p] \in S /\ Pl(a[p]) = p
  <2>1. TAKE p \in 1..n
  <2>2. \E i \in S : <<i, p>> \in R
    BY <1>5, <1>12
  <2>3. a[p] = CHOOSE i \in S : <<i, p>> \in R
    BY <1>6
  <2>4. a[p] \in S /\ <<a[p], p>> \in R
    BY <2>2, <2>3, Zenon
  <2>5. QED
    BY <1>12, <2>4
<1>8. a \in [1..n -> S]
  BY <1>6, <1>7
<1>9. \A i \in S : \E p \in 1..n : a[p] = i
  BY <1>2, <1>4, <1>7, Zenon
<1>10. ASSUME NEW p \in 1..n, NEW q \in 1..n, p < q PROVE <<a[p], a[q]>> \in before
  <2>1. a[p] \in S /\ a[q] \in S /\ Pl(a[p]) = p /\ Pl(a[q]) = q /\ p \in Nat /\ q \in Nat
    BY <1>1, <1>7
  <2>2. ~(q < p) /\ p # q
    BY <1>10, <2>1, SMT
  <2>3. a[p] # a[q] /\ <<a[q], a[p]>> \notin before
    BY <1>3, <2>1, <2>2, Zenon
  <2>4. QED
    BY <2>1, <2>3 DEF StrictOrder
<1>11. QED
  BY <1>1, <1>8, <1>9, <1>10 DEF Lists, a, n

LEMMA OneArrangement ==
  ASSUME NEW S, NEW before, StrictOrder(S, before), NEW m \in Nat, NEW list, Lists(list, m, S, before)
  PROVE  m = Cardinality(S) /\ list = Arranged(S, before)
<1> DEFINE Ahead(i) == {j \in S : <<j, i>> \in before}
           other == Arranged(S, before)
<1>1. /\ IsFiniteSet(S) /\ Cardinality(S) = m
      /\ \A p, q \in 1..m : list[p] = list[q] => p = q
      /\ \A p, q \in 1..m : <<list[p], list[q]>> \in before => p < q
  BY OneToOne
<1>2. Lists(other, m, S, before)
  BY <1>1, ArrangedLists
<1> HIDE DEF other
<1>3. ASSUME NEW l, Lists(l, m, S, before), NEW p \in 1..m
      PROVE  l[p] \in S /\ Cardinality(Ahead(l[p])) = p - 1
  <2>1. /\ \A c, d \in 1..m : l[c] = l[d] => c = d
        /\ \A c, d \in 1..m : <<l[c], l[d]>> \in before => c < d
    BY <1>3, OneToOne
  <2>2. /\ l \in [1..m -> S]
        /\ \A i \in S : \E c \in 1..m : l[c] = i
        /\ \A c, d \in 1..m : c < d => <<l[c], l[d]>> \in before
    BY <1>3 DEF Lists
  <2>3. p - 1 \in Nat /\ p \in Nat /\ \A c : c \in 1..(p - 1) <=> c \in 1..m /\ c < p
    BY SMT
  <2> DEFINE g == [c \in 1..(p - 1) |-> l[c]]
  <2>4. g \in Bijection(1..(p - 1), Ahead(l[p]))
    <3>1. \A c \in 1..(p - 1) : l[c] \in Ahead(l[p])
      BY <2>2, <2>3
    <3>2. \A i \in Ahead(l[p]) : \E c \in 1..(p - 1) : l[c] = i
      BY <2>1, <2>2, <2>3
    <3>3. \A c, d \in 1..(p - 1) : l[c] = l[d] => c = d
      BY <2>1, <2>3
    <3> HIDE DEF Ahead
    <3>4. g \in [1..(p - 1) -> Ahead(l[p])] /\ \A c \in 1..(p - 1) : g[c] = l[c]
      BY <3>1
    <3>5. QED
      BY <3>2, <3>3, <3>4, Zenon DEF Bijection, Injection, Surjection, IsInjective
  <2>5. ExistsBijection(1..(p - 1), Ahead(l[p]))
    BY <2>4, Zenon DEF ExistsBijection
  <2>6. IsFiniteSet(1..(p - 1)) /\ Cardinality(1..(p - 1)) = p - 1
    BY <2>3, UpTo
  <2>7. QED
    BY <2>2, <2>5, <2>6, FS_Bijection, ZenonT(60)
<1>4. ASSUME NEW p \in 1..m PROVE list[p] = other[p]
  <2>1. PICK q \in 1..m : other[q] = list[p]
    BY <1>2, <1>3 DEF Lists
  <2>2. Cardinality(Ahead(list[p])) = p - 1 /\ Cardinality(Ahead(list[p])) = q - 1
    BY <1>2, <1>3, <2>1
  <2>3. p = q
    <3>1. p \in Nat /\ q \in Nat /\ p - 1 = q - 1
      BY <2>2, SMT
    <3>2. QED
      BY <3>1, SMT
  <2>4. QED
    BY <2>1, <2>3
<1>5. list = other
  <2>1. list \in [1..m -> S] /\ other \in [1..m -> S]
    BY <1>2 DEF Lists
  <2>2. QED
    BY <1>4, <2>1
<1>6. QED
  BY <1>1, <1>5 DEF other

LEMMA AscendingLists ==
  ASSUME NEW S, IsFiniteSet(S), S \subseteq Int
  PROVE  /\ Ascending(S) \in [1..Cardinality(S) -> S] /\ Cardinality(S) \in Nat
         /\ \A i \in S : \E p \in 1..Cardinality(S) : Ascending(S)[p] = i
         /\ \A p, q \in 1..Cardinality(S) : p < q => Ascending(S)[p] < Ascending(S)[q]
         /\ \A p, q \in 1..Cardinality(S) : Ascending(S)[p] = Ascending(S)[q] => p = q
         /\ Len(Ascending(S)) = Cardinality(S) /\ Range(Ascending(S)) = S
<1> DEFINE lower == {pair \in S \X S : pair[1] < pair[2]}
           n == Cardinality(S)
           a == Ascending(S)
<1>1. \A i, j \in S : <<i, j>> \in lower <=> i < j
  OBVIOUS
<1>2. a = Arranged(S, lower)
  BY DEF Ascending
<1> HIDE DEF lower, a, n
<1>3. StrictOrder(S, lower)
  <2>1. \A i, j, k \in S : ~(i < i) /\ (i < j /\ j < k => i < k) /\ (i # j => i < j \/ j < i)
    BY SMT
  <2>2. QED
    BY <1>1, <2>1 DEF StrictOrder
<1>4. n \in Nat /\ Lists(a, n, S, lower)
  BY <1>2, <1>3, ArrangedLists DEF n
<1>5. \A p, q \in 1..n : a[p] = a[q] => p = q
  BY <1>3, <1>4, OneToOne
<1>6. /\ a \in [1..n -> S]
      /\ \A i \in S : \E p \in 1..n : a[p] = i
      /\ \A p, q \in 1..n : p < q => <<a[p], a[q]>> \in lower
  BY <1>4 DEF Lists
<1>7. \A p, q \in 1..n : p < q => a[p] < a[q]
  BY <1>1, <1>6
<1>8. Len(a) = n
  <2>1. a \in Seq(S)
    BY <1>4, <1>6, SeqDef, Zenon
  <2>2. DOMAIN a = 1..n /\ DOMAIN a = 1..Len(a) /\ Len(a) \in Nat
    BY <1>6, <2>1, LenProperties, Zenon
  <2>3. QED
    BY <1>4, <2>2, SMT
<1>9. Range(a) = S
  BY <1>6 DEF Range
<1>10. QED
  BY <1>4, <1>5, <1>6, <1>7, <1>8, <1>9 DEF a, n

LEMMA OneAscending ==
  ASSUME NEW S, S \subseteq Int, NEW m \in Nat, NEW list \in [1..m -> S],
         \A i \in S : \E p \in 1..m : list[p] = i,
         \A p, q \in 1..m : p < q => list[p] < list[q]
  PROVE  IsFiniteSet(S) /\ m = Cardinality(S) /\ list = Ascending(S)
<1> DEFINE lower == {pair \in S \X S : pair[1] < pair[2]}
<1>1. \A i, j \in S : <<i, j>> \in lower <=> i < j
  OBVIOUS
<1>2. Ascending(S) = Arranged(S, lower)
  BY DEF Ascending
<1> HIDE DEF lower
<1>3. StrictOrder(S, lower)
  <2>1. \A i, j, k \in S : ~(i < i) /\ (i < j /\ j < k => i < k) /\ (i # j => i < j \/ j < i)
    BY SMT
  <2>2. QED
    BY <1>1, <2>1 DEF StrictOrder
<1>4. Lists(list, m, S, lower)
  <2>1. \A p \in 1..m : list[p] \in S
    OBVIOUS
  <2>2. \A p, q \in 1..m : p < q => <<list[p], list[q]>> \in lower
    BY <1>1, <2>1
  <2>3. QED
    BY <2>2 DEF Lists
<1>5. IsFiniteSet(S)
  BY <1>3, <1>4, OneToOne
<1>6. m = Cardinality(S) /\ list = Arranged(S, lower)
  BY <1>3, <1>4, OneArrangement
<1>7. QED
  BY <1>2, <1>5, <1>6
-----------------------------------------------------------------------------
(* Dominance.  Whatever the tolerance, who dominates another is better by    *)
(* one measure: among the feasible the sum of the objectives, among the      *)
(* others the violation.                                                     *)

Better(p, q) ==
  IF Feasible(q) THEN Feasible(p) /\ p.first + p.second < q.first + q.second
  ELSE Feasible(p) \/ p.violation < q.violation

LEMMA DominatesIsBetter ==
  ASSUME NEW p \in Evaluation, NEW q \in Evaluation, NEW t \in Nat, Dominates(p, q, t)
  PROVE  Better(p, q)
<1>1. p.first \in Int /\ p.second \in Int /\ q.first \in Int /\ q.second \in Int
  BY Zenon DEF Evaluation
<1>2. CASE Feasible(p) /\ Feasible(q)
  <2>1. LET d1 == p.first - q.first
            d2 == p.second - q.second
        IN  d1 <= t /\ d2 <= t /\ (d1 < -t \/ d2 < -t)
    BY <1>2, Zenon DEF Dominates
  <2>2. p.first + p.second < q.first + q.second
    BY <1>1, <2>1, SMT
  <2>3. QED
    BY <1>2, <2>2, Zenon DEF Better
<1>3. CASE ~(Feasible(p) /\ Feasible(q))
  BY <1>3, Zenon DEF Dominates, Better
<1>4. QED
  BY <1>2, <1>3

LEMMA BetterOrders ==
  ASSUME NEW p \in Evaluation, NEW q \in Evaluation, NEW r \in Evaluation
  PROVE  ~Better(p, p) /\ (Better(p, q) /\ Better(q, r) => Better(p, r))
<1>1. \A x \in {p, q, r} : x.first \in Int /\ x.second \in Int /\ x.violation \in Int
  BY Zenon DEF Evaluation
<1>2. ~Better(p, p)
  <2>1. ~(p.first + p.second < p.first + p.second) /\ ~(p.violation < p.violation)
    BY <1>1, SMT
  <2>2. QED
    BY <2>1, Zenon DEF Better
<1>3. ASSUME Better(p, q), Better(q, r) PROVE Better(p, r)
  <2>1. /\ p.first + p.second < q.first + q.second /\ q.first + q.second < r.first + r.second
           => p.first + p.second < r.first + r.second
        /\ p.violation < q.violation /\ q.violation < r.violation => p.violation < r.violation
    BY <1>1, SMT
  <2>2. QED
    BY <1>3, <2>1, Zenon DEF Better
<1>4. QED
  BY <1>2, <1>3

\* How many are better than a row.
Weight(rows, i) == Cardinality({j \in DOMAIN rows : Better(rows[j], rows[i])})

LEMMA WeightFacts ==
  ASSUME NEW n \in Nat, NEW rows \in [1..n -> Evaluation], NEW t \in Nat
  PROVE  /\ \A i \in 1..n : Weight(rows, i) \in Nat /\ Weight(rows, i) < n
         /\ \A i, j \in 1..n :
              Dominates(rows[j], rows[i], t) => Weight(rows, j) < Weight(rows, i)
<1> DEFINE Over(i) == {j \in 1..n : Better(rows[j], rows[i])}
<1>1. \A i : Weight(rows, i) = Cardinality(Over(i))
  BY DEF Weight
<1>2. IsFiniteSet(1..n) /\ Cardinality(1..n) = n
  BY UpTo
<1>3. ASSUME NEW i \in 1..n PROVE Weight(rows, i) \in Nat /\ Weight(rows, i) < n
  <2>1. Over(i) \subseteq 1..n /\ i \notin Over(i)
    BY BetterOrders
  <2>2. Cardinality(Over(i)) \in Nat /\ Cardinality(Over(i)) < Cardinality(1..n)
    BY <1>2, <2>1, FewerIn
  <2> HIDE DEF Over
  <2>3. QED
    BY <1>1, <1>2, <2>2
<1>4. ASSUME NEW i \in 1..n, NEW j \in 1..n, Dominates(rows[j], rows[i], t)
      PROVE  Weight(rows, j) < Weight(rows, i)
  <2>1. Better(rows[j], rows[i])
    BY <1>4, DominatesIsBetter
  <2>2. Over(j) \subseteq Over(i) /\ j \in Over(i) /\ j \notin Over(j)
    BY <2>1, BetterOrders
  <2>3. IsFiniteSet(Over(i))
    BY <1>2, FS_Subset
  <2>4. Cardinality(Over(j)) < Cardinality(Over(i))
    BY <2>2, <2>3, FewerIn
  <2> HIDE DEF Over
  <2>5. QED
    BY <1>1, <2>4
<1>5. QED
  BY <1>3, <1>4
-----------------------------------------------------------------------------
(* Layers: a number for every row that is above those of all that dominate   *)
(* it and just above one of them, if any.                                    *)

Layered(rows, t, d) ==
  /\ d \in [DOMAIN rows -> Nat \ {0}]
  /\ \A i, j \in DOMAIN rows : Dominates(rows[j], rows[i], t) => d[j] < d[i]
  /\ \A i \in DOMAIN rows : d[i] > 1 =>
       \E j \in DOMAIN rows : Dominates(rows[j], rows[i], t) /\ d[j] = d[i] - 1

\* What holds of a row if it holds of all that dominate it holds of all rows.
LEMMA LeastRow ==
  ASSUME NEW n \in Nat, NEW rows \in [1..n -> Evaluation], NEW t \in Nat,
         NEW Bad \in SUBSET (1..n), Bad # {}
  PROVE  \E i \in Bad : \A j \in 1..n : Dominates(rows[j], rows[i], t) => j \notin Bad
<1> DEFINE W == {Weight(rows, i) : i \in Bad}
<1>1. /\ \A i \in 1..n : Weight(rows, i) \in Nat
      /\ \A i, j \in 1..n : Dominates(rows[j], rows[i], t) => Weight(rows, j) < Weight(rows, i)
  BY WeightFacts
<1>2. W \in SUBSET Nat /\ W # {}
  BY <1>1
<1>3. PICK w \in W : \A v \in W : w <= v
  BY <1>2, LeastOne, Zenon
<1>4. PICK i \in Bad : w = Weight(rows, i)
  BY <1>3
<1>5. ASSUME NEW j \in 1..n, Dominates(rows[j], rows[i], t), j \in Bad PROVE FALSE
  <2>1. Weight(rows, j) < Weight(rows, i) /\ Weight(rows, j) \in Nat /\ Weight(rows, i) \in Nat
    BY <1>1, <1>5
  <2>2. Weight(rows, i) <= Weight(rows, j)
    BY <1>3, <1>4, <1>5
  <2>3. QED
    BY <2>1, <2>2, SMT
<1>6. QED
  BY <1>4, <1>5

LEMMA LayersAreFew ==
  ASSUME NEW n \in Nat, NEW rows \in [1..n -> Evaluation], NEW t \in Nat,
         NEW d, Layered(rows, t, d)
  PROVE  d \in [1..n -> 1..n]
<1> DEFINE Bad == {i \in 1..n : d[i] > Weight(rows, i) + 1}
<1>1. /\ \A i \in 1..n : Weight(rows, i) \in Nat /\ Weight(rows, i) < n
      /\ \A i, j \in 1..n : Dominates(rows[j], rows[i], t) => Weight(rows, j) < Weight(rows, i)
  BY WeightFacts
<1>2. /\ d \in [1..n -> Nat \ {0}]
      /\ \A i \in 1..n : d[i] > 1 =>
           \E j \in 1..n : Dominates(rows[j], rows[i], t) /\ d[j] = d[i] - 1
  BY DEF Layered
<1>3. Bad = {}
  <2>1. SUFFICES ASSUME Bad # {} PROVE FALSE
    OBVIOUS
  <2>2. PICK i \in Bad : \A j \in 1..n : Dominates(rows[j], rows[i], t) => j \notin Bad
    <3>1. Bad \in SUBSET (1..n)
      OBVIOUS
    <3> HIDE DEF Bad
    <3>2. QED
      BY <2>1, <3>1, LeastRow
  <2>3. i \in 1..n /\ d[i] \in Nat /\ Weight(rows, i) \in Nat /\ d[i] > Weight(rows, i) + 1
    BY <1>1, <1>2
  <2>4. d[i] > 1
    BY <2>3, SMT
  <2>5. PICK j \in 1..n : Dominates(rows[j], rows[i], t) /\ d[j] = d[i] - 1
    BY <1>2, <2>3, <2>4
  <2>6. ~(d[j] > Weight(rows, j) + 1) /\ Weight(rows, j) < Weight(rows, i)
    BY <1>1, <2>2, <2>3, <2>5
  <2>7. d[j] \in Nat /\ Weight(rows, j) \in Nat
    BY <1>1, <1>2
  <2>8. QED
    BY <2>3, <2>5, <2>6, <2>7, SMT
<1>4. ASSUME NEW i \in 1..n PROVE d[i] \in 1..n
  <2>1. ~(d[i] > Weight(rows, i) + 1) /\ Weight(rows, i) \in Nat /\ Weight(rows, i) < n
    BY <1>1, <1>3
  <2>2. d[i] \in Nat \ {0}
    BY <1>2
  <2>3. QED
    BY <2>1, <2>2, SMT
<1>5. QED
  BY <1>2, <1>4

LEMMA OneLayering ==
  ASSUME NEW n \in Nat, NEW rows \in [1..n -> Evaluation], NEW t \in Nat,
         NEW d, Layered(rows, t, d), NEW e, Layered(rows, t, e)
  PROVE  d = e
<1> DEFINE Bad == {i \in 1..n : d[i] # e[i]}
<1>1. ASSUME NEW f, Layered(rows, t, f)
      PROVE  /\ f \in [1..n -> Nat \ {0}]
             /\ \A i, j \in 1..n : Dominates(rows[j], rows[i], t) => f[j] < f[i]
             /\ \A i \in 1..n : f[i] > 1 =>
                  \E j \in 1..n : Dominates(rows[j], rows[i], t) /\ f[j] = f[i] - 1
  BY <1>1 DEF Layered
<1>2. ASSUME NEW f, Layered(rows, t, f), NEW g, Layered(rows, t, g), NEW i \in 1..n,
             \A j \in 1..n : Dominates(rows[j], rows[i], t) => f[j] = g[j]
      PROVE  f[i] <= g[i]
  <2>1. f[i] \in Nat \ {0} /\ g[i] \in Nat \ {0}
    BY <1>1, <1>2
  <2>2. CASE f[i] > 1
    <3>1. PICK j \in 1..n : Dominates(rows[j], rows[i], t) /\ f[j] = f[i] - 1
      BY <1>1, <1>2, <2>2
    <3>2. g[j] = f[i] - 1 /\ g[j] < g[i] /\ g[j] \in Nat
      <4>1. g[j] \in Nat \ {0} /\ g[j] < g[i]
        BY <1>1, <1>2, <3>1
      <4>2. QED
        BY <1>2, <3>1, <4>1
    <3>3. QED
      BY <2>1, <3>2, SMT
  <2>3. CASE ~(f[i] > 1)
    BY <2>1, <2>3, SMT
  <2>4. QED
    BY <2>2, <2>3
<1>3. Bad = {}
  <2>1. SUFFICES ASSUME Bad # {} PROVE FALSE
    OBVIOUS
  <2>2. PICK i \in Bad : \A j \in 1..n : Dominates(rows[j], rows[i], t) => j \notin Bad
    <3>1. Bad \in SUBSET (1..n)
      OBVIOUS
    <3> HIDE DEF Bad
    <3>2. QED
      BY <2>1, <3>1, LeastRow
  <2>3. i \in 1..n /\ d[i] # e[i] /\ \A j \in 1..n : Dominates(rows[j], rows[i], t) => d[j] = e[j]
    BY <2>2
  <2>4. d[i] <= e[i] /\ e[i] <= d[i]
    BY <1>2, <2>3
  <2>5. d[i] \in Nat /\ e[i] \in Nat
    BY <1>1, <2>3
  <2>6. QED
    BY <2>3, <2>4, <2>5, SMT
<1>4. d \in [1..n -> Nat \ {0}] /\ e \in [1..n -> Nat \ {0}]
  BY <1>1
<1>5. \A i \in 1..n : d[i] = e[i]
  BY <1>3
<1>6. d = [i \in 1..n |-> d[i]] /\ e = [i \in 1..n |-> e[i]]
  BY <1>4
<1> HIDE DEF Bad
<1>7. QED
  BY <1>5, <1>6

\* One above the highest of those that dominate a row.
OneAbove(rows, t, f, i) ==
  LET above == {f[j] : j \in {k \in DOMAIN rows : Dominates(rows[k], rows[i], t)}}
  IN  IF above = {} THEN 1 ELSE 1 + Max(above)

Under(rows, t, i, f, b) ==
  \A j \in DOMAIN rows : Dominates(rows[j], rows[i], t) => f[j] \in 1..b
JustAbove(rows, t, i, f, x) ==
  /\ \A j \in DOMAIN rows : Dominates(rows[j], rows[i], t) => f[j] < x
  /\ x > 1 => \E j \in DOMAIN rows : Dominates(rows[j], rows[i], t) /\ f[j] = x - 1
Agree(rows, t, i, f, g) ==
  \A j \in DOMAIN rows : Dominates(rows[j], rows[i], t) => f[j] = g[j]

LEMMA OneAboveFacts ==
  ASSUME NEW n \in Nat, NEW rows \in [1..n -> Evaluation], NEW t \in Nat, NEW i \in 1..n,
         NEW f, NEW b \in Nat, Under(rows, t, i, f, b)
  PROVE  /\ OneAbove(rows, t, f, i) \in 1..(b + 1)
         /\ JustAbove(rows, t, i, f, OneAbove(rows, t, f, i))
<1> DEFINE above == {f[j] : j \in {k \in 1..n : Dominates(rows[k], rows[i], t)}}
           x == OneAbove(rows, t, f, i)
<1>1. x = IF above = {} THEN 1 ELSE 1 + Max(above)
  BY DEF OneAbove
<1>2. /\ \A j \in 1..n : Dominates(rows[j], rows[i], t) => f[j] \in above
      /\ \A v \in above : v \in 1..b /\ \E j \in 1..n : Dominates(rows[j], rows[i], t) /\ f[j] = v
  BY DEF Under
<1> HIDE DEF above, x
<1>3. CASE above = {}
  <2>1. x = 1 /\ 1 \in 1..(b + 1) /\ ~(x > 1)
    BY <1>1, <1>3, SMT
  <2>2. QED
    BY <1>2, <1>3, <2>1 DEF x, JustAbove
<1>4. CASE above # {}
  <2>1. above \in SUBSET (0..b)
    BY <1>2, SMT
  <2>2. Max(above) \in above /\ \A v \in above : v <= Max(above)
    BY <1>4, <2>1, GreatestOne
  <2>3. x = 1 + Max(above)
    BY <1>1, <1>4
  <2>4. Max(above) \in 1..b
    BY <1>2, <2>2
  <2>5. x \in 1..(b + 1) /\ x - 1 = Max(above)
    BY <2>3, <2>4, SMT
  <2>6. \A v \in above : v < x
    <3>1. TAKE v \in above
    <3>2. v \in 1..b /\ v <= Max(above)
      BY <1>2, <2>2
    <3>3. QED
      BY <2>3, <2>4, <3>2, SMT
  <2>7. QED
    BY <1>2, <2>2, <2>5, <2>6 DEF x, JustAbove
<1>5. QED
  BY <1>3, <1>4

LEMMA OneAboveReadsThose ==
  ASSUME NEW n \in Nat, NEW rows \in [1..n -> Evaluation], NEW t \in Nat, NEW i \in 1..n,
         NEW f, NEW g, Agree(rows, t, i, f, g)
  PROVE  OneAbove(rows, t, f, i) = OneAbove(rows, t, g, i)
<1>1. {f[j] : j \in {k \in 1..n : Dominates(rows[k], rows[i], t)}}
      = {g[j] : j \in {k \in 1..n : Dominates(rows[k], rows[i], t)}}
  <2> DEFINE D == {k \in 1..n : Dominates(rows[k], rows[i], t)}
  <2>1. \A j \in D : f[j] = g[j]
    BY DEF Agree
  <2> HIDE DEF D
  <2>2. {f[j] : j \in D} = {g[j] : j \in D}
    BY <2>1
  <2>3. QED
    BY <2>2 DEF D
<1>2. DOMAIN rows = 1..n
  OBVIOUS
<1>3. QED
  BY <1>1, <1>2, Zenon DEF OneAbove

LEMMA DepthLayered ==
  ASSUME NEW n \in Nat, NEW rows \in [1..n -> Evaluation], NEW t \in Nat
  PROVE  Layered(rows, t, Depth(rows, t))
<1> DEFINE W(i) == Weight(rows, i)
           Good(f, m) == /\ f \in [1..n -> Nat \ {0}]
                         /\ \A i \in 1..n : W(i) < m =>
                              f[i] = OneAbove(rows, t, f, i) /\ f[i] <= W(i) + 1
           M == {m \in 0..n : \E f : Good(f, m)}
<1>1. /\ \A i \in 1..n : W(i) \in Nat /\ W(i) < n
      /\ \A i, j \in 1..n : Dominates(rows[j], rows[i], t) => W(j) < W(i)
  BY WeightFacts
<1> HIDE DEF W
<1>2. 0 \in M
  <2> DEFINE f == [i \in 1..n |-> 1]
  <2>1. f \in [1..n -> Nat \ {0}] /\ 0 \in 0..n
    BY SMT
  <2>2. \A i \in 1..n : ~(W(i) < 0)
    BY <1>1, SMT
  <2> HIDE DEF f
  <2>3. Good(f, 0)
    BY <2>1, <2>2
  <2> HIDE DEF Good
  <2>4. QED
    BY <2>1, <2>3
<1>3. ASSUME NEW m \in Nat, NEW f, Good(f, m)
      PROVE  \A i \in 1..n : W(i) <= m =>
               /\ OneAbove(rows, t, f, i) \in 1..(W(i) + 1)
               /\ JustAbove(rows, t, i, f, OneAbove(rows, t, f, i))
  <2>1. TAKE i \in 1..n
  <2>2. HAVE W(i) <= m
  <2>3. Under(rows, t, i, f, W(i))
    <3>1. SUFFICES ASSUME NEW j \in 1..n, Dominates(rows[j], rows[i], t) PROVE f[j] \in 1..W(i)
      BY DEF Under
    <3>2. W(j) < W(i) /\ W(j) \in Nat /\ W(i) \in Nat
      BY <1>1, <3>1
    <3>3. W(j) < m
      BY <2>2, <3>2, SMT
    <3>4. f[j] <= W(j) + 1 /\ f[j] \in Nat \ {0}
      BY <1>3, <3>3
    <3>5. QED
      BY <3>2, <3>4, SMT
  <2>4. W(i) \in Nat /\ f \in [1..n -> Nat \ {0}]
    BY <1>1, <1>3
  <2> HIDE DEF Good
  <2>5. QED
    BY <2>3, <2>4, OneAboveFacts
<1>4. ASSUME NEW m \in M, m < n PROVE m + 1 \in M
  <2>1. PICK f : Good(f, m)
    OBVIOUS
  <2>2. m \in Nat /\ m + 1 \in 0..n /\ \A i \in 1..n : W(i) < m + 1 <=> W(i) <= m
    BY <1>1, <1>4, SMT
  <2> DEFINE g == [i \in 1..n |-> IF W(i) < m THEN f[i] ELSE
                                  IF W(i) = m THEN OneAbove(rows, t, f, i) ELSE 1]
  <2>3. \A i \in 1..n : W(i) <= m => OneAbove(rows, t, f, i) \in 1..(W(i) + 1)
    BY <1>3, <2>1, <2>2
  <2>4. \A i \in 1..n : g[i] \in Nat \ {0}
    <3>1. TAKE i \in 1..n
    <3>2. f[i] \in Nat \ {0} /\ W(i) \in Nat
      BY <1>1, <2>1
    <3>3. W(i) = m => OneAbove(rows, t, f, i) \in Nat \ {0}
      <4>1. W(i) = m => OneAbove(rows, t, f, i) \in 1..(W(i) + 1)
        BY <2>2, <2>3, SMT
      <4>2. QED
        BY <3>2, <4>1, SMT
    <3>4. QED
      BY <3>2, <3>3, SMT
  <2>5. \A i \in 1..n : W(i) <= m => g[i] = OneAbove(rows, t, f, i)
    <3>1. TAKE i \in 1..n
    <3>2. HAVE W(i) <= m
    <3>3. W(i) < m \/ W(i) = m
      BY <1>1, <2>2, <3>2, SMT
    <3>4. W(i) < m => f[i] = OneAbove(rows, t, f, i)
      BY <2>1
    <3>5. W(i) = m => ~(W(i) < m)
      BY <2>2, SMT
    <3>6. QED
      BY <3>3, <3>4, <3>5, Zenon
  <2>6. \A i \in 1..n : W(i) < m => g[i] = f[i]
    OBVIOUS
  <2>7. ASSUME NEW i \in 1..n, W(i) <= m PROVE OneAbove(rows, t, g, i) = OneAbove(rows, t, f, i)
    <3>1. Agree(rows, t, i, g, f)
      <4>1. SUFFICES ASSUME NEW j \in 1..n, Dominates(rows[j], rows[i], t) PROVE g[j] = f[j]
        BY Zenon DEF Agree
      <4>2. W(j) < W(i) /\ W(j) \in Nat /\ W(i) \in Nat
        BY <1>1, <4>1
      <4>3. W(j) < m
        BY <2>2, <2>7, <4>2, SMT
      <4>4. QED
        BY <2>6, <4>3
    <3> HIDE DEF g, Good, M
    <3>2. QED
      BY <3>1, OneAboveReadsThose
  <2>8. g \in [1..n -> Nat \ {0}]
    <3>1. g = [i \in 1..n |-> g[i]]
      OBVIOUS
    <3> HIDE DEF g
    <3>2. QED
      BY <2>4, <3>1
  <2>9. ASSUME NEW i \in 1..n, W(i) < m + 1
        PROVE  g[i] = OneAbove(rows, t, g, i) /\ g[i] <= W(i) + 1
    <3>1. W(i) <= m
      BY <2>2, <2>9
    <3>2. g[i] = OneAbove(rows, t, f, i) /\ OneAbove(rows, t, g, i) = OneAbove(rows, t, f, i)
      BY <2>5, <2>7, <3>1, Zenon
    <3>3. OneAbove(rows, t, f, i) \in 1..(W(i) + 1) /\ W(i) \in Nat
      BY <1>1, <2>3, <3>1
    <3>4. OneAbove(rows, t, f, i) <= W(i) + 1
      BY <3>3, SMT
    <3>5. QED
      BY <3>2, <3>4, Zenon
  <2> HIDE DEF g
  <2>10. Good(g, m + 1)
    BY <2>8, <2>9
  <2> HIDE DEF Good
  <2>11. QED
    BY <2>2, <2>10
<1>5. n \in M
  <2>1. M \in SUBSET (0..n) /\ M # {}
    <3> HIDE DEF Good
    <3>1. QED
      BY <1>2
  <2> HIDE DEF M
  <2>2. Max(M) \in M /\ \A m \in M : m <= Max(M)
    BY <2>1, GreatestOne
  <2> DEFINE top == Max(M)
  <2> HIDE DEF top
  <2>3. top \in 0..n /\ top \in M /\ \A m \in M : m <= top
    BY <2>1, <2>2 DEF top
  <2>4. ~(top < n)
    <3>1. SUFFICES ASSUME top < n PROVE FALSE
      OBVIOUS
    <3>2. top + 1 <= top
      BY <1>4, <2>3, <3>1
    <3>3. QED
      BY <2>3, <3>2, SMT
  <2>5. top = n
    BY <2>3, <2>4, SMT
  <2>6. QED
    BY <2>3, <2>5
<1>6. PICK f : Good(f, n)
  <2> HIDE DEF Good
  <2>1. QED
    BY <1>5
<1>7. f = [i \in 1..n |-> OneAbove(rows, t, f, i)]
  <2>1. f = [i \in 1..n |-> f[i]] /\ \A i \in 1..n : f[i] = OneAbove(rows, t, f, i)
    BY <1>1, <1>6
  <2>2. QED
    BY <2>1, Zenon
<1> DEFINE d == Depth(rows, t)
<1>8. d = CHOOSE e : e = [i \in 1..n |-> OneAbove(rows, t, e, i)]
  BY Zenon DEF Depth, OneAbove
<1> HIDE DEF d
<1>9. d = [i \in 1..n |-> OneAbove(rows, t, d, i)]
  BY <1>7, <1>8, Zenon
<1> DEFINE Bad == {i \in 1..n : d[i] # f[i]}
<1>10. Bad = {}
  <2>1. SUFFICES ASSUME Bad # {} PROVE FALSE
    OBVIOUS
  <2>2. PICK i \in Bad : \A j \in 1..n : Dominates(rows[j], rows[i], t) => j \notin Bad
    <3>1. Bad \in SUBSET (1..n)
      OBVIOUS
    <3> HIDE DEF Bad
    <3>2. QED
      BY <2>1, <3>1, LeastRow
  <2>3. Agree(rows, t, i, d, f)
    BY <2>2 DEF Agree
  <2>4. i \in 1..n /\ d[i] # f[i]
    BY <2>2
  <2>5. OneAbove(rows, t, d, i) = OneAbove(rows, t, f, i)
    BY <2>3, <2>4, OneAboveReadsThose
  <2>6. d[i] = OneAbove(rows, t, d, i) /\ f[i] = OneAbove(rows, t, f, i)
    BY <1>7, <1>9, <2>4, Zenon
  <2>7. QED
    BY <2>4, <2>5, <2>6, Zenon
<1>11. d = f
  <2>1. \A i \in 1..n : d[i] = f[i]
    BY <1>10
  <2>2. d = [i \in 1..n |-> d[i]] /\ f = [i \in 1..n |-> f[i]]
    BY <1>7, <1>9, Zenon
  <2>3. QED
    BY <2>1, <2>2, Zenon
<1>12. \A i \in 1..n : JustAbove(rows, t, i, f, OneAbove(rows, t, f, i))
  <2>1. \A i \in 1..n : W(i) <= n
    BY <1>1, SMT
  <2> HIDE DEF Good
  <2>2. QED
    BY <1>3, <1>6, <2>1
<1>13. \A i \in 1..n : f[i] = OneAbove(rows, t, f, i)
  BY <1>7, Zenon
<1>14. f \in [1..n -> Nat \ {0}]
  BY <1>6
<1>15. Layered(rows, t, f)
  <2>1. \A i \in 1..n : JustAbove(rows, t, i, f, f[i])
    BY <1>12, <1>13, Zenon
  <2>2. DOMAIN rows = 1..n
    OBVIOUS
  <2>3. QED
    BY <1>14, <2>1, <2>2, Zenon DEF Layered, JustAbove
<1>16. QED
  BY <1>11, <1>15 DEF d
-----------------------------------------------------------------------------
(* Fronts *)

LEMMA SeqOf ==
  ASSUME NEW S, NEW m \in Nat, NEW f \in [1..m -> S]
  PROVE  f \in Seq(S) /\ Len(f) = m
<1>1. f \in Seq(S)
  BY SeqDef, Zenon
<1>2. DOMAIN f = 1..m /\ DOMAIN f = 1..Len(f) /\ Len(f) \in Nat
  BY <1>1, LenProperties, Zenon
<1>3. QED
  BY <1>1, <1>2, SMT

LEMMA Leading ==
  ASSUME NEW S, NEW m \in Nat, NEW f \in [1..m -> S], NEW c \in 0..m
  PROVE  SubSeq(f, 1, c) = [p \in 1..c |-> f[p]]
<1>1. c \in Nat /\ c \in Int /\ 1 \in Int /\ 1..c \subseteq 1..m /\ c - 1 + 1 = c
      /\ (IF 1 <= c THEN c - 1 + 1 ELSE 0) = c /\ \A i \in 1..c : 1 + i - 1 = i
  BY SMT
<1>2. \A i \in 1..c : f[i] \in S
  BY <1>1
<1> DEFINE g == SubSeq(f, 1, c)
<1>3. /\ g \in Seq(S)
      /\ Len(g) = IF 1 <= c THEN c - 1 + 1 ELSE 0
      /\ \A i \in 1..(c - 1 + 1) : g[i] = f[1 + i - 1]
  BY <1>1, <1>2, SubSeqProperties
<1> HIDE DEF g
<1>4. Len(g) = c /\ \A i \in 1..c : g[i] = f[i]
  BY <1>1, <1>3
<1>5. g \in [1..c -> S]
  BY <1>3, <1>4, LenProperties
<1>6. g = [i \in 1..c |-> g[i]]
  BY <1>5
<1>7. QED
  BY <1>4, <1>6 DEF g

LEMMA AppendIs ==
  ASSUME NEW S, NEW m \in Nat, NEW f \in [1..m -> S], NEW e \in S
  PROVE  Append(f, e) = [p \in 1..(m + 1) |-> IF p = m + 1 THEN e ELSE f[p]]
<1> DEFINE g == Append(f, e)
<1>1. f \in Seq(S) /\ Len(f) = m
  BY SeqOf
<1>2. /\ g \in Seq(S) /\ Len(g) = m + 1
      /\ (\A i \in 1..m : g[i] = f[i]) /\ g[m + 1] = e
  BY <1>1, AppendProperties
<1> HIDE DEF g
<1>3. g \in [1..(m + 1) -> S]
  BY <1>2, LenProperties
<1>4. \A p \in 1..(m + 1) : p = m + 1 \/ p \in 1..m
  BY SMT
<1>5. \A p \in 1..(m + 1) : g[p] = IF p = m + 1 THEN e ELSE f[p]
  BY <1>2, <1>4, Zenon
<1>6. g = [p \in 1..(m + 1) |-> g[p]]
  BY <1>3
<1>7. QED
  BY <1>5, <1>6 DEF g

Layer(d, k) == {i \in DOMAIN d : d[i] = k}
UpToLayer(d, k) == {i \in DOMAIN d : d[i] <= k}
FirstFronts(d, c) == [k \in 1..c |-> Ascending(Layer(d, k))]

\* The numbers 1 to K for rows 1 to n, each for somebody.
Levels(d, n, K) ==
  /\ n \in Nat \ {0} /\ K \in 1..n
  /\ d \in [1..n -> 1..K]
  /\ \A k \in 1..K : \E i \in 1..n : d[i] = k

LEMMA LayeredLevels ==
  ASSUME NEW n \in Nat \ {0}, NEW rows \in [1..n -> Evaluation], NEW t \in Nat,
         NEW d, Layered(rows, t, d)
  PROVE  \E K \in Nat : Levels(d, n, K)
<1> DEFINE R == {d[i] : i \in 1..n}
           K == Max(R)
<1>1. d \in [1..n -> 1..n]
  BY LayersAreFew
<1>2. R \in SUBSET (0..n) /\ R # {}
  <2>1. 1 \in 1..n /\ 1..n \subseteq 0..n
    BY SMT
  <2>2. QED
    BY <1>1, <2>1
<1>3. K \in R /\ \A k \in R : k <= K
  <2> HIDE DEF R
  <2>1. QED
    BY <1>2, GreatestOne
<1>4. K \in 1..n /\ \A i \in 1..n : d[i] \in 1..n /\ d[i] <= K
  BY <1>1, <1>3
<1> HIDE DEF K
<1>5. d \in [1..n -> 1..K]
  <2>1. \A i \in 1..n : d[i] \in 1..K
    <3>1. TAKE i \in 1..n
    <3>2. d[i] \in 1..n /\ d[i] <= K /\ K \in 1..n
      BY <1>4
    <3>3. QED
      BY <3>2, SMT
  <2>2. QED
    BY <1>1, <2>1
\* The least layer that somebody is in and the one below it is empty.
<1> DEFINE G == {k \in 1..K : \E m \in 1..K : m <= k /\ m \notin R}
<1>6. G = {}
  <2>1. SUFFICES ASSUME G # {} PROVE FALSE
    OBVIOUS
  <2> DEFINE H == {k \in R : \E m \in 1..K : m < k /\ m \notin R}
  <2>2. K \in H
    <3>1. PICK k \in G : TRUE
      BY <2>1
    <3>2. PICK m \in 1..K : m <= k /\ m \notin R
      BY <3>1
    <3>3. m \in Nat /\ m <= K /\ m # K /\ K \in Nat
      <4>1. m # K
        BY <1>3, <3>2
      <4>2. QED
        BY <1>4, <4>1, SMT
    <3>4. m < K
      BY <3>3, SMT
    <3>5. QED
      BY <1>3, <3>2, <3>4
  <2>3. H \in SUBSET Nat
    BY <1>2, SMT
  <2> HIDE DEF H
  <2>4. PICK h \in H : \A v \in H : h <= v
    BY <2>2, <2>3, LeastOne, Zenon
  <2>5. h \in R /\ \E m \in 1..K : m < h /\ m \notin R
    BY <2>4 DEF H
  <2>6. PICK m \in 1..K : m < h /\ m \notin R
    BY <2>5
  <2>7. PICK i \in 1..n : d[i] = h
    BY <2>5
  <2>8. m \in Nat /\ h \in Nat /\ m >= 1 /\ h > 1
    <3>1. m \in Nat /\ m >= 1
      BY <1>4, SMT
    <3>2. h \in Nat
      BY <2>3
    <3>3. QED
      BY <2>6, <3>1, <3>2, SMT
  <2>9. PICK j \in 1..n : d[j] = h - 1
    <3>1. DOMAIN rows = 1..n
      OBVIOUS
    <3>2. QED
      BY <2>7, <2>8, <3>1 DEF Layered
  <2>10. h - 1 \in R
    BY <2>9
  <2>11. m # h - 1
    BY <2>6, <2>10
  <2>12. m < h - 1 /\ h - 1 < h
    BY <2>6, <2>8, <2>11, SMT
  <2>13. h - 1 \in H
    BY <2>6, <2>10, <2>12 DEF H
  <2>14. h <= h - 1
    BY <2>4, <2>13
  <2>15. QED
    BY <2>8, <2>14, SMT
<1>7. \A k \in 1..K : \E i \in 1..n : d[i] = k
  <2>1. TAKE k \in 1..K
  <2>2. k <= k
    BY <1>4, SMT
  <2>3. k \in R
    BY <1>6, <2>2
  <2>4. QED
    BY <2>3
<1>8. K \in Nat
  BY <1>4, SMT
<1>9. Levels(d, n, K)
  BY <1>4, <1>5, <1>7 DEF Levels
<1>10. QED
  BY <1>8, <1>9

LEMMA LayerFacts ==
  ASSUME NEW d, NEW n, NEW K, Levels(d, n, K)
  PROVE  /\ n \in Nat \ {0} /\ K \in Nat \ {0} /\ K <= n /\ DOMAIN d = 1..n
         /\ \A k : Layer(d, k) \subseteq 1..n /\ IsFiniteSet(Layer(d, k)) /\ Layer(d, k) \subseteq Int
         /\ \A k : UpToLayer(d, k) \subseteq 1..n /\ IsFiniteSet(UpToLayer(d, k))
         /\ \A k : Range(Ascending(Layer(d, k))) = Layer(d, k)
         /\ \A k \in 1..K : Layer(d, k) # {}
         /\ UpToLayer(d, K) = 1..n
<1>1. n \in Nat \ {0} /\ K \in 1..n /\ d \in [1..n -> 1..K] /\ \A k \in 1..K : \E i \in 1..n : d[i] = k
  BY DEF Levels
<1>2. n \in Nat /\ K \in Nat \ {0} /\ K <= n /\ 1..n \subseteq Int /\ \A k \in 1..K : k <= K
  BY <1>1, SMT
<1>3. IsFiniteSet(1..n)
  BY <1>2, UpTo
<1>4. \A k : Layer(d, k) \subseteq 1..n /\ UpToLayer(d, k) \subseteq 1..n
  BY <1>1 DEF Layer, UpToLayer
<1>5. \A k : IsFiniteSet(Layer(d, k)) /\ IsFiniteSet(UpToLayer(d, k)) /\ Layer(d, k) \subseteq Int
  BY <1>2, <1>3, <1>4, FS_Subset
<1>6. \A k : Range(Ascending(Layer(d, k))) = Layer(d, k)
  BY <1>5, AscendingLists
<1>7. \A k \in 1..K : Layer(d, k) # {}
  BY <1>1 DEF Layer
<1>8. UpToLayer(d, K) = 1..n
  BY <1>1, <1>2 DEF UpToLayer
<1>9. QED
  BY <1>1, <1>2, <1>4, <1>5, <1>6, <1>7, <1>8

LEMMA FirstFrontsFacts ==
  ASSUME NEW d, NEW n, NEW K, Levels(d, n, K), NEW c \in 0..K
  PROVE  /\ FirstFronts(d, c) \in [1..c -> {Ascending(Layer(d, k)) : k \in 1..K}]
         /\ DOMAIN FirstFronts(d, c) = 1..c /\ Len(FirstFronts(d, c)) = c
         /\ \A k \in 1..c : /\ FirstFronts(d, c)[k] = Ascending(Layer(d, k))
                            /\ Range(FirstFronts(d, c)[k]) = Layer(d, k)
         /\ \A l \in 0..c : RowsIn(FirstFronts(d, c), l) = UpToLayer(d, l)
<1> DEFINE f == FirstFronts(d, c)
           X == {Ascending(Layer(d, k)) : k \in 1..K}
<1>1. K \in Nat /\ \A k : Range(Ascending(Layer(d, k))) = Layer(d, k)
  BY LayerFacts
<1>2. c \in Nat /\ 1..c \subseteq 1..K
  BY <1>1, SMT
<1>3. f \in [1..c -> X] /\ \A k \in 1..c : f[k] = Ascending(Layer(d, k))
  BY <1>2 DEF FirstFronts
<1> HIDE DEF f, X
<1>4. Len(f) = c
  BY <1>2, <1>3, SeqOf
<1>5. \A k \in 1..c : Range(f[k]) = Layer(d, k)
  BY <1>1, <1>3
<1>6. ASSUME NEW l \in 0..c PROVE RowsIn(f, l) = UpToLayer(d, l)
  <2>1. 1..l \subseteq 1..c
    BY <1>2, SMT
  <2>2. \A k \in 1..l : Range(f[k]) = Layer(d, k)
    BY <1>5, <2>1
  <2>3. RowsIn(f, l) = UNION {Layer(d, k) : k \in 1..l}
    <3>1. {Range(f[k]) : k \in 1..l} = {Layer(d, k) : k \in 1..l}
      BY <2>2
    <3>2. QED
      BY <3>1, Zenon DEF RowsIn
  <2>4. \A i \in DOMAIN d : d[i] \in Nat \ {0}
    BY <1>1, SMT DEF Levels
  <2>5. \A i \in DOMAIN d : d[i] \in 1..l <=> d[i] <= l
    BY <1>2, <2>4, SMT
  <2>6. UNION {Layer(d, k) : k \in 1..l} = UpToLayer(d, l)
    <3>1. \A i : i \in UNION {Layer(d, k) : k \in 1..l} <=> \E k \in 1..l : i \in DOMAIN d /\ d[i] = k
      <4>1. \A i, k : i \in Layer(d, k) <=> i \in DOMAIN d /\ d[i] = k
        BY DEF Layer
      <4>2. QED
        BY <4>1
    <3>2. \A i : i \in UpToLayer(d, l) <=> i \in DOMAIN d /\ d[i] <= l
      BY Zenon DEF UpToLayer
    <3>3. \A i : i \in UNION {Layer(d, k) : k \in 1..l} <=> i \in UpToLayer(d, l)
      BY <2>5, <3>1, <3>2
    <3>4. QED
      BY <3>3
  <2>7. QED
    BY <2>3, <2>6
<1>7. QED
  BY <1>3, <1>4, <1>5, <1>6 DEF f, X

LEMMA RebuiltIs ==
  ASSUME NEW d, NEW n, NEW K, Levels(d, n, K)
  PROVE  Rebuilt(d) = FirstFronts(d, K)
<1>1. n \in Nat \ {0} /\ K \in 1..n /\ d \in [1..n -> 1..K] /\ \A k \in 1..K : \E i \in 1..n : d[i] = k
  BY DEF Levels
<1>2. Range(d) = 1..K
  BY <1>1 DEF Range
<1>3. K \in Nat /\ 1..K \subseteq 0..K /\ K \in 1..K /\ \A k \in 1..K : k <= K /\ (K <= k => k = K)
  BY <1>1, SMT
<1>4. Max(1..K) = K
  <2>1. Max(1..K) \in 1..K /\ \A k \in 1..K : k <= Max(1..K)
    BY <1>3, GreatestOne
  <2>2. QED
    BY <1>3, <2>1
<1>5. QED
  BY <1>2, <1>4, Zenon DEF Rebuilt, FirstFronts, Layer

LEMMA FrontsOfIs ==
  ASSUME NEW d, NEW n, NEW K, Levels(d, n, K)
  PROVE  FrontsOf(d) = FirstFronts(d, K)
<1>1. n \in Nat \ {0} /\ K \in 1..n /\ d \in [1..n -> 1..K] /\ \A k \in 1..K : \E i \in 1..n : d[i] = k
  BY DEF Levels
<1>2. Range(d) = 1..K
  BY <1>1 DEF Range
<1>3. K \in Nat /\ 1..K \subseteq Int
  BY <1>1, SMT
<1> DEFINE id == [p \in 1..K |-> p]
<1>4. id \in [1..K -> 1..K] /\ \A p \in 1..K : id[p] = p
  OBVIOUS
<1> HIDE DEF id
<1>5. id = Ascending(1..K)
  <2>1. (\A i \in 1..K : \E p \in 1..K : id[p] = i) /\ (\A p, q \in 1..K : p < q => id[p] < id[q])
    BY <1>4
  <2>2. QED
    BY <1>3, <1>4, <2>1, OneAscending
<1>6. FrontsOf(d) = [k \in DOMAIN id |-> Ascending({i \in DOMAIN d : d[i] = id[k]})]
  BY <1>2, <1>5, Zenon DEF FrontsOf
<1>7. DOMAIN id = 1..K
  BY <1>4
<1>8. FrontsOf(d) = [k \in 1..K |-> Ascending({i \in DOMAIN d : d[i] = id[k]})]
  BY <1>6, <1>7
<1>9. QED
  BY <1>4, <1>8 DEF FirstFronts, Layer

\* Who is dominated by those of the first layers alone is in the next.
LEMMA NextFrontIs ==
  ASSUME NEW n \in Nat, NEW rows \in [1..n -> Evaluation], NEW t \in Nat,
         NEW d, Layered(rows, t, d), NEW K, Levels(d, n, K), NEW k \in Nat
  PROVE  NextFront(rows, UpToLayer(d, k), t) = Layer(d, k + 1)
<1>1. /\ d \in [1..n -> Nat \ {0}]
      /\ \A i, j \in 1..n : Dominates(rows[j], rows[i], t) => d[j] < d[i]
      /\ \A i \in 1..n : d[i] > 1 =>
           \E j \in 1..n : Dominates(rows[j], rows[i], t) /\ d[j] = d[i] - 1
  BY DEF Layered
<1>2. DOMAIN d = 1..n /\ DOMAIN rows = 1..n
  BY <1>1
<1> DEFINE N == NextFront(rows, UpToLayer(d, k), t)
<1>3. \A i : i \in N <=> /\ i \in 1..n /\ ~(d[i] <= k)
                         /\ \A j \in 1..n : Dominates(rows[j], rows[i], t) => d[j] <= k
  BY <1>2 DEF NextFront, UpToLayer
<1>4. \A i : i \in Layer(d, k + 1) <=> i \in 1..n /\ d[i] = k + 1
  BY <1>2 DEF Layer
<1> HIDE DEF N
<1>5. ASSUME NEW i \in N PROVE i \in Layer(d, k + 1)
  <2>1. i \in 1..n /\ d[i] \in Nat /\ ~(d[i] <= k)
    BY <1>1, <1>3
  <2>2. CASE d[i] > 1
    <3>1. PICK j \in 1..n : Dominates(rows[j], rows[i], t) /\ d[j] = d[i] - 1
      BY <1>1, <2>1, <2>2
    <3>2. d[i] - 1 <= k
      BY <1>3, <3>1
    <3>3. d[i] = k + 1
      BY <2>1, <3>2, SMT
    <3>4. QED
      BY <1>4, <2>1, <3>3
  <2>3. CASE ~(d[i] > 1)
    <3>1. d[i] = k + 1
      BY <1>1, <2>1, <2>3, SMT
    <3>2. QED
      BY <1>4, <2>1, <3>1
  <2>4. QED
    BY <2>2, <2>3
<1>6. ASSUME NEW i \in Layer(d, k + 1) PROVE i \in N
  <2>1. i \in 1..n /\ d[i] = k + 1
    BY <1>4
  <2>2. ~(d[i] <= k)
    BY <2>1, SMT
  <2>3. ASSUME NEW j \in 1..n, Dominates(rows[j], rows[i], t) PROVE d[j] <= k
    <3>1. d[j] < k + 1 /\ d[j] \in Nat
      BY <1>1, <2>1, <2>3
    <3>2. QED
      BY <3>1, SMT
  <2>4. QED
    BY <1>3, <2>1, <2>2, <2>3
<1>7. QED
  BY <1>5, <1>6 DEF N

LEMMA PeelIs ==
  ASSUME NEW n \in Nat \ {0}, NEW rows \in [1..n -> Evaluation], NEW t \in Nat,
         NEW d, Layered(rows, t, d), NEW K, Levels(d, n, K)
  PROVE  Peel(rows, t) = FirstFronts(d, K)
<1> DEFINE More(earlier) ==
             LET front == NextFront(rows, RowsIn(earlier, Len(earlier)), t)
             IN  IF front = {} THEN earlier ELSE Append(earlier, Ascending(front))
           Least(k) == IF k <= K THEN k ELSE K
           g == [k \in 0..n |-> FirstFronts(d, Least(k))]
           p == CHOOSE q : q = [k \in 0..n |-> IF k = 0 THEN <<>> ELSE More(q[k - 1])]
<1>1. n \in Nat /\ K \in Nat \ {0} /\ K <= n /\ DOMAIN d = 1..n
  BY LayerFacts
<1>2. ASSUME NEW k \in 0..n, k # 0
      PROVE  /\ k - 1 \in 0..n /\ k - 1 \in Nat /\ Least(k - 1) \in 0..K
             /\ k <= K => Least(k - 1) = k - 1 /\ Least(k) = k /\ k \in 1..K /\ k - 1 + 1 = k
             /\ ~(k <= K) => Least(k - 1) = K /\ Least(k) = K
  BY <1>1, <1>2, SMT
<1>3. Least(0) = 0 /\ Least(n) = K
  BY <1>1, SMT
<1> HIDE DEF Least
<1>4. ASSUME NEW k \in 0..n, k # 0
      PROVE  More(FirstFronts(d, Least(k - 1))) = FirstFronts(d, Least(k))
  <2> DEFINE e == FirstFronts(d, Least(k - 1))
  <2>1. Least(k - 1) \in 0..K /\ Least(k - 1) \in Nat /\ Least(k - 1) \in 0..Least(k - 1)
    <3>1. Least(k - 1) \in 0..K
      BY <1>2, <1>4
    <3>2. QED
      BY <1>1, <3>1, SMT
  <2>2. /\ e \in [1..Least(k - 1) -> {Ascending(Layer(d, m)) : m \in 1..K}]
        /\ Len(e) = Least(k - 1)
        /\ RowsIn(e, Least(k - 1)) = UpToLayer(d, Least(k - 1))
    BY <2>1, FirstFrontsFacts
  <2>3. NextFront(rows, RowsIn(e, Len(e)), t) = Layer(d, Least(k - 1) + 1)
    BY <1>1, <2>1, <2>2, NextFrontIs
  <2> HIDE DEF e
  <2>4. CASE k <= K
    <3>1. Least(k - 1) = k - 1 /\ Least(k) = k /\ k \in 1..K /\ k - 1 + 1 = k /\ k - 1 \in Nat
      BY <1>2, <1>4, <2>4
    <3>2. Layer(d, k) # {}
      BY <3>1, LayerFacts
    <3>3. More(e) = Append(e, Ascending(Layer(d, k)))
      BY <2>3, <3>1, <3>2
    <3>4. Append(e, Ascending(Layer(d, k)))
          = [m \in 1..k |-> IF m = k THEN Ascending(Layer(d, k)) ELSE e[m]]
      <4> DEFINE X == {Ascending(Layer(d, m)) : m \in 1..K}
                 a == Ascending(Layer(d, k))
      <4>1. a \in X /\ e \in [1..(k - 1) -> X]
        BY <2>2, <3>1
      <4> HIDE DEF X, a
      <4>2. Append(e, a) = [m \in 1..(k - 1 + 1) |-> IF m = k - 1 + 1 THEN a ELSE e[m]]
        BY <3>1, <4>1, AppendIs
      <4>3. QED
        BY <3>1, <4>2 DEF a
    <3>5. \A m \in 1..k : m # k => m \in 1..(k - 1)
      BY <3>1, SMT
    <3>6. \A m \in 1..(k - 1) : e[m] = Ascending(Layer(d, m))
      BY <2>1, <3>1, FirstFrontsFacts DEF e
    <3>7. \A m \in 1..k : (IF m = k THEN Ascending(Layer(d, k)) ELSE e[m]) = Ascending(Layer(d, m))
      BY <3>5, <3>6
    <3>8. More(e) = [m \in 1..k |-> Ascending(Layer(d, m))]
      BY <3>3, <3>4, <3>7
    <3>9. QED
      BY <3>1, <3>8 DEF e, FirstFronts
  <2>5. CASE ~(k <= K)
    <3>1. Least(k - 1) = K /\ Least(k) = K
      BY <1>2, <1>4, <2>5
    <3>2. Layer(d, K + 1) = {}
      <4>1. \A i \in 1..n : d[i] # K + 1
        BY <1>1, SMT DEF Levels
      <4>2. QED
        BY <1>1, <4>1 DEF Layer
    <3>3. More(e) = e
      BY <2>3, <3>1, <3>2
    <3>4. QED
      BY <3>1, <3>3 DEF e
  <2>6. QED
    BY <2>4, <2>5
<1>5. g = [k \in 0..n |-> IF k = 0 THEN <<>> ELSE More(g[k - 1])]
  <2>1. FirstFronts(d, 0) = <<>>
    <3>1. 1..0 = {}
      BY SMT
    <3>2. QED
      BY <3>1 DEF FirstFronts
  <2>2. ASSUME NEW k \in 0..n
        PROVE  FirstFronts(d, Least(k)) = IF k = 0 THEN <<>> ELSE More(g[k - 1])
    <3>1. CASE k = 0
      BY <1>3, <2>1, <3>1, Zenon
    <3>2. CASE k # 0
      <4>1. g[k - 1] = FirstFronts(d, Least(k - 1))
        BY <1>2, <3>2, Zenon
      <4>2. More(g[k - 1]) = FirstFronts(d, Least(k))
        <5> HIDE DEF More, g
        <5>1. QED
          BY <1>4, <3>2, <4>1
      <4> HIDE DEF More, g
      <4>3. QED
        BY <3>2, <4>2
    <3>3. QED
      BY <3>1, <3>2
  <2> HIDE DEF More
  <2>3. QED
    BY <2>2, Zenon
<1>6. Peel(rows, t) = p[n]
  <2>1. n = Len(rows)
    BY <1>1, SeqOf
  <2>2. QED
    BY <2>1, Zenon DEF Peel
<1> HIDE DEF More
<1>7. p = [k \in 0..n |-> IF k = 0 THEN <<>> ELSE More(p[k - 1])]
  <2>1. \E q : q = [k \in 0..n |-> IF k = 0 THEN <<>> ELSE More(q[k - 1])]
    BY <1>5
  <2> HIDE DEF g
  <2>2. QED
    BY <2>1, Zenon
<1> HIDE DEF p, g
<1> DEFINE Bad == {k \in 0..n : p[k] # g[k]}
<1>8. Bad = {}
  <2>1. SUFFICES ASSUME Bad # {} PROVE FALSE
    OBVIOUS
  <2>2. Bad \in SUBSET Nat
    BY <1>1, SMT
  <2>3. PICK k \in Bad : \A l \in Bad : k <= l
    BY <2>1, <2>2, LeastOne, Zenon
  <2>4. k \in 0..n /\ p[k] # g[k]
    BY <2>3
  <2>5. k # 0
    BY <1>5, <1>7, <2>4
  <2>6. k - 1 \in 0..n /\ ~(k <= k - 1)
    BY <2>4, <2>5, SMT
  <2>7. p[k - 1] = g[k - 1]
    BY <2>3, <2>6
  <2>8. QED
    BY <1>5, <1>7, <2>4, <2>5, <2>7
<1>9. n \in 0..n
  BY <1>1, SMT
<1>10. p[n] = g[n] /\ g[n] = FirstFronts(d, K)
  <2>1. p[n] = g[n]
    BY <1>8, <1>9
  <2>2. QED
    BY <1>3, <1>9, <2>1, Zenon DEF g
<1>11. QED
  BY <1>6, <1>10
-----------------------------------------------------------------------------
(* The sweep.  At each place of its order stand two objectives, F and S; the *)
(* first k places have their ranks R, of which there are T, and L is the     *)
(* best second objective of each.                                            *)

Under2(F, S, p, q) == F[p] <= F[q] /\ S[p] <= S[q] /\ (F[p] < F[q] \/ S[p] < S[q])

Ranked(k, F, S, R, T, L) ==
  /\ R \in [1..k -> 1..T] /\ L \in [1..T -> Int]
  /\ \A a, b \in 1..T : a <= b => L[a] <= L[b]
  /\ \A q \in 1..k : L[R[q]] <= S[q]
  /\ \A a \in 1..T : \E q \in 1..k : R[q] = a /\ S[q] = L[a]
  /\ \A p, q \in 1..k : Under2(F, S, p, q) => R[p] < R[q]
  /\ \A q \in 1..k : R[q] > 1 => \E p \in 1..k : Under2(F, S, p, q) /\ R[p] = R[q] - 1

Beyond(F, S, k) == \A q \in 1..k : F[q] < F[k + 1] \/ (F[q] = F[k + 1] /\ S[q] < S[k + 1])
Cut(L, T, x, c) == \A a \in 1..T : L[a] <= x <=> a <= c
Extended(R, k, r) == [q \in 1..(k + 1) |-> IF q = k + 1 THEN r ELSE R[q]]
BestLowered(L, U, c, x) == [a \in 1..U |-> IF a = c + 1 THEN x ELSE L[a]]

LEMMA Nobody ==
  ASSUME NEW F, NEW S, NEW R, NEW L, DOMAIN R = {}, DOMAIN L = {},
         R = [q \in {} |-> 0], L = [q \in {} |-> 0]
  PROVE  Ranked(0, F, S, R, 0, L)
<1>1. 1..0 = {}
  BY SMT
<1>2. QED
  BY <1>1 DEF Ranked

\* The next place repeats the last one.
LEMMA RankedAgain ==
  ASSUME NEW m \in Nat, NEW F \in [1..m -> Int], NEW S \in [1..m -> Int],
         NEW k \in 1..m, k < m, NEW T \in Nat, NEW R, NEW L, Ranked(k, F, S, R, T, L),
         F[k + 1] = F[k], S[k + 1] = S[k]
  PROVE  Ranked(k + 1, F, S, Extended(R, k, R[k]), T, L)
<1> DEFINE A == [q \in 1..(k + 1) |-> IF q = k + 1 THEN R[k] ELSE R[q]]
           was(q) == IF q = k + 1 THEN k ELSE q
<1>1. /\ k \in Nat /\ k \in 1..k /\ k + 1 \in 1..(k + 1) /\ 1..(k + 1) \subseteq 1..m
      /\ 1..k \subseteq 1..(k + 1)
      /\ \A q \in 1..(k + 1) : q = k + 1 \/ q \in 1..k
      /\ \A q \in 1..k : q # k + 1
  BY SMT
<1>2. /\ R \in [1..k -> 1..T] /\ L \in [1..T -> Int]
      /\ \A a, b \in 1..T : a <= b => L[a] <= L[b]
      /\ \A q \in 1..k : L[R[q]] <= S[q]
      /\ \A a \in 1..T : \E q \in 1..k : R[q] = a /\ S[q] = L[a]
      /\ \A p, q \in 1..k : Under2(F, S, p, q) => R[p] < R[q]
      /\ \A q \in 1..k : R[q] > 1 => \E p \in 1..k : Under2(F, S, p, q) /\ R[p] = R[q] - 1
  BY DEF Ranked
<1>3. \A q \in 1..(k + 1) : was(q) \in 1..k /\ F[q] = F[was(q)] /\ S[q] = S[was(q)] /\ A[q] = R[was(q)]
  BY <1>1
<1>4. \A q \in 1..k : was(q) = q
  BY <1>1
<1>5. A \in [1..(k + 1) -> 1..T]
  BY <1>1, <1>2
<1> HIDE DEF A, was
<1>6. \A q \in 1..(k + 1) : L[A[q]] <= S[q]
  BY <1>2, <1>3
<1>7. \A a \in 1..T : \E q \in 1..(k + 1) : A[q] = a /\ S[q] = L[a]
  <2>1. TAKE a \in 1..T
  <2>2. PICK q \in 1..k : R[q] = a /\ S[q] = L[a]
    BY <1>2
  <2>3. q \in 1..(k + 1) /\ A[q] = a
    BY <1>1, <1>3, <1>4, <2>2
  <2>4. QED
    BY <2>2, <2>3
<1>8. \A p, q \in 1..(k + 1) : Under2(F, S, p, q) <=> Under2(F, S, was(p), was(q))
  BY <1>3, Zenon DEF Under2
<1>9. \A p, q \in 1..(k + 1) : Under2(F, S, p, q) => A[p] < A[q]
  BY <1>2, <1>3, <1>8
<1>10. ASSUME NEW q \in 1..(k + 1), A[q] > 1
       PROVE  \E p \in 1..(k + 1) : Under2(F, S, p, q) /\ A[p] = A[q] - 1
  <2>1. was(q) \in 1..k /\ R[was(q)] = A[q]
    BY <1>3
  <2> DEFINE w == was(q)
  <2> HIDE DEF w
  <2>6. w \in 1..k /\ R[w] = A[q] /\ R[w] > 1
    BY <1>10, <2>1 DEF w
  <2>7. \E p \in 1..k : Under2(F, S, p, w) /\ R[p] = R[w] - 1
    BY <1>2, <2>6, Zenon
  <2>2. PICK p \in 1..k : Under2(F, S, p, was(q)) /\ R[p] = A[q] - 1
    BY <2>6, <2>7, Zenon DEF w
  <2>3. p \in 1..(k + 1) /\ was(p) = p /\ A[p] = R[p]
    BY <1>1, <1>3, <1>4
  <2>4. Under2(F, S, p, q)
    BY <1>8, <2>2, <2>3
  <2>5. QED
    BY <2>2, <2>3, <2>4
<1>11. QED
  BY <1>2, <1>5, <1>6, <1>7, <1>9, <1>10, Zenon DEF Ranked, A, Extended

\* The next place is worth less than any before it by its first objective or,
\* among equals, by its second: it goes above the ranks that have a better second.
LEMMA RankedNew ==
  ASSUME NEW m \in Nat, NEW F \in [1..m -> Int], NEW S \in [1..m -> Int],
         NEW k \in 0..m, k < m, NEW T \in Nat, NEW R, NEW L, Ranked(k, F, S, R, T, L),
         Beyond(F, S, k), NEW c \in 0..T, Cut(L, T, S[k + 1], c),
         NEW U \in Nat, U = IF c = T THEN T + 1 ELSE T
  PROVE  Ranked(k + 1, F, S, Extended(R, k, c + 1), U, BestLowered(L, U, c, S[k + 1]))
<1> DEFINE A == [q \in 1..(k + 1) |-> IF q = k + 1 THEN c + 1 ELSE R[q]]
           M == [a \in 1..U |-> IF a = c + 1 THEN S[k + 1] ELSE L[a]]
           x == S[k + 1]
<1>1. /\ k \in Nat /\ k + 1 \in 1..(k + 1) /\ k + 1 \in 1..m /\ 1..(k + 1) \subseteq 1..m
      /\ 1..k \subseteq 1..(k + 1)
      /\ 1..k \subseteq 1..m
      /\ \A q \in 1..(k + 1) : q = k + 1 \/ q \in 1..k
      /\ \A q \in 1..k : q # k + 1
  BY SMT
<1>2. /\ R \in [1..k -> 1..T] /\ L \in [1..T -> Int]
      /\ \A a, b \in 1..T : a <= b => L[a] <= L[b]
      /\ \A q \in 1..k : L[R[q]] <= S[q]
      /\ \A a \in 1..T : \E q \in 1..k : R[q] = a /\ S[q] = L[a]
      /\ \A p, q \in 1..k : Under2(F, S, p, q) => R[p] < R[q]
      /\ \A q \in 1..k : R[q] > 1 => \E p \in 1..k : Under2(F, S, p, q) /\ R[p] = R[q] - 1
  BY DEF Ranked
<1>3. c \in Nat /\ c + 1 \in 1..U /\ 1..T \subseteq 1..U /\ \A a \in 1..U : a = c + 1 \/ a \in 1..T
  BY SMT
<1>4. x \in Int /\ \A q \in 1..k : S[q] \in Int /\ F[q] \in Int /\ F[k + 1] \in Int
  BY <1>1
<1>5. /\ \A q \in 1..k : A[q] = R[q]
      /\ A[k + 1] = c + 1
      /\ A \in [1..(k + 1) -> 1..U]
  BY <1>1, <1>2, <1>3
<1>6. /\ M \in [1..U -> Int] /\ M[c + 1] = x
      /\ \A a \in 1..T : a # c + 1 => M[a] = L[a]
  BY <1>2, <1>3, <1>4
<1>7. \A a \in 1..T : (L[a] <= x <=> a <= c) /\ L[a] \in Int
  BY <1>2 DEF Cut
\* A rank loses nothing of how good its best is.
<1>8. \A a \in 1..T : M[a] <= L[a]
  <2>1. TAKE a \in 1..T
  <2>2. CASE a = c + 1
    <3>1. ~(a <= c)
      BY <1>3, <2>2, SMT
    <3>2. x <= L[a]
      BY <1>4, <1>7, <3>1, SMT
    <3>3. QED
      BY <1>6, <2>2, <3>2
  <2>3. CASE a # c + 1
    <3>1. L[a] <= L[a]
      BY <1>7, SMT
    <3>2. QED
      BY <1>6, <2>3, <3>1
  <2>4. QED
    BY <2>2, <2>3
<1> HIDE DEF A, M, x
<1>9. ASSUME NEW a \in 1..U, NEW b \in 1..U, a <= b PROVE M[a] <= M[b]
  <2>1. a \in Nat /\ b \in Nat /\ M[a] \in Int /\ M[b] \in Int
    BY <1>6, SMT
  <2>2. CASE a = b
    BY <2>1, <2>2, SMT
  <2>3. CASE a = c + 1 /\ a # b
    <3>1. b \in 1..T /\ b # c + 1 /\ ~(b <= c)
      <4>1. b # c + 1 /\ ~(b <= c)
        BY <1>3, <1>9, <2>1, <2>3, SMT
      <4>2. QED
        BY <1>3, <4>1
    <3>2. M[b] = L[b] /\ ~(L[b] <= x) /\ L[b] \in Int
      BY <1>6, <1>7, <3>1
    <3>3. x <= M[b]
      BY <1>4, <3>2, SMT
    <3>4. QED
      BY <1>6, <2>3, <3>3
  <2>4. CASE b = c + 1 /\ a # b
    <3>1. a \in 1..T /\ a # c + 1 /\ a <= c
      <4>1. a # c + 1 /\ a <= c
        BY <1>3, <1>9, <2>1, <2>4, SMT
      <4>2. QED
        BY <1>3, <4>1
    <3>2. M[a] = L[a] /\ L[a] <= x
      BY <1>6, <1>7, <3>1
    <3>3. QED
      BY <1>6, <2>4, <3>2
  <2>5. CASE a # c + 1 /\ b # c + 1
    <3>1. a \in 1..T /\ b \in 1..T
      BY <1>3, <2>5
    <3>2. M[a] = L[a] /\ M[b] = L[b] /\ L[a] <= L[b]
      BY <1>2, <1>6, <1>9, <2>5, <3>1
    <3>3. QED
      BY <3>2
  <2>6. QED
    BY <2>2, <2>3, <2>4, <2>5
<1>10. ASSUME NEW q \in 1..(k + 1) PROVE M[A[q]] <= S[q]
  <2>1. CASE q = k + 1
    <3>1. M[A[q]] = x /\ S[q] = x
      BY <1>5, <1>6, <2>1 DEF x
    <3>2. QED
      BY <1>4, <3>1, SMT
  <2>2. CASE q # k + 1
    <3>1. q \in 1..k /\ A[q] = R[q] /\ R[q] \in 1..T
      BY <1>1, <1>2, <1>5, <2>2
    <3>2. M[R[q]] <= L[R[q]] /\ L[R[q]] <= S[q]
      BY <1>2, <1>8, <3>1
    <3>3. M[R[q]] \in Int /\ L[R[q]] \in Int /\ S[q] \in Int
      BY <1>3, <1>4, <1>6, <1>7, <3>1
    <3>4. M[R[q]] <= S[q]
      BY <3>2, <3>3, SMTT(40)
    <3>5. QED
      BY <3>1, <3>4
  <2>3. QED
    BY <2>1, <2>2
<1>11. ASSUME NEW a \in 1..U PROVE \E q \in 1..(k + 1) : A[q] = a /\ S[q] = M[a]
  <2>1. CASE a = c + 1
    BY <1>1, <1>5, <1>6, <2>1 DEF x
  <2>2. CASE a # c + 1
    <3>1. a \in 1..T
      BY <1>3, <2>2
    <3>2. PICK q \in 1..k : R[q] = a /\ S[q] = L[a]
      BY <1>2, <3>1
    <3>3. A[q] = a /\ S[q] = M[a]
      BY <1>5, <1>6, <2>2, <3>1, <3>2
    <3>4. QED
      BY <1>1, <3>3
  <2>3. QED
    BY <2>1, <2>2
\* Whom the new one is below: all with a second objective as good as its own.
<1>12. ASSUME NEW q \in 1..k
       PROVE  (Under2(F, S, q, k + 1) <=> S[q] <= x) /\ ~Under2(F, S, k + 1, q)
  <2>1. F[q] < F[k + 1] \/ (F[q] = F[k + 1] /\ S[q] < x)
    BY DEF x, Beyond
  <2>2. F[q] \in Int /\ F[k + 1] \in Int /\ S[q] \in Int /\ x \in Int
    BY <1>4
  <2>3. (F[q] <= F[k + 1] /\ S[q] <= x /\ (F[q] < F[k + 1] \/ S[q] < x)) <=> S[q] <= x
    BY <2>1, <2>2, SMT
  <2>4. ~(F[k + 1] <= F[q] /\ x <= S[q] /\ (F[k + 1] < F[q] \/ x < S[q]))
    BY <2>1, <2>2, SMT
  <2>5. QED
    BY <2>3, <2>4, Zenon DEF Under2, x
<1>13. ASSUME NEW p \in 1..(k + 1), NEW q \in 1..(k + 1), Under2(F, S, p, q) PROVE A[p] < A[q]
  <2>1. CASE p = k + 1
    <3>1. CASE q = k + 1
      <4>1. F[k + 1] \in Int /\ x \in Int
        BY <1>1 DEF x
      <4>2. ~(F[k + 1] < F[k + 1]) /\ ~(x < x)
        BY <4>1, SMT
      <4>3. QED
        BY <1>13, <2>1, <3>1, <4>2 DEF Under2, x
    <3>2. CASE q # k + 1
      BY <1>1, <1>12, <1>13, <2>1, <3>2
    <3>3. QED
      BY <3>1, <3>2
  <2>2. CASE p # k + 1 /\ q = k + 1
    <3>1. p \in 1..k /\ A[p] = R[p] /\ R[p] \in 1..T /\ A[q] = c + 1
      BY <1>1, <1>2, <1>5, <2>2
    <3>2. S[p] <= x
      BY <1>12, <1>13, <2>2, <3>1
    <3>3. L[R[p]] <= S[p] /\ L[R[p]] \in Int /\ S[p] \in Int
      BY <1>2, <1>4, <1>7, <3>1
    <3>4. L[R[p]] <= x
      BY <1>4, <3>2, <3>3, SMT
    <3>5. R[p] <= c
      BY <1>7, <3>1, <3>4
    <3>6. R[p] < c + 1
      BY <1>3, <3>1, <3>5, SMTT(40)
    <3>7. QED
      BY <3>1, <3>6
  <2>3. CASE p # k + 1 /\ q # k + 1
    <3>1. p \in 1..k /\ q \in 1..k
      BY <1>1, <2>3
    <3>2. QED
      BY <1>2, <1>5, <1>13, <3>1
  <2>4. QED
    BY <2>1, <2>2, <2>3
<1>14. ASSUME NEW q \in 1..(k + 1), A[q] > 1
       PROVE  \E p \in 1..(k + 1) : Under2(F, S, p, q) /\ A[p] = A[q] - 1
  <2>1. CASE q = k + 1
    <3>1. A[q] = c + 1 /\ c \in 1..T /\ c <= c /\ c + 1 - 1 = c
      <4>1. A[q] = c + 1
        BY <1>5, <2>1
      <4>2. QED
        BY <1>3, <1>14, <4>1, SMT
    <3>2. L[c] <= x
      BY <1>7, <3>1
    <3>3. PICK p \in 1..k : R[p] = c /\ S[p] = L[c]
      BY <1>2, <3>1
    <3>4. Under2(F, S, p, q) /\ A[p] = A[q] - 1 /\ p \in 1..(k + 1)
      BY <1>1, <1>5, <1>12, <2>1, <3>1, <3>2, <3>3
    <3>5. QED
      BY <3>4
  <2>2. CASE q # k + 1
    <3>1. q \in 1..k /\ A[q] = R[q]
      BY <1>1, <1>5, <2>2
    <3>2. PICK p \in 1..k : Under2(F, S, p, q) /\ R[p] = R[q] - 1
      BY <1>2, <1>14, <3>1
    <3>3. QED
      BY <1>1, <1>5, <3>1, <3>2
  <2>3. QED
    BY <2>1, <2>2
<1>15. QED
  BY <1>5, <1>6, <1>9, <1>10, <1>11, <1>13, <1>14, Zenon DEF Ranked, A, M, x, Extended, BestLowered

LEMMA FeasibleDominates ==
  ASSUME NEW p \in Evaluation, NEW q \in Evaluation, Feasible(p), Feasible(q)
  PROVE  Dominates(p, q, 0) <=>
           p.first <= q.first /\ p.second <= q.second /\ (p.first < q.first \/ p.second < q.second)
<1>1. p.first \in Int /\ p.second \in Int /\ q.first \in Int /\ q.second \in Int
  BY Zenon DEF Evaluation
<1>2. Dominates(p, q, 0) <=>
        /\ p.first - q.first <= 0 /\ p.second - q.second <= 0
        /\ p.first - q.first < -0 \/ p.second - q.second < -0
  BY Zenon DEF Dominates
<1>3. /\ p.first - q.first <= 0 <=> p.first <= q.first
      /\ p.second - q.second <= 0 <=> p.second <= q.second
      /\ p.first - q.first < -0 <=> p.first < q.first
      /\ p.second - q.second < -0 <=> p.second < q.second
  BY <1>1, SMT
<1>4. QED
  BY <1>2, <1>3, Zenon

LEMMA PartitionFacts ==
  ASSUME NEW T \in Nat, NEW L \in [1..T -> Int], NEW x \in Int,
         \A a, b \in 1..T : a <= b => L[a] <= L[b]
  PROVE  /\ PartitionPoint(L, x) \in 0..T
         /\ \A a \in 1..T : L[a] <= x <=> a <= PartitionPoint(L, x)
<1> DEFINE P == {k \in 1..T : L[k] <= x}
<1>1. PartitionPoint(L, x) = Cardinality(P)
  BY DEF PartitionPoint
<1>2. \A a \in P : \A c \in 1..T : c <= a => c \in P
  <2>1. SUFFICES ASSUME NEW a \in P, NEW c \in 1..T, c <= a PROVE L[c] <= x
    OBVIOUS
  <2>2. L[c] \in Int /\ L[a] \in Int /\ L[c] <= L[a] /\ L[a] <= x
    BY <2>1
  <2>3. QED
    BY <2>2, SMT
<1>3. P \in SUBSET (1..T)
  OBVIOUS
<1>4. \A a \in 1..T : a \in P <=> L[a] <= x
  OBVIOUS
<1> HIDE DEF P
<1>5. Cardinality(P) \in 0..T /\ P = 1..Cardinality(P)
  BY <1>2, <1>3, InitialPart
<1>6. \A a \in 1..T : a \in 1..Cardinality(P) <=> a <= Cardinality(P)
  BY <1>5, SMT
<1>7. QED
  BY <1>1, <1>4, <1>5, <1>6

FeasibleOnes(rows) == {i \in DOMAIN rows : Feasible(rows[i])}
Firsts(rows, o) == [q \in DOMAIN o |-> rows[o[q]].first]
Seconds(rows, o) == [q \in DOMAIN o |-> rows[o[q]].second]

SweepOrder(rows, o, m) ==
  /\ m \in Nat /\ o \in [1..m -> FeasibleOnes(rows)]
  /\ \A i \in FeasibleOnes(rows) : \E p \in 1..m : o[p] = i
  /\ \A p, q \in 1..m : o[p] = o[q] => p = q
  /\ \A p, q \in 1..m : p < q => Earlier(rows, o[p], o[q])

LEMMA SweptFacts ==
  ASSUME NEW n \in Nat, NEW rows \in [1..n -> Evaluation]
  PROVE  Len(Swept(rows)) \in Nat /\ SweepOrder(rows, Swept(rows), Len(Swept(rows)))
<1> DEFINE feas == FeasibleOnes(rows)
           before == {pair \in feas \X feas : Earlier(rows, pair[1], pair[2])}
           o == Swept(rows)
           m == Cardinality(feas)
<1>1. o = Arranged(feas, before)
  BY DEF Swept, FeasibleOnes
<1>2. feas \subseteq 1..n /\ IsFiniteSet(feas)
  <2>1. feas \subseteq 1..n /\ IsFiniteSet(1..n)
    BY UpTo DEF FeasibleOnes
  <2>2. QED
    BY <2>1, FS_Subset
<1>3. \A i, j \in feas : <<i, j>> \in before <=> Earlier(rows, i, j)
  OBVIOUS
<1> HIDE DEF before, feas, o, m
<1>4. \A i \in feas : rows[i].first \in Int /\ rows[i].second \in Int /\ i \in Int
  <2>1. TAKE i \in feas
  <2>2. rows[i] \in Evaluation /\ i \in 1..n
    BY <1>2
  <2>3. rows[i].first \in Int /\ rows[i].second \in Int
    BY <2>2, Zenon DEF Evaluation
  <2>4. QED
    BY <2>2, <2>3
<1>5. StrictOrder(feas, before)
  <2>1. ASSUME NEW i \in feas PROVE ~Earlier(rows, i, i)
    <3>1. ~(rows[i].first < rows[i].first) /\ ~(rows[i].second < rows[i].second) /\ ~(i < i)
      BY <1>4, SMT
    <3>2. QED
      BY <3>1, Zenon DEF Earlier
  <2>2. ASSUME NEW i \in feas, NEW j \in feas, NEW k \in feas, Earlier(rows, i, j), Earlier(rows, j, k)
        PROVE  Earlier(rows, i, k)
    <3> DEFINE fi == rows[i].first
               fj == rows[j].first
               fk == rows[k].first
               si == rows[i].second
               sj == rows[j].second
               sk == rows[k].second
    <3>1. /\ fi \in Int /\ fj \in Int /\ fk \in Int /\ si \in Int /\ sj \in Int /\ sk \in Int
          /\ i \in Int /\ j \in Int /\ k \in Int
      BY <1>4
    <3>2. /\ fi < fj \/ (fi = fj /\ (si < sj \/ (si = sj /\ i < j)))
          /\ fj < fk \/ (fj = fk /\ (sj < sk \/ (sj = sk /\ j < k)))
      BY <2>2, Zenon DEF Earlier
    <3> HIDE DEF fi, fj, fk, si, sj, sk
    <3>3. fi < fk \/ (fi = fk /\ (si < sk \/ (si = sk /\ i < k)))
      BY <3>1, <3>2, SMT
    <3>4. QED
      BY <3>3, Zenon DEF Earlier, fi, fk, si, sk
  <2>3. ASSUME NEW i \in feas, NEW j \in feas, i # j PROVE Earlier(rows, i, j) \/ Earlier(rows, j, i)
    <3>1. /\ rows[i].first < rows[j].first \/ rows[j].first < rows[i].first
             \/ rows[i].first = rows[j].first
          /\ rows[i].second < rows[j].second \/ rows[j].second < rows[i].second
             \/ rows[i].second = rows[j].second
          /\ i < j \/ j < i
      BY <1>4, <2>3, SMT
    <3>2. QED
      BY <3>1, Zenon DEF Earlier
  <2>4. QED
    BY <1>3, <2>1, <2>2, <2>3 DEF StrictOrder
<1>6. m \in Nat /\ Lists(o, m, feas, before)
  BY <1>1, <1>2, <1>5, ArrangedLists DEF m
<1>7. \A p, q \in 1..m : o[p] = o[q] => p = q
  BY <1>5, <1>6, OneToOne
<1>8. /\ o \in [1..m -> feas]
      /\ \A i \in feas : \E p \in 1..m : o[p] = i
      /\ \A p, q \in 1..m : p < q => <<o[p], o[q]>> \in before
  BY <1>6 DEF Lists
<1>9. \A p, q \in 1..m : p < q => Earlier(rows, o[p], o[q])
  BY <1>3, <1>8
<1>10. Len(o) = m
  BY <1>6, <1>8, SeqOf
<1>11. SweepOrder(rows, o, m)
  BY <1>6, <1>7, <1>8, <1>9 DEF SweepOrder, feas
<1>12. QED
  BY <1>6, <1>10, <1>11 DEF o

RankedPlaces(rows, o, k, rank, tails) ==
  \E T \in Nat : /\ tails \in [1..T -> Int]
                 /\ Ranked(k, Firsts(rows, o), Seconds(rows, o), [q \in 1..k |-> rank[o[q]]], T, tails)

SweepOK(rows, o, s, k) ==
  /\ s.last = IF k = 0 THEN 0 ELSE o[k]
  /\ s.rank \in [DOMAIN rows -> Nat]
  /\ RankedPlaces(rows, o, k, s.rank, s.tails)

LEMMA SweepRowStep ==
  ASSUME NEW n \in Nat, NEW rows \in [1..n -> Evaluation], NEW o, NEW m \in Nat, SweepOrder(rows, o, m),
         NEW k \in 0..m, k < m, NEW s, SweepOK(rows, o, s, k)
  PROVE  SweepOK(rows, o, SweepRow(rows, s, o[k + 1]), k + 1)
<1> DEFINE i == o[k + 1]
           same == /\ s.last # 0 /\ rows[s.last].first = rows[i].first
                   /\ rows[s.last].second = rows[i].second
           c == PartitionPoint(s.tails, rows[i].second)
           rank == IF same THEN s.rank[s.last] ELSE c + 1
           tails == IF same THEN s.tails
                    ELSE IF rank > Len(s.tails) THEN Append(s.tails, rows[i].second)
                    ELSE [s.tails EXCEPT ![rank] = IF @ <= rows[i].second THEN @ ELSE rows[i].second]
           F == Firsts(rows, o)
           S == Seconds(rows, o)
           R == [q \in 1..k |-> s.rank[o[q]]]
           next == [s.rank EXCEPT ![i] = rank]
           A == [q \in 1..(k + 1) |-> next[o[q]]]
<1>1. SweepRow(rows, s, i) = [last |-> i, rank |-> next, tails |-> tails]
  BY Zenon DEF SweepRow
<1>2. /\ o \in [1..m -> FeasibleOnes(rows)] /\ FeasibleOnes(rows) \subseteq 1..n
      /\ \A p, q \in 1..m : o[p] = o[q] => p = q
      /\ \A p, q \in 1..m : p < q => Earlier(rows, o[p], o[q])
  BY DEF SweepOrder, FeasibleOnes
<1>3. /\ k \in Nat /\ k + 1 \in 1..m /\ k + 1 \in 1..(k + 1)
      /\ 1..k \subseteq 1..m /\ 1..(k + 1) \subseteq 1..m
      /\ ~(k + 1 = 0) /\ (k # 0 => k \in 1..m /\ k \in 1..k /\ k < k + 1)
      /\ \A q \in 1..(k + 1) : q = k + 1 \/ q \in 1..k
      /\ \A q \in 1..k : q # k + 1 /\ q < k + 1 /\ (q = k \/ q < k) /\ k # 0
  BY SMT
<1>4. \A q \in 1..m : o[q] \in 1..n /\ o[q] # 0 /\ rows[o[q]] \in Evaluation
  BY <1>2, SMT
<1>5. \A q \in 1..m : rows[o[q]].first \in Int /\ rows[o[q]].second \in Int
  BY <1>4, Zenon DEF Evaluation
<1>6. /\ F \in [1..m -> Int] /\ S \in [1..m -> Int]
      /\ \A q \in 1..m : F[q] = rows[o[q]].first /\ S[q] = rows[o[q]].second
  BY <1>2, <1>5 DEF Firsts, Seconds
<1>7. /\ s.last = IF k = 0 THEN 0 ELSE o[k]
      /\ s.rank \in [1..n -> Nat]
  BY DEF SweepOK
<1>8. PICK T \in Nat : s.tails \in [1..T -> Int] /\ Ranked(k, F, S, R, T, s.tails)
  BY DEF SweepOK, RankedPlaces
<1>9. Len(s.tails) = T
  BY <1>8, SeqOf
<1>10. /\ i \in 1..n /\ rows[i].second = S[k + 1] /\ rows[i].first = F[k + 1]
       /\ S[k + 1] \in Int /\ F[k + 1] \in Int
  BY <1>3, <1>4, <1>6
<1>11. \A a, b \in 1..T : a <= b => s.tails[a] <= s.tails[b]
  BY <1>8 DEF Ranked
<1>12. c \in 0..T /\ \A a \in 1..T : s.tails[a] <= S[k + 1] <=> a <= c
  BY <1>8, <1>10, <1>11, PartitionFacts
<1>13. \A q \in 1..k : o[q] # i
  BY <1>2, <1>3
<1>14. rank \in Nat
  <2>1. CASE same
    <3>1. k # 0
      BY <1>7, <2>1
    <3>2. s.rank[s.last] \in Nat
      BY <1>3, <1>4, <1>7, <3>1
    <3>3. QED
      BY <2>1, <3>2
  <2>2. CASE ~same
    BY <1>12, <2>2, SMT
  <2>3. QED
    BY <2>1, <2>2
<1> HIDE DEF F, S, R, c, i
<1>15. next \in [1..n -> Nat] /\ next[i] = rank /\ \A q \in 1..k : next[o[q]] = s.rank[o[q]]
  <2> HIDE DEF rank
  <2>1. \A q \in 1..k : o[q] \in 1..n
    BY <1>3, <1>4
  <2>2. QED
    BY <1>7, <1>10, <1>13, <1>14, <2>1
<1>16. A = Extended(R, k, rank)
  <2> HIDE DEF rank, next
  <2>1. \A q \in 1..k : R[q] = s.rank[o[q]]
    BY DEF R
  <2>2. \A q \in 1..(k + 1) : next[o[q]] = IF q = k + 1 THEN rank ELSE R[q]
    BY <1>3, <1>15, <2>1 DEF i
  <2>3. QED
    BY <2>2 DEF Extended
<1>17. \E V \in Nat : tails \in [1..V -> Int] /\ Ranked(k + 1, F, S, A, V, tails)
  <2>1. CASE same
    <3>1. k # 0
      BY <1>7, <2>1
    <3>2. k \in 1..m /\ s.last = o[k]
      BY <1>3, <1>7, <3>1
    <3>3. F[k + 1] = F[k] /\ S[k + 1] = S[k]
      BY <1>6, <1>10, <2>1, <3>2
    <3>4. rank = R[k]
      <4>1. rank = s.rank[o[k]]
        BY <2>1, <3>2
      <4> HIDE DEF rank
      <4>2. QED
        BY <1>3, <3>1, <4>1 DEF R
    <3>5. Ranked(k + 1, F, S, Extended(R, k, R[k]), T, s.tails)
      <4> DEFINE L == s.tails
      <4> HIDE DEF L
      <4>1. Ranked(k, F, S, R, T, L)
        BY <1>8 DEF L
      <4>2. Ranked(k + 1, F, S, Extended(R, k, R[k]), T, L)
        BY <1>6, <3>2, <3>3, <4>1, RankedAgain
      <4>3. QED
        BY <4>2 DEF L
    <3>6. tails = s.tails
      BY <2>1
    <3> HIDE DEF rank, tails, A
    <3>7. Ranked(k + 1, F, S, A, T, tails)
      BY <1>16, <3>4, <3>5, <3>6
    <3>8. QED
      BY <1>8, <3>6, <3>7
  <2>2. CASE ~same
    <3>1. rank = c + 1
      BY <2>2
    <3>2. Beyond(F, S, k)
      <4>1. SUFFICES ASSUME NEW q \in 1..k
                     PROVE  F[q] < F[k + 1] \/ (F[q] = F[k + 1] /\ S[q] < S[k + 1])
        BY DEF Beyond
      <4>2. k # 0 /\ q \in 1..m /\ k \in 1..m
        BY <1>3
      <4>3. F[k] # F[k + 1] \/ S[k] # S[k + 1]
        <5>1. s.last = o[k] /\ o[k] # 0
          BY <1>4, <1>7, <4>2
        <5>2. rows[o[k]].first = F[k] /\ rows[o[k]].second = S[k]
          BY <1>6, <4>2
        <5>3. QED
          BY <1>10, <2>2, <5>1, <5>2
      <4>4. ASSUME NEW a \in 1..m, NEW b \in 1..m, a < b
            PROVE  F[a] < F[b] \/ (F[a] = F[b] /\ S[a] <= S[b])
        <5>1. Earlier(rows, o[a], o[b])
          BY <1>2, <4>4
        <5>2. F[a] < F[b] \/ (F[a] = F[b] /\ (S[a] < S[b] \/ S[a] = S[b]))
          BY <1>6, <5>1 DEF Earlier
        <5>3. S[a] \in Int /\ S[b] \in Int
          BY <1>6
        <5>4. QED
          BY <5>2, <5>3, SMT
      <4>5. F[k] < F[k + 1] \/ (F[k] = F[k + 1] /\ S[k] <= S[k + 1])
        BY <1>3, <4>2, <4>4
      <4>6. q = k \/ (q < k /\ (F[q] < F[k] \/ (F[q] = F[k] /\ S[q] <= S[k])))
        BY <1>3, <4>2, <4>4
      <4>7. F[q] \in Int /\ F[k] \in Int /\ S[q] \in Int /\ S[k] \in Int
        BY <1>6, <4>2
      <4>8. F[k] < F[k + 1] \/ (F[k] = F[k + 1] /\ S[k] < S[k + 1])
        BY <1>10, <4>3, <4>5, <4>7, SMT
      <4>9. CASE q = k
        BY <4>8, <4>9
      <4>10. CASE F[q] < F[k] \/ (F[q] = F[k] /\ S[q] <= S[k])
        BY <1>10, <4>7, <4>8, <4>10, SMTT(40)
      <4>11. QED
        BY <4>6, <4>9, <4>10
    <3> DEFINE U == IF c = T THEN T + 1 ELSE T
               L == s.tails
               M == BestLowered(L, U, c, S[k + 1])
    <3>3. U \in Nat
      BY SMT
    <3>4. L \in [1..T -> Int] /\ Ranked(k, F, S, R, T, L) /\ \A a \in 1..T : L[a] <= S[k + 1] <=> a <= c
      BY <1>8, <1>12
    <3>10. Cut(L, T, S[k + 1], c)
      BY <3>4 DEF Cut
    <3>11. U = IF c = T THEN T + 1 ELSE T
      OBVIOUS
    <3>5. tails = M
      <4>1. tails = IF c + 1 > T THEN Append(L, S[k + 1])
                    ELSE [L EXCEPT ![c + 1] = IF @ <= S[k + 1] THEN @ ELSE S[k + 1]]
        BY <1>9, <1>10, <2>2, Zenon
      <4> HIDE DEF tails, L, rank
      <4>2. CASE c = T
        <5>1. U = T + 1 /\ c + 1 > T
          BY <1>12, <4>2, SMT
        <5>2. Append(L, S[k + 1]) = [a \in 1..(T + 1) |-> IF a = T + 1 THEN S[k + 1] ELSE L[a]]
          BY <1>10, <3>4, AppendIs
        <5>3. QED
          BY <4>1, <4>2, <5>1, <5>2, Zenon DEF BestLowered
      <4>3. CASE c # T
        <5>1. U = T /\ ~(c + 1 > T) /\ c + 1 \in 1..T /\ ~(c + 1 <= c)
          BY <1>12, <4>3, SMT
        <5>2. ~(L[c + 1] <= S[k + 1])
          BY <3>4, <5>1
        <5>3. tails = [L EXCEPT ![c + 1] = S[k + 1]]
          BY <4>1, <5>1, <5>2, Zenon
        <5>4. [L EXCEPT ![c + 1] = S[k + 1]] = [a \in 1..T |-> IF a = c + 1 THEN S[k + 1] ELSE L[a]]
          BY <3>4
        <5>5. QED
          BY <5>1, <5>3, <5>4, Zenon DEF BestLowered
      <4>4. QED
        BY <4>2, <4>3
    <3> HIDE DEF L, U, tails, A, rank
    <3>6. Ranked(k + 1, F, S, Extended(R, k, c + 1), U, M)
      <4>1. F \in [1..m -> Int] /\ S \in [1..m -> Int] /\ c \in 0..T /\ Ranked(k, F, S, R, T, L)
        BY <1>6, <1>12, <3>4
      <4>2. QED
        BY <3>2, <3>3, <3>10, <3>11, <4>1, RankedNew
    <3>7. Ranked(k + 1, F, S, A, U, tails)
      BY <1>16, <3>1, <3>5, <3>6
    <3>8. tails \in [1..U -> Int]
      BY <3>7, Zenon DEF Ranked
    <3>9. QED
      BY <3>3, <3>7, <3>8
  <2>3. QED
    BY <2>1, <2>2
<1> DEFINE z == SweepRow(rows, s, i)
<1> HIDE DEF next, tails
<1>18. z.last = i /\ z.rank = next /\ z.tails = tails
  <2>1. z = [last |-> i, rank |-> next, tails |-> tails]
    BY <1>1
  <2> HIDE DEF z
  <2>2. QED
    BY <2>1, Zenon
<1> HIDE DEF z
<1>19. RankedPlaces(rows, o, k + 1, z.rank, z.tails)
  BY <1>17, <1>18, Zenon DEF RankedPlaces, F, S
<1>20. z.rank \in [DOMAIN rows -> Nat]
  BY <1>15, <1>18
<1>21. z.last = IF k + 1 = 0 THEN 0 ELSE o[k + 1]
  BY <1>3, <1>18, Zenon DEF i
<1>22. SweepOK(rows, o, z, k + 1)
  BY <1>19, <1>20, <1>21, Zenon DEF SweepOK
<1>23. QED
  BY <1>22 DEF z, i

SweepStart(rows) == [last |-> 0, rank |-> [i \in DOMAIN rows |-> 0], tails |-> <<>>]

LEMMA SweepStarts ==
  ASSUME NEW rows, NEW o
  PROVE  SweepOK(rows, o, SweepStart(rows), 0)
<1> DEFINE z == SweepStart(rows)
<1>1. z.last = 0 /\ z.rank = [i \in DOMAIN rows |-> 0] /\ z.tails = <<>>
  BY Zenon DEF SweepStart
<1> HIDE DEF z
<1>2. z.rank \in [DOMAIN rows -> Nat]
  BY <1>1
<1>3. 1..0 = {}
  BY SMT
<1> DEFINE R == [q \in 1..0 |-> z.rank[o[q]]]
<1>4. DOMAIN R = {} /\ R = [q \in {} |-> 0]
  BY <1>3
<1>5. DOMAIN <<>> = {} /\ <<>> = [q \in {} |-> 0] /\ <<>> \in [1..0 -> Int]
  BY <1>3
<1> HIDE DEF R
<1>6. Ranked(0, Firsts(rows, o), Seconds(rows, o), R, 0, <<>>)
  BY <1>4, <1>5, Nobody
<1>7. RankedPlaces(rows, o, 0, z.rank, z.tails)
  BY <1>1, <1>5, <1>6 DEF RankedPlaces, R
<1>8. QED
  BY <1>1, <1>2, <1>7 DEF SweepOK, z

LEMMA SweepRuns ==
  ASSUME NEW n \in Nat, NEW rows \in [1..n -> Evaluation]
  PROVE  SweepOK(rows, Swept(rows), Sweep(rows), Len(Swept(rows)))
<1> DEFINE o == Swept(rows)
           m == Len(o)
           Is(f, k) == f[k] = IF k = 0 THEN SweepStart(rows) ELSE SweepRow(rows, f[k - 1], o[k])
           Runs(f, k) == f = [j \in 0..m |-> f[j]] /\ \A j \in 0..k : Is(f, j)
           P == {k \in 0..m : \E f : Runs(f, k)}
           run == CHOOSE f : f = [k \in 0..m |-> IF k = 0 THEN SweepStart(rows)
                                                 ELSE SweepRow(rows, f[k - 1], o[k])]
<1>1. m \in Nat /\ SweepOrder(rows, o, m)
  BY SweptFacts
<1>2. Sweep(rows) = run[m]
  BY Zenon DEF Sweep, SweepStart
<1> HIDE DEF o, m
<1>3. 0 \in P
  <2> DEFINE f == [j \in 0..m |-> SweepStart(rows)]
  <2>1. 0 \in 0..m /\ \A j \in 0..0 : j = 0 /\ j \in 0..m
    BY <1>1, SMT
  <2>2. f = [j \in 0..m |-> f[j]] /\ \A j \in 0..0 : f[j] = SweepStart(rows)
    BY <2>1
  <2> HIDE DEF f
  <2>3. Runs(f, 0)
    BY <2>1, <2>2
  <2> HIDE DEF Runs
  <2>4. QED
    BY <2>1, <2>3
<1>4. ASSUME NEW k \in P, k < m PROVE k + 1 \in P
  <2>1. PICK f : Runs(f, k)
    OBVIOUS
  <2> DEFINE g == [f EXCEPT ![k + 1] = SweepRow(rows, f[k], o[k + 1])]
  <2>2. k \in 0..m
    OBVIOUS
  <2> HIDE DEF P
  <2>3. /\ k \in Nat /\ k + 1 \in 0..m /\ k + 1 - 1 = k /\ k + 1 # 0 /\ k # k + 1
        /\ \A j \in 0..(k + 1) : j = k + 1 \/ (j \in 0..k /\ j # k + 1)
        /\ \A j \in 0..k : j \in 0..m /\ j # k + 1 /\ (j # 0 => j - 1 \in 0..m /\ j - 1 # k + 1)
    BY <1>1, <1>4, <2>2, SMT
  <2>4. f = [j \in 0..m |-> f[j]] /\ \A j \in 0..k : Is(f, j)
    BY <2>1
  <2>5. /\ g = [j \in 0..m |-> g[j]]
        /\ g[k + 1] = SweepRow(rows, f[k], o[k + 1])
        /\ \A j \in 0..m : j # k + 1 => g[j] = f[j]
    <3>1. DOMAIN f = 0..m
      BY <2>4, Zenon
    <3>2. QED
      BY <2>3, <3>1
  <2> HIDE DEF g
  <2>6. k \in 0..m
    BY <2>2
  <2>7. Is(g, k + 1)
    BY <2>3, <2>5, <2>6
  <2>8. \A j \in 0..k : Is(g, j)
    <3>1. TAKE j \in 0..k
    <3>2. Is(f, j)
      BY <2>4
    <3>3. g[j] = f[j] /\ (j # 0 => g[j - 1] = f[j - 1])
      BY <2>3, <2>5
    <3>4. QED
      BY <3>2, <3>3
  <2>9. Runs(g, k + 1)
    <3>1. \A j \in 0..(k + 1) : Is(g, j)
      <4> HIDE DEF Is
      <4>1. QED
        BY <2>3, <2>7, <2>8
    <3>2. QED
      BY <2>5, <3>1
  <2> HIDE DEF Runs
  <2>10. QED
    BY <2>3, <2>9 DEF P
<1>5. m \in P
  <2>1. P \in SUBSET (0..m) /\ P # {}
    <3> HIDE DEF Runs
    <3>1. QED
      BY <1>3
  <2> HIDE DEF P
  <2> DEFINE top == Max(P)
  <2>2. top \in P /\ \A k \in P : k <= top
    BY <1>1, <2>1, GreatestOne
  <2> HIDE DEF top
  <2>3. top \in 0..m
    BY <2>1, <2>2
  <2>4. ~(top < m)
    <3>1. SUFFICES ASSUME top < m PROVE FALSE
      OBVIOUS
    <3>2. top + 1 <= top
      BY <1>4, <2>2, <3>1
    <3>3. QED
      BY <2>3, <3>2, SMT
  <2>5. top = m
    BY <1>1, <2>3, <2>4, SMT
  <2>6. QED
    BY <2>2, <2>5
<1>6. PICK f : Runs(f, m)
  <2> HIDE DEF Runs
  <2>1. QED
    BY <1>5
<1>7. f = [k \in 0..m |-> IF k = 0 THEN SweepStart(rows) ELSE SweepRow(rows, f[k - 1], o[k])]
  <2>1. f = [k \in 0..m |-> f[k]] /\ \A k \in 0..m : Is(f, k)
    BY <1>6
  <2>2. QED
    BY <2>1, Zenon
<1>8. run = [k \in 0..m |-> IF k = 0 THEN SweepStart(rows) ELSE SweepRow(rows, run[k - 1], o[k])]
  BY <1>7, Zenon
<1> HIDE DEF run, P, Runs
<1>9. run[0] = SweepStart(rows)
  <2>1. 0 \in 0..m
    BY <1>1, SMT
  <2>2. QED
    BY <1>8, <2>1, Zenon
<1>10. \A k \in 0..m : k # 0 => run[k] = SweepRow(rows, run[k - 1], o[k])
  BY <1>8, Zenon
<1> DEFINE Bad == {k \in 0..m : ~SweepOK(rows, o, run[k], k)}
<1>11. Bad = {}
  <2>1. SUFFICES ASSUME Bad # {} PROVE FALSE
    OBVIOUS
  <2>2. Bad \in SUBSET Nat
    BY <1>1, SMT
  <2>3. PICK k \in Bad : \A l \in Bad : k <= l
    BY <2>1, <2>2, LeastOne, Zenon
  <2>4. k \in 0..m /\ ~SweepOK(rows, o, run[k], k)
    BY <2>3
  <2>5. k # 0
    BY <1>9, <2>4, SweepStarts
  <2>6. k - 1 \in 0..m /\ k - 1 < m /\ ~(k <= k - 1) /\ k - 1 + 1 = k
    BY <1>1, <2>4, <2>5, SMT
  <2>7. SweepOK(rows, o, run[k - 1], k - 1)
    BY <2>3, <2>6
  <2> HIDE DEF Bad
  <2> DEFINE j == k - 1
             s == run[k - 1]
  <2>8. j \in 0..m /\ j < m /\ SweepOK(rows, o, s, j) /\ j + 1 = k /\ run[k] = SweepRow(rows, s, o[k])
    BY <1>10, <2>4, <2>5, <2>6, <2>7
  <2> HIDE DEF j, s
  <2>9. SweepOK(rows, o, SweepRow(rows, s, o[j + 1]), j + 1)
    BY <1>1, <2>8, SweepRowStep
  <2>10. QED
    BY <2>4, <2>8, <2>9
<1>12. m \in 0..m
  BY <1>1, SMT
<1>13. QED
  BY <1>2, <1>11, <1>12 DEF o, m

Lower(V, v) == {u \in V : u < v}

LEMMA LowerCounts ==
  ASSUME NEW V, IsFiniteSet(V), V \subseteq Int
  PROVE  /\ \A v \in V : Cardinality(Lower(V, v)) \in Nat
         /\ \A u, v \in V : u < v => Cardinality(Lower(V, u)) < Cardinality(Lower(V, v))
         /\ \A v \in V : Cardinality(Lower(V, v)) # 0 =>
              \E u \in V : u < v /\ Cardinality(Lower(V, u)) = Cardinality(Lower(V, v)) - 1
<1>1. \A v : Lower(V, v) \subseteq V /\ IsFiniteSet(Lower(V, v)) /\ Cardinality(Lower(V, v)) \in Nat
  <2>1. TAKE v
  <2>2. Lower(V, v) \subseteq V
    BY DEF Lower
  <2>3. IsFiniteSet(Lower(V, v))
    BY <2>2, FS_Subset
  <2>4. QED
    BY <2>2, <2>3, FS_CardinalityType
<1>2. ASSUME NEW u \in V, NEW v \in V, u < v
      PROVE  Cardinality(Lower(V, u)) < Cardinality(Lower(V, v))
  <2>1. u \in Int /\ v \in Int /\ \A w \in V : w \in Int
    OBVIOUS
  <2>2. ~(u < u) /\ \A w \in V : w < u => w < v
    BY <1>2, <2>1, SMT
  <2>3. Lower(V, u) \subseteq Lower(V, v) /\ u \in Lower(V, v) /\ u \notin Lower(V, u)
    BY <1>2, <2>2 DEF Lower
  <2>4. QED
    BY <1>1, <2>3, FewerIn
<1>3. ASSUME NEW v \in V, Cardinality(Lower(V, v)) # 0
      PROVE  \E u \in V : u < v /\ Cardinality(Lower(V, u)) = Cardinality(Lower(V, v)) - 1
  <2> DEFINE B == Lower(V, v)
             c == Cardinality(B)
             a == Ascending(B)
             u == a[c]
  <2>1. c \in Nat /\ c # 0 /\ IsFiniteSet(B) /\ B \subseteq Int
    BY <1>1, <1>3
  <2>2. c \in 1..c /\ \A p \in 1..c : p = c \/ p < c
    <3> HIDE DEF c
    <3>1. QED
      BY <2>1, SMT
  <2>3. /\ a \in [1..c -> B]
        /\ \A i \in B : \E p \in 1..c : a[p] = i
        /\ \A p, q \in 1..c : p < q => a[p] < a[q]
    BY <2>1, AscendingLists
  <2> HIDE DEF B, c, a
  <2>4. u \in B /\ \A i \in B : i = u \/ i < u
    BY <2>2, <2>3
  <2> HIDE DEF u
  <2>5. u \in V /\ u < v /\ v \in Int /\ u \in Int
    BY <2>1, <2>4 DEF B, Lower
  <2>6. \A w \in V : w < u <=> w \in B /\ w # u
    <3>1. TAKE w \in V
    <3>2. w \in Int
      OBVIOUS
    <3>3. w < u => w < v /\ w # u
      BY <2>5, <3>2, SMT
    <3>4. w \in B <=> w < v
      BY DEF B, Lower
    <3>5. QED
      BY <2>4, <3>3, <3>4
  <2>7. Lower(V, u) = B \ {u}
    <3>1. B \subseteq V
      BY DEF B, Lower
    <3>2. QED
      BY <2>6, <3>1 DEF Lower
  <2>8. Cardinality(B \ {u}) = c - 1
    BY <2>1, <2>4, FS_RemoveElement DEF c
  <2>9. QED
    BY <2>5, <2>7, <2>8 DEF c, B
<1>4. QED
  BY <1>1, <1>2, <1>3

LEMMA ViolationsFinite ==
  ASSUME NEW n \in Nat, NEW rows \in [1..n -> Evaluation]
  PROVE  /\ IsFiniteSet(Violations(rows)) /\ Violations(rows) \subseteq Int
         /\ \A v : v \in Violations(rows) <=> \E i \in 1..n : ~Feasible(rows[i]) /\ v = rows[i].violation
<1> DEFINE I == {i \in 1..n : ~Feasible(rows[i])}
           V == Violations(rows)
           f == [i \in I |-> rows[i].violation]
<1>1. DOMAIN rows = 1..n
  OBVIOUS
<1>2. V = {rows[i].violation : i \in I}
  BY <1>1, Zenon DEF Violations
<1>3. \A v : v \in V <=> \E i \in 1..n : ~Feasible(rows[i]) /\ v = rows[i].violation
  BY <1>2
<1>4. IsFiniteSet(I)
  BY UpTo, FS_Subset
<1>5. \A i \in 1..n : rows[i].violation \in Int
  <2>1. \A i \in 1..n : rows[i] \in Evaluation
    OBVIOUS
  <2>2. QED
    BY <2>1, Zenon DEF Evaluation
<1>6. f \in Surjection(I, V)
  <2>1. f \in [I -> V] /\ \A v \in V : \E i \in I : f[i] = v
    BY <1>2
  <2>2. QED
    BY <2>1, Zenon DEF Surjection
<1>7. IsFiniteSet(V)
  BY <1>4, <1>6, FS_Surjection
<1>8. QED
  BY <1>3, <1>5, <1>7

LEMMA SweptRanks ==
  ASSUME NEW n \in Nat, NEW rows \in [1..n -> Evaluation]
  PROVE  \E T \in Nat :
           LET rank == Sweep(rows).rank IN
           /\ Len(Sweep(rows).tails) = T
           /\ \A i \in FeasibleOnes(rows) : rank[i] \in 1..T
           /\ \A i, j \in FeasibleOnes(rows) : Dominates(rows[j], rows[i], 0) => rank[j] < rank[i]
           /\ \A i \in FeasibleOnes(rows) : rank[i] > 1 =>
                \E j \in FeasibleOnes(rows) : Dominates(rows[j], rows[i], 0) /\ rank[j] = rank[i] - 1
           /\ \A a \in 1..T : \E i \in FeasibleOnes(rows) : rank[i] = a
<1> DEFINE o == Swept(rows)
           m == Len(o)
           s == Sweep(rows)
           rank == s.rank
           tails == s.tails
           F == Firsts(rows, o)
           S == Seconds(rows, o)
           R == [q \in 1..m |-> rank[o[q]]]
<1>1. SweepOrder(rows, o, m)
  BY SweptFacts
<1>2. SweepOK(rows, o, s, m)
  BY SweepRuns
<1> HIDE DEF o, m, s
<1>3. PICK T \in Nat : tails \in [1..T -> Int] /\ Ranked(m, F, S, R, T, tails)
  BY <1>2 DEF SweepOK, RankedPlaces
<1>4. Len(tails) = T
  BY <1>3, SeqOf
<1> HIDE DEF rank, tails
<1>5. /\ o \in [1..m -> FeasibleOnes(rows)]
      /\ \A i \in FeasibleOnes(rows) : \E q \in 1..m : o[q] = i
  BY <1>1 DEF SweepOrder
<1>6. \A q \in 1..m : R[q] = rank[o[q]]
  OBVIOUS
<1>7. /\ R \in [1..m -> 1..T]
      /\ \A a \in 1..T : \E q \in 1..m : R[q] = a
      /\ \A p, q \in 1..m : Under2(F, S, p, q) => R[p] < R[q]
      /\ \A q \in 1..m : R[q] > 1 => \E p \in 1..m : Under2(F, S, p, q) /\ R[p] = R[q] - 1
  BY <1>3, Zenon DEF Ranked
<1>8. \A p, q \in 1..m : Under2(F, S, p, q) <=> Dominates(rows[o[p]], rows[o[q]], 0)
  <2>1. TAKE p, q \in 1..m
  <2>2. /\ rows[o[p]] \in Evaluation /\ Feasible(rows[o[p]])
        /\ rows[o[q]] \in Evaluation /\ Feasible(rows[o[q]])
    BY <1>5 DEF FeasibleOnes
  <2>3. /\ F[p] = rows[o[p]].first /\ S[p] = rows[o[p]].second
        /\ F[q] = rows[o[q]].first /\ S[q] = rows[o[q]].second
    BY <1>5 DEF Firsts, Seconds
  <2> HIDE DEF F, S
  <2>4. Dominates(rows[o[p]], rows[o[q]], 0) <=>
          /\ rows[o[p]].first <= rows[o[q]].first /\ rows[o[p]].second <= rows[o[q]].second
          /\ rows[o[p]].first < rows[o[q]].first \/ rows[o[p]].second < rows[o[q]].second
    BY <2>2, FeasibleDominates
  <2>5. QED
    BY <2>3, <2>4, Zenon DEF Under2
<1> HIDE DEF R, F, S
<1>9. \A i \in FeasibleOnes(rows) : rank[i] \in 1..T
  BY <1>5, <1>6, <1>7
<1>10. ASSUME NEW i \in FeasibleOnes(rows), NEW j \in FeasibleOnes(rows), Dominates(rows[j], rows[i], 0)
       PROVE  rank[j] < rank[i]
  <2>1. PICK p \in 1..m : o[p] = j
    BY <1>5
  <2>2. PICK q \in 1..m : o[q] = i
    BY <1>5
  <2>3. Under2(F, S, p, q)
    BY <1>8, <1>10, <2>1, <2>2
  <2>4. QED
    BY <1>6, <1>7, <2>1, <2>2, <2>3
<1>11. ASSUME NEW i \in FeasibleOnes(rows), rank[i] > 1
       PROVE  \E j \in FeasibleOnes(rows) : Dominates(rows[j], rows[i], 0) /\ rank[j] = rank[i] - 1
  <2>1. PICK q \in 1..m : o[q] = i
    BY <1>5
  <2>2. R[q] = rank[i]
    BY <1>6, <2>1
  <2>3. PICK p \in 1..m : Under2(F, S, p, q) /\ R[p] = R[q] - 1
    BY <1>7, <1>11, <2>2, Zenon
  <2>4. o[p] \in FeasibleOnes(rows) /\ Dominates(rows[o[p]], rows[i], 0) /\ rank[o[p]] = rank[i] - 1
    BY <1>5, <1>6, <1>8, <2>1, <2>2, <2>3
  <2>5. QED
    BY <2>4
<1>12. \A a \in 1..T : \E i \in FeasibleOnes(rows) : rank[i] = a
  <2>1. TAKE a \in 1..T
  <2>2. PICK q \in 1..m : R[q] = a
    BY <1>7
  <2>3. o[q] \in FeasibleOnes(rows) /\ rank[o[q]] = a
    BY <1>5, <1>6, <2>2
  <2>4. QED
    BY <2>3
<1>13. QED
  BY <1>4, <1>9, <1>10, <1>11, <1>12, Zenon DEF rank, tails, s

LEMMA FastRanksLayered ==
  ASSUME NEW n \in Nat, NEW rows \in [1..n -> Evaluation]
  PROVE  Layered(rows, 0, FastRanks(rows))
<1> DEFINE rank == Sweep(rows).rank
           V == Violations(rows)
           below(i) == Cardinality(Lower(V, rows[i].violation))
           d == FastRanks(rows)
<1>1. PICK T \in Nat :
        /\ Len(Sweep(rows).tails) = T
        /\ \A i \in FeasibleOnes(rows) : rank[i] \in 1..T
        /\ \A i, j \in FeasibleOnes(rows) : Dominates(rows[j], rows[i], 0) => rank[j] < rank[i]
        /\ \A i \in FeasibleOnes(rows) : rank[i] > 1 =>
             \E j \in FeasibleOnes(rows) : Dominates(rows[j], rows[i], 0) /\ rank[j] = rank[i] - 1
        /\ \A a \in 1..T : \E i \in FeasibleOnes(rows) : rank[i] = a
  BY SweptRanks, Zenon
<1>2. DOMAIN rows = 1..n
  OBVIOUS
<1>3. \A i : i \in FeasibleOnes(rows) <=> i \in 1..n /\ Feasible(rows[i])
  BY <1>2 DEF FeasibleOnes
<1>4. d = [i \in 1..n |-> IF Feasible(rows[i]) THEN rank[i] ELSE T + below(i) + 1]
  BY <1>1, <1>2, Zenon DEF FastRanks, InfeasibleRank, Lower
<1> HIDE DEF rank
<1>5. /\ IsFiniteSet(V) /\ V \subseteq Int
      /\ \A v : v \in V <=> \E i \in 1..n : ~Feasible(rows[i]) /\ v = rows[i].violation
  BY ViolationsFinite
<1>6. /\ \A v \in V : Cardinality(Lower(V, v)) \in Nat
      /\ \A u, v \in V : u < v => Cardinality(Lower(V, u)) < Cardinality(Lower(V, v))
      /\ \A v \in V : Cardinality(Lower(V, v)) # 0 =>
           \E u \in V : u < v /\ Cardinality(Lower(V, u)) = Cardinality(Lower(V, v)) - 1
  BY <1>5, LowerCounts
<1> HIDE DEF V
<1>7. \A i \in 1..n : ~Feasible(rows[i]) => rows[i].violation \in V /\ below(i) \in Nat
  BY <1>5, <1>6
<1> HIDE DEF below, d
<1>8. /\ \A i \in 1..n : Feasible(rows[i]) => i \in FeasibleOnes(rows) /\ d[i] = rank[i] /\ d[i] \in 1..T
      /\ \A i \in 1..n : ~Feasible(rows[i]) => d[i] = T + below(i) + 1
  BY <1>1, <1>3, <1>4
<1>9. \A i \in 1..n : d[i] \in Nat \ {0}
  <2>1. TAKE i \in 1..n
  <2>2. CASE Feasible(rows[i])
    BY <1>8, <2>2, SMT
  <2>3. CASE ~Feasible(rows[i])
    <3>1. d[i] = T + below(i) + 1 /\ below(i) \in Nat
      BY <1>7, <1>8, <2>3
    <3>2. QED
      BY <3>1, SMT
  <2>4. QED
    BY <2>2, <2>3
<1>10. ASSUME NEW i \in 1..n, NEW j \in 1..n, Dominates(rows[j], rows[i], 0) PROVE d[j] < d[i]
  <2>1. CASE Feasible(rows[i]) /\ Feasible(rows[j])
    BY <1>1, <1>8, <1>10, <2>1
  <2>2. CASE Feasible(rows[i]) /\ ~Feasible(rows[j])
    BY <1>10, <2>2, Zenon DEF Dominates
  <2>3. CASE ~Feasible(rows[i]) /\ Feasible(rows[j])
    <3>1. d[j] \in 1..T /\ d[i] = T + below(i) + 1 /\ below(i) \in Nat
      BY <1>7, <1>8, <2>3
    <3>2. QED
      BY <3>1, SMT
  <2>4. CASE ~Feasible(rows[i]) /\ ~Feasible(rows[j])
    <3>1. rows[j].violation < rows[i].violation
      BY <1>10, <2>4, Zenon DEF Dominates
    <3>2. below(j) < below(i)
      BY <1>6, <1>7, <2>4, <3>1 DEF below
    <3>3. /\ d[i] = T + below(i) + 1 /\ below(i) \in Nat
          /\ d[j] = T + below(j) + 1 /\ below(j) \in Nat
      BY <1>7, <1>8, <2>4
    <3>4. QED
      BY <3>2, <3>3, SMT
  <2>5. QED
    BY <2>1, <2>2, <2>3, <2>4
<1>11. ASSUME NEW i \in 1..n, d[i] > 1
       PROVE  \E j \in 1..n : Dominates(rows[j], rows[i], 0) /\ d[j] = d[i] - 1
  <2>1. CASE Feasible(rows[i])
    <3>1. i \in FeasibleOnes(rows) /\ d[i] = rank[i] /\ rank[i] > 1
      BY <1>8, <1>11, <2>1
    <3>2. PICK j \in FeasibleOnes(rows) : Dominates(rows[j], rows[i], 0) /\ rank[j] = rank[i] - 1
      BY <1>1, <3>1
    <3>3. j \in 1..n /\ d[j] = rank[j]
      BY <1>3, <1>8
    <3>4. QED
      BY <3>1, <3>2, <3>3
  <2>2. CASE ~Feasible(rows[i]) /\ below(i) = 0
    <3>1. d[i] = T + 1 /\ T \in 1..T
      <4>1. d[i] = T + below(i) + 1
        BY <1>8, <2>2
      <4>2. QED
        BY <1>11, <2>2, <4>1, SMT
    <3>2. PICK j \in FeasibleOnes(rows) : rank[j] = T
      BY <1>1, <3>1
    <3>3. j \in 1..n /\ Feasible(rows[j]) /\ d[j] = T
      BY <1>3, <1>8, <3>2
    <3>4. Dominates(rows[j], rows[i], 0)
      BY <2>2, <3>3, Zenon DEF Dominates
    <3>5. d[j] = d[i] - 1
      BY <3>1, <3>3, SMT
    <3>6. QED
      BY <3>3, <3>4, <3>5
  <2>3. CASE ~Feasible(rows[i]) /\ below(i) # 0
    <3>1. PICK u \in V : u < rows[i].violation /\ Cardinality(Lower(V, u)) = below(i) - 1
      BY <1>6, <1>7, <2>3 DEF below
    <3>2. PICK j \in 1..n : ~Feasible(rows[j]) /\ u = rows[j].violation
      BY <1>5
    <3>3. Dominates(rows[j], rows[i], 0)
      BY <2>3, <3>1, <3>2, Zenon DEF Dominates
    <3>4. below(j) = below(i) - 1
      BY <3>1, <3>2 DEF below
    <3>5. /\ d[i] = T + below(i) + 1 /\ below(i) \in Nat
          /\ d[j] = T + below(j) + 1
      BY <1>7, <1>8, <2>3, <3>2
    <3>6. d[j] = d[i] - 1
      BY <3>4, <3>5, SMT
    <3>7. QED
      BY <3>3, <3>6
  <2>4. QED
    BY <2>1, <2>2, <2>3
<1>12. d \in [1..n -> Nat \ {0}]
  <2>1. d = [i \in 1..n |-> d[i]]
    BY <1>4
  <2>2. QED
    BY <1>9, <2>1
<1>13. QED
  BY <1>2, <1>10, <1>11, <1>12 DEF Layered, d
-----------------------------------------------------------------------------
(* What a sort with a capacity keeps: the first c layers, the least number   *)
(* of them that covers it.                                                   *)

LEMMA FrontsAre ==
  ASSUME NEW n \in Nat \ {0}, NEW rows \in [1..n -> Evaluation], NEW t \in Nat,
         NEW d, Layered(rows, t, d), NEW K, Levels(d, n, K), NEW N \in 1..n
  PROVE  \E c \in 1..K : /\ Fronts(rows, t, N) = FirstFronts(d, c)
                         /\ Cardinality(UpToLayer(d, c)) >= N
                         /\ \A l \in 1..K : l < c => Cardinality(UpToLayer(d, l)) < N
<1> DEFINE f == FirstFronts(d, K)
           X == {Ascending(Layer(d, k)) : k \in 1..K}
           enough == {k \in DOMAIN f : Covered(f, k) >= N}
           c == CHOOSE k \in enough : \A l \in enough : k <= l
<1>1. /\ n \in Nat /\ K \in Nat \ {0} /\ K <= n /\ UpToLayer(d, K) = 1..n
      /\ \A k : IsFiniteSet(UpToLayer(d, k))
  BY LayerFacts
<1>2. K \in 0..K /\ K \in 1..K /\ N \in Nat /\ N <= n /\ \A k \in 1..K : k \in 0..K /\ k \in Nat
  BY <1>1, SMT
<1>3. Fronts(rows, t, N) = Capped(f, N)
  <2>1. CASE t = 0
    <3>1. Layered(rows, 0, FastRanks(rows))
      BY <1>1, FastRanksLayered
    <3>2. FastRanks(rows) = d
      BY <1>1, <2>1, <3>1, OneLayering
    <3>3. FrontsOf(d) = f
      BY FrontsOfIs
    <3>4. QED
      BY <2>1, <3>2, <3>3, Zenon DEF Fronts
  <2>2. CASE t # 0
    <3>1. Peel(rows, t) = f
      BY PeelIs
    <3>2. QED
      BY <2>2, <3>1, Zenon DEF Fronts
  <2>3. QED
    BY <2>1, <2>2
<1>4. /\ f \in [1..K -> X] /\ DOMAIN f = 1..K
      /\ \A k \in 0..K : RowsIn(f, k) = UpToLayer(d, k)
  BY <1>2, FirstFrontsFacts
<1>5. \A k \in 1..K : /\ Covered(f, k) = Cardinality(UpToLayer(d, k))
                       /\ Cardinality(UpToLayer(d, k)) \in Nat
  BY <1>1, <1>2, <1>4, FS_CardinalityType DEF Covered
<1>6. K \in enough
  <2>1. Cardinality(1..n) = n
    BY <1>1, UpTo
  <2>2. Cardinality(UpToLayer(d, K)) >= N
    BY <1>1, <1>2, <2>1
  <2>3. QED
    BY <1>2, <1>4, <1>5, <2>2
<1>7. enough \in SUBSET Nat
  BY <1>2, <1>4
<1>8. \A k : k \in enough <=> k \in 1..K /\ Cardinality(UpToLayer(d, k)) >= N
  BY <1>4, <1>5
<1>9. Capped(f, N) = SubSeq(f, 1, c)
  BY <1>6, Zenon DEF Capped
<1> HIDE DEF enough, f, X
<1>10. c \in enough /\ \A l \in enough : c <= l
  <2>1. \E k \in enough : \A l \in enough : k <= l
    BY <1>6, <1>7, LeastOne, Zenon
  <2>2. QED
    BY <2>1, Zenon
<1> HIDE DEF c
<1>11. c \in 1..K /\ c \in 0..K /\ Cardinality(UpToLayer(d, c)) >= N
  BY <1>2, <1>8, <1>10
<1>12. SubSeq(f, 1, c) = FirstFronts(d, c)
  <2>1. SubSeq(f, 1, c) = [p \in 1..c |-> f[p]]
    BY <1>1, <1>4, <1>11, Leading
  <2>2. 1..c \subseteq 1..K
    BY <1>1, <1>11, SMT
  <2>3. \A p \in 1..K : f[p] = Ascending(Layer(d, p))
    BY DEF f, FirstFronts
  <2>4. \A p \in 1..c : f[p] = Ascending(Layer(d, p))
    BY <2>2, <2>3
  <2>5. QED
    BY <2>1, <2>4, Zenon DEF FirstFronts
<1>13. ASSUME NEW l \in 1..K, l < c PROVE Cardinality(UpToLayer(d, l)) < N
  <2>1. ~(c <= l)
    BY <1>11, <1>13, <1>2, SMT
  <2>2. ~(Cardinality(UpToLayer(d, l)) >= N)
    BY <1>8, <1>10, <2>1
  <2>3. QED
    BY <1>2, <1>5, <2>2, SMT
<1>14. QED
  BY <1>3, <1>9, <1>11, <1>12, <1>13

LEMMA WholeFrontsAre ==
  ASSUME NEW d, NEW n, NEW K, Levels(d, n, K), NEW c \in 1..K,
         Cardinality(UpToLayer(d, c)) >= PopulationSize,
         \A l \in 1..K : l < c => Cardinality(UpToLayer(d, l)) < PopulationSize
  PROVE  /\ WholeFronts(FirstFronts(d, c)) \in {c - 1, c}
         /\ WholeFronts(FirstFronts(d, c)) \in 0..K
         /\ Cardinality(UpToLayer(d, WholeFronts(FirstFronts(d, c)))) <= PopulationSize
         /\ WholeFronts(FirstFronts(d, c)) = c => Cardinality(UpToLayer(d, c)) = PopulationSize
         /\ WholeFronts(FirstFronts(d, c)) # c =>
              Cardinality(UpToLayer(d, WholeFronts(FirstFronts(d, c)))) < PopulationSize
<1> DEFINE f == FirstFronts(d, c)
           fit == {k \in 0..Len(f) : Covered(f, k) <= PopulationSize}
           W == WholeFronts(f)
<1>1. K \in Nat \ {0} /\ DOMAIN d = 1..n /\ \A k : IsFiniteSet(UpToLayer(d, k))
  BY LayerFacts
<1>2. /\ c \in 0..K /\ c \in Nat /\ c # 0 /\ 0..c \subseteq 0..K /\ 0 \in 0..c /\ c - 1 \in 0..c
      /\ c - 1 < c /\ \A k \in 0..c : k # 0 => k \in 1..K
      /\ c - 1 # 0 => c - 1 \in 1..K
  BY <1>1, SMT
<1>3. Len(f) = c /\ \A k \in 0..c : RowsIn(f, k) = UpToLayer(d, k)
  BY <1>2, FirstFrontsFacts
<1>4. \A k : Cardinality(UpToLayer(d, k)) \in Nat
  BY <1>1, FS_CardinalityType
<1>5. PopulationSize \in Nat /\ PopulationSize >= 2
  BY Nsga2Assumption
<1>6. Cardinality(UpToLayer(d, 0)) = 0
  <2>1. \A i \in 1..n : d[i] \in Nat \ {0}
    BY <1>1, SMT DEF Levels
  <2>2. \A i \in 1..n : ~(d[i] <= 0)
    BY <2>1, SMT
  <2>3. UpToLayer(d, 0) = {}
    BY <1>1, <2>2 DEF UpToLayer
  <2>4. QED
    BY <2>3, FS_EmptySet
<1>7. \A k : k \in fit <=> k \in 0..c /\ Cardinality(UpToLayer(d, k)) <= PopulationSize
  BY <1>3 DEF Covered
<1>8. W = Max(fit)
  BY Zenon DEF WholeFronts
<1> HIDE DEF fit, W, f
<1>9. c - 1 \in fit
  <2>1. CASE c - 1 = 0
    <3>1. Cardinality(UpToLayer(d, c - 1)) <= PopulationSize
      BY <1>5, <1>6, <2>1
    <3>2. QED
      BY <1>2, <1>7, <3>1
  <2>2. CASE c - 1 # 0
    <3>1. Cardinality(UpToLayer(d, c - 1)) < PopulationSize
      BY <1>2, <2>2
    <3>2. Cardinality(UpToLayer(d, c - 1)) <= PopulationSize
      BY <1>4, <1>5, <3>1, SMT
    <3>3. QED
      BY <1>2, <1>7, <3>2
  <2>3. QED
    BY <2>1, <2>2
<1>10. W \in fit /\ \A k \in fit : k <= W
  <2>1. fit \in SUBSET (0..c)
    BY <1>7
  <2>2. QED
    BY <1>2, <1>8, <1>9, <2>1, GreatestOne
<1>11. W \in 0..c /\ c - 1 <= W /\ Cardinality(UpToLayer(d, W)) <= PopulationSize
  BY <1>7, <1>9, <1>10
<1>12. W \in {c - 1, c} /\ W \in 0..K
  BY <1>1, <1>2, <1>11, SMT
<1>13. W = c => Cardinality(UpToLayer(d, c)) = PopulationSize
  <2>1. ASSUME W = c PROVE Cardinality(UpToLayer(d, c)) <= PopulationSize
    BY <1>11, <2>1
  <2>2. QED
    BY <1>4, <1>5, <2>1, SMT
<1>14. W # c => Cardinality(UpToLayer(d, W)) < PopulationSize
  <2>1. SUFFICES ASSUME W # c PROVE Cardinality(UpToLayer(d, W)) < PopulationSize
    OBVIOUS
  <2>2. W = c - 1
    BY <1>12, <2>1
  <2>3. CASE c - 1 = 0
    BY <1>5, <1>6, <2>2, <2>3
  <2>4. CASE c - 1 # 0
    BY <1>2, <2>2, <2>4
  <2>5. QED
    BY <2>3, <2>4
<1>15. QED
  BY <1>11, <1>12, <1>13, <1>14 DEF W, f

-----------------------------------------------------------------------------
(* Crowding is a number, and is found from the rows of a front alone. *)

LEMMA CrowdingReadsRows ==
  ASSUME NEW rows, NEW other, NEW f, NEW g, DOMAIN f = DOMAIN g, Len(f) = Len(g),
         \A p \in DOMAIN f : rows[f[p]] = other[g[p]]
  PROVE  Crowding(rows, f) = Crowding(other, g)
<1> DEFINE U == [p \in DOMAIN f |-> rows[f[p]].first]
           V == [p \in DOMAIN f |-> rows[f[p]].second]
           U2 == [p \in DOMAIN g |-> other[g[p]].first]
           V2 == [p \in DOMAIN g |-> other[g[p]].second]
           Both(S, l, u, v) ==
             IF l <= 2 THEN [p \in S |-> Infinite]
             ELSE Spread(Spread([p \in S |-> 0], ByFirst(S, u), u), BySecond(S, u, v), v)
<1>1. U = U2 /\ V = V2
  OBVIOUS
<1>2. Crowding(rows, f) = Both(DOMAIN f, Len(f), U, V)
  BY Zenon DEF Crowding
<1>3. Crowding(other, g) = Both(DOMAIN g, Len(g), U2, V2)
  BY Zenon DEF Crowding
<1> HIDE DEF U, V, U2, V2, Both
<1>4. QED
  BY <1>1, <1>2, <1>3

\* An order of the places of a front, not descending in a value.
Sorted(order, m, value) ==
  /\ order \in [1..m -> 1..m]
  /\ \A i \in 1..m : \E p \in 1..m : order[p] = i
  /\ \A p, q \in 1..m : p < q => value[order[p]] <= value[order[q]]

LEMMA SpreadType ==
  ASSUME NEW m \in Nat \ {0}, NEW distance \in [1..m -> Int], NEW value \in [1..m -> Int],
         NEW order, Sorted(order, m, value)
  PROVE  Spread(distance, order, value) \in [1..m -> Int]
<1> DEFINE width == value[order[m]] - value[order[1]]
           At(p) == CHOOSE k \in 1..m : order[k] = p
           Gap(p) == (Scale * (value[order[At(p) + 1]] - value[order[At(p) - 1]])) \div width
<1>1. /\ order \in [1..m -> 1..m] /\ (\A i \in 1..m : \E p \in 1..m : order[p] = i)
      /\ \A p, q \in 1..m : p < q => value[order[p]] <= value[order[q]]
  BY DEF Sorted
<1>2. Len(order) = m
  BY <1>1, SeqOf
<1>3. m \in Nat /\ 1 \in 1..m /\ m \in 1..m /\ Scale \in Int
  BY SortAssumption, SMT
<1>4. Infinite \in Int
  BY SortAssumption, SMT DEF Infinite
<1>5. Spread(distance, order, value)
      = [p \in 1..m |-> IF At(p) \in {1, m} \/ distance[p] = Infinite THEN Infinite
                        ELSE IF width = 0 THEN distance[p] ELSE distance[p] + Gap(p)]
  <2>1. DOMAIN distance = 1..m
    OBVIOUS
  <2>2. QED
    BY <1>2, <2>1 DEF Spread
<1>6. \A p \in 1..m : At(p) \in 1..m
  BY <1>1
<1>7. ASSUME NEW p \in 1..m, ~(At(p) \in {1, m}), width # 0 PROVE Gap(p) \in Int
  <2> DEFINE a == At(p)
  <2>1. a \in 1..m /\ a # 1 /\ a # m
    BY <1>6, <1>7
  <2> HIDE DEF a
  <2>2. a + 1 \in 1..m /\ a - 1 \in 1..m /\ 1 < m
    BY <1>3, <2>1, SMT
  <2> DEFINE x == value[order[a + 1]]
             y == value[order[a - 1]]
             u == value[order[m]]
             v == value[order[1]]
  <2>3. x \in Int /\ y \in Int /\ u \in Int /\ v \in Int
    BY <1>1, <1>3, <2>2
  <2>4. v <= u
    BY <1>1, <1>3, <2>2
  <2> HIDE DEF x, y, u, v
  <2>5. width = u - v /\ Gap(p) = (Scale * (x - y)) \div width
    BY DEF x, y, u, v, a
  <2> HIDE DEF width, Gap
  <2>6. width \in Int /\ width > 0
    BY <1>7, <2>3, <2>4, <2>5, SMT
  <2>7. x - y \in Int
    BY <2>3, SMT
  <2>8. Scale * (x - y) \in Int
    BY <1>3, <2>7, SMT
  <2> DEFINE z == Scale * (x - y)
  <2> HIDE DEF z
  <2>9. z \in Int
    BY <2>8 DEF z
  <2>10. z \div width \in Int
    BY <2>6, <2>9, SMT
  <2>11. QED
    BY <2>5, <2>10 DEF z
<1> HIDE DEF width, At, Gap
<1>8. ASSUME NEW p \in 1..m
      PROVE  (IF At(p) \in {1, m} \/ distance[p] = Infinite THEN Infinite
              ELSE IF width = 0 THEN distance[p] ELSE distance[p] + Gap(p)) \in Int
  <2>1. distance[p] \in Int
    OBVIOUS
  <2>2. CASE At(p) \in {1, m} \/ distance[p] = Infinite \/ width = 0
    BY <1>4, <2>1, <2>2
  <2>3. CASE ~(At(p) \in {1, m}) /\ distance[p] # Infinite /\ width # 0
    <3>1. Gap(p) \in Int
      BY <1>7, <2>3
    <3>2. distance[p] + Gap(p) \in Int
      BY <2>1, <3>1, SMT
    <3>3. QED
      BY <2>3, <3>2
  <2>4. QED
    BY <2>2, <2>3
<1>9. QED
  BY <1>5, <1>8

LEMMA PlacesSorted ==
  ASSUME NEW m \in Nat, NEW first \in [1..m -> Int], NEW second \in [1..m -> Int]
  PROVE  /\ Sorted(ByFirst(1..m, first), m, first)
         /\ Sorted(BySecond(1..m, first, second), m, second)
<1> DEFINE P == 1..m
           Less(p, q) == first[p] < first[q] \/ (first[p] = first[q] /\ p < q)
           Less2(p, q) == second[p] < second[q] \/ (second[p] = second[q] /\ Less(p, q))
           less == {pair \in P \X P : Less(pair[1], pair[2])}
           less2 == {pair \in P \X P : Less2(pair[1], pair[2])}
<1>1. IsFiniteSet(P) /\ Cardinality(P) = m
  BY UpTo
<1>2. \A p, q \in P : <<p, q>> \in less <=> Less(p, q)
  BY Zenon
<1>3. \A p, q \in P : <<p, q>> \in less2 <=> Less2(p, q)
  BY Zenon
<1>4. ByFirst(P, first) = Arranged(P, less) /\ BySecond(P, first, second) = Arranged(P, less2)
  BY Zenon DEF ByFirst, BySecond
<1>5. \A p \in P : p \in Int /\ first[p] \in Int /\ second[p] \in Int
  BY SMT
<1> HIDE DEF less, less2, P
<1>6. /\ \A i \in P : ~Less(i, i)
      /\ \A i, j, k \in P : Less(i, j) /\ Less(j, k) => Less(i, k)
      /\ \A i, j \in P : i # j => Less(i, j) \/ Less(j, i)
      /\ \A i, j \in P : Less(i, j) => first[i] <= first[j]
  <2>1. \A i \in P : ~Less(i, i)
    BY <1>5, SMT
  <2>2. \A i, j, k \in P : Less(i, j) /\ Less(j, k) => Less(i, k)
    BY <1>5, SMTT(40)
  <2>3. \A i, j \in P : i # j => Less(i, j) \/ Less(j, i)
    BY <1>5, SMT
  <2>4. \A i, j \in P : Less(i, j) => first[i] <= first[j]
    BY <1>5, SMT
  <2> HIDE DEF Less, Less2
  <2>5. QED
    BY <2>1, <2>2, <2>3, <2>4
<1>7. /\ \A i \in P : ~Less2(i, i)
      /\ \A i, j, k \in P : Less2(i, j) /\ Less2(j, k) => Less2(i, k)
      /\ \A i, j \in P : i # j => Less2(i, j) \/ Less2(j, i)
      /\ \A i, j \in P : Less2(i, j) => second[i] <= second[j]
  <2>1. \A i \in P : ~Less2(i, i)
    BY <1>5, SMT
  <2>2. \A i, j, k \in P : Less2(i, j) /\ Less2(j, k) => Less2(i, k)
    BY <1>5, SMTT(40)
  <2>3. \A i, j \in P : i # j => Less2(i, j) \/ Less2(j, i)
    BY <1>5, SMT
  <2>4. \A i, j \in P : Less2(i, j) => second[i] <= second[j]
    BY <1>5, SMT
  <2> HIDE DEF Less, Less2
  <2>5. QED
    BY <2>1, <2>2, <2>3, <2>4
<1> HIDE DEF Less, Less2
<1>8. StrictOrder(P, less)
  BY <1>2, <1>6 DEF StrictOrder
<1>9. StrictOrder(P, less2)
  BY <1>3, <1>7 DEF StrictOrder
<1>10. Lists(Arranged(P, less), m, P, less) /\ Lists(Arranged(P, less2), m, P, less2)
  BY <1>1, <1>8, <1>9, ArrangedLists
<1>11. ASSUME NEW list, Lists(list, m, P, less) PROVE Sorted(list, m, first)
  <2>1. /\ list \in [1..m -> P] /\ \A i \in P : \E p \in 1..m : list[p] = i
        /\ \A p, q \in 1..m : p < q => <<list[p], list[q]>> \in less
    BY <1>11 DEF Lists
  <2>2. \A p, q \in P : <<p, q>> \in less => first[p] <= first[q]
    BY <1>2, <1>6
  <2>3. \A p, q \in 1..m : p < q => first[list[p]] <= first[list[q]]
    BY <2>1, <2>2
  <2>4. QED
    BY <2>1, <2>3 DEF Sorted, P
<1>12. ASSUME NEW list, Lists(list, m, P, less2) PROVE Sorted(list, m, second)
  <2>1. /\ list \in [1..m -> P] /\ \A i \in P : \E p \in 1..m : list[p] = i
        /\ \A p, q \in 1..m : p < q => <<list[p], list[q]>> \in less2
    BY <1>12 DEF Lists
  <2>2. \A p, q \in P : <<p, q>> \in less2 => second[p] <= second[q]
    BY <1>3, <1>7
  <2>3. \A p, q \in 1..m : p < q => second[list[p]] <= second[list[q]]
    BY <2>1, <2>2
  <2>4. QED
    BY <2>1, <2>3 DEF Sorted, P
<1>13. QED
  BY <1>4, <1>10, <1>11, <1>12 DEF P

LEMMA CrowdingType ==
  ASSUME NEW n \in Nat, NEW rows \in [1..n -> Evaluation], NEW m \in Nat, NEW front \in [1..m -> 1..n]
  PROVE  Crowding(rows, front) \in [1..m -> Int]
<1> DEFINE U == [p \in 1..m |-> rows[front[p]].first]
           V == [p \in 1..m |-> rows[front[p]].second]
           zero == [p \in 1..m |-> 0]
           C == Crowding(rows, front)
<1>1. Len(front) = m /\ DOMAIN front = 1..m
  BY SeqOf
<1>2. C = IF m <= 2 THEN [p \in 1..m |-> Infinite]
          ELSE Spread(Spread(zero, ByFirst(1..m, U), U), BySecond(1..m, U, V), V)
  BY <1>1, Zenon DEF Crowding
<1>3. Infinite \in Int
  BY SortAssumption, SMT DEF Infinite
<1>4. U \in [1..m -> Int] /\ V \in [1..m -> Int]
  <2>1. \A p \in 1..m : rows[front[p]] \in Evaluation
    OBVIOUS
  <2>2. \A r \in Evaluation : r.first \in Int /\ r.second \in Int
    BY DEF Evaluation
  <2>3. QED
    BY <2>1, <2>2
<1>5. zero \in [1..m -> Int]
  BY SMT
<1> HIDE DEF U, V, zero, C
<1>6. CASE m <= 2
  BY <1>2, <1>3, <1>6 DEF C
<1>7. CASE ~(m <= 2)
  <2>1. m \in Nat \ {0}
    BY <1>7, SMT
  <2>2. Spread(zero, ByFirst(1..m, U), U) \in [1..m -> Int]
    BY <1>4, <1>5, <2>1, PlacesSorted, SpreadType
  <2>3. Spread(Spread(zero, ByFirst(1..m, U), U), BySecond(1..m, U, V), V) \in [1..m -> Int]
    BY <1>4, <2>1, <2>2, PlacesSorted, SpreadType
  <2>4. QED
    BY <1>2, <1>7, <2>3 DEF C
<1>8. QED
  BY <1>6, <1>7

-----------------------------------------------------------------------------
(* Where a row stands, in terms of its layer. *)

Members == [row : Evaluation, rank : Nat, crowding : Int]

Standing(rows, d, i) ==
  LET front == Ascending(Layer(d, d[i]))
  IN  Member(rows[i], d[i], Crowding(rows, front)[Place(front, i)])

LEMMA PlaceIs ==
  ASSUME NEW m \in Nat, NEW front, DOMAIN front = 1..m,
         \A p, q \in 1..m : front[p] = front[q] => p = q, NEW p \in 1..m
  PROVE  Place(front, front[p]) = p
<1>1. \A q \in DOMAIN front : front[q] = front[p] <=> q = p
  OBVIOUS
<1>2. QED
  BY <1>1, Zenon DEF Place

LEMMA PlaceFacts ==
  ASSUME NEW d, NEW n, NEW K, Levels(d, n, K), NEW i \in 1..n
  PROVE  LET front == Ascending(Layer(d, d[i]))
         IN  Place(front, i) \in DOMAIN front /\ front[Place(front, i)] = i
<1> DEFINE front == Ascending(Layer(d, d[i]))
<1>1. DOMAIN d = 1..n /\ Range(front) = Layer(d, d[i])
  BY LayerFacts
<1>2. i \in Range(front)
  BY <1>1 DEF Layer
<1> HIDE DEF front
<1>3. \E p \in DOMAIN front : front[p] = i
  BY <1>2 DEF Range
<1>4. Place(front, i) \in DOMAIN front /\ front[Place(front, i)] = i
  BY <1>3, Zenon DEF Place
<1>5. QED
  BY <1>4 DEF front

LEMMA StandingFacts ==
  ASSUME NEW n \in Nat \ {0}, NEW rows \in [1..n -> Evaluation],
         NEW d, NEW K, Levels(d, n, K), NEW i \in 1..n
  PROVE  /\ Standing(rows, d, i) \in Members
         /\ Standing(rows, d, i).row = rows[i] /\ Standing(rows, d, i).rank = d[i]
<1> DEFINE front == Ascending(Layer(d, d[i]))
           m == Cardinality(Layer(d, d[i]))
           x == Crowding(rows, front)[Place(front, i)]
<1>1. /\ \A k : Layer(d, k) \subseteq 1..n /\ IsFiniteSet(Layer(d, k)) /\ Layer(d, k) \subseteq Int
      /\ d[i] \in Nat
  <2>1. K \in Nat
    BY LayerFacts
  <2>2. d[i] \in 1..K
    BY DEF Levels
  <2>3. d[i] \in Nat
    BY <2>1, <2>2, SMT
  <2>4. QED
    BY <2>3, LayerFacts
<1>2. front \in [1..m -> Layer(d, d[i])] /\ m \in Nat
  BY <1>1, AscendingLists
<1>3. Place(front, i) \in DOMAIN front
  BY PlaceFacts
<1> HIDE DEF front, m
<1>4. front \in [1..m -> 1..n]
  BY <1>1, <1>2
<1>5. Crowding(rows, front) \in [1..m -> Int]
  BY <1>2, <1>4, CrowdingType
<1>6. x \in Int
  BY <1>2, <1>3, <1>5
<1>7. Standing(rows, d, i) = Member(rows[i], d[i], x)
  BY Zenon DEF Standing, front
<1> HIDE DEF x
<1>8. rows[i] \in Evaluation
  OBVIOUS
<1>9. Member(rows[i], d[i], x) = [row |-> rows[i], rank |-> d[i], crowding |-> x]
  BY Zenon DEF Member
<1>10. QED
  BY <1>1, <1>6, <1>7, <1>8, <1>9 DEF Members

LEMMA JudgedIs ==
  ASSUME NEW rows, NEW d, NEW n, NEW K, Levels(d, n, K), NEW c \in 1..K
  PROVE  Judged(rows, FirstFronts(d, c)) = [i \in UpToLayer(d, c) |-> Standing(rows, d, i)]
<1> DEFINE f == FirstFronts(d, c)
           distance == [k \in DOMAIN f |-> Crowding(rows, f[k])]
           By(i) == LET k == FrontNumber(f, i)
                    IN  Member(rows[i], k, distance[k][Place(f[k], i)])
<1>1. K \in Nat \ {0} /\ DOMAIN d = 1..n
  BY LayerFacts
<1>2. c \in 0..K /\ c \in Nat /\ c \in 0..c /\ 1..c \subseteq 1..K
  BY <1>1, SMT
<1>3. /\ DOMAIN f = 1..c /\ RowsIn(f, c) = UpToLayer(d, c)
      /\ \A k \in 1..c : f[k] = Ascending(Layer(d, k)) /\ Range(f[k]) = Layer(d, k)
  BY <1>2, FirstFrontsFacts
<1> HIDE DEF f
<1>4. Len(distance) = c
  <2>1. distance \in [1..c -> {Crowding(rows, f[k]) : k \in 1..c}]
    BY <1>3
  <2> HIDE DEF distance
  <2>2. QED
    BY <1>2, <2>1, SeqOf
<1>5. Judged(rows, f) = [i \in RowsIn(f, Len(distance)) |-> By(i)]
  BY Zenon DEF Judged
<1>6. ASSUME NEW i \in UpToLayer(d, c) PROVE By(i) = Standing(rows, d, i)
  <2>1. i \in 1..n /\ d[i] \in 1..c
    <3>1. i \in DOMAIN d /\ d[i] <= c
      BY DEF UpToLayer
    <3>2. d[i] \in 1..K
      BY <1>1, <3>1 DEF Levels
    <3>3. d[i] \in 1..c
      BY <1>1, <1>2, <3>1, <3>2, SMT
    <3>4. QED
      BY <1>1, <3>1, <3>3
  <2>2. \A k \in 1..c : i \in Range(f[k]) <=> k = d[i]
    BY <1>1, <1>3, <2>1 DEF Layer
  <2>3. FrontNumber(f, i) = d[i]
    BY <1>3, <2>1, <2>2, Zenon DEF FrontNumber
  <2>4. distance[d[i]] = Crowding(rows, f[d[i]]) /\ f[d[i]] = Ascending(Layer(d, d[i]))
    BY <1>3, <2>1
  <2> HIDE DEF distance
  <2>5. By(i) = Member(rows[i], d[i], distance[d[i]][Place(f[d[i]], i)])
    BY <2>3
  <2>6. QED
    BY <2>4, <2>5, Zenon DEF Standing
<1> HIDE DEF distance, By
<1>7. QED
  BY <1>3, <1>4, <1>5, <1>6, Zenon DEF f

-----------------------------------------------------------------------------
(* Who is taken: the first in the order of preference. *)

Preference(judged, W, J) == {pair \in J \X J : Preferred(judged, W, pair[1], pair[2])}

LEMMA PreferredOrders ==
  ASSUME NEW J, J \subseteq Nat, NEW judged \in [J -> Members], NEW W \in Int
  PROVE  StrictOrder(J, Preference(judged, W, J))
<1> DEFINE before == Preference(judged, W, J)
           r == [i \in J |-> judged[i].rank]
           x == [i \in J |-> judged[i].crowding]
           Less(j, i) == \/ r[j] < r[i]
                         \/ r[j] = r[i] /\ (IF r[i] <= W THEN j < i
                                            ELSE x[j] > x[i] \/ (x[j] = x[i] /\ j < i))
<1>1. \A j, i \in J : Less(j, i) <=> Preferred(judged, W, j, i)
  BY Zenon DEF Preferred
<1>2. \A j, i \in J : <<j, i>> \in before <=> Less(j, i)
  BY <1>1, Zenon DEF Preference
<1>3. r \in [J -> Nat] /\ x \in [J -> Int]
  BY DEF Members
<1> HIDE DEF before, r, x
<1>4. \A i \in J : i \in Int /\ r[i] \in Int /\ x[i] \in Int
  <2>1. \A i \in J : i \in Nat /\ r[i] \in Nat /\ x[i] \in Int
    BY <1>3
  <2>2. QED
    BY <2>1, SMT
<1>5. \A i \in J : ~Less(i, i)
  BY <1>4, SMT
<1>6. \A i, j, k \in J : Less(i, j) /\ Less(j, k) => Less(i, k)
  BY <1>4, SMT
<1>7. \A i, j \in J : i # j => Less(i, j) \/ Less(j, i)
  BY <1>4, SMT
<1> HIDE DEF Less
<1>8. QED
  BY <1>2, <1>5, <1>6, <1>7 DEF StrictOrder, before

\* Those taken, in their order, and that nobody else is preferred to one of them.
Takes(taken, judged, J, W) ==
  /\ taken \in [1..PopulationSize -> J]
  /\ \A p, q \in 1..PopulationSize : taken[p] = taken[q] => p = q
  /\ \A p, q \in 1..PopulationSize : p < q => Preferred(judged, W, taken[p], taken[q])
  /\ \A i \in J : (\A p \in 1..PopulationSize : taken[p] # i) =>
       \A p \in 1..PopulationSize : Preferred(judged, W, taken[p], i)

LEMMA SelectedTakes ==
  ASSUME NEW J, J \subseteq Nat, IsFiniteSet(J), Cardinality(J) >= PopulationSize,
         NEW judged \in [J -> Members], NEW W \in Int
  PROVE  Takes(Selected(judged, W), judged, J, W)
<1> DEFINE before == Preference(judged, W, J)
           m == Cardinality(J)
           a == Arranged(J, before)
           taken == Selected(judged, W)
<1>1. m \in Nat /\ PopulationSize \in Nat /\ PopulationSize \in 0..m /\ 1..PopulationSize \subseteq 1..m
  <2>1. m \in Nat /\ m >= PopulationSize
    BY FS_CardinalityType
  <2>2. QED
    BY <2>1, Nsga2Assumption, SMT
<1>2. \A j, i \in J : <<j, i>> \in before <=> Preferred(judged, W, j, i)
  BY Zenon DEF Preference
<1>3. StrictOrder(J, before)
  BY PreferredOrders
<1>4. taken = SubSeq(a, 1, PopulationSize)
  <2>1. DOMAIN judged = J
    OBVIOUS
  <2>2. QED
    BY <2>1 DEF Selected, Preference
<1> HIDE DEF before, a, taken
<1>5. Lists(a, m, J, before)
  BY <1>3, ArrangedLists DEF a
<1>6. \A p, q \in 1..m : a[p] = a[q] => p = q
  BY <1>1, <1>3, <1>5, OneToOne
<1>7. /\ a \in [1..m -> J] /\ \A i \in J : \E p \in 1..m : a[p] = i
      /\ \A p, q \in 1..m : p < q => <<a[p], a[q]>> \in before
  BY <1>5 DEF Lists
<1> HIDE DEF m
<1>8. taken = [p \in 1..PopulationSize |-> a[p]]
  BY <1>1, <1>4, <1>7, Leading
<1>9. taken \in [1..PopulationSize -> J] /\ \A p \in 1..PopulationSize : taken[p] = a[p]
  BY <1>1, <1>7, <1>8
<1>10. \A p, q \in 1..PopulationSize : taken[p] = taken[q] => p = q
  BY <1>1, <1>6, <1>9
<1>11. \A p, q \in 1..PopulationSize : p < q => Preferred(judged, W, taken[p], taken[q])
  BY <1>1, <1>2, <1>7, <1>9
<1>12. ASSUME NEW i \in J, \A p \in 1..PopulationSize : taken[p] # i, NEW p \in 1..PopulationSize
       PROVE  Preferred(judged, W, taken[p], i)
  <2>1. PICK q \in 1..m : a[q] = i
    BY <1>7
  <2>2. q \notin 1..PopulationSize
    BY <1>9, <1>12, <2>1
  <2>3. p < q
    BY <1>1, <2>2, SMT
  <2>4. <<a[p], a[q]>> \in before
    BY <1>1, <1>7, <2>3
  <2>5. QED
    BY <1>1, <1>2, <1>7, <1>9, <2>1, <2>4
<1>13. QED
  BY <1>9, <1>10, <1>11, <1>12 DEF Takes, taken

LEMMA AsMany ==
  ASSUME NEW J, NEW m \in Nat, NEW f \in [1..m -> J], \A p, q \in 1..m : f[p] = f[q] => p = q
  PROVE  IsFiniteSet(Range(f)) /\ Cardinality(Range(f)) = m /\ Range(f) \subseteq J
<1>1. f \in [1..m -> Range(f)] /\ \A i \in Range(f) : \E p \in 1..m : f[p] = i
  BY DEF Range
<1>2. f \in Bijection(1..m, Range(f))
  BY <1>1, Zenon DEF Bijection, Injection, Surjection, IsInjective
<1>3. IsFiniteSet(1..m) /\ Cardinality(1..m) = m
  BY UpTo
<1>4. ExistsBijection(1..m, Range(f))
  BY <1>2, Zenon DEF ExistsBijection
<1>5. IsFiniteSet(Range(f)) /\ Cardinality(Range(f)) = m
  BY <1>3, <1>4, FS_Bijection, Zenon
<1>6. QED
  BY <1>5 DEF Range

\* How the fronts of n rows are cut: c layers of K cover the capacity, W fit in whole.
CutAt(n, rows, t, d, K, c, W) ==
  /\ Layered(rows, t, d) /\ Levels(d, n, K) /\ c \in 1..K
  /\ Fronts(rows, t, PopulationSize) = FirstFronts(d, c)
  /\ WholeFronts(FirstFronts(d, c)) = W
  /\ W \in {c - 1, c} /\ W \in 0..K
  /\ Cardinality(UpToLayer(d, c)) >= PopulationSize
  /\ Cardinality(UpToLayer(d, W)) <= PopulationSize
  /\ W # c => Cardinality(UpToLayer(d, W)) < PopulationSize

LEMMA IsCut ==
  ASSUME NEW n \in Nat, n >= PopulationSize, NEW rows \in [1..n -> Evaluation], NEW t \in Nat
  PROVE  \E K, c, W : CutAt(n, rows, t, Depth(rows, t), K, c, W)
<1> DEFINE d == Depth(rows, t)
<1>1. PopulationSize \in 1..n /\ n \in Nat \ {0}
  BY Nsga2Assumption, SMT
<1>2. Layered(rows, t, d)
  BY DepthLayered
<1> HIDE DEF d
<1>3. PICK K \in Nat : Levels(d, n, K)
  BY <1>1, <1>2, LayeredLevels
<1>4. PICK c \in 1..K : /\ Fronts(rows, t, PopulationSize) = FirstFronts(d, c)
                        /\ Cardinality(UpToLayer(d, c)) >= PopulationSize
                        /\ \A l \in 1..K : l < c => Cardinality(UpToLayer(d, l)) < PopulationSize
  BY <1>1, <1>2, <1>3, FrontsAre
<1> DEFINE W == WholeFronts(FirstFronts(d, c))
<1>5. /\ W \in {c - 1, c} /\ W \in 0..K
      /\ Cardinality(UpToLayer(d, W)) <= PopulationSize
      /\ W # c => Cardinality(UpToLayer(d, W)) < PopulationSize
  BY <1>3, <1>4, WholeFrontsAre
<1>6. CutAt(n, rows, t, d, K, c, W)
  BY <1>2, <1>3, <1>4, <1>5 DEF CutAt
<1>7. QED
  BY <1>6 DEF d

\* Who survives: by layers, whole layers in their order, nobody twice.
Survives(n, d, c, W, taken) ==
  /\ taken \in [1..PopulationSize -> UpToLayer(d, c)]
  /\ \A p, q \in 1..PopulationSize : taken[p] = taken[q] => p = q
  /\ \A p, q \in 1..PopulationSize : p < q => d[taken[p]] <= d[taken[q]]
  /\ \A p, q \in 1..PopulationSize :
       p < q /\ d[taken[p]] = d[taken[q]] /\ d[taken[q]] <= W => taken[p] < taken[q]
  /\ \A i \in UpToLayer(d, W) : \E p \in 1..PopulationSize : taken[p] = i
  /\ \A i \in 1..n : (\A p \in 1..PopulationSize : taken[p] # i) =>
       \A p \in 1..PopulationSize : d[taken[p]] <= d[i]
  /\ W # c => \E p \in 1..PopulationSize : d[taken[p]] = c

LEMMA TakenSurvive ==
  ASSUME NEW n \in Nat, n >= PopulationSize, NEW rows \in [1..n -> Evaluation], NEW t \in Nat,
         NEW d, NEW K, NEW c, NEW W, CutAt(n, rows, t, d, K, c, W)
  PROVE  Survives(n, d, c, W, Selected(Judged(rows, FirstFronts(d, c)), W))
<1> DEFINE J == UpToLayer(d, c)
           judged == Judged(rows, FirstFronts(d, c))
           taken == Selected(judged, W)
           N == PopulationSize
<1>1. /\ Levels(d, n, K) /\ c \in 1..K /\ W \in {c - 1, c} /\ W \in 0..K
      /\ Cardinality(J) >= PopulationSize
      /\ Cardinality(UpToLayer(d, W)) <= PopulationSize
      /\ W # c => Cardinality(UpToLayer(d, W)) < PopulationSize
  BY Zenon DEF CutAt
<1>2. /\ n \in Nat \ {0} /\ K \in Nat \ {0} /\ DOMAIN d = 1..n
      /\ \A k : UpToLayer(d, k) \subseteq 1..n /\ IsFiniteSet(UpToLayer(d, k))
  BY <1>1, LayerFacts
<1>3. \A i \in 1..n : d[i] \in Nat
  <2>1. \A i \in 1..n : d[i] \in 1..K
    BY <1>1 DEF Levels
  <2>2. \A k \in 1..K : k \in Nat
    BY <1>2, SMT
  <2>3. QED
    BY <2>1, <2>2
<1>4. judged = [i \in J |-> Standing(rows, d, i)]
  BY <1>1, JudgedIs
<1>5. /\ \A i \in 1..n : /\ Standing(rows, d, i) \in Members
                         /\ Standing(rows, d, i).rank = d[i]
  BY <1>1, <1>2, StandingFacts
<1>6. /\ judged \in [J -> Members] /\ \A i \in J : judged[i].rank = d[i]
      /\ J \subseteq 1..n /\ J \subseteq Nat /\ IsFiniteSet(J) /\ W \in Int /\ c \in Nat /\ N \in Nat
  <2>1. J \subseteq 1..n
    BY <1>2
  <2>2. 1..n \subseteq Nat /\ W \in Int /\ c \in Nat
    BY <1>1, <1>2, SMT
  <2>3. QED
    BY <1>2, <1>4, <1>5, <2>1, <2>2, Nsga2Assumption
<1> HIDE DEF judged
<1>7. Takes(taken, judged, J, W)
  <2> HIDE DEF J
  <2>1. QED
    BY <1>1, <1>6, SelectedTakes
<1>8. /\ taken \in [1..N -> J]
      /\ \A p, q \in 1..N : taken[p] = taken[q] => p = q
      /\ \A p, q \in 1..N : p < q => Preferred(judged, W, taken[p], taken[q])
      /\ \A i \in J : (\A p \in 1..N : taken[p] # i) =>
           \A p \in 1..N : Preferred(judged, W, taken[p], i)
  BY <1>7, Zenon DEF Takes
<1> HIDE DEF taken
<1>9. \A j, i \in J : Preferred(judged, W, j, i) =>
        /\ d[j] <= d[i]
        /\ d[j] = d[i] /\ d[i] <= W => j < i
  <2>1. TAKE j, i \in J
  <2>2. /\ judged[j].rank = d[j] /\ judged[i].rank = d[i]
        /\ d[j] \in Nat /\ d[i] \in Nat
    BY <1>3, <1>6
  <2>3. Preferred(judged, W, j, i) => d[j] < d[i] \/ (d[j] = d[i] /\ (d[i] <= W => j < i))
    BY <2>2, Zenon DEF Preferred
  <2> DEFINE x == d[j]
             y == d[i]
             Pr == Preferred(judged, W, j, i)
             Lt == j < i
  <2> HIDE DEF x, y, Pr, Lt
  <2>4. x \in Nat /\ y \in Nat /\ (Pr => x < y \/ (x = y /\ (y <= W => Lt)))
    BY <2>2, <2>3 DEF x, y, Pr, Lt
  <2>5. Pr => x <= y /\ (x = y /\ y <= W => Lt)
    BY <1>6, <2>4, SMT
  <2>6. QED
    BY <2>5 DEF x, y, Pr, Lt
<1>10. \A i \in 1..n : i \in J \/ c < d[i]
  <2>1. \A i \in 1..n : i \in J \/ ~(d[i] <= c)
    BY <1>2 DEF UpToLayer
  <2>2. \A x \in Nat : ~(x <= c) => c < x
    BY <1>6, SMT
  <2>3. QED
    BY <1>3, <2>1, <2>2
<1>11. \A i \in J : d[i] <= c /\ d[i] \in Nat
  BY <1>3, <1>6 DEF UpToLayer
<1>12. IsFiniteSet(Range(taken)) /\ Cardinality(Range(taken)) = N
  <2> HIDE DEF J
  <2>1. QED
    BY <1>6, <1>8, AsMany
<1>13. ASSUME NEW i \in UpToLayer(d, W), \A p \in 1..N : taken[p] # i PROVE FALSE
  <2>1. i \in 1..n /\ d[i] <= W
    BY <1>2, <1>13 DEF UpToLayer
  <2>2. i \in J
    <3>1. d[i] \in Nat /\ (W = c \/ W = c - 1)
      BY <1>1, <1>3, <2>1
    <3>2. ~(c < d[i])
      BY <1>6, <2>1, <3>1, SMT
    <3>3. QED
      BY <1>10, <2>1, <3>2
  <2>3. \A p \in 1..N : taken[p] \in 1..n /\ d[taken[p]] <= d[i]
    BY <1>6, <1>8, <1>9, <1>13, <2>2
  <2>4. \A x, y \in Nat : x <= y /\ y <= W => x <= W
    BY <1>6, SMT
  <2>5. \A p \in 1..N : taken[p] \in UpToLayer(d, W)
    BY <1>2, <1>3, <2>1, <2>3, <2>4 DEF UpToLayer
  <2>6. Range(taken) \subseteq UpToLayer(d, W) /\ i \notin Range(taken)
    BY <1>8, <1>13, <2>5 DEF Range
  <2>7. /\ Cardinality(Range(taken)) \in Nat /\ Cardinality(UpToLayer(d, W)) \in Nat
        /\ Cardinality(Range(taken)) < Cardinality(UpToLayer(d, W))
    BY <1>2, <1>13, <2>6, FewerIn
  <2>8. QED
    BY <1>1, <1>6, <1>12, <2>7, SMT
<1>14. ASSUME NEW i \in 1..n, \A p \in 1..N : taken[p] # i, NEW p \in 1..N
       PROVE  d[taken[p]] <= d[i]
  <2>1. CASE i \in J
    BY <1>8, <1>9, <1>14, <2>1
  <2>2. CASE c < d[i]
    <3>1. d[taken[p]] <= c /\ d[taken[p]] \in Nat /\ d[i] \in Nat
      BY <1>3, <1>8, <1>11
    <3>2. QED
      BY <1>6, <2>2, <3>1, SMT
  <2>3. QED
    BY <1>10, <2>1, <2>2
<1>15. W # c => \E p \in 1..N : d[taken[p]] = c
  <2>1. SUFFICES ASSUME W # c, \A p \in 1..N : d[taken[p]] # c PROVE FALSE
    OBVIOUS
  <2>2. W = c - 1
    BY <1>1, <2>1
  <2>3. \A x \in Nat : x <= c /\ x # c => x <= W
    BY <1>6, <2>2, SMT
  <2>4. \A p \in 1..N : taken[p] \in UpToLayer(d, W)
    BY <1>2, <1>6, <1>8, <1>11, <2>1, <2>3 DEF UpToLayer
  <2>5. Range(taken) \subseteq UpToLayer(d, W)
    BY <1>8, <2>4 DEF Range
  <2>6. Cardinality(Range(taken)) <= Cardinality(UpToLayer(d, W))
    BY <1>2, <2>5, FS_Subset
  <2>7. Cardinality(UpToLayer(d, W)) \in Nat
    BY <1>2, FS_CardinalityType
  <2>8. QED
    BY <1>1, <1>6, <1>12, <2>1, <2>6, <2>7, SMT
<1>16. /\ \A p, q \in 1..N : p < q => d[taken[p]] <= d[taken[q]]
       /\ \A p, q \in 1..N :
            p < q /\ d[taken[p]] = d[taken[q]] /\ d[taken[q]] <= W => taken[p] < taken[q]
  BY <1>8, <1>9
<1>17. QED
  BY <1>8, <1>13, <1>14, <1>15, <1>16 DEF Survives, taken, judged

-----------------------------------------------------------------------------
(* Those that survive, on their own: the same layers, and in a layer that    *)
(* fitted in whole the same distances.                                       *)

Kept(f, taken) == [p \in 1..PopulationSize |-> f[taken[p]]]

LEMMA KeptLayered ==
  ASSUME NEW n \in Nat \ {0}, NEW rows \in [1..n -> Evaluation], NEW t \in Nat,
         NEW d, Layered(rows, t, d), NEW c, NEW W, NEW taken, Survives(n, d, c, W, taken)
  PROVE  /\ Kept(rows, taken) \in [1..PopulationSize -> Evaluation]
         /\ Layered(Kept(rows, taken), t, Kept(d, taken))
<1> DEFINE N == PopulationSize
           R2 == Kept(rows, taken)
           d2 == Kept(d, taken)
<1>1. /\ d \in [1..n -> Nat \ {0}] /\ DOMAIN rows = 1..n
      /\ \A i, j \in 1..n : Dominates(rows[j], rows[i], t) => d[j] < d[i]
      /\ \A i \in 1..n : d[i] > 1 =>
           \E j \in 1..n : Dominates(rows[j], rows[i], t) /\ d[j] = d[i] - 1
  BY DEF Layered
<1>2. \A p \in 1..N : taken[p] \in 1..n
  BY <1>1 DEF Survives, UpToLayer
<1>3. \A p \in 1..N : R2[p] = rows[taken[p]] /\ d2[p] = d[taken[p]]
  BY DEF Kept
<1>4. R2 \in [1..N -> Evaluation] /\ DOMAIN R2 = 1..N
  BY <1>2 DEF Kept
<1>5. d2 \in [1..N -> Nat \ {0}]
  BY <1>1, <1>2 DEF Kept
<1> HIDE DEF R2, d2
<1>6. \A p, q \in 1..N : Dominates(R2[q], R2[p], t) => d2[q] < d2[p]
  BY <1>1, <1>2, <1>3
<1>7. ASSUME NEW p \in 1..N, d2[p] > 1
      PROVE  \E q \in 1..N : Dominates(R2[q], R2[p], t) /\ d2[q] = d2[p] - 1
  <2>1. PICK j \in 1..n : Dominates(rows[j], rows[taken[p]], t) /\ d[j] = d[taken[p]] - 1
    BY <1>1, <1>2, <1>3, <1>7
  <2>2. d[taken[p]] \in Nat
    BY <1>1, <1>2
  <2>3. ~(d[taken[p]] <= d[j])
    BY <2>1, <2>2, SMT
  <2>4. \E q \in 1..N : taken[q] = j
    BY <2>3 DEF Survives
  <2>5. PICK q \in 1..N : taken[q] = j
    BY <2>4
  <2>6. QED
    BY <1>3, <2>1, <2>5
<1>8. QED
  BY <1>4, <1>5, <1>6, <1>7 DEF Layered, R2, d2

LEMMA KeptStanding ==
  ASSUME NEW n \in Nat \ {0}, NEW rows \in [1..n -> Evaluation],
         NEW d, NEW K, Levels(d, n, K), NEW c, NEW W \in Int,
         NEW taken, Survives(n, d, c, W, taken),
         NEW L, Levels(Kept(d, taken), PopulationSize, L),
         NEW p \in 1..PopulationSize, d[taken[p]] <= W
  PROVE  Standing(Kept(rows, taken), Kept(d, taken), p) = Standing(rows, d, taken[p])
<1> DEFINE N == PopulationSize
           R2 == Kept(rows, taken)
           d2 == Kept(d, taken)
           k == d[taken[p]]
           m == Cardinality(Layer(d2, k))
           F == Ascending(Layer(d2, k))
           G == [q \in 1..m |-> taken[F[q]]]
<1>1. /\ DOMAIN d = 1..n /\ \A l : Layer(d, l) \subseteq 1..n /\ Layer(d, l) \subseteq Int
      /\ DOMAIN d2 = 1..N /\ N \in Nat
      /\ \A l : Layer(d2, l) \subseteq 1..N /\ IsFiniteSet(Layer(d2, l)) /\ Layer(d2, l) \subseteq Int
  <2>1. DOMAIN d2 = 1..N /\ N \in Nat
    BY Nsga2Assumption DEF Kept
  <2> HIDE DEF d2
  <2>2. QED
    BY <2>1, LayerFacts DEF d2
<1>2. \A q \in 1..N : taken[q] \in 1..n
  BY <1>1 DEF Survives, UpToLayer
<1>3. \A q \in 1..N : R2[q] = rows[taken[q]] /\ d2[q] = d[taken[q]]
  BY DEF Kept
<1>4. /\ \A q, r \in 1..N : q < r /\ d[taken[q]] = d[taken[r]] /\ d[taken[r]] <= W => taken[q] < taken[r]
      /\ \A i \in UpToLayer(d, W) : \E q \in 1..N : taken[q] = i
  BY DEF Survives
<1> HIDE DEF R2, d2
<1>5. /\ F \in [1..m -> Layer(d2, k)] /\ m \in Nat
      /\ \A i \in Layer(d2, k) : \E q \in 1..m : F[q] = i
      /\ \A q, r \in 1..m : q < r => F[q] < F[r]
      /\ \A q, r \in 1..m : F[q] = F[r] => q = r
      /\ Len(F) = m
  BY <1>1, AscendingLists
<1> HIDE DEF m, F
<1>6. \A q \in 1..m : F[q] \in 1..N /\ d[taken[F[q]]] = k /\ taken[F[q]] \in 1..n
  BY <1>1, <1>2, <1>3, <1>5 DEF Layer
<1>7. G \in [1..m -> Layer(d, k)]
  BY <1>1, <1>6 DEF Layer
<1>8. \A q \in 1..m : G[q] = taken[F[q]]
  OBVIOUS
<1> HIDE DEF G
<1>9. \A i \in Layer(d, k) : \E q \in 1..m : G[q] = i
  <2>1. TAKE i \in Layer(d, k)
  <2>2. i \in DOMAIN d /\ d[i] = k
    BY DEF Layer
  <2>3. i \in UpToLayer(d, W)
    BY <2>2 DEF UpToLayer
  <2>4. PICK r \in 1..N : taken[r] = i
    BY <1>4, <2>3
  <2>5. r \in Layer(d2, k)
    BY <1>1, <1>3, <2>2, <2>4 DEF Layer
  <2>6. PICK q \in 1..m : F[q] = r
    BY <1>5, <2>5
  <2>7. QED
    BY <1>8, <2>4, <2>6
<1>10. \A q, r \in 1..m : q < r => G[q] < G[r]
  <2>1. TAKE q, r \in 1..m
  <2>2. SUFFICES ASSUME q < r PROVE G[q] < G[r]
    OBVIOUS
  <2>3. F[q] < F[r] /\ F[q] \in 1..N /\ F[r] \in 1..N /\ d[taken[F[q]]] = k /\ d[taken[F[r]]] = k
    BY <1>5, <1>6, <2>2
  <2>4. taken[F[q]] < taken[F[r]]
    BY <1>4, <2>3
  <2>5. QED
    BY <1>8, <2>4
<1>11. G = Ascending(Layer(d, k))
  BY <1>1, <1>5, <1>7, <1>9, <1>10, OneAscending
<1>12. DOMAIN F = 1..m /\ DOMAIN G = 1..m /\ Len(G) = m
  BY <1>5, <1>7, SeqOf
<1>13. Crowding(R2, F) = Crowding(rows, G)
  <2>1. \A q \in DOMAIN F : R2[F[q]] = rows[G[q]]
    BY <1>3, <1>6, <1>8, <1>12
  <2>2. QED
    BY <1>5, <1>12, <2>1, CrowdingReadsRows
<1>14. PICK q \in 1..m : F[q] = p
  <2>1. p \in Layer(d2, k)
    BY <1>1, <1>3 DEF Layer
  <2>2. QED
    BY <1>5, <2>1
<1>15. Place(F, p) = q
  BY <1>5, <1>12, <1>14, PlaceIs
<1>16. Place(G, taken[p]) = q
  <2>1. \A r, s \in 1..m : G[r] = G[s] => r = s
    <3>1. TAKE r, s \in 1..m
    <3>2. SUFFICES ASSUME G[r] = G[s], r # s PROVE FALSE
      OBVIOUS
    <3>3. r < s \/ s < r
      BY <1>5, <3>2, SMT
    <3>4. G[r] < G[s] \/ G[s] < G[r]
      BY <1>10, <3>3
    <3>5. G[r] \in Int
      BY <1>1, <1>7
    <3>6. QED
      BY <3>2, <3>4, <3>5, SMT
  <2>2. G[q] = taken[p]
    BY <1>8, <1>14
  <2>3. Place(G, G[q]) = q
    BY <1>5, <1>12, <2>1, PlaceIs
  <2>4. QED
    BY <2>2, <2>3
<1>17. Standing(R2, d2, p) = Member(R2[p], k, Crowding(R2, F)[Place(F, p)])
  <2>1. d2[p] = k
    BY <1>3
  <2>2. Standing(R2, d2, p)
        = Member(R2[p], d2[p],
                 Crowding(R2, Ascending(Layer(d2, d2[p])))[Place(Ascending(Layer(d2, d2[p])), p)])
    BY Zenon DEF Standing
  <2> HIDE DEF k
  <2>3. F = Ascending(Layer(d2, d2[p]))
    BY <2>1 DEF F
  <2>4. QED
    BY <2>1, <2>2, <2>3
<1>18. Standing(rows, d, taken[p]) = Member(rows[taken[p]], k, Crowding(rows, G)[Place(G, taken[p])])
  BY <1>11, Zenon DEF Standing
<1>19. QED
  BY <1>3, <1>13, <1>15, <1>16, <1>17, <1>18 DEF R2, d2

\* The ranks, distances and fronts are those that sorting anew would find.
Fresh(pop, f, t) == f = Peel(RowsOf(pop), t) /\ pop = Assigned(RowsOf(pop), Peel(RowsOf(pop), t))

LEMMA StandingIsFresh ==
  ASSUME NEW m \in Nat \ {0}, NEW rows \in [1..m -> Evaluation], NEW t \in Nat,
         NEW d, Layered(rows, t, d), NEW L, Levels(d, m, L),
         NEW pop, pop = [p \in 1..m |-> Standing(rows, d, p)]
  PROVE  /\ pop \in [1..m -> Members] /\ RowsOf(pop) = rows
         /\ Fresh(pop, FirstFronts(d, L), t)
<1> DEFINE f == FirstFronts(d, L)
<1>1. \A p \in 1..m : Standing(rows, d, p) \in Members /\ Standing(rows, d, p).row = rows[p]
  BY StandingFacts
<1>2. pop \in [1..m -> Members] /\ \A p \in 1..m : pop[p].row = rows[p]
  BY <1>1
<1>3. RowsOf(pop) = rows
  <2>1. RowsOf(pop) = [p \in 1..m |-> pop[p].row]
    BY <1>2 DEF RowsOf
  <2>2. rows = [p \in 1..m |-> rows[p]]
    OBVIOUS
  <2>3. QED
    BY <1>2, <2>1, <2>2
<1>4. Peel(rows, t) = f
  BY PeelIs
<1>5. L \in 1..L /\ UpToLayer(d, L) = 1..m
  <2>1. L \in Nat \ {0} /\ UpToLayer(d, L) = 1..m
    BY LayerFacts
  <2>2. QED
    BY <2>1, SMT
<1>6. Judged(rows, f) = [p \in 1..m |-> Standing(rows, d, p)]
  BY <1>5, JudgedIs
<1> HIDE DEF f
<1>7. Assigned(rows, f) = pop
  <2>1. Assigned(rows, f) = [p \in 1..m |-> Judged(rows, f)[p]]
    BY DEF Assigned
  <2>2. \A p \in 1..m : Judged(rows, f)[p] = Standing(rows, d, p)
    BY <1>6
  <2>3. QED
    BY <2>1, <2>2
<1>8. QED
  BY <1>2, <1>3, <1>4, <1>7 DEF Fresh, f

\* What a generation keeps of n rows, and what it makes of their ranks and distances.
Winners(rows, t) ==
  LET sorted == Fronts(rows, t, PopulationSize)
  IN  Selected(Judged(rows, sorted), WholeFronts(sorted))
NextFronts(rows, t) ==
  LET judged == Judged(rows, Fronts(rows, t, PopulationSize))
  IN  Rebuilt([p \in DOMAIN Winners(rows, t) |-> judged[Winners(rows, t)[p]].rank])
NextPopulation(rows, t) ==
  LET sorted == Fronts(rows, t, PopulationSize)
      judged == Judged(rows, sorted)
      next == [p \in DOMAIN Winners(rows, t) |-> judged[Winners(rows, t)[p]]]
  IN  RecomputeSplit(next, RowsOf(next), NextFronts(rows, t), WholeFronts(sorted) + 1)

LEMMA WinnersSurvive ==
  ASSUME NEW n \in Nat, n >= PopulationSize, NEW rows \in [1..n -> Evaluation], NEW t \in Nat
  PROVE  \E K, c, W : /\ CutAt(n, rows, t, Depth(rows, t), K, c, W)
                      /\ Survives(n, Depth(rows, t), c, W, Winners(rows, t))
<1> DEFINE d == Depth(rows, t)
<1>1. PICK K, c, W : CutAt(n, rows, t, d, K, c, W)
  BY IsCut
<1> HIDE DEF d
<1>2. Fronts(rows, t, PopulationSize) = FirstFronts(d, c) /\ WholeFronts(FirstFronts(d, c)) = W
  BY <1>1, Zenon DEF CutAt
<1>3. Survives(n, d, c, W, Selected(Judged(rows, FirstFronts(d, c)), W))
  BY <1>1, TakenSurvive
<1>4. Winners(rows, t) = Selected(Judged(rows, FirstFronts(d, c)), W)
  BY <1>2, Zenon DEF Winners
<1>5. QED
  BY <1>1, <1>3, <1>4 DEF d

LEMMA GenerationIsFresh ==
  ASSUME NEW n \in Nat, n >= PopulationSize, NEW rows \in [1..n -> Evaluation], NEW t \in Nat
  PROVE  /\ NextPopulation(rows, t) \in [1..PopulationSize -> Members]
         /\ RowsOf(NextPopulation(rows, t)) = Kept(rows, Winners(rows, t))
         /\ \A p \in 1..PopulationSize : Winners(rows, t)[p] \in 1..n
         /\ Fresh(NextPopulation(rows, t), NextFronts(rows, t), t)
<1> DEFINE N == PopulationSize
           d == Depth(rows, t)
           taken == Winners(rows, t)
           sorted == Fronts(rows, t, N)
           judged == Judged(rows, sorted)
           next == [p \in DOMAIN taken |-> judged[taken[p]]]
           R2 == Kept(rows, taken)
           d2 == Kept(d, taken)
           pop == NextPopulation(rows, t)
           f == NextFronts(rows, t)
<1>1. PICK K, c, W : CutAt(n, rows, t, d, K, c, W) /\ Survives(n, d, c, W, taken)
  BY WinnersSurvive
<1> HIDE DEF d, taken
<1>2. /\ Layered(rows, t, d) /\ Levels(d, n, K) /\ c \in 1..K
      /\ sorted = FirstFronts(d, c) /\ WholeFronts(sorted) = W
      /\ W \in {c - 1, c} /\ W \in 0..K
  BY <1>1, Zenon DEF CutAt
<1>3. /\ n \in Nat \ {0} /\ K \in Nat \ {0} /\ DOMAIN d = 1..n
      /\ \A k : UpToLayer(d, k) \subseteq 1..n
  BY <1>2, LayerFacts
<1>4. N \in Nat /\ N \in Nat \ {0} /\ W \in Int /\ c \in Nat /\ \A k \in 1..K : k \in Nat
  BY <1>2, <1>3, Nsga2Assumption, SMT
<1>5. /\ taken \in [1..N -> UpToLayer(d, c)] /\ \A p \in 1..N : taken[p] \in 1..n
      /\ W # c => \E p \in 1..N : d[taken[p]] = c
  BY <1>1, <1>3 DEF Survives
<1>6. \A p \in 1..N : d[taken[p]] \in Nat /\ d[taken[p]] <= c
  BY <1>2, <1>4, <1>5 DEF UpToLayer, Levels
<1>7. R2 \in [1..N -> Evaluation] /\ Layered(R2, t, d2)
  BY <1>1, <1>2, <1>3, KeptLayered
<1>8. \A p \in 1..N : R2[p] = rows[taken[p]] /\ d2[p] = d[taken[p]]
  BY DEF Kept
<1>9. DOMAIN d2 = 1..N /\ d2 = [p \in 1..N |-> d[taken[p]]] /\ R2 = [p \in 1..N |-> rows[taken[p]]]
  BY DEF Kept
<1> HIDE DEF R2, d2
<1>10. PICK L \in Nat : Levels(d2, N, L)
  BY <1>4, <1>7, LayeredLevels
<1> DEFINE f2 == FirstFronts(d2, L)
<1>11. judged = [i \in UpToLayer(d, c) |-> Standing(rows, d, i)]
  BY <1>2, JudgedIs
<1> HIDE DEF judged, sorted
<1>12. \A i \in 1..n : /\ Standing(rows, d, i) \in Members /\ Standing(rows, d, i).row = rows[i]
                       /\ Standing(rows, d, i).rank = d[i]
  BY <1>2, <1>3, StandingFacts
<1>13. /\ next \in [1..N -> Members]
       /\ \A p \in 1..N : /\ next[p] = Standing(rows, d, taken[p])
                          /\ next[p].row = R2[p] /\ next[p].rank = d2[p]
  BY <1>5, <1>8, <1>11, <1>12
<1>14. RowsOf(next) = R2
  <2>1. RowsOf(next) = [p \in 1..N |-> next[p].row]
    BY <1>13 DEF RowsOf
  <2> HIDE DEF next
  <2>2. R2 = [p \in 1..N |-> R2[p]]
    BY <1>7
  <2>3. QED
    BY <1>13, <2>1, <2>2
<1>15. f = f2
  <2>1. DOMAIN taken = 1..N
    BY <1>5
  <2>2. \A p \in 1..N : judged[taken[p]].rank = d2[p]
    BY <1>13, <2>1
  <2>3. [p \in DOMAIN taken |-> judged[taken[p]].rank] = d2
    BY <1>9, <2>1, <2>2, <1>8
  <2>4. f = Rebuilt([p \in DOMAIN taken |-> judged[taken[p]].rank])
    BY Zenon DEF NextFronts, taken, judged, sorted
  <2>5. QED
    BY <1>10, <2>3, <2>4, RebuiltIs
<1>16. pop = RecomputeSplit(next, R2, f, W + 1)
  <2>1. pop = RecomputeSplit(next, RowsOf(next), f, WholeFronts(sorted) + 1)
    BY Zenon DEF NextPopulation, taken, judged, sorted
  <2> HIDE DEF next, pop, f
  <2>2. QED
    BY <1>2, <1>14, <2>1
<1> HIDE DEF next, pop, f
<1>17. /\ L \in 0..L /\ DOMAIN f2 = 1..L
       /\ \A k \in 1..L : f2[k] = Ascending(Layer(d2, k)) /\ Range(f2[k]) = Layer(d2, k)
       /\ \A p \in 1..N : d2[p] \in 1..L
  <2>1. L \in 0..L
    BY SMT
  <2>2. QED
    BY <1>10, <2>1, FirstFrontsFacts DEF Levels
<1> HIDE DEF f2
<1>18. ASSUME NEW p \in 1..N, d2[p] # W + 1 PROVE next[p] = Standing(R2, d2, p)
  <2>1. d[taken[p]] <= W
    <3>1. d[taken[p]] # W + 1 /\ (W = c \/ W = c - 1)
      BY <1>2, <1>8, <1>18
    <3>2. QED
      BY <1>4, <1>6, <3>1, SMT
  <2>2. Standing(R2, d2, p) = Standing(rows, d, taken[p])
    BY <1>1, <1>2, <1>3, <1>4, <1>10, <2>1, KeptStanding DEF R2, d2
  <2>3. QED
    BY <1>13, <2>2
<1>19. pop = [p \in 1..N |-> Standing(R2, d2, p)]
  <2>1. CASE W + 1 \notin DOMAIN f
    <3>1. pop = next
      BY <1>16, <2>1, Zenon DEF RecomputeSplit
    <3>2. \A p \in 1..N : d2[p] # W + 1
      BY <1>15, <1>17, <2>1
    <3>3. \A p \in 1..N : next[p] = Standing(R2, d2, p)
      BY <1>18, <3>2
    <3>4. next = [p \in 1..N |-> next[p]]
      BY <1>13
    <3>5. QED
      BY <3>1, <3>3, <3>4
  <2>2. CASE W + 1 \in DOMAIN f
    <3> DEFINE s == W + 1
               New(p) == IF p \in Range(f[s])
                         THEN [next[p] EXCEPT !.crowding = Crowding(R2, f[s])[Place(f[s], p)]]
                         ELSE next[p]
    <3>1. s \in 1..L /\ f[s] = Ascending(Layer(d2, s)) /\ Range(f[s]) = Layer(d2, s)
      BY <1>15, <1>17, <2>2
    <3>2. pop = [p \in DOMAIN next |-> New(p)]
      BY <1>16, <2>2, Zenon DEF RecomputeSplit
    <3> HIDE DEF s
    <3>3. ASSUME NEW p \in 1..N PROVE New(p) = Standing(R2, d2, p)
      <4>1. p \in Range(f[s]) <=> d2[p] = s
        BY <1>9, <3>1 DEF Layer
      <4>2. CASE d2[p] # s
        <5>1. New(p) = next[p]
          BY <4>1, <4>2
        <5>2. QED
          BY <1>18, <4>2, <5>1 DEF s
      <4>3. CASE d2[p] = s
        <5> DEFINE x == Crowding(R2, f[s])[Place(f[s], p)]
        <5>1. New(p) = [next[p] EXCEPT !.crowding = x]
          BY <4>1, <4>3
        <5>2. Standing(R2, d2, p) = Member(R2[p], s, x)
          <6>1. Standing(R2, d2, p)
                = Member(R2[p], d2[p],
                         Crowding(R2, Ascending(Layer(d2, d2[p])))[Place(Ascending(Layer(d2, d2[p])), p)])
            BY Zenon DEF Standing
          <6>2. QED
            BY <3>1, <4>3, <6>1
        <5> HIDE DEF x, New
        <5>3. next[p] \in Members /\ next[p].row = R2[p] /\ next[p].rank = s
          BY <1>13, <4>3
        <5> DEFINE z == next[p]
        <5> HIDE DEF z
        <5>4. [z EXCEPT !.crowding = x] = [row |-> z.row, rank |-> z.rank, crowding |-> x]
          BY <5>3 DEF z, Members
        <5>5. Member(R2[p], s, x) = [row |-> R2[p], rank |-> s, crowding |-> x]
          BY Zenon DEF Member
        <5>6. QED
          BY <5>1, <5>2, <5>3, <5>4, <5>5 DEF z
      <4>4. QED
        BY <4>2, <4>3
    <3> HIDE DEF New
    <3>4. DOMAIN next = 1..N
      BY <1>13
    <3>5. QED
      BY <3>2, <3>3, <3>4
  <2>3. QED
    BY <2>1, <2>2
<1>20. /\ pop \in [1..N -> Members] /\ RowsOf(pop) = R2
       /\ Fresh(pop, f2, t)
  BY <1>4, <1>7, <1>10, <1>19, StandingIsFresh DEF f2
<1>21. QED
  BY <1>5, <1>15, <1>20 DEF pop, f, taken, R2

LEMMA FirstIsFresh ==
  ASSUME NEW rows \in [1..PopulationSize -> Evaluation], NEW t \in Nat,
         NEW f, f = Fronts(rows, t, PopulationSize), NEW pop, pop = Assigned(rows, f)
  PROVE  pop \in [1..PopulationSize -> Members] /\ RowsOf(pop) = rows /\ Fresh(pop, f, t)
<1> DEFINE N == PopulationSize
           d == Depth(rows, t)
<1>1. N \in Nat /\ N \in Nat \ {0} /\ N >= N
  BY Nsga2Assumption, SMT
<1>2. PICK K, c, W : CutAt(N, rows, t, d, K, c, W)
  BY <1>1, IsCut
<1> HIDE DEF d
<1>3. /\ Layered(rows, t, d) /\ Levels(d, N, K) /\ c \in 1..K /\ f = FirstFronts(d, c)
      /\ Cardinality(UpToLayer(d, c)) >= N
  BY <1>2, Zenon DEF CutAt
<1>4. /\ K \in Nat \ {0} /\ DOMAIN d = 1..N /\ UpToLayer(d, K) = 1..N
      /\ UpToLayer(d, c) \subseteq 1..N
  BY <1>3, LayerFacts
<1>5. UpToLayer(d, c) = 1..N
  <2>1. IsFiniteSet(1..N) /\ Cardinality(1..N) = N
    BY <1>1, UpTo
  <2>2. SUFFICES ASSUME NEW i \in 1..N, i \notin UpToLayer(d, c) PROVE FALSE
    BY <1>4
  <2>3. /\ Cardinality(UpToLayer(d, c)) \in Nat /\ Cardinality(UpToLayer(d, c)) < Cardinality(1..N)
    BY <1>4, <2>1, <2>2, FewerIn
  <2>4. QED
    BY <1>1, <1>3, <2>1, <2>3, SMT
<1>6. c = K
  <2>1. PICK i \in 1..N : d[i] = K
    <3>1. K \in 1..K
      BY <1>4, SMT
    <3>2. QED
      BY <1>3, <3>1 DEF Levels
  <2>2. K <= c
    BY <1>5, <2>1 DEF UpToLayer
  <2>3. QED
    BY <1>3, <1>4, <2>2, SMT
<1>7. pop = [p \in 1..N |-> Standing(rows, d, p)]
  <2>1. Judged(rows, f) = [p \in 1..N |-> Standing(rows, d, p)]
    <3>1. Judged(rows, FirstFronts(d, c)) = [p \in UpToLayer(d, c) |-> Standing(rows, d, p)]
      BY <1>3, JudgedIs
    <3>2. QED
      BY <1>3, <1>5, <3>1
  <2>2. pop = [p \in 1..N |-> Judged(rows, f)[p]]
    BY DEF Assigned
  <2>3. \A p \in 1..N : Judged(rows, f)[p] = Standing(rows, d, p)
    BY <2>1
  <2>4. QED
    BY <2>2, <2>3
<1>8. f = FirstFronts(d, K)
  BY <1>3, <1>6
<1>9. pop \in [1..N -> Members] /\ RowsOf(pop) = rows /\ Fresh(pop, FirstFronts(d, K), t)
  BY <1>1, <1>3, <1>7, StandingIsFresh
<1>10. QED
  BY <1>8, <1>9
-----------------------------------------------------------------------------
(* The search *)

\* The types, and that the search keeps to its budgets.
SearchTypes ==
  /\ tolerance \in Tolerances
  /\ population \in [1..PopulationSize -> Members] /\ RowsOf(population) \in Groups
  /\ offspring \in Groups \cup {<<>>}
  /\ generation \in 0..Generations /\ (offspring # <<>> => generation < Generations)
  /\ evaluations \in 0..MaxEvaluations /\ failed \in BOOLEAN

SearchInv == SearchTypes /\ MetadataIsFresh

LEMMA GroupsAre == ASSUME NEW rows \in Groups PROVE rows \in [1..PopulationSize -> Evaluation]
<1>1. Rows \subseteq Evaluation
  BY Nsga2Assumption
<1>2. QED
  BY <1>1 DEF Groups

LEMMA CombinedType ==
  ASSUME SearchTypes, offspring # <<>>
  PROVE  /\ Combined \in [1..(PopulationSize + PopulationSize) -> Rows]
         /\ Combined \in [1..(PopulationSize + PopulationSize) -> Evaluation]
         /\ PopulationSize + PopulationSize \in Nat
         /\ PopulationSize + PopulationSize >= PopulationSize
         /\ tolerance \in Nat
<1> DEFINE N == PopulationSize
           a == RowsOf(population)
           b == offspring
           g == a \o b
<1>1. N \in Nat /\ Tolerances \subseteq Nat /\ Rows \subseteq Evaluation
  BY Nsga2Assumption
<1>2. a \in [1..N -> Rows] /\ b \in [1..N -> Rows] /\ tolerance \in Tolerances
  BY DEF SearchTypes, Groups
<1> HIDE DEF a, b
<1>3. a \in Seq(Rows) /\ Len(a) = N /\ b \in Seq(Rows) /\ Len(b) = N
  BY <1>1, <1>2, SeqOf
<1>4. g \in Seq(Rows) /\ Len(g) = N + N
  BY <1>3, ConcatProperties
<1> HIDE DEF g
<1>5. g \in [1..(N + N) -> Rows]
  BY <1>4, LenProperties
<1>6. N + N \in Nat /\ N + N >= N
  BY <1>1, SMT
<1>7. g \in [1..(N + N) -> Evaluation] /\ tolerance \in Nat
  BY <1>1, <1>2, <1>5
<1>8. QED
  BY <1>5, <1>6, <1>7 DEF g, a, b, Combined

LEMMA FreshIs == MetadataIsFresh <=> Fresh(population, fronts, tolerance)
  BY Zenon DEF MetadataIsFresh, Fresh

LEMMA SearchStarts == SearchInit => SearchInv
<1> SUFFICES ASSUME SearchInit PROVE SearchInv
  OBVIOUS
<1>1. PICK rows \in Groups : /\ fronts = Fronts(rows, tolerance, PopulationSize)
                             /\ population = Assigned(rows, fronts)
  BY DEF SearchInit
<1>2. tolerance \in Nat /\ tolerance \in Tolerances
  BY Nsga2Assumption DEF SearchInit
<1>3. rows \in [1..PopulationSize -> Evaluation]
  BY GroupsAre
<1>4. /\ population \in [1..PopulationSize -> Members] /\ RowsOf(population) = rows
      /\ Fresh(population, fronts, tolerance)
  BY <1>1, <1>2, <1>3, FirstIsFresh
<1>5. 0 \in 0..Generations /\ PopulationSize \in 0..MaxEvaluations
  BY Nsga2Assumption, SMT
<1>6. offspring = <<>> /\ generation = 0 /\ evaluations = PopulationSize /\ failed = FALSE
  BY DEF SearchInit
<1>7. SearchTypes
  BY <1>1, <1>2, <1>4, <1>5, <1>6 DEF SearchTypes
<1>8. QED
  BY <1>4, <1>7, FreshIs DEF SearchInv

LEMMA SurviveIs ==
  ASSUME Survive, SearchTypes
  PROVE  /\ population' = NextPopulation(Combined, tolerance)
         /\ fronts' = NextFronts(Combined, tolerance)
         /\ tolerance' = tolerance /\ offspring' = <<>> /\ generation' = generation + 1
         /\ evaluations' = evaluations /\ failed' = failed /\ offspring # <<>>
<1> DEFINE sorted == Fronts(Combined, tolerance, PopulationSize)
           judged == Judged(Combined, sorted)
           taken == Winners(Combined, tolerance)
           next == [p \in DOMAIN taken |-> judged[taken[p]]]
<1>1. taken = Selected(judged, WholeFronts(sorted))
  BY Zenon DEF Winners
<1>2. /\ fronts' = Rebuilt([p \in DOMAIN taken |-> next[p].rank])
      /\ population' = RecomputeSplit(next, RowsOf(next), fronts', WholeFronts(sorted) + 1)
  BY <1>1 DEF Survive
<1>3. fronts' = NextFronts(Combined, tolerance)
  <2>1. \A p \in DOMAIN taken : next[p].rank = judged[taken[p]].rank
    OBVIOUS
  <2>2. [p \in DOMAIN taken |-> next[p].rank] = [p \in DOMAIN taken |-> judged[taken[p]].rank]
    BY <2>1
  <2> HIDE DEF next
  <2>3. fronts' = Rebuilt([p \in DOMAIN taken |-> judged[taken[p]].rank])
    BY <1>2, <2>2
  <2>4. QED
    BY <2>3, Zenon DEF NextFronts
<1>4. population' = NextPopulation(Combined, tolerance)
  BY <1>2, <1>3, Zenon DEF NextPopulation
<1>5. QED
  BY <1>3, <1>4, Zenon DEF Survive

LEMMA SearchContinues == SearchInv /\ [SearchNext]_searchVars => SearchInv'
<1> SUFFICES ASSUME SearchInv, [SearchNext]_searchVars PROVE SearchInv'
  OBVIOUS
<1>1. SearchTypes /\ MetadataIsFresh
  BY DEF SearchInv
<1>2. CASE Breed
  <2>1. /\ tolerance' = tolerance /\ population' = population /\ fronts' = fronts
        /\ generation' = generation /\ failed' = failed
        /\ offspring' \in Groups /\ evaluations' = evaluations + PopulationSize
        /\ generation < Generations /\ evaluations + PopulationSize <= MaxEvaluations
    BY <1>2, Zenon DEF Breed, MayStep
  <2>2. evaluations' \in 0..MaxEvaluations
    <3>1. evaluations \in 0..MaxEvaluations
      BY <1>1 DEF SearchTypes
    <3>2. QED
      BY <2>1, <3>1, Nsga2Assumption, SMT
  <2>3. SearchTypes'
    BY <1>1, <2>1, <2>2 DEF SearchTypes, RowsOf, Groups
  <2>4. MetadataIsFresh'
    BY <1>1, <2>1 DEF MetadataIsFresh
  <2>5. QED
    BY <2>3, <2>4 DEF SearchInv
<1>3. CASE BreedFails
  <2>1. /\ tolerance' = tolerance /\ population' = population /\ fronts' = fronts
        /\ offspring' = offspring /\ evaluations' = evaluations
        /\ generation' = generation /\ failed' = TRUE
    BY <1>3, Zenon DEF BreedFails
  <2>2. SearchTypes'
    BY <1>1, <2>1 DEF SearchTypes, RowsOf, Groups
  <2>3. MetadataIsFresh'
    BY <1>1, <2>1 DEF MetadataIsFresh
  <2>4. QED
    BY <2>2, <2>3 DEF SearchInv
<1>4. CASE Survive
  <2> DEFINE n == PopulationSize + PopulationSize
             pop == NextPopulation(Combined, tolerance)
             f == NextFronts(Combined, tolerance)
             taken == Winners(Combined, tolerance)
  <2>1. /\ population' = pop /\ fronts' = f
        /\ tolerance' = tolerance /\ offspring' = <<>> /\ generation' = generation + 1
        /\ evaluations' = evaluations /\ failed' = failed /\ offspring # <<>>
    BY <1>1, <1>4, SurviveIs
  <2>2. /\ Combined \in [1..n -> Rows] /\ Combined \in [1..n -> Evaluation]
        /\ n \in Nat /\ n >= PopulationSize /\ tolerance \in Nat
    BY <1>1, <2>1, CombinedType
  <2>3. /\ pop \in [1..PopulationSize -> Members] /\ RowsOf(pop) = Kept(Combined, taken)
        /\ \A p \in 1..PopulationSize : taken[p] \in 1..n
        /\ Fresh(pop, f, tolerance)
    BY <2>2, GenerationIsFresh
  <2> HIDE DEF pop, f, taken, n
  <2>4. RowsOf(pop) \in Groups
    BY <2>2, <2>3 DEF Kept, Groups
  <2>5. generation' \in 0..Generations
    <3>1. generation \in 0..Generations /\ generation < Generations
      BY <1>1, <2>1 DEF SearchTypes
    <3>2. QED
      BY <2>1, <3>1, Nsga2Assumption, SMT
  <2>6. SearchTypes'
    BY <1>1, <2>1, <2>3, <2>4, <2>5 DEF SearchTypes, RowsOf, Groups
  <2>7. MetadataIsFresh'
    <3>1. Fresh(population', fronts', tolerance')
      BY <2>1, <2>3
    <3>2. QED
      BY <3>1, Zenon DEF MetadataIsFresh, Fresh, RowsOf, Assigned
  <2>8. QED
    BY <2>6, <2>7 DEF SearchInv
<1>5. CASE UNCHANGED searchVars
  BY <1>1, <1>5 DEF searchVars, SearchInv, SearchTypes, MetadataIsFresh, RowsOf, Groups
<1>6. QED
  BY <1>2, <1>3, <1>4, <1>5 DEF SearchNext

\* What a search keeps from any state on.
LEMMA SearchInvariant == SearchSpec => []SearchInv
<1>1. SearchInit => SearchInv
  BY SearchStarts
<1>2. SearchInv /\ [SearchNext]_searchVars => SearchInv'
  BY SearchContinues
<1>3. QED
  BY <1>1, <1>2, PTL DEF SearchSpec

(* The population keeps its size, every member of it is a row with a rank    *)
(* and a distance, and the generations and evaluations stay within their     *)
(* budgets (Nsga2::new, Nsga2::step).                                        *)
THEOREM SearchTypesHold == SearchSpec => []SearchTypes
<1>1. SearchInv => SearchTypes
  BY DEF SearchInv
<1>2. QED
  BY <1>1, SearchInvariant, PTL

(* At every generation assign_capped_survivor_selection_into keeps exactly   *)
(* as many rows as the population holds, and none it drops stands in an      *)
(* earlier front than one it keeps, the fronts being those of the definition *)
(* of dominance whichever of the two sorts found them.                       *)
THEOREM SurvivorsAreBest == SearchSpec => []BestSurvive
<1>1. SearchInv => BestSurvive
  <2> SUFFICES ASSUME SearchTypes, offspring # <<>>
               PROVE  LET rows == Combined
                          sorted == Fronts(rows, tolerance, PopulationSize)
                          survivors == Range(Selected(Judged(rows, sorted), WholeFronts(sorted)))
                          depth == Depth(rows, tolerance)
                      IN  /\ Cardinality(survivors) = PopulationSize
                          /\ \A s \in survivors, x \in DOMAIN rows \ survivors : depth[s] <= depth[x]
    BY Zenon DEF SearchInv, BestSurvive
  <2> DEFINE n == PopulationSize + PopulationSize
             taken == Winners(Combined, tolerance)
             depth == Depth(Combined, tolerance)
  <2>1. Combined \in [1..n -> Evaluation] /\ n \in Nat /\ n >= PopulationSize /\ tolerance \in Nat
    BY CombinedType
  <2> HIDE DEF n
  <2>2. PICK K, c, W : Survives(n, depth, c, W, taken)
    BY <2>1, WinnersSurvive
  <2>3. taken = Selected(Judged(Combined, Fronts(Combined, tolerance, PopulationSize)),
                         WholeFronts(Fronts(Combined, tolerance, PopulationSize)))
    BY Zenon DEF Winners
  <2> HIDE DEF taken, depth
  <2>4. /\ taken \in [1..PopulationSize -> UpToLayer(depth, c)]
        /\ \A p, q \in 1..PopulationSize : taken[p] = taken[q] => p = q
        /\ \A i \in 1..n : (\A p \in 1..PopulationSize : taken[p] # i) =>
             \A p \in 1..PopulationSize : depth[taken[p]] <= depth[i]
    BY <2>2, Zenon DEF Survives
  <2>5. Cardinality(Range(taken)) = PopulationSize
    BY <2>4, Nsga2Assumption, AsMany
  <2>6. ASSUME NEW s \in Range(taken), NEW x \in DOMAIN Combined \ Range(taken)
        PROVE  depth[s] <= depth[x]
    <3>1. x \in 1..n /\ \A p \in 1..PopulationSize : taken[p] # x
      BY <2>1, <2>4 DEF Range
    <3>2. PICK p \in 1..PopulationSize : taken[p] = s
      BY <2>4 DEF Range
    <3>3. QED
      BY <2>4, <3>1, <3>2
  <2>7. QED
    BY <2>3, <2>5, <2>6, Zenon DEF depth
<1>2. QED
  BY <1>1, SearchInvariant, PTL

(* The fronts, ranks and distances that the next tournament and the result   *)
(* read are those of the population as it stands: sorting it anew with the   *)
(* definition would find the same, although Nsga2::step only rebuilds the    *)
(* fronts from the ranks it has and recomputes the distances of one front.   *)
THEOREM MetadataStaysFresh == SearchSpec => []MetadataIsFresh
<1>1. SearchInv => MetadataIsFresh
  BY DEF SearchInv
<1>2. QED
  BY <1>1, SearchInvariant, PTL

(* The sweep finds the fronts of the definition: with no tolerance,          *)
(* fast_two_objective_capped_sort_into and the counting of dominators give   *)
(* the same fronts for any rows, ties, duplicates and constraints included,  *)
(* and both are the rows by the length of the longest chain of dominators.   *)
THEOREM SweepFindsTheFronts ==
  \A n \in Nat \ {0} : \A rows \in [1..n -> Evaluation] :
    FrontsOf(FastRanks(rows)) = Peel(rows, 0) /\ FastRanks(rows) = Depth(rows, 0)
<1> SUFFICES ASSUME NEW n \in Nat \ {0}, NEW rows \in [1..n -> Evaluation]
             PROVE  FrontsOf(FastRanks(rows)) = Peel(rows, 0) /\ FastRanks(rows) = Depth(rows, 0)
  OBVIOUS
<1>1. n \in Nat /\ 0 \in Nat
  OBVIOUS
<1>2. Layered(rows, 0, FastRanks(rows)) /\ Layered(rows, 0, Depth(rows, 0))
  BY <1>1, FastRanksLayered, DepthLayered
<1>3. FastRanks(rows) = Depth(rows, 0)
  BY <1>1, <1>2, OneLayering
<1>4. PICK K \in Nat : Levels(FastRanks(rows), n, K)
  BY <1>1, <1>2, LayeredLevels
<1>5. FrontsOf(FastRanks(rows)) = Peel(rows, 0)
  BY <1>1, <1>2, <1>4, FrontsOfIs, PeelIs
<1>6. QED
  BY <1>3, <1>5
-----------------------------------------------------------------------------
(* The memo of the mass solver. *)

Values == Residuals \union {NonFinite}

SlotTypes == [state : {"empty", "occupied", "tombstone"}, key : Int, value : Values \union {Unknown}]

\* What a slot remembers is known.
MemoTrue ==
  /\ memo.slots \in [Slots -> SlotTypes]
  /\ \A i \in Slots : memo.slots[i].state = "occupied" =>
       memo.slots[i].key \in DOMAIN known /\ memo.slots[i].value = known[memo.slots[i].key]

Masses == 0..MassMax + Xtol

KnownOK ==
  /\ DOMAIN known \subseteq Masses
  /\ \A m \in DOMAIN known : known[m] \in Values

LEMMA Remainder ==
  ASSUME NEW a \in Nat, NEW b \in Nat \ {0}
  PROVE  a % b \in 0..b - 1
BY SMT

LEMMA FirstIsFirst ==
  ASSUME NEW S \in SUBSET Nat, S # {}
  PROVE  First(S) \in S /\ \A m \in S : First(S) <= m
<1>1. \E n \in S : \A m \in S : n <= m
  <2> DEFINE R == {ss \in Nat \X Nat : ss[1] < ss[2]}
  <2>1. IsWellFoundedOn(R, Nat)
    BY NatLessThanWellFounded DEF OpToRel
  <2> HIDE DEF R
  <2>2. \E n \in S : \A m \in S : ~(<<m, n>> \in R)
    BY <2>1, WFMin, Zenon
  <2>3. \A n, m \in Nat : ~(<<m, n>> \in R) => n <= m
    BY SMT DEF R
  <2>4. QED
    BY <2>2, <2>3, Zenon
<1>2. QED
  BY <1>1, Zenon DEF First

LEMMA ProbeRange ==
  ASSUME NEW key \in Masses, NEW n \in Nat
  PROVE  Probe(key, n) \in Slots
<1>1. Home[key] \in Nat /\ Home[key] + n \in Nat /\ TableSize \in Nat \ {0}
  BY MemoAssumption, MassSolverAssumption, SMT DEF Masses
<1>2. QED
  BY <1>1, Remainder, Zenon DEF Probe, Slots

\* A mass that is found in the table is found with what is known of it.
LEMMA Recall ==
  ASSUME MemoTrue, KnownOK, NEW mass \in Masses
  PROVE  IF Hits(memo.slots, mass) = {} THEN Remembered(mass) = Unknown
         ELSE mass \in DOMAIN known /\ Remembered(mass) = known[mass] /\ Remembered(mass) # Unknown
<1>1. CASE Hits(memo.slots, mass) = {}
  BY <1>1, Zenon DEF Remembered, Get
<1>2. CASE Hits(memo.slots, mass) # {}
  <2> DEFINE n == First(Hits(memo.slots, mass))
  <2>1. Hits(memo.slots, mass) \subseteq Nat
    BY MemoAssumption, SMT DEF Hits, Passes, Slots
  <2>2. n \in Hits(memo.slots, mass)
    BY <1>2, <2>1, FirstIsFirst, Zenon
  <2>3. /\ n \in Nat /\ memo.slots[Probe(mass, n)].state = "occupied"
        /\ memo.slots[Probe(mass, n)].key = mass
    <3>1. n \in Passes(memo.slots, mass, "occupied") /\ memo.slots[Probe(mass, n)].key = mass
      BY <2>2, Zenon DEF Hits
    <3>2. QED
      BY <2>1, <2>2, <3>1, Zenon DEF Passes
  <2>4. Probe(mass, n) \in Slots
    BY <2>3, ProbeRange, Zenon
  <2>5. mass \in DOMAIN known /\ memo.slots[Probe(mass, n)].value = known[mass]
    BY <2>3, <2>4, Zenon DEF MemoTrue
  <2>6. Remembered(mass) = known[mass]
    BY <1>2, <2>5, Zenon DEF Remembered, Get, ExistingSlot
  <2>7. known[mass] # Unknown
    BY <2>5, MassSolverAssumption, Zenon DEF KnownOK, Values
  <2>8. QED
    BY <1>2, <2>5, <2>6, <2>7, Zenon
<1>3. QED
  BY <1>1, <1>2, Zenon

Grown ==
  /\ DOMAIN known \subseteq DOMAIN known'
  /\ \A m \in DOMAIN known : known'[m] = known[m]

LEMMA Adding ==
  ASSUME KnownOK, NEW mass \in Masses, NEW r \in Values,
         mass \in DOMAIN known => known[mass] = r, known' = Learn(mass, r)
  PROVE  KnownOK' /\ Grown /\ mass \in DOMAIN known' /\ known'[mass] = r
<1>1. /\ DOMAIN known' = DOMAIN known \union {mass}
      /\ \A m \in DOMAIN known : known'[m] = known[m]
      /\ known'[mass] = r
  BY Zenon DEF Learn
<1>2. mass \in DOMAIN known' /\ known'[mass] = r /\ Grown
  BY <1>1, Zenon DEF Grown
<1>3. \A m \in DOMAIN known' : m \in Masses /\ known'[m] \in Values
  BY <1>1, <1>2, Zenon DEF KnownOK
<1>4. QED
  BY <1>2, <1>3, Zenon DEF KnownOK, Values, Masses

LEMMA Evicting ==
  ASSUME NEW slots \in [Slots -> SlotTypes], NEW oldest
  PROVE  LET evicted == [slots EXCEPT ![oldest] = EvictedSlot(@)]
         IN  /\ evicted \in [Slots -> SlotTypes]
             /\ \A i \in Slots : i # oldest => evicted[i] = slots[i]
             /\ \A i \in Slots : i = oldest => evicted[i].state = "tombstone"
             /\ \A i \in Slots : evicted[i].state = "occupied" => evicted[i] = slots[i]
<1> DEFINE evicted == [slots EXCEPT ![oldest] = EvictedSlot(@)]
<1>1. \A i \in Slots : EvictedSlot(slots[i]) \in SlotTypes /\ EvictedSlot(slots[i]).state = "tombstone"
  BY SMT DEF EvictedSlot, SlotTypes
<1>2. DOMAIN evicted = Slots
      /\ \A i \in Slots : evicted[i] = IF i = oldest THEN EvictedSlot(slots[oldest]) ELSE slots[i]
  BY Zenon
<1>3. evicted \in [Slots -> SlotTypes]
  BY <1>1, <1>2, Zenon
<1>4. QED
  BY <1>1, <1>2, <1>3, SMT

\* An evaluation agrees with what was known, and adds to it.
LEMMA EvaluateKeeps ==
  ASSUME MemoTrue, KnownOK, NEW mass \in Masses, NEW r \in Outcomes(mass), Evaluate(mass, r)
  PROVE  MemoTrue' /\ KnownOK' /\ Grown /\ r \in Values
         /\ mass \in DOMAIN known' /\ known'[mass] = r
<1>1. r \in Values /\ (mass \in DOMAIN known => known[mass] = r)
  <2>1. CASE Remembered(mass) # Unknown
    BY <2>1, Recall, Zenon DEF Outcomes, KnownOK
  <2>2. CASE Remembered(mass) = Unknown
    <3>1. r \in Miss(mass)
      BY <2>2, Zenon DEF Outcomes
    <3>2. QED
      BY <3>1, Zenon DEF Miss, KnownOK, Values
  <2>3. QED
    BY <2>1, <2>2, Zenon
<1>2. KnownOK' /\ Grown /\ mass \in DOMAIN known' /\ known'[mass] = r
  BY <1>1, Adding, Zenon DEF Evaluate
<1>3. CASE Remembered(mass) # Unknown
  <2>1. memo' = memo
    BY <1>3, Zenon DEF Evaluate
  <2>2. MemoTrue'
    BY <1>2, <2>1, Zenon DEF MemoTrue, Grown, Slots, SlotTypes, Values
  <2>3. QED
    BY <1>1, <1>2, <2>2, Zenon
<1>4. CASE Remembered(mass) = Unknown
  <2> DEFINE slots == IF memo.len = Capacity
                      THEN [memo.slots EXCEPT ![memo.order[memo.next]] = EvictedSlot(@)]
                      ELSE memo.slots
  <2> DEFINE at == VacantSlot(slots, mass)
  <2>1. Hits(memo.slots, mass) = {} /\ memo' = Insert(memo, mass, r)
    BY <1>4, Recall, Zenon DEF Evaluate
  <2>2. memo'.slots = [slots EXCEPT ![at] = Slot("occupied", mass, r)]
    BY <2>1, SMT DEF Insert
  <2>3. /\ slots \in [Slots -> SlotTypes]
        /\ \A i \in Slots : slots[i].state = "occupied" => slots[i] = memo.slots[i]
    BY Evicting, Zenon DEF MemoTrue
  <2> HIDE DEF slots, at
  <2>4. Slot("occupied", mass, r) \in SlotTypes
    BY <1>1, SMT DEF Slot, SlotTypes, Masses
  <2>5. memo'.slots \in [Slots -> SlotTypes]
    BY <2>2, <2>3, <2>4, Zenon
  <2>6. ASSUME NEW i \in Slots, memo'.slots[i].state = "occupied"
        PROVE  memo'.slots[i].key \in DOMAIN known'
               /\ memo'.slots[i].value = known'[memo'.slots[i].key]
    <3>1. CASE i = at
      <4>1. memo'.slots[i] = Slot("occupied", mass, r)
        BY <2>2, <2>3, <3>1, SMT
      <4>2. memo'.slots[i].key = mass /\ memo'.slots[i].value = r
        BY <4>1, SMT DEF Slot
      <4>3. QED
        BY <1>2, <4>2, Zenon
    <3>2. CASE i # at
      <4>1. memo'.slots[i] = slots[i]
        BY <2>2, <2>3, <3>2, SMT
      <4>2. memo'.slots[i] = memo.slots[i]
        BY <2>3, <2>6, <4>1, Zenon
      <4>3. QED
        BY <1>2, <2>6, <4>2, Zenon DEF MemoTrue, Grown
    <3>3. QED
      BY <3>1, <3>2, Zenon
  <2>7. MemoTrue'
    BY <2>5, <2>6, Zenon DEF MemoTrue, Slots, SlotTypes, Values
  <2>8. QED
    BY <1>1, <1>2, <2>7, Zenon
<1>5. QED
  BY <1>3, <1>4, Zenon
-----------------------------------------------------------------------------
(* The invariant, by the phase of the search.                                *)

\* A point that was propagated to a finite miss.
Points == [m : Masses, r : Int]
At(p) == p \in Points /\ p.m \in DOMAIN known /\ known[p.m] = p.r

\* The last unsafe point, and a safe one above it.
Low == At(lo) /\ lo.r < 0
High == At(hi) /\ hi.r >= 0 /\ lo.m < hi.m

\* A point of Brent's method lies at or above the unsafe end.
Above(p) == At(p) /\ lo.m <= p.m

\* One end is safe and the last safe point, the other has the other sign.
Opposite(b) ==
  \/ b.best.r >= 0 /\ (b.brk.r < 0 \/ b.best.r = 0) /\ b.safe = b.best
  \/ b.best.r < 0 /\ b.brk.r >= 0 /\ b.safe = b.brk

Bracketed ==
  /\ brent \in [best : Points, prev : Points, brk : Points, safe : Points]
  /\ Above(brent.best) /\ Above(brent.prev) /\ Above(brent.brk) /\ Above(brent.safe)
  /\ Opposite(Contra(brent))

Windows == [floor : Int, ceil : Int, probe : Int]

\* Between the largest unsafe mass and the smallest whose orbit does not exist.
UpperWindow ==
  /\ window \in Windows /\ window.floor \in 0..window.probe /\ window.probe \in 1..MassMax
  /\ window.floor > 0 => IsUnsafe(window.floor)
  /\ window.ceil # NoMass =>
       /\ window.ceil \in window.probe..MassMax
       /\ window.ceil \in DOMAIN known /\ known[window.ceil] = NonFinite

\* The same above the last unsafe point of the validated path.
RecoverWindow ==
  /\ window \in Windows /\ lo.m <= window.floor /\ window.floor < window.ceil
  /\ IsUnsafe(window.floor)
  /\ window.ceil \in Masses
  /\ window.ceil \in DOMAIN known /\ known[window.ceil] = NonFinite

Validating ==
  /\ phase = "initial" => hi.m \in 0..MassMax /\ calls = 0 /\ DOMAIN known = {}
  /\ phase = "anchor" =>
       At(hi) /\ hi.r >= 0 /\ 0 < hi.m /\ calls = 1 /\ DOMAIN known = {hi.m}
  /\ phase = "correct" => Low /\ hi = lo /\ lo.m <= MassMax /\ calls = 1
  /\ phase = "repair" => Low /\ hi = lo /\ calls <= Budget
  /\ phase = "recover" => Low /\ calls <= Budget /\ RecoverWindow
  /\ phase = "gate" => Low /\ High /\ calls <= Budget
  /\ phase = "refine" => Low /\ Bracketed /\ calls <= Budget

Searching ==
  /\ phase = "zero" => calls = 0
  /\ phase = "upper" => Low /\ lo.m = 0 /\ UpperWindow /\ calls < MaxProbes
  /\ phase = "brent" => Low /\ Bracketed /\ calls <= MaxIter

ValidatePhases == {"initial", "anchor", "correct", "repair", "recover", "gate", "refine"}
FullPhases == {"zero", "upper", "brent"}

Ended ==
  /\ phase = "done" => ConvergedIsProved /\ GivesUpHonestly
  /\ phase # "done" => result = NoResult

IInv ==
  /\ MemoTrue /\ KnownOK /\ calls \in Nat /\ route \in {"validate", "full"}
  /\ phase \in {"start", "done"} \union ValidatePhases \union FullPhases
  /\ phase = "start" => calls = 0 /\ DOMAIN known = {} /\ route = "validate"
  /\ phase \in ValidatePhases => route = "validate"
  /\ phase \in FullPhases => route = "full"
  /\ Validating /\ Searching /\ Ended

\* What the constants say.
LEMMA Constants ==
  /\ Xtol \in Nat /\ Xtol >= 2 /\ Rtol \in Nat /\ Rtol > 0 /\ MassMax \in Nat /\ MassMax > 0
  /\ MaxIter \in Nat /\ Budget \in Nat /\ Budget >= 4 /\ Budget >= MaxIter
  /\ MaxProbes \in Nat /\ MaxProbes > 0 /\ Masses \subseteq Nat
  /\ Half(Xtol) \in Nat /\ Half(Xtol) >= 1
BY MassSolverAssumption, SMT DEF Budget, Larger, Masses, Half

LEMMA Finite ==
  ASSUME NEW r \in Values
  PROVE  /\ Safe(r) <=> r \in Int /\ r >= 0
         /\ Unsafe(r) <=> r \in Int /\ r < 0
         /\ r = NonFinite \/ Safe(r) \/ Unsafe(r)
BY MassSolverAssumption, SMT DEF Values, Safe, Unsafe

LEMMA WindowTypes ==
  ASSUME NEW w \in Windows
  PROVE  w.floor \in Int /\ w.ceil \in Int /\ w.probe \in Int
BY SMT DEF Windows

\* What is known stays known.
LEMMA AtStays ==
  ASSUME Grown, NEW p, At(p)
  PROVE  /\ p.m \in DOMAIN known' /\ known'[p.m] = p.r /\ p \in Points
         /\ p.r \in Int /\ p.m \in Masses
<1>1. p.r \in Int /\ p.m \in Masses
  BY SMT DEF At, Points
<1>2. QED
  BY <1>1, Zenon DEF Grown, At

\* The last unsafe point, as a number and as a fact.
LEMMA LowFacts ==
  ASSUME Low
  PROVE  /\ lo.m \in Masses /\ lo.m \in Nat /\ lo.m \in Int /\ lo.r \in Int /\ lo.r < 0
         /\ lo.m \in DOMAIN known /\ known[lo.m] = lo.r
<1>1. lo \in Points /\ lo.m \in DOMAIN known /\ known[lo.m] = lo.r /\ lo.r < 0
  BY Zenon DEF Low, At
<1>2. lo.m \in Masses /\ lo.r \in Int
  BY <1>1, SMT DEF Points
<1>3. lo.m \in Int
  BY <1>2, MassSolverAssumption, SMT DEF Masses
<1>4. lo.m \in Nat
  BY <1>2, Constants, Zenon
<1>5. QED
  BY <1>1, <1>2, <1>3, <1>4, Zenon

LEMMA PointFacts ==
  ASSUME NEW mass \in Masses, NEW r \in Int
  PROVE  Point(mass, r).m = mass /\ Point(mass, r).r = r /\ Point(mass, r) \in Points
BY SMT DEF Point, Points

\* A new evaluation is a point.
LEMMA NewPoint ==
  ASSUME NEW mass \in Masses, mass \in DOMAIN known', NEW r \in Int, known'[mass] = r
  PROVE  /\ Point(mass, r) \in Points /\ Point(mass, r).m = mass /\ Point(mass, r).r = r
         /\ known'[Point(mass, r).m] = Point(mass, r).r /\ Point(mass, r).m \in DOMAIN known'
BY PointFacts, Zenon

LEMMA KnownSides ==
  ASSUME NEW m \in DOMAIN known, KnownOK
  PROVE  /\ IsSafe(m) <=> known[m] \in Int /\ known[m] >= 0
         /\ IsUnsafe(m) <=> known[m] \in Int /\ known[m] < 0
<1>1. known[m] \in Values
  BY Zenon DEF KnownOK
<1>2. QED
  BY <1>1, Finite, Zenon DEF IsSafe, IsUnsafe
-----------------------------------------------------------------------------
(* The actions.                                                              *)

LEMMA FactsStay ==
  ASSUME MemoTrue, KnownOK, UNCHANGED facts
  PROVE  MemoTrue' /\ KnownOK' /\ Grown
<1>1. memo' = memo /\ known' = known
  BY Zenon DEF facts
<1>2. QED
  BY <1>1, Zenon DEF MemoTrue, KnownOK, Grown, Slots, SlotTypes, Values, Masses

LEMMA EndKeeps ==
  ASSUME MemoTrue', KnownOK', calls' \in Nat, route' \in {"validate", "full"}, phase' = "done",
         ConvergedIsProved', GivesUpHonestly'
  PROVE  IInv'
BY SMT DEF IInv, Validating, Searching, Ended, ValidatePhases, FullPhases

\* The loop that ended was within its limit.
LEMMA LimitsHold ==
  ASSUME calls' \in Nat,
         \/ route' = "validate" /\ calls' <= Budget
         \/ route' = "full" /\ calls' <= MaxIter
         \/ route' = "full" /\ calls' <= MaxProbes
  PROVE  WithinLimits'
<1>1. Larger(MaxIter, MaxProbes) >= MaxIter /\ Larger(MaxIter, MaxProbes) >= MaxProbes
      /\ Larger(MaxIter, MaxProbes) \in Nat
  BY Constants, SMT DEF Larger
<1> DEFINE most == Larger(MaxIter, MaxProbes)
<1>2. \/ route' = "validate" /\ calls' <= Budget
      \/ route' = "full" /\ calls' <= most
  <2> HIDE DEF most
  <2>1. most \in Nat /\ most >= MaxIter /\ most >= MaxProbes
    BY <1>1, Zenon DEF most
  <2>2. QED
    BY <2>1, Constants, SMT
<1>3. QED
  BY <1>2, Zenon DEF WithinLimits, Budget, Larger

\* What an ending of another kind does not claim.
LEMMA NoLimitClaimed ==
  ASSUME result'.status # "PhysicsLimited"
  PROVE  LimitIsReal'
BY Zenon DEF LimitIsReal

LEMMA NoRemainderClaimed ==
  ASSUME result'.status \notin {"UpperNonFinite", "RepairMissNonFinite"}
  PROVE  NothingIsLeft'
BY Zenon DEF NothingIsLeft

LEMMA SilentEnd ==
  ASSUME WithinLimits',
         result'.status \notin {"BudgetExhausted", "PhysicsLimited", "UpperNonFinite",
                               "RepairMissNonFinite"}
  PROVE  GivesUpHonestly'
<1>1. LimitIsReal' /\ NothingIsLeft'
  BY NoLimitClaimed, NoRemainderClaimed, Zenon
<1>2. QED
  BY <1>1, Zenon DEF GivesUpHonestly

\* An ending with the budget spent.
LEMMA SpentEnd ==
  ASSUME MemoTrue', KnownOK', route' = "validate", phase' = "done",
         calls' \in Nat, calls' <= Budget, calls' >= Budget, result'.status = "BudgetExhausted"
  PROVE  IInv'
<1>1. WithinLimits' /\ LimitIsReal' /\ NothingIsLeft'
  BY LimitsHold, NoLimitClaimed, NoRemainderClaimed, Zenon
<1>2. GivesUpHonestly'
  BY <1>1, Zenon DEF GivesUpHonestly, BudgetSpent, Budget, Larger
<1>3. ConvergedIsProved'
  BY Zenon DEF ConvergedIsProved
<1>4. QED
  BY <1>2, <1>3, EndKeeps, Zenon

\* An ending with nothing left to search.
LEMMA NothingLeftEnd ==
  ASSUME MemoTrue', KnownOK', route' = "validate", phase' = "done",
         calls' \in Nat, calls' <= Budget, result'.status = "RepairMissNonFinite",
         \/ NonFiniteWithin(0, 0)' \/ BudgetSpent'
         \/ (\E m \in DOMAIN known : IsUnsafe(m) /\ NonFiniteWithin(m, Xtol))'
  PROVE  IInv'
<1>1. NothingIsLeft'
  BY Zenon DEF NothingIsLeft, NonFiniteWithin, BudgetSpent, IsUnsafe, Unsafe, Size, Budget, Larger
<1>2. WithinLimits' /\ LimitIsReal'
  BY LimitsHold, NoLimitClaimed, Zenon
<1>3. GivesUpHonestly'
  BY <1>1, <1>2, Zenon DEF GivesUpHonestly
<1>4. ConvergedIsProved'
  BY Zenon DEF ConvergedIsProved
<1>5. QED
  BY <1>3, <1>4, EndKeeps, Zenon

\* An ending that claims nothing.
LEMMA PlainEnd ==
  ASSUME MemoTrue', KnownOK', calls' \in Nat, phase' = "done",
         \/ route' = "validate" /\ calls' <= Budget
         \/ route' = "full" /\ calls' <= MaxIter,
         result'.status \notin {"Converged", "BudgetExhausted", "PhysicsLimited",
                               "UpperNonFinite", "RepairMissNonFinite"}
  PROVE  IInv'
<1>1. GivesUpHonestly'
  BY LimitsHold, SilentEnd, Zenon
<1>2. ConvergedIsProved'
  BY Zenon DEF ConvergedIsProved
<1>3. QED
  BY <1>1, <1>2, EndKeeps, Zenon

\* An ending at a safe mass above an unsafe one.
LEMMA SafeEnd ==
  ASSUME MemoTrue', KnownOK', calls' \in Nat, route' = "validate",
         calls' <= Budget, NEW mass, ConvergedAt(mass),
         mass \in DOMAIN known', known'[mass] \in Int, known'[mass] >= 0,
         NEW low \in DOMAIN known', known'[low] \in Int, known'[low] < 0, low < mass
  PROVE  IInv'
<1>1. /\ phase' = "done" /\ result'.mass = mass
      /\ result'.status \in {"Converged", "ConvergedNonPositive"}
  BY SMT DEF ConvergedAt, Finish
<1>2. Safe(known'[mass]) /\ Unsafe(known'[low])
  BY MassSolverAssumption, SMT DEF Safe, Unsafe
<1>3. ConvergedIsProved'
  BY <1>1, <1>2, Zenon DEF ConvergedIsProved, IsSafe, IsUnsafe, Safe, Unsafe
<1>4. GivesUpHonestly'
  BY <1>1, LimitsHold, SilentEnd, Zenon
<1>5. QED
  BY <1>1, <1>3, <1>4, EndKeeps, SMT

LEMMA BeginKeeps ==
  ASSUME IInv, Begin
  PROVE  IInv'
<1>1. /\ MemoTrue' /\ KnownOK' /\ calls' = 0 /\ known' = known /\ DOMAIN known = {}
      /\ calls' = calls /\ phase = "start" /\ route = "validate" /\ result = NoResult
  BY FactsStay, SMT DEF IInv, Begin, facts, Ended
<1>2. CASE phase' = "done"
  <2>1. result'.status \in {"Refused", "FallbackLfSeed"}
    BY <1>2, SMT DEF Begin, Finish, Goto
  <2>2. route' = route
    BY <1>2, SMT DEF Begin, Finish, Goto
  <2>3. QED
    BY <1>1, <1>2, <2>1, <2>2, PlainEnd, Constants, SMT
<1>3. CASE phase' = "zero"
  BY <1>1, <1>3, SMT DEF Begin, Finish, Goto, IInv, Validating, Searching, Ended,
                         ValidatePhases, FullPhases
<1>4. CASE phase' = "initial"
  <2>1. route' = route /\ result' = result /\ hi'.m \in 0..MassMax
    BY <1>4, SMT DEF Begin, Finish, Goto, Point
  <2>2. QED
    BY <1>1, <1>4, <2>1, SMT DEF IInv, Validating, Searching, Ended, ValidatePhases, FullPhases
<1>5. QED
  BY <1>2, <1>3, <1>4, SMT DEF Begin, Finish, Goto

LEMMA InitialKeeps ==
  ASSUME IInv, Initial
  PROVE  IInv'
<1>1. /\ MemoTrue /\ KnownOK /\ route = "validate" /\ hi.m \in 0..MassMax /\ DOMAIN known = {}
      /\ result = NoResult /\ calls' = 1 /\ route' = route /\ phase = "initial"
  BY SMT DEF IInv, Initial, Validating, Ended, ValidatePhases
<1>2. PICK r \in Outcomes(hi.m) :
        /\ Evaluate(hi.m, r)
        /\ \/ r = NonFinite /\ Finish(NoMass, "InitialMissNonFinite") /\ UNCHANGED bracket
           \/ Safe(r) /\ hi.m = 0 /\ Finish(0, "SafeByDefault") /\ UNCHANGED bracket
           \/ Safe(r) /\ hi.m > 0 /\ Goto("anchor") /\ hi' = Point(hi.m, r) /\ UNCHANGED lo
           \/ Unsafe(r) /\ Goto("correct") /\ hi' = Point(hi.m, r) /\ lo' = Point(hi.m, r)
  BY Zenon DEF Initial
<1>3. hi.m \in Masses
  BY <1>1, Constants, SMT DEF Masses
<1>4. /\ MemoTrue' /\ KnownOK' /\ Grown /\ r \in Values
      /\ hi.m \in DOMAIN known' /\ known'[hi.m] = r
  BY <1>1, <1>2, <1>3, EvaluateKeeps, Zenon
<1>5. DOMAIN known' = {hi.m}
  BY <1>1, <1>2, Zenon DEF Evaluate, Learn
<1>6. CASE Finish(NoMass, "InitialMissNonFinite")
  <2>1. phase' = "done" /\ result'.status = "InitialMissNonFinite"
    BY <1>6, SMT DEF Finish
  <2>2. QED
    BY <1>1, <1>4, <2>1, PlainEnd, Constants, SMT
<1>7. CASE Finish(0, "SafeByDefault")
  <2>1. phase' = "done" /\ result'.status = "SafeByDefault"
    BY <1>7, SMT DEF Finish
  <2>2. QED
    BY <1>1, <1>4, <2>1, PlainEnd, Constants, SMT
<1>8. CASE Safe(r) /\ hi.m > 0 /\ Goto("anchor") /\ hi' = Point(hi.m, r)
  <2>1. phase' = "anchor" /\ result' = result /\ hi' = Point(hi.m, r)
    BY <1>8, Zenon DEF Goto
  <2>2. hi'.m = hi.m /\ hi'.r = r
    BY <2>1, SMT DEF Point
  <2>3. r \in Int /\ r >= 0
    BY <1>4, <1>8, Finite, Zenon
  <2>4. At(hi)'
    BY <1>3, <1>4, <2>1, <2>3, NewPoint, Zenon DEF At, Points, Masses
  <2>5. QED
    BY <1>1, <1>4, <1>5, <1>8, <2>1, <2>2, <2>3, <2>4, SMT
       DEF IInv, Validating, Searching, Ended, ValidatePhases, FullPhases
<1>9. CASE Unsafe(r) /\ Goto("correct") /\ hi' = Point(hi.m, r) /\ lo' = Point(hi.m, r)
  <2>1. phase' = "correct" /\ result' = result /\ hi' = Point(hi.m, r) /\ lo' = Point(hi.m, r)
    BY <1>9, Zenon DEF Goto
  <2>2. lo'.m = hi.m /\ lo'.r = r /\ hi' = lo'
    BY <2>1, SMT DEF Point
  <2>3. r \in Int /\ r < 0
    BY <1>4, <1>9, Finite, Zenon
  <2>4. At(lo)'
    BY <1>3, <1>4, <2>1, <2>3, NewPoint, Zenon DEF At, Points, Masses
  <2>5. Low' /\ lo'.m <= MassMax
    BY <1>1, <2>2, <2>3, <2>4, SMT DEF Low
  <2>6. QED
    BY <1>1, <1>4, <2>1, <2>2, <2>5, SMT
       DEF IInv, Validating, Searching, Ended, ValidatePhases, FullPhases
<1>10. QED
  BY <1>2, <1>6, <1>7, <1>8, <1>9, Zenon

LEMMA AnchorKeeps ==
  ASSUME IInv, Anchor
  PROVE  IInv'
<1>1. /\ MemoTrue /\ KnownOK /\ route = "validate" /\ At(hi) /\ hi.r >= 0 /\ 0 < hi.m
      /\ DOMAIN known = {hi.m} /\ result = NoResult /\ calls' = 2 /\ route' = route /\ hi' = hi
  BY SMT DEF IInv, Anchor, Validating, Ended, ValidatePhases
<1>2. PICK zero \in Outcomes(0) :
        /\ IF exact THEN zero \in Residuals /\ known' = Learn(0, zero) /\ UNCHANGED memo
           ELSE Evaluate(0, zero)
        /\ \/ zero = NonFinite /\ Finish(NoMass, "RepairMissNonFinite") /\ UNCHANGED lo
           \/ Safe(zero) /\ Finish(0, "SafeByDefault") /\ UNCHANGED lo
           \/ Unsafe(zero) /\ RetiresAtSeed(zero) /\ ConvergedAt(hi.m) /\ UNCHANGED lo
           \/ Unsafe(zero) /\ ~RetiresAtSeed(zero) /\ Goto("gate") /\ lo' = Point(0, zero)
  BY Zenon DEF Anchor
<1>3. 0 \in Masses /\ hi.m \in Int /\ 0 \notin DOMAIN known
  BY <1>1, Constants, SMT DEF Masses, At, Points
<1>4. /\ MemoTrue' /\ KnownOK' /\ Grown /\ zero \in Values /\ 0 \in DOMAIN known' /\ known'[0] = zero
  <2>1. CASE exact
    <3>1. zero \in Values /\ memo' = memo /\ known' = Learn(0, zero)
      BY <1>2, <2>1, Zenon DEF Values
    <3>2. KnownOK' /\ Grown /\ 0 \in DOMAIN known' /\ known'[0] = zero
      BY <1>1, <1>3, <3>1, Adding, Zenon
    <3>3. MemoTrue'
      BY <1>1, <3>1, <3>2, Zenon DEF MemoTrue, Grown, Slots, SlotTypes, Values
    <3>4. QED
      BY <3>1, <3>2, <3>3, Zenon
  <2>2. CASE ~exact
    BY <1>1, <1>2, <1>3, <2>2, EvaluateKeeps, Zenon
  <2>3. QED
    BY <2>1, <2>2, Zenon
<1>5. /\ hi.m \in DOMAIN known' /\ known'[hi.m] = hi.r /\ hi \in Points
      /\ hi.r \in Int /\ hi.m \in Masses
  BY <1>1, <1>4, AtStays, Zenon
<1>6. CASE zero = NonFinite /\ Finish(NoMass, "RepairMissNonFinite")
  <2>1. phase' = "done" /\ result'.status = "RepairMissNonFinite"
    BY <1>6, SMT DEF Finish
  <2>2. calls' \in Nat /\ calls' <= Budget
    BY <1>1, Constants, SMT
  <2>3. Size(0 - 0) <= 0
    BY SMT DEF Size
  <2>4. NonFiniteWithin(0, 0)'
    BY <1>4, <1>6, <2>3, Zenon DEF NonFiniteWithin, Size
  <2>5. QED
    BY <1>1, <1>4, <2>1, <2>2, <2>4, NothingLeftEnd, Zenon
<1>10. CASE Finish(0, "SafeByDefault")
  <2>1. phase' = "done" /\ result'.status = "SafeByDefault"
    BY <1>10, SMT DEF Finish
  <2>2. QED
    BY <1>1, <1>4, <2>1, PlainEnd, Constants, SMT
<1>7. CASE Unsafe(zero) /\ ConvergedAt(hi.m)
  <2>1. known'[0] \in Int /\ known'[0] < 0
    BY <1>4, <1>7, Finite, Zenon
  <2>2. calls' \in Nat /\ calls' <= Budget
    BY <1>1, Constants, SMT
  <2>3. QED
    BY <1>1, <1>4, <1>5, <1>7, <2>1, <2>2, SafeEnd, Zenon
<1>8. CASE Unsafe(zero) /\ Goto("gate") /\ lo' = Point(0, zero)
  <2>1. phase' = "gate" /\ result' = result /\ lo' = Point(0, zero)
    BY <1>8, Zenon DEF Goto
  <2>2. lo'.m = 0 /\ lo'.r = zero /\ zero \in Int /\ zero < 0
    BY <1>4, <1>8, <2>1, Finite, SMT DEF Point
  <2>3. Low'
    BY <1>3, <1>4, <2>1, <2>2, NewPoint, Zenon DEF Low, At, Points, Masses
  <2>4. High'
    BY <1>1, <1>5, <2>2, Zenon DEF High, At, Points, Masses
  <2>5. calls' \in Nat /\ calls' <= Budget
    BY <1>1, Constants, SMT
  <2>6. QED
    BY <1>1, <1>4, <2>1, <2>3, <2>4, <2>5, SMT
       DEF IInv, Validating, Searching, Ended, ValidatePhases, FullPhases
<1>9. QED
  BY <1>2, <1>6, <1>7, <1>8, <1>10, Zenon

LEMMA UnsafeStays ==
  ASSUME Grown, NEW m \in DOMAIN known, Unsafe(known[m])
  PROVE  m \in DOMAIN known' /\ Unsafe(known'[m])
BY Zenon DEF Grown

LEMMA LowStays ==
  ASSUME Low, Grown, lo' = lo
  PROVE  Low'
<1>1. lo.m \in DOMAIN known' /\ known'[lo.m] = lo.r /\ lo \in Points
  BY AtStays, Zenon DEF Low
<1>2. QED
  BY <1>1, Zenon DEF Low, At, Points, Masses

\* The evaluation at a mass above the last unsafe one.
LEMMA ProbeKeeps ==
  ASSUME MemoTrue, KnownOK, calls \in Nat, calls < Budget, route = "validate",
         result = NoResult, Low, NEW mass \in Masses, lo.m < mass, ProbeAt(mass)
  PROVE  IInv'
<1>1. PICK r \in Outcomes(mass) :
        /\ Evaluate(mass, r)
        /\ \/ /\ r = NonFinite /\ Goto("recover") /\ UNCHANGED bracket
              /\ window' = [floor |-> lo.m, ceil |-> mass, probe |-> 0]
           \/ Safe(r) /\ Goto("gate") /\ hi' = Point(mass, r) /\ UNCHANGED <<lo, window>>
           \/ /\ Unsafe(r) /\ Goto("repair") /\ UNCHANGED window
              /\ hi' = Point(mass, r) /\ lo' = Point(mass, r)
  BY Zenon DEF ProbeAt
<1>2. MemoTrue' /\ KnownOK' /\ Grown /\ r \in Values /\ mass \in DOMAIN known' /\ known'[mass] = r
  BY <1>1, EvaluateKeeps, Zenon
<1>3. calls' \in Nat /\ calls' <= Budget /\ route' = "validate"
  BY Constants, SMT DEF ProbeAt
<1>4. lo.m \in Masses /\ lo.m \in Int /\ mass \in Int
  BY LowFacts, SMT DEF Masses
<1>5. CASE /\ r = NonFinite /\ Goto("recover") /\ UNCHANGED bracket
           /\ window' = [floor |-> lo.m, ceil |-> mass, probe |-> 0]
  <2>1. phase' = "recover" /\ result' = result /\ lo' = lo
    BY <1>5, Zenon DEF Goto, bracket
  <2>2. window' \in Windows /\ window'.floor = lo.m /\ window'.ceil = mass
    BY <1>4, <1>5, SMT DEF Windows
  <2>3. Low'
    BY <1>2, <2>1, LowStays, Zenon
  <2>4. /\ window' \in Windows /\ lo'.m <= window'.floor /\ window'.floor < window'.ceil
        /\ window'.ceil \in Masses
    BY <1>4, <2>1, <2>2, SMT
  <2>5. IsUnsafe(window.floor)'
    <3>1. lo.m \in DOMAIN known /\ known[lo.m] \in Int /\ known[lo.m] < 0
      BY LowFacts, Zenon
    <3>2. Unsafe(known[lo.m])
      BY <3>1, MassSolverAssumption, Zenon DEF Unsafe
    <3>3. lo.m \in DOMAIN known' /\ Unsafe(known'[lo.m])
      BY <1>2, <3>1, <3>2, UnsafeStays, Zenon
    <3>4. QED
      BY <2>2, <3>3, Zenon DEF IsUnsafe, Unsafe
  <2>6. RecoverWindow'
    BY <1>2, <1>5, <2>2, <2>4, <2>5, Zenon DEF RecoverWindow, Windows, Masses, IsUnsafe, Unsafe
  <2>7. QED
    BY <1>2, <1>3, <2>1, <2>3, <2>6, SMT
       DEF IInv, Validating, Searching, Ended, ValidatePhases, FullPhases
<1>6. CASE Safe(r) /\ Goto("gate") /\ hi' = Point(mass, r) /\ UNCHANGED <<lo, window>>
  <2>1. phase' = "gate" /\ result' = result /\ lo' = lo
    BY <1>6, Zenon DEF Goto
  <2>2. r \in Int /\ r >= 0
    BY <1>2, <1>6, Finite, Zenon
  <2>3. High'
    BY <1>2, <1>6, <2>1, <2>2, NewPoint, Zenon DEF High, At, Points, Masses
  <2>4. Low'
    BY <1>2, <2>1, LowStays, Zenon
  <2>5. QED
    BY <1>2, <1>3, <2>1, <2>3, <2>4, SMT
       DEF IInv, Validating, Searching, Ended, ValidatePhases, FullPhases
<1>7. CASE Unsafe(r) /\ Goto("repair") /\ hi' = Point(mass, r) /\ lo' = Point(mass, r)
  <2>1. phase' = "repair" /\ result' = result /\ hi' = lo'
    BY <1>7, Zenon DEF Goto
  <2>2. r \in Int /\ r < 0
    BY <1>2, <1>7, Finite, Zenon
  <2>3. Low'
    BY <1>2, <1>7, <2>2, NewPoint, Zenon DEF Low, At, Points, Masses
  <2>4. QED
    BY <1>2, <1>3, <2>1, <2>3, SMT
       DEF IInv, Validating, Searching, Ended, ValidatePhases, FullPhases
<1>8. QED
  BY <1>1, <1>5, <1>6, <1>7, Zenon

LEMMA OneShotKeeps ==
  ASSUME IInv, OneShot
  PROVE  IInv'
<1>1. /\ MemoTrue /\ KnownOK /\ route = "validate" /\ Low /\ lo.m <= MassMax /\ hi = lo
      /\ calls = 1 /\ result = NoResult
  BY SMT DEF IInv, OneShot, Validating, Ended, ValidatePhases
<1>2. lo.m \in Nat
  BY <1>1, LowFacts, Zenon
<1>3. CASE \E mass \in WideTargets(lo.m) \union NarrowTargets(lo.m) : ProbeAt(mass)
  <2>1. PICK mass \in WideTargets(lo.m) \union NarrowTargets(lo.m) : ProbeAt(mass)
    BY <1>3, Zenon
  <2>2. mass \in Masses /\ lo.m < mass
    <3>1. CASE mass \in WideTargets(lo.m)
      BY <1>2, <3>1, Constants, SMT DEF WideTargets, Masses
    <3>2. CASE mass \in NarrowTargets(lo.m)
      <4>1. PICK step \in Half(Xtol)..Xtol - 1 : lo.m < MassMax /\ mass = lo.m + step
        BY <3>2, Zenon DEF NarrowTargets
      <4>2. QED
        BY <1>2, <4>1, Constants, SMT DEF Masses
    <3>3. QED
      BY <3>1, <3>2, Zenon
  <2>3. calls \in Nat /\ calls < Budget
    BY <1>1, Constants, SMT
  <2>4. QED
    BY <1>1, <2>1, <2>2, <2>3, ProbeKeeps, Zenon
<1>4. CASE /\ Goto("repair") /\ UNCHANGED <<route, exact, bracket, window, brent, calls, facts>>
  <2>1. /\ phase' = "repair" /\ result' = result /\ lo' = lo /\ hi' = hi /\ calls' = calls
        /\ route' = route /\ UNCHANGED facts
    BY <1>4, Zenon DEF Goto, bracket
  <2>2. MemoTrue' /\ KnownOK' /\ Grown
    BY <1>1, <2>1, FactsStay, Zenon
  <2>3. Low'
    BY <1>1, <2>1, <2>2, LowStays, Zenon
  <2>4. calls' \in Nat /\ calls' <= Budget
    BY <1>1, <2>1, Constants, SMT
  <2>5. QED
    BY <1>1, <2>1, <2>2, <2>3, <2>4, SMT
       DEF IInv, Validating, Searching, Ended, ValidatePhases, FullPhases
<1>5. QED
  BY <1>3, <1>4, Zenon DEF OneShot

LEMMA RepairKeeps ==
  ASSUME IInv, Repair
  PROVE  IInv'
<1>1. /\ MemoTrue /\ KnownOK /\ route = "validate" /\ Low /\ hi = lo
      /\ calls \in Nat /\ calls < Budget /\ result = NoResult
  BY SMT DEF IInv, Repair, Validating, Ended, ValidatePhases
<1>2. PICK mass \in Candidates(hi.m) : mass > hi.m + Xtol /\ ProbeAt(mass)
  BY Zenon DEF Repair
<1>3. lo.m \in Nat
  BY <1>1, LowFacts, Zenon
<1>4. mass \in 0..MassMax
  BY Constants, SMT DEF Candidates
<1>5. mass \in Masses /\ lo.m < mass
  BY <1>1, <1>2, <1>3, <1>4, Constants, SMT DEF Masses
<1>6. QED
  BY <1>1, <1>2, <1>5, ProbeKeeps, Zenon

\* Giving up at the largest mass, or with the budget spent.
LEMMA GiveUpKeeps ==
  ASSUME IInv, GiveUp
  PROVE  IInv'
<1>1. /\ MemoTrue /\ KnownOK /\ route = "validate" /\ Low /\ hi = lo
      /\ calls \in Nat /\ calls <= Budget /\ result = NoResult
  BY SMT DEF IInv, GiveUp, Validating, Ended, ValidatePhases
<1>2. MemoTrue' /\ KnownOK' /\ Grown /\ calls' = calls /\ route' = route
  BY <1>1, FactsStay, Zenon DEF GiveUp
<1>3. lo.m \in Nat /\ lo.m \in DOMAIN known /\ known[lo.m] = lo.r /\ lo.r \in Int /\ lo.r < 0
  BY <1>1, LowFacts, Zenon
<1>4. lo.m \in DOMAIN known' /\ Unsafe(known'[lo.m])
  BY <1>2, <1>3, MassSolverAssumption, SMT DEF Grown, Unsafe
<1>5. CASE hi.m >= MassMax - Xtol
  <2>1. phase' = "done" /\ result'.status = "PhysicsLimited" /\ result'.mass = MassMax
    BY <1>5, SMT DEF GiveUp, Finish
  <2>2. LimitIsReal'
    BY <1>1, <1>4, <1>5, <2>1, Zenon DEF LimitIsReal, IsUnsafe, Unsafe
  <2>3. WithinLimits' /\ NothingIsLeft'
    BY <1>1, <1>2, <2>1, LimitsHold, NoRemainderClaimed, Zenon
  <2>4. GivesUpHonestly' /\ ConvergedIsProved'
    BY <2>1, <2>2, <2>3, Zenon DEF GivesUpHonestly, ConvergedIsProved
  <2>5. QED
    BY <1>1, <1>2, <2>1, <2>4, EndKeeps, SMT
<1>6. CASE ~(hi.m >= MassMax - Xtol)
  <2>1. phase' = "done" /\ result'.status = "BudgetExhausted"
    BY <1>6, SMT DEF GiveUp, Finish
  <2>2. calls >= Budget
    BY <1>1, <1>3, <1>6, Constants, SMT DEF GiveUp, Candidates
  <2>3. QED
    BY <1>1, <1>2, <2>1, <2>2, SpentEnd, Zenon
<1>7. QED
  BY <1>5, <1>6, Zenon

\* Bisection between an unsafe mass and one whose orbit does not exist.
LEMMA MiddleBetween ==
  ASSUME NEW floor \in Nat, NEW ceil \in Nat, NEW gap \in Nat, gap >= 2, ceil - floor > gap
  PROVE  (floor + ceil) \div 2 \in Nat /\ floor < (floor + ceil) \div 2
         /\ (floor + ceil) \div 2 < ceil
BY SMT

LEMMA RecoverKeeps ==
  ASSUME IInv, Recover
  PROVE  IInv'
<1>1. /\ MemoTrue /\ KnownOK /\ route = "validate" /\ Low /\ phase = "recover"
      /\ calls \in Nat /\ calls < Budget /\ result = NoResult
      /\ RecoverWindow
  BY SMT DEF IInv, Recover, Validating, Ended, ValidatePhases
<1>13. /\ window \in Windows /\ lo.m <= window.floor /\ window.floor < window.ceil
       /\ window.ceil \in Masses /\ IsUnsafe(window.floor)
       /\ window.ceil \in DOMAIN known /\ known[window.ceil] = NonFinite
  BY <1>1, Zenon DEF RecoverWindow
<1>2. PICK r \in Outcomes(Middle) :
        /\ Evaluate(Middle, r)
        /\ \/ /\ r = NonFinite /\ Goto("recover") /\ UNCHANGED hi
              /\ window' = [window EXCEPT !.ceil = Middle]
           \/ Safe(r) /\ Goto("gate") /\ hi' = Point(Middle, r) /\ window' = NoWindow
           \/ /\ Unsafe(r) /\ Goto("recover") /\ UNCHANGED hi
              /\ window' = [window EXCEPT !.floor = Middle]
  BY Zenon DEF Recover
<1>3. lo.m \in Nat /\ window.floor \in Int /\ window.ceil \in Nat /\ window.ceil - window.floor > Xtol
  <2>1. window.ceil \in Nat
    BY <1>13, Constants, Zenon
  <2>2. window.floor \in Int
    BY <1>13, SMT DEF Windows
  <2>3. QED
    BY <1>1, <2>1, <2>2, LowFacts, Zenon DEF Recover, Unresolved
<1>4. /\ Middle \in Nat /\ window.floor < Middle /\ Middle < window.ceil /\ lo.m < Middle
  <2>1. window.floor \in Nat
    BY <1>3, <1>13, SMT
  <2>2. Middle \in Nat /\ window.floor < Middle /\ Middle < window.ceil
    BY <1>3, <2>1, MiddleBetween, Constants, Zenon DEF Middle
  <2>3. QED
    BY <1>3, <1>13, <2>1, <2>2, SMT
<1>5. Middle \in Masses
  BY <1>3, <1>4, <1>13, MassSolverAssumption, SMT DEF Masses
<1> HIDE DEF Middle
<1>6. MemoTrue' /\ KnownOK' /\ Grown /\ r \in Values /\ Middle \in DOMAIN known' /\ known'[Middle] = r
  BY <1>1, <1>2, <1>5, EvaluateKeeps, Zenon
<1>7. calls' \in Nat /\ calls' <= Budget /\ route' = "validate" /\ lo' = lo
  BY <1>1, Constants, SMT DEF Recover
<1>8. Low'
  BY <1>1, <1>6, <1>7, LowStays, Zenon
<1>9. CASE r = NonFinite /\ Goto("recover") /\ window' = [window EXCEPT !.ceil = Middle]
  <2>1. phase' = "recover" /\ result' = result
    BY <1>9, Zenon DEF Goto
  <2>2. window' \in Windows /\ window'.floor = window.floor /\ window'.ceil = Middle
    BY <1>4, <1>9, <1>13, SMT DEF Windows
  <2>3. IsUnsafe(window.floor)'
    BY <1>6, <1>13, <2>2, UnsafeStays, Zenon DEF IsUnsafe, Unsafe
  <2>4. RecoverWindow'
    BY <1>4, <1>5, <1>6, <1>7, <1>9, <1>13, <2>2, <2>3, Zenon
       DEF RecoverWindow, Windows, Masses, IsUnsafe, Unsafe
  <2>5. QED
    BY <1>1, <1>6, <1>7, <1>8, <2>1, <2>4, SMT
       DEF IInv, Validating, Searching, Ended, ValidatePhases, FullPhases
<1>10. CASE Safe(r) /\ Goto("gate") /\ hi' = Point(Middle, r)
  <2>1. phase' = "gate" /\ result' = result
    BY <1>10, Zenon DEF Goto
  <2>2. r \in Int /\ r >= 0
    BY <1>6, <1>10, Finite, Zenon
  <2>3. High'
    BY <1>4, <1>5, <1>6, <1>7, <1>10, <2>2, NewPoint, Zenon DEF High, At, Points, Masses
  <2>4. QED
    BY <1>1, <1>6, <1>7, <1>8, <2>1, <2>3, SMT
       DEF IInv, Validating, Searching, Ended, ValidatePhases, FullPhases
<1>11. CASE Unsafe(r) /\ Goto("recover") /\ window' = [window EXCEPT !.floor = Middle]
  <2>1. phase' = "recover" /\ result' = result
    BY <1>11, Zenon DEF Goto
  <2>2. window' \in Windows /\ window'.floor = Middle /\ window'.ceil = window.ceil
    BY <1>4, <1>11, <1>13, SMT DEF Windows
  <2>3. lo'.m <= window'.floor /\ window'.floor < window'.ceil
    BY <1>3, <1>4, <1>7, <2>2, SMT
  <2>4. IsUnsafe(window.floor)'
    BY <1>6, <1>11, <2>2, Zenon DEF IsUnsafe, Unsafe
  <2>5. window'.ceil \in DOMAIN known' /\ known'[window'.ceil] = NonFinite
    <3>1. window.ceil \in DOMAIN known' /\ known'[window.ceil] = NonFinite
      BY <1>6, <1>13, Zenon DEF Grown
    <3>2. QED
      BY <2>2, <3>1, SMT
  <2>6. RecoverWindow'
    BY <1>13, <2>2, <2>3, <2>4, <2>5, Zenon DEF RecoverWindow, Windows, Masses, IsUnsafe, Unsafe
  <2>7. QED
    BY <1>1, <1>6, <1>7, <1>8, <2>1, <2>6, SMT
       DEF IInv, Validating, Searching, Ended, ValidatePhases, FullPhases
<1>12. QED
  BY <1>2, <1>9, <1>10, <1>11, Zenon

LEMMA RecoverFailsKeeps ==
  ASSUME IInv, RecoverFails
  PROVE  IInv'
<1>1. /\ MemoTrue /\ KnownOK /\ route = "validate" /\ calls \in Nat /\ calls <= Budget
      /\ RecoverWindow
  BY SMT DEF IInv, RecoverFails, Validating, ValidatePhases
<1>2. /\ MemoTrue' /\ KnownOK' /\ calls' = calls /\ route' = route /\ known' = known
  BY <1>1, FactsStay, Zenon DEF RecoverFails, facts
<1>3. phase' = "done" /\ result'.status = "RepairMissNonFinite"
  BY SMT DEF RecoverFails, Finish
<1>4. CASE calls >= Budget
  <2>1. BudgetSpent'
    BY <1>1, <1>2, <1>4, Zenon DEF BudgetSpent, Budget, Larger
  <2>2. QED
    BY <1>1, <1>2, <1>3, <2>1, NothingLeftEnd, Zenon
<1>5. CASE ~Unresolved
  <2>1. /\ window.floor \in DOMAIN known /\ Unsafe(known[window.floor])
        /\ window.ceil \in DOMAIN known /\ known[window.ceil] = NonFinite
    BY <1>1, Zenon DEF RecoverWindow, IsUnsafe
  <2>2. Size(window.ceil - window.floor) <= Xtol
    <3>1. /\ window.floor < window.ceil /\ window.floor \in Int /\ window.ceil \in Int
          /\ ~(window.ceil - window.floor > Xtol)
      BY <1>1, <1>5, WindowTypes, Zenon DEF RecoverWindow, Unresolved
    <3>2. QED
      BY <3>1, Constants, SMT DEF Size
  <2>3. (\E m \in DOMAIN known : IsUnsafe(m) /\ NonFiniteWithin(m, Xtol))'
    BY <1>2, <2>1, <2>2, Zenon DEF IsUnsafe, Unsafe, NonFiniteWithin, Size
  <2>4. QED
    BY <1>1, <1>2, <1>3, <2>3, NothingLeftEnd, Zenon
<1>6. QED
  BY <1>4, <1>5, Zenon DEF RecoverFails
-----------------------------------------------------------------------------
(* Brent's method.                                                           *)

\* The points a bracket begins with.
LEMMA StartFacts ==
  ASSUME NEW low, NEW high, low \in Points, high \in Points, low.r < 0, high.r >= 0
  PROVE  /\ StartBrent(low, high) \in [best : Points, prev : Points, brk : Points, safe : Points]
         /\ StartBrent(low, high).best = high /\ StartBrent(low, high).prev = low
         /\ StartBrent(low, high).brk = low /\ StartBrent(low, high).safe = high
         /\ Opposite(Contra(StartBrent(low, high)))
<1>1. /\ StartBrent(low, high) \in [best : Points, prev : Points, brk : Points, safe : Points]
      /\ StartBrent(low, high).best = high /\ StartBrent(low, high).prev = low
      /\ StartBrent(low, high).brk = low /\ StartBrent(low, high).safe = high
  BY SMT DEF StartBrent
<1>2. low.r \in Int /\ high.r \in Int
  BY SMT DEF Points
<1>3. ~SameSide(high.r, low.r)
  BY <1>2, SMT DEF SameSide
<1>4. Contra(StartBrent(low, high)) = StartBrent(low, high)
  BY <1>1, <1>3, Zenon DEF Contra
<1>5. QED
  BY <1>1, <1>4, Zenon DEF Opposite

LEMMA GateKeeps ==
  ASSUME IInv, Gate
  PROVE  IInv'
<1>1. /\ MemoTrue /\ KnownOK /\ route = "validate" /\ Low /\ High
      /\ calls \in Nat /\ calls <= Budget /\ result = NoResult
  BY SMT DEF IInv, Gate, Validating, Ended, ValidatePhases
<1>2. /\ MemoTrue' /\ KnownOK' /\ Grown /\ calls' = calls /\ route' = route
      /\ lo' = lo /\ hi' = hi /\ known' = known
  BY <1>1, FactsStay, Zenon DEF Gate, bracket, facts
<1>3. At(lo) /\ At(hi) /\ hi.r >= 0 /\ lo.m < hi.m /\ lo.r < 0
  BY <1>1, Zenon DEF Low, High
<1>4. /\ hi.m \in DOMAIN known' /\ known'[hi.m] = hi.r /\ hi \in Points /\ hi.r \in Int
      /\ lo.m \in DOMAIN known' /\ known'[lo.m] = lo.r /\ lo \in Points /\ lo.r \in Int
  BY <1>2, <1>3, AtStays, Zenon
<1>5. CASE ConvergedAt(hi.m)
  <2>1. /\ known'[hi.m] \in Int /\ known'[hi.m] >= 0
        /\ known'[lo.m] \in Int /\ known'[lo.m] < 0
    BY <1>3, <1>4, Zenon
  <2>2. calls' \in Nat /\ calls' <= Budget /\ route' = "validate"
    BY <1>1, <1>2, Zenon
  <2>3. QED
    BY <1>2, <1>3, <1>4, <1>5, <2>1, <2>2, SafeEnd, Zenon
<1>6. CASE Goto("refine") /\ brent' = StartBrent(lo, hi)
  <2>1. phase' = "refine" /\ result' = result
    BY <1>6, Zenon DEF Goto
  <2>2. /\ brent' \in [best : Points, prev : Points, brk : Points, safe : Points]
        /\ brent'.best = hi /\ brent'.prev = lo /\ brent'.brk = lo /\ brent'.safe = hi
        /\ Opposite(Contra(brent'))
    <3>1. /\ StartBrent(lo, hi) \in [best : Points, prev : Points, brk : Points, safe : Points]
          /\ StartBrent(lo, hi).best = hi /\ StartBrent(lo, hi).prev = lo
          /\ StartBrent(lo, hi).brk = lo /\ StartBrent(lo, hi).safe = hi
          /\ Opposite(Contra(StartBrent(lo, hi)))
      BY <1>3, <1>4, StartFacts
    <3>2. brent' = StartBrent(lo, hi)
      BY <1>6, Zenon
    <3> HIDE DEF StartBrent, Opposite, Contra, Points
    <3>3. QED
      BY <3>1, <3>2, SMT
  <2>3. Above(hi) /\ Above(lo)
    <3>1. lo.m <= lo.m /\ lo.m <= hi.m
      BY <1>1, <1>3, <1>4, LowFacts, SMT DEF Points, Masses
    <3>2. QED
      BY <1>3, <3>1, Zenon DEF Above
  <2>4. Above(hi)' /\ Above(lo)'
    BY <1>2, <2>3, Zenon DEF Above, At, Points, Masses
  <2>5. Bracketed'
    <3>1. Above(brent.best)' /\ Above(brent.prev)' /\ Above(brent.brk)' /\ Above(brent.safe)'
      BY <1>2, <2>2, <2>4, Zenon DEF Above, At, Points, Masses
    <3>2. QED
      BY <2>2, <3>1, Zenon DEF Bracketed, Points, Masses, Opposite, Contra
  <2>6. Low'
    BY <1>1, <1>2, LowStays, Zenon
  <2>7. QED
    BY <1>1, <1>2, <2>1, <2>5, <2>6, SMT
       DEF IInv, Validating, Searching, Ended, ValidatePhases, FullPhases
<1>7. QED
  BY <1>5, <1>6, Zenon DEF Gate

Quads == [best : Points, prev : Points, brk : Points, safe : Points]

LEMMA ContraFacts ==
  ASSUME NEW b \in Quads
  PROVE  /\ Contra(b) \in Quads /\ Contra(b).best = b.best /\ Contra(b).prev = b.prev
         /\ Contra(b).safe = b.safe
         /\ SameSide(b.best.r, b.brk.r) => Contra(b).brk = b.prev
         /\ ~SameSide(b.best.r, b.brk.r) => Contra(b).brk = b.brk
<1>1. CASE SameSide(b.best.r, b.brk.r)
  <2>1. Contra(b) = [b EXCEPT !.brk = b.prev]
    BY <1>1, Zenon DEF Contra
  <2>2. QED
    BY <1>1, <2>1, SMT DEF Quads
<1>2. CASE ~SameSide(b.best.r, b.brk.r)
  BY <1>2, Zenon DEF Contra
<1>3. QED
  BY <1>1, <1>2, Zenon

LEMMA PointTypes ==
  ASSUME NEW b \in Quads
  PROVE  /\ b.best \in Points /\ b.prev \in Points /\ b.brk \in Points /\ b.safe \in Points
         /\ b.best.r \in Int /\ b.prev.r \in Int /\ b.brk.r \in Int /\ b.safe.r \in Int
         /\ b.best.m \in Masses /\ b.brk.m \in Masses /\ b.safe.m \in Masses
<1>1. b.best \in Points /\ b.prev \in Points /\ b.brk \in Points /\ b.safe \in Points
  BY SMT DEF Quads
<1>2. QED
  BY <1>1, SMT DEF Points

\* The nearer of the two ends is the best one, and the other is its opposite.
LEMMA OrderedFacts ==
  ASSUME NEW b \in Quads, Opposite(b)
  PROVE  /\ Ordered(b) \in Quads /\ Opposite(Ordered(b))
         /\ Size(Ordered(b).best.r) <= Size(Ordered(b).brk.r)
         /\ {Ordered(b).best, Ordered(b).prev, Ordered(b).brk, Ordered(b).safe}
              \subseteq {b.best, b.prev, b.brk, b.safe}
<1>1. /\ b.best.r \in Int /\ b.brk.r \in Int /\ b.best \in Points /\ b.brk \in Points
  BY PointTypes, Zenon
<1>2. CASE Size(b.brk.r) < Size(b.best.r)
  <2>1. Ordered(b) = [best |-> b.brk, prev |-> b.best, brk |-> b.best, safe |-> b.safe]
    BY <1>2, Zenon DEF Ordered
  <2>2. /\ Ordered(b) \in Quads /\ Ordered(b).best = b.brk /\ Ordered(b).brk = b.best
        /\ Ordered(b).prev = b.best /\ Ordered(b).safe = b.safe
    BY <2>1, PointTypes, SMT DEF Quads, Points
  <2>3. b.best.r # 0
    BY <1>1, <1>2, SMT DEF Size
  <2>4. \/ b.best.r >= 0 /\ b.brk.r < 0 /\ b.safe = b.best
        \/ b.best.r < 0 /\ b.brk.r >= 0 /\ b.safe = b.brk
    BY <2>3, Zenon DEF Opposite
  <2>5. Opposite(Ordered(b))
    BY <2>2, <2>4, Zenon DEF Opposite
  <2>6. Size(Ordered(b).best.r) <= Size(Ordered(b).brk.r)
    BY <1>1, <1>2, <2>2, SMT DEF Size
  <2>7. QED
    BY <2>2, <2>5, <2>6, Zenon
<1>3. CASE ~(Size(b.brk.r) < Size(b.best.r))
  <2>1. Ordered(b) = b
    BY <1>3, Zenon DEF Ordered
  <2>2. Size(b.best.r) <= Size(b.brk.r)
    BY <1>1, <1>3, SMT DEF Size
  <2>3. QED
    BY <2>1, <2>2, Zenon
<1>4. QED
  BY <1>2, <1>3, Zenon

LEMMA OrientedFacts ==
  ASSUME Bracketed
  PROVE  /\ Oriented \in Quads /\ Opposite(Oriented)
         /\ Size(Oriented.best.r) <= Size(Oriented.brk.r)
         /\ Above(Oriented.best) /\ Above(Oriented.prev) /\ Above(Oriented.brk) /\ Above(Oriented.safe)
<1>1. brent \in Quads /\ Opposite(Contra(brent))
  BY Zenon DEF Bracketed, Quads
<1> DEFINE c == Contra(brent)
<1>2. c \in Quads /\ c.best = brent.best /\ c.prev = brent.prev /\ c.safe = brent.safe
      /\ (c.brk = brent.brk \/ c.brk = brent.prev)
  BY <1>1, ContraFacts, Zenon
<1>3. Above(c.best) /\ Above(c.prev) /\ Above(c.brk) /\ Above(c.safe)
  BY <1>2, Zenon DEF Bracketed
<1>4. Opposite(c) /\ Oriented = Ordered(c)
  BY <1>1, Zenon DEF Oriented
<1> HIDE DEF c
<1>5. /\ Oriented \in Quads /\ Opposite(Oriented)
      /\ Size(Oriented.best.r) <= Size(Oriented.brk.r)
      /\ {Oriented.best, Oriented.prev, Oriented.brk, Oriented.safe}
           \subseteq {c.best, c.prev, c.brk, c.safe}
  BY <1>2, <1>4, OrderedFacts, Zenon
<1>6. \A p \in {c.best, c.prev, c.brk, c.safe} : Above(p)
  BY <1>3, Zenon
<1>7. QED
  BY <1>5, <1>6, Zenon

LEMMA MovedFacts ==
  ASSUME NEW b \in Quads, NEW p \in Points
  PROVE  /\ Moved(b, p) \in Quads /\ Moved(b, p).best = p /\ Moved(b, p).prev = b.best
         /\ Moved(b, p).brk = b.brk
         /\ Moved(b, p).safe = IF Safe(p.r) THEN p ELSE b.safe
<1>1. (IF Safe(p.r) THEN p ELSE b.safe) \in Points /\ b.best \in Points /\ b.brk \in Points
  BY PointTypes, Zenon
<1>2. QED
  BY <1>1, SMT DEF Moved, Quads

\* Wherever the new point falls, the ends are opposite again.
LEMMA MovedOpposite ==
  ASSUME NEW b \in Quads, Opposite(b), Size(b.best.r) <= Size(b.brk.r), b.best.r # 0,
         NEW p \in Points
  PROVE  Opposite(Contra(Moved(b, p)))
<1>1. /\ b.best.r \in Int /\ b.brk.r \in Int /\ p.r \in Int
  BY PointTypes, SMT DEF Points
<1>2. \/ b.best.r > 0 /\ b.brk.r < 0 /\ b.safe = b.best
      \/ b.best.r < 0 /\ b.brk.r > 0 /\ b.safe = b.brk
  <2>1. CASE b.best.r >= 0 /\ (b.brk.r < 0 \/ b.best.r = 0) /\ b.safe = b.best
    BY <1>1, <2>1, SMT
  <2>2. CASE b.best.r < 0 /\ b.brk.r >= 0 /\ b.safe = b.brk
    BY <1>1, <2>2, SMT DEF Size
  <2>3. QED
    BY <2>1, <2>2, Zenon DEF Opposite
<1> DEFINE n == Moved(b, p)
<1>3. /\ n \in Quads /\ n.best = p /\ n.prev = b.best /\ n.brk = b.brk
      /\ n.safe = IF Safe(p.r) THEN p ELSE b.safe
  BY MovedFacts, Zenon
<1> SUFFICES Opposite(Contra(n))
  OBVIOUS
<1> HIDE DEF n
<1>4. /\ Contra(n).best = n.best /\ Contra(n).safe = n.safe
      /\ SameSide(n.best.r, n.brk.r) => Contra(n).brk = n.prev
      /\ ~SameSide(n.best.r, n.brk.r) => Contra(n).brk = n.brk
  BY <1>3, ContraFacts, Zenon
<1>5. Safe(p.r) <=> p.r >= 0
  BY <1>1, MassSolverAssumption, SMT DEF Safe
<1>6. CASE p.r >= 0 /\ b.brk.r < 0
  <2>1. ~SameSide(n.best.r, n.brk.r)
    BY <1>1, <1>3, <1>6, SMT DEF SameSide
  <2>2. QED
    BY <1>3, <1>4, <1>5, <1>6, <2>1, SMT DEF Opposite
<1>7. CASE p.r = 0 /\ b.brk.r > 0
  <2>1. ~SameSide(n.best.r, n.brk.r) /\ p.r >= 0
    BY <1>1, <1>3, <1>7, SMT DEF SameSide
  <2>2. QED
    BY <1>3, <1>4, <1>5, <1>7, <2>1, SMT DEF Opposite
<1>8. CASE p.r > 0 /\ b.brk.r > 0
  <2>1. SameSide(n.best.r, n.brk.r) /\ p.r >= 0 /\ b.best.r < 0
    BY <1>1, <1>2, <1>3, <1>8, SMT DEF SameSide
  <2>2. QED
    BY <1>3, <1>4, <1>5, <2>1, SMT DEF Opposite
<1>9. CASE p.r < 0 /\ b.brk.r < 0
  <2>1. SameSide(n.best.r, n.brk.r) /\ ~(p.r >= 0) /\ b.best.r >= 0 /\ b.safe = b.best
    BY <1>1, <1>2, <1>3, <1>9, SMT DEF SameSide
  <2>2. QED
    BY <1>3, <1>4, <1>5, <1>9, <2>1, SMT DEF Opposite
<1>10. CASE p.r < 0 /\ b.brk.r > 0
  <2>1. ~SameSide(n.best.r, n.brk.r) /\ ~(p.r >= 0) /\ b.brk.r >= 0 /\ b.safe = b.brk
    BY <1>1, <1>2, <1>3, <1>10, SMT DEF SameSide
  <2>2. QED
    BY <1>3, <1>4, <1>5, <1>10, <2>1, SMT DEF Opposite
<1>11. QED
  BY <1>1, <1>2, <1>6, <1>7, <1>8, <1>9, <1>10, SMT

\* A step stays between the two ends.
LEMMA StepBetween ==
  ASSUME NEW b \in Quads, NEW mass \in StepsFrom(b), NEW low \in Nat,
         low <= b.best.m, low <= b.brk.m
  PROVE  mass \in Masses /\ low <= mass
<1>1. b.best.m \in Masses /\ b.brk.m \in Masses
  BY PointTypes, Zenon
<1> DEFINE best == b.best.m
           brk == b.brk.m
<1>2. best \in Int /\ brk \in Int /\ best >= 0 /\ brk >= 0
      /\ best <= MassMax + Xtol /\ brk <= MassMax + Xtol
  BY <1>1, MassSolverAssumption, SMT DEF Masses
<1>3. PICK d \in Half(Xtol)..(3 * Width(b)) \div 4 :
        mass = b.best.m + (IF b.brk.m >= b.best.m THEN 1 ELSE -1) * d
  BY Zenon DEF StepsFrom
<1>4. Width(b) = IF brk - best < 0 THEN best - brk ELSE brk - best
  BY <1>2, SMT DEF Width, Size
<1> DEFINE w == Width(b)
<1>5. w \in Nat
  BY <1>2, <1>4, SMT
<1>6. d \in Int /\ d >= 1 /\ d <= (3 * w) \div 4
  BY <1>3, <1>5, Constants, SMT
<1>7. d <= w
  <2> HIDE DEF w
  <2>1. QED
    BY <1>5, <1>6, SMT
<1> HIDE DEF w, best, brk
<1>8. mass = best + (IF brk >= best THEN 1 ELSE -1) * d
  BY <1>3, Zenon DEF best, brk
<1>9. w = IF brk - best < 0 THEN best - brk ELSE brk - best
  BY <1>4, Zenon DEF w
<1>10. low <= best /\ low <= brk
  BY Zenon DEF best, brk
<1>11. mass \in Int /\ mass >= 0 /\ mass <= MassMax + Xtol /\ low <= mass
  <2>1. CASE brk >= best
    <3>1. mass = best + d /\ w = brk - best
      BY <1>2, <1>6, <1>8, <1>9, <2>1, SMT
    <3>2. QED
      BY <1>2, <1>6, <1>7, <1>10, <3>1, MassSolverAssumption, SMT
  <2>2. CASE ~(brk >= best)
    <3>1. mass = best - d /\ w = best - brk
      BY <1>2, <1>6, <1>8, <1>9, <2>2, SMT
    <3>2. QED
      BY <1>2, <1>6, <1>7, <1>10, <3>1, MassSolverAssumption, SMT
  <2>3. QED
    BY <2>1, <2>2, Zenon
<1>12. QED
  BY <1>11, MassSolverAssumption, SMT DEF Masses

LEMMA AboveStays ==
  ASSUME NEW p, Above(p), Grown, lo' = lo
  PROVE  p \in Points /\ p.m \in DOMAIN known' /\ known'[p.m] = p.r /\ lo'.m <= p.m
<1>1. At(p) /\ lo.m <= p.m
  BY Zenon DEF Above
<1>2. QED
  BY <1>1, AtStays, Zenon

\* A step of Brent's method keeps the bracket, or ends at an orbit that does not exist.
LEMMA BrentStepKeeps ==
  ASSUME MemoTrue, KnownOK, Low, Bracketed, NEW status, BrentStep(status)
  PROVE  /\ MemoTrue' /\ KnownOK' /\ Grown /\ lo' = lo /\ route' = route /\ calls' = calls + 1
         /\ \/ phase' = "done" /\ result'.status = status
            \/ phase' = phase /\ result' = result /\ Bracketed'
<1> DEFINE b == Oriented
<1>1. /\ b \in Quads /\ Opposite(b) /\ Size(b.best.r) <= Size(b.brk.r)
      /\ Above(b.best) /\ Above(b.prev) /\ Above(b.brk) /\ Above(b.safe)
  BY OrientedFacts, Zenon
<1>2. PICK mass \in StepsFrom(b) : \E r \in Outcomes(mass) :
        /\ Evaluate(mass, r)
        /\ IF r = NonFinite THEN Finish(mass, status) /\ UNCHANGED brent
           ELSE brent' = Moved(b, Point(mass, r)) /\ UNCHANGED <<phase, result>>
  BY Zenon DEF BrentStep
<1>3. PICK r \in Outcomes(mass) :
        /\ Evaluate(mass, r)
        /\ IF r = NonFinite THEN Finish(mass, status) /\ UNCHANGED brent
           ELSE brent' = Moved(b, Point(mass, r)) /\ UNCHANGED <<phase, result>>
  BY <1>2, Zenon
<1>4. ~Settled(b) /\ calls' = calls + 1 /\ route' = route /\ lo' = lo
  BY Zenon DEF BrentStep, bracket
<1> HIDE DEF b
<1>5. mass \in Masses /\ lo.m <= mass
  <2>1. lo.m \in Nat /\ lo.m <= b.best.m /\ lo.m <= b.brk.m
    BY <1>1, LowFacts, Zenon DEF Above
  <2>2. QED
    BY <1>1, <1>2, <2>1, StepBetween, Zenon
<1>6. MemoTrue' /\ KnownOK' /\ Grown /\ r \in Values /\ mass \in DOMAIN known' /\ known'[mass] = r
  BY <1>3, <1>5, EvaluateKeeps, Zenon
<1>7. CASE r = NonFinite
  <2>1. phase' = "done" /\ result'.status = status
    BY <1>3, <1>7, SMT DEF Finish
  <2>2. QED
    BY <1>4, <1>6, <2>1, Zenon
<1>8. CASE r # NonFinite
  <2> DEFINE p == Point(mass, r)
  <2>1. brent' = Moved(b, p) /\ phase' = phase /\ result' = result
    BY <1>3, <1>8, Zenon
  <2>2. r \in Int
    BY <1>6, <1>8, Finite, Zenon
  <2>3. p \in Points /\ p.m = mass /\ p.r = r
    BY <1>5, <2>2, PointFacts, Zenon
  <2> HIDE DEF p
  <2>4. b.best.r # 0
    <3>1. b.best.r \in Int /\ ~(Size(b.best.r) < Rtol)
      BY <1>1, <1>4, PointTypes, Zenon DEF Settled
    <3>2. QED
      BY <3>1, Constants, SMT DEF Size
  <2>5. Opposite(Contra(Moved(b, p)))
    BY <1>1, <2>3, <2>4, MovedOpposite, Zenon
  <2>6. /\ Moved(b, p) \in Quads /\ Moved(b, p).best = p /\ Moved(b, p).prev = b.best
        /\ Moved(b, p).brk = b.brk
        /\ (Moved(b, p).safe = p \/ Moved(b, p).safe = b.safe)
    BY <1>1, <2>3, MovedFacts, Zenon
  <2> DEFINE n == Moved(b, p)
  <2>7. \A q \in {n.best, n.prev, n.brk, n.safe} :
          q \in Points /\ q.m \in DOMAIN known' /\ known'[q.m] = q.r /\ lo'.m <= q.m
    <3>1. /\ p \in Points /\ p.m \in DOMAIN known' /\ known'[p.m] = p.r /\ lo'.m <= p.m
      BY <1>4, <1>5, <1>6, <2>3, Zenon
    <3>2. \A q \in {b.best, b.brk, b.safe} :
            q \in Points /\ q.m \in DOMAIN known' /\ known'[q.m] = q.r /\ lo'.m <= q.m
      BY <1>1, <1>4, <1>6, AboveStays, Zenon
    <3>3. {n.best, n.prev, n.brk, n.safe} \subseteq {p, b.best, b.brk, b.safe}
      BY <2>6, Zenon
    <3> HIDE DEF n
    <3>4. QED
      BY <3>1, <3>2, <3>3, Zenon
  <2>8. n \in Quads /\ Opposite(Contra(n)) /\ brent' = n
    BY <2>1, <2>5, <2>6, Zenon
  <2> HIDE DEF n
  <2>9. Bracketed'
    <3>1. Above(brent.best)' /\ Above(brent.prev)' /\ Above(brent.brk)' /\ Above(brent.safe)'
      BY <2>7, <2>8, Zenon DEF Above, At, Points, Masses
    <3>2. Opposite(Contra(brent))'
      BY <2>8, Zenon DEF Opposite, Contra, SameSide
    <3>3. QED
      BY <2>8, <3>1, <3>2, Zenon DEF Bracketed, Quads, Points, Masses
  <2>10. QED
    BY <1>4, <1>6, <2>1, <2>9, Zenon
<1>9. QED
  BY <1>7, <1>8, Zenon

LEMMA RefineKeeps ==
  ASSUME IInv, Refine
  PROVE  IInv'
<1>1. /\ MemoTrue /\ KnownOK /\ Low /\ Bracketed /\ route = "validate" /\ phase = "refine"
      /\ calls \in Nat /\ calls < Budget /\ result = NoResult /\ BrentStep("RefineNonFinite")
  BY SMT DEF IInv, Refine, Validating, Ended, ValidatePhases
<1>2. /\ MemoTrue' /\ KnownOK' /\ Grown /\ lo' = lo /\ route' = route /\ calls' = calls + 1
      /\ \/ phase' = "done" /\ result'.status = "RefineNonFinite"
         \/ phase' = phase /\ result' = result /\ Bracketed'
  BY <1>1, BrentStepKeeps, Zenon
<1>3. Low'
  BY <1>1, <1>2, LowStays, Zenon
<1>4. calls' \in Nat /\ calls' <= Budget
  BY <1>1, <1>2, Constants, SMT
<1>5. CASE phase' = "done" /\ result'.status = "RefineNonFinite"
  BY <1>1, <1>2, <1>4, <1>5, PlainEnd, SMT
<1>6. CASE phase' = phase /\ result' = result /\ Bracketed'
  BY <1>1, <1>2, <1>3, <1>4, <1>6, SMT
     DEF IInv, Validating, Searching, Ended, ValidatePhases, FullPhases
<1>7. QED
  BY <1>2, <1>5, <1>6, Zenon

\* The mass refinement returns is safe, and not the unsafe end.
LEMMA SafeMassFacts ==
  ASSUME Low, Bracketed
  PROVE  /\ SafeMass(Oriented) \in DOMAIN known /\ known[SafeMass(Oriented)] \in Int
         /\ known[SafeMass(Oriented)] >= 0 /\ lo.m < SafeMass(Oriented)
<1> DEFINE b == Oriented
<1>1. b \in Quads /\ Opposite(b) /\ Above(b.best) /\ Above(b.safe) /\ Above(b.brk)
  BY OrientedFacts, Zenon
<1> HIDE DEF b
<1>2. b.best.r \in Int /\ b.safe.r \in Int
  BY <1>1, PointTypes, Zenon
<1>3. PICK q \in {b.best, b.safe} : SafeMass(b) = q.m /\ q.r >= 0 /\ Above(q)
  <2>1. CASE b.best.r >= 0
    BY <1>1, <2>1, Zenon DEF SafeMass
  <2>2. CASE ~(b.best.r >= 0)
    <3>1. b.safe = b.brk /\ b.brk.r >= 0 /\ SafeMass(b) = b.safe.m
      BY <1>1, <2>2, Zenon DEF Opposite, SafeMass
    <3>2. QED
      BY <1>1, <3>1, Zenon
  <2>3. QED
    BY <2>1, <2>2, Zenon
<1>4. q.m \in DOMAIN known /\ known[q.m] = q.r /\ q \in Points /\ lo.m <= q.m
  BY <1>3, Zenon DEF Above, At
<1>5. q.r \in Int /\ q.m \in Masses
  BY <1>4, SMT DEF Points
<1>6. lo.m # q.m
  <2>1. known[lo.m] < 0 /\ known[lo.m] \in Int
    BY LowFacts, Zenon
  <2>2. known[q.m] >= 0
    BY <1>3, <1>4, Zenon
  <2>3. ASSUME lo.m = q.m PROVE FALSE
    <3>1. known[lo.m] = known[q.m]
      BY <2>3, Zenon
    <3>2. QED
      BY <2>1, <2>2, <3>1, SMT
  <2>4. QED
    BY <2>3, Zenon
<1>7. q.m \in Int /\ lo.m \in Int
  BY <1>5, LowFacts, MassSolverAssumption, SMT DEF Masses
<1>8. lo.m < q.m
  BY <1>4, <1>6, <1>7, SMT
<1>9. QED
  BY <1>3, <1>4, <1>5, <1>8, Zenon DEF b

LEMMA RefineEndsKeeps ==
  ASSUME IInv, RefineEnds
  PROVE  IInv'
<1>1. /\ MemoTrue /\ KnownOK /\ Low /\ Bracketed /\ route = "validate" /\ calls \in Nat /\ calls <= Budget
  BY SMT DEF IInv, RefineEnds, Validating, ValidatePhases
<1>2. /\ MemoTrue' /\ KnownOK' /\ known' = known /\ calls' = calls /\ route' = route
  BY <1>1, FactsStay, Zenon DEF RefineEnds, facts
<1>3. CASE calls >= Budget /\ Finish(brent.best.m, "BudgetExhausted")
  <2>1. phase' = "done" /\ result'.status = "BudgetExhausted"
    BY <1>3, SMT DEF Finish
  <2>2. QED
    BY <1>1, <1>2, <1>3, <2>1, SpentEnd, Zenon
<1>4. CASE ConvergedAt(SafeMass(Oriented))
  <2> DEFINE mass == SafeMass(Oriented)
  <2>1. /\ mass \in DOMAIN known' /\ known'[mass] \in Int /\ known'[mass] >= 0 /\ lo.m < mass
    BY <1>1, <1>2, SafeMassFacts, Zenon
  <2>2. lo.m \in DOMAIN known' /\ known'[lo.m] \in Int /\ known'[lo.m] < 0
    BY <1>1, <1>2, LowFacts, Zenon
  <2> HIDE DEF mass
  <2>3. ConvergedAt(mass)
    BY <1>4, Zenon DEF mass
  <2>4. calls' \in Nat /\ calls' <= Budget /\ route' = "validate"
    BY <1>1, <1>2, Zenon
  <2>5. QED
    BY <1>2, <2>1, <2>2, <2>3, <2>4, SafeEnd, Zenon
<1>5. QED
  BY <1>3, <1>4, Zenon DEF RefineEnds
-----------------------------------------------------------------------------
(* The full path.                                                            *)

LEMMA BrentKeeps ==
  ASSUME IInv, Brent
  PROVE  IInv'
<1>1. /\ MemoTrue /\ KnownOK /\ Low /\ Bracketed /\ route = "full" /\ phase = "brent"
      /\ calls \in Nat /\ calls < MaxIter /\ result = NoResult /\ BrentStep("NonFiniteDuringBrent")
  BY SMT DEF IInv, Brent, Searching, Ended, FullPhases
<1>2. /\ MemoTrue' /\ KnownOK' /\ Grown /\ lo' = lo /\ route' = route /\ calls' = calls + 1
      /\ \/ phase' = "done" /\ result'.status = "NonFiniteDuringBrent"
         \/ phase' = phase /\ result' = result /\ Bracketed'
  BY <1>1, BrentStepKeeps, Zenon
<1>3. Low'
  BY <1>1, <1>2, LowStays, Zenon
<1>4. calls' \in Nat /\ calls' <= Budget /\ calls' <= MaxIter
  BY <1>1, <1>2, Constants, SMT
<1>5. CASE phase' = "done" /\ result'.status = "NonFiniteDuringBrent"
  BY <1>1, <1>2, <1>4, <1>5, PlainEnd, SMT
<1>6. CASE phase' = phase /\ result' = result /\ Bracketed'
  BY <1>1, <1>2, <1>3, <1>4, <1>6, SMT
     DEF IInv, Validating, Searching, Ended, ValidatePhases, FullPhases
<1>7. QED
  BY <1>2, <1>5, <1>6, Zenon

\* The best point is safe, or as near the target as Rtol, or next to a safe one.
LEMMA BestMassFacts ==
  ASSUME KnownOK, Bracketed, Settled(Oriented)
  PROVE  \/ IsSafe(BestMass(Oriented))
         \/ IsUnsafe(BestMass(Oriented)) /\ Size(known[BestMass(Oriented)]) < Rtol
         \/ \E m \in DOMAIN known : IsSafe(m) /\ Size(m - BestMass(Oriented)) <= Xtol
<1> DEFINE b == Oriented
<1>1. b \in Quads /\ Opposite(b) /\ Above(b.best) /\ Above(b.brk) /\ Settled(b)
  BY OrientedFacts, Zenon
<1> HIDE DEF b
<1>2. b.best.r \in Int /\ b.brk.r \in Int
  BY <1>1, PointTypes, Zenon
<1>3. /\ b.best.m \in DOMAIN known /\ known[b.best.m] = b.best.r
      /\ b.brk.m \in DOMAIN known /\ known[b.brk.m] = b.brk.r
  BY <1>1, Zenon DEF Above, At
<1>4. BestMass(b) = b.best.m
  BY Zenon DEF BestMass
<1>5. CASE b.best.r >= 0
  BY <1>2, <1>3, <1>4, <1>5, KnownSides, Zenon DEF b
<1>6. CASE ~(b.best.r >= 0)
  <2>1. b.brk.r >= 0 /\ b.best.r < 0
    BY <1>1, <1>6, Zenon DEF Opposite
  <2>2. IsSafe(b.brk.m) /\ IsUnsafe(b.best.m)
    BY <1>2, <1>3, <2>1, KnownSides, Zenon
  <2>3. CASE Width(b) <= Xtol
    BY <1>3, <1>4, <2>2, <2>3, Zenon DEF Width, b
  <2>4. CASE Size(b.best.r) < Rtol
    BY <1>3, <1>4, <2>2, <2>4, Zenon DEF b
  <2>5. QED
    BY <1>1, <2>3, <2>4, Zenon DEF Settled
<1>7. QED
  BY <1>5, <1>6, Zenon

LEMMA BrentEndsKeeps ==
  ASSUME IInv, BrentEnds
  PROVE  IInv'
<1>1. /\ MemoTrue /\ KnownOK /\ Low /\ Bracketed /\ route = "full" /\ calls \in Nat /\ calls <= MaxIter
  BY SMT DEF IInv, BrentEnds, Searching, FullPhases
<1>2. /\ MemoTrue' /\ KnownOK' /\ known' = known /\ calls' = calls /\ route' = route
  BY <1>1, FactsStay, Zenon DEF BrentEnds, facts
<1>3. calls' \in Nat /\ calls' <= MaxIter
  BY <1>1, <1>2, Zenon
<1>4. CASE Finish(NoMass, "MaxIterReached")
  <2>1. phase' = "done" /\ result'.status = "MaxIterReached"
    BY <1>4, SMT DEF Finish
  <2>2. QED
    BY <1>1, <1>2, <1>3, <2>1, PlainEnd, SMT
<1>5. CASE Settled(Oriented) /\ ConvergedAt(BestMass(Oriented))
  <2> DEFINE mass == BestMass(Oriented)
  <2>1. \/ IsSafe(mass)
        \/ IsUnsafe(mass) /\ Size(known[mass]) < Rtol
        \/ \E m \in DOMAIN known : IsSafe(m) /\ Size(m - mass) <= Xtol
    BY <1>1, <1>5, BestMassFacts, Zenon
  <2> HIDE DEF mass
  <2>2. /\ phase' = "done" /\ result'.mass = mass
        /\ result'.status \in {"Converged", "ConvergedNonPositive"}
    BY <1>5, SMT DEF ConvergedAt, Finish, mass
  <2>3. ConvergedIsProved'
    BY <1>1, <1>2, <2>1, <2>2, SMT DEF ConvergedIsProved, IsSafe, IsUnsafe, Safe, Unsafe, Size
  <2>4. GivesUpHonestly'
    BY <1>1, <1>2, <1>3, <2>2, LimitsHold, SilentEnd, Zenon
  <2>5. QED
    BY <1>1, <1>2, <1>3, <2>2, <2>3, <2>4, EndKeeps, SMT
<1>6. QED
  BY <1>4, <1>5, Zenon DEF BrentEnds

LEMMA ZeroBoundKeeps ==
  ASSUME IInv, ZeroBound
  PROVE  IInv'
<1>1. /\ MemoTrue /\ KnownOK /\ route = "full" /\ calls = 0 /\ result = NoResult
  BY SMT DEF IInv, ZeroBound, Searching, Ended, FullPhases
<1>2. PICK r \in Outcomes(0) :
        /\ Evaluate(0, r)
        /\ \/ r = NonFinite /\ Finish(NoMass, "MissAtZero") /\ UNCHANGED <<lo, window>>
           \/ Safe(r) /\ Finish(0, "SafeByDefault") /\ UNCHANGED <<lo, window>>
           \/ /\ Unsafe(r) /\ Goto("upper") /\ lo' = Point(0, r)
              /\ \E initial \in 1..MassMax :
                   window' = [NoWindow EXCEPT !.probe = FirstProbe(initial)]
  BY Zenon DEF ZeroBound
<1>3. 0 \in Masses
  BY MassSolverAssumption, SMT DEF Masses
<1>4. MemoTrue' /\ KnownOK' /\ Grown /\ r \in Values /\ 0 \in DOMAIN known' /\ known'[0] = r
  BY <1>1, <1>2, <1>3, EvaluateKeeps, Zenon
<1>5. calls' = 0 /\ route' = "full"
  BY <1>1, Zenon DEF ZeroBound
<1>6. CASE Finish(NoMass, "MissAtZero") \/ Finish(0, "SafeByDefault")
  <2>1. phase' = "done" /\ result'.status \in {"MissAtZero", "SafeByDefault"}
    BY <1>6, SMT DEF Finish
  <2>2. QED
    BY <1>4, <1>5, <2>1, PlainEnd, Constants, SMT
<1>7. CASE /\ Unsafe(r) /\ Goto("upper") /\ lo' = Point(0, r)
           /\ \E initial \in 1..MassMax :
                window' = [NoWindow EXCEPT !.probe = FirstProbe(initial)]
  <2>1. PICK initial \in 1..MassMax : window' = [NoWindow EXCEPT !.probe = FirstProbe(initial)]
    BY <1>7, Zenon
  <2>2. phase' = "upper" /\ result' = result /\ lo' = Point(0, r)
    BY <1>7, Zenon DEF Goto
  <2>3. r \in Int /\ r < 0
    BY <1>4, <1>7, Finite, Zenon
  <2>4. lo' \in Points /\ lo'.m = 0 /\ lo'.r = r
    BY <1>3, <2>2, <2>3, PointFacts, Zenon
  <2>5. Low'
    BY <1>4, <2>3, <2>4, Zenon DEF Low, At, Points, Masses
  <2>6. FirstProbe(initial) \in 1..MassMax
    BY MassSolverAssumption, SMT DEF FirstProbe, Larger, Smaller
  <2>7. window'.floor = 0 /\ window'.ceil = NoMass /\ window'.probe = FirstProbe(initial)
        /\ window' \in Windows
    BY <2>1, <2>6, SMT DEF NoWindow, Windows, NoMass
  <2>8. UpperWindow'
    BY <2>6, <2>7, MassSolverAssumption, SMT DEF UpperWindow, NoMass, Windows
  <2>9. QED
    BY <1>1, <1>4, <1>5, <2>2, <2>4, <2>5, <2>8, Constants, SMT
       DEF IInv, Validating, Searching, Ended, ValidatePhases, FullPhases
<1>8. QED
  BY <1>2, <1>6, <1>7, Zenon

LEMMA WindowFields ==
  ASSUME NEW w \in Windows, NEW x \in Int
  PROVE  /\ [w EXCEPT !.floor = x] \in Windows /\ [w EXCEPT !.floor = x].floor = x
         /\ [w EXCEPT !.floor = x].ceil = w.ceil /\ [w EXCEPT !.floor = x].probe = w.probe
         /\ [w EXCEPT !.ceil = x] \in Windows /\ [w EXCEPT !.ceil = x].ceil = x
         /\ [w EXCEPT !.ceil = x].floor = w.floor /\ [w EXCEPT !.ceil = x].probe = w.probe
         /\ [w EXCEPT !.probe = x] \in Windows /\ [w EXCEPT !.probe = x].probe = x
         /\ [w EXCEPT !.probe = x].floor = w.floor /\ [w EXCEPT !.probe = x].ceil = w.ceil
BY SMT DEF Windows

\* A mass near m whose orbit does not exist, among what is known.
MissingNear(k, m) == \E n \in DOMAIN k : k[n] = NonFinite /\ Size(n - m) <= 2 * Xtol + 1

\* A search that stops says why: at a real limit, below an orbit that does not
\* exist, or with its probes spent.
LEMMA LimitedKeeps ==
  ASSUME MemoTrue', KnownOK', calls' \in Nat, calls' <= MaxProbes, route' = "full",
         NEW w, Limited(w), w.floor \in Nat,
         w.floor > 0 => w.floor \in DOMAIN known' /\ Unsafe(known'[w.floor]),
         \/ w.floor > 0 /\ (w.floor >= MassMax - Xtol \/ w.floor <= Xtol)
         \/ MissingNear(known', w.floor)
         \/ calls' >= MaxProbes
  PROVE  IInv'
<1>1. WithinLimits'
  BY LimitsHold, Zenon
<1>2. CASE w.floor > 0
  <2>1. phase' = "done" /\ result'.status = "PhysicsLimited" /\ result'.mass = w.floor
    BY <1>2, SMT DEF Limited, Finish
  <2>2. \/ w.floor >= MassMax - Xtol \/ w.floor <= Xtol
        \/ \E n \in DOMAIN known' : known'[n] = NonFinite /\ Size(n - w.floor) <= 2 * Xtol + 1
        \/ route' = "full" /\ calls' >= MaxProbes
    BY Zenon DEF MissingNear
  <2>3. LimitIsReal'
    BY <1>2, <2>1, <2>2, Zenon
       DEF LimitIsReal, IsUnsafe, Unsafe, NonFiniteWithin, ProbesSpent, Size
  <2>4. GivesUpHonestly' /\ ConvergedIsProved'
    BY <1>1, <2>1, <2>3, NoRemainderClaimed, Zenon DEF GivesUpHonestly, ConvergedIsProved
  <2>5. QED
    BY <2>1, <2>4, EndKeeps, Zenon
<1>3. CASE ~(w.floor > 0)
  <2>1. phase' = "done" /\ result'.status = "UpperNonFinite"
    BY <1>3, SMT DEF Limited, Finish
  <2>2. w.floor = 0
    BY <1>3, SMT
  <2>3. \/ \E n \in DOMAIN known' : known'[n] = NonFinite /\ Size(n - 0) <= 2 * Xtol + 1
        \/ route' = "full" /\ calls' >= MaxProbes
    BY <1>3, <2>2, Zenon DEF MissingNear
  <2>4. NothingIsLeft'
    BY <2>1, <2>3, Zenon DEF NothingIsLeft, NonFiniteWithin, ProbesSpent, Size
  <2>5. GivesUpHonestly' /\ ConvergedIsProved'
    BY <1>1, <2>1, <2>4, NoLimitClaimed, Zenon DEF GivesUpHonestly, ConvergedIsProved
  <2>6. QED
    BY <2>1, <2>5, EndKeeps, Zenon
<1>4. QED
  BY <1>2, <1>3, Zenon

\* The next probe lies in the window, or is too near the last one.
LEMMA NextProbeFacts ==
  ASSUME NEW w \in Windows, w.floor \in 0..w.probe, w.probe \in 1..MassMax,
         w.ceil = w.probe \/ w.floor = w.probe, w.floor = w.probe => w.probe < MassMax - Xtol,
         w.ceil # NoMass => w.ceil \in w.probe..MassMax
  PROVE  /\ ~AtStandstill(w) =>
              /\ NextProbe(w) \in Int /\ w.floor < NextProbe(w) /\ NextProbe(w) <= MassMax
              /\ w.ceil # NoMass => NextProbe(w) <= w.ceil
         /\ AtStandstill(w) =>
              IF w.ceil = NoMass THEN 0 < w.floor /\ w.floor <= Xtol
              ELSE Size(w.ceil - w.floor) <= 2 * Xtol + 1
<1> DEFINE f == w.floor
           c == w.ceil
           q == w.probe
           n == NextProbe(w)
<1>1. f \in Int /\ c \in Int /\ q \in Int /\ 0 <= f /\ f <= q /\ 1 <= q /\ q <= MassMax
  BY WindowTypes, MassSolverAssumption, SMT
<1>2. (c = q \/ f = q) /\ (f = q => q < MassMax - Xtol) /\ (c # NoMass => q <= c /\ c <= MassMax)
  BY <1>1, SMT
<1>3. CASE c = NoMass
  <2>1. n = Smaller(Larger(2 * q, q + Xtol), MassMax)
    BY <1>3, Zenon DEF NextProbe
  <2>2. f = q /\ q < MassMax - Xtol
    BY <1>1, <1>2, <1>3, SMT DEF NoMass
  <2>3. AtStandstill(w) <=> Size(n - q) <= Xtol \/ n <= f
    BY Zenon DEF AtStandstill
  <2>4. CASE AtStandstill(w)
    <3>1. 0 < f /\ f <= Xtol
      <4> HIDE DEF n, f, q, c
      <4>1. QED
        BY <1>1, <2>1, <2>2, <2>3, <2>4, MassSolverAssumption, SMT DEF Size, Smaller, Larger
    <3>2. QED
      BY <1>3, <2>4, <3>1, Zenon
  <2>5. CASE ~AtStandstill(w)
    <3>1. n \in Int /\ f < n /\ n <= MassMax
      <4> HIDE DEF n, f, q, c
      <4>1. QED
        BY <1>1, <2>1, <2>2, <2>3, <2>5, MassSolverAssumption, SMT DEF Size, Smaller, Larger
    <3>2. QED
      BY <1>3, <2>5, <3>1, Zenon
  <2>6. QED
    BY <2>4, <2>5, Zenon
<1>4. CASE c # NoMass
  <2>1. n = (f + c) \div 2 /\ q <= c /\ c <= MassMax
    BY <1>2, <1>4, Zenon DEF NextProbe
  <2>2. AtStandstill(w) <=> Size(n - q) <= Xtol \/ n <= f
    BY Zenon DEF AtStandstill
  <2>3. n \in Int /\ f <= n /\ n <= c /\ n <= MassMax
    <3> HIDE DEF n, f, q, c
    <3>1. QED
      BY <1>1, <2>1, MassSolverAssumption, SMT
  <2>4. CASE AtStandstill(w)
    <3>1. Size(c - f) <= 2 * Xtol + 1
      <4> HIDE DEF n, f, q, c
      <4>1. QED
        BY <1>1, <1>2, <2>1, <2>2, <2>3, <2>4, MassSolverAssumption, SMT DEF Size
    <3>2. QED
      BY <1>4, <2>4, <3>1, Zenon
  <2>5. CASE ~AtStandstill(w)
    <3>1. f < n
      <4> HIDE DEF n, f, q, c
      <4>1. QED
        BY <1>1, <2>2, <2>3, <2>5, SMT
    <3>2. QED
      BY <1>4, <2>3, <2>5, <3>1, Zenon
  <2>6. QED
    BY <2>4, <2>5, Zenon
<1>5. QED
  BY <1>3, <1>4, Zenon

\* The search goes on with a smaller window, or stops at a window too narrow.
LEMMA SearchOnKeeps ==
  ASSUME MemoTrue', KnownOK', calls' = calls + 1, calls \in Nat, calls < MaxProbes,
         route' = "full", Low', lo'.m = 0, result = NoResult,
         NEW w \in Windows, w.floor \in 0..w.probe, w.probe \in 1..MassMax,
         w.ceil = w.probe \/ w.floor = w.probe, w.floor = w.probe => w.probe < MassMax - Xtol,
         w.floor > 0 => w.floor \in DOMAIN known' /\ Unsafe(known'[w.floor]),
         w.ceil # NoMass =>
           w.ceil \in w.probe..MassMax /\ w.ceil \in DOMAIN known' /\ known'[w.ceil] = NonFinite,
         SearchOn(w)
  PROVE  IInv'
<1>4. calls' \in Nat /\ calls' <= MaxProbes /\ w.floor \in Nat
  <2>1. w.floor \in Int /\ w.floor >= 0
    BY WindowTypes, SMT
  <2>2. QED
    BY <2>1, Constants, SMT
<1>1. CASE AtStandstill(w)
  <2>1. Limited(w)
    BY <1>1, Zenon DEF SearchOn
  <2>2. IF w.ceil = NoMass THEN 0 < w.floor /\ w.floor <= Xtol
        ELSE Size(w.ceil - w.floor) <= 2 * Xtol + 1
    BY <1>1, NextProbeFacts, Zenon
  <2>3. \/ w.floor > 0 /\ (w.floor >= MassMax - Xtol \/ w.floor <= Xtol)
        \/ MissingNear(known', w.floor)
    <3>1. CASE w.ceil = NoMass
      BY <2>2, <3>1, <1>4, SMT
    <3>2. CASE w.ceil # NoMass
      BY <2>2, <3>2, Zenon DEF MissingNear
    <3>3. QED
      BY <3>1, <3>2, Zenon
  <2>4. QED
    BY <1>4, <2>1, <2>3, LimitedKeeps, Zenon
<1>5. CASE LastProbe
  <2>1. Limited(w)
    BY <1>5, Zenon DEF SearchOn
  <2>2. calls' >= MaxProbes
    BY <1>5, Zenon DEF LastProbe
  <2>3. QED
    BY <1>4, <2>1, <2>2, LimitedKeeps, Zenon
<1>2. CASE ~AtStandstill(w) /\ ~LastProbe
  <2>1. phase' = "upper" /\ result' = result /\ window' = [w EXCEPT !.probe = NextProbe(w)]
    BY <1>2, Zenon DEF SearchOn, Goto
  <2>2. /\ NextProbe(w) \in Int /\ w.floor < NextProbe(w) /\ NextProbe(w) <= MassMax
        /\ w.ceil # NoMass => NextProbe(w) <= w.ceil
    BY <1>2, NextProbeFacts, Zenon
  <2>8. calls' < MaxProbes
    BY <1>2, <1>4, Constants, SMT DEF LastProbe
  <2>3. /\ window' \in Windows /\ window'.floor = w.floor /\ window'.ceil = w.ceil
        /\ window'.probe = NextProbe(w)
    BY <2>1, <2>2, WindowFields, Zenon
  <2>4. window'.floor \in 0..window'.probe /\ window'.probe \in 1..MassMax
    BY <2>2, <2>3, WindowTypes, MassSolverAssumption, SMT
  <2>5. window'.ceil # NoMass => window'.ceil \in window'.probe..MassMax
    BY <2>2, <2>3, WindowTypes, MassSolverAssumption, SMT
  <2>6. UpperWindow'
    <3>1. (window.floor > 0 => IsUnsafe(window.floor))'
      BY <2>3, Zenon DEF IsUnsafe, Unsafe
    <3>2. (window.ceil # NoMass =>
             /\ window.ceil \in window.probe..MassMax
             /\ window.ceil \in DOMAIN known /\ known[window.ceil] = NonFinite)'
      BY <2>3, <2>5, Zenon DEF NoMass
    <3>3. QED
      BY <2>3, <2>4, <3>1, <3>2, Zenon DEF UpperWindow, Windows, NoMass, IsUnsafe, Unsafe
  <2>7. QED
    BY <1>4, <2>1, <2>6, <2>8, SMT DEF IInv, Validating, Searching, Ended, ValidatePhases, FullPhases
<1>3. QED
  BY <1>1, <1>2, <1>5, Zenon

LEMMA UpperKeeps ==
  ASSUME IInv, Upper
  PROVE  IInv'
<1>1. /\ MemoTrue /\ KnownOK /\ Low /\ lo.m = 0 /\ route = "full" /\ result = NoResult
      /\ UpperWindow /\ calls \in Nat /\ calls < MaxProbes
  BY SMT DEF IInv, Upper, Searching, Ended, FullPhases
<1>2. PICK r \in Outcomes(window.probe) :
        /\ Evaluate(window.probe, r)
        /\ \/ /\ Safe(r) /\ Goto("brent") /\ UNCHANGED window /\ calls' = 0
              /\ brent' = StartBrent(lo, Point(window.probe, r))
           \/ /\ ~Safe(r) /\ calls' = calls + 1 /\ UNCHANGED brent
              /\ \/ r = NonFinite /\ SearchOn(Lowered(window))
                 \/ /\ Unsafe(r) /\ window.probe >= MassMax - Xtol
                    /\ Limited(Raised(window)) /\ window' = Raised(window)
                 \/ /\ Unsafe(r) /\ window.probe < MassMax - Xtol
                    /\ SearchOn(Raised(window))
  BY Zenon DEF Upper
<1> DEFINE q == window.probe
<1>3. /\ window \in Windows /\ window.floor \in Int /\ window.ceil \in Int /\ q \in Int
      /\ 0 <= window.floor /\ window.floor <= q /\ 1 <= q /\ q <= MassMax
  <2>1. window \in Windows /\ window.floor \in 0..q /\ q \in 1..MassMax
    BY <1>1, Zenon DEF UpperWindow
  <2>2. QED
    BY <2>1, WindowTypes, MassSolverAssumption, SMT
<1>4. q \in Masses
  BY <1>3, MassSolverAssumption, SMT DEF Masses
<1>5. MemoTrue' /\ KnownOK' /\ Grown /\ r \in Values /\ q \in DOMAIN known' /\ known'[q] = r
  BY <1>1, <1>2, <1>4, EvaluateKeeps, Zenon
<1>6. route' = "full" /\ lo' = lo
  BY <1>1, Zenon DEF Upper, bracket
<1>7. Low' /\ lo'.m = 0
  BY <1>1, <1>5, <1>6, LowStays, Zenon
<1>8. window.floor > 0 => window.floor \in DOMAIN known' /\ Unsafe(known'[window.floor])
  BY <1>1, <1>5, Zenon DEF UpperWindow, IsUnsafe, Grown
<1>9. window.ceil # NoMass =>
        /\ window.ceil \in q..MassMax
        /\ window.ceil \in DOMAIN known' /\ known'[window.ceil] = NonFinite
  BY <1>1, <1>5, Zenon DEF UpperWindow, Grown
<1>16. ASSUME calls' = calls + 1 PROVE calls' \in Nat /\ calls' <= MaxProbes
  BY <1>1, <1>16, Constants, SMT
<1>10. CASE r = NonFinite /\ SearchOn(Lowered(window)) /\ calls' = calls + 1
  <2> DEFINE w == Lowered(window)
  <2>1. w = [window EXCEPT !.ceil = q]
    <3>1. (IF window.ceil = NoMass THEN q ELSE Smaller(window.ceil, q)) = q
      BY <1>3, <1>9, MassSolverAssumption, SMT DEF Smaller
    <3>2. QED
      BY <3>1, Zenon DEF Lowered
  <2> HIDE DEF w
  <2>2. w \in Windows /\ w.floor = window.floor /\ w.ceil = q /\ w.probe = q
    <3>1. /\ [window EXCEPT !.ceil = q] \in Windows
          /\ [window EXCEPT !.ceil = q].ceil = q
          /\ [window EXCEPT !.ceil = q].floor = window.floor
          /\ [window EXCEPT !.ceil = q].probe = q
      BY <1>3, WindowFields, Zenon
    <3>2. QED
      BY <2>1, <3>1, SMT
  <2>3. w.floor \in 0..w.probe /\ w.probe \in 1..MassMax /\ w.ceil \in w.probe..MassMax
    BY <1>3, <2>2, MassSolverAssumption, SMT
  <2>4. SearchOn(w) /\ known'[w.ceil] = NonFinite /\ w.ceil \in DOMAIN known'
    BY <1>5, <1>10, <2>2, Zenon DEF w
  <2>5. w.floor > 0 => w.floor \in DOMAIN known' /\ Unsafe(known'[w.floor])
    BY <1>8, <2>2, Zenon
  <2>6. CASE w.floor = w.probe /\ ~(w.probe < MassMax - Xtol)
    <3>1. AtStandstill(w)
      <4>1. NextProbe(w) = (w.floor + w.ceil) \div 2
        <5>1. w.ceil # NoMass
          BY <1>3, <2>2, SMT DEF NoMass
        <5>2. QED
          BY <5>1, Zenon DEF NextProbe
      <4>2. NextProbe(w) <= w.floor
        BY <1>3, <2>2, <2>6, <4>1, SMT
      <4>3. QED
        BY <4>2, Zenon DEF AtStandstill
    <3>2. Limited(w)
      BY <2>4, <3>1, Zenon DEF SearchOn
    <3>3. w.floor \in Nat /\ w.floor > 0 /\ w.floor >= MassMax - Xtol
      BY <1>3, <2>2, <2>6, MassSolverAssumption, SMT
    <3>4. QED
      BY <1>5, <1>6, <1>10, <1>16, <2>5, <3>2, <3>3, LimitedKeeps, Zenon
  <2>7. CASE w.floor = w.probe => w.probe < MassMax - Xtol
    <3>1. w.ceil = w.probe
      BY <2>2, Zenon
    <3>2. QED
      BY <1>1, <1>5, <1>6, <1>7, <1>10, <2>2, <2>3, <2>4, <2>5, <2>7, <3>1, SearchOnKeeps,
         Zenon
  <2>8. QED
    BY <2>6, <2>7, Zenon
<1>11. CASE Safe(r) /\ Goto("brent") /\ calls' = 0 /\ brent' = StartBrent(lo, Point(q, r))
  <2>1. phase' = "brent" /\ result' = result
    BY <1>11, Zenon DEF Goto
  <2>2. r \in Int /\ r >= 0
    BY <1>5, <1>11, Finite, Zenon
  <2> DEFINE p == Point(q, r)
  <2>3. p \in Points /\ p.m = q /\ p.r = r
    BY <1>4, <2>2, PointFacts, Zenon
  <2> HIDE DEF p
  <2>4. lo \in Points /\ lo.r < 0 /\ lo.m \in DOMAIN known' /\ known'[lo.m] = lo.r
    BY <1>1, <1>5, AtStays, Zenon DEF Low
  <2> DEFINE n == StartBrent(lo, p)
  <2>5. /\ n \in Quads /\ n.best = p /\ n.prev = lo /\ n.brk = lo /\ n.safe = p
        /\ Opposite(Contra(n))
    BY <2>2, <2>3, <2>4, StartFacts DEF Quads
  <2>6. brent' = n
    BY <1>11, Zenon DEF p
  <2> HIDE DEF n
  <2>7. \A x \in {p, lo} :
          x \in Points /\ x.m \in DOMAIN known' /\ known'[x.m] = x.r /\ lo'.m <= x.m
    <3>1. lo'.m <= p.m /\ lo'.m <= lo.m
      BY <1>1, <1>3, <1>7, <2>3, SMT
    <3>2. QED
      BY <1>5, <2>3, <2>4, <3>1, Zenon
  <2>8. Bracketed'
    <3>1. Above(brent.best)' /\ Above(brent.prev)' /\ Above(brent.brk)' /\ Above(brent.safe)'
      BY <2>5, <2>6, <2>7, Zenon DEF Above, At, Points, Masses
    <3>2. Opposite(Contra(brent))'
      BY <2>5, <2>6, Zenon DEF Opposite, Contra, SameSide
    <3>3. QED
      BY <2>5, <2>6, <3>1, <3>2, Zenon DEF Bracketed, Quads, Points, Masses
  <2>9. calls' \in Nat /\ calls' <= MaxIter
    BY <1>11, Constants, SMT
  <2>10. QED
    BY <1>1, <1>5, <1>6, <1>7, <2>1, <2>8, <2>9, SMT
       DEF IInv, Validating, Searching, Ended, ValidatePhases, FullPhases
<1>12. ASSUME Unsafe(r)
       PROVE  LET w == Raised(window)
              IN  /\ w \in Windows /\ w.floor = q /\ w.ceil = window.ceil /\ w.probe = q
                  /\ w.floor \in DOMAIN known' /\ Unsafe(known'[w.floor])
  <2> DEFINE w == Raised(window)
  <2>1. w = [window EXCEPT !.floor = q]
    <3>1. Larger(window.floor, q) = q
      BY <1>3, SMT DEF Larger
    <3>2. QED
      BY <3>1, Zenon DEF Raised
  <2> HIDE DEF w
  <2>2. w \in Windows /\ w.floor = q /\ w.ceil = window.ceil /\ w.probe = q
    <3>1. /\ [window EXCEPT !.floor = q] \in Windows
          /\ [window EXCEPT !.floor = q].floor = q
          /\ [window EXCEPT !.floor = q].ceil = window.ceil
          /\ [window EXCEPT !.floor = q].probe = q
      BY <1>3, WindowFields, Zenon
    <3>2. QED
      BY <2>1, <3>1, SMT
  <2>3. w.floor \in DOMAIN known' /\ Unsafe(known'[w.floor])
    BY <1>5, <1>12, <2>2, Zenon
  <2>4. QED
    BY <2>2, <2>3, Zenon DEF w
<1>13. CASE Unsafe(r) /\ q >= MassMax - Xtol /\ Limited(Raised(window)) /\ calls' = calls + 1
  <2> DEFINE w == Raised(window)
  <2>1. w.floor = q /\ w.floor \in DOMAIN known' /\ Unsafe(known'[w.floor])
    BY <1>12, <1>13, Zenon
  <2> HIDE DEF w
  <2>2. w.floor >= MassMax - Xtol /\ Limited(w)
    BY <1>13, <2>1, Zenon DEF w
  <2>3. w.floor \in Nat /\ w.floor > 0
    BY <1>3, <2>1, SMT
  <2>4. QED
    BY <1>5, <1>6, <1>13, <1>16, <2>1, <2>2, <2>3, LimitedKeeps, Zenon
<1>14. CASE Unsafe(r) /\ q < MassMax - Xtol /\ SearchOn(Raised(window)) /\ calls' = calls + 1
  <2> DEFINE w == Raised(window)
  <2>1. /\ w \in Windows /\ w.floor = q /\ w.ceil = window.ceil /\ w.probe = q
        /\ w.floor \in DOMAIN known' /\ Unsafe(known'[w.floor])
    BY <1>12, <1>14, Zenon
  <2> HIDE DEF w
  <2>2. w.floor \in 0..w.probe /\ w.probe \in 1..MassMax
    BY <1>3, <2>1, MassSolverAssumption, SMT
  <2>3. w.ceil # NoMass =>
          w.ceil \in w.probe..MassMax /\ w.ceil \in DOMAIN known' /\ known'[w.ceil] = NonFinite
    BY <1>9, <2>1, Zenon
  <2>4. SearchOn(w) /\ w.probe < MassMax - Xtol /\ w.floor = w.probe
    BY <1>14, <2>1, Zenon DEF w
  <2>5. QED
    BY <1>1, <1>5, <1>6, <1>7, <1>14, <2>1, <2>2, <2>3, <2>4, SearchOnKeeps, Zenon
<1>15. QED
  BY <1>2, <1>10, <1>11, <1>13, <1>14, Zenon
-----------------------------------------------------------------------------
(* The theorems.                                                             *)

LEMMA IInvInit == Init => IInv
<1> SUFFICES ASSUME Init PROVE IInv
  OBVIOUS
<1>1. memo = EmptyMemo /\ known = <<>> /\ calls = 0 /\ route = "validate" /\ phase = "start"
      /\ result = NoResult
  BY Zenon DEF Init
<1>2. MemoTrue
  <2>1. memo.slots = [i \in Slots |-> Slot("empty", 0, Unknown)]
    BY <1>1, SMT DEF EmptyMemo
  <2>2. Slot("empty", 0, Unknown) \in SlotTypes /\ Slot("empty", 0, Unknown).state # "occupied"
    BY SMT DEF Slot, SlotTypes
  <2>3. QED
    BY <2>1, <2>2, Zenon DEF MemoTrue
<1>3. DOMAIN known = {}
  BY <1>1, SMT
<1>4. KnownOK
  BY <1>3, Zenon DEF KnownOK
<1>5. QED
  BY <1>1, <1>2, <1>3, <1>4, SMT
     DEF IInv, Validating, Searching, Ended, ValidatePhases, FullPhases

LEMMA IInvStutters ==
  ASSUME IInv, UNCHANGED vars
  PROVE  IInv'
<1>1. /\ phase' = phase /\ route' = route /\ lo' = lo /\ hi' = hi /\ window' = window
      /\ brent' = brent /\ calls' = calls /\ memo' = memo /\ known' = known /\ result' = result
  BY Zenon DEF vars, bracket, facts
<1>2. MemoTrue' /\ KnownOK'
  BY <1>1, FactsStay, Zenon DEF IInv, facts
<1>3. /\ Low' <=> Low
      /\ High' <=> High
      /\ Bracketed' <=> Bracketed
  BY <1>1, Zenon DEF Low, High, Bracketed, Above, At, Points, Masses, Opposite, Contra, SameSide
<1>4. /\ UpperWindow' <=> UpperWindow
      /\ RecoverWindow' <=> RecoverWindow
  BY <1>1, Zenon DEF UpperWindow, RecoverWindow, Windows, Masses, IsUnsafe, Unsafe, NoMass
<1>5. At(hi)' <=> At(hi)
  BY <1>1, Zenon DEF At, Points, Masses
<1>6. Validating' /\ Searching'
  BY <1>1, <1>3, <1>4, <1>5, SMT DEF IInv, Validating, Searching, Budget, Larger
<1>7. Ended'
  <2>1. ConvergedIsProved' <=> ConvergedIsProved
    BY <1>1, Zenon DEF ConvergedIsProved, IsSafe, IsUnsafe, Safe, Unsafe, Size
  <2>2. GivesUpHonestly' <=> GivesUpHonestly
    BY <1>1, Zenon DEF GivesUpHonestly, WithinLimits, LimitIsReal, NothingIsLeft, BudgetSpent,
       ProbesSpent, NonFiniteWithin, IsUnsafe, Unsafe, Size, Budget, Larger
  <2>3. QED
    BY <1>1, <2>1, <2>2, Zenon DEF IInv, Ended, NoResult, NoMass
<1>8. QED
  BY <1>1, <1>2, <1>6, <1>7, Zenon DEF IInv, ValidatePhases, FullPhases

LEMMA IInvNext ==
  ASSUME IInv, [Next]_vars
  PROVE  IInv'
<1>1. CASE Validate
  BY <1>1, BeginKeeps, InitialKeeps, AnchorKeeps, OneShotKeeps, RepairKeeps, GiveUpKeeps,
     RecoverKeeps, RecoverFailsKeeps, GateKeeps, RefineKeeps, RefineEndsKeeps, Zenon DEF Validate
<1>2. CASE Full
  BY <1>2, ZeroBoundKeeps, UpperKeeps, BrentKeeps, BrentEndsKeeps, Zenon DEF Full
<1>3. CASE UNCHANGED vars
  BY <1>3, IInvStutters, Zenon
<1>4. QED
  BY <1>1, <1>2, <1>3, Zenon DEF Next

LEMMA AlwaysIInv == Spec => []IInv
<1>1. IInv /\ [Next]_vars => IInv'
  BY IInvNext, Zenon
<1>2. QED
  BY IInvInit, <1>1, PTL DEF Spec

(* A mass reported as converged is one the solve itself propagated: safe and *)
(* above an unsafe one on the validated path, and on the full path at worst  *)
(* within Rtol of the target or within Xtol of a safe mass.                  *)
THEOREM MassConvergedIsProved == Spec => []ConvergedIsProved
<1>1. IInv => ConvergedIsProved
  <2> SUFFICES ASSUME IInv PROVE ConvergedIsProved
    OBVIOUS
  <2>1. CASE phase = "done"
    BY <2>1, Zenon DEF IInv, Ended
  <2>2. CASE phase # "done"
    <3>1. result = NoResult
      BY <2>2, Zenon DEF IInv, Ended
    <3>2. result.status = "none"
      BY <3>1, SMT DEF NoResult
    <3>3. QED
      BY <3>2, SMT DEF ConvergedIsProved
  <2>3. QED
    BY <2>1, <2>2, Zenon
<1>2. QED
  BY AlwaysIInv, <1>1, PTL

(* Brent's two ends are propagated points on the two sides of the target,    *)
(* and the safe one is the last safe mass, whatever the curve does between.  *)
THEOREM MassBracketHolds == Spec => []BracketHolds
<1>1. IInv => BracketHolds
  <2> SUFFICES ASSUME IInv, phase \in {"refine", "brent"}
               PROVE  LET b == Contra(brent)
                      IN  /\ {b.best.m, b.brk.m} \subseteq DOMAIN known
                          /\ known[b.best.m] = b.best.r /\ known[b.brk.m] = b.brk.r
                          /\ \/ Safe(b.best.r) /\ (Unsafe(b.brk.r) \/ b.best.r = 0) /\ b.safe = b.best
                             \/ Unsafe(b.best.r) /\ Safe(b.brk.r) /\ b.safe = b.brk
    BY Zenon DEF BracketHolds
  <2>1. Bracketed
    BY SMT DEF IInv, Validating, Searching
  <2> DEFINE b == Contra(brent)
  <2>2. b \in Quads /\ Opposite(b) /\ Above(b.best) /\ Above(b.brk)
    <3>1. brent \in Quads /\ Opposite(b)
      BY <2>1, Zenon DEF Bracketed, Quads
    <3>2. b \in Quads /\ b.best = brent.best /\ (b.brk = brent.brk \/ b.brk = brent.prev)
      BY <3>1, ContraFacts, Zenon
    <3>3. QED
      BY <2>1, <3>1, <3>2, Zenon DEF Bracketed
  <2> HIDE DEF b
  <2>3. b.best.r \in Int /\ b.brk.r \in Int
    BY <2>2, PointTypes, Zenon
  <2>4. /\ b.best.m \in DOMAIN known /\ known[b.best.m] = b.best.r
        /\ b.brk.m \in DOMAIN known /\ known[b.brk.m] = b.brk.r
    BY <2>2, Zenon DEF Above, At
  <2>5. \/ Safe(b.best.r) /\ (Unsafe(b.brk.r) \/ b.best.r = 0) /\ b.safe = b.best
        \/ Unsafe(b.best.r) /\ Safe(b.brk.r) /\ b.safe = b.brk
    <3>1. b.best.r # NonFinite /\ b.brk.r # NonFinite
      BY <2>3, MassSolverAssumption, Zenon
    <3>2. QED
      BY <2>2, <3>1, Zenon DEF Opposite, Safe, Unsafe
  <2>6. QED
    BY <2>4, <2>5, Zenon DEF b
<1>2. QED
  BY AlwaysIInv, <1>1, PTL

(* A search that gives up names the true reason: its budget or its probes    *)
(* were spent, or an unsafe mass stands at the limit, at most Xtol, or right *)
(* below an orbit that does not exist, or nothing wide enough to search is   *)
(* left below such an orbit.                                                 *)
THEOREM MassGivesUpHonestly == Spec => []GivesUpHonestly
<1>1. IInv => GivesUpHonestly
  <2> SUFFICES ASSUME IInv PROVE GivesUpHonestly
    OBVIOUS
  <2>1. CASE phase = "done"
    BY <2>1, Zenon DEF IInv, Ended
  <2>2. CASE phase # "done"
    <3>1. result = NoResult
      BY <2>2, Zenon DEF IInv, Ended
    <3>2. result.status = "none"
      BY <3>1, SMT DEF NoResult
    <3>3. \/ route = "validate" /\ calls <= Budget
          \/ route = "full" /\ (calls <= MaxIter \/ calls <= MaxProbes)
      BY <2>2, Constants, SMT DEF IInv, Validating, Searching, ValidatePhases, FullPhases
    <3>4. WithinLimits
      <4>1. calls \in Nat
        BY Zenon DEF IInv
      <4>2. Larger(MaxIter, MaxProbes) >= MaxIter /\ Larger(MaxIter, MaxProbes) >= MaxProbes
        BY Constants, SMT DEF Larger
      <4> DEFINE most == Larger(MaxIter, MaxProbes)
      <4>3. (calls <= MaxIter \/ calls <= MaxProbes) => calls <= most
        <5>1. most \in Nat
          BY Constants, SMT DEF Larger
        <5> HIDE DEF most
        <5>2. most >= MaxIter /\ most >= MaxProbes
          BY <4>2, Zenon DEF most
        <5>3. QED
          BY <4>1, <5>1, <5>2, Constants, SMT
      <4>4. QED
        BY <3>3, <4>3, Zenon DEF WithinLimits
    <3>5. LimitIsReal /\ NothingIsLeft
      BY <3>2, Zenon DEF LimitIsReal, NothingIsLeft
    <3>6. QED
      BY <3>2, <3>4, <3>5, Zenon DEF GivesUpHonestly
  <2>3. QED
    BY <2>1, <2>2, Zenon
<1>2. QED
  BY AlwaysIInv, <1>1, PTL
-----------------------------------------------------------------------------
(* The memo: its order lists the occupied slots, no key is in two of them,   *)
(* and no hole comes before an entry on the way from its home.               *)

Held(slots) == {i \in Slots : slots[i].state = "occupied"}

\* The probing for a slot's key passes no hole before it comes to the slot.
Chained(slots, i) ==
  \E n \in Slots : Probe(slots[i].key, n) = i /\ Reached(slots, slots[i].key, n)

TableOK(slots) ==
  /\ slots \in [Slots -> SlotTypes]
  /\ \A i \in Held(slots) : slots[i].key \in Masses /\ Chained(slots, i)
  /\ \A i, j \in Held(slots) : slots[i].key = slots[j].key => i = j

Places == 0..Capacity - 1

ListOK(m) ==
  /\ m.order \in [Places -> Slots] /\ m.len \in 0..Capacity /\ m.next \in Places
  /\ Held(m.slots) = {m.order[n] : n \in 0..m.len - 1}
  /\ \A n1, n2 \in 0..m.len - 1 : m.order[n1] = m.order[n2] => n1 = n2

MemoOK(m) == TableOK(m.slots) /\ ListOK(m)

LEMMA Sizes ==
  /\ TableSize \in Nat /\ TableSize > 0 /\ Capacity \in Nat /\ Capacity > 0 /\ Capacity <= TableSize
  /\ \A n \in Slots : n \in Nat
  /\ \A key \in Masses : Home[key] \in Slots
BY MemoAssumption, MassSolverAssumption, SMT DEF Slots, Masses

\* From any home the probing comes to every slot.
LEMMA ProbesEverywhere ==
  ASSUME NEW key \in Masses, NEW i \in Slots
  PROVE  \E n \in Slots : Probe(key, n) = i
<1> DEFINE h == Home[key]
           T == TableSize
<1>1. h \in Int /\ 0 <= h /\ h < T /\ i \in Int /\ 0 <= i /\ i < T /\ T \in Nat /\ T > 0
  BY Sizes, SMT DEF Slots
<1> DEFINE n == IF i >= h THEN i - h ELSE i - h + T
<1> HIDE DEF h, T
<1>2. n \in Int /\ 0 <= n /\ n < T /\ (h + n = i \/ h + n = i + T)
  BY <1>1, SMT
<1>3. i % T = i /\ (i + T) % T = i
  BY <1>1, SMT
<1>4. (h + n) % T = i
  <2>1. CASE h + n = i
    BY <1>3, <2>1, Zenon
  <2>2. CASE h + n = i + T
    BY <1>3, <2>2, Zenon
  <2>3. QED
    BY <1>2, <2>1, <2>2, Zenon
<1>5. n \in Slots
  BY <1>1, <1>2, SMT DEF Slots, T
<1>6. Probe(key, n) = i
  BY <1>4, Zenon DEF Probe, h, T
<1>7. QED
  BY <1>5, <1>6, Zenon

\* As long as a slot is free, a new key gets one, with no hole before it.
LEMMA VacantFacts ==
  ASSUME NEW slots \in [Slots -> SlotTypes], NEW key \in Masses,
         NEW i \in Slots, slots[i].state # "occupied"
  PROVE  LET at == VacantSlot(slots, key)
         IN  /\ at \in Slots /\ slots[at].state # "occupied"
             /\ \E n \in Slots : Probe(key, n) = at /\ Reached(slots, key, n)
<1> DEFINE free == {n \in Slots : slots[Probe(key, n)].state # "occupied"}
           tombstones == Passes(slots, key, "tombstone")
           empty == Passes(slots, key, "empty")
<1>1. free # {} /\ free \subseteq Nat
  <2>1. PICK n \in Slots : Probe(key, n) = i
    BY ProbesEverywhere, Zenon
  <2>2. n \in free
    BY <2>1, Zenon
  <2>3. QED
    BY <2>2, Sizes, Zenon
<1>2. \A n \in Slots : Probe(key, n) \in Slots
  BY ProbeRange, Sizes, Zenon
<1>3. tombstones \union empty # {}
  <2> DEFINE n == First(free)
  <2>1. n \in free /\ \A m \in free : n <= m
    BY <1>1, FirstIsFirst, Zenon
  <2>2. n \in Slots /\ slots[Probe(key, n)].state # "occupied"
    BY <2>1, Zenon
  <2> HIDE DEF n
  <2>3. ASSUME NEW m \in 0..n - 1
        PROVE  slots[Probe(key, m)].state # "empty"
    <3>1. m \in Slots /\ ~(n <= m)
      BY <2>2, Sizes, SMT DEF Slots
    <3>2. m \notin free
      BY <2>1, <3>1, Zenon
    <3>3. slots[Probe(key, m)].state = "occupied"
      BY <3>1, <3>2, Zenon
    <3>4. QED
      BY <3>3, SMT
  <2>4. Reached(slots, key, n)
    BY <2>3, Zenon DEF Reached
  <2>5. slots[Probe(key, n)].state \in {"empty", "tombstone"}
    BY <1>2, <2>2, SMT DEF SlotTypes
  <2>6. QED
    BY <2>2, <2>4, <2>5, Zenon DEF Passes
<1>4. ASSUME NEW S, S \in {tombstones, empty}, S # {}
      PROVE  /\ Probe(key, First(S)) \in Slots /\ slots[Probe(key, First(S))].state # "occupied"
             /\ First(S) \in Slots /\ Reached(slots, key, First(S))
  <2>1. S \subseteq Nat
    BY <1>4, Sizes, Zenon DEF Passes
  <2>2. First(S) \in S
    BY <1>4, <2>1, FirstIsFirst, Zenon
  <2>3. First(S) \in Slots /\ Reached(slots, key, First(S))
        /\ slots[Probe(key, First(S))].state \in {"tombstone", "empty"}
    BY <1>4, <2>2, Zenon DEF Passes
  <2>4. slots[Probe(key, First(S))].state # "occupied"
    BY <2>3, SMT
  <2>5. QED
    BY <1>2, <2>3, <2>4, Zenon
<1>5. CASE tombstones # {}
  <2>1. VacantSlot(slots, key) = Probe(key, First(tombstones))
    BY <1>5, Zenon DEF VacantSlot
  <2>2. QED
    BY <1>4, <1>5, <2>1, Zenon
<1>6. CASE tombstones = {}
  <2>1. empty # {}
    BY <1>3, <1>6, Zenon
  <2>2. VacantSlot(slots, key) = Probe(key, First(empty))
    BY <1>6, <2>1, Zenon DEF VacantSlot
  <2>3. QED
    BY <1>4, <2>1, <2>2, Zenon
<1>7. QED
  BY <1>5, <1>6, Zenon

\* Every slot is full only if the list is.
LEMMA SomeSlotIsFree ==
  ASSUME NEW m, ListOK(m), m.len < Capacity
  PROVE  \E i \in Slots : m.slots[i].state # "occupied"
<1> SUFFICES ASSUME \A i \in Slots : m.slots[i].state = "occupied"
             PROVE  FALSE
  OBVIOUS
<1> DEFINE P == 0..m.len - 1
<1>1. Held(m.slots) = Slots /\ Held(m.slots) = {m.order[n] : n \in P}
  BY Zenon DEF Held, ListOK
<1>2. m.len \in Nat /\ m.len < TableSize
  BY Sizes, SMT DEF ListOK
<1>3. IsFiniteSet(P) /\ Cardinality(P) = m.len
  <2>1. 0 \in Int /\ m.len - 1 \in Int
    BY <1>2, SMT
  <2>2. IsFiniteSet(P) /\ Cardinality(P) = IF 0 > m.len - 1 THEN 0 ELSE m.len - 1 - 0 + 1
    BY <2>1, FS_Interval, Zenon
  <2>3. QED
    BY <1>2, <2>2, SMT
<1>4. IsFiniteSet(Slots) /\ Cardinality(Slots) = TableSize
  <2>1. 0 \in Int /\ TableSize - 1 \in Int
    BY Sizes, SMT
  <2>2. IsFiniteSet(Slots) /\ Cardinality(Slots) = IF 0 > TableSize - 1 THEN 0 ELSE TableSize - 1 - 0 + 1
    BY <2>1, FS_Interval, Zenon DEF Slots
  <2>3. QED
    BY Sizes, <2>2, SMT
<1> DEFINE place == [i \in Slots |-> CHOOSE n \in P : m.order[n] = i]
<1>5. \A i \in Slots : place[i] \in P /\ m.order[place[i]] = i
  BY <1>1, Zenon
<1>6. place \in [Slots -> P]
  BY <1>5, Zenon
<1> HIDE DEF place, P
<1>7. \E i, j \in Slots : i # j /\ place[i] = place[j]
  <2>1. Cardinality(P) < Cardinality(Slots)
    BY <1>2, <1>3, <1>4, SMT
  <2>2. QED
    BY <1>3, <1>4, <1>6, <2>1, FS_PigeonHole
<1>8. QED
  BY <1>5, <1>7, Zenon

\* A key that is not found is in no slot.
LEMMA MissIsAbsence ==
  ASSUME NEW slots, TableOK(slots), NEW key, Hits(slots, key) = {}
  PROVE  \A i \in Held(slots) : slots[i].key # key
<1> SUFFICES ASSUME NEW i \in Held(slots), slots[i].key = key
             PROVE  FALSE
  OBVIOUS
<1>1. PICK n \in Slots : Probe(key, n) = i /\ Reached(slots, key, n)
  BY Zenon DEF TableOK, Chained
<1>2. slots[i].state = "occupied"
  BY Zenon DEF Held
<1>3. n \in Hits(slots, key)
  BY <1>1, <1>2, Zenon DEF Hits, Passes
<1>4. QED
  BY <1>3, Zenon

\* An eviction leaves no hole.
LEMMA EvictOK ==
  ASSUME NEW slots, TableOK(slots), NEW oldest \in Slots
  PROVE  LET evicted == [slots EXCEPT ![oldest] = EvictedSlot(@)]
         IN  /\ TableOK(evicted) /\ Held(evicted) = Held(slots) \ {oldest}
             /\ evicted[oldest].state # "occupied"
             /\ \A i \in Held(evicted) : evicted[i] = slots[i]
<1> DEFINE evicted == [slots EXCEPT ![oldest] = EvictedSlot(@)]
<1>1. /\ evicted \in [Slots -> SlotTypes]
      /\ \A i \in Slots : i # oldest => evicted[i] = slots[i]
      /\ evicted[oldest].state = "tombstone"
  BY Evicting, Zenon DEF TableOK
<1> HIDE DEF evicted
<1>2. evicted[oldest].state # "occupied" /\ evicted[oldest].state # "empty"
  BY <1>1, SMT
<1>3. Held(evicted) = Held(slots) \ {oldest}
  BY <1>1, <1>2, Zenon DEF Held
<1>4. \A i \in Held(evicted) : evicted[i] = slots[i]
  BY <1>1, <1>2, Zenon DEF Held
<1>5. ASSUME NEW i \in Held(evicted)
      PROVE  evicted[i].key \in Masses /\ Chained(evicted, i)
  <2>1. i \in Held(slots) /\ evicted[i] = slots[i]
    BY <1>3, <1>4, Zenon
  <2>2. slots[i].key \in Masses /\ Chained(slots, i)
    BY <2>1, Zenon DEF TableOK
  <2>3. PICK n \in Slots : Probe(slots[i].key, n) = i /\ Reached(slots, slots[i].key, n)
    BY <2>2, Zenon DEF Chained
  <2>4. ASSUME NEW k \in 0..n - 1
        PROVE  evicted[Probe(slots[i].key, k)].state # "empty"
    <3>1. slots[Probe(slots[i].key, k)].state # "empty"
      BY <2>3, Zenon DEF Reached
    <3>2. k \in Nat
      BY <2>3, Sizes, SMT
    <3>3. Probe(slots[i].key, k) \in Slots
      BY <2>2, <3>2, ProbeRange, Zenon
    <3>4. QED
      BY <1>1, <1>2, <3>1, <3>3, Zenon
  <2>5. Reached(evicted, evicted[i].key, n)
    BY <2>1, <2>4, Zenon DEF Reached
  <2>6. QED
    BY <2>1, <2>2, <2>3, <2>5, Zenon DEF Chained
<1>6. \A i, j \in Held(evicted) : evicted[i].key = evicted[j].key => i = j
  BY <1>3, <1>4, Zenon DEF TableOK
<1>7. TableOK(evicted)
  BY <1>1, <1>5, <1>6, Zenon DEF TableOK
<1>8. QED
  BY <1>2, <1>3, <1>4, <1>7, Zenon DEF evicted

Filled(slots, at, key, value) == [slots EXCEPT ![at] = Slot("occupied", key, value)]
Absent(slots, key) == \A i \in Held(slots) : slots[i].key # key
Open(slots, key, at) ==
  /\ at \in Slots /\ slots[at].state # "occupied"
  /\ \E n \in Slots : Probe(key, n) = at /\ Reached(slots, key, n)
Adds(slots, filled, at) == TableOK(filled) /\ Held(filled) = Held(slots) \union {at}

\* A new key in a free slot that its probing comes to.
LEMMA FillOK ==
  ASSUME NEW slots, NEW key \in Masses, NEW value \in Values, NEW at,
         TableOK(slots), Absent(slots, key), Open(slots, key, at)
  PROVE  Adds(slots, Filled(slots, at, key, value), at)
<1> DEFINE filled == Filled(slots, at, key, value)
           new == Slot("occupied", key, value)
<1>a. \A i \in Held(slots) : slots[i].key # key
  BY Zenon DEF Absent
<1>b. /\ at \in Slots /\ slots[at].state # "occupied"
      /\ \E n \in Slots : Probe(key, n) = at /\ Reached(slots, key, n)
  BY Zenon DEF Open
<1>1. new \in SlotTypes /\ new.state = "occupied" /\ new.key = key
  BY SMT DEF Slot, SlotTypes, Masses
<1> HIDE DEF new
<1>2. /\ filled \in [Slots -> SlotTypes] /\ filled[at] = new
      /\ \A i \in Slots : i # at => filled[i] = slots[i]
  BY <1>1, <1>b, Zenon DEF TableOK, Filled, new
<1> HIDE DEF filled
<1>3. filled[at].state = "occupied" /\ filled[at].key = key /\ filled[at].state # "empty"
  BY <1>1, <1>2, SMT
<1>4. Held(filled) = Held(slots) \union {at} /\ at \notin Held(slots)
  <2>1. at \notin Held(slots) /\ at \in Held(filled)
    BY <1>3, <1>b, Zenon DEF Held
  <2>2. ASSUME NEW i
        PROVE  i \in Held(filled) <=> i \in Held(slots) \union {at}
    <3>1. CASE i = at
      BY <2>1, <3>1, Zenon
    <3>2. CASE i # at
      BY <1>2, <3>2, Zenon DEF Held
    <3>3. QED
      BY <3>1, <3>2, Zenon
  <2>3. QED
    BY <2>1, <2>2, Zenon
<1>5. \A i \in Held(slots) : filled[i] = slots[i]
  BY <1>2, <1>4, Zenon DEF Held
<1>6. ASSUME NEW k \in Masses, NEW n \in Slots, Reached(slots, k, n)
      PROVE  Reached(filled, k, n)
  <2>1. ASSUME NEW x \in 0..n - 1
        PROVE  filled[Probe(k, x)].state # "empty"
    <3>1. slots[Probe(k, x)].state # "empty"
      BY <1>6, Zenon DEF Reached
    <3>2. x \in Nat
      BY Sizes, SMT
    <3>3. Probe(k, x) \in Slots
      BY <3>2, ProbeRange, Zenon
    <3>4. QED
      BY <1>2, <1>3, <3>1, <3>3, Zenon
  <2>2. QED
    BY <2>1, Zenon DEF Reached
<1>7. ASSUME NEW i \in Held(filled)
      PROVE  filled[i].key \in Masses /\ Chained(filled, i)
  <2>1. CASE i = at
    <3>1. PICK n \in Slots : Probe(key, n) = at /\ Reached(slots, key, n)
      BY <1>b, Zenon
    <3>2. Reached(filled, key, n)
      BY <1>6, <3>1, Zenon
    <3>3. QED
      BY <1>3, <2>1, <3>1, <3>2, Zenon DEF Chained
  <2>2. CASE i \in Held(slots)
    <3>1. slots[i].key \in Masses /\ Chained(slots, i) /\ filled[i] = slots[i]
      BY <1>5, <2>2, Zenon DEF TableOK
    <3>2. PICK n \in Slots : Probe(slots[i].key, n) = i /\ Reached(slots, slots[i].key, n)
      BY <3>1, Zenon DEF Chained
    <3>3. Reached(filled, slots[i].key, n)
      BY <1>6, <3>1, <3>2, Zenon
    <3>4. QED
      BY <3>1, <3>2, <3>3, Zenon DEF Chained
  <2>3. QED
    BY <1>4, <2>1, <2>2, Zenon
<1>8. \A i, j \in Held(filled) : filled[i].key = filled[j].key => i = j
  BY <1>3, <1>4, <1>5, <1>a, Zenon DEF TableOK
<1>9. TableOK(filled)
  BY <1>2, <1>7, <1>8, Zenon DEF TableOK
<1>10. Adds(slots, filled, at)
  BY <1>4, <1>9, Zenon DEF Adds
<1>11. QED
  BY <1>10, Zenon DEF filled

\* A new key takes the place of the oldest one, or the next one.
LEMMA InsertOK ==
  ASSUME NEW m, MemoOK(m), NEW key \in Masses, NEW value \in Values, Hits(m.slots, key) = {}
  PROVE  MemoOK(Insert(m, key, value))
<1> DEFINE full == m.len = Capacity
           oldest == m.order[m.next]
           S == IF full THEN [m.slots EXCEPT ![oldest] = EvictedSlot(@)] ELSE m.slots
           at == VacantSlot(S, key)
           filled == Filled(S, at, key, value)
           place == IF full THEN m.next ELSE m.len
           r == Insert(m, key, value)
           kept == IF full THEN (0..m.len - 1) \ {m.next} ELSE 0..m.len - 1
<1>1. /\ r.slots = filled /\ r.order = [m.order EXCEPT ![place] = at]
      /\ r.len = (IF full THEN m.len ELSE m.len + 1)
      /\ r.next = (IF full THEN (m.next + 1) % Capacity ELSE m.next)
  <2>1. r = [slots |-> filled, order |-> [m.order EXCEPT ![place] = at],
             len |-> IF full THEN m.len ELSE m.len + 1,
             next |-> IF full THEN (m.next + 1) % Capacity ELSE m.next]
    BY Zenon DEF Insert, Filled
  <2> HIDE DEF r, filled, place, at, full
  <2>2. QED
    BY <2>1, SMT
<1>2. /\ m.order \in [Places -> Slots] /\ m.len \in 0..Capacity /\ m.next \in Places
      /\ Held(m.slots) = {m.order[n] : n \in 0..m.len - 1}
      /\ \A n1, n2 \in 0..m.len - 1 : m.order[n1] = m.order[n2] => n1 = n2
      /\ TableOK(m.slots)
  BY Zenon DEF MemoOK, ListOK
<1>3. \A i \in Held(m.slots) : m.slots[i].key # key
  BY <1>2, MissIsAbsence, Zenon
<1>4. /\ TableOK(S) /\ Held(S) = {m.order[n] : n \in kept}
      /\ \A i \in Held(S) : S[i].key # key
      /\ \E i \in Slots : S[i].state # "occupied"
  <2>1. CASE full
    <3>1. oldest \in Slots /\ S = [m.slots EXCEPT ![oldest] = EvictedSlot(@)]
      BY <1>2, <2>1, Zenon
    <3>2. m.next \in 0..m.len - 1
      BY <1>2, <2>1, Zenon DEF Places
    <3> HIDE DEF oldest, full
    <3>3. /\ TableOK(S) /\ Held(S) = Held(m.slots) \ {oldest} /\ S[oldest].state # "occupied"
          /\ \A i \in Held(S) : S[i] = m.slots[i]
      <4> DEFINE e == [m.slots EXCEPT ![oldest] = EvictedSlot(@)]
      <4>1. /\ TableOK(e) /\ Held(e) = Held(m.slots) \ {oldest} /\ e[oldest].state # "occupied"
            /\ \A i \in Held(e) : e[i] = m.slots[i]
        BY <1>2, <3>1, EvictOK
      <4>2. S = e
        BY <3>1, Zenon
      <4> HIDE DEF S, e
      <4>3. QED
        BY <4>1, <4>2, Zenon
    <3> HIDE DEF S
    <3>4. \A i \in Held(S) : S[i].key # key
      BY <1>3, <3>3, Zenon
    <3>5. kept = (0..m.len - 1) \ {m.next}
      BY <2>1, Zenon
    <3>6. Held(S) = {m.order[n] : n \in kept}
      <4> HIDE DEF kept
      <4>1. ASSUME NEW i
            PROVE  i \in Held(S) <=> \E n \in kept : i = m.order[n]
        BY <1>2, <3>2, <3>3, <3>5, ZenonT(40) DEF oldest
      <4>2. QED
        BY <4>1, Zenon
    <3>7. QED
      BY <3>1, <3>3, <3>4, <3>6, Zenon
  <2>2. CASE ~full
    <3>1. S = m.slots /\ kept = 0..m.len - 1
      BY <2>2, Zenon
    <3>2. m.len < Capacity
      BY <1>2, <2>2, Sizes, SMT
    <3>3. \E i \in Slots : m.slots[i].state # "occupied"
      BY <3>2, SomeSlotIsFree, Zenon DEF MemoOK
    <3> HIDE DEF S, kept
    <3>4. QED
      BY <1>2, <1>3, <3>1, <3>3, Zenon
  <2>3. QED
    BY <2>1, <2>2, Zenon
<1> HIDE DEF S
<1>5. /\ at \in Slots /\ S[at].state # "occupied"
      /\ \E n \in Slots : Probe(key, n) = at /\ Reached(S, key, n)
  <2>1. S \in [Slots -> SlotTypes]
    BY <1>4, Zenon DEF TableOK
  <2>2. PICK i \in Slots : S[i].state # "occupied"
    BY <1>4, Zenon
  <2>3. QED
    BY <2>1, <2>2, VacantFacts, Zenon
<1> HIDE DEF at
<1>6. TableOK(filled) /\ Held(filled) = Held(S) \union {at}
  <2>1. TableOK(S) /\ Absent(S, key)
    BY <1>4, Zenon DEF Absent
  <2>2. Open(S, key, at)
    BY <1>5, Zenon DEF Open
  <2>3. key \in Masses /\ value \in Values
    OBVIOUS
  <2>4. Adds(S, Filled(S, at, key, value), at)
    BY <2>1, <2>2, FillOK
  <2>5. QED
    BY <2>4, Zenon DEF Adds
<1>7. at \notin Held(S)
  BY <1>5, Zenon DEF Held
<1> HIDE DEF filled
<1>8. place \in Places /\ place \notin kept /\ kept \subseteq Places
  <2>1. CASE full
    <3>1. kept = (0..m.len - 1) \ {m.next} /\ place = m.next /\ m.len = Capacity
      BY <2>1, Zenon
    <3> HIDE DEF kept, place, full
    <3>2. QED
      BY <1>2, <3>1, Zenon DEF Places
  <2>2. CASE ~full
    <3>1. kept = 0..m.len - 1 /\ place = m.len /\ m.len # Capacity
      BY <2>2, Zenon
    <3> HIDE DEF kept, place, full
    <3>2. QED
      BY <1>2, <3>1, Sizes, SMT DEF Places
  <2>3. QED
    BY <2>1, <2>2, Zenon
<1>9. 0..r.len - 1 = kept \union {place}
  <2>1. CASE full
    <3>1. kept = (0..m.len - 1) \ {m.next} /\ place = m.next /\ m.len = Capacity /\ r.len = m.len
      BY <1>1, <2>1, Zenon
    <3> HIDE DEF kept, place, full, r
    <3>2. QED
      BY <1>2, <3>1, Zenon DEF Places
  <2>2. CASE ~full
    <3>1. kept = 0..m.len - 1 /\ place = m.len /\ r.len = m.len + 1
      BY <1>1, <2>2, Zenon
    <3> HIDE DEF kept, place, full, r
    <3>2. QED
      BY <1>2, <3>1, Sizes, SMT
  <2>3. QED
    BY <2>1, <2>2, Zenon
<1>10. r.len \in 0..Capacity /\ r.next \in Places
  <2>1. CASE full
    <3>1. r.len = m.len /\ r.next = (m.next + 1) % Capacity
      BY <1>1, <2>1, Zenon
    <3>2. m.next + 1 \in Nat
      BY <1>2, SMT DEF Places
    <3>3. (m.next + 1) % Capacity \in 0..Capacity - 1
      <4>1. Capacity \in Nat \ {0}
        BY Sizes, SMT
      <4>2. QED
        BY <3>2, <4>1, Remainder, Zenon
    <3>4. QED
      BY <1>2, <3>1, <3>3, Zenon DEF Places
  <2>2. CASE ~full
    <3>1. r.len = m.len + 1 /\ r.next = m.next
      BY <1>1, <2>2, Zenon
    <3>2. m.len + 1 \in 0..Capacity
      BY <1>2, <2>2, Sizes, SMT
    <3>3. QED
      BY <1>2, <3>1, <3>2, Zenon
  <2>3. QED
    BY <2>1, <2>2, Zenon
<1> HIDE DEF kept, place, full, oldest
<1>11. /\ r.order \in [Places -> Slots] /\ r.order[place] = at
       /\ \A n \in Places : n # place => r.order[n] = m.order[n]
  <2> HIDE DEF r
  <2>1. QED
    BY <1>1, <1>2, <1>5, <1>8, Zenon
<1>12. \A n \in kept : r.order[n] = m.order[n] /\ n # place
  BY <1>8, <1>11, Zenon
<1>13. Held(r.slots) = {r.order[n] : n \in 0..r.len - 1}
  <2>1. Held(r.slots) = {m.order[n] : n \in kept} \union {at}
    BY <1>1, <1>4, <1>6, Zenon
  <2> HIDE DEF r
  <2>2. ASSUME NEW i
        PROVE  i \in Held(r.slots) <=> \E n \in 0..r.len - 1 : i = r.order[n]
    BY <1>9, <1>11, <1>12, <2>1, Zenon
  <2>3. QED
    BY <2>2, Zenon
<1>14. ASSUME NEW n1 \in 0..r.len - 1, NEW n2 \in 0..r.len - 1, r.order[n1] = r.order[n2]
       PROVE  n1 = n2
  <2> HIDE DEF r
  <2>1. \A n \in kept : m.order[n] # at
    BY <1>4, <1>7, Zenon
  <2>2. kept \subseteq 0..m.len - 1
    BY Zenon DEF kept
  <2>3. CASE n1 = place
    BY <1>9, <1>11, <1>12, <1>14, <2>1, <2>3, Zenon
  <2>4. CASE n2 = place
    BY <1>9, <1>11, <1>12, <1>14, <2>1, <2>4, Zenon
  <2>5. CASE n1 \in kept /\ n2 \in kept
    BY <1>2, <1>12, <1>14, <2>2, <2>5, Zenon
  <2>6. QED
    BY <1>9, <2>3, <2>4, <2>5, Zenon
<1>15. ListOK(r)
  BY <1>10, <1>11, <1>13, <1>14, Zenon DEF ListOK
<1>16. TableOK(r.slots)
  BY <1>1, <1>6, Zenon
<1>17. QED
  BY <1>15, <1>16, Zenon DEF MemoOK

\* An action either leaves the memo alone or evaluates one mass.
LEMMA MemoMoves ==
  ASSUME [Next]_vars
  PROVE  memo' = memo \/ \E mass, r : Evaluate(mass, r)
<1> USE DEF facts
<1>1. CASE Validate
  <2>1. CASE Begin \/ GiveUp \/ RecoverFails \/ Gate \/ RefineEnds
    BY <2>1, Zenon DEF Begin, GiveUp, RecoverFails, Gate, RefineEnds
  <2>2. CASE Initial
    BY <2>2, Zenon DEF Initial
  <2>3. CASE Anchor
    BY <2>3, Zenon DEF Anchor
  <2>4. CASE OneShot \/ Repair
    <3>1. ASSUME NEW mass, ProbeAt(mass)
          PROVE  \E r : Evaluate(mass, r)
      BY <3>1, Zenon DEF ProbeAt
    <3>2. QED
      BY <2>4, <3>1, Zenon DEF OneShot, Repair
  <2>5. CASE Recover
    BY <2>5, Zenon DEF Recover
  <2>6. CASE Refine
    BY <2>6, Zenon DEF Refine, BrentStep
  <2>7. QED
    BY <1>1, <2>1, <2>2, <2>3, <2>4, <2>5, <2>6, Zenon DEF Validate
<1>2. CASE Full
  BY <1>2, Zenon DEF Full, ZeroBound, Upper, Brent, BrentStep, BrentEnds
<1>3. CASE UNCHANGED vars
  BY <1>3, Zenon DEF vars
<1>4. QED
  BY <1>1, <1>2, <1>3, Zenon DEF Next

LEMMA EmptyIsOK == MemoOK(EmptyMemo)
<1> DEFINE e == EmptyMemo
<1>1. /\ e.slots = [i \in Slots |-> Slot("empty", 0, Unknown)]
      /\ e.order = [n \in Places |-> 0] /\ e.len = 0 /\ e.next = 0
  BY SMT DEF EmptyMemo, Places
<1> HIDE DEF e
<1>2. Slot("empty", 0, Unknown) \in SlotTypes /\ Slot("empty", 0, Unknown).state # "occupied"
  BY SMT DEF Slot, SlotTypes
<1>3. e.slots \in [Slots -> SlotTypes] /\ Held(e.slots) = {}
  BY <1>1, <1>2, Zenon DEF Held
<1>4. 0 \in Slots /\ 0 \in Places /\ 0 \in 0..Capacity
  BY Sizes, SMT DEF Slots, Places
<1>5. e.order \in [Places -> Slots] /\ e.len \in 0..Capacity /\ e.next \in Places
  BY <1>1, <1>4, Zenon
<1>6. 0..e.len - 1 = {}
  BY <1>1, SMT
<1>7. ListOK(e) /\ TableOK(e.slots)
  BY <1>3, <1>5, <1>6, Zenon DEF ListOK, TableOK
<1>8. QED
  BY <1>7, Zenon DEF e, MemoOK

LEMMA MemoKeeps ==
  ASSUME IInv, IInv', MemoOK(memo), [Next]_vars
  PROVE  MemoOK(memo')
<1>1. CASE memo' = memo
  BY <1>1, Zenon
<1>2. CASE \E mass, r : Evaluate(mass, r)
  <2>1. PICK mass, r : Evaluate(mass, r)
    BY <1>2, Zenon
  <2>2. mass \in DOMAIN known' /\ known'[mass] = r
    BY <2>1, Zenon DEF Evaluate, Learn
  <2>3. mass \in Masses /\ r \in Values
    BY <2>2, Zenon DEF IInv, KnownOK, Masses, Values
  <2>4. CASE Remembered(mass) # Unknown
    BY <2>1, <2>4, Zenon DEF Evaluate
  <2>5. CASE Remembered(mass) = Unknown
    <3>1. Hits(memo.slots, mass) = {}
      BY <2>3, <2>5, Recall, Zenon DEF IInv
    <3>2. memo' = Insert(memo, mass, r)
      BY <2>1, <2>5, Zenon DEF Evaluate
    <3>3. MemoOK(Insert(memo, mass, r))
      BY <2>3, <3>1, InsertOK, Zenon
    <3>4. QED
      BY <3>2, <3>3, Zenon
  <2>6. QED
    BY <2>4, <2>5, Zenon
<1>3. QED
  BY <1>1, <1>2, MemoMoves, Zenon

\* A slot is where the probing for its key ends.
LEMMA FoundInPlace ==
  ASSUME NEW slots, TableOK(slots), NEW i \in Held(slots)
  PROVE  Hits(slots, slots[i].key) # {} /\ ExistingSlot(slots, slots[i].key) = i
<1> DEFINE key == slots[i].key
           hits == Hits(slots, key)
           n == First(hits)
<1>1. key \in Masses /\ slots[i].state = "occupied"
  BY Zenon DEF TableOK, Held
<1>2. hits # {}
  <2>1. PICK k \in Slots : Probe(key, k) = i /\ Reached(slots, key, k)
    BY Zenon DEF TableOK, Chained
  <2>2. k \in hits
    BY <1>1, <2>1, Zenon DEF Hits, Passes
  <2>3. QED
    BY <2>2, Zenon
<1>3. hits \subseteq Nat
  BY Sizes, Zenon DEF Hits, Passes
<1>4. n \in hits
  BY <1>2, <1>3, FirstIsFirst, Zenon
<1>5. n \in Nat /\ slots[Probe(key, n)].state = "occupied" /\ slots[Probe(key, n)].key = key
  BY <1>3, <1>4, Zenon DEF Hits, Passes
<1>6. Probe(key, n) \in Held(slots)
  BY <1>1, <1>5, ProbeRange, Zenon DEF Held
<1>7. Probe(key, n) = i
  BY <1>5, <1>6, Zenon DEF TableOK
<1>8. QED
  BY <1>2, <1>7, Zenon DEF ExistingSlot

(* The memo of a solve loses and confuses nothing, whatever the masses and   *)
(* wherever they hash to: its order lists the entries it still holds, and    *)
(* each is found in its own slot, with the miss that was computed for it.    *)
THEOREM MassMemoIsSound == Spec => []MemoIsSound
<1>1. Init => MemoOK(memo)
  BY EmptyIsOK, Zenon DEF Init
<1>2. IInv /\ IInv' /\ MemoOK(memo) /\ [Next]_vars => MemoOK(memo)'
  BY MemoKeeps, Zenon
<1>3. IInv /\ MemoOK(memo) => MemoIsSound
  <2> SUFFICES ASSUME IInv, MemoOK(memo) PROVE MemoIsSound
    OBVIOUS
  <2>1. Occupied(memo) = Held(memo.slots)
    BY Zenon DEF Occupied, Held
  <2>2. /\ Occupied(memo) = {memo.order[n] : n \in 0..memo.len - 1}
        /\ \A n1, n2 \in 0..memo.len - 1 : memo.order[n1] = memo.order[n2] => n1 = n2
    BY <2>1, Zenon DEF MemoOK, ListOK
  <2>3. ASSUME NEW i \in Occupied(memo)
        PROVE  /\ Hits(memo.slots, memo.slots[i].key) # {}
               /\ ExistingSlot(memo.slots, memo.slots[i].key) = i
               /\ memo.slots[i].value = known[memo.slots[i].key]
    <3>1. memo.slots[i].value = known[memo.slots[i].key]
      BY <2>3, Zenon DEF IInv, MemoTrue, Occupied
    <3>2. QED
      BY <2>1, <3>1, FoundInPlace, Zenon DEF MemoOK
  <2>4. QED
    BY <2>2, <2>3, Zenon DEF MemoIsSound
<1>4. QED
  BY AlwaysIInv, <1>1, <1>2, <1>3, PTL DEF Spec
=============================================================================
