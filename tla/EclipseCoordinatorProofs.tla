---------------------- MODULE EclipseCoordinatorProofs ----------------------
(***************************************************************************)
(* Theorems about EclipseCoordinator, for every sky, every request and every *)
(* value of the limits.                                                      *)
(***************************************************************************)
EXTENDS EclipseCoordinator, FiniteSetTheorems, SequenceTheorems, TLAPS

(* Counting in a sorted request. *)

Sorted(g) == g \in Seq(Int) /\ \A i, j \in 1..Len(g) : i <= j => g[i] <= g[j]
CountIn(g, from, to, time) == Cardinality({i \in from + 1..to : g[i] <= time})
Upto(g, time) == CountIn(g, 0, Len(g), time)

\* What is counted is the beginning of the range.
LEMMA CountFacts ==
  ASSUME NEW g, Sorted(g), NEW time \in Int,
         NEW from \in 0..Len(g), NEW to \in from..Len(g)
  PROVE  /\ CountIn(g, from, to, time) \in 0..to - from
         /\ \A i \in from + 1..to : g[i] <= time <=> i <= from + CountIn(g, from, to, time)
<1> DEFINE S == {i \in from + 1..to : g[i] <= time}
<1>1. Len(g) \in Nat /\ from \in Int /\ to \in Int /\ from <= to
  BY SMT DEF Sorted
<1>2. \A i \in from + 1..to : i \in 1..Len(g) /\ g[i] \in Int
  BY SMT DEF Sorted
<1>3. IsFiniteSet(from + 1..to) /\ Cardinality(from + 1..to) = to - from
  <2>1. from + 1 \in Int /\ to \in Int
    BY <1>1, SMT
  <2>2. IsFiniteSet(from + 1..to)
        /\ Cardinality(from + 1..to) = IF from + 1 > to THEN 0 ELSE to - (from + 1) + 1
    BY <2>1, FS_Interval, Zenon
  <2>3. QED
    BY <1>1, <2>2, SMT
<1>4. IsFiniteSet(S) /\ Cardinality(S) \in Nat /\ Cardinality(S) <= to - from
  <2>1. S \subseteq from + 1..to
    OBVIOUS
  <2>2. IsFiniteSet(S) /\ Cardinality(S) <= Cardinality(from + 1..to)
    BY <1>3, <2>1, FS_Subset, Zenon
  <2>3. Cardinality(S) \in Nat
    BY <2>2, FS_CardinalityType, Zenon
  <2>4. QED
    BY <1>3, <2>2, <2>3, SMT
<1>5. ASSUME NEW i \in from + 1..to, i \in S
      PROVE  i <= from + Cardinality(S)
  <2>1. from + 1..i \subseteq S
    BY <1>1, <1>2, <1>5, SMT DEF Sorted
  <2>2. Cardinality(from + 1..i) <= Cardinality(S)
    BY <1>4, <2>1, FS_Subset, Zenon
  <2>3. from + 1 \in Int /\ i \in Int
    BY <1>1, SMT
  <2>4. Cardinality(from + 1..i) = IF from + 1 > i THEN 0 ELSE i - (from + 1) + 1
    BY <2>3, FS_Interval, Zenon
  <2>5. QED
    BY <1>1, <1>4, <2>2, <2>4, SMT
<1>6. ASSUME NEW i \in from + 1..to, i \notin S
      PROVE  from + Cardinality(S) < i
  <2>1. S \subseteq from + 1..i - 1
    BY <1>1, <1>2, <1>6, SMTT(30) DEF Sorted
  <2>2. from + 1 \in Int /\ i - 1 \in Int
    BY <1>1, SMT
  <2>3. /\ IsFiniteSet(from + 1..i - 1)
        /\ Cardinality(from + 1..i - 1) = IF from + 1 > i - 1 THEN 0 ELSE i - 1 - (from + 1) + 1
    BY <2>2, FS_Interval, Zenon
  <2>4. Cardinality(S) <= Cardinality(from + 1..i - 1)
    BY <2>1, <2>3, FS_Subset, Zenon
  <2>5. QED
    BY <1>1, <1>4, <2>3, <2>4, SMT
<1>7. \A i \in from + 1..to : i <= from + Cardinality(S) <=> i \in S
  BY <1>1, <1>4, <1>5, <1>6, SMT
<1>8. QED
  BY <1>1, <1>4, <1>7, SMT DEF CountIn

LEMMA UptoFacts ==
  ASSUME NEW g, Sorted(g), NEW time \in Int
  PROVE  /\ Len(g) \in Nat /\ Upto(g, time) \in 0..Len(g)
         /\ \A i \in 1..Len(g) : g[i] \in Int /\ (g[i] <= time <=> i <= Upto(g, time))
<1>1. Len(g) \in Nat /\ \A i \in 1..Len(g) : g[i] \in Int
  BY SMT DEF Sorted
<1>2. 0 \in 0..Len(g) /\ Len(g) \in 0..Len(g) /\ 0 + 1 = 1
  BY <1>1, SMT
<1>3. /\ CountIn(g, 0, Len(g), time) \in 0..Len(g) - 0
      /\ \A i \in 0 + 1..Len(g) : g[i] <= time <=> i <= 0 + CountIn(g, 0, Len(g), time)
  BY <1>2, CountFacts, Zenon
<1>4. QED
  BY <1>1, <1>3, SMT DEF Upto

LEMMA UptoRange ==
  ASSUME NEW g, Sorted(g), NEW time \in Int
  PROVE  Upto(g, time) \in Int /\ 0 <= Upto(g, time) /\ Upto(g, time) <= Len(g)
BY UptoFacts, SMT

LEMMA UptoGrows ==
  ASSUME NEW g, Sorted(g), NEW time \in Int, NEW later \in Int, time <= later
  PROVE  Upto(g, time) <= Upto(g, later)
<1>1. Upto(g, time) # 0 => g[Upto(g, time)] <= time
  BY UptoFacts, SMT
<1>2. Upto(g, time) # 0 => g[Upto(g, time)] \in Int /\ g[Upto(g, time)] <= later
  BY <1>1, UptoFacts, SMTT(30)
<1>3. QED
  BY <1>2, UptoFacts, SMTT(30)

\* Counting a part continues where the count of the whole has not come to yet.
LEMMA CountIsUpto ==
  ASSUME NEW g, Sorted(g), NEW time \in Int,
         NEW from \in 0..Len(g), NEW to \in from..Len(g)
  PROVE  from + CountIn(g, from, to, time) =
           IF Upto(g, time) <= from THEN from ELSE IF Upto(g, time) >= to THEN to ELSE Upto(g, time)
<1> DEFINE n == CountIn(g, from, to, time)
<1> DEFINE u == Upto(g, time)
<1>1. n \in 0..to - from /\ \A i \in from + 1..to : g[i] <= time <=> i <= from + n
  BY CountFacts, Zenon
<1>2. Len(g) \in Nat /\ u \in 0..Len(g) /\ \A i \in 1..Len(g) : g[i] <= time <=> i <= u
  BY UptoFacts, Zenon
<1> HIDE DEF n, u
<1>3. \A i \in from + 1..to : i <= u <=> i <= from + n
  BY <1>1, <1>2, SMT
<1>4. n # 0 => from + n <= u
  BY <1>1, <1>2, <1>3, SMT
<1>5. from + n < to => u < from + n + 1
  BY <1>1, <1>2, <1>3, SMT
<1>6. from + n = IF u <= from THEN from ELSE IF u >= to THEN to ELSE u
  BY <1>1, <1>2, <1>4, <1>5, SMT
<1>7. QED
  BY <1>6 DEF n, u
-----------------------------------------------------------------------------
(* What has been published: the next n samples of the request, none later    *)
(* than a time, each added back to the baseline it was integrated on.        *)

Published(o, n, time) ==
  /\ o \in Seq(Int \X Int \X Int)
  /\ n \in 0..Len(tEval) /\ Upto(tEval, -1) + Len(o) = n
  /\ \A i \in 1..Len(o) :
       /\ o[i][1] = tEval[Upto(tEval, -1) + i] /\ o[i][1] <= time
       /\ o[i][2] = o[i][3] /\ o[i][2] <= o[i][1]

LEMMA SampleFacts ==
  ASSUME Sorted(tEval), NEW from \in Nat, NEW count \in Nat, from + count <= Len(tEval),
         NEW base \in Int
  PROVE  /\ Samples(from, count, base, base) \in Seq(Int \X Int \X Int)
         /\ Len(Samples(from, count, base, base)) = count
         /\ \A i \in 1..count :
              Samples(from, count, base, base)[i] = <<tEval[from + i], base, base>>
<1>1. \A i \in 1..count : tEval[from + i] \in Int
  BY UptoFacts, SMTT(30)
<1>2. \A i \in 1..count : <<tEval[from + i], base, base>> \in Int \X Int \X Int
  BY <1>1, Zenon
<1>3. [i \in 1..count |-> <<tEval[from + i], base, base>>] \in Seq(Int \X Int \X Int)
  BY <1>2, IsASeq, SMT
<1>4. QED
  BY <1>3, LenProperties, SMT DEF Samples

LEMMA Emit ==
  ASSUME Sorted(tEval), NEW o, NEW n, NEW time \in Int, Published(o, n, time),
         NEW m \in n..Len(tEval), NEW later \in Int, time <= later, NEW base \in Int,
         \A i \in n + 1..m : base <= tEval[i] /\ tEval[i] <= later
  PROVE  Published(o \o Samples(n, m - n, base, base), m, later)
<1> DEFINE s == Samples(n, m - n, base, base)
<1> DEFINE T == Int \X Int \X Int
<1> DEFINE u == Upto(tEval, -1)
<1>1. Len(tEval) \in Nat /\ u \in Nat /\ \A i \in 1..Len(tEval) : tEval[i] \in Int
  BY UptoFacts, SMTT(30)
<1>2. n \in Nat /\ m \in Nat /\ n <= m /\ m <= Len(tEval) /\ n + (m - n) = m /\ m - n \in Nat
  <2>1. n \in 0..Len(tEval)
    BY Zenon DEF Published
  <2>2. QED
    BY <1>1, <2>1, SMT
<1>3. /\ s \in Seq(T) /\ Len(s) = m - n
      /\ \A i \in 1..m - n : s[i] = <<tEval[n + i], base, base>>
  BY <1>2, SampleFacts
<1>4. o \in Seq(T) /\ Len(o) \in Nat /\ u + Len(o) = n
  BY LenProperties, Zenon DEF Published
<1> DEFINE r == o \o s
<1> DEFINE k == Len(o)
<1> HIDE DEF s, T, u
<1>5. /\ r \in Seq(T) /\ Len(r) = k + Len(s)
      /\ \A i \in 1..k + Len(s) : r[i] = IF i <= k THEN o[i] ELSE s[i - k]
  BY <1>3, <1>4, ConcatProperties, ZenonT(40)
<1> HIDE DEF r, k
<1>6. k \in Nat /\ u + k = n /\ Len(s) = m - n /\ Len(r) = k + Len(s)
  BY <1>3, <1>4, <1>5, Zenon DEF k
<1>7. Len(r) = m - u /\ u + Len(r) = m
  BY <1>1, <1>2, <1>6, SMT
<1>8. ASSUME NEW i \in 1..Len(r), i <= k
      PROVE  /\ r[i] = o[i] /\ o[i][1] = tEval[u + i] /\ o[i][1] <= later
             /\ o[i][2] = o[i][3] /\ o[i][2] <= o[i][1]
  <2>1. i \in 1..k /\ i \in 1..k + Len(s) /\ u + i \in 1..Len(tEval)
    BY <1>1, <1>2, <1>6, <1>7, <1>8, SMT
  <2>2. r[i] = o[i]
    BY <1>5, <1>8, <2>1, Zenon
  <2>3. o[i][1] = tEval[u + i] /\ o[i][1] <= time /\ o[i][2] = o[i][3] /\ o[i][2] <= o[i][1]
    BY <2>1, Zenon DEF Published, u, k
  <2>4. tEval[u + i] \in Int
    BY <1>1, <2>1, Zenon
  <2>5. o[i][1] <= later
    BY <2>3, <2>4, SMT
  <2>6. QED
    BY <2>2, <2>3, <2>5, Zenon
<1>9. ASSUME NEW i \in 1..Len(r), ~(i <= k)
      PROVE  /\ r[i] = <<tEval[u + i], base, base>>
             /\ base <= tEval[u + i] /\ tEval[u + i] <= later
  <2>1. i \in 1..k + Len(s) /\ i - k \in 1..m - n /\ n + (i - k) = u + i /\ u + i \in n + 1..m
    BY <1>1, <1>2, <1>6, <1>7, <1>9, SMT
  <2>2. r[i] = s[i - k]
    BY <1>5, <1>9, <2>1, Zenon
  <2>3. s[i - k] = <<tEval[u + i], base, base>>
    BY <1>3, <2>1, Zenon
  <2>4. QED
    BY <2>1, <2>2, <2>3, Zenon
<1>10. \A i \in 1..Len(r) :
        /\ r[i][1] = tEval[u + i] /\ r[i][1] <= later
        /\ r[i][2] = r[i][3] /\ r[i][2] <= r[i][1]
  <2> SUFFICES ASSUME NEW i \in 1..Len(r)
               PROVE  /\ r[i][1] = tEval[u + i] /\ r[i][1] <= later
                      /\ r[i][2] = r[i][3] /\ r[i][2] <= r[i][1]
    OBVIOUS
  <2>1. CASE i <= k
    BY <1>8, <2>1, Zenon
  <2>2. CASE ~(i <= k)
    <3>1. r[i] = <<tEval[u + i], base, base>> /\ base <= tEval[u + i] /\ tEval[u + i] <= later
      BY <1>9, <2>2, Zenon
    <3>2. r[i][1] = tEval[u + i] /\ r[i][2] = base /\ r[i][3] = base
      BY <3>1, SMT
    <3>3. QED
      BY <3>1, <3>2, Zenon
  <2>3. QED
    BY <2>1, <2>2, Zenon
<1>11. m \in 0..Len(tEval)
  BY <1>2, SMT
<1>12. Published(r, m, later)
  BY <1>5, <1>7, <1>10, <1>11, Zenon DEF Published, T, u
<1>13. QED
  BY <1>12, Zenon DEF r, s

\* What was published by a time is published by every later one.
LEMMA EmitLater ==
  ASSUME Sorted(tEval), NEW o, NEW n, NEW time \in Int, Published(o, n, time),
         NEW later \in Int, time <= later
  PROVE  Published(o, n, later)
<1>1. Len(tEval) \in Nat /\ Upto(tEval, -1) \in Nat
      /\ \A i \in 1..Len(tEval) : tEval[i] \in Int
  BY UptoFacts, SMT
<1>2. Len(o) \in Nat
  BY LenProperties, Zenon DEF Published
<1>3. \A i \in 1..Len(o) : o[i][1] <= later
  <2> SUFFICES ASSUME NEW i \in 1..Len(o) PROVE o[i][1] <= later
    OBVIOUS
  <2>1. Upto(tEval, -1) + i \in 1..Len(tEval)
    <3>1. n \in 0..Len(tEval) /\ Upto(tEval, -1) + Len(o) = n
      BY Zenon DEF Published
    <3>2. QED
      BY <1>1, <1>2, <3>1, SMT
  <2>2. o[i][1] = tEval[Upto(tEval, -1) + i] /\ o[i][1] <= time
    BY Zenon DEF Published
  <2>3. QED
    BY <1>1, <2>1, <2>2, SMT
<1>4. QED
  BY <1>3, Zenon DEF Published
-----------------------------------------------------------------------------
(* What a leg can report. *)

Frame ==
  /\ Sorted(tEval) /\ sky \in [0..Span -> BOOLEAN] /\ side \in BOOLEAN
  /\ lastRoot # None => lastRoot \in 0..Span /\ Side(lastRoot) = side

LEMMA ScanFacts ==
  ASSUME NEW p \in Int, NEW q \in Int, p < q
  PROVE  ScanFrom(p, q) \in p..q /\ (p # lastRoot => ScanFrom(p, q) = p)
BY EclipseAssumption, SMT DEF ScanFrom, Towards, Least

\* A leg that gets anywhere starts on the side it is frozen to.
LEMMA Origin ==
  ASSUME Frame, NEW a \in 0..Span, NEW cap \in Nat,
         NEW p \in Int, Reaches(a, p, side, cap), NEW q \in Int, p < q, Scannable(p, q, side)
  PROVE  Side(a) = side
<1>1. a \in Int /\ a # None
  BY EclipseAssumption, SMT DEF None
<1>2. ASSUME NEW y \in Int, a < y, Scannable(a, y, side)
      PROVE  Side(a) = side
  <2>1. CASE a = lastRoot
    BY <1>1, <2>1, Zenon DEF Frame
  <2>2. CASE a # lastRoot
    BY <1>1, <1>2, <2>2, ScanFacts, Zenon DEF Scannable
  <2>3. QED
    BY <2>1, <2>2, Zenon
<1>3. CASE p = a
  BY <1>2, <1>3, Zenon
<1>4. CASE p # a
  <2>1. PICK y \in a + 1..Least(a + cap, p) : Quiet(a, y, side)
    BY <1>4, Zenon DEF Reaches
  <2>2. y \in Int /\ a < y
    BY <1>1, SMT DEF Least
  <2>3. QED
    BY <1>2, <2>1, <2>2, Zenon DEF Quiet
<1>5. QED
  BY <1>3, <1>4, Zenon

IsCrossing(leg, a, b) ==
  /\ leg.old \in a..b /\ leg.new \in a..b /\ leg.at \in Int
  /\ leg.old <= leg.at /\ leg.at < leg.new
  /\ Side(leg.at) = side /\ Side(leg.at + 1) # side /\ Side(a) = side

LEMMA LegFacts ==
  ASSUME Frame, NEW a \in 0..Span, NEW b \in a..Span, NEW cap \in Nat,
         NEW leg \in Legs(a, b, side, cap)
  PROVE  /\ leg.saw \in {"error", "failed", "success", "invalid", "crossing", "perturb", "terminal"}
         /\ leg.saw = "crossing" => IsCrossing(leg, a, b)
         /\ leg.saw = "perturb" => leg.at \in a..b
<1> DEFINE steps == Steps(a, b, side, cap)
<1>1. \/ leg = Report("error", a, a, None)
      \/ \E p \in Stops(a, b, side, cap) : leg = Report("failed", p, p, None)
      \/ leg = Report("success", b, b, None)
      \/ \E pq \in steps : leg = Report("invalid", pq[1], pq[2], None)
      \/ \E pq \in steps : leg \in Crossings(pq[1], pq[2], side)
      \/ \E pq \in steps : leg \in Events(pq[1], pq[2], side)
  <2> DEFINE failed == {Report("failed", p, p, None) : p \in Stops(a, b, side, cap)}
  <2> DEFINE success == {Report("success", b, b, None) : p \in Stops(a, b, side, cap) \intersect {b}}
  <2> DEFINE invalid == {Report("invalid", pq[1], pq[2], None) : pq \in {pq \in steps : Side(pq[2]) = side}}
  <2> DEFINE crossing == UNION {Crossings(pq[1], pq[2], side) : pq \in steps}
  <2> DEFINE event == UNION {Events(pq[1], pq[2], side) : pq \in steps}
  <2>1. Legs(a, b, side, cap) = {Report("error", a, a, None)} \union failed \union success
                                  \union invalid \union crossing \union event
    BY DEF Legs
  <2> HIDE DEF failed, success, invalid, crossing, event, steps
  <2>2. \/ leg = Report("error", a, a, None) \/ leg \in failed \/ leg \in success
        \/ leg \in invalid \/ leg \in crossing \/ leg \in event
    BY <2>1, Zenon
  <2>3. leg \in failed => \E p \in Stops(a, b, side, cap) : leg = Report("failed", p, p, None)
    BY Zenon DEF failed
  <2>4. leg \in success => leg = Report("success", b, b, None)
    BY Zenon DEF success
  <2>5. leg \in invalid => \E pq \in steps : leg = Report("invalid", pq[1], pq[2], None)
    BY Zenon DEF invalid
  <2>6. leg \in crossing => \E pq \in steps : leg \in Crossings(pq[1], pq[2], side)
    BY Zenon DEF crossing
  <2>7. leg \in event => \E pq \in steps : leg \in Events(pq[1], pq[2], side)
    BY Zenon DEF event
  <2>8. QED
    BY <2>2, <2>3, <2>4, <2>5, <2>6, <2>7, Zenon
<1>2. \A pq \in steps : /\ pq[1] \in a..b /\ pq[2] \in a + 1..b /\ pq[1] < pq[2]
                        /\ Reaches(a, pq[1], side, cap) /\ Scannable(pq[1], pq[2], side)
  BY SMT DEF Steps, Stops
<1> HIDE DEF steps
<1>3. a \in Int /\ b \in Int /\ 0 <= a /\ b <= Span /\ Span \in Nat
  BY EclipseAssumption, SMT
<1>4. CASE leg = Report("error", a, a, None) \/ leg = Report("success", b, b, None)
           \/ (\E p \in Stops(a, b, side, cap) : leg = Report("failed", p, p, None))
           \/ (\E pq \in steps : leg = Report("invalid", pq[1], pq[2], None))
  BY <1>4, SMT DEF Report
<1>5. CASE \E pq \in steps : leg \in Crossings(pq[1], pq[2], side)
  <2>0. PICK pq \in steps : leg \in Crossings(pq[1], pq[2], side)
    BY <1>5, Zenon
  <2>1. PICK c \in Seen(pq[1], pq[2], side) : leg = Report("crossing", pq[1], pq[2], c)
    BY <2>0, Zenon DEF Crossings
  <2>2. /\ leg.saw = "crossing" /\ leg.old = pq[1] /\ leg.new = pq[2] /\ leg.at = c
    BY <2>1, Zenon DEF Report
  <2>3. /\ pq[1] \in a..b /\ pq[2] \in a + 1..b /\ pq[1] < pq[2]
        /\ Reaches(a, pq[1], side, cap) /\ Scannable(pq[1], pq[2], side)
    BY <1>2, Zenon
  <2>4. pq[1] \in Int /\ pq[2] \in Int /\ pq[2] \in a..b
    BY <1>3, <2>3, SMT
  <2>5. Side(a) = side
    BY <2>3, <2>4, Origin, Zenon
  <2>6. ScanFrom(pq[1], pq[2]) \in pq[1]..pq[2]
    BY <2>3, <2>4, ScanFacts, Zenon
  <2>7. c \in ScanFrom(pq[1], pq[2])..pq[2] - 1 /\ Side(c) = side /\ Side(c + 1) # side
    BY Zenon DEF Seen
  <2>8. c \in Int /\ pq[1] <= c /\ c < pq[2]
    BY <2>4, <2>6, <2>7, SMT
  <2>9. QED
    BY <2>2, <2>3, <2>4, <2>5, <2>7, <2>8, Zenon DEF IsCrossing
<1>6. CASE \E pq \in steps : leg \in Events(pq[1], pq[2], side)
  <2>0. PICK pq \in steps : leg \in Events(pq[1], pq[2], side)
    BY <1>6, Zenon
  <2>1. PICK kind \in {"perturb", "terminal"}, e \in pq[1]..pq[2] :
          leg = Report(kind, pq[1], pq[2], e)
    BY <2>0, SMT DEF Events
  <2>2. leg.saw = kind /\ leg.at = e
    BY <2>1, Zenon DEF Report
  <2>3. pq[1] \in a..b /\ pq[2] \in a + 1..b
    BY <1>2, Zenon
  <2>4. e \in a..b
    BY <1>3, <2>3, SMT
  <2>5. QED
    BY <2>2, <2>4, Zenon
<1>7. QED
  BY <1>1, <1>4, <1>5, <1>6, Zenon
-----------------------------------------------------------------------------
(* The invariant, by the place in the loop.                                  *)

AtHead(o, n, time, k) ==
  /\ k <= time /\ Published(o, n, time)
  /\ IF k = 0 THEN time = 0 /\ n = Upto(tEval, -1) ELSE n = Upto(tEval, time)

AtRefine(o, n, end, time, k, leg) ==
  /\ k \in 1..time + 1 /\ Published(o, n, time)
  /\ n <= Upto(tEval, time) /\ \A i \in n + 1..Len(tEval) : time <= tEval[i]
  /\ leg.old \in time..Span /\ leg.new \in time..Span /\ leg.old < leg.new
  /\ end \in Upto(tEval, leg.new)..Len(tEval)

AtProof(o, n, end, time, k, leg, before) ==
  /\ k \in 1..time + 1 /\ Published(o, n, time) /\ n = Upto(tEval, time)
  /\ leg.at \in Int /\ leg.new \in time..Span /\ before \in time..leg.at /\ leg.at < leg.new
  /\ end \in Upto(tEval, leg.new)..Len(tEval)

AtEnd(o, how) ==
  /\ Published(o, Upto(tEval, -1) + Len(o), Span)
  /\ how = "Success" => Upto(tEval, -1) + Len(o) = Upto(tEval, Span)

IInv ==
  /\ Frame /\ currT \in 0..Span /\ currEquinoc = currT /\ passes \in Nat
  /\ phase \in Phases /\ (phase # "done" => ending = "none")
  /\ phase = "head" => AtHead(out, evalIndex, currT, passes)
  /\ phase = "refine" => AtRefine(out, publicStart, publicEnd, currT, passes, bracket)
  /\ phase \in {"proof", "window"} =>
       /\ AtProof(out, prePublic, publicEnd, currT, passes, bracket, anchor)
       /\ evalIndex = prePublic
  /\ phase = "done" => AtEnd(out, ending)

\* While the request does not change, what holds of the next values holds next.
LEMMA NextPlace ==
  ASSUME UNCHANGED request
  PROVE  /\ AtHead(out', evalIndex', currT', passes') => AtHead(out, evalIndex, currT, passes)'
         /\ AtRefine(out', publicStart', publicEnd', currT', passes', bracket') =>
              AtRefine(out, publicStart, publicEnd, currT, passes, bracket)'
         /\ AtProof(out', prePublic', publicEnd', currT', passes', bracket', anchor') =>
              AtProof(out, prePublic, publicEnd, currT, passes, bracket, anchor)'
         /\ AtEnd(out', ending') => AtEnd(out, ending)'
<1>1. tEval' = tEval
  BY Zenon DEF request
<1>2. QED
  BY <1>1, Zenon DEF AtHead, AtRefine, AtProof, AtEnd, Published

LEMMA NextFrame ==
  ASSUME Frame, UNCHANGED request, side' = side, lastRoot' \in {lastRoot, None}
  PROVE  Frame'
<1>1. tEval' = tEval /\ sky' = sky
  BY Zenon DEF request
<1>2. QED
  BY <1>1, Zenon DEF Frame, Side
-----------------------------------------------------------------------------
(* complete_non_eclipse_segment, wherever it is called.                      *)

\* The loop goes on from a later time, with what lies up to it published.
LEMMA HeadAgain ==
  ASSUME Frame', UNCHANGED request, ending = "none", passes' \in Nat \ {0},
         phase' = "head", ending' = ending,
         currT' \in 0..Span, currEquinoc' = currT', passes' <= currT',
         evalIndex' = Upto(tEval, currT'), Published(out', evalIndex', currT')
  PROVE  IInv'
<1>1. AtHead(out, evalIndex, currT, passes)'
  <2>1. AtHead(out', evalIndex', currT', passes')
    BY SMT DEF AtHead
  <2>2. QED
    BY <2>1, NextPlace, Zenon
<1>2. passes' \in Nat /\ phase' \in Phases
  BY SMT DEF Phases
<1>3. phase' # "refine" /\ phase' \notin {"proof", "window"} /\ phase' # "done"
  BY SMT
<1>4. QED
  BY <1>1, <1>2, <1>3, Zenon DEF IInv

LEMMA Ends ==
  ASSUME Frame, UNCHANGED request, passes' \in Nat,
         side' = side, lastRoot' \in {lastRoot, None}, phase' = "done",
         currT' \in 0..Span, currEquinoc' = currT',
         NEW n, Published(out', n, Span), ending' = "Success" => n = Upto(tEval, Span)
  PROVE  IInv'
<1>1. Frame'
  BY NextFrame, Zenon
<1>2. AtEnd(out, ending)'
  <2>1. AtEnd(out', ending')
    BY Zenon DEF AtEnd, Published
  <2>2. QED
    BY <2>1, NextPlace, Zenon
<1>3. phase' \in Phases
  BY SMT DEF Phases
<1>4. phase' # "refine" /\ phase' \notin {"proof", "window"} /\ phase' # "head"
  BY SMT
<1>5. QED
  BY <1>1, <1>2, <1>3, <1>4, Zenon DEF IInv

LEMMA CompleteKeeps ==
  ASSUME Frame, UNCHANGED request, ending = "none", passes' \in Nat \ {0},
         NEW base \in 0..Span, passes' <= base + 1, NEW time \in base..Span,
         NEW soFar, NEW from, Published(soFar, from, time),
         NEW to \in from..Len(tEval), \A i \in from + 1..to : base <= tEval[i],
         NEW leg, NEW end, NEW index,
         leg.saw = "perturb" => leg.at \in time..Span /\ Upto(tEval, leg.at) \in from..to,
         leg.saw = "success" =>
           end \in time..Span /\ base < end /\ to = Upto(tEval, end) /\ index = to,
         Complete(leg, from, to, end, base, base, index, soFar)
  PROVE  IInv'
<1>1. side' = side
  BY Zenon DEF Complete
<1>2. /\ Span \in Nat /\ base \in Int /\ time \in Int /\ Span \in Int /\ base <= time /\ time <= Span
      /\ 0 <= base /\ Sorted(tEval) /\ Len(tEval) \in Nat
  BY EclipseAssumption, UptoFacts, SMT DEF Frame
<1>3. from \in 0..Len(tEval) /\ from \in Nat /\ to \in Nat /\ from <= to /\ to <= Len(tEval)
  BY <1>2, SMT DEF Published
<1>4. ASSUME NEW later \in Int, time <= later, later <= Span, NEW m \in from..to, m = Upto(tEval, later)
      PROVE  Published(soFar \o Samples(from, m - from, base, base), m, later)
  <2>1. m \in from..Len(tEval)
    BY <1>3, SMT
  <2>2. \A i \in from + 1..m : base <= tEval[i] /\ tEval[i] <= later
    <3> SUFFICES ASSUME NEW i \in from + 1..m PROVE base <= tEval[i] /\ tEval[i] <= later
      OBVIOUS
    <3>1. i \in from + 1..to /\ i \in 1..Len(tEval) /\ i <= m
      BY <1>3, SMT
    <3>2. QED
      BY <1>2, <1>4, <3>1, UptoFacts, Zenon
  <2>3. QED
    BY <1>2, <1>4, <2>1, <2>2, Emit, Zenon
<1>5. CASE phase' = "done" /\ Rebase(base, base) /\ out' = soFar /\ UNCHANGED lastRoot /\ ending' # "Success"
  <2>1. Published(out', from, Span)
    BY <1>2, <1>5, EmitLater, Zenon
  <2>2. currT' \in 0..Span /\ currEquinoc' = currT' /\ passes' \in Nat /\ lastRoot' \in {lastRoot, None}
    BY <1>5, Zenon DEF Rebase
  <2>3. QED
    BY <1>1, <1>5, <2>1, <2>2, Ends, Zenon
<1>6. CASE leg.saw = "perturb"
  <2> DEFINE m == Upto(tEval, leg.at)
  <2> DEFINE count == CountUpTo(from, to, leg.at)
  <2>1. leg.at \in Int /\ time <= leg.at /\ leg.at <= Span /\ m \in from..to
    BY <1>2, <1>6, SMT
  <2>2. from + count = m /\ count = m - from
    <3>1. count = CountIn(tEval, from, to, leg.at)
      BY Zenon DEF CountUpTo, CountIn
    <3>2. from + CountIn(tEval, from, to, leg.at) =
             IF m <= from THEN from ELSE IF m >= to THEN to ELSE m
      BY <1>2, <1>3, <2>1, CountIsUpto, Zenon
    <3>3. CountIn(tEval, from, to, leg.at) \in 0..to - from
      BY <1>2, <1>3, <2>1, CountFacts, Zenon
    <3>4. QED
      BY <1>3, <2>1, <3>1, <3>2, <3>3, SMT
  <2>3. Published(soFar \o Samples(from, count, base, base), m, leg.at)
    BY <1>4, <2>1, <2>2, Zenon
  <2>4. CASE Moved(leg, base) /\ phase' = "head"
    <3>1. /\ ending' = ending /\ lastRoot' = None /\ currT' = leg.at /\ currEquinoc' = leg.at
          /\ out' = soFar \o Samples(from, count, base, base) /\ evalIndex' = from + count
      BY <1>6, <2>4, SMT DEF Complete, Rebase, AfterEvent, RootAfterRebase, Return
    <3>2. leg.at \in 0..Span /\ passes' <= leg.at
      BY <1>2, <2>1, <2>4, SMT DEF Moved
    <3>3. Frame'
      BY <1>1, <3>1, NextFrame, Zenon
    <3>4. QED
      BY <2>2, <2>3, <2>4, <3>1, <3>2, <3>3, HeadAgain, Zenon
  <2>5. CASE ~(Moved(leg, base) /\ phase' = "head")
    <3>1. phase' = "done" /\ Rebase(base, base) /\ out' = soFar /\ UNCHANGED lastRoot /\ ending' # "Success"
      BY <1>6, <2>5, SMT DEF Complete, Return
    <3>2. QED
      BY <1>5, <3>1, Zenon
  <2>6. QED
    BY <2>4, <2>5, Zenon
<1>7. CASE leg.saw = "success"
  <2>1. /\ end \in Int /\ time <= end /\ end <= Span /\ base < end
        /\ to = Upto(tEval, end) /\ index = to /\ to \in from..to
    BY <1>2, <1>3, <1>7, SMT
  <2>2. out' = soFar \o Samples(from, to - from, base, base) /\ evalIndex' = to
    BY <1>7, <2>1, SMT DEF Complete
  <2>3. Published(out', to, end)
    BY <1>4, <2>1, <2>2, Zenon
  <2>4. CASE end = Span
    <3>1. phase' = "done" /\ ending' = "Success" /\ currT' = base /\ currEquinoc' = base
          /\ lastRoot' = lastRoot
      BY <1>7, <2>4, SMT DEF Complete, Return, Rebase
    <3>2. QED
      BY <1>1, <2>1, <2>3, <2>4, <3>1, Ends, SMT
  <2>5. CASE end # Span
    <3>1. phase' = "head" /\ ending' = ending /\ currT' = end /\ currEquinoc' = end
          /\ lastRoot' = None
      BY <1>7, <2>5, SMT DEF Complete, Rebase, RootAfterRebase
    <3>2. end \in 0..Span /\ passes' <= end
      BY <1>2, <2>1, SMT
    <3>3. Frame'
      BY <1>1, <3>1, NextFrame, Zenon
    <3>4. QED
      BY <2>1, <2>2, <2>3, <3>1, <3>2, <3>3, HeadAgain, Zenon
  <2>6. QED
    BY <2>4, <2>5, Zenon
<1>8. CASE leg.saw \in {"invalid", "terminal", "failed"}
  <2>1. phase' = "done" /\ Rebase(base, base) /\ out' = soFar /\ UNCHANGED lastRoot /\ ending' # "Success"
    BY <1>8, SMT DEF Complete, Return
  <2>2. QED
    BY <1>5, <2>1, Zenon
<1>9. leg.saw \in {"invalid", "terminal", "failed", "perturb", "success"}
  BY SMT DEF Complete
<1>10. QED
  BY <1>6, <1>7, <1>8, <1>9, Zenon
-----------------------------------------------------------------------------
(* The actions.                                                              *)

LEMMA Positions ==
  ASSUME IInv
  PROVE  /\ Span \in Nat /\ currT \in Int /\ 0 <= currT /\ currT <= Span
         /\ Sorted(tEval) /\ Len(tEval) \in Nat
BY EclipseAssumption, UptoFacts, SMT DEF IInv, Frame

\* Nothing more is published when a call is refused.
LEMMA FailKeeps ==
  ASSUME IInv, phase # "done", UNCHANGED request, passes' \in Nat, UNCHANGED progress,
         phase' = "done", ending' # "Success"
  PROVE  IInv'
<1>1. \E n : Published(out, n, currT)
  BY SMT DEF IInv, Phases, AtHead, AtRefine, AtProof
<1>2. PICK n : Published(out, n, currT)
  BY <1>1, Zenon
<1>3. Published(out, n, Span)
  <2>1. Span \in Int /\ currT \in Int /\ currT <= Span
    BY Positions, SMT
  <2>2. QED
    BY <1>2, <2>1, Positions, EmitLater, Zenon
<1>4. Frame /\ currT \in 0..Span /\ currEquinoc = currT
  BY Zenon DEF IInv
<1>5. QED
  BY <1>3, <1>4, Ends, SMT DEF progress

\* The part of a count that a range begins after.
LEMMA CountOn ==
  ASSUME Sorted(tEval), NEW time \in Int, NEW from \in 0..Len(tEval), NEW to \in from..Len(tEval),
         from <= Upto(tEval, time), Upto(tEval, time) <= to
  PROVE  /\ from + CountUpTo(from, to, time) = Upto(tEval, time)
         /\ CountUpTo(from, to, time) = Upto(tEval, time) - from
<1>1. CountUpTo(from, to, time) = CountIn(tEval, from, to, time)
  BY Zenon DEF CountUpTo, CountIn
<1>2. from + CountIn(tEval, from, to, time) =
         IF Upto(tEval, time) <= from THEN from
         ELSE IF Upto(tEval, time) >= to THEN to ELSE Upto(tEval, time)
  BY CountIsUpto, Zenon
<1>3. CountIn(tEval, from, to, time) \in 0..to - from
  BY CountFacts, Zenon
<1>4. Upto(tEval, time) \in Int /\ Len(tEval) \in Nat
  BY UptoFacts, SMT
<1>5. QED
  BY <1>1, <1>2, <1>3, <1>4, SMT

LEMMA MainFacts ==
  ASSUME IInv, phase = "head", currT < Span
  PROVE  /\ SegmentEnd \in currT..Span /\ currT < SegmentEnd /\ SegmentEnd \in Int
         /\ NextPublic = Upto(tEval, SegmentEnd)
         /\ evalIndex \in 0..Len(tEval) /\ evalIndex <= Upto(tEval, currT)
         /\ NextPublic \in evalIndex..Len(tEval)
         /\ \A i \in evalIndex + 1..Len(tEval) : currT <= tEval[i]
<1>1. AtHead(out, evalIndex, currT, passes)
  BY Zenon DEF IInv
<1>2. SegmentEnd \in currT..Span /\ currT < SegmentEnd /\ SegmentEnd \in Int
  BY Positions, EclipseAssumption, SMT DEF SegmentEnd
<1>3. evalIndex \in 0..Len(tEval)
  BY <1>1, Zenon DEF AtHead, Published
<1>4. evalIndex <= Upto(tEval, currT) /\ \A i \in evalIndex + 1..Len(tEval) : currT <= tEval[i]
  <2>1. CASE passes = 0
    <3>1. currT = 0 /\ evalIndex = Upto(tEval, -1)
      BY <1>1, <2>1, Zenon DEF AtHead
    <3>2. -1 \in Int /\ 0 \in Int /\ -1 <= 0
      BY SMT
    <3>3. Upto(tEval, -1) <= Upto(tEval, 0)
      BY <3>2, Positions, UptoGrows, Zenon
    <3>4. \A i \in 1..Len(tEval) : tEval[i] \in Int /\ (tEval[i] <= -1 <=> i <= Upto(tEval, -1))
      BY <3>2, Positions, UptoFacts, Zenon
    <3>5. \A i \in evalIndex + 1..Len(tEval) : i \in 1..Len(tEval) /\ ~(i <= evalIndex)
      BY <1>3, Positions, SMT
    <3>6. QED
      BY <3>1, <3>3, <3>4, <3>5, SMT
  <2>2. CASE passes # 0
    <3>1. evalIndex = Upto(tEval, currT)
      BY <1>1, <2>2, Zenon DEF AtHead
    <3>2. \A i \in 1..Len(tEval) : tEval[i] \in Int /\ (tEval[i] <= currT <=> i <= Upto(tEval, currT))
      BY Positions, UptoFacts, Zenon
    <3>3. \A i \in evalIndex + 1..Len(tEval) : i \in 1..Len(tEval) /\ ~(i <= evalIndex)
      BY <1>3, Positions, SMT
    <3>4. evalIndex \in Int
      BY <1>3, Positions, SMT
    <3>5. QED
      BY <3>1, <3>2, <3>3, <3>4, Positions, SMT
  <2>3. QED
    BY <2>1, <2>2, Zenon
<1>5. Upto(tEval, currT) <= Upto(tEval, SegmentEnd) /\ Upto(tEval, SegmentEnd) \in 0..Len(tEval)
  <2>1. currT <= SegmentEnd
    BY <1>2, Positions, SMT
  <2>2. Upto(tEval, SegmentEnd) \in 0..Len(tEval)
    BY <1>2, Positions, UptoFacts, Zenon
  <2>3. QED
    BY <1>2, <2>1, <2>2, Positions, UptoGrows, Zenon
<1>6. evalIndex <= Upto(tEval, SegmentEnd)
  <2>1. Upto(tEval, currT) \in Int
    BY Positions, UptoFacts, SMT
  <2>2. QED
    BY <1>3, <1>4, <1>5, <2>1, Positions, SMT
<1>7. NextPublic = Upto(tEval, SegmentEnd)
  <2>1. Len(tEval) \in evalIndex..Len(tEval) /\ Upto(tEval, SegmentEnd) <= Len(tEval)
    BY <1>3, <1>5, Positions, SMT
  <2>2. QED
    BY <1>2, <1>3, <1>6, <2>1, Positions, CountOn, Zenon DEF NextPublic
<1>8. NextPublic \in evalIndex..Len(tEval)
  BY <1>3, <1>5, <1>6, <1>7, Positions, SMT
<1>9. QED
  BY <1>2, <1>3, <1>4, <1>7, <1>8, Zenon

LEMMA MainKeeps ==
  ASSUME IInv, phase = "head", NEW leg \in MainLegs, Main(leg)
  PROVE  IInv'
<1>1. /\ currT < Span /\ passes' = passes + 1 /\ UNCHANGED request
      /\ publicStart' = evalIndex /\ publicEnd' = NextPublic
  BY Zenon DEF Main
<1>2. /\ Frame /\ currT \in 0..Span /\ currEquinoc = currT /\ passes \in Nat /\ ending = "none"
      /\ AtHead(out, evalIndex, currT, passes)
  BY Zenon DEF IInv
<1>3. passes' \in Nat \ {0} /\ passes' \in 1..currT + 1 /\ passes' <= currT + 1
  BY <1>1, <1>2, Positions, SMT DEF AtHead
<1>4. Published(out, evalIndex, currT)
  BY <1>2, Zenon DEF AtHead
<1>5. SegmentEnd \in currT..Span /\ Span \in Nat
  BY <1>1, MainFacts, Positions, Zenon
<1>6. /\ leg.saw = "crossing" => IsCrossing(leg, currT, SegmentEnd)
      /\ leg.saw = "perturb" => leg.at \in currT..SegmentEnd
  BY <1>2, <1>5, LegFacts, Zenon DEF MainLegs
<1>7. CASE leg.saw = "error" /\ Fail
  BY <1>1, <1>3, <1>7, FailKeeps, SMT DEF Fail, Return
<1>8. CASE leg.saw = "crossing" /\ phase' = "refine" /\ bracket' = leg
           /\ UNCHANGED <<ending, currT, currEquinoc, side, lastRoot, out>>
  <2>1. IsCrossing(leg, currT, SegmentEnd)
    BY <1>6, <1>8, Zenon
  <2>2. leg.old \in currT..Span /\ leg.new \in currT..Span /\ leg.old < leg.new
        /\ leg.new \in Int /\ leg.new <= SegmentEnd
    BY <1>5, <2>1, Positions, SMT DEF IsCrossing
  <2>3. NextPublic \in Upto(tEval, leg.new)..Len(tEval)
    <3>1. Upto(tEval, leg.new) <= Upto(tEval, SegmentEnd)
      BY <1>1, <2>2, Positions, MainFacts, UptoGrows, Zenon
    <3>2. /\ Upto(tEval, leg.new) \in Int
          /\ Upto(tEval, SegmentEnd) \in Int /\ Upto(tEval, SegmentEnd) <= Len(tEval)
          /\ NextPublic = Upto(tEval, SegmentEnd)
      BY <1>1, <2>2, Positions, MainFacts, UptoRange, Zenon
    <3>3. QED
      BY <3>1, <3>2, Positions, SMT
  <2>4. AtRefine(out', publicStart', publicEnd', currT', passes', bracket')
    BY <1>1, <1>3, <1>4, <1>8, <2>2, <2>3, MainFacts, Zenon DEF AtRefine
  <2>5. AtRefine(out, publicStart, publicEnd, currT, passes, bracket)'
    BY <1>1, <2>4, NextPlace, Zenon
  <2>6. Frame'
    BY <1>1, <1>2, <1>8, NextFrame, SMT
  <2>7. phase' \in Phases /\ phase' # "head" /\ phase' \notin {"proof", "window"} /\ phase' # "done"
    BY <1>8, SMT DEF Phases
  <2>8. currT' \in 0..Span /\ currEquinoc' = currT' /\ passes' \in Nat /\ ending' = "none"
    BY <1>2, <1>3, <1>8, SMT
  <2>9. QED
    BY <2>5, <2>6, <2>7, <2>8, Zenon DEF IInv
<1>9. CASE Complete(leg, evalIndex, NextPublic, SegmentEnd, currT, currT, NextPublic, out)
  <2>1. currT \in currT..Span
    BY Positions, SMT
  <2>2. \A i \in evalIndex + 1..NextPublic : currT <= tEval[i]
    BY <1>1, MainFacts, Positions, SMT
  <2>3. leg.saw = "perturb" => leg.at \in currT..Span /\ Upto(tEval, leg.at) \in evalIndex..NextPublic
    <3> SUFFICES ASSUME leg.saw = "perturb"
                 PROVE  leg.at \in currT..Span /\ Upto(tEval, leg.at) \in evalIndex..NextPublic
      OBVIOUS
    <3>1. leg.at \in currT..Span /\ leg.at \in Int /\ currT <= leg.at /\ leg.at <= SegmentEnd
      BY <1>5, <1>6, Positions, SMT
    <3>2. Upto(tEval, currT) <= Upto(tEval, leg.at) /\ Upto(tEval, leg.at) <= Upto(tEval, SegmentEnd)
      BY <1>1, <3>1, MainFacts, Positions, UptoGrows, Zenon
    <3>3. Upto(tEval, leg.at) \in Int /\ Upto(tEval, currT) \in Int
      BY <3>1, Positions, UptoRange, Zenon
    <3>4. evalIndex \in Int /\ evalIndex <= Upto(tEval, currT) /\ NextPublic = Upto(tEval, SegmentEnd)
          /\ NextPublic \in Int
      BY <1>1, MainFacts, Positions, SMT
    <3>5. QED
      BY <3>1, <3>2, <3>3, <3>4, SMT
  <2>4. SegmentEnd \in currT..Span /\ currT < SegmentEnd /\ NextPublic = Upto(tEval, SegmentEnd)
        /\ NextPublic \in evalIndex..Len(tEval)
    BY <1>1, MainFacts, Zenon
  <2>5. QED
    BY <1>1, <1>2, <1>3, <1>4, <1>9, <2>1, <2>2, <2>3, <2>4, CompleteKeeps, Zenon
<1>10. QED
  BY <1>7, <1>8, <1>9, Zenon DEF Main
-----------------------------------------------------------------------------
LEMMA RefineFacts ==
  ASSUME IInv, phase = "refine"
  PROVE  /\ bracket.old \in Int /\ bracket.new \in Int
         /\ currT <= bracket.old /\ bracket.old < bracket.new /\ bracket.new <= Span
         /\ SourcePublic = Upto(tEval, bracket.old) /\ SourceEnd = Upto(tEval, bracket.new)
         /\ SourcePublic \in Nat /\ SourceEnd \in SourcePublic..Len(tEval) /\ SourceEnd <= publicEnd
         /\ publicEnd \in Nat /\ publicEnd <= Len(tEval)
         /\ Published(BeforeSource, SourcePublic, bracket.old)
         /\ \A i \in SourcePublic + 1..Len(tEval) : bracket.old <= tEval[i]
<1>1. AtRefine(out, publicStart, publicEnd, currT, passes, bracket)
  BY Zenon DEF IInv
<1>2. /\ bracket.old \in Int /\ bracket.new \in Int
      /\ currT <= bracket.old /\ bracket.old < bracket.new /\ bracket.new <= Span
  BY <1>1, Positions, SMT DEF AtRefine
<1>3. publicStart \in 0..Len(tEval) /\ Published(out, publicStart, currT)
  BY <1>1, Zenon DEF AtRefine, Published
<1>4. /\ Upto(tEval, currT) <= Upto(tEval, bracket.old)
      /\ Upto(tEval, bracket.old) <= Upto(tEval, bracket.new)
  <2>1. bracket.old <= bracket.new
    BY <1>2, SMT
  <2>2. QED
    BY <1>2, <2>1, Positions, UptoGrows, Zenon
<1>5. /\ Upto(tEval, currT) \in Int /\ Upto(tEval, bracket.old) \in Int
      /\ Upto(tEval, bracket.new) \in Int /\ 0 <= Upto(tEval, bracket.old)
      /\ Upto(tEval, bracket.new) <= Len(tEval)
  BY <1>2, Positions, UptoRange, Zenon
<1>6. publicStart <= Upto(tEval, currT) /\ publicEnd \in Upto(tEval, bracket.new)..Len(tEval)
  BY <1>1, Zenon DEF AtRefine
<1>7. publicEnd \in publicStart..Len(tEval) /\ publicEnd \in Nat /\ publicEnd <= Len(tEval)
      /\ publicStart <= Upto(tEval, bracket.old) /\ Upto(tEval, bracket.old) <= publicEnd
      /\ publicStart <= Upto(tEval, bracket.new) /\ Upto(tEval, bracket.new) <= publicEnd
  BY <1>3, <1>4, <1>5, <1>6, Positions, SMT
<1>8. /\ SourcePublic = Upto(tEval, bracket.old) /\ SourceEnd = Upto(tEval, bracket.new)
      /\ CountUpTo(publicStart, publicEnd, bracket.old) = Upto(tEval, bracket.old) - publicStart
  BY <1>2, <1>3, <1>7, Positions, CountOn, Zenon DEF SourcePublic, SourceEnd
<1>9. \A i \in SourcePublic + 1..Len(tEval) : bracket.old <= tEval[i]
  <2>1. \A i \in 1..Len(tEval) : tEval[i] \in Int /\ (tEval[i] <= bracket.old <=> i <= Upto(tEval, bracket.old))
    BY <1>2, Positions, UptoFacts, Zenon
  <2>2. QED
    BY <1>2, <1>5, <1>8, <2>1, Positions, SMT
<1>10. Published(BeforeSource, SourcePublic, bracket.old)
  <2>1. SourcePublic \in publicStart..Len(tEval)
    BY <1>5, <1>7, <1>8, SMT
  <2>2. \A i \in publicStart + 1..SourcePublic : currT <= tEval[i] /\ tEval[i] <= bracket.old
    <3> SUFFICES ASSUME NEW i \in publicStart + 1..SourcePublic
                 PROVE  currT <= tEval[i] /\ tEval[i] <= bracket.old
      OBVIOUS
    <3>1. i \in publicStart + 1..Len(tEval) /\ i \in 1..Len(tEval) /\ i <= Upto(tEval, bracket.old)
      BY <1>3, <1>5, <1>7, <1>8, <2>1, SMT
    <3>2. currT <= tEval[i]
      BY <1>1, <3>1, Zenon DEF AtRefine
    <3>3. tEval[i] <= bracket.old
      BY <1>2, <3>1, Positions, UptoFacts, Zenon
    <3>4. QED
      BY <3>2, <3>3, Zenon
  <2>3. Published(out \o Samples(publicStart, SourcePublic - publicStart, currT, currT),
                  SourcePublic, bracket.old)
    BY <1>2, <1>3, <2>1, <2>2, Positions, Emit, Zenon
  <2>4. QED
    BY <2>3, Zenon DEF BeforeSource
<1>11. SourcePublic \in Nat /\ SourceEnd \in SourcePublic..Len(tEval) /\ SourceEnd <= publicEnd
  BY <1>4, <1>5, <1>7, <1>8, Positions, SMT
<1>12. QED
  BY <1>2, <1>7, <1>8, <1>9, <1>10, <1>11, Zenon

LEMMA RefineKeeps ==
  ASSUME IInv, phase = "refine", NEW leg \in RefineLegs, Refine(leg)
  PROVE  IInv'
<1>1. UNCHANGED request /\ passes' = passes /\ publicStart' = publicStart /\ publicEnd' = publicEnd
  BY Zenon DEF Refine, public
<1>2. /\ Frame /\ currT \in 0..Span /\ passes \in Nat /\ ending = "none"
      /\ AtRefine(out, publicStart, publicEnd, currT, passes, bracket)
  BY Zenon DEF IInv
<1>3. passes' \in Nat \ {0} /\ passes \in 1..currT + 1 /\ passes' <= bracket.old + 1
  BY <1>1, <1>2, RefineFacts, Positions, SMT DEF AtRefine
<1>4. bracket.old \in 0..Span /\ bracket.new \in bracket.old..Span /\ FineStep \in Nat
  BY EclipseAssumption, RefineFacts, Positions, SMT
<1>5. /\ leg.saw = "crossing" => IsCrossing(leg, bracket.old, bracket.new)
      /\ leg.saw = "perturb" => leg.at \in bracket.old..bracket.new
  BY <1>2, <1>4, LegFacts, Zenon DEF RefineLegs
<1>6. CASE leg.saw \in {"error", "failed"}
  BY <1>1, <1>3, <1>6, FailKeeps, SMT DEF Refine, Fail, Return, Complete
<1>7. CASE leg.saw = "crossing"
  <2> DEFINE count == CountUpTo(SourcePublic, SourceEnd, leg.old)
  <2>1. /\ out' = BeforeSource \o Samples(SourcePublic, count, bracket.old, bracket.old)
        /\ prePublic' = SourcePublic + count /\ evalIndex' = SourcePublic + count
        /\ currT' = leg.old /\ currEquinoc' = leg.old
        /\ phase' = "proof" /\ bracket' = leg /\ anchor' = leg.at
        /\ UNCHANGED <<ending, side, lastRoot>>
    BY <1>7, SMT DEF Refine, Rebase, ReplayBase
  <2>2. IsCrossing(leg, bracket.old, bracket.new)
    BY <1>5, <1>7, Zenon
  <2>3. /\ leg.old \in Int /\ leg.new \in Int /\ leg.at \in Int
        /\ bracket.old <= leg.old /\ leg.old <= leg.at /\ leg.at < leg.new
        /\ leg.old <= bracket.new /\ leg.new <= bracket.new
    BY <1>4, <2>2, Positions, SMT DEF IsCrossing
  <2>4. /\ Upto(tEval, bracket.old) <= Upto(tEval, leg.old)
        /\ Upto(tEval, leg.old) <= Upto(tEval, bracket.new)
        /\ Upto(tEval, leg.new) <= Upto(tEval, bracket.new)
    BY <2>3, RefineFacts, Positions, UptoGrows, Zenon
  <2>5. /\ Upto(tEval, bracket.old) \in Int /\ Upto(tEval, bracket.new) \in Int
        /\ Upto(tEval, leg.old) \in Int /\ Upto(tEval, leg.new) \in Int
        /\ Upto(tEval, leg.old) <= Len(tEval)
    BY <2>3, RefineFacts, Positions, UptoRange, Zenon
  <2>6. SourcePublic \in 0..Len(tEval)
    BY RefineFacts, Zenon DEF Published
  <2>7. SourcePublic + count = Upto(tEval, leg.old) /\ count = Upto(tEval, leg.old) - SourcePublic
    <3>1. SourceEnd \in SourcePublic..Len(tEval) /\ SourcePublic <= Upto(tEval, leg.old)
          /\ Upto(tEval, leg.old) <= SourceEnd
      BY <2>4, RefineFacts, Zenon
    <3>2. QED
      BY <2>3, <2>6, <3>1, Positions, CountOn, Zenon
  <2>8. Published(out', Upto(tEval, leg.old), leg.old)
    <3>1. Upto(tEval, leg.old) \in SourcePublic..Len(tEval)
      BY <2>4, <2>5, RefineFacts, SMT
    <3>2. \A i \in SourcePublic + 1..Upto(tEval, leg.old) : bracket.old <= tEval[i] /\ tEval[i] <= leg.old
      <4> SUFFICES ASSUME NEW i \in SourcePublic + 1..Upto(tEval, leg.old)
                   PROVE  bracket.old <= tEval[i] /\ tEval[i] <= leg.old
        OBVIOUS
      <4>1. i \in SourcePublic + 1..Len(tEval) /\ i \in 1..Len(tEval) /\ i <= Upto(tEval, leg.old)
        BY <2>5, <2>6, RefineFacts, Positions, SMT
      <4>2. bracket.old <= tEval[i]
        BY <4>1, RefineFacts, Zenon
      <4>3. tEval[i] <= leg.old
        BY <2>3, <4>1, Positions, UptoFacts, Zenon
      <4>4. QED
        BY <4>2, <4>3, Zenon
    <3>3. Published(BeforeSource \o Samples(SourcePublic, Upto(tEval, leg.old) - SourcePublic,
                                            bracket.old, bracket.old),
                    Upto(tEval, leg.old), leg.old)
      BY <2>3, <3>1, <3>2, RefineFacts, Positions, Emit, Zenon
    <3>4. QED
      BY <2>1, <2>7, <3>3, Zenon
  <2>9. publicEnd \in Upto(tEval, leg.new)..Len(tEval)
    <3>1. SourceEnd = Upto(tEval, bracket.new) /\ SourceEnd <= publicEnd
          /\ publicEnd \in Nat /\ publicEnd <= Len(tEval)
      BY RefineFacts, Zenon
    <3>2. QED
      BY <2>4, <2>5, <3>1, Positions, SMT
  <2>10. AtProof(out', prePublic', publicEnd', currT', passes', bracket', anchor')
    <3>0. bracket.old \in Int /\ bracket.new \in Int /\ bracket.new <= Span /\ Span \in Nat
      BY RefineFacts, Positions, Zenon
    <3>1. passes' \in 1..leg.old + 1 /\ leg.new \in leg.old..Span /\ leg.at \in leg.old..leg.at
      BY <1>3, <2>3, <3>0, SMT
    <3>2. QED
      BY <1>1, <2>1, <2>3, <2>7, <2>8, <2>9, <3>1, Zenon DEF AtProof
  <2>11. AtProof(out, prePublic, publicEnd, currT, passes, bracket, anchor)'
    BY <1>1, <2>10, NextPlace, Zenon
  <2>12. Frame'
    BY <1>1, <1>2, <2>1, NextFrame, SMT
  <2>13. phase' \in Phases /\ phase' # "head" /\ phase' # "refine" /\ phase' # "done"
    BY <2>1, SMT DEF Phases
  <2>14. currT' \in 0..Span /\ currEquinoc' = currT' /\ passes' \in Nat /\ ending' = "none"
         /\ evalIndex' = prePublic'
    BY <1>2, <1>3, <2>1, <2>3, RefineFacts, Positions, SMTT(30)
  <2>15. QED
    BY <2>11, <2>12, <2>13, <2>14, Zenon DEF IInv
<1>8. CASE leg.saw \notin {"error", "failed", "crossing"}
  <2>1. Complete(leg, SourcePublic, SourceEnd, bracket.new, bracket.old, bracket.old,
                 SourceEnd, BeforeSource)
    BY <1>8, SMT DEF Refine, ReplayBase
  <2>2. bracket.old \in bracket.old..Span /\ bracket.new \in bracket.old..Span /\ bracket.old < bracket.new
    BY RefineFacts, Positions, SMT
  <2>3. \A i \in SourcePublic + 1..SourceEnd : bracket.old <= tEval[i]
    BY RefineFacts, Positions, SMT
  <2>4. leg.saw = "perturb" =>
          leg.at \in bracket.old..Span /\ Upto(tEval, leg.at) \in SourcePublic..SourceEnd
    <3> SUFFICES ASSUME leg.saw = "perturb"
                 PROVE  leg.at \in bracket.old..Span /\ Upto(tEval, leg.at) \in SourcePublic..SourceEnd
      OBVIOUS
    <3>1. leg.at \in bracket.old..Span /\ leg.at \in Int /\ bracket.old <= leg.at /\ leg.at <= bracket.new
      BY <1>5, RefineFacts, Positions, SMT
    <3>2. /\ Upto(tEval, bracket.old) <= Upto(tEval, leg.at)
          /\ Upto(tEval, leg.at) <= Upto(tEval, bracket.new)
      BY <3>1, RefineFacts, Positions, UptoGrows, Zenon
    <3>3. /\ Upto(tEval, leg.at) \in Int /\ Upto(tEval, bracket.old) \in Int
          /\ Upto(tEval, bracket.new) \in Int
      BY <3>1, RefineFacts, Positions, UptoRange, Zenon
    <3>4. SourcePublic = Upto(tEval, bracket.old) /\ SourceEnd = Upto(tEval, bracket.new)
      BY RefineFacts, Zenon
    <3>5. QED
      BY <3>1, <3>2, <3>3, <3>4, SMT
  <2>5. /\ Published(BeforeSource, SourcePublic, bracket.old)
        /\ SourceEnd \in SourcePublic..Len(tEval) /\ SourceEnd = Upto(tEval, bracket.new)
    BY RefineFacts, Zenon
  <2>6. QED
    BY <1>1, <1>2, <1>3, <1>4, <2>1, <2>2, <2>3, <2>4, <2>5, CompleteKeeps, Zenon
<1>9. QED
  BY <1>6, <1>7, <1>8, Zenon
-----------------------------------------------------------------------------
LEMMA ProofFacts ==
  ASSUME IInv, phase \in {"proof", "window"}
  PROVE  /\ anchor \in Int /\ bracket.at \in Int /\ bracket.new \in Int /\ bracket.new <= Span
         /\ anchor <= bracket.at /\ bracket.at < bracket.new
         /\ ProofPoint \in Int /\ currT <= ProofPoint /\ ProofPoint <= anchor
         /\ prePublic = Upto(tEval, currT) /\ prePublic \in 0..Len(tEval)
         /\ prePublic + ProofCount = Upto(tEval, ProofPoint)
         /\ ProofCount = Upto(tEval, ProofPoint) - prePublic
         /\ publicEnd \in Nat /\ publicEnd <= Len(tEval) /\ Upto(tEval, bracket.new) <= publicEnd
         /\ \A i \in prePublic + 1..Len(tEval) : currT <= tEval[i]
         /\ Published(out, prePublic, currT)
<1>1. AtProof(out, prePublic, publicEnd, currT, passes, bracket, anchor)
  BY Zenon DEF IInv
<1>2. /\ anchor \in Int /\ bracket.at \in Int /\ bracket.new \in Int /\ bracket.new <= Span
      /\ currT <= anchor /\ anchor <= bracket.at /\ bracket.at < bracket.new
  BY <1>1, Positions, SMT DEF AtProof
<1>3. ProofPoint \in Int /\ currT <= ProofPoint /\ ProofPoint <= anchor
  BY <1>2, Positions, EclipseAssumption, SMT DEF ProofPoint, Towards, Least, Greatest
<1>4. prePublic = Upto(tEval, currT) /\ Published(out, prePublic, currT) /\ prePublic \in 0..Len(tEval)
  BY <1>1, Zenon DEF AtProof, Published
<1>5. /\ Upto(tEval, currT) <= Upto(tEval, ProofPoint)
      /\ Upto(tEval, ProofPoint) <= Upto(tEval, bracket.new)
  <2>1. ProofPoint <= bracket.new
    BY <1>2, <1>3, SMT
  <2>2. QED
    BY <1>2, <1>3, <2>1, Positions, UptoGrows, Zenon
<1>6. /\ Upto(tEval, currT) \in Int /\ Upto(tEval, ProofPoint) \in Int
      /\ Upto(tEval, bracket.new) \in Int /\ 0 <= Upto(tEval, currT)
  BY <1>2, <1>3, Positions, UptoRange, Zenon
<1>7. publicEnd \in Upto(tEval, bracket.new)..Len(tEval)
  BY <1>1, Zenon DEF AtProof
<1>8. /\ publicEnd \in Nat /\ publicEnd <= Len(tEval) /\ Upto(tEval, bracket.new) <= publicEnd
      /\ publicEnd \in prePublic..Len(tEval) /\ prePublic <= Upto(tEval, ProofPoint)
      /\ Upto(tEval, ProofPoint) <= publicEnd
  BY <1>4, <1>5, <1>6, <1>7, Positions, SMT
<1>9. prePublic + ProofCount = Upto(tEval, ProofPoint) /\ ProofCount = Upto(tEval, ProofPoint) - prePublic
  <2>1. CASE anchor = currT
    BY <1>4, <1>6, <2>1, SMT DEF ProofCount, ProofPoint
  <2>2. CASE anchor # currT
    <3>1. /\ prePublic + CountUpTo(prePublic, publicEnd, ProofPoint) = Upto(tEval, ProofPoint)
          /\ CountUpTo(prePublic, publicEnd, ProofPoint) = Upto(tEval, ProofPoint) - prePublic
      BY <1>3, <1>4, <1>8, Positions, CountOn, Zenon
    <3>2. QED
      BY <2>2, <3>1, Zenon DEF ProofCount
  <2>3. QED
    BY <2>1, <2>2, Zenon
<1>10. \A i \in prePublic + 1..Len(tEval) : currT <= tEval[i]
  <2>1. \A i \in 1..Len(tEval) : tEval[i] \in Int /\ (tEval[i] <= currT <=> i <= Upto(tEval, currT))
    BY Positions, UptoFacts, Zenon
  <2>2. QED
    BY <1>4, <1>6, <2>1, Positions, SMT
<1>11. QED
  BY <1>2, <1>3, <1>4, <1>8, <1>9, <1>10, Zenon

LEMMA ProofFrame ==
  ASSUME IInv, phase \in {"proof", "window"}
  PROVE  /\ Frame /\ currT \in 0..Span /\ currEquinoc = currT /\ ending = "none"
         /\ evalIndex = prePublic /\ passes \in Nat \ {0} /\ passes <= currT + 1
         /\ AtProof(out, prePublic, publicEnd, currT, passes, bracket, anchor)
<1>1. /\ Frame /\ currT \in 0..Span /\ currEquinoc = currT /\ ending = "none"
      /\ evalIndex = prePublic
      /\ AtProof(out, prePublic, publicEnd, currT, passes, bracket, anchor)
  BY SMT DEF IInv
<1>2. QED
  BY <1>1, Positions, SMT DEF AtProof

\* A proof starts over, or has found nothing.
LEMMA ProofGoesOn ==
  ASSUME IInv, phase \in {"proof", "window"}, UNCHANGED request, UNCHANGED public,
         UNCHANGED progress, UNCHANGED <<bracket, prePublic, passes, ending>>,
         anchor' \in Int, currT <= anchor', anchor' <= anchor, phase' \in {"proof", "window"}
  PROVE  IInv'
<1>1. anchor' \in currT..bracket.at
  BY ProofFacts, Positions, SMT
<1>2. AtProof(out', prePublic', publicEnd', currT', passes', bracket', anchor')
  <2>1. /\ out' = out /\ prePublic' = prePublic /\ publicEnd' = publicEnd /\ currT' = currT
        /\ passes' = passes /\ bracket' = bracket
    BY Zenon DEF progress, public
  <2>2. QED
    BY <1>1, <2>1, ProofFrame, Zenon DEF AtProof
<1>3. AtProof(out, prePublic, publicEnd, currT, passes, bracket, anchor)'
  BY <1>2, NextPlace, Zenon
<1>4. Frame'
  BY ProofFrame, NextFrame, SMT DEF progress
<1>5. /\ currT' \in 0..Span /\ currEquinoc' = currT' /\ passes' \in Nat /\ ending' = "none"
      /\ evalIndex' = prePublic'
  BY ProofFrame, SMT DEF progress
<1>6. phase' \in Phases /\ phase' # "head" /\ phase' # "refine" /\ phase' # "done"
  BY SMT DEF Phases
<1>7. QED
  BY <1>3, <1>4, <1>5, <1>6, Zenon DEF IInv

LEMMA NothingToProveKeeps ==
  ASSUME IInv, NothingToProve
  PROVE  IInv'
<1>1. phase \in {"proof", "window"} /\ phase' \in {"proof", "window"} /\ anchor' = anchor
  BY SMT DEF NothingToProve, transaction
<1>2. currT <= anchor /\ anchor <= anchor /\ anchor \in Int
  BY <1>1, ProofFacts, Positions, SMT
<1>3. QED
  BY <1>1, <1>2, ProofGoesOn, SMT DEF NothingToProve, transaction

LEMMA ProveKeeps ==
  ASSUME IInv, phase = "proof", NEW leg \in TransactionLegs(currT, ProofPoint), Prove(leg)
  PROVE  IInv'
<1>1. UNCHANGED request /\ UNCHANGED passes /\ UNCHANGED public
  BY Zenon DEF Prove
<1>2. ProofPoint \in currT..Span /\ FineStep \in Nat
  BY ProofFacts, Positions, EclipseAssumption, SMT
<1>3. /\ leg.saw = "crossing" => IsCrossing(leg, currT, ProofPoint)
      /\ leg.saw = "perturb" => leg.at \in currT..ProofPoint
  BY <1>2, ProofFrame, LegFacts, SMT DEF TransactionLegs
<1>4. CASE Fail
  BY <1>1, <1>4, ProofFrame, FailKeeps, SMT DEF Fail, Return
<1>5. CASE leg.saw = "crossing" /\ ~Fail
  <2>1. /\ leg.at < anchor /\ anchor' = leg.at
        /\ UNCHANGED <<phase, ending, progress, bracket, prePublic>>
    BY <1>5, SMT DEF Prove, IsEvent
  <2>2. leg.at \in Int /\ currT <= leg.at
    BY <1>2, <1>3, <1>5, Positions, SMT DEF IsCrossing
  <2>3. anchor \in Int
    BY ProofFacts, SMT
  <2>4. QED
    BY <1>1, <2>1, <2>2, <2>3, ProofGoesOn, SMT
<1>6. CASE leg.saw = "success" /\ ~Fail
  <2>1. phase' = "window" /\ UNCHANGED <<ending, progress, transaction>>
    BY <1>6, SMT DEF Prove, IsEvent
  <2>2. anchor \in Int /\ currT <= anchor
    BY ProofFacts, Positions, SMT
  <2>3. QED
    BY <1>1, <2>1, <2>2, ProofGoesOn, SMT DEF transaction
<1>7. CASE IsEvent(leg) /\ ~Fail
  <2>1. Complete(leg, prePublic, prePublic + ProofCount, ProofPoint, currT, currT, evalIndex, out)
    BY <1>7, SMT DEF Prove, IsEvent
  <2>2. leg.saw # "success"
    BY <1>7, SMT DEF IsEvent
  <2>3. ProofPoint <= bracket.new
    BY ProofFacts, SMT
  <2>4. /\ Upto(tEval, currT) <= Upto(tEval, ProofPoint)
        /\ Upto(tEval, ProofPoint) \in Int /\ Upto(tEval, currT) \in Int
        /\ Upto(tEval, ProofPoint) <= Len(tEval)
    BY ProofFacts, Positions, UptoGrows, UptoRange, Zenon
  <2>5. /\ prePublic = Upto(tEval, currT) /\ prePublic + ProofCount = Upto(tEval, ProofPoint)
        /\ \A i \in prePublic + 1..Len(tEval) : currT <= tEval[i]
    BY ProofFacts, Zenon
  <2>6. prePublic + ProofCount \in prePublic..Len(tEval)
    BY <2>4, <2>5, Positions, SMT
  <2>7. \A i \in prePublic + 1..prePublic + ProofCount : currT <= tEval[i]
    BY <2>4, <2>5, Positions, SMT
  <2>8. leg.saw = "perturb" =>
          leg.at \in currT..Span /\ Upto(tEval, leg.at) \in prePublic..prePublic + ProofCount
    <3> SUFFICES ASSUME leg.saw = "perturb"
                 PROVE  leg.at \in currT..Span /\ Upto(tEval, leg.at) \in prePublic..prePublic + ProofCount
      OBVIOUS
    <3>1. leg.at \in currT..Span /\ leg.at \in Int /\ currT <= leg.at /\ leg.at <= ProofPoint
      BY <1>2, <1>3, Positions, SMT
    <3>2. /\ Upto(tEval, currT) <= Upto(tEval, leg.at)
          /\ Upto(tEval, leg.at) <= Upto(tEval, ProofPoint)
      BY <3>1, ProofFacts, Positions, UptoGrows, Zenon
    <3>3. Upto(tEval, leg.at) \in Int
      BY <3>1, Positions, UptoRange, Zenon
    <3>4. QED
      BY <2>4, <2>5, <3>1, <3>2, <3>3, SMT
  <2>9. currT \in currT..Span /\ passes' \in Nat \ {0} /\ passes' <= currT + 1
    BY <1>1, ProofFrame, Positions, SMT
  <2>10. Published(out, prePublic, currT) /\ Frame /\ ending = "none" /\ currT \in 0..Span
    BY ProofFacts, ProofFrame, SMT
  <2>11. QED
    BY <1>1, <2>1, <2>2, <2>6, <2>7, <2>8, <2>9, <2>10, CompleteKeeps, Zenon
<1>8. QED
  BY <1>4, <1>5, <1>6, <1>7, SMT DEF Prove
-----------------------------------------------------------------------------
LEMMA WindowFacts ==
  ASSUME IInv, phase = "window"
  PROVE  /\ WindowLimit \in Int /\ ProofPoint <= WindowLimit
         /\ WindowLimit <= bracket.new /\ WindowLimit <= ProofPoint + Uncertainty
         /\ WindowStart = Upto(tEval, ProofPoint) /\ WindowStart \in 0..Len(tEval)
         /\ Published(AfterProof, WindowStart, ProofPoint)
         /\ \A i \in WindowStart + 1..Len(tEval) : currT <= tEval[i]
         /\ ProofPoint \in 0..Span /\ WindowLimit \in ProofPoint..Span
<1>1. phase \in {"proof", "window"}
  OBVIOUS
<1>2. ProofPoint \in Int /\ ProofPoint <= bracket.new /\ bracket.new \in Int /\ bracket.new <= Span
      /\ currT <= ProofPoint
  BY <1>1, ProofFacts, SMT
<1>3. /\ WindowLimit \in Int /\ ProofPoint <= WindowLimit
      /\ WindowLimit <= bracket.new /\ WindowLimit <= ProofPoint + Uncertainty
  BY <1>2, EclipseAssumption, SMT DEF WindowLimit, Towards, Least
<1>4. /\ Upto(tEval, currT) <= Upto(tEval, ProofPoint)
      /\ Upto(tEval, ProofPoint) \in Int /\ Upto(tEval, currT) \in Int
      /\ Upto(tEval, ProofPoint) <= Len(tEval) /\ 0 <= Upto(tEval, currT)
  BY <1>2, Positions, UptoGrows, UptoRange, Zenon
<1>5. /\ prePublic = Upto(tEval, currT) /\ WindowStart = Upto(tEval, ProofPoint)
      /\ ProofCount = Upto(tEval, ProofPoint) - prePublic
      /\ \A i \in prePublic + 1..Len(tEval) : currT <= tEval[i]
      /\ Published(out, prePublic, currT)
  BY <1>1, ProofFacts, Zenon DEF WindowStart
<1>6. WindowStart \in 0..Len(tEval) /\ WindowStart \in prePublic..Len(tEval)
      /\ \A i \in WindowStart + 1..Len(tEval) : currT <= tEval[i]
  BY <1>4, <1>5, Positions, SMT
<1>7. Published(AfterProof, WindowStart, ProofPoint)
  <2>1. CASE OriginIsCrossing
    <3>1. AfterProof = out /\ WindowStart = prePublic
      BY <1>5, <2>1, Zenon DEF AfterProof, OriginIsCrossing
    <3>2. QED
      BY <1>2, <1>5, <3>1, Positions, EmitLater, Zenon
  <2>2. CASE ~OriginIsCrossing
    <3>1. AfterProof = out \o Samples(prePublic, WindowStart - prePublic, currT, currT)
      BY <1>5, <2>2, Zenon DEF AfterProof
    <3>2. \A i \in prePublic + 1..WindowStart : currT <= tEval[i] /\ tEval[i] <= ProofPoint
      <4> SUFFICES ASSUME NEW i \in prePublic + 1..WindowStart
                   PROVE  currT <= tEval[i] /\ tEval[i] <= ProofPoint
        OBVIOUS
      <4>1. i \in prePublic + 1..Len(tEval) /\ i \in 1..Len(tEval) /\ i <= Upto(tEval, ProofPoint)
        BY <1>4, <1>5, Positions, SMT
      <4>2. QED
        BY <1>2, <1>5, <4>1, Positions, UptoFacts, Zenon
    <3>3. QED
      BY <1>2, <1>5, <1>6, <3>1, <3>2, Positions, Emit, Zenon
  <2>3. QED
    BY <2>1, <2>2, Zenon
<1>8. ProofPoint \in 0..Span /\ WindowLimit \in ProofPoint..Span
  BY <1>2, <1>3, Positions, SMT
<1>9. QED
  BY <1>3, <1>5, <1>6, <1>7, <1>8, Zenon

\* A root lies on the far side of a boundary whose near side was proved.
LEMMA CommitFacts ==
  ASSUME IInv, phase = "window", NEW leg \in TransactionLegs(ProofPoint, WindowLimit),
         leg.saw = "crossing"
  PROVE  /\ Side(ProofPoint) = side /\ leg.new \in Int /\ currT < leg.new
         /\ ProofPoint <= leg.new /\ leg.new <= WindowLimit
         /\ \E c \in ProofPoint..leg.new - 1 : Side(c) = side /\ Side(c + 1) # side
<1>1. FineStep \in Nat /\ ProofPoint \in 0..Span /\ WindowLimit \in ProofPoint..Span
  BY EclipseAssumption, WindowFacts, Zenon
<1>2. IsCrossing(leg, ProofPoint, WindowLimit)
  BY <1>1, ProofFrame, LegFacts, SMT DEF TransactionLegs
<1>3. ProofPoint \in Int /\ WindowLimit \in Int /\ currT <= ProofPoint
  BY <1>1, ProofFacts, Positions, SMT
<1>4. /\ leg.new \in Int /\ leg.at \in Int /\ ProofPoint <= leg.at /\ leg.at < leg.new
      /\ leg.new <= WindowLimit
  BY <1>2, <1>3, Positions, SMT DEF IsCrossing
<1>5. leg.at \in ProofPoint..leg.new - 1 /\ currT < leg.new /\ ProofPoint <= leg.new
  BY <1>3, <1>4, Positions, SMT
<1>6. QED
  BY <1>2, <1>4, <1>5, Zenon DEF IsCrossing

LEMMA CommitKeeps ==
  ASSUME IInv, phase = "window", NEW leg \in TransactionLegs(ProofPoint, WindowLimit),
         leg.saw = "crossing", CanCommit(leg), Commit(leg),
         UNCHANGED <<request, passes, public>>
  PROVE  IInv'
<1> DEFINE m == Upto(tEval, leg.new)
<1> DEFINE count == CountUpTo(prePublic, publicEnd, leg.new)
<1>1. /\ leg.new \in Int /\ currT < leg.new /\ ProofPoint <= leg.new /\ leg.new <= bracket.new
      /\ leg.new <= Span /\ bracket.new \in Int /\ ProofPoint \in Int
  <2>1. leg.new \in Int /\ currT < leg.new /\ ProofPoint <= leg.new /\ leg.new <= WindowLimit
    BY CommitFacts, Zenon
  <2>2. WindowLimit \in Int /\ WindowLimit <= bracket.new
    BY WindowFacts, Zenon
  <2>3. bracket.new \in Int /\ bracket.new <= Span /\ ProofPoint \in Int
    BY ProofFacts, SMT
  <2>4. QED
    BY <2>1, <2>2, <2>3, Positions, SMT
<1>2. /\ Upto(tEval, currT) <= m /\ Upto(tEval, ProofPoint) <= m /\ m <= Upto(tEval, bracket.new)
      /\ m \in Int /\ Upto(tEval, bracket.new) \in Int /\ m <= Len(tEval)
      /\ Upto(tEval, ProofPoint) \in Int
  <2>1. currT <= leg.new
    BY <1>1, Positions, SMT
  <2>2. QED
    BY <1>1, <2>1, Positions, UptoGrows, UptoRange, Zenon
<1>3. /\ prePublic = Upto(tEval, currT) /\ prePublic \in 0..Len(tEval)
      /\ publicEnd \in Nat /\ publicEnd <= Len(tEval) /\ Upto(tEval, bracket.new) <= publicEnd
  BY ProofFacts, SMT
<1>4. prePublic + count = m
  <2>1. publicEnd \in prePublic..Len(tEval) /\ prePublic <= m /\ m <= publicEnd
    BY <1>2, <1>3, Positions, SMT
  <2>2. QED
    BY <1>1, <1>3, <2>1, Positions, CountOn, Zenon
<1>5. CommittedIndex(leg) = m
  BY <1>4, Zenon DEF CommittedIndex
<1>6. /\ out' = AfterProof \o Samples(WindowStart, m - WindowStart, currT, currT)
      /\ currT' = leg.new /\ currEquinoc' = leg.new /\ side' = ~side /\ lastRoot' = leg.new
      /\ evalIndex' = m /\ phase' = "head" /\ ending' = ending
  BY <1>5, Zenon DEF Commit, Rebase, RootEpoch
<1>7. Published(out', m, leg.new)
  <2>1. /\ Published(AfterProof, WindowStart, ProofPoint) /\ WindowStart = Upto(tEval, ProofPoint)
        /\ \A i \in WindowStart + 1..Len(tEval) : currT <= tEval[i]
        /\ WindowStart \in 0..Len(tEval)
    BY WindowFacts, Zenon
  <2>2. m \in WindowStart..Len(tEval)
    BY <1>2, <2>1, SMT
  <2>3. \A i \in WindowStart + 1..m : currT <= tEval[i] /\ tEval[i] <= leg.new
    <3> SUFFICES ASSUME NEW i \in WindowStart + 1..m PROVE currT <= tEval[i] /\ tEval[i] <= leg.new
      OBVIOUS
    <3>1. i \in WindowStart + 1..Len(tEval) /\ i \in 1..Len(tEval) /\ i <= m
      BY <1>2, <2>1, Positions, SMT
    <3>2. QED
      BY <1>1, <2>1, <3>1, Positions, UptoFacts, Zenon
  <2>4. QED
    BY <1>1, <1>6, <2>1, <2>2, <2>3, Positions, Emit, Zenon
<1>8. Frame'
  <2>1. tEval' = tEval /\ sky' = sky /\ Frame
    BY ProofFrame, SMT DEF request
  <2>2. Side(leg.new) = ~side
    BY Zenon DEF CanCommit
  <2>3. side' \in BOOLEAN
    BY <1>6, <2>1, SMT DEF Frame
  <2>4. leg.new \in 0..Span
    BY <1>1, Positions, SMT
  <2>5. (Side(lastRoot))' = side'
    BY <1>6, <2>1, <2>2, Zenon DEF Side
  <2>6. QED
    BY <1>6, <2>1, <2>3, <2>4, <2>5, Zenon DEF Frame
<1>9. passes' \in Nat \ {0} /\ passes' <= leg.new /\ leg.new \in 0..Span
  BY <1>1, ProofFrame, Positions, SMT
<1>10. ending = "none"
  BY ProofFrame, SMT
<1>11. QED
  BY <1>6, <1>7, <1>8, <1>9, <1>10, HeadAgain, Zenon

LEMMA WindowKeeps ==
  ASSUME IInv, phase = "window", NEW leg \in TransactionLegs(ProofPoint, WindowLimit), Window(leg)
  PROVE  IInv'
<1>1. UNCHANGED <<request, passes, public>>
  BY Zenon DEF Window
<1>2. ProofPoint \in 0..Span /\ WindowLimit \in ProofPoint..Span /\ FineStep \in Nat
  BY WindowFacts, EclipseAssumption, Zenon
<1>3. leg.saw = "perturb" => leg.at \in ProofPoint..WindowLimit
  BY <1>2, ProofFrame, LegFacts, SMT DEF TransactionLegs
<1>4. CASE Fail
  BY <1>1, <1>4, ProofFrame, FailKeeps, SMT DEF Fail, Return
<1>5. CASE leg.saw = "crossing" /\ ~Fail
  BY <1>1, <1>5, CommitKeeps, SMT DEF Window, IsEvent
<1>6. CASE IsEvent(leg) /\ ~Fail
  <2> DEFINE to == WindowStart + CountUpTo(WindowStart, publicEnd, WindowLimit)
  <2>1. Complete(leg, WindowStart, to, WindowLimit, currT, currT, evalIndex, AfterProof)
    BY <1>6, SMT DEF Window, IsEvent
  <2>2. leg.saw # "success"
    BY <1>6, SMT DEF IsEvent
  <2>3. ProofPoint \in Int /\ WindowLimit \in Int /\ currT <= ProofPoint
        /\ bracket.new \in Int /\ WindowLimit <= bracket.new /\ ProofPoint <= WindowLimit
    BY WindowFacts, ProofFacts, SMT
  <2>4. /\ Upto(tEval, ProofPoint) <= Upto(tEval, WindowLimit)
        /\ Upto(tEval, WindowLimit) <= Upto(tEval, bracket.new)
        /\ Upto(tEval, ProofPoint) \in Int /\ Upto(tEval, WindowLimit) \in Int
        /\ Upto(tEval, bracket.new) \in Int
    BY <2>3, Positions, UptoGrows, UptoRange, Zenon
  <2>5. /\ WindowStart = Upto(tEval, ProofPoint) /\ WindowStart \in 0..Len(tEval)
        /\ Published(AfterProof, WindowStart, ProofPoint)
        /\ \A i \in WindowStart + 1..Len(tEval) : currT <= tEval[i]
    BY WindowFacts, Zenon
  <2>6. publicEnd \in Nat /\ publicEnd <= Len(tEval) /\ Upto(tEval, bracket.new) <= publicEnd
    BY ProofFacts, SMT
  <2>7. to = Upto(tEval, WindowLimit)
    <3>1. publicEnd \in WindowStart..Len(tEval) /\ WindowStart <= Upto(tEval, WindowLimit)
          /\ Upto(tEval, WindowLimit) <= publicEnd
      BY <2>4, <2>5, <2>6, Positions, SMT
    <3>2. QED
      BY <2>3, <2>5, <3>1, Positions, CountOn, Zenon
  <2> HIDE DEF to
  <2>8. to \in WindowStart..Len(tEval) /\ \A i \in WindowStart + 1..to : currT <= tEval[i]
    BY <2>4, <2>5, <2>6, <2>7, Positions, SMT
  <2>9. leg.saw = "perturb" =>
          leg.at \in ProofPoint..Span /\ Upto(tEval, leg.at) \in WindowStart..to
    <3> SUFFICES ASSUME leg.saw = "perturb"
                 PROVE  leg.at \in ProofPoint..Span /\ Upto(tEval, leg.at) \in WindowStart..to
      OBVIOUS
    <3>1. leg.at \in ProofPoint..Span /\ leg.at \in Int /\ ProofPoint <= leg.at /\ leg.at <= WindowLimit
      BY <1>2, <1>3, <2>3, Positions, SMT
    <3>2. /\ Upto(tEval, ProofPoint) <= Upto(tEval, leg.at)
          /\ Upto(tEval, leg.at) <= Upto(tEval, WindowLimit)
          /\ Upto(tEval, leg.at) \in Int
      BY <2>3, <3>1, Positions, UptoGrows, UptoRange, Zenon
    <3>3. QED
      BY <2>4, <2>5, <2>7, <3>1, <3>2, SMT
  <2>10. ProofPoint \in currT..Span /\ passes' \in Nat \ {0} /\ passes' <= currT + 1
    BY <1>1, <1>2, <2>3, ProofFrame, Positions, SMT
  <2>11. Frame /\ ending = "none" /\ currT \in 0..Span
    BY ProofFrame, SMT
  <2>12. QED
    BY <1>1, <2>1, <2>2, <2>5, <2>8, <2>9, <2>10, <2>11, CompleteKeeps, Zenon
<1>7. QED
  BY <1>4, <1>5, <1>6, SMT DEF Window
-----------------------------------------------------------------------------
LEMMA InitInv == Init => IInv
<1> SUFFICES ASSUME Init PROVE IInv
  OBVIOUS
<1>1. Sorted(tEval) /\ sky \in [0..Span -> BOOLEAN] /\ Span \in Nat
  BY EclipseAssumption, Zenon DEF Init, Sorted
<1>2. /\ side = sky[0] /\ lastRoot = None /\ phase = "head" /\ ending = "none" /\ passes = 0
      /\ currT = 0 /\ currEquinoc = 0 /\ out = <<>>
      /\ evalIndex = CountUpTo(0, Len(tEval), -1)
  BY Zenon DEF Init, Side
<1>3. Frame
  BY <1>1, <1>2, SMT DEF Frame
<1>4. evalIndex = Upto(tEval, -1) /\ evalIndex \in Int /\ 0 <= evalIndex /\ evalIndex <= Len(tEval)
  <2>1. -1 \in Int
    BY SMT
  <2>2. CountUpTo(0, Len(tEval), -1) = Upto(tEval, -1)
    BY Zenon DEF CountUpTo, Upto, CountIn
  <2>3. QED
    BY <1>1, <1>2, <2>1, <2>2, UptoRange, Zenon
<1>5. Len(tEval) \in Nat
  BY <1>1, SMT DEF Sorted
<1>6. Published(out, evalIndex, currT)
  <2>1. out \in Seq(Int \X Int \X Int) /\ Len(out) = 0
    BY <1>2, EmptySeq, Zenon
  <2>2. evalIndex \in 0..Len(tEval) /\ Upto(tEval, -1) + Len(out) = evalIndex
    BY <1>4, <1>5, <2>1, SMT
  <2>3. \A i \in 1..Len(out) : FALSE
    BY <2>1, SMT
  <2>4. QED
    BY <2>1, <2>2, <2>3, Zenon DEF Published
<1>7. AtHead(out, evalIndex, currT, passes)
  BY <1>2, <1>4, <1>6, SMT DEF AtHead
<1>8. QED
  BY <1>1, <1>2, <1>3, <1>7, SMT DEF IInv, Phases

LEMMA NextInv == IInv /\ [Next]_vars => IInv'
<1> SUFFICES ASSUME IInv, [Next]_vars PROVE IInv'
  OBVIOUS
<1>1. CASE Arrived
  <2>1. /\ phase' = "done" /\ ending' = "Success" /\ currT = Span /\ phase = "head"
        /\ UNCHANGED request /\ UNCHANGED passes /\ UNCHANGED progress
    BY <1>1, Zenon DEF Arrived, Return
  <2>2. AtHead(out, evalIndex, currT, passes) /\ Frame /\ currT \in 0..Span /\ currEquinoc = currT
        /\ passes \in Nat
    BY <2>1, Zenon DEF IInv
  <2>3. passes # 0
    BY <2>1, <2>2, EclipseAssumption, SMT DEF AtHead
  <2>4. Published(out, evalIndex, Span) /\ evalIndex = Upto(tEval, Span)
    BY <2>1, <2>2, <2>3, Zenon DEF AtHead
  <2>5. QED
    BY <2>1, <2>2, <2>4, Ends, SMT DEF progress
<1>2. CASE OutOfPasses
  BY <1>2, FailKeeps, SMT DEF OutOfPasses, Return, IInv
<1>3. CASE phase = "head" /\ \E leg \in MainLegs : Main(leg)
  BY <1>3, MainKeeps, Zenon
<1>4. CASE phase = "refine" /\ \E leg \in RefineLegs : Refine(leg)
  BY <1>4, RefineKeeps, Zenon
<1>5. CASE NothingToProve
  BY <1>5, NothingToProveKeeps, Zenon
<1>6. CASE phase = "proof" /\ \E leg \in TransactionLegs(currT, ProofPoint) : Prove(leg)
  BY <1>6, ProveKeeps, Zenon
<1>7. CASE WindowTooShort
  BY <1>7, FailKeeps, SMT DEF WindowTooShort, Fail, Return, IInv
<1>8. CASE phase = "window" /\ \E leg \in TransactionLegs(ProofPoint, WindowLimit) : Window(leg)
  BY <1>8, WindowKeeps, Zenon
<1>9. CASE UNCHANGED vars
  <2>1. /\ UNCHANGED request /\ UNCHANGED progress /\ UNCHANGED transaction /\ UNCHANGED public
        /\ UNCHANGED <<phase, ending, passes>>
    BY <1>9, Zenon DEF vars
  <2>2. Frame'
    BY <2>1, NextFrame, Zenon DEF IInv, progress
  <2>3. /\ out' = out /\ evalIndex' = evalIndex /\ currT' = currT /\ currEquinoc' = currEquinoc
        /\ passes' = passes /\ publicStart' = publicStart /\ publicEnd' = publicEnd
        /\ prePublic' = prePublic /\ bracket' = bracket /\ anchor' = anchor
        /\ phase' = phase /\ ending' = ending
    BY <2>1, Zenon DEF progress, transaction, public
  <2>4. QED
    BY <2>1, <2>2, <2>3, NextPlace, Zenon DEF IInv
<1>10. QED
  BY <1>1, <1>2, <1>3, <1>4, <1>5, <1>6, <1>7, <1>8, <1>9, Zenon DEF Next

LEMMA Invariant == Spec => []IInv
<1>1. QED
  BY InitInv, NextInv, PTL DEF Spec

(* A pass of the outer loop that goes on has moved the epoch forward: no     *)
(* sequence of crossings, replays and events runs in place.                  *)
THEOREM EclipsePassesAdvance == Spec => []PassesAdvance
<1>1. IInv => PassesAdvance
  BY Positions, SMT DEF IInv, AtHead, PassesAdvance
<1>2. QED
  BY <1>1, Invariant, PTL

(* Every sample of the request in [t0, tf] is published once and in order,   *)
(* none of an attempt that may be abandoned, and a success owes none.        *)
THEOREM EclipseEachSampleOnce == Spec => []EachSampleOnce
<1>1. IInv => EachSampleOnce
  <2> SUFFICES ASSUME IInv PROVE EachSampleOnce
    OBVIOUS
  <2>1. Skipped = Upto(tEval, -1) /\ CountUpTo(0, Len(tEval), currT) = Upto(tEval, currT)
        /\ CountUpTo(0, Len(tEval), Span) = Upto(tEval, Span)
    BY Zenon DEF Skipped, CountUpTo, Upto, CountIn
  <2>2. CASE phase = "done"
    <3>1. AtEnd(out, ending)
      BY <2>2, Zenon DEF IInv
    <3>2. QED
      BY <2>1, <2>2, <3>1, SMTT(30) DEF AtEnd, Published, EachSampleOnce
  <2>3. CASE phase # "done"
    <3>1. \E n : Published(out, n, currT)
      BY <2>3, SMT DEF IInv, Phases, AtHead, AtRefine, AtProof
    <3>2. \A i \in 1..Len(out) : out[i][1] = tEval[Skipped + i] /\ out[i][1] <= currT
      BY <2>1, <3>1, Zenon DEF Published
    <3>3. phase = "head" /\ passes > 0 =>
            Skipped + Len(out) = evalIndex /\ evalIndex = CountUpTo(0, Len(tEval), currT)
      <4> SUFFICES ASSUME phase = "head", passes > 0
                   PROVE  Skipped + Len(out) = evalIndex /\ evalIndex = CountUpTo(0, Len(tEval), currT)
        OBVIOUS
      <4>1. AtHead(out, evalIndex, currT, passes)
        BY Zenon DEF IInv
      <4>2. passes # 0
        BY SMT
      <4>3. QED
        BY <2>1, <4>1, <4>2, Zenon DEF AtHead, Published
    <3>4. ending # "Success"
      BY <2>3, SMT DEF IInv
    <3>5. QED
      BY <2>3, <3>2, <3>3, <3>4, Zenon DEF EachSampleOnce
  <2>4. QED
    BY <2>2, <2>3, Zenon
<1>2. QED
  BY <1>1, Invariant, PTL

(* The baseline is the current epoch's, and every sample is added back to    *)
(* the baseline it was integrated on, which is not later than the sample.    *)
THEOREM EclipseBaselineIsCurrent == Spec => []BaselineIsCurrent
<1>1. IInv => BaselineIsCurrent
  <2> SUFFICES ASSUME IInv PROVE BaselineIsCurrent
    OBVIOUS
  <2>1. \E n, time : Published(out, n, time)
    BY SMT DEF IInv, Phases, AtHead, AtRefine, AtProof, AtEnd
  <2>2. QED
    BY <2>1, Zenon DEF IInv, Published, BaselineIsCurrent
<1>2. QED
  BY <1>1, Invariant, PTL

(* A root is committed only past a boundary that begins on the proved old    *)
(* side and within the uncertainty of a root, and the side is then true.     *)
THEOREM EclipseRootsAreProved == Spec => RootsAreProved
<1> DEFINE A == splitCount' # splitCount =>
                  /\ Side(ProofPoint) = side /\ side' # side /\ side' = Side(currT')
                  /\ currT < currT' /\ currT' <= ProofPoint + Uncertainty
                  /\ \E c \in ProofPoint..currT' - 1 : Side(c) = side /\ Side(c + 1) # side
<1>1. IInv /\ [Next]_vars => [A]_vars
  <2> SUFFICES ASSUME IInv, Next, splitCount' # splitCount PROVE A
    BY Zenon
  <2>1. PICK leg \in TransactionLegs(ProofPoint, WindowLimit) : phase = "window" /\ Window(leg)
    <3>1. \A leg : Main(leg) => splitCount' = splitCount
      BY SMT DEF Main, Fail, Complete, progress
    <3>2. \A leg : Refine(leg) => splitCount' = splitCount
      BY SMT DEF Refine, Fail, Complete, progress
    <3>3. \A leg : Prove(leg) => splitCount' = splitCount
      BY SMT DEF Prove, Fail, Complete, progress
    <3>4. ~Arrived /\ ~OutOfPasses /\ ~NothingToProve /\ ~WindowTooShort
      BY SMT DEF Arrived, OutOfPasses, NothingToProve, WindowTooShort, Fail, progress
    <3>5. QED
      BY <3>1, <3>2, <3>3, <3>4, Zenon DEF Next
  <2>2. leg.saw = "crossing" /\ CanCommit(leg) /\ Commit(leg)
    BY <2>1, SMT DEF Window, Fail, Complete, progress
  <2>3. currT' = leg.new /\ side' = ~side /\ Side(leg.new) = ~side
    BY <2>2, Zenon DEF Commit, Rebase, CanCommit
  <2>4. side \in BOOLEAN
    BY Zenon DEF IInv, Frame
  <2>5. /\ Side(ProofPoint) = side /\ leg.new \in Int /\ currT < leg.new /\ leg.new <= WindowLimit
        /\ \E c \in ProofPoint..leg.new - 1 : Side(c) = side /\ Side(c + 1) # side
    BY <2>1, <2>2, CommitFacts, Zenon
  <2>6. WindowLimit \in Int /\ WindowLimit <= ProofPoint + Uncertainty /\ ProofPoint \in Int
    BY <2>1, WindowFacts, ProofFacts, SMT
  <2>7. leg.new <= ProofPoint + Uncertainty
    BY <2>5, <2>6, EclipseAssumption, SMT
  <2>8. side' # side /\ side' = Side(currT')
    BY <2>3, <2>4, Zenon
  <2>9. QED
    BY <2>3, <2>5, <2>7, <2>8, Zenon
<1>2. QED
  BY <1>1, Invariant, PTL DEF Spec, RootsAreProved
=============================================================================
