------------------------ MODULE RectificationProofs ------------------------
(***************************************************************************)
(* For any ends, sorted grids, length and number of legs, restarts and calls *)
(* (RectificationAssumption): what is handed back is true (TrueRows), every  *)
(* leg starts where the trajectory has arrived (NoLegTwice), success means   *)
(* the whole arc (CompleteSuccess), and no step size leaves its arc          *)
(* (CarryConfined).                                                          *)
(***************************************************************************)
EXTENDS Rectification, SequenceTheorems, WellFoundedInduction, TLAPS

Increasing(s) == \A i, j \in 1..Len(s) : i < j => s[i] < s[j]

\* What a call asks for does not change under it, and its samples are in order.
RequestInv ==
  /\ Increasing(evalSlice)
  /\ phase # "idle" => calls > 0 /\ evalSlice # <<>>
  /\ phase # "done" => ending = "none"
  /\ phase = "idle" =>
       /\ baseT = 0 /\ ~hadRebase /\ ~reached /\ consumed = 0 /\ walked = 0 /\ rows = <<>>
       /\ opened = None

\* A baseline that never moved is the caller's.
BaselineInv == ~hadRebase => baseT = 0

\* Between two legs, every sample up to where the trajectory has arrived is consumed
\* and handed back.
SampledInv ==
  phase = "head" /\ route = "sampled" =>
    /\ Len(rows) = consumed
    /\ IF reached THEN walked = tf ELSE walked < tf
    /\ walked > 0 => \A i \in 1..Len(evalSlice) : evalSlice[i] <= walked => i <= consumed
    /\ carry \in {None, calls}

\* The other routes hand nothing back before their end.
OtherInv ==
  phase = "head" /\ route # "sampled" =>
    /\ rows = <<>> /\ ~reached
    /\ route = "events" =>
         baseT = 0 /\ ~hadRebase /\ (method # "dopri5" => SpansRequest(evalSlice, tf))
    /\ route \notin Sampling => evalSlice = <<tf>>

RectInv ==
  /\ TypeOK /\ RequestInv /\ BaselineInv /\ SampledInv /\ OtherInv
  /\ RowsAreTrue /\ LegsFollowOn /\ SuccessIsComplete /\ CarryStaysInArc
-----------------------------------------------------------------------------
(* Sequences *)

LEMMA LeastOne ==
  ASSUME NEW S \in SUBSET Nat, S # {}
  PROVE  \E n \in S : \A m \in S : n <= m
<1> DEFINE R == {ss \in Nat \X Nat : ss[1] < ss[2]}
<1>1. IsWellFoundedOn(R, Nat)
  BY NatLessThanWellFounded DEF OpToRel
<1> HIDE DEF R
<1>2. \E n \in S : \A m \in S : ~(<<m, n>> \in R)
  BY <1>1, WFMin, Zenon
<1>3. \A n, m \in Nat : ~(<<m, n>> \in R) => n <= m
  BY SMT DEF R
<1>4. QED
  BY <1>2, <1>3, Zenon

LEMMA LeadingFacts ==
  ASSUME NEW s \in Seq(Int), NEW t \in Int
  PROVE  /\ LeadingUpTo(s, t) \in 0..Len(s)
         /\ \A i \in 1..LeadingUpTo(s, t) : s[i] <= t
         /\ LeadingUpTo(s, t) < Len(s) => s[LeadingUpTo(s, t) + 1] > t
<1> DEFINE Ok(n) == (\A i \in 1..n : s[i] <= t) /\ (n < Len(s) => s[n + 1] > t)
<1>1. Len(s) \in Nat /\ \A i \in 1..Len(s) : s[i] \in Int
  BY LenProperties, ElementOfSeq
<1>2. \E n \in 0..Len(s) : Ok(n)
  <2> DEFINE Past == {i \in 1..Len(s) : s[i] > t}
  <2>1. CASE Past = {}
    <3>1. \A i \in 1..Len(s) : s[i] <= t
      BY <1>1, <2>1, SMT
    <3>2. Ok(Len(s)) /\ Len(s) \in 0..Len(s)
      BY <1>1, <3>1, SMT
    <3>3. QED
      BY <3>2, Zenon
  <2>2. CASE Past # {}
    <3>1. Past \in SUBSET Nat
      BY <1>1, SMT
    <3>2. PICK m \in Past : \A k \in Past : m <= k
      BY <2>2, <3>1, LeastOne, Zenon
    <3>3. m \in 1..Len(s) /\ s[m] > t
      BY <3>2
    <3>4. \A i \in 1..m - 1 : s[i] <= t
      <4>1. SUFFICES ASSUME NEW i \in 1..m - 1 PROVE s[i] <= t
        OBVIOUS
      <4>2. i \in 1..Len(s) /\ ~(m <= i)
        BY <1>1, <3>3, SMT
      <4>3. i \notin Past
        BY <3>2, <4>2, Zenon
      <4>4. ~(s[i] > t)
        BY <4>2, <4>3, Zenon
      <4>5. QED
        BY <1>1, <4>2, <4>4, SMT
    <3>5. m - 1 \in 0..Len(s) /\ m - 1 + 1 = m
      BY <1>1, <3>3, SMT
    <3>6. Ok(m - 1)
      BY <3>3, <3>4, <3>5, Zenon
    <3>7. QED
      BY <3>5, <3>6, Zenon
  <2>3. QED
    BY <2>1, <2>2
<1> HIDE DEF Ok
<1>3. LeadingUpTo(s, t) = CHOOSE n \in 0..Len(s) : Ok(n)
  BY Zenon DEF LeadingUpTo, Ok
<1>4. LeadingUpTo(s, t) \in 0..Len(s) /\ Ok(LeadingUpTo(s, t))
  BY <1>2, <1>3, Zenon
<1>5. QED
  BY <1>4, Zenon DEF Ok

\* In a sorted sequence they are all the samples at t or before.
LEMMA LeadingSplits ==
  ASSUME NEW s \in Seq(Int), Increasing(s), NEW t \in Int, NEW i \in 1..Len(s)
  PROVE  s[i] <= t <=> i <= LeadingUpTo(s, t)
<1> DEFINE n == LeadingUpTo(s, t)
<1>1. Len(s) \in Nat /\ \A k \in 1..Len(s) : s[k] \in Int
  BY LenProperties, ElementOfSeq
<1>2. n \in 0..Len(s) /\ (\A k \in 1..n : s[k] <= t) /\ (n < Len(s) => s[n + 1] > t)
  BY LeadingFacts
<1> HIDE DEF n
<1>3. CASE i <= n
  BY <1>1, <1>2, <1>3, SMT DEF n
<1>4. CASE ~(i <= n)
  <2>1. n + 1 \in 1..Len(s) /\ n < Len(s) /\ (n + 1 < i \/ n + 1 = i)
    BY <1>1, <1>2, <1>4, SMT
  <2>2. s[n + 1] < s[i] \/ n + 1 = i
    BY <2>1, Zenon DEF Increasing
  <2>3. ~(s[i] <= t)
    BY <1>1, <1>2, <2>1, <2>2, SMT
  <2>4. QED
    BY <1>4, <2>3, Zenon DEF n
<1>5. QED
  BY <1>3, <1>4

LEMMA Slice ==
  ASSUME NEW S, NEW s \in Seq(S), NEW m \in 1..Len(s) + 1, NEW n \in m - 1..Len(s)
  PROVE  /\ SubSeq(s, m, n) \in Seq(S)
         /\ Len(SubSeq(s, m, n)) = n - m + 1
         /\ \A i \in 1..n - m + 1 : SubSeq(s, m, n)[i] = s[m + i - 1]
<1>1. Len(s) \in Nat
  BY LenProperties
<1>2. m \in Int /\ n \in Int /\ \A i \in m..n : i \in 1..Len(s)
  BY <1>1, SMT
<1>3. \A i \in m..n : s[i] \in S
  BY <1>2, ElementOfSeq, Zenon
<1>4. (IF m <= n THEN n - m + 1 ELSE 0) = n - m + 1
  BY <1>1, SMT
<1>5. QED
  BY <1>2, <1>3, <1>4, SubSeqProperties

LEMMA SliceIncreases ==
  ASSUME NEW s \in Seq(Int), Increasing(s), NEW m \in 1..Len(s) + 1, NEW n \in m - 1..Len(s)
  PROVE  Increasing(SubSeq(s, m, n))
<1>1. Len(s) \in Nat
  BY LenProperties
<1> DEFINE p == SubSeq(s, m, n)
<1>2. Len(p) = n - m + 1 /\ \A i \in 1..n - m + 1 : p[i] = s[m + i - 1]
  BY Slice
<1> HIDE DEF p
<1>3. SUFFICES ASSUME NEW i \in 1..n - m + 1, NEW j \in 1..n - m + 1, i < j PROVE p[i] < p[j]
  BY <1>2, Zenon DEF p, Increasing
<1>4. m + i - 1 \in 1..Len(s) /\ m + j - 1 \in 1..Len(s) /\ m + i - 1 < m + j - 1
  BY <1>1, <1>3, SMT
<1>5. QED
  BY <1>2, <1>4, Zenon DEF Increasing

-----------------------------------------------------------------------------
(* Entry and exit *)

LEMMA Singleton ==
  ASSUME NEW n \in Nat
  PROVE  /\ <<n>> \in Seq(Nat) /\ <<n>> # <<>> /\ Increasing(<<n>>)
         /\ Len(<<n>>) = 1 /\ <<n>>[1] = n
BY SMT DEF Increasing

LEMMA SliceOfGrid ==
  ASSUME NEW grid \in Grids, NEW end \in Nat
  PROVE  /\ EvalSlice(grid, end) \in Seq(Nat)
         /\ EvalSlice(grid, end) # <<>>
         /\ Increasing(EvalSlice(grid, end))
<1> DEFINE n == LeadingUpTo(grid, -1)
           after == SubSeq(grid, n + 1, Len(grid))
<1>1. grid \in Seq(Int) /\ Increasing(grid)
  BY RectificationAssumption, Zenon DEF Increasing
<1>2. Len(grid) \in Nat /\ \A i \in 1..Len(grid) : grid[i] \in Int
  BY <1>1, LenProperties, ElementOfSeq
<1>3. n \in 0..Len(grid) /\ \A i \in 1..Len(grid) : grid[i] <= -1 <=> i <= n
  BY <1>1, LeadingFacts, LeadingSplits, SMTT(30)
<1> HIDE DEF n
<1>4. n + 1 \in 1..Len(grid) + 1 /\ Len(grid) \in (n + 1) - 1..Len(grid)
  BY <1>2, <1>3, SMT
<1>5. after \in Seq(Int) /\ Increasing(after) /\ Len(after) = Len(grid) - (n + 1) + 1
      /\ \A i \in 1..Len(grid) - (n + 1) + 1 : after[i] = grid[n + 1 + i - 1]
  BY <1>1, <1>4, Slice, SliceIncreases
<1> HIDE DEF after
<1>6. \A i \in 1..Len(after) : after[i] \in Nat
  <2>1. SUFFICES ASSUME NEW i \in 1..Len(after) PROVE after[i] \in Nat
    OBVIOUS
  <2>2. n + 1 + i - 1 \in 1..Len(grid) /\ ~(n + 1 + i - 1 <= n) /\ after[i] = grid[n + 1 + i - 1]
    BY <1>2, <1>3, <1>5, <2>1, SMT
  <2>3. ~(grid[n + 1 + i - 1] <= -1) /\ grid[n + 1 + i - 1] \in Int
    BY <1>2, <1>3, <2>2, Zenon
  <2>4. QED
    BY <2>2, <2>3, SMT
<1>7. after \in Seq(Nat)
  <2>1. Len(after) \in Nat /\ after = [i \in 1..Len(after) |-> after[i]]
    BY <1>5, LenProperties, IsASeq
  <2>2. QED
    BY <1>6, <2>1, IsASeq
<1>8. EvalSlice(grid, end) = (IF after = <<>> THEN <<end>> ELSE after)
  BY Zenon DEF EvalSlice, after, n
<1>9. CASE after = <<>>
  BY <1>8, <1>9, Singleton, Zenon
<1>10. CASE after # <<>>
  BY <1>5, <1>7, <1>8, <1>10, Zenon
<1>11. QED
  BY <1>9, <1>10

LEMMA Starts == Init => RectInv
<1> SUFFICES ASSUME Init PROVE RectInv
  OBVIOUS
<1>1. evalSlice = <<>> /\ rows = <<>> /\ Len(evalSlice) = 0 /\ Len(rows) = 0
  BY DEF Init
<1>2. TypeOK
  <2>1. 0 \in 0..MaxCalls /\ 0 \in 0..0 /\ 0 \in Nat
    BY RectificationAssumption, SMT
  <2>2. evalSlice \in Seq(Nat) /\ rows \in Seq([at : Nat, of : Int, against : Nat, added : Ticks])
    BY <1>1, EmptySeq
  <2>3. QED
    BY <1>1, <2>1, <2>2, Zenon DEF Init, TypeOK, Routes, Sampling, Methods, Endings
<1>3. Increasing(evalSlice) /\ RowsAreTrue
  BY <1>1, SMT DEF Increasing, RowsAreTrue
<1>4. QED
  BY <1>2, <1>3, Zenon
     DEF Init, RectInv, RequestInv, BaselineInv, SampledInv, OtherInv, LegsFollowOn,
         SuccessIsComplete, CarryStaysInArc

LEMMA EnterKeeps ==
  ASSUME RectInv, Enter
  PROVE  RectInv'
<1>1. /\ phase = "idle" /\ baseT = 0 /\ ~hadRebase /\ ~reached /\ consumed = 0 /\ walked = 0
      /\ rows = <<>> /\ opened = None
  BY Zenon DEF Enter, RectInv, RequestInv
<1>2. /\ baseT' = 0 /\ ~hadRebase' /\ consumed' = 0 /\ walked' = 0
      /\ rows' = <<>> /\ opened' = None /\ legs' = legs /\ hadRebase' = hadRebase
  BY <1>1, Zenon DEF Enter, baseline
<1>3. /\ calls' = calls + 1 /\ calls < MaxCalls /\ route' \in Routes /\ method' \in Methods
      /\ clamped' \in BOOLEAN /\ tf' \in Ends /\ forced' \in BOOLEAN
      /\ carry' \in {carry, None} /\ (route' = "sampled" => carry' = None)
      /\ reached' = (route' = "sampled" /\ tf' = 0)
  BY Zenon DEF Enter, CarryAtEntry
<1>4. calls \in Nat /\ MaxCalls \in Nat /\ Ends \subseteq Nat /\ legs \in Nat /\ tf' \in Nat
      /\ hadRebase \in BOOLEAN /\ carry \in {None} \union 1..MaxCalls
  BY <1>3, RectificationAssumption, SMT DEF RectInv, TypeOK
<1>5. /\ evalSlice' \in Seq(Nat) /\ evalSlice' # <<>> /\ Increasing(evalSlice')
      /\ route' \notin Sampling => evalSlice' = <<tf'>>
  <2>1. CASE route' \in Sampling
    <3>1. PICK grid \in Grids : evalSlice' = EvalSlice(grid, tf')
      BY <2>1, Zenon DEF Enter
    <3>2. QED
      BY <1>4, <2>1, <3>1, SliceOfGrid, Zenon
  <2>2. CASE route' \notin Sampling
    <3>1. evalSlice' = <<tf'>>
      BY <2>2, Zenon DEF Enter
    <3>2. QED
      BY <1>4, <3>1, Singleton
  <2>3. QED
    BY <2>1, <2>2
<1>6. \/ phase' = "done" /\ ending' = "refused"
      \/ /\ phase' = "head" /\ ending' = "none"
         /\ route' = "events" /\ method' # "dopri5" => SpansRequest(evalSlice', tf')
  BY Zenon DEF Enter
<1>7. Len(evalSlice') \in Nat /\ Len(rows') = 0
  BY <1>2, <1>5, LenProperties
<1>8. TypeOK'
  <2>1. calls' \in 0..MaxCalls /\ carry' \in {None} \union 1..MaxCalls
    BY <1>3, <1>4, SMT
  <2>2. baseT' \in 0..tf' /\ consumed' \in 0..Len(evalSlice') /\ walked' \in Nat
    BY <1>2, <1>4, <1>7, SMT
  <2>3. reached' \in BOOLEAN
    BY <1>3, Zenon
  <2>4. phase' \in {"idle", "head", "done"} /\ ending' \in Endings
    BY <1>6, Zenon DEF Endings
  <2>5. rows' \in Seq([at : Nat, of : Int, against : Nat, added : Ticks])
    BY <1>2, EmptySeq
  <2>6. QED
    BY <1>2, <1>3, <1>4, <1>5, <2>1, <2>2, <2>3, <2>4, <2>5, Zenon DEF TypeOK
<1>9. RequestInv' /\ BaselineInv'
  <2>1. calls' > 0
    BY <1>3, <1>4, SMT
  <2>2. QED
    BY <1>2, <1>5, <1>6, <2>1, Zenon DEF RequestInv, BaselineInv
<1>10. SampledInv'
  <2>1. (IF reached' THEN walked' = tf' ELSE walked' < tf') \/ route' # "sampled"
    <3>1. SUFFICES ASSUME route' = "sampled" PROVE IF reached' THEN walked' = tf' ELSE walked' < tf'
      BY Zenon
    <3>2. reached' <=> tf' = 0
      BY <1>3, <3>1, Zenon
    <3>3. tf' = 0 => walked' = tf'
      BY <1>2, Zenon
    <3>4. tf' # 0 => walked' < tf'
      BY <1>2, <1>4, SMT
    <3>5. QED
      BY <3>2, <3>3, <3>4, Zenon
  <2>2. ~(walked' > 0)
    BY <1>2, SMT
  <2>3. QED
    BY <1>2, <1>3, <1>7, <2>1, <2>2, Zenon DEF SampledInv
<1>11. OtherInv'
  BY <1>2, <1>3, <1>5, <1>6, Zenon DEF OtherInv
<1>12. RowsAreTrue'
  BY <1>7, SMT DEF RowsAreTrue
<1>13. LegsFollowOn' /\ SuccessIsComplete' /\ CarryStaysInArc'
  BY <1>2, <1>6, Zenon DEF LegsFollowOn, SuccessIsComplete, CarryStaysInArc
<1>14. QED
  BY <1>8, <1>9, <1>10, <1>11, <1>12, <1>13, Zenon DEF RectInv

LEMMA LeaveKeeps ==
  ASSUME RectInv, Leave
  PROVE  RectInv'
<1>1. evalSlice' = <<>> /\ rows' = <<>> /\ Len(evalSlice') = 0 /\ Len(rows') = 0
  BY DEF Leave
<1>2. TypeOK'
  <2>1. 0 \in 0..0 /\ 0 \in Nat
    BY SMT
  <2>2. /\ evalSlice' \in Seq(Nat)
        /\ rows' \in Seq([at : Nat, of : Int, against : Nat, added : Ticks])
    BY <1>1, EmptySeq
  <2>3. QED
    BY <1>1, <2>1, <2>2, Zenon DEF Leave, RectInv, TypeOK, Routes, Sampling, Methods, Endings
<1>3. Increasing(evalSlice)' /\ RowsAreTrue'
  BY <1>1, SMT DEF Increasing, RowsAreTrue
<1>4. QED
  BY <1>1, <1>2, <1>3, Zenon
     DEF Leave, RectInv, RequestInv, BaselineInv, SampledInv, OtherInv, LegsFollowOn,
         SuccessIsComplete, CarryStaysInArc

-----------------------------------------------------------------------------
(* How a call ends, and how it goes on *)

LEMMA SegmentEndFacts ==
  ASSUME TypeOK
  PROVE  /\ SegmentEnd \in baseT..tf /\ baseT \in Nat /\ tf \in Nat /\ SegmentEnd \in Nat
         /\ baseT < tf => baseT < SegmentEnd
<1>1. baseT \in Nat /\ tf \in Nat /\ baseT <= tf /\ Segment \in Nat /\ Segment > 0
  BY RectificationAssumption, SMT DEF TypeOK
<1>2. QED
  BY <1>1, SMT DEF SegmentEnd, BoundedEnd

LEMMA EndsWith ==
  ASSUME RectInv, phase = "head", UNCHANGED request, phase' = "done",
         TypeOK', BaselineInv', RowsAreTrue', SuccessIsComplete', CarryStaysInArc'
  PROVE  RectInv'
<1>1. evalSlice' = evalSlice /\ calls' = calls
  BY Zenon DEF request
<1>2. RequestInv'
  BY <1>1, Zenon DEF RectInv, RequestInv, Increasing
<1>3. SampledInv' /\ OtherInv' /\ LegsFollowOn'
  BY Zenon DEF SampledInv, OtherInv, LegsFollowOn
<1>4. QED
  BY <1>2, <1>3, Zenon DEF RectInv

LEMMA GivesUp ==
  ASSUME RectInv, phase = "head", route # "sampled", GiveUp, legs' \in Nat,
         UNCHANGED <<request, progress, carry, opened>>
  PROVE  RectInv'
<1>1. phase' = "done" /\ ending' = "failed" /\ UNCHANGED <<baseline, rows, walked>>
  BY Zenon DEF GiveUp, ReturnWith
<1>2. rows' = <<>> /\ Len(rows') = 0
  BY <1>1, EmptySeq DEF RectInv, OtherInv
<1>3. TypeOK'
  BY <1>1, Zenon DEF request, baseline, progress, RectInv, TypeOK, Endings
<1>4. RowsAreTrue'
  BY <1>2, SMT DEF RowsAreTrue
<1>5. BaselineInv' /\ SuccessIsComplete' /\ CarryStaysInArc'
  BY <1>1, Zenon DEF request, baseline, RectInv, BaselineInv, SuccessIsComplete, CarryStaysInArc
<1>6. QED
  BY <1>1, <1>3, <1>4, <1>5, EndsWith, Zenon

\* The one row of a final path, at tf.
LEMMA Gives ==
  ASSUME RectInv, phase = "head", route \notin Sampling, NEW against \in Nat, NEW added \in Ticks,
         against = (IF added = None THEN 0 ELSE added), Give(AtEnd, against, added),
         legs' \in Nat, walked' \in Nat, walked' >= tf,
         UNCHANGED <<request, baseline, progress, carry, opened>>
  PROVE  RectInv'
<1>1. phase' = "done" /\ ending' = "success"
  BY Zenon DEF Give, ReturnWith
<1> DEFINE row == [at |-> tf, of |-> tf, against |-> against, added |-> added]
<1>2. rows' = <<row>>
  BY Zenon DEF Give, Row, AtEnd
<1>3. row \in [at : Nat, of : Int, against : Nat, added : Ticks]
  BY RectificationAssumption, SMT DEF RectInv, TypeOK
<1>4. /\ row.at = tf /\ row.of = tf /\ row.against = against /\ row.added = added
  BY Zenon
<1> HIDE DEF row
<1>5. /\ rows' \in Seq([at : Nat, of : Int, against : Nat, added : Ticks])
      /\ Len(rows') = 1 /\ rows'[1] = row
  BY <1>2, <1>3, SMT
<1>6. evalSlice' = <<tf>> /\ tf' = tf /\ Len(evalSlice') = 1 /\ evalSlice'[1] = tf
  <2>1. route # "sampled"
    BY Zenon DEF Sampling
  <2>2. evalSlice = <<tf>> /\ evalSlice' = evalSlice /\ tf' = tf
    BY <2>1, Zenon DEF RectInv, OtherInv, request
  <2>3. Len(<<tf>>) = 1 /\ <<tf>>[1] = tf
    BY SMT
  <2>4. QED
    BY <2>2, <2>3, Zenon
<1>7. 1..1 = {1} /\ 1 <= 1
  BY SMT
<1>8. TypeOK'
  BY <1>1, <1>5, Zenon DEF request, baseline, progress, RectInv, TypeOK, Endings
<1>9. RowsAreTrue'
  <2>1. \A i \in 1..Len(rows') : i = 1
    <3>1. Len(rows') = 1
      BY <1>5
    <3>2. QED
      BY <3>1, SMT
  <2>2. IsTrue(rows[1])'
    BY <1>4, <1>5, Zenon DEF IsTrue
  <2>3. 1 <= Len(evalSlice') /\ rows'[1].at = evalSlice'[1]
    BY <1>4, <1>5, <1>6, <1>7, Zenon
  <2>4. QED
    BY <2>1, <2>2, <2>3, Zenon DEF RowsAreTrue
<1>10. SuccessIsComplete'
  BY <1>5, <1>6, <1>7, Zenon DEF SuccessIsComplete
<1>11. BaselineInv' /\ CarryStaysInArc'
  BY Zenon DEF request, baseline, RectInv, BaselineInv, CarryStaysInArc
<1>12. QED
  BY <1>1, <1>8, <1>9, <1>10, <1>11, EndsWith, Zenon

\* A final path that rebases to t and goes on from there.
LEMMA Restarts ==
  ASSUME RectInv, phase = "head", route \in Checked, NEW t \in baseT..tf, Rebased(t), walked' = t,
         Go, legs' \in Nat, UNCHANGED <<request, progress, rows, carry, opened>>
  PROVE  RectInv'
<1>1. baseT' = t /\ hadRebase' = TRUE /\ phase' = "head" /\ ending' = ending
  BY Zenon DEF Rebased, Go
<1>2. route \notin Sampling /\ route # "sampled" /\ route # "events"
  BY Zenon DEF Checked, Sampling
<1>3. /\ evalSlice' = evalSlice /\ tf' = tf /\ route' = route /\ calls' = calls /\ method' = method
      /\ reached' = reached /\ consumed' = consumed
  BY Zenon DEF request, progress
<1>4. t \in Nat /\ t \in 0..tf
  BY RectificationAssumption, SMT DEF RectInv, TypeOK
<1>5. TypeOK'
  BY <1>1, <1>4, Zenon DEF request, progress, RectInv, TypeOK
<1>6. RequestInv' /\ BaselineInv' /\ LegsFollowOn'
  BY <1>1, <1>3, Zenon DEF RectInv, RequestInv, Increasing, BaselineInv, LegsFollowOn
<1>7. SampledInv' /\ OtherInv'
  BY <1>1, <1>2, <1>3, Zenon DEF RectInv, SampledInv, OtherInv
<1>8. RowsAreTrue' /\ SuccessIsComplete' /\ CarryStaysInArc'
  BY <1>1, <1>3, Zenon DEF RectInv, RowsAreTrue, IsTrue, SuccessIsComplete, CarryStaysInArc
<1>9. QED
  BY <1>5, <1>6, <1>7, <1>8, Zenon DEF RectInv

-----------------------------------------------------------------------------
(* The final paths *)

LEMMA FinalFacts ==
  ASSUME RectInv, phase = "head", route \notin Sampling
  PROVE  /\ baseT \in Nat /\ tf \in Nat /\ baseT <= tf /\ legs \in Nat /\ legs + 1 \in Nat
         /\ baseT = walked /\ walked \in Nat /\ route # "sampled"
         /\ AddedBack \in Ticks /\ baseT = (IF AddedBack = None THEN 0 ELSE AddedBack)
         /\ baseT \in Ticks /\ 0 \in Nat /\ None \in Ticks /\ baseT # None
<1>1. baseT \in Nat /\ tf \in Nat /\ baseT <= tf /\ legs \in Nat /\ legs + 1 \in Nat /\ walked \in Nat
  BY RectificationAssumption, SMT DEF RectInv, TypeOK
<1>2. route # "sampled" /\ baseT = walked
  BY Zenon DEF Sampling, RectInv, OtherInv, LegsFollowOn
<1>3. baseT # None /\ 0 \in Nat
  BY <1>1, SMT DEF None
<1>4. AddedBack = (IF hadRebase THEN baseT ELSE None) /\ (~hadRebase => baseT = 0)
  BY Zenon DEF AddedBack, RectInv, BaselineInv
<1>5. QED
  BY <1>1, <1>2, <1>3, <1>4, Zenon DEF Ticks

LEMMA FinalArrivedKeeps ==
  ASSUME RectInv, FinalArrived
  PROVE  RectInv'
<1>1. phase = "head" /\ route \notin Sampling /\ baseT = tf /\ Give(AtEnd, baseT, baseT)
      /\ legs' = legs /\ walked' = walked /\ UNCHANGED <<request, baseline, progress, carry, opened>>
  BY Zenon DEF FinalArrived, InLoop, Sampling
<1>2. walked' \in Nat /\ walked' >= tf /\ legs' \in Nat
  BY <1>1, FinalFacts, SMT
<1>3. baseT \in Nat /\ baseT \in Ticks /\ baseT = (IF baseT = None THEN 0 ELSE baseT)
  BY <1>1, FinalFacts, Zenon
<1>4. QED
  BY <1>1, <1>2, <1>3, Gives, Zenon

LEMMA FinalLegKeeps ==
  ASSUME RectInv, FinalLeg
  PROVE  RectInv'
<1>1. phase = "head" /\ route = "final" /\ legs' = legs + 1
      /\ UNCHANGED <<request, progress, carry, opened>>
  BY Zenon DEF FinalLeg, InLoop
<1>2. route \in Checked /\ route \notin Sampling /\ route # "sampled"
  BY <1>1, Zenon DEF Checked, Sampling
<1>3. legs' \in Nat /\ SegmentEnd \in baseT..tf /\ SegmentEnd \in Nat /\ tf \in Nat
  BY <1>1, <1>2, FinalFacts, SegmentEndFacts DEF RectInv
<1>4. CASE walked' = SegmentEnd /\ Rebased(SegmentEnd) /\ Go /\ UNCHANGED rows
  BY <1>1, <1>2, <1>3, <1>4, Restarts, Zenon
<1>5. CASE /\ walked' = SegmentEnd /\ SegmentEnd = tf /\ Give(AtEnd, baseT, AddedBack)
           /\ UNCHANGED baseline
  <2>1. walked' \in Nat /\ walked' >= tf
    BY <1>3, <1>5, SMT
  <2>2. QED
    BY <1>1, <1>2, <1>3, <1>5, <2>1, FinalFacts, Gives, Zenon
<1>6. CASE GiveUp
  BY <1>1, <1>2, <1>3, <1>6, GivesUp, Zenon
<1>7. QED
  BY <1>4, <1>5, <1>6, Zenon DEF FinalLeg

LEMMA FinalEventLegKeeps ==
  ASSUME RectInv, FinalEventLeg
  PROVE  RectInv'
<1>1. phase = "head" /\ route = "finalEvents" /\ legs' = legs + 1
      /\ UNCHANGED <<request, progress, carry, opened>>
  BY Zenon DEF FinalEventLeg, InLoop
<1>2. route \in Checked /\ route \notin Sampling /\ route # "sampled"
  BY <1>1, Zenon DEF Checked, Sampling
<1>3. legs' \in Nat /\ tf \in Nat
  BY <1>1, <1>2, FinalFacts
<1>4. CASE \E t \in RestartsAt : Rebased(t) /\ walked' = t /\ Go /\ UNCHANGED rows
  <2>1. PICK t \in RestartsAt : Rebased(t) /\ walked' = t /\ Go /\ UNCHANGED rows
    BY <1>4
  <2>2. t \in baseT..tf
    BY Zenon DEF RestartsAt
  <2>3. QED
    BY <1>1, <1>2, <1>3, <2>1, <2>2, Restarts, Zenon
<1>5. CASE Give(AtEnd, baseT, baseT) /\ walked' = tf /\ UNCHANGED baseline
  <2>1. walked' \in Nat /\ walked' >= tf
    BY <1>3, <1>5, SMT
  <2>2. baseT \in Nat /\ baseT \in Ticks /\ baseT = (IF baseT = None THEN 0 ELSE baseT)
    BY <1>1, <1>2, FinalFacts, Zenon
  <2>3. QED
    BY <1>1, <1>2, <1>3, <1>5, <2>1, <2>2, Gives, Zenon
<1>6. CASE GiveUp
  BY <1>1, <1>2, <1>3, <1>6, GivesUp, Zenon
<1>7. QED
  BY <1>4, <1>5, <1>6, Zenon DEF FinalEventLeg

LEMMA OutOfRestartsKeeps ==
  ASSUME RectInv, OutOfRestarts
  PROVE  RectInv'
<1>1. phase = "head" /\ route \in Checked /\ route # "sampled" /\ GiveUp /\ legs' = legs
      /\ UNCHANGED <<request, progress, carry, opened>>
  BY Zenon DEF OutOfRestarts, Checked
<1>2. legs' \in Nat
  BY <1>1, Zenon DEF RectInv, TypeOK
<1>3. QED
  BY <1>1, <1>2, GivesUp, Zenon

LEMMA ReusableLegKeeps ==
  ASSUME RectInv, ReusableLeg
  PROVE  RectInv'
<1>1. phase = "head" /\ route = "reusable" /\ legs' = 1
      /\ UNCHANGED <<request, progress, carry, opened>>
  BY Zenon DEF ReusableLeg
<1>2. route \notin Sampling /\ route # "sampled"
  BY <1>1, Zenon DEF Sampling
<1>3. legs' \in Nat /\ tf \in Nat
  BY <1>1, <1>2, FinalFacts, SMT
<1>4. CASE Give(AtEnd, 0, None) /\ walked' = tf /\ UNCHANGED baseline
  <2>1. walked' \in Nat /\ walked' >= tf
    BY <1>3, <1>4, SMT
  <2>2. 0 \in Nat /\ None \in Ticks /\ 0 = (IF None = None THEN 0 ELSE None)
    BY <1>1, <1>2, FinalFacts, Zenon
  <2>3. QED
    BY <1>1, <1>2, <1>3, <1>4, <2>1, <2>2, Gives, Zenon
<1>5. CASE GiveUp
  BY <1>1, <1>2, <1>3, <1>5, GivesUp, Zenon
<1>6. QED
  BY <1>4, <1>5, Zenon DEF ReusableLeg

-----------------------------------------------------------------------------
(* Rows *)

LEMMA FunctionIsSeq ==
  ASSUME NEW n \in Nat, NEW S, NEW f \in [1..n -> S]
  PROVE  f \in Seq(S) /\ Len(f) = n
<1>1. f \in Seq(S)
  BY SeqDef, Zenon
<1>2. Len(f) \in Nat /\ DOMAIN f = 1..Len(f) /\ DOMAIN f = 1..n
  BY <1>1, LenProperties
<1>3. QED
  BY <1>1, <1>2, SMT

State == [at : Nat, of : Nat]

\* The true states at the first n labels.
StatesAt(labels, n) == [i \in 1..n |-> [at |-> labels[i], of |-> labels[i]]]

LEMMA StatesAtFacts ==
  ASSUME NEW labels \in Seq(Nat), NEW n \in 0..Len(labels)
  PROVE  /\ StatesAt(labels, n) \in Seq(State) /\ Len(StatesAt(labels, n)) = n
         /\ \A i \in 1..n : /\ StatesAt(labels, n)[i].at = labels[i]
                            /\ StatesAt(labels, n)[i].of = labels[i]
                            /\ labels[i] \in Nat /\ i \in 1..Len(labels)
<1>1. n \in Nat /\ \A i \in 1..n : i \in 1..Len(labels)
  BY LenProperties, SMT
<1>2. \A i \in 1..n : labels[i] \in Nat
  BY <1>1, ElementOfSeq, Zenon
<1>3. StatesAt(labels, n) \in [1..n -> State]
  BY <1>2, Zenon DEF StatesAt, State
<1>4. StatesAt(labels, n) \in Seq(State) /\ Len(StatesAt(labels, n)) = n
  BY <1>1, <1>3, FunctionIsSeq
<1>5. \A i \in 1..n : StatesAt(labels, n)[i].at = labels[i] /\ StatesAt(labels, n)[i].of = labels[i]
  BY Zenon DEF StatesAt
<1>6. QED
  BY <1>1, <1>2, <1>4, <1>5

LEMMA WrittenIs ==
  ASSUME NEW labels \in Seq(Nat), NEW n \in Nat, Len(labels) <= n
  PROVE  Written(labels, n, 0) = StatesAt(labels, Len(labels))
<1>1. \A i \in 1..Len(labels) :
        [at |-> labels[i], of |-> IF i <= n THEN labels[i] - 0 ELSE None]
          = [at |-> labels[i], of |-> labels[i]]
  <2>1. SUFFICES ASSUME NEW i \in 1..Len(labels)
                 PROVE  (IF i <= n THEN labels[i] - 0 ELSE None) = labels[i]
    BY Zenon
  <2>2. Len(labels) \in Nat /\ labels[i] \in Nat
    BY LenProperties, ElementOfSeq
  <2>3. i <= n /\ labels[i] - 0 = labels[i]
    BY <2>2, SMT
  <2>4. QED
    BY <2>3, Zenon
<1>2. QED
  BY <1>1, Zenon DEF Written, StatesAt

LEMMA FirstOfIs ==
  ASSUME NEW labels \in Seq(Nat), NEW n \in 0..Len(labels)
  PROVE  FirstOf(labels, n, 0) = StatesAt(labels, n)
<1> DEFINE p == SubSeq(labels, 1, n)
<1>1. Len(labels) \in Nat
  BY LenProperties
<1>2. 1 \in 1..Len(labels) + 1 /\ n \in 1 - 1..Len(labels) /\ n \in Nat /\ n - 1 + 1 = n
  BY <1>1, SMT
<1>3. p \in Seq(Nat) /\ Len(p) = n - 1 + 1 /\ \A i \in 1..n - 1 + 1 : p[i] = labels[1 + i - 1]
  BY <1>2, Slice
<1> HIDE DEF p
<1>4. Len(p) = n /\ Len(p) <= n /\ \A i \in 1..n : p[i] = labels[i]
  <2>1. Len(p) = n /\ Len(p) <= n
    BY <1>2, <1>3, SMT
  <2>2. \A i \in 1..n : i \in 1..n - 1 + 1 /\ 1 + i - 1 = i
    BY <1>2, SMT
  <2>3. QED
    BY <1>3, <2>1, <2>2, Zenon
<1>5. Written(p, n, 0) = StatesAt(p, n)
  BY <1>2, <1>3, <1>4, WrittenIs, Zenon
<1>6. StatesAt(p, n) = StatesAt(labels, n)
  BY <1>4, Zenon DEF StatesAt
<1>7. QED
  BY <1>5, <1>6, Zenon DEF FirstOf, p

\* A true state, relative to the caller's baseline.
TrueRow(t) == [at |-> t, of |-> t, against |-> baseT, added |-> AddedBack]

LEMMA TrueRowFacts ==
  ASSUME TypeOK, BaselineInv, NEW t \in Nat
  PROVE  /\ TrueRow(t) \in [at : Nat, of : Int, against : Nat, added : Ticks]
         /\ IsTrue(TrueRow(t)) /\ TrueRow(t).at = t
<1>1. baseT \in Nat /\ baseT # None /\ t \in Int
  BY RectificationAssumption, SMT DEF TypeOK, None
<1>2. AddedBack = (IF hadRebase THEN baseT ELSE None) /\ (~hadRebase => baseT = 0)
  BY Zenon DEF AddedBack, BaselineInv
<1>3. AddedBack \in Ticks /\ baseT = (IF AddedBack = None THEN 0 ELSE AddedBack)
  BY <1>1, <1>2, Zenon DEF Ticks
<1>4. QED
  BY <1>1, <1>3, Zenon DEF TrueRow, IsTrue

LEMMA CorrectedIs ==
  ASSUME NEW states \in Seq(State), \A i \in 1..Len(states) : states[i].of = states[i].at
  PROVE  Corrected(states) = [i \in 1..Len(states) |-> TrueRow(states[i].at)]
BY Zenon DEF Corrected, Row, TrueRow

LEMMA CorrectedFacts ==
  ASSUME TypeOK, BaselineInv,
         NEW states \in Seq(State), \A i \in 1..Len(states) : states[i].of = states[i].at
  PROVE  /\ Corrected(states) \in Seq([at : Nat, of : Int, against : Nat, added : Ticks])
         /\ Len(Corrected(states)) = Len(states)
         /\ \A i \in 1..Len(states) : /\ IsTrue(Corrected(states)[i])
                                      /\ Corrected(states)[i].at = states[i].at
<1>1. Len(states) \in Nat /\ \A i \in 1..Len(states) : states[i].at \in Nat
  <2>1. Len(states) \in Nat /\ \A i \in 1..Len(states) : states[i] \in State
    BY LenProperties, ElementOfSeq
  <2>2. QED
    BY <2>1, Zenon DEF State
<1> DEFINE f == [i \in 1..Len(states) |-> TrueRow(states[i].at)]
<1>2. f \in [1..Len(states) -> [at : Nat, of : Int, against : Nat, added : Ticks]]
  BY <1>1, TrueRowFacts, Zenon
<1>3. \A i \in 1..Len(states) : IsTrue(f[i]) /\ f[i].at = states[i].at
  BY <1>1, TrueRowFacts, Zenon
<1> HIDE DEF f
<1>4. f \in Seq([at : Nat, of : Int, against : Nat, added : Ticks]) /\ Len(f) = Len(states)
  BY <1>1, <1>2, FunctionIsSeq
<1>5. Corrected(states) = f
  BY CorrectedIs, Zenon DEF f
<1>6. QED
  BY <1>3, <1>4, <1>5, Zenon

-----------------------------------------------------------------------------
(* The event path *)

LEMMA SliceTypes ==
  ASSUME TypeOK
  PROVE  /\ evalSlice \in Seq(Nat) /\ evalSlice \in Seq(Int) /\ Len(evalSlice) \in Nat
         /\ \A i \in 1..Len(evalSlice) : evalSlice[i] \in Nat
         /\ evalSlice # <<>> => Len(evalSlice) > 0
<1>1. evalSlice \in Seq(Nat)
  BY DEF TypeOK
<1>2. evalSlice \in Seq(Int) /\ Len(evalSlice) \in Nat
      /\ \A i \in 1..Len(evalSlice) : evalSlice[i] \in Nat
  BY <1>1, SeqMonotonic, LenProperties, ElementOfSeq, SMT
<1>3. evalSlice # <<>> => Len(evalSlice) > 0
  BY <1>1, EmptySeq, SMT
<1>4. QED
  BY <1>1, <1>2, <1>3

LEMMA SamplesUpToFacts ==
  ASSUME TypeOK, Increasing(evalSlice), NEW t \in Int
  PROVE  /\ SamplesUpTo(t) \in Seq(Nat) /\ Len(SamplesUpTo(t)) \in 0..Len(evalSlice)
         /\ \A i \in 1..Len(SamplesUpTo(t)) : SamplesUpTo(t)[i] = evalSlice[i]
         /\ \A i \in 1..Len(evalSlice) : evalSlice[i] <= t <=> i <= Len(SamplesUpTo(t))
<1> DEFINE n == LeadingUpTo(evalSlice, t)
           p == SamplesUpTo(t)
<1>1. n \in 0..Len(evalSlice)
  BY SliceTypes, LeadingFacts
<1>2. \A i \in 1..Len(evalSlice) : evalSlice[i] <= t <=> i <= n
  BY SliceTypes, LeadingSplits
<1>3. p = SubSeq(evalSlice, 1, n)
  BY Zenon DEF SamplesUpTo
<1> HIDE DEF n
<1>4. 1 \in 1..Len(evalSlice) + 1 /\ n \in 1 - 1..Len(evalSlice) /\ n - 1 + 1 = n
  BY <1>1, SliceTypes, SMT
<1>5. p \in Seq(Nat) /\ Len(p) = n - 1 + 1
      /\ \A i \in 1..n - 1 + 1 : p[i] = evalSlice[1 + i - 1]
  BY <1>3, <1>4, SliceTypes, Slice
<1> HIDE DEF p
<1>6. Len(p) = n
  BY <1>4, <1>5
<1>7. \A i \in 1..n : p[i] = evalSlice[i]
  <2>1. \A i \in 1..n : i \in 1..n - 1 + 1 /\ 1 + i - 1 = i
    BY <1>1, SMT
  <2>2. QED
    BY <1>5, <2>1, Zenon
<1>8. QED
  BY <1>1, <1>2, <1>5, <1>6, <1>7, Zenon DEF p

LEMMA StartStop ==
  ASSUME RectInv, phase = "head", route = "events"
  PROVE  Start = 0 /\ Stop \in Nat /\ Stop >= tf
<1>1. tf \in Nat
  BY RectificationAssumption, SMT DEF RectInv, TypeOK
<1>2. CASE method = "dopri5"
  BY <1>1, <1>2, SMT DEF Start, Stop
<1>3. CASE method # "dopri5"
  <2>1. evalSlice[1] <= 0 /\ evalSlice[Len(evalSlice)] >= tf
    BY <1>3, Zenon DEF RectInv, OtherInv, SpansRequest
  <2>2. evalSlice # <<>>
    BY Zenon DEF RectInv, RequestInv
  <2>3. 1 \in 1..Len(evalSlice) /\ Len(evalSlice) \in 1..Len(evalSlice)
    BY <2>2, SliceTypes, SMT DEF RectInv
  <2>4. evalSlice[1] \in Nat /\ evalSlice[Len(evalSlice)] \in Nat
    BY <2>3, SliceTypes, Zenon DEF RectInv
  <2>5. Start = evalSlice[1] /\ Stop = evalSlice[Len(evalSlice)]
    BY <1>3, Zenon DEF Start, Stop
  <2>6. QED
    BY <2>1, <2>4, <2>5, SMT
<1>4. QED
  BY <1>2, <1>3

\* What is handed back are n states at labels that are the samples, but for the
\* event's own.
LEMMA EventEnds ==
  ASSUME RectInv, phase = "head", route = "events",
         UNCHANGED <<request, baseline, progress>>, legs' = 1, opened' = None,
         carry' \in {None} \union 1..MaxCalls, walked' \in Nat,
         phase' = "done", ending' \in Endings,
         NEW labels \in Seq(Nat), NEW n \in 0..Len(labels),
         rows' = Corrected(FirstOf(labels, n, Start)),
         \A i \in 1..n : (ending' = "event" => i < n) =>
                           i <= Len(evalSlice) /\ labels[i] = evalSlice[i],
         ending' = "success" =>
           walked' >= tf /\ \A i \in 1..Len(evalSlice) : evalSlice[i] <= tf => i <= n
  PROVE  RectInv'
<1> DEFINE states == StatesAt(labels, n)
<1>1. rows' = Corrected(states)
  BY StartStop, FirstOfIs, Zenon
<1>2. states \in Seq(State) /\ Len(states) = n
      /\ \A i \in 1..n : states[i].at = labels[i] /\ states[i].of = labels[i]
  BY StatesAtFacts, Zenon
<1> HIDE DEF states
<1>3. TypeOK /\ BaselineInv
  BY DEF RectInv
<1>4. /\ rows' \in Seq([at : Nat, of : Int, against : Nat, added : Ticks])
      /\ Len(rows') = n
      /\ \A i \in 1..n : IsTrue(rows'[i]) /\ rows'[i].at = labels[i]
  <2>1. \A i \in 1..Len(states) : states[i].of = states[i].at
    BY <1>2, Zenon
  <2>2. /\ Corrected(states) \in Seq([at : Nat, of : Int, against : Nat, added : Ticks])
        /\ Len(Corrected(states)) = Len(states)
        /\ \A i \in 1..Len(states) : /\ IsTrue(Corrected(states)[i])
                                     /\ Corrected(states)[i].at = states[i].at
    BY <1>2, <1>3, <2>1, CorrectedFacts
  <2>3. QED
    BY <1>1, <1>2, <2>2, Zenon
<1>5. evalSlice' = evalSlice /\ tf' = tf
  BY Zenon DEF request
<1>6. TypeOK'
  <2>1. legs' \in Nat
    BY SMT
  <2>2. QED
    BY <1>3, <1>4, <2>1, Zenon DEF request, baseline, progress, TypeOK
<1>7. RowsAreTrue'
  BY <1>4, <1>5, Zenon DEF RowsAreTrue, IsTrue
<1>8. SuccessIsComplete'
  BY <1>4, <1>5, Zenon DEF SuccessIsComplete
<1>9. BaselineInv' /\ CarryStaysInArc'
  BY <1>3, Zenon DEF baseline, BaselineInv, CarryStaysInArc
<1>10. QED
  BY <1>6, <1>7, <1>8, <1>9, EndsWith, Zenon

LEMMA EventLegKeeps ==
  ASSUME RectInv, EventLeg
  PROVE  RectInv'
<1> DEFINE labels == SamplesUpTo(Stop)
<1>1. /\ phase = "head" /\ route = "events" /\ legs' = 1 /\ opened' = None
      /\ UNCHANGED <<request, baseline, progress>>
      /\ carry' \in {carry, calls}
  BY Zenon DEF EventLeg
<1>2. TypeOK /\ Increasing(evalSlice) /\ rows = <<>> /\ tf \in Nat /\ walked \in Nat
  <2>1. tf \in Nat
    BY RectificationAssumption, SMT DEF RectInv, TypeOK
  <2>2. QED
    BY <1>1, <2>1, Zenon DEF RectInv, RequestInv, OtherInv, TypeOK
<1>3. carry' \in {None} \union 1..MaxCalls
  <2>1. calls \in 0..MaxCalls /\ calls > 0 /\ carry \in {None} \union 1..MaxCalls
    BY <1>1, Zenon DEF RectInv, RequestInv, TypeOK
  <2>2. calls \in 1..MaxCalls
    BY <2>1, RectificationAssumption, SMT
  <2>3. QED
    BY <1>1, <2>1, <2>2, Zenon
<1>4. Start = 0 /\ Stop \in Nat /\ Stop >= tf /\ Stop \in Int
  BY <1>1, StartStop, SMT
<1>5. /\ labels \in Seq(Nat) /\ Len(labels) \in 0..Len(evalSlice)
      /\ \A i \in 1..Len(labels) : labels[i] = evalSlice[i]
      /\ \A i \in 1..Len(evalSlice) : evalSlice[i] <= Stop <=> i <= Len(labels)
  BY <1>2, <1>4, SamplesUpToFacts
<1> HIDE DEF labels
<1>6. Len(evalSlice) \in Nat /\ Len(labels) \in Nat
      /\ \A i \in 1..Len(labels) : i <= Len(evalSlice)
  BY <1>2, <1>5, SliceTypes, SMT
<1>7. CASE /\ ReturnWith("success") /\ walked' = Stop
           /\ rows' = Corrected(FirstOf(labels, Len(labels), Start))
  <2>1. phase' = "done" /\ ending' = "success" /\ ending' \in Endings
    BY <1>7, Zenon DEF ReturnWith, Endings
  <2>2. walked' \in Nat /\ walked' >= tf /\ Len(labels) \in 0..Len(labels)
    BY <1>4, <1>6, <1>7, SMT
  <2>3. \A i \in 1..Len(evalSlice) : evalSlice[i] <= tf => i <= Len(labels)
    <3>1. SUFFICES ASSUME NEW i \in 1..Len(evalSlice), evalSlice[i] <= tf PROVE i <= Len(labels)
      OBVIOUS
    <3>2. evalSlice[i] <= Stop
      BY <1>2, <1>4, <3>1, SliceTypes, SMT
    <3>3. QED
      BY <1>5, <3>2, Zenon
  <2>4. QED
    BY <1>1, <1>3, <1>5, <1>6, <1>7, <2>1, <2>2, <2>3, EventEnds, Zenon
<1>8. CASE \E how \in {"failed", "event_invalid"}, n \in 0..Len(labels) :
             /\ ReturnWith(how) /\ rows' = Corrected(FirstOf(labels, n, Start))
             /\ UNCHANGED walked
  <2>1. PICK how \in {"failed", "event_invalid"}, n \in 0..Len(labels) :
               /\ ReturnWith(how) /\ rows' = Corrected(FirstOf(labels, n, Start))
               /\ UNCHANGED walked
    BY <1>8
  <2>2. phase' = "done" /\ ending' # "success" /\ ending' \in Endings
    BY <2>1, Zenon DEF ReturnWith, Endings
  <2>3. \A i \in 1..n : i \in 1..Len(labels)
    BY <1>6, <2>1, SMT
  <2>4. QED
    BY <1>1, <1>2, <1>3, <1>5, <1>6, <2>1, <2>2, <2>3, EventEnds, Zenon
<1>9. CASE ReturnWith("gravity") /\ UNCHANGED <<rows, walked>>
  <2>1. phase' = "done" /\ ending' # "success" /\ ending' \in Endings
    BY <1>9, Zenon DEF ReturnWith, Endings
  <2>2. rows' = <<>> /\ Len(rows') = 0 /\ 0 \in 0..Len(labels) /\ legs' \in Nat
    BY <1>1, <1>2, <1>6, <1>9, SMT
  <2>3. rows' \in Seq([at : Nat, of : Int, against : Nat, added : Ticks])
    BY <2>2, EmptySeq
  <2>4. TypeOK'
    BY <1>1, <1>2, <1>3, <1>9, <2>1, <2>2, <2>3, Zenon DEF request, baseline, progress, TypeOK
  <2>5. RowsAreTrue'
    BY <2>2, SMT DEF RowsAreTrue
  <2>6. BaselineInv' /\ SuccessIsComplete' /\ CarryStaysInArc'
    BY <1>1, <2>1, Zenon
       DEF RectInv, baseline, BaselineInv, SuccessIsComplete, CarryStaysInArc
  <2>7. QED
    BY <1>1, <2>1, <2>4, <2>5, <2>6, EndsWith, Zenon
<1>10. CASE \E t \in Start..Stop :
              \E n \in KeptBefore(t) :
                /\ ReturnWith("event") /\ walked' = t
                /\ rows' = Corrected(FirstOf(Append(SubSeq(SamplesUpTo(t - 1), 1, n), t),
                                             n + 1, Start))
  <2>0. PICK t \in Start..Stop :
               \E n \in KeptBefore(t) :
                 /\ ReturnWith("event") /\ walked' = t
                 /\ rows' = Corrected(FirstOf(Append(SubSeq(SamplesUpTo(t - 1), 1, n), t),
                                              n + 1, Start))
    BY <1>10
  <2>1. PICK n \in KeptBefore(t) :
               /\ ReturnWith("event") /\ walked' = t
               /\ rows' = Corrected(FirstOf(Append(SubSeq(SamplesUpTo(t - 1), 1, n), t),
                                            n + 1, Start))
    BY <2>0
  <2> DEFINE whole == SamplesUpTo(t - 1)
             before == SubSeq(whole, 1, n)
             all == Append(before, t)
  <2>2. t \in Nat /\ t - 1 \in Int
    BY <1>4, SMT
  <2>3. whole \in Seq(Nat) /\ Len(whole) \in 0..Len(evalSlice)
        /\ \A i \in 1..Len(whole) : whole[i] = evalSlice[i]
    BY <1>2, <2>2, SamplesUpToFacts
  <2>4. n \in KeptBefore(t) /\ (n = Len(whole) \/ n \in 0..Len(whole))
    BY <2>1, Zenon DEF KeptBefore
  <2>5. /\ ReturnWith("event") /\ walked' = t
        /\ rows' = Corrected(FirstOf(all, n + 1, Start))
    BY <2>1
  <2> HIDE DEF whole
  <2>6. /\ n \in 0..Len(whole) /\ n \in 0..Len(evalSlice)
        /\ 1 \in 1..Len(whole) + 1 /\ n \in 1 - 1..Len(whole) /\ n - 1 + 1 = n
    BY <1>6, <2>3, <2>4, SMT
  <2>7. before \in Seq(Nat) /\ Len(before) = n - 1 + 1
        /\ \A i \in 1..n - 1 + 1 : before[i] = whole[1 + i - 1]
    BY <2>3, <2>6, Slice
  <2> HIDE DEF before
  <2>8. before \in Seq(Nat) /\ Len(before) = n
    BY <2>6, <2>7
  <2>9. \A i \in 1..n : i \in 1..n - 1 + 1 /\ 1 + i - 1 = i /\ i \in 1..Len(whole)
    BY <2>6, SMT
  <2>10. \A i \in 1..n : before[i] = evalSlice[i]
    BY <2>3, <2>7, <2>9, Zenon
  <2>11. all \in Seq(Nat) /\ Len(all) = n + 1
         /\ \A i \in 1..n : all[i] = before[i]
    BY <2>2, <2>8, AppendProperties
  <2> HIDE DEF all
  <2>12. phase' = "done" /\ ending' = "event" /\ ending' # "success" /\ ending' \in Endings
    BY <2>5, Zenon DEF ReturnWith, Endings
  <2>13. n + 1 \in 0..Len(all)
         /\ \A i \in 1..n + 1 : i < n + 1 => i \in 1..n /\ i <= Len(evalSlice)
    BY <1>6, <2>6, <2>11, SMTT(30)
  <2>14. \A i \in 1..n + 1 : (ending' = "event" => i < n + 1) =>
           i <= Len(evalSlice) /\ all[i] = evalSlice[i]
    BY <2>10, <2>11, <2>12, <2>13, Zenon
  <2>15. QED
    BY <1>1, <1>3, <2>2, <2>5, <2>11, <2>12, <2>13, <2>14, EventEnds, Zenon
<1>11. QED
  BY <1>7, <1>8, <1>9, <1>10, Zenon DEF EventLeg, labels

-----------------------------------------------------------------------------
(* The rectified path *)

LEMMA HeadFacts ==
  ASSUME RectInv, phase = "head", route = "sampled", ~reached
  PROVE  /\ baseT = walked /\ baseT \in Nat /\ tf \in Nat /\ baseT < tf
         /\ SegmentEnd \in Nat /\ SegmentEnd <= tf /\ baseT < SegmentEnd
         /\ legs \in Nat /\ legs + 1 \in Nat /\ consumed \in Nat /\ consumed = Len(rows)
         /\ consumed <= Len(evalSlice) /\ TypeOK /\ BaselineInv /\ Increasing(evalSlice)
<1>1. baseT = walked /\ walked < tf /\ TypeOK /\ BaselineInv /\ Increasing(evalSlice)
      /\ Len(rows) = consumed
  BY Zenon DEF RectInv, LegsFollowOn, SampledInv, RequestInv
<1>2. SegmentEnd \in baseT..tf /\ baseT \in Nat /\ tf \in Nat /\ SegmentEnd \in Nat
      /\ (baseT < tf => baseT < SegmentEnd)
  BY <1>1, SegmentEndFacts
<1>3. Len(evalSlice) \in Nat
  BY <1>1, SliceTypes
<1>4. consumed \in 0..Len(evalSlice) /\ legs \in Nat
  BY <1>1 DEF TypeOK
<1>5. SegmentEnd <= tf /\ consumed \in Nat /\ consumed <= Len(evalSlice) /\ legs + 1 \in Nat
  BY <1>2, <1>3, <1>4, SMT
<1>6. QED
  BY <1>1, <1>2, <1>4, <1>5, Zenon

\* The samples that are left and lie in the leg are the next ones.
LEMMA CountFacts ==
  ASSUME TypeOK, Increasing(evalSlice), NEW end \in Int
  PROVE  /\ Count(end) \in Nat /\ consumed + Count(end) <= Len(evalSlice)
         /\ \A i \in 1..Len(evalSlice) :
              consumed < i => (evalSlice[i] <= end <=> i <= consumed + Count(end))
<1> DEFINE rest == SubSeq(evalSlice, consumed + 1, Len(evalSlice))
<1>1. consumed \in 0..Len(evalSlice) /\ Len(evalSlice) \in Nat /\ consumed \in Nat
  BY SliceTypes, SMT DEF TypeOK
<1>2. consumed + 1 \in 1..Len(evalSlice) + 1 /\ Len(evalSlice) \in consumed + 1 - 1..Len(evalSlice)
  BY <1>1, SMT
<1>3. rest \in Seq(Int) /\ Len(rest) = Len(evalSlice) - (consumed + 1) + 1
      /\ \A i \in 1..Len(evalSlice) - (consumed + 1) + 1 : rest[i] = evalSlice[consumed + 1 + i - 1]
  BY <1>2, SliceTypes, Slice
<1>4. Increasing(rest)
  BY <1>2, SliceTypes, SliceIncreases
<1> HIDE DEF rest
<1>5. Count(end) = LeadingUpTo(rest, end)
  BY Zenon DEF Count, rest
<1>6. Count(end) \in 0..Len(rest) /\ \A i \in 1..Len(rest) : rest[i] <= end <=> i <= Count(end)
  BY <1>3, <1>4, <1>5, LeadingFacts, LeadingSplits
<1>7. Count(end) \in Nat /\ consumed + Count(end) <= Len(evalSlice)
  BY <1>1, <1>3, <1>6, SMT
<1>8. SUFFICES ASSUME NEW i \in 1..Len(evalSlice), consumed < i
               PROVE  evalSlice[i] <= end <=> i <= consumed + Count(end)
  BY <1>7
<1>9. i - consumed \in 1..Len(rest) /\ i - consumed \in 1..Len(evalSlice) - (consumed + 1) + 1
      /\ consumed + 1 + (i - consumed) - 1 = i
  BY <1>1, <1>3, <1>8, SMT
<1>10. evalSlice[i] <= end <=> i - consumed <= Count(end)
  BY <1>3, <1>6, <1>9, Zenon
<1>11. i - consumed <= Count(end) <=> i <= consumed + Count(end)
  BY <1>1, <1>7, SMT
<1>12. QED
  BY <1>10, <1>11, Zenon

\* A leg that completes: the trajectory has arrived at its end.
LEMMA Arrives ==
  ASSUME RectInv, phase = "head", route = "sampled", ~reached, UNCHANGED request,
         Rectifies(SegmentEnd), Continue(SegmentEnd), legs' \in Nat,
         consumed' = consumed + Count(SegmentEnd),
         rows' \in Seq([at : Nat, of : Int, against : Nat, added : Ticks]),
         Len(rows') = consumed',
         \A i \in 1..Len(rows') : /\ IsTrue(rows'[i]) /\ i <= Len(evalSlice)
                                  /\ rows'[i].at = evalSlice[i],
         carry' \in {None, calls}, carry' \in {None} \union 1..MaxCalls,
         opened' \in {None, calls}, opened' \in {None} \union 1..MaxCalls
  PROVE  RectInv'
<1> DEFINE end == SegmentEnd
<1>1. /\ baseT = walked /\ baseT \in Nat /\ tf \in Nat /\ baseT < tf
      /\ end \in Nat /\ end <= tf /\ baseT < end
      /\ consumed \in Nat /\ consumed <= Len(evalSlice)
      /\ TypeOK /\ BaselineInv /\ Increasing(evalSlice)
  BY HeadFacts
<1> HIDE DEF end
<1>2. /\ phase' = "head" /\ ending' = ending /\ reached' = (end = tf) /\ walked' = end
  BY Zenon DEF Continue, Go, ReachedAfter, end
<1>3. \/ baseT' = end /\ hadRebase' = TRUE
      \/ end = tf /\ baseT' = baseT /\ hadRebase' = hadRebase
  BY Zenon DEF Rectifies, Rebased, baseline, end
<1>4. /\ evalSlice' = evalSlice /\ tf' = tf /\ calls' = calls /\ route' = route
  BY Zenon DEF request
<1>5. /\ Count(end) \in Nat /\ consumed + Count(end) <= Len(evalSlice) /\ Len(evalSlice) \in Nat
      /\ \A i \in 1..Len(evalSlice) :
              consumed < i => (evalSlice[i] <= end <=> i <= consumed + Count(end))
  <2>1. end \in Int
    BY <1>1, SMT
  <2>2. QED
    BY <1>1, <2>1, CountFacts, SliceTypes, Zenon
<1>6. consumed' = consumed + Count(end) /\ consumed' \in 0..Len(evalSlice) /\ consumed' \in Nat
  BY <1>1, <1>5, SMT DEF end
<1>7. TypeOK'
  <2>1. baseT' \in 0..tf /\ hadRebase' \in BOOLEAN
    <3>1. end \in 0..tf /\ baseT \in 0..tf /\ hadRebase \in BOOLEAN
      BY <1>1, SMT DEF TypeOK
    <3>2. QED
      BY <1>3, <3>1, Zenon
  <2>2. reached' \in BOOLEAN /\ walked' \in Nat
    BY <1>1, <1>2, Zenon
  <2>3. QED
    BY <1>1, <1>2, <1>4, <1>6, <2>1, <2>2, Zenon DEF request, TypeOK
<1>8. RequestInv' /\ BaselineInv'
  <2>1. BaselineInv'
    BY <1>1, <1>3, Zenon DEF BaselineInv
  <2>2. RequestInv'
    BY <1>2, <1>4, Zenon DEF RectInv, RequestInv, Increasing
  <2>3. QED
    BY <2>1, <2>2
<1>9. SampledInv'
  <2>1. IF reached' THEN walked' = tf' ELSE walked' < tf'
    <3>1. end = tf \/ end < tf
      BY <1>1, SMT
    <3>2. QED
      BY <1>2, <1>4, <3>1, Zenon
  <2>2. \A i \in 1..Len(evalSlice) : evalSlice[i] <= end => i <= consumed'
    <3>1. SUFFICES ASSUME NEW i \in 1..Len(evalSlice), evalSlice[i] <= end PROVE i <= consumed'
      OBVIOUS
    <3>2. CASE consumed < i
      BY <1>5, <1>6, <3>1, <3>2, Zenon
    <3>3. CASE ~(consumed < i)
      <4>1. i \in Nat /\ consumed' = consumed + Count(end) /\ Count(end) \in Nat
            /\ consumed \in Nat
        BY <1>1, <1>5, <1>6, SMT
      <4>2. QED
        BY <3>3, <4>1, SMT
    <3>4. QED
      BY <3>2, <3>3
  <2>3. QED
    BY <1>2, <1>4, <2>1, <2>2, Zenon DEF SampledInv
<1>10. OtherInv'
  BY <1>4, Zenon DEF OtherInv
<1>11. LegsFollowOn'
  BY <1>2, <1>3, Zenon DEF LegsFollowOn
<1>12. RowsAreTrue'
  BY <1>4, Zenon DEF RowsAreTrue, IsTrue
<1>13. SuccessIsComplete' /\ CarryStaysInArc'
  BY <1>2, <1>4, Zenon DEF SuccessIsComplete, CarryStaysInArc
<1>14. QED
  BY <1>7, <1>8, <1>9, <1>10, <1>11, <1>12, <1>13, Zenon DEF RectInv

\* What there was before the leg.
LEMMA OldRows ==
  ASSUME RectInv, phase = "head"
  PROVE  /\ rows \in Seq([at : Nat, of : Int, against : Nat, added : Ticks])
         /\ \A i \in 1..Len(rows) : /\ IsTrue(rows[i]) /\ i <= Len(evalSlice)
                                    /\ rows[i].at = evalSlice[i]
<1>1. ending = "none" /\ ending # "event"
  BY Zenon DEF RectInv, RequestInv
<1>2. QED
  BY <1>1, Zenon DEF RectInv, TypeOK, RowsAreTrue

LEMMA NoneOrCalls ==
  ASSUME RectInv, phase = "head"
  PROVE  \A c \in {None, calls} : c \in {None} \union 1..MaxCalls
<1>1. calls \in 0..MaxCalls /\ calls > 0 /\ MaxCalls \in Nat
  BY RectificationAssumption, Zenon DEF RectInv, RequestInv, TypeOK
<1>2. calls \in 1..MaxCalls
  BY <1>1, SMT
<1>3. QED
  BY <1>2, Zenon

LEMMA UnsampledLegKeeps ==
  ASSUME RectInv, UnsampledLeg
  PROVE  RectInv'
<1>1. /\ phase = "head" /\ route = "sampled" /\ ~reached /\ Count(SegmentEnd) = 0
      /\ legs' = legs + 1 /\ opened' = None /\ UNCHANGED <<request, consumed, rows, carry>>
  BY Zenon DEF UnsampledLeg, InLoop
<1>2. legs' \in Nat /\ consumed \in Nat /\ Len(rows) = consumed /\ consumed + 0 = consumed
  BY <1>1, HeadFacts, SMT
<1>3. carry \in {None, calls} /\ None \in {None, calls}
  BY <1>1, Zenon DEF RectInv, SampledInv
<1>4. CASE Rectifies(SegmentEnd) /\ Continue(SegmentEnd)
  BY <1>1, <1>2, <1>3, <1>4, OldRows, NoneOrCalls, Arrives, Zenon
<1>5. CASE \E how \in {"gravity", "failed"} : ReturnWith(how) /\ UNCHANGED <<baseline, reached, walked>>
  <2>1. phase' = "done" /\ ending' \in Endings /\ ending' # "success"
        /\ UNCHANGED <<baseline, reached, walked>>
    BY <1>5, Zenon DEF ReturnWith, Endings
  <2>2. TypeOK'
    BY <1>1, <1>2, <2>1, Zenon DEF request, baseline, RectInv, TypeOK
  <2>3. RowsAreTrue'
    BY <1>1, OldRows, Zenon DEF request, RowsAreTrue, IsTrue
  <2>4. BaselineInv' /\ SuccessIsComplete' /\ CarryStaysInArc'
    BY <1>1, <2>1, Zenon
       DEF RectInv, baseline, BaselineInv, SuccessIsComplete, CarryStaysInArc
  <2>5. QED
    BY <1>1, <2>1, <2>2, <2>3, <2>4, EndsWith, Zenon
<1>6. QED
  BY <1>4, <1>5, Zenon DEF UnsampledLeg

LEMMA FinishSampledKeeps ==
  ASSUME RectInv, FinishSampled
  PROVE  RectInv'
<1>1. /\ phase = "head" /\ route = "sampled"
      /\ UNCHANGED <<request, baseline, progress, legs, rows, walked, carry, opened>>
      /\ \/ reached /\ ReturnWith("success")
         \/ ReturnWith("max_steps_exceeded")
  BY Zenon DEF FinishSampled, CapEnding
<1>2. /\ phase' = "done" /\ ending' \in Endings /\ (ending' = "success" => reached)
      /\ evalSlice' = evalSlice /\ tf' = tf /\ walked' = walked /\ rows' = rows
  BY <1>1, Zenon DEF ReturnWith, Endings, request
<1>3. TypeOK'
  BY <1>1, <1>2, Zenon DEF request, baseline, progress, RectInv, TypeOK
<1>4. RowsAreTrue'
  BY <1>1, <1>2, OldRows, Zenon DEF RowsAreTrue, IsTrue
<1>5. SuccessIsComplete'
  <2>1. SUFFICES ASSUME ending' = "success", tf > 0
                 PROVE  walked >= tf /\ \A i \in 1..Len(evalSlice) : evalSlice[i] <= tf => i <= Len(rows)
    BY <1>2, Zenon DEF SuccessIsComplete
  <2>2. walked = tf /\ Len(rows) = consumed
        /\ (walked > 0 => \A i \in 1..Len(evalSlice) : evalSlice[i] <= walked => i <= consumed)
    BY <1>1, <1>2, <2>1, Zenon DEF RectInv, SampledInv
  <2>3. tf \in Nat
    BY RectificationAssumption, SMT DEF RectInv, TypeOK
  <2>4. walked >= tf
    BY <2>2, <2>3, SMT
  <2>5. QED
    BY <2>1, <2>2, <2>4, Zenon
<1>6. BaselineInv' /\ CarryStaysInArc'
  BY <1>1, Zenon DEF RectInv, request, baseline, BaselineInv, CarryStaysInArc
<1>7. QED
  BY <1>1, <1>2, <1>3, <1>4, <1>5, <1>6, EndsWith, Zenon

-----------------------------------------------------------------------------
(* The rows of a sampled leg *)

\* How many labels are hidden before the leg's samples, and after them.
HiddenBefore == IF NeedsHiddenStart THEN 1 ELSE 0
HiddenAfter == IF NeedsHiddenEnd(SegmentEnd) THEN 1 ELSE 0

LEMMA Optional ==
  ASSUME NEW n \in Nat, NEW b \in BOOLEAN
  PROVE  /\ (IF b THEN <<n>> ELSE <<>>) \in Seq(Nat)
         /\ Len(IF b THEN <<n>> ELSE <<>>) = (IF b THEN 1 ELSE 0)
         /\ b => (IF b THEN <<n>> ELSE <<>>)[1] = n
<1>1. /\ <<n>> \in Seq(Nat) /\ Len(<<n>>) = 1 /\ <<n>>[1] = n
      /\ <<>> \in Seq(Nat) /\ Len(<<>>) = 0
  BY Singleton, EmptySeq
<1>2. CASE b
  <2>1. (IF b THEN <<n>> ELSE <<>>) = <<n>> /\ (IF b THEN 1 ELSE 0) = 1
    BY <1>2, Zenon
  <2>2. QED
    BY <1>1, <2>1, Zenon
<1>3. CASE ~b
  <2>1. (IF b THEN <<n>> ELSE <<>>) = <<>> /\ (IF b THEN 1 ELSE 0) = 0
    BY <1>3, Zenon
  <2>2. QED
    BY <1>1, <1>3, <2>1, Zenon
<1>4. QED
  BY <1>2, <1>3

LEMMA ConcatAt ==
  ASSUME NEW s \in Seq(Nat), NEW r \in Seq(Nat)
  PROVE  /\ s \o r \in Seq(Nat) /\ Len(s \o r) = Len(s) + Len(r)
         /\ \A i \in 1..Len(s) : (s \o r)[i] = s[i]
         /\ \A i \in 1..Len(r) : (s \o r)[Len(s) + i] = r[i]
<1>1. /\ s \o r \in Seq(Nat) /\ Len(s \o r) = Len(s) + Len(r)
      /\ \A i \in 1..Len(s) + Len(r) : (s \o r)[i] = IF i <= Len(s) THEN s[i] ELSE r[i - Len(s)]
      /\ Len(s) \in Nat /\ Len(r) \in Nat
  BY ConcatProperties, LenProperties
<1>2. \A i \in 1..Len(s) : (s \o r)[i] = s[i]
  BY <1>1, SMT
<1>3. \A i \in 1..Len(r) : (s \o r)[Len(s) + i] = r[i]
  <2>1. SUFFICES ASSUME NEW i \in 1..Len(r) PROVE (s \o r)[Len(s) + i] = r[i]
    OBVIOUS
  <2>2. /\ Len(s) + i \in 1..Len(s) + Len(r) /\ ~(Len(s) + i <= Len(s)) /\ Len(s) + i - Len(s) = i
    BY <1>1, SMT
  <2>3. (s \o r)[Len(s) + i] = r[Len(s) + i - Len(s)]
    <3>1. \A k \in 1..Len(s) + Len(r) : ~(k <= Len(s)) => (s \o r)[k] = r[k - Len(s)]
      BY <1>1, Zenon
    <3>2. QED
      BY <2>2, <3>1
  <2>4. QED
    BY <2>2, <2>3, Zenon
<1>4. QED
  BY <1>1, <1>2, <1>3

LEMMA NextOnes ==
  ASSUME NEW S, NEW s \in Seq(S), NEW m \in Nat, NEW c \in Nat, m + c <= Len(s)
  PROVE  /\ SubSeq(s, m + 1, m + c) \in Seq(S) /\ Len(SubSeq(s, m + 1, m + c)) = c
         /\ \A i \in 1..c : SubSeq(s, m + 1, m + c)[i] = s[m + i]
<1> DEFINE p == SubSeq(s, m + 1, m + c)
<1>1. Len(s) \in Nat
  BY LenProperties
<1>2. m + 1 \in 1..Len(s) + 1 /\ m + c \in m + 1 - 1..Len(s) /\ m + c - (m + 1) + 1 = c
  BY <1>1, SMT
<1>3. p \in Seq(S) /\ Len(p) = m + c - (m + 1) + 1
      /\ \A i \in 1..m + c - (m + 1) + 1 : p[i] = s[m + 1 + i - 1]
  BY <1>2, Slice
<1> HIDE DEF p
<1>4. \A i \in 1..c : i \in 1..m + c - (m + 1) + 1 /\ m + 1 + i - 1 = m + i
  BY SMT
<1>5. p \in Seq(S) /\ Len(p) = c /\ \A i \in 1..c : p[i] = s[m + i]
  BY <1>2, <1>3, <1>4, Zenon
<1>6. QED
  BY <1>5, Zenon DEF p

\* What the solver is asked for: the samples of the leg between the hidden labels.
LEMMA LabelFacts ==
  ASSUME RectInv, phase = "head", route = "sampled", ~reached
  PROVE  LET labels == SolverEval(SegmentEnd)
             c == Count(SegmentEnd)
         IN  /\ labels \in Seq(Nat) /\ Len(labels) = HiddenBefore + c + HiddenAfter
             /\ NeedsHiddenStart => labels[1] = baseT
             /\ \A i \in 1..c : labels[HiddenBefore + i] = evalSlice[consumed + i]
             /\ NeedsHiddenEnd(SegmentEnd) => labels[HiddenBefore + c + 1] = SegmentEnd
<1> DEFINE end == SegmentEnd
           c == Count(SegmentEnd)
           a == IF NeedsHiddenStart THEN <<baseT>> ELSE <<>>
           b == SubSeq(evalSlice, consumed + 1, consumed + c)
           d == IF NeedsHiddenEnd(SegmentEnd) THEN <<SegmentEnd>> ELSE <<>>
<1>1. /\ baseT \in Nat /\ end \in Nat /\ consumed \in Nat /\ consumed <= Len(evalSlice)
      /\ TypeOK /\ Increasing(evalSlice)
  BY HeadFacts
<1>2. Len(evalSlice) \in Nat /\ evalSlice \in Seq(Nat)
  BY <1>1, SliceTypes, Zenon
<1>3. c \in Nat /\ consumed + c <= Len(evalSlice)
  <2>1. end \in Int
    BY <1>1, SMT
  <2>2. QED
    BY <1>1, <2>1, CountFacts, Zenon
<1>4. NeedsHiddenStart \in BOOLEAN /\ NeedsHiddenEnd(SegmentEnd) \in BOOLEAN
  BY Zenon DEF NeedsHiddenStart, NeedsHiddenEnd
<1>5. a \in Seq(Nat) /\ Len(a) = HiddenBefore /\ (NeedsHiddenStart => a[1] = baseT)
  BY <1>1, <1>4, Optional, Zenon DEF HiddenBefore
<1>6. d \in Seq(Nat) /\ Len(d) = HiddenAfter /\ (NeedsHiddenEnd(SegmentEnd) => d[1] = SegmentEnd)
  BY <1>1, <1>4, Optional, Zenon DEF HiddenAfter
<1>7. SolverEval(SegmentEnd) = a \o b \o d
  BY Zenon DEF SolverEval
<1> HIDE DEF c, a, b, d
<1>8. b \in Seq(Nat) /\ Len(b) = c /\ \A i \in 1..c : b[i] = evalSlice[consumed + i]
  BY <1>1, <1>2, <1>3, NextOnes DEF b
<1>9. /\ a \o b \in Seq(Nat) /\ Len(a \o b) = HiddenBefore + c
      /\ \A i \in 1..HiddenBefore : (a \o b)[i] = a[i]
      /\ \A i \in 1..c : (a \o b)[HiddenBefore + i] = b[i]
  <2>1. /\ a \o b \in Seq(Nat) /\ Len(a \o b) = Len(a) + Len(b)
        /\ \A i \in 1..Len(a) : (a \o b)[i] = a[i]
        /\ \A i \in 1..Len(b) : (a \o b)[Len(a) + i] = b[i]
    <3>1. a \in Seq(Nat) /\ b \in Seq(Nat)
      BY <1>5, <1>8
    <3>2. QED
      BY <3>1, ConcatAt
  <2>2. Len(a) = HiddenBefore /\ Len(b) = c
    BY <1>5, <1>8
  <2>3. QED
    BY <2>1, <2>2, Zenon
<1>10. /\ a \o b \o d \in Seq(Nat) /\ Len(a \o b \o d) = HiddenBefore + c + HiddenAfter
       /\ \A i \in 1..HiddenBefore + c : (a \o b \o d)[i] = (a \o b)[i]
       /\ \A i \in 1..HiddenAfter : (a \o b \o d)[HiddenBefore + c + i] = d[i]
  <2> DEFINE ab == a \o b
  <2>1. ab \in Seq(Nat) /\ Len(ab) = HiddenBefore + c
    BY <1>9
  <2> HIDE DEF ab
  <2>2. /\ ab \o d \in Seq(Nat) /\ Len(ab \o d) = Len(ab) + Len(d)
        /\ \A i \in 1..Len(ab) : (ab \o d)[i] = ab[i]
        /\ \A i \in 1..Len(d) : (ab \o d)[Len(ab) + i] = d[i]
    <3>1. ab \in Seq(Nat) /\ d \in Seq(Nat)
      BY <1>6, <2>1
    <3>2. QED
      BY <3>1, ConcatAt
  <2>3. Len(ab) = HiddenBefore + c /\ Len(d) = HiddenAfter
    BY <1>6, <2>1
  <2>4. QED
    BY <2>2, <2>3, Zenon DEF ab
<1> DEFINE labels == a \o b \o d
<1>11. HiddenBefore \in {0, 1} /\ HiddenAfter \in {0, 1}
       /\ (NeedsHiddenStart => HiddenBefore = 1)
       /\ (NeedsHiddenEnd(SegmentEnd) => HiddenAfter = 1)
  BY Zenon DEF HiddenBefore, HiddenAfter
<1>12. NeedsHiddenStart => labels[1] = baseT
  <2>1. SUFFICES ASSUME NeedsHiddenStart PROVE labels[1] = baseT
    OBVIOUS
  <2>2. 1 \in 1..HiddenBefore + c /\ 1 \in 1..HiddenBefore
    BY <1>3, <1>11, <2>1, SMT
  <2>3. QED
    BY <1>5, <1>9, <1>10, <2>1, <2>2, Zenon
<1>13. \A i \in 1..c : labels[HiddenBefore + i] = evalSlice[consumed + i]
  <2>1. SUFFICES ASSUME NEW i \in 1..c PROVE labels[HiddenBefore + i] = evalSlice[consumed + i]
    OBVIOUS
  <2>2. HiddenBefore + i \in 1..HiddenBefore + c
    BY <1>3, <1>11, SMT
  <2>3. QED
    BY <1>8, <1>9, <1>10, <2>2, Zenon
<1>14. NeedsHiddenEnd(SegmentEnd) => labels[HiddenBefore + c + 1] = SegmentEnd
  <2>1. SUFFICES ASSUME NeedsHiddenEnd(SegmentEnd)
                 PROVE  labels[HiddenBefore + c + 1] = SegmentEnd
    OBVIOUS
  <2>2. 1 \in 1..HiddenAfter
    BY <1>11, <2>1, SMT
  <2>3. QED
    BY <1>6, <1>10, <2>1, <2>2, Zenon
<1>15. QED
  BY <1>7, <1>10, <1>12, <1>13, <1>14, Zenon DEF c

\* A solver answers with the true states at the first labels, all of them if it succeeds.
LEMMA AnswerFacts ==
  ASSUME NEW labels \in Seq(Nat), NEW answer \in Answers(labels)
  PROVE  /\ answer.status \in {"gravity", "success", "failed"}
         /\ \E n \in 0..Len(labels) : /\ answer.states = StatesAt(labels, n)
                                      /\ answer.status = "success" => n = Len(labels)
<1>1. Len(labels) \in Nat
  BY LenProperties
<1>2. Len(labels) \in 0..Len(labels) /\ 0 \in 0..Len(labels) /\ Len(labels) <= Len(labels)
      /\ \A n \in 0..Len(labels) - 1 : n \in 0..Len(labels)
  BY <1>1, SMT
<1>3. StatesAt(labels, 0) = <<>>
  <2>1. StatesAt(labels, 0) \in Seq(State) /\ Len(StatesAt(labels, 0)) = 0
    BY <1>2, StatesAtFacts
  <2>2. QED
    BY <2>1, EmptySeq, SMT
<1>4. CASE answer \in Solve(labels)
  <2>1. CASE answer = Gravity
    BY <1>2, <1>3, <2>1, Zenon DEF Gravity, Answer
  <2>2. CASE answer = Answer("success", FirstOf(labels, Len(labels), 0))
    BY <1>2, <2>2, FirstOfIs, Zenon DEF Answer
  <2>3. CASE answer \in {Answer("failed", FirstOf(labels, n, 0)) : n \in 0..Len(labels) - 1}
    <3>1. PICK n \in 0..Len(labels) - 1 : answer = Answer("failed", FirstOf(labels, n, 0))
      BY <2>3
    <3>2. QED
      BY <1>2, <3>1, FirstOfIs, Zenon DEF Answer
  <2>4. QED
    BY <1>4, <2>1, <2>2, <2>3, Zenon DEF Solve
<1>5. CASE answer \in SolveForced(labels)
  <2>1. CASE answer = Answer("success", Written(labels, Len(labels), 0))
    BY <1>1, <1>2, <2>1, WrittenIs, Zenon DEF Answer
  <2>2. CASE answer \in Solve(labels)
    BY <1>4, <2>2
  <2>3. CASE answer = Gravity
    BY <1>2, <1>3, <2>3, Zenon DEF Gravity, Answer
  <2>4. QED
    BY <1>5, <2>1, <2>2, <2>3, Zenon DEF SolveForced, Retry
<1>6. QED
  BY <1>4, <1>5, Zenon DEF Answers

\* Of n states, the ones from behind the hidden label to m are handed back.
LEMMA VisibleIs ==
  ASSUME RectInv, phase = "head", route = "sampled", ~reached, Count(SegmentEnd) > 0,
         NEW n \in 0..Len(SolverEval(SegmentEnd))
  PROVE  LET states == StatesAt(SolverEval(SegmentEnd), n)
             m == IF n = HiddenBefore + Count(SegmentEnd) + 1 THEN n - 1 ELSE n
         IN  Visible(states, SegmentEnd)
               = SubSeq(states, IF n = 0 THEN 1 ELSE HiddenBefore + 1, m)
<1> DEFINE end == SegmentEnd
           labels == SolverEval(end)
           c == Count(end)
           states == StatesAt(labels, n)
<1>1. /\ baseT \in Nat /\ end \in Nat /\ baseT < end /\ consumed \in Nat
      /\ consumed <= Len(evalSlice) /\ TypeOK /\ Increasing(evalSlice)
  BY HeadFacts
<1>2. Len(evalSlice) \in Nat /\ \A i \in 1..Len(evalSlice) : evalSlice[i] \in Nat
  BY <1>1, SliceTypes, Zenon
<1>3. /\ c \in Nat /\ c > 0 /\ consumed + c <= Len(evalSlice)
      /\ \A i \in 1..Len(evalSlice) :
           consumed < i => (evalSlice[i] <= end <=> i <= consumed + c)
  <2>1. end \in Int
    BY <1>1, SMT
  <2>2. QED
    BY <1>1, <2>1, CountFacts, Zenon
<1>4. /\ labels \in Seq(Nat) /\ Len(labels) = HiddenBefore + c + HiddenAfter
      /\ NeedsHiddenStart => labels[1] = baseT
      /\ \A i \in 1..c : labels[HiddenBefore + i] = evalSlice[consumed + i]
      /\ NeedsHiddenEnd(end) => labels[HiddenBefore + c + 1] = end
  BY LabelFacts, Zenon
<1>5. /\ states \in Seq(State) /\ Len(states) = n
      /\ \A i \in 1..n : states[i].at = labels[i]
  BY <1>4, StatesAtFacts, Zenon
<1>6. NeedsHiddenEnd(end) <=> evalSlice[consumed + c] # end
  BY Zenon DEF NeedsHiddenEnd
<1>7. /\ HiddenBefore \in {0, 1} /\ HiddenAfter \in {0, 1}
      /\ (NeedsHiddenStart <=> HiddenBefore = 1) /\ (NeedsHiddenEnd(end) <=> HiddenAfter = 1)
  BY SMT DEF HiddenBefore, HiddenAfter
<1>8. /\ Visible(states, end) =
           SubSeq(states,
             IF NeedsHiddenStart /\ states # <<>> /\ states[1].at = baseT THEN 2 ELSE 1,
             Len(states) - (IF NeedsHiddenEnd(end) /\ EndpointReturned(states, end) THEN 1 ELSE 0))
      /\ EndpointReturned(states, end) <=> states # <<>> /\ states[Len(states)].at = end
  BY Zenon DEF Visible, EndpointReturned
<1> HIDE DEF end, labels, c, states
<1>9. n \in Nat /\ n <= HiddenBefore + c + HiddenAfter
  BY <1>3, <1>4, <1>7, SMT DEF labels, end
<1>10. n = 0 <=> states = <<>>
  <2>1. n = 0 => states = <<>>
    BY <1>5, EmptySeq, SMT
  <2>2. states = <<>> => n = 0
    BY <1>5, EmptySeq, SMT
  <2>3. QED
    BY <2>1, <2>2
<1>11. n > 0 /\ NeedsHiddenStart => states[1].at = baseT
  <2>1. SUFFICES ASSUME n > 0, NeedsHiddenStart PROVE states[1].at = baseT
    OBVIOUS
  <2>2. 1 \in 1..n
    BY <1>9, <2>1, SMT
  <2>3. QED
    BY <1>4, <1>5, <2>1, <2>2, Zenon
<1>12. n > 0 /\ NeedsHiddenEnd(end) => (states[n].at = end <=> n = HiddenBefore + c + 1)
  <2>1. SUFFICES ASSUME n > 0, NeedsHiddenEnd(end)
                 PROVE  states[n].at = end <=> n = HiddenBefore + c + 1
    OBVIOUS
  <2>2. states[n].at = labels[n]
    <3>1. n \in 1..n
      BY <1>9, <2>1, SMT
    <3>2. QED
      BY <1>5, <3>1, Zenon
  <2>3. CASE n = HiddenBefore + c + 1
    BY <1>4, <2>1, <2>2, <2>3, Zenon
  <2>4. CASE n <= HiddenBefore
    <3>1. n = 1 /\ HiddenBefore = 1 /\ n # HiddenBefore + c + 1
      BY <1>3, <1>7, <1>9, <2>1, <2>4, SMT
    <3>2. labels[n] = baseT
      BY <1>4, <1>7, <3>1, Zenon
    <3>3. baseT # end
      BY <1>1, SMT
    <3>4. QED
      BY <2>2, <3>1, <3>2, <3>3, Zenon
  <2>5. CASE ~(n <= HiddenBefore) /\ n # HiddenBefore + c + 1
    <3> DEFINE i == n - HiddenBefore
    <3>1. /\ i \in 1..c /\ HiddenBefore + i = n /\ c \in 1..c
          /\ consumed + i \in 1..Len(evalSlice) /\ consumed + c \in 1..Len(evalSlice)
          /\ consumed < consumed + c /\ consumed + c <= consumed + c
          /\ (i = c \/ consumed + i < consumed + c)
      BY <1>1, <1>2, <1>3, <1>7, <1>9, <2>5, SMT
    <3> HIDE DEF i
    <3>2. labels[n] = evalSlice[consumed + i]
      BY <1>4, <3>1, Zenon
    <3>3. evalSlice[consumed + c] <= end /\ evalSlice[consumed + c] # end
      BY <1>3, <1>6, <2>1, <3>1, Zenon
    <3>4. i = c \/ evalSlice[consumed + i] < evalSlice[consumed + c]
      BY <1>1, <3>1, Zenon DEF Increasing
    <3>5. evalSlice[consumed + i] \in Nat /\ evalSlice[consumed + c] \in Nat
      BY <1>2, <3>1, Zenon
    <3>6. evalSlice[consumed + i] # end
      BY <1>1, <3>3, <3>4, <3>5, SMT
    <3>7. QED
      BY <2>2, <2>5, <3>2, <3>6, Zenon
  <2>6. QED
    BY <2>3, <2>4, <2>5
<1> DEFINE first == IF NeedsHiddenStart /\ states # <<>> /\ states[1].at = baseT THEN 2 ELSE 1
           off == IF NeedsHiddenEnd(end) /\ EndpointReturned(states, end) THEN 1 ELSE 0
<1>13. first = IF n = 0 THEN 1 ELSE HiddenBefore + 1
  <2>1. n > 0 \/ n = 0
    BY <1>9, SMT
  <2>2. CASE n = 0
    BY <1>10, <2>2, Zenon
  <2>3. CASE n > 0 /\ NeedsHiddenStart
    <3>1. n # 0 /\ HiddenBefore + 1 = 2
      BY <1>7, <2>3, SMT
    <3>2. QED
      BY <1>10, <1>11, <2>3, <3>1, Zenon
  <2>4. CASE n > 0 /\ ~NeedsHiddenStart
    <3>1. n # 0 /\ HiddenBefore + 1 = 1
      BY <1>7, <2>4, SMT
    <3>2. QED
      BY <2>4, <3>1, Zenon
  <2>5. QED
    BY <2>1, <2>2, <2>3, <2>4
<1>14. Len(states) - off = IF n = HiddenBefore + c + 1 THEN n - 1 ELSE n
  <2>1. CASE n > 0 /\ NeedsHiddenEnd(end)
    <3>1. n # 0 /\ (EndpointReturned(states, end) <=> n = HiddenBefore + c + 1)
      <4>1. n # 0
        BY <2>1, SMT
      <4>2. QED
        BY <1>5, <1>8, <1>10, <1>12, <2>1, <4>1, Zenon
    <3>2. off = IF n = HiddenBefore + c + 1 THEN 1 ELSE 0
      BY <2>1, <3>1, Zenon
    <3> HIDE DEF off
    <3>3. QED
      BY <1>5, <1>9, <3>2, SMT
  <2>2. CASE ~(n > 0 /\ NeedsHiddenEnd(end))
    <3>1. off = 0
      <4>1. CASE ~NeedsHiddenEnd(end)
        BY <4>1, Zenon
      <4>2. CASE ~(n > 0)
        <5>1. n = 0
          BY <1>9, <4>2, SMT
        <5>2. QED
          BY <1>8, <1>10, <5>1, Zenon
      <4>3. QED
        BY <2>2, <4>1, <4>2
    <3>2. n # HiddenBefore + c + 1
      BY <1>3, <1>7, <1>9, <2>2, SMT
    <3> HIDE DEF off
    <3>3. QED
      BY <1>5, <1>9, <3>1, <3>2, SMT
  <2>3. QED
    BY <2>1, <2>2
<1>15. QED
  BY <1>8, <1>13, <1>14, Zenon DEF states, labels, end, c

\* The visible states are the true states at the next samples, at all of the leg's if
\* the solver succeeded.
LEMMA VisibleFacts ==
  ASSUME RectInv, phase = "head", route = "sampled", ~reached, Count(SegmentEnd) > 0,
         NEW n \in 0..Len(SolverEval(SegmentEnd))
  PROVE  LET seen == Visible(StatesAt(SolverEval(SegmentEnd), n), SegmentEnd)
         IN  /\ seen \in Seq(State)
             /\ Len(seen) <= Count(SegmentEnd)
             /\ n = Len(SolverEval(SegmentEnd)) => Len(seen) = Count(SegmentEnd)
             /\ \A i \in 1..Len(seen) : /\ seen[i].at = evalSlice[consumed + i]
                                        /\ seen[i].of = seen[i].at
<1> DEFINE labels == SolverEval(SegmentEnd)
           c == Count(SegmentEnd)
           states == StatesAt(labels, n)
           m == IF n = HiddenBefore + c + 1 THEN n - 1 ELSE n
           seen == Visible(states, SegmentEnd)
<1>1. c \in Nat /\ c > 0
  <2>1. SegmentEnd \in Int /\ TypeOK /\ Increasing(evalSlice)
    BY HeadFacts, SMT
  <2>2. QED
    BY <2>1, CountFacts, Zenon
<1>2. /\ labels \in Seq(Nat) /\ Len(labels) = HiddenBefore + c + HiddenAfter
      /\ \A i \in 1..c : labels[HiddenBefore + i] = evalSlice[consumed + i]
  BY LabelFacts, Zenon
<1>3. /\ states \in Seq(State) /\ Len(states) = n
      /\ \A i \in 1..n : states[i].at = labels[i] /\ states[i].of = labels[i]
  BY <1>2, StatesAtFacts, Zenon
<1>4. HiddenBefore \in {0, 1} /\ HiddenAfter \in {0, 1}
  BY SMT DEF HiddenBefore, HiddenAfter
<1>5. seen = SubSeq(states, IF n = 0 THEN 1 ELSE HiddenBefore + 1, m)
  BY VisibleIs, Zenon
<1> HIDE DEF labels, c, states, seen
<1>6. n \in Nat /\ n <= HiddenBefore + c + HiddenAfter
  BY <1>1, <1>2, <1>4, SMT DEF labels
<1>7. CASE n = 0
  <2>1. m = 0 /\ n # HiddenBefore + c + HiddenAfter
    BY <1>1, <1>4, <1>7, SMT
  <2> HIDE DEF m
  <2>2. seen = SubSeq(states, 1, 0)
    BY <1>5, <1>7, <2>1, Zenon
  <2>3. seen = <<>>
    BY <2>2, SubSeqEmpty, SMT
  <2>4. seen \in Seq(State) /\ Len(seen) = 0
    BY <2>3, EmptySeq
  <2>5. Len(seen) <= c /\ \A i \in 1..Len(seen) : FALSE
    BY <1>1, <2>4, SMT
  <2>6. QED
    BY <1>2, <1>7, <2>1, <2>4, <2>5, Zenon DEF seen, states, labels, c
<1>8. CASE n > 0
  <2> DEFINE k == m - HiddenBefore
  <2>1. /\ k \in Nat /\ k <= c /\ HiddenBefore + k = m /\ m <= n /\ HiddenBefore \in Nat /\ n # 0
        /\ (n = HiddenBefore + c + HiddenAfter => k = c)
    BY <1>1, <1>4, <1>6, <1>8, SMT
  <2> HIDE DEF k, m
  <2>2. seen = SubSeq(states, HiddenBefore + 1, HiddenBefore + k)
    BY <1>5, <2>1, Zenon
  <2>3. /\ seen \in Seq(State) /\ Len(seen) = k
        /\ \A i \in 1..k : seen[i] = states[HiddenBefore + i]
    <3>1. HiddenBefore + k <= Len(states)
      BY <1>3, <2>1, Zenon
    <3>2. states \in Seq(State) /\ HiddenBefore \in Nat /\ k \in Nat
      BY <1>3, <2>1, Zenon
    <3> DEFINE part == SubSeq(states, HiddenBefore + 1, HiddenBefore + k)
    <3>3. /\ part \in Seq(State) /\ Len(part) = k
          /\ \A i \in 1..k : part[i] = states[HiddenBefore + i]
      BY <3>1, <3>2, NextOnes
    <3> HIDE DEF part
    <3>4. seen = part
      BY <2>2 DEF part
    <3>5. QED
      BY <3>3, <3>4, Zenon
  <2>4. \A i \in 1..k : seen[i].at = evalSlice[consumed + i] /\ seen[i].of = seen[i].at
    <3>1. SUFFICES ASSUME NEW i \in 1..k
                   PROVE  seen[i].at = evalSlice[consumed + i] /\ seen[i].of = seen[i].at
      OBVIOUS
    <3>2. i \in 1..c /\ HiddenBefore + i \in 1..n
      BY <1>1, <1>4, <1>6, <2>1, SMT
    <3>3. QED
      BY <1>2, <1>3, <2>3, <3>2, ZenonT(40)
  <2>5. QED
    BY <1>2, <2>1, <2>3, <2>4, Zenon DEF seen, states, labels, c
<1>9. QED
  BY <1>6, <1>7, <1>8, SMT

LEMMA MoreRows ==
  ASSUME RectInv, phase = "head", route = "sampled", ~reached,
         NEW seen \in Seq(State), consumed + Len(seen) <= Len(evalSlice),
         \A i \in 1..Len(seen) : seen[i].at = evalSlice[consumed + i] /\ seen[i].of = seen[i].at,
         rows' = rows \o Corrected(seen)
  PROVE  /\ rows' \in Seq([at : Nat, of : Int, against : Nat, added : Ticks])
         /\ Len(rows') = consumed + Len(seen)
         /\ \A i \in 1..Len(rows') : /\ IsTrue(rows'[i]) /\ i <= Len(evalSlice)
                                     /\ rows'[i].at = evalSlice[i]
<1> DEFINE R == [at : Nat, of : Int, against : Nat, added : Ticks]
           new == Corrected(seen)
<1>1. /\ consumed \in Nat /\ consumed = Len(rows) /\ TypeOK /\ BaselineInv
  BY HeadFacts
<1>2. rows \in Seq(R) /\ \A i \in 1..Len(rows) : /\ IsTrue(rows[i]) /\ i <= Len(evalSlice)
                                                 /\ rows[i].at = evalSlice[i]
  BY OldRows
<1>3. \A i \in 1..Len(seen) : seen[i].of = seen[i].at
  OBVIOUS
<1>4. /\ new \in Seq(R) /\ Len(new) = Len(seen)
      /\ \A i \in 1..Len(seen) : IsTrue(new[i]) /\ new[i].at = seen[i].at
  BY <1>1, <1>3, CorrectedFacts
<1>5. rows' = rows \o new
  OBVIOUS
<1> HIDE DEF R, new
<1>6. /\ rows' \in Seq(R) /\ Len(rows') = Len(rows) + Len(new)
      /\ \A i \in 1..Len(rows) + Len(new) :
           rows'[i] = IF i <= Len(rows) THEN rows[i] ELSE new[i - Len(rows)]
  <2>1. rows \in Seq(R)
    BY <1>2, Zenon
  <2>2. new \in Seq(R)
    BY <1>4, Zenon
  <2>3. /\ rows \o new \in Seq(R) /\ Len(rows \o new) = Len(rows) + Len(new)
        /\ \A i \in 1..Len(rows) + Len(new) :
             (rows \o new)[i] = IF i <= Len(rows) THEN rows[i] ELSE new[i - Len(rows)]
    BY <2>1, <2>2, ConcatProperties
  <2>4. QED
    BY <1>5, <2>3, Zenon
<1>7. Len(seen) \in Nat /\ Len(evalSlice) \in Nat /\ Len(rows') = consumed + Len(seen)
  BY <1>1, <1>4, <1>6, LenProperties, SliceTypes, Zenon
<1>8. \A i \in 1..Len(rows') : /\ IsTrue(rows'[i]) /\ i <= Len(evalSlice)
                               /\ rows'[i].at = evalSlice[i]
  <2>1. SUFFICES ASSUME NEW i \in 1..Len(rows')
                 PROVE  IsTrue(rows'[i]) /\ i <= Len(evalSlice) /\ rows'[i].at = evalSlice[i]
    OBVIOUS
  <2>2. rows'[i] = IF i <= Len(rows) THEN rows[i] ELSE new[i - Len(rows)]
    BY <1>6, Zenon
  <2>3. CASE i <= Len(rows)
    <3>1. i \in 1..Len(rows)
      BY <1>1, <1>7, <2>3, SMT
    <3>2. rows'[i] = rows[i]
      BY <2>2, <2>3, Zenon
    <3>3. QED
      BY <1>2, <3>1, <3>2, Zenon
  <2>4. CASE ~(i <= Len(rows))
    <3> DEFINE j == i - Len(rows)
    <3>1. j \in 1..Len(seen) /\ consumed + j = i /\ i <= Len(evalSlice)
      BY <1>1, <1>7, <2>4, SMT
    <3>2. rows'[i] = new[j]
      BY <2>2, <2>4, Zenon
    <3> HIDE DEF j
    <3>3. IsTrue(new[j]) /\ new[j].at = evalSlice[consumed + j]
      BY <1>4, <3>1, Zenon
    <3>4. QED
      BY <3>1, <3>2, <3>3, Zenon
  <2>5. QED
    BY <2>3, <2>4
<1>9. QED
  BY <1>6, <1>7, <1>8, Zenon DEF R

LEMMA SampledLegKeeps ==
  ASSUME RectInv, SampledLeg
  PROVE  RectInv'
<1>1. /\ phase = "head" /\ route = "sampled" /\ ~reached /\ Count(SegmentEnd) > 0
      /\ legs' = legs + 1 /\ opened' = OpensWith /\ UNCHANGED request
  BY Zenon DEF SampledLeg, InLoop
<1> DEFINE labels == SolverEval(SegmentEnd)
<1>2. PICK answer \in Answers(labels) :
        /\ carry' \in Carries(answer)
        /\ rows' = rows \o Corrected(Visible(answer.states, SegmentEnd))
        /\ IF answer.status = "success"
           THEN /\ consumed' = consumed + Count(SegmentEnd)
                /\ Rectifies(SegmentEnd) /\ Continue(SegmentEnd)
           ELSE ReturnWith(answer.status) /\ UNCHANGED <<baseline, progress, walked>>
  BY Zenon DEF SampledLeg
<1>3. labels \in Seq(Nat)
  BY <1>1, LabelFacts, Zenon
<1>4. PICK n \in 0..Len(labels) : /\ answer.states = StatesAt(labels, n)
                                  /\ answer.status = "success" => n = Len(labels)
  BY <1>3, AnswerFacts
<1>5. answer.status \in {"gravity", "success", "failed"}
  BY <1>3, AnswerFacts
<1> DEFINE seen == Visible(answer.states, SegmentEnd)
<1>6. /\ seen \in Seq(State) /\ Len(seen) <= Count(SegmentEnd)
      /\ answer.status = "success" => Len(seen) = Count(SegmentEnd)
      /\ \A i \in 1..Len(seen) : /\ seen[i].at = evalSlice[consumed + i]
                                 /\ seen[i].of = seen[i].at
  BY <1>1, <1>4, VisibleFacts, Zenon
<1>7. rows' = rows \o Corrected(seen)
  BY <1>2
<1> HIDE DEF labels, seen
<1>8. /\ TypeOK /\ Increasing(evalSlice) /\ legs' \in Nat /\ consumed \in Nat
      /\ SegmentEnd \in Int
  BY <1>1, HeadFacts, SMT
<1>9. Count(SegmentEnd) \in Nat /\ consumed + Count(SegmentEnd) <= Len(evalSlice)
      /\ Len(evalSlice) \in Nat
  BY <1>8, CountFacts, SliceTypes, Zenon
<1>10. consumed + Len(seen) <= Len(evalSlice)
  <2>1. Len(seen) \in Nat
    BY <1>6, LenProperties
  <2>2. QED
    BY <1>6, <1>8, <1>9, <2>1, SMT
<1>11. /\ rows' \in Seq([at : Nat, of : Int, against : Nat, added : Ticks])
       /\ Len(rows') = consumed + Len(seen)
       /\ \A i \in 1..Len(rows') : /\ IsTrue(rows'[i]) /\ i <= Len(evalSlice)
                                   /\ rows'[i].at = evalSlice[i]
  BY <1>1, <1>6, <1>7, <1>10, MoreRows
<1>12. carry \in {None, calls} /\ calls \in {None, calls} /\ None \in {None, calls}
  BY <1>1, Zenon DEF RectInv, SampledInv
<1>13. carry' \in {None, calls} /\ opened' \in {None, calls}
  BY <1>1, <1>2, <1>12, Zenon DEF Carries, OpensWith
<1>14. carry' \in {None} \union 1..MaxCalls /\ opened' \in {None} \union 1..MaxCalls
  BY <1>1, <1>13, NoneOrCalls, Zenon
<1>15. CASE answer.status = "success"
  <2>1. /\ consumed' = consumed + Count(SegmentEnd)
        /\ Rectifies(SegmentEnd) /\ Continue(SegmentEnd)
    BY <1>2, <1>15, Zenon
  <2>2. Len(rows') = consumed'
    BY <1>6, <1>11, <1>15, <2>1, Zenon
  <2>3. QED
    BY <1>1, <1>8, <1>11, <1>13, <1>14, <2>1, <2>2, Arrives, Zenon
<1>16. CASE answer.status # "success"
  <2>1. /\ phase' = "done" /\ ending' = answer.status /\ UNCHANGED <<baseline, progress, walked>>
    BY <1>2, <1>16, Zenon DEF ReturnWith
  <2>2. ending' \in Endings /\ ending' # "success" /\ evalSlice' = evalSlice /\ calls' = calls
    BY <1>1, <1>5, <1>16, <2>1, Zenon DEF Endings, request
  <2>3. TypeOK'
    BY <1>1, <1>8, <1>11, <1>14, <2>1, <2>2, Zenon DEF request, baseline, progress, TypeOK
  <2>4. RowsAreTrue'
    BY <1>11, <2>2, Zenon DEF RowsAreTrue, IsTrue
  <2>5. BaselineInv' /\ SuccessIsComplete' /\ CarryStaysInArc'
    BY <1>13, <2>1, <2>2, Zenon
       DEF RectInv, baseline, BaselineInv, SuccessIsComplete, CarryStaysInArc
  <2>6. QED
    BY <1>1, <2>1, <2>3, <2>4, <2>5, EndsWith, Zenon
<1>17. QED
  BY <1>15, <1>16

-----------------------------------------------------------------------------
(* The theorems *)

LEMMA Steps == RectInv /\ [Next]_vars => RectInv'
<1> SUFFICES ASSUME RectInv, [Next]_vars PROVE RectInv'
  OBVIOUS
<1>1. CASE Enter
  BY <1>1, EnterKeeps
<1>2. CASE UnsampledLeg
  BY <1>2, UnsampledLegKeeps
<1>3. CASE SampledLeg
  BY <1>3, SampledLegKeeps
<1>4. CASE FinishSampled
  BY <1>4, FinishSampledKeeps
<1>5. CASE EventLeg
  BY <1>5, EventLegKeeps
<1>6. CASE FinalArrived
  BY <1>6, FinalArrivedKeeps
<1>7. CASE FinalLeg
  BY <1>7, FinalLegKeeps
<1>8. CASE FinalEventLeg
  BY <1>8, FinalEventLegKeeps
<1>9. CASE OutOfRestarts
  BY <1>9, OutOfRestartsKeeps
<1>10. CASE ReusableLeg
  BY <1>10, ReusableLegKeeps
<1>11. CASE Leave
  BY <1>11, LeaveKeeps
<1>12. CASE UNCHANGED vars
  <2>1. /\ calls' = calls /\ route' = route /\ method' = method /\ forced' = forced
        /\ clamped' = clamped /\ tf' = tf /\ evalSlice' = evalSlice /\ phase' = phase
        /\ ending' = ending /\ baseT' = baseT /\ hadRebase' = hadRebase /\ reached' = reached
        /\ consumed' = consumed /\ legs' = legs /\ rows' = rows /\ walked' = walked
        /\ carry' = carry /\ opened' = opened
    BY <1>12, Zenon DEF vars, request, baseline, progress
  <2>2. TypeOK'
    BY <2>1, Zenon DEF RectInv, TypeOK
  <2>3. RequestInv'
    BY <2>1, Zenon DEF RectInv, RequestInv, Increasing
  <2>4. BaselineInv'
    BY <2>1, Zenon DEF RectInv, BaselineInv
  <2>5. SampledInv'
    BY <2>1, Zenon DEF RectInv, SampledInv
  <2>6. OtherInv'
    BY <2>1, Zenon DEF RectInv, OtherInv, SpansRequest
  <2>7. RowsAreTrue'
    BY <2>1, Zenon DEF RectInv, RowsAreTrue, IsTrue
  <2>8. LegsFollowOn'
    BY <2>1, Zenon DEF RectInv, LegsFollowOn
  <2>9. SuccessIsComplete'
    BY <2>1, Zenon DEF RectInv, SuccessIsComplete
  <2>10. CarryStaysInArc'
    BY <2>1, Zenon DEF RectInv, CarryStaysInArc
  <2>11. QED
    BY <2>2, <2>3, <2>4, <2>5, <2>6, <2>7, <2>8, <2>9, <2>10 DEF RectInv
<1>13. QED
  BY <1>1, <1>2, <1>3, <1>4, <1>5, <1>6, <1>7, <1>8, <1>9, <1>10, <1>11, <1>12, Zenon
     DEF Next, Step

THEOREM Invariant == Spec => []RectInv
  BY Starts, Steps, PTL DEF Spec

\* Every reachable state is well typed: the baseline stays within the arc.
THEOREM TypeCorrect == Spec => []TypeOK
<1>1. RectInv => TypeOK
  BY DEF RectInv
<1>2. QED
  BY Invariant, <1>1, PTL

\* Whatever the legs return, the rows are the requested samples from the first on,
\* each once, in order, true and on the caller's baseline.
THEOREM TrueRows == Spec => []RowsAreTrue
<1>1. RectInv => RowsAreTrue
  BY DEF RectInv
<1>2. QED
  BY Invariant, <1>1, PTL

\* No leg is integrated twice and none is left out.
THEOREM NoLegTwice == Spec => []LegsFollowOn
<1>1. RectInv => LegsFollowOn
  BY DEF RectInv
<1>2. QED
  BY Invariant, <1>1, PTL

\* Success means the whole arc and all its samples, whatever the caps.
THEOREM CompleteSuccess == Spec => []SuccessIsComplete
<1>1. RectInv => SuccessIsComplete
  BY DEF RectInv
<1>2. QED
  BY Invariant, <1>1, PTL

\* No leg opens with a step size that another call left in the thread.
THEOREM CarryConfined == Spec => []CarryStaysInArc
<1>1. RectInv => CarryStaysInArc
  BY DEF RectInv
<1>2. QED
  BY Invariant, <1>1, PTL
=============================================================================
