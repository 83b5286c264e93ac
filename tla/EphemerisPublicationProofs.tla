--------------------- MODULE EphemerisPublicationProofs ---------------------
(* Theorems about EphemerisPublication, for any threads, bodies and loads. *)
EXTENDS EphemerisPublication, SequenceTheorems, FiniteSetTheorems, TLAPS

Views == [Atomics -> Nat]

\* Publications never lose a body; what a thread or the lock has seen of one
\* atomic it has seen of those stored before it; a thread that may go on has
\* seen a pointer to everything it asked for.
Coherent(v) == v["flags"] <= v["conflict"] /\ v["conflict"] <= v["pointer"]

Cumulative == \A i, j \in 0..Latest : i <= j => BodiesOf(SetAt(i)) \subseteq BodiesOf(SetAt(j))

Seen(t) == want[t] \subseteq BodiesOf(SetAt(view[t]["pointer"]))

Answerable ==
  /\ Coherent(stored) /\ Coherent(lockView) /\ \A t \in Threads : Coherent(view[t])
  /\ \A x \in Atomics : lockView[x] <= stored[x] /\ Latest - 1 <= stored[x]
  /\ holder = None => \A x \in Atomics : stored[x] = Latest /\ lockView[x] = Latest
  /\ \A t \in Threads : pc[t] \in {"locked", "publish", "store"} =>
       \A x \in Atomics : view[t][x] = stored[x]
  /\ \A t \in Threads : pc[t] \in {"locked", "publish"} => \A x \in Atomics : stored[x] = Latest
  /\ \A t \in Threads : pc[t] \in {"verdict", "recheck", "ok"} => Seen(t)
  /\ \A t \in Threads : pc[t] = "publish" =>
       want[t] \cup BodiesOf(Existing) \subseteq BodiesOf(fresh[t])
  /\ \A t \in Threads : pc[t] = "store" => want[t] \subseteq BodiesOf(SetAt(Latest))

IInv == TypeOK /\ Cumulative /\ Answerable

LEMMA AtomicFacts ==
  /\ "pointer" \in Atomics /\ "conflict" \in Atomics /\ "flags" \in Atomics
  /\ \A x \in Atomics : x = "pointer" \/ x = "conflict" \/ x = "flags"
BY DEF Atomics

LEMMA MergeFacts ==
  ASSUME NEW v \in Views, NEW w \in Views
  PROVE  /\ Merge(v, w) \in Views
         /\ \A x \in Atomics : v[x] <= Merge(v, w)[x] /\ w[x] <= Merge(v, w)[x]
         /\ \A x \in Atomics : Merge(v, w)[x] \in {v[x], w[x]}
         /\ Coherent(v) /\ Coherent(w) => Coherent(Merge(v, w))
<1>1. \A x \in Atomics : v[x] \in Nat /\ w[x] \in Nat /\ Merge(v, w)[x] = Later(v[x], w[x])
  BY Zenon DEF Views, Merge
<1>2. \A i, j \in Nat : /\ Later(i, j) \in Nat /\ i <= Later(i, j) /\ j <= Later(i, j)
                       /\ Later(i, j) \in {i, j}
  BY SMT DEF Later
<1>3. Merge(v, w) \in Views
  BY <1>1, <1>2, Zenon DEF Views, Merge
<1>4. ASSUME Coherent(v), Coherent(w) PROVE Coherent(Merge(v, w))
  <2>1. \A i, j, k, l \in Nat : i <= j /\ k <= l => Later(i, k) <= Later(j, l)
    BY SMT DEF Later
  <2>2. QED
    BY <1>1, <1>4, <2>1, AtomicFacts, Zenon DEF Coherent
<1>5. QED
  BY <1>1, <1>2, <1>3, <1>4, Zenon

LEMMA CarriedFacts ==
  ASSUME NEW x \in Atomics, NEW k \in Nat
  PROVE  /\ CarriedBy(x, k) \in Views
         /\ Coherent(CarriedBy(x, k))
         /\ CarriedBy(x, k)[x] = k
         /\ x = "flags" => CarriedBy(x, k)["pointer"] = k
         /\ \A y \in Atomics : CarriedBy(x, k)[y] <= k
         /\ \A y \in Atomics : Place(y) <= Place(x) \/ CarriedBy(x, k)[y] = 0
                              \/ CarriedBy(x, k)[y] = k - 1
<1>1. Place("pointer") = 1 /\ Place("conflict") = 2 /\ Place("flags") = 3
  BY SMT DEF Place
<1>2. \A y \in Atomics : CarriedBy(x, k)[y] =
        IF k = 0 THEN 0 ELSE IF Place(y) <= Place(x) THEN k ELSE k - 1
  BY Zenon DEF CarriedBy
<1>3. \A y \in Atomics : Place(y) \in 1..3
  BY <1>1, AtomicFacts, SMT
<1>4. \A y \in Atomics : CarriedBy(x, k)[y] \in Nat /\ CarriedBy(x, k)[y] <= k
  BY <1>2, <1>3, SMT
<1>5. CarriedBy(x, k) \in Views
  BY <1>4, Zenon DEF Views, CarriedBy
<1>6. CarriedBy(x, k)[x] = k
  BY <1>2, <1>3, SMT
<1>7. /\ CarriedBy(x, k)["flags"] = IF k = 0 THEN 0 ELSE IF 3 <= Place(x) THEN k ELSE k - 1
      /\ CarriedBy(x, k)["conflict"] = IF k = 0 THEN 0 ELSE IF 2 <= Place(x) THEN k ELSE k - 1
      /\ CarriedBy(x, k)["pointer"] = IF k = 0 THEN 0 ELSE IF 1 <= Place(x) THEN k ELSE k - 1
  BY <1>1, <1>2, AtomicFacts, Zenon
<1>8. Coherent(CarriedBy(x, k)) /\ (x = "flags" => CarriedBy(x, k)["pointer"] = k)
  BY <1>1, <1>3, <1>7, SMT DEF Coherent
<1>9. \A y \in Atomics : Place(y) <= Place(x) \/ CarriedBy(x, k)[y] = 0
                       \/ CarriedBy(x, k)[y] = k - 1
  BY <1>2, Zenon
<1>10. QED
  BY <1>4, <1>5, <1>6, <1>8, <1>9

\* What the types say of the numbers, in the form the steps use.
LEMMA TypeFacts ==
  ASSUME TypeOK
  PROVE  /\ Latest \in Nat /\ stored \in Views /\ lockView \in Views
         /\ \A t \in Threads : view[t] \in Views
         /\ \A x \in Atomics : stored[x] <= Latest
         /\ \A t \in Threads : \A x \in Atomics : view[t][x] <= stored[x]
<1>1. Latest \in Nat
  BY LenProperties DEF TypeOK, Latest
<1>2. \A k \in 0..Latest : k \in Nat /\ k <= Latest
  BY <1>1, SMT
<1>3. QED
  BY <1>1, <1>2, Zenon DEF TypeOK, Views

LEMMA LoadFacts ==
  ASSUME IInv, NEW t \in Threads, NEW x \in Atomics, NEW k \in 0..Latest, Load(t, x, k)
  PROVE  /\ view' \in [Threads -> [Atomics -> 0..Latest]]
         /\ \A u \in Threads : u # t => view'[u] = view[u]
         /\ \A y \in Atomics : view[t][y] <= view'[t][y] /\ view'[t][y] <= stored[y]
         /\ Coherent(view'[t]) /\ k <= view'[t][x]
         /\ x = "flags" => k <= view'[t]["pointer"]
<1>1. /\ Latest \in Nat /\ stored \in Views /\ view[t] \in Views /\ k \in Nat /\ k <= stored[x]
      /\ \A y \in Atomics : stored[y] <= Latest /\ view[t][y] <= stored[y]
  BY TypeFacts, SMT DEF IInv, Load, Views
<1>2. view \in [Threads -> [Atomics -> 0..Latest]]
  BY DEF IInv, TypeOK
<1>3. DEFINE carried == CarriedBy(x, k)
<1>4. carried \in Views /\ Coherent(carried) /\ carried[x] = k
      /\ (x = "flags" => carried["pointer"] = k)
      /\ \A y \in Atomics : carried[y] \in Nat
  BY <1>1, CarriedFacts, Zenon DEF Views
<1>4a. \A y \in Atomics : carried[y] <= k /\
         (Place(y) <= Place(x) \/ carried[y] = 0 \/ carried[y] = k - 1)
  BY <1>1, CarriedFacts
<1>5. \A y \in Atomics : carried[y] <= stored[y]
  <2>1. SUFFICES ASSUME NEW y \in Atomics PROVE carried[y] <= stored[y]
    OBVIOUS
  <2>2. stored["flags"] <= stored["conflict"] /\ stored["conflict"] <= stored["pointer"]
        /\ Latest - 1 <= stored[y]
    BY DEF IInv, Answerable, Coherent
  <2>3. stored["flags"] \in Nat /\ stored["conflict"] \in Nat /\ stored["pointer"] \in Nat
        /\ stored[x] \in Nat /\ stored[y] \in Nat /\ stored[x] <= Latest
    BY <1>1, AtomicFacts, Zenon DEF Views
  <2>4. CASE carried[y] = 0 \/ carried[y] = k - 1
    BY <1>1, <2>2, <2>3, <2>4, SMT
  <2>5. CASE Place(y) <= Place(x)
    <3>1. stored[x] <= stored[y]
      BY <2>2, <2>3, <2>5, AtomicFacts, SMT DEF Place
    <3>2. carried[y] <= k /\ carried[y] \in Nat
      BY <1>4, <1>4a
    <3>3. QED
      BY <1>1, <2>3, <3>1, <3>2, SMT
  <2>6. QED
    BY <1>4a, <2>4, <2>5, Zenon
<1>6. view'[t] = Merge(view[t], carried) /\ \A u \in Threads : u # t => view'[u] = view[u]
  BY <1>2, Zenon DEF Load
<1> HIDE DEF carried
<1>7. /\ Merge(view[t], carried) \in Views
      /\ \A y \in Atomics : /\ view[t][y] <= Merge(view[t], carried)[y]
                           /\ carried[y] <= Merge(view[t], carried)[y]
      /\ \A y \in Atomics : Merge(view[t], carried)[y] \in {view[t][y], carried[y]}
      /\ Coherent(Merge(view[t], carried))
  <2>1. Coherent(view[t])
    BY DEF IInv, Answerable
  <2>2. view[t] \in Views /\ carried \in Views /\ Coherent(carried)
    BY <1>1, <1>4
  <2>3. QED
    BY <2>1, <2>2, MergeFacts, Zenon
<1>8. \A y \in Atomics : Merge(view[t], carried)[y] \in 0..Latest
                       /\ Merge(view[t], carried)[y] <= stored[y]
  <2>1. SUFFICES ASSUME NEW y \in Atomics
                 PROVE  Merge(view[t], carried)[y] \in 0..Latest
                        /\ Merge(view[t], carried)[y] <= stored[y]
    OBVIOUS
  <2>2. /\ Merge(view[t], carried)[y] \in Nat /\ stored[y] \in Nat /\ stored[y] <= Latest
        /\ Merge(view[t], carried)[y] <= stored[y]
    BY <1>1, <1>5, <1>7, Zenon DEF Views
  <2>3. QED
    BY <1>1, <2>2, SMT
<1>9. Merge(view[t], carried) \in [Atomics -> 0..Latest]
  BY <1>7, <1>8, Zenon DEF Merge
<1>10. view' \in [Threads -> [Atomics -> 0..Latest]]
  <2>1. view' = [view EXCEPT ![t] = Merge(view[t], carried)]
    BY <1>2, <1>6, Zenon DEF Load, carried
  <2>2. QED
    BY <1>2, <1>9, <2>1, Zenon
<1>11. QED
  BY <1>4, <1>6, <1>7, <1>8, <1>10, AtomicFacts, Zenon
-----------------------------------------------------------------------------
\* What a thread has seen only grows, and so does what it may rely on.
LEMMA SeenGrows ==
  ASSUME IInv, NEW t \in Threads, NEW k \in 0..Latest, NEW l \in 0..Latest, k <= l,
         want[t] \subseteq BodiesOf(SetAt(k))
  PROVE  want[t] \subseteq BodiesOf(SetAt(l))
BY Zenon DEF IInv, Cumulative

\* One thread, outside the locked section before and after, sees more and goes
\* on; the sets, the atomics and the lock stay as they are.
LEMMA Outside ==
  ASSUME IInv, NEW t \in Threads,
         UNCHANGED <<published, stored, holder, lockView, fresh>>,
         pc' \in [Threads -> Places], \A u \in Threads : u # t => pc'[u] = pc[u],
         pc[t] \notin Section, pc'[t] \notin Section,
         view' \in [Threads -> [Atomics -> 0..Latest]],
         \A u \in Threads : u # t => view'[u] = view[u],
         \A y \in Atomics : view'[t][y] <= stored[y],
         Coherent(view'[t]),
         want' \in [Threads -> SUBSET Bodies], embedded' \in [Threads -> BOOLEAN],
         \A u \in Threads : u # t => want'[u] = want[u],
         basis' \in [Threads -> 0..Latest], calls' \in Nat,
         pc'[t] \in {"verdict", "recheck", "ok"} => Seen(t)'
  PROVE  IInv'
<1>1. Latest' = Latest /\ \A k : SetAt(k)' = SetAt(k)
  BY DEF Latest, SetAt
<1>2. Cumulative'
  BY <1>1, Zenon DEF IInv, Cumulative
<1>3. \A u \in Threads : pc'[u] \in Section => u # t /\ pc'[u] = pc[u]
  BY Zenon
<1>4. TypeOK'
  <2>1. \A u \in Threads : \A x \in Atomics : view'[u][x] <= stored'[x]
    BY Zenon DEF IInv, TypeOK
  <2>2. \A u \in Threads : pc'[u] \in Section <=> holder' = u
    BY Zenon DEF IInv, TypeOK
  <2>3. QED
    BY <1>1, <2>1, <2>2, Zenon DEF IInv, TypeOK
<1>5. \A u \in Threads : u # t => (Seen(u)' <=> Seen(u))
  BY <1>1, Zenon DEF Seen
<1>6. \A u \in Threads : pc'[u] \in {"verdict", "recheck", "ok"} => Seen(u)'
  BY <1>5, Zenon DEF IInv, Answerable
<1>7. \A u \in Threads : Coherent(view'[u])
  BY Zenon DEF IInv, Answerable
<1>8. \A u \in Threads : pc'[u] \in {"locked", "publish", "store"} =>
        \A x \in Atomics : view'[u][x] = stored'[x]
  <2>1. \A u \in Threads : pc'[u] \in Section => view'[u] = view[u] /\ pc[u] \in Section
    BY <1>3, Zenon
  <2>2. \A u \in Threads : pc[u] \in Section => \A x \in Atomics : view[u][x] = stored[x]
    BY Zenon DEF IInv, Answerable, Section
  <2>3. QED
    BY <2>1, <2>2, ZenonT(40) DEF Section
<1>9. /\ \A u \in Threads : pc'[u] \in {"locked", "publish"} => \A x \in Atomics : stored'[x] = Latest'
      /\ \A u \in Threads : pc'[u] = "publish" =>
           want'[u] \cup BodiesOf(Existing)' \subseteq BodiesOf(fresh'[u])
      /\ \A u \in Threads : pc'[u] = "store" => want'[u] \subseteq BodiesOf(SetAt(Latest))'
  BY <1>1, <1>3, Zenon DEF IInv, Answerable, Section, Existing
<1>10. Answerable'
  BY <1>1, <1>6, <1>7, <1>8, <1>9, Zenon DEF IInv, Answerable
<1>11. QED
  BY <1>2, <1>4, <1>10 DEF IInv

\* The only thread in the locked section.
LEMMA Alone ==
  ASSUME IInv, NEW t \in Threads, pc[t] \in Section
  PROVE  holder = t /\ holder # None /\ \A u \in Threads : pc[u] \in Section => u = t
BY PublicationAssumption, Zenon DEF IInv, TypeOK

\* A thread leaves the locked section, everything being stored.
LEMMA Leaves ==
  ASSUME IInv, NEW t \in Threads, NEW where \in {"idle", "ok"},
         pc[t] \in Section, \A x \in Atomics : stored[x] = Latest,
         where = "ok" => want[t] \subseteq BodiesOf(SetAt(Latest)),
         Unlock(t), Goto(t, where),
         UNCHANGED <<published, stored, view, want, embedded, fresh, basis, calls>>
  PROVE  IInv'
<1>1. Latest' = Latest /\ \A k : SetAt(k)' = SetAt(k)
  BY DEF Latest, SetAt
<1>2. Cumulative'
  BY <1>1, Zenon DEF IInv, Cumulative
<1>3. /\ pc' \in [Threads -> Places] /\ pc'[t] = where
      /\ \A u \in Threads : u # t => pc'[u] = pc[u]
  BY Zenon DEF Goto, IInv, TypeOK, Places
<1>4. \A u \in Threads : pc'[u] \notin Section
  BY <1>3, Alone, Zenon DEF Section
<1>5. /\ holder' = None /\ lockView' = view[t] /\ \A x \in Atomics : view[t][x] = stored[x]
      /\ None \notin Threads
  BY PublicationAssumption, Zenon DEF Unlock, IInv, Answerable, Section
<1>6. TypeOK'
  <2>1. lockView' \in [Atomics -> 0..Latest]
    BY <1>5, Zenon DEF IInv, TypeOK
  <2>2. \A u \in Threads : pc'[u] \in Section <=> holder' = u
    BY <1>4, <1>5, Zenon
  <2>3. QED
    BY <1>1, <1>3, <1>5, <2>1, <2>2, Zenon DEF IInv, TypeOK
<1>7. where = "ok" => Seen(t)'
  BY <1>1, <1>5, AtomicFacts, Zenon DEF Seen
<1>8. \A u \in Threads : pc'[u] \in {"verdict", "recheck", "ok"} => Seen(u)'
  <2>1. \A u \in Threads : Seen(u)' <=> Seen(u)
    BY <1>1, Zenon DEF Seen
  <2>2. QED
    BY <1>3, <1>7, <2>1, Zenon DEF IInv, Answerable
<1>9. /\ \A x \in Atomics : lockView'[x] = stored[x] /\ lockView'[x] = Latest
      /\ \A x \in Atomics : stored[x] <= Latest /\ Latest - 1 <= stored[x]
      /\ Coherent(lockView')
  <2>1. \A x \in Atomics : stored[x] <= Latest /\ Latest - 1 <= stored[x]
    BY TypeFacts, Zenon DEF IInv, Answerable
  <2>2. QED
    BY <1>5, <2>1, Zenon DEF IInv, Answerable
<1>10. \A x \in Atomics : lockView'[x] <= stored[x]
  <2>1. Latest \in Nat
    BY TypeFacts DEF IInv
  <2>2. QED
    BY <1>9, <2>1, SMT
<1>11. Answerable'
  BY <1>1, <1>4, <1>8, <1>9, <1>10, Zenon DEF IInv, Answerable, Section
<1>12. QED
  BY <1>2, <1>6, <1>11 DEF IInv

LEMMA LockStep ==
  ASSUME IInv, NEW t \in Threads, Lock(t)
  PROVE  IInv'
<1>1. Latest' = Latest /\ (\A k : SetAt(k)' = SetAt(k)) /\ Latest \in Nat
  BY TypeFacts DEF Latest, SetAt, Lock, IInv
<1>2. Cumulative'
  BY <1>1, Zenon DEF IInv, Cumulative
<1>3. /\ pc' \in [Threads -> Places] /\ pc'[t] = "locked" /\ holder = None /\ holder' = t
      /\ \A u \in Threads : u # t => pc'[u] = pc[u]
      /\ UNCHANGED <<published, stored, lockView, want, embedded, fresh, calls>>
  BY Zenon DEF Lock, MayLock, Goto, IInv, TypeOK, Places
<1>4. \A u \in Threads : pc[u] \notin Section
  BY <1>3, PublicationAssumption, Zenon DEF IInv, TypeOK
<1>5. \A x \in Atomics : stored[x] = Latest /\ lockView[x] = Latest
  BY <1>3, Zenon DEF IInv, Answerable
<1>6. /\ view'[t] = Merge(view[t], lockView) /\ \A u \in Threads : u # t => view'[u] = view[u]
      /\ view' = [view EXCEPT ![t] = Merge(view[t], lockView)]
  BY Zenon DEF Lock, IInv, TypeOK
<1>7. \A x \in Atomics : Merge(view[t], lockView)[x] = Latest
  <2>1. SUFFICES ASSUME NEW x \in Atomics PROVE Merge(view[t], lockView)[x] = Latest
    OBVIOUS
  <2>2. view[t][x] <= Latest /\ view[t][x] \in Nat /\ lockView[x] = Latest
        /\ lockView[x] <= Merge(view[t], lockView)[x]
        /\ Merge(view[t], lockView)[x] \in {view[t][x], lockView[x]}
    <3>1. view[t] \in Views /\ lockView \in Views /\ view[t][x] <= stored[x]
      BY TypeFacts, Zenon DEF IInv
    <3>2. /\ lockView[x] <= Merge(view[t], lockView)[x]
          /\ Merge(view[t], lockView)[x] \in {view[t][x], lockView[x]}
      BY <3>1, MergeFacts, Zenon
    <3>3. view[t][x] \in Nat
      BY <3>1, Zenon DEF Views
    <3>4. QED
      BY <1>5, <3>1, <3>2, <3>3, Zenon
  <2>3. QED
    BY <1>1, <2>2, SMT
<1>8. view' \in [Threads -> [Atomics -> 0..Latest]]
  <2>1. Latest \in 0..Latest
    BY <1>1, SMT
  <2>2. Merge(view[t], lockView) \in [Atomics -> 0..Latest]
    BY <1>7, <2>1, Zenon DEF Merge
  <2>3. QED
    BY <1>6, <2>2, Zenon DEF IInv, TypeOK
<1>9. \A x \in Atomics : view'[t][x] = stored[x] /\ view'[t][x] <= stored[x]
  BY <1>1, <1>5, <1>6, <1>7, SMT
<1>10. TypeOK'
  <2>1. \A u \in Threads : pc'[u] \in Section <=> holder' = u
    BY <1>3, <1>4, Zenon DEF Section
  <2>2. \A u \in Threads : \A x \in Atomics : view'[u][x] <= stored'[x]
    BY <1>3, <1>6, <1>9, Zenon DEF IInv, TypeOK
  <2>3. basis' \in [Threads -> 0..Latest]
    <3>1. Latest \in 0..Latest
      BY <1>1, SMT
    <3>2. QED
      BY <3>1, Zenon DEF Lock, IInv, TypeOK
  <2>4. QED
    BY <1>1, <1>3, <1>8, <2>1, <2>2, <2>3, Zenon DEF IInv, TypeOK
<1>11. Coherent(view'[t])
  BY <1>9, AtomicFacts, Zenon DEF IInv, Answerable, Coherent
<1>12. \A u \in Threads : pc'[u] \in {"verdict", "recheck", "ok"} => Seen(u)'
  <2>1. \A u \in Threads : u # t => (Seen(u)' <=> Seen(u))
    BY <1>1, <1>3, <1>6, Zenon DEF Seen
  <2>2. QED
    BY <1>3, <2>1, Zenon DEF IInv, Answerable
<1>13. holder' # None
  BY <1>3, PublicationAssumption
<1>14. \A u \in Threads : pc'[u] \in Section => u = t
  BY <1>3, <1>4, Zenon
<1>15. Answerable'
  BY <1>1, <1>3, <1>5, <1>6, <1>9, <1>11, <1>12, <1>13, <1>14, Zenon
     DEF IInv, Answerable, Section
<1>16. QED
  BY <1>2, <1>10, <1>15 DEF IInv

LEMMA LoadMissingStep ==
  ASSUME IInv, NEW t \in Threads, LoadMissing(t)
  PROVE  IInv'
<1>1. Latest' = Latest /\ (\A k : SetAt(k)' = SetAt(k)) /\ Latest \in Nat
  BY TypeFacts DEF Latest, SetAt, LoadMissing, IInv
<1>2. Cumulative'
  BY <1>1, Zenon DEF IInv, Cumulative
<1>3. /\ pc' \in [Threads -> Places] /\ pc'[t] = "publish" /\ pc[t] = "locked"
      /\ \A u \in Threads : u # t => pc'[u] = pc[u]
      /\ UNCHANGED <<published, stored, view, holder, lockView, want, embedded, basis, calls>>
  BY Zenon DEF LoadMissing, Goto, IInv, TypeOK, Places
<1>4. PICK content \in [Missing(t) -> {"compiled", "other"}] :
        fresh' = [fresh EXCEPT ![t] =
                    [b \in Bodies |-> IF b \in Missing(t) THEN content[b] ELSE Existing[b]]]
  BY Zenon DEF LoadMissing
<1>5. Existing \in CatalogueSets /\ want[t] \subseteq Bodies
  <2>1. Nothing \in CatalogueSets
    BY Zenon DEF Nothing, CatalogueSets
  <2>2. Latest # 0 => published[Latest] \in CatalogueSets
    <3>1. Latest # 0 => Latest \in 1..Len(published)
      BY <1>1, SMT DEF Latest
    <3>2. published \in Seq(CatalogueSets)
      BY DEF IInv, TypeOK
    <3>3. QED
      BY <3>1, <3>2, ElementOfSeq
  <2>3. QED
    BY <2>1, <2>2, Zenon DEF Existing, SetAt, IInv, TypeOK
<1>6. DEFINE merged == [b \in Bodies |-> IF b \in Missing(t) THEN content[b] ELSE Existing[b]]
<1>7. merged \in CatalogueSets
  <2>1. \A b \in Bodies : merged[b] \in {"none", "compiled", "other"}
    BY <1>5, Zenon DEF CatalogueSets
  <2>2. QED
    BY <2>1, Zenon DEF CatalogueSets
<1>8. want[t] \cup BodiesOf(Existing) \subseteq BodiesOf(merged)
  <2>1. \A b \in Missing(t) : merged[b] # "none" \/ b \notin Bodies
    BY Zenon
  <2>2. \A b \in Bodies \ Missing(t) : merged[b] = Existing[b]
    BY Zenon
  <2>3. BodiesOf(Existing) \subseteq BodiesOf(merged)
    BY <2>1, <2>2, Zenon DEF BodiesOf
  <2>4. Missing(t) \cap Bodies \subseteq BodiesOf(merged)
    BY <2>1, Zenon DEF BodiesOf
  <2>5. QED
    BY <1>5, <2>3, <2>4, Zenon DEF Missing
<1>9. fresh' \in [Threads -> CatalogueSets] /\ fresh'[t] = merged
  BY <1>4, <1>7, Zenon DEF IInv, TypeOK
<1>10. \A u \in Threads : pc'[u] \in Section => u = t
  BY <1>3, Alone, Zenon DEF Section
<1>11. TypeOK'
  <2>1. \A u \in Threads : pc'[u] \in Section <=> holder' = u
    BY <1>3, Alone, Zenon DEF Section, IInv, TypeOK
  <2>2. QED
    BY <1>1, <1>3, <1>9, <2>1, Zenon DEF IInv, TypeOK
<1>12. \A u \in Threads : Seen(u)' <=> Seen(u)
  BY <1>1, <1>3, Zenon DEF Seen
<1>13. Existing' = Existing
  BY <1>1, Zenon DEF Existing
<1>14. \A x \in Atomics : view[t][x] = stored[x] /\ stored[x] = Latest
  BY <1>3, Zenon DEF IInv, Answerable
<1>15. holder' # None
  BY <1>3, Alone, Zenon DEF Section
<1>16. \A u \in Threads : pc'[u] \in {"verdict", "recheck", "ok"} => Seen(u)'
  BY <1>3, <1>12, Zenon DEF IInv, Answerable
<1> HIDE DEF merged
<1>17. Answerable'
  BY <1>1, <1>3, <1>8, <1>9, <1>10, <1>13, <1>14, <1>15, <1>16, Zenon
     DEF IInv, Answerable, Section
<1>18. QED
  BY <1>2, <1>11, <1>17 DEF IInv

LEMMA PublishStep ==
  ASSUME IInv, NEW t \in Threads, Publish(t)
  PROVE  IInv'
<1>a. published \in Seq(CatalogueSets) /\ fresh[t] \in CatalogueSets /\ Latest \in Nat
  BY TypeFacts DEF IInv, TypeOK
<1>1. published' \in Seq(CatalogueSets) /\ Latest' = Latest + 1
      /\ published'[Latest + 1] = fresh[t] /\ \A k \in 1..Latest : published'[k] = published[k]
  BY <1>a, AppendProperties DEF Publish, Latest
<1>2. /\ \A k : k = Latest + 1 => SetAt(k)' = fresh[t]
      /\ \A k \in 0..Latest : SetAt(k)' = SetAt(k)
  <2>1. Latest + 1 # 0 /\ \A k \in 0..Latest : k = 0 \/ k \in 1..Latest
    BY <1>a, SMT
  <2>2. Nothing' = Nothing
    BY DEF Nothing
  <2>3. \A k : k = Latest + 1 => SetAt(k)' = fresh[t]
    BY <1>1, <2>1, Zenon DEF SetAt
  <2>4. \A k \in 0..Latest : SetAt(k)' = SetAt(k)
    BY <1>1, <2>1, <2>2, Zenon DEF SetAt
  <2>5. QED
    BY <2>3, <2>4
<1>3. /\ pc' \in [Threads -> Places] /\ pc'[t] = "store" /\ pc[t] = "publish"
      /\ \A u \in Threads : u # t => pc'[u] = pc[u]
      /\ UNCHANGED <<stored, view, holder, lockView, want, embedded, fresh, calls>>
      /\ basis' = [basis EXCEPT ![t] = Latest + 1]
  BY Zenon DEF Publish, Goto, IInv, TypeOK, Places
<1>4. want[t] \cup BodiesOf(SetAt(Latest)) \subseteq BodiesOf(fresh[t])
      /\ \A x \in Atomics : stored[x] = Latest
  BY <1>3, Zenon DEF IInv, Answerable, Existing
<1>5. \A k \in 0..Latest : k \in 0..(Latest + 1)
  BY <1>a, SMT
<1>6. Cumulative'
  <2>1. SUFFICES ASSUME NEW i \in 0..(Latest + 1), NEW j \in 0..(Latest + 1), i <= j
                 PROVE  BodiesOf(SetAt(i)') \subseteq BodiesOf(SetAt(j)')
    BY <1>1, Zenon DEF Cumulative, BodiesOf
  <2>2. CASE j \in 0..Latest
    <3>1. i \in 0..Latest
      BY <1>a, <2>1, <2>2, SMT
    <3>2. QED
      BY <1>2, <2>1, <2>2, <3>1, Zenon DEF IInv, Cumulative
  <2>3. CASE j = Latest + 1 /\ i \in 0..Latest
    <3>1. Latest \in 0..Latest /\ i <= Latest
      BY <1>a, <2>3, SMT
    <3>2. BodiesOf(SetAt(i)) \subseteq BodiesOf(SetAt(Latest))
      BY <2>3, <3>1, Zenon DEF IInv, Cumulative
    <3>3. QED
      BY <1>2, <1>4, <2>3, <3>2, Zenon
  <2>4. CASE i = j
    BY <2>4
  <2>5. QED
    BY <1>a, <2>1, <2>2, <2>3, <2>4, SMT
<1>7. TypeOK'
  <2>1. /\ stored \in [Atomics -> 0..(Latest + 1)] /\ lockView \in [Atomics -> 0..(Latest + 1)]
        /\ view \in [Threads -> [Atomics -> 0..(Latest + 1)]]
    BY <1>5, Zenon DEF IInv, TypeOK
  <2>2. basis' \in [Threads -> 0..(Latest + 1)]
    <3>1. Latest + 1 \in 0..(Latest + 1)
      BY <1>a, SMT
    <3>2. QED
      BY <1>3, <1>5, <3>1, Zenon DEF IInv, TypeOK
  <2>3. \A u \in Threads : pc'[u] \in Section <=> holder' = u
    BY <1>3, Alone, Zenon DEF Section, IInv, TypeOK
  <2>4. QED
    BY <1>1, <1>3, <2>1, <2>2, <2>3, Zenon DEF IInv, TypeOK
<1>8. \A u \in Threads : pc'[u] \in Section => u = t
  BY <1>3, Alone, Zenon DEF Section
<1>9. \A u \in Threads : Seen(u)' <=> Seen(u)
  <2>1. \A u \in Threads : view[u]["pointer"] \in 0..Latest
    BY AtomicFacts, Zenon DEF IInv, TypeOK
  <2>2. QED
    BY <1>2, <1>3, <2>1, Zenon DEF Seen, BodiesOf
<1>10. \A u \in Threads : pc'[u] \in {"verdict", "recheck", "ok"} => Seen(u)'
  BY <1>3, <1>9, Zenon DEF IInv, Answerable
<1>11. holder' # None /\ \A x \in Atomics : view[t][x] = stored[x]
  BY <1>3, Alone, Zenon DEF Section, IInv, Answerable
<1>12. want'[t] \subseteq BodiesOf(SetAt(Latest))'
  <2>1. SetAt(Latest)' = fresh[t]
    BY <1>1, <1>2, Zenon DEF SetAt
  <2>2. QED
    BY <1>3, <1>4, <2>1, Zenon DEF BodiesOf
<1>13. \A x \in Atomics : Latest' - 1 <= stored[x]
  BY <1>a, <1>1, <1>4, SMT
<1>14. Answerable'
  BY <1>3, <1>8, <1>10, <1>11, <1>12, <1>13, Zenon DEF IInv, Answerable, Section
<1>15. QED
  BY <1>6, <1>7, <1>14 DEF IInv

LEMMA StoreStep ==
  ASSUME IInv, NEW t \in Threads, Store(t)
  PROVE  IInv'
<1>1. Latest' = Latest /\ (\A k : SetAt(k)' = SetAt(k)) /\ Latest \in Nat
  BY TypeFacts DEF Latest, SetAt, Store, IInv
<1>2. Cumulative'
  BY <1>1, Zenon DEF IInv, Cumulative
<1>3. pc[t] = "store" /\ UNCHANGED <<published, holder, lockView, pc, want, embedded, fresh, basis, calls>>
  BY Zenon DEF Store
<1>4. PICK x \in Atomics :
        /\ stored[x] < Latest
        /\ \A y \in Atomics : Place(y) < Place(x) => stored[y] = Latest
        /\ stored' = [stored EXCEPT ![x] = Latest]
        /\ view' = [view EXCEPT ![t][x] = Latest]
  BY Zenon DEF Store
<1>5. /\ stored \in [Atomics -> 0..Latest] /\ view \in [Threads -> [Atomics -> 0..Latest]]
      /\ \A y \in Atomics : view[t][y] = stored[y]
      /\ Latest \in 0..Latest
  BY <1>1, <1>3, SMT DEF IInv, TypeOK, Answerable
<1>6. /\ stored' \in [Atomics -> 0..Latest] /\ view' \in [Threads -> [Atomics -> 0..Latest]]
      /\ stored'[x] = Latest /\ \A y \in Atomics : y # x => stored'[y] = stored[y]
      /\ \A y \in Atomics : view'[t][y] = stored'[y]
      /\ \A u \in Threads : u # t => view'[u] = view[u]
  BY <1>4, <1>5, Zenon
<1>7. \A y \in Atomics : stored[y] <= stored'[y] /\ stored'[y] <= stored'[y]
                       /\ Latest - 1 <= stored'[y]
  <2>1. \A y \in Atomics : stored[y] \in Nat /\ stored[y] <= Latest /\ Latest - 1 <= stored[y]
    BY TypeFacts, Zenon DEF IInv, Answerable, Views
  <2>2. QED
    BY <1>1, <1>6, <2>1, SMT
<1>8. Coherent(stored')
  <2>1. Place("pointer") = 1 /\ Place("conflict") = 2 /\ Place("flags") = 3
    BY SMT DEF Place
  <2>2. /\ stored["flags"] \in Nat /\ stored["conflict"] \in Nat /\ stored["pointer"] \in Nat
        /\ stored["flags"] <= stored["conflict"] /\ stored["conflict"] <= stored["pointer"]
        /\ stored["pointer"] <= Latest
    BY TypeFacts, AtomicFacts, Zenon DEF IInv, Answerable, Coherent, Views
  <2>3. CASE x = "pointer"
    BY <1>1, <1>6, <2>2, <2>3, AtomicFacts, SMT DEF Coherent
  <2>4. CASE x = "conflict"
    <3>1. stored["pointer"] = Latest
      BY <1>4, <2>1, <2>4, AtomicFacts, SMT
    <3>2. QED
      BY <1>1, <1>6, <2>2, <2>4, <3>1, AtomicFacts, SMT DEF Coherent
  <2>5. CASE x = "flags"
    <3>1. stored["pointer"] = Latest /\ stored["conflict"] = Latest
      BY <1>4, <2>1, <2>5, AtomicFacts, SMT
    <3>2. QED
      BY <1>1, <1>6, <2>2, <2>5, <3>1, AtomicFacts, SMT DEF Coherent
  <2>6. QED
    BY <2>3, <2>4, <2>5, AtomicFacts
<1>9. Coherent(view'[t])
  BY <1>6, <1>8, AtomicFacts, Zenon DEF Coherent
<1>10. \A u \in Threads : \A y \in Atomics : view'[u][y] <= stored'[y]
  <2>1. \A u \in Threads : \A y \in Atomics : u # t => view'[u][y] <= stored'[y]
    <3>1. SUFFICES ASSUME NEW u \in Threads, NEW y \in Atomics, u # t
                   PROVE  view'[u][y] <= stored'[y]
      OBVIOUS
    <3>2. view[u][y] \in Nat /\ stored[y] \in Nat /\ view[u][y] <= stored[y]
      BY TypeFacts, Zenon DEF IInv, Views
    <3>3. stored'[y] \in Nat /\ stored[y] <= stored'[y] /\ view'[u][y] = view[u][y]
      <4>1. stored'[y] \in 0..Latest
        BY <1>6, Zenon
      <4>2. stored'[y] \in Nat
        BY <1>1, <4>1, SMT
      <4>3. QED
        BY <1>6, <1>7, <3>1, <4>2, Zenon
    <3>4. QED
      BY <3>2, <3>3, SMT
  <2>2. QED
    BY <1>6, <1>7, <2>1, Zenon
<1>11. TypeOK'
  BY <1>1, <1>3, <1>6, <1>10, Zenon DEF IInv, TypeOK
<1>12. \A y \in Atomics : lockView'[y] <= stored'[y]
  <2>1. SUFFICES ASSUME NEW y \in Atomics PROVE lockView[y] <= stored'[y]
    BY <1>3, Zenon
  <2>2. lockView[y] \in Nat /\ stored[y] \in Nat /\ lockView[y] <= stored[y]
    BY TypeFacts, Zenon DEF IInv, Answerable, Views
  <2>3. stored'[y] \in Nat /\ stored[y] <= stored'[y]
    BY <1>1, <1>6, <1>7, SMT
  <2>4. QED
    BY <2>2, <2>3, SMT
<1>13. \A u \in Threads : pc[u] \in Section => u = t
  BY <1>3, Alone, Zenon DEF Section
<1>14. holder' # None
  BY <1>3, Alone, Zenon DEF Section
<1>15. \A u \in Threads : pc'[u] \in {"verdict", "recheck", "ok"} => Seen(u)'
  <2>1. \A u \in Threads : u # t => (Seen(u)' <=> Seen(u))
    BY <1>1, <1>3, <1>6, Zenon DEF Seen
  <2>2. QED
    BY <1>3, <2>1, Zenon DEF IInv, Answerable
<1>16. want'[t] \subseteq BodiesOf(SetAt(Latest))'
  BY <1>1, <1>3, Zenon DEF IInv, Answerable
<1>17. Answerable'
  BY <1>1, <1>3, <1>6, <1>7, <1>8, <1>9, <1>12, <1>13, <1>14, <1>15, <1>16, Zenon
     DEF IInv, Answerable, Section
<1>18. QED
  BY <1>2, <1>11, <1>17 DEF IInv

LEMMA RequestStep ==
  ASSUME IInv, NEW t \in Threads, Request(t)
  PROVE  IInv'
<1>1. /\ pc[t] \in {"idle", "ok"} /\ pc' = [pc EXCEPT ![t] = "flags"]
      /\ \E bodies \in SUBSET Bodies : want' = [want EXCEPT ![t] = bodies]
      /\ \E flag \in BOOLEAN : embedded' = [embedded EXCEPT ![t] = flag]
      /\ UNCHANGED <<published, stored, view, holder, lockView, fresh, basis>>
  BY Zenon DEF Request, Goto
<1>2. calls' \in Nat
  BY SMT DEF Request, IInv, TypeOK
<1>3. /\ pc' \in [Threads -> Places] /\ pc'[t] = "flags"
      /\ \A u \in Threads : u # t => pc'[u] = pc[u]
      /\ want' \in [Threads -> SUBSET Bodies] /\ \A u \in Threads : u # t => want'[u] = want[u]
      /\ embedded' \in [Threads -> BOOLEAN]
  BY <1>1, Zenon DEF IInv, TypeOK, Places
<1>4. /\ view' \in [Threads -> [Atomics -> 0..Latest]] /\ basis' \in [Threads -> 0..Latest]
      /\ \A y \in Atomics : view'[t][y] <= stored[y]
      /\ Coherent(view'[t]) /\ \A u \in Threads : u # t => view'[u] = view[u]
  BY <1>1, Zenon DEF IInv, TypeOK, Answerable
<1>5. pc[t] \notin Section /\ pc'[t] \notin Section \cup {"verdict", "recheck", "ok"}
  BY <1>1, <1>3, Zenon DEF Section
<1>6. QED
  BY <1>1, <1>2, <1>3, <1>4, <1>5, Outside, Zenon

\* A load of an atomic, and where the thread goes from it.
LEMMA LoadStep ==
  ASSUME IInv, NEW t \in Threads, NEW x \in Atomics, NEW k \in 0..Latest, Load(t, x, k),
         NEW where \in Places \ Section, Goto(t, where), pc[t] \notin Section,
         basis' \in [Threads -> 0..Latest],
         where \in {"verdict", "recheck", "ok"} =>
           Seen(t) \/ (x = "flags" /\ want[t] \subseteq BodiesOf(SetAt(k))),
         UNCHANGED <<published, stored, holder, lockView, want, embedded, fresh, calls>>
  PROVE  IInv'
<1>1. /\ view' \in [Threads -> [Atomics -> 0..Latest]]
      /\ \A u \in Threads : u # t => view'[u] = view[u]
      /\ \A y \in Atomics : view[t][y] <= view'[t][y] /\ view'[t][y] <= stored[y]
      /\ Coherent(view'[t])
      /\ x = "flags" => k <= view'[t]["pointer"]
  BY LoadFacts, Zenon
<1>2. /\ pc' \in [Threads -> Places] /\ pc'[t] = where
      /\ \A u \in Threads : u # t => pc'[u] = pc[u]
  BY Zenon DEF Goto, IInv, TypeOK
<1>3. Latest' = Latest /\ \A l : SetAt(l)' = SetAt(l)
  BY DEF Latest, SetAt
<1>4. where \in {"verdict", "recheck", "ok"} => Seen(t)'
  <2>1. SUFFICES ASSUME where \in {"verdict", "recheck", "ok"}
                 PROVE  want[t] \subseteq BodiesOf(SetAt(view'[t]["pointer"]))
    BY <1>3, Zenon DEF Seen
  <2>2. view'[t]["pointer"] \in 0..Latest /\ view[t]["pointer"] \in 0..Latest
    BY <1>1, AtomicFacts, ZenonT(40) DEF IInv, TypeOK
  <2>3. CASE Seen(t)
    <3>1. view[t]["pointer"] <= view'[t]["pointer"]
      BY <1>1, AtomicFacts
    <3>2. QED
      BY <2>2, <2>3, <3>1, SeenGrows, Zenon DEF Seen
  <2>4. CASE x = "flags" /\ want[t] \subseteq BodiesOf(SetAt(k))
    BY <1>1, <2>2, <2>4, SeenGrows, Zenon
  <2>5. QED
    BY <2>1, <2>3, <2>4
<1>5. calls' \in Nat /\ want' \in [Threads -> SUBSET Bodies] /\ embedded' \in [Threads -> BOOLEAN]
  BY DEF IInv, TypeOK
<1>6. QED
  BY <1>1, <1>2, <1>4, <1>5, Outside, Zenon

LEMMA NextStep ==
  ASSUME IInv, [Next]_vars
  PROVE  IInv'
<1>a. pc \in [Threads -> Places] /\ basis \in [Threads -> 0..Latest]
  BY DEF IInv, TypeOK
<1>1. ASSUME NEW t \in Threads, LoadFlags(t) PROVE IInv'
  <2>1. PICK k \in 0..Latest :
          /\ Load(t, "flags", k) /\ basis' = [basis EXCEPT ![t] = k]
          /\ Goto(t, IF ~(want[t] \subseteq BodiesOf(SetAt(k))) THEN "lock"
                     ELSE IF AsksForVerdict(t) THEN "verdict" ELSE "ok")
    BY <1>1, Zenon DEF LoadFlags
  <2>2. basis' \in [Threads -> 0..Latest] /\ pc[t] \notin Section
    BY <1>1, <1>a, <2>1, Zenon DEF LoadFlags, Section
  <2>3. PICK where \in {"lock", "verdict", "ok"} :
          Goto(t, where) /\ (where # "lock" => want[t] \subseteq BodiesOf(SetAt(k)))
    BY <2>1, Zenon
  <2>4. where \in Places \ Section
    BY <2>3, Zenon DEF Places, Section
  <2>5. QED
    BY <1>1, <2>1, <2>2, <2>3, <2>4, AtomicFacts, LoadStep, Zenon DEF LoadFlags
<1>2. ASSUME NEW t \in Threads, LoadVerdict(t) \/ Recheck(t) PROVE IInv'
  <2>1. PICK x \in {"conflict", "pointer"} : \E k \in 0..Latest :
          Load(t, x, k) /\ \E where \in {"idle", "recheck", "ok"} : Goto(t, where)
    BY <1>2, Zenon DEF LoadVerdict, Recheck
  <2>2. PICK k \in 0..Latest : Load(t, x, k) /\ \E where \in {"idle", "recheck", "ok"} : Goto(t, where)
    BY <2>1
  <2>3. PICK where \in {"idle", "recheck", "ok"} : Goto(t, where)
    BY <2>2
  <2>4. where \in Places \ Section /\ x \in Atomics
    BY AtomicFacts, Zenon DEF Places, Section
  <2>5. pc[t] \in {"verdict", "recheck"}
        /\ UNCHANGED <<published, stored, holder, lockView, want, embedded, fresh, basis, calls>>
    BY <1>2, Zenon DEF LoadVerdict, Recheck
  <2>6. Seen(t) /\ pc[t] \notin Section
    BY <2>5, Zenon DEF IInv, Answerable, Section
  <2>7. QED
    BY <1>a, <2>2, <2>3, <2>4, <2>5, <2>6, LoadStep, Zenon
<1>3. ASSUME NEW t \in Threads, Borrow(t) PROVE IInv'
  <2>1. PICK k \in 0..Latest : Load(t, "pointer", k)
    BY <1>3, Zenon DEF Borrow
  <2>2. /\ pc[t] \in {"idle", "ok"}
        /\ UNCHANGED <<published, stored, holder, lockView, pc, want, embedded, fresh, basis, calls>>
    BY <1>3, Zenon DEF Borrow
  <2>3. Goto(t, pc[t]) /\ pc[t] \in Places \ Section
    BY <1>a, <2>2, Zenon DEF Goto, Places, Section
  <2>4. pc[t] \in {"verdict", "recheck", "ok"} => Seen(t)
    BY Zenon DEF IInv, Answerable
  <2>5. QED
    BY <1>a, <2>1, <2>2, <2>3, <2>4, AtomicFacts, LoadStep, Zenon
<1>4. ASSUME NEW t \in Threads, Get(t) PROVE IInv'
  <2>1. /\ pc[t] \in {"idle", "ok"} /\ view' = [view EXCEPT ![t] = Merge(view[t], lockView)]
        /\ UNCHANGED <<published, stored, holder, lockView, pc, want, embedded, fresh, basis, calls>>
    BY <1>4, Zenon DEF Get
  <2>2. /\ view[t] \in Views /\ lockView \in Views /\ stored \in Views /\ Latest \in Nat
        /\ \A y \in Atomics : view[t][y] <= stored[y] /\ lockView[y] <= stored[y] /\ stored[y] <= Latest
        /\ Coherent(view[t]) /\ Coherent(lockView)
    BY TypeFacts, Zenon DEF IInv, Answerable
  <2>3. /\ Merge(view[t], lockView) \in Views /\ Coherent(Merge(view[t], lockView))
        /\ \A y \in Atomics : view[t][y] <= Merge(view[t], lockView)[y]
        /\ \A y \in Atomics : Merge(view[t], lockView)[y] \in {view[t][y], lockView[y]}
    BY <2>2, MergeFacts
  <2>4. \A y \in Atomics : Merge(view[t], lockView)[y] <= stored[y]
                       /\ Merge(view[t], lockView)[y] \in 0..Latest
    <3>1. SUFFICES ASSUME NEW y \in Atomics
                   PROVE  Merge(view[t], lockView)[y] <= stored[y]
                          /\ Merge(view[t], lockView)[y] \in 0..Latest
      OBVIOUS
    <3>2. /\ Merge(view[t], lockView)[y] \in Nat /\ stored[y] \in Nat /\ stored[y] <= Latest
          /\ Merge(view[t], lockView)[y] <= stored[y]
      BY <2>2, <2>3, Zenon DEF Views
    <3>3. QED
      BY <2>2, <3>2, SMT
  <2>5. Merge(view[t], lockView) \in [Atomics -> 0..Latest]
    BY <2>4, Zenon DEF Merge
  <2>6. /\ view' \in [Threads -> [Atomics -> 0..Latest]] /\ view'[t] = Merge(view[t], lockView)
        /\ \A u \in Threads : u # t => view'[u] = view[u]
    BY <2>1, <2>5, Zenon DEF IInv, TypeOK
  <2>7. pc'[t] \in {"verdict", "recheck", "ok"} => Seen(t)'
    <3>1. SUFFICES ASSUME pc[t] = "ok"
                   PROVE  want[t] \subseteq BodiesOf(SetAt(view'[t]["pointer"]))
      BY <2>1, Zenon DEF Seen, SetAt
    <3>2. Seen(t) /\ view[t]["pointer"] \in 0..Latest /\ view'[t]["pointer"] \in 0..Latest
          /\ view[t]["pointer"] <= view'[t]["pointer"]
      <4>1. Seen(t)
        BY <3>1, Zenon DEF IInv, Answerable
      <4>2. view[t]["pointer"] \in 0..Latest
        BY AtomicFacts, Zenon DEF IInv, TypeOK
      <4>3. view'[t]["pointer"] \in 0..Latest /\ view[t]["pointer"] <= view'[t]["pointer"]
        BY <2>3, <2>4, <2>6, AtomicFacts, Zenon
      <4>4. QED
        BY <4>1, <4>2, <4>3
    <3>3. QED
      BY <3>2, SeenGrows, Zenon DEF Seen
  <2>8. /\ pc' \in [Threads -> Places] /\ pc[t] \notin Section /\ pc'[t] \notin Section
        /\ want' \in [Threads -> SUBSET Bodies] /\ embedded' \in [Threads -> BOOLEAN]
        /\ basis' \in [Threads -> 0..Latest] /\ calls' \in Nat
    BY <2>1, Zenon DEF IInv, TypeOK, Section
  <2>9. /\ \A u \in Threads : u # t => pc'[u] = pc[u] /\ want'[u] = want[u]
        /\ \A y \in Atomics : view'[t][y] <= stored[y]
        /\ Coherent(view'[t])
    BY <2>1, <2>3, <2>4, <2>6, Zenon
  <2>10. QED
    BY <2>1, <2>6, <2>7, <2>8, <2>9, Outside, Zenon
<1>5. ASSUME NEW t \in Threads, AlreadyThere(t) \/ LoadFails(t) PROVE IInv'
  <2>1. pc[t] \in Section /\ \A x \in Atomics : stored[x] = Latest
    BY <1>5, Zenon DEF AlreadyThere, LoadFails, Section, IInv, Answerable
  <2>2. CASE AlreadyThere(t)
    BY <2>1, <2>2, Leaves, Zenon DEF AlreadyThere, AllRequestedPresent, Existing
  <2>3. CASE LoadFails(t)
    BY <2>1, <2>3, Leaves, Zenon DEF LoadFails
  <2>4. QED
    BY <1>5, <2>2, <2>3
<1>6. ASSUME NEW t \in Threads, Stored(t) PROVE IInv'
  <2>1. pc[t] \in Section /\ want[t] \subseteq BodiesOf(SetAt(Latest))
    BY <1>6, Zenon DEF Stored, Section, IInv, Answerable
  <2>2. QED
    BY <1>6, <2>1, Leaves, Zenon DEF Stored
<1>7. CASE UNCHANGED vars
  <2>1. UNCHANGED <<published, stored, view, holder, lockView, pc, want, embedded, fresh, basis, calls>>
    BY <1>7, Zenon DEF vars
  <2>2. Latest' = Latest /\ \A k : SetAt(k)' = SetAt(k)
    BY <2>1, Zenon DEF Latest, SetAt
  <2>3. TypeOK'
    BY <2>1, <2>2, Zenon DEF IInv, TypeOK
  <2>4. Cumulative'
    BY <2>2, Zenon DEF IInv, Cumulative
  <2>5. Existing' = Existing /\ (SetAt(Latest))' = SetAt(Latest)
    BY <2>1, Zenon DEF Existing, Latest, SetAt
  <2>6. \A t \in Threads : Seen(t)' <=> Seen(t)
    BY <2>1, <2>2, Zenon DEF Seen
  <2>7. Answerable'
    BY <2>1, <2>2, <2>5, <2>6, Zenon DEF IInv, Answerable
  <2>8. QED
    BY <2>3, <2>4, <2>7 DEF IInv
<1>8. QED
  BY <1>1, <1>2, <1>3, <1>4, <1>5, <1>6, <1>7, RequestStep, LockStep, LoadMissingStep,
     PublishStep, StoreStep, Zenon DEF Next

LEMMA Start == Init => IInv
<1> SUFFICES ASSUME Init PROVE IInv
  OBVIOUS
<1>1. Latest = 0 /\ published = <<>> /\ 0..Latest = {0} /\ published \in Seq(CatalogueSets)
  BY SMT DEF Init, Latest
<1>2. /\ \A x \in Atomics : stored[x] = 0 /\ lockView[x] = 0
      /\ \A t \in Threads : \A x \in Atomics : view[t][x] = 0
      /\ \A t \in Threads : pc[t] = "idle"
      /\ holder = None
  BY Zenon DEF Init
<1>3. TypeOK
  <2>1. \A t \in Threads : pc[t] \in Section <=> holder = t
    BY <1>2, PublicationAssumption, Zenon DEF Section
  <2>2. \A t \in Threads : \A x \in Atomics : view[t][x] <= stored[x]
    BY <1>2, SMT
  <2>3. Nothing \in CatalogueSets
    BY Zenon DEF Nothing, CatalogueSets
  <2>4. calls \in Nat
    BY SMT DEF Init
  <2>5. /\ stored \in [Atomics -> {0}] /\ view \in [Threads -> [Atomics -> {0}]]
        /\ lockView \in [Atomics -> {0}] /\ basis \in [Threads -> {0}]
    BY Zenon DEF Init
  <2>6. /\ pc \in [Threads -> Places] /\ want \in [Threads -> SUBSET Bodies]
        /\ embedded \in [Threads -> BOOLEAN] /\ fresh \in [Threads -> CatalogueSets]
    BY <2>3, Zenon DEF Init, Places
  <2>7. QED
    BY <1>1, <1>2, <2>1, <2>2, <2>4, <2>5, <2>6, Zenon DEF TypeOK
<1>4. Cumulative
  BY <1>1, Zenon DEF Cumulative
<1>5. \A v : (\A x \in Atomics : v[x] = 0) => Coherent(v)
  BY AtomicFacts, SMT DEF Coherent
<1>6. Coherent(stored) /\ Coherent(lockView) /\ \A t \in Threads : Coherent(view[t])
  BY <1>2, <1>5, Zenon
<1>7. \A x \in Atomics : lockView[x] <= stored[x] /\ Latest - 1 <= stored[x] /\ stored[x] = Latest
  BY <1>1, <1>2, SMT
<1>8. Answerable
  BY <1>1, <1>2, <1>6, <1>7, Zenon DEF Answerable
<1>9. QED
  BY <1>3, <1>4, <1>8 DEF IInv

\* Every reachable state is well typed, and the write lock excludes.
THEOREM TypeCorrect == Spec => []TypeOK
<1>1. IInv /\ [Next]_vars => IInv'
  BY NextStep
<1>2. IInv => TypeOK
  BY DEF IInv
<1>3. QED
  BY Start, <1>1, <1>2, PTL DEF Spec

\* Whatever the threads load, in any interleaving the memory model allows, a
\* load that succeeded leaves its thread able to borrow what it asked for: the
\* flags are stored last, so whoever has seen them has seen the pointer.
THEOREM Borrowable == Spec => []LoadedCanBeBorrowed
<1>1. IInv /\ [Next]_vars => IInv'
  BY NextStep
<1>2. IInv => LoadedCanBeBorrowed
  <2>1. SUFFICES ASSUME IInv, NEW t \in Threads, pc[t] = "ok",
                        NEW k \in view[t]["pointer"]..stored["pointer"]
                 PROVE  want[t] \subseteq BodiesOf(SetAt(k))
    BY Zenon DEF LoadedCanBeBorrowed
  <2>2. /\ view[t]["pointer"] \in 0..Latest /\ stored["pointer"] \in Nat
        /\ stored["pointer"] <= Latest /\ Latest \in Nat
    <3>1. TypeOK /\ stored \in Views
      BY <2>1, TypeFacts, Zenon DEF IInv
    <3>2. view[t]["pointer"] \in 0..Latest /\ stored["pointer"] \in Nat
      BY <3>1, AtomicFacts, Zenon DEF TypeOK, Views
    <3>3. QED
      BY <3>1, <3>2, TypeFacts, AtomicFacts
  <2>3. k \in 0..Latest /\ view[t]["pointer"] <= k
    BY <2>2, SMT
  <2>4. want[t] \subseteq BodiesOf(SetAt(view[t]["pointer"]))
    BY <2>1, Zenon DEF IInv, Answerable, Seen
  <2>5. QED
    BY <2>1, <2>2, <2>3, <2>4, SeenGrows, Zenon
<1>3. QED
  BY Start, <1>1, <1>2, PTL DEF Spec
-----------------------------------------------------------------------------
(* The verdict on the bytes.  What once disagreed with the compiled          *)
(* catalogues disagrees in every later set; a thread that asks has seen a    *)
(* verdict no older than the set its answer rests on.                        *)

Remembered == \A i, j \in 0..Latest : i <= j /\ Conflicts(SetAt(i)) => Conflicts(SetAt(j))

Verdict(t) ==
  /\ pc[t] \in {"verdict", "recheck"} => basis[t] <= view[t]["conflict"]
  /\ pc[t] \in {"locked", "publish", "store"} => basis[t] = Latest
  /\ pc[t] = "publish" => (Conflicts(Existing) => Conflicts(fresh[t]))
  /\ pc[t] = "publish" /\ embedded[t] => ~Conflicts(fresh[t])
  /\ pc[t] \in {"store", "ok"} /\ embedded[t] => ~Conflicts(SetAt(basis[t]))

\* A publication has a body the last one did not have.
Grown ==
  /\ Latest <= Cardinality(BodiesOf(Existing))
  /\ \A t \in Threads : pc[t] \in {"lock", "locked", "publish"} => want[t] # {}
  /\ \A t \in Threads : pc[t] = "publish" => ~(want[t] \subseteq BodiesOf(Existing))

Reported == Remembered /\ Grown /\ \A t \in Threads : Verdict(t)

\* Where the other threads stand while one of them moves.
LEMMA OthersStand ==
  ASSUME IInv, Reported, NEW t \in Threads,
         UNCHANGED published,
         \A u \in Threads : u # t =>
           /\ pc'[u] = pc[u] /\ view'[u] = view[u] /\ basis'[u] = basis[u]
           /\ embedded'[u] = embedded[u] /\ fresh'[u] = fresh[u] /\ want'[u] = want[u],
         Verdict(t)',
         pc'[t] \in {"lock", "locked", "publish"} => want'[t] # {},
         pc'[t] = "publish" => ~(want'[t] \subseteq BodiesOf(Existing))
  PROVE  Reported'
<1>1. Latest' = Latest /\ (\A k : SetAt(k)' = SetAt(k)) /\ Existing' = Existing
  BY Zenon DEF Latest, SetAt, Existing
<1>2. Remembered'
  BY <1>1, Zenon DEF Reported, Remembered, Conflicts
<1>3. Grown'
  BY <1>1, ZenonT(40) DEF Reported, Grown, BodiesOf
<1>4. ASSUME NEW u \in Threads, u # t PROVE Verdict(u)'
  <2>1. /\ pc'[u] = pc[u] /\ view'[u] = view[u] /\ basis'[u] = basis[u]
        /\ embedded'[u] = embedded[u] /\ fresh'[u] = fresh[u] /\ Verdict(u)
    BY <1>4, Zenon DEF Reported
  <2>2. /\ Conflicts(Existing)' <=> Conflicts(Existing)
        /\ Conflicts(fresh[u])' <=> Conflicts(fresh[u])
        /\ Conflicts(SetAt(basis[u]))' <=> Conflicts(SetAt(basis[u]))
    BY <1>1, <2>1, Zenon DEF Conflicts
  <2>3. QED
    BY <1>1, <2>1, <2>2, Zenon DEF Verdict
<1>5. QED
  BY <1>2, <1>3, <1>4, Zenon DEF Reported

LEMMA ReportedLoads ==
  ASSUME IInv, Reported, NEW t \in Threads, LoadFlags(t) \/ LoadVerdict(t) \/ Recheck(t)
  PROVE  Reported'
<1>a. /\ pc \in [Threads -> Places] /\ basis \in [Threads -> 0..Latest] /\ Latest \in Nat
      /\ view[t] \in Views /\ Verdict(t) /\ Coherent(view[t])
  BY TypeFacts, Zenon DEF IInv, TypeOK, Reported, Answerable
<1>b. UNCHANGED <<published, stored, want, embedded, fresh>>
  BY Zenon DEF LoadFlags, LoadVerdict, Recheck
<1>c. \A k : SetAt(k)' = SetAt(k)
  BY <1>b, Zenon DEF SetAt
<1>1. ASSUME LoadFlags(t) PROVE Reported'
  <2>1. PICK k \in 0..Latest :
          /\ Load(t, "flags", k) /\ basis' = [basis EXCEPT ![t] = k]
          /\ Goto(t, IF ~(want[t] \subseteq BodiesOf(SetAt(k))) THEN "lock"
                     ELSE IF AsksForVerdict(t) THEN "verdict" ELSE "ok")
    BY <1>1, Zenon DEF LoadFlags
  <2>2. /\ basis'[t] = k /\ \A u \in Threads : u # t => pc'[u] = pc[u] /\ basis'[u] = basis[u]
        /\ \/ pc'[t] = "lock" /\ ~(want[t] \subseteq BodiesOf(SetAt(k)))
           \/ pc'[t] = "verdict"
           \/ pc'[t] = "ok" /\ ~embedded[t]
    BY <1>a, <2>1, Zenon DEF Goto, AsksForVerdict
  <2>3. /\ k <= view'[t]["flags"] /\ Coherent(view'[t])
        /\ view'[t] \in [Atomics -> 0..Latest] /\ \A u \in Threads : u # t => view'[u] = view[u]
    BY <2>1, LoadFacts, AtomicFacts, Zenon
  <2>4. k <= view'[t]["conflict"]
    <3>1. view'[t]["flags"] \in Nat /\ view'[t]["conflict"] \in Nat /\ k \in Nat
      <4>1. view'[t]["flags"] \in 0..Latest /\ view'[t]["conflict"] \in 0..Latest
        BY <2>3, AtomicFacts, Zenon
      <4>2. QED
        BY <4>1, SMT
    <3>2. QED
      BY <2>3, <3>1, SMT DEF Coherent
  <2>5. Verdict(t)'
    BY <1>b, <2>2, <2>4, Zenon DEF Verdict
  <2>6. pc'[t] \in {"lock", "locked", "publish"} => want'[t] # {}
    BY <1>b, <2>2, Zenon
  <2>7. pc'[t] # "publish"
    BY <2>2, Zenon
  <2>8. QED
    BY <1>b, <2>2, <2>3, <2>5, <2>6, <2>7, OthersStand, Zenon
<1>2. ASSUME LoadVerdict(t) \/ Recheck(t) PROVE Reported'
  <2>1. PICK x \in {"conflict", "pointer"}, k \in 0..Latest :
          /\ Load(t, x, k) /\ basis' = basis /\ pc[t] \in {"verdict", "recheck"}
          /\ \/ Goto(t, "ok") /\ ~Conflicts(SetAt(k))
             \/ Goto(t, "recheck") \/ Goto(t, "idle")
    BY <1>2, Zenon DEF LoadVerdict, Recheck
  <2>2. /\ view[t][x] <= k /\ basis[t] <= view[t]["conflict"]
        /\ \A y \in Atomics : view[t][y] <= view'[t][y] /\ view'[t] \in [Atomics -> 0..Latest]
        /\ \A u \in Threads : u # t => view'[u] = view[u]
    <3>1. k \in view[t][x]..stored[x] /\ x \in Atomics
      BY <2>1, AtomicFacts, Zenon DEF Load
    <3>2. view[t][x] <= k
      <4>1. view[t][x] \in Nat /\ stored[x] \in Nat
        BY <1>a, <3>1, TypeFacts, Zenon DEF Views, IInv
      <4>2. QED
        BY <3>1, <4>1, SMT
    <3>3. QED
      BY <1>a, <2>1, <3>1, <3>2, LoadFacts, Zenon DEF Verdict
  <2>3. /\ view[t]["conflict"] \in Nat /\ view[t]["pointer"] \in Nat /\ k \in Nat
        /\ view'[t]["conflict"] \in Nat /\ basis[t] \in Nat /\ basis[t] \in 0..Latest
        /\ view[t]["conflict"] <= view'[t]["conflict"] /\ view[t]["conflict"] <= view[t]["pointer"]
    <3>1. /\ view[t]["conflict"] \in Nat /\ view[t]["pointer"] \in Nat
          /\ view[t]["conflict"] <= view'[t]["conflict"] /\ view[t]["conflict"] <= view[t]["pointer"]
          /\ view'[t]["conflict"] \in 0..Latest /\ basis[t] \in 0..Latest
      BY <1>a, <2>2, AtomicFacts, Zenon DEF Views, Coherent
    <3>2. QED
      BY <3>1, SMT
  <2>4. basis[t] <= view'[t]["conflict"] /\ basis[t] <= k
    <3>1. basis[t] <= view'[t]["conflict"]
      BY <2>2, <2>3, SMT
    <3>2. CASE x = "conflict"
      BY <2>2, <2>3, <3>1, <3>2, SMT
    <3>3. CASE x = "pointer"
      BY <2>2, <2>3, <3>1, <3>3, SMT
    <3>4. QED
      BY <3>1, <3>2, <3>3
  <2>5. /\ \A u \in Threads : u # t => pc'[u] = pc[u]
        /\ (pc'[t] = "ok" /\ ~Conflicts(SetAt(k))) \/ pc'[t] = "recheck" \/ pc'[t] = "idle"
    BY <1>a, <2>1, Zenon DEF Goto
  <2>6. ~Conflicts(SetAt(k)) => ~Conflicts(SetAt(basis[t]))
    BY <2>3, <2>4, Zenon DEF Reported, Remembered
  <2>7. Verdict(t)'
    BY <1>b, <1>c, <2>1, <2>4, <2>5, <2>6, Zenon DEF Verdict, Conflicts
  <2>8. pc'[t] \notin {"lock", "locked", "publish"}
    BY <2>5, Zenon
  <2>9. QED
    BY <1>b, <2>1, <2>2, <2>5, <2>7, <2>8, OthersStand, Zenon
<1>3. QED
  BY <1>1, <1>2

LEMMA ReportedLoadMissing ==
  ASSUME IInv, Reported, NEW t \in Threads, LoadMissing(t)
  PROVE  Reported'
<1>1. /\ pc[t] = "locked" /\ pc'[t] = "publish" /\ \A u \in Threads : u # t => pc'[u] = pc[u]
      /\ UNCHANGED <<published, stored, view, holder, lockView, want, embedded, basis, calls>>
      /\ ~(embedded[t] /\ Conflicts(Existing)) /\ ~AllRequestedPresent(t)
  BY Zenon DEF LoadMissing, Goto, IInv, TypeOK
<1>2. PICK content \in [Missing(t) -> {"compiled", "other"}] :
        /\ \A b \in Missing(t) : Compiled(t, b) => content[b] = "compiled"
        /\ fresh' = [fresh EXCEPT ![t] =
                       [b \in Bodies |-> IF b \in Missing(t) THEN content[b] ELSE Existing[b]]]
  BY Zenon DEF LoadMissing
<1>3. DEFINE merged == [b \in Bodies |-> IF b \in Missing(t) THEN content[b] ELSE Existing[b]]
<1>4. fresh'[t] = merged /\ \A u \in Threads : u # t => fresh'[u] = fresh[u]
  BY <1>2, Zenon DEF IInv, TypeOK
<1>5. \A b \in Default : b \in Bodies
  BY PublicationAssumption
<1>6. Conflicts(Existing) => Conflicts(merged)
  <2>1. SUFFICES ASSUME NEW b \in Default, Existing[b] = "other" PROVE merged[b] = "other"
    BY Zenon DEF Conflicts
  <2>2. b \in BodiesOf(Existing)
    BY <1>5, <2>1, Zenon DEF BodiesOf
  <2>3. QED
    BY <1>5, <2>1, <2>2, Zenon DEF Missing
<1>7. embedded[t] => ~Conflicts(merged)
  <2>1. SUFFICES ASSUME embedded[t], NEW b \in Default, merged[b] = "other" PROVE FALSE
    BY Zenon DEF Conflicts
  <2>2. CASE b \in Missing(t)
    BY <1>2, <1>5, <2>1, <2>2, Zenon DEF Compiled
  <2>3. CASE b \notin Missing(t)
    <3>1. Existing[b] = "other"
      BY <1>5, <2>1, <2>3, Zenon
    <3>2. QED
      BY <1>1, <2>1, <3>1, Zenon DEF Conflicts
  <2>4. QED
    BY <2>2, <2>3
<1> HIDE DEF merged
<1>8. Existing' = Existing /\ Latest' = Latest
  BY <1>1, Zenon DEF Existing, SetAt, Latest
<1>9. basis[t] = Latest /\ want[t] # {}
  BY <1>1, Zenon DEF Reported, Verdict, Grown
<1>10. Verdict(t)'
  BY <1>1, <1>4, <1>6, <1>7, <1>8, <1>9, Zenon DEF Verdict, Conflicts
<1>11. ~(want[t] \subseteq BodiesOf(Existing))
  <2>1. CASE Latest > 0
    BY <1>1, <2>1, Zenon DEF AllRequestedPresent
  <2>2. CASE Latest = 0
    <3>1. BodiesOf(Existing) = {}
      BY <2>2, Zenon DEF Existing, SetAt, Nothing, BodiesOf
    <3>2. QED
      BY <1>9, <3>1, Zenon
  <2>3. Latest \in Nat
    BY TypeFacts DEF IInv
  <2>4. QED
    BY <2>1, <2>2, <2>3, SMT
<1>12. QED
  BY <1>1, <1>4, <1>9, <1>10, <1>11, OthersStand, Zenon

LEMMA ReportedPublish ==
  ASSUME IInv, Reported, NEW t \in Threads, Publish(t)
  PROVE  Reported'
<1>a. /\ published \in Seq(CatalogueSets) /\ Latest \in Nat /\ Verdict(t)
      /\ basis \in [Threads -> 0..Latest]
  BY TypeFacts, Zenon DEF IInv, TypeOK, Reported
<1>1. Latest' = Latest + 1 /\ published'[Latest + 1] = fresh[t]
      /\ \A k \in 1..Latest : published'[k] = published[k]
  BY <1>a, AppendProperties DEF Publish, Latest, IInv, TypeOK
<1>2. /\ \A k : k = Latest + 1 => SetAt(k)' = fresh[t]
      /\ \A k \in 0..Latest : SetAt(k)' = SetAt(k)
  <2>1. Latest + 1 # 0 /\ \A k \in 0..Latest : k = 0 \/ k \in 1..Latest
    BY <1>a, SMT
  <2>2. \A k : k = Latest + 1 => SetAt(k)' = fresh[t]
    BY <1>1, <2>1, Zenon DEF SetAt
  <2>3. \A k \in 0..Latest : SetAt(k)' = SetAt(k)
    BY <1>1, <2>1, Zenon DEF SetAt, Nothing
  <2>4. QED
    BY <2>2, <2>3
<1>3. /\ pc[t] = "publish" /\ pc'[t] = "store" /\ \A u \in Threads : u # t => pc'[u] = pc[u]
      /\ UNCHANGED <<stored, view, holder, lockView, want, embedded, fresh, calls>>
      /\ basis'[t] = Latest + 1 /\ \A u \in Threads : u # t => basis'[u] = basis[u]
  BY <1>a, Zenon DEF Publish, Goto, IInv, TypeOK
<1>4. Existing' = fresh[t]
  BY <1>1, <1>2, Zenon DEF Existing, SetAt
<1>5. (Conflicts(Existing) => Conflicts(fresh[t])) /\ (embedded[t] => ~Conflicts(fresh[t]))
  BY <1>a, <1>3, Zenon DEF Verdict
<1>6. \A i \in 0..(Latest + 1) : i \in 0..Latest \/ i = Latest + 1
  BY <1>a, SMT
<1>7. \A i \in 0..Latest : Conflicts(SetAt(i)) => Conflicts(Existing)
  <2>1. Latest \in 0..Latest /\ \A i \in 0..Latest : i <= Latest
    BY <1>a, SMT
  <2>2. QED
    BY <2>1, Zenon DEF Reported, Remembered, Existing
<1>8. Remembered'
  <2>1. SUFFICES ASSUME NEW i \in 0..(Latest + 1), NEW j \in 0..(Latest + 1), i <= j,
                        Conflicts(SetAt(i)')
                 PROVE  Conflicts(SetAt(j)')
    BY <1>1, Zenon DEF Remembered, Conflicts
  <2>2. CASE i \in 0..Latest /\ j \in 0..Latest
    BY <1>2, <2>1, <2>2, Zenon DEF Reported, Remembered
  <2>3. CASE i \in 0..Latest /\ j = Latest + 1
    BY <1>2, <1>5, <1>7, <2>1, <2>3, Zenon
  <2>4. CASE i = Latest + 1
    <3>1. j = Latest + 1
      BY <1>a, <2>1, <2>4, SMT
    <3>2. QED
      BY <2>1, <2>4, <3>1
  <2>5. QED
    BY <1>6, <2>2, <2>3, <2>4, Zenon
<1>9. \A u \in Threads : pc'[u] \in Section => u = t
  BY <1>3, Alone, Zenon DEF Section
<1>10. Grown'
  <2>1. /\ Latest <= Cardinality(BodiesOf(Existing))
        /\ want[t] \cup BodiesOf(Existing) \subseteq BodiesOf(fresh[t])
        /\ ~(want[t] \subseteq BodiesOf(Existing))
    BY <1>3, Zenon DEF Reported, Grown, IInv, Answerable
  <2>2. BodiesOf(Existing) \subseteq BodiesOf(fresh[t]) /\ BodiesOf(Existing) # BodiesOf(fresh[t])
    BY <2>1, Zenon
  <2>3. IsFiniteSet(BodiesOf(fresh[t])) /\ IsFiniteSet(BodiesOf(Existing))
    BY PublicationAssumption, FS_Subset DEF BodiesOf
  <2>4. /\ Cardinality(BodiesOf(Existing)) <= Cardinality(BodiesOf(fresh[t]))
        /\ Cardinality(BodiesOf(Existing)) # Cardinality(BodiesOf(fresh[t]))
    BY <2>2, <2>3, FS_Subset
  <2>5. Cardinality(BodiesOf(Existing)) \in Nat /\ Cardinality(BodiesOf(fresh[t])) \in Nat
    BY <2>3, FS_CardinalityType
  <2>6. Latest + 1 <= Cardinality(BodiesOf(fresh[t]))
    BY <1>a, <2>1, <2>4, <2>5, SMT
  <2>7. Latest' <= Cardinality(BodiesOf(Existing)')
    <3>1. BodiesOf(Existing)' = BodiesOf(fresh[t])
      BY <1>4, Zenon DEF BodiesOf
    <3>2. QED
      BY <1>1, <2>6, <3>1, Zenon
  <2>8. \A u \in Threads : pc'[u] \in {"lock", "locked", "publish"} => want'[u] # {}
    BY <1>3, Zenon DEF Reported, Grown
  <2>9. \A u \in Threads : pc'[u] # "publish"
    BY <1>3, <1>9, Zenon DEF Section
  <2>10. QED
    BY <2>7, <2>8, <2>9, Zenon DEF Grown, BodiesOf
<1>11. Verdict(t)'
  <2>1. basis'[t] = Latest' /\ (SetAt(basis[t]))' = fresh[t]
    BY <1>1, <1>2, <1>3, Zenon DEF SetAt
  <2>2. embedded'[t] => ~Conflicts(SetAt(basis[t]))'
    BY <1>3, <1>5, <2>1, Zenon DEF Conflicts
  <2>3. QED
    BY <1>3, <2>1, <2>2, Zenon DEF Verdict
<1>12. ASSUME NEW u \in Threads, u # t PROVE Verdict(u)'
  <2>1. /\ pc'[u] = pc[u] /\ view'[u] = view[u] /\ basis'[u] = basis[u] /\ Verdict(u)
        /\ embedded'[u] = embedded[u] /\ pc[u] \notin Section /\ basis[u] \in 0..Latest
    BY <1>a, <1>3, <1>9, <1>12, Zenon DEF Reported
  <2>2. Conflicts(SetAt(basis[u]))' <=> Conflicts(SetAt(basis[u]))
    <3>1. (SetAt(basis[u]))' = SetAt(basis[u])
      BY <1>2, <2>1, Zenon DEF SetAt
    <3>2. QED
      BY <3>1, Zenon DEF Conflicts
  <2>3. QED
    BY <2>1, <2>2, Zenon DEF Verdict, Section
<1>13. QED
  BY <1>8, <1>10, <1>11, <1>12, Zenon DEF Reported

\* The steps that leave the sets alone and load nothing.
LEMMA ReportedQuiet ==
  ASSUME IInv, Reported, NEW t \in Threads,
         Request(t) \/ Lock(t) \/ AlreadyThere(t) \/ LoadFails(t) \/ Store(t) \/ Stored(t)
           \/ Borrow(t) \/ Get(t)
  PROVE  Reported'
<1>a. /\ pc \in [Threads -> Places] /\ basis \in [Threads -> 0..Latest] /\ Verdict(t)
      /\ view \in [Threads -> [Atomics -> 0..Latest]]
      /\ want \in [Threads -> SUBSET Bodies] /\ embedded \in [Threads -> BOOLEAN]
  BY Zenon DEF IInv, TypeOK, Reported
<1>1. UNCHANGED <<published, fresh>> /\ pc'[t] # "publish"
      /\ \A u \in Threads : u # t => pc'[u] = pc[u] /\ view'[u] = view[u] /\ basis'[u] = basis[u]
                                   /\ embedded'[u] = embedded[u] /\ want'[u] = want[u]
  <2>1. CASE Request(t) \/ Lock(t)
    BY <1>a, <2>1, Zenon DEF Request, Lock, Goto
  <2>2. CASE AlreadyThere(t) \/ LoadFails(t) \/ Stored(t)
    BY <1>a, <2>2, Zenon DEF AlreadyThere, LoadFails, Stored, Goto
  <2>3. CASE Store(t)
    BY <1>a, <2>3, Zenon DEF Store
  <2>4. CASE Borrow(t) \/ Get(t)
    BY <1>a, <2>4, Zenon DEF Borrow, Get, Load
  <2>5. QED
    BY <2>1, <2>2, <2>3, <2>4
<1>2. /\ Latest' = Latest /\ Existing' = Existing /\ (SetAt(Latest))' = Existing
      /\ \A k : SetAt(k)' = SetAt(k)
  BY <1>1, Zenon DEF Latest, SetAt, Existing
<1>3. ASSUME basis'[t] = basis[t] PROVE Conflicts(SetAt(basis[t]))' <=> Conflicts(SetAt(basis[t]))
  BY <1>2, <1>3, Zenon DEF Conflicts
<1>4. ASSUME basis'[t] = Latest PROVE Conflicts(SetAt(basis[t]))' <=> Conflicts(Existing)
  BY <1>2, <1>4, Zenon DEF Conflicts, Existing
<1>5. Verdict(t)' /\ (pc'[t] \in {"lock", "locked", "publish"} => want'[t] # {})
  <2>1. CASE Request(t)
    <3>1. pc'[t] = "flags"
      BY <1>a, <2>1, Zenon DEF Request, Goto
    <3>2. QED
      BY <3>1, Zenon DEF Verdict
  <2>2. CASE Lock(t)
    <3>1. pc[t] = "lock" /\ pc'[t] = "locked" /\ basis'[t] = Latest' /\ want' = want
      BY <1>a, <1>2, <2>2, Zenon DEF Lock, MayLock, Goto
    <3>2. QED
      BY <3>1, Zenon DEF Verdict, Reported, Grown
  <2>3. CASE AlreadyThere(t)
    <3>1. /\ pc[t] = "locked" /\ pc'[t] = "ok" /\ UNCHANGED <<basis, embedded>>
          /\ ~(embedded[t] /\ Conflicts(Existing))
      BY <1>a, <2>3, Zenon DEF AlreadyThere, Goto
    <3>2. basis'[t] = Latest
      BY <1>a, <3>1, Zenon DEF Verdict
    <3>3. QED
      BY <1>4, <3>1, <3>2, Zenon DEF Verdict
  <2>4. CASE LoadFails(t)
    <3>1. pc'[t] = "idle"
      BY <1>a, <2>4, Zenon DEF LoadFails, Goto
    <3>2. QED
      BY <3>1, Zenon DEF Verdict
  <2>5. CASE Store(t) \/ Stored(t)
    <3>1. pc[t] = "store" /\ pc'[t] \in {"store", "ok"} /\ UNCHANGED <<basis, embedded>>
      BY <1>a, <2>5, Zenon DEF Store, Stored, Goto
    <3>2. basis'[t] = Latest' /\ basis'[t] = basis[t]
      BY <1>a, <1>2, <3>1, Zenon DEF Verdict
    <3>3. QED
      BY <1>a, <1>3, <3>1, <3>2, Zenon DEF Verdict
  <2>6. CASE Borrow(t) \/ Get(t)
    <3>1. pc[t] \in {"idle", "ok"} /\ UNCHANGED <<pc, basis, embedded>>
      BY <2>6, Zenon DEF Borrow, Get
    <3>2. QED
      BY <1>a, <1>3, <3>1, Zenon DEF Verdict
  <2>7. QED
    BY <2>1, <2>2, <2>3, <2>4, <2>5, <2>6
<1>6. QED
  BY <1>1, <1>5, OthersStand, Zenon

LEMMA ReportedStep ==
  ASSUME IInv, Reported, [Next]_vars
  PROVE  Reported'
<1>1. ASSUME NEW t \in Threads, LoadFlags(t) \/ LoadVerdict(t) \/ Recheck(t) PROVE Reported'
  BY <1>1, ReportedLoads, Zenon
<1>2. ASSUME NEW t \in Threads,
             Request(t) \/ Lock(t) \/ AlreadyThere(t) \/ LoadFails(t) \/ Store(t) \/ Stored(t)
               \/ Borrow(t) \/ Get(t)
      PROVE  Reported'
  BY <1>2, ReportedQuiet, Zenon
<1>3. CASE UNCHANGED vars
  <2>1. UNCHANGED <<published, stored, view, holder, lockView, pc, want, embedded, fresh, basis, calls>>
    BY <1>3, Zenon DEF vars
  <2>2. Latest' = Latest /\ Existing' = Existing /\ \A k : SetAt(k)' = SetAt(k)
    BY <2>1, Zenon DEF Latest, SetAt, Existing
  <2>3. Remembered' /\ Grown'
    BY <2>1, <2>2, Zenon DEF Reported, Remembered, Grown, Conflicts, BodiesOf
  <2>4. ASSUME NEW u \in Threads PROVE Verdict(u)'
    <3>1. /\ Conflicts(Existing)' <=> Conflicts(Existing)
          /\ Conflicts(fresh[u])' <=> Conflicts(fresh[u])
          /\ Conflicts(SetAt(basis[u]))' <=> Conflicts(SetAt(basis[u]))
      BY <2>1, <2>2, Zenon DEF Conflicts
    <3>2. QED
      BY <2>1, <2>2, <3>1, Zenon DEF Reported, Verdict
  <2>5. QED
    BY <2>3, <2>4, Zenon DEF Reported
<1>4. QED
  BY <1>1, <1>2, <1>3, ReportedLoadMissing, ReportedPublish, Zenon DEF Next

LEMMA ReportedStart == Init => Reported
<1> SUFFICES ASSUME Init PROVE Reported
  OBVIOUS
<1>1. Latest = 0 /\ 0..Latest = {0} /\ \A t \in Threads : pc[t] = "idle"
  BY SMT DEF Init, Latest
<1>2. Remembered /\ \A t \in Threads : Verdict(t)
  BY <1>1, Zenon DEF Remembered, Verdict
<1>3. IsFiniteSet(BodiesOf(Existing))
  BY PublicationAssumption, FS_Subset DEF BodiesOf
<1>4. Latest <= Cardinality(BodiesOf(Existing))
  BY <1>1, <1>3, FS_CardinalityType, SMT
<1>5. QED
  BY <1>1, <1>2, <1>4, Zenon DEF Reported, Grown

\* An embedded load that succeeds rests on bytes that agree with the compiled
\* catalogues: whoever has seen the flags of a set has seen its verdict, and a
\* later set keeps the disagreements of the earlier ones.
THEOREM ConflictsReported == Spec => []ConflictIsReported
<1>1. IInv /\ Reported /\ [Next]_vars => IInv' /\ Reported'
  BY NextStep, ReportedStep
<1>2. IInv /\ Reported => ConflictIsReported
  BY Zenon DEF Reported, Verdict, ConflictIsReported
<1>3. QED
  BY Start, ReportedStart, <1>1, <1>2, PTL DEF Spec

\* However many loads are made, the sets published and leaked are at most as
\* many as there are bodies: each one has a body its predecessor did not have.
THEOREM LeakBounded == Spec => []LeakIsBounded
<1>1. IInv /\ Reported /\ [Next]_vars => IInv' /\ Reported'
  BY NextStep, ReportedStep
<1>2. IInv /\ Reported => LeakIsBounded
  <2>1. SUFFICES ASSUME IInv, Reported PROVE Latest <= Cardinality(Bodies)
    BY DEF LeakIsBounded
  <2>2. /\ Cardinality(BodiesOf(Existing)) <= Cardinality(Bodies)
        /\ Cardinality(BodiesOf(Existing)) \in Nat /\ Cardinality(Bodies) \in Nat
    <3>1. BodiesOf(Existing) \subseteq Bodies /\ IsFiniteSet(Bodies)
      BY PublicationAssumption DEF BodiesOf
    <3>2. IsFiniteSet(BodiesOf(Existing))
          /\ Cardinality(BodiesOf(Existing)) <= Cardinality(Bodies)
      BY <3>1, FS_Subset
    <3>3. QED
      BY <3>1, <3>2, FS_CardinalityType
  <2>3. Latest \in Nat /\ Latest <= Cardinality(BodiesOf(Existing))
    BY <2>1, TypeFacts, Zenon DEF IInv, Reported, Grown
  <2>4. QED
    BY <2>2, <2>3, SMT
<1>3. QED
  BY Start, ReportedStart, <1>1, <1>2, PTL DEF Spec
=============================================================================
