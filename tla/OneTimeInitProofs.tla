-------------------------- MODULE OneTimeInitProofs --------------------------
(***************************************************************************)
(* What the process initialises once: the global pool (GlobalPool) and the   *)
(* success-only caches (SuccessOnlyCache).                                   *)
(*                                                                         *)
(* For any callers, widths and number of calls: a width told is real         *)
(* (WidthsAreReal), authority over the pool is exclusive (Exclusive) and     *)
(* what the first touch latched is never revised (FirstTouch).               *)
(*                                                                         *)
(* For any threads, any caches two deep and any assignment of locks to       *)
(* caches, one lock for all of them included: one load at a time and none    *)
(* after a success (LoadedOnce), no thread waits for a lock while it holds   *)
(* one (NoHoldAndWait), and no guard outlives its frame (GuardsDropped).     *)
(***************************************************************************)
EXTENDS GlobalPool, SuccessOnlyCache, TLAPS
-----------------------------------------------------------------------------
(* The global pool *)

\* The latch and Rayon agree, one thread at most initialises, and every answer
\* still is what the latch would answer now.
Settled ==
  /\ latch.state = "pool" => latch.width = rayon /\ latch.width \in Nat
  /\ \A t \in Callers : pc[t] = "build" => latch.state = "running"
  /\ \A t \in Callers : pc[t] # "idle" /\ kind[t] = "explicit" => asked[t] \in Positive
  /\ \A t, u \in Callers : pc[t] = "build" /\ pc[u] = "build" => t = u
  /\ \A a \in answers :
       /\ a.what = "width" /\ a.width # Default => latch.state = "pool" /\ a.width = latch.width
       /\ a.kind = "explicit" /\ a.what = "width" =>
            a.width = a.asked /\ latch = Pool(a.asked, "explicit")
       /\ a.what = "non-authoritative pool" => latch.state = "pool" /\ latch.origin # "explicit"

PoolInv == PoolTypeOK /\ Settled

LEMMA LatchFacts ==
  /\ Empty.state = "empty" /\ Running.state = "running" /\ BuildError.state = "error"
  /\ \A w, o : /\ Pool(w, o).state = "pool" /\ Pool(w, o).width = w /\ Pool(w, o).origin = o
BY Zenon DEF Empty, Running, BuildError, Pool

LEMMA NotPool ==
  ASSUME NEW l, l.state # "pool"
  PROVE  \A w, o : l # Pool(w, o)
<1>1. SUFFICES ASSUME NEW w, NEW o, l = Pool(w, o) PROVE FALSE
  OBVIOUS
<1>2. Pool(w, o).state = "pool"
  BY LatchFacts
<1>3. QED
  BY <1>1, <1>2, Zenon

LEMMA LatchTypes ==
  /\ Empty \in Latches /\ Running \in Latches /\ BuildError \in Latches
  /\ \A w \in Positive : \A o \in {"explicit", "generic", "foreign"} : Pool(w, o) \in Latches
BY Zenon DEF Latches, Empty, Running, BuildError, Pool

LEMMA LatchedPool ==
  ASSUME NEW l \in Latches, l.state = "pool"
  PROVE  l = Pool(l.width, l.origin) /\ l.width \in Positive
         /\ l.origin \in {"explicit", "generic", "foreign"}
<1>1. l \in [state : {"pool"}, width : Positive, origin : {"explicit", "generic", "foreign"}]
  BY LatchFacts, Zenon DEF Latches
<1>2. QED
  BY <1>1, SMT DEF Pool

LEMMA WidthFacts ==
  ASSUME PoolInv, NEW t \in Callers, pc[t] # "idle"
  PROVE  Desired(t) \in Positive
<1>1. asked[t] \in Nat \cup {Default} /\ kind[t] \in {"generic", "explicit"}
  BY PoolAssumption DEF PoolInv, PoolTypeOK
<1>2. \A w \in Nat : AtLeastOne(w) \in Positive
  BY SMT DEF AtLeastOne, Positive
<1>3. HostWidth \in Positive
  BY PoolAssumption DEF Positive
<1>4. QED
  BY <1>1, <1>2, <1>3, Zenon DEF Desired, PoolInv, Settled

\* A thread starts, waits or stops without touching the pool or the latch.
LEMMA Quiet ==
  ASSUME PoolInv, UNCHANGED <<rayon, latch, answers>>,
         pc' \in [Callers -> {"idle", "latch", "build"}],
         kind' \in [Callers -> {"generic", "explicit"}],
         asked' \in [Callers -> Widths \cup {Default}], asks' \in Nat,
         \A u \in Callers : pc'[u] = "build" => pc[u] = "build",
         \A u \in Callers : pc'[u] # "idle" /\ kind'[u] = "explicit" => asked'[u] \in Positive
  PROVE  PoolInv'
BY Zenon DEF PoolInv, PoolTypeOK, Settled

\* A call is answered, truthfully as Settled understands it.
LEMMA Answers ==
  ASSUME PoolInv, NEW t \in Callers, NEW what, NEW width, Answer(t, what, width),
         pc[t] = "latch", UNCHANGED <<rayon, latch, kind, asked, asks>>,
         what = "width" => latch.state = "pool" /\ width = latch.width,
         what = "width" /\ kind[t] = "explicit" => Authoritative(t),
         what = "non-authoritative pool" => latch.state = "pool" /\ latch.origin # "explicit"
  PROVE  PoolInv'
<1>1. pc' \in [Callers -> {"idle", "latch", "build"}] /\ pc'[t] = "idle"
      /\ \A u \in Callers : u # t => pc'[u] = pc[u]
  BY Zenon DEF Answer, PoolInv, PoolTypeOK
<1>2. PoolTypeOK'
  BY <1>1, Zenon DEF PoolInv, PoolTypeOK
<1>3. DEFINE new == [kind |-> kind[t], asked |-> asked[t], what |-> what, width |-> width]
<1>4. answers' = answers \cup {new} /\ new.kind = kind[t] /\ new.asked = asked[t]
      /\ new.what = what /\ new.width = width
  BY Zenon DEF Answer
<1>5. new.what = "width" /\ new.kind = "explicit" =>
        new.width = new.asked /\ latch = Pool(new.asked, "explicit")
  <2>1. SUFFICES ASSUME what = "width", kind[t] = "explicit"
                 PROVE  width = asked[t] /\ latch = Pool(asked[t], "explicit")
    BY <1>4, Zenon
  <2>2. latch.state = "pool" /\ width = latch.width /\ latch.width = asked[t]
        /\ latch.origin = "explicit" /\ latch \in Latches
    BY <2>1, Zenon DEF Authoritative, PoolInv, PoolTypeOK
  <2>3. QED
    BY <2>2, LatchedPool, Zenon
<1> HIDE DEF new
<1>6. \A a \in answers' :
       /\ a.what = "width" /\ a.width # Default => latch'.state = "pool" /\ a.width = latch'.width
       /\ a.kind = "explicit" /\ a.what = "width" =>
            a.width = a.asked /\ latch' = Pool(a.asked, "explicit")
       /\ a.what = "non-authoritative pool" => latch'.state = "pool" /\ latch'.origin # "explicit"
  BY <1>4, <1>5, Zenon DEF PoolInv, Settled
<1>7. QED
  BY <1>1, <1>2, <1>6, Zenon DEF PoolInv, Settled

\* The initialiser, alone at its place, leaves a value in the latch.
LEMMA Leaves ==
  ASSUME PoolInv, NEW t \in Callers, pc[t] = "build", pc' = [pc EXCEPT ![t] = "latch"],
         latch' \in Latches, rayon' \in Positive \cup {Unbuilt, Broken},
         latch'.state = "pool" => latch'.width = rayon',
         UNCHANGED <<kind, asked, asks, answers>>
  PROVE  PoolInv'
<1>1. pc' \in [Callers -> {"idle", "latch", "build"}] /\ pc'[t] = "latch"
      /\ \A u \in Callers : u # t => pc'[u] = pc[u]
  BY Zenon DEF PoolInv, PoolTypeOK
<1>2. \A u \in Callers : pc'[u] # "build"
  BY <1>1, Zenon DEF PoolInv, Settled
<1>3. latch.state = "running" /\ \A w : latch # Pool(w, "explicit")
  <2>1. latch.state = "running"
    BY DEF PoolInv, Settled
  <2>2. QED
    BY <2>1, LatchFacts, ZenonT(40)
<1>4. latch'.state = "pool" => latch'.width \in Nat
  BY LatchedPool, Zenon DEF Positive
<1>5. QED
  BY <1>1, <1>2, <1>3, <1>4, ZenonT(40) DEF PoolInv, PoolTypeOK, Settled

LEMMA Start == PoolInit => PoolInv
<1> SUFFICES ASSUME PoolInit PROVE PoolInv
  OBVIOUS
<1>1. latch = Empty /\ latch.state = "empty" /\ latch \in Latches /\ answers = {}
      /\ \A t \in Callers : pc[t] = "idle"
  BY LatchFacts, LatchTypes, Zenon DEF PoolInit
<1>2. PoolTypeOK
  BY <1>1, PoolAssumption, Zenon DEF PoolInit, PoolTypeOK
<1>3. QED
  BY <1>1, <1>2, Zenon DEF PoolInv, Settled

LEMMA CallStep ==
  ASSUME PoolInv, NEW t \in Callers, Step(t)
  PROVE  PoolInv'
<1>a. pc \in [Callers -> {"idle", "latch", "build"}] /\ latch \in Latches
      /\ rayon \in Positive \cup {Unbuilt, Broken}
  BY DEF PoolInv, PoolTypeOK
<1>1. CASE Enter(t)
  <2>1. latch.state = "empty" /\ pc[t] = "latch" /\ latch' = Running /\ latch'.state = "running"
        /\ pc' = [pc EXCEPT ![t] = "build"] /\ UNCHANGED <<rayon, kind, asked, asks, answers>>
    BY <1>1, LatchFacts, Zenon DEF Enter, MayInitialise
  <2>2. pc' \in [Callers -> {"idle", "latch", "build"}] /\ pc'[t] = "build"
        /\ \A u \in Callers : u # t => pc'[u] = pc[u]
    BY <1>a, <2>1, Zenon
  <2>3. \A u \in Callers : pc[u] # "build"
    BY <2>1, Zenon DEF PoolInv, Settled
  <2>4. \A w : latch # Pool(w, "explicit")
    <3>1. latch.state # "pool"
      BY <2>1, Zenon
    <3>2. QED
      BY <3>1, NotPool, Zenon
  <2>5. PoolTypeOK'
    BY <2>1, <2>2, LatchTypes, Zenon DEF PoolInv, PoolTypeOK
  <2>6. QED
    BY <2>1, <2>2, <2>3, <2>4, <2>5, ZenonT(40) DEF PoolInv, Settled
<1>2. CASE Build(t)
  <2>1. Desired(t) \in Positive
    BY <1>2, WidthFacts, Zenon DEF Build
  <2>2. \/ rayon' = Desired(t) /\ latch' = Pool(Desired(t), kind[t])
        \/ rayon' = Broken /\ latch' = BuildError
    BY <1>2, Zenon DEF Build, SpawnFailureLatched
  <2>3. kind[t] \in {"explicit", "generic", "foreign"}
    BY Zenon DEF PoolInv, PoolTypeOK
  <2>4. latch' \in Latches /\ rayon' \in Positive \cup {Unbuilt, Broken}
    BY <2>1, <2>2, <2>3, LatchTypes, Zenon
  <2>5. latch'.state = "pool" => latch'.width = rayon'
    <3>1. CASE rayon' = Desired(t) /\ latch' = Pool(Desired(t), kind[t])
      BY <3>1, LatchFacts, Zenon
    <3>2. CASE latch' = BuildError
      BY <3>2, LatchFacts, Zenon
    <3>3. QED
      BY <2>2, <3>1, <3>2
  <2>6. QED
    BY <1>2, <2>4, <2>5, Leaves, Zenon DEF Build
<1>3. CASE BuildFindsPool(t)
  <2>1. rayon \in Positive /\ rayon' = rayon
    BY <1>3, <1>a, Zenon DEF BuildFindsPool
  <2>2. AtLeastOne(rayon) = rayon
    BY <2>1, SMT DEF AtLeastOne, Positive
  <2>3. latch' = Pool(rayon, "foreign")
    BY <1>3, <2>2, Zenon DEF BuildFindsPool, Found
  <2>4. latch' \in Latches /\ latch'.width = rayon'
    BY <2>1, <2>3, LatchTypes, LatchFacts, Zenon
  <2>5. QED
    BY <1>3, <2>1, <2>4, Leaves, Zenon DEF BuildFindsPool
<1>4. CASE BuildFindsNothing(t)
  <2>1. pc[t] = "build" /\ rayon' = rayon /\ latch' = Empty /\ latch'.state = "empty"
        /\ Answer(t, "panic", 0) /\ UNCHANGED <<kind, asked, asks>>
    BY <1>4, LatchFacts, Zenon DEF BuildFindsNothing, AfterPanic
  <2>2. pc' \in [Callers -> {"idle", "latch", "build"}] /\ pc'[t] = "idle"
        /\ \A u \in Callers : u # t => pc'[u] = pc[u]
    BY <1>a, <2>1, Zenon DEF Answer
  <2>3. latch.state = "running" /\ \A u \in Callers : pc'[u] # "build"
    BY <2>1, <2>2, Zenon DEF PoolInv, Settled
  <2>4. \A w : latch # Pool(w, "explicit")
    BY <2>3, LatchFacts, ZenonT(40)
  <2>5. \A a \in answers' : a \in answers \/ a.what = "panic"
    <3>1. answers' = answers \cup
            {[kind |-> kind[t], asked |-> asked[t], what |-> "panic", width |-> 0]}
      BY <2>1, Zenon DEF Answer
    <3>2. \A k, w : [kind |-> k, asked |-> w, what |-> "panic", width |-> 0].what = "panic"
      BY Zenon
    <3>3. QED
      BY <3>1, <3>2, Zenon
  <2>6. \A a \in answers' : ~(a.what = "width" /\ a.width # Default)
                          /\ ~(a.what = "width" /\ a.kind = "explicit")
                          /\ a.what # "non-authoritative pool"
    BY <2>3, <2>4, <2>5, Zenon DEF PoolInv, Settled
  <2>7. PoolTypeOK'
    BY <2>1, <2>2, LatchTypes, Zenon DEF PoolInv, PoolTypeOK
  <2>8. QED
    BY <2>1, <2>2, <2>3, <2>6, <2>7, Zenon DEF PoolInv, Settled
<1>5. CASE ReadGeneric(t)
  <2>1. kind[t] = "generic" /\ kind[t] # "explicit"
    BY <1>5, Zenon DEF ReadGeneric
  <2>2. QED
    BY <1>5, <2>1, Answers, Zenon DEF ReadGeneric
<1>6. CASE ReadExplicit(t)
  BY <1>6, Answers, Zenon DEF ReadExplicit
<1>7. QED
  BY <1>1, <1>2, <1>3, <1>4, <1>5, <1>6, Zenon DEF Step

LEMMA NextStep ==
  ASSUME PoolInv, [PoolNext]_poolVars
  PROVE  PoolInv'
<1>a. pc \in [Callers -> {"idle", "latch", "build"}] /\ asks \in Nat
      /\ kind \in [Callers -> {"generic", "explicit"}]
      /\ asked \in [Callers -> Widths \cup {Default}]
  BY DEF PoolInv, PoolTypeOK
<1>1. ASSUME NEW t \in Callers, AskGeneric(t) PROVE PoolInv'
  <2>1. asks' \in Nat
    BY <1>1, <1>a, SMT DEF AskGeneric
  <2>2. pc' = [pc EXCEPT ![t] = "latch"] /\ kind' = [kind EXCEPT ![t] = "generic"]
        /\ \E w \in Widths \cup {Default} : asked' = [asked EXCEPT ![t] = w]
        /\ UNCHANGED <<rayon, latch, answers>>
    BY <1>1, Zenon DEF AskGeneric
  <2>3. pc' \in [Callers -> {"idle", "latch", "build"}]
        /\ kind' \in [Callers -> {"generic", "explicit"}]
        /\ asked' \in [Callers -> Widths \cup {Default}]
    BY <1>a, <2>2, Zenon
  <2>4. /\ pc'[t] = "latch" /\ kind'[t] = "generic"
        /\ \A u \in Callers : u # t => pc'[u] = pc[u] /\ kind'[u] = kind[u] /\ asked'[u] = asked[u]
    BY <1>a, <2>2, Zenon
  <2>5. \A u \in Callers : pc'[u] # "idle" /\ kind'[u] = "explicit" => asked'[u] \in Positive
    BY <2>4, Zenon DEF PoolInv, Settled
  <2>6. \A u \in Callers : pc'[u] = "build" => pc[u] = "build"
    BY <2>4, Zenon
  <2>7. QED
    BY <2>1, <2>2, <2>3, <2>5, <2>6, Quiet, Zenon
<1>2. ASSUME NEW t \in Callers, AskExplicit(t) PROVE PoolInv'
  <2>a. asks' = asks + 1
    BY <1>2, Zenon DEF AskExplicit
  <2>1. asks' \in Nat
    BY <2>a, <1>a, SMT
  <2>2. PICK w \in Widths :
          /\ asked' = [asked EXCEPT ![t] = w]
          /\ IF w = 0
             THEN /\ answers' = answers \cup
                       {[kind |-> "explicit", asked |-> 0, what |-> "zero threads", width |-> 0]}
                  /\ UNCHANGED pc
             ELSE pc' = [pc EXCEPT ![t] = "latch"] /\ UNCHANGED answers
    BY <1>2, Zenon DEF AskExplicit
  <2>3. kind' = [kind EXCEPT ![t] = "explicit"] /\ UNCHANGED <<rayon, latch>> /\ pc[t] = "idle"
    BY <1>2, Zenon DEF AskExplicit
  <2>4. pc' \in [Callers -> {"idle", "latch", "build"}]
        /\ kind' \in [Callers -> {"generic", "explicit"}]
        /\ asked' \in [Callers -> Widths \cup {Default}]
    BY <1>a, <2>2, <2>3, Zenon
  <2>5. /\ asked'[t] = w /\ (pc'[t] = "latch" \/ pc'[t] = "idle") /\ (w = 0 => pc'[t] = "idle")
        /\ \A u \in Callers : u # t => pc'[u] = pc[u] /\ kind'[u] = kind[u] /\ asked'[u] = asked[u]
    BY <1>a, <2>2, <2>3, Zenon
  <2>6. w # 0 => w \in Positive
    BY PoolAssumption DEF Positive
  <2>7. \A u \in Callers : pc'[u] # "idle" /\ kind'[u] = "explicit" => asked'[u] \in Positive
    BY <2>5, <2>6, Zenon DEF PoolInv, Settled
  <2>8. \A u \in Callers : pc'[u] = "build" => pc[u] = "build"
    BY <2>5, Zenon
  <2>9. CASE w # 0
    BY <2>1, <2>2, <2>3, <2>4, <2>7, <2>8, <2>9, Quiet, Zenon
  <2>10. CASE w = 0
    <3>1. \A a \in answers' : a \in answers \/ a.what = "zero threads"
      <4>1. answers' = answers \cup
              {[kind |-> "explicit", asked |-> 0, what |-> "zero threads", width |-> 0]}
        BY <2>2, <2>10, Zenon
      <4>2. [kind |-> "explicit", asked |-> 0, what |-> "zero threads", width |-> 0].what
              = "zero threads"
        BY Zenon
      <4>3. QED
        BY <4>1, <4>2, Zenon
    <3>2. pc' = pc
      BY <2>2, <2>10, Zenon
    <3>3. PoolTypeOK'
      BY <2>1, <2>3, <2>4, Zenon DEF PoolInv, PoolTypeOK
    <3>4. QED
      BY <2>3, <2>7, <3>1, <3>2, <3>3, Zenon DEF PoolInv, Settled
  <2>11. QED
    BY <2>9, <2>10
<1>3. ASSUME NEW t \in Callers, Query(t) PROVE PoolInv'
  <2>1. asks' \in Nat
    BY <1>3, <1>a, SMT DEF Query
  <2>2. UNCHANGED <<rayon, latch, pc, kind, asked>>
    BY <1>3, Zenon DEF Query
  <2>3. DEFINE new == [kind |-> "query", asked |-> Default, what |-> "width", width |-> Configured]
  <2>4. answers' = answers \cup {new} /\ new.kind = "query" /\ new.what = "width"
        /\ new.width = Configured
    BY <1>3, Zenon DEF Query
  <2>5. Configured # Default => latch.state = "pool" /\ Configured = latch.width
    BY Zenon DEF Configured
  <2> HIDE DEF new
  <2>6. PoolTypeOK'
    BY <2>1, <2>2, Zenon DEF PoolInv, PoolTypeOK
  <2>7. QED
    BY <2>2, <2>4, <2>5, <2>6, Zenon DEF PoolInv, Settled
<1>4. CASE ForeignTouch
  <2>1. rayon' \in Positive \cup {Broken}
    <3>1. \A w \in Widths \ {0} : w \in Positive
      BY PoolAssumption DEF Positive
    <3>2. HostWidth \in Positive
      BY PoolAssumption DEF Positive
    <3>3. rayon' \in {HostWidth} \cup (Widths \ {0}) \cup (IF SpawnFaults THEN {Broken} ELSE {})
      BY <1>4, Zenon DEF ForeignTouch
    <3>4. QED
      BY <3>1, <3>2, <3>3, Zenon
  <2>2. latch.state # "pool"
    <3>1. rayon \notin Nat
      BY <1>4, PoolAssumption, Zenon DEF ForeignTouch
    <3>2. QED
      BY <3>1, Zenon DEF PoolInv, Settled
  <2>3. UNCHANGED <<latch, pc, kind, asked, asks, answers>>
    BY <1>4, Zenon DEF ForeignTouch
  <2>4. PoolTypeOK'
    BY <2>1, <2>3, Zenon DEF PoolInv, PoolTypeOK
  <2>5. QED
    BY <2>2, <2>3, <2>4, Zenon DEF PoolInv, Settled
<1>5. CASE Finished \/ UNCHANGED poolVars
  BY <1>5, Zenon DEF Finished, poolVars, PoolInv, PoolTypeOK, Settled
<1>6. QED
  BY <1>1, <1>2, <1>3, <1>4, <1>5, CallStep, Zenon DEF PoolNext

THEOREM PoolInvariant == PoolSpec => []PoolInv
<1>1. PoolInv /\ [PoolNext]_poolVars => PoolInv'
  BY NextStep
<1>2. QED
  BY Start, <1>1, PTL DEF PoolSpec

\* For any number of threads: a width anybody was told is the real pool's.
THEOREM WidthsAreReal == PoolSpec => []NoFakeWidth
<1>1. PoolInv => NoFakeWidth
  BY Zenon DEF PoolInv, Settled, NoFakeWidth
<1>2. QED
  BY PoolInvariant, <1>1, PTL

\* For any number of threads: the authoritative request succeeds only with a
\* pool that such a request built, and then nobody was refused for its origin.
THEOREM Exclusive == PoolSpec => []AuthorityIsExclusive
<1>1. PoolInv => AuthorityIsExclusive
  <2>1. SUFFICES ASSUME PoolInv, NEW a \in answers, a.kind = "explicit", a.what = "width"
                 PROVE  /\ a.width = a.asked
                        /\ \A b \in answers : b.what # "non-authoritative pool"
                        /\ latch = Pool(a.asked, "explicit")
    BY Zenon DEF AuthorityIsExclusive
  <2>2. a.width = a.asked /\ latch = Pool(a.asked, "explicit")
    BY <2>1, Zenon DEF PoolInv, Settled
  <2>3. latch.origin = "explicit"
    BY <2>2, LatchFacts, Zenon
  <2>4. QED
    BY <2>1, <2>2, <2>3, Zenon DEF PoolInv, Settled
<1>2. QED
  BY PoolInvariant, <1>1, PTL

\* For any number of threads: what the first touch latched is never revised.
THEOREM FirstTouch == PoolSpec => FirstTouchWins
<1>1. PoolInv /\ [PoolNext]_poolVars => [latch.state \in {"pool", "error"} => latch' = latch]_latch
  <2>1. SUFFICES ASSUME PoolInv, [PoolNext]_poolVars, latch.state \in {"pool", "error"} PROVE latch' = latch
    OBVIOUS
  <2>2. latch.state # "empty" /\ \A t \in Callers : pc[t] # "build"
    BY <2>1, Zenon DEF PoolInv, Settled
  <2>3. QED
    BY <2>1, <2>2, Zenon DEF PoolNext, poolVars, ForeignTouch, Finished, AskGeneric, AskExplicit, Query,
         Step, Enter, MayInitialise, Build, BuildFindsPool, BuildFindsNothing, ReadGeneric,
         ReadExplicit
<1>2. QED
  BY PoolInvariant, <1>1, PTL DEF PoolSpec, FirstTouchWins

-----------------------------------------------------------------------------
(* The success-only caches *)

Waiting == {"warm", "nested"}

\* The frames of a thread: the accessor it called, and the parent's above it
\* while that accessor waits.
FramesNest ==
  \A t \in Threads, c \in Caches : at[t][c] # "idle" =>
    \/ c = root[t]
    \/ /\ root[t] \in Caches
       /\ c = Parent[root[t]]
       /\ at[t][root[t]] \in Waiting

OnlyChildrenWait ==
  \A t \in Threads, c \in Caches :
    at[t][c] \in Waiting \cup {"initialize"} => HasParent(c)

\* The parent asked under the child's lock answers from its OnceLock.
NestedIsQuick ==
  \A t \in Threads, c \in Caches :
    at[t][c] = "nested" => at[t][Parent[c]] \in {"get", "ok"}

AfterWarm == {"second", "lock", "recheck"} \cup Initializing

\* Past its warm-up, the parent of a cache is loaded.
ParentIsLoaded ==
  \A t \in Threads, c \in Caches :
    at[t][c] \in AfterWarm /\ HasParent(c) => Parent[c] \in loaded

ValuesAreLoaded ==
  \A t \in Threads, c \in Caches :
    at[t][c] \in {"stored", "ok"} => c \in loaded

ColdHolds ==
  \A t \in Threads, c \in Caches : at[t][c] \in Cold => holder[LockOf[c]] = t

InitializingIsNotLoaded ==
  \A t \in Threads, c \in Caches : at[t][c] \in Initializing => c \notin loaded

CacheInv ==
  /\ TypeOK
  /\ FramesNest
  /\ OnlyChildrenWait
  /\ NestedIsQuick
  /\ ParentIsLoaded
  /\ ValuesAreLoaded
  /\ ColdHolds
  /\ InitializingIsNotLoaded
  /\ GuardsAreDropped

-----------------------------------------------------------------------------
LEMMA CallKeeps ==
  ASSUME NEW t \in Threads, NEW c \in Caches, CacheInv, Call(t, c)
  PROVE  CacheInv'
<1> USE CacheAssumption, DepthAssumption
    DEF CacheInv, Position, Cold, Initializing, Waiting, AfterWarm
<1>1. TypeOK'
  BY DEF TypeOK, Call, Go
<1>2. FramesNest'
  BY DEF TypeOK, FramesNest, OnlyChildrenWait, HasParent, Call, Go
<1>3. OnlyChildrenWait'
  BY DEF TypeOK, OnlyChildrenWait, HasParent, Call, Go
<1>4. NestedIsQuick'
  BY DEF TypeOK, FramesNest, OnlyChildrenWait, NestedIsQuick,
         ParentIsLoaded, HasParent, Call, Go
<1>5. ParentIsLoaded'
  BY DEF TypeOK, ParentIsLoaded, ValuesAreLoaded, FramesNest,
         HasParent, Call, Go
<1>6. ValuesAreLoaded'
  BY DEF TypeOK, FramesNest, ValuesAreLoaded, Call, Go
<1>7. ColdHolds'
  BY DEF TypeOK, FramesNest, NestedIsQuick, ColdHolds,
         OnlyChildrenWait, HasParent, Call, Go
<1>8. InitializingIsNotLoaded'
  BY DEF TypeOK, FramesNest, ColdHolds, InitializingIsNotLoaded, Call,
         Go
<1>9. GuardsAreDropped'
  BY DEF TypeOK, FramesNest, ColdHolds, NestedIsQuick,
         OnlyChildrenWait, HasParent, GuardsAreDropped, Call, Go
<1> QED
  BY <1>1, <1>2, <1>3, <1>4, <1>5, <1>6, <1>7, <1>8, <1>9

-----------------------------------------------------------------------------
LEMMA GetHits ==
  ASSUME NEW t \in Threads, NEW c \in Caches, CacheInv,
         at[t][c] = "get", UNCHANGED <<loaded, holder, root, calls>>,
         c \in loaded, Go(t, c, "ok")
  PROVE  CacheInv'
<1> USE CacheAssumption, DepthAssumption
    DEF CacheInv, Position, Cold, Initializing, Waiting, AfterWarm
<1>1. TypeOK'
  BY DEF TypeOK, Go
<1>2. FramesNest'
  BY DEF TypeOK, FramesNest, OnlyChildrenWait, HasParent, Go
<1>3. OnlyChildrenWait'
  BY DEF TypeOK, OnlyChildrenWait, HasParent, Go
<1>4. NestedIsQuick'
  BY DEF TypeOK, FramesNest, OnlyChildrenWait, NestedIsQuick,
         ParentIsLoaded, HasParent, Go
<1>5. ParentIsLoaded'
  BY DEF TypeOK, ParentIsLoaded, ValuesAreLoaded, FramesNest,
         HasParent, Go
<1>6. ValuesAreLoaded'
  BY DEF TypeOK, FramesNest, ValuesAreLoaded, Go
<1>7. ColdHolds'
  BY DEF TypeOK, FramesNest, NestedIsQuick, ColdHolds,
         OnlyChildrenWait, HasParent, Go
<1>8. InitializingIsNotLoaded'
  BY DEF TypeOK, FramesNest, ColdHolds, InitializingIsNotLoaded, Go
<1>9. GuardsAreDropped'
  BY DEF TypeOK, FramesNest, ColdHolds, NestedIsQuick,
         OnlyChildrenWait, HasParent, GuardsAreDropped, Go
<1> QED
  BY <1>1, <1>2, <1>3, <1>4, <1>5, <1>6, <1>7, <1>8, <1>9

LEMMA GetAsksParent ==
  ASSUME NEW t \in Threads, NEW c \in Caches, CacheInv,
         at[t][c] = "get", UNCHANGED <<loaded, holder, root, calls>>,
         HasParent(c), CallParent(t, c, "warm")
  PROVE  CacheInv'
<1> USE CacheAssumption, DepthAssumption
    DEF CacheInv, Position, Cold, Initializing, Waiting, AfterWarm
<1>0. Parent[c] \in Caches /\ Parent[c] # c /\ at[t][Parent[c]] = "idle"
  BY DEF TypeOK, FramesNest, OnlyChildrenWait, HasParent, Waiting
<1>1. TypeOK'
  BY <1>0 DEF TypeOK, CallParent
<1>2. FramesNest'
  BY <1>0 DEF TypeOK, FramesNest, OnlyChildrenWait, HasParent, CallParent
<1>3. OnlyChildrenWait'
  BY <1>0 DEF TypeOK, OnlyChildrenWait, HasParent, CallParent
<1>4. NestedIsQuick'
  BY <1>0 DEF TypeOK, FramesNest, OnlyChildrenWait, NestedIsQuick,
         ParentIsLoaded, HasParent, CallParent
<1>5. ParentIsLoaded'
  BY <1>0 DEF TypeOK, ParentIsLoaded, ValuesAreLoaded, FramesNest,
         HasParent, CallParent
<1>6. ValuesAreLoaded'
  BY <1>0 DEF TypeOK, FramesNest, ValuesAreLoaded, CallParent
<1>7. ColdHolds'
  BY <1>0 DEF TypeOK, FramesNest, NestedIsQuick, ColdHolds,
         OnlyChildrenWait, HasParent, CallParent
<1>8. InitializingIsNotLoaded'
  BY <1>0 DEF TypeOK, FramesNest, ColdHolds, InitializingIsNotLoaded,
         CallParent
<1>9. GuardsAreDropped'
  BY <1>0 DEF TypeOK, FramesNest, ColdHolds, NestedIsQuick,
         OnlyChildrenWait, HasParent, GuardsAreDropped, CallParent
<1> QED
  BY <1>1, <1>2, <1>3, <1>4, <1>5, <1>6, <1>7, <1>8, <1>9

LEMMA GetMisses ==
  ASSUME NEW t \in Threads, NEW c \in Caches, CacheInv,
         at[t][c] = "get", UNCHANGED <<loaded, holder, root, calls>>,
         ~HasParent(c), c \notin loaded, Go(t, c, "lock")
  PROVE  CacheInv'
<1> USE CacheAssumption, DepthAssumption
    DEF CacheInv, Position, Cold, Initializing, Waiting, AfterWarm
<1>1. TypeOK'
  BY DEF TypeOK, Go
<1>2. FramesNest'
  BY DEF TypeOK, FramesNest, OnlyChildrenWait, HasParent, Go
<1>3. OnlyChildrenWait'
  BY DEF TypeOK, OnlyChildrenWait, HasParent, Go
<1>4. NestedIsQuick'
  BY DEF TypeOK, FramesNest, OnlyChildrenWait, NestedIsQuick,
         ParentIsLoaded, HasParent, Go
<1>5. ParentIsLoaded'
  BY DEF TypeOK, ParentIsLoaded, ValuesAreLoaded, FramesNest,
         HasParent, Go
<1>6. ValuesAreLoaded'
  BY DEF TypeOK, FramesNest, ValuesAreLoaded, Go
<1>7. ColdHolds'
  BY DEF TypeOK, FramesNest, NestedIsQuick, ColdHolds,
         OnlyChildrenWait, HasParent, Go
<1>8. InitializingIsNotLoaded'
  BY DEF TypeOK, FramesNest, ColdHolds, InitializingIsNotLoaded, Go
<1>9. GuardsAreDropped'
  BY DEF TypeOK, FramesNest, ColdHolds, NestedIsQuick,
         OnlyChildrenWait, HasParent, GuardsAreDropped, Go
<1> QED
  BY <1>1, <1>2, <1>3, <1>4, <1>5, <1>6, <1>7, <1>8, <1>9

LEMMA GetKeeps ==
  ASSUME NEW t \in Threads, NEW c \in Caches, CacheInv, Get(t, c)
  PROVE  CacheInv'
<1> USE CacheAssumption, DepthAssumption DEF CacheInv
<1> QED
  BY GetHits, GetAsksParent, GetMisses DEF Get, MissGoesTo, HasParent

-----------------------------------------------------------------------------
LEMMA WarmedKeeps ==
  ASSUME NEW t \in Threads, NEW c \in Caches, CacheInv, Warmed(t, c)
  PROVE  CacheInv'
<1> USE CacheAssumption, DepthAssumption
    DEF CacheInv, Position, Cold, Initializing, Waiting, AfterWarm
<1>1. TypeOK'
  BY DEF TypeOK, Warmed, TakeAnswer, Answered
<1>2. FramesNest'
  BY DEF TypeOK, FramesNest, OnlyChildrenWait, HasParent, Warmed,
         TakeAnswer, Answered
<1>3. OnlyChildrenWait'
  BY DEF TypeOK, OnlyChildrenWait, HasParent, Warmed, TakeAnswer,
         Answered
<1>4. NestedIsQuick'
  BY DEF TypeOK, FramesNest, OnlyChildrenWait, NestedIsQuick,
         ParentIsLoaded, HasParent, Warmed, TakeAnswer, Answered
<1>5. ParentIsLoaded'
  BY DEF TypeOK, ParentIsLoaded, ValuesAreLoaded, FramesNest,
         HasParent, Warmed, TakeAnswer, Answered
<1>6. ValuesAreLoaded'
  BY DEF TypeOK, FramesNest, ValuesAreLoaded, Warmed, TakeAnswer,
         Answered
<1>7. ColdHolds'
  BY DEF TypeOK, FramesNest, NestedIsQuick, ColdHolds,
         OnlyChildrenWait, HasParent, Warmed, TakeAnswer, Answered
<1>8. InitializingIsNotLoaded'
  BY DEF TypeOK, FramesNest, ColdHolds, InitializingIsNotLoaded,
         Warmed, TakeAnswer, Answered
<1>9. GuardsAreDropped'
  BY DEF TypeOK, FramesNest, ColdHolds, NestedIsQuick,
         OnlyChildrenWait, HasParent, GuardsAreDropped, Warmed,
         TakeAnswer, Answered
<1> QED
  BY <1>1, <1>2, <1>3, <1>4, <1>5, <1>6, <1>7, <1>8, <1>9

-----------------------------------------------------------------------------
LEMMA GetAgainKeeps ==
  ASSUME NEW t \in Threads, NEW c \in Caches, CacheInv, GetAgain(t, c)
  PROVE  CacheInv'
<1> USE CacheAssumption, DepthAssumption
    DEF CacheInv, Position, Cold, Initializing, Waiting, AfterWarm
<1>1. TypeOK'
  BY DEF TypeOK, GetAgain, Go
<1>2. FramesNest'
  BY DEF TypeOK, FramesNest, OnlyChildrenWait, HasParent, GetAgain, Go
<1>3. OnlyChildrenWait'
  BY DEF TypeOK, OnlyChildrenWait, HasParent, GetAgain, Go
<1>4. NestedIsQuick'
  BY DEF TypeOK, FramesNest, OnlyChildrenWait, NestedIsQuick,
         ParentIsLoaded, HasParent, GetAgain, Go
<1>5. ParentIsLoaded'
  BY DEF TypeOK, ParentIsLoaded, ValuesAreLoaded, FramesNest,
         HasParent, GetAgain, Go
<1>6. ValuesAreLoaded'
  BY DEF TypeOK, FramesNest, ValuesAreLoaded, GetAgain, Go
<1>7. ColdHolds'
  BY DEF TypeOK, FramesNest, NestedIsQuick, ColdHolds,
         OnlyChildrenWait, HasParent, GetAgain, Go
<1>8. InitializingIsNotLoaded'
  BY DEF TypeOK, FramesNest, ColdHolds, InitializingIsNotLoaded,
         GetAgain, Go
<1>9. GuardsAreDropped'
  BY DEF TypeOK, FramesNest, ColdHolds, NestedIsQuick,
         OnlyChildrenWait, HasParent, GuardsAreDropped, GetAgain, Go
<1> QED
  BY <1>1, <1>2, <1>3, <1>4, <1>5, <1>6, <1>7, <1>8, <1>9

-----------------------------------------------------------------------------
LEMMA LockKeeps ==
  ASSUME NEW t \in Threads, NEW c \in Caches, CacheInv, Lock(t, c)
  PROVE  CacheInv'
<1> USE CacheAssumption, DepthAssumption
    DEF CacheInv, Position, Cold, Initializing, Waiting, AfterWarm
<1>1. TypeOK'
  BY DEF TypeOK, Lock, Go, LockIsFree
<1>2. FramesNest'
  BY DEF TypeOK, FramesNest, OnlyChildrenWait, HasParent, Lock, Go,
         LockIsFree
<1>3. OnlyChildrenWait'
  BY DEF TypeOK, OnlyChildrenWait, HasParent, Lock, Go, LockIsFree
<1>4. NestedIsQuick'
  BY DEF TypeOK, FramesNest, OnlyChildrenWait, NestedIsQuick,
         ParentIsLoaded, HasParent, Lock, Go, LockIsFree
<1>5. ParentIsLoaded'
  BY DEF TypeOK, ParentIsLoaded, ValuesAreLoaded, FramesNest,
         HasParent, Lock, Go, LockIsFree
<1>6. ValuesAreLoaded'
  BY DEF TypeOK, FramesNest, ValuesAreLoaded, Lock, Go, LockIsFree
<1>7. ColdHolds'
  BY DEF TypeOK, FramesNest, NestedIsQuick, ColdHolds,
         OnlyChildrenWait, HasParent, Lock, Go, LockIsFree
<1>8. InitializingIsNotLoaded'
  BY DEF TypeOK, FramesNest, ColdHolds, InitializingIsNotLoaded, Lock,
         Go, LockIsFree
<1>9. GuardsAreDropped'
  BY DEF TypeOK, FramesNest, ColdHolds, NestedIsQuick,
         OnlyChildrenWait, HasParent, GuardsAreDropped, Lock, Go,
         LockIsFree
<1> QED
  BY <1>1, <1>2, <1>3, <1>4, <1>5, <1>6, <1>7, <1>8, <1>9

-----------------------------------------------------------------------------
LEMMA RecheckFinds ==
  ASSUME NEW t \in Threads, NEW c \in Caches, CacheInv,
         at[t][c] = "recheck", UNCHANGED <<loaded, root, calls>>,
         c \in loaded, Go(t, c, "ok"), DropGuard(t, c)
  PROVE  CacheInv'
<1> USE CacheAssumption, DepthAssumption
    DEF CacheInv, Position, Cold, Initializing, Waiting, AfterWarm
<1>1. TypeOK'
  BY DEF TypeOK, Go, DropGuard
<1>2. FramesNest'
  BY DEF TypeOK, FramesNest, OnlyChildrenWait, HasParent, Go, DropGuard
<1>3. OnlyChildrenWait'
  BY DEF TypeOK, OnlyChildrenWait, HasParent, Go, DropGuard
<1>4. NestedIsQuick'
  BY DEF TypeOK, FramesNest, OnlyChildrenWait, NestedIsQuick,
         ParentIsLoaded, HasParent, Go, DropGuard
<1>5. ParentIsLoaded'
  BY DEF TypeOK, ParentIsLoaded, ValuesAreLoaded, FramesNest,
         HasParent, Go, DropGuard
<1>6. ValuesAreLoaded'
  BY DEF TypeOK, FramesNest, ValuesAreLoaded, Go, DropGuard
<1>7. ColdHolds'
  BY DEF TypeOK, FramesNest, NestedIsQuick, ColdHolds,
         OnlyChildrenWait, HasParent, Go, DropGuard
<1>8. InitializingIsNotLoaded'
  BY DEF TypeOK, FramesNest, ColdHolds, InitializingIsNotLoaded, Go,
         DropGuard
<1>9. GuardsAreDropped'
  BY DEF TypeOK, FramesNest, ColdHolds, NestedIsQuick,
         OnlyChildrenWait, HasParent, GuardsAreDropped, Go, DropGuard
<1> QED
  BY <1>1, <1>2, <1>3, <1>4, <1>5, <1>6, <1>7, <1>8, <1>9

LEMMA RecheckStartsChild ==
  ASSUME NEW t \in Threads, NEW c \in Caches, CacheInv,
         at[t][c] = "recheck", UNCHANGED <<loaded, root, calls>>,
         c \notin loaded, HasParent(c), Go(t, c, "initialize"), holder' = holder
  PROVE  CacheInv'
<1> USE CacheAssumption, DepthAssumption
    DEF CacheInv, Position, Cold, Initializing, Waiting, AfterWarm
<1>1. TypeOK'
  BY DEF TypeOK, Go
<1>2. FramesNest'
  BY DEF TypeOK, FramesNest, OnlyChildrenWait, HasParent, Go
<1>3. OnlyChildrenWait'
  BY DEF TypeOK, OnlyChildrenWait, HasParent, Go
<1>4. NestedIsQuick'
  BY DEF TypeOK, FramesNest, OnlyChildrenWait, NestedIsQuick,
         ParentIsLoaded, HasParent, Go
<1>5. ParentIsLoaded'
  BY DEF TypeOK, ParentIsLoaded, ValuesAreLoaded, FramesNest,
         HasParent, Go
<1>6. ValuesAreLoaded'
  BY DEF TypeOK, FramesNest, ValuesAreLoaded, Go
<1>7. ColdHolds'
  BY DEF TypeOK, FramesNest, NestedIsQuick, ColdHolds,
         OnlyChildrenWait, HasParent, Go
<1>8. InitializingIsNotLoaded'
  BY DEF TypeOK, FramesNest, ColdHolds, InitializingIsNotLoaded, Go
<1>9. GuardsAreDropped'
  BY DEF TypeOK, FramesNest, ColdHolds, NestedIsQuick,
         OnlyChildrenWait, HasParent, GuardsAreDropped, Go
<1> QED
  BY <1>1, <1>2, <1>3, <1>4, <1>5, <1>6, <1>7, <1>8, <1>9

LEMMA RecheckStartsBase ==
  ASSUME NEW t \in Threads, NEW c \in Caches, CacheInv,
         at[t][c] = "recheck", UNCHANGED <<loaded, root, calls>>,
         c \notin loaded, ~HasParent(c), Go(t, c, "build"), holder' = holder
  PROVE  CacheInv'
<1> USE CacheAssumption, DepthAssumption
    DEF CacheInv, Position, Cold, Initializing, Waiting, AfterWarm
<1>1. TypeOK'
  BY DEF TypeOK, Go
<1>2. FramesNest'
  BY DEF TypeOK, FramesNest, OnlyChildrenWait, HasParent, Go
<1>3. OnlyChildrenWait'
  BY DEF TypeOK, OnlyChildrenWait, HasParent, Go
<1>4. NestedIsQuick'
  BY DEF TypeOK, FramesNest, OnlyChildrenWait, NestedIsQuick,
         ParentIsLoaded, HasParent, Go
<1>5. ParentIsLoaded'
  BY DEF TypeOK, ParentIsLoaded, ValuesAreLoaded, FramesNest,
         HasParent, Go
<1>6. ValuesAreLoaded'
  BY DEF TypeOK, FramesNest, ValuesAreLoaded, Go
<1>7. ColdHolds'
  BY DEF TypeOK, FramesNest, NestedIsQuick, ColdHolds,
         OnlyChildrenWait, HasParent, Go
<1>8. InitializingIsNotLoaded'
  BY DEF TypeOK, FramesNest, ColdHolds, InitializingIsNotLoaded, Go
<1>9. GuardsAreDropped'
  BY DEF TypeOK, FramesNest, ColdHolds, NestedIsQuick,
         OnlyChildrenWait, HasParent, GuardsAreDropped, Go
<1> QED
  BY <1>1, <1>2, <1>3, <1>4, <1>5, <1>6, <1>7, <1>8, <1>9

LEMMA RecheckKeeps ==
  ASSUME NEW t \in Threads, NEW c \in Caches, CacheInv, Recheck(t, c)
  PROVE  CacheInv'
<1> USE CacheAssumption, DepthAssumption DEF CacheInv
<1> QED
  BY RecheckFinds, RecheckStartsChild, RecheckStartsBase
  DEF Recheck, FoundUnderLock, HasParent

-----------------------------------------------------------------------------
LEMMA AskParentCalls ==
  ASSUME NEW t \in Threads, NEW c \in Caches, CacheInv,
         at[t][c] = "initialize", UNCHANGED <<loaded, holder, root, calls>>,
         HasParent(c), CallParent(t, c, "nested")
  PROVE  CacheInv'
<1> USE CacheAssumption, DepthAssumption
    DEF CacheInv, Position, Cold, Initializing, Waiting, AfterWarm
<1>0. Parent[c] \in Caches /\ Parent[c] # c /\ at[t][Parent[c]] = "idle"
  BY DEF TypeOK, FramesNest, OnlyChildrenWait, HasParent, Waiting
<1>1. TypeOK'
  BY <1>0 DEF TypeOK, CallParent
<1>2. FramesNest'
  BY <1>0 DEF TypeOK, FramesNest, OnlyChildrenWait, HasParent, CallParent
<1>3. OnlyChildrenWait'
  BY <1>0 DEF TypeOK, OnlyChildrenWait, HasParent, CallParent
<1>4. NestedIsQuick'
  BY <1>0 DEF TypeOK, FramesNest, OnlyChildrenWait, NestedIsQuick,
         ParentIsLoaded, HasParent, CallParent
<1>5. ParentIsLoaded'
  BY <1>0 DEF TypeOK, ParentIsLoaded, ValuesAreLoaded, FramesNest,
         HasParent, CallParent
<1>6. ValuesAreLoaded'
  BY <1>0 DEF TypeOK, FramesNest, ValuesAreLoaded, CallParent
<1>7. ColdHolds'
  BY <1>0 DEF TypeOK, FramesNest, NestedIsQuick, ColdHolds,
         OnlyChildrenWait, HasParent, CallParent
<1>8. InitializingIsNotLoaded'
  BY <1>0 DEF TypeOK, FramesNest, ColdHolds, InitializingIsNotLoaded,
         CallParent
<1>9. GuardsAreDropped'
  BY <1>0 DEF TypeOK, FramesNest, ColdHolds, NestedIsQuick,
         OnlyChildrenWait, HasParent, GuardsAreDropped, CallParent
<1> QED
  BY <1>1, <1>2, <1>3, <1>4, <1>5, <1>6, <1>7, <1>8, <1>9

LEMMA AskParentKeeps ==
  ASSUME NEW t \in Threads, NEW c \in Caches, CacheInv, AskParent(t, c)
  PROVE  CacheInv'
<1> USE CacheAssumption, DepthAssumption DEF CacheInv
<1> QED
  BY AskParentCalls DEF AskParent, OnlyChildrenWait

-----------------------------------------------------------------------------
LEMMA ParentAnswersValue ==
  ASSUME NEW t \in Threads, NEW c \in Caches, CacheInv,
         at[t][c] = "nested", UNCHANGED <<loaded, root, calls>>,
         at[t][Parent[c]] = "ok", TakeAnswer(t, c, "build"), holder' = holder
  PROVE  CacheInv'
<1> USE CacheAssumption, DepthAssumption
    DEF CacheInv, Position, Cold, Initializing, Waiting, AfterWarm
<1>0. Parent[c] \in Caches /\ Parent[c] # c /\ HasParent(c)
  BY DEF TypeOK, OnlyChildrenWait, HasParent, Waiting
<1>1. TypeOK'
  BY <1>0 DEF TypeOK, TakeAnswer
<1>2. FramesNest'
  BY <1>0 DEF TypeOK, FramesNest, OnlyChildrenWait, HasParent, TakeAnswer
<1>3. OnlyChildrenWait'
  BY <1>0 DEF TypeOK, OnlyChildrenWait, HasParent, TakeAnswer
<1>4. NestedIsQuick'
  BY <1>0 DEF TypeOK, FramesNest, OnlyChildrenWait, NestedIsQuick,
         ParentIsLoaded, HasParent, TakeAnswer
<1>5. ParentIsLoaded'
  BY <1>0 DEF TypeOK, ParentIsLoaded, ValuesAreLoaded, FramesNest,
         HasParent, TakeAnswer
<1>6. ValuesAreLoaded'
  BY <1>0 DEF TypeOK, FramesNest, ValuesAreLoaded, TakeAnswer
<1>7. ColdHolds'
  BY <1>0 DEF TypeOK, FramesNest, NestedIsQuick, ColdHolds,
         OnlyChildrenWait, HasParent, TakeAnswer
<1>8. InitializingIsNotLoaded'
  BY <1>0 DEF TypeOK, FramesNest, ColdHolds, InitializingIsNotLoaded,
         TakeAnswer
<1>9. GuardsAreDropped'
  BY <1>0 DEF TypeOK, FramesNest, ColdHolds, NestedIsQuick,
         OnlyChildrenWait, HasParent, GuardsAreDropped, TakeAnswer
<1> QED
  BY <1>1, <1>2, <1>3, <1>4, <1>5, <1>6, <1>7, <1>8, <1>9

LEMMA ParentAnswersKeeps ==
  ASSUME NEW t \in Threads, NEW c \in Caches, CacheInv, ParentAnswers(t, c)
  PROVE  CacheInv'
<1> USE CacheAssumption, DepthAssumption DEF CacheInv
<1> QED
  BY ParentAnswersValue DEF ParentAnswers, Answered, NestedIsQuick

-----------------------------------------------------------------------------
LEMMA FailsKeeps ==
  ASSUME NEW t \in Threads, NEW c \in Caches, CacheInv, Fails(t, c)
  PROVE  CacheInv'
<1> USE CacheAssumption, DepthAssumption
    DEF CacheInv, Position, Cold, Initializing, Waiting, AfterWarm
<1>1. TypeOK'
  BY DEF TypeOK, Fails, Go, ErrorLeaves, DropGuard
<1>2. FramesNest'
  BY DEF TypeOK, FramesNest, OnlyChildrenWait, HasParent, Fails, Go,
         ErrorLeaves, DropGuard
<1>3. OnlyChildrenWait'
  BY DEF TypeOK, OnlyChildrenWait, HasParent, Fails, Go, ErrorLeaves,
         DropGuard
<1>4. NestedIsQuick'
  BY DEF TypeOK, FramesNest, OnlyChildrenWait, NestedIsQuick,
         ParentIsLoaded, HasParent, Fails, Go, ErrorLeaves, DropGuard
<1>5. ParentIsLoaded'
  BY DEF TypeOK, ParentIsLoaded, ValuesAreLoaded, FramesNest,
         HasParent, Fails, Go, ErrorLeaves, DropGuard
<1>6. ValuesAreLoaded'
  BY DEF TypeOK, FramesNest, ValuesAreLoaded, Fails, Go, ErrorLeaves,
         DropGuard
<1>7. ColdHolds'
  BY DEF TypeOK, FramesNest, NestedIsQuick, ColdHolds,
         OnlyChildrenWait, HasParent, Fails, Go, ErrorLeaves, DropGuard
<1>8. InitializingIsNotLoaded'
  BY DEF TypeOK, FramesNest, ColdHolds, InitializingIsNotLoaded, Fails,
         Go, ErrorLeaves, DropGuard
<1>9. GuardsAreDropped'
  BY SMTT(30) DEF TypeOK, FramesNest, ColdHolds, NestedIsQuick,
         OnlyChildrenWait, HasParent, GuardsAreDropped, Fails, Go,
         ErrorLeaves, DropGuard
<1> QED
  BY <1>1, <1>2, <1>3, <1>4, <1>5, <1>6, <1>7, <1>8, <1>9

-----------------------------------------------------------------------------
LEMMA PanicsKeeps ==
  ASSUME NEW t \in Threads, NEW c \in Caches, CacheInv, Panics(t, c)
  PROVE  CacheInv'
<1> USE CacheAssumption, DepthAssumption
    DEF CacheInv, Position, Cold, Initializing, Waiting, AfterWarm
<1>1. TypeOK'
  BY DEF TypeOK, Panics
<1>2. FramesNest'
  BY DEF TypeOK, FramesNest, OnlyChildrenWait, HasParent, Panics
<1>3. OnlyChildrenWait'
  BY DEF TypeOK, OnlyChildrenWait, HasParent, Panics
<1>4. NestedIsQuick'
  BY DEF TypeOK, FramesNest, OnlyChildrenWait, NestedIsQuick,
         ParentIsLoaded, HasParent, Panics
<1>5. ParentIsLoaded'
  BY DEF TypeOK, ParentIsLoaded, ValuesAreLoaded, FramesNest,
         HasParent, Panics
<1>6. ValuesAreLoaded'
  BY DEF TypeOK, FramesNest, ValuesAreLoaded, Panics
<1>7. ColdHolds'
  BY DEF TypeOK, FramesNest, NestedIsQuick, ColdHolds,
         OnlyChildrenWait, HasParent, Panics
<1>8. InitializingIsNotLoaded'
  BY DEF TypeOK, FramesNest, ColdHolds, InitializingIsNotLoaded, Panics
<1>9. GuardsAreDropped'
  BY DEF TypeOK, FramesNest, ColdHolds, NestedIsQuick,
         OnlyChildrenWait, HasParent, GuardsAreDropped, Panics
<1> QED
  BY <1>1, <1>2, <1>3, <1>4, <1>5, <1>6, <1>7, <1>8, <1>9

-----------------------------------------------------------------------------
LEMMA StoreKeeps ==
  ASSUME NEW t \in Threads, NEW c \in Caches, CacheInv, Store(t, c)
  PROVE  CacheInv'
<1> USE CacheAssumption, DepthAssumption
    DEF CacheInv, Position, Cold, Initializing, Waiting, AfterWarm
<1>1. TypeOK'
  BY DEF TypeOK, Store, Go
<1>2. FramesNest'
  BY DEF TypeOK, FramesNest, OnlyChildrenWait, HasParent, Store, Go
<1>3. OnlyChildrenWait'
  BY DEF TypeOK, OnlyChildrenWait, HasParent, Store, Go
<1>4. NestedIsQuick'
  BY DEF TypeOK, FramesNest, OnlyChildrenWait, NestedIsQuick,
         ParentIsLoaded, HasParent, Store, Go
<1>5. ParentIsLoaded'
  BY DEF TypeOK, ParentIsLoaded, ValuesAreLoaded, FramesNest,
         HasParent, Store, Go
<1>6. ValuesAreLoaded'
  BY DEF TypeOK, FramesNest, ValuesAreLoaded, Store, Go
<1>7. ColdHolds'
  BY DEF TypeOK, FramesNest, NestedIsQuick, ColdHolds,
         OnlyChildrenWait, HasParent, Store, Go
<1>8. InitializingIsNotLoaded'
  BY DEF TypeOK, FramesNest, ColdHolds, InitializingIsNotLoaded, Store,
         Go
<1>9. GuardsAreDropped'
  BY DEF TypeOK, FramesNest, ColdHolds, NestedIsQuick,
         OnlyChildrenWait, HasParent, GuardsAreDropped, Store, Go
<1> QED
  BY <1>1, <1>2, <1>3, <1>4, <1>5, <1>6, <1>7, <1>8, <1>9

-----------------------------------------------------------------------------
LEMMA UnlockKeeps ==
  ASSUME NEW t \in Threads, NEW c \in Caches, CacheInv, Unlock(t, c)
  PROVE  CacheInv'
<1> USE CacheAssumption, DepthAssumption
    DEF CacheInv, Position, Cold, Initializing, Waiting, AfterWarm
<1>1. TypeOK'
  BY DEF TypeOK, Unlock, Go, DropGuard
<1>2. FramesNest'
  BY DEF TypeOK, FramesNest, OnlyChildrenWait, HasParent, Unlock, Go,
         DropGuard
<1>3. OnlyChildrenWait'
  BY DEF TypeOK, OnlyChildrenWait, HasParent, Unlock, Go, DropGuard
<1>4. NestedIsQuick'
  BY DEF TypeOK, FramesNest, OnlyChildrenWait, NestedIsQuick,
         ParentIsLoaded, HasParent, Unlock, Go, DropGuard
<1>5. ParentIsLoaded'
  BY DEF TypeOK, ParentIsLoaded, ValuesAreLoaded, FramesNest,
         HasParent, Unlock, Go, DropGuard
<1>6. ValuesAreLoaded'
  BY DEF TypeOK, FramesNest, ValuesAreLoaded, Unlock, Go, DropGuard
<1>7. ColdHolds'
  BY DEF TypeOK, FramesNest, NestedIsQuick, ColdHolds,
         OnlyChildrenWait, HasParent, Unlock, Go, DropGuard
<1>8. InitializingIsNotLoaded'
  BY DEF TypeOK, FramesNest, ColdHolds, InitializingIsNotLoaded,
         Unlock, Go, DropGuard
<1>9. GuardsAreDropped'
  BY DEF TypeOK, FramesNest, ColdHolds, NestedIsQuick,
         OnlyChildrenWait, HasParent, GuardsAreDropped, Unlock, Go,
         DropGuard
<1> QED
  BY <1>1, <1>2, <1>3, <1>4, <1>5, <1>6, <1>7, <1>8, <1>9

-----------------------------------------------------------------------------
LEMMA ReturnKeeps ==
  ASSUME NEW t \in Threads, NEW c \in Caches, CacheInv, Return(t, c)
  PROVE  CacheInv'
<1> USE CacheAssumption, DepthAssumption
    DEF CacheInv, Position, Cold, Initializing, Waiting, AfterWarm
<1>1. TypeOK'
  BY DEF TypeOK, Return, Go, Answered
<1>2. FramesNest'
  BY DEF TypeOK, FramesNest, OnlyChildrenWait, HasParent, Return, Go,
         Answered
<1>3. OnlyChildrenWait'
  BY DEF TypeOK, OnlyChildrenWait, HasParent, Return, Go, Answered
<1>4. NestedIsQuick'
  BY DEF TypeOK, FramesNest, OnlyChildrenWait, NestedIsQuick,
         ParentIsLoaded, HasParent, Return, Go, Answered
<1>5. ParentIsLoaded'
  BY DEF TypeOK, ParentIsLoaded, ValuesAreLoaded, FramesNest,
         HasParent, Return, Go, Answered
<1>6. ValuesAreLoaded'
  BY DEF TypeOK, FramesNest, ValuesAreLoaded, Return, Go, Answered
<1>7. ColdHolds'
  BY DEF TypeOK, FramesNest, NestedIsQuick, ColdHolds,
         OnlyChildrenWait, HasParent, Return, Go, Answered
<1>8. InitializingIsNotLoaded'
  BY DEF TypeOK, FramesNest, ColdHolds, InitializingIsNotLoaded,
         Return, Go, Answered
<1>9. GuardsAreDropped'
  BY DEF TypeOK, FramesNest, ColdHolds, NestedIsQuick,
         OnlyChildrenWait, HasParent, GuardsAreDropped, Return, Go,
         Answered
<1> QED
  BY <1>1, <1>2, <1>3, <1>4, <1>5, <1>6, <1>7, <1>8, <1>9

-----------------------------------------------------------------------------
LEMMA Starts == Init => CacheInv
  BY CacheAssumption
  DEF Init, CacheInv, TypeOK, FramesNest, OnlyChildrenWait, NestedIsQuick,
      ParentIsLoaded, ValuesAreLoaded, ColdHolds, InitializingIsNotLoaded,
      GuardsAreDropped, Position, Cold, Initializing, Waiting, AfterWarm

LEMMA Steps == CacheInv /\ [Next]_vars => CacheInv'
<1> SUFFICES ASSUME CacheInv, [Next]_vars PROVE CacheInv'
  OBVIOUS
<1>1. CASE UNCHANGED vars
  BY <1>1
  DEF vars, CacheInv, TypeOK, FramesNest, OnlyChildrenWait, NestedIsQuick,
      ParentIsLoaded, ValuesAreLoaded, ColdHolds, InitializingIsNotLoaded,
      GuardsAreDropped
<1>2. CASE Next
  <2>1. PICK t \in Threads : Works(t) \/ \E c \in Caches : Call(t, c)
    BY <1>2 DEF Next
  <2>2. CASE \E c \in Caches : Call(t, c)
    BY <2>2, CallKeeps
  <2>3. CASE Works(t)
    BY <2>3, GetKeeps, WarmedKeeps, GetAgainKeeps, LockKeeps, RecheckKeeps,
       AskParentKeeps, ParentAnswersKeeps, FailsKeeps, PanicsKeeps,
       StoreKeeps, UnlockKeeps, ReturnKeeps
    DEF Works
  <2> QED
    BY <2>1, <2>2, <2>3
<1> QED
  BY <1>1, <1>2

THEOREM CacheInvariant == Spec => []CacheInv
  BY Starts, Steps, PTL DEF Spec

-----------------------------------------------------------------------------
\* Two threads in the initializer of one cache both hold its lock, and a value
\* is stored and looked for under that lock.
THEOREM LoadedOnce == Spec => []OneLoad
<1>1. CacheInv => OneLoad
  BY DEF CacheInv, ColdHolds, InitializingIsNotLoaded, OneLoad, Cold, Initializing
<1> QED
  BY <1>1, CacheInvariant, PTL

\* A thread that holds a lock is in a cold section; if it also waited for one,
\* one of the two frames would be the parent's, asked under the child's lock,
\* and that one answers from its OnceLock.
THEOREM NoHoldAndWait == Spec => []NeverWaitsHolding
<1>1. ASSUME CacheInv PROVE NeverWaitsHolding
  <2> SUFFICES ASSUME NEW t \in Threads, NEW c \in Caches, at[t][c] = "lock",
                      NEW l \in Locks, holder[l] = t
               PROVE  FALSE
    BY DEF NeverWaitsHolding
  <2>1. PICK d \in Caches : at[t][d] \in Cold
    BY <1>1, CacheAssumption DEF CacheInv, GuardsAreDropped
  <2>2. d # c
    BY <2>1 DEF Cold, Initializing
  <2>3. at[t][d] # "idle" /\ at[t][c] \notin Waiting
    BY <2>1 DEF Cold, Initializing, Waiting
  <2>4. d = root[t] /\ c = Parent[d] /\ at[t][d] \in Waiting
    BY <1>1, <2>2, <2>3 DEF CacheInv, FramesNest
  <2>5. at[t][d] = "nested"
    BY <2>1, <2>4 DEF Waiting, Cold, Initializing
  <2> QED
    BY <1>1, <2>4, <2>5 DEF CacheInv, NestedIsQuick
<1> QED
  BY <1>1, CacheInvariant, PTL

\* No error and no panic leaves a lock behind.
THEOREM GuardsDropped == Spec => []GuardsAreDropped
<1>1. CacheInv => GuardsAreDropped
  BY DEF CacheInv
<1> QED
  BY <1>1, CacheInvariant, PTL
=============================================================================
