----------------------------- MODULE GlobalPool -----------------------------
(***************************************************************************)
(* crates/nd_sched/src/pool.rs: who decides the width of the one Rayon pool *)
(* of the process.  Whoever asks first builds it, under a OnceLock; Rayon   *)
(* itself accepts one global pool, which code that never heard of nd_sched  *)
(* builds just by using par_iter.                                           *)
(***************************************************************************)
EXTENDS Naturals

CONSTANTS
  Callers,
  Widths,      \* bound: widths somebody asks for; 0 is asked for by mistake
  HostWidth,   \* std::thread::available_parallelism
  Asks,        \* bound: calls to nd_sched in a run
  SpawnFaults, \* may Rayon fail to spawn a worker
  Default,     \* None
  Unbuilt,     \* Rayon has no global pool yet
  Broken       \* Rayon's one attempt at it failed

ASSUME PoolAssumption ==
  /\ Default \notin Nat /\ Unbuilt \notin Nat /\ Broken \notin Nat /\ Unbuilt # Broken
  /\ Widths \subseteq Nat /\ HostWidth \in Nat \ {0} /\ Asks \in Nat
  /\ SpawnFaults \in BOOLEAN

VARIABLES
  rayon,   \* Rayon's registry: its width, Unbuilt or Broken
  latch,   \* GLOBAL_POOL_STATE
  pc,      \* pc[t]: where thread t is
  kind,    \* kind[t]: which function t calls
  asked,   \* asked[t]: its argument, Default for None
  asks,    \* calls made so far
  answers  \* ghost: what the calls so far answered

poolVars == <<rayon, latch, pc, kind, asked, asks, answers>>

\* The latch: not touched, being initialised by a thread, or for good.
Empty == [state |-> "empty"]
Running == [state |-> "running"]
Pool(width, origin) == [state |-> "pool", width |-> width, origin |-> origin]
BuildError == [state |-> "error"]

PoolInit ==
  /\ rayon = Unbuilt /\ latch = Empty /\ asks = 0 /\ answers = {}
  /\ pc = [t \in Callers |-> "idle"]
  /\ kind = [t \in Callers |-> "generic"] /\ asked = [t \in Callers |-> Default]

AtLeastOne(w) == IF w = 0 THEN 1 ELSE w
\* resolve_worker_threads for the generic call, the argument itself for the other.
Desired(t) ==
  IF kind[t] = "explicit" THEN asked[t]
  ELSE IF asked[t] = Default THEN HostWidth ELSE AtLeastOne(asked[t])

Answer(t, what, width) ==
  /\ answers' = answers \cup {[kind |-> kind[t], asked |-> asked[t], what |-> what, width |-> width]}
  /\ pc' = [pc EXCEPT ![t] = "idle"]
-----------------------------------------------------------------------------
AskGeneric(t) ==
  /\ pc[t] = "idle" /\ asks < Asks /\ asks' = asks + 1
  /\ kind' = [kind EXCEPT ![t] = "generic"]
  /\ \E w \in Widths \cup {Default} : asked' = [asked EXCEPT ![t] = w]
  /\ pc' = [pc EXCEPT ![t] = "latch"]
  /\ UNCHANGED <<rayon, latch, answers>>

\* Width zero is refused before anything is touched.
AskExplicit(t) ==
  /\ pc[t] = "idle" /\ asks < Asks /\ asks' = asks + 1
  /\ kind' = [kind EXCEPT ![t] = "explicit"]
  /\ \E w \in Widths :
       /\ asked' = [asked EXCEPT ![t] = w]
       /\ IF w = 0
          THEN /\ answers' = answers \cup
                    {[kind |-> "explicit", asked |-> 0, what |-> "zero threads", width |-> 0]}
               /\ UNCHANGED pc
          ELSE pc' = [pc EXCEPT ![t] = "latch"] /\ UNCHANGED answers
  /\ UNCHANGED <<rayon, latch>>

\* configured_global_pool_threads reads the latch alone, and initialises nothing.
Configured ==
  IF latch.state = "pool" /\ latch.origin = "explicit" THEN latch.width ELSE Default

Query(t) ==
  /\ pc[t] = "idle" /\ asks < Asks /\ asks' = asks + 1
  /\ answers' = answers \cup
       {[kind |-> "query", asked |-> Default, what |-> "width", width |-> Configured]}
  /\ UNCHANGED <<rayon, latch, pc, kind, asked>>

CheckThenBuild == latch.state \in {"empty", "running"}
\* OnceLock: one initialiser; the others wait for what it leaves.
MayInitialise == latch.state = "empty"

Enter(t) ==
  /\ pc[t] = "latch" /\ MayInitialise
  /\ latch' = Running /\ pc' = [pc EXCEPT ![t] = "build"]
  /\ UNCHANGED <<rayon, kind, asked, asks, answers>>

\* What a sourceless build error, somebody else's pool, is recorded as.
Found(t) == Pool(AtLeastOne(rayon), "foreign")

SourceIgnored == latch' = Pool(HostWidth, "foreign")
\* A spawn failure keeps its source and is latched as the error it is.
SpawnFailureLatched == latch' = BuildError

\* build_global on a fresh registry, which a failed attempt uses up.
Build(t) ==
  /\ pc[t] = "build" /\ rayon = Unbuilt
  /\ \/ rayon' = Desired(t) /\ latch' = Pool(Desired(t), kind[t])
     \/ SpawnFaults /\ rayon' = Broken /\ SpawnFailureLatched
  /\ pc' = [pc EXCEPT ![t] = "latch"]
  /\ UNCHANGED <<kind, asked, asks, answers>>

\* build_global finds a pool; current_num_threads measures it.
BuildFindsPool(t) ==
  /\ pc[t] = "build" /\ rayon \notin {Unbuilt, Broken}
  /\ latch' = Found(t) /\ pc' = [pc EXCEPT ![t] = "latch"]
  /\ UNCHANGED <<rayon, kind, asked, asks, answers>>

LatchStaysClaimed == latch
\* A panicking initialiser leaves the OnceLock as it found it.
AfterPanic == Empty

\* Somebody else's build failed: there is no pool to measure and Rayon panics.
BuildFindsNothing(t) ==
  /\ pc[t] = "build" /\ rayon = Broken
  /\ latch' = AfterPanic /\ Answer(t, "panic", 0)
  /\ UNCHANGED <<rayon, kind, asked, asks>>

\* init_global_pool: the width of whatever pool there is.
ReadGeneric(t) ==
  /\ pc[t] = "latch" /\ kind[t] = "generic" /\ latch.state \in {"pool", "error"}
  /\ IF latch.state = "pool" THEN Answer(t, "width", latch.width) ELSE Answer(t, "panic", 0)
  /\ UNCHANGED <<rayon, latch, kind, asked, asks>>

SameWidthIsEnough(t) == latch.width = asked[t]
Authoritative(t) == latch.origin = "explicit" /\ latch.width = asked[t]

\* init_global_pool_authoritative.
ReadExplicit(t) ==
  /\ pc[t] = "latch" /\ kind[t] = "explicit" /\ latch.state \in {"pool", "error"}
  /\ \/ latch.state = "error" /\ Answer(t, "pool build", 0)
     \/ latch.state = "pool" /\ Authoritative(t) /\ Answer(t, "width", latch.width)
     \/ /\ latch.state = "pool" /\ ~Authoritative(t) /\ latch.origin = "explicit"
        /\ Answer(t, "width mismatch", latch.width)
     \/ /\ latch.state = "pool" /\ ~Authoritative(t) /\ latch.origin # "explicit"
        /\ Answer(t, "non-authoritative pool", latch.width)
  /\ UNCHANGED <<rayon, latch, kind, asked, asks>>

\* rayon::current_num_threads or par_iter anywhere in the process.
ForeignTouch ==
  /\ rayon = Unbuilt
  /\ rayon' \in {HostWidth} \cup (Widths \ {0}) \cup (IF SpawnFaults THEN {Broken} ELSE {})
  /\ UNCHANGED <<latch, pc, kind, asked, asks, answers>>

\* Nothing is left to ask: the program does other things.
Finished ==
  /\ asks = Asks /\ \A t \in Callers : pc[t] = "idle"
  /\ UNCHANGED poolVars

Step(t) ==
  \/ Enter(t) \/ Build(t) \/ BuildFindsPool(t) \/ BuildFindsNothing(t)
  \/ ReadGeneric(t) \/ ReadExplicit(t)

PoolNext ==
  \/ ForeignTouch \/ Finished
  \/ \E t \in Callers : AskGeneric(t) \/ AskExplicit(t) \/ Query(t) \/ Step(t)

\* Every thread that can run does.
PoolSpec == PoolInit /\ [][PoolNext]_poolVars /\ \A t \in Callers : WF_poolVars(Step(t))
-----------------------------------------------------------------------------
(* Properties *)

Positive == Nat \ {0}
Latches ==
  {Empty, Running, BuildError}
  \cup [state : {"pool"}, width : Positive, origin : {"explicit", "generic", "foreign"}]

\* Every variable keeps its type; no recorded width is zero.
PoolTypeOK ==
  /\ rayon \in Positive \cup {Unbuilt, Broken}
  /\ latch \in Latches
  /\ pc \in [Callers -> {"idle", "latch", "build"}]
  /\ kind \in [Callers -> {"generic", "explicit"}]
  /\ asked \in [Callers -> Widths \cup {Default}]
  /\ asks \in Nat

\* A width anybody was ever told is the width of the pool that really exists:
\* "neither branch can return a fake width".
NoFakeWidth ==
  \A a \in answers : a.what = "width" /\ a.width # Default => a.width = rayon

\* Part A's request succeeds only if it, or an equal request, built the pool:
\* a pool Rayon was given by anybody else is refused even at the same width.
AuthorityIsExclusive ==
  \A a \in answers : a.kind = "explicit" /\ a.what = "width" =>
    /\ a.width = a.asked
    /\ \A b \in answers : b.what # "non-authoritative pool"
    /\ latch = Pool(a.asked, "explicit")

\* The first touch decides for good: once latched, neither the width nor the
\* origin is ever revised.
FirstTouchWins == [][latch.state \in {"pool", "error"} => latch' = latch]_latch

\* Every call returns, also when the thread that was building the pool panics.
AsksReturn == \A t \in Callers : pc[t] = "latch" ~> pc[t] = "idle"
=============================================================================
