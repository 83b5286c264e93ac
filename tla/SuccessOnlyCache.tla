-------------------------- MODULE SuccessOnlyCache --------------------------
(***************************************************************************)
(* The compiled authorities that are loaded on first use and cached only   *)
(* when the load succeeds: jb_rs/src/drivers.rs, and the copies of         *)
(* success_only_cached in lightyear_odeint_rs/src/precomputed_ephem.rs,    *)
(* satpy_core/src/frame_time/authority.rs and                              *)
(* two_phase_transfer_rs/src/postprocess/session.rs.                       *)
(*                                                                         *)
(* A cache is a OnceLock and a cold-load Mutex.  A cache may be built from *)
(* another one, its parent (compiled_part_a_v3_drivers is built from       *)
(* compiled_drivers): its accessor resolves the parent before it takes its *)
(* own lock, and its initializer asks for the parent again under the lock. *)
(* What a value holds is abstracted: a cache is loaded or it is not, and   *)
(* an initializer succeeds, returns an error or panics.                    *)
(***************************************************************************)
EXTENDS Integers

CONSTANTS
  Threads,      \* the threads that call the accessors
  Caches,       \* the OnceLock statics
  Locks,        \* the cold-load Mutex statics
  LockOf,       \* the Mutex a cache is loaded under
  Parent,       \* the cache a cache is built from, or NoCache
  NoThread, NoCache,
  Calls         \* bound: how many calls a thread makes

ASSUME CacheAssumption ==
  /\ LockOf \in [Caches -> Locks]
  /\ Parent \in [Caches -> Caches \cup {NoCache}]
  /\ NoCache \notin Caches
  /\ NoThread \notin Threads
  /\ Calls \in Nat

\* A parent is not itself built from another cache: two caches deep.
ASSUME DepthAssumption ==
  \A c \in Caches : Parent[c] \in Caches => Parent[Parent[c]] = NoCache

VARIABLES
  loaded,       \* the caches whose OnceLock is set
  holder,       \* holder[l]: the thread that has Mutex l, or NoThread
  at,           \* at[t][c]: where thread t is in the accessor of cache c
  root,         \* the cache whose accessor t was asked for, or NoCache
  calls         \* how many calls t has made

vars == <<loaded, holder, at, root, calls>>

Initializing == {"initialize", "nested", "build"}
Cold == Initializing \cup {"recheck", "stored"}
Position == {"idle", "get", "warm", "second", "lock", "ok", "err"} \cup Cold

TypeOK ==
  /\ loaded \subseteq Caches
  /\ holder \in [Locks -> Threads \cup {NoThread}]
  /\ at \in [Threads -> [Caches -> Position]]
  /\ root \in [Threads -> Caches \cup {NoCache}]
  /\ calls \in [Threads -> 0..Calls]

Init ==
  /\ loaded = {}
  /\ holder = [l \in Locks |-> NoThread]
  /\ at = [t \in Threads |-> [c \in Caches |-> "idle"]]
  /\ root = [t \in Threads |-> NoCache]
  /\ calls = [t \in Threads |-> 0]

-----------------------------------------------------------------------------
HasParent(c) == Parent[c] # NoCache

\* The frame of cache c goes to position p; the other frames of t stay.
Go(t, c, p) == at' = [at EXCEPT ![t][c] = p]

\* The frame of c waits at p while a frame of its parent starts.
CallParent(t, c, p) ==
  at' = [at EXCEPT ![t][c] = p, ![t][Parent[c]] = "get"]

\* The frame of the parent is popped and the frame of c goes on at p.
TakeAnswer(t, c, p) ==
  at' = [at EXCEPT ![t][c] = p, ![t][Parent[c]] = "idle"]

Answered(t, c) == at[t][c] \in {"ok", "err"}

\* The guard leaves scope: its Mutex is free, poisoned or not.
DropGuard(t, c) == holder' = [holder EXCEPT ![LockOf[c]] = NoThread]

-----------------------------------------------------------------------------
\* Somebody calls an accessor.
Call(t, c) ==
  /\ root[t] = NoCache
  /\ calls[t] < Calls
  /\ root' = [root EXCEPT ![t] = c]
  /\ calls' = [calls EXCEPT ![t] = @ + 1]
  /\ Go(t, c, "get")
  /\ UNCHANGED <<loaded, holder>>

NeverWarms(c) == "lock"
\* Where a cold accessor goes after its first look: a cache with a parent
\* resolves the parent first.
MissGoesTo(c) == IF HasParent(c) THEN "warm" ELSE "lock"

\* The first look at the OnceLock, without the lock.
Get(t, c) ==
  /\ at[t][c] = "get"
  /\ IF c \in loaded THEN Go(t, c, "ok")
     ELSE IF MissGoesTo(c) = "warm" THEN CallParent(t, c, "warm")
     ELSE Go(t, c, "lock")
  /\ UNCHANGED <<loaded, holder, root, calls>>

\* drop(compiled_drivers()?): the parent is resolved, or its error returned.
Warmed(t, c) ==
  /\ at[t][c] = "warm"
  /\ Answered(t, Parent[c])
  /\ TakeAnswer(t, c, IF at[t][Parent[c]] = "ok" THEN "second" ELSE "err")
  /\ UNCHANGED <<loaded, holder, root, calls>>

\* success_only_cached looks again before it locks.
GetAgain(t, c) ==
  /\ at[t][c] = "second"
  /\ Go(t, c, IF c \in loaded THEN "ok" ELSE "lock")
  /\ UNCHANGED <<loaded, holder, root, calls>>

LockIsFree(c) == holder[LockOf[c]] = NoThread

\* cold_load.lock(), poison ignored.
Lock(t, c) ==
  /\ at[t][c] = "lock"
  /\ LockIsFree(c)
  /\ holder' = [holder EXCEPT ![LockOf[c]] = t]
  /\ Go(t, c, "recheck")
  /\ UNCHANGED <<loaded, root, calls>>

NoSecondLook(c) == FALSE
FoundUnderLock(c) == c \in loaded

\* The second look, under the lock: the value another thread stored is
\* returned and the guard dropped; otherwise the initializer starts.
Recheck(t, c) ==
  /\ at[t][c] = "recheck"
  /\ IF FoundUnderLock(c)
     THEN Go(t, c, "ok") /\ DropGuard(t, c)
     ELSE /\ Go(t, c, IF HasParent(c) THEN "initialize" ELSE "build")
          /\ UNCHANGED holder
  /\ UNCHANGED <<loaded, root, calls>>

\* build_part_a_v3_drivers has checked its manifest and asks for the parent.
AskParent(t, c) ==
  /\ at[t][c] = "initialize"
  /\ CallParent(t, c, "nested")
  /\ UNCHANGED <<loaded, holder, root, calls>>

\* ... and has its answer: an error is returned and the guard dropped.
ParentAnswers(t, c) ==
  /\ at[t][c] = "nested"
  /\ Answered(t, Parent[c])
  /\ IF at[t][Parent[c]] = "ok"
     THEN TakeAnswer(t, c, "build") /\ UNCHANGED holder
     ELSE TakeAnswer(t, c, "err") /\ DropGuard(t, c)
  /\ UNCHANGED <<loaded, root, calls>>

ErrorForgetsGuard(t, c) == UNCHANGED holder
ErrorLeaves(t, c) == DropGuard(t, c)

\* The initializer returns an error, before or after it has its parent:
\* nothing is stored and the guard is dropped.
Fails(t, c) ==
  /\ at[t][c] \in {"initialize", "build"}
  /\ Go(t, c, "err")
  /\ ErrorLeaves(t, c)
  /\ UNCHANGED <<loaded, root, calls>>

\* The initializer panics: every frame of the thread unwinds, and with them
\* every guard it has.
Panics(t, c) ==
  /\ at[t][c] \in {"initialize", "build"}
  /\ at' = [at EXCEPT ![t] = [d \in Caches |-> "idle"]]
  /\ holder' = [l \in Locks |-> IF holder[l] = t THEN NoThread ELSE holder[l]]
  /\ root' = [root EXCEPT ![t] = NoCache]
  /\ UNCHANGED <<loaded, calls>>

\* The initializer returns a value and cache.get_or_init(|| candidate) stores
\* it, still under the lock.
Store(t, c) ==
  /\ at[t][c] = "build"
  /\ loaded' = loaded \cup {c}
  /\ Go(t, c, "stored")
  /\ UNCHANGED <<holder, root, calls>>

\* success_only_cached returns the value and its guard leaves scope.
Unlock(t, c) ==
  /\ at[t][c] = "stored"
  /\ Go(t, c, "ok")
  /\ DropGuard(t, c)
  /\ UNCHANGED <<loaded, root, calls>>

\* The accessor that was called returns to its caller.
Return(t, c) ==
  /\ root[t] = c
  /\ Answered(t, c)
  /\ Go(t, c, "idle")
  /\ root' = [root EXCEPT ![t] = NoCache]
  /\ UNCHANGED <<loaded, holder, calls>>

Works(t) ==
  \E c \in Caches :
    \/ Get(t, c) \/ Warmed(t, c) \/ GetAgain(t, c) \/ Lock(t, c)
    \/ Recheck(t, c) \/ AskParent(t, c) \/ ParentAnswers(t, c)
    \/ Fails(t, c) \/ Panics(t, c) \/ Store(t, c) \/ Unlock(t, c)
    \/ Return(t, c)

Next == \E t \in Threads : Works(t) \/ \E c \in Caches : Call(t, c)

\* A thread in an accessor keeps running.  Nobody is obliged to call.
Fairness == \A t \in Threads : WF_vars(Works(t))

Spec == Init /\ [][Next]_vars /\ Fairness

-----------------------------------------------------------------------------
\* One load, whoever asks: at most one thread is inside the initializer of a
\* cache, and none is once the cache is set, so that no value is built to be
\* thrown away by get_or_init.
OneLoad ==
  \A c \in Caches, t \in Threads :
    at[t][c] \in Initializing =>
      /\ c \notin loaded
      /\ \A u \in Threads : at[u][c] \in Initializing => u = t

\* "no thread ever holds two of these at once": a thread that is waiting for a
\* cold-load lock holds none, so no order of the locks is needed, and the
\* nested load of the parent never takes one.
NeverWaitsHolding ==
  \A t \in Threads :
    (\E c \in Caches : at[t][c] = "lock") => \A l \in Locks : holder[l] # t

\* A cold-load lock is held only by a thread that is between its lock and the
\* end of success_only_cached: an error or a panic leaves the next caller a
\* free lock and an empty cache, whatever frames it unwinds.
GuardsAreDropped ==
  \A l \in Locks : holder[l] # NoThread =>
    \E c \in Caches : LockOf[c] = l /\ at[holder[l]][c] \in Cold

\* A call of an accessor ends, with a value, an error or a panic, whichever
\* locks other threads hold meanwhile
\* (nested_cold_driver_load_does_not_deadlock.rs).
CallsReturn == \A t \in Threads : (root[t] # NoCache) ~> (root[t] = NoCache)

=============================================================================
