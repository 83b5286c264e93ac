------------------------ MODULE EphemerisPublication ------------------------
(***************************************************************************)
(* The process-wide set of ephemeris catalogues of                          *)
(* crates/lightyear_odeint_rs/src/precomputed_ephem.rs: loaded and merged   *)
(* under the write lock of GLOBAL_EPHEMERIS, published for readers that     *)
(* take no lock through three atomics with Release stores and Acquire loads.*)
(*                                                                         *)
(* The k-th publication stores each atomic once, so a store is known by its *)
(* publication's number.  As the memory model allows, a load returns any    *)
(* store not older than what its thread has seen of that atomic, and an     *)
(* Acquire load makes the thread see what the storing thread had stored.    *)
(* The reset of all of it, compiled into unit tests alone, is left out.     *)
(***************************************************************************)
EXTENDS Naturals, Sequences, FiniteSets

CONSTANTS
  Threads,
  Bodies,      \* Body::ALL
  Default,     \* Body::DEFAULT: the bodies with a compiled catalogue
  InDirs,      \* bodies that the search directories have a file for
  Calls,       \* bound: loads requested in a run
  LoadFaults,  \* may reading or checking a catalogue fail
  None         \* nobody holds the write lock

ASSUME PublicationAssumption ==
  /\ IsFiniteSet(Bodies) /\ Default \subseteq Bodies /\ InDirs \subseteq Bodies
  /\ Calls \in Nat /\ LoadFaults \in BOOLEAN /\ None \notin Threads

VARIABLES
  published, \* the catalogue sets published so far, the last one in GLOBAL_EPHEMERIS
  stored,    \* stored[x]: number of the last store to atomic x
  view,      \* view[t][x]: the oldest store to x that t may still load
  holder,    \* who holds the write lock
  lockView,  \* what the last holder had seen when it let go
  pc,        \* pc[t]: where thread t is
  want,      \* want[t]: requested bodies
  embedded,  \* embedded[t]: use_embedded
  fresh,     \* fresh[t]: the merged set t is about to publish
  basis,     \* ghost: the publication t's answer rests on
  calls      \* loads requested

vars == <<published, stored, view, holder, lockView, pc, want, embedded, fresh, basis, calls>>

\* PUBLISHED_EPHEMERIS, PUBLISHED_EMBEDDED_CONFLICT and LOADED_BODY_FLAGS.
Atomics == {"pointer", "conflict", "flags"}

\* A catalogue set: nothing, the compiled bytes or other bytes for each body.
Nothing == [b \in Bodies |-> "none"]
BodiesOf(set) == {b \in Bodies : set[b] # "none"}
\* reject_embedded_sha_conflict
Conflicts(set) == \E b \in Default : set[b] = "other"

\* The number of publications; before the first there is the empty set.
Latest == Len(published)
SetAt(k) == IF k = 0 THEN Nothing ELSE published[k]

Init ==
  /\ published = <<>>
  /\ stored = [x \in Atomics |-> 0]
  /\ view = [t \in Threads |-> [x \in Atomics |-> 0]]
  /\ holder = None /\ lockView = [x \in Atomics |-> 0]
  /\ pc = [t \in Threads |-> "idle"]
  /\ want = [t \in Threads |-> {}] /\ embedded = [t \in Threads |-> TRUE]
  /\ fresh = [t \in Threads |-> Nothing] /\ basis = [t \in Threads |-> 0]
  /\ calls = 0
-----------------------------------------------------------------------------
(* Memory *)

Later(k, l) == IF k >= l THEN k ELSE l
Merge(v, w) == [x \in Atomics |-> Later(v[x], w[x])]

PlaceFlagsFirst(x) == CASE x = "flags" -> 1 [] x = "pointer" -> 2 [] x = "conflict" -> 3
\* The order of the three stores of a publication.
Place(x) == CASE x = "pointer" -> 1 [] x = "conflict" -> 2 [] x = "flags" -> 3

\* What the storing thread had stored with its k-th store to x, inclusive.
CarriedBy(x, k) == [y \in Atomics |-> IF k = 0 THEN 0 ELSE IF Place(y) <= Place(x) THEN k ELSE k - 1]

\* An Acquire load of x by t that returns its k-th store.
Load(t, x, k) ==
  /\ k \in view[t][x]..stored[x]
  /\ view' = [view EXCEPT ![t] = Merge(@, CarriedBy(x, k))]
-----------------------------------------------------------------------------
(* load_precomputed_ephemeris_from_sources *)

Goto(t, where) == pc' = [pc EXCEPT ![t] = where]

Request(t) ==
  /\ pc[t] \in {"idle", "ok"} /\ calls < Calls /\ calls' = calls + 1
  /\ \E bodies \in SUBSET Bodies : want' = [want EXCEPT ![t] = bodies]
  /\ \E flag \in BOOLEAN : embedded' = [embedded EXCEPT ![t] = flag]
  /\ Goto(t, "flags")
  /\ UNCHANGED <<published, stored, view, holder, lockView, fresh, basis>>

VerdictSkipped(t) == FALSE
\* "The SHA-conflict guard still runs here, and has to."
AsksForVerdict(t) == embedded[t]

\* The lock-free fast path: is every requested body published?
LoadFlags(t) ==
  /\ pc[t] = "flags"
  /\ \E k \in 0..Latest :
       /\ Load(t, "flags", k) /\ basis' = [basis EXCEPT ![t] = k]
       /\ Goto(t, IF ~(want[t] \subseteq BodiesOf(SetAt(k))) THEN "lock"
                  ELSE IF AsksForVerdict(t) THEN "verdict" ELSE "ok")
  /\ UNCHANGED <<published, stored, holder, lockView, want, embedded, fresh, calls>>

LoadVerdict(t) ==
  /\ pc[t] = "verdict"
  /\ \E k \in 0..Latest :
       Load(t, "conflict", k) /\ Goto(t, IF Conflicts(SetAt(k)) THEN "recheck" ELSE "ok")
  /\ UNCHANGED <<published, stored, holder, lockView, want, embedded, fresh, basis, calls>>

\* The conflict is looked up again to report it.
Recheck(t) ==
  /\ pc[t] = "recheck"
  /\ \E k \in 0..Latest :
       Load(t, "pointer", k) /\ Goto(t, IF Conflicts(SetAt(k)) THEN "idle" ELSE "ok")
  /\ UNCHANGED <<published, stored, holder, lockView, want, embedded, fresh, basis, calls>>

\* The write lock: nobody else is in the section.
MayLock(t) == pc[t] = "lock" /\ holder = None

Lock(t) ==
  /\ MayLock(t)
  /\ holder' = t /\ view' = [view EXCEPT ![t] = Merge(@, lockView)]
  /\ basis' = [basis EXCEPT ![t] = Latest] /\ Goto(t, "locked")
  /\ UNCHANGED <<published, stored, lockView, want, embedded, fresh, calls>>

Unlock(t) == holder' = None /\ lockView' = view[t]

\* Under the lock everything is looked at again.
Existing == SetAt(Latest)

PresenceUnchecked(t) == FALSE
AllRequestedPresent(t) == Latest > 0 /\ want[t] \subseteq BodiesOf(Existing)

\* Somebody else has published what was wanted.
AlreadyThere(t) ==
  /\ pc[t] = "locked" /\ ~(embedded[t] /\ Conflicts(Existing)) /\ AllRequestedPresent(t)
  /\ Unlock(t) /\ Goto(t, "ok")
  /\ UNCHANGED <<published, stored, view, want, embedded, fresh, basis, calls>>

Missing(t) == want[t] \ BodiesOf(Existing)
Compiled(t, b) == embedded[t] /\ b \in Default

\* Every error return: the set conflicts, or a catalogue that is wanted is
\* nowhere to be found, unreadable or not valid.
LoadFails(t) ==
  /\ pc[t] = "locked"
  /\ \/ embedded[t] /\ Conflicts(Existing)
     \/ /\ ~AllRequestedPresent(t)
        /\ LoadFaults \/ \E b \in Missing(t) : ~Compiled(t, b) /\ b \notin InDirs
  /\ Unlock(t) /\ Goto(t, "idle")
  /\ UNCHANGED <<published, stored, view, want, embedded, fresh, basis, calls>>

\* Missing bodies are loaded and merged into a copy of the existing set.
LoadMissing(t) ==
  /\ pc[t] = "locked"
  /\ ~(embedded[t] /\ Conflicts(Existing)) /\ ~AllRequestedPresent(t)
  /\ \A b \in Missing(t) : Compiled(t, b) \/ b \in InDirs
  /\ \E content \in [Missing(t) -> {"compiled", "other"}] :
       /\ \A b \in Missing(t) : Compiled(t, b) => content[b] = "compiled"
       /\ fresh' = [fresh EXCEPT ![t] =
                      [b \in Bodies |-> IF b \in Missing(t) THEN content[b] ELSE Existing[b]]]
  /\ Goto(t, "publish")
  /\ UNCHANGED <<published, stored, view, holder, lockView, want, embedded, basis, calls>>

\* Arc::new: the set exists, nothing points at it yet.
Publish(t) ==
  /\ pc[t] = "publish"
  /\ published' = Append(published, fresh[t])
  /\ basis' = [basis EXCEPT ![t] = Latest + 1] /\ Goto(t, "store")
  /\ UNCHANGED <<stored, view, holder, lockView, want, embedded, fresh, calls>>

\* The next store in program order, each with Release.
Store(t) ==
  /\ pc[t] = "store"
  /\ \E x \in Atomics :
       /\ stored[x] < Latest
       /\ \A y \in Atomics : Place(y) < Place(x) => stored[y] = Latest
       /\ stored' = [stored EXCEPT ![x] = Latest]
       /\ view' = [view EXCEPT ![t][x] = Latest]
  /\ UNCHANGED <<published, holder, lockView, pc, want, embedded, fresh, basis, calls>>

Stored(t) ==
  /\ pc[t] = "store" /\ \A x \in Atomics : stored[x] = Latest
  /\ Unlock(t) /\ Goto(t, "ok")
  /\ UNCHANGED <<published, stored, view, want, embedded, fresh, basis, calls>>

\* published_ephemeris, by any thread at any time.
Borrow(t) ==
  /\ pc[t] \in {"idle", "ok"}
  /\ \E k \in 0..Latest : Load(t, "pointer", k)
  /\ UNCHANGED <<published, stored, holder, lockView, pc, want, embedded, fresh, basis, calls>>

\* get_precomputed_ephemeris: a clone of the handle, under the read lock.
Get(t) ==
  /\ pc[t] \in {"idle", "ok"} /\ holder = None
  /\ view' = [view EXCEPT ![t] = Merge(@, lockView)]
  /\ UNCHANGED <<published, stored, holder, lockView, pc, want, embedded, fresh, basis, calls>>

Next ==
  \E t \in Threads :
    \/ Request(t) \/ LoadFlags(t) \/ LoadVerdict(t) \/ Recheck(t) \/ Lock(t)
    \/ AlreadyThere(t) \/ LoadFails(t) \/ LoadMissing(t) \/ Publish(t) \/ Store(t) \/ Stored(t)
    \/ Borrow(t) \/ Get(t)

Spec == Init /\ [][Next]_vars
-----------------------------------------------------------------------------
(* Properties *)

CatalogueSets == [Bodies -> {"none", "compiled", "other"}]
Places == {"idle", "flags", "verdict", "recheck", "lock", "locked", "publish", "store", "ok"}

Section == {"locked", "publish", "store"}

\* Every variable keeps its type, nobody has seen a store not yet made, and a
\* thread is in the locked section exactly while it holds the lock.
TypeOK ==
  /\ published \in Seq(CatalogueSets)
  /\ stored \in [Atomics -> 0..Latest]
  /\ view \in [Threads -> [Atomics -> 0..Latest]]
  /\ \A t \in Threads : \A x \in Atomics : view[t][x] <= stored[x]
  /\ holder \in Threads \cup {None} /\ lockView \in [Atomics -> 0..Latest]
  /\ pc \in [Threads -> Places]
  /\ \A t \in Threads : pc[t] \in Section <=> holder = t
  /\ want \in [Threads -> SUBSET Bodies] /\ embedded \in [Threads -> BOOLEAN]
  /\ fresh \in [Threads -> CatalogueSets] /\ basis \in [Threads -> 0..Latest]
  /\ calls \in Nat

\* After a load that succeeded, with or without the lock, every catalogue set
\* that the thread can still borrow holds every body it asked for.
LoadedCanBeBorrowed ==
  \A t \in Threads : pc[t] = "ok" =>
    \A k \in view[t]["pointer"]..stored["pointer"] : want[t] \subseteq BodiesOf(SetAt(k))

\* An embedded load never accepts a set whose bytes disagree with the compiled
\* catalogues, not even when the fast path answers it.
ConflictIsReported ==
  \A t \in Threads : pc[t] = "ok" /\ embedded[t] => ~Conflicts(SetAt(basis[t]))

\* The leaked sets are "bounded by the catalogue count rather than by call
\* volume".
LeakIsBounded == Latest <= Cardinality(Bodies)
=============================================================================
