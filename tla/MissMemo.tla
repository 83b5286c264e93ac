------------------------------ MODULE MissMemo ------------------------------
(***************************************************************************)
(* ExactMassMissMemo (crates/dust_estimates_rs, mass_solver.rs): the miss    *)
(* distances one solve has already computed, by the bits of the mass, in an  *)
(* open-addressed table that is never more than half full.  The oldest entry *)
(* makes room for a new one and leaves a tombstone, so that the entries      *)
(* probed past it are still found.                                           *)
(***************************************************************************)
EXTENDS Integers

CONSTANTS
  TableSize,  \* EXACT_MASS_MEMO_TABLE_SIZE
  Capacity,   \* EXACT_MASS_MEMO_CAPACITY
  Home,       \* exact_mass_memo_hash_index, a function on the keys
  Unknown     \* the value of a key that is not in the table

ASSUME MemoAssumption ==
  /\ TableSize \in Nat \ {0} /\ Capacity \in 1..TableSize
  /\ \A key \in DOMAIN Home : Home[key] \in 0..TableSize - 1

Slots == 0..TableSize - 1

Slot(state, key, value) == [state |-> state, key |-> key, value |-> value]
EmptyMemo ==
  [slots |-> [i \in Slots |-> Slot("empty", 0, Unknown)],
   order |-> [n \in 0..Capacity - 1 |-> 0], len |-> 0, next |-> 0]

Probe(key, n) == (Home[key] + n) % TableSize
Reached(slots, key, n) == \A m \in 0..n - 1 : slots[Probe(key, m)].state # "empty"
First(S) == CHOOSE n \in S : \A m \in S : n <= m

\* Where the probing for a key passes a slot of this state.
Passes(slots, key, state) ==
  {n \in Slots : Reached(slots, key, n) /\ slots[Probe(key, n)].state = state}

\* find_existing_slot
Hits(slots, key) == {n \in Passes(slots, key, "occupied") : slots[Probe(key, n)].key = key}
ExistingSlot(slots, key) == Probe(key, First(Hits(slots, key)))

\* find_vacant_slot
VacantSlot(slots, key) ==
  LET tombstones == Passes(slots, key, "tombstone")
      empty == Passes(slots, key, "empty")
  IN  IF tombstones # {} THEN Probe(key, First(tombstones))
      ELSE IF empty # {} THEN Probe(key, First(empty)) ELSE Home[key]

Get(memo, key) ==
  IF Hits(memo.slots, key) = {} THEN Unknown
  ELSE memo.slots[ExistingSlot(memo.slots, key)].value

EmptiedSlot(slot) == [slot EXCEPT !.state = "empty"]
EvictedSlot(slot) == [slot EXCEPT !.state = "tombstone"]

Insert(memo, key, value) ==
  IF Hits(memo.slots, key) # {}
  THEN [memo EXCEPT !.slots[ExistingSlot(memo.slots, key)].value = value]
  ELSE LET full == memo.len = Capacity
           oldest == memo.order[memo.next]
           slots == IF full THEN [memo.slots EXCEPT ![oldest] = EvictedSlot(@)] ELSE memo.slots
           at == VacantSlot(slots, key)
       IN  [slots |-> [slots EXCEPT ![at] = Slot("occupied", key, value)],
            order |-> [memo.order EXCEPT ![IF full THEN memo.next ELSE memo.len] = at],
            len   |-> IF full THEN memo.len ELSE memo.len + 1,
            next  |-> IF full THEN (memo.next + 1) % Capacity ELSE memo.next]

Occupied(memo) == {i \in Slots : memo.slots[i].state = "occupied"}
=============================================================================
