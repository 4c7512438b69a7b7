------------------------ MODULE StackAllocatorProofs ------------------------
(***************************************************************************)
(* Proofs about the hash map and the stack allocator that is built on it.  *)
(* The map, for every set of keys and data, every hash function, every     *)
(* initial size of at least 4 and any bounds: its variables keep their     *)
(* types, size covers the entries, and a probing loop always has an empty  *)
(* slot to stop at. The allocator keeps what Slots promises, for every set *)
(* of variables, hash function, table size and slot size: through          *)
(* collisions that wrap around the array and through its growth, a         *)
(* variable keeps the slot it was given, and slots do not overlap.         *)
(***************************************************************************)
EXTENDS StackAllocator, FiniteSetTheorems, TLAPS

-----------------------------------------------------------------------------
(* The inductive invariant.                                                *)

\* rehash runs only inside an insert, and i is at an entry while it is placed.
Growth ==
    /\ Rehashing => pc \in {"rehash", "home", "probe"}
    /\ Rehashing /\ pc # "rehash" => i < old_capacity /\ old[i].key # Null
    /\ pc \in {"rehash", "home", "probe"} => entry \in Entry

\* remove's scan is past the hole, which is empty.
Hole ==
    /\ pc = "shift" => index < cur /\ arr[index].key = Null
    /\ pc = "get" => entry.key \in Keys

\* The load factor: what an insert may still add leaves a slot free.
Load ==
    /\ 5 * (size - 1) < 3 * capacity
    /\ pc \in {"rehash", "home", "probe"} => 5 * size < 3 * capacity

IInv == TypeOK /\ Growth /\ Hole /\ Load /\ SizeCoversEntries

-----------------------------------------------------------------------------
(* Facts about slots and positions.                                        *)

\* A slot is an entry exactly when its key is not null.
LEMMA SlotCases ==
    ASSUME NEW s \in Slot
    PROVE  /\ s.key \in Keys \cup {Null}
           /\ s.key # Null <=> s \in Entry
           /\ s.key = Null <=> s = Empty
  BY NullAssumption DEF Slot, Entry, Empty

\* The empty slot is a slot.
LEMMA EmptyIsSlot == Empty \in Slot /\ Empty.key = Null
  BY DEF Slot, Empty

\* A home slot and a probe position are inside the array.
LEMMA IndexInRange ==
    ASSUME TypeOK, NEW k \in Keys
    PROVE  get_index(k) \in 0..(capacity - 1)
  <1>1. hash[k] \in HashValues
    BY DEF TypeOK
  <1>2. hash[k] \in Nat
    BY <1>1, HashAssumption
  <1>3. capacity \in Nat /\ capacity > 0
    BY SizeAssumption DEF TypeOK
  <1> QED
    BY <1>2, <1>3 DEF get_index

\* Probing stays inside the array.
LEMMA AdvanceInRange ==
    ASSUME TypeOK, NEW j \in 0..(capacity - 1)
    PROVE  advance_index(j) \in 0..(capacity - 1)
  <1>1. capacity \in Nat /\ capacity > 0
    BY SizeAssumption DEF TypeOK
  <1> QED
    BY <1>1 DEF advance_index

\* What is being placed is an entry.
LEMMA ItemIsEntry ==
    ASSUME IInv, pc \in {"home", "probe"}
    PROVE  Item \in Entry
  <1>1. CASE Rehashing
    <2>1. i \in 0..(old_capacity - 1) /\ old[i] \in Slot /\ old[i].key # Null
      BY <1>1 DEF IInv, Growth, TypeOK
    <2> QED
      BY <1>1, <2>1, SlotCases DEF Item
  <1>2. CASE ~Rehashing
    BY <1>2 DEF IInv, Growth, Item
  <1> QED
    BY <1>1, <1>2

\* A slot in use holds a key.
LEMMA HeldKey ==
    ASSUME TypeOK, NEW j \in 0..capacity, j < capacity, arr[j].key # Null
    PROVE  j \in Held /\ arr[j].key \in Keys
  <1>1. j \in 0..(capacity - 1) /\ arr[j] \in Slot
    BY DEF TypeOK
  <1> QED
    BY <1>1, SlotCases DEF Held, Occupied

\* A new array holds slots only.
LEMMA BlankIsArray ==
    ASSUME NEW n \in Nat
    PROVE  /\ Blank(n) \in [0..(n - 1) -> Slot]
           /\ Occupied(Blank(n), n) = {}
  BY EmptyIsSlot DEF Blank, Occupied

\* The sets that are counted are finite, and size is positive when an entry is
\* held.
LEMMA HeldFinite ==
    ASSUME TypeOK
    PROVE  /\ IsFiniteSet(Held) /\ Cardinality(Held) \in Nat
           /\ IsFiniteSet(Waiting) /\ Cardinality(Waiting) \in Nat
  <1>1. Held \in SUBSET (0..(capacity - 1))
    BY DEF Held, Occupied
  <1>2. Waiting \in SUBSET (0..(old_capacity - 1))
    BY DEF Waiting, Occupied
  <1>3. /\ IsFiniteSet(0..(capacity - 1))
        /\ IsFiniteSet(0..(old_capacity - 1))
    BY FS_Interval DEF TypeOK
  <1>4. IsFiniteSet(Held) /\ IsFiniteSet(Waiting)
    BY <1>1, <1>2, <1>3, FS_Subset
  <1> QED
    BY <1>4, FS_CardinalityType

\* A probe that found a slot in use counted one.
LEMMA HeldPositive ==
    ASSUME IInv, Held # {}
    PROVE  size - 1 \in Nat
  <1>1. TypeOK
    BY DEF IInv
  <1>2. Cardinality(Held) # 0
    BY <1>1, HeldFinite, FS_EmptySet
  <1> QED
    BY <1>1, <1>2, HeldFinite DEF IInv, SizeCoversEntries, TypeOK

-----------------------------------------------------------------------------
(* Type correctness.                                                       *)

\* An initialised map satisfies the invariant.
LEMMA InitType == Init => IInv
  <1> SUFFICES ASSUME Init PROVE IInv
    OBVIOUS
  <1>1. InitialSize \in Nat /\ InitialSize >= 4
    BY SizeAssumption
  <1>2. TypeOK
    <2>1. arr \in [0..(capacity - 1) -> Slot]
      BY <1>1, BlankIsArray DEF Init
    <2>2. old \in [0..(old_capacity - 1) -> Slot]
      BY BlankIsArray DEF Init
    <2>3. entry \in [key : Keys \cup {Null}, data : Data \cup {Null}]
      BY DEF Init, Empty
    <2>4. /\ capacity \in Nat /\ capacity >= InitialSize /\ size \in Nat
          /\ index \in 0..(capacity - 1) /\ cur \in 0..capacity
          /\ old_capacity \in Nat /\ i \in 0..old_capacity
      BY <1>1 DEF Init
    <2> QED
      BY <2>1, <2>2, <2>3, <2>4, EmptyIsSlot DEF Init, TypeOK
  <1>3. Growth /\ Hole /\ Load
    BY <1>1 DEF Init, Growth, Hole, Load, Rehashing
  <1>4. Held = {} /\ Waiting = {}
    BY <1>1, BlankIsArray DEF Init, Held, Waiting
  <1>5. SizeCoversEntries
    BY <1>4, FS_EmptySet DEF Init, SizeCoversEntries
  <1> QED
    BY <1>2, <1>3, <1>5 DEF IInv

\* Every step keeps the types.
LEMMA TypeStep == IInv /\ [Next]_vars => TypeOK'
  <1> SUFFICES ASSUME IInv, [Next]_vars PROVE TypeOK'
    OBVIOUS
  <1> USE DEF map, growth
  <1>0. TypeOK
    BY DEF IInv
  <1>c. capacity \in Nat /\ capacity >= 4 /\ InitialSize \in Nat \ 0..3
    BY <1>0, SizeAssumption DEF TypeOK
  <1>i. pc \in {"home", "probe"} /\ Rehashing => i < old_capacity
    BY DEF IInv, Growth
  <1>1. ASSUME NEW e \in Entry, Insert(e) PROVE TypeOK'
    <2>1. CASE ~AtLoadFactor
      BY <1>0, <1>1, <2>1, EmptyIsSlot DEF Insert, TypeOK, Entry
    <2>2. CASE AtLoadFactor
      <3>1. Blank(2 * capacity) \in [0..(2 * capacity - 1) -> Slot]
        BY <1>c, BlankIsArray
      <3> QED
        BY <1>0, <1>1, <1>c, <2>2, <3>1, EmptyIsSlot
        DEF Insert, TypeOK, Entry
    <2> QED
      BY <2>1, <2>2
  <1>2. ASSUME NEW k \in Keys, NEW n \in {"get", "remove"}, Lookup(n, k)
        PROVE  TypeOK'
    BY <1>0, <1>2, IndexInRange, EmptyIsSlot DEF Lookup, TypeOK
  <1>3. CASE Destroy
    BY <1>0, <1>3 DEF Destroy, TypeOK
  <1>4. CASE Reinit
    <2>1. Blank(InitialSize) \in [0..(InitialSize - 1) -> Slot]
      BY <1>c, BlankIsArray
    <2>2. Empty \in [key : Keys \cup {Null}, data : Data \cup {Null}]
      BY DEF Empty
    <2>3. /\ capacity' \in Nat /\ capacity' >= InitialSize
          /\ index' \in 0..(capacity' - 1) /\ cur' \in 0..capacity'
      BY <1>c, <1>4 DEF Reinit, hashmap_init
    <2>4. arr' \in [0..(capacity' - 1) -> Slot] /\ size' \in Nat
      BY <1>4, <2>1 DEF Reinit, hashmap_init
    <2> QED
      BY <1>0, <1>4, <2>2, <2>3, <2>4, EmptyIsSlot DEF Reinit, TypeOK
  <1>5. CASE RehashStep
    <2>1. Blank(0) \in [0..(0 - 1) -> Slot]
      BY BlankIsArray
    <2>2. i' \in 0..old_capacity' /\ old' \in [0..(old_capacity' - 1) -> Slot]
      BY <1>0, <1>5, <2>1 DEF RehashStep, TypeOK
    <2> QED
      BY <1>0, <1>5, <2>2 DEF RehashStep, TypeOK
  <1>6. CASE PlaceAtHome
    <2>1. Item \in Entry /\ get_index(Item.key) \in 0..(capacity - 1)
      BY <1>0, <1>6, ItemIsEntry, IndexInRange DEF PlaceAtHome, Entry
    <2>2. arr' \in [0..(capacity - 1) -> Slot]
      BY <1>0, <1>6, <2>1 DEF PlaceAtHome, TypeOK, Slot
    <2>3. i' \in 0..old_capacity /\ size' \in Nat
      BY <1>0, <1>6, <1>i DEF PlaceAtHome, PlaceReturns, TypeOK
    <2>5. inserted' \in BOOLEAN
      BY <1>0, <1>6, Zenon DEF PlaceAtHome, PlaceReturns, TypeOK
    <2>4. index' \in 0..(capacity - 1) /\ pc' \in {"rehash", "idle", "probe"}
      BY <1>0, <1>6, <2>1 DEF PlaceAtHome, PlaceReturns, TypeOK
    <2> QED
      BY <1>0, <1>6, <2>2, <2>3, <2>4, <2>5 DEF PlaceAtHome, TypeOK
  <1>7. CASE PlaceProbe
    <2>1. Item \in Entry /\ advance_index(index) \in 0..(capacity - 1)
      BY <1>0, <1>7, ItemIsEntry, AdvanceInRange DEF PlaceProbe, TypeOK
    <2>2. arr' \in [0..(capacity - 1) -> Slot]
      BY <1>0, <1>7, <2>1 DEF PlaceProbe, TypeOK, Slot
    <2>3. i' \in 0..old_capacity /\ size' \in Nat
      BY <1>0, <1>7, <1>i DEF PlaceProbe, PlaceReturns, TypeOK
    <2>5. inserted' \in BOOLEAN
      BY <1>0, <1>7, Zenon DEF PlaceProbe, PlaceReturns, TypeOK
    <2>4. index' \in 0..(capacity - 1) /\ pc' \in {"rehash", "idle", "probe"}
      BY <1>0, <1>c, <1>7, <2>1 DEF PlaceProbe, PlaceReturns, TypeOK
    <2> QED
      BY <1>0, <1>7, <2>2, <2>3, <2>4, <2>5 DEF PlaceProbe, TypeOK
  <1>8. CASE ProbeOn
    BY <1>0, <1>8, AdvanceInRange DEF ProbeOn, TypeOK
  <1>9. CASE NotFound
    BY <1>0, <1>c, <1>9 DEF NotFound, TypeOK
  <1>10. CASE GetFound
    BY <1>0, <1>c, <1>10 DEF GetFound, TypeOK
  <1>11. CASE RemoveFound
    <2>1. index \in Held
      BY <1>0, <1>11, NullAssumption DEF RemoveFound, Held, Occupied, TypeOK, IInv, Hole
    <2>2. size - 1 \in Nat
      BY <2>1, HeldPositive
    <2>3. arr' \in [0..(capacity - 1) -> Slot] /\ res' \in Slot
      BY <1>0, <1>11, EmptyIsSlot DEF RemoveFound, TypeOK
    <2>4. /\ pc' \in {"idle", "shift"}
          /\ index' \in 0..(capacity - 1)
          /\ cur' \in 0..capacity
      BY <1>0, <1>c, <1>11 DEF RemoveFound, TypeOK
    <2> QED
      BY <1>0, <1>11, <2>2, <2>3, <2>4 DEF RemoveFound, TypeOK
  <1>12. CASE ShiftStep
    <2>1. arr' \in [0..(capacity - 1) -> Slot]
      BY <1>0, <1>12, EmptyIsSlot DEF ShiftStep, moved, TypeOK
    <2>2. /\ pc' \in {"idle", "shift"}
          /\ index' \in 0..(capacity - 1)
          /\ cur' \in 0..capacity
      BY <1>0, <1>c, <1>12 DEF ShiftStep, RemoveReturns, TypeOK
    <2> QED
      BY <1>0, <1>12, <2>1, <2>2 DEF ShiftStep, TypeOK
  <1>13. CASE ShiftPastEnd
    BY <1>0, <1>c, <1>13 DEF ShiftPastEnd, RemoveReturns, TypeOK
  <1>14. CASE UNCHANGED vars
    BY <1>0, <1>14 DEF vars, TypeOK
  <1> QED
    BY <1>1, <1>2, <1>3, <1>4, <1>5, <1>6, <1>7, <1>8, <1>9, <1>10, <1>11,
       <1>12, <1>13, <1>14
    DEF Next, Step, InsertAny, LookupAny, RemoveAny, Get, Remove

-----------------------------------------------------------------------------
(* The control part of the invariant.                                      *)

\* Every step keeps what is known of a rehash.
LEMMA GrowthStep == IInv /\ [Next]_vars => Growth'
  <1> SUFFICES ASSUME IInv, [Next]_vars PROVE Growth'
    OBVIOUS
  <1> USE DEF map, growth, Rehashing
  <1>0. TypeOK /\ Growth
    BY DEF IInv
  <1>1. ASSUME NEW e \in Entry, Insert(e) PROVE Growth'
    BY <1>0, <1>1 DEF Insert, Growth
  <1>2. ASSUME NEW k \in Keys, NEW n \in {"get", "remove"}, Lookup(n, k)
        PROVE  Growth'
    BY <1>0, <1>2 DEF Lookup, Growth
  <1>3. CASE Destroy \/ Reinit
    BY <1>0, <1>3 DEF Destroy, Reinit, hashmap_init, Growth
  <1>4. CASE RehashStep
    BY <1>0, <1>4 DEF RehashStep, Growth, TypeOK
  <1>5. CASE PlaceAtHome
    BY <1>0, <1>5 DEF PlaceAtHome, PlaceReturns, Growth
  <1>6. CASE PlaceProbe
    BY <1>0, <1>6 DEF PlaceProbe, PlaceReturns, Growth
  <1>7. CASE ProbeOn \/ NotFound \/ GetFound
    BY <1>0, <1>7 DEF ProbeOn, NotFound, GetFound, Growth
  <1>8. CASE RemoveFound
    BY <1>0, <1>8 DEF RemoveFound, Growth
  <1>9. CASE ShiftStep
    BY <1>0, <1>9 DEF ShiftStep, RemoveReturns, Growth
  <1>10. CASE ShiftPastEnd
    BY <1>0, <1>10 DEF ShiftPastEnd, RemoveReturns, Growth
  <1>11. CASE UNCHANGED vars
    BY <1>0, <1>11 DEF vars, Growth
  <1> QED
    BY <1>1, <1>2, <1>3, <1>4, <1>5, <1>6, <1>7, <1>8, <1>9, <1>10, <1>11
    DEF Next, Step, InsertAny, LookupAny, RemoveAny, Get, Remove

\* Every step keeps what is known of the hole that a removal shifts.
LEMMA HoleStep == IInv /\ [Next]_vars => Hole'
  <1> SUFFICES ASSUME IInv, [Next]_vars PROVE Hole'
    OBVIOUS
  <1> USE DEF map, growth
  <1>0. TypeOK /\ Hole
    BY DEF IInv
  <1>1. ASSUME NEW e \in Entry, Insert(e) PROVE Hole'
    BY <1>0, <1>1 DEF Insert, Hole
  <1>2. ASSUME NEW k \in Keys, NEW n \in {"get", "remove"}, Lookup(n, k)
        PROVE  Hole'
    BY <1>0, <1>2 DEF Lookup, Hole
  <1>3. CASE Destroy \/ Reinit
    BY <1>0, <1>3 DEF Destroy, Reinit, hashmap_init, Hole
  <1>4. CASE RehashStep \/ NotFound \/ GetFound
    BY <1>0, <1>4 DEF RehashStep, NotFound, GetFound, Hole
  <1>5. CASE PlaceAtHome
    BY <1>0, <1>5 DEF PlaceAtHome, PlaceReturns, Hole
  <1>6. CASE PlaceProbe
    BY <1>0, <1>6 DEF PlaceProbe, PlaceReturns, Hole
  <1>7. CASE ProbeOn
    BY <1>0, <1>7 DEF ProbeOn, Hole
  <1>8. CASE RemoveFound
    BY <1>0, <1>8, EmptyIsSlot DEF RemoveFound, Hole, TypeOK
  <1>9. CASE ShiftStep
    <2>1. CASE arr[cur].key # Null /\ get_index(arr[cur].key) <= index
      <3>h. get_index(arr[cur].key) \in Int /\ index \in Int
        BY <1>0, <1>9, <2>1, HeldKey, IndexInRange DEF ShiftStep, TypeOK
      <3>1. /\ index' = cur /\ cur' = cur + 1 /\ pc' = "shift"
            /\ arr' = moved(arr, index, cur)
        BY <1>9, <2>1, <3>h DEF ShiftStep
      <3>2. arr'[cur] = Empty
        BY <1>0, <1>9, <3>1 DEF ShiftStep, moved, TypeOK, Hole
      <3> QED
        BY <1>0, <3>1, <3>2, EmptyIsSlot DEF Hole, TypeOK
    <2>2. CASE ~(arr[cur].key # Null /\ get_index(arr[cur].key) <= index)
      BY <1>0, <1>9, <2>2 DEF ShiftStep, RemoveReturns, Hole, TypeOK
    <2> QED
      BY <2>1, <2>2
  <1>10. CASE ShiftPastEnd
    BY <1>0, <1>10 DEF ShiftPastEnd, RemoveReturns, Hole
  <1>11. CASE UNCHANGED vars
    BY <1>0, <1>11 DEF vars, Hole
  <1> QED
    BY <1>1, <1>2, <1>3, <1>4, <1>5, <1>6, <1>7, <1>8, <1>9, <1>10, <1>11
    DEF Next, Step, InsertAny, LookupAny, RemoveAny, Get, Remove

\* Every step keeps the load below the capacity.
LEMMA LoadStep == IInv /\ [Next]_vars => Load'
  <1> SUFFICES ASSUME IInv, [Next]_vars PROVE Load'
    OBVIOUS
  <1> USE DEF map, growth
  <1>0. /\ size \in Nat /\ capacity \in Nat /\ capacity >= 4
        /\ InitialSize \in Nat /\ InitialSize >= 4
        /\ Load
    BY SizeAssumption DEF IInv, TypeOK
  <1>1. ASSUME NEW e \in Entry, Insert(e) PROVE Load'
    BY <1>0, <1>1 DEF Insert, AtLoadFactor, Load
  <1>2. ASSUME NEW k \in Keys, NEW n \in {"get", "remove"}, Lookup(n, k)
        PROVE  Load'
    BY <1>0, <1>2 DEF Lookup, Load
  <1>3. CASE Destroy \/ Reinit
    BY <1>0, <1>3 DEF Destroy, Reinit, hashmap_init, Load
  <1>4. CASE RehashStep \/ ProbeOn \/ NotFound \/ GetFound
    BY <1>0, <1>4 DEF RehashStep, ProbeOn, NotFound, GetFound, Load
  <1>5. CASE PlaceAtHome
    BY <1>0, <1>5 DEF PlaceAtHome, PlaceReturns, Load
  <1>6. CASE PlaceProbe
    BY <1>0, <1>6 DEF PlaceProbe, PlaceReturns, Load
  <1>7. CASE RemoveFound
    BY <1>0, <1>7 DEF RemoveFound, Load
  <1>8. CASE ShiftStep
    BY <1>0, <1>8 DEF ShiftStep, RemoveReturns, Load
  <1>9. CASE ShiftPastEnd
    BY <1>0, <1>9 DEF ShiftPastEnd, RemoveReturns, Load
  <1>10. CASE UNCHANGED vars
    BY <1>0, <1>10 DEF vars, Load
  <1> QED
    BY <1>1, <1>2, <1>3, <1>4, <1>5, <1>6, <1>7, <1>8, <1>9, <1>10
    DEF Next, Step, InsertAny, LookupAny, RemoveAny, Get, Remove

-----------------------------------------------------------------------------
(* size covers the entries.                                                *)

\* Without a rehash nothing waits.
LEMMA NoneWaiting ==
    ASSUME TypeOK, ~Rehashing
    PROVE  Waiting = {}
  BY DEF TypeOK, Rehashing, Waiting, Occupied

\* What a finished placement does to the entries still waiting.
LEMMA PlaceReturnsWaiting ==
    ASSUME IInv, pc \in {"home", "probe"}, NEW r \in BOOLEAN, PlaceReturns(r),
           UNCHANGED <<old, old_capacity>>
    PROVE  \/ /\ size' = size
              /\ Waiting' = Waiting \ {i} /\ i \in Waiting
           \/ /\ size' = size + 1
              /\ Waiting' = {} /\ Waiting = {}
  <1>1. TypeOK
    BY DEF IInv
  <1>2. CASE Rehashing
    <2>1. i \in Waiting
      BY <1>1, <1>2 DEF IInv, Growth, TypeOK, Waiting, Occupied
    <2>2. i' = i + 1 /\ size' = size
      BY <1>2 DEF PlaceReturns
    <2>3. Waiting' = Waiting \ {i}
      BY <1>1, <2>2 DEF Waiting, Occupied, TypeOK
    <2> QED
      BY <2>1, <2>2, <2>3
  <1>3. CASE ~Rehashing
    <2>1. size' = size + 1 /\ i' = i
      BY <1>3 DEF PlaceReturns
    <2>2. Waiting' = Waiting
      BY <2>1 DEF Waiting, Occupied
    <2> QED
      BY <1>1, <1>3, <2>1, <2>2, NoneWaiting
  <1> QED
    BY <1>2, <1>3

\* A placement adds at most one slot to those held.
LEMMA PlacementCounts ==
    ASSUME IInv, pc \in {"home", "probe"}, NEW r \in BOOLEAN, PlaceReturns(r),
           UNCHANGED <<old, old_capacity>>,
           \/ Held' = Held
           \/ \E j \in 0..(capacity - 1) : Held' = Held \cup {j}
    PROVE  SizeCoversEntries'
  <1>1. TypeOK
    BY DEF IInv
  <1>2. /\ IsFiniteSet(Held) /\ Cardinality(Held) \in Nat
        /\ IsFiniteSet(Waiting) /\ Cardinality(Waiting) \in Nat
    BY <1>1, HeldFinite
  <1>3. Cardinality(Held') \in Nat /\ Cardinality(Held') <= Cardinality(Held) + 1
    <2>1. ASSUME NEW j \in 0..(capacity - 1)
          PROVE  Cardinality(Held \cup {j}) \in {Cardinality(Held), Cardinality(Held) + 1}
      BY <1>2, FS_AddElement
    <2> QED
      BY <1>2, <2>1
  <1>4. Cardinality(Held) + Cardinality(Waiting) <= size /\ size \in Nat
    BY <1>1 DEF IInv, SizeCoversEntries, TypeOK
  <1>5. CASE size' = size /\ Waiting' = Waiting \ {i} /\ i \in Waiting
    <2>1. Cardinality(Waiting') = Cardinality(Waiting) - 1
      BY <1>2, <1>5, FS_RemoveElement
    <2> QED
      BY <1>2, <1>3, <1>4, <1>5, <2>1 DEF SizeCoversEntries
  <1>6. CASE size' = size + 1 /\ Waiting' = {} /\ Waiting = {}
    <2>1. Cardinality(Waiting') = 0
      BY <1>6, FS_EmptySet
    <2> QED
      BY <1>2, <1>3, <1>4, <1>6, <2>1 DEF SizeCoversEntries
  <1> QED
    BY <1>5, <1>6, PlaceReturnsWaiting

\* Every step keeps size at least the number of slots in use.
LEMMA CountStep == IInv /\ [Next]_vars => SizeCoversEntries'
  <1> SUFFICES ASSUME IInv, [Next]_vars PROVE SizeCoversEntries'
    OBVIOUS
  <1> USE DEF map, growth
  <1>0. TypeOK /\ SizeCoversEntries
    BY DEF IInv
  <1>f. /\ IsFiniteSet(Held) /\ Cardinality(Held) \in Nat
        /\ IsFiniteSet(Waiting) /\ Cardinality(Waiting) \in Nat
        /\ Cardinality(Held) + Cardinality(Waiting) <= size /\ size \in Nat
    BY <1>0, HeldFinite DEF SizeCoversEntries, TypeOK
  <1>s. ASSUME Held' = Held, Waiting' = Waiting, size' = size
        PROVE  SizeCoversEntries'
    BY <1>0, <1>s DEF SizeCoversEntries
  <1>1. ASSUME NEW e \in Entry, Insert(e) PROVE SizeCoversEntries'
    <2>1. CASE ~AtLoadFactor
      <3>1. UNCHANGED <<arr, size, capacity, old, old_capacity, i>>
        BY <1>1, <2>1 DEF Insert
      <3> QED
        BY <3>1, <1>s DEF Held, Waiting, Occupied
    <2>2. CASE AtLoadFactor
      <3>1. /\ arr' = Blank(2 * capacity) /\ capacity' = 2 * capacity
            /\ old' = arr /\ old_capacity' = capacity /\ i' = 0
            /\ size' = size
        BY <1>1, <2>2 DEF Insert
      <3>2. Held' = {}
        BY <1>0, <3>1, BlankIsArray DEF Held, TypeOK
      <3>3. Waiting' = Held
        BY <1>0, <3>1 DEF Held, Waiting, Occupied, TypeOK
      <3> QED
        BY <1>f, <3>1, <3>2, <3>3, FS_EmptySet DEF SizeCoversEntries
    <2> QED
      BY <2>1, <2>2
  <1>2. ASSUME NEW k \in Keys, NEW n \in {"get", "remove"}, Lookup(n, k)
        PROVE  SizeCoversEntries'
    BY <1>2, <1>s DEF Lookup, Held, Waiting, Occupied
  <1>3. CASE Destroy
    BY <1>3, <1>s DEF Destroy, Held, Waiting, Occupied
  <1>4. CASE Reinit
    <2>1. Held' = {}
      BY <1>4, BlankIsArray, SizeAssumption DEF Reinit, hashmap_init, Held
    <2>2. ~Rehashing /\ Waiting' = Waiting
      BY <1>4 DEF Reinit, Waiting, Occupied, IInv, Growth
    <2>3. Waiting' = {}
      BY <1>0, <2>2, NoneWaiting
    <2> QED
      BY <1>4, <2>1, <2>3, FS_EmptySet
      DEF Reinit, hashmap_init, SizeCoversEntries
  <1>5. CASE RehashStep
    <2>1. UNCHANGED <<arr, size, capacity>> /\ Held' = Held
      BY <1>5 DEF RehashStep, Held, Occupied
    <2>2. CASE i < old_capacity
      <3>1. Waiting' = Waiting
        BY <1>0, <1>5, <2>2 DEF RehashStep, Waiting, Occupied, TypeOK
      <3> QED
        BY <2>1, <3>1, <1>s
    <2>3. CASE i = old_capacity
      <3>1. Waiting' = {}
        BY <1>0, <1>5, <2>3 DEF RehashStep, Waiting, Occupied, TypeOK
      <3> QED
        BY <1>f, <2>1, <3>1, FS_EmptySet DEF SizeCoversEntries
    <2> QED
      BY <1>5, <2>2, <2>3 DEF RehashStep
  <1>6. CASE PlaceAtHome
    <2> DEFINE home == get_index(Item.key)
    <2>1. Item \in Entry /\ home \in 0..(capacity - 1)
      BY <1>0, <1>6, ItemIsEntry, IndexInRange DEF PlaceAtHome, Entry
    <2>2. CASE arr[home].key = Null
      <3>1. arr' = [arr EXCEPT ![home] = Item] /\ PlaceReturns(TRUE)
        BY <1>6, <2>1, <2>2, NullAssumption DEF PlaceAtHome, Entry
      <3>2. Held' = Held \cup {home}
        BY <1>0, <1>6, <2>1, <3>1, NullAssumption
        DEF PlaceAtHome, Held, Occupied, TypeOK, Entry
      <3> QED
        BY <1>6, <2>1, <3>1, <3>2, PlacementCounts DEF PlaceAtHome
    <2>3. CASE arr[home].key = Item.key
      <3>1. PlaceReturns(FALSE) /\ Held' = Held
        BY <1>6, <2>1, <2>3, NullAssumption
        DEF PlaceAtHome, is_key_equal, Entry, Held, Occupied
      <3> QED
        BY <1>6, <3>1, PlacementCounts DEF PlaceAtHome
    <2>4. CASE arr[home].key \notin {Null, Item.key}
      BY <1>6, <2>4, <1>s DEF PlaceAtHome, is_key_equal, Held, Waiting, Occupied
    <2> QED
      BY <2>2, <2>3, <2>4
  <1>7. CASE PlaceProbe
    <2> DEFINE next == advance_index(index)
    <2>1. Item \in Entry /\ next \in 0..(capacity - 1)
      BY <1>0, <1>7, ItemIsEntry, AdvanceInRange DEF PlaceProbe, TypeOK
    <2>2. CASE arr[next].key = Null
      <3>1. arr' = [arr EXCEPT ![next] = Item] /\ PlaceReturns(TRUE)
        BY <1>7, <2>2 DEF PlaceProbe
      <3>2. Held' = Held \cup {next}
        BY <1>0, <1>7, <2>1, <3>1, NullAssumption
        DEF PlaceProbe, Held, Occupied, TypeOK, Entry
      <3> QED
        BY <1>7, <2>1, <3>1, <3>2, PlacementCounts DEF PlaceProbe
    <2>3. CASE arr[next].key # Null
      BY <1>7, <2>3, <1>s DEF PlaceProbe, Held, Waiting, Occupied
    <2> QED
      BY <2>2, <2>3
  <1>8. CASE ProbeOn \/ NotFound \/ GetFound
    BY <1>8, <1>s DEF ProbeOn, NotFound, GetFound, Held, Waiting, Occupied
  <1>9. CASE RemoveFound
    <2>1. index \in Held
      BY <1>0, <1>9, NullAssumption
      DEF RemoveFound, Held, Occupied, TypeOK, IInv, Hole
    <2>2. Held' = Held \ {index}
      BY <1>0, <1>9, EmptyIsSlot DEF RemoveFound, Held, Occupied, TypeOK
    <2>3. Waiting' = Waiting /\ size' = size - 1
      BY <1>9 DEF RemoveFound, Waiting, Occupied
    <2>4. Cardinality(Held') = Cardinality(Held) - 1
      BY <1>f, <2>1, <2>2, FS_RemoveElement
    <2> QED
      BY <1>f, <2>3, <2>4 DEF SizeCoversEntries
  <1>10. CASE ShiftStep
    <2>1. Waiting' = Waiting /\ size' = size /\ capacity' = capacity
      BY <1>10 DEF ShiftStep, Waiting, Occupied
    <2>2. CASE arr' = arr
      BY <2>1, <2>2, <1>s DEF Held, Occupied
    <2>3. CASE arr' = moved(arr, index, cur) /\ arr[cur].key # Null
      <3>1. cur \in Held /\ index # cur /\ index \notin Held
        BY <1>0, <1>10, <2>3, HeldKey
        DEF ShiftStep, IInv, Hole, TypeOK, Held, Occupied
      <3>2. index \in 0..(capacity - 1) /\ cur \in 0..(capacity - 1)
        BY <1>0, <1>10 DEF ShiftStep, TypeOK
      <3>3. \A j \in 0..(capacity - 1) :
               arr'[j] = IF j = cur THEN Empty
                         ELSE IF j = index THEN arr[cur] ELSE arr[j]
        BY <1>0, <2>3, <3>1, <3>2 DEF moved, TypeOK
      <3>4. Held' = (Held \ {cur}) \cup {index}
        BY <2>1, <2>3, <3>1, <3>2, <3>3, EmptyIsSlot DEF Held, Occupied
      <3>5. /\ IsFiniteSet(Held \ {cur})
            /\ Cardinality(Held \ {cur}) = Cardinality(Held) - 1
            /\ index \notin Held \ {cur}
        BY <1>f, <3>1, FS_RemoveElement
      <3>6. Cardinality((Held \ {cur}) \cup {index}) = Cardinality(Held \ {cur}) + 1
        BY <3>5, FS_AddElement
      <3>7. Cardinality(Held') = Cardinality(Held)
        BY <1>f, <3>4, <3>5, <3>6
      <3> QED
        BY <1>f, <2>1, <3>7 DEF SizeCoversEntries
    <2> QED
      BY <1>10, <2>2, <2>3 DEF ShiftStep
  <1>11. CASE ShiftPastEnd
    BY <1>11, <1>s DEF ShiftPastEnd, Held, Waiting, Occupied
  <1>12. CASE UNCHANGED vars
    BY <1>12, <1>s DEF vars, Held, Waiting, Occupied
  <1> QED
    BY <1>1, <1>2, <1>3, <1>4, <1>5, <1>6, <1>7, <1>8, <1>9, <1>10, <1>11,
       <1>12
    DEF Next, Step, InsertAny, LookupAny, RemoveAny, Get, Remove

-----------------------------------------------------------------------------
(* The theorems.                                                           *)

\* The strengthened invariant, for every set of keys and every bound.
LEMMA Inductive == Spec => []IInv
  <1>1. IInv /\ [Next]_vars => IInv'
    BY TypeStep, GrowthStep, HoleStep, LoadStep, CountStep DEF IInv
  <1> QED
    BY InitType, <1>1, PTL DEF Spec

\* hashmap.c keeps its variables in their types, every index inside the array
\* it is used on.
THEOREM TypeCorrect == Spec => []TypeOK
  <1>1. IInv => TypeOK
    BY DEF IInv
  <1> QED
    BY Inductive, <1>1, PTL

\* map->size is never below the number of entries stored, whatever inserts
\* were refused and whatever duplicates a rehash dropped.
THEOREM SizeCovers == Spec => []SizeCoversEntries
  <1>1. IInv => SizeCoversEntries
    BY DEF IInv
  <1> QED
    BY Inductive, <1>1, PTL

\* Every probing loop of hashmap_get and maybe_probe_and_insert runs on a
\* table with an empty slot, so it cannot circle for ever.
THEOREM ProbeHasRoom == Spec => []RoomToProbe
  <1>1. ASSUME IInv PROVE RoomToProbe
    <2>1. /\ size \in Nat /\ capacity \in Nat /\ capacity >= 4
          /\ size < capacity
      BY <1>1, SizeAssumption DEF IInv, TypeOK, Load
    <2>2. /\ Cardinality(Held) \in Nat /\ Cardinality(Waiting) \in Nat
          /\ Cardinality(Held) <= size
      BY <1>1, <2>1, HeldFinite DEF IInv, SizeCoversEntries
    <2>3. Cardinality(0..(capacity - 1)) = capacity
      BY <2>1, FS_Interval
    <2> QED
      BY <2>1, <2>2, <2>3 DEF RoomToProbe
  <1> QED
    BY Inductive, <1>1, PTL

-----------------------------------------------------------------------------
(* Removal.                                                                *)

\* A lookup that runs has answered nothing yet.
Unanswered == pc = "get" => res = Empty

\* The slots that hold e.
Copies(e) == {j \in Held : arr[j] = e}

\* An unchanged array holds the same.
LEMMA CopiesKept ==
    ASSUME UNCHANGED <<arr, capacity>>, NEW e
    PROVE  Bag(e)' = Bag(e)
  BY DEF Bag, Held, Occupied

\* Clearing a full slot takes out its entry and no other.
LEMMA ClearTakesOne ==
    ASSUME TypeOK, NEW j \in Held, arr' = [arr EXCEPT ![j] = Empty], capacity' = capacity,
           NEW e \in Entry
    PROVE  Bag(e)' = Bag(e) - (IF e = arr[j] THEN 1 ELSE 0)
  <1>1. PICK B : B = Copies(e)
    OBVIOUS
  <1>2. PICK D : D = Copies(e)'
    OBVIOUS
  <1>3. PICK a : a = arr[j]
    OBVIOUS
  <1>4. IsFiniteSet(B) /\ Cardinality(B) \in Nat
    BY <1>1, HeldFinite, FS_Subset, FS_CardinalityType DEF Copies
  <1>5. /\ arr'[j] = Empty /\ j \in 0..(capacity - 1) /\ e # Empty
        /\ \A m \in 0..(capacity - 1) : m # j => arr'[m] = arr[m]
    BY NullAssumption DEF TypeOK, Held, Occupied, Entry, Empty
  <1>6. D = B \ {j}
    <2>1. \A m : m \in D <=> m \in B /\ m # j
      BY <1>1, <1>2, <1>5 DEF Copies, Held, Occupied
    <2> QED
      BY <2>1
  <1>7. j \in B <=> e = a
    BY <1>1, <1>3 DEF Copies
  <1>8. Cardinality(D) = Cardinality(B) - (IF e = a THEN 1 ELSE 0)
    <2>1. CASE e = a
      BY <1>4, <1>6, <1>7, <2>1, FS_RemoveElement
    <2>2. CASE e # a
      <3>1. D = B
        BY <1>6, <1>7, <2>2
      <3> QED
        BY <1>4, <2>2, <3>1
    <2> QED
      BY <2>1, <2>2
  <1>9. Bag(e) = Cardinality(B) /\ Bag(e)' = Cardinality(D)
    BY <1>1, <1>2 DEF Bag, Copies
  <1> QED
    BY <1>3, <1>8, <1>9

\* A move into the hole loses no entry and doubles none.
LEMMA MoveTakesNone ==
    ASSUME TypeOK, NEW to \in 0..(capacity - 1), NEW from \in Held, arr[to].key = Null,
           arr' = moved(arr, to, from), capacity' = capacity, NEW e \in Entry
    PROVE  Bag(e)' = Bag(e)
  <1>1. PICK B : B = Copies(e)
    OBVIOUS
  <1>2. PICK D : D = Copies(e)'
    OBVIOUS
  <1>3. IsFiniteSet(B) /\ Cardinality(B) \in Nat
    BY <1>1, HeldFinite, FS_Subset, FS_CardinalityType DEF Copies
  <1>4. /\ from \in 0..(capacity - 1) /\ from # to /\ e # Empty /\ e.key # Null /\ Empty.key = Null
        /\ arr'[to] = arr[from] /\ arr'[from] = Empty
        /\ \A m \in 0..(capacity - 1) : m # to /\ m # from => arr'[m] = arr[m]
    BY NullAssumption DEF TypeOK, Held, Occupied, Entry, Empty, moved
  <1>5. to \notin B
    BY <1>1, <1>4 DEF Copies
  <1>6. CASE arr[from] = e
    <2>1. \A m : m \in D <=> (m \in B /\ m # from) \/ m = to
      BY <1>1, <1>2, <1>4, <1>6 DEF Copies, Held, Occupied
    <2>2. D = (B \ {from}) \cup {to} /\ from \in B /\ to \notin B \ {from}
      BY <1>1, <1>5, <1>6, <2>1 DEF Copies
    <2>3. IsFiniteSet(B \ {from}) /\ Cardinality(B \ {from}) = Cardinality(B) - 1
      BY <1>3, <2>2, FS_RemoveElement
    <2>4. Cardinality(D) = Cardinality(B \ {from}) + 1
      BY <2>2, <2>3, FS_AddElement
    <2>5. Cardinality(D) = Cardinality(B)
      BY <1>3, <2>3, <2>4
    <2> QED
      BY <1>1, <1>2, <2>5 DEF Bag, Copies
  <1>7. CASE arr[from] # e
    <2>1. \A m : m \in D <=> m \in B
      BY <1>1, <1>2, <1>4, <1>7 DEF Copies, Held, Occupied
    <2>2. D = B
      BY <2>1
    <2> QED
      BY <1>1, <1>2, <2>2 DEF Bag, Copies
  <1> QED
    BY <1>6, <1>7

\* hashmap_remove takes out exactly the entry that it returns, once: its shifting loses
\* none of the others and leaves none in two slots, whatever collides.
THEOREM RemovalExact == Spec => RemoveTakesOne
  <1> DEFINE Taken == call = "remove" /\ pc \in {"get", "shift"} =>
                        \A e \in Entry :
                           Bag(e)' = Bag(e) - (IF res' # res /\ res' = e THEN 1 ELSE 0)
  <1>1. Init => Unanswered
    BY DEF Init, Unanswered
  <1>2. Unanswered /\ [Next]_vars => Unanswered'
    BY DEF Unanswered, Next, Step, InsertAny, LookupAny, RemoveAny, Insert, Get, Remove, Lookup,
           Destroy, Reinit, RehashStep, PlaceAtHome, PlaceProbe, PlaceReturns, ProbeOn, NotFound,
           GetFound, RemoveFound, ShiftStep, RemoveReturns, ShiftPastEnd, vars
  <1>3. ASSUME IInv, Unanswered, Next PROVE Taken
    <2> SUFFICES ASSUME call = "remove", pc \in {"get", "shift"}, NEW e \in Entry
                 PROVE  Bag(e)' = Bag(e) - (IF res' # res /\ res' = e THEN 1 ELSE 0)
      OBVIOUS
    <2>0. TypeOK /\ e # Empty
      BY <1>3, NullAssumption DEF IInv, Entry, Empty
    <2>1. Bag(e) \in Nat
      <3>1. IsFiniteSet(Copies(e))
        BY <2>0, HeldFinite, FS_Subset DEF Copies
      <3> QED
        BY <3>1, FS_CardinalityType DEF Bag, Copies
    <2>2. ASSUME UNCHANGED <<arr, capacity, res>>
          PROVE  Bag(e)' = Bag(e) - (IF res' # res /\ res' = e THEN 1 ELSE 0)
      BY <2>1, <2>2, CopiesKept
    <2>3. CASE ProbeOn \/ NotFound \/ ShiftPastEnd
      BY <2>2, <2>3 DEF ProbeOn, NotFound, ShiftPastEnd, map
    <2>4. CASE RemoveFound
      <3>1. /\ index \in Held /\ arr' = [arr EXCEPT ![index] = Empty] /\ capacity' = capacity
            /\ res = Empty /\ res' = arr[index]
        BY <1>3, <2>0, <2>4 DEF RemoveFound, Held, Occupied, TypeOK, Unanswered
      <3>2. Bag(e)' = Bag(e) - (IF e = arr[index] THEN 1 ELSE 0)
        BY <2>0, <3>1, ClearTakesOne
      <3>3. res' # res /\ res' = e <=> e = arr[index]
        BY <2>0, <3>1
      <3> QED
        BY <3>2, <3>3
    <2>5. CASE ShiftStep
      <3>1. capacity' = capacity /\ res' = res
        BY <2>5 DEF ShiftStep
      <3>2. CASE arr' = arr
        BY <2>2, <3>1, <3>2
      <3>3. CASE arr' = moved(arr, index, cur) /\ arr[cur].key # Null
        <4>1. /\ cur \in Held /\ index \in 0..(capacity - 1) /\ arr[index].key = Null
          BY <1>3, <2>0, <2>5, <3>3 DEF ShiftStep, IInv, Hole, TypeOK, Held, Occupied
        <4>2. Bag(e)' = Bag(e)
          BY <2>0, <3>1, <3>3, <4>1, MoveTakesNone
        <4> QED
          BY <2>1, <3>1, <4>2
      <3> QED
        BY <2>5, <3>2, <3>3 DEF ShiftStep
    <2>6. RemoveFound \/ ShiftStep \/ ProbeOn \/ NotFound \/ ShiftPastEnd
      BY <1>3 DEF Next, Step, InsertAny, LookupAny, RemoveAny, Insert, Get, Remove, Lookup,
                  Destroy, Reinit, RehashStep, PlaceAtHome, PlaceProbe, GetFound
    <2> QED
      BY <2>3, <2>4, <2>5, <2>6
  <1>4. IInv /\ Unanswered /\ [Next]_vars => [Taken]_vars
    BY <1>3
  <1> QED
    BY <1>1, <1>2, <1>4, Inductive, PTL DEF Spec, RemoveTakesOne

-----------------------------------------------------------------------------
(* Paths around the array.                                                 *)

\* A probe moves to the next slot, or from the last to the first.
LEMMA AdvanceCases ==
    ASSUME TypeOK, NEW j \in 0..(capacity - 1)
    PROVE  advance_index(j) = IF j + 1 = capacity THEN 0 ELSE j + 1
<1>1. capacity \in Nat /\ capacity >= 1
  BY SizeAssumption DEF TypeOK
<1>2. ASSUME j + 1 # capacity PROVE (j + 1) % capacity = j + 1
  BY <1>1, <1>2
<1>3. capacity % capacity = 0
  BY <1>1
<1> QED BY <1>1, <1>2, <1>3 DEF advance_index

\* A path that is a slot longer has that slot more.
LEMMA PathAdvances ==
    ASSUME TypeOK, NEW h \in 0..(capacity - 1), NEW j \in 0..(capacity - 1),
           NEW m \in 0..(capacity - 1), OnPath(h, advance_index(j), m)
    PROVE  m = advance_index(j) \/ OnPath(h, j, m)
<1>1. capacity \in Nat
  BY DEF TypeOK
<1> QED BY <1>1, AdvanceCases DEF OnPath

\* Of two slots, one is on the path to the other.
LEMMA PathTotal ==
    ASSUME NEW h \in Nat, NEW j \in Nat, NEW m \in Nat
    PROVE  OnPath(h, j, m) \/ OnPath(h, m, j)
BY DEF OnPath

-----------------------------------------------------------------------------
(* The inductive invariant, beside the one of the map.                     *)

\* What stack_allocator_get is doing, and the map for it: nothing is removed.
Phase ==
    /\ apc \in {"ready", "lookup", "insert", "done"}
    /\ call # "remove" /\ pc \notin {"shift", "crashed"}
    /\ apc = "ready" => pc = "idle"
    /\ apc = "lookup" => pc \in {"get", "idle"} /\ call = "get" /\ entry.key \in Keys
    /\ pc = "get" => res = Empty
    /\ apc = "insert" => /\ pc \in {"idle", "rehash", "home", "probe"} /\ call = "insert"
                         /\ entry \in Entry
    /\ apc = "done" => pc = "destroyed"
    /\ IF apc = "done" THEN frame \in Nat ELSE frame = -1

\* The slots given out, the one that is being recorded included.
given == IF apc = "insert" /\ pc # "idle" THEN size + 1 ELSE size

Lowest ==
    /\ given \in 0..MaxSize
    /\ offset = -(given * SlotSize)
    /\ apc = "insert" => entry.data = offset

\* An entry that a probe may still find or pass has full slots before it: the
\* entry in the map, the entry that is being placed, the key that is looked up.
Paths ==
    /\ ProbePathFull
    /\ pc = "probe" => \A m \in 0..(capacity - 1) :
                           OnPath(get_index(Item.key), index, m) => m \in Held
    /\ pc = "get" => \A m \in 0..(capacity - 1) :
                         OnPath(get_index(entry.key), index, m) =>
                             m = index \/ (m \in Held /\ arr[m].key # entry.key)

Stored == {arr[j] : j \in Held}

\* While the array grows it holds what was moved from the old one.
Moving == Rehashing => Stored = {old[m] : m \in {n \in Occupied(old, old_capacity) : n < i}}

\* One entry for each variable, at or above the lowest slot; the one that is being
\* recorded is new, below the others, and in the map when the insert returns; and a
\* lookup has answered right.
Recalled ==
    /\ \A e, f \in Contents : e.key = f.key => e = f
    /\ \A e \in Contents : e.data >= offset
    /\ apc = "insert" =>
           /\ \A e \in Contents : e.key # entry.key => e.data >= offset + SlotSize
           /\ pc # "idle" => \A e \in Contents : e.key # entry.key
           /\ pc = "idle" => entry \in Contents
    /\ apc = "lookup" /\ pc = "idle" =>
           IF res.key = Null THEN \A e \in Contents : e.key # entry.key
                             ELSE res \in Contents /\ res.key = entry.key

AInv == IInv /\ Phase /\ Lowest /\ Paths /\ Moving /\ Recalled

-----------------------------------------------------------------------------
(* The arrays.                                                             *)

\* The entries of the map are entries.
LEMMA ContentsAreEntries ==
    ASSUME TypeOK
    PROVE  Contents \subseteq Entry /\ Stored \subseteq Entry
<1>1. \A j \in Held : arr[j] \in Entry
  BY SlotCases DEF TypeOK, Held, Occupied
<1>2. \A j \in Occupied(old, old_capacity) : old[j] \in Entry
  BY SlotCases DEF TypeOK, Occupied
<1> QED BY <1>1, <1>2 DEF Contents, Stored

\* An entry that is put into an empty slot.
LEMMA SlotFilled ==
    ASSUME TypeOK, NEW j \in 0..(capacity - 1), arr[j].key = Null, NEW e \in Entry,
           arr' = [arr EXCEPT ![j] = e], capacity' = capacity
    PROVE  /\ Held' = Held \cup {j} /\ j \notin Held
           /\ arr'[j] = e /\ \A m \in Held : arr'[m] = arr[m]
           /\ Stored' = Stored \cup {e}
<1>1. /\ arr'[j] = e /\ e.key # Null
      /\ \A m \in 0..(capacity - 1) : m # j => arr'[m] = arr[m]
  BY NullAssumption DEF TypeOK, Entry
<1>2. Held' = Held \cup {j} /\ j \notin Held
  BY <1>1 DEF Held, Occupied
<1>3. \A m \in Held : arr'[m] = arr[m]
  BY <1>1, <1>2 DEF Held, Occupied
<1>4. Stored' = Stored \cup {e}
  BY <1>1, <1>2, <1>3 DEF Stored
<1> QED BY <1>1, <1>2, <1>3, <1>4

\* Full slots stay full when an entry is put at the end of its path.
LEMMA PathsFilled ==
    ASSUME TypeOK, ProbePathFull, NEW j \in 0..(capacity - 1), arr[j].key = Null, NEW e \in Entry,
           arr' = [arr EXCEPT ![j] = e], capacity' = capacity, hash' = hash,
           \A m \in 0..(capacity - 1) : OnPath(get_index(e.key), j, m) => m = j \/ m \in Held
    PROVE  ProbePathFull'
<1>1. /\ Held' = Held \cup {j} /\ j \notin Held
      /\ arr'[j] = e /\ \A m \in Held : arr'[m] = arr[m]
  BY SlotFilled
<1>2. \A k : get_index(k)' = get_index(k)
  BY DEF get_index
<1>3. ASSUME NEW n \in Held', NEW m \in 0..(capacity - 1), OnPath(get_index(arr'[n].key), n, m)
      PROVE  m \in Held'
  <2>1. CASE n = j
    BY <1>1, <1>3, <2>1
  <2>2. CASE n \in Held
    BY <1>1, <1>3, <2>2 DEF ProbePathFull
  <2> QED BY <1>1, <2>1, <2>2
<1> QED BY <1>2, <1>3 DEF ProbePathFull

\* The steps of the map that a stack allocator takes.
Used ==
    \/ \E e \in Entry : Insert(e)
    \/ \E k \in Keys : Get(k)
    \/ Destroy \/ RehashStep \/ PlaceAtHome \/ PlaceProbe \/ ProbeOn \/ NotFound \/ GetFound
    \/ UNCHANGED vars

\* The home of a key stays while the array does.
LEMMA SameHome ==
    ASSUME capacity' = capacity, hash' = hash
    PROVE  \A k : get_index(k)' = get_index(k)
BY DEF get_index

\* Nothing moves, and no probe is running after the step.
LEMMA PathsKept ==
    ASSUME ProbePathFull, UNCHANGED <<arr, capacity, hash>>
    PROVE  ProbePathFull' /\ Held' = Held
<1>1. Held' = Held
  BY DEF Held, Occupied
<1> QED BY <1>1, SameHome DEF ProbePathFull

\* A placement goes on from a slot that is full, or ends in one that is not.
LEMMA PlacePaths ==
    ASSUME IInv, Paths, PlaceAtHome \/ PlaceProbe
    PROVE  Paths'
<1>0. /\ TypeOK /\ ProbePathFull /\ pc \in {"home", "probe"} /\ Item \in Entry
      /\ capacity' = capacity /\ hash' = hash /\ old' = old /\ old_capacity' = old_capacity
      /\ entry' = entry /\ pc' \in {"rehash", "idle", "probe"}
  <2>1. pc \in {"home", "probe"}
    BY DEF PlaceAtHome, PlaceProbe
  <2> QED BY <2>1, ItemIsEntry DEF IInv, Paths, PlaceAtHome, PlaceProbe, PlaceReturns
<1>1. get_index(Item.key) \in 0..(capacity - 1)
  <2>1. Item.key \in Keys
    BY <1>0 DEF Entry
  <2> QED BY <1>0, <2>1, IndexInRange
<1>2. pc' = "probe" => Item' = Item
  <2>1. pc' = "probe" => i' = i
    BY DEF PlaceAtHome, PlaceProbe, PlaceReturns
  <2> QED BY <1>0, <2>1 DEF Item, Rehashing
<1>3. index \in 0..(capacity - 1) /\ advance_index(index) \in 0..(capacity - 1)
  <2>1. index \in 0..(capacity - 1)
    BY <1>0 DEF TypeOK
  <2> QED BY <1>0, <2>1, AdvanceInRange
<1>4. \A k : get_index(k)' = get_index(k)
  BY <1>0, SameHome
<1> DEFINE home == get_index(Item.key)
           next == advance_index(index)
<1>5. \A m \in 0..(capacity - 1) : OnPath(home, home, m) => m = home
  <2> SUFFICES ASSUME NEW h \in Nat, NEW m \in Nat, OnPath(h, h, m) PROVE m = h
    BY <1>0, <1>1 DEF TypeOK
  <2> QED BY DEF OnPath
<1>6. pc = "probe" => \A m \in 0..(capacity - 1) : OnPath(home, next, m) => m = next \/ m \in Held
  BY <1>0, <1>1, <1>3, PathAdvances DEF Paths
<1> HIDE DEF home, next
<1>7. ASSUME NEW j \in 0..(capacity - 1), arr[j].key = Null, arr' = [arr EXCEPT ![j] = Item],
             pc' # "probe", \A m \in 0..(capacity - 1) : OnPath(home, j, m) => m = j \/ m \in Held
      PROVE  Paths'
  <2>1. ProbePathFull'
    BY <1>0, <1>7, PathsFilled DEF home
  <2> QED BY <1>0, <1>7, <2>1 DEF Paths
<1>8. ASSUME arr' = arr, pc' # "probe" PROVE Paths'
  <2>1. ProbePathFull'
    BY <1>0, <1>8, PathsKept
  <2> QED BY <1>0, <1>8, <2>1 DEF Paths
<1>9. ASSUME arr' = arr, pc' = "probe", index' \in 0..(capacity - 1), arr[index'].key # Null,
             \A m \in 0..(capacity - 1) : OnPath(home, index', m) => m = index' \/ m \in Held
      PROVE  Paths'
  <2>1. ProbePathFull' /\ Held' = Held
    BY <1>0, <1>9, PathsKept
  <2>2. index' \in Held
    BY <1>9 DEF Held, Occupied
  <2>3. get_index(Item.key)' = home
    BY <1>2, <1>4, <1>9 DEF home
  <2>4. \A m \in 0..(capacity' - 1) : OnPath(get_index(Item.key)', index', m) => m \in Held'
    BY <1>0, <1>9, <2>1, <2>2, <2>3
  <2> QED BY <1>9, <2>1, <2>4 DEF Paths
<1>10. CASE PlaceAtHome
  <2>1. \/ arr[home].key = Null /\ arr' = [arr EXCEPT ![home] = Item] /\ pc' # "probe"
        \/ arr' = arr /\ pc' # "probe"
        \/ arr[home].key # Null /\ arr' = arr /\ index' = home /\ pc' = "probe"
    BY <1>10 DEF PlaceAtHome, PlaceReturns, home
  <2> QED BY <1>1, <1>5, <1>7, <1>8, <1>9, <2>1 DEF home
<1>11. CASE PlaceProbe
  <2>1. /\ pc = "probe"
        /\ \/ arr[next].key = Null /\ arr' = [arr EXCEPT ![next] = Item] /\ pc' # "probe"
           \/ arr[next].key # Null /\ arr' = arr /\ index' = next /\ pc' = "probe"
    BY <1>11 DEF PlaceProbe, PlaceReturns, next
  <2> QED BY <1>3, <1>6, <1>7, <1>9, <2>1 DEF next
<1> QED BY <1>10, <1>11

\* A lookup goes on from a slot with another key.
LEMMA ProbeOnPaths ==
    ASSUME IInv, Paths, ProbeOn
    PROVE  Paths'
<1>1. /\ TypeOK /\ pc = "get" /\ pc' = "get" /\ arr' = arr /\ capacity' = capacity /\ hash' = hash
      /\ entry' = entry /\ entry.key \in Keys /\ ProbePathFull
      /\ index' = advance_index(index) /\ arr[index].key # Null /\ arr[index].key # entry.key
  BY DEF IInv, Hole, Paths, ProbeOn, map, growth, is_key_equal
<1>2. ProbePathFull' /\ Held' = Held /\ \A k : get_index(k)' = get_index(k)
  BY <1>1, PathsKept, SameHome
<1>3. get_index(entry.key) \in 0..(capacity - 1) /\ index \in 0..(capacity - 1)
  BY <1>1, IndexInRange DEF TypeOK
<1>4. index \in Held
  BY <1>1, <1>3 DEF Held, Occupied
<1>5. ASSUME NEW m \in 0..(capacity - 1), OnPath(get_index(entry.key), index', m)
      PROVE  m = index' \/ (m \in Held /\ arr[m].key # entry.key)
  <2>1. m = index' \/ OnPath(get_index(entry.key), index, m)
    BY <1>1, <1>3, <1>5, PathAdvances
  <2>2. OnPath(get_index(entry.key), index, m) => m = index \/ (m \in Held /\ arr[m].key # entry.key)
    BY <1>1 DEF Paths
  <2> QED BY <1>1, <1>4, <2>1, <2>2
<1> QED BY <1>1, <1>2, <1>5 DEF Paths

\* A lookup begins at the home of its key.
LEMMA LookupPaths ==
    ASSUME IInv, Paths, NEW k \in Keys, Get(k)
    PROVE  Paths'
<1>1. /\ TypeOK /\ pc' = "get" /\ arr' = arr /\ capacity' = capacity /\ hash' = hash
      /\ entry'.key = k /\ ProbePathFull /\ index' = get_index(k)
  BY DEF IInv, Paths, Get, Lookup, map, growth
<1>2. ProbePathFull' /\ Held' = Held /\ get_index(k)' = get_index(k)
  BY <1>1, PathsKept, SameHome
<1>3. get_index(k) \in Nat /\ capacity \in Nat
  BY <1>1, IndexInRange DEF TypeOK
<1>4. ASSUME NEW m \in 0..(capacity - 1), OnPath(get_index(k), index', m) PROVE m = index'
  <2> SUFFICES ASSUME NEW h \in Nat, NEW n \in Nat, OnPath(h, h, n) PROVE n = h
    BY <1>1, <1>3, <1>4
  <2> QED BY DEF OnPath
<1>5. \A m \in 0..(capacity' - 1) : OnPath(get_index(k)', index', m) => m = index'
  BY <1>1, <1>2, <1>4
<1> QED BY <1>1, <1>2, <1>5 DEF Paths

\* Every step of the map that the allocator takes keeps the paths.
LEMMA PathsStep ==
    ASSUME IInv, Paths, Used
    PROVE  Paths'
<1>1. ASSUME NEW e \in Entry, Insert(e) PROVE Paths'
  <2>1. pc' \in {"home", "rehash"} /\ hash' = hash /\ ProbePathFull
    BY <1>1 DEF Insert, Paths
  <2>2. CASE UNCHANGED <<arr, capacity>>
    BY <2>1, <2>2, PathsKept DEF Paths
  <2>3. CASE arr' = Blank(2 * capacity) /\ capacity' = 2 * capacity
    <3>1. Held' = {}
      <4>1. capacity \in Nat
        BY DEF IInv, TypeOK
      <4> QED BY <2>3, <4>1, BlankIsArray DEF Held
    <3> QED BY <2>1, <3>1 DEF Paths, ProbePathFull
  <2> QED BY <1>1, <2>2, <2>3 DEF Insert, map
<1>2. CASE Destroy \/ RehashStep \/ NotFound \/ GetFound
  <2>1. UNCHANGED <<arr, capacity, hash>> /\ ProbePathFull /\ pc' \notin {"probe", "get"}
    BY <1>2 DEF Destroy, RehashStep, NotFound, GetFound, map, growth, Paths
  <2> QED BY <2>1, PathsKept DEF Paths
<1>3. CASE UNCHANGED vars
  <2>1. /\ UNCHANGED <<arr, capacity, hash, pc, index, entry, i, old, old_capacity>> /\ ProbePathFull
    BY <1>3 DEF vars, Paths
  <2>2. ProbePathFull' /\ Held' = Held /\ Item' = Item /\ \A k : get_index(k)' = get_index(k)
    BY <2>1, PathsKept, SameHome DEF Item, Rehashing
  <2> QED BY <2>1, <2>2 DEF Paths
<1> QED BY <1>1, <1>2, <1>3, PlacePaths, ProbeOnPaths, LookupPaths DEF Used

-----------------------------------------------------------------------------
(* The contents.                                                           *)

\* An array that is not written holds the same.
LEMMA ContentsKept ==
    ASSUME UNCHANGED <<arr, capacity, old, old_capacity>>
    PROVE  Contents' = Contents /\ Stored' = Stored /\ (Rehashing' <=> Rehashing)
BY DEF Contents, Stored, Rehashing, Held, Occupied

\* What is being placed, and where it comes from.
LEMMA Placing ==
    ASSUME AInv, PlaceAtHome \/ PlaceProbe
    PROVE  /\ TypeOK /\ pc \in {"home", "probe"} /\ Item \in Entry /\ apc = "insert"
           /\ capacity' = capacity /\ hash' = hash /\ old' = old /\ old_capacity' = old_capacity
           /\ entry' = entry /\ res' = res /\ call' = call
           /\ Rehashing => /\ i \in Occupied(old, old_capacity) /\ Item = old[i] /\ Item \in Contents
                           /\ pc' # "idle" /\ size' = size
                           /\ \/ pc' = "rehash" /\ i' = i + 1
                              \/ pc' = "probe" /\ i' = i /\ arr' = arr
           /\ ~Rehashing => /\ Item = entry /\ i' = i
                            /\ \A e \in Contents : e.key # Item.key
                            /\ \/ pc' = "idle" /\ size' = size + 1
                               \/ pc' = "probe" /\ size' = size /\ arr' = arr
<1>1. /\ TypeOK /\ IInv /\ pc \in {"home", "probe"}
  BY DEF AInv, IInv, PlaceAtHome, PlaceProbe
<1>2. Item \in Entry
  BY <1>1, ItemIsEntry
<1>3. apc = "insert"
  BY <1>1 DEF AInv, Phase
<1>4. /\ capacity' = capacity /\ hash' = hash /\ old' = old /\ old_capacity' = old_capacity
      /\ entry' = entry /\ res' = res /\ call' = call
  BY DEF PlaceAtHome, PlaceProbe
<1>5. \/ PlaceReturns(TRUE) \/ PlaceReturns(FALSE)
      \/ pc' = "probe" /\ UNCHANGED <<arr, size, i>>
  BY DEF PlaceAtHome, PlaceProbe
<1>6. ASSUME Rehashing
      PROVE  /\ i \in Occupied(old, old_capacity) /\ Item = old[i] /\ Item \in Contents
             /\ pc' # "idle" /\ size' = size
             /\ \/ pc' = "rehash" /\ i' = i + 1
                \/ pc' = "probe" /\ i' = i /\ arr' = arr
  <2>1. i \in Occupied(old, old_capacity)
    BY <1>1, <1>6 DEF IInv, Growth, TypeOK, Occupied
  <2>2. Item = old[i] /\ Item \in Contents
    BY <1>6, <2>1 DEF Item, Contents
  <2> QED BY <1>5, <1>6, <2>1, <2>2 DEF PlaceReturns
<1>7. ASSUME ~Rehashing
      PROVE  /\ Item = entry /\ i' = i
             /\ \A e \in Contents : e.key # Item.key
             /\ \/ pc' = "idle" /\ size' = size + 1
                \/ pc' = "probe" /\ size' = size /\ arr' = arr
  <2>1. Item = entry
    BY <1>7 DEF Item
  <2>2. \A e \in Contents : e.key # entry.key
    BY <1>1, <1>3 DEF AInv, Recalled
  <2> QED BY <1>5, <1>7, <2>1, <2>2 DEF PlaceReturns
<1> QED BY <1>1, <1>2, <1>3, <1>4, <1>6, <1>7

\* A placement stores its item, unless it goes on; the item of a refused one is
\* stored already, or cannot be.
LEMMA PlacementStores ==
    ASSUME AInv, PlaceAtHome \/ PlaceProbe
    PROVE  \/ arr' = arr /\ pc' = "probe"
           \/ Stored' = Stored \cup {Item} /\ pc' # "probe"
<1>1. /\ TypeOK /\ Item \in Entry /\ capacity' = capacity
      /\ Rehashing => Item \in Contents
      /\ ~Rehashing => \A e \in Contents : e.key # Item.key
  BY Placing
<1>2. get_index(Item.key) \in 0..(capacity - 1) /\ advance_index(index) \in 0..(capacity - 1)
  <2>1. Item.key \in Keys /\ index \in 0..(capacity - 1)
    BY <1>1 DEF Entry, TypeOK
  <2> QED BY <1>1, <2>1, IndexInRange, AdvanceInRange
<1>3. ASSUME NEW j \in 0..(capacity - 1), arr[j].key = Null, arr' = [arr EXCEPT ![j] = Item]
      PROVE  Stored' = Stored \cup {Item}
  BY <1>1, <1>3, SlotFilled
<1>4. ASSUME NEW j \in 0..(capacity - 1), arr[j].key # Null, arr[j].key = Item.key, arr' = arr
      PROVE  Stored' = Stored \cup {Item}
  <2>1. j \in Held /\ arr[j] \in Stored
    BY <1>4 DEF Held, Occupied, Stored
  <2>2. Rehashing
    BY <1>1, <1>4, <2>1 DEF Contents, Stored
  <2>3. arr[j] \in Contents
    BY <2>1, <2>2 DEF AInv, Moving, Contents
  <2>4. arr[j] = Item
    BY <1>1, <1>4, <2>2, <2>3 DEF AInv, Recalled
  <2>5. Stored' = Stored
    BY <1>1, <1>4 DEF Stored, Held, Occupied
  <2> QED BY <2>1, <2>4, <2>5
<1>5. CASE PlaceAtHome
  <2> DEFINE home == get_index(Item.key)
  <2>1. \/ arr[home].key = Null /\ arr' = [arr EXCEPT ![home] = Item] /\ pc' # "probe"
        \/ arr[home].key # Null /\ arr[home].key = Item.key /\ arr' = arr /\ pc' # "probe"
        \/ arr' = arr /\ pc' = "probe"
    BY <1>5 DEF PlaceAtHome, PlaceReturns, is_key_equal
  <2> QED BY <1>2, <1>3, <1>4, <2>1
<1>6. CASE PlaceProbe
  <2> DEFINE next == advance_index(index)
  <2>1. \/ arr[next].key = Null /\ arr' = [arr EXCEPT ![next] = Item] /\ pc' # "probe"
        \/ arr' = arr /\ pc' = "probe"
    BY <1>6 DEF PlaceProbe, PlaceReturns
  <2> QED BY <1>2, <1>3, <2>1
<1> QED BY <1>5, <1>6

\* The map's contents change only when an insert ends, and then by its entry; the
\* new array holds what the loop of rehash has passed.
LEMMA ContentsStep ==
    ASSUME AInv, Used
    PROVE  /\ Moving'
           /\ \/ /\ Contents' = Contents /\ size' = size
                 /\ ~ (pc \in {"rehash", "home", "probe"} /\ pc' = "idle")
              \/ /\ Contents' = Contents \cup {entry} /\ size' = size + 1
                 /\ pc \in {"home", "probe"} /\ pc' = "idle" /\ entry' = entry
                 /\ UNCHANGED <<call, res>>
<1>0. TypeOK /\ Moving /\ IInv
  BY DEF AInv, IInv
<1>1. ASSUME NEW e \in Entry, Insert(e)
      PROVE  Moving' /\ Contents' = Contents /\ size' = size /\ pc = "idle"
  <2>1. pc = "idle" /\ ~Rehashing
    BY <1>0, <1>1 DEF Insert, IInv, Growth
  <2>2. CASE UNCHANGED <<map, growth>>
    BY <1>0, <2>1, <2>2, ContentsKept DEF map, growth, Moving
  <2>3. CASE /\ old' = arr /\ old_capacity' = capacity /\ i' = 0
             /\ arr' = Blank(2 * capacity) /\ capacity' = 2 * capacity /\ size' = size
    <3>1. capacity \in Nat /\ capacity > 0
      BY <1>0, SizeAssumption DEF TypeOK
    <3>2. Held' = {} /\ Rehashing'
      BY <2>3, <3>1, BlankIsArray DEF Held, Rehashing
    <3>3. Contents' = Contents
      BY <2>1, <2>3, <3>2 DEF Contents, Held
    <3>4. {n \in Occupied(old, old_capacity)' : n < i'} = {}
      BY <2>3 DEF Occupied
    <3>5. Stored' = {}
      BY <3>2 DEF Stored
    <3> QED BY <2>1, <2>3, <3>3, <3>4, <3>5 DEF Moving
  <2> QED BY <1>1, <2>1, <2>2, <2>3 DEF Insert, map
<1>2. CASE RehashStep
  <2>1. pc = "rehash" /\ pc' # "idle" /\ UNCHANGED <<arr, size, capacity>>
    BY <1>2 DEF RehashStep, map
  <2>2. Stored' = Stored
    BY <2>1 DEF Stored, Held, Occupied
  <2>3. CASE i < old_capacity /\ old[i].key = Null /\ i' = i + 1 /\ UNCHANGED <<old, old_capacity>>
    <3>1. {n \in Occupied(old, old_capacity) : n < i + 1} = {n \in Occupied(old, old_capacity) : n < i}
      <4>1. i \in Nat /\ i \notin Occupied(old, old_capacity)
        BY <1>0, <2>3 DEF TypeOK, Occupied
      <4>2. \A n \in Occupied(old, old_capacity) : n \in Nat
        BY <1>0 DEF TypeOK, Occupied
      <4> QED BY <4>1, <4>2
    <3>2. Contents' = Contents /\ (Rehashing' <=> Rehashing)
      BY <2>1, <2>3, ContentsKept
    <3> QED BY <1>0, <2>1, <2>2, <2>3, <3>1, <3>2 DEF Moving
  <2>4. CASE UNCHANGED growth
    BY <1>0, <2>1, <2>4, ContentsKept DEF growth, Moving
  <2>5. CASE i = old_capacity /\ old' = Blank(0) /\ old_capacity' = 0
    <3>1. ~Rehashing'
      BY <2>5 DEF Rehashing
    <3>2. Contents' = Stored
      BY <2>2, <3>1 DEF Contents, Stored
    <3>3. Contents = Stored
      <4>1. CASE Rehashing
        <5>1. {n \in Occupied(old, old_capacity) : n < i} = Occupied(old, old_capacity)
          BY <1>0, <2>5 DEF TypeOK, Occupied
        <5> QED BY <1>0, <4>1, <5>1 DEF Moving, Contents
      <4>2. CASE ~Rehashing
        BY <4>2 DEF Contents, Stored
      <4> QED BY <4>1, <4>2
    <3> QED BY <2>1, <3>1, <3>2, <3>3 DEF Moving
  <2> QED BY <1>2, <2>3, <2>4, <2>5 DEF RehashStep
<1>3. CASE PlaceAtHome \/ PlaceProbe
  <2>1. CASE Rehashing
    <3>1. /\ Rehashing' /\ Contents' = Contents /\ size' = size /\ pc' # "idle"
      BY <1>3, <2>1, Placing DEF Contents, Rehashing
    <3>2. CASE pc' = "probe"
      <4>1. i' = i /\ arr' = arr /\ UNCHANGED <<capacity, old, old_capacity>>
        BY <1>3, <2>1, <3>2, Placing
      <4>2. Stored' = Stored
        BY <4>1, ContentsKept
      <4> QED BY <1>0, <2>1, <3>1, <4>1, <4>2 DEF Moving
    <3>3. CASE pc' # "probe"
      <4>1. /\ i' = i + 1 /\ UNCHANGED <<old, old_capacity>> /\ i \in Occupied(old, old_capacity)
            /\ Item = old[i]
        BY <1>3, <2>1, <3>3, Placing
      <4>2. Stored' = Stored \cup {old[i]}
        BY <1>3, <3>3, <4>1, PlacementStores
      <4>3. {n \in Occupied(old, old_capacity) : n < i + 1}
              = {n \in Occupied(old, old_capacity) : n < i} \cup {i}
        <5>1. i \in Nat /\ \A n \in Occupied(old, old_capacity) : n \in Nat
          BY <1>0 DEF TypeOK, Occupied
        <5>2. PICK O : O = Occupied(old, old_capacity)
          OBVIOUS
        <5>3. i \in O /\ \A n \in O : n < i + 1 <=> n < i \/ n = i
          BY <4>1, <5>1, <5>2
        <5>4. {n \in O : n < i + 1} = {n \in O : n < i} \cup {i}
          BY <5>3
        <5> QED BY <5>2, <5>4
      <4>4. {n \in Occupied(old, old_capacity)' : n < i'}
              = {n \in Occupied(old, old_capacity) : n < i} \cup {i}
        BY <4>1, <4>3 DEF Occupied
      <4>5. PICK X : X = {n \in Occupied(old, old_capacity) : n < i}
        OBVIOUS
      <4>6. Stored = {old[m] : m \in X}
        BY <1>0, <2>1, <4>5 DEF Moving
      <4>7. Stored' = {old[m] : m \in X \cup {i}}
        BY <4>2, <4>6
      <4>8. Stored' = {old'[m] : m \in {n \in Occupied(old, old_capacity)' : n < i'}}
        BY <4>1, <4>4, <4>5, <4>7
      <4> QED BY <3>1, <4>8 DEF Moving
    <3> QED BY <3>1, <3>2, <3>3
  <2>2. CASE ~Rehashing
    <3>1. ~Rehashing' /\ Contents = Stored /\ Contents' = Stored'
      BY <1>3, <2>2, Placing DEF Contents, Rehashing, Stored
    <3>2. CASE pc' = "probe"
      <4>1. arr' = arr /\ size' = size /\ UNCHANGED <<capacity, old, old_capacity>>
        BY <1>3, <2>2, <3>2, Placing
      <4> QED BY <3>1, <3>2, <4>1, ContentsKept DEF Moving
    <3>3. CASE pc' # "probe"
      <4>1. /\ pc' = "idle" /\ size' = size + 1 /\ Item = entry /\ entry' = entry
            /\ UNCHANGED <<call, res>> /\ pc \in {"home", "probe"}
        BY <1>3, <2>2, <3>3, Placing
      <4>2. Stored' = Stored \cup {entry}
        BY <1>3, <3>3, <4>1, PlacementStores
      <4> QED BY <3>1, <4>1, <4>2 DEF Moving
    <3> QED BY <3>2, <3>3
  <2> QED BY <2>1, <2>2
<1>4. CASE Destroy \/ ProbeOn \/ NotFound \/ GetFound \/ UNCHANGED vars \/ \E k \in Keys : Get(k)
  <2>1. UNCHANGED <<arr, size, capacity, old, old_capacity, i>>
    BY <1>4 DEF Destroy, ProbeOn, NotFound, GetFound, Get, Lookup, map, growth, vars
  <2>2. ~ (pc \in {"rehash", "home", "probe"} /\ pc' = "idle")
    BY <1>4 DEF Destroy, ProbeOn, NotFound, GetFound, Get, Lookup, vars
  <2> QED BY <1>0, <2>1, <2>2, ContentsKept DEF Moving
<1> QED BY <1>1, <1>2, <1>3, <1>4 DEF Used

-----------------------------------------------------------------------------
(* The steps of the allocator.                                             *)

\* A new entry has a slot below the others, which is an offset.
LEMMA NewEntry ==
    ASSUME AInv, Fresh
    PROVE  /\ new_entry(entry.key) \in Entry /\ entry' = new_entry(entry.key)
           /\ entry'.key = entry.key /\ entry'.data = offset' /\ offset' = offset - SlotSize
           /\ size < MaxSize /\ offset' = -((size + 1) * SlotSize)
           /\ pc = "idle" /\ pc' # "idle" /\ size' = size /\ apc = "lookup" /\ apc' = "insert"
           /\ call' = "insert" /\ frame' = frame /\ res.key = Null /\ Insert(new_entry(entry.key))
<1>1. /\ apc = "lookup" /\ pc = "idle" /\ entry.key \in Keys /\ apc' = "insert" /\ frame' = frame
      /\ offset' = offset - SlotSize /\ entry' = new_entry(entry.key) /\ size < MaxSize
      /\ pc' # "idle" /\ size' = size /\ call' = "insert" /\ res.key = Null
      /\ Insert(new_entry(entry.key))
  BY DEF Fresh, AInv, Phase, Insert, lowered, map
<1>2. size \in Nat /\ MaxSize \in Nat /\ offset = -(size * SlotSize) /\ SlotSize \in Nat
  BY <1>1, OffsetAssumption, SlotSizeAssumption DEF AInv, IInv, TypeOK, Lowest, given
<1>3. offset' = -((size + 1) * SlotSize)
  BY <1>1, <1>2
<1>4. offset' \in Data
  <2>1. size + 1 \in 1..MaxSize
    BY <1>1, <1>2
  <2> QED BY <1>3, <2>1, OffsetAssumption
<1>5. new_entry(entry.key) = [key |-> entry.key, data |-> offset']
  BY <1>1 DEF new_entry, lowered
<1>6. new_entry(entry.key) \in Entry
  BY <1>1, <1>4, <1>5 DEF Entry
<1> QED BY <1>1, <1>3, <1>5, <1>6

\* The allocator takes steps of the map, and none of those that remove.
LEMMA AllocUses ==
    ASSUME AInv, [AllocNext]_allocVars
    PROVE  Used /\ [Next]_vars
<1>1. CASE MapStep
  <2>1. call # "remove" /\ pc # "shift"
    BY DEF AInv, Phase
  <2>2. RehashStep \/ PlaceAtHome \/ PlaceProbe \/ ProbeOn \/ NotFound \/ GetFound
    BY <1>1, <2>1 DEF MapStep, Step, RemoveFound, ShiftStep, ShiftPastEnd
  <2>3. Step
    BY <1>1 DEF MapStep
  <2> QED BY <2>2, <2>3 DEF Used, Next
<1>2. CASE Fresh
  <2>1. \E e \in Entry : Insert(e)
    BY <1>2, NewEntry
  <2> QED BY <2>1 DEF Used, Next, InsertAny
<1>3. ASSUME NEW v \in Keys, Ask(v) PROVE Used /\ [Next]_vars
  BY <1>3 DEF Ask, Used, Next, LookupAny
<1>4. CASE Reserve
  BY <1>4 DEF Reserve, Used, Next
<1>5. CASE Known \/ Recorded \/ UNCHANGED allocVars
  BY <1>5 DEF Known, Recorded, allocVars, Used
<1> QED BY <1>1, <1>2, <1>3, <1>4, <1>5 DEF AllocNext, AllocStep

\* The phases follow one another.
LEMMA PhaseStep ==
    ASSUME AInv, [AllocNext]_allocVars
    PROVE  Phase'
<1>0. Phase /\ IInv
  BY DEF AInv
<1>1. CASE MapStep
  <2>1. UNCHANGED <<apc, frame>>
    BY <1>1 DEF MapStep, alloc
  <2>2. RehashStep \/ PlaceAtHome \/ PlaceProbe \/ ProbeOn \/ NotFound \/ GetFound
    <3>1. call # "remove" /\ pc # "shift"
      BY <1>0 DEF Phase
    <3> QED BY <1>1, <3>1 DEF MapStep, Step, RemoveFound, ShiftStep, ShiftPastEnd
  <2>3. /\ UNCHANGED <<call, entry>>
        /\ pc \in {"rehash", "home", "probe"} => pc' \in {"idle", "rehash", "home", "probe"}
        /\ pc = "get" => pc' \in {"get", "idle"} /\ (pc' = "get" => res' = res)
        /\ pc \in {"rehash", "home", "probe", "get"}
    BY <2>2 DEF RehashStep, PlaceAtHome, PlaceProbe, PlaceReturns, ProbeOn, NotFound, GetFound
  <2> QED BY <1>0, <2>1, <2>3 DEF Phase
<1>2. CASE Fresh
  <2>1. pc' \in {"home", "rehash"} /\ frame' = frame /\ frame = -1
    BY <1>0, <1>2, NewEntry DEF Insert, Phase
  <2> QED BY <1>2, <2>1, NewEntry DEF Phase
<1>3. ASSUME NEW v \in Keys, Ask(v) PROVE Phase'
  BY <1>0, <1>3 DEF Ask, Get, Lookup, Phase
<1>4. CASE Reserve
  <2>1. -offset \in Nat
    <3>1. given \in Nat /\ offset = -(given * SlotSize) /\ SlotSize \in Nat
      BY OffsetAssumption, SlotSizeAssumption DEF AInv, Lowest
    <3> QED BY <3>1
  <2> QED BY <1>0, <1>4, <2>1 DEF Reserve, Destroy, Phase
<1>5. CASE Known \/ Recorded \/ UNCHANGED allocVars
  BY <1>0, <1>5 DEF Known, Recorded, allocVars, alloc, vars, Phase
<1> QED BY <1>1, <1>2, <1>3, <1>4, <1>5 DEF AllocNext, AllocStep

\* The lowest slot is the last one given out.
LEMMA LowestStep ==
    ASSUME AInv, [AllocNext]_allocVars
    PROVE  Lowest'
<1>0. /\ Phase /\ Lowest /\ size \in Nat /\ MaxSize \in Nat
  BY OffsetAssumption DEF AInv, IInv, TypeOK
<1>1. CASE MapStep
  <2>1. UNCHANGED <<apc, offset>> /\ entry' = entry /\ Used /\ pc # "idle"
    BY <1>1, AllocUses DEF MapStep, alloc, Step, RehashStep, PlaceAtHome, PlaceProbe, ProbeOn, NotFound,
       GetFound, RemoveFound, ShiftStep, ShiftPastEnd
  <2>2. given' = given
    <3>1. CASE size' = size /\ ~ (pc \in {"rehash", "home", "probe"} /\ pc' = "idle")
      BY <1>0, <2>1, <3>1 DEF given, Phase
    <3>2. CASE size' = size + 1 /\ pc \in {"home", "probe"} /\ pc' = "idle"
      BY <1>0, <2>1, <3>2 DEF given, Phase
    <3> QED BY <2>1, <3>1, <3>2, ContentsStep
  <2> QED BY <1>0, <2>1, <2>2 DEF Lowest
<1>2. CASE Fresh
  BY <1>0, <1>2, NewEntry DEF Lowest, given
<1>3. ASSUME NEW v \in Keys, Ask(v) PROVE Lowest'
  BY <1>0, <1>3 DEF Ask, Get, Lookup, map, Lowest, given, Phase
<1>4. CASE Known \/ Recorded \/ Reserve \/ UNCHANGED allocVars
  <2>1. /\ UNCHANGED <<size, offset, entry>>
        /\ apc' = "insert" => apc = "insert" /\ pc' = pc
    BY <1>4 DEF Known, Recorded, Reserve, Destroy, allocVars, alloc, vars, map
  <2>2. given' = given
    BY <1>0, <1>4, <2>1 DEF Known, Recorded, Reserve, Destroy, allocVars, alloc, vars, given, Phase
  <2> QED BY <1>0, <2>1, <2>2 DEF Lowest
<1> QED BY <1>1, <1>2, <1>3, <1>4 DEF AllocNext, AllocStep

\* A lookup that ends has answered right: the entry at hand is stored, and at an
\* empty slot there is none to be found.
LEMMA LookupAnswers ==
    ASSUME AInv, NotFound \/ GetFound
    PROVE  IF res'.key = Null THEN \A e \in Contents : e.key # entry.key
                              ELSE res' \in Contents /\ res'.key = entry.key
<1>1. /\ TypeOK /\ pc = "get" /\ entry.key \in Keys /\ res = Empty /\ ~Rehashing /\ Paths
  BY DEF AInv, IInv, Growth, Hole, Phase, NotFound, GetFound
<1>2. Contents = Stored
  BY <1>1 DEF Contents, Stored
<1>3. index \in 0..(capacity - 1) /\ get_index(entry.key) \in 0..(capacity - 1) /\ capacity \in Nat
  BY <1>1, IndexInRange DEF TypeOK
<1>4. CASE GetFound
  <2>1. res' = arr[index] /\ res'.key # Null /\ res'.key = entry.key /\ index \in Held
    BY <1>3, <1>4 DEF GetFound, is_key_equal, Held, Occupied
  <2> QED BY <1>2, <2>1 DEF Stored
<1>5. CASE NotFound
  <2>1. res'.key = Null /\ arr[index].key = Null
    BY <1>1, <1>5, EmptyIsSlot DEF NotFound
  <2> SUFFICES ASSUME NEW j \in Held, arr[j].key = entry.key PROVE FALSE
    BY <1>2, <2>1 DEF Stored
  <2>2. j \in 0..(capacity - 1) /\ index \notin Held
    BY <2>1 DEF Held, Occupied
  <2>3. ~ OnPath(get_index(entry.key), j, index)
    BY <1>1, <1>3, <2>2 DEF Paths, ProbePathFull
  <2>4. OnPath(get_index(entry.key), index, j)
    <3>1. PICK h, a, b : h = get_index(entry.key) /\ a = j /\ b = index
      OBVIOUS
    <3>2. h \in Nat /\ a \in Nat /\ b \in Nat
      BY <1>3, <2>2, <3>1
    <3>3. OnPath(h, a, b) \/ OnPath(h, b, a)
      BY <3>2, PathTotal
    <3> QED BY <2>3, <3>1, <3>3
  <2>5. j = index \/ arr[j].key # entry.key
    BY <1>1, <2>2, <2>4 DEF Paths
  <2> QED BY <2>2, <2>5
<1> QED BY <1>4, <1>5

\* What is stored is what was given out.
LEMMA RecalledStep ==
    ASSUME AInv, [AllocNext]_allocVars
    PROVE  Recalled'
<1>0. /\ Phase /\ Recalled /\ TypeOK /\ SlotSize \in Nat /\ offset \in Int
      /\ Used /\ \A e \in Contents : e.data \in Int
  <2>1. offset \in Int
    <3>1. given \in Nat /\ SlotSize \in Nat /\ offset = -(given * SlotSize)
      BY OffsetAssumption, SlotSizeAssumption DEF AInv, Lowest
    <3> QED BY <3>1
  <2>2. \A e \in Contents : e.data \in Int
    BY ContentsAreEntries, OffsetAssumption DEF AInv, IInv, Entry
  <2> QED BY <2>1, <2>2, AllocUses, SlotSizeAssumption DEF AInv, IInv
<1>1. CASE MapStep
  <2>1. UNCHANGED <<apc, offset, entry>> /\ pc # "idle"
    BY <1>1 DEF MapStep, alloc, Step, RehashStep, PlaceAtHome, PlaceProbe, ProbeOn, NotFound,
       GetFound, RemoveFound, ShiftStep, ShiftPastEnd
  <2>2. CASE Contents' = Contents /\ ~ (pc \in {"rehash", "home", "probe"} /\ pc' = "idle")
    <3>1. apc = "insert" => pc' # "idle"
      BY <1>0, <2>1, <2>2 DEF Phase
    <3>2. apc = "lookup" /\ pc' = "idle" =>
              IF res'.key = Null THEN \A e \in Contents : e.key # entry.key
                                 ELSE res' \in Contents /\ res'.key = entry.key
      <4> SUFFICES ASSUME apc = "lookup", pc' = "idle"
                   PROVE  IF res'.key = Null THEN \A e \in Contents : e.key # entry.key
                                             ELSE res' \in Contents /\ res'.key = entry.key
        OBVIOUS
      <4>1. pc = "get" /\ call # "remove"
        BY <1>0, <2>1 DEF Phase
      <4>2. NotFound \/ GetFound
        BY <1>1, <4>1 DEF MapStep, Step, RehashStep, PlaceAtHome, PlaceProbe, ProbeOn, RemoveFound,
           ShiftStep, ShiftPastEnd
      <4> QED BY <4>2, LookupAnswers
    <3> QED BY <1>0, <2>1, <2>2, <3>1, <3>2 DEF Recalled
  <2>3. CASE Contents' = Contents \cup {entry} /\ pc \in {"home", "probe"} /\ pc' = "idle"
    <3>1. apc = "insert" /\ \A e \in Contents : e.key # entry.key
      BY <1>0, <2>3 DEF Phase, Recalled
    <3>2. entry.data = offset
      BY <3>1 DEF AInv, Lowest
    <3> QED BY <1>0, <2>1, <2>3, <3>1, <3>2 DEF Recalled
  <2> QED BY <1>0, <2>2, <2>3, ContentsStep
<1>2. CASE Fresh
  <2>1. Contents' = Contents
    BY <1>0, <1>2, ContentsStep, NewEntry
  <2>2. \A e \in Contents : e.key # entry.key
    BY <1>0, <1>2, NewEntry DEF Recalled
  <2>3. \A e \in Contents : e.data >= offset' + SlotSize /\ e.data >= offset'
    <3>1. offset' = offset - SlotSize
      BY <1>2, NewEntry
    <3> QED BY <1>0, <3>1 DEF Recalled
  <2> QED BY <1>0, <1>2, <2>1, <2>2, <2>3, NewEntry DEF Recalled
<1>3. ASSUME NEW v \in Keys, Ask(v) PROVE Recalled'
  <2>1. /\ UNCHANGED <<arr, capacity, old, old_capacity, offset>>
        /\ apc' = "lookup" /\ pc' = "get"
    BY <1>3 DEF Ask, Get, Lookup, map, growth
  <2> QED BY <1>0, <2>1, ContentsKept DEF Recalled
<1>4. CASE Known \/ Recorded \/ Reserve
  <2>1. /\ UNCHANGED <<arr, capacity, old, old_capacity, offset>>
        /\ apc' \in {"ready", "done"}
    BY <1>4 DEF Known, Recorded, Reserve, Destroy, vars, map, growth
  <2> QED BY <1>0, <2>1, ContentsKept DEF Recalled
<1>5. CASE UNCHANGED allocVars
  <2>1. UNCHANGED <<arr, capacity, old, old_capacity, offset, apc, pc, entry, res>>
    BY <1>5 DEF allocVars, alloc, vars
  <2> QED BY <1>0, <2>1, ContentsKept DEF Recalled
<1> QED BY <1>1, <1>2, <1>3, <1>4, <1>5 DEF AllocNext, AllocStep

\* The invariant holds first.
LEMMA InitAInv == stack_allocator_init => AInv
<1> SUFFICES ASSUME stack_allocator_init PROVE AInv
  OBVIOUS
<1>1. /\ Init /\ offset = 0 /\ apc = "ready" /\ frame = -1
      /\ pc = "idle" /\ call = "none" /\ size = 0 /\ ~Rehashing
  BY DEF stack_allocator_init, Init, Rehashing
<1>2. IInv
  BY <1>1, InitType
<1>3. Held = {}
  <2>1. arr = Blank(capacity) /\ capacity \in Nat
    BY <1>1, SizeAssumption DEF Init
  <2> QED BY <2>1, BlankIsArray DEF Held
<1>4. Contents = {}
  BY <1>1, <1>3 DEF Contents
<1>5. Lowest
  BY <1>1, OffsetAssumption, SlotSizeAssumption DEF Lowest, given
<1> QED BY <1>1, <1>2, <1>3, <1>4, <1>5 DEF AInv, Phase, Paths, ProbePathFull, Moving, Recalled

\* Every step keeps the invariant.
LEMMA AInvStep == AInv /\ [AllocNext]_allocVars => AInv'
<1> SUFFICES ASSUME AInv, [AllocNext]_allocVars PROVE AInv'
  OBVIOUS
<1>1. Used /\ [Next]_vars /\ IInv /\ Paths
  BY AllocUses DEF AInv
<1>2. IInv'
  BY <1>1, TypeStep, GrowthStep, HoleStep, LoadStep, CountStep DEF IInv
<1> QED BY <1>1, <1>2, PathsStep, ContentsStep, PhaseStep, LowestStep, RecalledStep DEF AInv

\* The invariant of the allocator and its map.
LEMMA AllocInductive == AllocSpec => []AInv
<1> QED BY InitAInv, AInvStep, PTL DEF AllocSpec

-----------------------------------------------------------------------------
(* The theorems.                                                           *)

\* hashmap_get finds every entry that the allocator has stored: the slots from the
\* home of an entry to its own are full, around the end of the array too, whatever
\* variables collide and however often the array has grown.
THEOREM PathsFull == AllocSpec => []ProbePathFull
<1>1. AInv => ProbePathFull
  BY DEF AInv, Paths
<1> QED BY <1>1, AllocInductive, PTL

\* The slot of a variable, when the variable's entry is known.
LEMMA SlotIs ==
    ASSUME \A e, f \in Contents : e.key = f.key => e = f, NEW v
    PROVE  /\ apc = "insert" /\ v = entry.key => SlotOf(v) = Null
           /\ (\A e \in Contents : e.key # v) => SlotOf(v) = Null
           /\ ~ (apc = "insert" /\ v = entry.key) =>
                  \A e \in Contents : e.key = v => SlotOf(v) = e.data
<1>1. ASSUME NEW e \in Contents, e.key = v, ~ (apc = "insert" /\ v = entry.key)
      PROVE  SlotOf(v) = e.data
  <2>1. (CHOOSE f \in Contents : f.key = v) = e
    BY <1>1
  <2> QED BY <1>1, <2>1 DEF SlotOf
<1> QED BY <1>1 DEF SlotOf

\* No variable has a slot at first.
LEMMA InitSlots == stack_allocator_init => S!Init
<1> SUFFICES ASSUME stack_allocator_init PROVE S!Init
  OBVIOUS
<1>1. AInv
  BY InitAInv
<1>2. Contents = {}
  <2>1. arr = Blank(capacity) /\ capacity \in Nat /\ ~Rehashing
    BY SizeAssumption DEF stack_allocator_init, Init, Rehashing
  <2>2. Held = {}
    BY <2>1, BlankIsArray DEF Held
  <2> QED BY <2>1, <2>2 DEF Contents
<1>3. \A v \in Keys : SlotOf(v) = Null
  BY <1>1, <1>2, SlotIs DEF AInv, Recalled
<1> QED BY <1>3 DEF stack_allocator_init, S!Init

\* A step that keeps the contents or adds the entry that is being recorded gives no
\* variable another slot, unless the entry has been recorded.
LEMMA SlotsSame ==
    ASSUME AInv, AInv', Contents' = Contents \/ (Contents' = Contents \cup {entry} /\ apc = "insert"),
           apc = "insert" => apc' = "insert" /\ entry' = entry,
           apc' = "insert" => apc = "insert" \/ \A e \in Contents : e.key # entry'.key
    PROVE  \A v \in Keys : SlotOf(v)' = SlotOf(v)
<1>1. /\ \A e, f \in Contents : e.key = f.key => e = f
      /\ \A e, f \in Contents' : e.key = f.key => e = f
  BY DEF AInv, Recalled
<1> SUFFICES ASSUME NEW v \in Keys PROVE SlotOf(v)' = SlotOf(v)
  OBVIOUS
<1>2. /\ apc' = "insert" /\ v = entry'.key => SlotOf(v)' = Null
      /\ (\A e \in Contents' : e.key # v) => SlotOf(v)' = Null
      /\ ~ (apc' = "insert" /\ v = entry'.key) =>
             \A e \in Contents' : e.key = v => SlotOf(v)' = e.data
  <2>1. ASSUME NEW e \in Contents', e.key = v, ~ (apc' = "insert" /\ v = entry'.key)
        PROVE  SlotOf(v)' = e.data
    <3>1. (CHOOSE f \in Contents' : f.key = v) = e
      BY <1>1, <2>1
    <3> QED BY <2>1, <3>1 DEF SlotOf
  <2> QED BY <2>1 DEF SlotOf
<1>3. /\ apc = "insert" /\ v = entry.key => SlotOf(v) = Null
      /\ (\A e \in Contents : e.key # v) => SlotOf(v) = Null
      /\ ~ (apc = "insert" /\ v = entry.key) =>
             \A e \in Contents : e.key = v => SlotOf(v) = e.data
  BY <1>1, SlotIs
<1>4. CASE apc = "insert" /\ v = entry.key
  BY <1>2, <1>3, <1>4
<1>5. CASE apc' = "insert" /\ v = entry'.key
  BY <1>2, <1>3, <1>5
<1>6. CASE ~ (apc = "insert" /\ v = entry.key) /\ ~ (apc' = "insert" /\ v = entry'.key)
  <2>1. CASE \E e \in Contents : e.key = v
    <3>1. PICK e \in Contents : e.key = v
      BY <2>1
    <3>2. e \in Contents'
      OBVIOUS
    <3> QED BY <1>2, <1>3, <1>6, <3>1, <3>2
  <2>2. CASE \A e \in Contents : e.key # v
    <3>1. \A e \in Contents' : e.key # v
      BY <1>6, <2>2
    <3> QED BY <1>2, <1>3, <2>2, <3>1
  <2> QED BY <2>1, <2>2
<1> QED BY <1>4, <1>5, <1>6

\* A slot that is given to a variable is that of its entry.
LEMMA SlotsStored ==
    ASSUME AInv, NEW v \in Keys, SlotOf(v) # Null
    PROVE  /\ \E e \in Contents : e.key = v /\ e.data = SlotOf(v)
           /\ apc = "insert" => v # entry.key
<1>1. \A e, f \in Contents : e.key = f.key => e = f
  BY DEF AInv, Recalled
<1> QED BY <1>1, SlotIs

\* Every step is a step of Slots, or changes nothing that Slots knows: a request ends
\* with the slot the variable has, or with a new one below all others.
LEMMA StepSlots == AInv /\ AInv' /\ [AllocNext]_allocVars => [S!Next]_S!vars
<1> SUFFICES ASSUME AInv, AInv', [AllocNext]_allocVars PROVE [S!Next]_S!vars
  OBVIOUS
<1> DEFINE slots == [v \in Keys |-> SlotOf(v)]
<1>0. /\ Used /\ Phase /\ Recalled /\ SlotSize \in Nat \ {0} /\ offset \in Int
      /\ offset \in Data \cup {0} /\ offset <= 0
  <2>1. given \in 0..MaxSize /\ SlotSize \in Nat /\ MaxSize \in Nat /\ offset = -(given * SlotSize)
    BY OffsetAssumption, SlotSizeAssumption DEF AInv, Lowest
  <2>2. offset \in Data \cup {0}
    <3>1. CASE given = 0
      BY <2>1, <3>1
    <3>2. CASE given \in 1..MaxSize
      BY <2>1, <3>2, OffsetAssumption
    <3> QED BY <2>1, <3>1, <3>2
  <2>3. offset \in Int /\ offset <= 0
    BY <2>1
  <2> QED BY <2>2, <2>3, AllocUses, SlotSizeAssumption DEF AInv
<1>1. ASSUME \A v \in Keys : SlotOf(v)' = SlotOf(v), UNCHANGED <<answer, frame>>
      PROVE  UNCHANGED S!vars
  BY <1>1 DEF S!vars
<1>2. CASE MapStep
  <2>1. UNCHANGED <<apc, entry, answer, frame>>
    BY <1>2 DEF MapStep, alloc, Step, RehashStep, PlaceAtHome, PlaceProbe, ProbeOn, NotFound,
       GetFound, RemoveFound, ShiftStep, ShiftPastEnd
  <2>2. Contents' = Contents \/ (Contents' = Contents \cup {entry} /\ apc = "insert")
    BY <1>0, ContentsStep DEF Phase
  <2> QED BY <1>1, <2>1, <2>2, SlotsSame
<1>3. CASE Fresh
  <2>1. /\ Contents' = Contents /\ apc = "lookup" /\ UNCHANGED <<answer, frame>>
        /\ \A e \in Contents : e.key # entry'.key
    <3>1. Contents' = Contents
      BY <1>0, <1>3, ContentsStep, NewEntry
    <3>2. \A e \in Contents : e.key # entry.key
      BY <1>0, <1>3, NewEntry DEF Recalled
    <3> QED BY <1>3, <3>1, <3>2, NewEntry DEF Fresh
  <2> QED BY <1>1, <2>1, SlotsSame
<1>4. ASSUME NEW v \in Keys, Ask(v) PROVE UNCHANGED S!vars
  <2>1. /\ UNCHANGED <<arr, capacity, old, old_capacity, answer, frame>>
        /\ apc = "ready" /\ apc' = "lookup"
    BY <1>4 DEF Ask, Get, Lookup, map, growth
  <2>2. Contents' = Contents
    BY <2>1, ContentsKept
  <2> QED BY <1>1, <2>1, <2>2, SlotsSame
<1>5. CASE Known
  <2>1. /\ UNCHANGED <<arr, capacity, old, old_capacity, entry, frame>>
        /\ apc = "lookup" /\ apc' = "ready" /\ pc = "idle" /\ res.key # Null
        /\ answer' = <<entry.key, res.data>>
    BY <1>5 DEF Known, vars
  <2>2. Contents' = Contents
    BY <2>1, ContentsKept
  <2>3. \A v \in Keys : SlotOf(v)' = SlotOf(v)
    BY <2>1, <2>2, SlotsSame
  <2>4. /\ entry.key \in Keys /\ frame = -1 /\ res \in Contents /\ res.key = entry.key
    BY <1>0, <2>1 DEF Phase, Recalled
  <2>5. SlotOf(entry.key) = res.data /\ res.data # Null
    <3>1. res.data # Null
      BY <2>4, ContentsAreEntries, OffsetAssumption DEF AInv, IInv, Entry
    <3> QED BY <1>0, <2>1, <2>4, <3>1, SlotIs DEF Recalled
  <2>6. slots' = slots
    BY <2>3
  <2>7. S!Ask(entry.key)
    BY <2>1, <2>4, <2>5, <2>6 DEF S!Ask
  <2> QED BY <2>4, <2>7 DEF S!Next
<1>6. CASE Recorded
  <2>1. /\ UNCHANGED <<arr, capacity, old, old_capacity, entry, frame>>
        /\ apc = "insert" /\ apc' = "ready" /\ pc = "idle"
        /\ answer' = <<entry.key, offset>>
    BY <1>6 DEF Recorded, vars
  <2>2. Contents' = Contents
    BY <2>1, ContentsKept
  <2>3. /\ entry.key \in Keys /\ frame = -1 /\ entry \in Contents /\ entry.data = offset
        /\ offset \in Data
    <3>1. entry \in Entry
      BY <1>0, <2>1 DEF Phase
    <3> QED BY <1>0, <2>1, <3>1 DEF Phase, Recalled, AInv, Lowest, Entry
  <2>4. SlotOf(entry.key) = Null
    BY <1>0, <2>1, SlotIs DEF Recalled
  <2>5. ASSUME NEW v \in Keys
        PROVE  /\ v = entry.key => SlotOf(v)' = offset
               /\ v # entry.key => SlotOf(v)' = SlotOf(v)
    <3>1. \A e, f \in Contents : e.key = f.key => e = f
      BY <1>0 DEF Recalled
    <3>2. ASSUME NEW e \in Contents, e.key = v PROVE SlotOf(v)' = e.data
      <4>1. (CHOOSE f \in Contents' : f.key = v) = e
        BY <2>2, <3>1, <3>2
      <4>2. e \in Contents' /\ apc' # "insert"
        BY <2>1, <2>2
      <4> QED BY <3>2, <4>1, <4>2 DEF SlotOf
    <3>3. (\A e \in Contents : e.key # v) => SlotOf(v)' = Null
      BY <2>1, <2>2 DEF SlotOf
    <3> QED BY <2>1, <2>3, <3>1, <3>2, <3>3, SlotIs
  <2>6. slots' = [slots EXCEPT ![entry.key] = offset]
    BY <2>3, <2>5
  <2>7. ASSUME NEW v \in Keys, SlotOf(v) # Null PROVE SlotOf(v) - offset >= SlotSize
    <3>1. PICK e \in Contents : e.key = v /\ e.data = SlotOf(v)
      BY <2>7, SlotsStored
    <3>2. v # entry.key
      BY <2>1, <2>7, SlotsStored
    <3>3. e.data >= offset + SlotSize /\ e.data \in Int
      BY <1>0, <2>1, <3>1, <3>2, ContentsAreEntries, OffsetAssumption DEF Recalled, AInv, IInv, Entry
    <3> QED BY <1>0, <3>1, <3>3
  <2>8. offset <= -SlotSize
    <3>1. given \in 0..MaxSize /\ offset = -(given * SlotSize)
      BY DEF AInv, Lowest
    <3>2. given # 0
      <4>1. offset # 0
        <5>1. Held # {}
          <6>1. ~Rehashing
            BY <2>1 DEF AInv, IInv, Growth
          <6> QED BY <2>3, <6>1 DEF Contents
        <5>2. Cardinality(Held) # 0 /\ Cardinality(Held) \in Nat /\ Cardinality(Waiting) \in Nat
          BY <5>1, HeldFinite, FS_EmptySet DEF AInv, IInv
        <5>3. size > 0
          <6>1. size \in Nat /\ Cardinality(Held) + Cardinality(Waiting) <= size
            BY DEF AInv, IInv, SizeCoversEntries, TypeOK
          <6> HIDE DEF Held, Waiting
          <6> QED BY <5>2, <6>1
        <5>4. given = size
          BY <2>1 DEF given
        <5> QED BY <1>0, <3>1, <5>3, <5>4
      <4> QED BY <1>0, <3>1, <4>1
    <3> QED BY <1>0, <3>1, <3>2, OffsetAssumption
  <2>9. S!Ask(entry.key)
    <3>1. slots[entry.key] = Null
      BY <2>3, <2>4
    <3>2. \A w \in Keys : slots[w] # Null => S!Apart(slots[w], offset)
      BY <2>7 DEF S!Apart
    <3>3. answer' = <<entry.key, slots'[entry.key]>>
      BY <2>1, <2>3, <2>6
    <3> QED BY <2>1, <2>3, <2>6, <2>8, <3>1, <3>2, <3>3 DEF S!Ask
  <2> QED BY <2>3, <2>9 DEF S!Next
<1>7. CASE Reserve
  <2>1. /\ UNCHANGED <<arr, capacity, old, old_capacity, answer>>
        /\ apc = "ready" /\ apc' = "done" /\ frame' = -offset
    BY <1>7 DEF Reserve, Destroy, map, growth
  <2>2. Contents' = Contents
    BY <2>1, ContentsKept
  <2>3. \A v \in Keys : SlotOf(v)' = SlotOf(v)
    BY <2>1, <2>2, SlotsSame
  <2>4. slots' = slots /\ frame = -1
    BY <1>0, <2>1, <2>3 DEF Phase
  <2>5. ASSUME NEW v \in Keys, SlotOf(v) # Null PROVE frame' + SlotOf(v) >= 0
    <3>1. PICK e \in Contents : e.key = v /\ e.data = SlotOf(v)
      BY <2>5, SlotsStored
    <3>2. e.data >= offset /\ e.data \in Int
      BY <1>0, <3>1, ContentsAreEntries, OffsetAssumption DEF Recalled, AInv, IInv, Entry
    <3> QED BY <1>0, <2>1, <3>1, <3>2
  <2>6. frame' \in {-o : o \in Data} \cup {0}
    BY <1>0, <2>1
  <2>7. S!Reserve
    BY <2>1, <2>4, <2>5, <2>6 DEF S!Reserve
  <2> QED BY <2>7 DEF S!Next
<1>8. CASE UNCHANGED allocVars
  <2>1. /\ UNCHANGED <<arr, capacity, old, old_capacity, answer, frame, apc, entry>>
    BY <1>8 DEF allocVars, alloc, vars
  <2>2. Contents' = Contents
    BY <2>1, ContentsKept
  <2> QED BY <1>1, <2>1, <2>2, SlotsSame
<1> QED BY <1>2, <1>3, <1>4, <1>5, <1>6, <1>7, <1>8 DEF AllocNext, AllocStep

\* The stack allocator of codegen.c implements Slots: it gives each variable of a
\* function one stack slot, the same at every request, apart from all others, and
\* inside the frame that is reserved.
THEOREM AllocatorKeepsSlots == AllocSpec => SlotsKept
<1>1. AInv /\ AInv' /\ [AllocNext]_allocVars => [S!Next]_S!vars
  BY StepSlots
<1> QED BY InitSlots, AllocInductive, <1>1, PTL DEF AllocSpec, SlotsKept, S!Spec

-----------------------------------------------------------------------------
(* The size of the map.                                                    *)

\* The entries number size, those in the old array while a rehash runs.
Counted == IsFiniteSet(Contents) /\ Cardinality(Contents) = size

\* An insert that ends adds the entry of a variable that had none; nothing else
\* changes the entries or the size.
LEMMA CountedStep ==
    ASSUME AInv, Counted, [AllocNext]_allocVars
    PROVE  Counted'
<1>1. PICK C : C = Contents
  OBVIOUS
<1>2. PICK D : D = Contents'
  OBVIOUS
<1>3. IsFiniteSet(C) /\ Cardinality(C) = size
  BY <1>1 DEF Counted
<1>4. \/ Contents' = Contents /\ size' = size
      \/ /\ Contents' = Contents \cup {entry} /\ size' = size + 1
         /\ pc \in {"home", "probe"}
  BY AllocUses, ContentsStep
<1>5. CASE Contents' = Contents /\ size' = size
  BY <1>5 DEF Counted
<1>6. CASE Contents' = Contents \cup {entry} /\ size' = size + 1 /\ pc \in {"home", "probe"}
  <2>1. apc = "insert" /\ pc # "idle"
    BY <1>6 DEF AInv, Phase
  <2>2. entry \notin C
    BY <1>1, <2>1 DEF AInv, Recalled
  <2>3. D = C \cup {entry}
    BY <1>1, <1>2, <1>6
  <2>4. IsFiniteSet(D) /\ Cardinality(D) = Cardinality(C) + 1
    BY <1>3, <2>2, <2>3, FS_AddElement
  <2>5. Cardinality(D) = size'
    BY <1>3, <1>6, <2>4
  <2> QED BY <1>2, <2>4, <2>5 DEF Counted
<1> QED BY <1>4, <1>5, <1>6

\* Between calls the slots that are full are as many as the entries: no fewer, being
\* theirs, and no more than size.
LEMMA ExactWhenIdle ==
    ASSUME AInv, Counted
    PROVE  SizeIsExact
<1> SUFFICES ASSUME pc = "idle" PROVE size = Cardinality(Held)
  BY DEF SizeIsExact
<1>1. TypeOK /\ ~Rehashing /\ Contents = Stored
  BY DEF AInv, IInv, Growth, Contents, Stored
<1>2. PICK H : H = Held
  OBVIOUS
<1>3. PICK T : T = Stored
  OBVIOUS
<1>4. IsFiniteSet(H) /\ Cardinality(H) \in Nat /\ Cardinality(T) = size
  BY <1>1, <1>2, <1>3, HeldFinite DEF Counted
<1>5. PICK f : f = [j \in H |-> arr[j]]
  OBVIOUS
<1>6. f \in Surjection(H, T)
  <2>1. \A j \in H : f[j] \in T
    BY <1>2, <1>3, <1>5 DEF Stored
  <2>2. \A t \in T : \E j \in H : f[j] = t
    BY <1>2, <1>3, <1>5 DEF Stored
  <2> QED BY <1>5, <2>1, <2>2 DEF Surjection
<1>7. Cardinality(T) <= Cardinality(H)
  BY <1>4, <1>6, FS_Surjection
<1>8. Cardinality(H) <= size
  <2>1. PICK w : w = Cardinality(Waiting)
    OBVIOUS
  <2>2. w \in Nat /\ Cardinality(H) + w <= size /\ size \in Nat
    BY <1>1, <1>2, <2>1, HeldFinite DEF AInv, IInv, SizeCoversEntries, TypeOK
  <2> QED BY <1>4, <2>2
<1>9. size \in Nat
  BY <1>1 DEF TypeOK
<1>10. size = Cardinality(H)
  BY <1>4, <1>7, <1>8, <1>9
<1> QED BY <1>2, <1>10

\* As the allocator uses the map, size is the number of entries, as hashmap.h says:
\* the load factor that hashmap_insert reads is the true one, though the map counts an
\* insert that it refuses.
THEOREM AllocatorSizeExact == AllocSpec => []SizeIsExact
<1>1. stack_allocator_init => AInv /\ Counted
  <2> SUFFICES ASSUME stack_allocator_init PROVE AInv /\ Counted
    OBVIOUS
  <2>1. ~Rehashing /\ arr = Blank(capacity) /\ capacity \in Nat /\ size = 0
    BY SizeAssumption DEF stack_allocator_init, Init, Rehashing
  <2>2. Contents = {}
    BY <2>1, BlankIsArray DEF Contents, Held
  <2> QED BY <2>1, <2>2, InitAInv, FS_EmptySet DEF Counted
<1>2. AInv /\ Counted /\ [AllocNext]_allocVars => (AInv /\ Counted)'
  BY AInvStep, CountedStep
<1>3. AInv /\ Counted => SizeIsExact
  BY ExactWhenIdle
<1> QED BY <1>1, <1>2, <1>3, PTL DEF AllocSpec

-----------------------------------------------------------------------------
(* The contracts of hashmap.h, as the allocator uses the map.              *)

\* Between calls, and while an insert places its own entry, the keys that are stored
\* are those of the contents.
LEMMA StoredAreContents ==
    ASSUME ~Rehashing
    PROVE  StoredKeys = {e.key : e \in Contents}
BY DEF StoredKeys, Contents, Held

\* A step of the map that ends a lookup or an insert.
LEMMA Returning ==
    ASSUME AInv, [AllocNext]_allocVars, pc # "idle", pc' = "idle"
    PROVE  \/ apc = "lookup" /\ call = "get" /\ (NotFound \/ GetFound)
           \/ apc = "insert" /\ call = "insert" /\ (PlaceAtHome \/ PlaceProbe)
<1>0. Phase
  BY DEF AInv
<1>1. MapStep
  <2>1. ~ Known /\ ~ Recorded /\ ~ Fresh /\ ~ Reserve /\ \A v \in Keys : ~ Ask(v)
    BY DEF Known, Recorded, Fresh, Insert, Reserve, Destroy, Ask, Get, Lookup
  <2>2. ~ UNCHANGED allocVars
    BY DEF allocVars, vars
  <2> QED BY <2>1, <2>2 DEF AllocNext, AllocStep
<1>2. NotFound \/ GetFound \/ PlaceAtHome \/ PlaceProbe
  <2>1. ~ RehashStep /\ ~ ProbeOn
    BY DEF RehashStep, ProbeOn
  <2>2. ~ RemoveFound /\ ~ ShiftStep /\ ~ ShiftPastEnd
    BY <1>0 DEF Phase, RemoveFound, ShiftStep, ShiftPastEnd
  <2> QED BY <1>1, <2>1, <2>2 DEF MapStep, Step
<1>3. pc \in {"get", "home", "probe"}
  BY <1>2 DEF NotFound, GetFound, PlaceAtHome, PlaceProbe
<1>4. CASE NotFound \/ GetFound
  <2>1. pc = "get"
    BY <1>4 DEF NotFound, GetFound
  <2> QED BY <1>0, <1>4, <2>1 DEF Phase
<1>5. CASE PlaceAtHome \/ PlaceProbe
  <2>1. pc \in {"home", "probe"}
    BY <1>5 DEF PlaceAtHome, PlaceProbe
  <2> QED BY <1>0, <1>5, <2>1 DEF Phase
<1> QED BY <1>2, <1>4, <1>5

\* A call that returns has answered what the header says.
LEMMA AnswersRight ==
    ASSUME AInv, [AllocNext]_allocVars, pc # "idle", pc' = "idle"
    PROVE  /\ call = "get" => (res'.key = Null <=> entry.key \notin StoredKeys)
           /\ call = "insert" => (inserted' <=> entry.key \notin StoredKeys)
<1>0. TypeOK /\ IInv /\ Recalled
  BY DEF AInv, IInv
<1>1. CASE apc = "lookup" /\ call = "get" /\ (NotFound \/ GetFound)
  <2>1. ~ Rehashing
    BY <1>0, <1>1 DEF IInv, Growth, NotFound, GetFound
  <2>2. StoredKeys = {e.key : e \in Contents}
    BY <2>1, StoredAreContents
  <2> QED BY <1>1, <2>2, LookupAnswers
<1>2. CASE apc = "insert" /\ call = "insert" /\ (PlaceAtHome \/ PlaceProbe)
  <2>1. ~ Rehashing /\ Item = entry /\ \A e \in Contents : e.key # entry.key
    BY <1>2, Placing
  <2>2. StoredKeys = {e.key : e \in Contents}
    BY <2>1, StoredAreContents
  <2>3. entry.key \notin StoredKeys
    BY <2>1, <2>2
  <2>4. inserted' = TRUE
    <3>1. CASE PlaceProbe
      BY <2>1, <3>1 DEF PlaceProbe, PlaceReturns
    <3>2. CASE PlaceAtHome
      <4>1. get_index(Item.key) \in 0..(capacity - 1)
        <5>1. Item \in Entry
          BY <1>2, Placing
        <5>2. Item.key \in Keys
          BY <5>1 DEF Entry
        <5> QED BY <1>0, <5>2, IndexInRange
      <4>2. arr[get_index(Item.key)].key = Null \/ arr[get_index(Item.key)].key # entry.key
        BY <2>3, <4>1 DEF StoredKeys, Occupied
      <4> QED BY <2>1, <3>2, <4>2 DEF PlaceAtHome, PlaceReturns, is_key_equal
    <3> QED BY <1>2, <3>1, <3>2
  <2> QED BY <1>2, <2>3, <2>4
<1> QED BY <1>1, <1>2, Returning

\* hashmap_get answers NULL exactly for a key that is not in the map: nothing is
\* removed, so no entry is left behind an empty slot.  (With hashmap_remove among the
\* calls this is false.)
THEOREM AllocatorFindsStored == AllocSpec => GetFindsStored
<1>1. AInv /\ [AllocNext]_allocVars =>
          [call = "get" /\ pc # "idle" /\ pc' = "idle" =>
              (res'.key = Null <=> entry.key \notin StoredKeys)]_vars
  BY AnswersRight
<1> QED BY <1>1, AllocInductive, PTL DEF AllocSpec, GetFindsStored

\* hashmap_insert answers TRUE exactly for a key that was not in the map: the allocator
\* inserts what a lookup has just missed.
THEOREM AllocatorInsertReports == AllocSpec => InsertReportsDuplicate
<1>1. AInv /\ [AllocNext]_allocVars =>
          [call = "insert" /\ pc # "idle" /\ pc' = "idle" =>
              (inserted' <=> entry.key \notin StoredKeys)]_vars
  BY AnswersRight
<1> QED BY <1>1, AllocInductive, PTL DEF AllocSpec, InsertReportsDuplicate

=============================================================================
