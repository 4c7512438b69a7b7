------------------------------ MODULE HashMap ------------------------------
(***************************************************************************)
(* The open-addressing hash map of hashmap.c, one loop iteration per step. *)
(* A call (insert, get or remove) starts when pc = "idle" and runs to the  *)
(* next "idle" state; pc says which loop of which function is executing.   *)
(*                                                                         *)
(* An entry is its key and its data pointer.  A zeroed entry, whose key is *)
(* Null, is an empty slot, and is also what get and remove answer when the *)
(* key is not found.  FNV-1a is abstracted to an arbitrary function hash,  *)
(* chosen once: keys are byte strings, so any pattern of collisions can be *)
(* met.  Masking with capacity - 1 is % capacity, capacity being a power   *)
(* of two.                                                                 *)
(***************************************************************************)
EXTENDS Integers, FiniteSets

CONSTANTS
    Keys,          \* keys a caller may use
    Data,          \* data pointers a caller may store
    Null,          \* the null pointer
    HashValues,    \* values the hash function may take on Keys
    InitialSize,   \* INITIAL_SIZE
    MaxCapacity,   \* bound: no insert that would grow the array beyond this
    MaxSize        \* bound: no insert once size has reached this

ASSUME NullAssumption == Null \notin Keys
ASSUME HashAssumption == HashValues \subseteq Nat
ASSUME SizeAssumption == InitialSize \in Nat /\ InitialSize >= 4
ASSUME PowerOfTwoAssumption == \E n \in 2..16 : InitialSize = 2^n

Entry == [key : Keys, data : Data]
Empty == [key |-> Null, data |-> Null]
Slot  == Entry \cup {Empty}

VARIABLES
    hash,          \* the hash function, never changed
    arr,           \* map->arr: a function from 0..capacity-1 to slots
    size,          \* map->size
    capacity,      \* map->capacity
    pc,            \* the loop that runs next
    call,          \* the interface function called last
    entry,         \* its argument; get and remove use only the key
    index,         \* the probe position; the hole, while remove shifts
    cur,           \* remove's scan position
    old,           \* rehash: the array being emptied
    old_capacity,  \* rehash: its length; 0 when no rehash is running
    i,             \* rehash: the loop counter
    inserted,      \* what insert returned last
    res            \* what get or remove returned last

vars == <<hash, arr, size, capacity, pc, call, entry, index, cur,
          old, old_capacity, i, inserted, res>>
map    == <<arr, size, capacity>>
growth == <<old, old_capacity, i>>

-----------------------------------------------------------------------------
(* Helpers.                                                                *)

Blank(n) == [j \in 0..(n - 1) |-> Empty]

get_index(k) == hash[k] % capacity

\* Mutant: keys with the same hash are taken for the same key.
is_hash_equal(a, b) == hash[a] = hash[b]

\* Keys are strings, which hold no NUL: strncmp compares all their bytes.
is_key_equal(a, b) == a = b

\* Mutant: the probe position does not wrap.
advance_without_wrap(j) == j + 1

\* Mutant: every other slot is passed over.
advance_by_two(j) == (j + 2) % capacity

advance_index(j) == (j + 1) % capacity

\* Mutant: grow only when the table is full.
AtFull == size >= capacity

\* size / capacity >= LOAD_FACTOR, in integers: 0.6 is 3/5, and the quotient
\* of a number by a power of two is never 0.6 itself.
AtLoadFactor == 5 * size >= 3 * capacity

Rehashing == old_capacity > 0

\* The entry maybe_probe_and_insert is placing, for whoever called it.
Item == IF Rehashing THEN old[i] ELSE entry

\* Mutant: the slot an entry moved from is not cleared.
moved_uncleared(a, to, from) == [a EXCEPT ![to] = a[from]]

\* remove's move of an entry into the hole.
moved(a, to, from) == [a EXCEPT ![to] = a[from], ![from] = Empty]

Occupied(a, n) == {j \in 0..(n - 1) : a[j].key # Null}
StoredKeys == {arr[j].key : j \in Occupied(arr, capacity)}

-----------------------------------------------------------------------------
(* Initial states and the interface calls.                                 *)

hashmap_init ==
    /\ arr' = Blank(InitialSize)
    /\ size' = 0
    /\ capacity' = InitialSize

Init ==
    /\ hash \in [Keys -> HashValues]
    /\ arr = Blank(InitialSize)
    /\ size = 0
    /\ capacity = InitialSize
    /\ pc = "idle"
    /\ call = "none"
    /\ entry = Empty
    /\ index = 0 /\ cur = 0
    /\ old = Blank(0) /\ old_capacity = 0 /\ i = 0
    /\ inserted = FALSE
    /\ res = Empty

\* hashmap_insert up to its call of maybe_probe_and_insert, with the start of
\* rehash when the load factor is reached.
Insert(e) ==
    /\ pc = "idle"
    /\ size < MaxSize
    /\ call' = "insert"
    /\ entry' = e
    /\ res' = Empty
    /\ \/ /\ ~AtLoadFactor
          /\ pc' = "home"
          /\ UNCHANGED <<map, growth>>
       \/ /\ AtLoadFactor
          /\ 2 * capacity <= MaxCapacity
          /\ pc' = "rehash"
          /\ old' = arr
          /\ old_capacity' = capacity
          /\ i' = 0
          /\ arr' = Blank(2 * capacity)
          /\ capacity' = 2 * capacity
          /\ UNCHANGED size
    /\ UNCHANGED <<hash, index, cur, inserted>>

\* hashmap_get up to its loop; hashmap_remove begins with the same lookup.
Lookup(name, k) ==
    /\ pc = "idle"
    /\ call' = name
    /\ entry' = [key |-> k, data |-> Null]
    /\ index' = get_index(k)
    /\ pc' = "get"
    /\ res' = Empty
    /\ inserted' = FALSE
    /\ UNCHANGED <<hash, map, cur, growth>>

Get(k)    == Lookup("get", k)
Remove(k) == Lookup("remove", k)

\* The caller destroys the map: its keys, its data and its array are freed, of
\* which nothing is left to look at.  The struct keeps its members until a caller
\* initializes it again.
Destroy ==
    /\ pc = "idle"
    /\ pc' = "destroyed"
    /\ UNCHANGED <<hash, map, call, entry, index, cur, growth, inserted, res>>

Reinit ==
    /\ pc = "destroyed"
    /\ hashmap_init
    /\ pc' = "idle"
    /\ call' = "none"
    /\ entry' = Empty
    /\ index' = 0 /\ cur' = 0
    /\ inserted' = FALSE
    /\ res' = Empty
    /\ UNCHANGED <<hash, growth>>

-----------------------------------------------------------------------------
(* rehash and maybe_probe_and_insert.                                      *)

\* One iteration of rehash's loop, or its exit: hashmap_insert then places its
\* own entry.
RehashStep ==
    /\ pc = "rehash"
    /\ \/ /\ i < old_capacity
          /\ old[i].key = Null
          /\ i' = i + 1
          /\ UNCHANGED <<pc, old, old_capacity>>
       \/ /\ i < old_capacity
          /\ old[i].key # Null
          /\ pc' = "home"
          /\ UNCHANGED growth
       \/ /\ i = old_capacity
          /\ pc' = "home"
          /\ old' = Blank(0)
          /\ old_capacity' = 0
          /\ i' = 0
    /\ UNCHANGED <<hash, map, call, entry, index, cur, inserted, res>>

\* Mutant: a refused entry is counted, an accepted one is not.
PlaceReturnsMiscounting(r) ==
    \/ /\ Rehashing
       /\ i' = i + 1
       /\ pc' = "rehash"
       /\ UNCHANGED <<size, inserted>>
    \/ /\ ~Rehashing
       /\ size' = IF r THEN size ELSE size + 1
       /\ inserted' = r
       /\ pc' = "idle"
       /\ UNCHANGED i

\* maybe_probe_and_insert returns r: to rehash, which ignores it, or to
\* hashmap_insert, which counts the entry whatever r is.
PlaceReturns(r) ==
    \/ /\ Rehashing
       /\ i' = i + 1
       /\ pc' = "rehash"
       /\ UNCHANGED <<size, inserted>>
    \/ /\ ~Rehashing
       /\ size' = size + 1
       /\ inserted' = r
       /\ pc' = "idle"
       /\ UNCHANGED i

\* The home slot is free, holds the key, or collides.
PlaceAtHome ==
    LET home == get_index(Item.key) IN
    /\ pc = "home"
    /\ \/ /\ arr[home].key = Null
          /\ arr' = [arr EXCEPT ![home] = Item]
          /\ PlaceReturns(TRUE)
          /\ UNCHANGED index
       \/ /\ arr[home].key # Null
          /\ is_key_equal(arr[home].key, Item.key)
          /\ PlaceReturns(FALSE)
          /\ UNCHANGED <<arr, index>>
       \/ /\ arr[home].key # Null
          /\ ~is_key_equal(arr[home].key, Item.key)
          /\ index' = home
          /\ pc' = "probe"
          /\ UNCHANGED <<arr, size, i, inserted>>
    /\ UNCHANGED <<hash, capacity, call, entry, cur, old, old_capacity, res>>

\* One iteration of the linear probing loop: it looks for an empty slot and
\* compares no key.
PlaceProbe ==
    LET next == advance_index(index) IN
    /\ pc = "probe"
    /\ \/ /\ arr[next].key = Null
          /\ arr' = [arr EXCEPT ![next] = Item]
          /\ index' = 0
          /\ PlaceReturns(TRUE)
       \/ /\ arr[next].key # Null
          /\ index' = next
          /\ UNCHANGED <<arr, size, i, inserted, pc>>
    /\ UNCHANGED <<hash, capacity, call, entry, cur, old, old_capacity, res>>

-----------------------------------------------------------------------------
(* hashmap_get's loop, and hashmap_remove.                                 *)

ProbeOn ==
    /\ pc = "get"
    /\ arr[index].key # Null
    /\ ~is_key_equal(arr[index].key, entry.key)
    /\ index' = advance_index(index)
    /\ UNCHANGED <<hash, map, pc, call, entry, cur, growth, inserted, res>>

\* The key is absent: get returns NULL, remove a zeroed entry.
NotFound ==
    /\ pc = "get"
    /\ arr[index].key = Null
    /\ pc' = "idle"
    /\ index' = 0
    /\ UNCHANGED <<hash, map, call, entry, cur, growth, inserted, res>>

GetFound ==
    /\ pc = "get"
    /\ call = "get"
    /\ arr[index].key # Null
    /\ is_key_equal(arr[index].key, entry.key)
    /\ res' = arr[index]
    /\ pc' = "idle"
    /\ index' = 0
    /\ UNCHANGED <<hash, map, call, entry, cur, growth, inserted>>

\* remove clears the slot; in the last slot of the array it stops there.
RemoveFound ==
    /\ pc = "get"
    /\ call = "remove"
    /\ arr[index].key # Null
    /\ is_key_equal(arr[index].key, entry.key)
    /\ res' = arr[index]
    /\ arr' = [arr EXCEPT ![index] = Empty]
    /\ size' = size - 1
    /\ \/ /\ index + 1 >= capacity
          /\ pc' = "idle"
          /\ index' = 0
          /\ UNCHANGED cur
       \/ /\ index + 1 < capacity
          /\ pc' = "shift"
          /\ cur' = index + 1
          /\ UNCHANGED index
    /\ UNCHANGED <<hash, capacity, call, entry, growth, inserted>>

RemoveReturns ==
    /\ pc' = "idle"
    /\ index' = 0
    /\ cur' = 0

\* One iteration of remove's loop: an entry whose home is not after the hole
\* moves into it, and its slot is the new hole.
ShiftStep ==
    /\ pc = "shift"
    /\ cur < capacity
    /\ \/ /\ arr[cur].key = Null
          /\ RemoveReturns
          /\ UNCHANGED arr
       \/ /\ arr[cur].key # Null
          /\ get_index(arr[cur].key) <= index
          /\ arr' = moved(arr, index, cur)
          /\ index' = cur
          /\ cur' = cur + 1
          /\ UNCHANGED pc
       \/ /\ arr[cur].key # Null
          /\ get_index(arr[cur].key) > index
          /\ cur' = cur + 1
          /\ UNCHANGED <<arr, index, pc>>
    /\ UNCHANGED <<hash, size, capacity, call, entry, growth, inserted, res>>

\* cur does not wrap: the loop condition reads the word after the array, which
\* is undefined.  The allocator's padding there may be zero, which ends the
\* loop, or the read may fault.
ShiftPastEnd ==
    /\ pc = "shift"
    /\ cur = capacity
    /\ \/ RemoveReturns
       \/ /\ pc' = "crashed"
          /\ UNCHANGED <<index, cur>>
    /\ UNCHANGED <<hash, map, call, entry, growth, inserted, res>>

-----------------------------------------------------------------------------

Step ==
    \/ RehashStep \/ PlaceAtHome \/ PlaceProbe
    \/ ProbeOn \/ NotFound \/ GetFound
    \/ RemoveFound \/ ShiftStep \/ ShiftPastEnd

InsertAny == \E e \in Entry : Insert(e)
LookupAny == \E k \in Keys : Get(k)
RemoveAny == \E k \in Keys : Remove(k)

Next == InsertAny \/ LookupAny \/ RemoveAny \/ Destroy \/ Reinit \/ Step

\* A call, once started, keeps executing.
Spec == Init /\ [][Next]_vars /\ WF_vars(Step)

-----------------------------------------------------------------------------
(* Properties.                                                             *)

\* Every variable has its type; the arrays have the lengths the counters say.
TypeOK ==
    /\ hash \in [Keys -> HashValues]
    /\ capacity \in Nat /\ capacity >= InitialSize
    /\ arr \in [0..(capacity - 1) -> Slot]
    /\ size \in Nat
    /\ pc \in {"idle", "destroyed", "crashed",
               "rehash", "home", "probe", "get", "shift"}
    /\ call \in {"none", "insert", "get", "remove"}
    /\ entry \in [key : Keys \cup {Null}, data : Data \cup {Null}]
    /\ index \in 0..(capacity - 1)
    /\ cur \in 0..capacity
    /\ old_capacity \in Nat
    /\ old \in [0..(old_capacity - 1) -> Slot]
    /\ i \in 0..old_capacity
    /\ inserted \in BOOLEAN
    /\ res \in Slot

\* Slots that hold an entry, and those that will: the rest of the old array.
Held    == Occupied(arr, capacity)
Waiting == {j \in Occupied(old, old_capacity) : j >= i}

\* size never undercounts: the entries in the array, together with those a
\* rehash has still to move, number at most size.  Duplicates dropped by a
\* rehash or refused by an insert can only make size too large.
SizeCoversEntries == Cardinality(Held) + Cardinality(Waiting) <= size

\* Whenever a probing loop of hashmap_get or maybe_probe_and_insert runs there
\* is an empty slot to stop at: growing at the load factor leaves room after
\* any sequence of inserts (some refused), removes and rehashes.
RoomToProbe ==
    pc \in {"home", "probe", "get"} => Held # 0..(capacity - 1)

Bag(e) == Cardinality({j \in Held : arr[j] = e})

\* hashmap_remove takes out exactly the entry it returns: no step of its
\* shifting loses, duplicates or overwrites another entry.
RemoveTakesOne ==
    [][call = "remove" /\ pc \in {"get", "shift"} =>
         \A e \in Entry :
            Bag(e)' = Bag(e) - (IF res' # res /\ res' = e THEN 1 ELSE 0)]_vars

\* Every call returns or, reading past the array, stops the program.
EveryCallReturns ==
    pc \notin {"idle", "destroyed", "crashed"} ~> pc \in {"idle", "crashed"}

\* hashmap_insert's contract: it answers TRUE exactly for a key that was not
\* in the map.
InsertReportsDuplicate ==
    [][call = "insert" /\ pc # "idle" /\ pc' = "idle" =>
         (inserted' <=> entry.key \notin StoredKeys)]_vars

\* hashmap_get's contract: it answers NULL exactly for a key not in the map.
GetFindsStored ==
    [][call = "get" /\ pc # "idle" /\ pc' = "idle" =>
         (res'.key = Null <=> entry.key \notin StoredKeys)]_vars

=============================================================================
