--------------------------- MODULE StackAllocator ---------------------------
(***************************************************************************)
(* The stack allocator of codegen.c, on top of the hash map: var_to_offset *)
(* maps a variable's name to its offset.  This is how the compiler uses    *)
(* the map: a key is inserted only after a lookup answered NULL, and       *)
(* nothing is removed.  One allocator lives for one function.              *)
(***************************************************************************)
EXTENDS HashMap

CONSTANT SlotSize    \* the bytes lower_ir_val asks for

ASSUME SlotSizeAssumption == SlotSize \in Nat \ {0}

\* The data pointers of this map are the offsets of the slots, up to the bound.
ASSUME OffsetAssumption ==
    /\ Data \subseteq Int /\ Null \notin Data
    /\ MaxSize \in Nat
    /\ \A n \in 1..MaxSize : -(n * SlotSize) \in Data

VARIABLES
    offset,    \* alloc->offset, the lowest offset given out
    apc,       \* where stack_allocator_get is
    answer,    \* the variable and offset of the operand returned last
    frame      \* the operand of the instruction that reserves the stack

alloc == <<offset, apc, answer, frame>>
allocVars == <<vars, alloc>>

-----------------------------------------------------------------------------

stack_allocator_init ==
    /\ Init
    /\ offset = 0
    /\ apc = "ready"
    /\ answer = <<Null, Null>>
    /\ frame = -1

\* stack_allocator_get up to the return of hashmap_get.
Ask(v) ==
    /\ apc = "ready"
    /\ Get(v)
    /\ apc' = "lookup"
    /\ UNCHANGED <<offset, answer, frame>>

\* The variable has a slot.
Known ==
    /\ apc = "lookup" /\ pc = "idle"
    /\ res.key # Null
    /\ answer' = <<entry.key, res.data>>
    /\ apc' = "ready"
    /\ UNCHANGED <<vars, offset, frame>>

\* Mutant: the offset moves by one byte and not by the slot.
lowered_by_one(o) == o - 1

lowered(o) == o - SlotSize

new_entry(v) == [key |-> v, data |-> lowered(offset)]

\* The variable is new: give it the next slot and record it.
Fresh ==
    /\ apc = "lookup" /\ pc = "idle"
    /\ res.key = Null
    /\ offset' = lowered(offset)
    /\ Insert(new_entry(entry.key))
    /\ apc' = "insert"
    /\ UNCHANGED <<answer, frame>>

Recorded ==
    /\ apc = "insert" /\ pc = "idle"
    /\ answer' = <<entry.key, offset>>
    /\ apc' = "ready"
    /\ UNCHANGED <<vars, offset, frame>>

\* The end of lower_ir_func_def: no instruction when no slot was given out,
\* which reserves nothing.
Reserve ==
    /\ apc = "ready"
    /\ Destroy
    /\ frame' = -offset
    /\ apc' = "done"
    /\ UNCHANGED <<offset, answer>>

MapStep == Step /\ UNCHANGED alloc

AllocStep == MapStep \/ Known \/ Fresh \/ Recorded

AllocNext == AllocStep \/ Reserve \/ \E v \in Keys : Ask(v)

AllocSpec ==
    stack_allocator_init /\ [][AllocNext]_allocVars /\ WF_allocVars(AllocStep)

-----------------------------------------------------------------------------
(* Properties.                                                             *)

\* The entries as a caller knows them: while the array grows, the old one.
Contents == IF Rehashing THEN {old[j] : j \in Occupied(old, old_capacity)}
                         ELSE {arr[j] : j \in Held}

\* The slot of v; one that is being recorded is not v's yet.
SlotOf(v) ==
    IF \/ apc = "insert" /\ v = entry.key
       \/ \A e \in Contents : e.key # v
    THEN Null
    ELSE (CHOOSE e \in Contents : e.key = v).data

S == INSTANCE Slots WITH
        Vars <- Keys, Offsets <- Data, NoSlot <- Null,
        slot <- [v \in Keys |-> SlotOf(v)]

\* The allocator keeps what Slots promises, through collisions and growth of
\* the table: one slot for each variable, the same at every request, apart
\* from every other, and inside the frame.
SlotsKept == S!Spec

\* The slots from the home of a stored entry up to its own are all occupied,
\* wrapping at the end of the array: so hashmap_get, which stops at the first
\* empty slot, reaches every entry.
OnPath(h, j, m) ==
    IF h <= j THEN h <= m /\ m <= j ELSE m >= h \/ m <= j

ProbePathFull ==
    \A j \in Held : \A m \in 0..(capacity - 1) :
        OnPath(get_index(arr[j].key), j, m) => m \in Held

\* Used this way, size is the number of entries, as the struct says.
SizeIsExact ==
    pc = "idle" => size = Cardinality(Held)

\* Every request for an operand is answered.
EveryAskAnswered == apc \in {"lookup", "insert"} ~> apc = "ready"

=============================================================================
