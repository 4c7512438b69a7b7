------------------------------- MODULE Slots -------------------------------
(***************************************************************************)
(* What code generation expects of the stack allocator of codegen.c: each  *)
(* variable of a function gets one stack slot, the same every time it is   *)
(* asked for, no two slots overlap, and the frame reserved at the end      *)
(* reaches the lowest slot.  How a slot is found is left open.             *)
(***************************************************************************)
EXTENDS Integers

CONSTANTS
    Vars,       \* the variables of the function
    Offsets,    \* offsets from the frame pointer a slot may have
    SlotSize,   \* bytes in a slot
    NoSlot      \* neither an offset nor a variable

VARIABLES
    slot,       \* the offset of each variable, NoSlot before it is asked for
    answer,     \* the variable and offset of the last answer
    frame       \* bytes reserved for the function, -1 until it is known

vars == <<slot, answer, frame>>

Init ==
    /\ slot = [v \in Vars |-> NoSlot]
    /\ answer = <<NoSlot, NoSlot>>
    /\ frame = -1

Apart(o, p) == o - p >= SlotSize \/ p - o >= SlotSize

Ask(v) ==
    /\ frame = -1
    /\ \/ /\ slot[v] # NoSlot
          /\ UNCHANGED slot
       \/ /\ slot[v] = NoSlot
          /\ \E o \in Offsets :
                /\ o <= -SlotSize
                /\ \A w \in Vars : slot[w] # NoSlot => Apart(slot[w], o)
                /\ slot' = [slot EXCEPT ![v] = o]
    /\ answer' = <<v, slot'[v]>>
    /\ UNCHANGED frame

Reserve ==
    /\ frame = -1
    /\ frame' \in {-o : o \in Offsets} \cup {0}
    /\ \A v \in Vars : slot[v] # NoSlot => frame' + slot[v] >= 0
    /\ UNCHANGED <<slot, answer>>

Next == Reserve \/ \E v \in Vars : Ask(v)

Spec == Init /\ [][Next]_vars

=============================================================================
