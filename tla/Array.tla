-------------------------------- MODULE Array --------------------------------
(***************************************************************************)
(* array.c: the growable array.  An array is a record of its buffer, its   *)
(* elements and its capacity; item_size is left out.  The heap is the      *)
(* sequence of the blocks that malloc returned, in that order, each        *)
(* counting how often it was freed: a block is its number, live while its  *)
(* count is 0.  An operation that allocates returns the new heap with its  *)
(* result.                                                                 *)
(***************************************************************************)
EXTENDS Naturals, Sequences

CONSTANT INITIAL_CAPACITY

ASSUME CapacityAssumption == INITIAL_CAPACITY \in Nat \ {0}

\* malloc_safe: the block is Len(malloc(h)).  Exhaustion ends the program.
malloc(h) == Append(h, 0)
free(h, b) == [h EXCEPT ![b] = @ + 1]

array_init(b) == [buf |-> b, items |-> <<>>, capacity |-> INITIAL_CAPACITY]

\* A pointer to an element: the buffer it is in, and its index from 1.
array_at(a, i) == [buf |-> a.buf, index |-> i]

\* Mutant: an element more than the buffer holds.
beyond_capacity(a) == Len(a.items) > a.capacity

at_capacity(a) == Len(a.items) >= a.capacity

\* Mutant: the old buffer is kept when the array grows.
array_push_back_leaking(a, item, h) ==
    IF at_capacity(a)
    THEN [arr  |-> [buf |-> Len(h) + 1, items |-> Append(a.items, item),
                    capacity |-> 2 * a.capacity],
          heap |-> malloc(h)]
    ELSE [arr |-> [a EXCEPT !.items = Append(@, item)], heap |-> h]

\* A full array moves to a buffer of twice the capacity, and frees the old one.
array_push_back(a, item, h) ==
    IF at_capacity(a)
    THEN [arr  |-> [buf |-> Len(h) + 1, items |-> Append(a.items, item),
                    capacity |-> 2 * a.capacity],
          heap |-> free(malloc(h), a.buf)]
    ELSE [arr |-> [a EXCEPT !.items = Append(@, item)], heap |-> h]

\* Mutant: the elements stay.
array_kept(a) == a

array_clear(a) == [a EXCEPT !.items = <<>>]

array_destroy(a, h) == free(h, a.buf)
=============================================================================
