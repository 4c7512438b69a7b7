-------------------------- MODULE MCStackAllocator --------------------------
(* A function of four variables on a 4-slot table: the fourth slot given   *)
(* out makes the table grow.                                               *)
EXTENDS StackAllocator

MCData == {-4, -8, -12, -16}

=============================================================================
