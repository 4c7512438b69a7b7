----------------------------- MODULE MCHashMap -----------------------------
(* The hash map under every sequence of calls, on a 4-slot table that may   *)
(* grow once.                                                               *)
EXTENDS HashMap

=============================================================================
