------------------------------- MODULE MCList -------------------------------
(* Lists of up to five nodes, built in every way, then destroyed.          *)
EXTENDS List
=============================================================================
