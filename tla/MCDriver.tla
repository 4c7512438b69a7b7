------------------------------ MODULE MCDriver ------------------------------
(* Three runs of the compiler on a source edited twice.                    *)
EXTENDS Driver
=============================================================================
