-------------------------------- MODULE Ast --------------------------------
(***************************************************************************)
(* parser.h: the syntax tree the parser builds and emit_ir reads.  An      *)
(* expression is a record [op, val, lhs, rhs]; a leaf has op "CONST" or    *)
(* "VAR", and a missing operand, NULL in the code, is NoExpr.              *)
(***************************************************************************)
NoExpr == [op |-> "NONE"]
Leaf(o, v)   == [op |-> o, val |-> v, lhs |-> NoExpr, rhs |-> NoExpr]
Un(o, a)     == [op |-> o, val |-> 0, lhs |-> a, rhs |-> NoExpr]
Bin(o, a, b) == [op |-> o, val |-> 0, lhs |-> a, rhs |-> b]

\* A statement item.  A declaration keeps its initializer, NoExpr when it has
\* none, apart from the expression field of the item.
Item(k, e) == [kind |-> k, expression |-> e, initial |-> NoExpr]
Declaration(e) == [Item("declaration", NoExpr) EXCEPT !.initial = e]
=============================================================================
