----------------------------- MODULE MCCompiler -----------------------------
(* The compiler's back end on expressions of up to three operators over     *)
(* 4-bit ints, together with the bodies it cannot compile.                  *)
EXTENDS Compiler

Const(n) == Leaf("CONST", n)
Var == Leaf("VAR", 0)

Leaves == {Const(0), Const(2), Const(5)}
AllUnary == UnaryOps \cup {"PREINC"}
AllBinary == BinaryOps \cup Logical \cup {"ASSIGN"}

\* One operator of every kind, over every pair of leaves.
Small == {Un(o, a) : o \in AllUnary, a \in Leaves}
         \cup {Bin(o, a, b) : o \in AllBinary, a \in Leaves, b \in Leaves}

\* Operands for a second operator: one for each way of lowering, and both
\* outcomes of each test.
Inner == {Un(o, a) : o \in {"NEG", "NOT"}, a \in {Const(0), Const(5)}}
         \cup {Bin(o, a, b) : o \in {"SUB", "MUL", "MOD", "LT", "AND", "OR"},
                              a \in {Const(0), Const(5)}, b \in {Const(0), Const(2)}}

Nested == {Un(o, x) : o \in UnaryOps, x \in Inner}
          \cup {Bin(o, x, a) : o \in AllBinary, x \in Inner, a \in {Const(0), Const(2)}}
          \cup {Bin(o, a, x) : o \in AllBinary, x \in Inner, a \in {Const(0), Const(2)}}

\* Short circuits and arithmetic with temporaries on both sides.
Both == {Bin(o, x, y) : o \in {"SUB", "DIV", "GE", "AND", "OR"}, x \in Inner,
                        y \in {Bin("MOD", Const(5), Const(0)), Un("NEG", Const(2)),
                               Bin("OR", Const(0), Const(5))}}

WithVar == {Var, Bin("ADD", Var, Const(2)), Bin("AND", Const(0), Var)}

\* Constants that are no ints: the assembler cuts them off.
WithWide == {Const(9), Un("NOT", Const(16)), Bin("DIV", Const(9), Const(2)), Bin("OR", Const(16), Const(5)),
             Bin("SHL", Const(2), Const(21)), Bin("LT", Un("NEG", Const(24)), Const(21))}

\* Shift counts on both sides of the widest immediate the assembler takes.
WithCount == {Bin(o, Const(2), Const(n)) : o \in {"SHL", "SHR"}, n \in {255, 256}}
             \cup {Bin("AND", Const(0), Bin("SHL", Const(5), Const(256)))}

\* What the parser makes of operands that read "sizeof ( )".
WithAbsent == {Un("NEG", NoExpr), Un("PREINC", NoExpr), Bin("ADD", NoExpr, Const(2)),
               Bin("ADD", Const(2), NoExpr), Bin("AND", NoExpr, Const(2)),
               Bin("AND", Const(2), NoExpr)}

MCBodies == {<<Item("return", e)>> :
                  e \in Leaves \cup Small \cup Nested \cup Both \cup WithVar
                       \cup WithWide \cup WithCount \cup WithAbsent}
            \cup {<<>>, <<Declaration(Const(2)), Item("return", Const(5))>>,
                  <<Item("expression", Un("NEG", Const(2))), Item("return", Const(5))>>}

\* Shifts by a count that is computed.
ShiftBodies == {<<Item("return", Bin(o, Const(2), x))>> : o \in {"SHL", "SHR"}, x \in Inner}

MCJunk == {0, 3}
=============================================================================
