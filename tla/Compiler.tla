------------------------------ MODULE Compiler ------------------------------
(***************************************************************************)
(* The back end of skibicc as main runs it: emit_ir, emit (lowering and    *)
(* printing), ir_destroy, then the assembler and the program itself.  What *)
(* the program returns is compared with what C says the source means.      *)
(***************************************************************************)
EXTENDS Machine

CONSTANT Depth    \* how deep the expressions of Bodies nest

compilerVars == <<irVars, codegenVars, machineVars>>

Init == IrInit /\ CodegenInit /\ MachineInit

Compile == Translate /\ UNCHANGED machineVars

Run ==
    /\ ipc = "destroyed"
    /\ MachineStep
    /\ UNCHANGED <<irVars, codegenVars>>

Next == Compile \/ Run

Spec == Init /\ [][Next]_compilerVars /\ WF_compilerVars(Next)

-----------------------------------------------------------------------------
(* What C says.                                                            *)

\* Not the value of any expression.
Undefined == 2^W

IntOr(n) == IF IsInt(n) THEN n ELSE Undefined
Truth(b) == IF b THEN 1 ELSE 0

\* The value of a binary operator on two int values; Undefined stands for
\* undefined and for implementation-defined behaviour.
Apply(o, a, b) ==
    CASE o = "ADD" -> IntOr(a + b)
      [] o = "SUB" -> IntOr(a - b)
      [] o = "MUL" -> IntOr(a * b)
      [] o = "DIV" -> IF DivisionTraps(a, b) THEN Undefined ELSE Quotient(a, b)
      [] o = "MOD" -> IF DivisionTraps(a, b) THEN Undefined ELSE Remainder(a, b)
      [] o = "SHL" -> IF a < 0 \/ b \notin 0..(W - 1) THEN Undefined
                      ELSE IntOr(a * 2^b)
      [] o = "SHR" -> IF a < 0 \/ b \notin 0..(W - 1) THEN Undefined
                      ELSE a \div 2^b
      [] o = "BITAND" -> BitAnd(a, b)
      [] o = "BITOR"  -> BitOr(a, b)
      [] o = "BITXOR" -> BitXor(a, b)
      [] OTHER -> Truth(Holds(o, a, b))

\* The expressions that e is made of, level by level: the next is what is below the last.
Below(x) == IF x.op = "NONE" THEN {} ELSE {x.lhs, x.rhs} \ {NoExpr}
Levels(e) ==
    LET level[n \in 0..(Depth + 1)] == IF n = 0 THEN {e} \ {NoExpr}
                                       ELSE UNION {Below(x) : x \in level[n - 1]}
    IN  level
Subterms(e) == UNION {Levels(e)[n] : n \in 0..Depth}

\* No expression nests deeper.
ASSUME DepthAssumption ==
    /\ Depth \in Nat
    /\ \A b \in Bodies : b # <<>> => Levels(Head(b).expression)[Depth + 1] = {}

\* As the parser makes them: a constant is an integer, and a unary operator has no right operand.
ASSUME TreeAssumption ==
    \A b \in Bodies : b # <<>> =>
       \A x \in Subterms(Head(b).expression) :
          /\ x.op = "CONST" => x.val \in Int
          /\ x.op \in UnaryOps => x.rhs = NoExpr

\* The value of x, its operands being worth a and b.
ValueOf(x, a, b) ==
    CASE x.op = "CONST" -> IntOr(x.val)
      [] x.op = "AND" -> IF a = Undefined THEN a ELSE IF a = 0 THEN 0
                         ELSE IF b = Undefined THEN b ELSE Truth(b # 0)
      [] x.op = "OR"  -> IF a = Undefined THEN a ELSE IF a # 0 THEN 1
                         ELSE IF b = Undefined THEN b ELSE Truth(b # 0)
      [] x.op = "NEG" -> IF a = Undefined THEN a ELSE IntOr(-a)
      [] x.op = "NOT" -> IF a = Undefined THEN a ELSE Truth(a = 0)
      [] x.op = "BITNOT" -> IF a = Undefined THEN a ELSE BitNot(a)
      [] x.op \in BinaryOps ->
           IF a = Undefined \/ b = Undefined THEN Undefined ELSE Apply(x.op, a, b)
      [] OTHER -> Undefined

Meaning(e) ==
    LET value[x \in Subterms(e) \cup {NoExpr}] == ValueOf(x, value[x.lhs], value[x.rhs])
    IN  value[e]

\* A shift whose count is not a constant, or is too wide for an 8-bit immediate.
UnfitCount(e) ==
    \E s \in Subterms(e) :
       s.op \in {"SHL", "SHR"} /\ ~(s.rhs.op = "CONST" /\ Imm8(s.rhs.val))

\* The expression that is compiled.
Source == Head(body).expression
Compiled == body # <<>> /\ Source # NoExpr

\* What C returns: the value of the first return statement, as no statement
\* before it has an effect on it.
Returned ==
    LET items == SelectSeq(body, LAMBDA it : it.kind = "return")
    IN  IF items = <<>> THEN Undefined ELSE Meaning(Head(items).expression)

-----------------------------------------------------------------------------
(* Properties.                                                             *)

\* The program returns what C says the compiled expression is worth, whenever
\* C says: through every lowering, short circuit and helper register.
ResultCorrect ==
    Compiled /\ outcome \in {"returned", "trap"} /\ Meaning(Source) # Undefined =>
        outcome = "returned" /\ regs["AX"] = Meaning(Source)

\* No slot or register is read before it is written, on any path through the
\* short circuits, unless the source reads a variable.
NoUnsetRead ==
    Compiled /\ unset => \E s \in Subterms(Source) : s.op = "VAR"

\* The assembler refuses nothing but a shift by a count that is not a constant,
\* or is one that no 8-bit immediate holds: no other operand in any lowering.
OnlyShiftsRejected ==
    outcome = "rejected" => Compiled /\ UnfitCount(Source)

\* The assembler accepts what the compiler prints.
AllAccepted == outcome # "rejected"

\* The program returns the value of its return statement.
ReturnStatementCounts ==
    outcome = "returned" /\ Returned # Undefined => regs["AX"] = Returned

\* Compilation ends and so does the program, without jumping for ever.
Finishes == <>( \/ outcome # "none"
                \/ cpc \in {"error", "crashed"} \/ ipc = "crashed" )

=============================================================================
