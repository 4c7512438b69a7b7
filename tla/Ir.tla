--------------------------------- MODULE Ir ---------------------------------
(***************************************************************************)
(* ir.c: the three-address code of one function body, and its destruction. *)
(* emit_expression recurses over the expression; here the C stack is the   *)
(* sequence frames, and a step is a call or a return of emit_expression.   *)
(*                                                                         *)
(* An ir_val is known by its position in vals, 0 being NULL, because the   *)
(* code shares values by pointer and counts the references it adds.        *)
(***************************************************************************)
EXTENDS Ast, Integers, Sequences, SequencesExt

CONSTANT Bodies    \* the statement lists of main to compile

VARIABLES
    body,         \* items of the function body
    ipc,          \* where emit_ir or ir_destroy is
    arg,          \* the argument of the emit_expression that is called
    ret,          \* the value the last emit_expression returned
    frames,       \* its callers, innermost last
    insts,        \* the instructions so far
    vals,         \* the ir_vals created
    name_count,   \* gen->name_count
    label_count,  \* gen->label_count
    freed,        \* how often each ir_val was freed
    next_inst     \* ir_destroy: the instruction to destroy next

irVars == <<body, ipc, arg, ret, frames, insts, vals, name_count, label_count,
            freed, next_inst>>
emitted == <<insts, vals, name_count, label_count>>
released == <<freed, next_inst>>

-----------------------------------------------------------------------------
(* Values and instructions.                                                *)

\* create_ir_val_var and create_ir_val_constant, with the references that
\* dup_ir_val adds before the creator is done with them.
var_val(n, refs)  == [is_constant |-> FALSE, val |-> n, ref_count |-> refs]
const_val(n)      == [is_constant |-> TRUE, val |-> n, ref_count |-> 0]

\* What array_push_back zeroes is 0 or "".
blank == [type |-> "", op |-> "", lhs |-> 0, rhs |-> 0, dst |-> 0, label |-> 0]
jump(l)            == [blank EXCEPT !.type = "JMP", !.label = l]
cond_jump(t, v, l) == [blank EXCEPT !.type = t, !.lhs = v, !.label = l]
label_inst(l)      == [blank EXCEPT !.type = "LABEL", !.label = l]
copy(s, d)         == [blank EXCEPT !.type = "COPY", !.lhs = s, !.dst = d]
return_inst(v)     == [blank EXCEPT !.type = "RETURN", !.lhs = v]

operation(o, l, r, d) ==
    [blank EXCEPT !.type = IF r = 0 THEN "UNARY" ELSE "BINARY",
                  !.op = o, !.lhs = l, !.rhs = r, !.dst = d]

\* && leaves for its first label when an operand is zero, and the result is 1
\* when it does not; || the other way around.
Logical == {"AND", "OR"}
exit_jump(o)  == IF o = "AND" THEN "JZ" ELSE "JNZ"
through(o)    == IF o = "AND" THEN 1 ELSE 0

-----------------------------------------------------------------------------

IrInit ==
    /\ body \in Bodies
    /\ ipc = "body"
    /\ arg = NoExpr
    /\ ret = 0
    /\ frames = <<>>
    /\ insts = <<>>
    /\ vals = <<>>
    /\ name_count = 0
    /\ label_count = 0
    /\ freed = <<>>
    /\ next_inst = 1

\* emit_ir_instruction compiles the first item of the body and no other.  An
\* empty body has no item: it reads memory of the array that was never
\* written, and takes what is there for an expression: none, or a pointer that
\* faults.
EmitBody ==
    /\ ipc = "body"
    /\ \/ /\ body # <<>>
          /\ arg' = Head(body).expression
          /\ ipc' = "call"
       \/ /\ body = <<>>
          /\ arg' = NoExpr
          /\ ipc' \in {"call", "crashed"}
    /\ UNCHANGED <<body, ret, frames, emitted, released>>

EmitAbsent ==
    /\ ipc = "call"
    /\ arg = NoExpr
    /\ ret' = 0
    /\ ipc' = "return"
    /\ UNCHANGED <<body, arg, frames, emitted, released>>

\* A variable becomes a fresh temporary that nothing has written.
EmitVar ==
    /\ ipc = "call"
    /\ arg.op = "VAR"
    /\ vals' = Append(vals, var_val(name_count + 1, 0))
    /\ name_count' = name_count + 1
    /\ ret' = Len(vals')
    /\ ipc' = "return"
    /\ UNCHANGED <<body, arg, frames, insts, label_count, released>>

EmitConst ==
    /\ ipc = "call"
    /\ arg.op = "CONST"
    /\ vals' = Append(vals, const_val(arg.val))
    /\ ret' = Len(vals')
    /\ ipc' = "return"
    /\ UNCHANGED <<body, arg, frames, insts, name_count, label_count, released>>

\* Mutant: the end label is named without being counted.
labels_taken_once(o) == IF o \in Logical THEN 1 ELSE 0

labels_taken(o) == IF o \in Logical THEN 2 ELSE 0

\* Any operator emits its left operand first; && and || name their two labels
\* before.
EmitOperator ==
    /\ ipc = "call"
    /\ arg.op \notin {"NONE", "VAR", "CONST"}
    /\ frames' = Append(frames, [e |-> arg, at |-> "lhs", lhs |-> 0,
                                 exit |-> label_count + 1, end |-> label_count + 2])
    /\ label_count' = label_count + labels_taken(arg.op)
    /\ arg' = arg.lhs
    /\ UNCHANGED <<body, ipc, ret, insts, vals, name_count, released>>

top == Last(frames)
callers == Front(frames)

\* The left operand is done: && and || test it, then the right operand is
\* emitted.
EmitRight ==
    /\ ipc = "return"
    /\ frames # <<>> /\ top.at = "lhs"
    /\ insts' = IF top.e.op \in Logical
                THEN Append(insts, cond_jump(exit_jump(top.e.op), ret, top.exit))
                ELSE insts
    /\ frames' = Append(callers, [top EXCEPT !.at = "rhs", !.lhs = ret])
    /\ arg' = top.e.rhs
    /\ ipc' = "call"
    /\ UNCHANGED <<body, ret, vals, name_count, label_count, released>>

\* Both operands are done: the instruction and its destination, which the
\* caller shares.
EmitOperation ==
    /\ ipc = "return"
    /\ frames # <<>> /\ top.at = "rhs" /\ top.e.op \notin Logical
    /\ vals' = Append(vals, var_val(name_count + 1, 1))
    /\ name_count' = name_count + 1
    /\ insts' = Append(insts, operation(top.e.op, top.lhs, ret, Len(vals')))
    /\ ret' = Len(vals')
    /\ frames' = callers
    /\ UNCHANGED <<body, ipc, arg, label_count, released>>

\* Mutant: the second copy uses the result without a reference of its own.
logical_vals_unshared(n, o) ==
    << var_val(n, 1), const_val(through(o)), const_val(1 - through(o)) >>

\* The result of && or ||, shared by its two copies and the caller, and the two
\* constants copied to it.
logical_vals(n, o) ==
    << var_val(n, 2), const_val(through(o)), const_val(1 - through(o)) >>

\* Mutant: the exit label comes after the copy it should lead to.
LogicalTailLateExit(o, second, result, exit, end) ==
    << cond_jump(exit_jump(o), second, exit),
       copy(result + 1, result),
       jump(end),
       copy(result + 2, result),
       label_inst(exit),
       label_inst(end) >>

\* Mutant: the end label comes before the jump to it.
LogicalTailEarlyEnd(o, second, result, exit, end) ==
    << cond_jump(exit_jump(o), second, exit),
       copy(result + 1, result),
       label_inst(end),
       jump(end),
       label_inst(exit),
       copy(result + 2, result) >>

LogicalTail(o, second, result, exit, end) ==
    << cond_jump(exit_jump(o), second, exit),
       copy(result + 1, result),
       jump(end),
       label_inst(exit),
       copy(result + 2, result),
       label_inst(end) >>

\* The rest of && and || once the second operand is done.
EmitLogical ==
    LET result == Len(vals) + 1 IN
    /\ ipc = "return"
    /\ frames # <<>> /\ top.at = "rhs" /\ top.e.op \in Logical
    /\ vals' = vals \o logical_vals(name_count + 1, top.e.op)
    /\ name_count' = name_count + 1
    /\ insts' = insts \o LogicalTail(top.e.op, ret, result, top.exit, top.end)
    /\ ret' = result
    /\ frames' = callers
    /\ UNCHANGED <<body, ipc, arg, label_count, released>>

\* The body's expression is done; whatever kind of statement it was, the value
\* is returned.
EmitReturn ==
    /\ ipc = "return"
    /\ frames = <<>>
    /\ insts' = Append(insts, return_inst(ret))
    /\ freed' = [v \in DOMAIN vals |-> 0]
    /\ ipc' = "emitted"
    /\ UNCHANGED <<body, arg, ret, frames, vals, name_count, label_count, next_inst>>

EmitStep ==
    \/ EmitBody \/ EmitAbsent \/ EmitVar \/ EmitConst \/ EmitOperator
    \/ EmitRight \/ EmitOperation \/ EmitLogical \/ EmitReturn

-----------------------------------------------------------------------------
(* ir_destroy.                                                             *)

\* emit has printed the code: ir_destroy begins.
DestroyBegins ==
    /\ ipc = "emitted"
    /\ ipc' = "destroy"
    /\ UNCHANGED <<body, arg, ret, frames, emitted, released>>

\* destroy_ir_val: a shared value loses a reference, an unshared one is freed.
destroy_ir_val(v, state) ==
    IF v = 0 THEN state
    ELSE IF state.vals[v].ref_count > 0
         THEN [state EXCEPT !.vals[v].ref_count = @ - 1]
         ELSE [state EXCEPT !.freed[v] = @ + 1]

destroy_ir_instruction(inst, state) ==
    destroy_ir_val(inst.dst, destroy_ir_val(inst.rhs, destroy_ir_val(inst.lhs, state)))

DestroyInst ==
    LET after == destroy_ir_instruction(insts[next_inst], [vals |-> vals, freed |-> freed]) IN
    /\ ipc = "destroy"
    /\ next_inst <= Len(insts)
    /\ vals' = after.vals
    /\ freed' = after.freed
    /\ next_inst' = next_inst + 1
    /\ UNCHANGED <<body, ipc, arg, ret, frames, insts, name_count, label_count>>

DestroyDone ==
    /\ ipc = "destroy"
    /\ next_inst > Len(insts)
    /\ ipc' = "destroyed"
    /\ UNCHANGED <<body, arg, ret, frames, emitted, released>>

DestroyStep == DestroyBegins \/ DestroyInst \/ DestroyDone

IrNext == EmitStep \/ DestroyStep

\* emit_ir and ir_destroy by themselves, whatever main does between them.
IrSpec == IrInit /\ [][IrNext]_irVars

-----------------------------------------------------------------------------
(* Properties.                                                             *)

\* ir_destroy frees every value once and none twice, although instructions
\* and callers share values by pointer.
ValsFreedOnce ==
    /\ \A v \in DOMAIN freed : freed[v] <= 1
    /\ ipc = "destroyed" => \A v \in DOMAIN freed : freed[v] = 1

\* When the code is complete every label a jump names is defined exactly once,
\* and no label is defined that nothing jumps to.
LabelsResolve ==
    LET defined(l) == {j \in DOMAIN insts :
                          insts[j].type = "LABEL" /\ insts[j].label = l}
        targets == {insts[j].label : j \in {m \in DOMAIN insts :
                          insts[m].type \in {"JMP", "JZ", "JNZ"}}}
    IN  ipc = "emitted" =>
          \A l \in 1..label_count :
             l \in targets /\ \E j \in DOMAIN insts : defined(l) = {j}

=============================================================================
