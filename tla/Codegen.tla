------------------------------- MODULE Codegen -------------------------------
(***************************************************************************)
(* codegen.c: each IR instruction is lowered to a few assembly             *)
(* instructions, one IR instruction per step, and the stack is reserved in *)
(* front of them at the end.                                               *)
(*                                                                         *)
(* An operand is a record [kind, val, size, obj].  val is the immediate,   *)
(* the offset from the frame pointer or the register.  obj tells apart the *)
(* heap objects that one lowering creates: an instruction owns its two     *)
(* operands and frees them, so no object may be in two places.  The stack  *)
(* allocator is taken at its word (module Slots): slots lists the          *)
(* variables in the order they got one.                                    *)
(***************************************************************************)
EXTENDS Ir

CONSTANT SlotBytes    \* what lower_ir_val asks the stack allocator for

ASSUME SlotAssumption == SlotBytes \in Nat \ {0}

VARIABLES
    cpc,      \* where lower_ir_func_def is
    next_ir,  \* the IR instruction to lower next
    asm,      \* the assembly instructions so far
    slots     \* the variables that have a stack slot, the oldest first

codegenVars == <<cpc, next_ir, asm, slots>>

-----------------------------------------------------------------------------
(* Operands.                                                               *)

Opnd(k, v, s, o) == [kind |-> k, val |-> v, size |-> s, obj |-> o]
NoOpnd == Opnd("none", 0, 0, "")

create_register(r, o)  == Opnd("reg", r, 32, o)
create_immediate(n, o) == Opnd("imm", n, 32, o)
dup_operand(opnd, o)   == [opnd EXCEPT !.obj = o]

IsStack(opnd) == opnd.kind = "stack"
IsImm(opnd)   == opnd.kind = "imm"

\* stack_allocator_get's effect on the slots s: a variable that has none gets
\* one, a constant needs none.
slot_taken(s, v) ==
    IF v = 0 \/ vals[v].is_constant \/ Contains(s, vals[v].val)
    THEN s ELSE Append(s, vals[v].val)

\* The slots once the operands of inst have theirs, in the order lhs, rhs, dst.
SlotsFor(inst) ==
    slot_taken(slot_taken(slot_taken(slots, inst.lhs), inst.rhs), inst.dst)

slot_of(s, n) == CHOOSE k \in 1..Len(s) : s[k] = n

\* The operand for value v, given the slots.
lower_ir_val(v, s, o) ==
    IF vals[v].is_constant THEN create_immediate(vals[v].val, o)
    ELSE Opnd("stack", -(SlotBytes * slot_of(s, vals[v].val)), 32, o)

-----------------------------------------------------------------------------
(* The insert_ functions: each is the instructions it adds.                *)

Inst(t, s, d) ==
    [type |-> t, src |-> s, dst |-> d, code |-> "", label |-> 0]

Plain(t)    == << Inst(t, NoOpnd, NoOpnd) >>
JumpTo(l)   == << [Inst("JMP", NoOpnd, NoOpnd) EXCEPT !.label = l] >>
JumpIf(c, l) ==
    << [Inst("JMPCC", NoOpnd, NoOpnd) EXCEPT !.code = c, !.label = l] >>
LabelAt(l)  == << [Inst("LABEL", NoOpnd, NoOpnd) EXCEPT !.label = l] >>
SetIf(c, o) == << [Inst("SETCC", o, NoOpnd) EXCEPT !.code = c] >>

\* The objects of the two registers between two slots: a lowering makes such a
\* move m, n or o once at most.
halves == [m |-> <<"m1", "m2">>, n |-> <<"n1", "n2">>, o |-> <<"o1", "o2">>]

\* A move between two stack slots goes through r10.
insert_mov(src, dst, t) ==
    IF IsStack(src) /\ IsStack(dst)
    THEN << Inst("MOV", src, create_register("R10", halves[t][1])),
            Inst("MOV", create_register("R10", halves[t][2]), dst) >>
    ELSE << Inst("MOV", src, dst) >>

\* Mutant: an immediate destination is left in place.
insert_cmp_immediate(src, dst) ==
    IF IsStack(src) /\ IsStack(dst)
    THEN insert_mov(src, create_register("R10", "c1"), "n")
         \o << Inst("CMP", create_register("R10", "c2"), dst) >>
    ELSE << Inst("CMP", src, dst) >>

\* cmp takes no two stack slots and no immediate destination.
insert_cmp(src, dst) ==
    LET both == IsStack(src) /\ IsStack(dst)
        s == IF both THEN create_register("R10", "c2") ELSE src
        d == IF IsImm(dst) THEN create_register("R11", "c4") ELSE dst
    IN (IF both THEN insert_mov(src, create_register("R10", "c1"), "n")
        ELSE <<>>)
       \o (IF IsImm(dst) THEN insert_mov(dst, create_register("R11", "c3"), "o")
           ELSE <<>>)
       \o << Inst("CMP", s, d) >>

-----------------------------------------------------------------------------
(* The lowering of each kind of IR instruction.                            *)

\* Mutant: the operands of the comparison are in the order of the source.
lower_relational_swapped(c, lhs, rhs, dst) ==
    insert_cmp(lhs, rhs)
    \o insert_mov(create_immediate(0, "zero"), dst, "m")
    \o SetIf(c, dup_operand(dst, "dst2"))

lower_relational(c, lhs, rhs, dst) ==
    insert_cmp(rhs, lhs)
    \o insert_mov(create_immediate(0, "zero"), dst, "m")
    \o SetIf(c, dup_operand(dst, "dst2"))

\* Mutant: the destination operand is shared and not copied.
lower_simple_binary_shared(t, lhs, rhs, dst) ==
    insert_mov(lhs, dst, "m")
    \o (IF IsStack(rhs)
        THEN insert_mov(rhs, create_register("R10", "r1"), "n")
             \o << Inst(t, create_register("R10", "r2"), dst) >>
        ELSE << Inst(t, rhs, dst) >>)

\* dst is always a variable here, and so a stack slot.
lower_simple_binary_inst(t, lhs, rhs, dst) ==
    LET d == dup_operand(dst, "dst2") IN
    insert_mov(lhs, dst, "m")
    \o (IF IsStack(rhs) /\ IsStack(d)
        THEN insert_mov(rhs, create_register("R10", "r1"), "n")
             \o << Inst(t, create_register("R10", "r2"), d) >>
        ELSE << Inst(t, rhs, d) >>)

lower_mul(lhs, rhs, dst) ==
    insert_mov(lhs, dst, "m")
    \o (IF IsStack(dst)
        THEN insert_mov(dup_operand(dst, "dst2"), create_register("R11", "r1"), "n")
             \o << Inst("MUL", rhs, create_register("R11", "r2")) >>
             \o insert_mov(create_register("R11", "r3"), dup_operand(dst, "dst3"), "o")
        ELSE << Inst("MUL", rhs, dup_operand(dst, "dst2")) >>)

lower_div(lhs, rhs, dst, want_remainder) ==
    insert_mov(lhs, create_register("AX", "r1"), "m")
    \o Plain("CDQ")
    \o (IF IsImm(rhs)
        THEN insert_mov(rhs, create_register("R10", "r2"), "n")
             \o << Inst("DIV", NoOpnd, create_register("R10", "r3")) >>
        ELSE << Inst("DIV", NoOpnd, rhs) >>)
    \o insert_mov(create_register(IF want_remainder THEN "DX" ELSE "AX", "r4"), dst, "o")

\* A count that is not a constant is moved, as 32 bits, to the byte register.
lower_bit_shift(t, lhs, rhs, dst) ==
    LET cl(o) == [create_register("CX", o) EXCEPT !.size = 8] IN
    insert_mov(lhs, dst, "m")
    \o (IF ~IsImm(rhs)
        THEN insert_mov(rhs, cl("r1"), "n")
             \o << Inst(t, cl("r2"), dup_operand(dst, "dst2")) >>
        ELSE << Inst(t, rhs, dup_operand(dst, "dst2")) >>)

lower_logical_not(src, dst) ==
    insert_cmp(create_immediate(0, "zero1"), src)
    \o insert_mov(create_immediate(0, "zero2"), dst, "n")
    \o SetIf("EQ", dup_operand(dst, "dst3"))

lower_ir_unary(o, src, dst) ==
    LET d == dup_operand(dst, "dst2") IN
    insert_mov(src, dst, "m")
    \o CASE o = "NEG"    -> << Inst("NEG", NoOpnd, d) >>
         [] o = "NOT"    -> lower_logical_not(dup_operand(src, "src2"), d)
         [] o = "BITNOT" -> << Inst("NOT", NoOpnd, d) >>

SimpleOps == [ADD |-> "ADD", SUB |-> "SUB", BITAND |-> "AND", BITXOR |-> "XOR",
              BITOR |-> "OR"]
Relations == {"LT", "LE", "GT", "GE", "EQ", "NE"}
UnaryOps  == {"NEG", "NOT", "BITNOT"}
BinaryOps == DOMAIN SimpleOps \cup Relations \cup {"MUL", "DIV", "MOD", "SHL", "SHR"}

lower_ir_binary(o, lhs, rhs, dst) ==
    CASE o \in DOMAIN SimpleOps ->
            lower_simple_binary_inst(SimpleOps[o], lhs, rhs, dst)
      [] o = "MUL" -> lower_mul(lhs, rhs, dst)
      [] o \in {"DIV", "MOD"} -> lower_div(lhs, rhs, dst, o = "MOD")
      [] o \in {"SHL", "SHR"} -> lower_bit_shift(o, lhs, rhs, dst)
      [] o \in Relations -> lower_relational(o, lhs, rhs, dst)

lower_ir_return(src) ==
    insert_mov(src, create_register("AX", "r1"), "m") \o Plain("RETURN")

lower_cond_jump(inst, cond) ==
    insert_cmp(create_immediate(0, "zero"), cond)
    \o JumpIf(IF inst.type = "JZ" THEN "EQ" ELSE "NE", inst.label)

\* The operators codegen.c has no case for; the instruction stops the compiler.
Unimplemented(inst) ==
    \/ inst.type = "UNARY" /\ inst.op \notin UnaryOps
    \/ inst.type = "BINARY" /\ inst.op \notin BinaryOps

\* An operand that emit_expression left out: lower_ir_val reads through a null
\* pointer, before the operator is looked at.
LacksOperand(inst) == inst.lhs = 0 /\ inst.type \notin {"JMP", "LABEL"}

\* The instructions for inst, the slots of its variables being s.
lower_ir_instruction(inst, s) ==
    LET lhs == lower_ir_val(inst.lhs, s, "lhs")
        rhs == lower_ir_val(inst.rhs, s, "rhs")
        dst == lower_ir_val(inst.dst, s, "dst")
    IN CASE inst.type = "RETURN" -> lower_ir_return(lhs)
         [] inst.type = "UNARY"  -> lower_ir_unary(inst.op, lhs, dst)
         [] inst.type = "BINARY" -> lower_ir_binary(inst.op, lhs, rhs, dst)
         [] inst.type = "JMP"    -> JumpTo(inst.label)
         [] inst.type \in {"JZ", "JNZ"} -> lower_cond_jump(inst, lhs)
         [] inst.type = "COPY"   -> insert_mov(lhs, dst, "m")
         [] inst.type = "LABEL"  -> LabelAt(inst.label)

-----------------------------------------------------------------------------

CodegenInit ==
    /\ cpc = "lower"
    /\ next_ir = 1
    /\ asm = <<>>
    /\ slots = <<>>

\* One IR instruction.
Lower ==
    LET inst == insts[next_ir]
        s == SlotsFor(inst)
    IN
    /\ cpc = "lower"
    /\ next_ir <= Len(insts)
    /\ ~Unimplemented(inst) /\ ~LacksOperand(inst)
    /\ slots' = s
    /\ asm' = asm \o lower_ir_instruction(inst, s)
    /\ next_ir' = next_ir + 1
    /\ UNCHANGED cpc

\* error() ends the program.
LowerFails ==
    /\ cpc = "lower"
    /\ next_ir <= Len(insts)
    /\ Unimplemented(insts[next_ir]) /\ ~LacksOperand(insts[next_ir])
    /\ cpc' = "error"
    /\ UNCHANGED <<next_ir, asm, slots>>

LowerAbsent ==
    /\ cpc = "lower"
    /\ next_ir <= Len(insts)
    /\ LacksOperand(insts[next_ir])
    /\ cpc' = "crashed"
    /\ UNCHANGED <<next_ir, asm, slots>>

\* Mutant: the room of the last slot is forgotten.
FrameShort == SlotBytes * (Len(slots) - 1)

\* -alloc->offset.
FrameBytes == SlotBytes * Len(slots)

\* insert_allocate_stack_instruction.
ReserveStack ==
    /\ cpc = "lower"
    /\ next_ir > Len(insts)
    /\ asm' = IF slots = <<>> THEN asm
              ELSE << Inst("ALLOCSTACK", create_immediate(FrameBytes, "frame"),
                           NoOpnd) >> \o asm
    /\ cpc' = "lowered"
    /\ UNCHANGED <<next_ir, slots>>

CodegenStep == Lower \/ LowerFails \/ LowerAbsent \/ ReserveStack

-----------------------------------------------------------------------------
(* emit_ir, emit and ir_destroy as main calls them, each behind the other. *)

EmitIr ==
    /\ EmitStep
    /\ UNCHANGED codegenVars

EmitAsm ==
    /\ ipc = "emitted"
    /\ CodegenStep
    /\ UNCHANGED irVars

\* ir_destroy runs once emit has printed the code.
DestroyIr ==
    /\ cpc = "lowered"
    /\ DestroyStep
    /\ UNCHANGED codegenVars

Translate == EmitIr \/ EmitAsm \/ DestroyIr

TranslateSpec ==
    IrInit /\ CodegenInit /\ [][Translate]_<<irVars, codegenVars>>

-----------------------------------------------------------------------------
(* Properties.                                                             *)

Operands(code) == {p \in (DOMAIN code) \X {"src", "dst"} :
                      code[p[1]][p[2]].kind # "none"}

\* No operand object is owned by two instructions, or by one twice: so the
\* destruction of the assembly frees each once.
OperandsOwnedOnce ==
    cpc = "lower" /\ next_ir <= Len(insts) /\ ipc = "emitted" =>
      LET inst == insts[next_ir]
          code == IF Unimplemented(inst) \/ LacksOperand(inst) THEN <<>>
                  ELSE lower_ir_instruction(inst, SlotsFor(inst))
      IN  \A p, q \in Operands(code) :
             code[p[1]][p[2]].obj = code[q[1]][q[2]].obj => p = q

\* Every slot the code uses lies in the frame that is reserved for it.
SlotsInFrame ==
    cpc = "lowered" =>
      \A p \in Operands(asm) :
         LET opnd == asm[p[1]][p[2]] IN
         IsStack(opnd) =>
            /\ opnd.val < 0
            /\ Head(asm).type = "ALLOCSTACK"
            /\ -opnd.val <= Head(asm).src.val

=============================================================================
