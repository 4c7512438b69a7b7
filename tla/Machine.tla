------------------------------- MODULE Machine -------------------------------
(***************************************************************************)
(* The assembler and the processor, as the code that codegen.c prints uses *)
(* them: which operands an instruction may have, and what it does.  Both   *)
(* are external to the repository.  Registers and slots hold W-bit two's   *)
(* complement integers, W standing for 32; the flags are kept as the two   *)
(* values the last cmp compared.                                           *)
(***************************************************************************)
EXTENDS Codegen

CONSTANTS
    W,      \* bits in an int, a power of two
    Junk    \* values that memory and registers may hold before they are written

ASSUME WidthAssumption == \E n \in 1..5 : W = 2^n

VARIABLES
    mpc,      \* the instruction that runs next; 0 before the program starts
    outcome,  \* "none", "rejected", "trap" or "returned"
    regs,     \* the registers used: AX, CX, DX, R10, R11
    memory,   \* the stack slots, by offset
    written,  \* the slots and registers written since the start
    flags,    \* what cmp compared: destination and source
    unset     \* whether something was read that was never written

machineVars == <<mpc, outcome, regs, memory, written, flags, unset>>

-----------------------------------------------------------------------------
(* Arithmetic on W-bit words.                                              *)

MinInt == -(2^(W - 1))
MaxInt == 2^(W - 1) - 1
IsInt(n) == MinInt <= n /\ n <= MaxInt

Unsigned(n) == n % 2^W
Signed(n) == LET u == n % 2^W IN IF u > MaxInt THEN u - 2^W ELSE u

\* Division that truncates toward zero, and its remainder.
AbsOf(n) == IF n < 0 THEN -n ELSE n
Quotient(a, b) ==
    (IF (a < 0) = (b < 0) THEN 1 ELSE -1) * (AbsOf(a) \div AbsOf(b))
Remainder(a, b) == a - b * Quotient(a, b)

DivisionTraps(a, b) == IF b = 0 THEN TRUE ELSE ~IsInt(Quotient(a, b))

\* The places of the bits of n that are set, and the word with these bits.
Ones(n) == {j \in 0..(W - 1) : (Unsigned(n) \div 2^j) % 2 = 1}
Word(ones) ==
    LET sum[n \in 0..W] == IF n = 0 THEN 0
                           ELSE sum[n - 1] + (IF n - 1 \in ones THEN 2^(n - 1) ELSE 0)
    IN  Signed(sum[W])

BitAnd(a, b) == Word(Ones(a) \cap Ones(b))
BitOr(a, b)  == Word(Ones(a) \cup Ones(b))
BitXor(a, b) == Word((Ones(a) \cup Ones(b)) \ (Ones(a) \cap Ones(b)))
BitNot(a)    == -a - 1

Holds(c, a, b) ==
    CASE c = "EQ" -> a = b [] c = "NE" -> a # b
      [] c = "LT" -> a < b [] c = "LE" -> a <= b
      [] c = "GT" -> a > b [] c = "GE" -> a >= b

\* The destination after a two-operand instruction.  A shift count is taken
\* modulo the width, and shr shifts zeros in.
Alu(t, s, d) ==
    CASE t = "MOV" -> Signed(s)
      [] t = "ADD" -> Signed(d + s)
      [] t = "SUB" -> Signed(d - s)
      [] t = "MUL" -> Signed(d * s)
      [] t = "AND" -> BitAnd(d, s)
      [] t = "OR"  -> BitOr(d, s)
      [] t = "XOR" -> BitXor(d, s)
      [] t = "SHL" -> Signed(Unsigned(d) * 2^(s % W))
      [] t = "SHR" -> Signed(Unsigned(d) \div 2^(s % W))
      [] t = "NEG" -> Signed(-d)
      [] t = "NOT" -> BitNot(d)

-----------------------------------------------------------------------------
(* What the assembler accepts: the size suffix is the printed one, l, for  *)
(* all but setcc and the shift count.                                      *)

IsReg(o) == o.kind = "reg"
IsReg32(o) == IsReg(o) /\ o.size = 32
Place(o) == IsReg32(o) \/ IsStack(o)
NotBothStack(i) == ~(IsStack(i.src) /\ IsStack(i.dst))

\* A number that fits an 8-bit immediate, signed or unsigned, one that is a
\* W-bit word being taken for the int it stands for.
Imm8(n) ==
    LET m == IF n \in 0..(2^W - 1) THEN Signed(n) ELSE n
    IN  -128 <= m /\ m <= 255

\* Any number may be the immediate of the other instructions.
ShiftCount(o) == (IsImm(o) /\ Imm8(o.val)) \/ (IsReg(o) /\ o.size = 8)

Accepted(i) ==
    CASE i.type \in {"MOV", "ADD", "SUB", "AND", "OR", "XOR", "CMP"} ->
            /\ Place(i.dst) /\ NotBothStack(i)
            /\ Place(i.src) \/ IsImm(i.src)
      [] i.type = "MUL" -> IsReg32(i.dst) /\ (Place(i.src) \/ IsImm(i.src))
      [] i.type \in {"SHL", "SHR"} ->
            Place(i.dst) /\ ShiftCount(i.src)
      [] i.type \in {"NEG", "NOT", "DIV"} -> Place(i.dst)
      [] i.type = "SETCC" -> IsStack(i.src) \/ IsReg(i.src)
      [] OTHER -> TRUE

-----------------------------------------------------------------------------

MachineInit ==
    /\ mpc = 0
    /\ outcome = "none"
    /\ regs = [r \in {"AX", "CX", "DX", "R10", "R11"} |-> 0]
    /\ memory = <<>>
    /\ written = {}
    /\ flags = <<0, 0>>
    /\ unset = FALSE

\* The assembler takes the file or refuses it as a whole.
Assemble ==
    /\ outcome = "none" /\ mpc = 0
    /\ \/ /\ \A j \in DOMAIN asm : Accepted(asm[j])
          /\ mpc' = 1
          /\ \E junk \in Junk :
                memory' = [o \in {-SlotBytes * j : j \in 1..Len(slots)} |-> junk]
          /\ UNCHANGED outcome
       \/ /\ \E j \in DOMAIN asm : ~Accepted(asm[j])
          /\ outcome' = "rejected"
          /\ UNCHANGED <<mpc, memory>>
    /\ UNCHANGED <<regs, written, flags, unset>>

inst == asm[mpc]
Running(types) == mpc > 0 /\ outcome = "none" /\ inst.type \in types

\* An immediate that is wider than the instruction is cut off.
Read(o) == CASE IsImm(o) -> Signed(o.val) [] IsReg(o) -> regs[o.val]
             [] IsStack(o) -> memory[o.val]

AX == <<"reg", "AX">>
DX == <<"reg", "DX">>
Unwritten(o) == (IsReg(o) \/ IsStack(o)) /\ <<o.kind, o.val>> \notin written

Write(o, n) ==
    /\ written' = written \cup {<<o.kind, o.val>>}
    /\ regs' = IF IsReg(o) THEN [regs EXCEPT ![o.val] = n] ELSE regs
    /\ memory' = IF IsStack(o) THEN [memory EXCEPT ![o.val] = n] ELSE memory

Arithmetic ==
    /\ Running({"ADD", "SUB", "MUL", "AND", "OR", "XOR", "SHL", "SHR"})
    /\ Write(inst.dst, Alu(inst.type, Read(inst.src), Read(inst.dst)))
    /\ unset' = (unset \/ Unwritten(inst.src) \/ Unwritten(inst.dst))
    /\ mpc' = mpc + 1
    /\ UNCHANGED <<outcome, flags>>

Move ==
    /\ Running({"MOV"})
    /\ Write(inst.dst, Alu("MOV", Read(inst.src), 0))
    /\ unset' = (unset \/ Unwritten(inst.src))
    /\ mpc' = mpc + 1
    /\ UNCHANGED <<outcome, flags>>

OneOperand ==
    /\ Running({"NEG", "NOT"})
    /\ Write(inst.dst, Alu(inst.type, 0, Read(inst.dst)))
    /\ unset' = (unset \/ Unwritten(inst.dst))
    /\ mpc' = mpc + 1
    /\ UNCHANGED <<outcome, flags>>

\* cdq fills edx with the sign of eax.
SignExtend ==
    /\ Running({"CDQ"})
    /\ regs' = [regs EXCEPT !["DX"] = IF regs["AX"] < 0 THEN -1 ELSE 0]
    /\ written' = written \cup {DX}
    /\ unset' = (unset \/ AX \notin written)
    /\ mpc' = mpc + 1
    /\ UNCHANGED <<outcome, memory, flags>>

\* idiv divides edx:eax; a zero divisor or a quotient too large traps.
Divide ==
    LET a == regs["DX"] * 2^W + Unsigned(regs["AX"])
        b == Read(inst.dst)
    IN
    /\ Running({"DIV"})
    /\ \/ /\ ~DivisionTraps(a, b)
          /\ regs' = [regs EXCEPT !["AX"] = Quotient(a, b), !["DX"] = Remainder(a, b)]
          /\ mpc' = mpc + 1
          /\ UNCHANGED outcome
       \/ /\ DivisionTraps(a, b)
          /\ outcome' = "trap"
          /\ UNCHANGED <<regs, mpc>>
    /\ unset' = (unset \/ Unwritten(inst.dst) \/ ~({AX, DX} \subseteq written))
    /\ UNCHANGED <<memory, written, flags>>

Compare ==
    /\ Running({"CMP"})
    /\ flags' = <<Read(inst.dst), Read(inst.src)>>
    /\ unset' = (unset \/ Unwritten(inst.src) \/ Unwritten(inst.dst))
    /\ mpc' = mpc + 1
    /\ UNCHANGED <<outcome, regs, memory, written>>

\* setcc writes the low byte of a place whose other bytes are zero.
SetByte ==
    /\ Running({"SETCC"})
    /\ Write(inst.src, IF Holds(inst.code, flags[1], flags[2]) THEN 1 ELSE 0)
    /\ unset' = (unset \/ Unwritten(inst.src))
    /\ mpc' = mpc + 1
    /\ UNCHANGED <<outcome, flags>>

Goto(l) ==
    mpc' = CHOOSE j \in DOMAIN asm : asm[j].type = "LABEL" /\ asm[j].label = l

Jump ==
    /\ Running({"JMP", "JMPCC"})
    /\ IF inst.type = "JMP" \/ Holds(inst.code, flags[1], flags[2])
       THEN Goto(inst.label) ELSE mpc' = mpc + 1
    /\ UNCHANGED <<outcome, regs, memory, written, flags, unset>>

Pass ==
    /\ Running({"LABEL", "ALLOCSTACK"})
    /\ mpc' = mpc + 1
    /\ UNCHANGED <<outcome, regs, memory, written, flags, unset>>

Return ==
    /\ Running({"RETURN"})
    /\ outcome' = "returned"
    /\ unset' = (unset \/ AX \notin written)
    /\ UNCHANGED <<mpc, regs, memory, written, flags>>

MachineStep ==
    \/ Assemble \/ Arithmetic \/ Move \/ OneOperand \/ SignExtend \/ Divide
    \/ Compare \/ SetByte \/ Jump \/ Pass \/ Return

=============================================================================
