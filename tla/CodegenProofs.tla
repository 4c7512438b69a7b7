---------------------------- MODULE CodegenProofs ----------------------------
(***************************************************************************)
(* What the compiler prints for every body, word size and slot size, short *)
(* circuits nested in any way, operands that are missing, and expressions  *)
(* of any size:                                                            *)
(*                                                                         *)
(*   - emit_ir names every label once and ir_destroy frees every value     *)
(*     once                                                                *)
(*   - the frame lower_ir_func_def reserves holds every slot the code      *)
(*     uses, and no two of its operands are one object                     *)
(*   - the assembler takes it, but for a shift by a count that is no       *)
(*     constant                                                            *)
(***************************************************************************)
EXTENDS Compiler, FiniteSetTheorems, SequenceTheorems, NaturalsInduction, WellFoundedInduction,
        TLAPS

-----------------------------------------------------------------------------
(* Sequences.  Their elements are of no set that could be named.           *)

IsList(q) == \E S : q \in Seq(S)

\* One element more, and the others where they were.
LEMMA AppendFacts ==
    ASSUME NEW q, IsList(q), NEW x
    PROVE  /\ IsList(Append(q, x))
           /\ Len(q) \in Nat /\ Len(Append(q, x)) = Len(q) + 1
           /\ DOMAIN Append(q, x) = 1..(Len(q) + 1) /\ DOMAIN q = 1..Len(q)
           /\ Append(q, x)[Len(q) + 1] = x
           /\ \A j \in 1..Len(q) : Append(q, x)[j] = q[j]
<1>1. PICK S : q \in Seq(S)
  BY DEF IsList
<1>2. q \in Seq(S \cup {x})
  BY <1>1
<1>3. Append(q, x) \in Seq(S \cup {x})
  BY <1>2
<1> QED BY <1>2, <1>3 DEF IsList

\* Two lists of the same elements are the same.
LEMMA SameList ==
    ASSUME NEW p, IsList(p), NEW q, IsList(q), Len(p) = Len(q), \A j \in 1..Len(p) : p[j] = q[j]
    PROVE  p = q
<1>1. PICK S, T : p \in Seq(S) /\ q \in Seq(T)
  BY DEF IsList
<1> QED BY <1>1

\* The callers with the frame at the top are the frames.
LEMMA TopFacts ==
    ASSUME IsList(frames), frames # <<>>
    PROVE  /\ IsList(callers) /\ frames = Append(callers, top)
           /\ Len(frames) \in Nat \ {0} /\ Len(callers) = Len(frames) - 1
           /\ top = frames[Len(frames)] /\ \A j \in 1..Len(callers) : callers[j] = frames[j]
<1>1. PICK S : frames \in Seq(S)
  BY DEF IsList
<1>2. Len(frames) \in Nat \ {0} /\ top = frames[Len(frames)]
  BY <1>1 DEF top, Last
<1>3. /\ callers \in Seq(S) /\ Len(callers) = Len(frames) - 1
      /\ \A j \in 1..Len(callers) : callers[j] = frames[j]
  <2>1. PICK n : n = Len(frames) - 1
    OBVIOUS
  <2>2. n \in Nat /\ \A j \in 1..n : frames[j] \in S
    BY <1>1, <1>2, <2>1
  <2>3. callers = SubSeq(frames, 1, n)
    BY <2>1 DEF callers, Front
  <2> QED BY <2>1, <2>2, <2>3, SubSeqProperties
<1>4. IsList(callers)
  BY <1>3 DEF IsList
<1>5. frames = Append(callers, top)
  <2>1. /\ IsList(Append(callers, top)) /\ Len(Append(callers, top)) = Len(frames)
        /\ Append(callers, top)[Len(frames)] = top
        /\ \A j \in 1..Len(callers) : Append(callers, top)[j] = callers[j]
    BY <1>2, <1>3, <1>4, AppendFacts
  <2>2. \A j \in 1..Len(frames) : frames[j] = Append(callers, top)[j]
    BY <1>2, <1>3, <2>1
  <2> QED BY <2>1, <2>2, SameList
<1> QED BY <1>2, <1>3, <1>4, <1>5

\* An element at the end of what is appended.
LEMMA ConcatAppend ==
    ASSUME NEW q, IsList(q), NEW t, IsList(t), NEW x
    PROVE  q \o Append(t, x) = Append(q \o t, x) /\ IsList(q \o t)
<1>1. PICK S : q \in Seq(S)
  BY DEF IsList
<1>2. PICK T : t \in Seq(T)
  BY DEF IsList
<1>3. PICK U : U = S \cup T \cup {x}
  OBVIOUS
<1>4. q \in Seq(U) /\ t \in Seq(U) /\ x \in U
  BY <1>1, <1>2, <1>3
<1>5. q \o t \in Seq(U) /\ Append(t, x) \in Seq(U)
  BY <1>4
<1>6. q \o Append(t, x) \in Seq(U) /\ Append(q \o t, x) \in Seq(U)
  BY <1>4, <1>5
<1>7. /\ Len(q \o Append(t, x)) = Len(q) + Len(t) + 1
      /\ Len(Append(q \o t, x)) = Len(q) + Len(t) + 1
  BY <1>4, <1>5
<1>8. \A j \in 1..(Len(q) + Len(t) + 1) : (q \o Append(t, x))[j] = Append(q \o t, x)[j]
  BY <1>4, <1>5
<1> QED BY <1>5, <1>6, <1>7, <1>8, SameList DEF IsList

\* What && and || append at the end, one instruction after the other.
LEMMA SixAppended ==
    ASSUME NEW q, IsList(q), NEW a, NEW b, NEW c, NEW d, NEW e, NEW f
    PROVE  q \o <<a, b, c, d, e, f>>
             = Append(Append(Append(Append(Append(Append(q, a), b), c), d), e), f)
<1>1. /\ IsList(<<>>) /\ IsList(<<a>>) /\ IsList(<<a, b>>) /\ IsList(<<a, b, c>>)
      /\ IsList(<<a, b, c, d>>) /\ IsList(<<a, b, c, d, e>>)
  <2>1. PICK S : S = {a, b, c, d, e}
    OBVIOUS
  <2>2. /\ <<>> \in Seq(S) /\ <<a>> \in Seq(S) /\ <<a, b>> \in Seq(S) /\ <<a, b, c>> \in Seq(S)
        /\ <<a, b, c, d>> \in Seq(S) /\ <<a, b, c, d, e>> \in Seq(S)
    BY <2>1
  <2> QED BY <2>2 DEF IsList
<1>2. /\ <<a>> = Append(<<>>, a) /\ <<a, b>> = Append(<<a>>, b)
      /\ <<a, b, c>> = Append(<<a, b>>, c) /\ <<a, b, c, d>> = Append(<<a, b, c>>, d)
      /\ <<a, b, c, d, e>> = Append(<<a, b, c, d>>, e)
      /\ <<a, b, c, d, e, f>> = Append(<<a, b, c, d, e>>, f)
  OBVIOUS
<1>3. q \o <<>> = q
  BY DEF IsList
<1>4. q \o <<a>> = Append(q, a)
  BY <1>1, <1>2, <1>3, ConcatAppend
<1>5. q \o <<a, b>> = Append(Append(q, a), b)
  BY <1>1, <1>2, <1>4, ConcatAppend
<1>6. q \o <<a, b, c>> = Append(Append(Append(q, a), b), c)
  BY <1>1, <1>2, <1>5, ConcatAppend
<1>7. q \o <<a, b, c, d>> = Append(Append(Append(Append(q, a), b), c), d)
  BY <1>1, <1>2, <1>6, ConcatAppend
<1>8. q \o <<a, b, c, d, e>> = Append(Append(Append(Append(Append(q, a), b), c), d), e)
  BY <1>1, <1>2, <1>7, ConcatAppend, SMTT(40)
<1> QED BY <1>1, <1>2, <1>8, ConcatAppend, SMTT(40)

-----------------------------------------------------------------------------
(* The instructions.                                                       *)

\* The members of an instruction.
Members(x, t, l, r, d, n) ==
    x.type = t /\ x.lhs = l /\ x.rhs = r /\ x.dst = d /\ x.label = n

\* Those that the code sets; the others are zero.
LEMMA MembersSet ==
    /\ \A l : Members(jump(l), "JMP", 0, 0, 0, l)
    /\ \A t, v, l : Members(cond_jump(t, v, l), t, v, 0, 0, l)
    /\ \A l : Members(label_inst(l), "LABEL", 0, 0, 0, l)
    /\ \A s, d : Members(copy(s, d), "COPY", s, 0, d, 0)
    /\ \A v : Members(return_inst(v), "RETURN", v, 0, 0, 0)
    /\ \A o, l, r, d : Members(operation(o, l, r, d), IF r = 0 THEN "UNARY" ELSE "BINARY", l, r, d, 0)
<1>1. ASSUME NEW l PROVE Members(jump(l), "JMP", 0, 0, 0, l)
  BY DEF jump, blank, Members
<1>2. ASSUME NEW t, NEW v, NEW l PROVE Members(cond_jump(t, v, l), t, v, 0, 0, l)
  BY DEF cond_jump, blank, Members
<1>3. ASSUME NEW l PROVE Members(label_inst(l), "LABEL", 0, 0, 0, l)
  BY DEF label_inst, blank, Members
<1>4. ASSUME NEW s, NEW d PROVE Members(copy(s, d), "COPY", s, 0, d, 0)
  BY DEF copy, blank, Members
<1>5. ASSUME NEW v PROVE Members(return_inst(v), "RETURN", v, 0, 0, 0)
  BY DEF return_inst, blank, Members
<1>6. ASSUME NEW o, NEW l, NEW r, NEW d
      PROVE  Members(operation(o, l, r, d), IF r = 0 THEN "UNARY" ELSE "BINARY", l, r, d, 0)
  BY DEF operation, blank, Members
<1> QED BY <1>1, <1>2, <1>3, <1>4, <1>5, <1>6

Jumps == {"JMP", "JZ", "JNZ"}

\* The exits of && and || are jumps.
LEMMA ExitJumps == \A o : exit_jump(o) \in Jumps /\ "LABEL" \notin Jumps
BY DEF exit_jump, Jumps

\* A frame as EmitOperator makes it and EmitRight changes it.
IsFrame(x) ==
    /\ x = [e |-> x.e, at |-> x.at, lhs |-> x.lhs, exit |-> x.exit, end |-> x.end]
    /\ x.at \in {"lhs", "rhs"} /\ x.lhs \in Nat /\ x.exit \in Nat /\ x.end \in Nat

\* An instruction refers to values and labels by number.
IsInst(x) == x.lhs \in Nat /\ x.rhs \in Nat /\ x.dst \in Nat /\ x.label \in Nat

IsVal(x) ==
    /\ x = [is_constant |-> x.is_constant, val |-> x.val, ref_count |-> x.ref_count]
    /\ x.ref_count \in Nat

Emitting == {"body", "call", "return", "crashed"}
Destroying == {"emitted", "destroy", "destroyed"}

\* The types of what the properties are about.
Shape ==
    /\ ipc \in Emitting \cup Destroying
    /\ IsList(frames) /\ \A j \in 1..Len(frames) : IsFrame(frames[j])
    /\ IsList(insts) /\ \A j \in 1..Len(insts) : IsInst(insts[j])
    /\ IsList(vals) /\ \A j \in 1..Len(vals) : IsVal(vals[j])
    /\ label_count \in Nat /\ ret \in Nat /\ next_inst \in Nat \ {0}
    /\ frames # <<>> => ipc \in {"call", "return"}

-----------------------------------------------------------------------------
(* What the steps do to the frames and instructions.                       *)

\* The frame of an operator and the one that replaces it are frames.
LEMMA FrameAppended ==
    ASSUME NEW q, IsList(q), \A j \in 1..Len(q) : IsFrame(q[j]), NEW x, IsFrame(x)
    PROVE  IsList(Append(q, x)) /\ \A j \in 1..Len(Append(q, x)) : IsFrame(Append(q, x)[j])
BY AppendFacts

\* The same of instructions.
LEMMA InstAppended ==
    ASSUME NEW q, IsList(q), \A j \in 1..Len(q) : IsInst(q[j]), NEW x, IsInst(x)
    PROVE  IsList(Append(q, x)) /\ \A j \in 1..Len(Append(q, x)) : IsInst(Append(q, x)[j])
BY AppendFacts

\* The same of values.
LEMMA ValAppended ==
    ASSUME NEW q, IsList(q), \A j \in 1..Len(q) : IsVal(q[j]), NEW x, IsVal(x)
    PROVE  IsList(Append(q, x)) /\ \A j \in 1..Len(Append(q, x)) : IsVal(Append(q, x)[j])
BY AppendFacts

-----------------------------------------------------------------------------
(* What the steps do.                                                      *)

\* What the destruction reads, which emit_ir leaves alone.
Waiting == UNCHANGED <<freed, next_inst>>

\* An operator is called: a frame for it, and two labels if it has any.
LEMMA OperatorStep ==
    ASSUME Shape, EmitOperator
    PROVE  /\ \E x : /\ IsFrame(x) /\ x.at = "lhs" /\ x.e = arg
                     /\ x.exit = label_count + 1 /\ x.end = label_count + 2
                     /\ label_count' = label_count + (IF x.e.op \in Logical THEN 2 ELSE 0)
                     /\ frames' = Append(frames, x)
           /\ arg.op \notin {"NONE", "VAR", "CONST"} /\ arg' = arg.lhs
           /\ ipc = "call" /\ ipc' = "call" /\ UNCHANGED <<ret, insts, vals, name_count>> /\ Waiting
<1>1. PICK x : x = [e |-> arg, at |-> "lhs", lhs |-> 0,
                    exit |-> label_count + 1, end |-> label_count + 2]
  OBVIOUS
<1>2. /\ x.e = arg /\ x.at = "lhs" /\ x.lhs = 0
      /\ x.exit = label_count + 1 /\ x.end = label_count + 2
  BY <1>1
<1>3. IsFrame(x)
  BY <1>1, <1>2 DEF IsFrame, Shape
<1>4. /\ frames' = Append(frames, x)
      /\ label_count' = label_count + (IF x.e.op \in Logical THEN 2 ELSE 0)
  BY <1>1, <1>2 DEF EmitOperator, labels_taken
<1> QED BY <1>2, <1>3, <1>4 DEF EmitOperator, Waiting, released

\* The left operand is done: its frame takes the value, or && and || test it.
LEMMA RightStep ==
    ASSUME Shape, EmitRight
    PROVE  /\ \E x : /\ IsFrame(x) /\ x.at = "rhs" /\ x.lhs = ret
                     /\ x.e = top.e /\ x.exit = top.exit /\ x.end = top.end
                     /\ frames' = Append(callers, x)
           /\ \/ top.e.op \notin Logical /\ insts' = insts
              \/ /\ top.e.op \in Logical
                 /\ \E y, t : /\ t \in Jumps /\ t = exit_jump(top.e.op)
                              /\ Members(y, t, ret, 0, 0, top.exit)
                              /\ insts' = Append(insts, y)
           /\ frames # <<>> /\ top.at = "lhs" /\ IsFrame(top) /\ arg' = top.e.rhs
           /\ ipc = "return" /\ ipc' = "call"
           /\ UNCHANGED <<ret, vals, label_count, name_count>> /\ Waiting
<1>1. frames # <<>> /\ top.at = "lhs" /\ IsFrame(top)
  BY TopFacts DEF EmitRight, Shape
<1>2. PICK w : w = top
  OBVIOUS
<1>3. PICK x : x = [w EXCEPT !.at = "rhs", !.lhs = ret]
  OBVIOUS
<1>4. x = [e |-> w.e, at |-> "rhs", lhs |-> ret, exit |-> w.exit, end |-> w.end]
  <2>1. PICK z : z = [w EXCEPT !.at = "rhs"]
    OBVIOUS
  <2>2. z = [e |-> w.e, at |-> "rhs", lhs |-> w.lhs, exit |-> w.exit, end |-> w.end]
    BY <1>1, <1>2, <2>1 DEF IsFrame
  <2>3. x = [z EXCEPT !.lhs = ret]
    BY <1>3, <2>1
  <2> QED BY <2>2, <2>3
<1>5. /\ IsFrame(x) /\ x.at = "rhs" /\ x.lhs = ret
      /\ x.e = w.e /\ x.exit = w.exit /\ x.end = w.end
  BY <1>1, <1>2, <1>4 DEF IsFrame, Shape
<1>6. frames' = Append(callers, x)
  BY <1>2, <1>3 DEF EmitRight
<1>7. CASE top.e.op \in Logical
  <2>1. PICK y : y = cond_jump(exit_jump(top.e.op), ret, top.exit)
    OBVIOUS
  <2>2. Members(y, exit_jump(top.e.op), ret, 0, 0, top.exit) /\ exit_jump(top.e.op) \in Jumps
    BY <2>1, MembersSet, ExitJumps
  <2>3. insts' = Append(insts, y)
    BY <1>7, <2>1 DEF EmitRight
  <2> QED BY <1>1, <1>2, <1>5, <1>6, <1>7, <2>2, <2>3 DEF EmitRight, Waiting, released
<1>8. CASE top.e.op \notin Logical
  <2>1. insts' = insts
    BY <1>8 DEF EmitRight
  <2> QED BY <1>1, <1>2, <1>5, <1>6, <1>8, <2>1 DEF EmitRight, Waiting, released
<1> QED BY <1>7, <1>8

\* Both operands are done: the instruction takes their values, and its own has two users.
LEMMA OperationStep ==
    ASSUME Shape, EmitOperation
    PROVE  /\ \E y, t : /\ t \in {"UNARY", "BINARY"} /\ (t = "BINARY" <=> ret # 0)
                        /\ y.op = top.e.op
                        /\ Members(y, t, top.lhs, ret, Len(vals) + 1, 0)
                        /\ insts' = Append(insts, y)
           /\ \E u : /\ IsVal(u) /\ u.ref_count = 1 /\ vals' = Append(vals, u)
                     /\ ~u.is_constant /\ u.val = name_count + 1
           /\ name_count' = name_count + 1
           /\ frames # <<>> /\ top.at = "rhs" /\ top.e.op \notin Logical /\ IsFrame(top)
           /\ ret' = Len(vals) + 1 /\ frames' = callers
           /\ ipc = "return" /\ ipc' = "return" /\ UNCHANGED label_count /\ Waiting
<1>1. /\ frames # <<>> /\ top.at = "rhs" /\ top.e.op \notin Logical /\ IsFrame(top)
      /\ ipc = "return" /\ ipc' = "return" /\ UNCHANGED label_count /\ Waiting
      /\ frames' = callers
  BY TopFacts DEF EmitOperation, Shape, Waiting, released
<1>2. PICK u : u = var_val(name_count + 1, 1)
  OBVIOUS
<1>3. /\ IsVal(u) /\ u.ref_count = 1 /\ vals' = Append(vals, u)
      /\ ~u.is_constant /\ u.val = name_count + 1 /\ name_count' = name_count + 1
  BY <1>2 DEF EmitOperation, var_val, IsVal
<1>4. Len(vals') = Len(vals) + 1
  BY <1>3, AppendFacts DEF Shape
<1>5. PICK y : y = operation(top.e.op, top.lhs, ret, Len(vals) + 1)
  OBVIOUS
<1>6. /\ Members(y, IF ret = 0 THEN "UNARY" ELSE "BINARY", top.lhs, ret, Len(vals) + 1, 0)
      /\ insts' = Append(insts, y) /\ ret' = Len(vals) + 1
  BY <1>4, <1>5, MembersSet DEF EmitOperation
<1>7. y.op = top.e.op
  BY <1>5 DEF operation, blank
<1> QED BY <1>1, <1>3, <1>6, <1>7

\* The body's value is returned, and no value has been freed.
LEMMA ReturnStep ==
    ASSUME Shape, EmitReturn
    PROVE  /\ \E y : Members(y, "RETURN", ret, 0, 0, 0) /\ insts' = Append(insts, y)
           /\ frames = <<>> /\ ipc = "return" /\ ipc' = "emitted"
           /\ freed' = [v \in DOMAIN vals |-> 0]
           /\ UNCHANGED <<ret, frames, vals, label_count, next_inst>>
BY MembersSet DEF EmitReturn

\* The three values of && and ||, one after the other.
LEMMA ThreeAppended ==
    ASSUME NEW q, IsList(q), NEW a, NEW b, NEW c
    PROVE  q \o <<a, b, c>> = Append(Append(Append(q, a), b), c)
<1>1. IsList(<<>>) /\ IsList(<<a>>) /\ IsList(<<a, b>>)
  <2>1. PICK S : S = {a, b}
    OBVIOUS
  <2>2. <<>> \in Seq(S) /\ <<a>> \in Seq(S) /\ <<a, b>> \in Seq(S)
    BY <2>1
  <2> QED BY <2>2 DEF IsList
<1>2. <<a>> = Append(<<>>, a) /\ <<a, b>> = Append(<<a>>, b) /\ <<a, b, c>> = Append(<<a, b>>, c)
  OBVIOUS
<1>3. q \o <<>> = q
  BY DEF IsList
<1>4. q \o <<a>> = Append(q, a)
  BY <1>1, <1>2, <1>3, ConcatAppend
<1>5. q \o <<a, b>> = Append(Append(q, a), b)
  BY <1>1, <1>2, <1>4, ConcatAppend
<1> QED BY <1>1, <1>2, <1>5, ConcatAppend

\* The end of && and ||: two jumps, two copies to the result and the two labels. The
\* result has two references besides the caller's, each constant none.
LEMMA LogicalStep ==
    ASSUME Shape, EmitLogical
    PROVE  /\ \E a, b, c, d, e, f, t :
                 /\ t \in Jumps
                 /\ Members(a, t, ret, 0, 0, top.exit)
                 /\ Members(b, "COPY", Len(vals) + 2, 0, Len(vals) + 1, 0)
                 /\ Members(c, "JMP", 0, 0, 0, top.end)
                 /\ Members(d, "LABEL", 0, 0, 0, top.exit)
                 /\ Members(e, "COPY", Len(vals) + 3, 0, Len(vals) + 1, 0)
                 /\ Members(f, "LABEL", 0, 0, 0, top.end)
                 /\ insts' = Append(Append(Append(Append(Append(Append(insts, a), b), c), d), e), f)
           /\ \E u, v, w : /\ IsVal(u) /\ u.ref_count = 2
                           /\ IsVal(v) /\ v.ref_count = 0 /\ IsVal(w) /\ w.ref_count = 0
                           /\ vals' = Append(Append(Append(vals, u), v), w)
           /\ frames # <<>> /\ top.at = "rhs" /\ top.e.op \in Logical /\ IsFrame(top)
           /\ ret' = Len(vals) + 1 /\ frames' = callers
           /\ ipc = "return" /\ ipc' = "return" /\ UNCHANGED label_count /\ Waiting
<1>1. /\ frames # <<>> /\ top.at = "rhs" /\ top.e.op \in Logical /\ IsFrame(top)
      /\ ret' = Len(vals) + 1 /\ frames' = callers
      /\ ipc = "return" /\ ipc' = "return" /\ UNCHANGED label_count /\ Waiting
  BY TopFacts DEF EmitLogical, Shape, Waiting, released
<1>2. PICK n : n = Len(vals)
  OBVIOUS
<1>3. n \in Nat
  BY <1>2, AppendFacts DEF Shape
<1>4. PICK o, x, z : o = top.e.op /\ x = top.exit /\ z = top.end
  OBVIOUS
<1>5. PICK a, b, c, d, e, f :
           /\ a = cond_jump(exit_jump(o), ret, x) /\ b = copy(n + 1 + 1, n + 1) /\ c = jump(z)
           /\ d = label_inst(x) /\ e = copy(n + 1 + 2, n + 1) /\ f = label_inst(z)
  OBVIOUS
<1>6. insts' = insts \o <<a, b, c, d, e, f>>
  BY <1>2, <1>4, <1>5 DEF EmitLogical, LogicalTail
<1>7. insts' = Append(Append(Append(Append(Append(Append(insts, a), b), c), d), e), f)
  <2>1. IsList(insts)
    BY DEF Shape
  <2> QED BY <1>6, <2>1, SixAppended, SMTT(40)
<1>8. /\ Members(a, exit_jump(o), ret, 0, 0, x) /\ exit_jump(o) \in Jumps
      /\ Members(b, "COPY", n + 2, 0, n + 1, 0) /\ Members(c, "JMP", 0, 0, 0, z)
      /\ Members(d, "LABEL", 0, 0, 0, x) /\ Members(e, "COPY", n + 3, 0, n + 1, 0)
      /\ Members(f, "LABEL", 0, 0, 0, z)
  <2>1. n + 1 + 1 = n + 2 /\ n + 1 + 2 = n + 3
    BY <1>3
  <2> QED BY <1>5, <2>1, MembersSet, ExitJumps
<1>9. PICK u, v, w : /\ u = var_val(name_count + 1, 2)
                     /\ v = const_val(through(o)) /\ w = const_val(1 - through(o))
  OBVIOUS
<1>10. /\ IsVal(u) /\ u.ref_count = 2
       /\ IsVal(v) /\ v.ref_count = 0 /\ IsVal(w) /\ w.ref_count = 0
  BY <1>9 DEF var_val, const_val, IsVal
<1>11. vals' = Append(Append(Append(vals, u), v), w)
  <2>1. IsList(vals) /\ vals' = vals \o <<u, v, w>>
    BY <1>4, <1>9 DEF Shape, EmitLogical, logical_vals
  <2> QED BY <2>1, ThreeAppended
<1> QED BY <1>1, <1>2, <1>4, <1>7, <1>8, <1>10, <1>11

\* A leaf is a value of its own.
LEMMA LeafStep ==
    ASSUME Shape, EmitVar \/ EmitConst
    PROVE  /\ \E u : /\ IsVal(u) /\ u.ref_count = 0 /\ vals' = Append(vals, u)
                     /\ \/ /\ arg.op = "VAR" /\ ~u.is_constant /\ u.val = name_count + 1
                           /\ name_count' = name_count + 1
                        \/ /\ arg.op = "CONST" /\ u.is_constant /\ u.val = arg.val
                           /\ name_count' = name_count
           /\ ret' = Len(vals) + 1 /\ ipc = "call" /\ ipc' = "return"
           /\ UNCHANGED <<frames, insts, label_count>> /\ Waiting
<1>1. \E u : /\ IsVal(u) /\ u.ref_count = 0 /\ vals' = Append(vals, u)
            /\ \/ /\ arg.op = "VAR" /\ ~u.is_constant /\ u.val = name_count + 1
                  /\ name_count' = name_count + 1
               \/ /\ arg.op = "CONST" /\ u.is_constant /\ u.val = arg.val
                  /\ name_count' = name_count
  <2>1. CASE EmitVar
    <3>1. PICK u : u = var_val(name_count + 1, 0)
      OBVIOUS
    <3> QED BY <2>1, <3>1 DEF EmitVar, var_val, IsVal
  <2>2. CASE EmitConst
    <3>1. PICK u : u = const_val(arg.val)
      OBVIOUS
    <3> QED BY <2>2, <3>1 DEF EmitConst, const_val, IsVal
  <2> QED BY <2>1, <2>2
<1>2. Len(vals') = Len(vals) + 1
  BY <1>1, AppendFacts DEF Shape
<1> QED BY <1>1, <1>2 DEF EmitVar, EmitConst, Waiting, released

\* The steps that make nothing.
LEMMA QuietStep ==
    ASSUME EmitBody \/ EmitAbsent \/ DestroyBegins \/ UNCHANGED irVars
    PROVE  /\ UNCHANGED <<frames, insts, vals, label_count>> /\ Waiting
           /\ \/ ipc = "body" /\ ipc' \in {"call", "crashed"} /\ ret' = ret
              \/ ipc = "call" /\ ipc' = "return" /\ ret' = 0
              \/ ipc = "emitted" /\ ipc' = "destroy" /\ ret' = ret
              \/ UNCHANGED <<ipc, ret>>
BY DEF EmitBody, EmitAbsent, DestroyBegins, irVars, Waiting, emitted, released

-----------------------------------------------------------------------------
(* Destruction of a value.                                                 *)

\* Values, and how often each was freed.
Releasable(s) ==
    /\ s = [vals |-> s.vals, freed |-> s.freed]
    /\ IsList(s.vals) /\ \A j \in 1..Len(s.vals) : IsVal(s.vals[j])
    /\ s.freed \in [1..Len(s.vals) -> {0, 1}]

\* How many more calls of destroy_ir_val the value is to have.
Due(s, v) ==
    IF v \notin 1..Len(s.vals) \/ s.freed[v] = 1 THEN 0 ELSE s.vals[v].ref_count + 1

\* 1 when instruction or frame names the value v.
Same(u, v) == IF u = v THEN 1 ELSE 0

\* When a value is due.
LEMMA DueCases ==
    ASSUME NEW s, NEW q, NEW g, s = [vals |-> q, freed |-> g], NEW v
    PROVE  /\ v \notin 1..Len(q) => Due(s, v) = 0
           /\ v \in 1..Len(q) /\ g[v] = 1 => Due(s, v) = 0
           /\ v \in 1..Len(q) /\ g[v] = 0 => Due(s, v) = q[v].ref_count + 1
BY DEF Due

\* It is due a number of times.
LEMMA DueNumber ==
    ASSUME NEW s, Releasable(s), NEW v
    PROVE  Due(s, v) \in Nat
<1>1. PICK q, g : q = s.vals /\ g = s.freed
  OBVIOUS
<1>2. s = [vals |-> q, freed |-> g] /\ \A j \in 1..Len(q) : IsVal(q[j])
  BY <1>1 DEF Releasable
<1>3. g \in [1..Len(q) -> {0, 1}]
  BY <1>1 DEF Releasable
<1>4. CASE v \in 1..Len(q)
  <2>1. q[v].ref_count \in Nat
    BY <1>2, <1>4 DEF IsVal
  <2>2. g[v] \in {0, 1}
    BY <1>3, <1>4
  <2> QED BY <1>2, <1>4, <2>1, <2>2, DueCases
<1> QED BY <1>2, <1>4, DueCases

\* destroy_ir_val of a value that is due makes it due once less, and leaves the others.
LEMMA Released ==
    ASSUME NEW s, Releasable(s), NEW u \in Nat, u # 0 => Due(s, u) >= 1,
           NEW t, t = destroy_ir_val(u, s)
    PROVE  /\ Releasable(t) /\ Len(t.vals) = Len(s.vals)
           /\ \A v \in Nat \ {0} : Due(t, v) = Due(s, v) - Same(u, v)
<1>1. PICK q, g : q = s.vals /\ g = s.freed
  OBVIOUS
<1>2. /\ s = [vals |-> q, freed |-> g] /\ IsList(q) /\ \A j \in 1..Len(q) : IsVal(q[j])
      /\ g \in [1..Len(q) -> {0, 1}] /\ Len(q) \in Nat
  BY <1>1, AppendFacts DEF Releasable
<1>3. CASE u = 0
  <2>1. t = s
    BY <1>3 DEF destroy_ir_val
  <2>2. \A v \in Nat \ {0} : Due(s, v) \in Nat /\ Same(u, v) = 0
    BY <1>3, DueNumber DEF Same
  <2> QED BY <2>1, <2>2
<1>4. CASE u # 0
  <2>1. u \in 1..Len(q) /\ g[u] = 0 /\ q[u].ref_count \in Nat /\ IsVal(q[u])
    BY <1>1, <1>2, <1>4 DEF Due, IsVal
  <2>2. CASE q[u].ref_count > 0
    <3>1. PICK x : x = [q[u] EXCEPT !.ref_count = q[u].ref_count - 1]
      OBVIOUS
    <3>2. PICK r : r = [q EXCEPT ![u] = x]
      OBVIOUS
    <3>3. x = [is_constant |-> q[u].is_constant, val |-> q[u].val, ref_count |-> q[u].ref_count - 1]
      BY <2>1, <3>1 DEF IsVal
    <3>4. IsVal(x) /\ x.ref_count = q[u].ref_count - 1
      BY <2>1, <2>2, <3>3 DEF IsVal
    <3>5. t = [s EXCEPT !.vals = r]
      BY <1>1, <1>4, <2>2, <3>1, <3>2 DEF destroy_ir_val
    <3>6. t = [vals |-> r, freed |-> g]
      BY <1>2, <3>5
    <3>7. /\ IsList(r) /\ Len(r) = Len(q) /\ r[u] = x
          /\ \A j \in 1..Len(q) : j # u => r[j] = q[j]
      <4>1. PICK S : q \in Seq(S)
        BY <1>2 DEF IsList
      <4>2. q \in Seq(S \cup {x})
        BY <4>1
      <4>3. r \in Seq(S \cup {x}) /\ Len(r) = Len(q)
        BY <2>1, <3>2, <4>2
      <4>4. r[u] = x /\ \A j \in 1..Len(q) : j # u => r[j] = q[j]
        BY <2>1, <3>2, <4>2
      <4> QED BY <4>3, <4>4 DEF IsList
    <3>8. Releasable(t)
      BY <1>2, <3>4, <3>6, <3>7 DEF Releasable
    <3>9. ASSUME NEW v \in Nat \ {0} PROVE Due(t, v) = Due(s, v) - Same(u, v)
      <4>1. CASE v = u
        <5>1. Due(s, v) = q[u].ref_count + 1 /\ Due(t, v) = x.ref_count + 1 /\ Same(u, v) = 1
          BY <1>2, <2>1, <3>6, <3>7, <4>1, DueCases DEF Same
        <5> QED BY <2>1, <3>4, <5>1
      <4>2. CASE v # u
        <5>1. Due(s, v) = Due(t, v) /\ Same(u, v) = 0
          <6>1. v \in 1..Len(q) => g[v] \in {0, 1} /\ r[v] = q[v]
            BY <1>2, <3>7, <4>2
          <6> QED BY <1>2, <3>6, <3>7, <4>2, <6>1, DueCases DEF Same
        <5> QED BY <5>1, DueNumber
      <4> QED BY <4>1, <4>2
    <3> QED BY <1>1, <3>6, <3>7, <3>8, <3>9
  <2>3. CASE q[u].ref_count = 0
    <3>1. PICK h : h = [g EXCEPT ![u] = g[u] + 1]
      OBVIOUS
    <3>2. h \in [1..Len(q) -> {0, 1}] /\ h[u] = 1 /\ \A j \in 1..Len(q) : j # u => h[j] = g[j]
      BY <1>2, <2>1, <3>1
    <3>3. t = [s EXCEPT !.freed = h]
      BY <1>1, <1>4, <2>3, <3>1 DEF destroy_ir_val
    <3>4. t = [vals |-> q, freed |-> h]
      BY <1>2, <3>3
    <3>5. Releasable(t)
      BY <1>2, <3>2, <3>4 DEF Releasable
    <3>6. ASSUME NEW v \in Nat \ {0} PROVE Due(t, v) = Due(s, v) - Same(u, v)
      <4>1. CASE v = u
        <5>1. Due(s, v) = q[u].ref_count + 1 /\ Due(t, v) = 0 /\ Same(u, v) = 1
          BY <1>2, <2>1, <3>2, <3>4, <4>1, DueCases DEF Same
        <5> QED BY <2>3, <5>1
      <4>2. CASE v # u
        <5>1. Due(s, v) = Due(t, v) /\ Same(u, v) = 0
          <6>1. v \in 1..Len(q) => g[v] \in {0, 1} /\ h[v] = g[v]
            BY <1>2, <3>2, <4>2
          <6> QED BY <1>2, <3>4, <4>2, <6>1, DueCases DEF Same
        <5> QED BY <5>1, DueNumber
      <4> QED BY <4>1, <4>2
    <3> QED BY <1>1, <3>4, <3>5, <3>6
  <2> QED BY <2>1, <2>2, <2>3
<1> QED BY <1>3, <1>4

\* The three values of an instruction, when each is due as often as it is named.
LEMMA InstReleased ==
    ASSUME NEW s, Releasable(s), NEW x, IsInst(x),
           \A v \in Nat \ {0} : Due(s, v) >= Same(x.lhs, v) + Same(x.rhs, v) + Same(x.dst, v),
           NEW t, t = destroy_ir_instruction(x, s)
    PROVE  /\ Releasable(t) /\ Len(t.vals) = Len(s.vals)
           /\ \A v \in Nat \ {0} :
                 Due(t, v) = Due(s, v) - Same(x.lhs, v) - Same(x.rhs, v) - Same(x.dst, v)
<1>1. PICK l, r, d : l = x.lhs /\ r = x.rhs /\ d = x.dst
  OBVIOUS
<1>2. l \in Nat /\ r \in Nat /\ d \in Nat
  BY <1>1 DEF IsInst
<1>3. \A v \in Nat \ {0} : Due(s, v) \in Int
  BY DueNumber
<1>4. /\ \A a, v : Same(a, v) \in {0, 1}
      /\ \A a : Same(a, a) = 1
  BY DEF Same
<1>5. PICK p : p = destroy_ir_val(l, s)
  OBVIOUS
<1>6. /\ Releasable(p) /\ Len(p.vals) = Len(s.vals)
      /\ \A v \in Nat \ {0} : Due(p, v) = Due(s, v) - Same(l, v)
  <2>1. l # 0 => Due(s, l) >= 1
    BY <1>1, <1>2, <1>3, <1>4
  <2> QED BY <1>2, <1>5, <2>1, Released
<1>7. PICK q : q = destroy_ir_val(r, p)
  OBVIOUS
<1>8. /\ Releasable(q) /\ Len(q.vals) = Len(s.vals)
      /\ \A v \in Nat \ {0} : Due(q, v) = Due(p, v) - Same(r, v)
  <2>1. ASSUME r # 0 PROVE Due(p, r) >= 1
    <3>1. Due(p, r) = Due(s, r) - Same(l, r)
      BY <1>2, <1>6, <2>1
    <3>2. Due(s, r) >= Same(l, r) + Same(r, r) + Same(d, r)
      BY <1>1, <1>2, <2>1
    <3> QED BY <1>2, <1>3, <1>4, <2>1, <3>1, <3>2
  <2> QED BY <1>2, <1>6, <1>7, <2>1, Released
<1>9. t = destroy_ir_val(d, q)
  BY <1>1, <1>5, <1>7 DEF destroy_ir_instruction
<1>10. /\ Releasable(t) /\ Len(t.vals) = Len(s.vals)
       /\ \A v \in Nat \ {0} : Due(t, v) = Due(q, v) - Same(d, v)
  <2>1. ASSUME d # 0 PROVE Due(q, d) >= 1
    <3>1. Due(q, d) = Due(s, d) - Same(l, d) - Same(r, d)
      BY <1>2, <1>6, <1>8, <2>1
    <3>2. Due(s, d) >= Same(l, d) + Same(r, d) + Same(d, d)
      BY <1>1, <1>2, <2>1
    <3> QED BY <1>2, <1>3, <1>4, <2>1, <3>1, <3>2
  <2> QED BY <1>2, <1>8, <1>9, <2>1, Released
<1> QED BY <1>1, <1>3, <1>4, <1>6, <1>8, <1>10

-----------------------------------------------------------------------------
(* Counting the users of a value.                                          *)

\* The instructions from n on that name v in the member f.
Uses(q, n, f, v) == {j \in n..Len(q) : q[j][f] = v}

Total(q, n, v) ==
    Cardinality(Uses(q, n, "lhs", v)) + Cardinality(Uses(q, n, "rhs", v))
      + Cardinality(Uses(q, n, "dst", v))

Named(x, v) == Same(x.lhs, v) + Same(x.rhs, v) + Same(x.dst, v)

\* A set of positions is counted by a number.
LEMMA UsesFinite ==
    ASSUME NEW q, IsList(q), NEW n \in Nat, NEW f, NEW v
    PROVE  IsFiniteSet(Uses(q, n, f, v)) /\ Cardinality(Uses(q, n, f, v)) \in Nat
<1>1. Len(q) \in Nat
  BY AppendFacts
<1>2. IsFiniteSet(n..Len(q))
  BY <1>1, FS_Interval
<1>3. Uses(q, n, f, v) \in SUBSET (n..Len(q))
  BY DEF Uses
<1> QED BY <1>2, <1>3, FS_Subset, FS_CardinalityType

\* An instruction at the end is counted where it names the value.
LEMMA UsesAppended ==
    ASSUME NEW q, IsList(q), NEW n \in Nat \ {0}, n <= Len(q) + 1, NEW x, NEW f, NEW v
    PROVE  Cardinality(Uses(Append(q, x), n, f, v))
             = Cardinality(Uses(q, n, f, v)) + Same(x[f], v)
<1>1. PICK m, p : m = Len(q) /\ p = Append(q, x)
  OBVIOUS
<1>2. /\ m \in Nat /\ Len(p) = m + 1 /\ p[m + 1] = x
      /\ \A j \in 1..m : p[j] = q[j]
  BY <1>1, AppendFacts
<1>3. PICK A, B : A = Uses(q, n, f, v) /\ B = Uses(p, n, f, v)
  OBVIOUS
<1>4. IsFiniteSet(A) /\ Cardinality(A) \in Nat /\ m + 1 \notin A
  <2>1. IsFiniteSet(A) /\ Cardinality(A) \in Nat
    BY <1>3, UsesFinite
  <2>2. m + 1 \notin A
    BY <1>1, <1>2, <1>3 DEF Uses
  <2> QED BY <2>1, <2>2
<1>5. \A j : j \in B <=> j \in A \/ (j = m + 1 /\ x[f] = v)
  <2>1. \A j : j \in n..(m + 1) <=> j \in n..m \/ j = m + 1
    BY <1>1, <1>2
  <2>2. \A j \in n..m : p[j] = q[j]
    BY <1>1, <1>2
  <2> QED BY <1>1, <1>2, <1>3, <2>1, <2>2 DEF Uses
<1>6. CASE x[f] = v
  <2>1. B = A \cup {m + 1}
    BY <1>5, <1>6
  <2>2. Cardinality(B) = Cardinality(A) + 1
    BY <1>4, <2>1, FS_AddElement
  <2> QED BY <1>1, <1>3, <1>6, <2>2 DEF Same
<1>7. CASE x[f] # v
  <2>1. B = A
    BY <1>5, <1>7
  <2> QED BY <1>1, <1>3, <1>4, <1>7, <2>1 DEF Same
<1> QED BY <1>6, <1>7

\* An instruction at the front is counted no longer when it has been destroyed.
LEMMA UsesDropped ==
    ASSUME NEW q, IsList(q), NEW n \in 1..Len(q), NEW f, NEW v
    PROVE  Cardinality(Uses(q, n, f, v)) = Cardinality(Uses(q, n + 1, f, v)) + Same(q[n][f], v)
<1>1. Len(q) \in Nat
  BY AppendFacts
<1>2. PICK x : x = q[n][f]
  OBVIOUS
<1>3. PICK A, B : A = Uses(q, n + 1, f, v) /\ B = Uses(q, n, f, v)
  OBVIOUS
<1>4. IsFiniteSet(A) /\ Cardinality(A) \in Nat /\ n \notin A
  <2>1. IsFiniteSet(A) /\ Cardinality(A) \in Nat
    BY <1>3, UsesFinite
  <2>2. n \notin A
    BY <1>1, <1>3 DEF Uses
  <2> QED BY <2>1, <2>2
<1>5. \A j : j \in B <=> j \in A \/ (j = n /\ x = v)
  <2>1. \A j : j \in n..Len(q) <=> j \in (n + 1)..Len(q) \/ j = n
    BY <1>1
  <2> QED BY <1>2, <1>3, <2>1 DEF Uses
<1>6. CASE x = v
  <2>1. B = A \cup {n}
    BY <1>5, <1>6
  <2>2. Cardinality(B) = Cardinality(A) + 1
    BY <1>4, <2>1, FS_AddElement
  <2> QED BY <1>2, <1>3, <1>6, <2>2 DEF Same
<1>7. CASE x # v
  <2>1. B = A
    BY <1>5, <1>7
  <2> QED BY <1>2, <1>3, <1>4, <1>7, <2>1 DEF Same
<1> QED BY <1>6, <1>7

\* The same for an instruction's three members together.
LEMMA TotalAppended ==
    ASSUME NEW q, IsList(q), NEW n \in Nat \ {0}, n <= Len(q) + 1, NEW x, NEW v
    PROVE  /\ Total(q, n, v) \in Nat /\ Named(x, v) \in Nat
           /\ Total(Append(q, x), n, v) = Total(q, n, v) + Named(x, v)
<1>1. PICK a, b, c : /\ a = Cardinality(Uses(q, n, "lhs", v)) /\ b = Cardinality(Uses(q, n, "rhs", v))
                     /\ c = Cardinality(Uses(q, n, "dst", v))
  OBVIOUS
<1>2. a \in Nat /\ b \in Nat /\ c \in Nat
  BY <1>1, UsesFinite
<1>3. PICK k, l, m : k = Same(x.lhs, v) /\ l = Same(x.rhs, v) /\ m = Same(x.dst, v)
  OBVIOUS
<1>4. k \in Nat /\ l \in Nat /\ m \in Nat
  BY <1>3 DEF Same
<1>5. Total(q, n, v) = a + b + c /\ Named(x, v) = k + l + m
  BY <1>1, <1>3 DEF Total, Named
<1>6. /\ Cardinality(Uses(Append(q, x), n, "lhs", v)) = a + k
      /\ Cardinality(Uses(Append(q, x), n, "rhs", v)) = b + l
      /\ Cardinality(Uses(Append(q, x), n, "dst", v)) = c + m
  BY <1>1, <1>3, UsesAppended
<1>7. Total(Append(q, x), n, v) = (a + k) + (b + l) + (c + m)
  BY <1>6 DEF Total
<1> QED BY <1>2, <1>4, <1>5, <1>7

\* The same when it has been destroyed.
LEMMA TotalDropped ==
    ASSUME NEW q, IsList(q), NEW n \in 1..Len(q), NEW v
    PROVE  /\ Total(q, n, v) \in Nat /\ Total(q, n + 1, v) \in Nat
           /\ Total(q, n, v) = Total(q, n + 1, v) + Named(q[n], v)
<1>0. n \in Nat /\ n + 1 \in Nat
  OBVIOUS
<1>1. PICK a, b, c : /\ a = Cardinality(Uses(q, n + 1, "lhs", v)) /\ b = Cardinality(Uses(q, n + 1, "rhs", v))
                     /\ c = Cardinality(Uses(q, n + 1, "dst", v))
  OBVIOUS
<1>2. a \in Nat /\ b \in Nat /\ c \in Nat
  BY <1>0, <1>1, UsesFinite
<1>3. PICK k, l, m : k = Same(q[n].lhs, v) /\ l = Same(q[n].rhs, v) /\ m = Same(q[n].dst, v)
  OBVIOUS
<1>4. k \in Nat /\ l \in Nat /\ m \in Nat
  BY <1>3 DEF Same
<1>5. Total(q, n + 1, v) = a + b + c /\ Named(q[n], v) = k + l + m
  BY <1>1, <1>3 DEF Total, Named
<1>6. /\ Cardinality(Uses(q, n, "lhs", v)) = a + k
      /\ Cardinality(Uses(q, n, "rhs", v)) = b + l
      /\ Cardinality(Uses(q, n, "dst", v)) = c + m
  BY <1>1, <1>3, UsesDropped
<1>7. Total(q, n, v) = (a + k) + (b + l) + (c + m)
  BY <1>6 DEF Total
<1> QED BY <1>2, <1>4, <1>5, <1>7

\* The frames that hold v until their right operand is done. && and || hold none: their
\* first jump has taken it.
HeldBy(x, v) == x.at = "rhs" /\ x.e.op \notin Logical /\ x.lhs = v
Kept(q, v) == Cardinality({j \in 1..Len(q) : HeldBy(q[j], v)})

\* A frame at the top is counted when it holds v.
LEMMA KeptAppended ==
    ASSUME NEW q, IsList(q), NEW x, NEW v
    PROVE  /\ Kept(q, v) \in Nat
           /\ HeldBy(x, v) => Kept(Append(q, x), v) = Kept(q, v) + 1
           /\ ~HeldBy(x, v) => Kept(Append(q, x), v) = Kept(q, v)
<1>1. PICK m, p : m = Len(q) /\ p = Append(q, x)
  OBVIOUS
<1>2. /\ m \in Nat /\ Len(p) = m + 1 /\ p[m + 1] = x
      /\ \A j \in 1..m : p[j] = q[j]
  BY <1>1, AppendFacts
<1>3. PICK A, B : A = {j \in 1..Len(q) : HeldBy(q[j], v)} /\ B = {j \in 1..Len(p) : HeldBy(p[j], v)}
  OBVIOUS
<1>4. IsFiniteSet(A) /\ Cardinality(A) \in Nat /\ m + 1 \notin A
  <2>1. A \in SUBSET (1..m) /\ IsFiniteSet(1..m)
    BY <1>1, <1>2, <1>3, FS_Interval
  <2>2. IsFiniteSet(A)
    BY <2>1, FS_Subset
  <2>3. m + 1 \notin A
    BY <1>2, <2>1
  <2> QED BY <2>2, <2>3, FS_CardinalityType
<1>5. \A j : j \in B <=> j \in A \/ (j = m + 1 /\ HeldBy(x, v))
  BY <1>1, <1>2, <1>3
<1>6. CASE HeldBy(x, v)
  <2>1. B = A \cup {m + 1}
    BY <1>5, <1>6
  <2>2. Cardinality(B) = Cardinality(A) + 1
    BY <1>4, <2>1, FS_AddElement
  <2> QED BY <1>1, <1>3, <1>4, <1>6, <2>2 DEF Kept
<1>7. CASE ~HeldBy(x, v)
  <2>1. B = A
    BY <1>5, <1>7
  <2> QED BY <1>1, <1>3, <1>4, <1>7, <2>1 DEF Kept
<1> QED BY <1>6, <1>7

-----------------------------------------------------------------------------
(* Every reference is counted.                                             *)

\* The references that emit_ir has given to v.
Refs(q, v) == IF v \in 1..Len(q) THEN q[v].ref_count + 1 ELSE 0

\* Those that destroy_ir_val has still to take.
Owed(v) == IF ipc \in Destroying THEN Due([vals |-> vals, freed |-> freed], v) ELSE Refs(vals, v)

\* The value that is on its way to a caller.
Handed(v) == IF ipc = "return" THEN Same(ret, v) ELSE 0

\* The instructions that are left, the frames and the value returned name each value as
\* often as it is to be released.
Counted ==
    \A v \in Nat \ {0} : Total(insts, next_inst, v) + Kept(frames, v) + Handed(v) = Owed(v)

\* How far the destruction is.
Progress ==
    /\ next_inst \in 1..(Len(insts) + 1)
    /\ ipc \in Emitting \cup {"emitted"} => next_inst = 1
    /\ ipc \in Emitting => freed = <<>>
    /\ ipc \in Destroying => freed \in [1..Len(vals) -> {0, 1}]
    /\ ipc = "destroyed" => next_inst = Len(insts) + 1

\* A new value is named nowhere, and the others keep their references.
LEMMA RefsAppended ==
    ASSUME NEW q, IsList(q), \A j \in 1..Len(q) : IsVal(q[j]), NEW u, IsVal(u), NEW v \in Nat \ {0}
    PROVE  /\ Refs(q, v) \in Nat
           /\ v = Len(q) + 1 => Refs(q, v) = 0 /\ Refs(Append(q, u), v) = u.ref_count + 1
           /\ v # Len(q) + 1 => Refs(Append(q, u), v) = Refs(q, v)
<1>1. PICK m, p : m = Len(q) /\ p = Append(q, u)
  OBVIOUS
<1>2. /\ m \in Nat /\ Len(p) = m + 1 /\ p[m + 1] = u
      /\ \A j \in 1..m : p[j] = q[j]
  BY <1>1, AppendFacts
<1>3. \A j \in 1..m : q[j].ref_count \in Nat
  BY <1>1 DEF IsVal
<1>4. CASE v \in 1..m
  <2>1. p[v] = q[v] /\ v \in 1..Len(p) /\ v # m + 1
    BY <1>2, <1>4
  <2> QED BY <1>1, <1>3, <1>4, <2>1 DEF Refs
<1>5. CASE v = m + 1
  <2>1. v \notin 1..m /\ v \in 1..Len(p)
    BY <1>2, <1>5
  <2> QED BY <1>1, <1>2, <1>5, <2>1 DEF Refs
<1>6. CASE v \notin 1..(m + 1)
  <2>1. v \notin 1..m /\ v \notin 1..Len(p) /\ v # m + 1
    BY <1>2, <1>6
  <2> QED BY <1>1, <2>1 DEF Refs
<1> QED BY <1>2, <1>4, <1>5, <1>6

\* One iteration of ir_destroy's loop: the values of an instruction are released.
LEMMA DestroyInstStep ==
    ASSUME Shape, Counted, Progress, DestroyInst
    PROVE  /\ IsList(vals') /\ Len(vals') = Len(vals) /\ \A j \in 1..Len(vals') : IsVal(vals'[j])
           /\ freed' \in [1..Len(vals') -> {0, 1}]
           /\ \A v \in Nat \ {0} :
                 Due([vals |-> vals', freed |-> freed'], v)
                   = Due([vals |-> vals, freed |-> freed], v) - Named(insts[next_inst], v)
<1>1. PICK s : s = [vals |-> vals, freed |-> freed]
  OBVIOUS
<1>2. PICK x : x = insts[next_inst]
  OBVIOUS
<1>3. PICK t : t = destroy_ir_instruction(x, s)
  OBVIOUS
<1>4. /\ ipc = "destroy" /\ next_inst \in 1..Len(insts) /\ vals' = t.vals /\ freed' = t.freed
      /\ IsInst(x) /\ frames = <<>> /\ IsList(insts)
  <2>1. ipc = "destroy" /\ next_inst <= Len(insts) /\ vals' = t.vals /\ freed' = t.freed
    BY <1>1, <1>2, <1>3 DEF DestroyInst
  <2>2. Len(insts) \in Nat /\ next_inst \in 1..Len(insts)
    BY <2>1, AppendFacts DEF Shape
  <2> QED BY <1>2, <2>1, <2>2 DEF Shape
<1>5. Releasable(s)
  BY <1>1, <1>4 DEF Releasable, Shape, Progress, Destroying
<1>6. ASSUME NEW v \in Nat \ {0}
      PROVE  Due(s, v) >= Named(x, v) /\ Named(x, v) = Same(x.lhs, v) + Same(x.rhs, v) + Same(x.dst, v)
  <2>1. PICK a, b : a = Total(insts, next_inst, v) /\ b = Total(insts, next_inst + 1, v)
    OBVIOUS
  <2>2. a \in Nat /\ b \in Nat /\ a = b + Named(x, v)
    BY <1>2, <1>4, <2>1, TotalDropped
  <2>3. Named(x, v) \in Nat
    BY DEF Named, Same
  <2>4. a + Kept(frames, v) + Handed(v) = Due(s, v)
    BY <1>1, <1>4, <2>1 DEF Counted, Owed, Destroying
  <2>5. Handed(v) = 0
    BY <1>4 DEF Handed
  <2>6. Kept(frames, v) \in Nat
    BY KeptAppended DEF Shape
  <2>7. Due(s, v) >= Named(x, v)
    BY <2>2, <2>3, <2>4, <2>5, <2>6
  <2> QED BY <2>7 DEF Named
<1>7. /\ Releasable(t) /\ Len(t.vals) = Len(s.vals)
      /\ \A v \in Nat \ {0} :
            Due(t, v) = Due(s, v) - Same(x.lhs, v) - Same(x.rhs, v) - Same(x.dst, v)
  <2>1. \A v \in Nat \ {0} : Due(s, v) >= Same(x.lhs, v) + Same(x.rhs, v) + Same(x.dst, v)
    BY <1>6
  <2> QED BY <1>3, <1>4, <1>5, <2>1, InstReleased
<1>8. t = [vals |-> vals', freed |-> freed']
  BY <1>4, <1>7 DEF Releasable
<1>9. ASSUME NEW v \in Nat \ {0} PROVE Due(t, v) = Due(s, v) - Named(x, v)
  <2>1. /\ Due(s, v) \in Nat /\ Same(x.lhs, v) \in Nat /\ Same(x.rhs, v) \in Nat
        /\ Same(x.dst, v) \in Nat
    BY <1>5, DueNumber DEF Same
  <2> QED BY <1>7, <2>1 DEF Named
<1>10. Len(vals') = Len(vals)
  BY <1>1, <1>4, <1>7
<1> QED BY <1>1, <1>2, <1>4, <1>7, <1>8, <1>9, <1>10 DEF Releasable

\* Every step keeps the types.
LEMMA ShapeStep ==
    ASSUME Shape, Counted, Progress, [IrNext]_irVars
    PROVE  Shape'
<1>f. /\ IsList(frames) /\ \A j \in 1..Len(frames) : IsFrame(frames[j])
      /\ IsList(insts) /\ \A j \in 1..Len(insts) : IsInst(insts[j])
      /\ IsList(vals) /\ \A j \in 1..Len(vals) : IsVal(vals[j])
      /\ label_count \in Nat /\ ret \in Nat /\ next_inst \in Nat \ {0}
      /\ Len(vals) \in Nat
  BY AppendFacts DEF Shape
<1>c. frames # <<>> => /\ IsList(callers) /\ \A j \in 1..Len(callers) : IsFrame(callers[j])
                       /\ IsFrame(top)
  BY <1>f, TopFacts
<1>0. CASE EmitBody \/ EmitAbsent \/ DestroyBegins \/ UNCHANGED irVars
  <2>1. /\ UNCHANGED <<frames, insts, vals, label_count>> /\ Waiting
        /\ \/ ipc = "body" /\ ipc' \in {"call", "crashed"} /\ ret' = ret
           \/ ipc = "call" /\ ipc' = "return" /\ ret' = 0
           \/ ipc = "emitted" /\ ipc' = "destroy" /\ ret' = ret
           \/ UNCHANGED <<ipc, ret>>
    BY <1>0, QuietStep
  <2> QED BY <2>1 DEF Shape, Emitting, Destroying, Waiting
<1>1. CASE EmitVar \/ EmitConst
  <2>1. PICK u : IsVal(u) /\ u.ref_count = 0 /\ vals' = Append(vals, u)
    BY <1>1, LeafStep
  <2>2. IsList(vals') /\ \A j \in 1..Len(vals') : IsVal(vals'[j])
    BY <1>f, <2>1, ValAppended
  <2>3. ret' = Len(vals) + 1 /\ ipc = "call" /\ ipc' = "return"
        /\ UNCHANGED <<frames, insts, label_count>> /\ Waiting
    BY <1>1, LeafStep
  <2> QED BY <1>f, <2>2, <2>3 DEF Shape, Emitting, Waiting
<1>2. CASE EmitOperator
  <2>1. PICK x : /\ IsFrame(x)
                 /\ label_count' = label_count + (IF x.e.op \in Logical THEN 2 ELSE 0)
                 /\ frames' = Append(frames, x)
    BY <1>2, OperatorStep
  <2>2. IsList(frames') /\ \A j \in 1..Len(frames') : IsFrame(frames'[j])
    BY <1>f, <2>1, FrameAppended
  <2>3. ipc' = "call" /\ UNCHANGED <<ret, insts, vals>> /\ Waiting
    BY <1>2, OperatorStep
  <2>4. label_count' \in Nat
    BY <1>f, <2>1
  <2> QED BY <1>f, <2>2, <2>3, <2>4 DEF Shape, Emitting, Waiting
<1>3. CASE EmitRight
  <2>1. PICK x : IsFrame(x) /\ frames' = Append(callers, x)
    BY <1>3, RightStep
  <2>2. /\ ipc' = "call" /\ UNCHANGED <<ret, vals, label_count>> /\ Waiting
        /\ frames # <<>> /\ IsFrame(top)
    BY <1>3, RightStep
  <2>3. IsList(frames') /\ \A j \in 1..Len(frames') : IsFrame(frames'[j])
    BY <1>c, <2>1, <2>2, FrameAppended
  <2>4. IsList(insts') /\ \A j \in 1..Len(insts') : IsInst(insts'[j])
    <3>1. CASE insts' = insts
      BY <1>f, <3>1
    <3>2. CASE insts' # insts
      <4>1. PICK y, t : Members(y, t, ret, 0, 0, top.exit) /\ insts' = Append(insts, y)
        BY <1>3, <3>2, RightStep
      <4>2. IsInst(y)
        BY <1>f, <2>2, <4>1 DEF Members, IsInst, IsFrame
      <4> QED BY <1>f, <4>1, <4>2, InstAppended
    <3> QED BY <3>1, <3>2
  <2> QED BY <1>f, <2>2, <2>3, <2>4 DEF Shape, Emitting, Waiting
<1>4. CASE EmitOperation
  <2>1. PICK y, t : Members(y, t, top.lhs, ret, Len(vals) + 1, 0) /\ insts' = Append(insts, y)
    BY <1>4, OperationStep
  <2>2. PICK u : IsVal(u) /\ vals' = Append(vals, u)
    BY <1>4, OperationStep
  <2>3. /\ frames # <<>> /\ IsFrame(top) /\ ret' = Len(vals) + 1 /\ frames' = callers
        /\ ipc' = "return" /\ UNCHANGED label_count /\ Waiting
    BY <1>4, OperationStep
  <2>4. IsInst(y)
    BY <1>f, <2>1, <2>3 DEF Members, IsInst, IsFrame
  <2>5. IsList(insts') /\ \A j \in 1..Len(insts') : IsInst(insts'[j])
    BY <1>f, <2>1, <2>4, InstAppended
  <2>6. IsList(vals') /\ \A j \in 1..Len(vals') : IsVal(vals'[j])
    BY <1>f, <2>2, ValAppended
  <2> QED BY <1>f, <1>c, <2>3, <2>5, <2>6 DEF Shape, Emitting, Waiting
<1>5. CASE EmitLogical
  <2>1. PICK a, b, c, d, e, f, t :
           /\ Members(a, t, ret, 0, 0, top.exit)
           /\ Members(b, "COPY", Len(vals) + 2, 0, Len(vals) + 1, 0)
           /\ Members(c, "JMP", 0, 0, 0, top.end)
           /\ Members(d, "LABEL", 0, 0, 0, top.exit)
           /\ Members(e, "COPY", Len(vals) + 3, 0, Len(vals) + 1, 0)
           /\ Members(f, "LABEL", 0, 0, 0, top.end)
           /\ insts' = Append(Append(Append(Append(Append(Append(insts, a), b), c), d), e), f)
    BY <1>5, LogicalStep, SMTT(30)
  <2>2. PICK u, v, w : /\ IsVal(u) /\ IsVal(v) /\ IsVal(w)
                       /\ vals' = Append(Append(Append(vals, u), v), w)
    BY <1>5, LogicalStep, SMTT(30)
  <2>3. /\ frames # <<>> /\ IsFrame(top) /\ ret' = Len(vals) + 1 /\ frames' = callers
        /\ ipc' = "return" /\ UNCHANGED label_count /\ Waiting
    BY <1>5, LogicalStep
  <2>4. IsInst(a) /\ IsInst(b) /\ IsInst(c) /\ IsInst(d) /\ IsInst(e) /\ IsInst(f)
    BY <1>f, <2>1, <2>3 DEF Members, IsInst, IsFrame
  <2>5. IsList(insts') /\ \A j \in 1..Len(insts') : IsInst(insts'[j])
    <3>1. PICK p1 : p1 = Append(insts, a)
      OBVIOUS
    <3>2. PICK p2 : p2 = Append(p1, b)
      OBVIOUS
    <3>3. PICK p3 : p3 = Append(p2, c)
      OBVIOUS
    <3>4. PICK p4 : p4 = Append(p3, d)
      OBVIOUS
    <3>5. PICK p5 : p5 = Append(p4, e)
      OBVIOUS
    <3>6. PICK p6 : p6 = Append(p5, f)
      OBVIOUS
    <3>7. IsList(p1) /\ \A j \in 1..Len(p1) : IsInst(p1[j])
      BY <1>f, <2>4, <3>1, InstAppended
    <3>8. IsList(p2) /\ \A j \in 1..Len(p2) : IsInst(p2[j])
      BY <2>4, <3>2, <3>7, InstAppended
    <3>9. IsList(p3) /\ \A j \in 1..Len(p3) : IsInst(p3[j])
      BY <2>4, <3>3, <3>8, InstAppended
    <3>10. IsList(p4) /\ \A j \in 1..Len(p4) : IsInst(p4[j])
      BY <2>4, <3>4, <3>9, InstAppended
    <3>11. IsList(p5) /\ \A j \in 1..Len(p5) : IsInst(p5[j])
      BY <2>4, <3>5, <3>10, InstAppended
    <3>12. IsList(p6) /\ \A j \in 1..Len(p6) : IsInst(p6[j])
      BY <2>4, <3>6, <3>11, InstAppended
    <3> QED BY <2>1, <3>1, <3>2, <3>3, <3>4, <3>5, <3>6, <3>12
  <2>6. IsList(vals') /\ \A j \in 1..Len(vals') : IsVal(vals'[j])
    <3>1. PICK p1 : p1 = Append(vals, u)
      OBVIOUS
    <3>2. PICK p2 : p2 = Append(p1, v)
      OBVIOUS
    <3>3. IsList(p1) /\ \A j \in 1..Len(p1) : IsVal(p1[j])
      BY <1>f, <2>2, <3>1, ValAppended
    <3>4. IsList(p2) /\ \A j \in 1..Len(p2) : IsVal(p2[j])
      BY <2>2, <3>2, <3>3, ValAppended
    <3> QED BY <2>2, <3>1, <3>2, <3>4, ValAppended
  <2> QED BY <1>f, <1>c, <2>3, <2>5, <2>6 DEF Shape, Emitting, Waiting
<1>6. CASE EmitReturn
  <2>1. PICK y : Members(y, "RETURN", ret, 0, 0, 0) /\ insts' = Append(insts, y)
    BY <1>6, ReturnStep
  <2>2. frames = <<>> /\ ipc' = "emitted" /\ UNCHANGED <<ret, frames, vals, label_count, next_inst>>
    BY <1>6, ReturnStep
  <2>3. IsInst(y)
    BY <1>f, <2>1 DEF Members, IsInst
  <2>4. IsList(insts') /\ \A j \in 1..Len(insts') : IsInst(insts'[j])
    BY <1>f, <2>1, <2>3, InstAppended
  <2> QED BY <1>f, <2>2, <2>4 DEF Shape, Destroying
<1>7. CASE DestroyInst
  <2>1. IsList(vals') /\ \A j \in 1..Len(vals') : IsVal(vals'[j])
    BY <1>7, DestroyInstStep
  <2>2. /\ ipc = "destroy" /\ next_inst' = next_inst + 1
        /\ UNCHANGED <<ipc, ret, frames, insts, label_count>>
    BY <1>7 DEF DestroyInst
  <2> QED BY <1>f, <2>1, <2>2 DEF Shape
<1>8. CASE DestroyDone
  <2>1. /\ ipc = "destroy" /\ ipc' = "destroyed"
        /\ UNCHANGED <<ret, frames, insts, vals, label_count, next_inst>>
    BY <1>8 DEF DestroyDone, emitted, released
  <2> QED BY <2>1 DEF Shape, Emitting, Destroying
<1> QED BY <1>0, <1>1, <1>2, <1>3, <1>4, <1>5, <1>6, <1>7, <1>8 DEF IrNext, EmitStep, DestroyStep


-----------------------------------------------------------------------------
(* emit_ir counts every reference it makes.                                *)

\* While the code is made, v is named as often as it has references.
Balance(q, f, r, p, v) == Total(q, 1, v) + Kept(f, v) + r = Refs(p, v)

\* What an instruction names, from its members.
LEMMA NamedMembers ==
    ASSUME NEW y, NEW t, NEW l, NEW r, NEW d, NEW n, Members(y, t, l, r, d, n), NEW v \in Nat \ {0}
    PROVE  /\ Named(y, v) = Same(l, v) + Same(r, v) + Same(d, v)
           /\ Same(0, v) = 0 /\ \A u : Same(u, v) \in {0, 1}
BY DEF Members, Named, Same

\* The counts while the code is made.
LEMMA EmittingCounts ==
    ASSUME Shape, Counted, Progress, ipc \in Emitting, NEW v \in Nat \ {0}
    PROVE  /\ next_inst = 1 /\ IsList(insts) /\ IsList(vals) /\ IsList(frames)
           /\ Len(insts) \in Nat /\ Len(vals) \in Nat
           /\ Total(insts, 1, v) \in Nat /\ Kept(frames, v) \in Nat /\ Refs(vals, v) \in Nat
           /\ \A u : Same(u, v) \in {0, 1}
           /\ ipc = "return" => Balance(insts, frames, Same(ret, v), vals, v)
           /\ ipc # "return" => Balance(insts, frames, 0, vals, v)
<1>1. next_inst = 1 /\ IsList(insts) /\ IsList(vals) /\ IsList(frames)
  BY DEF Shape, Progress
<1>2. Len(insts) \in Nat /\ Len(vals) \in Nat
  BY <1>1, AppendFacts
<1>3. Total(insts, 1, v) \in Nat
  BY <1>1, <1>2, TotalAppended
<1>4. Kept(frames, v) \in Nat
  BY <1>1, KeptAppended
<1>5. Refs(vals, v) \in Nat
  <2>1. PICK u : u = const_val(0)
    OBVIOUS
  <2>2. IsVal(u)
    BY <2>1 DEF const_val, IsVal
  <2> QED BY <2>2, RefsAppended DEF Shape
<1>6. Total(insts, 1, v) + Kept(frames, v) + Handed(v) = Owed(v)
  BY <1>1 DEF Counted
<1>7. Owed(v) = Refs(vals, v)
  BY DEF Owed, Emitting, Destroying
<1> QED BY <1>1, <1>2, <1>3, <1>4, <1>5, <1>6, <1>7 DEF Handed, Balance, Same

\* A leaf has the one reference it is returned with.
LEMMA LeafCounted ==
    ASSUME Shape, Counted, Progress, EmitVar \/ EmitConst, NEW v \in Nat \ {0}
    PROVE  Balance(insts', frames', Same(ret', v), vals', v)
<1>1. PICK u : IsVal(u) /\ u.ref_count = 0 /\ vals' = Append(vals, u)
  BY LeafStep
<1>2. /\ ret' = Len(vals) + 1 /\ ipc = "call" /\ insts' = insts /\ frames' = frames
  BY LeafStep
<1>3. /\ Total(insts, 1, v) \in Nat /\ Kept(frames, v) \in Nat /\ Refs(vals, v) \in Nat
      /\ Total(insts, 1, v) + Kept(frames, v) + 0 = Refs(vals, v)
  BY <1>2, EmittingCounts DEF Emitting, Balance
<1>4. /\ v = Len(vals) + 1 => Refs(vals, v) = 0 /\ Refs(vals', v) = 1
      /\ v # Len(vals) + 1 => Refs(vals', v) = Refs(vals, v)
  BY <1>1, RefsAppended DEF Shape
<1>5. Total(insts, 1, v) + Kept(frames, v) + Same(ret', v) = Refs(vals', v)
  BY <1>2, <1>3, <1>4 DEF Same
<1> QED BY <1>2, <1>5 DEF Balance

\* The call of an operator names no value.
LEMMA OperatorCounted ==
    ASSUME Shape, Counted, Progress, EmitOperator, NEW v \in Nat \ {0}
    PROVE  Balance(insts', frames', 0, vals', v)
<1>1. PICK x : x.at = "lhs" /\ frames' = Append(frames, x)
  BY OperatorStep
<1>2. ipc = "call" /\ insts' = insts /\ vals' = vals
  BY OperatorStep
<1>3. Balance(insts, frames, 0, vals, v)
  BY <1>2, EmittingCounts DEF Emitting
<1>4. Kept(frames', v) = Kept(frames, v)
  BY <1>1, KeptAppended DEF HeldBy, Shape
<1> QED BY <1>2, <1>3, <1>4 DEF Balance

\* The value of a left operand goes to its frame or to the jump that tests it.
LEMMA RightCounted ==
    ASSUME Shape, Counted, Progress, EmitRight, NEW v \in Nat \ {0}
    PROVE  Balance(insts', frames', 0, vals', v)
<1>1. PICK x : /\ x.at = "rhs" /\ x.lhs = ret /\ x.e = top.e
               /\ frames' = Append(callers, x)
  BY RightStep
<1>2. /\ frames # <<>> /\ top.at = "lhs" /\ ipc = "return" /\ vals' = vals
  BY RightStep
<1>3. /\ Total(insts, 1, v) \in Nat /\ Kept(frames, v) \in Nat
      /\ Total(insts, 1, v) + Kept(frames, v) + Same(ret, v) = Refs(vals, v)
      /\ IsList(insts) /\ Len(insts) \in Nat /\ Same(ret, v) \in {0, 1}
  BY <1>2, EmittingCounts DEF Emitting, Balance
<1>4. Kept(frames, v) = Kept(callers, v) /\ IsList(callers)
  <2>1. IsList(callers) /\ frames = Append(callers, top)
    BY <1>2, TopFacts DEF Shape
  <2>2. ~HeldBy(top, v)
    BY <1>2 DEF HeldBy
  <2> QED BY <2>1, <2>2, KeptAppended
<1>5. CASE top.e.op \in Logical
  <2>1. PICK y, t : Members(y, t, ret, 0, 0, top.exit) /\ insts' = Append(insts, y)
    BY <1>5, RightStep
  <2>2. Named(y, v) = Same(ret, v)
    BY <1>3, <2>1, NamedMembers
  <2>3. Total(insts', 1, v) = Total(insts, 1, v) + Same(ret, v)
    BY <1>3, <2>1, <2>2, TotalAppended
  <2>4. Kept(frames', v) = Kept(callers, v)
    BY <1>1, <1>4, <1>5, KeptAppended DEF HeldBy
  <2>5. Total(insts', 1, v) + Kept(frames', v) + 0 = Refs(vals, v)
    BY <1>3, <1>4, <2>3, <2>4
  <2> QED BY <1>2, <2>5 DEF Balance
<1>6. CASE top.e.op \notin Logical
  <2>1. insts' = insts
    BY <1>6, RightStep
  <2>2. Kept(frames', v) = Kept(callers, v) + Same(ret, v)
    BY <1>1, <1>3, <1>4, <1>6, KeptAppended DEF HeldBy, Same
  <2>3. Total(insts, 1, v) + Kept(frames', v) + 0 = Refs(vals, v)
    BY <1>3, <1>4, <2>2
  <2> QED BY <1>2, <2>1, <2>3 DEF Balance
<1> QED BY <1>5, <1>6

\* The values of both operands go to the instruction, whose own has one reference there
\* and one with the caller.
LEMMA OperationCounted ==
    ASSUME Shape, Counted, Progress, EmitOperation, NEW v \in Nat \ {0}
    PROVE  Balance(insts', frames', Same(ret', v), vals', v)
<1>1. PICK y, t : /\ Members(y, t, top.lhs, ret, Len(vals) + 1, 0)
                  /\ insts' = Append(insts, y)
  BY OperationStep
<1>2. PICK u : IsVal(u) /\ u.ref_count = 1 /\ vals' = Append(vals, u)
  BY OperationStep
<1>3. /\ frames # <<>> /\ top.at = "rhs" /\ top.e.op \notin Logical
      /\ ret' = Len(vals) + 1 /\ frames' = callers /\ ipc = "return"
  BY OperationStep
<1>4. /\ Total(insts, 1, v) \in Nat /\ Kept(frames, v) \in Nat
      /\ Total(insts, 1, v) + Kept(frames, v) + Same(ret, v) = Refs(vals, v)
      /\ IsList(insts) /\ Len(insts) \in Nat /\ \A w : Same(w, v) \in {0, 1}
  BY <1>3, EmittingCounts DEF Emitting, Balance
<1>5. Kept(frames, v) = Kept(callers, v) + Same(top.lhs, v) /\ Kept(callers, v) \in Nat
  <2>1. IsList(callers) /\ frames = Append(callers, top)
    BY <1>3, TopFacts DEF Shape
  <2>2. HeldBy(top, v) <=> top.lhs = v
    BY <1>3 DEF HeldBy
  <2>3. CASE top.lhs = v
    <3>1. Kept(frames, v) = Kept(callers, v) + 1 /\ Kept(callers, v) \in Nat
      BY <2>1, <2>2, <2>3, KeptAppended
    <3> QED BY <2>3, <3>1 DEF Same
  <2>4. CASE top.lhs # v
    <3>1. Kept(frames, v) = Kept(callers, v) /\ Kept(callers, v) \in Nat
      BY <2>1, <2>2, <2>4, KeptAppended
    <3> QED BY <2>4, <3>1 DEF Same
  <2> QED BY <2>3, <2>4
<1>6. Named(y, v) = Same(top.lhs, v) + Same(ret, v) + Same(Len(vals) + 1, v)
  BY <1>1, NamedMembers
<1>7. Total(insts', 1, v) = Total(insts, 1, v) + Named(y, v)
  BY <1>1, <1>4, TotalAppended
<1>8. /\ v = Len(vals) + 1 => Refs(vals, v) = 0 /\ Refs(vals', v) = 2
      /\ v # Len(vals) + 1 => Refs(vals', v) = Refs(vals, v)
  BY <1>2, RefsAppended, SMTT(40) DEF Shape
<1>9. /\ v = Len(vals) + 1 => Same(Len(vals) + 1, v) = 1
      /\ v # Len(vals) + 1 => Same(Len(vals) + 1, v) = 0
  BY DEF Same
<1>10. Total(insts', 1, v) + Kept(callers, v) + Same(Len(vals) + 1, v) = Refs(vals', v)
  <2>1. PICK a, b, c, n : a = Same(top.lhs, v) /\ b = Same(ret, v) /\ c = Same(Len(vals) + 1, v)
                       /\ n = Total(insts, 1, v)
    OBVIOUS
  <2>2. PICK k : k = Kept(callers, v)
    OBVIOUS
  <2>3. a \in {0, 1} /\ b \in {0, 1} /\ c \in {0, 1} /\ n \in Nat /\ k \in Nat
    BY <1>4, <1>5, <2>1, <2>2
  <2>4. Total(insts', 1, v) = n + (a + b + c) /\ n + (k + a) + b = Refs(vals, v)
    BY <1>4, <1>5, <1>6, <1>7, <2>1, <2>2
  <2>5. n + (a + b + c) + k + c = Refs(vals', v)
    <3>1. CASE v = Len(vals) + 1
      <4>1. c = 1 /\ n + (k + a) + b = 0 /\ Refs(vals', v) = 2
        BY <1>8, <1>9, <2>1, <2>4, <3>1
      <4> QED BY <2>3, <4>1
    <3>2. CASE v # Len(vals) + 1
      <4>1. c = 0 /\ n + (k + a) + b = Refs(vals', v)
        BY <1>8, <1>9, <2>1, <2>4, <3>2
      <4> QED BY <2>3, <4>1
    <3> QED BY <3>1, <3>2
  <2> QED BY <2>1, <2>2, <2>4, <2>5
<1> QED BY <1>3, <1>10 DEF Balance

\* Three values more in p than in q: one with two references besides the caller's, and
\* two with one each.
ThreeNew(q, p, v) ==
    /\ v = Len(q) + 1 => Refs(q, v) = 0 /\ Refs(p, v) = 3
    /\ v = Len(q) + 2 => Refs(q, v) = 0 /\ Refs(p, v) = 1
    /\ v = Len(q) + 3 => Refs(q, v) = 0 /\ Refs(p, v) = 1
    /\ v \notin {Len(q) + 1, Len(q) + 2, Len(q) + 3} => Refs(p, v) = Refs(q, v)

\* The three values of && and || have the references of their first users.
LEMMA ThreeRefs ==
    ASSUME NEW q, IsList(q), \A j \in 1..Len(q) : IsVal(q[j]), NEW v \in Nat \ {0},
           NEW u, IsVal(u), u.ref_count = 2, NEW x, IsVal(x), x.ref_count = 0,
           NEW y, IsVal(y), y.ref_count = 0,
           NEW p, p = Append(Append(Append(q, u), x), y)
    PROVE  ThreeNew(q, p, v)
<1>1. PICK p1 : p1 = Append(q, u)
  OBVIOUS
<1>2. PICK p2 : p2 = Append(p1, x)
  OBVIOUS
<1>3. p = Append(p2, y)
  BY <1>1, <1>2
<1>4. IsList(p1) /\ \A j \in 1..Len(p1) : IsVal(p1[j])
  BY <1>1, ValAppended
<1>5. IsList(p2) /\ \A j \in 1..Len(p2) : IsVal(p2[j])
  BY <1>2, <1>4, ValAppended
<1>6. Len(q) \in Nat /\ Len(p1) = Len(q) + 1 /\ Len(p2) = Len(q) + 2
  <2>1. Len(q) \in Nat /\ Len(p1) = Len(q) + 1
    BY <1>1, AppendFacts
  <2>2. Len(p2) = Len(p1) + 1
    BY <1>2, <1>4, AppendFacts
  <2> QED BY <2>1, <2>2
<1>7. /\ v = Len(q) + 1 => Refs(q, v) = 0 /\ Refs(p1, v) = 2 + 1
      /\ v # Len(q) + 1 => Refs(p1, v) = Refs(q, v)
  BY <1>1, RefsAppended
<1>8. /\ v = Len(p1) + 1 => Refs(p1, v) = 0 /\ Refs(p2, v) = 0 + 1
      /\ v # Len(p1) + 1 => Refs(p2, v) = Refs(p1, v)
  BY <1>2, <1>4, RefsAppended
<1>9. /\ v = Len(p2) + 1 => Refs(p2, v) = 0 /\ Refs(p, v) = 0 + 1
      /\ v # Len(p2) + 1 => Refs(p, v) = Refs(p2, v)
  BY <1>3, <1>5, RefsAppended
<1> QED BY <1>6, <1>7, <1>8, <1>9 DEF ThreeNew

\* The right value goes to the second jump; the result to both copies and the caller,
\* and each copy takes one constant.
LEMMA LogicalCounted ==
    ASSUME Shape, Counted, Progress, EmitLogical, NEW v \in Nat \ {0}
    PROVE  Balance(insts', frames', Same(ret', v), vals', v)
<1>1. PICK a, b, c, d, e, f, t :
           /\ Members(a, t, ret, 0, 0, top.exit)
           /\ Members(b, "COPY", Len(vals) + 2, 0, Len(vals) + 1, 0)
           /\ Members(c, "JMP", 0, 0, 0, top.end)
           /\ Members(d, "LABEL", 0, 0, 0, top.exit)
           /\ Members(e, "COPY", Len(vals) + 3, 0, Len(vals) + 1, 0)
           /\ Members(f, "LABEL", 0, 0, 0, top.end)
           /\ insts' = Append(Append(Append(Append(Append(Append(insts, a), b), c), d), e), f)
  BY LogicalStep, SMTT(30)
<1>2. PICK u, x, y : /\ IsVal(u) /\ u.ref_count = 2
                     /\ IsVal(x) /\ x.ref_count = 0 /\ IsVal(y) /\ y.ref_count = 0
                     /\ vals' = Append(Append(Append(vals, u), x), y)
  BY LogicalStep, SMTT(30)
<1>3. /\ frames # <<>> /\ top.e.op \in Logical
      /\ ret' = Len(vals) + 1 /\ frames' = callers /\ ipc = "return"
  BY LogicalStep
<1>4. /\ Total(insts, 1, v) \in Nat /\ Kept(frames, v) \in Nat
      /\ Total(insts, 1, v) + Kept(frames, v) + Same(ret, v) = Refs(vals, v)
      /\ IsList(insts) /\ Len(insts) \in Nat /\ Len(vals) \in Nat
      /\ \A w : Same(w, v) \in {0, 1}
  BY <1>3, EmittingCounts DEF Emitting, Balance
<1>5. Kept(frames, v) = Kept(callers, v)
  <2>1. IsList(callers) /\ frames = Append(callers, top)
    BY <1>3, TopFacts DEF Shape
  <2>2. ~HeldBy(top, v)
    BY <1>3 DEF HeldBy
  <2> QED BY <2>1, <2>2, KeptAppended
<1>6. PICK k, r, s, w, n : /\ k = Kept(callers, v) /\ r = Same(ret, v) /\ s = Same(Len(vals) + 1, v)
                           /\ w = Same(Len(vals) + 2, v) /\ n = Same(Len(vals) + 3, v)
  OBVIOUS
<1>7. k \in Nat /\ r \in {0, 1} /\ s \in {0, 1} /\ w \in {0, 1} /\ n \in {0, 1}
  BY <1>4, <1>5, <1>6
<1>8. /\ Named(a, v) = r + 0 + 0 /\ Named(b, v) = w + 0 + s /\ Named(c, v) = 0 + 0 + 0
      /\ Named(d, v) = 0 + 0 + 0 /\ Named(e, v) = n + 0 + s /\ Named(f, v) = 0 + 0 + 0
  BY <1>1, <1>6, NamedMembers
<1>9. Total(insts', 1, v) = Total(insts, 1, v) + r + w + s + n + s
  <2>1. PICK p1 : p1 = Append(insts, a)
    OBVIOUS
  <2>2. PICK p2 : p2 = Append(p1, b)
    OBVIOUS
  <2>3. PICK p3 : p3 = Append(p2, c)
    OBVIOUS
  <2>4. PICK p4 : p4 = Append(p3, d)
    OBVIOUS
  <2>5. PICK p5 : p5 = Append(p4, e)
    OBVIOUS
  <2>6. insts' = Append(p5, f)
    BY <1>1, <2>1, <2>2, <2>3, <2>4, <2>5
  <2>7. ASSUME NEW q, IsList(q), NEW z
        PROVE  /\ IsList(Append(q, z)) /\ Total(q, 1, v) \in Nat
               /\ Total(Append(q, z), 1, v) = Total(q, 1, v) + Named(z, v)
    <3>1. Len(q) \in Nat /\ IsList(Append(q, z))
      BY <2>7, AppendFacts
    <3> QED BY <2>7, <3>1, TotalAppended
  <2>8. IsList(p1) /\ Total(p1, 1, v) = Total(insts, 1, v) + (r + 0 + 0)
    BY <1>4, <1>8, <2>1, <2>7
  <2>9. IsList(p2) /\ Total(p2, 1, v) = Total(p1, 1, v) + (w + 0 + s)
    BY <1>8, <2>2, <2>7, <2>8
  <2>10. IsList(p3) /\ Total(p3, 1, v) = Total(p2, 1, v) + (0 + 0 + 0)
    BY <1>8, <2>3, <2>7, <2>9
  <2>11. IsList(p4) /\ Total(p4, 1, v) = Total(p3, 1, v) + (0 + 0 + 0)
    BY <1>8, <2>4, <2>7, <2>10
  <2>12. IsList(p5) /\ Total(p5, 1, v) = Total(p4, 1, v) + (n + 0 + s)
    BY <1>8, <2>5, <2>7, <2>11
  <2>13. Total(insts', 1, v) = Total(p5, 1, v) + (0 + 0 + 0)
    BY <1>8, <2>6, <2>7, <2>12
  <2> QED BY <1>4, <1>7, <2>8, <2>9, <2>10, <2>11, <2>12, <2>13, SMTT(40)
<1>10. /\ v = Len(vals) + 1 => Refs(vals, v) = 0 /\ Refs(vals', v) = 3
       /\ v = Len(vals) + 2 => Refs(vals, v) = 0 /\ Refs(vals', v) = 1
       /\ v = Len(vals) + 3 => Refs(vals, v) = 0 /\ Refs(vals', v) = 1
       /\ v \notin {Len(vals) + 1, Len(vals) + 2, Len(vals) + 3} => Refs(vals', v) = Refs(vals, v)
  <2>1. PICK q, p : q = vals /\ p = vals'
    OBVIOUS
  <2>2. IsList(q) /\ \A j \in 1..Len(q) : IsVal(q[j])
    BY <2>1 DEF Shape
  <2>3. p = Append(Append(Append(q, u), x), y)
    BY <1>2, <2>1
  <2>4. ThreeNew(q, p, v)
    BY <1>2, <2>2, <2>3, ThreeRefs
  <2> QED BY <2>1, <2>4 DEF ThreeNew
<1>11. Total(insts, 1, v) + r + w + s + n + s + k + s = Refs(vals', v)
  <2>1. PICK m, i : m = Total(insts, 1, v) /\ i = Len(vals)
    OBVIOUS
  <2>2. m \in Nat /\ m + k + r = Refs(vals, v) /\ i \in Nat
    BY <1>4, <1>5, <1>6, <2>1
  <2>3. CASE v = i + 1
    <3>1. s = 1 /\ w = 0 /\ n = 0
      BY <1>6, <2>1, <2>2, <2>3 DEF Same
    <3>2. m + k + r = 0 /\ Refs(vals', v) = 3
      BY <1>10, <2>1, <2>2, <2>3
    <3>3. m = 0 /\ k = 0 /\ r = 0
      BY <1>7, <2>2, <3>2
    <3> QED BY <2>1, <3>1, <3>2, <3>3
  <2>4. CASE v = i + 2
    <3>1. s = 0 /\ w = 1 /\ n = 0
      BY <1>6, <2>1, <2>2, <2>4 DEF Same
    <3>2. m + k + r = 0 /\ Refs(vals', v) = 1
      BY <1>10, <2>1, <2>2, <2>4
    <3>3. m = 0 /\ k = 0 /\ r = 0
      BY <1>7, <2>2, <3>2
    <3> QED BY <2>1, <3>1, <3>2, <3>3
  <2>5. CASE v = i + 3
    <3>1. s = 0 /\ w = 0 /\ n = 1
      BY <1>6, <2>1, <2>2, <2>5 DEF Same
    <3>2. m + k + r = 0 /\ Refs(vals', v) = 1
      BY <1>10, <2>1, <2>2, <2>5
    <3>3. m = 0 /\ k = 0 /\ r = 0
      BY <1>7, <2>2, <3>2
    <3> QED BY <2>1, <3>1, <3>2, <3>3
  <2>6. CASE v \notin {i + 1, i + 2, i + 3}
    <3>1. s = 0 /\ w = 0 /\ n = 0
      BY <1>6, <2>1, <2>6 DEF Same
    <3>2. m + k + r = Refs(vals', v)
      BY <1>10, <2>1, <2>2, <2>6
    <3> QED BY <1>7, <2>1, <2>2, <3>1, <3>2
  <2> QED BY <2>3, <2>4, <2>5, <2>6
<1>12. Total(insts', 1, v) + k + s = Refs(vals', v)
  BY <1>9, <1>11
<1> QED BY <1>3, <1>6, <1>12 DEF Balance

\* The body's value goes to the return, and all that was made is due.
LEMMA ReturnCounted ==
    ASSUME Shape, Counted, Progress, EmitReturn, NEW v \in Nat \ {0}
    PROVE  Total(insts', 1, v) + Kept(frames', v) = Due([vals |-> vals', freed |-> freed'], v)
<1>1. PICK y : Members(y, "RETURN", ret, 0, 0, 0) /\ insts' = Append(insts, y)
  BY ReturnStep
<1>2. /\ ipc = "return" /\ frames' = frames /\ vals' = vals
      /\ freed' = [w \in DOMAIN vals |-> 0]
  BY ReturnStep
<1>3. /\ Total(insts, 1, v) \in Nat /\ Kept(frames, v) \in Nat
      /\ Total(insts, 1, v) + Kept(frames, v) + Same(ret, v) = Refs(vals, v)
      /\ IsList(insts) /\ Len(insts) \in Nat /\ Same(ret, v) \in {0, 1} /\ IsList(vals)
  BY <1>2, EmittingCounts DEF Emitting, Balance
<1>4. Named(y, v) = Same(ret, v)
  BY <1>1, <1>3, NamedMembers
<1>5. Total(insts', 1, v) = Total(insts, 1, v) + Same(ret, v)
  BY <1>1, <1>3, <1>4, TotalAppended
<1>6. PICK q, g : q = vals /\ g = freed'
  OBVIOUS
<1>7. DOMAIN q = 1..Len(q)
  BY <1>3, <1>6, AppendFacts
<1>8. v \in 1..Len(q) => g[v] = 0
  BY <1>2, <1>6, <1>7
<1>9. Due([vals |-> q, freed |-> g], v) = Refs(q, v)
  BY <1>8, DueCases DEF Refs
<1> QED BY <1>2, <1>3, <1>5, <1>6, <1>9

\* The instruction that is destroyed is left no more, and its values are due once less.
LEMMA DestroyCounted ==
    ASSUME Shape, Counted, Progress, DestroyInst, NEW v \in Nat \ {0}
    PROVE  Total(insts', next_inst', v) + Kept(frames', v)
             = Due([vals |-> vals', freed |-> freed'], v)
<1>1. /\ ipc = "destroy" /\ next_inst <= Len(insts) /\ next_inst' = next_inst + 1
      /\ frames' = frames /\ insts' = insts
  BY DEF DestroyInst
<1>2. PICK n, x : n = next_inst /\ x = insts[next_inst]
  OBVIOUS
<1>3. IsList(insts) /\ n \in 1..Len(insts)
  BY <1>1, <1>2, AppendFacts DEF Shape
<1>4. PICK a, b, k : a = Total(insts, n, v) /\ b = Total(insts, n + 1, v) /\ k = Kept(frames, v)
  OBVIOUS
<1>5. a \in Nat /\ b \in Nat /\ a = b + Named(x, v)
  BY <1>2, <1>3, <1>4, TotalDropped
<1>6. k \in Nat
  BY <1>4, KeptAppended DEF Shape
<1>7. PICK m, o : m = Named(x, v) /\ o = Due([vals |-> vals, freed |-> freed], v)
  OBVIOUS
<1>8. m \in Nat
  BY <1>7 DEF Named, Same
<1>9. a + k + 0 = o
  <2>1. Handed(v) = 0 /\ Owed(v) = o
    BY <1>1, <1>7 DEF Handed, Owed, Destroying
  <2> QED BY <1>2, <1>4, <2>1 DEF Counted
<1>10. Due([vals |-> vals', freed |-> freed'], v) = o - m
  BY <1>2, <1>7, DestroyInstStep
<1>11. b + k = o - m
  BY <1>5, <1>6, <1>7, <1>8, <1>9
<1> QED BY <1>1, <1>2, <1>4, <1>10, <1>11

\* Every step keeps the counts.
LEMMA CountedStep ==
    ASSUME Shape, Counted, Progress, [IrNext]_irVars
    PROVE  Counted'
<1> SUFFICES ASSUME NEW v \in Nat \ {0}
             PROVE  Total(insts', next_inst', v) + Kept(frames', v) + Handed(v)' = Owed(v)'
  BY DEF Counted
<1>0. CASE EmitBody \/ EmitAbsent \/ DestroyBegins \/ UNCHANGED irVars
  <2>1. /\ UNCHANGED <<frames, insts, vals>> /\ Waiting
        /\ \/ ipc = "body" /\ ipc' \in {"call", "crashed"} /\ ret' = ret
           \/ ipc = "call" /\ ipc' = "return" /\ ret' = 0
           \/ ipc = "emitted" /\ ipc' = "destroy" /\ ret' = ret
           \/ UNCHANGED <<ipc, ret>>
    BY <1>0, QuietStep
  <2>2. Handed(v)' = Handed(v)
    BY <2>1 DEF Handed, Same
  <2>3. Owed(v)' = Owed(v)
    BY <2>1 DEF Owed, Waiting, Destroying
  <2>4. Total(insts, next_inst, v) + Kept(frames, v) + Handed(v) = Owed(v)
    BY DEF Counted
  <2> QED BY <2>1, <2>2, <2>3, <2>4 DEF Waiting
<1>1. CASE EmitVar \/ EmitConst \/ EmitOperator \/ EmitRight \/ EmitOperation \/ EmitLogical
  <2>1. ipc \in {"call", "return"} /\ ipc' \in {"call", "return"} /\ next_inst' = next_inst
    <3>1. CASE EmitVar \/ EmitConst
      BY <3>1, LeafStep DEF Waiting
    <3>2. CASE EmitOperator
      BY <3>2, OperatorStep DEF Waiting
    <3>3. CASE EmitRight
      BY <3>3, RightStep DEF Waiting
    <3>4. CASE EmitOperation
      BY <3>4, OperationStep DEF Waiting
    <3>5. CASE EmitLogical
      BY <3>5, LogicalStep DEF Waiting
    <3> QED BY <1>1, <3>1, <3>2, <3>3, <3>4, <3>5
  <2>2. /\ ipc' = "return" => Balance(insts', frames', Same(ret', v), vals', v)
        /\ ipc' = "call" => Balance(insts', frames', 0, vals', v)
    <3>1. CASE EmitVar \/ EmitConst
      <4>1. ipc' = "return"
        BY <3>1, LeafStep
      <4> QED BY <3>1, <4>1, LeafCounted
    <3>2. CASE EmitOperator
      <4>1. ipc' = "call"
        BY <3>2, OperatorStep
      <4> QED BY <3>2, <4>1, OperatorCounted
    <3>3. CASE EmitRight
      <4>1. ipc' = "call"
        BY <3>3, RightStep
      <4> QED BY <3>3, <4>1, RightCounted
    <3>4. CASE EmitOperation
      <4>1. ipc' = "return"
        BY <3>4, OperationStep
      <4> QED BY <3>4, <4>1, OperationCounted
    <3>5. CASE EmitLogical
      <4>1. ipc' = "return"
        BY <3>5, LogicalStep
      <4> QED BY <3>5, <4>1, LogicalCounted
    <3> QED BY <1>1, <3>1, <3>2, <3>3, <3>4, <3>5
  <2>3. next_inst = 1
    BY <2>1 DEF Progress, Emitting
  <2>4. Owed(v)' = Refs(vals', v)
    BY <2>1 DEF Owed, Destroying
  <2>5. Handed(v)' = IF ipc' = "return" THEN Same(ret', v) ELSE 0
    BY DEF Handed
  <2>6. CASE ipc' = "return"
    BY <2>1, <2>2, <2>3, <2>4, <2>5, <2>6 DEF Balance
  <2>7. CASE ipc' = "call"
    BY <2>1, <2>2, <2>3, <2>4, <2>5, <2>7 DEF Balance
  <2> QED BY <2>1, <2>6, <2>7
<1>2. CASE EmitReturn
  <2>1. ipc = "return" /\ ipc' = "emitted" /\ next_inst' = next_inst /\ IsList(frames')
    BY <1>2, ReturnStep DEF Shape
  <2>2. next_inst = 1
    BY <2>1 DEF Progress, Emitting
  <2>3. Total(insts', 1, v) + Kept(frames', v) = Due([vals |-> vals', freed |-> freed'], v)
    BY <1>2, ReturnCounted
  <2>4. Handed(v)' = 0 /\ Owed(v)' = Due([vals |-> vals', freed |-> freed'], v)
    BY <2>1 DEF Handed, Owed, Destroying
  <2>5. Total(insts', 1, v) \in Nat /\ Kept(frames', v) \in Nat
    <3>1. Shape'
      BY ShapeStep
    <3>2. IsList(insts') /\ Len(insts') \in Nat
      BY <3>1, AppendFacts DEF Shape
    <3>3. ASSUME NEW q, IsList(q), Len(q) \in Nat PROVE Total(q, 1, v) \in Nat
      BY <3>3, TotalAppended
    <3>4. Total(insts', 1, v) \in Nat
      BY <3>2, <3>3
    <3>5. Kept(frames', v) \in Nat
      BY <2>1, KeptAppended
    <3> QED BY <3>4, <3>5
  <2> QED BY <2>1, <2>2, <2>3, <2>4, <2>5
<1>3. CASE DestroyInst
  <2>1. ipc' = "destroy" /\ next_inst' = next_inst + 1 /\ insts' = insts /\ frames' = frames
        /\ next_inst <= Len(insts)
    BY <1>3 DEF DestroyInst
  <2>2. Total(insts', next_inst', v) + Kept(frames', v)
          = Due([vals |-> vals', freed |-> freed'], v)
    BY <1>3, DestroyCounted
  <2>3. Handed(v)' = 0 /\ Owed(v)' = Due([vals |-> vals', freed |-> freed'], v)
    BY <2>1 DEF Handed, Owed, Destroying
  <2>4. Total(insts', next_inst', v) \in Nat /\ Kept(frames', v) \in Nat
    <3>1. IsList(insts) /\ IsList(frames) /\ next_inst \in 1..Len(insts)
      BY <2>1, AppendFacts DEF Shape
    <3>2. Total(insts, next_inst + 1, v) \in Nat
      BY <3>1, TotalDropped
    <3> QED BY <2>1, <3>1, <3>2, KeptAppended
  <2> QED BY <2>2, <2>3, <2>4
<1>4. CASE DestroyDone
  <2>1. /\ ipc = "destroy" /\ ipc' = "destroyed"
        /\ UNCHANGED <<ret, frames, insts, vals, freed, next_inst>>
    BY <1>4 DEF DestroyDone, emitted, released
  <2>2. Handed(v)' = Handed(v) /\ Owed(v)' = Owed(v)
    BY <2>1 DEF Handed, Owed, Destroying
  <2>3. Total(insts, next_inst, v) + Kept(frames, v) + Handed(v) = Owed(v)
    BY DEF Counted
  <2> QED BY <2>1, <2>2, <2>3
<1> QED BY <1>0, <1>1, <1>2, <1>3, <1>4 DEF IrNext, EmitStep, DestroyStep

\* Every step keeps the place of the destruction.
LEMMA ProgressStep ==
    ASSUME Shape, Counted, Progress, [IrNext]_irVars
    PROVE  Progress'
<1>1. CASE EmitBody \/ EmitAbsent \/ DestroyBegins \/ UNCHANGED irVars
  <2>1. /\ UNCHANGED <<insts, vals>> /\ Waiting
        /\ \/ ipc = "body" /\ ipc' \in {"call", "crashed"}
           \/ ipc = "call" /\ ipc' = "return"
           \/ ipc = "emitted" /\ ipc' = "destroy"
           \/ UNCHANGED ipc
    BY <1>1, QuietStep
  <2> QED BY <2>1 DEF Progress, Waiting, Emitting, Destroying
<1>2. CASE EmitVar \/ EmitConst \/ EmitOperator \/ EmitRight \/ EmitOperation \/ EmitLogical
  <2>1. ipc \in {"call", "return"} /\ ipc' \in {"call", "return"} /\ Waiting
    <3>1. CASE EmitVar \/ EmitConst
      BY <3>1, LeafStep
    <3>2. CASE EmitOperator
      BY <3>2, OperatorStep
    <3>3. CASE EmitRight
      BY <3>3, RightStep
    <3>4. CASE EmitOperation
      BY <3>4, OperationStep
    <3>5. CASE EmitLogical
      BY <3>5, LogicalStep
    <3> QED BY <1>2, <3>1, <3>2, <3>3, <3>4, <3>5
  <2>2. next_inst = 1 /\ freed = <<>>
    BY <2>1 DEF Progress, Emitting
  <2>3. Len(insts') \in Nat
    <3>1. Shape'
      BY ShapeStep
    <3> QED BY <3>1, AppendFacts DEF Shape
  <2> QED BY <2>1, <2>2, <2>3 DEF Progress, Waiting, Emitting, Destroying
<1>3. CASE EmitReturn
  <2>1. PICK y : insts' = Append(insts, y)
    BY <1>3, ReturnStep
  <2>2. /\ ipc = "return" /\ ipc' = "emitted" /\ next_inst' = next_inst /\ vals' = vals
        /\ freed' = [v \in DOMAIN vals |-> 0]
    BY <1>3, ReturnStep
  <2>3. next_inst' = 1
    BY <2>2 DEF Progress, Emitting
  <2>4. Len(insts') \in Nat
    <3>1. IsList(insts')
      BY <2>1, AppendFacts DEF Shape
    <3> QED BY <3>1, AppendFacts
  <2>5. freed' \in [1..Len(vals') -> {0, 1}]
    <3>1. DOMAIN vals = 1..Len(vals)
      BY AppendFacts DEF Shape
    <3> QED BY <2>2, <3>1
  <2> QED BY <2>2, <2>3, <2>4, <2>5 DEF Progress, Emitting, Destroying
<1>4. CASE DestroyInst
  <2>1. freed' \in [1..Len(vals') -> {0, 1}]
    BY <1>4, DestroyInstStep
  <2>2. /\ ipc = "destroy" /\ ipc' = ipc /\ next_inst <= Len(insts)
        /\ next_inst' = next_inst + 1 /\ insts' = insts
    BY <1>4 DEF DestroyInst
  <2>3. Len(insts) \in Nat /\ next_inst \in Nat \ {0}
    BY AppendFacts DEF Shape
  <2> QED BY <2>1, <2>2, <2>3 DEF Progress, Emitting, Destroying
<1>5. CASE DestroyDone
  <2>1. /\ ipc = "destroy" /\ ipc' = "destroyed" /\ next_inst > Len(insts)
        /\ UNCHANGED <<insts, vals, freed, next_inst>>
    BY <1>5 DEF DestroyDone, emitted, released
  <2>2. next_inst = Len(insts) + 1
    <3>1. Len(insts) \in Nat
      BY AppendFacts DEF Shape
    <3> QED BY <2>1, <3>1 DEF Progress
  <2> QED BY <2>1, <2>2 DEF Progress, Emitting, Destroying
<1> QED BY <1>1, <1>2, <1>3, <1>4, <1>5 DEF IrNext, EmitStep, DestroyStep

\* Where no instruction is left, nothing is named.
LEMMA NothingNamed ==
    ASSUME NEW q, NEW n, NEW v, n..Len(q) = {}
    PROVE  Total(q, n, v) = 0
<1>1. Uses(q, n, "lhs", v) = {} /\ Uses(q, n, "rhs", v) = {} /\ Uses(q, n, "dst", v) = {}
  BY DEF Uses
<1>2. Cardinality({}) = 0
  BY FS_EmptySet
<1>3. PICK a, b, c : /\ a = Cardinality(Uses(q, n, "lhs", v)) /\ b = Cardinality(Uses(q, n, "rhs", v))
                     /\ c = Cardinality(Uses(q, n, "dst", v))
  OBVIOUS
<1>4. a = 0 /\ b = 0 /\ c = 0
  BY <1>1, <1>2, <1>3
<1>5. Total(q, n, v) = a + b + c
  BY <1>3 DEF Total
<1> QED BY <1>4, <1>5

\* The start is empty.
LEMMA StartsCounted == IrInit => Shape /\ Counted /\ Progress
<1> SUFFICES ASSUME IrInit PROVE Shape /\ Counted /\ Progress
  OBVIOUS
<1>1. /\ ipc = "body" /\ ret = 0 /\ frames = <<>> /\ insts = <<>> /\ vals = <<>>
      /\ label_count = 0 /\ freed = <<>> /\ next_inst = 1
  BY DEF IrInit
<1>2. IsList(<<>>) /\ Len(<<>>) = 0
  <2>1. <<>> \in Seq({})
    OBVIOUS
  <2> QED BY <2>1 DEF IsList
<1>3. Shape
  BY <1>1, <1>2 DEF Shape, Emitting
<1>4. Progress
  BY <1>1, <1>2 DEF Progress, Emitting, Destroying
<1>5. ASSUME NEW v \in Nat \ {0}
      PROVE  Total(insts, next_inst, v) + Kept(frames, v) + Handed(v) = Owed(v)
  <2>1. Total(insts, next_inst, v) = 0
    <3>1. next_inst..Len(insts) = {}
      BY <1>1, <1>2
    <3> QED BY <3>1, NothingNamed
  <2>2. Kept(frames, v) = 0
    <3>1. {j \in 1..Len(frames) : HeldBy(frames[j], v)} = {}
      BY <1>1, <1>2
    <3> QED BY <3>1, FS_EmptySet DEF Kept
  <2>3. Handed(v) = 0 /\ Owed(v) = 0
    BY <1>1, <1>2 DEF Handed, Owed, Refs, Destroying
  <2> QED BY <2>1, <2>2, <2>3
<1> QED BY <1>3, <1>4, <1>5 DEF Counted

\* When all is destroyed, nothing is due: every value has been freed.
LEMMA AllFreed ==
    ASSUME Shape, Counted, Progress
    PROVE  ValsFreedOnce
<1>1. CASE ipc \in Emitting
  <2>1. freed = <<>> /\ ipc # "destroyed"
    BY <1>1 DEF Progress, Emitting
  <2>2. DOMAIN <<>> = {}
    OBVIOUS
  <2> QED BY <2>1, <2>2 DEF ValsFreedOnce
<1>2. CASE ipc \in Destroying
  <2>1. freed \in [1..Len(vals) -> {0, 1}]
    BY <1>2 DEF Progress
  <2>2. DOMAIN freed = 1..Len(vals) /\ \A v \in 1..Len(vals) : freed[v] \in {0, 1}
    BY <2>1
  <2>3. ASSUME ipc = "destroyed", NEW v \in 1..Len(vals) PROVE freed[v] = 1
    <3>1. Len(vals) \in Nat /\ Len(insts) \in Nat
      BY AppendFacts DEF Shape
    <3>2. v \in Nat \ {0}
      BY <3>1
    <3>3. Total(insts, next_inst, v) = 0
      <4>1. next_inst..Len(insts) = {}
        BY <2>3, <3>1 DEF Progress
      <4> QED BY <4>1, NothingNamed
    <3>4. Kept(frames, v) = 0
      <4>1. frames = <<>>
        BY <2>3 DEF Shape
      <4>2. {j \in 1..Len(frames) : HeldBy(frames[j], v)} = {}
        BY <4>1
      <4> QED BY <4>2, FS_EmptySet DEF Kept
    <3>5. Handed(v) = 0 /\ Owed(v) = Due([vals |-> vals, freed |-> freed], v)
      BY <2>3 DEF Handed, Owed, Destroying
    <3>6. Due([vals |-> vals, freed |-> freed], v) = 0
      BY <3>2, <3>3, <3>4, <3>5 DEF Counted
    <3>7. PICK q, g : q = vals /\ g = freed
      OBVIOUS
    <3>8. CASE g[v] = 0
      <4>1. Due([vals |-> q, freed |-> g], v) = q[v].ref_count + 1
        BY <2>3, <3>7, <3>8, DueCases
      <4>2. q[v].ref_count \in Nat
        BY <2>3, <3>7 DEF Shape, IsVal
      <4> QED BY <3>6, <3>7, <4>1, <4>2
    <3> QED BY <2>2, <2>3, <3>7, <3>8
  <2> QED BY <2>2, <2>3 DEF ValsFreedOnce
<1> QED BY <1>1, <1>2 DEF Shape

\* ir_destroy frees every value exactly once, for every body: the references that
\* create_ir_val and dup_ir_val count are those of the instructions that are left.
THEOREM ValsReleasedOnce == IrSpec => []ValsFreedOnce
<1>1. IrInit => Shape /\ Counted /\ Progress
  BY StartsCounted
<1>2. Shape /\ Counted /\ Progress /\ [IrNext]_irVars => (Shape /\ Counted /\ Progress)'
  BY ShapeStep, CountedStep, ProgressStep
<1>3. Shape /\ Counted /\ Progress => ValsFreedOnce
  BY AllFreed
<1> QED BY <1>1, <1>2, <1>3, PTL DEF IrSpec

-----------------------------------------------------------------------------
(* Labels.  The operators that are open have names of their own, which     *)
(* nothing has defined; every other name is jumped to and defined.         *)

Short(x) == x.e.op \in Logical
Taken(q, l) == \E j \in 1..Len(q) : Short(q[j]) /\ l \in {q[j].exit, q[j].end}
Jumped(q, l) == \E j \in 1..Len(q) : q[j].type \in Jumps /\ q[j].label = l
Defined(q, l) == \E j \in 1..Len(q) : q[j].type = "LABEL" /\ q[j].label = l
Once(q) ==
    \A j, m \in 1..Len(q) :
       /\ q[j].type = "LABEL" /\ q[m].type = "LABEL"
       /\ q[j].label = q[m].label
       => j = m

\* The labels of an operator are two neighbours of those named so far.
Pair(x, n) == Short(x) => x.exit \in 1..n /\ x.end = x.exit + 1 /\ x.end \in 1..n
\* An operator's labels follow those of the operators it is an operand of.
After(q, x) == Short(x) => \A l : Taken(q, l) => l \in Nat /\ l < x.exit
Nested(q, n) ==
    /\ \A j \in 1..Len(q) : Pair(q[j], n)
    /\ \A j, m \in 1..Len(q) : j < m /\ Short(q[j]) /\ Short(q[m]) => q[j].end < q[m].exit

Labels ==
    /\ Nested(frames, label_count)
    /\ \A l : Defined(insts, l) => l \in 1..label_count /\ ~Taken(frames, l)
    /\ \A l \in 1..label_count : Taken(frames, l) \/ (Jumped(insts, l) /\ Defined(insts, l))
    /\ Once(insts)

\* The labels of an instruction at the end.
LEMMA InstLabels ==
    ASSUME NEW q, IsList(q), NEW x
    PROVE  /\ \A l : Jumped(Append(q, x), l) <=> Jumped(q, l) \/ (x.type \in Jumps /\ x.label = l)
           /\ \A l : Defined(Append(q, x), l) <=> Defined(q, l) \/ (x.type = "LABEL" /\ x.label = l)
           /\ Once(q) /\ ~(x.type = "LABEL" /\ Defined(q, x.label)) => Once(Append(q, x))
<1>1. PICK m, p : m = Len(q) /\ p = Append(q, x)
  OBVIOUS
<1>2. /\ m \in Nat /\ Len(p) = m + 1 /\ p[m + 1] = x
      /\ \A j \in 1..m : p[j] = q[j]
  BY <1>1, AppendFacts
<1>3. \A j : j \in 1..(m + 1) <=> j \in 1..m \/ j = m + 1
  BY <1>2
<1>4. ASSUME NEW l PROVE Jumped(p, l) <=> Jumped(q, l) \/ (x.type \in Jumps /\ x.label = l)
  BY <1>1, <1>2, <1>3 DEF Jumped
<1>5. ASSUME NEW l PROVE Defined(p, l) <=> Defined(q, l) \/ (x.type = "LABEL" /\ x.label = l)
  BY <1>1, <1>2, <1>3 DEF Defined
<1>6. ASSUME Once(q), ~(x.type = "LABEL" /\ Defined(q, x.label)) PROVE Once(p)
  <2> SUFFICES ASSUME NEW j \in 1..Len(p), NEW k \in 1..Len(p),
                      p[j].type = "LABEL", p[k].type = "LABEL", p[j].label = p[k].label
               PROVE  j = k
    BY DEF Once
  <2>1. (j \in 1..m \/ j = m + 1) /\ (k \in 1..m \/ k = m + 1)
    BY <1>2, <1>3
  <2>2. CASE j \in 1..m /\ k \in 1..m
    BY <1>1, <1>2, <1>6, <2>2 DEF Once
  <2>3. CASE j \in 1..m /\ k = m + 1
    BY <1>1, <1>2, <1>6, <2>3 DEF Defined
  <2>4. CASE j = m + 1 /\ k \in 1..m
    BY <1>1, <1>2, <1>6, <2>4 DEF Defined
  <2> QED BY <2>1, <2>2, <2>3, <2>4
<1> QED BY <1>1, <1>4, <1>5, <1>6

\* The labels of a frame at the top.
LEMMA FrameLabels ==
    ASSUME NEW q, IsList(q), NEW x, NEW n \in Nat
    PROVE  /\ \A l : Taken(Append(q, x), l) <=> Taken(q, l) \/ (Short(x) /\ l \in {x.exit, x.end})
           /\ Nested(q, n) /\ Pair(x, n) /\ After(q, x) => Nested(Append(q, x), n)
           /\ Nested(Append(q, x), n) => Nested(q, n) /\ Pair(x, n) /\ After(q, x)
<1>1. PICK m, p : m = Len(q) /\ p = Append(q, x)
  OBVIOUS
<1>2. /\ m \in Nat /\ Len(p) = m + 1 /\ p[m + 1] = x
      /\ \A j \in 1..m : p[j] = q[j]
  BY <1>1, AppendFacts
<1>3. \A j : j \in 1..(m + 1) <=> j \in 1..m \/ j = m + 1
  BY <1>2
<1>4. ASSUME NEW l PROVE Taken(p, l) <=> Taken(q, l) \/ (Short(x) /\ l \in {x.exit, x.end})
  BY <1>1, <1>2, <1>3 DEF Taken
<1>5. ASSUME Nested(q, n), Pair(x, n), After(q, x) PROVE Nested(p, n)
  <2>1. ASSUME NEW j \in 1..Len(p) PROVE Pair(p[j], n)
    BY <1>1, <1>2, <1>3, <1>5 DEF Nested
  <2>2. ASSUME NEW j \in 1..Len(p), NEW k \in 1..Len(p), j < k, Short(p[j]), Short(p[k])
        PROVE  p[j].end < p[k].exit
    <3>1. (j \in 1..m \/ j = m + 1) /\ (k \in 1..m \/ k = m + 1)
      BY <1>2, <1>3
    <3>2. CASE j \in 1..m /\ k \in 1..m
      BY <1>1, <1>2, <1>5, <2>2, <3>2 DEF Nested
    <3>3. CASE j \in 1..m /\ k = m + 1
      <4>1. Short(q[j]) /\ Short(x) /\ p[j] = q[j] /\ p[k] = x
        BY <1>2, <2>2, <3>3
      <4>2. Taken(q, q[j].end)
        BY <1>1, <3>3, <4>1 DEF Taken
      <4> QED BY <1>5, <4>1, <4>2 DEF After
    <3>4. CASE j = m + 1
      BY <1>2, <2>2, <3>1, <3>4
    <3> QED BY <3>1, <3>2, <3>3, <3>4
  <2> QED BY <2>1, <2>2 DEF Nested
<1>6. ASSUME Nested(p, n) PROVE Nested(q, n) /\ Pair(x, n) /\ After(q, x)
  <2>1. Nested(q, n)
    BY <1>1, <1>2, <1>3, <1>6 DEF Nested
  <2>2. Pair(x, n)
    BY <1>2, <1>3, <1>6 DEF Nested
  <2>3. ASSUME Short(x), NEW l, Taken(q, l) PROVE l \in Nat /\ l < x.exit
    <3>1. PICK j \in 1..m : Short(q[j]) /\ l \in {q[j].exit, q[j].end}
      BY <1>1, <2>3 DEF Taken
    <3>2. q[j].end < x.exit
      <4>1. j \in 1..Len(p) /\ m + 1 \in 1..Len(p) /\ j < m + 1
        BY <1>2
      <4>2. p[j] = q[j] /\ p[m + 1] = x
        BY <1>2
      <4> QED BY <1>6, <2>3, <3>1, <4>1, <4>2 DEF Nested
    <3>3. q[j].exit \in 1..n /\ q[j].end = q[j].exit + 1 /\ x.exit \in 1..n
      BY <1>1, <2>1, <2>2, <2>3, <3>1 DEF Nested, Pair
    <3> QED BY <3>1, <3>2, <3>3
  <2> QED BY <2>1, <2>2, <2>3 DEF After
<1> QED BY <1>1, <1>4, <1>5, <1>6

\* More names leave the operators' own as they are.
LEMMA NestedWider ==
    ASSUME NEW q, NEW n \in Nat, NEW m \in Nat, n <= m, Nested(q, n)
    PROVE  Nested(q, m) /\ \A l : Taken(q, l) => l \in 1..n
<1>1. \A j \in 1..Len(q) : Pair(q[j], m)
  BY DEF Nested, Pair
<1>2. \A l : Taken(q, l) => l \in 1..n
  BY DEF Nested, Pair, Taken
<1> QED BY <1>1, <1>2 DEF Nested

\* The call of && or || takes two new names.
LEMMA OperatorLabels ==
    ASSUME Shape, Labels, EmitOperator
    PROVE  Labels'
<1>1. PICK x : /\ x.exit = label_count + 1 /\ x.end = label_count + 2
               /\ label_count' = label_count + (IF x.e.op \in Logical THEN 2 ELSE 0)
               /\ frames' = Append(frames, x)
  BY OperatorStep
<1>2. insts' = insts /\ label_count \in Nat /\ IsList(frames)
  BY OperatorStep DEF Shape
<1>3. PICK n, m, q, p : n = label_count /\ m = label_count' /\ q = frames /\ p = frames'
  OBVIOUS
<1>4. n \in Nat /\ m \in Nat /\ n <= m /\ m = (IF Short(x) THEN n + 2 ELSE n)
  BY <1>1, <1>2, <1>3 DEF Short
<1>5. Nested(q, m) /\ \A l : Taken(q, l) => l \in 1..n
  BY <1>3, <1>4, NestedWider DEF Labels
<1>6. Pair(x, m) /\ After(q, x)
  BY <1>1, <1>3, <1>4, <1>5 DEF Pair, After
<1>7. /\ Nested(p, m)
      /\ \A l : Taken(p, l) <=> Taken(q, l) \/ (Short(x) /\ l \in {n + 1, n + 2})
  BY <1>1, <1>2, <1>3, <1>4, <1>5, <1>6, FrameLabels
<1>8. ASSUME NEW l, Defined(insts, l) PROVE l \in 1..m /\ ~Taken(p, l)
  <2>1. l \in 1..n /\ ~Taken(q, l)
    BY <1>3, <1>8 DEF Labels
  <2> QED BY <1>4, <1>7, <2>1
<1>9. ASSUME NEW l \in 1..m PROVE Taken(p, l) \/ (Jumped(insts, l) /\ Defined(insts, l))
  <2>1. l \in 1..n \/ (Short(x) /\ l \in {n + 1, n + 2})
    BY <1>4
  <2>2. CASE l \in 1..n
    BY <1>3, <1>7, <2>2 DEF Labels
  <2> QED BY <1>7, <2>1, <2>2
<1>10. Once(insts)
  BY DEF Labels
<1> QED BY <1>2, <1>3, <1>7, <1>8, <1>9, <1>10 DEF Labels

\* The frame at the top, its callers, and what they have named.
LEMMA TopLabels ==
    ASSUME Shape, Labels, frames # <<>>
    PROVE  /\ IsList(callers) /\ Nested(callers, label_count)
           /\ Pair(top, label_count) /\ After(callers, top)
           /\ \A l : Taken(frames, l) <=> Taken(callers, l) \/ (Short(top) /\ l \in {top.exit, top.end})
<1>1. IsList(callers) /\ frames = Append(callers, top)
  BY TopFacts DEF Shape
<1>2. label_count \in Nat /\ Nested(frames, label_count)
  BY DEF Shape, Labels
<1>3. PICK q, x, n : q = callers /\ x = top /\ n = label_count
  OBVIOUS
<1>4. IsList(q) /\ n \in Nat /\ Nested(Append(q, x), n)
  BY <1>1, <1>2, <1>3
<1>5. /\ Nested(q, n) /\ Pair(x, n) /\ After(q, x)
      /\ \A l : Taken(Append(q, x), l) <=> Taken(q, l) \/ (Short(x) /\ l \in {x.exit, x.end})
  BY <1>4, FrameLabels
<1> QED BY <1>1, <1>3, <1>5

\* The right operand is called with the same names; the jump in between defines none.
LEMMA RightLabels ==
    ASSUME Shape, Labels, EmitRight
    PROVE  Labels'
<1>1. PICK x : /\ x.e = top.e /\ x.exit = top.exit /\ x.end = top.end
               /\ frames' = Append(callers, x)
  BY RightStep
<1>2. /\ frames # <<>> /\ label_count' = label_count /\ label_count \in Nat /\ IsList(insts)
  BY RightStep DEF Shape
<1>3. PICK n, q, t : n = label_count /\ q = callers /\ t = top
  OBVIOUS
<1>4. /\ IsList(q) /\ Nested(q, n) /\ Pair(t, n) /\ After(q, t)
      /\ \A l : Taken(frames, l) <=> Taken(q, l) \/ (Short(t) /\ l \in {t.exit, t.end})
  BY <1>2, <1>3, TopLabels
<1>5. Pair(x, n) /\ After(q, x) /\ (Short(x) <=> Short(t)) /\ x.exit = t.exit /\ x.end = t.end
  BY <1>1, <1>3, <1>4 DEF Pair, After, Short
<1>6. PICK p : p = Append(q, x)
  OBVIOUS
<1>7. /\ Nested(p, n)
      /\ \A l : Taken(p, l) <=> Taken(q, l) \/ (Short(x) /\ l \in {x.exit, x.end})
  BY <1>2, <1>3, <1>4, <1>5, <1>6, FrameLabels
<1>8. Nested(frames', n) /\ \A l : Taken(frames', l) <=> Taken(frames, l)
  BY <1>1, <1>3, <1>4, <1>5, <1>6, <1>7
<1>9. PICK i : i = insts'
  OBVIOUS
<1>10. /\ \A l : Defined(i, l) <=> Defined(insts, l)
       /\ \A l : Jumped(insts, l) => Jumped(i, l)
       /\ Once(i)
  <2>1. CASE i = insts
    BY <2>1 DEF Labels
  <2>2. CASE i # insts
    <3>1. PICK y, k : k \in Jumps /\ Members(y, k, ret, 0, 0, top.exit) /\ i = Append(insts, y)
      BY <1>9, <2>2, RightStep
    <3>2. y.type # "LABEL"
      BY <3>1 DEF Members, Jumps
    <3> QED BY <1>2, <3>1, <3>2, InstLabels DEF Labels
  <2> QED BY <2>1, <2>2
<1> QED BY <1>2, <1>3, <1>8, <1>9, <1>10 DEF Labels

\* Any other operator is done and has no labels.
LEMMA OperationLabels ==
    ASSUME Shape, Labels, EmitOperation
    PROVE  Labels'
<1>1. PICK y, t : /\ t \in {"UNARY", "BINARY"}
                  /\ Members(y, t, top.lhs, ret, Len(vals) + 1, 0)
                  /\ insts' = Append(insts, y)
  BY OperationStep
<1>2. /\ frames # <<>> /\ ~Short(top) /\ frames' = callers /\ label_count' = label_count
      /\ IsList(insts)
  BY OperationStep DEF Short, Shape
<1>3. /\ Nested(callers, label_count) /\ \A l : Taken(frames, l) <=> Taken(callers, l)
  BY <1>2, TopLabels
<1>4. PICK i : i = insts'
  OBVIOUS
<1>5. y.type # "LABEL"
  BY <1>1 DEF Members
<1>6. /\ \A l : Defined(i, l) <=> Defined(insts, l)
      /\ \A l : Jumped(insts, l) => Jumped(i, l)
      /\ Once(i)
  BY <1>1, <1>2, <1>4, <1>5, InstLabels DEF Labels
<1> QED BY <1>2, <1>3, <1>4, <1>6 DEF Labels

\* && or || is done: its two names are jumped to and defined, for the first time.
LEMMA LogicalLabels ==
    ASSUME Shape, Labels, EmitLogical
    PROVE  Labels'
<1>1. PICK a, b, c, d, e, f, t :
           /\ t \in Jumps
           /\ Members(a, t, ret, 0, 0, top.exit)
           /\ Members(b, "COPY", Len(vals) + 2, 0, Len(vals) + 1, 0)
           /\ Members(c, "JMP", 0, 0, 0, top.end)
           /\ Members(d, "LABEL", 0, 0, 0, top.exit)
           /\ Members(e, "COPY", Len(vals) + 3, 0, Len(vals) + 1, 0)
           /\ Members(f, "LABEL", 0, 0, 0, top.end)
           /\ insts' = Append(Append(Append(Append(Append(Append(insts, a), b), c), d), e), f)
  BY LogicalStep
<1>2. /\ frames # <<>> /\ Short(top) /\ frames' = callers /\ label_count' = label_count
      /\ IsList(insts) /\ label_count \in Nat
  BY LogicalStep DEF Short, Shape
<1>3. PICK n, q, x, z : n = label_count /\ q = callers /\ x = top.exit /\ z = top.end
  OBVIOUS
<1>4. /\ Nested(q, n) /\ x \in 1..n /\ z = x + 1 /\ z \in 1..n
      /\ \A l : Taken(q, l) => l \in Nat /\ l < x
      /\ \A l : Taken(frames, l) <=> Taken(q, l) \/ l \in {x, z}
  BY <1>2, <1>3, TopLabels DEF Pair, After
<1>5. x # z /\ ~Taken(q, x) /\ ~Taken(q, z)
  BY <1>4
<1>6. PICK p1, p2, p3 : p1 = Append(insts, a) /\ p2 = Append(p1, b) /\ p3 = Append(p2, c)
  OBVIOUS
<1>7. PICK p4, p5, i : p4 = Append(p3, d) /\ p5 = Append(p4, e) /\ i = Append(p5, f)
  OBVIOUS
<1>8. i = insts'
  BY <1>1, <1>6, <1>7
<1>9. /\ IsList(p1) /\ IsList(p2) /\ IsList(p3) /\ IsList(p4) /\ IsList(p5)
  <2>1. IsList(p1)
    BY <1>2, <1>6, AppendFacts
  <2>2. IsList(p2)
    BY <1>6, <2>1, AppendFacts
  <2>3. IsList(p3)
    BY <1>6, <2>2, AppendFacts
  <2>4. IsList(p4)
    BY <1>7, <2>3, AppendFacts
  <2>5. IsList(p5)
    BY <1>7, <2>4, AppendFacts
  <2> QED BY <2>1, <2>2, <2>3, <2>4, <2>5
<1>10. /\ a.type \in Jumps /\ a.label = x /\ c.type \in Jumps /\ c.label = z
       /\ a.type # "LABEL" /\ b.type # "LABEL" /\ c.type # "LABEL" /\ e.type # "LABEL"
       /\ d.type = "LABEL" /\ d.label = x /\ f.type = "LABEL" /\ f.label = z
  BY <1>1, <1>3 DEF Members, Jumps
<1>11. /\ Once(insts) /\ ~Defined(insts, x) /\ ~Defined(insts, z)
  BY <1>4 DEF Labels
<1>12. /\ \A l : Defined(p3, l) <=> Defined(insts, l)
       /\ \A l : Jumped(insts, l) => Jumped(p3, l)
       /\ Once(p3) /\ Jumped(p3, x) /\ Jumped(p3, z)
  <2>1. /\ \A l : Defined(p1, l) <=> Defined(insts, l)
        /\ \A l : Jumped(insts, l) => Jumped(p1, l)
        /\ Once(p1) /\ Jumped(p1, x)
    BY <1>2, <1>6, <1>10, <1>11, InstLabels
  <2>2. /\ \A l : Defined(p2, l) <=> Defined(p1, l)
        /\ \A l : Jumped(p1, l) => Jumped(p2, l)
        /\ Once(p2)
    BY <1>6, <1>9, <1>10, <2>1, InstLabels
  <2>3. /\ \A l : Defined(p3, l) <=> Defined(p2, l)
        /\ \A l : Jumped(p2, l) => Jumped(p3, l)
        /\ Once(p3) /\ Jumped(p3, z)
    BY <1>6, <1>9, <1>10, <2>2, InstLabels
  <2> QED BY <2>1, <2>2, <2>3
<1>13. /\ \A l : Defined(i, l) <=> Defined(insts, l) \/ l \in {x, z}
       /\ \A l : Jumped(insts, l) => Jumped(i, l)
       /\ Once(i) /\ Jumped(i, x) /\ Jumped(i, z)
  <2>1. /\ \A l : Defined(p4, l) <=> Defined(insts, l) \/ l = x
        /\ \A l : Jumped(p3, l) => Jumped(p4, l)
        /\ Once(p4)
    BY <1>7, <1>9, <1>10, <1>11, <1>12, InstLabels
  <2>2. /\ \A l : Defined(p5, l) <=> Defined(p4, l)
        /\ \A l : Jumped(p4, l) => Jumped(p5, l)
        /\ Once(p5)
    BY <1>7, <1>9, <1>10, <2>1, InstLabels
  <2>3. /\ \A l : Defined(i, l) <=> Defined(p5, l) \/ l = z
        /\ \A l : Jumped(p5, l) => Jumped(i, l)
    BY <1>7, <1>9, <1>10, <2>2, InstLabels
  <2>4. ~Defined(p5, z)
    BY <1>5, <1>11, <2>1, <2>2
  <2>5. Once(i)
    BY <1>7, <1>9, <1>10, <2>2, <2>4, InstLabels
  <2> QED BY <1>12, <2>1, <2>2, <2>3, <2>5
<1>14. ASSUME NEW l, Defined(i, l) PROVE l \in 1..n /\ ~Taken(q, l)
  <2>1. CASE l \in {x, z}
    BY <1>4, <1>5, <2>1
  <2>2. CASE l \notin {x, z}
    <3>1. Defined(insts, l)
      BY <1>13, <1>14, <2>2
    <3> QED BY <1>3, <1>4, <3>1 DEF Labels
  <2> QED BY <2>1, <2>2
<1>15. ASSUME NEW l \in 1..n PROVE Taken(q, l) \/ (Jumped(i, l) /\ Defined(i, l))
  <2>1. CASE l \in {x, z}
    BY <1>13, <2>1
  <2>2. CASE l \notin {x, z}
    <3>1. Taken(frames, l) \/ (Jumped(insts, l) /\ Defined(insts, l))
      BY <1>3 DEF Labels
    <3> QED BY <1>4, <1>13, <2>2, <3>1
  <2> QED BY <2>1, <2>2
<1> QED BY <1>2, <1>3, <1>4, <1>8, <1>13, <1>14, <1>15 DEF Labels

\* The return is no label.
LEMMA ReturnLabels ==
    ASSUME Shape, Labels, EmitReturn
    PROVE  Labels'
<1>1. PICK y : Members(y, "RETURN", ret, 0, 0, 0) /\ insts' = Append(insts, y)
  BY ReturnStep
<1>2. frames' = frames /\ label_count' = label_count /\ IsList(insts)
  BY ReturnStep DEF Shape
<1>3. PICK i : i = insts'
  OBVIOUS
<1>4. y.type # "LABEL"
  BY <1>1 DEF Members
<1>5. /\ \A l : Defined(i, l) <=> Defined(insts, l)
      /\ \A l : Jumped(insts, l) => Jumped(i, l)
      /\ Once(i)
  BY <1>1, <1>2, <1>3, <1>4, InstLabels DEF Labels
<1> QED BY <1>2, <1>3, <1>5 DEF Labels

\* Every step keeps the labels apart.
LEMMA LabelsStep ==
    ASSUME Shape, Labels, [IrNext]_irVars
    PROVE  Labels'
<1>1. CASE EmitBody \/ EmitAbsent \/ DestroyBegins \/ UNCHANGED irVars
  <2>1. UNCHANGED <<frames, insts, label_count>>
    BY <1>1, QuietStep
  <2> QED BY <2>1 DEF Labels
<1>2. CASE EmitVar \/ EmitConst
  <2>1. UNCHANGED <<frames, insts, label_count>>
    BY <1>2, LeafStep
  <2> QED BY <2>1 DEF Labels
<1>3. CASE DestroyInst \/ DestroyDone
  <2>1. UNCHANGED <<frames, insts, label_count>>
    BY <1>3 DEF DestroyInst, DestroyDone, emitted
  <2> QED BY <2>1 DEF Labels
<1> QED BY <1>1, <1>2, <1>3, OperatorLabels, RightLabels, OperationLabels, LogicalLabels,
           ReturnLabels DEF IrNext, EmitStep, DestroyStep

\* No operator is open when the code is complete.
LEMMA AllDefined ==
    ASSUME Shape, Labels
    PROVE  LabelsResolve
<1> SUFFICES ASSUME ipc = "emitted", NEW l \in 1..label_count
             PROVE  /\ \E j \in DOMAIN insts :
                          insts[j].type \in {"JMP", "JZ", "JNZ"} /\ insts[j].label = l
                    /\ \E j \in DOMAIN insts :
                          {m \in DOMAIN insts : insts[m].type = "LABEL" /\ insts[m].label = l} = {j}
  BY DEF LabelsResolve
<1>1. DOMAIN insts = 1..Len(insts) /\ frames = <<>>
  BY AppendFacts DEF Shape
<1>2. ~Taken(frames, l)
  BY <1>1 DEF Taken
<1>3. Jumped(insts, l) /\ Defined(insts, l)
  BY <1>2 DEF Labels
<1>4. PICK j \in 1..Len(insts) : insts[j].type = "LABEL" /\ insts[j].label = l
  BY <1>3 DEF Defined
<1>5. \A m \in 1..Len(insts) : insts[m].type = "LABEL" /\ insts[m].label = l => m = j
  BY <1>4 DEF Labels, Once
<1>6. {m \in DOMAIN insts : insts[m].type = "LABEL" /\ insts[m].label = l} = {j}
  BY <1>1, <1>4, <1>5
<1> QED BY <1>1, <1>3, <1>4, <1>6 DEF Jumped, Jumps

\* Every label of the finished code is jumped to and defined once, however && and || are
\* nested.  ir_destroy frees a label's name where it is defined, so it frees each one once.
THEOREM LabelsDefinedOnce == IrSpec => []LabelsResolve
<1>1. IrInit => Shape /\ Counted /\ Progress
  BY StartsCounted
<1>2. IrInit => Labels
  <2> SUFFICES ASSUME IrInit PROVE Labels
    OBVIOUS
  <2>1. frames = <<>> /\ insts = <<>> /\ label_count = 0 /\ Len(<<>>) = 0
    BY DEF IrInit
  <2> QED BY <2>1 DEF Labels, Nested, Taken, Defined, Jumped, Once
<1>3. Shape /\ Counted /\ Progress /\ Labels /\ [IrNext]_irVars
        => (Shape /\ Counted /\ Progress /\ Labels)'
  BY ShapeStep, CountedStep, ProgressStep, LabelsStep
<1>4. Shape /\ Labels => LabelsResolve
  BY AllDefined
<1> QED BY <1>1, <1>2, <1>3, <1>4, PTL DEF IrSpec


-----------------------------------------------------------------------------
(* What the lowering needs of emit_ir: an instruction has the operands     *)
(* that its lowering takes.  The left one may be missing: lowering it      *)
(* faults.                                                                 *)

Types == Jumps \cup {"LABEL", "RETURN", "UNARY", "BINARY", "COPY"}

Whole(x) ==
    /\ x.type \in Types
    /\ x.type = "BINARY" => x.rhs # 0 /\ x.dst # 0
    /\ x.type \in {"UNARY", "COPY"} => x.dst # 0

AllWhole == \A j \in 1..Len(insts) : Whole(insts[j])

\* One more instruction that has its operands.
LEMMA WholeAppended ==
    ASSUME NEW q, IsList(q), \A j \in 1..Len(q) : Whole(q[j]), NEW x, Whole(x)
    PROVE  IsList(Append(q, x)) /\ \A j \in 1..Len(Append(q, x)) : Whole(Append(q, x)[j])
BY AppendFacts

\* emit_ir leaves no instruction without its operands.
LEMMA WholeStep ==
    ASSUME Shape, AllWhole, [IrNext]_irVars
    PROVE  AllWhole'
<1>0. IsList(insts) /\ Len(vals) \in Nat
  BY AppendFacts DEF Shape
<1>1. CASE EmitBody \/ EmitAbsent \/ DestroyBegins \/ UNCHANGED irVars
  <2>1. insts' = insts
    BY <1>1, QuietStep
  <2> QED BY <2>1 DEF AllWhole
<1>2. CASE EmitVar \/ EmitConst
  <2>1. insts' = insts
    BY <1>2, LeafStep
  <2> QED BY <2>1 DEF AllWhole
<1>3. CASE EmitOperator
  <2>1. insts' = insts
    BY <1>3, OperatorStep
  <2> QED BY <2>1 DEF AllWhole
<1>4. CASE EmitRight
  <2>1. CASE insts' = insts
    BY <2>1 DEF AllWhole
  <2>2. CASE insts' # insts
    <3>1. PICK y, t : t \in Jumps /\ Members(y, t, ret, 0, 0, top.exit) /\ insts' = Append(insts, y)
      BY <1>4, <2>2, RightStep
    <3>2. Whole(y)
      BY <3>1 DEF Whole, Types, Members, Jumps
    <3> QED BY <1>0, <3>1, <3>2, WholeAppended DEF AllWhole
  <2> QED BY <2>1, <2>2
<1>5. CASE EmitOperation
  <2>1. PICK y, t : /\ t \in {"UNARY", "BINARY"} /\ (t = "BINARY" => ret # 0)
                    /\ Members(y, t, top.lhs, ret, Len(vals) + 1, 0)
                    /\ insts' = Append(insts, y)
    BY <1>5, OperationStep
  <2>2. Len(vals) + 1 # 0
    BY <1>0
  <2>3. Whole(y)
    BY <2>1, <2>2 DEF Whole, Types, Members, Jumps
  <2> QED BY <1>0, <2>1, <2>3, WholeAppended DEF AllWhole
<1>6. CASE EmitLogical
  <2>1. PICK a, b, c, d, e, f, t :
           /\ t \in Jumps
           /\ Members(a, t, ret, 0, 0, top.exit)
           /\ Members(b, "COPY", Len(vals) + 2, 0, Len(vals) + 1, 0)
           /\ Members(c, "JMP", 0, 0, 0, top.end)
           /\ Members(d, "LABEL", 0, 0, 0, top.exit)
           /\ Members(e, "COPY", Len(vals) + 3, 0, Len(vals) + 1, 0)
           /\ Members(f, "LABEL", 0, 0, 0, top.end)
           /\ insts' = Append(Append(Append(Append(Append(Append(insts, a), b), c), d), e), f)
    BY <1>6, LogicalStep
  <2>2. Len(vals) + 1 # 0
    BY <1>0
  <2>3. Whole(a) /\ Whole(b) /\ Whole(c) /\ Whole(d) /\ Whole(e) /\ Whole(f)
    BY <2>1, <2>2 DEF Whole, Types, Members, Jumps
  <2>4. PICK p1, p2, p3 : p1 = Append(insts, a) /\ p2 = Append(p1, b) /\ p3 = Append(p2, c)
    OBVIOUS
  <2>5. PICK p4, p5 : p4 = Append(p3, d) /\ p5 = Append(p4, e)
    OBVIOUS
  <2>6. IsList(p1) /\ \A j \in 1..Len(p1) : Whole(p1[j])
    BY <1>0, <2>3, <2>4, WholeAppended DEF AllWhole
  <2>7. IsList(p2) /\ \A j \in 1..Len(p2) : Whole(p2[j])
    BY <2>3, <2>4, <2>6, WholeAppended
  <2>8. IsList(p3) /\ \A j \in 1..Len(p3) : Whole(p3[j])
    BY <2>3, <2>4, <2>7, WholeAppended
  <2>9. IsList(p4) /\ \A j \in 1..Len(p4) : Whole(p4[j])
    BY <2>3, <2>5, <2>8, WholeAppended
  <2>10. IsList(p5) /\ \A j \in 1..Len(p5) : Whole(p5[j])
    BY <2>3, <2>5, <2>9, WholeAppended
  <2>11. insts' = Append(p5, f)
    BY <2>1, <2>4, <2>5
  <2> QED BY <2>3, <2>10, <2>11, WholeAppended DEF AllWhole
<1>7. CASE EmitReturn
  <2>1. PICK y : Members(y, "RETURN", ret, 0, 0, 0) /\ insts' = Append(insts, y)
    BY <1>7, ReturnStep
  <2>2. Whole(y)
    BY <2>1 DEF Whole, Types, Members, Jumps
  <2> QED BY <1>0, <2>1, <2>2, WholeAppended DEF AllWhole
<1>8. CASE DestroyInst \/ DestroyDone
  <2>1. insts' = insts
    BY <1>8 DEF DestroyInst, DestroyDone, emitted
  <2> QED BY <2>1 DEF AllWhole
<1> QED BY <1>1, <1>2, <1>3, <1>4, <1>5, <1>6, <1>7, <1>8 DEF IrNext, EmitStep, DestroyStep

-----------------------------------------------------------------------------
(* Operands in the frame.                                                  *)

\* An operand, which is one of the first n slots if it is on the stack.
InFrame(x, n) ==
    /\ x = [kind |-> x.kind, val |-> x.val, size |-> x.size, obj |-> x.obj]
    /\ x.kind = "stack" => \E k \in 1..n : x.val = -(SlotBytes * k)

Framed(q, n) ==
    /\ IsList(q)
    /\ \A j \in 1..Len(q) : InFrame(q[j].src, n) /\ InFrame(q[j].dst, n)

\* No slots are needed for registers, immediates and what is missing; a copy of an
\* operand is at the same place.
LEMMA OperandsInFrame ==
    /\ \A n : InFrame(NoOpnd, n)
    /\ \A r, o, n : InFrame(create_register(r, o), n)
    /\ \A c, o, n : InFrame(create_immediate(c, o), n)
    /\ \A r, o, n : InFrame([create_register(r, o) EXCEPT !.size = 8], n)
    /\ \A x, o, n : InFrame(x, n) => InFrame(dup_operand(x, o), n)
<1>1. ASSUME NEW n PROVE InFrame(NoOpnd, n)
  BY DEF NoOpnd, Opnd, InFrame
<1>2. ASSUME NEW r, NEW o, NEW n PROVE InFrame(create_register(r, o), n)
  BY DEF create_register, Opnd, InFrame
<1>3. ASSUME NEW c, NEW o, NEW n PROVE InFrame(create_immediate(c, o), n)
  BY DEF create_immediate, Opnd, InFrame
<1>4. ASSUME NEW r, NEW o, NEW n PROVE InFrame([create_register(r, o) EXCEPT !.size = 8], n)
  BY DEF create_register, Opnd, InFrame
<1>5. ASSUME NEW x, NEW o, NEW n, InFrame(x, n) PROVE InFrame(dup_operand(x, o), n)
  <2>1. PICK y : y = dup_operand(x, o)
    OBVIOUS
  <2>2. y = [kind |-> x.kind, val |-> x.val, size |-> x.size, obj |-> o]
    BY <1>5, <2>1 DEF dup_operand, InFrame
  <2> QED BY <1>5, <2>1, <2>2 DEF InFrame
<1> QED BY <1>1, <1>2, <1>3, <1>4, <1>5

\* An instruction by itself.
LEMMA SingleFramed ==
    ASSUME NEW x, NEW n, InFrame(x.src, n), InFrame(x.dst, n)
    PROVE  Framed(<<x>>, n)
<1>1. PICK q : q = <<x>>
  OBVIOUS
<1>2. q \in Seq({x}) /\ Len(q) = 1 /\ q[1] = x
  BY <1>1
<1>3. \A j \in 1..Len(q) : q[j] = x
  BY <1>2
<1>4. IsList(q)
  BY <1>2 DEF IsList
<1>5. Framed(q, n)
  BY <1>3, <1>4 DEF Framed
<1> QED BY <1>1, <1>5

\* An instruction whose operands are in the frame.
LEMMA InstFramed ==
    ASSUME NEW t, NEW s, NEW d, NEW n, InFrame(s, n), InFrame(d, n)
    PROVE  Framed(<<Inst(t, s, d)>>, n)
<1>1. PICK x : x = Inst(t, s, d)
  OBVIOUS
<1>2. x.src = s /\ x.dst = d
  BY <1>1 DEF Inst
<1> QED BY <1>1, <1>2, SingleFramed

\* The instructions that have at most one operand.
LEMMA BareFramed ==
    ASSUME NEW n
    PROVE  /\ \A t : Framed(Plain(t), n)
           /\ \A l : Framed(JumpTo(l), n)
           /\ \A c, l : Framed(JumpIf(c, l), n)
           /\ \A l : Framed(LabelAt(l), n)
           /\ \A c, x : InFrame(x, n) => Framed(SetIf(c, x), n)
<1>0. InFrame(NoOpnd, n)
  BY OperandsInFrame
<1>1. ASSUME NEW t PROVE Framed(Plain(t), n)
  BY <1>0, InstFramed DEF Plain
<1>2. ASSUME NEW l PROVE Framed(JumpTo(l), n)
  <2>1. PICK x : x = [Inst("JMP", NoOpnd, NoOpnd) EXCEPT !.label = l]
    OBVIOUS
  <2>2. x.src = NoOpnd /\ x.dst = NoOpnd
    BY <2>1 DEF Inst
  <2> QED BY <1>0, <2>1, <2>2, SingleFramed DEF JumpTo
<1>3. ASSUME NEW c, NEW l PROVE Framed(JumpIf(c, l), n)
  <2>1. PICK x : x = [Inst("JMPCC", NoOpnd, NoOpnd) EXCEPT !.code = c, !.label = l]
    OBVIOUS
  <2>2. x.src = NoOpnd /\ x.dst = NoOpnd
    BY <2>1 DEF Inst
  <2> QED BY <1>0, <2>1, <2>2, SingleFramed DEF JumpIf
<1>4. ASSUME NEW l PROVE Framed(LabelAt(l), n)
  <2>1. PICK x : x = [Inst("LABEL", NoOpnd, NoOpnd) EXCEPT !.label = l]
    OBVIOUS
  <2>2. x.src = NoOpnd /\ x.dst = NoOpnd
    BY <2>1 DEF Inst
  <2> QED BY <1>0, <2>1, <2>2, SingleFramed DEF LabelAt
<1>5. ASSUME NEW c, NEW o, InFrame(o, n) PROVE Framed(SetIf(c, o), n)
  <2>1. PICK x : x = [Inst("SETCC", o, NoOpnd) EXCEPT !.code = c]
    OBVIOUS
  <2>2. x.src = o /\ x.dst = NoOpnd
    BY <2>1 DEF Inst
  <2> QED BY <1>0, <1>5, <2>1, <2>2, SingleFramed DEF SetIf
<1> QED BY <1>1, <1>2, <1>3, <1>4, <1>5

\* One list of instructions behind another.
LEMMA ConcatFramed ==
    ASSUME NEW p, NEW q, NEW n, Framed(p, n), Framed(q, n)
    PROVE  Framed(p \o q, n)
<1>1. PICK S, T : p \in Seq(S) /\ q \in Seq(T)
  BY DEF Framed, IsList
<1>2. PICK U : U = S \cup T
  OBVIOUS
<1>3. p \in Seq(U) /\ q \in Seq(U)
  BY <1>1, <1>2
<1>4. PICK r : r = p \o q
  OBVIOUS
<1>5. /\ r \in Seq(U) /\ Len(r) = Len(p) + Len(q) /\ Len(p) \in Nat /\ Len(q) \in Nat
      /\ \A j \in 1..Len(r) : r[j] = IF j <= Len(p) THEN p[j] ELSE q[j - Len(p)]
  BY <1>3, <1>4
<1>6. ASSUME NEW j \in 1..Len(r) PROVE InFrame(r[j].src, n) /\ InFrame(r[j].dst, n)
  <2>1. CASE j <= Len(p)
    <3>1. j \in 1..Len(p) /\ r[j] = p[j]
      BY <1>5, <2>1
    <3> QED BY <3>1 DEF Framed
  <2>2. CASE ~(j <= Len(p))
    <3>1. j - Len(p) \in 1..Len(q) /\ r[j] = q[j - Len(p)]
      BY <1>5, <2>2
    <3> QED BY <3>1 DEF Framed
  <2> QED BY <2>1, <2>2
<1> QED BY <1>4, <1>5, <1>6 DEF Framed, IsList

\* No instructions.
LEMMA NoneFramed == \A n : Framed(<<>>, n)
<1>1. <<>> \in Seq({}) /\ Len(<<>>) = 0
  OBVIOUS
<1> QED BY <1>1 DEF Framed, IsList

\* More slots hold what fewer held.
LEMMA FramedWider ==
    ASSUME NEW q, NEW n \in Nat, NEW m \in Nat, n <= m, Framed(q, n)
    PROVE  Framed(q, m)
<1>1. \A k \in 1..n : k \in 1..m
  OBVIOUS
<1>2. \A x : InFrame(x, n) => InFrame(x, m)
  BY <1>1 DEF InFrame
<1> QED BY <1>2 DEF Framed

-----------------------------------------------------------------------------
(* Each lowering uses the slots of its operands only.                      *)

\* A move, which goes through r10 when both sides are slots.
LEMMA MovFramed ==
    ASSUME NEW s, NEW d, NEW t, NEW n, InFrame(s, n), InFrame(d, n)
    PROVE  Framed(insert_mov(s, d, t), n)
<1>1. CASE IsStack(s) /\ IsStack(d)
  <2>1. PICK a, b : a = create_register("R10", halves[t][1]) /\ b = create_register("R10", halves[t][2])
    OBVIOUS
  <2>2. InFrame(a, n) /\ InFrame(b, n)
    BY <2>1, OperandsInFrame
  <2>3. PICK x, y : x = Inst("MOV", s, a) /\ y = Inst("MOV", b, d)
    OBVIOUS
  <2>4. x.src = s /\ x.dst = a /\ y.src = b /\ y.dst = d
    BY <2>3 DEF Inst
  <2>5. PICK q : q = <<x, y>>
    OBVIOUS
  <2>6. q \in Seq({x, y}) /\ \A j \in 1..Len(q) : q[j] = x \/ q[j] = y
    BY <2>5
  <2>7. Framed(q, n)
    BY <2>2, <2>4, <2>6 DEF Framed, IsList
  <2> QED BY <1>1, <2>1, <2>3, <2>5, <2>7 DEF insert_mov
<1>2. CASE ~(IsStack(s) /\ IsStack(d))
  <2>1. Framed(<<Inst("MOV", s, d)>>, n)
    BY InstFramed
  <2> QED BY <1>2, <2>1 DEF insert_mov
<1> QED BY <1>1, <1>2

\* A comparison, with its two helper registers.
LEMMA CmpFramed ==
    ASSUME NEW s, NEW d, NEW n, InFrame(s, n), InFrame(d, n)
    PROVE  Framed(insert_cmp(s, d), n)
<1>1. PICK u, v : /\ u = (IF IsStack(s) /\ IsStack(d) THEN create_register("R10", "c2") ELSE s)
                  /\ v = (IF IsImm(d) THEN create_register("R11", "c4") ELSE d)
  OBVIOUS
<1>2. InFrame(u, n) /\ InFrame(v, n)
  BY <1>1, OperandsInFrame
<1>3. PICK p : p = IF IsStack(s) /\ IsStack(d)
                   THEN insert_mov(s, create_register("R10", "c1"), "n") ELSE <<>>
  OBVIOUS
<1>4. PICK q : q = IF IsImm(d) THEN insert_mov(d, create_register("R11", "c3"), "o") ELSE <<>>
  OBVIOUS
<1>5. Framed(p, n)
  <2>1. Framed(insert_mov(s, create_register("R10", "c1"), "n"), n)
    BY MovFramed, OperandsInFrame
  <2> QED BY <1>3, <2>1, NoneFramed
<1>6. Framed(q, n)
  <2>1. Framed(insert_mov(d, create_register("R11", "c3"), "o"), n)
    BY MovFramed, OperandsInFrame
  <2> QED BY <1>4, <2>1, NoneFramed
<1>7. Framed(<<Inst("CMP", u, v)>>, n)
  BY <1>2, InstFramed
<1>8. Framed(p \o q \o <<Inst("CMP", u, v)>>, n)
  BY <1>5, <1>6, <1>7, ConcatFramed
<1>9. insert_cmp(s, d) = p \o q \o <<Inst("CMP", u, v)>>
  BY <1>1, <1>3, <1>4 DEF insert_cmp
<1> QED BY <1>8, <1>9

\* A comparison whose result is stored.
LEMMA RelationalFramed ==
    ASSUME NEW c, NEW l, NEW r, NEW d, NEW n, InFrame(l, n), InFrame(r, n), InFrame(d, n)
    PROVE  Framed(lower_relational(c, l, r, d), n)
<1>1. Framed(insert_cmp(r, l), n)
  BY CmpFramed
<1>2. Framed(insert_mov(create_immediate(0, "zero"), d, "m"), n)
  BY MovFramed, OperandsInFrame
<1>3. Framed(SetIf(c, dup_operand(d, "dst2")), n)
  BY BareFramed, OperandsInFrame
<1>4. Framed(insert_cmp(r, l) \o insert_mov(create_immediate(0, "zero"), d, "m")
               \o SetIf(c, dup_operand(d, "dst2")), n)
  BY <1>1, <1>2, <1>3, ConcatFramed
<1> QED BY <1>4 DEF lower_relational

\* Addition and the like.
LEMMA SimpleFramed ==
    ASSUME NEW t, NEW l, NEW r, NEW d, NEW n, InFrame(l, n), InFrame(r, n), InFrame(d, n)
    PROVE  Framed(lower_simple_binary_inst(t, l, r, d), n)
<1>1. PICK e : e = dup_operand(d, "dst2")
  OBVIOUS
<1>2. InFrame(e, n)
  BY <1>1, OperandsInFrame
<1>3. PICK q : q = IF IsStack(r) /\ IsStack(e)
                   THEN insert_mov(r, create_register("R10", "r1"), "n")
                        \o << Inst(t, create_register("R10", "r2"), e) >>
                   ELSE << Inst(t, r, e) >>
  OBVIOUS
<1>4. Framed(q, n)
  <2>1. Framed(insert_mov(r, create_register("R10", "r1"), "n"), n)
    BY MovFramed, OperandsInFrame
  <2>2. Framed(<< Inst(t, create_register("R10", "r2"), e) >>, n)
    BY <1>2, InstFramed, OperandsInFrame
  <2>3. Framed(<< Inst(t, r, e) >>, n)
    BY <1>2, InstFramed
  <2>4. Framed(insert_mov(r, create_register("R10", "r1"), "n")
                 \o << Inst(t, create_register("R10", "r2"), e) >>, n)
    BY <2>1, <2>2, ConcatFramed
  <2> QED BY <1>3, <2>3, <2>4
<1>5. Framed(insert_mov(l, d, "m") \o q, n)
  BY <1>4, MovFramed, ConcatFramed
<1> QED BY <1>1, <1>3, <1>5 DEF lower_simple_binary_inst

\* Multiplication, in a register.
LEMMA MulFramed ==
    ASSUME NEW l, NEW r, NEW d, NEW n, InFrame(l, n), InFrame(r, n), InFrame(d, n)
    PROVE  Framed(lower_mul(l, r, d), n)
<1>1. PICK a, b, c : /\ a = insert_mov(dup_operand(d, "dst2"), create_register("R11", "r1"), "n")
                     /\ b = <<Inst("MUL", r, create_register("R11", "r2"))>>
                     /\ c = insert_mov(create_register("R11", "r3"), dup_operand(d, "dst3"), "o")
  OBVIOUS
<1>2. Framed(a, n)
  <2>1. InFrame(dup_operand(d, "dst2"), n) /\ InFrame(create_register("R11", "r1"), n)
    BY OperandsInFrame
  <2> QED BY <1>1, <2>1, MovFramed
<1>3. Framed(b, n)
  BY <1>1, InstFramed, OperandsInFrame
<1>4. Framed(c, n)
  <2>1. InFrame(dup_operand(d, "dst3"), n) /\ InFrame(create_register("R11", "r3"), n)
    BY OperandsInFrame
  <2> QED BY <1>1, <2>1, MovFramed
<1>5. PICK e : e = <<Inst("MUL", r, dup_operand(d, "dst2"))>>
  OBVIOUS
<1>6. Framed(e, n)
  BY <1>5, InstFramed, OperandsInFrame
<1>7. PICK q : q = IF IsStack(d) THEN a \o b \o c ELSE e
  OBVIOUS
<1>8. Framed(q, n)
  <2>1. Framed(a \o b \o c, n)
    BY <1>2, <1>3, <1>4, ConcatFramed
  <2> QED BY <1>6, <1>7, <2>1
<1>9. Framed(insert_mov(l, d, "m") \o q, n)
  BY <1>8, MovFramed, ConcatFramed
<1> QED BY <1>1, <1>5, <1>7, <1>9 DEF lower_mul

\* Division, with ax and dx.
LEMMA DivFramed ==
    ASSUME NEW l, NEW r, NEW d, NEW w, NEW n, InFrame(l, n), InFrame(r, n), InFrame(d, n)
    PROVE  Framed(lower_div(l, r, d, w), n)
<1>1. PICK a, b, c : /\ a = insert_mov(l, create_register("AX", "r1"), "m")
                     /\ b = insert_mov(r, create_register("R10", "r2"), "n")
                     /\ c = insert_mov(create_register(IF w THEN "DX" ELSE "AX", "r4"), d, "o")
  OBVIOUS
<1>2. Framed(a, n) /\ Framed(b, n) /\ Framed(c, n)
  BY <1>1, MovFramed, OperandsInFrame
<1>3. PICK e, f : e = <<Inst("DIV", NoOpnd, create_register("R10", "r3"))>> /\ f = <<Inst("DIV", NoOpnd, r)>>
  OBVIOUS
<1>4. Framed(e, n) /\ Framed(f, n)
  BY <1>3, InstFramed, OperandsInFrame
<1>5. PICK q : q = IF IsImm(r) THEN b \o e ELSE f
  OBVIOUS
<1>6. Framed(q, n)
  <2>1. Framed(b \o e, n)
    BY <1>2, <1>4, ConcatFramed
  <2> QED BY <1>4, <1>5, <2>1
<1>7. Framed(Plain("CDQ"), n)
  BY BareFramed
<1>8. Framed(a \o Plain("CDQ") \o q \o c, n)
  BY <1>2, <1>6, <1>7, ConcatFramed
<1> QED BY <1>1, <1>3, <1>5, <1>8 DEF lower_div

\* A shift, with cl.
LEMMA ShiftFramed ==
    ASSUME NEW t, NEW l, NEW r, NEW d, NEW n, InFrame(l, n), InFrame(r, n), InFrame(d, n)
    PROVE  Framed(lower_bit_shift(t, l, r, d), n)
<1>1. PICK x, y, e : /\ x = [create_register("CX", "r1") EXCEPT !.size = 8]
                     /\ y = [create_register("CX", "r2") EXCEPT !.size = 8]
                     /\ e = dup_operand(d, "dst2")
  OBVIOUS
<1>2. InFrame(x, n) /\ InFrame(y, n) /\ InFrame(e, n)
  BY <1>1, OperandsInFrame
<1>3. PICK a, b, c : a = insert_mov(r, x, "n") /\ b = <<Inst(t, y, e)>> /\ c = <<Inst(t, r, e)>>
  OBVIOUS
<1>4. Framed(a, n) /\ Framed(b, n) /\ Framed(c, n)
  BY <1>2, <1>3, MovFramed, InstFramed
<1>5. PICK q : q = IF ~IsImm(r) THEN a \o b ELSE c
  OBVIOUS
<1>6. Framed(q, n)
  <2>1. Framed(a \o b, n)
    BY <1>4, ConcatFramed
  <2> QED BY <1>4, <1>5, <2>1
<1>7. Framed(insert_mov(l, d, "m") \o q, n)
  BY <1>6, MovFramed, ConcatFramed
<1> QED BY <1>1, <1>3, <1>5, <1>7 DEF lower_bit_shift

\* Logical negation.
LEMMA NotFramed ==
    ASSUME NEW s, NEW d, NEW n, InFrame(s, n), InFrame(d, n)
    PROVE  Framed(lower_logical_not(s, d), n)
<1>1. Framed(insert_cmp(create_immediate(0, "zero1"), s), n)
  BY CmpFramed, OperandsInFrame
<1>2. Framed(insert_mov(create_immediate(0, "zero2"), d, "n"), n)
  BY MovFramed, OperandsInFrame
<1>3. Framed(SetIf("EQ", dup_operand(d, "dst3")), n)
  BY BareFramed, OperandsInFrame
<1>4. Framed(insert_cmp(create_immediate(0, "zero1"), s)
               \o insert_mov(create_immediate(0, "zero2"), d, "n")
               \o SetIf("EQ", dup_operand(d, "dst3")), n)
  BY <1>1, <1>2, <1>3, ConcatFramed
<1> QED BY <1>4 DEF lower_logical_not

\* A unary operator.
LEMMA UnaryFramed ==
    ASSUME NEW o \in UnaryOps, NEW s, NEW d, NEW n, InFrame(s, n), InFrame(d, n)
    PROVE  Framed(lower_ir_unary(o, s, d), n)
<1>1. PICK e, f : e = dup_operand(d, "dst2") /\ f = dup_operand(s, "src2")
  OBVIOUS
<1>2. InFrame(e, n) /\ InFrame(f, n)
  BY <1>1, OperandsInFrame
<1>3. PICK m : m = insert_mov(s, d, "m")
  OBVIOUS
<1>4. Framed(m, n)
  BY <1>3, MovFramed
<1>5. CASE o = "NEG"
  <2>1. lower_ir_unary(o, s, d) = m \o <<Inst("NEG", NoOpnd, e)>>
    BY <1>1, <1>3, <1>5 DEF lower_ir_unary
  <2>2. Framed(<<Inst("NEG", NoOpnd, e)>>, n)
    BY <1>2, InstFramed, OperandsInFrame
  <2> QED BY <1>4, <2>1, <2>2, ConcatFramed
<1>6. CASE o = "NOT"
  <2>1. lower_ir_unary(o, s, d) = m \o lower_logical_not(f, e)
    BY <1>1, <1>3, <1>6 DEF lower_ir_unary
  <2>2. Framed(lower_logical_not(f, e), n)
    BY <1>2, NotFramed
  <2> QED BY <1>4, <2>1, <2>2, ConcatFramed
<1>7. CASE o = "BITNOT"
  <2>1. lower_ir_unary(o, s, d) = m \o <<Inst("NOT", NoOpnd, e)>>
    BY <1>1, <1>3, <1>7 DEF lower_ir_unary
  <2>2. Framed(<<Inst("NOT", NoOpnd, e)>>, n)
    BY <1>2, InstFramed, OperandsInFrame
  <2> QED BY <1>4, <2>1, <2>2, ConcatFramed
<1> QED BY <1>5, <1>6, <1>7 DEF UnaryOps

\* A binary operator.
LEMMA BinaryFramed ==
    ASSUME NEW o \in BinaryOps, NEW l, NEW r, NEW d, NEW n,
           InFrame(l, n), InFrame(r, n), InFrame(d, n)
    PROVE  Framed(lower_ir_binary(o, l, r, d), n)
<1>1. DOMAIN SimpleOps = {"ADD", "SUB", "BITAND", "BITXOR", "BITOR"}
  BY DEF SimpleOps
<1>2. PICK S : S = DOMAIN SimpleOps
  OBVIOUS
<1>3. CASE o \in S
  <2>1. lower_ir_binary(o, l, r, d) = lower_simple_binary_inst(SimpleOps[o], l, r, d)
    BY <1>1, <1>2, <1>3 DEF lower_ir_binary, Relations
  <2> QED BY <2>1, SimpleFramed
<1>4. CASE o = "MUL"
  <2>1. lower_ir_binary(o, l, r, d) = lower_mul(l, r, d)
    BY <1>1, <1>4 DEF lower_ir_binary, Relations
  <2> QED BY <2>1, MulFramed
<1>5. CASE o \in {"DIV", "MOD"}
  <2>1. lower_ir_binary(o, l, r, d) = lower_div(l, r, d, o = "MOD")
    BY <1>1, <1>5 DEF lower_ir_binary, Relations
  <2> QED BY <2>1, DivFramed
<1>6. CASE o \in {"SHL", "SHR"}
  <2>1. lower_ir_binary(o, l, r, d) = lower_bit_shift(o, l, r, d)
    BY <1>1, <1>6 DEF lower_ir_binary, Relations
  <2> QED BY <2>1, ShiftFramed
<1>7. CASE o \in Relations
  <2>1. lower_ir_binary(o, l, r, d) = lower_relational(o, l, r, d)
    BY <1>1, <1>7 DEF lower_ir_binary, Relations
  <2> QED BY <2>1, RelationalFramed
<1> QED BY <1>2, <1>3, <1>4, <1>5, <1>6, <1>7 DEF BinaryOps

\* The stack allocator gives a variable its slot and takes none away.
LEMMA SlotTaken ==
    ASSUME NEW s, IsList(s), NEW v, NEW t, t = slot_taken(s, v)
    PROVE  /\ IsList(t) /\ Len(t) \in Nat /\ Len(s) \in Nat /\ Len(s) <= Len(t)
           /\ \A n : Contains(s, n) => Contains(t, n)
           /\ v = 0 \/ vals[v].is_constant \/ Contains(t, vals[v].val)
<1>1. Len(s) \in Nat
  BY AppendFacts
<1>2. PICK n : n = vals[v].val
  OBVIOUS
<1>3. CASE v = 0 \/ vals[v].is_constant \/ Contains(s, n)
  <2>1. t = s
    BY <1>2, <1>3 DEF slot_taken
  <2> QED BY <1>1, <1>2, <1>3, <2>1
<1>4. CASE ~(v = 0 \/ vals[v].is_constant \/ Contains(s, n))
  <2>1. t = Append(s, n)
    BY <1>2, <1>4 DEF slot_taken
  <2>2. /\ IsList(t) /\ Len(t) = Len(s) + 1 /\ t[Len(s) + 1] = n
        /\ \A j \in 1..Len(s) : t[j] = s[j]
    BY <2>1, AppendFacts
  <2>3. Contains(t, n)
    BY <1>1, <2>2 DEF Contains
  <2>4. \A m : Contains(s, m) => Contains(t, m)
    BY <1>1, <2>2 DEF Contains
  <2> QED BY <1>1, <1>2, <2>2, <2>3, <2>4
<1> QED BY <1>3, <1>4

\* The three operands of an instruction have their slots.
LEMMA SlotsTaken ==
    ASSUME IsList(slots), NEW x, NEW s, s = SlotsFor(x)
    PROVE  /\ IsList(s) /\ Len(s) \in Nat /\ Len(slots) \in Nat /\ Len(slots) <= Len(s)
           /\ \A v \in {x.lhs, x.rhs, x.dst} :
                 v = 0 \/ vals[v].is_constant \/ Contains(s, vals[v].val)
<1>1. PICK l, r, d : l = x.lhs /\ r = x.rhs /\ d = x.dst
  OBVIOUS
<1>2. PICK a : a = slot_taken(slots, l)
  OBVIOUS
<1>3. PICK b : b = slot_taken(a, r)
  OBVIOUS
<1>4. s = slot_taken(b, d)
  BY <1>1, <1>2, <1>3 DEF SlotsFor
<1>5. /\ IsList(a) /\ Len(a) \in Nat /\ Len(slots) \in Nat /\ Len(slots) <= Len(a)
      /\ l = 0 \/ vals[l].is_constant \/ Contains(a, vals[l].val)
  BY <1>2, SlotTaken
<1>6. /\ IsList(b) /\ Len(b) \in Nat /\ Len(a) <= Len(b)
      /\ \A n : Contains(a, n) => Contains(b, n)
      /\ r = 0 \/ vals[r].is_constant \/ Contains(b, vals[r].val)
  BY <1>3, <1>5, SlotTaken
<1>7. /\ IsList(s) /\ Len(s) \in Nat /\ Len(b) <= Len(s)
      /\ \A n : Contains(b, n) => Contains(s, n)
      /\ d = 0 \/ vals[d].is_constant \/ Contains(s, vals[d].val)
  BY <1>4, <1>6, SlotTaken
<1> QED BY <1>1, <1>5, <1>6, <1>7

\* The operand of a value that has its slot is in the frame.
LEMMA ValueInFrame ==
    ASSUME NEW s, NEW v, vals[v].is_constant \/ Contains(s, vals[v].val), NEW o
    PROVE  InFrame(lower_ir_val(v, s, o), Len(s))
<1>1. CASE vals[v].is_constant
  <2>1. lower_ir_val(v, s, o) = create_immediate(vals[v].val, o)
    BY <1>1 DEF lower_ir_val
  <2> QED BY <2>1, OperandsInFrame
<1>2. CASE ~vals[v].is_constant
  <2>1. PICK n, k : n = vals[v].val /\ k = slot_of(s, n)
    OBVIOUS
  <2>2. k \in 1..Len(s)
    BY <1>2, <2>1 DEF slot_of, Contains
  <2>3. PICK x : x = Opnd("stack", -(SlotBytes * k), 32, o)
    OBVIOUS
  <2>4. lower_ir_val(v, s, o) = x
    BY <1>2, <2>1, <2>3 DEF lower_ir_val
  <2>5. /\ x = [kind |-> x.kind, val |-> x.val, size |-> x.size, obj |-> x.obj]
        /\ x.val = -(SlotBytes * k)
    BY <2>3 DEF Opnd
  <2> QED BY <2>2, <2>4, <2>5 DEF InFrame
<1> QED BY <1>1, <1>2

\* What an instruction is lowered to is in the frame that it leaves.
LEMMA InstructionFramed ==
    ASSUME IsList(slots), NEW x, Whole(x), ~Unimplemented(x), ~LacksOperand(x),
           NEW s, s = SlotsFor(x)
    PROVE  Framed(lower_ir_instruction(x, s), Len(s))
<1>1. PICK n : n = Len(s)
  OBVIOUS
<1>2. PICK l, r, d : /\ l = lower_ir_val(x.lhs, s, "lhs") /\ r = lower_ir_val(x.rhs, s, "rhs")
                     /\ d = lower_ir_val(x.dst, s, "dst")
  OBVIOUS
<1>3. \A v \in {x.lhs, x.rhs, x.dst} : v = 0 \/ vals[v].is_constant \/ Contains(s, vals[v].val)
  BY SlotsTaken
<1>4. /\ x.lhs # 0 => InFrame(l, n)
      /\ x.rhs # 0 => InFrame(r, n)
      /\ x.dst # 0 => InFrame(d, n)
  BY <1>1, <1>2, <1>3, ValueInFrame
<1>5. PICK y : y = lower_ir_instruction(x, s)
  OBVIOUS
<1>6. CASE x.type = "RETURN"
  <2>1. y = insert_mov(l, create_register("AX", "r1"), "m") \o Plain("RETURN")
    BY <1>2, <1>5, <1>6 DEF lower_ir_instruction, lower_ir_return
  <2>2. InFrame(l, n)
    BY <1>4, <1>6 DEF LacksOperand
  <2>3. Framed(insert_mov(l, create_register("AX", "r1"), "m"), n) /\ Framed(Plain("RETURN"), n)
    BY <2>2, MovFramed, BareFramed, OperandsInFrame
  <2> QED BY <1>1, <1>5, <2>1, <2>3, ConcatFramed
<1>7. CASE x.type = "UNARY"
  <2>1. y = lower_ir_unary(x.op, l, d)
    BY <1>2, <1>5, <1>7 DEF lower_ir_instruction
  <2>2. InFrame(l, n) /\ InFrame(d, n) /\ x.op \in UnaryOps
    BY <1>4, <1>7 DEF LacksOperand, Whole, Unimplemented
  <2> QED BY <1>1, <1>5, <2>1, <2>2, UnaryFramed
<1>8. CASE x.type = "BINARY"
  <2>1. y = lower_ir_binary(x.op, l, r, d)
    BY <1>2, <1>5, <1>8 DEF lower_ir_instruction
  <2>2. InFrame(l, n) /\ InFrame(r, n) /\ InFrame(d, n) /\ x.op \in BinaryOps
    BY <1>4, <1>8 DEF LacksOperand, Whole, Unimplemented
  <2> QED BY <1>1, <1>5, <2>1, <2>2, BinaryFramed
<1>9. CASE x.type = "JMP"
  <2>1. y = JumpTo(x.label)
    BY <1>5, <1>9 DEF lower_ir_instruction
  <2> QED BY <1>1, <1>5, <2>1, BareFramed
<1>10. CASE x.type \in {"JZ", "JNZ"}
  <2>1. PICK c : c = IF x.type = "JZ" THEN "EQ" ELSE "NE"
    OBVIOUS
  <2>2. y = insert_cmp(create_immediate(0, "zero"), l) \o JumpIf(c, x.label)
    BY <1>2, <1>5, <1>10, <2>1 DEF lower_ir_instruction, lower_cond_jump
  <2>3. InFrame(l, n)
    BY <1>4, <1>10 DEF LacksOperand
  <2>4. Framed(insert_cmp(create_immediate(0, "zero"), l), n) /\ Framed(JumpIf(c, x.label), n)
    BY <2>3, CmpFramed, BareFramed, OperandsInFrame
  <2> QED BY <1>1, <1>5, <2>2, <2>4, ConcatFramed
<1>11. CASE x.type = "COPY"
  <2>1. y = insert_mov(l, d, "m")
    BY <1>2, <1>5, <1>11 DEF lower_ir_instruction
  <2>2. InFrame(l, n) /\ InFrame(d, n)
    BY <1>4, <1>11 DEF LacksOperand, Whole
  <2> QED BY <1>1, <1>5, <2>1, <2>2, MovFramed
<1>12. CASE x.type = "LABEL"
  <2>1. y = LabelAt(x.label)
    BY <1>5, <1>12 DEF lower_ir_instruction
  <2> QED BY <1>1, <1>5, <2>1, BareFramed
<1> QED BY <1>6, <1>7, <1>8, <1>9, <1>10, <1>11, <1>12 DEF Whole, Types, Jumps

-----------------------------------------------------------------------------
(* The frame.                                                              *)

\* The code so far uses the slots so far; in the end it begins with their reservation.
FrameInv ==
    /\ IsList(slots) /\ next_ir \in Nat \ {0}
    /\ cpc \in {"lower", "lowered"} => Framed(asm, Len(slots))
    /\ cpc = "lowered" /\ slots # <<>> =>
          Head(asm).type = "ALLOCSTACK" /\ Head(asm).src.val = SlotBytes * Len(slots)

\* Every step of the three phases is one of emit_ir and ir_destroy, or leaves them alone.
LEMMA TranslateMoves ==
    ASSUME [Translate]_<<irVars, codegenVars>>
    PROVE  [IrNext]_irVars
BY DEF Translate, EmitIr, EmitAsm, DestroyIr, IrNext

\* One more IR instruction: its code is in the frame that its slots make.
LEMMA LowerFrame ==
    ASSUME AllWhole, FrameInv, Lower
    PROVE  FrameInv'
<1>1. PICK x, s : x = insts[next_ir] /\ s = SlotsFor(x)
  OBVIOUS
<1>2. /\ cpc = "lower" /\ cpc' = "lower" /\ next_ir' = next_ir + 1
      /\ slots' = s /\ asm' = asm \o lower_ir_instruction(x, s)
      /\ next_ir <= Len(insts) /\ ~Unimplemented(x) /\ ~LacksOperand(x)
  BY <1>1 DEF Lower
<1>3. next_ir \in Nat \ {0} /\ IsList(slots) /\ Framed(asm, Len(slots))
  BY <1>2 DEF FrameInv
<1>4. Whole(x)
  <2>1. next_ir \in 1..Len(insts)
    BY <1>2, <1>3
  <2> QED BY <1>1, <2>1 DEF AllWhole
<1>5. Framed(lower_ir_instruction(x, s), Len(s))
  BY <1>1, <1>2, <1>3, <1>4, InstructionFramed
<1>6. IsList(s) /\ Len(s) \in Nat /\ Len(slots) \in Nat /\ Len(slots) <= Len(s)
  BY <1>1, <1>3, SlotsTaken
<1>7. Framed(asm, Len(s))
  BY <1>3, <1>6, FramedWider
<1>8. Framed(asm', Len(slots'))
  BY <1>2, <1>5, <1>7, ConcatFramed
<1>9. IsList(slots') /\ next_ir' \in Nat \ {0}
  BY <1>2, <1>3, <1>6
<1> QED BY <1>2, <1>8, <1>9 DEF FrameInv

\* What is put in front of a list is its head.
LEMMA HeadOfConcat ==
    ASSUME NEW x, NEW p, IsList(p)
    PROVE  Head(<<x>> \o p) = x
<1>1. PICK S : p \in Seq(S)
  BY DEF IsList
<1>2. PICK U : U = S \cup {x}
  OBVIOUS
<1>3. PICK q : q = <<x>>
  OBVIOUS
<1>4. q \in Seq(U) /\ p \in Seq(U)
  BY <1>1, <1>2, <1>3
<1>5. Len(q) = 1 /\ q[1] = x
  BY <1>3
<1>6. PICK r : r = q \o p
  OBVIOUS
<1>7. /\ r \in Seq(U) /\ Len(r) = Len(q) + Len(p) /\ Len(p) \in Nat
      /\ \A j \in 1..Len(r) : r[j] = IF j <= Len(q) THEN q[j] ELSE p[j - Len(q)]
  BY <1>4, <1>6
<1>8. Len(r) # 0 /\ r[1] = x
  BY <1>5, <1>7
<1>9. Head(r) = x
  BY <1>7, <1>8
<1> QED BY <1>3, <1>6, <1>9

\* The reservation: it is in front of the code, and as large as the slots.
LEMMA ReserveFrame ==
    ASSUME FrameInv, ReserveStack
    PROVE  FrameInv'
<1>1. /\ cpc = "lower" /\ cpc' = "lowered" /\ slots' = slots /\ next_ir' = next_ir
      /\ IsList(slots) /\ next_ir \in Nat \ {0} /\ Framed(asm, Len(slots))
  BY DEF FrameInv, ReserveStack
<1>2. CASE slots = <<>>
  <2>1. asm' = asm
    BY <1>2 DEF ReserveStack
  <2> QED BY <1>1, <1>2, <2>1 DEF FrameInv
<1>3. CASE slots # <<>>
  <2>1. PICK i : i = create_immediate(FrameBytes, "frame")
    OBVIOUS
  <2>2. PICK x : x = Inst("ALLOCSTACK", i, NoOpnd)
    OBVIOUS
  <2>3. asm' = <<x>> \o asm
    BY <1>3, <2>1, <2>2 DEF ReserveStack
  <2>4. x.type = "ALLOCSTACK" /\ x.src = i /\ x.dst = NoOpnd
    BY <2>2 DEF Inst
  <2>5. i.val = SlotBytes * Len(slots)
    BY <2>1 DEF create_immediate, Opnd, FrameBytes
  <2>6. InFrame(x.src, Len(slots)) /\ InFrame(x.dst, Len(slots))
    BY <2>1, <2>4, OperandsInFrame
  <2>7. PICK q : q = <<x>>
    OBVIOUS
  <2>8. Framed(q, Len(slots))
    BY <2>6, <2>7, SingleFramed
  <2>9. Framed(asm', Len(slots))
    BY <1>1, <2>3, <2>7, <2>8, ConcatFramed
  <2>10. Head(asm') = x
    BY <1>1, <2>3, HeadOfConcat DEF Framed
  <2> QED BY <1>1, <2>4, <2>5, <2>9, <2>10 DEF FrameInv
<1> QED BY <1>2, <1>3

\* Every step keeps the frame.
LEMMA FrameStep ==
    ASSUME AllWhole, FrameInv, [Translate]_<<irVars, codegenVars>>
    PROVE  FrameInv'
<1>1. CASE UNCHANGED codegenVars
  BY <1>1 DEF codegenVars, FrameInv
<1>2. CASE LowerFails \/ LowerAbsent
  <2>1. cpc' \in {"error", "crashed"} /\ UNCHANGED <<next_ir, slots>>
    BY <1>2 DEF LowerFails, LowerAbsent
  <2> QED BY <2>1 DEF FrameInv
<1> QED BY <1>1, <1>2, LowerFrame, ReserveFrame
        DEF Translate, EmitIr, EmitAsm, DestroyIr, CodegenStep

\* The last slot ends where the reservation does.
LEMMA SlotBelow ==
    ASSUME NEW n \in Nat, NEW k \in 1..n, NEW v, v = -(SlotBytes * k)
    PROVE  v < 0 /\ -v <= SlotBytes * n
<1>1. PICK b \in Nat \ {0} : b = SlotBytes
  BY SlotAssumption
<1>2. PICK m \in Nat : n = k + m
  <2>1. n - k \in Nat /\ n = k + (n - k)
    OBVIOUS
  <2> QED BY <2>1
<1>3. b * k \in Nat /\ b * k > 0 /\ b * m \in Nat
  OBVIOUS
<1>4. b * n = b * k + b * m
  BY <1>2
<1> QED BY <1>1, <1>3, <1>4

\* The invariant says of the finished code what SlotsInFrame does.
LEMMA FrameEnough ==
    ASSUME FrameInv
    PROVE  SlotsInFrame
<1> SUFFICES ASSUME cpc = "lowered", NEW p \in Operands(asm), IsStack(asm[p[1]][p[2]])
             PROVE  /\ asm[p[1]][p[2]].val < 0
                    /\ Head(asm).type = "ALLOCSTACK"
                    /\ -asm[p[1]][p[2]].val <= Head(asm).src.val
  BY DEF SlotsInFrame
<1>1. Framed(asm, Len(slots)) /\ IsList(slots)
  BY DEF FrameInv
<1>2. PICK j, f : p[1] = j /\ p[2] = f /\ j \in DOMAIN asm /\ f \in {"src", "dst"}
  BY DEF Operands
<1>3. PICK x : x = asm[j][f]
  OBVIOUS
<1>4. j \in 1..Len(asm)
  BY <1>1, <1>2, AppendFacts DEF Framed
<1>5. InFrame(x, Len(slots))
  <2>1. InFrame(asm[j].src, Len(slots)) /\ InFrame(asm[j].dst, Len(slots))
    BY <1>1, <1>4 DEF Framed
  <2>2. CASE f = "src"
    BY <1>3, <2>1, <2>2
  <2>3. CASE f = "dst"
    BY <1>3, <2>1, <2>3
  <2> QED BY <1>2, <2>2, <2>3
<1>6. x.kind = "stack"
  BY <1>2, <1>3 DEF IsStack
<1>7. PICK k \in 1..Len(slots) : x.val = -(SlotBytes * k)
  BY <1>5, <1>6 DEF InFrame
<1>8. Len(slots) \in Nat /\ slots # <<>>
  BY <1>1, <1>7, AppendFacts
<1>9. x.val < 0 /\ -x.val <= SlotBytes * Len(slots)
  BY <1>7, <1>8, SlotBelow
<1>10. Head(asm).type = "ALLOCSTACK" /\ Head(asm).src.val = SlotBytes * Len(slots)
  BY <1>8 DEF FrameInv
<1> QED BY <1>2, <1>3, <1>9, <1>10

\* Emission, lowering and destruction in main's order are an emission and a destruction: what
\* is proved of these two holds of the three together.
THEOREM TranslateEmits == TranslateSpec => IrSpec
<1>1. [Translate]_<<irVars, codegenVars>> => [IrNext]_irVars
  BY TranslateMoves
<1> QED BY <1>1, PTL DEF TranslateSpec, IrSpec

\* The invariants of the three phases together.
LEMMA FrameInvariant == TranslateSpec => [](AllWhole /\ FrameInv)
<1>1. IrInit /\ CodegenInit => Shape /\ Counted /\ Progress /\ AllWhole /\ FrameInv
  <2> SUFFICES ASSUME IrInit, CodegenInit
               PROVE  Shape /\ Counted /\ Progress /\ AllWhole /\ FrameInv
    OBVIOUS
  <2>1. AllWhole
    <3>1. Len(insts) = 0
      BY DEF IrInit
    <3> QED BY <3>1 DEF AllWhole
  <2>2. FrameInv
    <3>1. cpc = "lower" /\ next_ir = 1 /\ asm = <<>> /\ slots = <<>>
      BY DEF CodegenInit
    <3>2. Framed(<<>>, Len(slots)) /\ IsList(<<>>)
      BY NoneFramed DEF Framed
    <3> QED BY <3>1, <3>2 DEF FrameInv
  <2> QED BY <2>1, <2>2, StartsCounted
<1>2. Shape /\ Counted /\ Progress /\ AllWhole /\ FrameInv
      /\ [Translate]_<<irVars, codegenVars>>
        => (Shape /\ Counted /\ Progress /\ AllWhole /\ FrameInv)'
  BY TranslateMoves, ShapeStep, CountedStep, ProgressStep, WholeStep, FrameStep
<1> QED BY <1>1, <1>2, PTL DEF TranslateSpec

\* The stack instruction at the front reserves a frame that holds every slot the code reads or
\* writes, for every body and every slot size.
THEOREM FrameHoldsSlots == TranslateSpec => []SlotsInFrame
<1>1. FrameInv => SlotsInFrame
  BY FrameEnough
<1> QED BY <1>1, FrameInvariant, PTL

-----------------------------------------------------------------------------
(* Operand objects.                                                        *)

IsOpnd(x) == x = [kind |-> x.kind, val |-> x.val, size |-> x.size, obj |-> x.obj]

Sides == {"src", "dst"}

\* The objects of the operands are in S, and no two operands are one object.
Owned(q, S) ==
    /\ IsList(q)
    /\ \A j \in 1..Len(q), f \in Sides : q[j][f].kind # "none" => q[j][f].obj \in S
    /\ \A j, k \in 1..Len(q), f, g \in Sides :
          /\ q[j][f].kind # "none" /\ q[k][g].kind # "none"
          /\ q[j][f].obj = q[k][g].obj
          => j = k /\ f = g

\* The objects of new operands.
LEMMA OperandObjects ==
    /\ NoOpnd.kind = "none"
    /\ \A r, o : LET x == create_register(r, o) IN IsOpnd(x) /\ x.kind = "reg" /\ x.obj = o
    /\ \A n, o : LET x == create_immediate(n, o) IN IsOpnd(x) /\ x.kind = "imm" /\ x.obj = o
    /\ \A x, o : IsOpnd(x) => LET y == dup_operand(x, o) IN
                    IsOpnd(y) /\ y.kind = x.kind /\ y.obj = o
<1>1. NoOpnd.kind = "none"
  BY DEF NoOpnd, Opnd
<1>2. ASSUME NEW r, NEW o, NEW x, x = create_register(r, o)
      PROVE  IsOpnd(x) /\ x.kind = "reg" /\ x.obj = o
  BY <1>2 DEF create_register, Opnd, IsOpnd
<1>3. ASSUME NEW n, NEW o, NEW x, x = create_immediate(n, o)
      PROVE  IsOpnd(x) /\ x.kind = "imm" /\ x.obj = o
  BY <1>3 DEF create_immediate, Opnd, IsOpnd
<1>4. ASSUME NEW x, NEW o, IsOpnd(x), NEW y, y = dup_operand(x, o)
      PROVE  IsOpnd(y) /\ y.kind = x.kind /\ y.obj = o
  <2>1. y = [kind |-> x.kind, val |-> x.val, size |-> x.size, obj |-> o]
    BY <1>4 DEF dup_operand, IsOpnd
  <2> QED BY <2>1 DEF IsOpnd
<1> QED BY <1>1, <1>2, <1>3, <1>4

\* An instruction by itself.
LEMMA SingleOwned ==
    ASSUME NEW x, NEW S,
           x.src.kind # "none" => x.src.obj \in S,
           x.dst.kind # "none" => x.dst.obj \in S,
           x.src.kind # "none" /\ x.dst.kind # "none" => x.src.obj # x.dst.obj
    PROVE  Owned(<<x>>, S)
<1>1. PICK q : q = <<x>>
  OBVIOUS
<1>2. q \in Seq({x}) /\ Len(q) = 1 /\ q[1] = x
  BY <1>1
<1>3. \A j \in 1..Len(q) : j = 1 /\ q[j] = x
  BY <1>2
<1>4. IsList(q)
  BY <1>2 DEF IsList
<1>5. \A f \in Sides : x[f].kind # "none" => x[f].obj \in S
  BY DEF Sides
<1>6. \A f, g \in Sides : x[f].kind # "none" /\ x[g].kind # "none" /\ x[f].obj = x[g].obj => f = g
  BY DEF Sides
<1>7. Owned(q, S)
  BY <1>3, <1>4, <1>5, <1>6 DEF Owned
<1> QED BY <1>1, <1>7

\* An instruction with two operands, or fewer.
LEMMA InstOwned ==
    ASSUME NEW t, NEW s, NEW d, NEW S,
           s.kind # "none" => s.obj \in S,
           d.kind # "none" => d.obj \in S,
           s.kind # "none" /\ d.kind # "none" => s.obj # d.obj
    PROVE  Owned(<<Inst(t, s, d)>>, S)
<1>1. PICK x : x = Inst(t, s, d)
  OBVIOUS
<1>2. x.src = s /\ x.dst = d
  BY <1>1 DEF Inst
<1> QED BY <1>1, <1>2, SingleOwned

\* The instructions that have at most one operand.
LEMMA BareOwned ==
    /\ \A S : Owned(<<>>, S)
    /\ \A t, S : Owned(Plain(t), S)
    /\ \A l, S : Owned(JumpTo(l), S)
    /\ \A c, l, S : Owned(JumpIf(c, l), S)
    /\ \A l, S : Owned(LabelAt(l), S)
    /\ \A c, x, S : x.obj \in S => Owned(SetIf(c, x), S)
<1>0. NoOpnd.kind = "none"
  BY OperandObjects
<1>1. ASSUME NEW S PROVE Owned(<<>>, S)
  <2>1. <<>> \in Seq({}) /\ Len(<<>>) = 0
    OBVIOUS
  <2> QED BY <2>1 DEF Owned, IsList
<1>2. ASSUME NEW t, NEW S PROVE Owned(Plain(t), S)
  BY <1>0, InstOwned DEF Plain
<1>3. ASSUME NEW l, NEW S PROVE Owned(JumpTo(l), S)
  <2>1. PICK x : x = [Inst("JMP", NoOpnd, NoOpnd) EXCEPT !.label = l]
    OBVIOUS
  <2>2. x.src = NoOpnd /\ x.dst = NoOpnd
    BY <2>1 DEF Inst
  <2> QED BY <1>0, <2>1, <2>2, SingleOwned DEF JumpTo
<1>4. ASSUME NEW c, NEW l, NEW S PROVE Owned(JumpIf(c, l), S)
  <2>1. PICK x : x = [Inst("JMPCC", NoOpnd, NoOpnd) EXCEPT !.code = c, !.label = l]
    OBVIOUS
  <2>2. x.src = NoOpnd /\ x.dst = NoOpnd
    BY <2>1 DEF Inst
  <2> QED BY <1>0, <2>1, <2>2, SingleOwned DEF JumpIf
<1>5. ASSUME NEW l, NEW S PROVE Owned(LabelAt(l), S)
  <2>1. PICK x : x = [Inst("LABEL", NoOpnd, NoOpnd) EXCEPT !.label = l]
    OBVIOUS
  <2>2. x.src = NoOpnd /\ x.dst = NoOpnd
    BY <2>1 DEF Inst
  <2> QED BY <1>0, <2>1, <2>2, SingleOwned DEF LabelAt
<1>6. ASSUME NEW c, NEW o, NEW S, o.obj \in S PROVE Owned(SetIf(c, o), S)
  <2>1. PICK x : x = [Inst("SETCC", o, NoOpnd) EXCEPT !.code = c]
    OBVIOUS
  <2>2. x.src = o /\ x.dst = NoOpnd
    BY <2>1 DEF Inst
  <2> QED BY <1>0, <1>6, <2>1, <2>2, SingleOwned DEF SetIf
<1> QED BY <1>1, <1>2, <1>3, <1>4, <1>5, <1>6

\* One list of instructions behind another that has other objects.
LEMMA ConcatOwned ==
    ASSUME NEW p, NEW q, NEW S, NEW T, NEW U, Owned(p, S), Owned(q, T),
           S \cap T = {}, S \subseteq U, T \subseteq U
    PROVE  Owned(p \o q, U)
<1>1. PICK A, B : p \in Seq(A) /\ q \in Seq(B)
  BY DEF Owned, IsList
<1>2. PICK C : C = A \cup B
  OBVIOUS
<1>3. p \in Seq(C) /\ q \in Seq(C)
  BY <1>1, <1>2
<1>4. PICK r : r = p \o q
  OBVIOUS
<1>5. /\ r \in Seq(C) /\ Len(r) = Len(p) + Len(q) /\ Len(p) \in Nat /\ Len(q) \in Nat
      /\ \A j \in 1..Len(r) : r[j] = IF j <= Len(p) THEN p[j] ELSE q[j - Len(p)]
  BY <1>3, <1>4
<1>6. \A j \in 1..Len(r) :
         \/ j \in 1..Len(p) /\ r[j] = p[j]
         \/ j - Len(p) \in 1..Len(q) /\ r[j] = q[j - Len(p)]
  BY <1>5
<1>7. ASSUME NEW j \in 1..Len(r), NEW f \in Sides, r[j][f].kind # "none"
      PROVE  r[j][f].obj \in U
  <2>1. CASE j \in 1..Len(p) /\ r[j] = p[j]
    BY <1>7, <2>1 DEF Owned
  <2>2. CASE j - Len(p) \in 1..Len(q) /\ r[j] = q[j - Len(p)]
    BY <1>7, <2>2 DEF Owned
  <2> QED BY <1>6, <2>1, <2>2
<1>8. ASSUME NEW j \in 1..Len(r), NEW k \in 1..Len(r), NEW f \in Sides, NEW g \in Sides,
             r[j][f].kind # "none", r[k][g].kind # "none", r[j][f].obj = r[k][g].obj
      PROVE  j = k /\ f = g
  <2>1. CASE j \in 1..Len(p) /\ r[j] = p[j] /\ k \in 1..Len(p) /\ r[k] = p[k]
    BY <1>8, <2>1 DEF Owned
  <2>2. CASE /\ j - Len(p) \in 1..Len(q) /\ r[j] = q[j - Len(p)]
             /\ k - Len(p) \in 1..Len(q) /\ r[k] = q[k - Len(p)]
    <3>1. j - Len(p) = k - Len(p) /\ f = g
      BY <1>8, <2>2, SMTT(40) DEF Owned
    <3> QED BY <1>5, <3>1
  <2>3. CASE j \in 1..Len(p) /\ r[j] = p[j] /\ k - Len(p) \in 1..Len(q) /\ r[k] = q[k - Len(p)]
    <3>1. r[j][f].obj \in S /\ r[k][g].obj \in T
      BY <1>8, <2>3 DEF Owned
    <3> QED BY <1>8, <3>1
  <2>4. CASE k \in 1..Len(p) /\ r[k] = p[k] /\ j - Len(p) \in 1..Len(q) /\ r[j] = q[j - Len(p)]
    <3>1. r[k][g].obj \in S /\ r[j][f].obj \in T
      BY <1>8, <2>4, SMTT(40) DEF Owned
    <3> QED BY <1>8, <3>1
  <2> QED BY <1>6, <2>1, <2>2, <2>3, <2>4
<1>9. IsList(r)
  BY <1>5 DEF IsList
<1> QED BY <1>4, <1>7, <1>8, <1>9 DEF Owned

\* A larger set of objects holds them as well.
LEMMA OwnedWider ==
    ASSUME NEW q, NEW S, NEW T, Owned(q, S), S \subseteq T
    PROVE  Owned(q, T)
BY DEF Owned

\* A move makes no object but the two registers, and none unless both sides are slots.
LEMMA MovOwned ==
    ASSUME NEW s, NEW d, NEW t, NEW S, s.obj # d.obj, s.obj \in S, d.obj \in S,
           s.kind # "stack" \/ d.kind # "stack"
             \/ /\ halves[t][1] \in S \ {s.obj, d.obj} /\ halves[t][2] \in S \ {s.obj, d.obj}
                /\ halves[t][1] # halves[t][2]
    PROVE  Owned(insert_mov(s, d, t), S)
<1>1. CASE IsStack(s) /\ IsStack(d)
  <2>1. PICK a, b : /\ a = create_register("R10", halves[t][1])
                    /\ b = create_register("R10", halves[t][2])
    OBVIOUS
  <2>2. a.obj = halves[t][1] /\ b.obj = halves[t][2]
    BY <2>1, OperandObjects
  <2>3. /\ a.obj \in S /\ b.obj \in S /\ a.obj # b.obj
        /\ a.obj \notin {s.obj, d.obj} /\ b.obj \notin {s.obj, d.obj}
    BY <1>1, <2>2 DEF IsStack
  <2>4. PICK x, y : x = Inst("MOV", s, a) /\ y = Inst("MOV", b, d)
    OBVIOUS
  <2>5. x.src = s /\ x.dst = a /\ y.src = b /\ y.dst = d
    BY <2>4 DEF Inst
  <2>6. PICK q : q = <<x, y>>
    OBVIOUS
  <2>7. q \in Seq({x, y}) /\ Len(q) = 2 /\ q[1] = x /\ q[2] = y
    BY <2>6
  <2>8. \A j \in 1..Len(q) : (j = 1 /\ q[j] = x) \/ (j = 2 /\ q[j] = y)
    BY <2>7
  <2>9. \A f \in Sides : x[f].obj \in S /\ y[f].obj \in S
    BY <2>3, <2>5 DEF Sides
  <2>10. \A f, g \in Sides : x[f].obj # y[g].obj
    BY <2>3, <2>5 DEF Sides
  <2>11. \A f, g \in Sides : x[f].obj = x[g].obj \/ y[f].obj = y[g].obj => f = g
    BY <2>3, <2>5 DEF Sides
  <2>12. IsList(q)
    BY <2>7 DEF IsList
  <2>13. Owned(q, S)
    BY <2>8, <2>9, <2>10, <2>11, <2>12 DEF Owned
  <2> QED BY <1>1, <2>1, <2>4, <2>6, <2>13 DEF insert_mov
<1>2. CASE ~(IsStack(s) /\ IsStack(d))
  <2>1. Owned(<<Inst("MOV", s, d)>>, S)
    BY InstOwned
  <2> QED BY <1>2, <2>1 DEF insert_mov
<1> QED BY <1>1, <1>2

\* The names of the registers between two slots.
LEMMA HalfNames ==
    /\ halves["m"][1] = "m1" /\ halves["m"][2] = "m2"
    /\ halves["n"][1] = "n1" /\ halves["n"][2] = "n2"
    /\ halves["o"][1] = "o1" /\ halves["o"][2] = "o2"
BY DEF halves

\* A comparison makes up to four registers.
LEMMA CmpOwned ==
    ASSUME NEW s, NEW d, NEW S, s.obj # d.obj, {s.obj, d.obj, "c1", "c2", "c3", "c4"} \subseteq S,
           s.obj \notin {"c1", "c2", "c3", "c4"}, d.obj \notin {"c1", "c2", "c3", "c4"}
    PROVE  Owned(insert_cmp(s, d), S)
<1>1. PICK r1, r2, r3, r4 :
         /\ r1 = create_register("R10", "c1") /\ r2 = create_register("R10", "c2")
         /\ r3 = create_register("R11", "c3") /\ r4 = create_register("R11", "c4")
  OBVIOUS
<1>2. /\ r1.obj = "c1" /\ r1.kind = "reg" /\ r2.obj = "c2"
      /\ r3.obj = "c3" /\ r3.kind = "reg" /\ r4.obj = "c4"
  BY <1>1, OperandObjects
<1>3. PICK p, q : p = insert_mov(s, r1, "n") /\ q = insert_mov(d, r3, "o")
  OBVIOUS
<1>4. Owned(p, {s.obj, "c1"}) /\ Owned(q, {d.obj, "c3"})
  BY <1>2, <1>3, MovOwned
<1>5. PICK x, y, z : /\ x = <<Inst("CMP", r2, d)>> /\ y = <<Inst("CMP", s, r4)>>
                     /\ z = <<Inst("CMP", s, d)>>
  OBVIOUS
<1>6. Owned(x, {d.obj, "c2"}) /\ Owned(y, {s.obj, "c4"}) /\ Owned(z, {s.obj, d.obj})
  BY <1>2, <1>5, InstOwned
<1>7. PICK e : e = <<>>
  OBVIOUS
<1>8. Owned(e, {})
  BY <1>7, BareOwned
<1>9. CASE IsStack(s) /\ IsStack(d)
  <2>1. ~IsImm(d)
    BY <1>9 DEF IsStack, IsImm
  <2>2. insert_cmp(s, d) = p \o e \o x
    BY <1>1, <1>3, <1>5, <1>7, <1>9, <2>1 DEF insert_cmp
  <2>3. Owned(p \o e, {s.obj, "c1"})
    BY <1>4, <1>8, ConcatOwned
  <2>4. {s.obj, "c1"} \cap {d.obj, "c2"} = {}
    OBVIOUS
  <2>5. Owned(p \o e \o x, S)
    BY <1>6, <2>3, <2>4, ConcatOwned
  <2> QED BY <2>2, <2>5
<1>10. CASE ~(IsStack(s) /\ IsStack(d)) /\ IsImm(d)
  <2>1. insert_cmp(s, d) = e \o q \o y
    BY <1>1, <1>3, <1>5, <1>7, <1>10 DEF insert_cmp
  <2>2. Owned(e \o q, {d.obj, "c3"})
    BY <1>4, <1>8, ConcatOwned
  <2>3. {d.obj, "c3"} \cap {s.obj, "c4"} = {}
    OBVIOUS
  <2>4. Owned(e \o q \o y, S)
    BY <1>6, <2>2, <2>3, ConcatOwned
  <2> QED BY <2>1, <2>4
<1>11. CASE ~(IsStack(s) /\ IsStack(d)) /\ ~IsImm(d)
  <2>1. insert_cmp(s, d) = e \o e \o z
    BY <1>5, <1>7, <1>11 DEF insert_cmp
  <2>2. Owned(e \o e, {})
    BY <1>8, ConcatOwned
  <2>3. Owned(e \o e \o z, S)
    BY <1>6, <2>2, ConcatOwned
  <2> QED BY <2>1, <2>3
<1> QED BY <1>9, <1>10, <1>11

\* A comparison whose result is stored.
LEMMA RelationalOwned ==
    ASSUME NEW c, NEW l, NEW r, NEW d, IsOpnd(d),
           l.obj = "lhs", r.obj = "rhs", d.obj = "dst"
    PROVE  \E S : Owned(lower_relational(c, l, r, d), S)
<1>1. PICK z, e : z = create_immediate(0, "zero") /\ e = dup_operand(d, "dst2")
  OBVIOUS
<1>2. z.obj = "zero" /\ z.kind = "imm" /\ e.obj = "dst2"
  BY <1>1, OperandObjects
<1>3. PICK x, y, w : x = insert_cmp(r, l) /\ y = insert_mov(z, d, "m") /\ w = SetIf(c, e)
  OBVIOUS
<1>4. Owned(x, {"lhs", "rhs", "c1", "c2", "c3", "c4"})
  BY <1>3, CmpOwned
<1>5. Owned(y, {"zero", "dst"})
  BY <1>2, <1>3, MovOwned
<1>6. Owned(w, {"dst2"})
  BY <1>2, <1>3, BareOwned
<1>7. Owned(x \o y, {"lhs", "rhs", "c1", "c2", "c3", "c4", "zero", "dst"})
  BY <1>4, <1>5, ConcatOwned
<1>8. Owned(x \o y \o w, {"lhs", "rhs", "c1", "c2", "c3", "c4", "zero", "dst", "dst2"})
  BY <1>6, <1>7, ConcatOwned
<1> QED BY <1>1, <1>3, <1>8 DEF lower_relational

\* The left operand is moved to the destination, by one of two registers if it must.
LEMMA LeftMoved ==
    ASSUME NEW l, NEW d, l.obj = "lhs", d.obj = "dst"
    PROVE  Owned(insert_mov(l, d, "m"), {"lhs", "dst", "m1", "m2"})
BY HalfNames, MovOwned

\* Addition and the like.
LEMMA SimpleOwned ==
    ASSUME NEW t, NEW l, NEW r, NEW d, IsOpnd(d),
           l.obj = "lhs", r.obj = "rhs", d.obj = "dst"
    PROVE  \E S : Owned(lower_simple_binary_inst(t, l, r, d), S)
<1>1. PICK e, r1, r2 : /\ e = dup_operand(d, "dst2")
                       /\ r1 = create_register("R10", "r1") /\ r2 = create_register("R10", "r2")
  OBVIOUS
<1>2. e.obj = "dst2" /\ r1.obj = "r1" /\ r1.kind = "reg" /\ r2.obj = "r2"
  BY <1>1, OperandObjects
<1>3. PICK x, y, z, w : /\ x = insert_mov(l, d, "m") /\ y = insert_mov(r, r1, "n")
                        /\ z = <<Inst(t, r2, e)>> /\ w = <<Inst(t, r, e)>>
  OBVIOUS
<1>4. Owned(y, {"rhs", "r1"})
  BY <1>2, <1>3, MovOwned
<1>5. Owned(z, {"r2", "dst2"}) /\ Owned(w, {"rhs", "dst2"})
  BY <1>2, <1>3, InstOwned
<1>6. Owned(y \o z, {"rhs", "r1", "r2", "dst2"})
  BY <1>4, <1>5, ConcatOwned
<1>7. PICK q : q = IF IsStack(r) /\ IsStack(e) THEN y \o z ELSE w
  OBVIOUS
<1>8. Owned(q, {"rhs", "r1", "r2", "dst2"})
  <2>1. Owned(w, {"rhs", "r1", "r2", "dst2"})
    BY <1>5, OwnedWider
  <2> QED BY <1>6, <1>7, <2>1
<1>9. Owned(x \o q, {"lhs", "dst", "m1", "m2", "rhs", "r1", "r2", "dst2"})
  <2>1. Owned(x, {"lhs", "dst", "m1", "m2"})
    BY <1>3, LeftMoved
  <2> QED BY <1>8, <2>1, ConcatOwned
<1> QED BY <1>1, <1>3, <1>7, <1>9 DEF lower_simple_binary_inst

\* Multiplication, in a register.
LEMMA MulOwned ==
    ASSUME NEW l, NEW r, NEW d, IsOpnd(d),
           l.obj = "lhs", r.obj = "rhs", d.obj = "dst"
    PROVE  \E S : Owned(lower_mul(l, r, d), S)
<1>1. PICK d2, d3, r1, r2, r3 :
         /\ d2 = dup_operand(d, "dst2") /\ d3 = dup_operand(d, "dst3")
         /\ r1 = create_register("R11", "r1") /\ r2 = create_register("R11", "r2")
         /\ r3 = create_register("R11", "r3")
  OBVIOUS
<1>2. /\ d2.obj = "dst2" /\ d3.obj = "dst3" /\ r1.obj = "r1" /\ r1.kind = "reg"
      /\ r2.obj = "r2" /\ r3.obj = "r3" /\ r3.kind = "reg"
  BY <1>1, OperandObjects
<1>3. PICK x, a, b, c, w :
         /\ x = insert_mov(l, d, "m") /\ a = insert_mov(d2, r1, "n") /\ b = <<Inst("MUL", r, r2)>>
         /\ c = insert_mov(r3, d3, "o") /\ w = <<Inst("MUL", r, d2)>>
  OBVIOUS
<1>4. Owned(a, {"dst2", "r1"}) /\ Owned(c, {"r3", "dst3"})
  BY <1>2, <1>3, MovOwned
<1>5. Owned(b, {"rhs", "r2"}) /\ Owned(w, {"rhs", "dst2"})
  BY <1>2, <1>3, InstOwned
<1>6. Owned(a \o b, {"dst2", "r1", "rhs", "r2"})
  BY <1>4, <1>5, ConcatOwned
<1>7. Owned(a \o b \o c, {"dst2", "r1", "rhs", "r2", "r3", "dst3"})
  BY <1>4, <1>6, ConcatOwned
<1>8. PICK q : q = IF IsStack(d) THEN a \o b \o c ELSE w
  OBVIOUS
<1>9. Owned(q, {"dst2", "r1", "rhs", "r2", "r3", "dst3"})
  <2>1. Owned(w, {"dst2", "r1", "rhs", "r2", "r3", "dst3"})
    BY <1>5, OwnedWider
  <2> QED BY <1>7, <1>8, <2>1
<1>10. Owned(x \o q, {"lhs", "dst", "m1", "m2", "dst2", "r1", "rhs", "r2", "r3", "dst3"})
  <2>1. Owned(x, {"lhs", "dst", "m1", "m2"})
    BY <1>3, LeftMoved
  <2> QED BY <1>9, <2>1, ConcatOwned
<1> QED BY <1>1, <1>3, <1>8, <1>10 DEF lower_mul

\* Division, with ax and dx.
LEMMA DivOwned ==
    ASSUME NEW l, NEW r, NEW d, NEW v, l.obj = "lhs", r.obj = "rhs", d.obj = "dst"
    PROVE  \E S : Owned(lower_div(l, r, d, v), S)
<1>1. PICK r1, r2, r3, r4 :
         /\ r1 = create_register("AX", "r1") /\ r2 = create_register("R10", "r2")
         /\ r3 = create_register("R10", "r3")
         /\ r4 = create_register(IF v THEN "DX" ELSE "AX", "r4")
  OBVIOUS
<1>2. /\ r1.obj = "r1" /\ r1.kind = "reg" /\ r2.obj = "r2" /\ r2.kind = "reg"
      /\ r3.obj = "r3" /\ r4.obj = "r4" /\ r4.kind = "reg"
  BY <1>1, OperandObjects
<1>3. PICK a, b, c, e, f :
         /\ a = insert_mov(l, r1, "m") /\ b = insert_mov(r, r2, "n") /\ c = insert_mov(r4, d, "o")
         /\ e = <<Inst("DIV", NoOpnd, r3)>> /\ f = <<Inst("DIV", NoOpnd, r)>>
  OBVIOUS
<1>4. Owned(a, {"lhs", "r1"}) /\ Owned(b, {"rhs", "r2"}) /\ Owned(c, {"r4", "dst"})
  BY <1>2, <1>3, MovOwned
<1>5. Owned(e, {"r3"}) /\ Owned(f, {"rhs"})
  <2>1. NoOpnd.kind = "none"
    BY OperandObjects
  <2> QED BY <1>2, <1>3, <2>1, InstOwned
<1>6. Owned(b \o e, {"rhs", "r2", "r3"})
  BY <1>4, <1>5, ConcatOwned
<1>7. PICK q : q = IF IsImm(r) THEN b \o e ELSE f
  OBVIOUS
<1>8. Owned(q, {"rhs", "r2", "r3"})
  <2>1. Owned(f, {"rhs", "r2", "r3"})
    BY <1>5, OwnedWider
  <2> QED BY <1>6, <1>7, <2>1
<1>9. Owned(a \o Plain("CDQ"), {"lhs", "r1"})
  <2>1. Owned(Plain("CDQ"), {})
    BY BareOwned
  <2> QED BY <1>4, <2>1, ConcatOwned
<1>10. Owned(a \o Plain("CDQ") \o q, {"lhs", "r1", "rhs", "r2", "r3"})
  BY <1>8, <1>9, ConcatOwned
<1>11. Owned(a \o Plain("CDQ") \o q \o c, {"lhs", "r1", "rhs", "r2", "r3", "r4", "dst"})
  BY <1>4, <1>10, ConcatOwned
<1> QED BY <1>1, <1>3, <1>7, <1>11 DEF lower_div

\* A shift, with cl.
LEMMA ShiftOwned ==
    ASSUME NEW t, NEW l, NEW r, NEW d, IsOpnd(d),
           l.obj = "lhs", r.obj = "rhs", d.obj = "dst"
    PROVE  \E S : Owned(lower_bit_shift(t, l, r, d), S)
<1>1. PICK r1, r2, e : /\ r1 = [create_register("CX", "r1") EXCEPT !.size = 8]
                       /\ r2 = [create_register("CX", "r2") EXCEPT !.size = 8]
                       /\ e = dup_operand(d, "dst2")
  OBVIOUS
<1>2. r1.obj = "r1" /\ r1.kind = "reg" /\ r2.obj = "r2"
  <2>1. /\ r1 = [kind |-> "reg", val |-> "CX", size |-> 8, obj |-> "r1"]
        /\ r2 = [kind |-> "reg", val |-> "CX", size |-> 8, obj |-> "r2"]
    BY <1>1 DEF create_register, Opnd
  <2> QED BY <2>1
<1>3. e.obj = "dst2"
  BY <1>1, OperandObjects
<1>4. PICK x, a, b, c : /\ x = insert_mov(l, d, "m") /\ a = insert_mov(r, r1, "n")
                        /\ b = <<Inst(t, r2, e)>> /\ c = <<Inst(t, r, e)>>
  OBVIOUS
<1>5. Owned(a, {"rhs", "r1"})
  BY <1>2, <1>4, MovOwned
<1>6. Owned(b, {"r2", "dst2"}) /\ Owned(c, {"rhs", "dst2"})
  BY <1>2, <1>3, <1>4, InstOwned
<1>7. Owned(a \o b, {"rhs", "r1", "r2", "dst2"})
  BY <1>5, <1>6, ConcatOwned
<1>8. PICK q : q = IF ~IsImm(r) THEN a \o b ELSE c
  OBVIOUS
<1>9. Owned(q, {"rhs", "r1", "r2", "dst2"})
  <2>1. Owned(c, {"rhs", "r1", "r2", "dst2"})
    BY <1>6, OwnedWider
  <2> QED BY <1>7, <1>8, <2>1
<1>10. Owned(x \o q, {"lhs", "dst", "m1", "m2", "rhs", "r1", "r2", "dst2"})
  <2>1. Owned(x, {"lhs", "dst", "m1", "m2"})
    BY <1>4, LeftMoved
  <2> QED BY <1>9, <2>1, ConcatOwned
<1> QED BY <1>1, <1>4, <1>8, <1>10 DEF lower_bit_shift

\* A unary operator; logical negation compares a copy of the operand with zero.
LEMMA UnaryOwned ==
    ASSUME NEW o \in UnaryOps, NEW s, NEW d, IsOpnd(s), IsOpnd(d), s.obj = "lhs", d.obj = "dst"
    PROVE  \E S : Owned(lower_ir_unary(o, s, d), S)
<1>1. PICK m, e, f : /\ m = insert_mov(s, d, "m") /\ e = dup_operand(d, "dst2")
                     /\ f = dup_operand(s, "src2")
  OBVIOUS
<1>2. IsOpnd(e) /\ e.obj = "dst2" /\ f.obj = "src2"
  BY <1>1, OperandObjects
<1>3. Owned(m, {"lhs", "dst", "m1", "m2"})
  BY <1>1, LeftMoved
<1>4. NoOpnd.kind = "none"
  BY OperandObjects
<1>5. CASE o \in {"NEG", "BITNOT"}
  <2>1. PICK q : q = IF o = "NEG" THEN <<Inst("NEG", NoOpnd, e)>> ELSE <<Inst("NOT", NoOpnd, e)>>
    OBVIOUS
  <2>2. lower_ir_unary(o, s, d) = m \o q
    BY <1>1, <1>5, <2>1 DEF lower_ir_unary
  <2>3. Owned(q, {"dst2"})
    BY <1>2, <1>4, <2>1, InstOwned
  <2>4. Owned(m \o q, {"lhs", "dst", "m1", "m2", "dst2"})
    BY <1>3, <2>3, ConcatOwned
  <2> QED BY <2>2, <2>4
<1>6. CASE o = "NOT"
  <2>1. PICK z1, z2, g : /\ z1 = create_immediate(0, "zero1") /\ z2 = create_immediate(0, "zero2")
                         /\ g = dup_operand(e, "dst3")
    OBVIOUS
  <2>2. z1.obj = "zero1" /\ z2.obj = "zero2" /\ z2.kind = "imm" /\ g.obj = "dst3"
    BY <1>2, <2>1, OperandObjects
  <2>3. PICK x, y, w : x = insert_cmp(z1, f) /\ y = insert_mov(z2, e, "n") /\ w = SetIf("EQ", g)
    OBVIOUS
  <2>4. Owned(x, {"zero1", "src2", "c1", "c2", "c3", "c4"})
    BY <1>2, <2>2, <2>3, CmpOwned
  <2>5. Owned(y, {"zero2", "dst2"})
    BY <1>2, <2>2, <2>3, MovOwned
  <2>6. Owned(w, {"dst3"})
    BY <2>2, <2>3, BareOwned
  <2>7. Owned(x \o y, {"zero1", "src2", "c1", "c2", "c3", "c4", "zero2", "dst2"})
    BY <2>4, <2>5, ConcatOwned
  <2>8. Owned(x \o y \o w, {"zero1", "src2", "c1", "c2", "c3", "c4", "zero2", "dst2", "dst3"})
    BY <2>6, <2>7, ConcatOwned
  <2>9. PICK q : q = x \o y \o w
    OBVIOUS
  <2>10. lower_ir_unary(o, s, d) = m \o q
    <3>1. lower_logical_not(f, e) = q
      BY <2>1, <2>3, <2>9 DEF lower_logical_not
    <3> QED BY <1>1, <1>6, <3>1 DEF lower_ir_unary
  <2>11. Owned(m \o q, {"lhs", "dst", "m1", "m2", "zero1", "src2", "c1", "c2", "c3", "c4",
                        "zero2", "dst2", "dst3"})
    BY <1>3, <2>8, <2>9, ConcatOwned
  <2> QED BY <2>10, <2>11
<1> QED BY <1>5, <1>6 DEF UnaryOps

\* A binary operator.
LEMMA BinaryOwned ==
    ASSUME NEW o \in BinaryOps, NEW l, NEW r, NEW d, IsOpnd(d),
           l.obj = "lhs", r.obj = "rhs", d.obj = "dst"
    PROVE  \E S : Owned(lower_ir_binary(o, l, r, d), S)
<1>1. DOMAIN SimpleOps = {"ADD", "SUB", "BITAND", "BITXOR", "BITOR"}
  BY DEF SimpleOps
<1>2. PICK T : T = DOMAIN SimpleOps
  OBVIOUS
<1>3. CASE o \in T
  <2>1. lower_ir_binary(o, l, r, d) = lower_simple_binary_inst(SimpleOps[o], l, r, d)
    BY <1>1, <1>2, <1>3 DEF lower_ir_binary, Relations
  <2> QED BY <2>1, SimpleOwned
<1>4. CASE o = "MUL"
  <2>1. lower_ir_binary(o, l, r, d) = lower_mul(l, r, d)
    BY <1>1, <1>4 DEF lower_ir_binary, Relations
  <2> QED BY <2>1, MulOwned
<1>5. CASE o \in {"DIV", "MOD"}
  <2>1. lower_ir_binary(o, l, r, d) = lower_div(l, r, d, o = "MOD")
    BY <1>1, <1>5 DEF lower_ir_binary, Relations
  <2> QED BY <2>1, DivOwned
<1>6. CASE o \in {"SHL", "SHR"}
  <2>1. lower_ir_binary(o, l, r, d) = lower_bit_shift(o, l, r, d)
    BY <1>1, <1>6 DEF lower_ir_binary, Relations
  <2> QED BY <2>1, ShiftOwned
<1>7. CASE o \in Relations
  <2>1. lower_ir_binary(o, l, r, d) = lower_relational(o, l, r, d)
    BY <1>1, <1>7 DEF lower_ir_binary, Relations
  <2> QED BY <2>1, RelationalOwned
<1> QED BY <1>2, <1>3, <1>4, <1>5, <1>6, <1>7 DEF BinaryOps

\* Each operand of an IR instruction gets an object of its own.
LEMMA ValueObject ==
    ASSUME NEW s, NEW v, NEW o, NEW x, x = lower_ir_val(v, s, o)
    PROVE  IsOpnd(x) /\ x.obj = o
<1>1. CASE vals[v].is_constant
  <2>1. x = create_immediate(vals[v].val, o)
    BY <1>1 DEF lower_ir_val
  <2> QED BY <2>1, OperandObjects
<1>2. CASE ~vals[v].is_constant
  <2>1. PICK n : n = -(SlotBytes * slot_of(s, vals[v].val))
    OBVIOUS
  <2>2. x = Opnd("stack", n, 32, o)
    BY <1>2, <2>1 DEF lower_ir_val
  <2> QED BY <2>2 DEF Opnd, IsOpnd
<1> QED BY <1>1, <1>2

\* What an instruction is lowered to shares no operand.
LEMMA InstructionOwned ==
    ASSUME NEW x, Whole(x), ~Unimplemented(x), NEW s
    PROVE  \E S : Owned(lower_ir_instruction(x, s), S)
<1>1. PICK l, r, d : /\ l = lower_ir_val(x.lhs, s, "lhs") /\ r = lower_ir_val(x.rhs, s, "rhs")
                     /\ d = lower_ir_val(x.dst, s, "dst")
  OBVIOUS
<1>2. /\ IsOpnd(l) /\ l.obj = "lhs" /\ IsOpnd(r) /\ r.obj = "rhs"
      /\ IsOpnd(d) /\ d.obj = "dst"
  BY <1>1, ValueObject
<1>3. PICK y : y = lower_ir_instruction(x, s)
  OBVIOUS
<1>4. CASE x.type = "RETURN"
  <2>1. PICK ax : ax = create_register("AX", "r1")
    OBVIOUS
  <2>2. ax.kind = "reg" /\ ax.obj = "r1"
    BY <2>1, OperandObjects
  <2>3. Owned(insert_mov(l, ax, "m"), {"lhs", "r1"})
    BY <1>2, <2>2, MovOwned
  <2>4. Owned(Plain("RETURN"), {})
    BY BareOwned
  <2>5. y = insert_mov(l, ax, "m") \o Plain("RETURN")
    BY <1>1, <1>3, <1>4, <2>1 DEF lower_ir_instruction, lower_ir_return
  <2>6. Owned(insert_mov(l, ax, "m") \o Plain("RETURN"), {"lhs", "r1"})
    BY <2>3, <2>4, ConcatOwned
  <2> QED BY <1>3, <2>5, <2>6
<1>5. CASE x.type = "UNARY"
  <2>1. y = lower_ir_unary(x.op, l, d)
    BY <1>1, <1>3, <1>5 DEF lower_ir_instruction
  <2>2. x.op \in UnaryOps
    BY <1>5 DEF Unimplemented
  <2> QED BY <1>2, <1>3, <2>1, <2>2, UnaryOwned
<1>6. CASE x.type = "BINARY"
  <2>1. y = lower_ir_binary(x.op, l, r, d)
    BY <1>1, <1>3, <1>6 DEF lower_ir_instruction
  <2>2. x.op \in BinaryOps
    BY <1>6 DEF Unimplemented
  <2> QED BY <1>2, <1>3, <2>1, <2>2, BinaryOwned
<1>7. CASE x.type = "JMP"
  <2>1. y = JumpTo(x.label)
    BY <1>3, <1>7 DEF lower_ir_instruction
  <2> QED BY <1>3, <2>1, BareOwned
<1>8. CASE x.type \in {"JZ", "JNZ"}
  <2>1. PICK c, z : c = (IF x.type = "JZ" THEN "EQ" ELSE "NE") /\ z = create_immediate(0, "zero")
    OBVIOUS
  <2>2. z.obj = "zero"
    BY <2>1, OperandObjects
  <2>3. Owned(insert_cmp(z, l), {"zero", "lhs", "c1", "c2", "c3", "c4"})
    BY <1>2, <2>2, CmpOwned
  <2>4. Owned(JumpIf(c, x.label), {})
    BY BareOwned
  <2>5. y = insert_cmp(z, l) \o JumpIf(c, x.label)
    BY <1>1, <1>3, <1>8, <2>1 DEF lower_ir_instruction, lower_cond_jump
  <2>6. Owned(insert_cmp(z, l) \o JumpIf(c, x.label), {"zero", "lhs", "c1", "c2", "c3", "c4"})
    BY <2>3, <2>4, ConcatOwned
  <2> QED BY <1>3, <2>5, <2>6
<1>9. CASE x.type = "COPY"
  <2>1. y = insert_mov(l, d, "m")
    BY <1>1, <1>3, <1>9 DEF lower_ir_instruction
  <2> QED BY <1>2, <1>3, <2>1, LeftMoved
<1>10. CASE x.type = "LABEL"
  <2>1. y = LabelAt(x.label)
    BY <1>3, <1>10 DEF lower_ir_instruction
  <2> QED BY <1>3, <2>1, BareOwned
<1> QED BY <1>4, <1>5, <1>6, <1>7, <1>8, <1>9, <1>10 DEF Whole, Types, Jumps

\* No two of the operands that Operands lists are one object.
LEMMA OwnedOnce ==
    ASSUME NEW q, NEW S, Owned(q, S), NEW p \in Operands(q), NEW r \in Operands(q),
           q[p[1]][p[2]].obj = q[r[1]][r[2]].obj
    PROVE  p = r
<1>1. DOMAIN q = 1..Len(q)
  BY AppendFacts DEF Owned
<1>2. PICK j, f : p = <<j, f>> /\ j \in 1..Len(q) /\ f \in Sides /\ q[j][f].kind # "none"
  BY <1>1 DEF Operands, Sides
<1>3. PICK k, g : r = <<k, g>> /\ k \in 1..Len(q) /\ g \in Sides /\ q[k][g].kind # "none"
  BY <1>1 DEF Operands, Sides
<1>4. q[j][f].obj = q[k][g].obj
  BY <1>2, <1>3
<1>5. j = k /\ f = g
  BY <1>2, <1>3, <1>4 DEF Owned
<1> QED BY <1>2, <1>3, <1>5

\* The next instruction is lowered to operands that are all different objects.
LEMMA NextOwned ==
    ASSUME AllWhole, FrameInv
    PROVE  OperandsOwnedOnce
<1> SUFFICES ASSUME next_ir <= Len(insts), NEW x, x = insts[next_ir], NEW q,
                    q = IF Unimplemented(x) \/ LacksOperand(x) THEN <<>>
                        ELSE lower_ir_instruction(x, SlotsFor(x))
             PROVE  \E S : Owned(q, S)
  <2>1. PICK x : x = insts[next_ir]
    OBVIOUS
  <2>2. PICK q : q = IF Unimplemented(x) \/ LacksOperand(x) THEN <<>>
                     ELSE lower_ir_instruction(x, SlotsFor(x))
    OBVIOUS
  <2>3. \A p, r \in Operands(q) :
           next_ir <= Len(insts) /\ q[p[1]][p[2]].obj = q[r[1]][r[2]].obj => p = r
    BY <2>1, <2>2, OwnedOnce
  <2> QED BY <2>1, <2>2, <2>3 DEF OperandsOwnedOnce
<1>1. CASE Unimplemented(x) \/ LacksOperand(x)
  BY <1>1, BareOwned
<1>2. CASE ~(Unimplemented(x) \/ LacksOperand(x))
  <2>1. next_ir \in 1..Len(insts)
    BY DEF FrameInv
  <2>2. Whole(x)
    BY <2>1 DEF AllWhole
  <2> QED BY <1>2, <2>2, InstructionOwned
<1> QED BY <1>1, <1>2

\* However an instruction is lowered, each operand object belongs to one instruction, once:
\* destroy_asm_instruction, which frees both operands, frees none twice.
THEOREM ObjectsOwnedOnce == TranslateSpec => []OperandsOwnedOnce
<1>1. AllWhole /\ FrameInv => OperandsOwnedOnce
  BY NextOwned
<1> QED BY <1>1, FrameInvariant, PTL

-----------------------------------------------------------------------------
(* The expressions that an expression is made of.                          *)

\* A set of naturals that is not empty has a least element.
LEMMA LeastElement ==
    ASSUME NEW T \in SUBSET Nat, T # {}
    PROVE  \E m \in T : \A k \in T : m <= k
<1>1. IsWellFoundedOn({ss \in Nat \X Nat : ss[1] < ss[2]}, Nat)
  BY NatLessThanWellFounded DEF OpToRel
<1>2. PICK m \in T : \A y \in T : ~(<<y, m>> \in {ss \in Nat \X Nat : ss[1] < ss[2]})
  BY <1>1, WFMin
<1>3. ASSUME NEW k \in T PROVE m <= k
  <2>1. PICK z \in Nat \X Nat : z = <<k, m>>
    OBVIOUS
  <2>2. z[1] = k /\ z[2] = m
    BY <2>1
  <2>3. ~(z[1] < z[2])
    BY <1>2, <2>1
  <2> QED BY <2>2, <2>3
<1> QED BY <1>3

\* What holds first and is passed on holds throughout.
LEMMA PassedOn ==
    ASSUME NEW p \in Nat, NEW q \in Nat, NEW G, p \in G,
           \A k \in p..q : k \in G /\ k < q => k + 1 \in G
    PROVE  \A k \in p..q : k \in G
<1> PICK T : T = {k \in p..q : k \notin G}
  OBVIOUS
<1> SUFFICES ASSUME T # {} PROVE FALSE
  OBVIOUS
<1>1. T \in SUBSET Nat
  OBVIOUS
<1>2. PICK m \in T : \A k \in T : m <= k
  BY <1>1, LeastElement
<1>3. m \in p..q /\ m \notin G /\ m # p
  OBVIOUS
<1>4. m - 1 \in p..q /\ m - 1 < q /\ ~ (m <= m - 1)
  BY <1>3
<1>5. m - 1 \in G
  BY <1>2, <1>4
<1>6. (m - 1) + 1 \in G /\ (m - 1) + 1 = m
  BY <1>3, <1>4, <1>5
<1> QED BY <1>3, <1>6

\* The layers of an expression down to the n-th.
Layers(f, e, n) ==
    f = [k \in 0..n |-> IF k = 0 THEN {e} \ {NoExpr} ELSE UNION {Below(x) : x \in f[k - 1]}]

\* There are layers, however many are asked for.
LEMMA LayersExist ==
    ASSUME NEW e, NEW n \in Nat
    PROVE  \E f : Layers(f, e, n)
<1>0. PICK G : G = {m \in 0..n : \E f : Layers(f, e, m)}
  OBVIOUS
<1>1. 0 \in G
  <2>1. PICK f : f = [k \in 0..0 |-> {e} \ {NoExpr}]
    OBVIOUS
  <2>2. f = [k \in 0..0 |-> IF k = 0 THEN {e} \ {NoExpr} ELSE UNION {Below(x) : x \in f[k - 1]}]
    BY <2>1
  <2> QED BY <1>0, <2>2 DEF Layers
<1>2. ASSUME NEW m \in 0..n, m \in G, m < n PROVE m + 1 \in G
  <2>1. PICK f : Layers(f, e, m)
    BY <1>0, <1>2
  <2>2. PICK u : u = UNION {Below(x) : x \in f[m]}
    OBVIOUS
  <2>3. PICK g : g = [k \in 0..(m + 1) |-> IF k = m + 1 THEN u ELSE f[k]]
    OBVIOUS
  <2>4. g[m + 1] = u /\ \A k \in 0..m : g[k] = f[k]
    BY <2>3
  <2>5. ASSUME NEW k \in 0..(m + 1)
        PROVE  g[k] = IF k = 0 THEN {e} \ {NoExpr} ELSE UNION {Below(x) : x \in g[k - 1]}
    <3>1. CASE k = m + 1
      <4>1. g[k - 1] = f[m] /\ k # 0
        BY <2>4, <3>1
      <4> QED BY <2>2, <2>4, <3>1, <4>1
    <3>2. CASE k = 0
      <4>1. k \in 0..m
        BY <3>2
      <4>2. f[k] = {e} \ {NoExpr}
        BY <2>1, <3>2, <4>1 DEF Layers
      <4> QED BY <2>4, <3>2, <4>1, <4>2
    <3>3. CASE k # m + 1 /\ k # 0
      <4>1. k \in 0..m /\ k - 1 \in 0..m
        BY <3>3
      <4>2. f[k] = UNION {Below(x) : x \in f[k - 1]}
        BY <2>1, <3>3, <4>1 DEF Layers
      <4> QED BY <2>4, <3>3, <4>1, <4>2
    <3> QED BY <3>1, <3>2, <3>3
  <2>6. g = [k \in 0..(m + 1) |->
               IF k = 0 THEN {e} \ {NoExpr} ELSE UNION {Below(x) : x \in g[k - 1]}]
    BY <2>3, <2>5
  <2> QED BY <1>0, <1>2, <2>6 DEF Layers
<1>3. \A m \in 0..n : m \in G
  BY <1>1, <1>2, PassedOn
<1> QED BY <1>0, <1>3

\* Levels gives the layers, one further than the depth.
LEMMA LevelsExist ==
    ASSUME NEW e
    PROVE  /\ Depth \in Nat
           /\ Levels(e)[0] = {e} \ {NoExpr}
           /\ \A n \in 0..Depth : Levels(e)[n + 1] = UNION {Below(x) : x \in Levels(e)[n]}
<1>1. Depth \in Nat
  BY DepthAssumption
<1>2. PICK h : h = CHOOSE f : Layers(f, e, Depth + 1)
  OBVIOUS
<1>3. Layers(h, e, Depth + 1)
  BY <1>1, <1>2, LayersExist
<1>4. Levels(e) = h
  BY <1>2 DEF Levels, Layers
<1>5. h[0] = {e} \ {NoExpr}
  <2>1. 0 \in 0..(Depth + 1)
    BY <1>1
  <2> QED BY <1>3, <2>1 DEF Layers
<1>6. ASSUME NEW n \in 0..Depth PROVE h[n + 1] = UNION {Below(x) : x \in h[n]}
  <2>1. n + 1 \in 0..(Depth + 1) /\ n + 1 # 0 /\ (n + 1) - 1 = n
    BY <1>1
  <2> QED BY <1>3, <2>1 DEF Layers
<1> QED BY <1>1, <1>4, <1>5, <1>6

\* An expression is one of those that it is made of.
LEMMA SubtermItself ==
    ASSUME NEW e, e # NoExpr
    PROVE  e \in Subterms(e)
<1>1. 0 \in 0..Depth /\ Levels(e)[0] = {e}
  BY LevelsExist
<1> QED BY <1>1 DEF Subterms

\* The root of the compiled expression, if there is one.
Root == IF body = <<>> THEN NoExpr ELSE Source

\* The operands of what the compiled expression is made of are too.
LEMMA SubtermsClosed ==
    ASSUME body \in Bodies, NEW x \in Subterms(Root), Root # NoExpr, x.op # "NONE"
    PROVE  /\ x.lhs = NoExpr \/ x.lhs \in Subterms(Root)
           /\ x.rhs = NoExpr \/ x.rhs \in Subterms(Root)
<1>1. body # <<>> /\ Root = Source
  BY DEF Root
<1>2. Below(x) \subseteq Subterms(Source)
  <2>1. PICK h : h = Levels(Source)
    OBVIOUS
  <2>2. Depth \in Nat /\ h[Depth + 1] = {}
    BY <1>1, <2>1, DepthAssumption DEF Source
  <2>3. Subterms(Source) = UNION {h[n] : n \in 0..Depth}
    BY <2>1 DEF Subterms
  <2>4. PICK n \in 0..Depth : x \in h[n]
    BY <1>1, <2>3
  <2>5. h[n + 1] = UNION {Below(y) : y \in h[n]}
    BY <2>1, LevelsExist
  <2>6. Below(x) \subseteq h[n + 1]
    BY <2>4, <2>5
  <2>7. CASE n = Depth
    BY <2>2, <2>6, <2>7
  <2>8. CASE n # Depth
    <3>1. n + 1 \in 0..Depth
      BY <2>2, <2>8
    <3> QED BY <2>3, <2>6, <3>1
  <2> QED BY <2>7, <2>8
<1>3. Below(x) = {x.lhs, x.rhs} \ {NoExpr}
  BY DEF Below
<1> QED BY <1>1, <1>2, <1>3

-----------------------------------------------------------------------------
(* emit_ir walks the compiled expression: each frame is of the operand     *)
(* that its caller has come to.                                            *)

Childless == {"NONE", "VAR", "CONST"}

\* The operand that a frame has come to.
Side(x) == IF x.at = "lhs" THEN x.e.lhs ELSE x.e.rhs

\* What the k-th of the frames q is of, r being the root.
At(r, q, k) == IF k = 1 THEN r ELSE Side(q[k - 1])

\* Frames that are of the operands their callers have come to.
Placed(r, q, k) == q[k].e = At(r, q, k) /\ q[k].e \in Subterms(r) /\ q[k].e.op \notin Childless
Walked(r, q) == \A k \in 1..Len(q) : Placed(r, q, k)

Current == At(Root, frames, Len(frames) + 1)

Tree ==
    /\ body \in Bodies
    /\ Walked(Root, frames)
    /\ ipc = "call" => arg = Current
    /\ ipc = "body" => frames = <<>>

\* The root depends on the body only, which stays as it is.
LEMMA RootStays ==
    ASSUME [IrNext]_irVars
    PROVE  body' = body /\ Root' = Root
<1>1. body' = body
  BY DEF irVars, IrNext, EmitStep, DestroyStep, EmitBody, EmitAbsent, EmitVar, EmitConst, EmitOperator,
         EmitRight, EmitOperation, EmitLogical, EmitReturn, DestroyBegins, DestroyInst, DestroyDone
<1> QED BY <1>1 DEF Root, Source

\* What emit_expression is at, or has come from, is a part of the root or is missing.
LEMMA CurrentPart ==
    ASSUME Shape, Tree
    PROVE  Current = NoExpr \/ Current \in Subterms(Root)
<1>1. Len(frames) \in Nat
  BY AppendFacts DEF Shape
<1>2. CASE Len(frames) = 0
  <2>1. Current = Root
    BY <1>2 DEF Current, At
  <2> QED BY <2>1, SubtermItself
<1>3. CASE Len(frames) # 0
  <2>1. PICK n : n = Len(frames)
    OBVIOUS
  <2>2. n \in 1..Len(frames)
    BY <1>1, <1>3, <2>1
  <2>3. PICK x : x = frames[n].e
    OBVIOUS
  <2>4. x \in Subterms(Root) /\ x.op \notin Childless /\ x.op # "NONE"
    BY <2>2, <2>3 DEF Tree, Childless, Walked, Placed
  <2>5. Current = Side(frames[n])
    BY <1>1, <1>3, <2>1 DEF Current, At
  <2>6. Current \in {x.lhs, x.rhs}
    BY <2>3, <2>5 DEF Side
  <2>7. Root # NoExpr
    <3>1. 1 \in 1..Len(frames)
      BY <2>1, <2>2
    <3>2. frames[1].e = Root /\ frames[1].e.op # "NONE"
      BY <3>1 DEF Tree, At, Childless, Walked, Placed
    <3> QED BY <3>2 DEF NoExpr
  <2> QED BY <2>4, <2>6, <2>7, SubtermsClosed DEF Tree
<1> QED BY <1>2, <1>3

\* The same operands are come to, down to the n-th frame.
AtSame(r, p, q, n) == \A k \in 1..n : At(r, p, k) = At(r, q, k)

\* The frames below the top are what they are without it.
LEMMA AtBelow ==
    ASSUME NEW q, IsList(q), NEW x, NEW p, p = Append(q, x), NEW r
    PROVE  AtSame(r, p, q, Len(q) + 1) /\ At(r, p, Len(q) + 2) = Side(x)
<1>1. Len(q) \in Nat
  BY AppendFacts
<1>2. ASSUME NEW k \in 1..(Len(q) + 1) PROVE At(r, p, k) = At(r, q, k)
  <2>1. CASE k = 1
    BY <2>1 DEF At
  <2>2. CASE k # 1
    <3>1. k - 1 \in 1..Len(q)
      BY <1>1, <2>2
    <3>2. p[k - 1] = q[k - 1]
      BY <3>1, AppendFacts
    <3> QED BY <2>2, <3>2 DEF At
  <2> QED BY <2>1, <2>2
<1>3. At(r, p, Len(q) + 2) = Side(x)
  <2>1. Len(q) + 2 # 1 /\ (Len(q) + 2) - 1 = Len(q) + 1
    BY <1>1
  <2>2. p[Len(q) + 1] = x
    BY AppendFacts
  <2> QED BY <2>1, <2>2 DEF At
<1> QED BY <1>2, <1>3 DEF AtSame

\* They stay so with one more.
LEMMA WalkedAppended ==
    ASSUME NEW q, IsList(q), NEW x, NEW p, p = Append(q, x), NEW r
    PROVE  /\ Walked(r, p) => Walked(r, q)
           /\ /\ Walked(r, q)
              /\ x.e = At(r, q, Len(q) + 1) /\ x.e \in Subterms(r) /\ x.e.op \notin Childless
              => Walked(r, p)
<1>1. PICK n : n = Len(q)
  OBVIOUS
<1>2. n \in Nat /\ Len(p) = n + 1 /\ p[n + 1] = x /\ \A j \in 1..n : p[j] = q[j]
  BY <1>1, AppendFacts
<1>3. \A k \in 1..(n + 1) : At(r, p, k) = At(r, q, k)
  <2>1. AtSame(r, p, q, Len(q) + 1)
    BY AtBelow
  <2> QED BY <1>1, <2>1 DEF AtSame
<1>4. ASSUME NEW k \in 1..n PROVE Placed(r, p, k) <=> Placed(r, q, k)
  <2>1. k \in 1..(n + 1)
    BY <1>2
  <2>2. p[k] = q[k] /\ At(r, p, k) = At(r, q, k)
    BY <1>2, <1>3, <2>1
  <2> QED BY <2>2 DEF Placed
<1>5. \A k : k \in 1..Len(p) <=> k \in 1..n \/ k = n + 1
  BY <1>2
<1>6. x.e = At(r, q, n + 1) /\ x.e \in Subterms(r) /\ x.e.op \notin Childless => Placed(r, p, n + 1)
  <2>1. n + 1 \in 1..(n + 1)
    BY <1>2
  <2> QED BY <1>2, <1>3, <2>1 DEF Placed
<1> QED BY <1>1, <1>4, <1>5, <1>6 DEF Walked

\* The frame at the top is of what its caller has come to, and has come to what is current.
LEMMA TopPlaced ==
    ASSUME Shape, frames # <<>>, NEW r, Walked(r, frames)
    PROVE  /\ Walked(r, callers)
           /\ top.e = At(r, callers, Len(callers) + 1)
           /\ top.e \in Subterms(r) /\ top.e.op \notin Childless
           /\ At(r, frames, Len(frames) + 1) = Side(top)
<1>1. /\ IsList(callers) /\ frames = Append(callers, top)
      /\ Len(frames) \in Nat \ {0} /\ Len(callers) = Len(frames) - 1
      /\ top = frames[Len(frames)]
  BY TopFacts DEF Shape
<1>2. PICK q, x : q = callers /\ x = top
  OBVIOUS
<1>3. IsList(q) /\ frames = Append(q, x)
  BY <1>1, <1>2
<1>4. Walked(r, q)
  BY <1>3, WalkedAppended
<1>5. Placed(r, frames, Len(frames))
  BY <1>1 DEF Walked
<1>6. AtSame(r, frames, q, Len(q) + 1) /\ At(r, frames, Len(q) + 2) = Side(x)
  BY <1>3, AtBelow
<1>7. Len(q) + 1 = Len(frames) /\ Len(q) + 2 = Len(frames) + 1 /\ Len(q) + 1 \in 1..(Len(q) + 1)
  BY <1>1, <1>2
<1>8. At(r, frames, Len(frames)) = At(r, q, Len(q) + 1)
  BY <1>6, <1>7 DEF AtSame
<1> QED BY <1>1, <1>2, <1>4, <1>5, <1>6, <1>7, <1>8 DEF Placed

\* Every step goes on along the expression.
LEMMA TreeStep ==
    ASSUME Shape, Tree, [IrNext]_irVars
    PROVE  Tree'
<1>1. body' = body /\ Root' = Root /\ body' \in Bodies
  BY RootStays DEF Tree
<1>2. Current' = At(Root, frames', Len(frames') + 1)
  BY <1>1 DEF Current
<1>3. PICK r : r = Root
  OBVIOUS
<1>4. Walked(r, frames)
  BY <1>3 DEF Tree
<1>5. SUFFICES /\ Walked(r, frames')
               /\ ipc' = "call" => arg' = At(r, frames', Len(frames') + 1)
               /\ ipc' = "body" => frames' = <<>>
  BY <1>1, <1>2, <1>3 DEF Tree
<1>6. CASE EmitBody
  <2>1. frames' = frames /\ frames = <<>> /\ ipc' # "body"
    BY <1>6 DEF EmitBody, Tree
  <2>2. At(r, frames', Len(frames') + 1) = r
    BY <2>1 DEF At
  <2>3. ipc' = "call" => arg' = r
    BY <1>3, <1>6 DEF EmitBody, Root, Source
  <2> QED BY <1>4, <2>1, <2>2, <2>3
<1>7. CASE EmitAbsent \/ DestroyBegins \/ EmitVar \/ EmitConst \/ EmitReturn
  <2>1. frames' = frames /\ ipc' \notin {"call", "body"}
    BY <1>7 DEF EmitAbsent, DestroyBegins, EmitVar, EmitConst, EmitReturn
  <2> QED BY <1>4, <2>1
<1>8. CASE DestroyInst \/ DestroyDone
  <2>1. frames' = frames /\ ipc' \notin {"call", "body"}
    BY <1>8 DEF DestroyInst, DestroyDone
  <2> QED BY <1>4, <2>1
<1>9. CASE UNCHANGED irVars
  <2>1. frames' = frames /\ ipc' = ipc /\ arg' = arg
    BY <1>9 DEF irVars
  <2> QED BY <1>3, <1>4, <2>1 DEF Tree, Current
<1>10. CASE EmitOperator
  <2>1. PICK x : x.at = "lhs" /\ x.e = arg /\ frames' = Append(frames, x)
    BY <1>10, OperatorStep
  <2>2. arg.op \notin Childless /\ arg' = arg.lhs /\ ipc = "call" /\ ipc' = "call"
    BY <1>10, OperatorStep DEF Childless
  <2>3. arg = At(r, frames, Len(frames) + 1)
    BY <1>3, <2>2 DEF Tree, Current
  <2>4. arg \in Subterms(r)
    <3>1. arg # NoExpr
      BY <2>2 DEF NoExpr, Childless
    <3>2. arg = Current
      BY <2>2 DEF Tree
    <3> QED BY <1>3, <3>1, <3>2, CurrentPart
  <2>5. IsList(frames) /\ Len(frames') + 1 = Len(frames) + 2
    <3>1. IsList(frames)
      BY DEF Shape
    <3>2. Len(frames) \in Nat /\ Len(frames') = Len(frames) + 1
      BY <2>1, <3>1, AppendFacts
    <3> QED BY <3>1, <3>2
  <2>6. Walked(r, frames')
    <3>1. /\ frames' = Append(frames, x) /\ x.e = At(r, frames, Len(frames) + 1)
          /\ x.e \in Subterms(r) /\ x.e.op \notin Childless
      BY <2>1, <2>2, <2>3, <2>4
    <3> QED BY <1>4, <2>5, <3>1, WalkedAppended
  <2>7. At(r, frames', Len(frames) + 2) = Side(x)
    BY <2>1, <2>5, AtBelow
  <2>8. Side(x) = arg.lhs
    BY <2>1 DEF Side
  <2> QED BY <2>2, <2>5, <2>6, <2>7, <2>8
<1>11. CASE EmitRight
  <2>1. PICK x : x.at = "rhs" /\ x.e = top.e /\ frames' = Append(callers, x)
    BY <1>11, RightStep
  <2>2. frames # <<>> /\ arg' = top.e.rhs /\ ipc' = "call"
    BY <1>11, RightStep
  <2>3. /\ Walked(r, callers) /\ top.e = At(r, callers, Len(callers) + 1)
        /\ top.e \in Subterms(r) /\ top.e.op \notin Childless
    BY <1>4, <2>2, TopPlaced
  <2>4. PICK q : q = callers
    OBVIOUS
  <2>5. IsList(q) /\ Len(frames') + 1 = Len(q) + 2
    <3>1. IsList(q)
      BY <2>2, <2>4, TopFacts DEF Shape
    <3>2. Len(q) \in Nat /\ Len(frames') = Len(q) + 1
      BY <2>1, <2>4, <3>1, AppendFacts
    <3> QED BY <3>1, <3>2
  <2>6. Walked(r, frames')
    <3>1. /\ frames' = Append(q, x) /\ Walked(r, q) /\ x.e = At(r, q, Len(q) + 1)
          /\ x.e \in Subterms(r) /\ x.e.op \notin Childless
      BY <2>1, <2>3, <2>4
    <3> QED BY <2>5, <3>1, WalkedAppended
  <2>7. At(r, frames', Len(q) + 2) = Side(x)
    <3>1. frames' = Append(q, x)
      BY <2>1, <2>4
    <3> QED BY <2>5, <3>1, AtBelow
  <2>8. Side(x) = top.e.rhs
    BY <2>1 DEF Side
  <2> QED BY <2>2, <2>5, <2>6, <2>7, <2>8
<1>12. CASE EmitOperation \/ EmitLogical
  <2>1. frames # <<>> /\ frames' = callers /\ ipc' = "return"
    BY <1>12, OperationStep, LogicalStep
  <2> QED BY <1>4, <2>1, TopPlaced
<1> QED BY <1>6, <1>7, <1>8, <1>9, <1>10, <1>11, <1>12 DEF IrNext, EmitStep, DestroyStep

\* The walk begins at the root.
LEMMA TreeStarts == IrInit => Tree
<1> SUFFICES ASSUME IrInit PROVE Tree
  OBVIOUS
<1>1. body \in Bodies /\ frames = <<>> /\ ipc = "body" /\ Len(<<>>) = 0
  BY DEF IrInit
<1> QED BY <1>1 DEF Tree, Walked

-----------------------------------------------------------------------------
(* Which operands are constants.                                           *)

Shifts == {"SHL", "SHR"}

\* An instruction's destination is a variable, and the count of a shift is a constant that
\* the assembler takes unless the source has one that is not.
InstKind(x, vs, r) ==
    /\ x.type \in {"UNARY", "BINARY", "COPY"} => x.dst \in 1..Len(vs) /\ ~vs[x.dst].is_constant
    /\ x.type = "BINARY" /\ x.op \in Shifts /\ ~UnfitCount(r) =>
          x.rhs \in 1..Len(vs) /\ vs[x.rhs].is_constant /\ Imm8(vs[x.rhs].val)

AllKind(q, vs, r) == \A j \in 1..Len(q) : InstKind(q[j], vs, r)

Kinds ==
    ipc \in Emitting \cup {"emitted"} =>
       /\ AllKind(insts, vals, Root)
       /\ ipc = "return" /\ Current.op = "CONST" =>
             ret \in 1..Len(vals) /\ vals[ret].is_constant /\ vals[ret].val = Current.val

\* One more value changes no kind.
LEMMA KindWider ==
    ASSUME NEW q, NEW vs, IsList(vs), NEW u, NEW r, AllKind(q, vs, r), NEW ws, ws = Append(vs, u)
    PROVE  AllKind(q, ws, r)
<1>1. \A j \in 1..Len(vs) : j \in 1..Len(ws) /\ ws[j] = vs[j]
  BY AppendFacts
<1> QED BY <1>1 DEF AllKind, InstKind

\* One more instruction.
LEMMA KindAppended ==
    ASSUME NEW q, IsList(q), NEW x, NEW vs, NEW r, AllKind(q, vs, r), InstKind(x, vs, r),
           NEW p, p = Append(q, x)
    PROVE  AllKind(p, vs, r)
<1>1. /\ Len(q) \in Nat /\ Len(p) = Len(q) + 1 /\ p[Len(q) + 1] = x
      /\ \A j \in 1..Len(q) : p[j] = q[j]
  BY AppendFacts
<1>2. \A j \in 1..Len(p) : j \in 1..Len(q) \/ j = Len(q) + 1
  BY <1>1
<1> QED BY <1>1, <1>2 DEF AllKind

\* Instructions that have neither a destination nor a count.
LEMMA KindOfOthers ==
    ASSUME NEW x, x.type \in Jumps \cup {"LABEL", "RETURN"}, NEW vs, NEW r
    PROVE  InstKind(x, vs, r)
BY DEF InstKind, Jumps

\* The operation that is emitted: the count of a shift is the value of the right operand.
LEMMA OperationKinds ==
    ASSUME Shape, Tree, Kinds, EmitOperation
    PROVE  AllKind(insts', vals', Root)
<1>1. PICK y, t : /\ t \in {"UNARY", "BINARY"} /\ (t = "BINARY" <=> ret # 0) /\ y.op = top.e.op
                  /\ Members(y, t, top.lhs, ret, Len(vals) + 1, 0) /\ insts' = Append(insts, y)
  BY OperationStep
<1>2. PICK u : ~u.is_constant /\ vals' = Append(vals, u)
  BY OperationStep
<1>3. frames # <<>> /\ top.at = "rhs" /\ ipc = "return"
  BY OperationStep
<1>4. IsList(insts) /\ IsList(vals)
  BY DEF Shape
<1>5. PICK n, vs, r : n = Len(vals) /\ vs = vals' /\ r = Root
  OBVIOUS
<1>6. n \in Nat /\ Len(vs) = n + 1 /\ vs[n + 1] = u /\ \A j \in 1..n : vs[j] = vals[j]
  BY <1>2, <1>4, <1>5, AppendFacts
<1>7. AllKind(insts, vals, r)
  BY <1>3, <1>5 DEF Kinds, Emitting
<1>8. AllKind(insts, vs, r)
  BY <1>2, <1>4, <1>5, <1>7, KindWider
<1>9. y.type = t /\ y.dst = n + 1 /\ y.rhs = ret
  BY <1>1, <1>5 DEF Members
<1>10. y.dst \in 1..Len(vs) /\ ~vs[y.dst].is_constant
  BY <1>2, <1>6, <1>9
<1>11. ASSUME t = "BINARY", y.op \in Shifts, ~UnfitCount(r)
       PROVE  y.rhs \in 1..Len(vs) /\ vs[y.rhs].is_constant /\ Imm8(vs[y.rhs].val)
  <2>1. /\ Walked(r, frames) /\ top.e \in Subterms(r) /\ Current = Side(top)
    <3>1. Walked(r, frames)
      BY <1>5 DEF Tree
    <3> QED BY <1>3, <1>5, <3>1, TopPlaced DEF Current
  <2>2. Current = top.e.rhs
    BY <1>3, <2>1 DEF Side
  <2>3. top.e.rhs.op = "CONST" /\ Imm8(top.e.rhs.val)
    BY <1>1, <1>11, <2>1 DEF UnfitCount, Shifts
  <2>4. ret \in 1..n /\ vals[ret].is_constant /\ vals[ret].val = top.e.rhs.val
    BY <1>3, <1>5, <2>2, <2>3 DEF Kinds, Emitting
  <2> QED BY <1>6, <1>9, <2>3, <2>4
<1>12. InstKind(y, vs, r)
  BY <1>9, <1>10, <1>11 DEF InstKind
<1> QED BY <1>1, <1>4, <1>5, <1>8, <1>12, KindAppended

\* What && and || emit at their end: the copies go to a variable.
LEMMA LogicalKinds ==
    ASSUME Shape, Kinds, EmitLogical
    PROVE  AllKind(insts', vals', Root)
<1>1. PICK a, b, c, d, e, f, t :
         /\ t \in Jumps
         /\ Members(a, t, ret, 0, 0, top.exit)
         /\ Members(b, "COPY", Len(vals) + 2, 0, Len(vals) + 1, 0)
         /\ Members(c, "JMP", 0, 0, 0, top.end)
         /\ Members(d, "LABEL", 0, 0, 0, top.exit)
         /\ Members(e, "COPY", Len(vals) + 3, 0, Len(vals) + 1, 0)
         /\ Members(f, "LABEL", 0, 0, 0, top.end)
         /\ insts' = Append(Append(Append(Append(Append(Append(insts, a), b), c), d), e), f)
  BY LogicalStep
<1>2. PICK r, n : r = Root /\ n = Len(vals)
  OBVIOUS
<1>3. PICK u, v, w : u = var_val(name_count + 1, 2) /\ v = const_val(through(top.e.op))
                     /\ w = const_val(1 - through(top.e.op))
  OBVIOUS
<1>4. ~u.is_constant
  BY <1>3 DEF var_val
<1>5. IsList(insts) /\ IsList(vals) /\ AllKind(insts, vals, r) /\ n \in Nat
  BY <1>2, AppendFacts DEF Shape, Kinds, Emitting, EmitLogical
<1>6. PICK v1, v2, vs : v1 = Append(vals, u) /\ v2 = Append(v1, v) /\ vs = Append(v2, w)
  OBVIOUS
<1>7. vals' = vs
  <2>1. vals' = vals \o <<u, v, w>>
    BY <1>3 DEF EmitLogical, logical_vals
  <2> QED BY <1>5, <1>6, <2>1, ThreeAppended
<1>8. /\ IsList(v1) /\ Len(v1) = n + 1 /\ v1[n + 1] = u
      /\ IsList(v2) /\ Len(v2) = n + 2 /\ v2[n + 1] = u
      /\ IsList(vs) /\ Len(vs) = n + 3 /\ vs[n + 1] = u
  <2>1. IsList(v1) /\ Len(v1) = n + 1 /\ v1[n + 1] = u
    BY <1>2, <1>5, <1>6, AppendFacts
  <2>2. n + 1 \in 1..Len(v1)
    BY <1>5, <2>1
  <2>3. IsList(v2) /\ Len(v2) = n + 2 /\ v2[n + 1] = u
    BY <1>5, <1>6, <2>1, <2>2, AppendFacts
  <2>4. n + 1 \in 1..Len(v2)
    BY <1>5, <2>3
  <2>5. IsList(vs) /\ Len(vs) = n + 3 /\ vs[n + 1] = u
    BY <1>5, <1>6, <2>3, <2>4, AppendFacts
  <2> QED BY <2>1, <2>3, <2>5
<1>9. AllKind(insts, vs, r)
  <2>1. AllKind(insts, v1, r)
    BY <1>5, <1>6, KindWider
  <2>2. AllKind(insts, v2, r)
    BY <1>6, <1>8, <2>1, KindWider
  <2> QED BY <1>6, <1>8, <2>2, KindWider
<1>10. /\ InstKind(a, vs, r) /\ InstKind(c, vs, r) /\ InstKind(d, vs, r) /\ InstKind(f, vs, r)
  <2>1. /\ a.type \in Jumps /\ c.type \in Jumps /\ d.type = "LABEL" /\ f.type = "LABEL"
    BY <1>1 DEF Members, Jumps
  <2> QED BY <2>1, KindOfOthers
<1>11. InstKind(b, vs, r) /\ InstKind(e, vs, r)
  <2>1. b.type = "COPY" /\ b.dst = n + 1 /\ e.type = "COPY" /\ e.dst = n + 1
    BY <1>1, <1>2 DEF Members
  <2>2. n + 1 \in 1..Len(vs) /\ ~vs[n + 1].is_constant
    BY <1>4, <1>5, <1>8
  <2> QED BY <2>1, <2>2 DEF InstKind
<1>12. PICK p1, p2, p3, p4, p5 :
          /\ p1 = Append(insts, a) /\ p2 = Append(p1, b) /\ p3 = Append(p2, c)
          /\ p4 = Append(p3, d) /\ p5 = Append(p4, e)
  OBVIOUS
<1>13. AllKind(p1, vs, r) /\ IsList(p1)
  BY <1>5, <1>9, <1>10, <1>12, KindAppended, AppendFacts
<1>14. AllKind(p2, vs, r) /\ IsList(p2)
  BY <1>11, <1>12, <1>13, KindAppended, AppendFacts
<1>15. AllKind(p3, vs, r) /\ IsList(p3)
  BY <1>10, <1>12, <1>14, KindAppended, AppendFacts
<1>16. AllKind(p4, vs, r) /\ IsList(p4)
  BY <1>10, <1>12, <1>15, KindAppended, AppendFacts
<1>17. AllKind(p5, vs, r) /\ IsList(p5)
  BY <1>11, <1>12, <1>16, KindAppended, AppendFacts
<1>18. insts' = Append(p5, f)
  BY <1>1, <1>12
<1>19. AllKind(insts', vs, r)
  BY <1>10, <1>17, <1>18, KindAppended
<1> QED BY <1>2, <1>7, <1>19

\* Every step keeps the kinds.
LEMMA KindsStep ==
    ASSUME Shape, Tree, Kinds, [IrNext]_irVars
    PROVE  Kinds'
<1>1. Root' = Root
  BY RootStays
<1>2. IsList(insts) /\ IsList(vals) /\ Len(vals) \in Nat
  BY AppendFacts DEF Shape
<1>3. Current' = At(Root, frames', Len(frames') + 1)
  BY <1>1 DEF Current
<1>4. CASE EmitBody \/ DestroyBegins \/ UNCHANGED irVars
  <2>1. /\ insts' = insts /\ vals' = vals /\ ret' = ret /\ frames' = frames
        /\ ipc' = ipc \/ (ipc' # "return" /\ ipc \in Emitting \cup {"emitted"})
    BY <1>4 DEF EmitBody, DestroyBegins, irVars, emitted, Emitting
  <2>2. Current' = Current
    BY <1>1, <2>1 DEF Current
  <2> QED BY <1>1, <2>1, <2>2 DEF Kinds
<1>5. CASE EmitAbsent
  <2>1. /\ insts' = insts /\ vals' = vals /\ frames' = frames /\ ipc = "call" /\ arg = NoExpr
    BY <1>5 DEF EmitAbsent, emitted
  <2>2. Current' = NoExpr
    BY <1>3, <2>1 DEF Current, Tree
  <2>3. NoExpr.op = "NONE"
    BY DEF NoExpr
  <2> QED BY <1>1, <2>1, <2>2, <2>3 DEF Kinds, Emitting
<1>6. CASE EmitVar \/ EmitConst
  <2>1. PICK u : vals' = Append(vals, u) /\ (arg.op = "CONST" => u.is_constant /\ u.val = arg.val)
    BY <1>6, LeafStep
  <2>2. ret' = Len(vals) + 1 /\ ipc = "call" /\ ipc' = "return" /\ frames' = frames /\ insts' = insts
    BY <1>6, LeafStep
  <2>3. Current' = arg
    BY <1>3, <2>2 DEF Current, Tree
  <2>4. Len(vals') = Len(vals) + 1 /\ vals'[Len(vals) + 1] = u
    BY <1>2, <2>1, AppendFacts
  <2>5. ret' \in 1..Len(vals') /\ vals'[ret'] = u
    BY <1>2, <2>2, <2>4
  <2>6. AllKind(insts, vals, Root)
    BY <2>2 DEF Kinds, Emitting
  <2>7. AllKind(insts', vals', Root)
    BY <1>2, <2>1, <2>2, <2>6, KindWider
  <2> QED BY <1>1, <2>1, <2>3, <2>5, <2>7 DEF Kinds
<1>7. CASE EmitOperator
  <2>1. insts' = insts /\ vals' = vals /\ ipc = "call" /\ ipc' = "call"
    BY <1>7, OperatorStep
  <2> QED BY <1>1, <2>1 DEF Kinds, Emitting
<1>8. CASE EmitRight
  <2>1. vals' = vals /\ ipc = "return" /\ ipc' = "call"
    BY <1>8, RightStep
  <2>2. AllKind(insts, vals, Root)
    BY <2>1 DEF Kinds, Emitting
  <2>3. CASE insts' = insts
    BY <1>1, <2>1, <2>2, <2>3 DEF Kinds
  <2>4. CASE insts' # insts
    <3>1. PICK y, t : t \in Jumps /\ Members(y, t, ret, 0, 0, top.exit) /\ insts' = Append(insts, y)
      BY <1>8, <2>4, RightStep
    <3>2. InstKind(y, vals, Root)
      BY <3>1, KindOfOthers DEF Members
    <3>3. AllKind(insts', vals, Root)
      BY <1>2, <2>2, <3>1, <3>2, KindAppended
    <3> QED BY <1>1, <2>1, <3>3 DEF Kinds
  <2> QED BY <2>3, <2>4
<1>9. CASE EmitOperation \/ EmitLogical
  <2>1. frames # <<>> /\ frames' = callers /\ ipc' = "return"
    BY <1>9, OperationStep, LogicalStep
  <2>2. Current' = top.e /\ top.e.op \notin Childless
    <3>1. PICK r : r = Root
      OBVIOUS
    <3>2. Walked(r, frames)
      BY <3>1 DEF Tree
    <3>3. top.e = At(r, callers, Len(callers) + 1) /\ top.e.op \notin Childless
      BY <2>1, <3>2, TopPlaced
    <3> QED BY <1>3, <2>1, <3>1, <3>3
  <2>3. Current'.op # "CONST"
    BY <2>2 DEF Childless
  <2>4. AllKind(insts', vals', Root)
    BY <1>9, OperationKinds, LogicalKinds
  <2> QED BY <1>1, <2>3, <2>4 DEF Kinds
<1>10. CASE EmitReturn
  <2>1. PICK y : Members(y, "RETURN", ret, 0, 0, 0) /\ insts' = Append(insts, y)
    BY <1>10, ReturnStep
  <2>2. vals' = vals /\ ipc = "return" /\ ipc' = "emitted"
    BY <1>10, ReturnStep
  <2>3. AllKind(insts, vals, Root)
    BY <2>2 DEF Kinds, Emitting
  <2>4. InstKind(y, vals, Root)
    BY <2>1, KindOfOthers DEF Members
  <2>5. AllKind(insts', vals, Root)
    BY <1>2, <2>1, <2>3, <2>4, KindAppended
  <2> QED BY <1>1, <2>2, <2>5 DEF Kinds
<1>11. CASE DestroyInst \/ DestroyDone
  <2>1. ipc' \in {"destroy", "destroyed"}
    BY <1>11 DEF DestroyInst, DestroyDone
  <2> QED BY <2>1 DEF Kinds, Emitting
<1> QED BY <1>4, <1>5, <1>6, <1>7, <1>8, <1>9, <1>10, <1>11 DEF IrNext, EmitStep, DestroyStep

\* Nothing is emitted at first.
LEMMA KindsStart == IrInit => Kinds
BY DEF IrInit, Kinds, AllKind

-----------------------------------------------------------------------------
(* What is lowered is accepted.                                            *)

Operand32(o) == o.kind = "stack" \/ o.kind = "imm" \/ (o.kind = "reg" /\ o.size = 32)
AllTaken(q) == IsList(q) /\ \A j \in 1..Len(q) : Accepted(q[j])

\* An instruction by itself.
LEMMA SingleTaken ==
    ASSUME NEW x, Accepted(x)
    PROVE  AllTaken(<<x>>)
<1>1. PICK q : q = <<x>>
  OBVIOUS
<1>2. q \in Seq({x}) /\ \A j \in 1..Len(q) : q[j] = x
  BY <1>1
<1>3. AllTaken(q)
  BY <1>2 DEF AllTaken, IsList
<1> QED BY <1>1, <1>3

\* One list of accepted instructions behind another.
LEMMA ConcatTaken ==
    ASSUME NEW p, NEW q, AllTaken(p), AllTaken(q)
    PROVE  AllTaken(p \o q)
<1>1. PICK S, T : p \in Seq(S) /\ q \in Seq(T)
  BY DEF AllTaken, IsList
<1>2. PICK U : U = S \cup T
  OBVIOUS
<1>3. p \in Seq(U) /\ q \in Seq(U)
  BY <1>1, <1>2
<1>4. PICK r : r = p \o q
  OBVIOUS
<1>5. /\ r \in Seq(U) /\ Len(r) = Len(p) + Len(q) /\ Len(p) \in Nat /\ Len(q) \in Nat
      /\ \A j \in 1..Len(r) : r[j] = IF j <= Len(p) THEN p[j] ELSE q[j - Len(p)]
  BY <1>3, <1>4
<1>6. ASSUME NEW j \in 1..Len(r) PROVE Accepted(r[j])
  <2>1. CASE j <= Len(p)
    <3>1. j \in 1..Len(p) /\ r[j] = p[j]
      BY <1>5, <2>1
    <3> QED BY <3>1 DEF AllTaken
  <2>2. CASE ~(j <= Len(p))
    <3>1. j - Len(p) \in 1..Len(q) /\ r[j] = q[j - Len(p)]
      BY <1>5, <2>2
    <3> QED BY <3>1 DEF AllTaken
  <2> QED BY <2>1, <2>2
<1> QED BY <1>4, <1>5, <1>6 DEF AllTaken, IsList

Two == {"MOV", "ADD", "SUB", "AND", "OR", "XOR", "CMP"}

\* An instruction of two operands.
LEMMA TwoTaken ==
    ASSUME NEW t \in Two, NEW s, NEW d, Operand32(s), Place(d), ~(IsStack(s) /\ IsStack(d))
    PROVE  AllTaken(<<Inst(t, s, d)>>)
<1>1. PICK x : x = Inst(t, s, d)
  OBVIOUS
<1>2. x.type = t /\ x.src = s /\ x.dst = d
  BY <1>1 DEF Inst
<1>3. Place(s) \/ IsImm(s)
  BY DEF Operand32, Place, IsReg32, IsReg, IsStack, IsImm
<1>4. Place(x.dst) /\ NotBothStack(x) /\ (Place(x.src) \/ IsImm(x.src))
  BY <1>2, <1>3 DEF NotBothStack
<1>5. Accepted(x)
  BY <1>2, <1>4 DEF Accepted, Two
<1> QED BY <1>1, <1>5, SingleTaken

\* Instructions that are accepted whatever they have.
LEMMA BareTaken ==
    /\ \A t \in {"CDQ", "RETURN"} : AllTaken(Plain(t))
    /\ \A l : AllTaken(JumpTo(l))
    /\ \A c, l : AllTaken(JumpIf(c, l))
    /\ \A l : AllTaken(LabelAt(l))
    /\ \A c, o : IsStack(o) => AllTaken(SetIf(c, o))
<1>1. ASSUME NEW t \in {"CDQ", "RETURN"} PROVE AllTaken(Plain(t))
  <2>1. PICK x : x = Inst(t, NoOpnd, NoOpnd)
    OBVIOUS
  <2>2. Accepted(x)
    BY <2>1 DEF Inst, Accepted
  <2> QED BY <2>1, <2>2, SingleTaken DEF Plain
<1>2. ASSUME NEW l PROVE AllTaken(JumpTo(l))
  <2>1. PICK x : x = [Inst("JMP", NoOpnd, NoOpnd) EXCEPT !.label = l]
    OBVIOUS
  <2>2. Accepted(x)
    BY <2>1 DEF Inst, Accepted
  <2> QED BY <2>1, <2>2, SingleTaken DEF JumpTo
<1>3. ASSUME NEW c, NEW l PROVE AllTaken(JumpIf(c, l))
  <2>1. PICK x : x = [Inst("JMPCC", NoOpnd, NoOpnd) EXCEPT !.code = c, !.label = l]
    OBVIOUS
  <2>2. Accepted(x)
    BY <2>1 DEF Inst, Accepted
  <2> QED BY <2>1, <2>2, SingleTaken DEF JumpIf
<1>4. ASSUME NEW l PROVE AllTaken(LabelAt(l))
  <2>1. PICK x : x = [Inst("LABEL", NoOpnd, NoOpnd) EXCEPT !.label = l]
    OBVIOUS
  <2>2. Accepted(x)
    BY <2>1 DEF Inst, Accepted
  <2> QED BY <2>1, <2>2, SingleTaken DEF LabelAt
<1>5. ASSUME NEW c, NEW o, IsStack(o) PROVE AllTaken(SetIf(c, o))
  <2>1. PICK x : x = [Inst("SETCC", o, NoOpnd) EXCEPT !.code = c]
    OBVIOUS
  <2>2. x.type = "SETCC" /\ x.src = o
    BY <2>1 DEF Inst
  <2>3. Accepted(x)
    BY <1>5, <2>2 DEF Accepted
  <2> QED BY <2>1, <2>3, SingleTaken DEF SetIf
<1> QED BY <1>1, <1>2, <1>3, <1>4, <1>5

\* What registers, immediates and copies of stack slots are.
LEMMA OperandKinds ==
    /\ \A r, o : /\ Operand32(create_register(r, o)) /\ Place(create_register(r, o))
                 /\ ~IsStack(create_register(r, o)) /\ IsReg32(create_register(r, o))
    /\ \A n, o : /\ Operand32(create_immediate(n, o)) /\ ~IsStack(create_immediate(n, o))
                 /\ IsImm(create_immediate(n, o))
    /\ \A x, o : IsStack(x) => Operand32(x) /\ Place(x) /\ ~IsImm(x)
    /\ \A x, o : IsOpnd(x) => /\ dup_operand(x, o).kind = x.kind
                              /\ dup_operand(x, o).size = x.size
                              /\ dup_operand(x, o).val = x.val
                              /\ IsOpnd(dup_operand(x, o))
<1>1. ASSUME NEW r, NEW o
      PROVE  /\ Operand32(create_register(r, o)) /\ Place(create_register(r, o))
             /\ ~IsStack(create_register(r, o)) /\ IsReg32(create_register(r, o))
  BY DEF Operand32, Place, IsReg32, IsReg, IsStack, create_register, Opnd
<1>2. ASSUME NEW n, NEW o
      PROVE  /\ Operand32(create_immediate(n, o)) /\ ~IsStack(create_immediate(n, o))
             /\ IsImm(create_immediate(n, o))
  BY DEF Operand32, IsStack, IsImm, create_immediate, Opnd
<1>3. ASSUME NEW x, NEW o, IsStack(x) PROVE Operand32(x) /\ Place(x) /\ ~IsImm(x)
  BY <1>3 DEF Operand32, Place, IsStack, IsImm
<1>4. ASSUME NEW x, NEW o, IsOpnd(x)
      PROVE  /\ dup_operand(x, o).kind = x.kind
             /\ dup_operand(x, o).size = x.size
             /\ dup_operand(x, o).val = x.val
             /\ IsOpnd(dup_operand(x, o))
  <2>1. PICK k, v, s, p : x = [kind |-> k, val |-> v, size |-> s, obj |-> p]
    BY <1>4 DEF IsOpnd
  <2>2. dup_operand(x, o) = [kind |-> k, val |-> v, size |-> s, obj |-> o]
    BY <2>1 DEF dup_operand
  <2> QED BY <2>1, <2>2 DEF IsOpnd
<1> QED BY <1>1, <1>2, <1>3, <1>4

\* Two instructions, one after the other.
LEMMA PairListed ==
    ASSUME NEW x, NEW y
    PROVE  <<x>> \o <<y>> = <<x, y>>
<1>1. PICK p : p = <<x>>
  OBVIOUS
<1>2. IsList(<<>>) /\ IsList(p)
  <2>1. <<>> \in Seq({x}) /\ p \in Seq({x})
    BY <1>1
  <2> QED BY <2>1 DEF IsList
<1>3. p \o Append(<<>>, y) = Append(p \o <<>>, y)
  BY <1>2, ConcatAppend
<1>4. p \o <<>> = p
  BY <1>2 DEF IsList
<1>5. <<y>> = Append(<<>>, y)
  OBVIOUS
<1>6. <<x, y>> = Append(<<x>>, y)
  OBVIOUS
<1> QED BY <1>1, <1>3, <1>4, <1>5, <1>6

\* A move to a 32-bit place.
LEMMA MovTaken ==
    ASSUME NEW s, NEW d, NEW t, Operand32(s), Place(d)
    PROVE  AllTaken(insert_mov(s, d, t))
<1>1. CASE IsStack(s) /\ IsStack(d)
  <2>1. PICK a, b : a = create_register("R10", halves[t][1]) /\ b = create_register("R10", halves[t][2])
    OBVIOUS
  <2>2. /\ Operand32(b) /\ ~IsStack(b) /\ Place(a) /\ ~IsStack(a)
    BY <2>1, OperandKinds
  <2>3. PICK x, y : x = Inst("MOV", s, a) /\ y = Inst("MOV", b, d)
    OBVIOUS
  <2>4. AllTaken(<<x>>) /\ AllTaken(<<y>>)
    BY <2>2, <2>3, TwoTaken DEF Two
  <2>5. AllTaken(<<x>> \o <<y>>)
    BY <2>4, ConcatTaken
  <2>6. <<x>> \o <<y>> = <<x, y>>
    BY PairListed
  <2> QED BY <1>1, <2>1, <2>3, <2>5, <2>6 DEF insert_mov
<1>2. CASE ~(IsStack(s) /\ IsStack(d))
  <2>1. AllTaken(<<Inst("MOV", s, d)>>)
    BY <1>2, TwoTaken DEF Two
  <2> QED BY <1>2, <2>1 DEF insert_mov
<1> QED BY <1>1, <1>2

\* A comparison of any two.
LEMMA CmpTaken ==
    ASSUME NEW s, NEW d, Operand32(s), Operand32(d)
    PROVE  AllTaken(insert_cmp(s, d))
<1>1. PICK u, v : /\ u = (IF IsStack(s) /\ IsStack(d) THEN create_register("R10", "c2") ELSE s)
                  /\ v = (IF IsImm(d) THEN create_register("R11", "c4") ELSE d)
  OBVIOUS
<1>2. Operand32(u) /\ Place(v) /\ ~(IsStack(u) /\ IsStack(v))
  <2>1. Operand32(u)
    BY <1>1, OperandKinds
  <2>2. Place(v)
    <3>1. CASE IsImm(d)
      BY <1>1, <3>1, OperandKinds
    <3>2. CASE ~IsImm(d)
      BY <1>1, <3>2 DEF Operand32, IsImm, Place, IsReg32, IsReg, IsStack
    <3> QED BY <3>1, <3>2
  <2>3. ~(IsStack(u) /\ IsStack(v))
    <3>1. IsStack(v) => IsStack(d)
      BY <1>1, OperandKinds
    <3>2. IsStack(u) => ~(IsStack(s) /\ IsStack(d)) /\ IsStack(s)
      BY <1>1, OperandKinds
    <3> QED BY <3>1, <3>2
  <2> QED BY <2>1, <2>2, <2>3
<1>3. PICK p : p = IF IsStack(s) /\ IsStack(d)
                   THEN insert_mov(s, create_register("R10", "c1"), "n") ELSE <<>>
  OBVIOUS
<1>4. PICK q : q = IF IsImm(d) THEN insert_mov(d, create_register("R11", "c3"), "o") ELSE <<>>
  OBVIOUS
<1>5. AllTaken(<<>>)
  <2>1. <<>> \in Seq({}) /\ Len(<<>>) = 0
    OBVIOUS
  <2> QED BY <2>1 DEF AllTaken, IsList
<1>6. AllTaken(p)
  <2>1. AllTaken(insert_mov(s, create_register("R10", "c1"), "n"))
    BY MovTaken, OperandKinds
  <2> QED BY <1>3, <1>5, <2>1
<1>7. AllTaken(q)
  <2>1. AllTaken(insert_mov(d, create_register("R11", "c3"), "o"))
    BY MovTaken, OperandKinds
  <2> QED BY <1>4, <1>5, <2>1
<1>8. AllTaken(<<Inst("CMP", u, v)>>)
  BY <1>2, TwoTaken DEF Two
<1>9. AllTaken(p \o q \o <<Inst("CMP", u, v)>>)
  BY <1>6, <1>7, <1>8, ConcatTaken
<1>10. insert_cmp(s, d) = p \o q \o <<Inst("CMP", u, v)>>
  BY <1>1, <1>3, <1>4 DEF insert_cmp
<1> QED BY <1>9, <1>10

\* An operand on the stack.
Slot(x) == IsOpnd(x) /\ IsStack(x)

\* It and its copies may be written, and are 32 bits.
LEMMA SlotKinds ==
    ASSUME NEW x, Slot(x)
    PROVE  /\ Operand32(x) /\ Place(x) /\ IsStack(x) /\ ~IsImm(x)
           /\ \A o : Slot(dup_operand(x, o))
<1>1. \A o : dup_operand(x, o).kind = x.kind /\ IsOpnd(dup_operand(x, o))
  BY OperandKinds DEF Slot
<1> QED BY <1>1, OperandKinds DEF Slot, IsStack

\* A comparison whose result is stored.
LEMMA RelationalTaken ==
    ASSUME NEW c, NEW l, NEW r, NEW d, Operand32(l), Operand32(r), Slot(d)
    PROVE  AllTaken(lower_relational(c, l, r, d))
<1>1. AllTaken(insert_cmp(r, l))
  BY CmpTaken
<1>2. AllTaken(insert_mov(create_immediate(0, "zero"), d, "m"))
  BY MovTaken, OperandKinds, SlotKinds
<1>3. AllTaken(SetIf(c, dup_operand(d, "dst2")))
  BY BareTaken, SlotKinds DEF Slot
<1>4. AllTaken(insert_cmp(r, l) \o insert_mov(create_immediate(0, "zero"), d, "m")
                 \o SetIf(c, dup_operand(d, "dst2")))
  BY <1>1, <1>2, <1>3, ConcatTaken
<1> QED BY <1>4 DEF lower_relational

\* Addition and the like.
LEMMA SimpleTaken ==
    ASSUME NEW t \in Two, NEW l, NEW r, NEW d, Operand32(l), Operand32(r), Slot(d)
    PROVE  AllTaken(lower_simple_binary_inst(t, l, r, d))
<1>1. PICK e : e = dup_operand(d, "dst2")
  OBVIOUS
<1>2. Place(e) /\ IsStack(e)
  BY <1>1, SlotKinds
<1>3. PICK q : q = IF IsStack(r) /\ IsStack(e)
                   THEN insert_mov(r, create_register("R10", "r1"), "n")
                        \o << Inst(t, create_register("R10", "r2"), e) >>
                   ELSE << Inst(t, r, e) >>
  OBVIOUS
<1>4. AllTaken(q)
  <2>1. CASE IsStack(r)
    <3>1. AllTaken(insert_mov(r, create_register("R10", "r1"), "n"))
      BY MovTaken, OperandKinds
    <3>2. AllTaken(<< Inst(t, create_register("R10", "r2"), e) >>)
      BY <1>2, TwoTaken, OperandKinds
    <3>3. AllTaken(insert_mov(r, create_register("R10", "r1"), "n")
                   \o << Inst(t, create_register("R10", "r2"), e) >>)
      BY <3>1, <3>2, ConcatTaken
    <3> QED BY <1>2, <1>3, <2>1, <3>3
  <2>2. CASE ~IsStack(r)
    <3>1. AllTaken(<< Inst(t, r, e) >>)
      BY <1>2, <2>2, TwoTaken
    <3> QED BY <1>3, <2>2, <3>1
  <2> QED BY <2>1, <2>2
<1>5. AllTaken(insert_mov(l, d, "m"))
  BY MovTaken, SlotKinds
<1>6. AllTaken(insert_mov(l, d, "m") \o q)
  BY <1>4, <1>5, ConcatTaken
<1> QED BY <1>1, <1>3, <1>6 DEF lower_simple_binary_inst

\* Multiplication, in a register.
LEMMA MulTaken ==
    ASSUME NEW l, NEW r, NEW d, Operand32(l), Operand32(r), Slot(d)
    PROVE  AllTaken(lower_mul(l, r, d))
<1>1. PICK a, x, b, c : /\ a = insert_mov(dup_operand(d, "dst2"), create_register("R11", "r1"), "n")
                     /\ x = Inst("MUL", r, create_register("R11", "r2"))
                     /\ b = <<x>>
                     /\ c = insert_mov(create_register("R11", "r3"), dup_operand(d, "dst3"), "o")
  OBVIOUS
<1>2. AllTaken(a)
  BY <1>1, MovTaken, OperandKinds, SlotKinds
<1>3. AllTaken(b)
  <2>1. x.type = "MUL" /\ x.src = r /\ IsReg32(x.dst)
    BY <1>1, OperandKinds DEF Inst
  <2>2. Place(r) \/ IsImm(r)
    BY DEF Operand32, Place, IsReg32, IsReg, IsStack, IsImm
  <2>3. Accepted(x)
    BY <2>1, <2>2 DEF Accepted
  <2> QED BY <1>1, <2>3, SingleTaken
<1>4. AllTaken(c)
  BY <1>1, MovTaken, OperandKinds, SlotKinds
<1>5. AllTaken(insert_mov(l, d, "m"))
  BY MovTaken, SlotKinds
<1>6. AllTaken(insert_mov(l, d, "m") \o (a \o b \o c))
  BY <1>2, <1>3, <1>4, <1>5, ConcatTaken
<1>7. IsStack(d)
  BY DEF Slot
<1> QED BY <1>1, <1>6, <1>7 DEF lower_mul

\* Division, with ax and dx.
LEMMA DivTaken ==
    ASSUME NEW l, NEW r, NEW d, NEW w, Operand32(l), IsImm(r) \/ Slot(r), Slot(d)
    PROVE  AllTaken(lower_div(l, r, d, w))
<1>1. PICK a, b, c : /\ a = insert_mov(l, create_register("AX", "r1"), "m")
                     /\ b = insert_mov(r, create_register("R10", "r2"), "n")
                     /\ c = insert_mov(create_register(IF w THEN "DX" ELSE "AX", "r4"), d, "o")
  OBVIOUS
<1>2. AllTaken(a) /\ AllTaken(c)
  BY <1>1, MovTaken, OperandKinds, SlotKinds
<1>3. PICK x, y : x = Inst("DIV", NoOpnd, create_register("R10", "r3")) /\ y = Inst("DIV", NoOpnd, r)
  OBVIOUS
<1>4. PICK q : q = IF IsImm(r) THEN b \o <<x>> ELSE <<y>>
  OBVIOUS
<1>5. AllTaken(q)
  <2>1. CASE IsImm(r)
    <3>1. Operand32(r)
      BY <2>1 DEF IsImm, Operand32
    <3>2. AllTaken(b)
      BY <1>1, <3>1, MovTaken, OperandKinds
    <3>3. x.type = "DIV" /\ Place(x.dst)
      BY <1>3, OperandKinds DEF Inst
    <3>4. AllTaken(<<x>>)
      BY <3>3, SingleTaken DEF Accepted
    <3> QED BY <1>4, <2>1, <3>2, <3>4, ConcatTaken
  <2>2. CASE ~IsImm(r)
    <3>1. y.type = "DIV" /\ Place(y.dst)
      BY <1>3, <2>2, SlotKinds DEF Inst
    <3>2. AllTaken(<<y>>)
      BY <3>1, SingleTaken DEF Accepted
    <3> QED BY <1>4, <2>2, <3>2
  <2> QED BY <2>1, <2>2
<1>6. AllTaken(Plain("CDQ"))
  BY BareTaken
<1>7. AllTaken(a \o Plain("CDQ") \o q \o c)
  BY <1>2, <1>5, <1>6, ConcatTaken
<1> QED BY <1>1, <1>3, <1>4, <1>7 DEF lower_div

\* A shift by a constant count that fits.
LEMMA ShiftTaken ==
    ASSUME NEW t \in Shifts, NEW l, NEW r, NEW d, Operand32(l), IsImm(r), Imm8(r.val), Slot(d)
    PROVE  AllTaken(lower_bit_shift(t, l, r, d))
<1>1. PICK x : x = Inst(t, r, dup_operand(d, "dst2"))
  OBVIOUS
<1>2. x.type \in {"SHL", "SHR"} /\ x.src = r /\ Place(x.dst)
  BY <1>1, SlotKinds DEF Inst, Shifts
<1>3. Accepted(x)
  BY <1>2 DEF Accepted, ShiftCount
<1>4. AllTaken(insert_mov(l, d, "m") \o <<x>>)
  BY <1>3, MovTaken, SlotKinds, SingleTaken, ConcatTaken
<1> QED BY <1>1, <1>4 DEF lower_bit_shift

\* A unary operator.
LEMMA UnaryTaken ==
    ASSUME NEW o \in UnaryOps, NEW s, NEW d, IsOpnd(s), IsImm(s) \/ IsStack(s), Slot(d)
    PROVE  AllTaken(lower_ir_unary(o, s, d))
<1>1. PICK e, f : e = dup_operand(d, "dst2") /\ f = dup_operand(s, "src2")
  OBVIOUS
<1>2. Slot(e) /\ Operand32(s) /\ Operand32(f)
  <2>1. f.kind = s.kind
    BY <1>1, OperandKinds
  <2> QED BY <1>1, <2>1, SlotKinds DEF Operand32, IsImm, IsStack
<1>3. PICK m : m = insert_mov(s, d, "m")
  OBVIOUS
<1>4. AllTaken(m)
  BY <1>2, <1>3, MovTaken, SlotKinds
<1>5. CASE o \in {"NEG", "BITNOT"}
  <2>1. PICK x : x = Inst(IF o = "NEG" THEN "NEG" ELSE "NOT", NoOpnd, e)
    OBVIOUS
  <2>2. lower_ir_unary(o, s, d) = m \o <<x>>
    BY <1>1, <1>3, <1>5, <2>1 DEF lower_ir_unary
  <2>3. x.type \in {"NEG", "NOT"} /\ Place(x.dst)
    BY <1>2, <2>1, SlotKinds DEF Inst
  <2>4. AllTaken(<<x>>)
    BY <2>3, SingleTaken DEF Accepted
  <2> QED BY <1>4, <2>2, <2>4, ConcatTaken
<1>6. CASE o = "NOT"
  <2>1. lower_ir_unary(o, s, d) = m \o lower_logical_not(f, e)
    BY <1>1, <1>3, <1>6 DEF lower_ir_unary
  <2>2. AllTaken(insert_cmp(create_immediate(0, "zero1"), f))
    BY <1>2, CmpTaken, OperandKinds
  <2>3. AllTaken(insert_mov(create_immediate(0, "zero2"), e, "n"))
    BY <1>2, MovTaken, OperandKinds, SlotKinds
  <2>4. AllTaken(SetIf("EQ", dup_operand(e, "dst3")))
    BY <1>2, BareTaken, SlotKinds DEF Slot
  <2>5. AllTaken(insert_cmp(create_immediate(0, "zero1"), f)
               \o insert_mov(create_immediate(0, "zero2"), e, "n")
               \o SetIf("EQ", dup_operand(e, "dst3")))
    BY <2>2, <2>3, <2>4, ConcatTaken
  <2>6. AllTaken(lower_logical_not(f, e))
    BY <2>5 DEF lower_logical_not
  <2> QED BY <1>4, <2>1, <2>6, ConcatTaken
<1> QED BY <1>5, <1>6 DEF UnaryOps

\* A binary operator, which is no shift by a count that varies or is too wide.
LEMMA BinaryTaken ==
    ASSUME NEW o \in BinaryOps, NEW l, NEW r, NEW d, IsImm(l) \/ Slot(l), IsImm(r) \/ Slot(r), Slot(d),
           o \in Shifts => IsImm(r) /\ Imm8(r.val)
    PROVE  AllTaken(lower_ir_binary(o, l, r, d))
<1>1. DOMAIN SimpleOps = {"ADD", "SUB", "BITAND", "BITXOR", "BITOR"}
  BY DEF SimpleOps
<1>2. Operand32(l) /\ Operand32(r)
  BY SlotKinds DEF Operand32, IsImm
<1>3. CASE o \in {"ADD", "SUB", "BITAND", "BITXOR", "BITOR"}
  <2>1. PICK t : t = SimpleOps[o]
    OBVIOUS
  <2>2. t \in Two
    BY <1>3, <2>1 DEF SimpleOps, Two
  <2>3. lower_ir_binary(o, l, r, d) = lower_simple_binary_inst(t, l, r, d)
    BY <1>1, <1>3, <2>1 DEF lower_ir_binary, Relations
  <2> QED BY <1>2, <2>2, <2>3, SimpleTaken
<1>4. CASE o = "MUL"
  <2>1. lower_ir_binary(o, l, r, d) = lower_mul(l, r, d)
    BY <1>1, <1>4 DEF lower_ir_binary, Relations
  <2> QED BY <1>2, <2>1, MulTaken
<1>5. CASE o \in {"DIV", "MOD"}
  <2>1. lower_ir_binary(o, l, r, d) = lower_div(l, r, d, o = "MOD")
    BY <1>1, <1>5 DEF lower_ir_binary, Relations
  <2> QED BY <1>2, <2>1, DivTaken
<1>6. CASE o \in {"SHL", "SHR"}
  <2>1. lower_ir_binary(o, l, r, d) = lower_bit_shift(o, l, r, d)
    BY <1>1, <1>6 DEF lower_ir_binary, Relations
  <2>2. o \in Shifts /\ IsImm(r) /\ Imm8(r.val)
    BY <1>6 DEF Shifts
  <2> QED BY <1>2, <2>1, <2>2, ShiftTaken
<1>7. CASE o \in Relations
  <2>1. lower_ir_binary(o, l, r, d) = lower_relational(o, l, r, d)
    BY <1>1, <1>7 DEF lower_ir_binary, Relations
  <2> QED BY <1>2, <2>1, RelationalTaken
<1> QED BY <1>1, <1>3, <1>4, <1>5, <1>6, <1>7 DEF BinaryOps

\* A value is an immediate if it is a constant and a stack slot if it is not.
LEMMA ValueKinds ==
    ASSUME NEW v, NEW s, NEW o, NEW x, x = lower_ir_val(v, s, o)
    PROVE  /\ IsOpnd(x) /\ Operand32(x)
           /\ vals[v].is_constant => IsImm(x) /\ x.val = vals[v].val
           /\ ~vals[v].is_constant => Slot(x)
           /\ IsImm(x) \/ Slot(x)
<1>1. CASE vals[v].is_constant
  <2>1. x = create_immediate(vals[v].val, o)
    BY <1>1 DEF lower_ir_val
  <2>2. IsOpnd(x) /\ x.kind = "imm" /\ x.val = vals[v].val
    BY <2>1 DEF create_immediate, Opnd, IsOpnd
  <2> QED BY <1>1, <2>2 DEF IsImm, Operand32
<1>2. CASE ~vals[v].is_constant
  <2>1. PICK w : x = Opnd("stack", w, 32, o)
    BY <1>2 DEF lower_ir_val
  <2>2. IsOpnd(x) /\ x.kind = "stack"
    BY <2>1 DEF Opnd, IsOpnd
  <2> QED BY <1>2, <2>2 DEF IsStack, Operand32, Slot
<1> QED BY <1>1, <1>2

\* What an instruction is lowered to is accepted, unless the source has a count that does not fit.
LEMMA InstructionTaken ==
    ASSUME NEW x, Whole(x), ~Unimplemented(x), NEW r, InstKind(x, vals, r), ~UnfitCount(r), NEW s
    PROVE  AllTaken(lower_ir_instruction(x, s))
<1>1. PICK a, b, d : /\ a = lower_ir_val(x.lhs, s, "lhs") /\ b = lower_ir_val(x.rhs, s, "rhs")
                     /\ d = lower_ir_val(x.dst, s, "dst")
  OBVIOUS
<1>2. /\ Operand32(a) /\ IsOpnd(a) /\ (IsImm(a) \/ Slot(a)) /\ (IsImm(b) \/ Slot(b))
      /\ ~vals[x.dst].is_constant => Slot(d)
      /\ vals[x.rhs].is_constant => IsImm(b) /\ b.val = vals[x.rhs].val
  BY <1>1, ValueKinds
<1>3. PICK y : y = lower_ir_instruction(x, s)
  OBVIOUS
<1>4. CASE x.type = "RETURN"
  <2>1. y = insert_mov(a, create_register("AX", "r1"), "m") \o Plain("RETURN")
    BY <1>1, <1>3, <1>4 DEF lower_ir_instruction, lower_ir_return
  <2>2. AllTaken(insert_mov(a, create_register("AX", "r1"), "m")) /\ AllTaken(Plain("RETURN"))
    BY <1>2, MovTaken, BareTaken, OperandKinds
  <2> QED BY <1>3, <2>1, <2>2, ConcatTaken
<1>5. CASE x.type = "UNARY"
  <2>1. y = lower_ir_unary(x.op, a, d)
    BY <1>1, <1>3, <1>5 DEF lower_ir_instruction
  <2>2. Slot(d) /\ x.op \in UnaryOps
    BY <1>2, <1>5 DEF InstKind, Unimplemented
  <2>3. IsImm(a) \/ IsStack(a)
    BY <1>2 DEF Slot
  <2> QED BY <1>2, <1>3, <2>1, <2>2, <2>3, UnaryTaken
<1>6. CASE x.type = "BINARY"
  <2>1. y = lower_ir_binary(x.op, a, b, d)
    BY <1>1, <1>3, <1>6 DEF lower_ir_instruction
  <2>2. Slot(d) /\ x.op \in BinaryOps
    BY <1>2, <1>6 DEF InstKind, Unimplemented
  <2>3. x.op \in Shifts => IsImm(b) /\ Imm8(b.val)
    BY <1>2, <1>6 DEF InstKind
  <2> QED BY <1>2, <1>3, <2>1, <2>2, <2>3, BinaryTaken
<1>7. CASE x.type = "JMP"
  <2>1. y = JumpTo(x.label)
    BY <1>3, <1>7 DEF lower_ir_instruction
  <2> QED BY <1>3, <2>1, BareTaken
<1>8. CASE x.type \in {"JZ", "JNZ"}
  <2>1. PICK c : c = IF x.type = "JZ" THEN "EQ" ELSE "NE"
    OBVIOUS
  <2>2. y = insert_cmp(create_immediate(0, "zero"), a) \o JumpIf(c, x.label)
    BY <1>1, <1>3, <1>8, <2>1 DEF lower_ir_instruction, lower_cond_jump
  <2>3. AllTaken(insert_cmp(create_immediate(0, "zero"), a)) /\ AllTaken(JumpIf(c, x.label))
    BY <1>2, CmpTaken, BareTaken, OperandKinds
  <2> QED BY <1>3, <2>2, <2>3, ConcatTaken
<1>9. CASE x.type = "COPY"
  <2>1. y = insert_mov(a, d, "m")
    BY <1>1, <1>3, <1>9 DEF lower_ir_instruction
  <2>2. Slot(d)
    BY <1>2, <1>9 DEF InstKind
  <2> QED BY <1>2, <1>3, <2>1, <2>2, MovTaken, SlotKinds
<1>10. CASE x.type = "LABEL"
  <2>1. y = LabelAt(x.label)
    BY <1>3, <1>10 DEF lower_ir_instruction
  <2> QED BY <1>3, <2>1, BareTaken
<1> QED BY <1>3, <1>4, <1>5, <1>6, <1>7, <1>8, <1>9, <1>10 DEF Whole, Types, Jumps

-----------------------------------------------------------------------------
(* The assembler refuses shifts only.                                      *)

\* The code so far is accepted, and is not refused.
AsmTaken ==
    ~UnfitCount(Root) => AllTaken(asm) /\ outcome # "rejected"

\* Each of the three phases adds only what is accepted.
LEMMA AsmTakenStep ==
    ASSUME AllWhole, Kinds, FrameInv, AsmTaken, [Translate]_<<irVars, codegenVars>>, outcome' = outcome
    PROVE  AsmTaken'
<1>1. Root' = Root
  BY RootStays, TranslateMoves
<1>2. PICK r : r = Root
  OBVIOUS
<1>3. SUFFICES ASSUME ~UnfitCount(r) PROVE AllTaken(asm') /\ outcome' # "rejected"
  BY <1>1, <1>2 DEF AsmTaken
<1>4. AllTaken(asm) /\ outcome' # "rejected"
  BY <1>2, <1>3 DEF AsmTaken
<1>5. CASE asm' = asm
  BY <1>4, <1>5
<1>6. CASE Lower /\ ipc = "emitted"
  <2>1. PICK x, s : x = insts[next_ir] /\ s = SlotsFor(x)
    OBVIOUS
  <2>2. /\ next_ir <= Len(insts) /\ ~Unimplemented(x) /\ asm' = asm \o lower_ir_instruction(x, s)
    BY <1>6, <2>1 DEF Lower
  <2>3. next_ir \in 1..Len(insts)
    BY <2>2 DEF FrameInv
  <2>4. Whole(x) /\ InstKind(x, vals, r)
    BY <1>2, <1>6, <2>1, <2>3 DEF AllWhole, Kinds, AllKind
  <2>5. AllTaken(lower_ir_instruction(x, s))
    BY <1>3, <2>2, <2>4, InstructionTaken
  <2> QED BY <1>4, <2>2, <2>5, ConcatTaken
<1>7. CASE ReserveStack /\ asm' # asm
  <2>1. PICK x : x = Inst("ALLOCSTACK", create_immediate(FrameBytes, "frame"), NoOpnd)
    OBVIOUS
  <2>2. asm' = <<x>> \o asm
    BY <1>7, <2>1 DEF ReserveStack
  <2>3. Accepted(x)
    BY <2>1 DEF Inst, Accepted
  <2> QED BY <1>4, <2>2, <2>3, SingleTaken, ConcatTaken
<1>8. asm' = asm \/ (Lower /\ ipc = "emitted") \/ (ReserveStack /\ asm' # asm)
  BY DEF Translate, EmitIr, EmitAsm, DestroyIr, CodegenStep, LowerFails, LowerAbsent, codegenVars
<1> QED BY <1>5, <1>6, <1>7, <1>8

\* The assembler refuses only what is not accepted.
LEMMA RunTaken ==
    ASSUME AsmTaken, MachineStep, UNCHANGED <<irVars, codegenVars>>
    PROVE  AsmTaken'
<1>1. Root' = Root /\ asm' = asm
  <2>1. body' = body /\ asm' = asm
    BY DEF irVars, codegenVars
  <2> QED BY <2>1 DEF Root, Source
<1>2. PICK r : r = Root
  OBVIOUS
<1>3. SUFFICES ASSUME ~UnfitCount(r) PROVE AllTaken(asm') /\ outcome' # "rejected"
  BY <1>1, <1>2 DEF AsmTaken
<1>4. AllTaken(asm) /\ outcome # "rejected"
  BY <1>2, <1>3 DEF AsmTaken
<1>5. ~Assemble => outcome' # "rejected"
  BY <1>4 DEF MachineStep, Arithmetic, Move, OneOperand, SignExtend, Divide, Compare, SetByte, Jump,
              Pass, Return
<1>6. ASSUME Assemble PROVE outcome' # "rejected"
  <2>1. \A j \in DOMAIN asm : Accepted(asm[j])
    <3>1. IsList(asm)
      BY <1>4 DEF AllTaken
    <3>2. DOMAIN asm = 1..Len(asm)
      BY <3>1 DEF IsList
    <3> QED BY <1>4, <3>2 DEF AllTaken
  <2>2. outcome' = outcome
    BY <1>6, <2>1 DEF Assemble
  <2> QED BY <1>4, <2>2
<1> QED BY <1>1, <1>4, <1>5, <1>6

\* What is missing is made of nothing.
LEMMA NothingBelow == Subterms(NoExpr) = {}
<1>1. Depth \in Nat
  BY DepthAssumption
<1>2. PICK h : h = Levels(NoExpr)
  OBVIOUS
<1>3. PICK G : G = {n \in 0..Depth : h[n] = {}}
  OBVIOUS
<1>4. 0 \in G
  <2>1. h[0] = {NoExpr} \ {NoExpr} /\ 0 \in 0..Depth
    BY <1>1, <1>2, LevelsExist
  <2> QED BY <1>3, <2>1
<1>5. ASSUME NEW k \in 0..Depth, k \in G, k < Depth PROVE k + 1 \in G
  <2>1. k + 1 \in 0..Depth
    BY <1>1, <1>5
  <2>2. h[k + 1] = UNION {Below(x) : x \in h[k]}
    BY <1>2, LevelsExist
  <2>3. h[k] = {}
    BY <1>3, <1>5
  <2> QED BY <1>3, <2>1, <2>2, <2>3
<1>6. \A n \in 0..Depth : n \in G
  BY <1>1, <1>4, <1>5, PassedOn
<1>7. Subterms(NoExpr) = UNION {h[n] : n \in 0..Depth}
  BY <1>2 DEF Subterms
<1> QED BY <1>3, <1>6, <1>7

\* What all three phases keep.
EmittedWell == Shape /\ Counted /\ Progress /\ AllWhole /\ FrameInv /\ Tree /\ Kinds

\* It holds at first.
LEMMA WellStarts == IrInit /\ CodegenInit => EmittedWell
<1> SUFFICES ASSUME IrInit, CodegenInit PROVE EmittedWell
  OBVIOUS
<1>1. AllWhole
  <2>1. Len(insts) = 0
    BY DEF IrInit
  <2> QED BY <2>1 DEF AllWhole
<1>2. FrameInv
  <2>1. cpc = "lower" /\ next_ir = 1 /\ asm = <<>> /\ slots = <<>>
    BY DEF CodegenInit
  <2>2. Framed(<<>>, Len(slots)) /\ IsList(<<>>)
    BY NoneFramed DEF Framed
  <2> QED BY <2>1, <2>2 DEF FrameInv
<1> QED BY <1>1, <1>2, StartsCounted, TreeStarts, KindsStart DEF EmittedWell

\* Every step of the three phases keeps it.
LEMMA WellStep ==
    ASSUME EmittedWell, [Translate]_<<irVars, codegenVars>>
    PROVE  EmittedWell'
BY TranslateMoves, ShapeStep, CountedStep, ProgressStep, WholeStep, FrameStep, TreeStep, KindsStep
   DEF EmittedWell

\* The assembler refuses the code of no body but one that shifts by a count that is not a constant,
\* or is a constant that no 8-bit immediate holds: for every body, width and slot size, through
\* every lowering of insert_mov, insert_cmp and lower_*.
THEOREM OnlyShiftsRefused == Spec => []OnlyShiftsRejected
<1>1. Init => EmittedWell /\ AsmTaken
  <2> SUFFICES ASSUME Init PROVE EmittedWell /\ AsmTaken
    OBVIOUS
  <2>1. AllTaken(asm)
    <3>1. asm = <<>> /\ <<>> \in Seq({}) /\ Len(<<>>) = 0
      BY DEF Init, CodegenInit
    <3> QED BY <3>1 DEF AllTaken, IsList
  <2>2. AsmTaken
    BY <2>1 DEF Init, MachineInit, AsmTaken
  <2> QED BY <2>2, WellStarts DEF Init
<1>2. EmittedWell /\ AsmTaken /\ [Next]_compilerVars => (EmittedWell /\ AsmTaken)'
  <2> SUFFICES ASSUME EmittedWell, AsmTaken, [Next]_compilerVars PROVE EmittedWell' /\ AsmTaken'
    OBVIOUS
  <2>1. [Translate]_<<irVars, codegenVars>>
    BY DEF Next, Compile, Run, compilerVars
  <2>2. EmittedWell'
    BY <2>1, WellStep
  <2>3. AsmTaken'
    <3>1. CASE Run
      BY <3>1, RunTaken DEF Run
    <3>2. CASE ~Run
      <4>1. outcome' = outcome
        BY <3>2 DEF Next, Compile, compilerVars, machineVars
      <4> QED BY <2>1, <4>1, AsmTakenStep DEF EmittedWell
    <3> QED BY <3>1, <3>2
  <2> QED BY <2>2, <2>3
<1>3. AsmTaken => OnlyShiftsRejected
  <2> SUFFICES ASSUME AsmTaken PROVE OnlyShiftsRejected
    OBVIOUS
  <2> SUFFICES ASSUME outcome = "rejected" PROVE Compiled /\ UnfitCount(Source)
    BY DEF OnlyShiftsRejected
  <2>1. UnfitCount(Root)
    BY DEF AsmTaken
  <2>2. Root # NoExpr
    BY <2>1, NothingBelow DEF UnfitCount
  <2>3. body # <<>> /\ Root = Source
    BY <2>2 DEF Root
  <2> QED BY <2>1, <2>2, <2>3 DEF Compiled
<1> QED BY <1>1, <1>2, <1>3, PTL DEF Spec

=============================================================================
