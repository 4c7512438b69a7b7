---------------------------- MODULE ResultProofs ----------------------------
(***************************************************************************)
(* That the program does what the expression means:                        *)
(*                                                                         *)
(*   - emit_ir makes IR code that goes by a plan, which says of every      *)
(*     instruction that can be reached which variables have been written   *)
(*     and which values they may have                                      *)
(*   - the lowering of each IR instruction does to the registers, the      *)
(*     slots and the flags what the instruction means; the code is laid    *)
(*     out in the order of the IR code, with a slot for each variable; so  *)
(*     the processor follows the plan wherever it lands, and returns what  *)
(*     C says the expression is worth, without reading anything that it    *)
(*     has not written                                                     *)
(***************************************************************************)
EXTENDS CodegenProofs

-----------------------------------------------------------------------------
(* The arithmetic of W-bit words, and what can be claimed of an           *)
(* expression: the values that C gives it, or any words at all if it has   *)
(* no variables.                                                           *)

\* The values that an int has.
Words == MinInt..MaxInt
Half == 2^(W - 1)

\* A word's width and its two halves.
LEMMA Widths ==
    /\ W \in 2..32 /\ 2^W = 2 * Half /\ Half \in Nat /\ Half >= 2
    /\ MinInt = -Half /\ MaxInt = Half - 1 /\ Words = (-Half)..(Half - 1)
<1>1. PICK n \in 1..5 : W = 2^n
  BY WidthAssumption
<1>2. W \in {2, 4, 8, 16, 32}
  <2>1. 2^1 = 2 /\ 2^2 = 4 /\ 2^3 = 8 /\ 2^4 = 16 /\ 2^5 = 32
    OBVIOUS
  <2>2. n = 1 \/ n = 2 \/ n = 3 \/ n = 4 \/ n = 5
    OBVIOUS
  <2> QED BY <1>1, <2>1, <2>2
<1>3. 2^W = 2 * Half /\ Half \in Nat /\ Half >= 2
  <2>1. CASE W = 2
    <3>1. 2^2 = 2 * 2^1 /\ 2^1 = 2 /\ W - 1 = 1
      BY <2>1
    <3> QED BY <2>1, <3>1 DEF Half
  <2>2. CASE W = 4
    <3>1. 2^4 = 2 * 2^3 /\ 2^3 = 8 /\ W - 1 = 3
      BY <2>2
    <3> QED BY <2>2, <3>1 DEF Half
  <2>3. CASE W = 8
    <3>1. 2^8 = 2 * 2^7 /\ 2^7 = 128 /\ W - 1 = 7
      BY <2>3
    <3> QED BY <2>3, <3>1 DEF Half
  <2>4. CASE W = 16
    <3>1. 2^16 = 2 * 2^15 /\ 2^15 = 32768 /\ W - 1 = 15
      BY <2>4
    <3> QED BY <2>4, <3>1 DEF Half
  <2>5. CASE W = 32
    <3>1. 2^32 = 2 * 2^31 /\ 2^31 = 2147483648 /\ W - 1 = 31
      BY <2>5
    <3> QED BY <2>5, <3>1 DEF Half
  <2> QED BY <1>2, <2>1, <2>2, <2>3, <2>4, <2>5
<1>4. MinInt = -Half /\ MaxInt = Half - 1
  BY DEF MinInt, MaxInt, Half
<1> QED BY <1>2, <1>3, <1>4 DEF Words

\* What the remainder of a division by a positive number is.
LEMMA ModFacts ==
    ASSUME NEW n \in Int, NEW m \in Nat, m > 0
    PROVE  /\ n % m \in 0..(m - 1) /\ n \div m \in Int /\ n = m * (n \div m) + (n % m)
OBVIOUS

\* Two's complement keeps what fits.
LEMMA SignedWord ==
    ASSUME NEW n \in Int
    PROVE  /\ Unsigned(n) \in 0..(2 * Half - 1)
           /\ Signed(n) \in Words
           /\ n \in Words => Signed(n) = n /\ Unsigned(n) = IF n < 0 THEN n + 2 * Half ELSE n
<1>1. PICK h, u : h = Half /\ u = n % (2 * h)
  OBVIOUS
<1>2. h \in Nat /\ h >= 2 /\ 2^W = 2 * h /\ MaxInt = h - 1 /\ Words = (-h)..(h - 1)
  BY <1>1, Widths
<1>3. u \in 0..(2 * h - 1)
  BY <1>1, <1>2, ModFacts
<1>4. Unsigned(n) = u
  BY <1>1, <1>2 DEF Unsigned
<1>5. Signed(n) = IF u > h - 1 THEN u - 2 * h ELSE u
  BY <1>1, <1>2 DEF Signed
<1>6. n \in Words => u = IF n < 0 THEN n + 2 * h ELSE n
  <2>1. PICK k : k = n \div (2 * h)
    OBVIOUS
  <2>2. k \in Int /\ n = (2 * h) * k + u
    BY <1>1, <1>2, <2>1, ModFacts
  <2> SUFFICES ASSUME n \in (-h)..(h - 1) PROVE u = IF n < 0 THEN n + 2 * h ELSE n
    BY <1>2
  <2>3. CASE k >= 1
    <3>1. (2 * h) * k >= 2 * h
      BY <1>2, <2>2, <2>3
    <3> QED BY <1>2, <1>3, <2>2, <3>1
  <2>4. CASE k <= -2
    <3>1. (2 * h) * k <= -(4 * h)
      BY <1>2, <2>2, <2>4
    <3> QED BY <1>2, <1>3, <2>2, <3>1
  <2>5. CASE k = 0
    BY <1>2, <1>3, <2>2, <2>5
  <2>6. CASE k = -1
    BY <1>2, <1>3, <2>2, <2>6
  <2> QED BY <2>2, <2>3, <2>4, <2>5, <2>6
<1> QED BY <1>1, <1>2, <1>3, <1>4, <1>5, <1>6

\* A quotient is an integer, and a remainder is smaller than the divisor.
LEMMA DivisionWords ==
    ASSUME NEW a \in Words, NEW b \in Words, ~DivisionTraps(a, b)
    PROVE  b # 0 /\ Quotient(a, b) \in Words /\ Remainder(a, b) \in Words
<1>1. PICK h : h = Half
  OBVIOUS
<1>2. h \in Nat /\ h >= 2 /\ MinInt = -h /\ MaxInt = h - 1 /\ Words = (-h)..(h - 1)
  BY <1>1, Widths
<1>3. b # 0 /\ IsInt(Quotient(a, b))
  BY DEF DivisionTraps
<1>4. PICK x, y : x = AbsOf(a) /\ y = AbsOf(b)
  OBVIOUS
<1>5. /\ a \in Int /\ b \in Int /\ x \in Nat /\ y \in Nat /\ y > 0 /\ x <= h /\ y <= h
      /\ x = (IF a < 0 THEN -a ELSE a) /\ y = IF b < 0 THEN -b ELSE b
  BY <1>2, <1>3, <1>4 DEF AbsOf
<1>6. PICK q, r : q = x \div y /\ r = x % y
  OBVIOUS
<1>7. q \in Int /\ r \in 0..(y - 1) /\ x = y * q + r
  BY <1>5, <1>6, ModFacts
<1>8. Quotient(a, b) = (IF (a < 0) = (b < 0) THEN 1 ELSE -1) * q
  BY <1>4, <1>6 DEF Quotient
<1>9. Quotient(a, b) = IF (a < 0) = (b < 0) THEN q ELSE -q
  BY <1>7, <1>8
<1>10. Quotient(a, b) \in Words
  BY <1>2, <1>3, <1>7, <1>9 DEF IsInt
<1>11. Remainder(a, b) = IF a < 0 THEN -r ELSE r
  <2>1. Remainder(a, b) = a - b * Quotient(a, b)
    BY DEF Remainder
  <2>2. CASE a < 0 /\ b < 0
    <3>1. Remainder(a, b) = a - b * q /\ a = -x /\ b = -y
      BY <1>5, <1>9, <2>1, <2>2
    <3>2. b * q = -(y * q)
      BY <1>5, <1>7, <3>1
    <3> QED BY <1>5, <1>7, <2>2, <3>1, <3>2
  <2>3. CASE a < 0 /\ ~(b < 0)
    <3>1. Remainder(a, b) = a - b * (-q) /\ a = -x /\ b = y
      BY <1>5, <1>9, <2>1, <2>3
    <3>2. b * (-q) = -(y * q)
      BY <1>5, <1>7, <3>1
    <3> QED BY <1>5, <1>7, <2>3, <3>1, <3>2
  <2>4. CASE ~(a < 0) /\ b < 0
    <3>1. Remainder(a, b) = a - b * (-q) /\ a = x /\ b = -y
      BY <1>5, <1>9, <2>1, <2>4
    <3>2. b * (-q) = y * q
      BY <1>5, <1>7, <3>1
    <3> QED BY <1>5, <1>7, <2>4, <3>1, <3>2
  <2>5. CASE ~(a < 0) /\ ~(b < 0)
    <3>1. Remainder(a, b) = a - b * q /\ a = x /\ b = y
      BY <1>5, <1>9, <2>1, <2>5
    <3> QED BY <1>5, <1>7, <2>5, <3>1
  <2> QED BY <2>2, <2>3, <2>4, <2>5
<1>12. Remainder(a, b) \in Words
  BY <1>2, <1>5, <1>7, <1>11
<1> QED BY <1>3, <1>10, <1>12

\* The powers of two that a shift or a bit needs.
LEMMA Powers == \A n \in 0..32 : 2^n \in Nat \ {0}
<1>0. PICK f : f = [k \in 0..32 |-> 2^k]
  OBVIOUS
<1>1. f[0] = 1 /\ f[1] = 2 /\ f[2] = 4 /\ f[3] = 8 /\ f[4] = 16 /\ f[5] = 32 /\ f[6] = 64 /\ f[7] = 128
  BY <1>0, SMT
<1>2. f[8] = 256 /\ f[9] = 512 /\ f[10] = 1024 /\ f[11] = 2048 /\ f[12] = 4096
  BY <1>0, SMT
<1>3. f[13] = 8192 /\ f[14] = 16384 /\ f[15] = 32768 /\ f[16] = 65536 /\ f[17] = 131072
  BY <1>0, SMT
<1>4. f[18] = 262144 /\ f[19] = 524288 /\ f[20] = 1048576 /\ f[21] = 2097152 /\ f[22] = 4194304
  BY <1>0, SMT
<1>5. f[23] = 8388608 /\ f[24] = 16777216 /\ f[25] = 33554432 /\ f[26] = 67108864 /\ f[27] = 134217728
  BY <1>0, SMT
<1>6. f[28] = 268435456 /\ f[29] = 536870912 /\ f[30] = 1073741824 /\ f[31] = 2147483648 /\ f[32] = 2 * 2147483648
  BY <1>0, SMT
<1>7. \A k \in 0..32 : f[k] \in Nat \ {0}
  <2>1. \A k \in 0..12 : f[k] \in Nat \ {0}
    BY <1>1, <1>2, SMT
  <2>2. \A k \in 13..22 : f[k] \in Nat \ {0}
    BY <1>3, <1>4, SMT
  <2>3. \A k \in 23..32 : f[k] \in Nat \ {0}
    BY <1>5, <1>6, SMT
  <2> QED BY <2>1, <2>2, <2>3, SMT
<1> QED BY <1>0, <1>7

\* The sums of the powers that ones names, up to the n-th.
Sums(f, ones, n) ==
    f = [k \in 0..n |-> IF k = 0 THEN 0
                        ELSE f[k - 1] + (IF k - 1 \in ones THEN 2^(k - 1) ELSE 0)]

\* There are such sums.
LEMMA SumsExist ==
    ASSUME NEW ones, NEW n \in Nat
    PROVE  \E f : Sums(f, ones, n)
<1>0. PICK G : G = {m \in 0..n : \E f : Sums(f, ones, m)}
  OBVIOUS
<1>1. 0 \in G
  <2>1. PICK f : f = [k \in 0..0 |-> 0]
    OBVIOUS
  <2>2. f = [k \in 0..0 |-> IF k = 0 THEN 0
                            ELSE f[k - 1] + (IF k - 1 \in ones THEN 2^(k - 1) ELSE 0)]
    BY <2>1
  <2> QED BY <1>0, <2>2 DEF Sums
<1>2. ASSUME NEW m \in 0..n, m \in G, m < n PROVE m + 1 \in G
  <2>1. PICK f : Sums(f, ones, m)
    BY <1>0, <1>2
  <2>2. PICK u : u = f[m] + (IF m \in ones THEN 2^m ELSE 0)
    OBVIOUS
  <2>3. PICK g : g = [k \in 0..(m + 1) |-> IF k = m + 1 THEN u ELSE f[k]]
    OBVIOUS
  <2>4. g[m + 1] = u /\ \A k \in 0..m : g[k] = f[k]
    BY <2>3
  <2>5. ASSUME NEW k \in 0..(m + 1)
        PROVE  g[k] = IF k = 0 THEN 0 ELSE g[k - 1] + (IF k - 1 \in ones THEN 2^(k - 1) ELSE 0)
    <3>1. CASE k = m + 1
      <4>1. k - 1 = m /\ g[k - 1] = f[m] /\ k # 0
        BY <2>4, <3>1
      <4> QED BY <2>2, <2>4, <3>1, <4>1
    <3>2. CASE k = 0
      <4>1. k \in 0..m
        BY <3>2
      <4>2. f[k] = 0
        BY <2>1, <3>2, <4>1 DEF Sums
      <4> QED BY <2>4, <3>2, <4>1, <4>2
    <3>3. CASE k # m + 1 /\ k # 0
      <4>1. k \in 0..m /\ k - 1 \in 0..m
        BY <3>3
      <4>2. f[k] = f[k - 1] + (IF k - 1 \in ones THEN 2^(k - 1) ELSE 0)
        BY <2>1, <3>3, <4>1 DEF Sums
      <4> QED BY <2>4, <3>3, <4>1, <4>2
    <3> QED BY <3>1, <3>2, <3>3
  <2>6. g = [k \in 0..(m + 1) |-> IF k = 0 THEN 0
                                  ELSE g[k - 1] + (IF k - 1 \in ones THEN 2^(k - 1) ELSE 0)]
    BY <2>3, <2>5
  <2> QED BY <1>0, <1>2, <2>6 DEF Sums
<1>3. \A m \in 0..n : m \in G
  BY <1>1, <1>2, PassedOn
<1> QED BY <1>0, <1>3

\* A set of bits makes a word.
LEMMA WordIsWord == \A ones : Word(ones) \in Words
<1> TAKE ones
<1>1. W \in 2..32
  BY Widths
<1>2. PICK h : h = CHOOSE f : Sums(f, ones, W)
  OBVIOUS
<1>3. Sums(h, ones, W)
  BY <1>1, <1>2, SumsExist
<1>4. Word(ones) = Signed(h[W])
  BY <1>2 DEF Word, Sums
<1>5. PICK G : G = {n \in 0..W : h[n] \in Int}
  OBVIOUS
<1>6. 0 \in G
  <2>1. 0 \in 0..W
    BY <1>1
  <2> QED BY <1>3, <1>5, <2>1 DEF Sums
<1>7. ASSUME NEW n \in 0..W, n \in G, n < W PROVE n + 1 \in G
  <2>1. n + 1 \in 0..W /\ n + 1 # 0 /\ (n + 1) - 1 = n /\ n \in 0..32
    BY <1>1, <1>7
  <2>2. h[n + 1] = h[n] + (IF n \in ones THEN 2^n ELSE 0)
    BY <1>3, <2>1 DEF Sums
  <2>3. 2^n \in Int
    BY <2>1, Powers
  <2> QED BY <1>5, <1>7, <2>1, <2>2, <2>3
<1>8. W \in G
  <2>1. 0 \in Nat /\ W \in Nat
    BY <1>1
  <2>2. \A k \in 0..W : k \in G
    BY <1>6, <1>7, <2>1, PassedOn
  <2> QED BY <1>1, <2>2
<1> QED BY <1>4, <1>5, <1>8, SignedWord

-----------------------------------------------------------------------------
(* What the instructions make of two words.                                *)

Divisions == {"DIV", "MOD"}
Traps(o, a, b) == o \in Divisions /\ DivisionTraps(a, b)

\* The word that the instructions of a binary operator leave, 0 where they trap.
Gives(o, a, b) ==
    CASE o = "ADD" -> Signed(a + b)
      [] o = "SUB" -> Signed(a - b)
      [] o = "MUL" -> Signed(a * b)
      [] o = "DIV" -> IF DivisionTraps(a, b) THEN 0 ELSE Quotient(a, b)
      [] o = "MOD" -> IF DivisionTraps(a, b) THEN 0 ELSE Remainder(a, b)
      [] o = "SHL" -> Signed(Unsigned(a) * 2^(b % W))
      [] o = "SHR" -> Signed(Unsigned(a) \div 2^(b % W))
      [] o = "BITAND" -> BitAnd(a, b)
      [] o = "BITOR"  -> BitOr(a, b)
      [] o = "BITXOR" -> BitXor(a, b)
      [] OTHER -> Truth(Holds(o, a, b))

UnGives(o, a) ==
    CASE o = "NEG" -> Signed(-a) [] o = "BITNOT" -> BitNot(a) [] OTHER -> Truth(a = 0)

\* The operators that have instructions, by name.
LEMMA OpNames ==
    /\ BinaryOps = {"ADD", "SUB", "BITAND", "BITXOR", "BITOR", "LT", "LE", "GT", "GE", "EQ", "NE",
                    "MUL", "DIV", "MOD", "SHL", "SHR"}
    /\ DOMAIN SimpleOps = {"ADD", "SUB", "BITAND", "BITXOR", "BITOR"}
<1>1. DOMAIN SimpleOps = {"ADD", "SUB", "BITAND", "BITXOR", "BITOR"}
  BY DEF SimpleOps
<1> QED BY <1>1 DEF BinaryOps, Relations

\* A truth value is a word.
LEMMA TruthWord == 0 \in Words /\ 1 \in Words /\ \A b : Truth(b) \in Words
BY Widths DEF Truth

\* A shift moves a word by less than its width.
LEMMA ShiftFacts ==
    ASSUME NEW b \in Int
    PROVE  /\ b % W \in 0..(W - 1) /\ 2^(b % W) \in Nat \ {0}
           /\ b \in 0..(W - 1) => b % W = b
<1>1. W \in Nat /\ W > 0 /\ W <= 32
  BY Widths
<1>2. PICK u, k : u = b % W /\ k = b \div W
  OBVIOUS
<1>3. u \in 0..(W - 1) /\ k \in Int /\ b = W * k + u
  BY <1>1, <1>2, ModFacts
<1>4. u \in 0..32
  BY <1>1, <1>3
<1>5. b \in 0..(W - 1) => u = b
  <2> SUFFICES ASSUME b \in 0..(W - 1) PROVE u = b
    OBVIOUS
  <2>1. CASE k >= 1
    <3>1. W * k >= W
      BY <1>1, <1>3, <2>1
    <3> QED BY <1>1, <1>3, <3>1
  <2>2. CASE k <= -1
    <3>1. W * k <= -W
      BY <1>1, <1>3, <2>2
    <3> QED BY <1>1, <1>3, <3>1
  <2>3. CASE k = 0
    BY <1>1, <1>3, <2>3
  <2> QED BY <1>3, <2>1, <2>2, <2>3
<1>6. 2^u \in Nat \ {0}
  BY <1>4, Powers
<1> QED BY <1>2, <1>3, <1>5, <1>6

\* The instructions leave words.
LEMMA GivesWord ==
    ASSUME NEW o \in BinaryOps, NEW a \in Words, NEW b \in Words
    PROVE  Gives(o, a, b) \in Words
<1>1. a \in Int /\ b \in Int
  BY Widths
<1>2. CASE o \in {"ADD", "SUB", "MUL"}
  <2>1. a + b \in Int /\ a - b \in Int /\ a * b \in Int
    BY <1>1
  <2>2. Signed(a + b) \in Words /\ Signed(a - b) \in Words /\ Signed(a * b) \in Words
    BY <2>1, SignedWord
  <2> QED BY <1>2, <2>2 DEF Gives
<1>3. CASE o \in {"DIV", "MOD"}
  <2>1. ~DivisionTraps(a, b) => Quotient(a, b) \in Words /\ Remainder(a, b) \in Words
    BY DivisionWords
  <2> QED BY <1>3, <2>1, TruthWord DEF Gives
<1>4. CASE o \in {"SHL", "SHR"}
  <2>1. PICK p, u : p = 2^(b % W) /\ u = Unsigned(a)
    OBVIOUS
  <2>2. p \in Nat \ {0}
    BY <1>1, <2>1, ShiftFacts
  <2>3. u \in Nat
    BY <1>1, <2>1, SignedWord, Widths
  <2>4. u * p \in Int /\ u \div p \in Int
    BY <2>2, <2>3, ModFacts
  <2>5. Signed(u * p) \in Words /\ Signed(u \div p) \in Words
    BY <2>4, SignedWord
  <2> QED BY <1>4, <2>1, <2>5 DEF Gives
<1>5. CASE o \in {"BITAND", "BITOR", "BITXOR"}
  BY <1>5, WordIsWord DEF Gives, BitAnd, BitOr, BitXor
<1>6. CASE o \in Relations
  <2>1. Gives(o, a, b) = Truth(Holds(o, a, b))
    BY <1>6 DEF Gives, Relations
  <2>2. Truth(Holds(o, a, b)) \in {0, 1}
    BY DEF Truth
  <2> QED BY <2>1, <2>2, TruthWord
<1> QED BY <1>2, <1>3, <1>4, <1>5, <1>6, OpNames DEF Relations

\* So do those of a unary operator.
LEMMA UnGivesWord ==
    ASSUME NEW o, NEW a \in Words
    PROVE  UnGives(o, a) \in Words
<1>1. a \in Int /\ -a \in Int
  BY Widths
<1>2. Signed(-a) \in Words
  BY <1>1, SignedWord
<1>3. BitNot(a) \in Words
  BY Widths DEF BitNot
<1>4. Truth(a = 0) \in Words
  BY TruthWord
<1> QED BY <1>2, <1>3, <1>4 DEF UnGives

\* What C defines is no value that C leaves undefined, and a word.
LEMMA IntOrDefined ==
    ASSUME NEW n \in Int
    PROVE  /\ IntOr(n) # Undefined => n \in Words /\ IntOr(n) = n
           /\ Undefined \notin Words
<1>1. PICK h : h = Half
  OBVIOUS
<1>2. h \in Nat /\ h >= 2 /\ 2^W = 2 * h /\ MinInt = -h /\ MaxInt = h - 1 /\ Words = (-h)..(h - 1)
  BY <1>1, Widths
<1> QED BY <1>2 DEF IntOr, Undefined, IsInt

\* Where C defines the value of a binary operator, the instructions leave it and do not trap.
LEMMA ApplyGives ==
    ASSUME NEW o \in BinaryOps, NEW a \in Words, NEW b \in Words, Apply(o, a, b) # Undefined
    PROVE  Gives(o, a, b) = Apply(o, a, b) /\ ~Traps(o, a, b)
<1>1. a \in Int /\ b \in Int
  BY Widths
<1>2. CASE o \in {"ADD", "SUB", "MUL"}
  <2>1. PICK n : n = CASE o = "ADD" -> a + b [] o = "SUB" -> a - b [] o = "MUL" -> a * b
    OBVIOUS
  <2>2. n \in Int
    BY <1>1, <1>2, <2>1
  <2>3. Apply(o, a, b) = IntOr(n) /\ Gives(o, a, b) = Signed(n)
    BY <1>2, <2>1 DEF Apply, Gives
  <2>4. n \in Words /\ IntOr(n) = n
    BY <2>2, <2>3, IntOrDefined
  <2>5. Signed(n) = n
    BY <2>2, <2>4, SignedWord
  <2> QED BY <1>2, <2>3, <2>4, <2>5 DEF Traps, Divisions
<1>3. CASE o \in {"DIV", "MOD"}
  <2>1. ~DivisionTraps(a, b)
    BY <1>3 DEF Apply
  <2> QED BY <1>3, <2>1 DEF Apply, Gives, Traps
<1>4. CASE o \in {"SHL", "SHR"}
  <2>1. ~(a < 0) /\ b \in 0..(W - 1)
    BY <1>4 DEF Apply
  <2>2. b % W = b /\ Unsigned(a) = a
    BY <1>1, <2>1, ShiftFacts, SignedWord
  <2>3. PICK p : p = 2^b
    OBVIOUS
  <2>4. p \in Nat \ {0}
    BY <1>1, <2>2, <2>3, ShiftFacts
  <2>5. CASE o = "SHL"
    <3>1. Apply(o, a, b) = IntOr(a * p) /\ Gives(o, a, b) = Signed(a * p) /\ a * p \in Int
      BY <1>1, <2>1, <2>2, <2>3, <2>4, <2>5 DEF Apply, Gives
    <3>2. a * p \in Words /\ IntOr(a * p) = a * p
      BY <3>1, IntOrDefined
    <3>3. Signed(a * p) = a * p
      BY <3>1, <3>2, SignedWord
    <3> QED BY <2>5, <3>1, <3>2, <3>3 DEF Traps, Divisions
  <2>6. CASE o = "SHR"
    <3>1. PICK k, r : k = a \div p /\ r = a % p
      OBVIOUS
    <3>2. Apply(o, a, b) = k /\ Gives(o, a, b) = Signed(k)
      BY <1>1, <2>1, <2>2, <2>3, <2>6, <3>1 DEF Apply, Gives
    <3>3. k \in Int /\ r \in 0..(p - 1) /\ a = p * k + r
      BY <1>1, <2>4, <3>1, ModFacts
    <3>4. 0 <= k /\ k <= a
      <4>1. CASE k <= -1
        <5>1. p * k <= -p
          BY <2>4, <3>3, <4>1
        <5> QED BY <1>1, <2>1, <2>4, <3>3, <5>1
      <4>2. CASE k >= 0
        <5>1. p * k >= k
          BY <2>4, <3>3, <4>2
        <5> QED BY <1>1, <2>1, <2>4, <3>3, <4>2, <5>1
      <4> QED BY <3>3, <4>1, <4>2
    <3>5. k \in Words
      BY <1>1, <3>3, <3>4, Widths
    <3>6. Signed(k) = k
      BY <3>3, <3>5, SignedWord
    <3> QED BY <2>6, <3>2, <3>6 DEF Traps, Divisions
  <2> QED BY <1>4, <2>5, <2>6
<1>5. CASE o \in {"BITAND", "BITOR", "BITXOR"}
  BY <1>5 DEF Gives, Apply, Traps, Divisions
<1>6. CASE o \in Relations
  BY <1>6 DEF Gives, Apply, Traps, Relations, Divisions
<1> QED BY <1>2, <1>3, <1>4, <1>5, <1>6, OpNames DEF Relations

-----------------------------------------------------------------------------
(* What the parts of an expression are worth.                              *)

Parts(e) == Subterms(e) \cup {NoExpr}
Valued(f, e) == f = [x \in Parts(e) |-> ValueOf(x, f[x.lhs], f[x.rhs])]

\* What the levels of a compiled expression are: the parts, and nothing below them.
LEMMA LevelFacts ==
    ASSUME body \in Bodies, body # <<>>
    PROVE  /\ Depth \in Nat /\ Levels(Source)[Depth + 1] = {}
           /\ \A n \in 0..Depth : \A x \in Levels(Source)[n] : Below(x) \subseteq Levels(Source)[n + 1]
<1>1. PICK h : h = Levels(Source)
  OBVIOUS
<1>2. Depth \in Nat /\ h[Depth + 1] = {}
  BY <1>1, DepthAssumption DEF Source
<1>3. ASSUME NEW n \in 0..Depth, NEW x \in h[n] PROVE Below(x) \subseteq h[n + 1]
  <2>1. h[n + 1] = UNION {Below(y) : y \in h[n]}
    BY <1>1, LevelsExist
  <2> QED BY <1>3, <2>1
<1> QED BY <1>1, <1>2, <1>3

\* The parts at the k-th level from the bottom and below.
Deep(h, k) == {x \in UNION {h[n] : n \in 0..Depth} : \E n \in 0..Depth : n > Depth - k /\ x \in h[n]}

\* A missing expression is worth nothing.
LEMMA NothingsValue ==
    ASSUME NEW x, x.op = "NONE", NEW a, NEW b
    PROVE  ValueOf(x, a, b) = Undefined
BY OpNames DEF ValueOf

\* Every part has a value.
LEMMA ValuesExist ==
    ASSUME body \in Bodies, body # <<>>
    PROVE  \E f : Valued(f, Source)
<1>1. PICK h, S, d : h = Levels(Source) /\ S = Parts(Source) /\ d = Depth
  OBVIOUS
<1>2. d \in Nat /\ h[d + 1] = {} /\ \A n \in 0..d : \A x \in h[n] : Below(x) \subseteq h[n + 1]
  BY <1>1, LevelFacts
<1>3. S = (UNION {h[n] : n \in 0..d}) \cup {NoExpr}
  BY <1>1 DEF Parts, Subterms
<1>4. PICK T : T = [k \in 0..(d + 1) |-> Deep(h, k)]
  OBVIOUS
<1>5. /\ \A k \in 0..(d + 1) : T[k] \subseteq S
      /\ T[0] = {} /\ S = T[d + 1] \cup {NoExpr}
  <2>1. \A k \in 0..(d + 1) : T[k] = {x \in UNION {h[n] : n \in 0..d} : \E n \in 0..d : n > d - k /\ x \in h[n]}
    BY <1>1, <1>4 DEF Deep
  <2>2. \A k \in 0..(d + 1) : T[k] \subseteq S
    BY <1>3, <2>1
  <2>3. T[0] = {}
    BY <1>2, <2>1
  <2>4. \A n \in 0..d : n > d - (d + 1)
    BY <1>2
  <2>5. T[d + 1] = UNION {h[n] : n \in 0..d}
    BY <1>2, <2>1, <2>4
  <2> QED BY <1>3, <2>2, <2>3, <2>5
<1>6. ASSUME NEW k \in 0..(d + 1), k < d + 1, NEW x \in T[k + 1] PROVE Below(x) \subseteq T[k]
  <2>1. k + 1 \in 0..(d + 1)
    BY <1>2, <1>6
  <2>2. PICK n \in 0..d : n > d - (k + 1) /\ x \in h[n]
    BY <1>1, <1>4, <1>6, <2>1 DEF Deep
  <2>3. Below(x) \subseteq h[n + 1]
    BY <1>2, <2>2
  <2>4. CASE n = d
    BY <1>2, <2>3, <2>4
  <2>5. CASE n # d
    <3>1. n + 1 \in 0..d /\ n + 1 > d - k
      BY <1>2, <2>2, <2>5
    <3>2. h[n + 1] \subseteq T[k]
      BY <1>1, <1>4, <3>1 DEF Deep
    <3> QED BY <2>3, <3>2
  <2> QED BY <2>4, <2>5
<1>7. PICK G : G = {k \in 0..(d + 1) : \E f : f = [x \in S |-> f[x]] /\ \A x \in T[k] \cup {NoExpr} :
                                            f[x] = ValueOf(x, f[x.lhs], f[x.rhs])}
  OBVIOUS
<1>8. 0 \in G
  <2>1. PICK f : f = [x \in S |-> Undefined]
    OBVIOUS
  <2>2. f[NoExpr] = Undefined
    BY <1>3, <2>1
  <2>3. f[NoExpr] = ValueOf(NoExpr, f[NoExpr.lhs], f[NoExpr.rhs])
    BY <2>2, NothingsValue DEF NoExpr
  <2> QED BY <1>2, <1>5, <1>7, <2>1, <2>3
<1>9. ASSUME NEW k \in 0..(d + 1), k \in G, k < d + 1 PROVE k + 1 \in G
  <2>1. PICK f : f = [x \in S |-> f[x]] /\ \A x \in T[k] \cup {NoExpr} : f[x] = ValueOf(x, f[x.lhs], f[x.rhs])
    BY <1>7, <1>9
  <2>2. PICK g : g = [x \in S |-> ValueOf(x, f[x.lhs], f[x.rhs])]
    OBVIOUS
  <2>3. k + 1 \in 0..(d + 1)
    BY <1>2, <1>9
  <2>4. \A x \in T[k] \cup {NoExpr} : g[x] = f[x]
    BY <1>3, <1>5, <2>1, <2>2
  <2>5. ASSUME NEW x \in T[k + 1] \cup {NoExpr} PROVE g[x] = ValueOf(x, g[x.lhs], g[x.rhs])
    <3>1. x \in S /\ g[x] = ValueOf(x, f[x.lhs], f[x.rhs])
      BY <1>3, <1>5, <2>2, <2>3
    <3>2. CASE x.op = "NONE"
      BY <3>1, <3>2, NothingsValue
    <3>3. CASE x.op # "NONE"
      <4>1. x \in T[k + 1]
        BY <3>3 DEF NoExpr
      <4>2. {x.lhs, x.rhs} \ {NoExpr} \subseteq T[k]
        BY <1>6, <1>9, <3>3, <4>1 DEF Below
      <4>3. x.lhs \in T[k] \cup {NoExpr} /\ x.rhs \in T[k] \cup {NoExpr}
        BY <4>2
      <4> QED BY <2>4, <3>1, <4>3
    <3> QED BY <3>2, <3>3
  <2>6. g = [x \in S |-> g[x]]
    BY <2>2
  <2> QED BY <1>7, <2>3, <2>5, <2>6
<1>10. d + 1 \in G
  <2>1. d + 1 \in Nat /\ d + 1 \in 0..(d + 1) /\ 0 \in Nat
    BY <1>2
  <2>2. \A k \in 0..(d + 1) : k \in G
    BY <1>8, <1>9, <2>1, PassedOn
  <2> QED BY <2>1, <2>2
<1>11. PICK f : f = [x \in S |-> f[x]] /\ \A x \in T[d + 1] \cup {NoExpr} : f[x] = ValueOf(x, f[x.lhs], f[x.rhs])
  BY <1>7, <1>10
<1>12. f = [x \in S |-> ValueOf(x, f[x.lhs], f[x.rhs])]
  BY <1>5, <1>11
<1> QED BY <1>1, <1>12 DEF Valued

\* What the compiled expression means is the value of the whole.
LEMMA MeaningIs ==
    ASSUME body \in Bodies, body # <<>>, Source # NoExpr
    PROVE  \E f : Valued(f, Source) /\ Meaning(Source) = f[Source]
<1>1. PICK f : f = CHOOSE g : Valued(g, Source)
  OBVIOUS
<1>2. Valued(f, Source)
  BY <1>1, ValuesExist
<1>3. Meaning(Source) = f[Source]
  BY <1>1 DEF Meaning, Valued, Parts
<1> QED BY <1>2, <1>3

-----------------------------------------------------------------------------
(* What is claimed of the parts of an expression: D are those that have a  *)
(* value when they are run, V the values they may have.  Two claims are    *)
(* made: the one that C makes ("exact"), and that no part is a variable    *)
(* ("any"), whatever their values are.                                     *)

\* Whether a word makes && or || leave for the first label.
Leaving(o, a) == IF o = "AND" THEN a = 0 ELSE a # 0

\* What && or || is worth when an operand makes it leave.
LeftWith(o) == 1 - through(o)

\* The claims for x follow from those for its operands.
UnaryFair(D, V, x) ==
    x.op \in UnaryOps => \A a \in V[x.lhs] : UnGives(x.op, a) \in V[x]

BinaryFair(D, V, x, m) ==
    x.op \in BinaryOps =>
       \A a \in V[x.lhs], b \in V[x.rhs] :
          /\ Gives(x.op, a, b) \in V[x]
          /\ m = "exact" => ~Traps(x.op, a, b)

LogicalFair(D, V, x) ==
    x.op \in Logical =>
       \A a \in V[x.lhs] :
          IF Leaving(x.op, a) THEN LeftWith(x.op) \in V[x]
          ELSE /\ x.rhs \in D
               /\ \A b \in V[x.rhs] :
                     IF Leaving(x.op, b) THEN LeftWith(x.op) \in V[x] ELSE through(x.op) \in V[x]

Fair(D, V, x, m) ==
    /\ x.op # "VAR"
    /\ x.op = "CONST" => Signed(x.val) \in V[x]
    /\ x.op \notin Childless => x.lhs \in D
    /\ x.op \notin Childless \cup Logical => x.rhs \in D
    /\ UnaryFair(D, V, x) /\ BinaryFair(D, V, x, m) /\ LogicalFair(D, V, x)

Sound(D, V, r, m) ==
    /\ r \in D /\ D \subseteq Parts(r)
    /\ \A x \in Parts(r) : V[x] \subseteq Words
    /\ \A x \in D : Fair(D, V, x, m)

\* The operands of a part are parts or missing.
LEMMA PartsClosed ==
    ASSUME body \in Bodies, body # <<>>, Source # NoExpr, NEW x \in Parts(Source), x.op # "NONE"
    PROVE  x.lhs \in Parts(Source) /\ x.rhs \in Parts(Source)
<1>1. Root = Source /\ x \in Subterms(Root)
  BY DEF Root, Parts, NoExpr
<1>2. /\ x.lhs = NoExpr \/ x.lhs \in Subterms(Root)
      /\ x.rhs = NoExpr \/ x.rhs \in Subterms(Root)
  BY <1>1, SubtermsClosed
<1> QED BY <1>1, <1>2 DEF Parts

\* If no part is a variable, all have a value.
LEMMA SoundAny ==
    ASSUME body \in Bodies, body # <<>>, Source # NoExpr, \A x \in Subterms(Source) : x.op # "VAR"
    PROVE  \E D, V : Sound(D, V, Source, "any")
<1>1. PICK D, V : D = Parts(Source) /\ V = [x \in D |-> Words]
  OBVIOUS
<1>2. Source \in D
  BY <1>1, SubtermItself DEF Parts
<1>3. ASSUME NEW x \in D PROVE Fair(D, V, x, "any")
  <2>1. x.op # "VAR"
    BY <1>1 DEF Parts, NoExpr
  <2>2. x.op = "CONST" => Signed(x.val) \in V[x]
    <3> SUFFICES ASSUME x.op = "CONST" PROVE Signed(x.val) \in V[x]
      OBVIOUS
    <3>1. x \in Subterms(Source)
      BY <1>1 DEF Parts, NoExpr
    <3>2. PICK c : c = x.val
      OBVIOUS
    <3>3. c \in Int
      BY <3>1, <3>2, TreeAssumption DEF Source
    <3>4. Signed(c) \in Words
      BY <3>3, SignedWord
    <3> QED BY <1>1, <3>2, <3>4
  <2>3. x.op # "NONE" => x.lhs \in D /\ x.rhs \in D
    BY <1>1, PartsClosed
  <2>4. V[x] = Words /\ (x.op # "NONE" => V[x.lhs] = Words /\ V[x.rhs] = Words)
    BY <1>1, <2>3
  <2>5. UnaryFair(D, V, x)
    <3>1. x.op \in UnaryOps => x.op # "NONE"
      BY DEF UnaryOps
    <3> QED BY <2>4, <3>1, UnGivesWord DEF UnaryFair
  <2>6. BinaryFair(D, V, x, "any")
    <3>1. x.op \in BinaryOps => x.op # "NONE"
      BY OpNames
    <3> QED BY <2>4, <3>1, GivesWord DEF BinaryFair
  <2>7. LogicalFair(D, V, x)
    <3>1. x.op \in Logical => x.op # "NONE" /\ through(x.op) \in {0, 1} /\ LeftWith(x.op) \in {0, 1}
      BY DEF Logical, through, LeftWith
    <3> QED BY <2>3, <2>4, <3>1, TruthWord DEF LogicalFair
  <2> QED BY <2>1, <2>2, <2>3, <2>5, <2>6, <2>7 DEF Fair, Childless
<1> QED BY <1>1, <1>2, <1>3 DEF Sound

\* What C defines is claimed exactly.
LEMMA SoundExact ==
    ASSUME body \in Bodies, body # <<>>, Source # NoExpr, Meaning(Source) # Undefined
    PROVE  \E D, V : Sound(D, V, Source, "exact") /\ V[Source] \subseteq {Meaning(Source)}
<1>1. PICK f : Valued(f, Source) /\ Meaning(Source) = f[Source]
  BY MeaningIs
<1>2. PICK S : S = Parts(Source)
  OBVIOUS
<1>3. \A x \in S : f[x] = ValueOf(x, f[x.lhs], f[x.rhs])
  BY <1>1, <1>2 DEF Valued
<1>4. PICK D, V : D = {x \in S : f[x] # Undefined} \cup {NoExpr} /\ V = [x \in S |-> {f[x]} \cap Words]
  OBVIOUS
<1>5. Source \in D /\ D \subseteq S /\ Source \in S
  BY <1>1, <1>2, <1>4, SubtermItself DEF Parts
<1>6. ASSUME NEW x \in D PROVE Fair(D, V, x, "exact")
  <2>1. CASE x = NoExpr
    <3>1. x.op = "NONE"
      BY <2>1 DEF NoExpr
    <3>2. x.op \notin BinaryOps
      BY <3>1, OpNames
    <3> QED BY <3>1, <3>2 DEF Fair, Childless, UnaryFair, BinaryFair, LogicalFair, Logical, UnaryOps
  <2>2. CASE x # NoExpr
    <3>1. x \in Subterms(Source) /\ x \in S /\ f[x] # Undefined
      BY <1>2, <1>4, <2>2 DEF Parts
    <3>2. PICK v, a, b : v = f[x] /\ a = f[x.lhs] /\ b = f[x.rhs]
      OBVIOUS
    <3>3. v = ValueOf(x, a, b) /\ v # Undefined
      BY <1>3, <3>1, <3>2
    <3>4. V[x] = {v} \cap Words
      BY <1>4, <3>1, <3>2
    <3>5. x.op # "NONE" => x.lhs \in S /\ x.rhs \in S
      BY <1>2, <3>1, PartsClosed
    <3>6. x.op # "NONE" => V[x.lhs] = {a} \cap Words /\ V[x.rhs] = {b} \cap Words
      BY <1>4, <3>2, <3>5
    <3>7. x.op # "NONE" => (a # Undefined => x.lhs \in D) /\ (b # Undefined => x.rhs \in D)
      BY <1>4, <3>2, <3>5
    <3>8. CASE x.op = "CONST"
      <4>1. PICK c : c = x.val
        OBVIOUS
      <4>2. c \in Int /\ v = IntOr(c)
        BY <3>1, <3>3, <3>8, <4>1, TreeAssumption, OpNames DEF ValueOf, Source
      <4>3. v = Signed(x.val) /\ v \in Words
        BY <3>3, <4>1, <4>2, IntOrDefined, SignedWord
      <4>4. x.op \notin BinaryOps
        BY <3>8, OpNames
      <4> QED BY <3>4, <3>8, <4>3, <4>4 DEF Fair, Childless, UnaryFair, BinaryFair, LogicalFair, Logical, UnaryOps
    <3>9. CASE x.op \in Logical
      <4>1. x.op # "NONE" /\ x.op \notin Childless /\ x.op \notin UnaryOps /\ x.op # "CONST" /\ x.op # "VAR"
        BY <3>9 DEF Logical, Childless, UnaryOps
      <4>2. x.op \notin BinaryOps
        BY <3>9, OpNames DEF Logical
      <4>3. a # Undefined
        BY <3>3, <3>9, OpNames DEF ValueOf, Logical
      <4>4. Leaving(x.op, a) => v = LeftWith(x.op)
        BY <3>3, <3>9, <4>3, OpNames DEF ValueOf, Logical, Leaving, LeftWith, through
      <4>5. ~Leaving(x.op, a) => b # Undefined /\ v = IF Leaving(x.op, b) THEN LeftWith(x.op) ELSE through(x.op)
        BY <3>3, <3>9, <4>3, OpNames DEF ValueOf, Logical, Leaving, LeftWith, through, Truth
      <4>6. through(x.op) \in Words /\ LeftWith(x.op) \in Words
        BY TruthWord DEF through, LeftWith
      <4>7. LogicalFair(D, V, x)
        <5> SUFFICES ASSUME NEW c \in V[x.lhs]
                     PROVE  IF Leaving(x.op, c) THEN LeftWith(x.op) \in V[x]
                            ELSE /\ x.rhs \in D
                                 /\ \A e \in V[x.rhs] :
                                       IF Leaving(x.op, e) THEN LeftWith(x.op) \in V[x]
                                       ELSE through(x.op) \in V[x]
          BY DEF LogicalFair
        <5>1. c = a
          BY <3>6, <4>1
        <5>2. \A e \in V[x.rhs] : e = b
          BY <3>6, <4>1
        <5> QED BY <3>4, <3>7, <4>1, <4>4, <4>5, <4>6, <5>1, <5>2
      <4>8. UnaryFair(D, V, x) /\ BinaryFair(D, V, x, "exact")
        BY <4>1, <4>2 DEF UnaryFair, BinaryFair
      <4> QED BY <3>7, <3>9, <4>1, <4>3, <4>7, <4>8 DEF Fair
    <3>10. CASE x.op \in UnaryOps
      <4>1. x.op \notin Childless \cup Logical
        BY <3>10 DEF Logical, Childless, UnaryOps
      <4>2. x.op \notin BinaryOps
        BY <3>10, OpNames DEF UnaryOps
      <4>3. a # Undefined /\ x.rhs = NoExpr
        <5>1. a # Undefined
          BY <3>3, <3>10, OpNames DEF ValueOf, UnaryOps
        <5>2. x.rhs = NoExpr
          BY <3>1, <3>10, TreeAssumption DEF Source
        <5> QED BY <5>1, <5>2
      <4>4. ASSUME a \in Words PROVE UnGives(x.op, a) = v /\ v \in Words
        <5>0. a \in Int
          BY <4>4, Widths
        <5>1. CASE x.op = "NEG"
          <6>1. v = IntOr(-a) /\ UnGives(x.op, a) = Signed(-a) /\ -a \in Int
            BY <3>3, <4>3, <5>0, <5>1, OpNames DEF ValueOf, UnGives
          <6>2. -a \in Words /\ IntOr(-a) = -a
            BY <3>3, <6>1, IntOrDefined
          <6> QED BY <6>1, <6>2, SignedWord
        <5>2. CASE x.op \in {"NOT", "BITNOT"}
          <6>1. UnGives(x.op, a) = v
            BY <3>3, <4>3, <5>2, OpNames DEF ValueOf, UnGives
          <6> QED BY <4>4, <6>1, UnGivesWord
        <5> QED BY <3>10, <5>1, <5>2 DEF UnaryOps
      <4>5. x.op # "NONE" /\ x.op # "CONST" /\ x.op # "VAR" /\ x.op \notin Logical /\ x.op \notin Childless
        BY <4>1 DEF Childless
      <4>6. UnaryFair(D, V, x)
        <5>1. \A c \in V[x.lhs] : c = a /\ a \in Words
          BY <3>6, <4>5
        <5> QED BY <3>4, <4>4, <5>1 DEF UnaryFair
      <4>7. BinaryFair(D, V, x, "exact") /\ LogicalFair(D, V, x)
        BY <4>2, <4>5 DEF BinaryFair, LogicalFair
      <4>8. x.lhs \in D /\ x.rhs \in D
        BY <1>4, <3>7, <4>3, <4>5
      <4> QED BY <4>5, <4>6, <4>7, <4>8 DEF Fair
    <3>11. CASE x.op \in BinaryOps
      <4>1. /\ x.op # "NONE" /\ x.op # "CONST" /\ x.op # "VAR" /\ x.op \notin Logical /\ x.op \notin Childless
            /\ x.op \notin UnaryOps
        BY <3>11, OpNames DEF Childless, Logical, UnaryOps
      <4>2. a # Undefined /\ b # Undefined /\ v = Apply(x.op, a, b)
        BY <3>3, <3>11, <4>1, OpNames DEF ValueOf, Logical, UnaryOps
      <4>3. BinaryFair(D, V, x, "exact")
        <5>1. ASSUME NEW c \in V[x.lhs], NEW e \in V[x.rhs]
              PROVE  Gives(x.op, c, e) \in V[x] /\ ~Traps(x.op, c, e)
          <6>1. c = a /\ e = b /\ a \in Words /\ b \in Words
            BY <3>6, <4>1
          <6>2. Gives(x.op, a, b) = v /\ ~Traps(x.op, a, b)
            BY <3>3, <3>11, <4>2, <6>1, ApplyGives
          <6>3. Gives(x.op, a, b) \in Words
            BY <3>11, <6>1, GivesWord
          <6> QED BY <3>4, <6>1, <6>2, <6>3
        <5> QED BY <5>1 DEF BinaryFair
      <4>4. UnaryFair(D, V, x) /\ LogicalFair(D, V, x)
        BY <4>1 DEF UnaryFair, LogicalFair
      <4>5. x.lhs \in D /\ x.rhs \in D
        BY <3>7, <4>1, <4>2
      <4> QED BY <4>1, <4>3, <4>4, <4>5 DEF Fair
    <3>12. x.op = "CONST" \/ x.op \in Logical \/ x.op \in UnaryOps \/ x.op \in BinaryOps
      <4> SUFFICES ASSUME x.op # "CONST", x.op \notin Logical, x.op \notin UnaryOps, x.op \notin BinaryOps
                   PROVE  FALSE
        OBVIOUS
      <4>1. x.op # "AND" /\ x.op # "OR" /\ x.op # "NEG" /\ x.op # "NOT" /\ x.op # "BITNOT"
        BY DEF Logical, UnaryOps
      <4>2. ValueOf(x, a, b) = Undefined
        BY <4>1, OpNames DEF ValueOf
      <4> QED BY <3>3, <4>2
    <3> QED BY <3>8, <3>9, <3>10, <3>11, <3>12
  <2> QED BY <2>1, <2>2
<1>7. \A x \in Parts(Source) : V[x] \subseteq Words
  BY <1>2, <1>4
<1>8. V[Source] \subseteq {Meaning(Source)}
  BY <1>1, <1>4, <1>5
<1> QED BY <1>2, <1>5, <1>6, <1>7, <1>8 DEF Sound

-----------------------------------------------------------------------------
(* What the IR does, in the terms of a claim k: the parts that have a      *)
(* value when they are run (D), their values (V), the root (r) and how     *)
(* much is claimed (m).  A plan p says which instructions can be reached   *)
(* (on; the place behind the last one counts), which variables are then    *)
(* written (live) and which words a value may be (range).                  *)

Backed(k) ==
    /\ Sound(k.D, k.V, k.r, k.m)
    /\ \A x \in Parts(k.r) : x.op = "CONST" => x.val \in Int

\* The right operand of && or || is run only if the left one may stay.
Goes(k, x) == Short(x) /\ x.at = "rhs" => \E a \in k.V[x.e.lhs] : ~Leaving(x.e.op, a)

\* What the first n of the frames q have come to has a value, and is run.
OnAt(k, q, n) == (\A h \in 1..n : At(k.r, q, h) \in k.D) /\ (\A h \in 1..(n - 1) : Goes(k, q[h]))

\* The variables that the first n frames have kept.
Live(q, n, vs) == {v \in 1..Len(vs) : ~vs[v].is_constant /\ \E h \in 1..n : HeldBy(q[h], v)}

\* A value can be read when the variables in S are written.
Ready(vs, v, S) == v \in 1..Len(vs) /\ (vs[v].is_constant \/ v \in S)

\* The label l is at j and reached from where the variables in S are written.
Landed(p, code, l, S, j) ==
    code[j].type = "LABEL" /\ code[j].label = l /\ j \in p.on /\ p.live[j] \subseteq S

\* A jump to l from there arrives, or one of the promises in T says that it will.
Arrives(p, code, T, l, S) ==
    \/ \E j \in 1..Len(code) : Landed(p, code, l, S, j)
    \/ \E t \in T : t[1] = l /\ t[2] \subseteq S

\* The instruction behind the j-th is reached, with the variables in S written.
Follows(p, j, S) == j + 1 \in p.on /\ p.live[j + 1] \subseteq S

\* What can be claimed of an instruction that is reached.
UnaryOk(p, vs, x, j) ==
    /\ Ready(vs, x.lhs, p.live[j]) /\ x.dst # x.lhs
    /\ \A a \in p.range[x.lhs] : UnGives(x.op, a) \in p.range[x.dst]

BinaryOk(k, p, vs, x, j) ==
    /\ Ready(vs, x.lhs, p.live[j]) /\ Ready(vs, x.rhs, p.live[j]) /\ x.dst # x.lhs /\ x.dst # x.rhs
    /\ \A a \in p.range[x.lhs], b \in p.range[x.rhs] :
          /\ Gives(x.op, a, b) \in p.range[x.dst]
          /\ k.m = "exact" => ~Traps(x.op, a, b)

CopyOk(p, vs, x) ==
    x.lhs \in 1..Len(vs) /\ vs[x.lhs].is_constant /\ p.range[x.lhs] \subseteq p.range[x.dst]

\* An instruction that writes a variable.
WriteOk(p, vs, x, j) ==
    /\ x.dst \in 1..Len(vs) /\ ~vs[x.dst].is_constant
    /\ Follows(p, j, p.live[j] \cup {x.dst})

Jumping(t, a) == IF t = "JZ" THEN a = 0 ELSE a # 0

TestOk(p, code, vs, T, x, j) ==
    /\ Ready(vs, x.lhs, p.live[j])
    /\ \A a \in p.range[x.lhs] : IF Jumping(x.type, a) THEN Arrives(p, code, T, x.label, p.live[j])
                                 ELSE Follows(p, j, p.live[j])

ReturnOk(k, p, vs, x, j) ==
    Ready(vs, x.lhs, p.live[j]) /\ p.range[x.lhs] \subseteq k.V[k.r]

Lowerable(x) == ~Unimplemented(x) /\ ~LacksOperand(x)

InstOk(k, p, code, vs, T, x, j) ==
    Lowerable(x) =>
       /\ x.type = "UNARY" => UnaryOk(p, vs, x, j)
       /\ x.type = "BINARY" => BinaryOk(k, p, vs, x, j)
       /\ x.type = "COPY" => CopyOk(p, vs, x)
       /\ x.type \in {"UNARY", "BINARY", "COPY"} => WriteOk(p, vs, x, j)
       /\ x.type = "LABEL" => Follows(p, j, p.live[j])
       /\ x.type = "JMP" => Arrives(p, code, T, x.label, p.live[j])
       /\ x.type \in {"JZ", "JNZ"} => TestOk(p, code, vs, T, x, j)
       /\ x.type = "RETURN" => ReturnOk(k, p, vs, x, j)

\* What a value may be: a word, and a constant is itself, cut off.
Ranged(p, vs) ==
    \A v \in 1..Len(vs) :
       p.range[v] \subseteq Words /\ (vs[v].is_constant => p.range[v] = {Signed(vs[v].val)})

AllOk(k, p, code, vs, T) ==
    \A j \in 1..Len(code) : j \in p.on => InstOk(k, p, code, vs, T, code[j], j)

\* The plan holds of the code so far, if the promises are kept.
Planned(k, p, code, vs, T) ==
    /\ p.on \subseteq 1..(Len(code) + 1) /\ 1 \in p.on /\ p.live[1] = {}
    /\ Ranged(p, vs) /\ AllOk(k, p, code, vs, T)

\* The frames' promises: an operator that is left by its first jump will define the label.
Promising(k, q, i) ==
    Short(q[i]) /\ q[i].at = "rhs" /\ OnAt(k, q, i) /\ LeftWith(q[i].e.op) \in k.V[q[i].e]

Promises(k, q, vs) ==
    {<<q[i].exit, Live(q, i - 1, vs)>> : i \in {h \in 1..Len(q) : Promising(k, q, h)}}

\* A frame has kept the value of its left operand.
KeepsLeft(k, p, vs, q, i) ==
    q[i].at = "rhs" =>
       /\ q[i].lhs \in 0..Len(vs)
       /\ q[i].lhs # 0 /\ OnAt(k, q, i) => p.range[q[i].lhs] \subseteq k.V[q[i].e.lhs]

AllKeep(k, p, vs, q) == \A i \in 1..Len(q) : KeepsLeft(k, p, vs, q, i)

\* Where the code goes on, n being the length of the code, is reached if what is emitted
\* there has a value.
Here(k, p, n, vs, q) ==
    /\ n + 1 \in p.on <=> OnAt(k, q, Len(q) + 1)
    /\ n + 1 \in p.on => Live(q, Len(q), vs) \subseteq p.live[n + 1]

\* The value that is returned is that of what was emitted.
Given(k, p, n, vs, q, v) ==
    /\ v \in 0..Len(vs)
    /\ v # 0 /\ n + 1 \in p.on =>
          Ready(vs, v, p.live[n + 1]) /\ p.range[v] \subseteq k.V[At(k.r, q, Len(q) + 1)]

-----------------------------------------------------------------------------
(* How these change with a frame, a value or an instruction more.          *)

\* With one more frame nothing changes below it.
Below1(k, q, f) == \A i \in 1..(Len(q) + 1) : OnAt(k, f, i) <=> OnAt(k, q, i)
LiveBelow(q, f, vs) == \A i \in 0..Len(q) : Live(f, i, vs) = Live(q, i, vs)

LEMMA OnAppended ==
    ASSUME NEW q, IsList(q), NEW x, NEW f, f = Append(q, x), NEW k
    PROVE  /\ Below1(k, q, f)
           /\ OnAt(k, f, Len(f) + 1) <=> OnAt(k, q, Len(q) + 1) /\ Side(x) \in k.D /\ Goes(k, x)
<1>1. PICK n : n = Len(q)
  OBVIOUS
<1>2. n \in Nat /\ Len(f) = n + 1 /\ f[n + 1] = x /\ \A j \in 1..n : f[j] = q[j]
  BY <1>1, AppendFacts
<1>3. (\A h \in 1..(n + 1) : At(k.r, f, h) = At(k.r, q, h)) /\ At(k.r, f, n + 2) = Side(x)
  <2>1. PICK r : r = k.r
    OBVIOUS
  <2>2. IsList(q) /\ f = Append(q, x)
    OBVIOUS
  <2>3. AtSame(r, f, q, Len(q) + 1) /\ At(r, f, Len(q) + 2) = Side(x)
    BY <2>2, AtBelow
  <2> QED BY <1>1, <2>1, <2>3 DEF AtSame
<1>4. ASSUME NEW i \in 1..(n + 1) PROVE OnAt(k, f, i) <=> OnAt(k, q, i)
  <2>1. \A h \in 1..i : h \in 1..(n + 1)
    BY <1>2
  <2>2. \A h \in 1..(i - 1) : h \in 1..n
    BY <1>2
  <2> QED BY <1>2, <1>3, <2>1, <2>2 DEF OnAt
<1>5. \A h : (h \in 1..(n + 2) <=> h \in 1..(n + 1) \/ h = n + 2) /\ (h \in 1..(n + 1) <=> h \in 1..n \/ h = n + 1)
  BY <1>2
<1>6. OnAt(k, f, n + 2) <=> OnAt(k, f, n + 1) /\ At(k.r, f, n + 2) \in k.D /\ Goes(k, f[n + 1])
  <2>1. (n + 2) - 1 = n + 1 /\ (n + 1) - 1 = n
    BY <1>2
  <2> QED BY <1>5, <2>1 DEF OnAt
<1>7. n + 1 \in 1..(n + 1) /\ Len(f) + 1 = n + 2
  BY <1>2
<1> QED BY <1>1, <1>2, <1>3, <1>4, <1>6, <1>7 DEF Below1

\* The variable that the frame x has kept.
HeldIn(x, vs) == {v \in 1..Len(vs) : ~vs[v].is_constant /\ HeldBy(x, v)}
MoreLive(q, x, f, vs) == Live(f, Len(f), vs) = Live(q, Len(q), vs) \cup HeldIn(x, vs)

\* What the last of the frames has kept comes to what the others have.
LEMMA LiveAppended ==
    ASSUME NEW q, IsList(q), NEW x, NEW f, f = Append(q, x), NEW vs
    PROVE  LiveBelow(q, f, vs) /\ MoreLive(q, x, f, vs)
<1>1. PICK n : n = Len(q)
  OBVIOUS
<1>2. n \in Nat /\ Len(f) = n + 1 /\ f[n + 1] = x /\ \A j \in 1..n : f[j] = q[j]
  BY <1>1, AppendFacts
<1>3. ASSUME NEW i \in 0..n PROVE Live(f, i, vs) = Live(q, i, vs)
  <2>1. \A h \in 1..i : h \in 1..n
    BY <1>2
  <2> QED BY <1>2, <2>1 DEF Live
<1>4. \A h : h \in 1..(n + 1) <=> h \in 1..n \/ h = n + 1
  BY <1>2
<1>5. \A v : (\E h \in 1..(n + 1) : HeldBy(f[h], v)) <=> (\E h \in 1..n : HeldBy(q[h], v)) \/ HeldBy(x, v)
  BY <1>2, <1>4
<1>6. Live(f, n + 1, vs) = Live(q, n, vs) \cup HeldIn(x, vs)
  BY <1>5 DEF Live, HeldIn
<1> QED BY <1>1, <1>2, <1>3, <1>6 DEF LiveBelow, MoreLive

\* Values are added at the end.
Wider(vs, ws) == Len(vs) \in Nat /\ Len(ws) \in Nat /\ Len(vs) <= Len(ws) /\ \A v \in 1..Len(vs) : ws[v] = vs[v]

\* What frames have kept are values there are, and so it is the same when there are more.
LEMMA LiveWider ==
    ASSUME NEW k, NEW p, NEW vs, NEW ws, Wider(vs, ws), NEW q, Len(q) \in Nat, AllKeep(k, p, vs, q), NEW n \in 0..Len(q)
    PROVE  Live(q, n, ws) = Live(q, n, vs)
<1>1. ASSUME NEW v \in 1..Len(ws), NEW h \in 1..n, HeldBy(q[h], v) PROVE v \in 1..Len(vs)
  <2>1. h \in 1..Len(q)
    BY <1>1
  <2>2. q[h].at = "rhs" /\ q[h].lhs = v
    BY <1>1 DEF HeldBy
  <2>3. q[h].lhs \in 0..Len(vs)
    BY <2>1, <2>2 DEF AllKeep, KeepsLeft
  <2> QED BY <2>2, <2>3 DEF Wider
<1>2. \A v \in 1..Len(vs) : v \in 1..Len(ws) /\ ws[v] = vs[v]
  BY DEF Wider
<1> QED BY <1>1, <1>2 DEF Live

-----------------------------------------------------------------------------
(* A plan for one instruction more.                                        *)

\* The plan P is p with the place behind the (n + 1)-th instruction reached when N says so,
\* the variables in S being written there.
Grown(p, P, n, N, S) ==
    /\ P.on = p.on \cup N /\ N \subseteq {n + 2}
    /\ \A j \in 1..(n + 1) : P.live[j] = p.live[j]
    /\ P.live[n + 2] = S /\ P.range = p.range

\* There is such a plan.
LEMMA GrownExists ==
    ASSUME NEW p, NEW n \in Nat, NEW N, N \subseteq {n + 2}, NEW S
    PROVE  \E P : Grown(p, P, n, N, S)
<1>1. PICK f : f = [j \in 1..(n + 2) |-> IF j = n + 2 THEN S ELSE p.live[j]]
  OBVIOUS
<1>2. f[n + 2] = S /\ \A j \in 1..(n + 1) : f[j] = p.live[j]
  BY <1>1
<1>3. PICK P : P = [on |-> p.on \cup N, live |-> f, range |-> p.range]
  OBVIOUS
<1>4. P.on = p.on \cup N /\ P.live = f /\ P.range = p.range
  BY <1>3
<1> QED BY <1>2, <1>4 DEF Grown

\* All that was promised still is, or the last instruction is the label.
Redeemed(P, d, n, T, U) == \A t \in T : t \in U \/ Landed(P, d, t[1], t[2], n + 1)

\* What arrived, arrives.
LEMMA ArrivesGrown ==
    ASSUME NEW p, NEW code, IsList(code), NEW x, NEW d, d = Append(code, x), NEW n, n = Len(code),
           NEW P, NEW N, NEW S, Grown(p, P, n, N, S), NEW T, NEW U, Redeemed(P, d, n, T, U),
           NEW l, NEW R, Arrives(p, code, T, l, R)
    PROVE  Arrives(P, d, U, l, R)
<1>1. n \in Nat /\ Len(d) = n + 1 /\ \A j \in 1..n : d[j] = code[j]
  BY AppendFacts
<1>2. ASSUME NEW j \in 1..n, Landed(p, code, l, R, j) PROVE Landed(P, d, l, R, j)
  <2>1. j \in 1..(n + 1) /\ d[j] = code[j]
    BY <1>1
  <2> QED BY <1>2, <2>1 DEF Landed, Grown
<1>3. ASSUME NEW t \in T, t[1] = l, t[2] \subseteq R PROVE Arrives(P, d, U, l, R)
  <2>1. CASE t \in U
    BY <1>3, <2>1 DEF Arrives
  <2>2. CASE Landed(P, d, t[1], t[2], n + 1)
    <3>1. Landed(P, d, l, R, n + 1) /\ n + 1 \in 1..Len(d)
      BY <1>1, <1>3, <2>2 DEF Landed
    <3> QED BY <3>1 DEF Arrives
  <2> QED BY <2>1, <2>2 DEF Redeemed
<1>4. \A j \in 1..n : j \in 1..Len(d)
  BY <1>1
<1> QED BY <1>2, <1>3, <1>4 DEF Arrives

\* What follows, follows.
LEMMA FollowsGrown ==
    ASSUME NEW p, NEW n \in Nat, NEW P, NEW N, NEW S, Grown(p, P, n, N, S),
           NEW j \in 1..n, NEW R, Follows(p, j, R)
    PROVE  Follows(P, j, R)
<1>1. j + 1 \in 1..(n + 1)
  OBVIOUS
<1> QED BY <1>1 DEF Grown, Follows

\* The claims for an instruction stay.
LEMMA InstGrown ==
    ASSUME NEW p, NEW code, IsList(code), NEW x, NEW d, d = Append(code, x), NEW n, n = Len(code),
           NEW P, NEW N, NEW S, Grown(p, P, n, N, S), NEW T, NEW U, Redeemed(P, d, n, T, U),
           NEW k, NEW vs, NEW y, NEW j \in 1..n, InstOk(k, p, code, vs, T, y, j)
    PROVE  InstOk(k, P, d, vs, U, y, j)
<1>0. n \in Nat
  BY AppendFacts
<1>1. P.range = p.range /\ P.live[j] = p.live[j]
  BY <1>0 DEF Grown
<1>2. \A R : Follows(p, j, R) => Follows(P, j, R)
  BY <1>0, FollowsGrown
<1>3. \A l, R : Arrives(p, code, T, l, R) => Arrives(P, d, U, l, R)
  BY ArrivesGrown
<1>4. UnaryOk(p, vs, y, j) => UnaryOk(P, vs, y, j)
  BY <1>1 DEF UnaryOk
<1>5. BinaryOk(k, p, vs, y, j) => BinaryOk(k, P, vs, y, j)
  BY <1>1 DEF BinaryOk
<1>6. CopyOk(p, vs, y) => CopyOk(P, vs, y)
  BY <1>1 DEF CopyOk
<1>7. WriteOk(p, vs, y, j) => WriteOk(P, vs, y, j)
  BY <1>1, <1>2 DEF WriteOk
<1>8. TestOk(p, code, vs, T, y, j) => TestOk(P, d, vs, U, y, j)
  BY <1>1, <1>2, <1>3 DEF TestOk
<1>9. ReturnOk(k, p, vs, y, j) => ReturnOk(k, P, vs, y, j)
  BY <1>1 DEF ReturnOk
<1> QED BY <1>1, <1>2, <1>3, <1>4, <1>5, <1>6, <1>7, <1>8, <1>9 DEF InstOk

\* With the claims for the new instruction, the new plan holds.
LEMMA PlannedGrown ==
    ASSUME NEW p, NEW code, IsList(code), NEW x, NEW d, d = Append(code, x), NEW n, n = Len(code),
           NEW P, NEW N, NEW S, Grown(p, P, n, N, S), NEW T, NEW U, Redeemed(P, d, n, T, U),
           NEW k, NEW vs, Planned(k, p, code, vs, T),
           n + 1 \in p.on => InstOk(k, P, d, vs, U, x, n + 1)
    PROVE  Planned(k, P, d, vs, U)
<1>1. n \in Nat /\ Len(d) = n + 1 /\ d[n + 1] = x /\ \A j \in 1..n : d[j] = code[j]
  BY AppendFacts
<1>2. 1 \in 1..(n + 1)
  BY <1>1
<1>3. P.on \subseteq 1..(n + 2)
  <2>1. p.on \subseteq 1..(n + 1) /\ P.on = p.on \cup N /\ N \subseteq {n + 2}
    BY DEF Grown, Planned
  <2>2. 1..(n + 1) \subseteq 1..(n + 2) /\ n + 2 \in 1..(n + 2)
    BY <1>1
  <2> QED BY <2>1, <2>2
<1>4. 1 \in P.on /\ P.live[1] = {} /\ Ranged(P, vs)
  BY <1>2 DEF Grown, Planned, Ranged
<1>5. ASSUME NEW j \in 1..(n + 1), j \in P.on PROVE InstOk(k, P, d, vs, U, d[j], j)
  <2>1. j \in p.on
    BY <1>1, <1>5 DEF Grown
  <2>2. CASE j = n + 1
    BY <1>1, <2>1, <2>2
  <2>3. CASE j # n + 1
    <3>1. j \in 1..n /\ d[j] = code[j]
      BY <1>1, <2>3
    <3>2. InstOk(k, p, code, vs, T, code[j], j)
      BY <2>1, <3>1 DEF Planned, AllOk
    <3> QED BY <3>1, <3>2, InstGrown
  <2> QED BY <2>2, <2>3
<1>6. (n + 1) + 1 = n + 2
  BY <1>1
<1> QED BY <1>1, <1>3, <1>4, <1>5, <1>6 DEF Planned, AllOk

-----------------------------------------------------------------------------
(* A plan for one value more.                                              *)

\* The plan P is p with the words R for the (m + 1)-th value.
Widened(p, P, m, R) ==
    P.on = p.on /\ P.live = p.live /\ P.range[m + 1] = R /\ \A v \in 1..m : P.range[v] = p.range[v]

\* There is such a plan.
LEMMA WidenedExists ==
    ASSUME NEW p, NEW m \in Nat, NEW R
    PROVE  \E P : Widened(p, P, m, R)
<1>1. PICK f : f = [v \in 1..(m + 1) |-> IF v = m + 1 THEN R ELSE p.range[v]]
  OBVIOUS
<1>2. f[m + 1] = R /\ \A v \in 1..m : f[v] = p.range[v]
  BY <1>1
<1>3. PICK P : P = [on |-> p.on, live |-> p.live, range |-> f]
  OBVIOUS
<1>4. P.on = p.on /\ P.live = p.live /\ P.range = f
  BY <1>3
<1> QED BY <1>2, <1>4 DEF Widened

\* The claims for an instruction stay.
LEMMA InstWidened ==
    ASSUME NEW vs, IsList(vs), NEW u, NEW ws, ws = Append(vs, u), NEW m, m = Len(vs),
           NEW p, NEW P, NEW R, Widened(p, P, m, R), NEW k, NEW code, NEW T, NEW y, NEW j,
           InstOk(k, p, code, vs, T, y, j)
    PROVE  InstOk(k, P, code, ws, T, y, j)
<1>1. m \in Nat /\ Len(ws) = m + 1 /\ \A v \in 1..m : ws[v] = vs[v] /\ v \in 1..Len(ws)
  BY AppendFacts
<1>2. \A v \in 1..m : P.range[v] = p.range[v]
  BY DEF Widened
<1>3. P.live = p.live /\ P.on = p.on
  BY DEF Widened
<1>4. \A v, S : Ready(vs, v, S) => Ready(ws, v, S) /\ v \in 1..m
  BY <1>1 DEF Ready
<1>5. \A i, S : Follows(p, i, S) => Follows(P, i, S)
  BY <1>3 DEF Follows
<1>6. \A l, S : Arrives(p, code, T, l, S) => Arrives(P, code, T, l, S)
  BY <1>3 DEF Arrives, Landed
<1>7. WriteOk(p, vs, y, j) => WriteOk(P, ws, y, j) /\ y.dst \in 1..m
  BY <1>1, <1>3, <1>5 DEF WriteOk
<1>8. WriteOk(p, vs, y, j) /\ UnaryOk(p, vs, y, j) => UnaryOk(P, ws, y, j)
  BY <1>2, <1>3, <1>4, <1>7 DEF UnaryOk
<1>9. WriteOk(p, vs, y, j) /\ BinaryOk(k, p, vs, y, j) => BinaryOk(k, P, ws, y, j)
  BY <1>2, <1>3, <1>4, <1>7 DEF BinaryOk
<1>10. WriteOk(p, vs, y, j) /\ CopyOk(p, vs, y) => CopyOk(P, ws, y)
  BY <1>1, <1>2, <1>7 DEF CopyOk
<1>11. TestOk(p, code, vs, T, y, j) => TestOk(P, code, ws, T, y, j)
  BY <1>2, <1>3, <1>4, <1>5, <1>6 DEF TestOk
<1>12. ReturnOk(k, p, vs, y, j) => ReturnOk(k, P, ws, y, j)
  BY <1>2, <1>3, <1>4 DEF ReturnOk
<1> QED BY <1>3, <1>5, <1>6, <1>7, <1>8, <1>9, <1>10, <1>11, <1>12 DEF InstOk

\* It is for the value u, which comes to vs.
Widening(vs, u, ws, p, P, R) ==
    /\ IsList(vs) /\ ws = Append(vs, u) /\ Widened(p, P, Len(vs), R)
    /\ R \subseteq Words /\ (u.is_constant => R = {Signed(u.val)})

\* The plan holds with the new value.
LEMMA PlannedWidened ==
    ASSUME NEW vs, NEW u, NEW ws, NEW p, NEW P, NEW R, Widening(vs, u, ws, p, P, R),
           NEW k, NEW code, NEW T, Planned(k, p, code, vs, T)
    PROVE  Planned(k, P, code, ws, T)
<1> PICK m : m = Len(vs)
  OBVIOUS
<1>0. /\ IsList(vs) /\ ws = Append(vs, u) /\ Widened(p, P, m, R)
      /\ R \subseteq Words /\ (u.is_constant => R = {Signed(u.val)})
  BY DEF Widening
<1>1. m \in Nat /\ Len(ws) = m + 1 /\ ws[m + 1] = u /\ \A v \in 1..m : ws[v] = vs[v]
  BY <1>0, AppendFacts
<1>2. P.on = p.on /\ P.live = p.live /\ P.range[m + 1] = R /\ \A v \in 1..m : P.range[v] = p.range[v]
  BY <1>0 DEF Widened
<1>3. ASSUME NEW v \in 1..(m + 1)
      PROVE  P.range[v] \subseteq Words /\ (ws[v].is_constant => P.range[v] = {Signed(ws[v].val)})
  <2>1. CASE v = m + 1
    BY <1>0, <1>1, <1>2, <2>1
  <2>2. CASE v # m + 1
    <3>1. v \in 1..m
      BY <1>1, <2>2
    <3>2. p.range[v] \subseteq Words /\ (vs[v].is_constant => p.range[v] = {Signed(vs[v].val)})
      BY <3>1 DEF Planned, Ranged
    <3> QED BY <1>1, <1>2, <3>1, <3>2
  <2> QED BY <2>1, <2>2
<1>4. \A y, j : InstOk(k, p, code, vs, T, y, j) => InstOk(k, P, code, ws, T, y, j)
  BY <1>0, InstWidened
<1> QED BY <1>1, <1>2, <1>3, <1>4 DEF Planned, Ranged, AllOk

SameFrames(k, p, vs, P, ws, q) ==
    /\ AllKeep(k, P, ws, q) /\ Promises(k, q, ws) = Promises(k, q, vs)
    /\ Live(q, Len(q), ws) = Live(q, Len(q), vs)
    /\ \A n : Here(k, p, n, vs, q) => Here(k, P, n, ws, q)

\* What the frames have kept and promised is the same, and the code goes on in the same place.
LEMMA FramesWidened ==
    ASSUME NEW vs, NEW u, NEW ws, NEW p, NEW P, NEW R, Widening(vs, u, ws, p, P, R),
           NEW k, NEW q, IsList(q), AllKeep(k, p, vs, q)
    PROVE  SameFrames(k, p, vs, P, ws, q)
<1> PICK m : m = Len(vs)
  OBVIOUS
<1>0. IsList(vs) /\ ws = Append(vs, u) /\ Widened(p, P, m, R) /\ Len(q) \in Nat
  BY AppendFacts DEF Widening
<1>1. m \in Nat /\ Len(ws) = m + 1 /\ ws[m + 1] = u /\ \A v \in 1..m : ws[v] = vs[v]
  BY <1>0, AppendFacts
<1>2. P.on = p.on /\ P.live = p.live /\ \A v \in 1..m : P.range[v] = p.range[v]
  BY <1>0 DEF Widened
<1>3. Wider(vs, ws)
  BY <1>1 DEF Wider
<1>4. ASSUME NEW i \in 0..Len(q) PROVE Live(q, i, ws) = Live(q, i, vs)
  BY <1>0, <1>3, LiveWider
<1>5. ASSUME NEW i \in 1..Len(q) PROVE KeepsLeft(k, P, ws, q, i)
  <2>1. KeepsLeft(k, p, vs, q, i)
    BY DEF AllKeep
  <2>2. \A v \in 0..m : v \in 0..(m + 1) /\ (v # 0 => v \in 1..m)
    BY <1>1
  <2> QED BY <1>1, <1>2, <2>1, <2>2 DEF KeepsLeft
<1>6. Promises(k, q, ws) = Promises(k, q, vs)
  <2>1. ASSUME NEW i \in 1..Len(q) PROVE Live(q, i - 1, ws) = Live(q, i - 1, vs)
    <3>1. i - 1 \in 0..Len(q)
      BY <1>0
    <3> QED BY <1>4, <3>1
  <2> QED BY <2>1 DEF Promises
<1>7. ASSUME NEW n, Here(k, p, n, vs, q) PROVE Here(k, P, n, ws, q)
  <2>1. Len(q) \in 0..Len(q)
    BY <1>0
  <2>2. Live(q, Len(q), ws) = Live(q, Len(q), vs)
    BY <1>4, <2>1
  <2> QED BY <1>2, <1>7, <2>2 DEF Here
<1>8. Live(q, Len(q), ws) = Live(q, Len(q), vs)
  <2>1. Len(q) \in 0..Len(q)
    BY <1>0
  <2> QED BY <1>4, <2>1
<1> QED BY <1>5, <1>6, <1>7, <1>8 DEF AllKeep, SameFrames

-----------------------------------------------------------------------------
(* One frame more or less.                                                 *)

\* What the frame x promises above the frames q.
Offers(k, q, x) ==
    Short(x) /\ x.at = "rhs" /\ OnAt(k, q, Len(q) + 1) /\ LeftWith(x.e.op) \in k.V[x.e]

Offered(k, q, x, vs) == IF Offers(k, q, x) THEN {<<x.exit, Live(q, Len(q), vs)>>} ELSE {}

MorePromises(k, q, x, f, vs) == Promises(k, f, vs) = Promises(k, q, vs) \cup Offered(k, q, x, vs)

\* It comes to what the others promise.
LEMMA PromisesAppended ==
    ASSUME NEW q, IsList(q), NEW x, NEW f, f = Append(q, x), NEW k, NEW vs
    PROVE  MorePromises(k, q, x, f, vs)
<1>1. PICK n : n = Len(q)
  OBVIOUS
<1>2. n \in Nat /\ Len(f) = n + 1 /\ f[n + 1] = x /\ \A j \in 1..n : f[j] = q[j]
  BY <1>1, AppendFacts
<1>3. (\A i \in 1..(n + 1) : OnAt(k, f, i) <=> OnAt(k, q, i)) /\ \A i \in 0..n : Live(f, i, vs) = Live(q, i, vs)
  <2>1. IsList(q) /\ f = Append(q, x)
    OBVIOUS
  <2>2. Below1(k, q, f) /\ LiveBelow(q, f, vs)
    BY <2>1, OnAppended, LiveAppended
  <2> QED BY <1>1, <2>2 DEF Below1, LiveBelow
<1>4. ASSUME NEW i \in 1..n
      PROVE  (Promising(k, f, i) <=> Promising(k, q, i)) /\ Live(f, i - 1, vs) = Live(q, i - 1, vs) /\ f[i] = q[i]
  <2>1. i \in 1..(n + 1) /\ i - 1 \in 0..n
    BY <1>2
  <2> QED BY <1>2, <1>3, <2>1 DEF Promising
<1>5. (Promising(k, f, n + 1) <=> Offers(k, q, x)) /\ Live(f, (n + 1) - 1, vs) = Live(q, n, vs)
  <2>1. n + 1 \in 1..(n + 1) /\ (n + 1) - 1 = n /\ n \in 0..n
    BY <1>2
  <2>2. OnAt(k, f, n + 1) <=> OnAt(k, q, n + 1)
    BY <1>3, <2>1
  <2>3. Live(f, n, vs) = Live(q, n, vs)
    BY <1>3, <2>1
  <2> QED BY <1>1, <1>2, <2>1, <2>2, <2>3 DEF Promising, Offers
<1>6. \A i : i \in 1..(n + 1) <=> i \in 1..n \/ i = n + 1
  BY <1>2
<1>7. \A t : t \in Promises(k, q, vs) <=> \E i \in 1..n : Promising(k, q, i) /\ t = <<q[i].exit, Live(q, i - 1, vs)>>
  BY <1>1 DEF Promises
<1>8. \A t : t \in Promises(k, f, vs) <=>
              \E i \in 1..(n + 1) : Promising(k, f, i) /\ t = <<f[i].exit, Live(f, i - 1, vs)>>
  BY <1>2 DEF Promises
<1>9. \A t : t \in Promises(k, f, vs) <=>
              t \in Promises(k, q, vs) \/ (Offers(k, q, x) /\ t = <<x.exit, Live(q, n, vs)>>)
  <2>1. \A t : (\E i \in 1..(n + 1) : Promising(k, f, i) /\ t = <<f[i].exit, Live(f, i - 1, vs)>>)
               <=> \/ \E i \in 1..n : Promising(k, q, i) /\ t = <<q[i].exit, Live(q, i - 1, vs)>>
                   \/ Promising(k, f, n + 1) /\ t = <<f[n + 1].exit, Live(f, (n + 1) - 1, vs)>>
    BY <1>4, <1>6
  <2> QED BY <1>2, <1>5, <1>7, <1>8, <2>1
<1> QED BY <1>1, <1>9 DEF Offered, MorePromises

\* What it has kept comes to what the others have.
Keeps(k, p, vs, q, x) ==
    x.at = "rhs" =>
       /\ x.lhs \in 0..Len(vs)
       /\ x.lhs # 0 /\ OnAt(k, q, Len(q) + 1) => p.range[x.lhs] \subseteq k.V[x.e.lhs]

LEMMA KeepAppended ==
    ASSUME NEW q, IsList(q), NEW x, NEW f, f = Append(q, x), NEW k, NEW p, NEW vs
    PROVE  AllKeep(k, p, vs, f) <=> AllKeep(k, p, vs, q) /\ Keeps(k, p, vs, q, x)
<1>1. PICK n : n = Len(q)
  OBVIOUS
<1>2. n \in Nat /\ Len(f) = n + 1 /\ f[n + 1] = x /\ \A j \in 1..n : f[j] = q[j]
  BY <1>1, AppendFacts
<1>3. \A i \in 1..(n + 1) : OnAt(k, f, i) <=> OnAt(k, q, i)
  <2>1. IsList(q) /\ f = Append(q, x)
    OBVIOUS
  <2>2. Below1(k, q, f)
    BY <2>1, OnAppended
  <2> QED BY <1>1, <2>2 DEF Below1
<1>4. ASSUME NEW i \in 1..n PROVE KeepsLeft(k, p, vs, f, i) <=> KeepsLeft(k, p, vs, q, i)
  <2>1. i \in 1..(n + 1)
    BY <1>2
  <2> QED BY <1>2, <1>3, <2>1 DEF KeepsLeft
<1>5. KeepsLeft(k, p, vs, f, n + 1) <=> Keeps(k, p, vs, q, x)
  <2>1. n + 1 \in 1..(n + 1)
    BY <1>2
  <2>2. OnAt(k, f, n + 1) <=> OnAt(k, q, n + 1)
    BY <1>3, <2>1
  <2> QED BY <1>1, <1>2, <2>2 DEF KeepsLeft, Keeps
<1>6. \A i : i \in 1..(n + 1) <=> i \in 1..n \/ i = n + 1
  BY <1>2
<1> QED BY <1>1, <1>2, <1>4, <1>5, <1>6 DEF AllKeep

-----------------------------------------------------------------------------
(* What emit_expression's steps do to a plan, q standing for the callers   *)
(* and the plan's promises for those of the frames.                        *)

PlanOf(k, p, code, vs, q) ==
    Planned(k, p, code, vs, Promises(k, q, vs)) /\ AllKeep(k, p, vs, q) /\ Here(k, p, Len(code), vs, q)

\* An operator is called: its left operand is run when it is.
LEMMA OperatorPlan ==
    ASSUME NEW q, IsList(q), NEW x, x.at = "lhs", NEW f, f = Append(q, x), NEW k, Backed(k),
           x.e = At(k.r, q, Len(q) + 1), x.e.op \notin Childless,
           NEW p, NEW code, NEW vs, PlanOf(k, p, code, vs, q)
    PROVE  PlanOf(k, p, code, vs, f)
<1>1. Planned(k, p, code, vs, Promises(k, q, vs)) /\ AllKeep(k, p, vs, q) /\ Here(k, p, Len(code), vs, q)
  BY DEF PlanOf
<1>2. ~Offers(k, q, x) /\ Keeps(k, p, vs, q, x)
  BY DEF Offers, Keeps
<1>3. IsList(q) /\ f = Append(q, x)
  OBVIOUS
<1>4. Promises(k, f, vs) = Promises(k, q, vs)
  <2>1. MorePromises(k, q, x, f, vs)
    BY <1>3, PromisesAppended
  <2> QED BY <1>2, <2>1 DEF Offered, MorePromises
<1>5. AllKeep(k, p, vs, f)
  BY <1>1, <1>2, <1>3, KeepAppended
<1>6. OnAt(k, f, Len(f) + 1) <=> OnAt(k, q, Len(q) + 1) /\ x.e.lhs \in k.D
  <2>1. OnAt(k, f, Len(f) + 1) <=> OnAt(k, q, Len(q) + 1) /\ Side(x) \in k.D /\ Goes(k, x)
    BY <1>3, OnAppended
  <2>2. Side(x) = x.e.lhs /\ Goes(k, x)
    BY DEF Side, Goes
  <2> QED BY <2>1, <2>2
<1>7. OnAt(k, q, Len(q) + 1) => x.e.lhs \in k.D
  <2> SUFFICES ASSUME OnAt(k, q, Len(q) + 1) PROVE x.e.lhs \in k.D
    OBVIOUS
  <2>1. Len(q) + 1 \in 1..(Len(q) + 1)
    BY AppendFacts
  <2>2. x.e \in k.D
    BY <2>1 DEF OnAt
  <2>3. Fair(k.D, k.V, x.e, k.m)
    BY <2>2 DEF Backed, Sound
  <2> QED BY <2>3 DEF Fair
<1>8. Live(f, Len(f), vs) = Live(q, Len(q), vs)
  <2>1. Live(f, Len(f), vs) = Live(q, Len(q), vs) \cup HeldIn(x, vs)
    <3>1. MoreLive(q, x, f, vs)
      BY <1>3, LiveAppended
    <3> QED BY <3>1 DEF MoreLive
  <2>2. HeldIn(x, vs) = {}
    BY DEF HeldBy, HeldIn
  <2> QED BY <2>1, <2>2
<1>9. Here(k, p, Len(code), vs, f)
  BY <1>1, <1>6, <1>7, <1>8 DEF Here
<1> QED BY <1>1, <1>4, <1>5, <1>9 DEF PlanOf

\* The frame x is of what the last of the callers q has come to.
Above(k, q, x) ==
    x.at \in {"lhs", "rhs"} /\ x.e = At(k.r, q, Len(q) + 1) /\ x.e.op \notin Childless

\* A frame's operand is run when the frame's operator is, and && or || goes on to it.
RunOnTop(k, q, x, f) ==
    /\ OnAt(k, f, Len(f) + 1) <=> OnAt(k, q, Len(q) + 1) /\ Goes(k, x)
    /\ OnAt(k, q, Len(q) + 1) => Fair(k.D, k.V, x.e, k.m)

\* So it is for every claim that is backed.
LEMMA OnTop ==
    ASSUME NEW q, IsList(q), NEW x, NEW f, f = Append(q, x), NEW k, Backed(k), Above(k, q, x)
    PROVE  RunOnTop(k, q, x, f)
<1>0. x.at \in {"lhs", "rhs"} /\ x.e = At(k.r, q, Len(q) + 1) /\ x.e.op \notin Childless
  BY DEF Above
<1>1. IsList(q) /\ f = Append(q, x)
  OBVIOUS
<1>2. OnAt(k, f, Len(f) + 1) <=> OnAt(k, q, Len(q) + 1) /\ Side(x) \in k.D /\ Goes(k, x)
  BY <1>1, OnAppended
<1>3. OnAt(k, q, Len(q) + 1) => Fair(k.D, k.V, x.e, k.m)
  <2> SUFFICES ASSUME OnAt(k, q, Len(q) + 1) PROVE Fair(k.D, k.V, x.e, k.m)
    OBVIOUS
  <2>1. Len(q) + 1 \in 1..(Len(q) + 1)
    BY AppendFacts
  <2>2. x.e \in k.D
    BY <1>0, <2>1 DEF OnAt
  <2> QED BY <2>2 DEF Backed, Sound
<1>4. ASSUME Fair(k.D, k.V, x.e, k.m), Goes(k, x) PROVE Side(x) \in k.D
  <2>1. CASE x.at = "lhs"
    BY <1>0, <1>4, <2>1 DEF Fair, Side
  <2>2. CASE x.at = "rhs"
    <3>1. Side(x) = x.e.rhs
      BY <2>2 DEF Side
    <3>2. CASE Short(x)
      <4>1. PICK a \in k.V[x.e.lhs] : ~Leaving(x.e.op, a)
        BY <1>4, <2>2, <3>2 DEF Goes
      <4> QED BY <1>4, <3>1, <3>2, <4>1 DEF Fair, LogicalFair, Short
    <3>3. CASE ~Short(x)
      BY <1>0, <1>4, <3>1, <3>3 DEF Fair, Short
    <3> QED BY <3>2, <3>3
  <2> QED BY <1>0, <2>1, <2>2
<1> QED BY <1>2, <1>3, <1>4 DEF RunOnTop

\* Jumps are taken when the operator is left.
LEMMA ExitLeaves ==
    ASSUME NEW o \in Logical
    PROVE  /\ exit_jump(o) \in {"JZ", "JNZ"} /\ \A a : Jumping(exit_jump(o), a) <=> Leaving(o, a)
           /\ through(o) \in Words /\ LeftWith(o) \in Words /\ LeftWith(o) = 1 - through(o)
<1>1. o \in {"AND", "OR"}
  BY DEF Logical
<1>2. \A a : Jumping(exit_jump(o), a) <=> Leaving(o, a)
  BY <1>1 DEF exit_jump, Jumping, Leaving
<1>3. through(o) \in {0, 1} /\ LeftWith(o) \in {0, 1}
  BY <1>1 DEF through, LeftWith
<1> QED BY <1>1, <1>2, <1>3, TruthWord DEF exit_jump, LeftWith

\* Where the code goes on, the frame of a left operand being at the top.
LEMMA LeftHere ==
    ASSUME NEW q, IsList(q), NEW x, x.at = "lhs", NEW g, g = Append(q, x), NEW k, Backed(k), Above(k, q, x),
           NEW p, NEW code, NEW vs, PlanOf(k, p, code, vs, g), NEW v, Given(k, p, Len(code), vs, g, v)
    PROVE  /\ Planned(k, p, code, vs, Promises(k, q, vs)) /\ AllKeep(k, p, vs, q)
           /\ Here(k, p, Len(code), vs, q)
           /\ OnAt(k, q, Len(q) + 1) => Fair(k.D, k.V, x.e, k.m)
           /\ v \in 0..Len(vs)
           /\ v # 0 /\ OnAt(k, q, Len(q) + 1) =>
                 Ready(vs, v, p.live[Len(code) + 1]) /\ p.range[v] \subseteq k.V[x.e.lhs]
<1>1. IsList(q) /\ g = Append(q, x)
  OBVIOUS
<1>2. Planned(k, p, code, vs, Promises(k, g, vs)) /\ AllKeep(k, p, vs, g) /\ Here(k, p, Len(code), vs, g)
  BY DEF PlanOf
<1>3. Promises(k, g, vs) = Promises(k, q, vs)
  <2>1. MorePromises(k, q, x, g, vs)
    BY <1>1, PromisesAppended
  <2> QED BY <2>1 DEF MorePromises, Offered, Offers
<1>4. AllKeep(k, p, vs, q)
  BY <1>1, <1>2, KeepAppended
<1>5. /\ OnAt(k, g, Len(g) + 1) <=> OnAt(k, q, Len(q) + 1)
      /\ OnAt(k, q, Len(q) + 1) => Fair(k.D, k.V, x.e, k.m)
  <2>1. Goes(k, x)
    BY DEF Goes
  <2>2. Backed(k) /\ Above(k, q, x)
    OBVIOUS
  <2>3. RunOnTop(k, q, x, g)
    BY <1>1, <2>2, OnTop
  <2> QED BY <2>1, <2>3 DEF RunOnTop
<1>6. Live(g, Len(g), vs) = Live(q, Len(q), vs)
  <2>1. MoreLive(q, x, g, vs)
    BY <1>1, LiveAppended
  <2> QED BY <2>1 DEF MoreLive, HeldIn, HeldBy
<1>7. Here(k, p, Len(code), vs, q)
  BY <1>2, <1>5, <1>6 DEF Here
<1>8. At(k.r, g, Len(g) + 1) = x.e.lhs
  <2>1. PICK r : r = k.r
    OBVIOUS
  <2>2. At(r, g, Len(q) + 2) = Side(x)
    BY <1>1, AtBelow
  <2>3. Len(g) + 1 = Len(q) + 2
    BY <1>1, AppendFacts
  <2> QED BY <2>1, <2>2, <2>3 DEF Side
<1>9. Len(code) + 1 \in p.on <=> OnAt(k, q, Len(q) + 1)
  BY <1>7 DEF Here
<1>10. v \in 0..Len(vs)
  BY DEF Given
<1>11. ASSUME v # 0, OnAt(k, q, Len(q) + 1)
       PROVE  Ready(vs, v, p.live[Len(code) + 1]) /\ p.range[v] \subseteq k.V[x.e.lhs]
  BY <1>8, <1>9, <1>11 DEF Given
<1> QED BY <1>2, <1>3, <1>4, <1>5, <1>7, <1>10, <1>11

\* The right operand of an operator that is neither && nor || is emitted behind the left one,
\* whose value the frame keeps.
LEMMA RightPlain ==
    ASSUME NEW q, IsList(q), NEW x, x.at = "lhs", NEW g, g = Append(q, x), NEW k, Backed(k), Above(k, q, x),
           NEW p, NEW code, NEW vs, PlanOf(k, p, code, vs, g), NEW v, Given(k, p, Len(code), vs, g, v),
           NEW y, y.at = "rhs", y.e = x.e, y.lhs = v, ~Short(x), NEW f, f = Append(q, y)
    PROVE  PlanOf(k, p, code, vs, f)
<1>1. IsList(q) /\ f = Append(q, y) /\ Above(k, q, y) /\ ~Short(y)
  BY DEF Above, Short
<1>2. /\ Planned(k, p, code, vs, Promises(k, q, vs)) /\ AllKeep(k, p, vs, q)
      /\ Here(k, p, Len(code), vs, q)
      /\ v \in 0..Len(vs)
      /\ v # 0 /\ OnAt(k, q, Len(q) + 1) =>
            Ready(vs, v, p.live[Len(code) + 1]) /\ p.range[v] \subseteq k.V[x.e.lhs]
  BY LeftHere
<1>3. Promises(k, f, vs) = Promises(k, q, vs)
  <2>1. MorePromises(k, q, y, f, vs)
    BY <1>1, PromisesAppended
  <2> QED BY <1>1, <2>1 DEF MorePromises, Offered, Offers
<1>4. Keeps(k, p, vs, q, y)
  BY <1>2 DEF Keeps
<1>5. AllKeep(k, p, vs, f)
  BY <1>1, <1>2, <1>4, KeepAppended
<1>6. OnAt(k, f, Len(f) + 1) <=> OnAt(k, q, Len(q) + 1)
  <2>1. RunOnTop(k, q, y, f)
    BY <1>1, OnTop
  <2> QED BY <1>1, <2>1 DEF RunOnTop, Goes
<1>7. Live(f, Len(f), vs) = Live(q, Len(q), vs) \cup HeldIn(y, vs)
  <2>1. MoreLive(q, y, f, vs)
    BY <1>1, LiveAppended
  <2> QED BY <2>1 DEF MoreLive
<1>8. OnAt(k, q, Len(q) + 1) => HeldIn(y, vs) \subseteq p.live[Len(code) + 1]
  <2>1. ASSUME OnAt(k, q, Len(q) + 1), NEW w \in HeldIn(y, vs) PROVE w \in p.live[Len(code) + 1]
    <3>1. w \in 1..Len(vs) /\ ~vs[w].is_constant /\ w = v
      BY <2>1 DEF HeldIn, HeldBy
    <3>2. v # 0
      BY <3>1
    <3> QED BY <1>2, <2>1, <3>1, <3>2 DEF Ready
  <2> QED BY <2>1
<1>9. Here(k, p, Len(code), vs, f)
  BY <1>2, <1>6, <1>7, <1>8 DEF Here
<1> QED BY <1>2, <1>3, <1>5, <1>9 DEF PlanOf

\* && and || test the left operand before.
LEMMA RightShort ==
    ASSUME NEW q, IsList(q), NEW x, x.at = "lhs", NEW g, g = Append(q, x), NEW k, Backed(k), Above(k, q, x),
           NEW p, NEW code, IsList(code), NEW vs, PlanOf(k, p, code, vs, g),
           NEW v, Given(k, p, Len(code), vs, g, v),
           NEW y, y.at = "rhs", y.e = x.e, y.lhs = v, y.exit = x.exit, Short(x), NEW f, f = Append(q, y),
           NEW z, z.type = exit_jump(x.e.op), z.lhs = v, z.label = x.exit, NEW d, d = Append(code, z)
    PROVE  \E P : PlanOf(k, P, d, vs, f)
<1>1. IsList(q) /\ f = Append(q, y) /\ Above(k, q, y) /\ Short(y)
  BY DEF Above, Short
<1>2. PICK n : n = Len(code)
  OBVIOUS
<1>3. n \in Nat /\ Len(d) = n + 1
  BY <1>2, AppendFacts
<1>4. /\ Planned(k, p, code, vs, Promises(k, q, vs)) /\ AllKeep(k, p, vs, q)
      /\ Here(k, p, n, vs, q)
      /\ OnAt(k, q, Len(q) + 1) => Fair(k.D, k.V, x.e, k.m)
      /\ v \in 0..Len(vs)
      /\ v # 0 /\ OnAt(k, q, Len(q) + 1) =>
            Ready(vs, v, p.live[n + 1]) /\ p.range[v] \subseteq k.V[x.e.lhs]
  BY <1>2, LeftHere
<1>5. PICK N : N = {j \in {n + 2} : OnAt(k, f, Len(f) + 1)}
  OBVIOUS
<1>6. PICK P : Grown(p, P, n, N, p.live[n + 1])
  <2>1. N \subseteq {n + 2}
    BY <1>5
  <2> QED BY <1>3, <2>1, GrownExists
<1>7. /\ P.live[n + 1] = p.live[n + 1] /\ P.live[n + 2] = p.live[n + 1] /\ P.range = p.range
      /\ P.on = p.on \cup N
  <2>1. n + 1 \in 1..(n + 1)
    BY <1>3
  <2> QED BY <1>6, <2>1 DEF Grown
<1>8. Keeps(k, P, vs, q, y) /\ AllKeep(k, P, vs, q)
  BY <1>4, <1>7 DEF Keeps, AllKeep, KeepsLeft
<1>9. AllKeep(k, P, vs, f)
  BY <1>1, <1>8, KeepAppended
<1>10. OnAt(k, f, Len(f) + 1) <=> OnAt(k, q, Len(q) + 1) /\ Goes(k, y)
  <2>1. RunOnTop(k, q, y, f)
    BY <1>1, OnTop
  <2> QED BY <2>1 DEF RunOnTop
<1>11. Promises(k, f, vs) = Promises(k, q, vs) \cup Offered(k, q, y, vs)
  <2>1. MorePromises(k, q, y, f, vs)
    BY <1>1, PromisesAppended
  <2> QED BY <2>1 DEF MorePromises
<1>12. PICK U : U = Promises(k, f, vs)
  OBVIOUS
<1>13. n + 1 \in p.on <=> OnAt(k, q, Len(q) + 1)
  BY <1>4 DEF Here
<1>14. ASSUME n + 1 \in p.on PROVE InstOk(k, P, d, vs, U, z, n + 1)
  <2>1. SUFFICES ASSUME v # 0 PROVE TestOk(P, d, vs, U, z, n + 1)
    <3>1. x.e.op \in Logical
      BY DEF Short
    <3>2. z.type \in {"JZ", "JNZ"}
      BY <3>1, ExitLeaves
    <3>3. Lowerable(z) => v # 0
      BY <3>2 DEF Lowerable, LacksOperand
    <3> QED BY <2>1, <3>2, <3>3 DEF InstOk
  <2>2. OnAt(k, q, Len(q) + 1) /\ Ready(vs, v, p.live[n + 1]) /\ p.range[v] \subseteq k.V[x.e.lhs]
    BY <1>4, <1>13, <1>14, <2>1
  <2>3. LogicalFair(k.D, k.V, x.e) /\ x.e.op \in Logical
    BY <1>4, <2>2 DEF Fair, Short
  <2>4. Ready(vs, z.lhs, P.live[n + 1])
    BY <1>7, <2>2
  <2>5. ASSUME NEW a \in p.range[v], Jumping(z.type, a) PROVE Arrives(P, d, U, z.label, P.live[n + 1])
    <3>1. Leaving(x.e.op, a)
      BY <2>3, <2>5, ExitLeaves
    <3>2. LeftWith(x.e.op) \in k.V[x.e]
      BY <2>2, <2>3, <2>5, <3>1 DEF LogicalFair
    <3>3. Offers(k, q, y)
      BY <1>1, <2>2, <3>2 DEF Offers
    <3>4. PICK t : t = <<y.exit, Live(q, Len(q), vs)>>
      OBVIOUS
    <3>5. t \in U
      BY <1>11, <1>12, <3>3, <3>4 DEF Offered
    <3>6. Live(q, Len(q), vs) \subseteq p.live[n + 1]
      BY <1>4, <1>14 DEF Here
    <3>7. t[1] = z.label /\ t[2] \subseteq P.live[n + 1]
      BY <1>7, <3>4, <3>6
    <3> QED BY <3>5, <3>7 DEF Arrives
  <2>6. ASSUME NEW a \in p.range[v], ~Jumping(z.type, a) PROVE Follows(P, n + 1, P.live[n + 1])
    <3>1. ~Leaving(x.e.op, a)
      BY <2>3, <2>6, ExitLeaves
    <3>2. Goes(k, y)
      BY <2>2, <2>6, <3>1 DEF Goes
    <3>3. n + 2 \in P.on /\ (n + 1) + 1 = n + 2
      BY <1>3, <1>5, <1>7, <1>10, <2>2, <3>2
    <3> QED BY <1>7, <3>3 DEF Follows
  <2> QED BY <1>7, <2>4, <2>5, <2>6 DEF TestOk
<1>15. Redeemed(P, d, n, Promises(k, q, vs), U)
  BY <1>11, <1>12 DEF Redeemed
<1>16. Planned(k, P, d, vs, U)
  <2>1. PICK T, S : T = Promises(k, q, vs) /\ S = p.live[n + 1]
    OBVIOUS
  <2>2. IsList(code) /\ d = Append(code, z) /\ n = Len(code) /\ Grown(p, P, n, N, S)
    BY <1>2, <1>6, <2>1
  <2>3. Planned(k, p, code, vs, T) /\ Redeemed(P, d, n, T, U)
    BY <1>4, <1>15, <2>1
  <2> QED BY <1>14, <2>2, <2>3, PlannedGrown
<1>17. Here(k, P, n + 1, vs, f)
  <2>1. (n + 1) + 1 = n + 2
    BY <1>3
  <2>2. n + 2 \notin p.on
    <3>1. p.on \subseteq 1..(n + 1)
      BY <1>2, <1>4 DEF Planned
    <3> QED BY <1>3, <3>1
  <2>3. n + 2 \in P.on <=> OnAt(k, f, Len(f) + 1)
    BY <1>5, <1>7, <2>2
  <2>4. Live(f, Len(f), vs) = Live(q, Len(q), vs) \cup HeldIn(y, vs)
    <3>1. MoreLive(q, y, f, vs)
      BY <1>1, LiveAppended
    <3> QED BY <3>1 DEF MoreLive
  <2>5. HeldIn(y, vs) = {}
    BY <1>1 DEF HeldIn, HeldBy, Short
  <2>6. OnAt(k, f, Len(f) + 1) => Live(q, Len(q), vs) \subseteq p.live[n + 1]
    BY <1>4, <1>10 DEF Here
  <2> QED BY <1>7, <2>1, <2>3, <2>4, <2>5, <2>6 DEF Here
<1> QED BY <1>3, <1>9, <1>12, <1>16, <1>17 DEF PlanOf

\* Where the code goes on, the frame of a right operand being at the top.
LEMMA RightHere ==
    ASSUME NEW q, IsList(q), NEW x, x.at = "rhs", NEW g, g = Append(q, x), NEW k, Backed(k), Above(k, q, x),
           NEW p, NEW code, NEW vs, PlanOf(k, p, code, vs, g), NEW v, Given(k, p, Len(code), vs, g, v)
    PROVE  /\ Planned(k, p, code, vs, Promises(k, g, vs)) /\ AllKeep(k, p, vs, q)
           /\ MorePromises(k, q, x, g, vs) /\ Keeps(k, p, vs, q, x)
           /\ Len(code) + 1 \in p.on <=> OnAt(k, q, Len(q) + 1) /\ Goes(k, x)
           /\ OnAt(k, q, Len(q) + 1) => Fair(k.D, k.V, x.e, k.m)
           /\ Len(code) + 1 \in p.on =>
                 Live(q, Len(q), vs) \cup HeldIn(x, vs) \subseteq p.live[Len(code) + 1]
           /\ v \in 0..Len(vs)
           /\ v # 0 /\ Len(code) + 1 \in p.on =>
                 Ready(vs, v, p.live[Len(code) + 1]) /\ p.range[v] \subseteq k.V[x.e.rhs]
<1>1. IsList(q) /\ g = Append(q, x) /\ Backed(k) /\ Above(k, q, x)
  OBVIOUS
<1>2. Planned(k, p, code, vs, Promises(k, g, vs)) /\ AllKeep(k, p, vs, g) /\ Here(k, p, Len(code), vs, g)
  BY DEF PlanOf
<1>3. MorePromises(k, q, x, g, vs)
  BY <1>1, PromisesAppended
<1>4. AllKeep(k, p, vs, q) /\ Keeps(k, p, vs, q, x)
  BY <1>1, <1>2, KeepAppended
<1>5. RunOnTop(k, q, x, g)
  BY <1>1, OnTop
<1>6. Live(g, Len(g), vs) = Live(q, Len(q), vs) \cup HeldIn(x, vs)
  <2>1. MoreLive(q, x, g, vs)
    BY <1>1, LiveAppended
  <2> QED BY <2>1 DEF MoreLive
<1>7. At(k.r, g, Len(g) + 1) = x.e.rhs
  <2>1. PICK r : r = k.r
    OBVIOUS
  <2>2. At(r, g, Len(q) + 2) = Side(x)
    BY <1>1, AtBelow
  <2>3. Len(g) + 1 = Len(q) + 2
    BY <1>1, AppendFacts
  <2> QED BY <2>1, <2>2, <2>3 DEF Side
<1>8. v \in 0..Len(vs)
  BY DEF Given
<1>9. v # 0 /\ Len(code) + 1 \in p.on =>
         Ready(vs, v, p.live[Len(code) + 1]) /\ p.range[v] \subseteq k.V[x.e.rhs]
  BY <1>7 DEF Given
<1> QED BY <1>2, <1>3, <1>4, <1>5, <1>6, <1>8, <1>9 DEF Here, RunOnTop

\* The instruction z of an operator that is neither && nor ||, for the operands l and v.
OperationAt(k, e, vs, ws, p, P, n, l, v, z) ==
    /\ Fair(k.D, k.V, e, k.m)
    /\ Len(vs) \in Nat /\ Len(ws) = Len(vs) + 1 /\ ~ws[Len(vs) + 1].is_constant
    /\ \A w \in 1..Len(vs) : ws[w] = vs[w] /\ P.range[w] = p.range[w]
    /\ n \in Nat /\ P.range[Len(vs) + 1] = k.V[e] /\ P.live[n + 1] = p.live[n + 1]
    /\ Follows(P, n + 1, p.live[n + 1] \cup {Len(vs) + 1})
    /\ l \in 0..Len(vs) /\ (l # 0 => Ready(vs, l, p.live[n + 1]) /\ p.range[l] \subseteq k.V[e.lhs])
    /\ v \in 0..Len(vs) /\ (v # 0 => Ready(vs, v, p.live[n + 1]) /\ p.range[v] \subseteq k.V[e.rhs])
    /\ z.type = (IF v # 0 THEN "BINARY" ELSE "UNARY")
    /\ z.op = e.op /\ z.lhs = l /\ z.rhs = v /\ z.dst = Len(vs) + 1

\* What is claimed of it.
LEMMA OperationOk ==
    ASSUME NEW k, NEW e, NEW vs, NEW ws, NEW p, NEW P, NEW n, NEW l, NEW v, NEW z,
           OperationAt(k, e, vs, ws, p, P, n, l, v, z), NEW d, NEW T
    PROVE  InstOk(k, P, d, ws, T, z, n + 1)
<1>0. PICK m, t : m = Len(vs) /\ t = IF v # 0 THEN "BINARY" ELSE "UNARY"
  OBVIOUS
<1>a. /\ Fair(k.D, k.V, e, k.m)
      /\ m \in Nat /\ Len(ws) = m + 1 /\ ~ws[m + 1].is_constant
      /\ \A w \in 1..m : ws[w] = vs[w] /\ P.range[w] = p.range[w]
      /\ n \in Nat /\ P.range[m + 1] = k.V[e] /\ P.live[n + 1] = p.live[n + 1]
      /\ Follows(P, n + 1, p.live[n + 1] \cup {m + 1})
      /\ l \in 0..m /\ (l # 0 => Ready(vs, l, p.live[n + 1]) /\ p.range[l] \subseteq k.V[e.lhs])
      /\ v \in 0..m /\ (v # 0 => Ready(vs, v, p.live[n + 1]) /\ p.range[v] \subseteq k.V[e.rhs])
      /\ z.type = t /\ z.op = e.op /\ z.lhs = l /\ z.rhs = v /\ z.dst = m + 1
  BY <1>0 DEF OperationAt
<1>1. SUFFICES ASSUME Lowerable(z) 
               PROVE  /\ t = "UNARY" => UnaryOk(P, ws, z, n + 1)
                      /\ t = "BINARY" => BinaryOk(k, P, ws, z, n + 1)
                      /\ WriteOk(P, ws, z, n + 1)
  BY <1>0, <1>a DEF InstOk
<1>2. l \in 1..m /\ Ready(vs, l, p.live[n + 1]) /\ p.range[l] \subseteq k.V[e.lhs]
  <2>1. l # 0
    BY <1>0, <1>1, <1>a DEF Lowerable, LacksOperand
  <2> QED BY <1>a, <2>1
<1>3. \A w : w \in 1..m => w \in 1..(m + 1) /\ w # m + 1
  BY <1>a
<1>4. \A w : Ready(vs, w, p.live[n + 1]) => Ready(ws, w, P.live[n + 1]) /\ w # m + 1 /\ w \in 1..m
  BY <1>0, <1>3, <1>a DEF Ready
<1>5. WriteOk(P, ws, z, n + 1)
  <2>1. m + 1 \in 1..(m + 1)
    BY <1>a
  <2> QED BY <1>a, <2>1 DEF WriteOk
<1>6. ASSUME t = "UNARY" PROVE UnaryOk(P, ws, z, n + 1)
  <2>1. e.op \in UnaryOps
    BY <1>1, <1>6, <1>a DEF Lowerable, Unimplemented
  <2>2. \A a \in P.range[l] : UnGives(e.op, a) \in P.range[m + 1]
    BY <1>2, <1>a, <2>1 DEF Fair, UnaryFair
  <2> QED BY <1>2, <1>4, <1>a, <2>2 DEF UnaryOk
<1>7. ASSUME t = "BINARY" PROVE BinaryOk(k, P, ws, z, n + 1)
  <2>1. e.op \in BinaryOps
    BY <1>1, <1>7, <1>a DEF Lowerable, Unimplemented
  <2>2. v # 0 /\ v \in 1..m
    BY <1>0, <1>7, <1>a
  <2>3. \A a \in P.range[l], b \in P.range[v] :
           Gives(e.op, a, b) \in P.range[m + 1] /\ (k.m = "exact" => ~Traps(e.op, a, b))
    BY <1>2, <1>a, <2>1, <2>2 DEF Fair, BinaryFair
  <2> QED BY <1>2, <1>4, <1>a, <2>2, <2>3 DEF BinaryOk
<1> QED BY <1>0, <1>5, <1>6, <1>7

\* The instruction of such an operator, and the value it makes.
LEMMA OperationPlan ==
    ASSUME NEW q, IsList(q), NEW x, x.at = "rhs", ~Short(x), NEW g, g = Append(q, x),
           NEW k, Backed(k), Above(k, q, x),
           NEW p, NEW code, IsList(code), NEW vs, IsList(vs), PlanOf(k, p, code, vs, g),
           NEW v, Given(k, p, Len(code), vs, g, v),
           NEW u, ~u.is_constant, NEW ws, ws = Append(vs, u),
           NEW z, NEW t, t = IF v # 0 THEN "BINARY" ELSE "UNARY",
           z.type = t, z.op = x.e.op, z.lhs = x.lhs, z.rhs = v, z.dst = Len(vs) + 1,
           NEW d, d = Append(code, z)
    PROVE  \E P : PlanOf(k, P, d, ws, q) /\ Given(k, P, Len(d), ws, q, Len(vs) + 1)
<1>1. PICK n, m : n = Len(code) /\ m = Len(vs)
  OBVIOUS
<1>2. /\ n \in Nat /\ m \in Nat /\ Len(d) = n + 1 /\ Len(ws) = m + 1 /\ ws[m + 1] = u
      /\ \A w \in 1..m : ws[w] = vs[w]
  BY <1>1, AppendFacts
<1>3. /\ Planned(k, p, code, vs, Promises(k, g, vs)) /\ AllKeep(k, p, vs, q)
      /\ MorePromises(k, q, x, g, vs) /\ Keeps(k, p, vs, q, x)
      /\ n + 1 \in p.on <=> OnAt(k, q, Len(q) + 1) /\ Goes(k, x)
      /\ OnAt(k, q, Len(q) + 1) => Fair(k.D, k.V, x.e, k.m)
      /\ n + 1 \in p.on => Live(q, Len(q), vs) \cup HeldIn(x, vs) \subseteq p.live[n + 1]
      /\ v \in 0..m
      /\ v # 0 /\ n + 1 \in p.on => Ready(vs, v, p.live[n + 1]) /\ p.range[v] \subseteq k.V[x.e.rhs]
  BY <1>1, RightHere
<1>4. Promises(k, g, vs) = Promises(k, q, vs) /\ Goes(k, x)
  BY <1>3 DEF MorePromises, Offered, Offers, Goes
<1>5. PICK R : R = {a \in Words : a \in k.V[x.e]}
  OBVIOUS
<1>6. PICK p1 : Widened(p, p1, m, R)
  BY <1>2, WidenedExists
<1>7. PICK T : T = Promises(k, q, vs)
  OBVIOUS
<1>w. Widening(vs, u, ws, p, p1, R)
  BY <1>1, <1>5, <1>6 DEF Widening
<1>8. Planned(k, p1, code, ws, T)
  <2>1. Planned(k, p, code, vs, T)
    BY <1>3, <1>4, <1>7
  <2> QED BY <1>w, <2>1, PlannedWidened
<1>9. Here(k, p, n, vs, q)
  BY <1>3, <1>4 DEF Here
<1>10. /\ AllKeep(k, p1, ws, q) /\ Promises(k, q, ws) = T
       /\ Here(k, p1, n, ws, q)
  <2>1. IsList(q) /\ AllKeep(k, p, vs, q)
    BY <1>3
  <2>2. SameFrames(k, p, vs, p1, ws, q)
    BY <1>w, <2>1, FramesWidened
  <2> QED BY <1>7, <1>9, <2>2 DEF SameFrames
<1>11. PICK N, S : N = {j \in {n + 2} : n + 1 \in p.on} /\ S = p.live[n + 1] \cup {m + 1}
  OBVIOUS
<1>12. PICK P : Grown(p1, P, n, N, S)
  <2>1. N \subseteq {n + 2}
    BY <1>11
  <2> QED BY <1>2, <2>1, GrownExists
<1>13. /\ P.live[n + 1] = p.live[n + 1] /\ P.live[n + 2] = S /\ P.on = p.on \cup N
       /\ P.range[m + 1] = R /\ \A w \in 1..m : P.range[w] = p.range[w]
  <2>1. n + 1 \in 1..(n + 1)
    BY <1>2
  <2> QED BY <1>6, <1>12, <2>1 DEF Grown, Widened
<1>14. ASSUME n + 1 \in p.on PROVE InstOk(k, P, d, ws, T, z, n + 1)
  <2>1. Fair(k.D, k.V, x.e, k.m) /\ OnAt(k, q, Len(q) + 1)
    BY <1>3, <1>14
  <2>2. k.V[x.e] \subseteq Words
    <3>1. Len(q) + 1 \in 1..(Len(q) + 1)
      BY AppendFacts
    <3>2. x.e \in k.D
      BY <2>1, <3>1 DEF OnAt, Above
    <3> QED BY <3>2 DEF Backed, Sound
  <2>3. R = k.V[x.e]
    BY <1>5, <2>2
  <2>4. Follows(P, n + 1, p.live[n + 1] \cup {m + 1})
    <3>1. (n + 1) + 1 = n + 2
      BY <1>2
    <3> QED BY <1>11, <1>13, <1>14, <3>1 DEF Follows
  <2>5. PICK l : l = x.lhs
    OBVIOUS
  <2>6. l \in 0..m /\ (l # 0 => p.range[l] \subseteq k.V[x.e.lhs])
    BY <1>1, <1>3, <2>1, <2>5 DEF Keeps
  <2>7. l # 0 => Ready(vs, l, p.live[n + 1])
    <3>1. l # 0 => l \in 1..m
      BY <2>6
    <3>2. l # 0 /\ ~vs[l].is_constant => l \in HeldIn(x, vs)
      BY <1>1, <2>5, <3>1 DEF HeldIn, HeldBy, Short
    <3> QED BY <1>1, <1>3, <1>14, <3>1, <3>2 DEF Ready
  <2>8. v # 0 => Ready(vs, v, p.live[n + 1]) /\ p.range[v] \subseteq k.V[x.e.rhs]
    BY <1>3, <1>14
  <2>9. PICK e : e = x.e
    OBVIOUS
  <2>10. l # 0 => Ready(vs, l, p.live[n + 1]) /\ p.range[l] \subseteq k.V[e.lhs]
    BY <2>6, <2>7, <2>9
  <2>11. v # 0 => Ready(vs, v, p.live[n + 1]) /\ p.range[v] \subseteq k.V[e.rhs]
    BY <2>8, <2>9
  <2>12. OperationAt(k, e, vs, ws, p, P, n, l, v, z)
    BY <1>1, <1>2, <1>3, <1>13, <2>1, <2>3, <2>4, <2>5, <2>6, <2>9, <2>10, <2>11 DEF OperationAt
  <2> QED BY <2>12, OperationOk
<1>15. Redeemed(P, d, n, T, T)
  BY DEF Redeemed
<1>16. p1.on = p.on
  BY <1>6 DEF Widened
<1>17. Planned(k, P, d, ws, T)
  <2>1. IsList(code) /\ d = Append(code, z) /\ n = Len(code)
    BY <1>1
  <2>2. n + 1 \in p1.on => InstOk(k, P, d, ws, T, z, n + 1)
    BY <1>14, <1>16
  <2> QED BY <1>8, <1>12, <1>15, <2>1, <2>2, PlannedGrown
<1>18. AllKeep(k, P, ws, q)
  <2>1. P.range = p1.range
    BY <1>12 DEF Grown
  <2> QED BY <1>10, <2>1 DEF AllKeep, KeepsLeft
<1>19. (n + 1) + 1 = n + 2 /\ (n + 2 \in P.on <=> n + 1 \in p.on)
  <2>1. p.on \subseteq 1..(n + 1)
    BY <1>1, <1>3 DEF Planned
  <2>2. n + 2 \notin p.on
    BY <1>2, <2>1
  <2> QED BY <1>2, <1>11, <1>13, <2>2
<1>20. Here(k, P, n + 1, ws, q)
  <2>1. n + 1 \in p.on <=> OnAt(k, q, Len(q) + 1)
    BY <1>3, <1>4
  <2>2. n + 1 \in p.on => Live(q, Len(q), ws) \subseteq p.live[n + 1]
    BY <1>10, <1>13, <1>16, <1>6 DEF Here, Widened
  <2> QED BY <1>11, <1>13, <1>19, <2>1, <2>2 DEF Here
<1>21. Given(k, P, n + 1, ws, q, m + 1)
  <2>1. x.e = At(k.r, q, Len(q) + 1)
    BY DEF Above
  <2>2. m + 1 \in 1..(m + 1) /\ m + 1 \in 0..(m + 1)
    BY <1>2
  <2>3. Ready(ws, m + 1, S)
    BY <1>2, <1>11, <2>2 DEF Ready
  <2>4. P.range[m + 1] \subseteq k.V[x.e]
    BY <1>5, <1>13
  <2> QED BY <1>2, <1>13, <1>19, <2>1, <2>2, <2>3, <2>4 DEF Given
<1> QED BY <1>1, <1>2, <1>7, <1>10, <1>17, <1>18, <1>20, <1>21 DEF PlanOf

\* A leaf is a value of its own: a constant, or a variable that nothing has written.
LEMMA LeafPlan ==
    ASSUME NEW q, IsList(q), NEW k, Backed(k), NEW e, e = At(k.r, q, Len(q) + 1), e \in Parts(k.r),
           NEW p, NEW code, NEW vs, IsList(vs), PlanOf(k, p, code, vs, q),
           NEW u, NEW ws, ws = Append(vs, u),
           \/ e.op = "VAR" /\ ~u.is_constant
           \/ e.op = "CONST" /\ u.is_constant /\ u.val = e.val
    PROVE  \E P : PlanOf(k, P, code, ws, q) /\ Given(k, P, Len(code), ws, q, Len(vs) + 1)
<1>1. PICK n, m : n = Len(code) /\ m = Len(vs)
  OBVIOUS
<1>2. m \in Nat /\ Len(ws) = m + 1 /\ ws[m + 1] = u
  BY <1>1, AppendFacts
<1>3. Planned(k, p, code, vs, Promises(k, q, vs)) /\ AllKeep(k, p, vs, q) /\ Here(k, p, n, vs, q)
  BY <1>1 DEF PlanOf
<1>4. PICK R : R = {a \in Words : u.is_constant /\ a = Signed(u.val)}
  OBVIOUS
<1>5. u.is_constant => R = {Signed(u.val)}
  <2> SUFFICES ASSUME u.is_constant PROVE R = {Signed(u.val)}
    OBVIOUS
  <2>1. PICK c : c = u.val
    OBVIOUS
  <2>2. c \in Int
    BY <2>1 DEF Backed
  <2>3. Signed(c) \in Words
    BY <2>2, SignedWord
  <2> QED BY <1>4, <2>1, <2>3
<1>6. PICK P : Widened(p, P, m, R)
  BY <1>2, WidenedExists
<1>7. Widening(vs, u, ws, p, P, R)
  BY <1>1, <1>4, <1>5, <1>6 DEF Widening
<1>8. SameFrames(k, p, vs, P, ws, q)
  BY <1>3, <1>7, FramesWidened
<1>9. Planned(k, P, code, ws, Promises(k, q, vs))
  BY <1>3, <1>7, PlannedWidened
<1>10. PlanOf(k, P, code, ws, q)
  BY <1>1, <1>3, <1>8, <1>9 DEF PlanOf, SameFrames
<1>11. m + 1 \in 0..(m + 1) /\ m + 1 \in 1..(m + 1) /\ m + 1 # 0
  BY <1>2
<1>12. ASSUME n + 1 \in P.on
       PROVE  Ready(ws, m + 1, P.live[n + 1]) /\ P.range[m + 1] \subseteq k.V[e]
  <2>1. Here(k, P, n, ws, q)
    BY <1>3, <1>8 DEF SameFrames
  <2>2. Len(q) + 1 \in 1..(Len(q) + 1)
    BY AppendFacts
  <2>3. e \in k.D
    BY <1>12, <2>1, <2>2 DEF Here, OnAt
  <2>4. Fair(k.D, k.V, e, k.m)
    BY <2>3 DEF Backed, Sound
  <2>5. u.is_constant /\ Signed(u.val) \in k.V[e]
    BY <2>4 DEF Fair
  <2>6. P.range[m + 1] = {Signed(u.val)}
    BY <1>5, <1>6, <2>5 DEF Widened
  <2> QED BY <1>2, <1>11, <2>5, <2>6 DEF Ready
<1>13. Given(k, P, n, ws, q, m + 1)
  BY <1>2, <1>11, <1>12 DEF Given
<1> QED BY <1>1, <1>10, <1>13

\* The value of the body's expression is returned.
LEMMA ReturnPlan ==
    ASSUME NEW k, NEW p, NEW code, IsList(code), NEW vs, PlanOf(k, p, code, vs, <<>>),
           NEW v, Given(k, p, Len(code), vs, <<>>, v),
           NEW z, z.type = "RETURN", z.lhs = v, NEW d, d = Append(code, z)
    PROVE  \E P : Planned(k, P, d, vs, {}) /\ P.on \subseteq 1..Len(d)
<1>1. PICK n : n = Len(code)
  OBVIOUS
<1>2. n \in Nat /\ Len(d) = n + 1 /\ IsList(code) /\ d = Append(code, z)
  BY <1>1, AppendFacts
<1>3. Promises(k, <<>>, vs) = {}
  <2>1. 1..Len(<<>>) = {}
    OBVIOUS
  <2> QED BY <2>1 DEF Promises
<1>4. Planned(k, p, code, vs, {})
  BY <1>3 DEF PlanOf
<1>5. PICK N, S : N = {} /\ S = {}
  OBVIOUS
<1>6. PICK P : Grown(p, P, n, N, S)
  <2>1. N \subseteq {n + 2}
    BY <1>5
  <2> QED BY <1>2, <2>1, GrownExists
<1>7. P.live[n + 1] = p.live[n + 1] /\ P.on = p.on /\ P.range = p.range
  <2>1. n + 1 \in 1..(n + 1)
    BY <1>2
  <2> QED BY <1>5, <1>6, <2>1 DEF Grown
<1>8. ASSUME n + 1 \in p.on PROVE InstOk(k, P, d, vs, {}, z, n + 1)
  <2>1. Lowerable(z) => v # 0
    BY DEF Lowerable, LacksOperand
  <2>2. At(k.r, <<>>, Len(<<>>) + 1) = k.r
    BY DEF At
  <2>3. v # 0 => Ready(vs, v, p.live[n + 1]) /\ p.range[v] \subseteq k.V[k.r]
    BY <1>1, <1>8, <2>2 DEF Given
  <2>4. Lowerable(z) => ReturnOk(k, P, vs, z, n + 1)
    BY <1>7, <2>1, <2>3 DEF ReturnOk
  <2> QED BY <2>4 DEF InstOk
<1>9. Redeemed(P, d, n, {}, {})
  BY DEF Redeemed
<1>10. Planned(k, P, d, vs, {})
  BY <1>1, <1>2, <1>4, <1>6, <1>8, <1>9, PlannedGrown
<1>11. P.on \subseteq 1..Len(d)
  BY <1>1, <1>2, <1>4, <1>7 DEF Planned
<1> QED BY <1>10, <1>11

-----------------------------------------------------------------------------
(* The end of && and ||.                                                   *)

\* The instruction z is appended to a code that goes by the plan p, and N says whether the
\* place behind it is reached.
Growing(k, p, code, vs, T, z, d, N) ==
    IsList(code) /\ d = Append(code, z) /\ Planned(k, p, code, vs, T) /\ N \subseteq {Len(code) + 2}

Stepped(p, P, n, N, S) ==
    /\ P.range = p.range /\ P.live[n + 1] = p.live[n + 1] /\ P.live[n + 2] = S
    /\ n + 1 \in P.on <=> n + 1 \in p.on
    /\ n + 2 \in P.on <=> n + 2 \in N

\* There is a plan for it.
LEMMA StepExists ==
    ASSUME NEW k, NEW p, NEW code, NEW vs, NEW T, NEW z, NEW d, NEW N, Growing(k, p, code, vs, T, z, d, N), NEW S
    PROVE  \E P : Grown(p, P, Len(code), N, S) /\ Stepped(p, P, Len(code), N, S)
<1>1. PICK n : n = Len(code)
  OBVIOUS
<1>2. n \in Nat /\ p.on \subseteq 1..(n + 1) /\ N \subseteq {n + 2}
  BY <1>1, AppendFacts DEF Growing, Planned
<1>3. PICK P : Grown(p, P, n, N, S)
  BY <1>2, GrownExists
<1>4. n + 1 \in 1..(n + 1) /\ n + 2 \notin p.on /\ n + 1 \notin N
  BY <1>2
<1>5. Stepped(p, P, n, N, S)
  BY <1>3, <1>4 DEF Grown, Stepped
<1> QED BY <1>1, <1>3, <1>5

\* It holds if the claims for the instruction do.
LEMMA StepPlanned ==
    ASSUME NEW k, NEW p, NEW code, NEW vs, NEW T, NEW z, NEW d, NEW N, Growing(k, p, code, vs, T, z, d, N),
           NEW S, NEW P, Grown(p, P, Len(code), N, S), NEW U, Redeemed(P, d, Len(code), T, U),
           Len(code) + 1 \in p.on => InstOk(k, P, d, vs, U, z, Len(code) + 1)
    PROVE  Planned(k, P, d, vs, U)
<1>1. IsList(code) /\ d = Append(code, z) /\ Planned(k, p, code, vs, T)
  BY DEF Growing
<1>2. PICK n : n = Len(code)
  OBVIOUS
<1>3. Grown(p, P, n, N, S) /\ Redeemed(P, d, n, T, U) /\ (n + 1 \in p.on => InstOk(k, P, d, vs, U, z, n + 1))
  BY <1>2
<1> QED BY <1>1, <1>2, <1>3, PlannedGrown

\* What is claimed of copies, labels and jumps.
LEMMA SimpleOk ==
    ASSUME NEW k, NEW P, NEW d, NEW vs, NEW U, NEW z, NEW j,
           \/ z.type = "COPY" /\ CopyOk(P, vs, z) /\ WriteOk(P, vs, z, j)
           \/ z.type = "LABEL" /\ Follows(P, j, P.live[j])
           \/ z.type = "JMP" /\ Arrives(P, d, U, z.label, P.live[j])
           \/ z.type \in {"JZ", "JNZ"} /\ (z.lhs # 0 => TestOk(P, d, vs, U, z, j))
    PROVE  InstOk(k, P, d, vs, U, z, j)
<1>1. CASE z.type = "COPY" /\ CopyOk(P, vs, z) /\ WriteOk(P, vs, z, j)
  BY <1>1 DEF InstOk
<1>2. CASE z.type = "LABEL" /\ Follows(P, j, P.live[j])
  BY <1>2 DEF InstOk
<1>3. CASE z.type = "JMP" /\ Arrives(P, d, U, z.label, P.live[j])
  BY <1>3 DEF InstOk
<1>4. CASE z.type \in {"JZ", "JNZ"} /\ (z.lhs # 0 => TestOk(P, d, vs, U, z, j))
  BY <1>4 DEF InstOk, Lowerable, LacksOperand
<1> QED BY <1>1, <1>2, <1>3, <1>4

\* What is known in front of the six instructions: v is the value of the second operand, lv
\* are the variables kept, r the result, s and w the constants copied to it.  Is 0 in H, the
\* operator is run; is it in G, it may stay; is it in E, it may be left.
TailAt(k, p, code, vs, T, Q, t, v, lv, r, s, w, x, H, G, E) ==
    /\ IsList(code) /\ Planned(k, p, code, vs, T) /\ t \in {"JZ", "JNZ"}
    /\ Len(code) + 1 \in p.on /\ v # 0 =>
          /\ Ready(vs, v, p.live[Len(code) + 1])
          /\ \A a \in p.range[v] : IF Jumping(t, a) THEN 0 \in E ELSE 0 \in G
    /\ Len(code) + 1 \in p.on => lv \subseteq p.live[Len(code) + 1]
    /\ G \subseteq H /\ E \subseteq H
    /\ r \in 1..Len(vs) /\ ~vs[r].is_constant
    /\ s \in 1..Len(vs) /\ vs[s].is_constant /\ w \in 1..Len(vs) /\ vs[w].is_constant
    /\ 0 \in G => p.range[s] \subseteq p.range[r]
    /\ 0 \in E => p.range[w] \subseteq p.range[r] /\ <<x, lv>> \in T
    /\ \A a \in T : a \in Q \/ (0 \in E /\ a = <<x, lv>>)

\* The six instructions.
TailIs(a, b, c, d, e, f, t, v, r, s, w, x, z) ==
    /\ a.type = t /\ a.lhs = v /\ a.label = x
    /\ b.type = "COPY" /\ b.lhs = s /\ b.dst = r
    /\ c.type = "JMP" /\ c.label = z
    /\ d.type = "LABEL" /\ d.label = x
    /\ e.type = "COPY" /\ e.lhs = w /\ e.dst = r
    /\ f.type = "LABEL" /\ f.label = z

\* The six instructions c6 go by the plan P.
TailDone(k, p, P, c6, vs, Q, H, lv, r) ==
    /\ Planned(k, P, c6, vs, Q) /\ P.range = p.range
    /\ Len(c6) + 1 \in P.on <=> 0 \in H
    /\ P.live[Len(c6) + 1] = lv \cup {r}

SixMore(code, c6, a, b, c, d, e, f) ==
    c6 = Append(Append(Append(Append(Append(Append(code, a), b), c), d), e), f)

\* There is such a plan, and the operator's promise is redeemed.
LEMMA TailPlan ==
    ASSUME NEW k, NEW p, NEW code, NEW vs, NEW T, NEW Q, NEW t, NEW v, NEW lv, NEW r, NEW s, NEW w,
           NEW x, NEW z, NEW H, NEW G, NEW E, TailAt(k, p, code, vs, T, Q, t, v, lv, r, s, w, x, H, G, E),
           NEW a, NEW b, NEW c, NEW d, NEW e, NEW f, TailIs(a, b, c, d, e, f, t, v, r, s, w, x, z),
           NEW c6, SixMore(code, c6, a, b, c, d, e, f)
    PROVE  \E P : TailDone(k, p, P, c6, vs, Q, H, lv, r)
<1>0. /\ IsList(code) /\ Planned(k, p, code, vs, T) /\ t \in {"JZ", "JNZ"}
      /\ Len(code) + 1 \in p.on /\ v # 0 =>
            /\ Ready(vs, v, p.live[Len(code) + 1])
            /\ \A y \in p.range[v] : IF Jumping(t, y) THEN 0 \in E ELSE 0 \in G
      /\ Len(code) + 1 \in p.on => lv \subseteq p.live[Len(code) + 1]
      /\ G \subseteq H /\ E \subseteq H
      /\ r \in 1..Len(vs) /\ ~vs[r].is_constant
      /\ s \in 1..Len(vs) /\ vs[s].is_constant /\ w \in 1..Len(vs) /\ vs[w].is_constant
      /\ 0 \in G => p.range[s] \subseteq p.range[r]
      /\ 0 \in E => p.range[w] \subseteq p.range[r] /\ <<x, lv>> \in T
      /\ \A y \in T : y \in Q \/ (0 \in E /\ y = <<x, lv>>)
  BY DEF TailAt
<1>t. /\ a.type = t /\ a.lhs = v /\ a.label = x
      /\ b.type = "COPY" /\ b.lhs = s /\ b.dst = r
      /\ c.type = "JMP" /\ c.label = z
      /\ d.type = "LABEL" /\ d.label = x
      /\ e.type = "COPY" /\ e.lhs = w /\ e.dst = r
      /\ f.type = "LABEL" /\ f.label = z
  BY DEF TailIs
<1>n. PICK n : n = Len(code)
  OBVIOUS
<1>c. PICK c1, c2, c3, c4, c5 : /\ c1 = Append(code, a) /\ c2 = Append(c1, b) /\ c3 = Append(c2, c)
                                /\ c4 = Append(c3, d) /\ c5 = Append(c4, e)
  OBVIOUS
<1>d. c6 = Append(c5, f)
  BY <1>c DEF SixMore
<1>l. /\ n \in Nat /\ Len(c1) = n + 1 /\ Len(c2) = n + 2 /\ Len(c3) = n + 3 /\ Len(c4) = n + 4
      /\ Len(c5) = n + 5 /\ Len(c6) = n + 6
      /\ IsList(c1) /\ IsList(c2) /\ IsList(c3) /\ IsList(c4) /\ IsList(c5) /\ IsList(c6)
  <2>1. n \in Nat /\ Len(c1) = n + 1 /\ IsList(c1)
    BY <1>0, <1>c, <1>n, AppendFacts
  <2>2. Len(c2) = n + 2 /\ IsList(c2)
    BY <1>c, <2>1, AppendFacts
  <2>3. Len(c3) = n + 3 /\ IsList(c3)
    BY <1>c, <2>1, <2>2, AppendFacts
  <2>4. Len(c4) = n + 4 /\ IsList(c4)
    BY <1>c, <2>1, <2>3, AppendFacts
  <2>5. Len(c5) = n + 5 /\ IsList(c5)
    BY <1>c, <2>1, <2>4, AppendFacts
  <2>6. Len(c6) = n + 6 /\ IsList(c6)
    BY <1>d, <2>1, <2>5, AppendFacts
  <2> QED BY <2>1, <2>2, <2>3, <2>4, <2>5, <2>6
<1>s. PICK lr, m : lr = lv \cup {r} /\ m = <<z, lr>>
  OBVIOUS
<1>u. PICK U, X : U = T \cup {y \in {m} : 0 \in H} /\ X = Q \cup {y \in {m} : 0 \in H}
  OBVIOUS
\* the second test
<1>1. PICK N : N = {j \in {n + 2} : 0 \in G}
  OBVIOUS
<1>2. Growing(k, p, code, vs, T, a, c1, N)
  BY <1>0, <1>1, <1>c, <1>n DEF Growing
<1>3. PICK p1 : Grown(p, p1, n, N, lv) /\ Stepped(p, p1, n, N, lv)
  BY <1>2, <1>n, StepExists
<1>4. /\ p1.range = p.range /\ p1.live[n + 1] = p.live[n + 1] /\ p1.live[n + 2] = lv
      /\ n + 2 \in p1.on <=> 0 \in G
  BY <1>1, <1>3 DEF Stepped
<1>5. ASSUME n + 1 \in p.on, v # 0 PROVE TestOk(p1, c1, vs, T, a, n + 1)
  <2>1. (n + 1) + 1 = n + 2 /\ lv \subseteq p.live[n + 1]
    BY <1>0, <1>5, <1>l, <1>n
  <2>2. ASSUME NEW y \in p.range[v], Jumping(t, y) PROVE Arrives(p1, c1, T, x, p1.live[n + 1])
    <3>1. PICK g : g = <<x, lv>>
      OBVIOUS
    <3>2. g \in T /\ g[1] = x /\ g[2] \subseteq p1.live[n + 1]
      BY <1>0, <1>4, <1>5, <1>n, <2>1, <2>2, <3>1
    <3> QED BY <3>2 DEF Arrives
  <2>3. ASSUME NEW y \in p.range[v], ~Jumping(t, y) PROVE Follows(p1, n + 1, p1.live[n + 1])
    BY <1>0, <1>4, <1>5, <1>n, <2>1, <2>3 DEF Follows
  <2>4. Ready(vs, v, p1.live[n + 1])
    BY <1>0, <1>4, <1>5, <1>n
  <2> QED BY <1>4, <1>t, <2>2, <2>3, <2>4 DEF TestOk
<1>6. Planned(k, p1, c1, vs, T)
  <2>1. n + 1 \in p.on => InstOk(k, p1, c1, vs, T, a, n + 1)
    BY <1>0, <1>5, <1>t, SimpleOk
  <2>2. Redeemed(p1, c1, n, T, T)
    BY DEF Redeemed
  <2> QED BY <1>2, <1>3, <1>n, <2>1, <2>2, StepPlanned
\* the result when the operator stays
<1>7. PICK N2 : N2 = {j \in {n + 3} : 0 \in G}
  OBVIOUS
<1>8. Growing(k, p1, c1, vs, T, b, c2, N2) /\ Len(c1) = n + 1 /\ (n + 1) + 1 = n + 2 /\ (n + 1) + 2 = n + 3
  BY <1>6, <1>7, <1>c, <1>l DEF Growing
<1>9. PICK p2 : Grown(p1, p2, n + 1, N2, lr) /\ Stepped(p1, p2, n + 1, N2, lr)
  BY <1>8, StepExists
<1>10. /\ p2.range = p.range /\ p2.live[n + 2] = lv /\ p2.live[n + 3] = lr
       /\ n + 3 \in p2.on <=> 0 \in G
  BY <1>4, <1>7, <1>8, <1>9 DEF Stepped
<1>11. ASSUME n + 2 \in p1.on PROVE CopyOk(p2, vs, b) /\ WriteOk(p2, vs, b, n + 2)
  <2>1. 0 \in G /\ (n + 2) + 1 = n + 3
    BY <1>4, <1>11, <1>l, SMTT(40)
  <2>2. Follows(p2, n + 2, p2.live[n + 2] \cup {r})
    BY <1>10, <1>s, <2>1 DEF Follows
  <2> QED BY <1>0, <1>10, <1>t, <2>1, <2>2 DEF CopyOk, WriteOk
<1>12. Planned(k, p2, c2, vs, T)
  <2>1. n + 2 \in p1.on => InstOk(k, p2, c2, vs, T, b, n + 2)
    BY <1>11, <1>t, SimpleOk
  <2>2. Redeemed(p2, c2, n + 1, T, T)
    BY DEF Redeemed
  <2> QED BY <1>8, <1>9, <2>1, <2>2, StepPlanned
\* the jump to the end
<1>13. PICK N3 : N3 = {j \in {n + 4} : 0 \in E}
  OBVIOUS
<1>14. Growing(k, p2, c2, vs, T, c, c3, N3) /\ Len(c2) = n + 2 /\ (n + 2) + 1 = n + 3 /\ (n + 2) + 2 = n + 4
  BY <1>12, <1>13, <1>c, <1>l DEF Growing
<1>15. PICK p3 : Grown(p2, p3, n + 2, N3, lv) /\ Stepped(p2, p3, n + 2, N3, lv)
  BY <1>14, StepExists
<1>16. /\ p3.range = p.range /\ p3.live[n + 3] = lr /\ p3.live[n + 4] = lv
       /\ n + 4 \in p3.on <=> 0 \in E
  BY <1>10, <1>13, <1>14, <1>15 DEF Stepped
<1>17. ASSUME n + 3 \in p2.on PROVE Arrives(p3, c3, U, c.label, p3.live[n + 3])
  <2>1. 0 \in H
    BY <1>0, <1>10, <1>17
  <2>2. m \in U /\ m[1] = z /\ m[2] \subseteq p3.live[n + 3]
    BY <1>16, <1>s, <1>u, <2>1
  <2> QED BY <1>t, <2>2 DEF Arrives
<1>18. Planned(k, p3, c3, vs, U)
  <2>1. n + 3 \in p2.on => InstOk(k, p3, c3, vs, U, c, n + 3)
    BY <1>17, <1>t, SimpleOk
  <2>2. Redeemed(p3, c3, n + 2, T, U)
    BY <1>u DEF Redeemed
  <2> QED BY <1>14, <1>15, <2>1, <2>2, StepPlanned
\* where the operator is left
<1>19. PICK N4 : N4 = {j \in {n + 5} : 0 \in E}
  OBVIOUS
<1>20. Growing(k, p3, c3, vs, U, d, c4, N4) /\ Len(c3) = n + 3 /\ (n + 3) + 1 = n + 4 /\ (n + 3) + 2 = n + 5
  BY <1>18, <1>19, <1>c, <1>l DEF Growing
<1>21. PICK p4 : Grown(p3, p4, n + 3, N4, lv) /\ Stepped(p3, p4, n + 3, N4, lv)
  BY <1>20, StepExists
<1>22. /\ p4.range = p.range /\ p4.live[n + 4] = lv /\ p4.live[n + 5] = lv
       /\ (n + 5 \in p4.on <=> 0 \in E) /\ (n + 4 \in p4.on <=> 0 \in E)
  BY <1>16, <1>19, <1>20, <1>21 DEF Stepped
<1>23. Planned(k, p4, c4, vs, X)
  <2>1. n + 4 \in p3.on => Follows(p4, n + 4, p4.live[n + 4])
    <3>1. (n + 4) + 1 = n + 5
      BY <1>l
    <3> QED BY <1>16, <1>22, <3>1 DEF Follows
  <2>2. n + 4 \in p3.on => InstOk(k, p4, c4, vs, X, d, n + 4)
    BY <1>t, <2>1, SimpleOk
  <2>3. Redeemed(p4, c4, n + 3, U, X)
    <3>1. c4[n + 4] = d
      BY <1>c, <1>l, <1>20, AppendFacts
    <3>2. ASSUME 0 \in E, NEW y, y = <<x, lv>> PROVE Landed(p4, c4, y[1], y[2], n + 4)
      BY <1>22, <1>t, <3>1, <3>2 DEF Landed
    <3>3. \A y \in U : y \in X \/ (0 \in E /\ y = <<x, lv>>)
      BY <1>0, <1>u
    <3> QED BY <1>20, <3>2, <3>3 DEF Redeemed
  <2> QED BY <1>20, <1>21, <2>2, <2>3, StepPlanned
\* the result when it is left
<1>24. PICK N5 : N5 = {j \in {n + 6} : 0 \in H}
  OBVIOUS
<1>25. Growing(k, p4, c4, vs, X, e, c5, N5) /\ Len(c4) = n + 4 /\ (n + 4) + 1 = n + 5 /\ (n + 4) + 2 = n + 6
  BY <1>23, <1>24, <1>c, <1>l DEF Growing
<1>26. PICK p5 : Grown(p4, p5, n + 4, N5, lr) /\ Stepped(p4, p5, n + 4, N5, lr)
  BY <1>25, StepExists
<1>27. /\ p5.range = p.range /\ p5.live[n + 5] = lv /\ p5.live[n + 6] = lr
       /\ n + 6 \in p5.on <=> 0 \in H
  BY <1>22, <1>24, <1>25, <1>26 DEF Stepped
<1>28. ASSUME n + 5 \in p4.on PROVE CopyOk(p5, vs, e) /\ WriteOk(p5, vs, e, n + 5)
  <2>1. 0 \in E /\ 0 \in H /\ (n + 5) + 1 = n + 6
    BY <1>0, <1>22, <1>28, <1>l
  <2>2. Follows(p5, n + 5, p5.live[n + 5] \cup {r})
    BY <1>27, <1>s, <2>1 DEF Follows
  <2> QED BY <1>0, <1>27, <1>t, <2>1, <2>2 DEF CopyOk, WriteOk
<1>29. Planned(k, p5, c5, vs, X)
  <2>1. n + 5 \in p4.on => InstOk(k, p5, c5, vs, X, e, n + 5)
    BY <1>28, <1>t, SimpleOk
  <2>2. Redeemed(p5, c5, n + 4, X, X)
    BY DEF Redeemed
  <2> QED BY <1>25, <1>26, <2>1, <2>2, StepPlanned
\* the end
<1>30. PICK N6 : N6 = {j \in {n + 7} : 0 \in H}
  OBVIOUS
<1>31. Growing(k, p5, c5, vs, X, f, c6, N6) /\ Len(c5) = n + 5 /\ (n + 5) + 1 = n + 6 /\ (n + 5) + 2 = n + 7
  BY <1>29, <1>30, <1>d, <1>l DEF Growing
<1>32. PICK p6 : Grown(p5, p6, n + 5, N6, lr) /\ Stepped(p5, p6, n + 5, N6, lr)
  BY <1>31, StepExists
<1>33. /\ p6.range = p.range /\ p6.live[n + 6] = lr /\ p6.live[n + 7] = lr
       /\ (n + 7 \in p6.on <=> 0 \in H) /\ (n + 6 \in p6.on <=> 0 \in H)
  BY <1>27, <1>30, <1>31, <1>32 DEF Stepped
<1>34. Planned(k, p6, c6, vs, Q)
  <2>1. n + 6 \in p5.on => Follows(p6, n + 6, p6.live[n + 6])
    <3>1. (n + 6) + 1 = n + 7
      BY <1>l
    <3> QED BY <1>27, <1>33, <3>1 DEF Follows
  <2>2. n + 6 \in p5.on => InstOk(k, p6, c6, vs, Q, f, n + 6)
    BY <1>t, <2>1, SimpleOk
  <2>3. Redeemed(p6, c6, n + 5, X, Q)
    <3>1. c6[n + 6] = f
      BY <1>d, <1>l, <1>31, AppendFacts
    <3>2. ASSUME 0 \in H, NEW y, y = <<z, lr>> PROVE Landed(p6, c6, y[1], y[2], n + 6)
      BY <1>33, <1>t, <3>1, <3>2 DEF Landed
    <3>3. \A y \in X : y \in Q \/ (0 \in H /\ y = <<z, lr>>)
      BY <1>s, <1>u
    <3> QED BY <1>31, <3>2, <3>3 DEF Redeemed
  <2> QED BY <1>31, <1>32, <2>2, <2>3, StepPlanned
<1>35. Len(c6) + 1 = n + 7
  BY <1>l
<1> QED BY <1>33, <1>34, <1>35, <1>s DEF TailDone

\* What the end of && and || adds: the values u1 (the result), u2 and u3 (the constants).
ThreeMore(vs, w1, w2, ws, u1, u2, u3, o) ==
    /\ IsList(vs) /\ w1 = Append(vs, u1) /\ w2 = Append(w1, u2) /\ ws = Append(w2, u3)
    /\ ~u1.is_constant /\ u2.is_constant /\ u2.val = through(o)
    /\ u3.is_constant /\ u3.val = LeftWith(o)

\* The plan P is p with these values, the result being one of the words in R.
ThreeWider(k, p, P, code, vs, ws, q, T, R, o) ==
    /\ Len(ws) = Len(vs) + 3 /\ \A v \in 1..Len(vs) : ws[v] = vs[v] /\ P.range[v] = p.range[v]
    /\ ~ws[Len(vs) + 1].is_constant /\ ws[Len(vs) + 2].is_constant /\ ws[Len(vs) + 3].is_constant
    /\ P.range[Len(vs) + 1] = R
    /\ P.range[Len(vs) + 2] = {through(o)} /\ P.range[Len(vs) + 3] = {LeftWith(o)}
    /\ P.on = p.on /\ P.live = p.live
    /\ Planned(k, P, code, ws, T) /\ SameFrames(k, p, vs, P, ws, q)

\* There is such a plan.
LEMMA ThreeWiderExists ==
    ASSUME NEW k, NEW p, NEW code, NEW vs, NEW w1, NEW w2, NEW ws, NEW u1, NEW u2, NEW u3, NEW o \in Logical,
           ThreeMore(vs, w1, w2, ws, u1, u2, u3, o), NEW q, IsList(q), AllKeep(k, p, vs, q),
           NEW T, Planned(k, p, code, vs, T), NEW R \in SUBSET Words
    PROVE  \E P : ThreeWider(k, p, P, code, vs, ws, q, T, R, o)
<1>1. /\ IsList(vs) /\ w1 = Append(vs, u1) /\ w2 = Append(w1, u2) /\ ws = Append(w2, u3)
      /\ ~u1.is_constant /\ u2.is_constant /\ u2.val = through(o)
      /\ u3.is_constant /\ u3.val = LeftWith(o)
  BY DEF ThreeMore
<1>2. PICK m : m = Len(vs)
  OBVIOUS
<1>3. m \in Nat /\ IsList(w1) /\ Len(w1) = m + 1 /\ w1[m + 1] = u1 /\ \A v \in 1..m : w1[v] = vs[v]
  BY <1>1, <1>2, AppendFacts
<1>4. IsList(w2) /\ Len(w2) = m + 2 /\ w2[m + 2] = u2 /\ \A v \in 1..(m + 1) : w2[v] = w1[v]
  <2>1. (m + 1) + 1 = m + 2
    BY <1>3
  <2> QED BY <1>1, <1>3, <2>1, AppendFacts
<1>5. IsList(ws) /\ Len(ws) = m + 3 /\ ws[m + 3] = u3 /\ \A v \in 1..(m + 2) : ws[v] = w2[v]
  <2>1. (m + 2) + 1 = m + 3
    BY <1>3
  <2> QED BY <1>1, <1>4, <2>1, AppendFacts
<1>6. /\ m + 1 \in Nat /\ m + 2 \in Nat /\ (m + 1) + 1 = m + 2 /\ (m + 2) + 1 = m + 3
      /\ \A v \in 1..m : v \in 1..(m + 1) /\ v \in 1..(m + 2)
      /\ m + 1 \in 1..(m + 1) /\ m + 1 \in 1..(m + 2) /\ m + 2 \in 1..(m + 2)
  BY <1>3
<1>7. PICK R2, R3 : R2 = {through(o)} /\ R3 = {LeftWith(o)}
  OBVIOUS
<1>8. R2 \subseteq Words /\ R3 \subseteq Words /\ R2 = {Signed(u2.val)} /\ R3 = {Signed(u3.val)}
  <2>1. PICK a, b : a = through(o) /\ b = LeftWith(o)
    OBVIOUS
  <2>2. a \in Words /\ b \in Words /\ a \in Int /\ b \in Int
    BY <2>1, ExitLeaves, Widths
  <2>3. Signed(a) = a /\ Signed(b) = b
    BY <2>2, SignedWord
  <2> QED BY <1>1, <1>7, <2>1, <2>2, <2>3
<1>9. PICK p1 : Widened(p, p1, m, R)
  BY <1>3, WidenedExists
<1>10. Widening(vs, u1, w1, p, p1, R)
  BY <1>1, <1>2, <1>9 DEF Widening
<1>11. PICK p2 : Widened(p1, p2, m + 1, R2)
  BY <1>6, WidenedExists
<1>12. Widening(w1, u2, w2, p1, p2, R2)
  BY <1>1, <1>3, <1>7, <1>8, <1>11 DEF Widening
<1>13. PICK p3 : Widened(p2, p3, m + 2, R3)
  BY <1>6, WidenedExists
<1>14. Widening(w2, u3, ws, p2, p3, R3)
  BY <1>1, <1>4, <1>7, <1>8, <1>13 DEF Widening
<1>15. Planned(k, p3, code, ws, T)
  <2>1. Planned(k, p1, code, w1, T)
    BY <1>10, PlannedWidened
  <2>2. Planned(k, p2, code, w2, T)
    BY <1>12, <2>1, PlannedWidened
  <2> QED BY <1>14, <2>2, PlannedWidened
<1>16. SameFrames(k, p, vs, p3, ws, q)
  <2>1. SameFrames(k, p, vs, p1, w1, q)
    BY <1>10, FramesWidened
  <2>2. SameFrames(k, p1, w1, p2, w2, q)
    <3>1. AllKeep(k, p1, w1, q)
      BY <2>1 DEF SameFrames
    <3> QED BY <1>12, <3>1, FramesWidened
  <2>3. SameFrames(k, p2, w2, p3, ws, q)
    <3>1. AllKeep(k, p2, w2, q)
      BY <2>2 DEF SameFrames
    <3> QED BY <1>14, <3>1, FramesWidened
  <2> QED BY <2>1, <2>2, <2>3 DEF SameFrames
<1>17. p3.on = p.on /\ p3.live = p.live /\ \A v \in 1..m : p3.range[v] = p.range[v]
  BY <1>6, <1>9, <1>11, <1>13 DEF Widened
<1>18. p3.range[m + 1] = R /\ p3.range[m + 2] = R2 /\ p3.range[m + 3] = R3
  BY <1>6, <1>9, <1>11, <1>13 DEF Widened
<1>19. \A v \in 1..m : ws[v] = vs[v]
  BY <1>3, <1>4, <1>5, <1>6
<1>20. ws[m + 1] = u1 /\ ws[m + 2] = u2
  BY <1>3, <1>4, <1>5, <1>6
<1> QED BY <1>1, <1>2, <1>5, <1>7, <1>15, <1>16, <1>17, <1>18, <1>19, <1>20 DEF ThreeWider

\* The rest of && and || when their second operand is done.
LEMMA LogicalPlan ==
    ASSUME NEW q, IsList(q), NEW x, x.at = "rhs", Short(x), NEW g, g = Append(q, x),
           NEW k, Backed(k), Above(k, q, x),
           NEW p, NEW code, IsList(code), NEW vs, PlanOf(k, p, code, vs, g),
           NEW v, Given(k, p, Len(code), vs, g, v),
           NEW w1, NEW w2, NEW ws, NEW u1, NEW u2, NEW u3, ThreeMore(vs, w1, w2, ws, u1, u2, u3, x.e.op),
           NEW a, NEW b, NEW c, NEW d, NEW e, NEW f, NEW t, t = exit_jump(x.e.op),
           TailIs(a, b, c, d, e, f, t, v, Len(vs) + 1, Len(vs) + 2, Len(vs) + 3, x.exit, x.end),
           NEW c6, SixMore(code, c6, a, b, c, d, e, f)
    PROVE  \E P : PlanOf(k, P, c6, ws, q) /\ Given(k, P, Len(c6), ws, q, Len(vs) + 1)
<1>1. PICK n, m : n = Len(code) /\ m = Len(vs)
  OBVIOUS
<1>2. n \in Nat /\ m \in Nat
  BY <1>1, AppendFacts DEF ThreeMore
<1>3. /\ Planned(k, p, code, vs, Promises(k, g, vs)) /\ AllKeep(k, p, vs, q)
      /\ MorePromises(k, q, x, g, vs) /\ Keeps(k, p, vs, q, x)
      /\ n + 1 \in p.on <=> OnAt(k, q, Len(q) + 1) /\ Goes(k, x)
      /\ OnAt(k, q, Len(q) + 1) => Fair(k.D, k.V, x.e, k.m)
      /\ n + 1 \in p.on => Live(q, Len(q), vs) \cup HeldIn(x, vs) \subseteq p.live[n + 1]
      /\ v \in 0..m
      /\ v # 0 /\ n + 1 \in p.on => Ready(vs, v, p.live[n + 1]) /\ p.range[v] \subseteq k.V[x.e.rhs]
  BY <1>1, RightHere
<1>4. PICK o, T, Q, R, lv : /\ o = x.e.op /\ T = Promises(k, g, vs) /\ Q = Promises(k, q, vs)
                            /\ R = {y \in Words : y \in k.V[x.e]} /\ lv = Live(q, Len(q), vs)
  OBVIOUS
<1>5. o \in Logical
  BY <1>4 DEF Short
<1>6. PICK P : ThreeWider(k, p, P, code, vs, ws, q, T, R, o)
  <2>1. Planned(k, p, code, vs, T) /\ R \in SUBSET Words
    BY <1>3, <1>4
  <2>2. ThreeMore(vs, w1, w2, ws, u1, u2, u3, o)
    BY <1>4
  <2> QED BY <1>3, <1>5, <2>1, <2>2, ThreeWiderExists
<1>7. /\ Len(ws) = m + 3 /\ \A y \in 1..m : ws[y] = vs[y] /\ P.range[y] = p.range[y]
      /\ ~ws[m + 1].is_constant /\ ws[m + 2].is_constant /\ ws[m + 3].is_constant
      /\ P.range[m + 1] = R /\ P.range[m + 2] = {through(o)} /\ P.range[m + 3] = {LeftWith(o)}
      /\ P.on = p.on /\ P.live = p.live
      /\ Planned(k, P, code, ws, T) /\ SameFrames(k, p, vs, P, ws, q)
  BY <1>1, <1>6 DEF ThreeWider
<1>8. AllKeep(k, P, ws, q) /\ Promises(k, q, ws) = Q /\ Live(q, Len(q), ws) = lv
  BY <1>4, <1>7 DEF SameFrames
<1>9. PICK H : H = {h \in {0} : OnAt(k, q, Len(q) + 1)}
  OBVIOUS
<1>10. PICK G, E : G = {h \in H : through(o) \in k.V[x.e]} /\ E = {h \in H : LeftWith(o) \in k.V[x.e]}
  OBVIOUS
<1>11. ASSUME n + 1 \in P.on, v # 0
       PROVE  Ready(ws, v, P.live[n + 1]) /\ \A y \in P.range[v] : IF Jumping(t, y) THEN 0 \in E ELSE 0 \in G
  <2>1. OnAt(k, q, Len(q) + 1) /\ Goes(k, x) /\ Ready(vs, v, p.live[n + 1]) /\ p.range[v] \subseteq k.V[x.e.rhs]
    BY <1>3, <1>7, <1>11
  <2>2. v \in 1..m /\ v \in 1..(m + 3)
    BY <1>2, <1>3, <1>11
  <2>3. LogicalFair(k.D, k.V, x.e)
    BY <1>3, <2>1 DEF Fair
  <2>4. PICK y \in k.V[x.e.lhs] : ~Leaving(o, y)
    BY <1>4, <2>1 DEF Goes
  <2>5. \A z \in k.V[x.e.rhs] : IF Leaving(o, z) THEN LeftWith(o) \in k.V[x.e] ELSE through(o) \in k.V[x.e]
    BY <1>4, <1>5, <2>3, <2>4 DEF LogicalFair
  <2>6. \A z : Jumping(t, z) <=> Leaving(o, z)
    BY <1>4, <1>5, ExitLeaves
  <2>7. 0 \in H
    BY <1>9, <2>1
  <2>8. ASSUME NEW z \in P.range[v] PROVE IF Jumping(t, z) THEN 0 \in E ELSE 0 \in G
    <3>1. z \in k.V[x.e.rhs]
      BY <1>7, <2>1, <2>2, <2>8
    <3>2. CASE Leaving(o, z)
      BY <1>10, <2>5, <2>6, <2>7, <3>1, <3>2
    <3>3. CASE ~Leaving(o, z)
      BY <1>10, <2>5, <2>6, <2>7, <3>1, <3>3
    <3> QED BY <3>2, <3>3
  <2>9. Ready(ws, v, P.live[n + 1])
    BY <1>7, <2>1, <2>2 DEF Ready
  <2> QED BY <2>8, <2>9
<1>12. T = Q \cup Offered(k, q, x, vs)
  BY <1>3, <1>4 DEF MorePromises
<1>13. \A y \in T : y \in Q \/ (0 \in E /\ y = <<x.exit, lv>>)
  BY <1>4, <1>9, <1>10, <1>12 DEF Offered, Offers
<1>14. 0 \in E => <<x.exit, lv>> \in T
  BY <1>4, <1>9, <1>10, <1>12 DEF Offered, Offers
<1>15. PICK r, s, w : r = m + 1 /\ s = m + 2 /\ w = m + 3
  OBVIOUS
<1>16. r \in 1..(m + 3) /\ s \in 1..(m + 3) /\ w \in 1..(m + 3)
  BY <1>2, <1>15
<1>17. (0 \in G => P.range[s] \subseteq P.range[r]) /\ (0 \in E => P.range[w] \subseteq P.range[r])
  BY <1>4, <1>5, <1>7, <1>10, <1>15, ExitLeaves
<1>18. TailAt(k, P, code, ws, T, Q, t, v, lv, r, s, w, x.exit, H, G, E)
  <2>1. t \in {"JZ", "JNZ"}
    BY <1>4, <1>5, ExitLeaves
  <2>2. n + 1 \in P.on => lv \subseteq P.live[n + 1]
    BY <1>3, <1>4, <1>7
  <2>3. G \subseteq H /\ E \subseteq H
    BY <1>10
  <2> QED BY <1>1, <1>7, <1>11, <1>13, <1>14, <1>15, <1>16, <1>17, <2>1, <2>2, <2>3 DEF TailAt
<1>19. PICK z, z2 : z = x.exit /\ z2 = x.end
  OBVIOUS
<1>20. TailIs(a, b, c, d, e, f, t, v, r, s, w, z, z2)
  BY <1>1, <1>15, <1>19
<1>21a. PICK F : TailDone(k, P, F, c6, ws, Q, H, lv, r)
  <2>1. TailAt(k, P, code, ws, T, Q, t, v, lv, r, s, w, z, H, G, E)
    BY <1>18, <1>19
  <2> QED BY <1>20, <2>1, TailPlan
<1>21. /\ Planned(k, F, c6, ws, Q) /\ F.range = P.range
       /\ Len(c6) + 1 \in F.on <=> 0 \in H
       /\ F.live[Len(c6) + 1] = lv \cup {r}
  BY <1>21a DEF TailDone
<1>22. Planned(k, F, c6, ws, Promises(k, q, ws))
  BY <1>8, <1>21
<1>23. AllKeep(k, F, ws, q)
  BY <1>8, <1>21 DEF AllKeep, KeepsLeft
<1>24. Here(k, F, Len(c6), ws, q)
  BY <1>8, <1>9, <1>21 DEF Here
<1>25. Given(k, F, Len(c6), ws, q, r)
  <2>1. r \in 0..Len(ws) /\ r \in 1..Len(ws)
    BY <1>2, <1>7, <1>15
  <2>2. Ready(ws, r, lv \cup {r})
    BY <2>1 DEF Ready
  <2>3. F.range[r] \subseteq k.V[x.e]
    BY <1>4, <1>7, <1>15, <1>21
  <2>4. x.e = At(k.r, q, Len(q) + 1)
    BY DEF Above
  <2> QED BY <1>21, <2>1, <2>2, <2>3, <2>4 DEF Given
<1> QED BY <1>1, <1>15, <1>22, <1>23, <1>24, <1>25 DEF PlanOf

-----------------------------------------------------------------------------
(* Every step of emit_ir goes by the plan.                                 *)

\* The code and the frames go by a plan.
Emits(k, code, vs, q) == \E p : PlanOf(k, p, code, vs, q)

\* They do, and v is the value of what was emitted last.
Emitted(k, code, vs, q, v) == \E p : PlanOf(k, p, code, vs, q) /\ Given(k, p, Len(code), vs, q, v)

\* The code is complete and goes by a plan.
Complete(k, code, vs) == \E p : Planned(k, p, code, vs, {}) /\ p.on \subseteq 1..Len(code)

\* Whatever can be claimed of the compiled expression, its code goes by a plan for it.
Planful ==
    body # <<>> /\ Source # NoExpr =>
       \A k : Backed(k) /\ k.r = Root =>
          /\ ipc \in {"body", "call"} => Emits(k, insts, vals, frames)
          /\ ipc = "return" => Emitted(k, insts, vals, frames, ret)
          /\ ipc = "emitted" => Complete(k, insts, vals)

\* The values and instructions of && and ||, exactly.
LEMMA TailStep ==
    ASSUME Shape, EmitLogical
    PROVE  /\ \E a, b, c, d, e, f : /\ TailIs(a, b, c, d, e, f, exit_jump(top.e.op), ret, Len(vals) + 1,
                                              Len(vals) + 2, Len(vals) + 3, top.exit, top.end)
                                    /\ SixMore(insts, insts', a, b, c, d, e, f)
           /\ \E w1, w2, u1, u2, u3 :
                 ThreeMore(vals, w1, w2, vals', u1, u2, u3, top.e.op) /\ u1.val = name_count + 1
           /\ name_count' = name_count + 1
           /\ frames # <<>> /\ top.at = "rhs" /\ top.e.op \in Logical
           /\ ret' = Len(vals) + 1 /\ frames' = callers /\ ipc = "return" /\ ipc' = "return"
<1>1. /\ frames # <<>> /\ top.at = "rhs" /\ top.e.op \in Logical /\ name_count' = name_count + 1
      /\ ret' = Len(vals) + 1 /\ frames' = callers /\ ipc = "return" /\ ipc' = "return"
  BY DEF EmitLogical
<1>2. PICK n, o, x, z, v : n = Len(vals) /\ o = top.e.op /\ x = top.exit /\ z = top.end /\ v = ret
  OBVIOUS
<1>3. n \in Nat /\ IsList(vals) /\ IsList(insts)
  BY <1>2, AppendFacts DEF Shape
<1>4. PICK a, b, c, d, e, f :
           /\ a = cond_jump(exit_jump(o), v, x) /\ b = copy(n + 1 + 1, n + 1) /\ c = jump(z)
           /\ d = label_inst(x) /\ e = copy(n + 1 + 2, n + 1) /\ f = label_inst(z)
  OBVIOUS
<1>5. SixMore(insts, insts', a, b, c, d, e, f)
  <2>1. insts' = insts \o <<a, b, c, d, e, f>>
    BY <1>2, <1>4 DEF EmitLogical, LogicalTail
  <2> QED BY <1>3, <2>1, SixAppended, SMTT(40) DEF SixMore
<1>6. TailIs(a, b, c, d, e, f, exit_jump(o), v, n + 1, n + 2, n + 3, x, z)
  <2>1. n + 1 + 1 = n + 2 /\ n + 1 + 2 = n + 3
    BY <1>3
  <2>2. /\ Members(a, exit_jump(o), v, 0, 0, x) /\ Members(b, "COPY", n + 2, 0, n + 1, 0)
        /\ Members(c, "JMP", 0, 0, 0, z) /\ Members(d, "LABEL", 0, 0, 0, x)
        /\ Members(e, "COPY", n + 3, 0, n + 1, 0) /\ Members(f, "LABEL", 0, 0, 0, z)
    BY <1>4, <2>1, MembersSet
  <2> QED BY <2>2 DEF Members, TailIs
<1>7. PICK u1, u2, u3 : u1 = var_val(name_count + 1, 2) /\ u2 = const_val(through(o)) /\ u3 = const_val(1 - through(o))
  OBVIOUS
<1>8. PICK w1, w2 : w1 = Append(vals, u1) /\ w2 = Append(w1, u2)
  OBVIOUS
<1>9. vals' = Append(w2, u3)
  <2>1. vals' = vals \o <<u1, u2, u3>>
    BY <1>2, <1>7 DEF EmitLogical, logical_vals
  <2> QED BY <1>3, <1>8, <2>1, ThreeAppended
<1>10. ThreeMore(vals, w1, w2, vals', u1, u2, u3, o) /\ u1.val = name_count + 1
  BY <1>3, <1>7, <1>8, <1>9 DEF ThreeMore, var_val, const_val, LeftWith
<1> QED BY <1>1, <1>2, <1>5, <1>6, <1>10

\* Where the frame at the top is.
LEMMA TopAbove ==
    ASSUME Shape, Tree, frames # <<>>, NEW k, k.r = Root
    PROVE  \E q, x : /\ q = callers /\ x = top /\ IsList(q) /\ frames = Append(q, x)
                     /\ Above(k, q, x) /\ IsFrame(x)
<1>1. PICK q, x, r : q = callers /\ x = top /\ r = Root
  OBVIOUS
<1>2. /\ IsList(q) /\ frames = Append(q, x) /\ Len(frames) \in 1..Len(frames) /\ x = frames[Len(frames)]
  BY <1>1, TopFacts DEF Shape
<1>3. IsFrame(x)
  BY <1>2 DEF Shape
<1>4. Walked(r, frames)
  BY <1>1 DEF Tree
<1>5. x.e = At(r, q, Len(q) + 1) /\ x.e.op \notin Childless
  BY <1>1, <1>4, TopPlaced
<1> QED BY <1>1, <1>2, <1>3, <1>5 DEF Above, IsFrame

\* An operator is called.
LEMMA OperatorPlanned ==
    ASSUME Shape, Tree, EmitOperator, NEW k, Backed(k), k.r = Root, Emits(k, insts, vals, frames)
    PROVE  Emits(k, insts', vals', frames')
<1>1. PICK x : x.at = "lhs" /\ x.e = arg /\ frames' = Append(frames, x)
  BY OperatorStep
<1>2. insts' = insts /\ vals' = vals /\ arg.op \notin Childless /\ ipc = "call"
  BY OperatorStep DEF Childless
<1>3. PICK q, f, c, vs : q = frames /\ f = frames' /\ c = insts /\ vs = vals
  OBVIOUS
<1>4. x.e = At(k.r, q, Len(q) + 1) /\ x.e.op \notin Childless
  BY <1>1, <1>2, <1>3 DEF Tree, Current
<1>5. IsList(q) /\ f = Append(q, x)
  BY <1>1, <1>3 DEF Shape
<1>6. PICK p : PlanOf(k, p, c, vs, q)
  BY <1>3 DEF Emits
<1>7. PlanOf(k, p, c, vs, f)
  BY <1>1, <1>4, <1>5, <1>6, OperatorPlan
<1> QED BY <1>2, <1>3, <1>7 DEF Emits

\* The left operand is done.
LEMMA RightPlanned ==
    ASSUME Shape, Tree, EmitRight, NEW k, Backed(k), k.r = Root, Emitted(k, insts, vals, frames, ret)
    PROVE  Emits(k, insts', vals', frames')
<1>1. frames # <<>> /\ top.at = "lhs" /\ vals' = vals
  BY RightStep
<1>2. PICK q, x : /\ q = callers /\ x = top /\ IsList(q) /\ frames = Append(q, x)
                  /\ Above(k, q, x) /\ IsFrame(x)
  BY <1>1, TopAbove
<1>3. PICK y : /\ y.at = "rhs" /\ y.lhs = ret /\ y.e = x.e /\ y.exit = x.exit /\ y.end = x.end
               /\ frames' = Append(q, y)
  BY <1>2, RightStep
<1>4. PICK g, f, c, vs, v : g = frames /\ f = frames' /\ c = insts /\ vs = vals /\ v = ret
  OBVIOUS
<1>5. PICK p : PlanOf(k, p, c, vs, g) /\ Given(k, p, Len(c), vs, g, v)
  BY <1>4 DEF Emitted
<1>6. /\ IsList(q) /\ x.at = "lhs" /\ g = Append(q, x) /\ Above(k, q, x)
      /\ y.at = "rhs" /\ y.e = x.e /\ y.lhs = v /\ y.exit = x.exit /\ f = Append(q, y) /\ IsList(c)
  BY <1>1, <1>2, <1>3, <1>4 DEF Shape
<1>7. CASE ~Short(x)
  <2>1. insts' = insts
    BY <1>2, <1>7, RightStep DEF Short
  <2>2. PlanOf(k, p, c, vs, f)
    BY <1>5, <1>6, <1>7, RightPlain
  <2> QED BY <1>1, <1>4, <2>1, <2>2 DEF Emits
<1>8. CASE Short(x)
  <2>1. PICK z, t : t = exit_jump(x.e.op) /\ Members(z, t, ret, 0, 0, x.exit) /\ insts' = Append(insts, z)
    BY <1>2, <1>8, RightStep DEF Short
  <2>2. PICK d : d = Append(c, z)
    OBVIOUS
  <2>3. z.type = exit_jump(x.e.op) /\ z.lhs = v /\ z.label = x.exit
    BY <1>4, <2>1 DEF Members
  <2>4. \E P : PlanOf(k, P, d, vs, f)
    BY <1>5, <1>6, <1>8, <2>2, <2>3, RightShort
  <2>5. insts' = d /\ vals' = vs /\ frames' = f
    BY <1>1, <1>4, <2>1, <2>2
  <2> QED BY <2>4, <2>5 DEF Emits
<1> QED BY <1>7, <1>8

\* Both operands are done, of an operator that is neither && nor ||.
LEMMA OperationPlanned ==
    ASSUME Shape, Tree, EmitOperation, NEW k, Backed(k), k.r = Root, Emitted(k, insts, vals, frames, ret)
    PROVE  Emitted(k, insts', vals', frames', ret')
<1>1. frames # <<>> /\ top.at = "rhs" /\ top.e.op \notin Logical /\ frames' = callers /\ ret' = Len(vals) + 1
  BY OperationStep
<1>2. PICK q, x : /\ q = callers /\ x = top /\ IsList(q) /\ frames = Append(q, x)
                  /\ Above(k, q, x) /\ IsFrame(x)
  BY <1>1, TopAbove
<1>3. PICK g, c, vs, v : g = frames /\ c = insts /\ vs = vals /\ v = ret
  OBVIOUS
<1>4. PICK p : PlanOf(k, p, c, vs, g) /\ Given(k, p, Len(c), vs, g, v)
  BY <1>3 DEF Emitted
<1>5. PICK z, t : /\ t = IF v # 0 THEN "BINARY" ELSE "UNARY"
                  /\ z.op = x.e.op /\ Members(z, t, x.lhs, v, Len(vs) + 1, 0) /\ insts' = Append(c, z)
  <2>1. PICK z, t : /\ t \in {"UNARY", "BINARY"} /\ (t = "BINARY" <=> ret # 0)
                    /\ z.op = top.e.op /\ Members(z, t, top.lhs, ret, Len(vals) + 1, 0)
                    /\ insts' = Append(insts, z)
    BY OperationStep
  <2> QED BY <1>2, <1>3, <2>1
<1>6. PICK u : ~u.is_constant /\ vals' = Append(vs, u)
  BY <1>3, OperationStep
<1>7. PICK d, ws : d = Append(c, z) /\ ws = Append(vs, u)
  OBVIOUS
<1>8. z.type = t /\ z.op = x.e.op /\ z.lhs = x.lhs /\ z.rhs = v /\ z.dst = Len(vs) + 1
  BY <1>5 DEF Members
<1>9. IsList(q) /\ x.at = "rhs" /\ ~Short(x) /\ g = Append(q, x) /\ IsList(c) /\ IsList(vs)
  BY <1>1, <1>2, <1>3 DEF Shape, Short
<1>10. \E P : PlanOf(k, P, d, ws, q) /\ Given(k, P, Len(d), ws, q, Len(vs) + 1)
  BY <1>2, <1>4, <1>5, <1>6, <1>7, <1>8, <1>9, OperationPlan
<1>11. insts' = d /\ vals' = ws /\ frames' = q /\ ret' = Len(vs) + 1
  BY <1>1, <1>2, <1>3, <1>5, <1>6, <1>7
<1> QED BY <1>10, <1>11 DEF Emitted

\* Both operands of && or || are done.
LEMMA LogicalPlanned ==
    ASSUME Shape, Tree, EmitLogical, NEW k, Backed(k), k.r = Root, Emitted(k, insts, vals, frames, ret)
    PROVE  Emitted(k, insts', vals', frames', ret')
<1>1. frames # <<>> /\ top.at = "rhs" /\ top.e.op \in Logical /\ frames' = callers /\ ret' = Len(vals) + 1
  BY TailStep
<1>2. PICK q, x : /\ q = callers /\ x = top /\ IsList(q) /\ frames = Append(q, x)
                  /\ Above(k, q, x) /\ IsFrame(x)
  BY <1>1, TopAbove
<1>3. PICK g, c, vs, v, c6, ws : g = frames /\ c = insts /\ vs = vals /\ v = ret /\ c6 = insts' /\ ws = vals'
  OBVIOUS
<1>4. PICK p : PlanOf(k, p, c, vs, g) /\ Given(k, p, Len(c), vs, g, v)
  BY <1>3 DEF Emitted
<1>5. PICK t : t = exit_jump(x.e.op)
  OBVIOUS
<1>6. PICK a, b, cc, d, e, f : /\ TailIs(a, b, cc, d, e, f, t, v, Len(vs) + 1, Len(vs) + 2, Len(vs) + 3, x.exit, x.end)
                               /\ SixMore(c, c6, a, b, cc, d, e, f)
  BY <1>2, <1>3, <1>5, TailStep
<1>7. PICK w1, w2, u1, u2, u3 : ThreeMore(vs, w1, w2, ws, u1, u2, u3, x.e.op)
  BY <1>2, <1>3, TailStep
<1>8. IsList(q) /\ x.at = "rhs" /\ Short(x) /\ g = Append(q, x) /\ IsList(c) /\ Above(k, q, x)
  BY <1>1, <1>2, <1>3 DEF Shape, Short
<1>9. \E P : PlanOf(k, P, c6, ws, q) /\ Given(k, P, Len(c6), ws, q, Len(vs) + 1)
  BY <1>4, <1>5, <1>6, <1>7, <1>8, LogicalPlan
<1>10. insts' = c6 /\ vals' = ws /\ frames' = q /\ ret' = Len(vs) + 1
  BY <1>1, <1>2, <1>3
<1> QED BY <1>9, <1>10 DEF Emitted

\* A leaf is emitted.
LEMMA LeafPlanned ==
    ASSUME Shape, Tree, EmitVar \/ EmitConst, NEW k, Backed(k), k.r = Root, Emits(k, insts, vals, frames)
    PROVE  Emitted(k, insts', vals', frames', ret')
<1>1. PICK u : /\ vals' = Append(vals, u)
               /\ \/ arg.op = "VAR" /\ ~u.is_constant
                  \/ arg.op = "CONST" /\ u.is_constant /\ u.val = arg.val
  BY LeafStep
<1>2. ret' = Len(vals) + 1 /\ ipc = "call" /\ frames' = frames /\ insts' = insts
  BY LeafStep
<1>3. PICK q, c, vs, ws, e : q = frames /\ c = insts /\ vs = vals /\ ws = Append(vs, u) /\ e = arg
  OBVIOUS
<1>4. IsList(q) /\ IsList(vs)
  BY <1>3 DEF Shape
<1>5. e = Current /\ e = At(k.r, q, Len(q) + 1)
  BY <1>2, <1>3 DEF Tree, Current
<1>6. e \in Parts(k.r)
  BY <1>5, CurrentPart DEF Parts
<1>7. PICK p : PlanOf(k, p, c, vs, q)
  BY <1>3 DEF Emits
<1>8. \/ e.op = "VAR" /\ ~u.is_constant
      \/ e.op = "CONST" /\ u.is_constant /\ u.val = e.val
  BY <1>1, <1>3
<1>9. \E P : PlanOf(k, P, c, ws, q) /\ Given(k, P, Len(c), ws, q, Len(vs) + 1)
  BY <1>3, <1>4, <1>5, <1>6, <1>7, <1>8, LeafPlan
<1>10. insts' = c /\ vals' = ws /\ frames' = q /\ ret' = Len(vs) + 1
  BY <1>1, <1>2, <1>3
<1> QED BY <1>9, <1>10 DEF Emitted

\* The value is returned.
LEMMA ReturnPlanned ==
    ASSUME Shape, EmitReturn, NEW k, Emitted(k, insts, vals, frames, ret)
    PROVE  Complete(k, insts', vals')
<1>1. PICK z : Members(z, "RETURN", ret, 0, 0, 0) /\ insts' = Append(insts, z)
  BY ReturnStep
<1>2. frames = <<>> /\ vals' = vals
  BY ReturnStep
<1>3. PICK c, vs, v, d : c = insts /\ vs = vals /\ v = ret /\ d = Append(c, z)
  OBVIOUS
<1>4. PICK p : PlanOf(k, p, c, vs, <<>>) /\ Given(k, p, Len(c), vs, <<>>, v)
  BY <1>2, <1>3 DEF Emitted
<1>5. IsList(c) /\ z.type = "RETURN" /\ z.lhs = v
  BY <1>1, <1>3 DEF Shape, Members
<1>6. \E P : Planned(k, P, d, vs, {}) /\ P.on \subseteq 1..Len(d)
  BY <1>3, <1>4, <1>5, ReturnPlan
<1>7. insts' = d /\ vals' = vs
  BY <1>1, <1>2, <1>3
<1> QED BY <1>6, <1>7 DEF Complete

\* Nothing is emitted at first.
LEMMA PlanStarts ==
    ASSUME NEW k, Backed(k)
    PROVE  Emits(k, <<>>, <<>>, <<>>)
<1>1. PICK p : p = [on |-> {1}, live |-> <<{}>>, range |-> <<>>]
  OBVIOUS
<1>2. p.on = {1} /\ p.live = <<{}>> /\ p.live[1] = {}
  BY <1>1
<1>3. 1..Len(<<>>) = {} /\ Len(<<>>) = 0
  OBVIOUS
<1>4. Planned(k, p, <<>>, <<>>, Promises(k, <<>>, <<>>))
  BY <1>2, <1>3 DEF Planned, Ranged, AllOk
<1>5. AllKeep(k, p, <<>>, <<>>)
  BY <1>3 DEF AllKeep
<1>6. k.r \in k.D
  BY DEF Backed, Sound
<1>7. OnAt(k, <<>>, 1)
  BY <1>6 DEF OnAt, At
<1>8. Live(<<>>, 0, <<>>) = {}
  BY DEF Live
<1>9. Here(k, p, 0, <<>>, <<>>)
  BY <1>2, <1>3, <1>7, <1>8 DEF Here
<1> QED BY <1>3, <1>4, <1>5, <1>9 DEF PlanOf, Emits

\* So it is before the first step.
LEMMA PlanfulStarts == IrInit => Planful
<1> SUFFICES ASSUME IrInit, NEW k, Backed(k), body # <<>> PROVE Emits(k, insts, vals, frames)
  BY DEF IrInit, Planful
<1>1. insts = <<>> /\ vals = <<>> /\ frames = <<>>
  BY DEF IrInit
<1> QED BY <1>1, PlanStarts

\* A missing operand is no value.
LEMMA AbsentPlanned ==
    ASSUME Shape, NEW k, Emits(k, insts, vals, frames)
    PROVE  Emitted(k, insts, vals, frames, 0)
<1>1. 0 \in 0..Len(vals)
  BY AppendFacts DEF Shape
<1> QED BY <1>1 DEF Emits, Emitted, Given

\* Every step goes by a plan.
LEMMA PlanfulStep ==
    ASSUME Shape, Tree, Planful, [IrNext]_irVars
    PROVE  Planful'
<1>1. body' = body /\ Root' = Root /\ Source' = Source
  BY RootStays DEF Source
<1>2. SUFFICES ASSUME body # <<>>, Source # NoExpr, NEW k, Backed(k), k.r = Root
               PROVE  /\ ipc' \in {"body", "call"} => Emits(k, insts', vals', frames')
                      /\ ipc' = "return" => Emitted(k, insts', vals', frames', ret')
                      /\ ipc' = "emitted" => Complete(k, insts', vals')
  BY <1>1 DEF Planful
<1>3. /\ ipc \in {"body", "call"} => Emits(k, insts, vals, frames)
      /\ ipc = "return" => Emitted(k, insts, vals, frames, ret)
      /\ ipc = "emitted" => Complete(k, insts, vals)
  BY <1>2 DEF Planful
<1>4. CASE EmitBody
  <2>1. ipc = "body" /\ ipc' \in {"call", "crashed"} /\ UNCHANGED <<insts, vals, frames>>
    BY <1>4 DEF EmitBody, emitted
  <2> QED BY <1>3, <2>1
<1>5. CASE EmitAbsent
  <2>1. ipc = "call" /\ ipc' = "return" /\ ret' = 0 /\ UNCHANGED <<insts, vals, frames>>
    BY <1>5 DEF EmitAbsent, emitted
  <2> QED BY <1>3, <2>1, AbsentPlanned
<1>6. CASE EmitVar \/ EmitConst
  <2>1. ipc = "call" /\ ipc' = "return"
    BY <1>6, LeafStep
  <2> QED BY <1>2, <1>3, <1>6, <2>1, LeafPlanned
<1>7. CASE EmitOperator
  <2>1. ipc = "call" /\ ipc' = "call"
    BY <1>7, OperatorStep
  <2> QED BY <1>2, <1>3, <1>7, <2>1, OperatorPlanned
<1>8. CASE EmitRight
  <2>1. ipc = "return" /\ ipc' = "call"
    BY <1>8, RightStep
  <2> QED BY <1>2, <1>3, <1>8, <2>1, RightPlanned
<1>9. CASE EmitOperation
  <2>1. ipc = "return" /\ ipc' = "return"
    BY <1>9, OperationStep
  <2> QED BY <1>2, <1>3, <1>9, <2>1, OperationPlanned
<1>10. CASE EmitLogical
  <2>1. ipc = "return" /\ ipc' = "return"
    BY <1>10, TailStep
  <2> QED BY <1>2, <1>3, <1>10, <2>1, LogicalPlanned
<1>11. CASE EmitReturn
  <2>1. ipc = "return" /\ ipc' = "emitted"
    BY <1>11, ReturnStep
  <2> QED BY <1>3, <1>11, <2>1, ReturnPlanned
<1>12. CASE DestroyStep
  <2>1. ipc' \in {"destroy", "destroyed"}
    BY <1>12 DEF DestroyStep, DestroyBegins, DestroyInst, DestroyDone
  <2> QED BY <2>1
<1>13. CASE UNCHANGED irVars
  <2>1. ipc' = ipc /\ ret' = ret /\ UNCHANGED <<insts, vals, frames>>
    BY <1>13 DEF irVars, emitted
  <2> QED BY <1>3, <2>1
<1> QED BY <1>4, <1>5, <1>6, <1>7, <1>8, <1>9, <1>10, <1>11, <1>12, <1>13 DEF IrNext, EmitStep

-----------------------------------------------------------------------------
(* Each variable has a name of its own.                                    *)

NamesApart(vs, n) ==
    /\ n \in Nat /\ \A v \in 1..Len(vs) : ~vs[v].is_constant => vs[v].val \in 1..n
    /\ \A v, w \in 1..Len(vs) :
          ~vs[v].is_constant /\ ~vs[w].is_constant /\ vs[v].val = vs[w].val => v = w

\* A new variable takes the next name, and a constant none.
LEMMA NameAppended ==
    ASSUME NEW vs, IsList(vs), NEW n, NamesApart(vs, n), NEW u, NEW m,
           \/ ~u.is_constant /\ u.val = n + 1 /\ m = n + 1
           \/ u.is_constant /\ m = n
    PROVE  NamesApart(Append(vs, u), m)
<1>1. PICK ws, l : ws = Append(vs, u) /\ l = Len(vs)
  OBVIOUS
<1>2. l \in Nat /\ Len(ws) = l + 1 /\ ws[l + 1] = u /\ \A v \in 1..l : ws[v] = vs[v]
  BY <1>1, AppendFacts
<1>3. n \in Nat /\ m \in Nat /\ \A a \in 1..n : a \in 1..m
  BY DEF NamesApart
<1>4. ASSUME NEW v \in 1..(l + 1), ~ws[v].is_constant
      PROVE  ws[v].val \in 1..m /\ (ws[v].val = n + 1 <=> v = l + 1)
  <2>1. CASE v = l + 1
    <3>1. u.val = n + 1 /\ m = n + 1
      BY <1>2, <1>4, <2>1
    <3> QED BY <1>2, <1>3, <2>1, <3>1
  <2>2. CASE v # l + 1
    <3>1. v \in 1..l /\ ws[v] = vs[v]
      BY <1>2, <2>2
    <3>2. vs[v].val \in 1..n
      BY <1>1, <1>4, <3>1 DEF NamesApart
    <3> QED BY <1>3, <2>2, <3>1, <3>2
  <2> QED BY <2>1, <2>2
<1>5. ASSUME NEW v \in 1..(l + 1), NEW w \in 1..(l + 1), ~ws[v].is_constant, ~ws[w].is_constant,
             ws[v].val = ws[w].val
      PROVE  v = w
  <2>1. CASE v = l + 1 \/ w = l + 1
    BY <1>4, <1>5, <2>1
  <2>2. CASE v # l + 1 /\ w # l + 1
    <3>1. v \in 1..l /\ w \in 1..l
      BY <1>2, <2>2
    <3> QED BY <1>1, <1>2, <1>5, <3>1 DEF NamesApart
  <2> QED BY <2>1, <2>2
<1> QED BY <1>1, <1>2, <1>3, <1>4, <1>5 DEF NamesApart

Names == name_count \in Nat /\ (ipc \in Emitting \cup {"emitted"} => NamesApart(vals, name_count))

\* No name is taken at first.
LEMMA NamesStart == IrInit => Names
<1> SUFFICES ASSUME IrInit PROVE Names
  OBVIOUS
<1>1. vals = <<>> /\ name_count = 0 /\ 1..Len(<<>>) = {}
  BY DEF IrInit
<1> QED BY <1>1 DEF Names, NamesApart

\* Every step keeps them apart.
LEMMA NamesStep ==
    ASSUME Shape, Names, [IrNext]_irVars
    PROVE  Names'
<1>1. name_count \in Nat /\ IsList(vals)
  BY DEF Names, Shape
<1>2. CASE EmitVar \/ EmitConst
  <2>1. PICK u : /\ vals' = Append(vals, u)
                 /\ \/ ~u.is_constant /\ u.val = name_count + 1 /\ name_count' = name_count + 1
                    \/ u.is_constant /\ name_count' = name_count
    BY <1>2, LeafStep
  <2>2. ipc = "call"
    BY <1>2, LeafStep
  <2>3. NamesApart(vals, name_count)
    BY <2>2 DEF Names, Emitting
  <2>4. PICK vs, n, m : vs = vals /\ n = name_count /\ m = name_count'
    OBVIOUS
  <2>5. NamesApart(Append(vs, u), m)
    BY <1>1, <2>1, <2>3, <2>4, NameAppended
  <2> QED BY <1>1, <2>1, <2>4, <2>5 DEF Names
<1>3. CASE EmitOperation
  <2>1. PICK u : vals' = Append(vals, u) /\ ~u.is_constant /\ u.val = name_count + 1
    BY <1>3, OperationStep
  <2>2. ipc = "return" /\ name_count' = name_count + 1
    BY <1>3, OperationStep
  <2>3. NamesApart(vals, name_count)
    BY <2>2 DEF Names, Emitting
  <2>4. PICK vs, n, m : vs = vals /\ n = name_count /\ m = name_count'
    OBVIOUS
  <2>5. NamesApart(Append(vs, u), m)
    BY <1>1, <2>1, <2>2, <2>3, <2>4, NameAppended
  <2> QED BY <1>1, <2>1, <2>2, <2>4, <2>5 DEF Names
<1>4. CASE EmitLogical
  <2>1. PICK w1, w2, u1, u2, u3, o : ThreeMore(vals, w1, w2, vals', u1, u2, u3, o) /\ u1.val = name_count + 1
    BY <1>4, TailStep
  <2>2. ipc = "return" /\ name_count' = name_count + 1
    BY <1>4, TailStep
  <2>3. NamesApart(vals, name_count)
    BY <2>2 DEF Names, Emitting
  <2>4. PICK vs, ws, n, m : vs = vals /\ ws = vals' /\ n = name_count /\ m = name_count'
    OBVIOUS
  <2>5. /\ IsList(vs) /\ w1 = Append(vs, u1) /\ w2 = Append(w1, u2) /\ ws = Append(w2, u3)
        /\ ~u1.is_constant /\ u2.is_constant /\ u3.is_constant /\ u1.val = n + 1 /\ m = n + 1
    BY <2>1, <2>2, <2>4 DEF ThreeMore
  <2>6. NamesApart(w1, m) /\ IsList(w1)
    BY <2>3, <2>4, <2>5, NameAppended, AppendFacts
  <2>7. NamesApart(w2, m) /\ IsList(w2)
    BY <2>5, <2>6, NameAppended, AppendFacts
  <2>8. NamesApart(ws, m)
    BY <2>5, <2>7, NameAppended
  <2> QED BY <1>1, <2>2, <2>4, <2>8 DEF Names
<1>5. CASE EmitBody \/ EmitAbsent \/ EmitOperator \/ EmitRight \/ EmitReturn \/ UNCHANGED irVars
  <2>1. vals' = vals /\ name_count' = name_count
    BY <1>5 DEF EmitBody, EmitAbsent, EmitOperator, EmitRight, EmitReturn, irVars, emitted
  <2>2. ipc \in Emitting \cup {"emitted"} \/ ipc' = ipc
    BY <1>5 DEF EmitBody, EmitAbsent, EmitOperator, EmitRight, EmitReturn, irVars, Emitting
  <2> QED BY <2>1, <2>2 DEF Names
<1>6. CASE DestroyStep
  <2>1. ipc' \in {"destroy", "destroyed"} /\ name_count' = name_count
    BY <1>6 DEF DestroyStep, DestroyBegins, DestroyInst, DestroyDone, emitted
  <2> QED BY <1>1, <2>1 DEF Names, Emitting
<1> QED BY <1>2, <1>3, <1>4, <1>5, <1>6 DEF IrNext, EmitStep

-----------------------------------------------------------------------------
(* What the processor does, as far as it is known.  An environment P gives *)
(* the values of some places that have been written: registers, slots and  *)
(* the two values that the flags stand for.  The context X says which      *)
(* slots there are (frame) and how much is claimed (m).                    *)

Registers == {"AX", "CX", "DX", "R10", "R11"}
Reg(r) == <<"reg", r>>
Flags == <<"flags">>
Loc(o) == <<o.kind, o.val>>
In(X, l) == (l[1] = "reg" /\ l[2] \in Registers) \/ (l[1] = "stack" /\ l[2] \in X.frame)

\* What an operand is worth, if it is known.
Has(P, o) == IsImm(o) \/ Loc(o) \in DOMAIN P
Of(P, o) == IF IsImm(o) THEN Signed(o.val) ELSE P[Loc(o)]

\* Q is P with n in l.
Puts(P, Q, l, n) ==
    /\ DOMAIN Q = DOMAIN P \cup {l} /\ Q[l] = n
    /\ \A x \in DOMAIN P : x # l => Q[x] = P[x]

Ariths == {"ADD", "SUB", "MUL", "AND", "OR", "XOR", "SHL", "SHR"}

\* What idiv divides, and its two results.
Dividend(P) == P[Reg("DX")] * 2^W + Unsigned(P[Reg("AX")])
Divided(P, Q, b) ==
    LET a == Dividend(P) IN
    /\ DOMAIN Q = DOMAIN P /\ \A x \in DOMAIN P \ {Reg("AX"), Reg("DX")} : Q[x] = P[x]
    /\ Q[Reg("AX")] = IF DivisionTraps(a, b) THEN 0 ELSE Quotient(a, b)
    /\ Q[Reg("DX")] = IF DivisionTraps(a, b) THEN 0 ELSE Remainder(a, b)

\* The instruction i reads what is known only, and leads from P to Q.
MoveStep(X, i, P, Q) ==
    /\ i.type = "MOV" /\ Has(P, i.src) /\ In(X, Loc(i.dst))
    /\ Puts(P, Q, Loc(i.dst), Alu("MOV", Of(P, i.src), 0))
ArithStep(X, i, P, Q) ==
    /\ i.type \in Ariths /\ Has(P, i.src) /\ Has(P, i.dst) /\ In(X, Loc(i.dst))
    /\ Puts(P, Q, Loc(i.dst), Alu(i.type, Of(P, i.src), Of(P, i.dst)))
OneStep(X, i, P, Q) ==
    /\ i.type \in {"NEG", "NOT"} /\ Has(P, i.dst) /\ In(X, Loc(i.dst))
    /\ Puts(P, Q, Loc(i.dst), Alu(i.type, 0, Of(P, i.dst)))
SignStep(X, i, P, Q) ==
    /\ i.type = "CDQ" /\ Reg("AX") \in DOMAIN P
    /\ Puts(P, Q, Reg("DX"), IF P[Reg("AX")] < 0 THEN -1 ELSE 0)
DivideStep(X, i, P, Q) ==
    /\ i.type = "DIV" /\ Reg("AX") \in DOMAIN P /\ Reg("DX") \in DOMAIN P /\ Has(P, i.dst)
    /\ X.m = "exact" => ~DivisionTraps(Dividend(P), Of(P, i.dst))
    /\ Divided(P, Q, Of(P, i.dst))
CompareStep(X, i, P, Q) ==
    /\ i.type = "CMP" /\ Has(P, i.src) /\ Has(P, i.dst)
    /\ Puts(P, Q, Flags, <<Of(P, i.dst), Of(P, i.src)>>)
SetStep(X, i, P, Q) ==
    /\ i.type = "SETCC" /\ Loc(i.src) \in DOMAIN P /\ In(X, Loc(i.src)) /\ Flags \in DOMAIN P
    /\ Puts(P, Q, Loc(i.src), Truth(Holds(i.code, P[Flags][1], P[Flags][2])))

Moves(X, i, P, Q) ==
    \/ MoveStep(X, i, P, Q) \/ ArithStep(X, i, P, Q) \/ OneStep(X, i, P, Q) \/ SignStep(X, i, P, Q)
    \/ DivideStep(X, i, P, Q) \/ CompareStep(X, i, P, Q) \/ SetStep(X, i, P, Q)

\* The environments w lead along the instructions q.
Along(X, q, w) == \A j \in 1..Len(q) : Moves(X, q[j], w[j], w[j + 1])

Chain(X, q, P, Q) == \E w : w[1] = P /\ w[Len(q) + 1] = Q /\ Along(X, q, w)

\* Q has n in l, and what P has outside S.
Sets(P, Q, S, l, n) ==
    /\ l \in DOMAIN Q /\ Q[l] = n
    /\ \A x \in DOMAIN P : x \notin S /\ x # l => x \in DOMAIN Q /\ Q[x] = P[x]

\* From P the instructions q put n in l, and change nothing else outside S.
Runs(X, q, P, S, l, n) == IsList(q) /\ \E Q : Chain(X, q, P, Q) /\ Sets(P, Q, S, l, n)

\* A value can be put anywhere.
LEMMA PutsExist ==
    ASSUME NEW P, NEW l, NEW n
    PROVE  \E Q : Puts(P, Q, l, n)
<1>1. PICK Q : Q = [x \in DOMAIN P \cup {l} |-> IF x = l THEN n ELSE P[x]]
  OBVIOUS
<1>2. DOMAIN Q = DOMAIN P \cup {l} /\ Q[l] = n /\ \A x \in DOMAIN P : x # l => Q[x] = P[x]
  BY <1>1
<1> QED BY <1>2 DEF Puts

\* One instruction is a chain.
LEMMA OneRuns ==
    ASSUME NEW X, NEW i, NEW P, NEW Q, Moves(X, i, P, Q)
    PROVE  IsList(<<i>>) /\ Chain(X, <<i>>, P, Q)
<1>1. PICK q : q = <<i>>
  OBVIOUS
<1>2. q \in Seq({i}) /\ Len(q) = 1 /\ q[1] = i
  BY <1>1
<1>3. PICK w : w = <<P, Q>>
  OBVIOUS
<1>4. w[1] = P /\ w[2] = Q
  BY <1>3
<1>5. \A j \in 1..1 : j = 1
  OBVIOUS
<1>6. Along(X, q, w)
  BY <1>2, <1>4, <1>5 DEF Along
<1>7. Chain(X, q, P, Q)
  BY <1>2, <1>4, <1>6 DEF Chain
<1>8. IsList(q)
  BY <1>2 DEF IsList
<1> QED BY <1>1, <1>7, <1>8

\* What two lists are, one after the other.
Joined(q, r, s) ==
    /\ IsList(s) /\ Len(q) \in Nat /\ Len(r) \in Nat /\ Len(s) = Len(q) + Len(r)
    /\ \A j \in 1..Len(q) : s[j] = q[j]
    /\ \A j \in 1..Len(r) : s[Len(q) + j] = r[j]

LEMMA ConcatParts ==
    ASSUME NEW q, IsList(q), NEW r, IsList(r), NEW s, s = q \o r
    PROVE  Joined(q, r, s)
<1>1. PICK S, T : q \in Seq(S) /\ r \in Seq(T)
  BY DEF IsList
<1>2. PICK V : V = S \cup T
  OBVIOUS
<1>3. q \in Seq(V) /\ r \in Seq(V)
  BY <1>1, <1>2
<1>4. s \in Seq(V) /\ Len(s) = Len(q) + Len(r)
  BY <1>3
<1>5. \A j \in 1..Len(q) : s[j] = q[j]
  BY <1>3
<1>6. \A j \in 1..Len(r) : s[Len(q) + j] = r[j]
  BY <1>3
<1>7. Len(q) \in Nat /\ Len(r) \in Nat
  BY <1>3
<1> QED BY <1>4, <1>5, <1>6, <1>7 DEF IsList, Joined

\* Two chains, one after the other.
LEMMA ChainConcat ==
    ASSUME NEW X, NEW q, IsList(q), NEW r, IsList(r), NEW P, NEW Q, NEW R,
           Chain(X, q, P, Q), Chain(X, r, Q, R)
    PROVE  IsList(q \o r) /\ Chain(X, q \o r, P, R)
<1>1. PICK s, a, b : s = q \o r /\ a = Len(q) /\ b = Len(r)
  OBVIOUS
<1>2. /\ IsList(s) /\ a \in Nat /\ b \in Nat /\ Len(s) = a + b
      /\ \A j \in 1..a : s[j] = q[j]
      /\ \A j \in 1..b : s[a + j] = r[j]
  <2>1. Joined(q, r, s)
    BY <1>1, ConcatParts
  <2> QED BY <1>1, <2>1 DEF Joined
<1>3. PICK u : u[1] = P /\ u[a + 1] = Q /\ Along(X, q, u)
  BY <1>1 DEF Chain
<1>4. PICK v : v[1] = Q /\ v[b + 1] = R /\ Along(X, r, v)
  BY <1>1 DEF Chain
<1>5. PICK w : w = [j \in 1..(a + b + 1) |-> IF j <= a THEN u[j] ELSE v[j - a]]
  OBVIOUS
<1>6. \A j \in 1..(a + b + 1) : w[j] = IF j <= a THEN u[j] ELSE v[j - a]
  BY <1>5
<1>7. w[1] = P
  <2>1. 1 \in 1..(a + b + 1)
    BY <1>2
  <2>2. CASE a = 0
    BY <1>2, <1>3, <1>4, <1>6, <2>1, <2>2
  <2>3. CASE a # 0
    BY <1>2, <1>3, <1>6, <2>1, <2>3
  <2> QED BY <2>2, <2>3
<1>8. w[a + b + 1] = R
  <2>1. a + b + 1 \in 1..(a + b + 1) /\ ~(a + b + 1 <= a) /\ (a + b + 1) - a = b + 1
    BY <1>2
  <2> QED BY <1>4, <1>6, <2>1
<1>9. ASSUME NEW j \in 1..(a + b) PROVE Moves(X, s[j], w[j], w[j + 1])
  <2>1. j \in 1..(a + b + 1) /\ j + 1 \in 1..(a + b + 1) /\ j \in Nat
    BY <1>2
  <2>2. CASE j < a
    <3>1. j \in 1..a /\ j <= a /\ j + 1 <= a
      BY <1>2, <2>2
    <3>2. w[j] = u[j] /\ w[j + 1] = u[j + 1] /\ s[j] = q[j]
      BY <1>2, <1>6, <2>1, <3>1
    <3> QED BY <1>1, <1>3, <3>1, <3>2 DEF Along
  <2>3. CASE j = a
    <3>1. j \in 1..a /\ j <= a /\ ~(j + 1 <= a) /\ (j + 1) - a = 1
      BY <1>2, <2>3
    <3>2. w[j] = u[j] /\ w[j + 1] = Q /\ s[j] = q[j]
      BY <1>2, <1>4, <1>6, <2>1, <3>1
    <3> QED BY <1>1, <1>3, <2>3, <3>1, <3>2 DEF Along
  <2>4. CASE j > a
    <3>1. PICK i : i = j - a
      OBVIOUS
    <3>2. i \in 1..b /\ j = a + i /\ ~(j <= a) /\ ~(j + 1 <= a) /\ (j + 1) - a = i + 1
      BY <1>2, <2>4, <3>1
    <3>3. w[j] = v[i] /\ w[j + 1] = v[i + 1] /\ s[j] = r[i]
      BY <1>2, <1>6, <2>1, <3>1, <3>2
    <3> QED BY <1>1, <1>4, <3>2, <3>3 DEF Along
  <2> QED BY <1>2, <2>1, <2>2, <2>3, <2>4
<1>10. Along(X, s, w)
  BY <1>2, <1>9 DEF Along
<1>11. Len(s) + 1 = a + b + 1
  BY <1>2
<1>12. Chain(X, s, P, R)
  BY <1>7, <1>8, <1>10, <1>11 DEF Chain
<1> QED BY <1>1, <1>2, <1>12

\* One run after another.
LEMMA RunsThen ==
    ASSUME NEW X, NEW P, NEW q, NEW S, NEW l, NEW n, Runs(X, q, P, S, l, n),
           NEW r, NEW T, NEW k, NEW a, \A Q : Sets(P, Q, S, l, n) => Runs(X, r, Q, T, k, a),
           NEW U, S \subseteq U, T \subseteq U, l \in U \/ l = k
    PROVE  Runs(X, q \o r, P, U, k, a)
<1>1. PICK Q : Chain(X, q, P, Q) /\ Sets(P, Q, S, l, n)
  BY DEF Runs
<1>2. Runs(X, r, Q, T, k, a)
  BY <1>1
<1>3. PICK R : Chain(X, r, Q, R) /\ Sets(Q, R, T, k, a)
  BY <1>2 DEF Runs
<1>4. IsList(q \o r) /\ Chain(X, q \o r, P, R)
  BY <1>1, <1>2, <1>3, ChainConcat DEF Runs
<1>5. Sets(P, R, U, k, a)
  BY <1>1, <1>3 DEF Sets
<1> QED BY <1>4, <1>5 DEF Runs

\* One instruction that puts a value somewhere.
LEMMA PutRuns ==
    ASSUME NEW X, NEW i, NEW P, NEW l, NEW n, \A Q : Puts(P, Q, l, n) => Moves(X, i, P, Q), NEW S
    PROVE  Runs(X, <<i>>, P, S, l, n)
<1>1. PICK Q : Puts(P, Q, l, n)
  BY PutsExist
<1>2. Moves(X, i, P, Q)
  BY <1>1
<1>3. IsList(<<i>>) /\ Chain(X, <<i>>, P, Q)
  BY <1>2, OneRuns
<1>4. Sets(P, Q, S, l, n)
  BY <1>1 DEF Puts, Sets
<1> QED BY <1>3, <1>4 DEF Runs

-----------------------------------------------------------------------------
(* The insert_ functions.                                                  *)

\* The operand o is worth n, which is a word.
Reads(P, o, n) ==
    n \in Words /\ o.kind \in {"imm", "reg", "stack"} /\ Has(P, o) /\ Of(P, o) = n

\* It stays so where nothing else is put.
LEMMA ReadsStay ==
    ASSUME NEW P, NEW o, NEW n, Reads(P, o, n), NEW Q, NEW S, NEW l, NEW a, Sets(P, Q, S, l, a),
           IsImm(o) \/ (Loc(o) \notin S /\ Loc(o) # l)
    PROVE  Reads(Q, o, n)
BY DEF Reads, Sets, Has, Of

\* What was put somewhere can be read there.
LEMMA ReadsPut ==
    ASSUME NEW P, NEW Q, NEW S, NEW l, NEW n \in Words, Sets(P, Q, S, l, n), NEW o, Loc(o) = l,
           o.kind \in {"reg", "stack"}
    PROVE  Reads(Q, o, n)
BY DEF Reads, Sets, Has, Of, IsImm

\* Registers and immediates.
LEMMA MadeOperands ==
    /\ \A r, o : create_register(r, o).kind = "reg" /\ Loc(create_register(r, o)) = Reg(r)
    /\ \A r, o : LET x == [create_register(r, o) EXCEPT !.size = 8] IN x.kind = "reg" /\ Loc(x) = Reg(r)
    /\ \A n, o, P : n \in Words => Reads(P, create_immediate(n, o), n) /\ IsImm(create_immediate(n, o))
    /\ \A x, o : IsOpnd(x) => dup_operand(x, o).kind = x.kind /\ Loc(dup_operand(x, o)) = Loc(x)
    /\ \A X, r : r \in Registers => In(X, Reg(r))
<1>1. ASSUME NEW r, NEW o PROVE create_register(r, o).kind = "reg" /\ Loc(create_register(r, o)) = Reg(r)
  BY DEF create_register, Opnd, Loc, Reg
<1>2. ASSUME NEW r, NEW o, NEW x, x = [create_register(r, o) EXCEPT !.size = 8]
      PROVE  x.kind = "reg" /\ Loc(x) = Reg(r)
  BY <1>2 DEF create_register, Opnd, Loc, Reg
<1>3. ASSUME NEW n \in Words, NEW o, NEW P PROVE Reads(P, create_immediate(n, o), n) /\ IsImm(create_immediate(n, o))
  <2>1. PICK x : x = create_immediate(n, o)
    OBVIOUS
  <2>2. x.kind = "imm" /\ x.val = n
    BY <2>1 DEF create_immediate, Opnd
  <2>3. n \in Int
    BY Widths
  <2>4. Signed(n) = n
    BY <2>3, SignedWord
  <2> QED BY <2>1, <2>2, <2>4 DEF Reads, Has, Of, IsImm
<1>4. ASSUME NEW x, NEW o, IsOpnd(x) PROVE dup_operand(x, o).kind = x.kind /\ Loc(dup_operand(x, o)) = Loc(x)
  <2>1. PICK y : y = dup_operand(x, o)
    OBVIOUS
  <2>2. y = [kind |-> x.kind, val |-> x.val, size |-> x.size, obj |-> o]
    BY <1>4, <2>1 DEF dup_operand, IsOpnd
  <2> QED BY <2>1, <2>2 DEF Loc
<1>5. \A X, r : r \in Registers => In(X, Reg(r))
  BY DEF In, Reg
<1> QED BY <1>1, <1>2, <1>3, <1>4, <1>5

\* A move of what is known.
LEMMA MoveRuns ==
    ASSUME NEW X, NEW P, NEW i, NEW n, Reads(P, i.src, n), i.type = "MOV", NEW l, l = Loc(i.dst), In(X, l), NEW S
    PROVE  Runs(X, <<i>>, P, S, l, n)
<1>1. Signed(n) = n
  <2>1. n \in Int
    BY Widths DEF Reads
  <2> QED BY <2>1, SignedWord DEF Reads
<1>2. Alu("MOV", n, 0) = n
  BY <1>1 DEF Alu
<1>3. ASSUME NEW Q, Puts(P, Q, l, n) PROVE Moves(X, i, P, Q)
  BY <1>2, <1>3 DEF Moves, MoveStep, Reads
<1> QED BY <1>3, PutRuns

\* Two operands.
LEMMA ArithRuns ==
    ASSUME NEW X, NEW P, NEW i, NEW a, NEW b, Reads(P, i.src, a), Reads(P, i.dst, b), i.type \in Ariths,
           NEW l, l = Loc(i.dst), In(X, l), NEW S, NEW n, n = Alu(i.type, a, b)
    PROVE  Runs(X, <<i>>, P, S, l, n)
<1>1. ASSUME NEW Q, Puts(P, Q, l, n) PROVE Moves(X, i, P, Q)
  BY <1>1 DEF Moves, ArithStep, Reads
<1> QED BY <1>1, PutRuns

\* One operand.
LEMMA SingleRuns ==
    ASSUME NEW X, NEW P, NEW i, NEW a, Reads(P, i.dst, a), i.type \in {"NEG", "NOT"},
           NEW l, l = Loc(i.dst), In(X, l), NEW S, NEW n, n = Alu(i.type, 0, a)
    PROVE  Runs(X, <<i>>, P, S, l, n)
<1>1. ASSUME NEW Q, Puts(P, Q, l, n) PROVE Moves(X, i, P, Q)
  BY <1>1 DEF Moves, OneStep, Reads
<1> QED BY <1>1, PutRuns

\* cdq.
LEMMA SignRuns ==
    ASSUME NEW X, NEW P, NEW i, i.type = "CDQ", Reg("AX") \in DOMAIN P,
           NEW l, l = Reg("DX"), NEW S, NEW n, n = IF P[Reg("AX")] < 0 THEN -1 ELSE 0
    PROVE  Runs(X, <<i>>, P, S, l, n)
<1>1. ASSUME NEW Q, Puts(P, Q, l, n) PROVE Moves(X, i, P, Q)
  BY <1>1 DEF Moves, SignStep
<1> QED BY <1>1, PutRuns

\* A comparison.
LEMMA CompareRuns ==
    ASSUME NEW X, NEW P, NEW i, NEW a, NEW b, Reads(P, i.src, a), Reads(P, i.dst, b), i.type = "CMP",
           NEW l, l = Flags, NEW S, NEW n, n = <<b, a>>
    PROVE  Runs(X, <<i>>, P, S, l, n)
<1>1. ASSUME NEW Q, Puts(P, Q, l, n) PROVE Moves(X, i, P, Q)
  BY <1>1 DEF Moves, CompareStep, Reads
<1> QED BY <1>1, PutRuns

\* A set by the flags.
LEMMA SetRuns ==
    ASSUME NEW X, NEW P, NEW i, i.type = "SETCC", Flags \in DOMAIN P, NEW a, NEW b, P[Flags] = <<b, a>>,
           NEW l, l = Loc(i.src), l \in DOMAIN P, In(X, l), NEW S, NEW n, n = Truth(Holds(i.code, b, a))
    PROVE  Runs(X, <<i>>, P, S, l, n)
<1>1. P[Flags][1] = b /\ P[Flags][2] = a
  OBVIOUS
<1>2. ASSUME NEW Q, Puts(P, Q, l, n) PROVE Moves(X, i, P, Q)
  BY <1>1, <1>2 DEF Moves, SetStep
<1> QED BY <1>2, PutRuns

\* A move, by way of r10 between two slots.
LEMMA MovRuns ==
    ASSUME NEW X, NEW P, NEW src, NEW n, Reads(P, src, n), NEW dst, dst.kind \in {"reg", "stack"},
           NEW l, l = Loc(dst), In(X, l), NEW t, NEW S, Reg("R10") \in S
    PROVE  Runs(X, insert_mov(src, dst, t), P, S, l, n)
<1>1. CASE ~(IsStack(src) /\ IsStack(dst))
  <2>1. PICK i : i = Inst("MOV", src, dst)
    OBVIOUS
  <2>2. i.type = "MOV" /\ i.src = src /\ i.dst = dst
    BY <2>1 DEF Inst
  <2>3. Runs(X, <<i>>, P, S, l, n)
    BY <2>2, MoveRuns
  <2> QED BY <1>1, <2>1, <2>3 DEF insert_mov
<1>2. CASE IsStack(src) /\ IsStack(dst)
  <2>1. PICK r, s : r = create_register("R10", halves[t][1]) /\ s = create_register("R10", halves[t][2])
    OBVIOUS
  <2>2. Loc(r) = Reg("R10") /\ s.kind = "reg" /\ Loc(s) = Reg("R10") /\ In(X, Reg("R10"))
    BY <2>1, MadeOperands DEF Registers
  <2>3. PICK i, j : i = Inst("MOV", src, r) /\ j = Inst("MOV", s, dst)
    OBVIOUS
  <2>4. i.type = "MOV" /\ i.src = src /\ i.dst = r /\ j.type = "MOV" /\ j.src = s /\ j.dst = dst
    BY <2>3 DEF Inst
  <2>5. PICK k : k = Reg("R10")
    OBVIOUS
  <2>6. Runs(X, <<i>>, P, S, k, n)
    BY <2>2, <2>4, <2>5, MoveRuns
  <2>7. n \in Words
    BY DEF Reads
  <2>8. ASSUME NEW Q, Sets(P, Q, S, k, n) PROVE Runs(X, <<j>>, Q, S, l, n)
    <3>1. Reads(Q, s, n)
      BY <2>2, <2>5, <2>7, <2>8, ReadsPut
    <3> QED BY <2>4, <3>1, MoveRuns
  <2>9. Runs(X, <<i>> \o <<j>>, P, S, l, n)
    BY <2>5, <2>6, <2>8, RunsThen
  <2>10. <<i>> \o <<j>> = <<i, j>>
    BY PairListed
  <2> QED BY <1>2, <2>1, <2>3, <2>9, <2>10 DEF insert_mov
<1> QED BY <1>1, <1>2

\* Three runs, one after another.
LEMMA RunsThree ==
    ASSUME NEW X, NEW P, NEW q, NEW S, NEW l, NEW n, Runs(X, q, P, S, l, n),
           NEW r, NEW T, NEW k, NEW a, \A Q : Sets(P, Q, S, l, n) => Runs(X, r, Q, T, k, a),
           NEW s, NEW V, NEW h, NEW b,
           \A Q, R : Sets(P, Q, S, l, n) /\ Sets(Q, R, T, k, a) => Runs(X, s, R, V, h, b),
           NEW U, S \subseteq U, T \subseteq U, V \subseteq U, l \in U \/ l = h, k \in U \/ k = h
    PROVE  Runs(X, q \o r \o s, P, U, h, b)
<1>1. PICK Q : Chain(X, q, P, Q) /\ Sets(P, Q, S, l, n)
  BY DEF Runs
<1>2. PICK R : Chain(X, r, Q, R) /\ Sets(Q, R, T, k, a)
  BY <1>1 DEF Runs
<1>3. PICK O : Chain(X, s, R, O) /\ Sets(R, O, V, h, b)
  BY <1>1, <1>2 DEF Runs
<1>4. IsList(q) /\ IsList(r) /\ IsList(s)
  BY <1>1, <1>2 DEF Runs
<1>5. PICK t : t = q \o r
  OBVIOUS
<1>6. IsList(t) /\ Chain(X, t, P, R)
  BY <1>1, <1>2, <1>4, <1>5, ChainConcat
<1>7. IsList(t \o s) /\ Chain(X, t \o s, P, O)
  BY <1>3, <1>4, <1>6, ChainConcat
<1>8. \A x \in DOMAIN P : x \notin U /\ x # h => x \in DOMAIN Q /\ Q[x] = P[x]
  BY <1>1 DEF Sets
<1>9. \A x \in DOMAIN P : x \notin U /\ x # h => x \in DOMAIN R /\ R[x] = P[x]
  BY <1>2, <1>8 DEF Sets
<1>10. \A x \in DOMAIN P : x \notin U /\ x # h => x \in DOMAIN O /\ O[x] = P[x]
  BY <1>3, <1>9 DEF Sets
<1>11. Sets(P, O, U, h, b)
  BY <1>3, <1>10 DEF Sets
<1> QED BY <1>5, <1>7, <1>11 DEF Runs

\* Nothing in front of a list.
LEMMA NothingBefore ==
    ASSUME NEW q, IsList(q)
    PROVE  <<>> \o q = q
<1>1. PICK S : q \in Seq(S)
  BY DEF IsList
<1> QED BY <1>1

\* The places that an instruction's lowering may use besides its destination.
Scratch == {Reg(r) : r \in Registers} \cup {Flags}
Helper == {Reg("R10")}

\* The operand o is worth n, and lowering does not use its place.
Rests(P, o, n) == Reads(P, o, n) /\ (IsImm(o) \/ Loc(o) \notin Scratch)

\* It rests where something else is put.
LEMMA RestsStay ==
    ASSUME NEW P, NEW o, NEW n, Rests(P, o, n), NEW Q, NEW S, S \subseteq Scratch, NEW l, NEW a, Sets(P, Q, S, l, a),
           IsImm(o) \/ l # Loc(o)
    PROVE  Rests(Q, o, n)
<1>1. IsImm(o) \/ (Loc(o) \notin S /\ Loc(o) # l)
  BY DEF Rests
<1>2. Reads(Q, o, n)
  BY <1>1, ReadsStay DEF Rests
<1> QED BY <1>2 DEF Rests

\* The helpers are what they are.
LEMMA ScratchFacts ==
    /\ \A r \in Registers : Reg(r) \in Scratch /\ Reg(r) # Flags
    /\ Flags \in Scratch /\ Helper \subseteq Scratch /\ Flags \notin Helper
    /\ \A o : IsStack(o) => Loc(o) \notin Scratch
    /\ Reg("R10") \in Helper /\ {"R10", "R11", "AX", "DX", "CX"} = Registers
    /\ Reg("AX") # Reg("DX") /\ Reg("R10") # Reg("AX") /\ Reg("R10") # Reg("DX")
<1>1. \A r : Reg(r)[1] = "reg" /\ Reg(r)[2] = r /\ Flags[1] = "flags"
  BY DEF Reg, Flags
<1>2. \A r : Reg(r) # Flags
  BY <1>1
<1>3. \A o : IsStack(o) => Loc(o)[1] = "stack"
  BY DEF IsStack, Loc
<1>4. \A o : IsStack(o) => Loc(o) \notin Scratch
  BY <1>1, <1>3 DEF Scratch
<1>5. {"R10", "R11", "AX", "DX", "CX"} = Registers
  BY DEF Registers
<1> QED BY <1>1, <1>2, <1>4, <1>5 DEF Scratch, Helper

\* A comparison of any two operands.
LEMMA CmpRuns ==
    ASSUME NEW X, NEW P, NEW src, NEW a, Rests(P, src, a), NEW dst, NEW b, Rests(P, dst, b)
    PROVE  Runs(X, insert_cmp(src, dst), P, Scratch, Flags, <<b, a>>)
<1>1. PICK n : n = <<b, a>>
  OBVIOUS
<1>2. Reads(P, src, a) /\ Reads(P, dst, b) /\ a \in Words /\ b \in Words
  BY DEF Rests, Reads
<1>3. CASE ~IsImm(dst) /\ ~(IsStack(src) /\ IsStack(dst))
  <2>1. PICK i : i = Inst("CMP", src, dst)
    OBVIOUS
  <2>2. i.type = "CMP" /\ i.src = src /\ i.dst = dst
    BY <2>1 DEF Inst
  <2>3. Runs(X, <<i>>, P, Scratch, Flags, n)
    BY <1>1, <1>2, <2>2, CompareRuns
  <2>4. <<>> \o <<>> = <<>>
    OBVIOUS
  <2>5. IsList(<<i>>)
    BY <2>3 DEF Runs
  <2>6. <<>> \o <<i>> = <<i>>
    BY <2>5, NothingBefore
  <2>7. insert_cmp(src, dst) = <<>> \o <<>> \o <<i>>
    BY <1>3, <2>1 DEF insert_cmp
  <2> QED BY <1>1, <2>3, <2>4, <2>6, <2>7
<1>4. CASE IsImm(dst)
  <2>1. ~IsStack(dst)
    BY <1>4 DEF IsImm, IsStack
  <2>2. PICK r, s : r = create_register("R11", "c3") /\ s = create_register("R11", "c4")
    OBVIOUS
  <2>3. /\ r.kind = "reg" /\ Loc(r) = Reg("R11") /\ In(X, Reg("R11"))
        /\ s.kind = "reg" /\ Loc(s) = Reg("R11") /\ Reg("R11") \in Scratch
    BY <2>2, MadeOperands, ScratchFacts DEF Registers
  <2>4. PICK i, k : i = Inst("CMP", src, s) /\ k = Reg("R11")
    OBVIOUS
  <2>5. i.type = "CMP" /\ i.src = src /\ i.dst = s
    BY <2>4 DEF Inst
  <2>6. PICK q : q = insert_mov(dst, r, "o")
    OBVIOUS
  <2>7. Reg("R10") \in Helper
    BY ScratchFacts
  <2>8. Runs(X, q, P, Helper, k, b)
    BY <1>2, <2>3, <2>4, <2>6, <2>7, MovRuns
  <2>9. ASSUME NEW Q, Sets(P, Q, Helper, k, b) PROVE Runs(X, <<i>>, Q, Scratch, Flags, n)
    <3>1. IsImm(src) \/ k # Loc(src)
      BY <2>3, <2>4 DEF Rests
    <3>2. Rests(Q, src, a)
      BY <2>9, <3>1, RestsStay, ScratchFacts
    <3>3. Reads(Q, s, b)
      BY <1>2, <2>3, <2>4, <2>9, ReadsPut
    <3>4. Reads(Q, src, a)
      BY <3>2 DEF Rests
    <3> QED BY <1>1, <2>5, <3>3, <3>4, CompareRuns
  <2>10. k \in Scratch /\ Helper \subseteq Scratch
    BY <2>3, <2>4, ScratchFacts
  <2>11. Runs(X, q \o <<i>>, P, Scratch, Flags, n)
    BY <2>8, <2>9, <2>10, RunsThen
  <2>12. IsList(q)
    BY <2>8 DEF Runs
  <2>13. insert_cmp(src, dst) = <<>> \o q \o <<i>>
    BY <1>4, <2>1, <2>2, <2>4, <2>6 DEF insert_cmp
  <2>14. <<>> \o q = q
    BY <2>12, NothingBefore
  <2> QED BY <1>1, <2>11, <2>13, <2>14
<1>5. CASE IsStack(src) /\ IsStack(dst)
  <2>1. ~IsImm(dst) /\ ~IsImm(src)
    BY <1>5 DEF IsImm, IsStack
  <2>2. PICK r, s : r = create_register("R10", "c1") /\ s = create_register("R10", "c2")
    OBVIOUS
  <2>3. /\ r.kind = "reg" /\ Loc(r) = Reg("R10") /\ In(X, Reg("R10"))
        /\ s.kind = "reg" /\ Loc(s) = Reg("R10") /\ Reg("R10") \in Scratch
    BY <2>2, MadeOperands, ScratchFacts DEF Registers
  <2>4. PICK i, k : i = Inst("CMP", s, dst) /\ k = Reg("R10")
    OBVIOUS
  <2>5. i.type = "CMP" /\ i.src = s /\ i.dst = dst
    BY <2>4 DEF Inst
  <2>6. PICK q : q = insert_mov(src, r, "n")
    OBVIOUS
  <2>7. Reg("R10") \in Helper
    BY ScratchFacts
  <2>8. Runs(X, q, P, Helper, k, a)
    BY <1>2, <2>3, <2>4, <2>6, <2>7, MovRuns
  <2>9. ASSUME NEW Q, Sets(P, Q, Helper, k, a) PROVE Runs(X, <<i>>, Q, Scratch, Flags, n)
    <3>1. IsImm(dst) \/ k # Loc(dst)
      BY <2>3, <2>4 DEF Rests
    <3>2. Rests(Q, dst, b)
      BY <2>9, <3>1, RestsStay, ScratchFacts
    <3>3. Reads(Q, s, a)
      BY <1>2, <2>3, <2>4, <2>9, ReadsPut
    <3>4. Reads(Q, dst, b)
      BY <3>2 DEF Rests
    <3> QED BY <1>1, <2>5, <3>3, <3>4, CompareRuns
  <2>10. k \in Scratch /\ Helper \subseteq Scratch
    BY <2>3, <2>4, ScratchFacts
  <2>11. Runs(X, q \o <<i>>, P, Scratch, Flags, n)
    BY <2>8, <2>9, <2>10, RunsThen
  <2>12. IsList(q)
    BY <2>8 DEF Runs
  <2>13. insert_cmp(src, dst) = q \o <<>> \o <<i>>
    BY <1>5, <2>1, <2>2, <2>4, <2>6 DEF insert_cmp
  <2>14. q \o <<>> = q
    BY <2>12 DEF IsList
  <2> QED BY <1>1, <2>11, <2>13, <2>14
<1> QED BY <1>3, <1>4, <1>5

-----------------------------------------------------------------------------
(* The lowerings.                                                          *)

\* The operand d is a slot, and l is its place.
Target(X, d, l) == Slot(d) /\ l = Loc(d) /\ In(X, l)

\* So are its copies.
LEMMA TargetFacts ==
    ASSUME NEW X, NEW d, NEW l, Target(X, d, l)
    PROVE  /\ d.kind \in {"reg", "stack"} /\ ~IsImm(d) /\ IsStack(d) /\ l = Loc(d) /\ In(X, l)
           /\ l \notin Scratch
           /\ \A o : Target(X, dup_operand(d, o), l)
<1>1. IsOpnd(d) /\ IsStack(d) /\ l = Loc(d) /\ In(X, l)
  BY DEF Target, Slot
<1>2. d.kind \in {"reg", "stack"} /\ ~IsImm(d)
  BY <1>1 DEF IsStack, IsImm
<1>3. l \notin Scratch
  BY <1>1, ScratchFacts
<1>4. ASSUME NEW o PROVE Target(X, dup_operand(d, o), l)
  <2>1. Slot(dup_operand(d, o))
    BY SlotKinds DEF Target
  <2>2. Loc(dup_operand(d, o)) = l
    BY <1>1, MadeOperands
  <2> QED BY <1>1, <2>1, <2>2 DEF Target
<1> QED BY <1>1, <1>2, <1>3, <1>4

\* After the comparison of a and b, the truth of the relation is put in l.
LEMMA FlagsRun ==
    ASSUME NEW X, NEW P, NEW q, NEW a, NEW b, Runs(X, q, P, Scratch, Flags, <<a, b>>),
           NEW d, NEW e, NEW l, Target(X, d, l), Target(X, e, l), NEW c, NEW o, NEW t, NEW n, n = Truth(Holds(c, a, b))
    PROVE  Runs(X, q \o insert_mov(create_immediate(0, o), d, t) \o SetIf(c, e), P, Scratch, l, n)
<1>1. PICK z, f, m : z = create_immediate(0, o) /\ f = <<a, b>> /\ m = 0
  OBVIOUS
<1>2. PICK i : i = [Inst("SETCC", e, NoOpnd) EXCEPT !.code = c]
  OBVIOUS
<1>3. i.type = "SETCC" /\ i.src = e /\ i.code = c
  BY <1>2 DEF Inst
<1>4. 0 \in Words
  BY TruthWord
<1>5. d.kind \in {"reg", "stack"} /\ In(X, l) /\ l = Loc(d) /\ l = Loc(e) /\ l \notin Scratch
  BY TargetFacts
<1>6. PICK r : r = insert_mov(z, d, t)
  OBVIOUS
<1>7. ASSUME NEW Q, Sets(P, Q, Scratch, Flags, f) PROVE Runs(X, r, Q, Helper, l, m)
  <2>1. Reads(Q, z, m)
    BY <1>1, <1>4, MadeOperands
  <2>2. Reg("R10") \in Helper
    BY ScratchFacts
  <2>3. d.kind \in {"reg", "stack"} /\ l = Loc(d) /\ In(X, l)
    BY <1>5
  <2>4. Runs(X, insert_mov(z, d, t), Q, Helper, l, m)
    BY <2>1, <2>2, <2>3, MovRuns
  <2> QED BY <1>6, <2>4
<1>8. ASSUME NEW Q, NEW R, Sets(P, Q, Scratch, Flags, f), Sets(Q, R, Helper, l, m)
      PROVE  Runs(X, <<i>>, R, Scratch, l, n)
  <2>1. Flags \in DOMAIN Q /\ Q[Flags] = <<a, b>>
    BY <1>1, <1>8 DEF Sets
  <2>2. Flags \notin Helper /\ Flags # l
    BY <1>5, ScratchFacts
  <2>3. Flags \in DOMAIN R /\ R[Flags] = <<a, b>> /\ l \in DOMAIN R
    BY <1>8, <2>1, <2>2 DEF Sets
  <2> QED BY <1>3, <1>5, <2>3, SetRuns
<1>9. Runs(X, q, P, Scratch, Flags, f)
  BY <1>1
<1>10. Helper \subseteq Scratch /\ Flags \in Scratch
  BY ScratchFacts
<1>11. Runs(X, q \o r \o <<i>>, P, Scratch, l, n)
  BY <1>7, <1>8, <1>9, <1>10, RunsThree
<1> QED BY <1>1, <1>2, <1>6, <1>11 DEF SetIf

\* A comparison whose result is stored.
LEMMA RelationalRuns ==
    ASSUME NEW X, NEW P, NEW c \in Relations, NEW lhs, NEW a, Rests(P, lhs, a), NEW rhs, NEW b, Rests(P, rhs, b),
           NEW d, NEW l, Target(X, d, l)
    PROVE  Runs(X, lower_relational(c, lhs, rhs, d), P, Scratch, l, Gives(c, a, b))
<1>1. PICK q : q = insert_cmp(rhs, lhs)
  OBVIOUS
<1>2. Runs(X, q, P, Scratch, Flags, <<a, b>>)
  BY <1>1, CmpRuns
<1>3. Target(X, dup_operand(d, "dst2"), l)
  BY TargetFacts
<1>4. PICK n, e : n = Truth(Holds(c, a, b)) /\ e = dup_operand(d, "dst2")
  OBVIOUS
<1>5. Runs(X, q \o insert_mov(create_immediate(0, "zero"), d, "m") \o SetIf(c, e), P, Scratch, l, n)
  BY <1>2, <1>3, <1>4, FlagsRun
<1>6. Gives(c, a, b) = n
  BY <1>4 DEF Gives, Relations
<1> QED BY <1>1, <1>4, <1>5, <1>6 DEF lower_relational
\* The left operand is moved to the destination.
LEMMA LeftRuns ==
    ASSUME NEW X, NEW P, NEW lhs, NEW a, Rests(P, lhs, a), NEW d, NEW l, Target(X, d, l), NEW t
    PROVE  Runs(X, insert_mov(lhs, d, t), P, Helper, l, a)
<1>1. Reads(P, lhs, a)
  BY DEF Rests
<1>2. d.kind \in {"reg", "stack"} /\ In(X, l) /\ l = Loc(d)
  BY TargetFacts
<1>3. Reg("R10") \in Helper
  BY ScratchFacts
<1> QED BY <1>1, <1>2, <1>3, MovRuns

\* Then it can be read there, and the other stays where it is.
LEMMA LeftKept ==
    ASSUME NEW X, NEW P, NEW a \in Words, NEW rhs, NEW b, Rests(P, rhs, b), NEW l,
           IsImm(rhs) \/ l # Loc(rhs), NEW Q, Sets(P, Q, Helper, l, a), NEW e, Target(X, e, l)
    PROVE  Rests(Q, rhs, b) /\ Rests(Q, e, a)
<1>1. Helper \subseteq Scratch
  BY ScratchFacts
<1>2. Rests(Q, rhs, b)
  BY <1>1, RestsStay
<1>3. e.kind \in {"reg", "stack"} /\ Loc(e) = l /\ l \notin Scratch
  BY TargetFacts
<1>4. Reads(Q, e, a)
  BY <1>3, ReadsPut
<1> QED BY <1>2, <1>3, <1>4 DEF Rests

\* Two operands that are not both slots, or the left one by way of r10.
Combined(t, rhs, e, r, s) ==
    IF IsStack(rhs) /\ IsStack(e) THEN insert_mov(rhs, r, "n") \o << Inst(t, s, e) >>
    ELSE << Inst(t, rhs, e) >>

LEMMA PairRuns ==
    ASSUME NEW X, NEW P, NEW rhs, NEW b, Rests(P, rhs, b), NEW e, NEW a, Rests(P, e, a), NEW l, Target(X, e, l),
           NEW t \in Ariths, NEW r, r = create_register("R10", "r1"), NEW s, s = create_register("R10", "r2")
    PROVE  Runs(X, Combined(t, rhs, e, r, s), P, Scratch, l, Alu(t, b, a))
<1>1. PICK n : n = Alu(t, b, a)
  OBVIOUS
<1>2. Reads(P, rhs, b) /\ Reads(P, e, a) /\ b \in Words
  BY DEF Rests, Reads
<1>3. In(X, l) /\ l = Loc(e)
  BY TargetFacts
<1>4. CASE ~(IsStack(rhs) /\ IsStack(e))
  <2>1. PICK i : i = Inst(t, rhs, e)
    OBVIOUS
  <2>2. i.type = t /\ i.src = rhs /\ i.dst = e
    BY <2>1 DEF Inst
  <2>3. Runs(X, <<i>>, P, Scratch, l, n)
    BY <1>1, <1>2, <1>3, <2>2, ArithRuns
  <2> QED BY <1>1, <1>4, <2>1, <2>3 DEF Combined
<1>5. CASE IsStack(rhs) /\ IsStack(e)
  <2>1. /\ r.kind = "reg" /\ Loc(r) = Reg("R10") /\ In(X, Reg("R10"))
        /\ s.kind = "reg" /\ Loc(s) = Reg("R10") /\ Reg("R10") \in Scratch
    BY MadeOperands, ScratchFacts DEF Registers
  <2>2. PICK i, k : i = Inst(t, s, e) /\ k = Reg("R10")
    OBVIOUS
  <2>3. i.type = t /\ i.src = s /\ i.dst = e
    BY <2>2 DEF Inst
  <2>4. PICK q : q = insert_mov(rhs, r, "n")
    OBVIOUS
  <2>5. Reg("R10") \in Helper /\ Helper \subseteq Scratch
    BY ScratchFacts
  <2>6. Runs(X, q, P, Helper, k, b)
    BY <1>2, <2>1, <2>2, <2>4, <2>5, MovRuns
  <2>7. ASSUME NEW Q, Sets(P, Q, Helper, k, b) PROVE Runs(X, <<i>>, Q, Scratch, l, n)
    <3>1. IsImm(e) \/ k # Loc(e)
      BY <2>1, <2>2 DEF Rests
    <3>2. Rests(Q, e, a)
      BY <2>5, <2>7, <3>1, RestsStay
    <3>3. Reads(Q, s, b)
      BY <1>2, <2>1, <2>2, <2>7, ReadsPut
    <3>4. Reads(Q, e, a)
      BY <3>2 DEF Rests
    <3> QED BY <1>1, <1>3, <2>3, <3>3, <3>4, ArithRuns
  <2>8. k \in Scratch
    BY <2>1, <2>2
  <2>9. Runs(X, q \o <<i>>, P, Scratch, l, n)
    BY <2>5, <2>6, <2>7, <2>8, RunsThen
  <2> QED BY <1>1, <1>5, <2>2, <2>4, <2>9 DEF Combined
<1> QED BY <1>4, <1>5

\* Addition and the like.
LEMMA SimpleRuns ==
    ASSUME NEW X, NEW P, NEW lhs, NEW a, Rests(P, lhs, a), NEW rhs, NEW b, Rests(P, rhs, b),
           NEW d, NEW l, Target(X, d, l), IsImm(rhs) \/ l # Loc(rhs), NEW t \in Ariths
    PROVE  Runs(X, lower_simple_binary_inst(t, lhs, rhs, d), P, Scratch, l, Alu(t, b, a))
<1>1. PICK q, e : q = insert_mov(lhs, d, "m") /\ e = dup_operand(d, "dst2")
  OBVIOUS
<1>2. PICK r, s : r = create_register("R10", "r1") /\ s = create_register("R10", "r2")
  OBVIOUS
<1>3. PICK p, n : p = Combined(t, rhs, e, r, s) /\ n = Alu(t, b, a)
  OBVIOUS
<1>4. Runs(X, q, P, Helper, l, a)
  BY <1>1, LeftRuns
<1>5. Target(X, e, l) /\ a \in Words
  BY <1>1, TargetFacts DEF Rests, Reads
<1>6. ASSUME NEW Q, Sets(P, Q, Helper, l, a) PROVE Runs(X, p, Q, Scratch, l, n)
  <2>1. Rests(Q, rhs, b) /\ Rests(Q, e, a)
    BY <1>5, <1>6, LeftKept
  <2>2. Runs(X, Combined(t, rhs, e, r, s), Q, Scratch, l, Alu(t, b, a))
    BY <1>2, <1>5, <2>1, PairRuns
  <2> QED BY <1>3, <2>2
<1>7. Helper \subseteq Scratch
  BY ScratchFacts
<1>8. Runs(X, q \o p, P, Scratch, l, n)
  BY <1>4, <1>6, <1>7, RunsThen
<1>9. lower_simple_binary_inst(t, lhs, rhs, d) = q \o p
  BY <1>1, <1>2, <1>3 DEF lower_simple_binary_inst, Combined
<1> QED BY <1>3, <1>8, <1>9

\* Multiplication, in a register.
LEMMA MulRuns ==
    ASSUME NEW X, NEW P, NEW lhs, NEW a, Rests(P, lhs, a), NEW rhs, NEW b, Rests(P, rhs, b),
           NEW d, NEW l, Target(X, d, l), IsImm(rhs) \/ l # Loc(rhs)
    PROVE  Runs(X, lower_mul(lhs, rhs, d), P, Scratch, l, Signed(a * b))
<1>1. PICK q, e, f : q = insert_mov(lhs, d, "m") /\ e = dup_operand(d, "dst2") /\ f = dup_operand(d, "dst3")
  OBVIOUS
<1>2. PICK r1, r2, r3 : r1 = create_register("R11", "r1") /\ r2 = create_register("R11", "r2")
                        /\ r3 = create_register("R11", "r3")
  OBVIOUS
<1>3. /\ r1.kind = "reg" /\ Loc(r1) = Reg("R11") /\ In(X, Reg("R11"))
      /\ r2.kind = "reg" /\ Loc(r2) = Reg("R11") /\ r3.kind = "reg" /\ Loc(r3) = Reg("R11")
  BY <1>2, MadeOperands DEF Registers
<1>4. PICK n, k, i : n = Signed(a * b) /\ k = Reg("R11") /\ i = Inst("MUL", rhs, r2)
  OBVIOUS
<1>5. i.type = "MUL" /\ i.src = rhs /\ i.dst = r2
  BY <1>4 DEF Inst
<1>6. PICK s, t : s = insert_mov(e, r1, "n") /\ t = insert_mov(r3, f, "o")
  OBVIOUS
<1>7. lower_mul(lhs, rhs, d) = q \o (s \o <<i>> \o t)
  <2>1. IsStack(d)
    BY TargetFacts
  <2> QED BY <1>1, <1>2, <1>4, <1>6, <2>1 DEF lower_mul
<1>8. a \in Words /\ b \in Words /\ a \in Int /\ b \in Int
  <2>1. a \in Words /\ b \in Words
    BY DEF Rests, Reads
  <2> QED BY <2>1, Widths
<1>9. n \in Words /\ n = Alu("MUL", b, a)
  <2>1. a * b \in Int
    BY <1>8
  <2>2. Signed(a * b) \in Words
    BY <2>1, SignedWord
  <2>3. Alu("MUL", b, a) = Signed(a * b)
    BY DEF Alu
  <2> QED BY <1>4, <2>2, <2>3
<1>10. Target(X, e, l) /\ Target(X, f, l) /\ f.kind \in {"reg", "stack"} /\ l = Loc(f) /\ In(X, l)
  <2>1. Target(X, e, l) /\ Target(X, f, l)
    BY <1>1, TargetFacts
  <2> QED BY <2>1, TargetFacts
<1>11. Helper \subseteq Scratch /\ Reg("R10") \in Helper /\ k \in Scratch /\ {} \subseteq Scratch
  BY <1>4, ScratchFacts DEF Registers
<1>12. Runs(X, q, P, Helper, l, a)
  BY <1>1, LeftRuns
<1>13. ASSUME NEW Q, Sets(P, Q, Helper, l, a) PROVE Runs(X, s \o <<i>> \o t, Q, Scratch, l, n)
  <2>1. Rests(Q, rhs, b) /\ Rests(Q, e, a)
    BY <1>8, <1>10, <1>13, LeftKept
  <2>2. Reads(Q, e, a)
    BY <2>1 DEF Rests
  <2>3. In(X, k) /\ k = Loc(r1) /\ r1.kind \in {"reg", "stack"}
    BY <1>3, <1>4
  <2>4. Runs(X, insert_mov(e, r1, "n"), Q, Helper, k, a)
    BY <1>11, <2>2, <2>3, MovRuns
  <2>5. Runs(X, s, Q, Helper, k, a)
    BY <1>6, <2>4
  <2>6. IsImm(rhs) \/ k # Loc(rhs)
    BY <1>11 DEF Rests
  <2>7. ASSUME NEW R, Sets(Q, R, Helper, k, a) PROVE Runs(X, <<i>>, R, {}, k, n)
    <3>1. Rests(R, rhs, b)
      BY <1>11, <2>1, <2>6, <2>7, RestsStay
    <3>2. Reads(R, rhs, b)
      BY <3>1 DEF Rests
    <3>3. Reads(R, r2, a)
      BY <1>3, <1>4, <1>8, <2>7, ReadsPut
    <3>4. i.type \in Ariths /\ k = Loc(i.dst) /\ n = Alu(i.type, b, a)
      BY <1>3, <1>4, <1>5, <1>9 DEF Ariths
    <3> QED BY <1>5, <2>3, <3>2, <3>3, <3>4, ArithRuns
  <2>8. ASSUME NEW R, NEW T, Sets(Q, R, Helper, k, a), Sets(R, T, {}, k, n) PROVE Runs(X, t, T, Helper, l, n)
    <3>1. Reads(T, r3, n)
      BY <1>3, <1>4, <1>9, <2>8, ReadsPut
    <3>2. Runs(X, insert_mov(r3, f, "o"), T, Helper, l, n)
      BY <1>10, <1>11, <3>1, MovRuns
    <3> QED BY <1>6, <3>2
  <2> QED BY <1>11, <2>5, <2>7, <2>8, RunsThree, SMTT(40)
<1>14. Runs(X, q \o (s \o <<i>> \o t), P, Scratch, l, n)
  BY <1>11, <1>12, <1>13, RunsThen
<1> QED BY <1>4, <1>7, <1>14

\* A shift, by a count in the byte register or a constant.
LEMMA ShiftRuns ==
    ASSUME NEW X, NEW P, NEW lhs, NEW a, Rests(P, lhs, a), NEW rhs, NEW b, Rests(P, rhs, b),
           NEW d, NEW l, Target(X, d, l), IsImm(rhs) \/ l # Loc(rhs), NEW t \in Shifts
    PROVE  Runs(X, lower_bit_shift(t, lhs, rhs, d), P, Scratch, l, Alu(t, b, a))
<1>1. PICK q, e : q = insert_mov(lhs, d, "m") /\ e = dup_operand(d, "dst2")
  OBVIOUS
<1>2. PICK r1, r2 : /\ r1 = [create_register("CX", "r1") EXCEPT !.size = 8]
                    /\ r2 = [create_register("CX", "r2") EXCEPT !.size = 8]
  OBVIOUS
<1>3. /\ r1.kind = "reg" /\ Loc(r1) = Reg("CX") /\ In(X, Reg("CX"))
      /\ r2.kind = "reg" /\ Loc(r2) = Reg("CX") /\ Reg("CX") \in Scratch
  BY <1>2, MadeOperands, ScratchFacts DEF Registers
<1>4. PICK n, k : n = Alu(t, b, a) /\ k = Reg("CX")
  OBVIOUS
<1>5. a \in Words /\ b \in Words /\ t \in Ariths
  BY DEF Rests, Reads, Shifts, Ariths
<1>6. Target(X, e, l) /\ l = Loc(e) /\ In(X, l) /\ IsStack(e)
  <2>1. Target(X, e, l)
    BY <1>1, TargetFacts
  <2> QED BY <2>1, TargetFacts
<1>7. Helper \subseteq Scratch /\ Reg("R10") \in Helper
  BY ScratchFacts
<1>8. Runs(X, q, P, Helper, l, a)
  BY <1>1, LeftRuns
<1>9. CASE IsImm(rhs)
  <2>1. PICK i : i = Inst(t, rhs, e)
    OBVIOUS
  <2>2. i.type = t /\ i.src = rhs /\ i.dst = e
    BY <2>1 DEF Inst
  <2>3. ASSUME NEW Q, Sets(P, Q, Helper, l, a) PROVE Runs(X, <<i>>, Q, Scratch, l, n)
    <3>1. Rests(Q, rhs, b) /\ Rests(Q, e, a)
      BY <1>5, <1>6, <2>3, LeftKept
    <3>2. Reads(Q, rhs, b) /\ Reads(Q, e, a)
      BY <3>1 DEF Rests
    <3> QED BY <1>4, <1>5, <1>6, <2>2, <3>2, ArithRuns
  <2>4. Runs(X, q \o <<i>>, P, Scratch, l, n)
    BY <1>7, <1>8, <2>3, RunsThen
  <2>5. lower_bit_shift(t, lhs, rhs, d) = q \o <<i>>
    BY <1>1, <1>9, <2>1 DEF lower_bit_shift
  <2> QED BY <1>4, <2>4, <2>5
<1>10. CASE ~IsImm(rhs)
  <2>1. PICK i, p : i = Inst(t, r2, e) /\ p = insert_mov(rhs, r1, "n")
    OBVIOUS
  <2>2. i.type = t /\ i.src = r2 /\ i.dst = e
    BY <2>1 DEF Inst
  <2>3. ASSUME NEW Q, Sets(P, Q, Helper, l, a) PROVE Runs(X, p \o <<i>>, Q, Scratch, l, n)
    <3>1. Rests(Q, rhs, b) /\ Rests(Q, e, a)
      BY <1>5, <1>6, <2>3, LeftKept
    <3>2. Reads(Q, rhs, b)
      BY <3>1 DEF Rests
    <3>3. In(X, k) /\ k = Loc(r1) /\ r1.kind \in {"reg", "stack"}
      BY <1>3, <1>4
    <3>4. Runs(X, insert_mov(rhs, r1, "n"), Q, Helper, k, b)
      BY <1>7, <3>2, <3>3, MovRuns
    <3>5. Runs(X, p, Q, Helper, k, b)
      BY <2>1, <3>4
    <3>6. ASSUME NEW R, Sets(Q, R, Helper, k, b) PROVE Runs(X, <<i>>, R, Scratch, l, n)
      <4>1. IsImm(e) \/ k # Loc(e)
        BY <1>3, <1>4, <3>1 DEF Rests
      <4>2. Rests(R, e, a)
        BY <1>7, <3>1, <3>6, <4>1, RestsStay
      <4>3. Reads(R, e, a)
        BY <4>2 DEF Rests
      <4>4. Reads(R, r2, b)
        BY <1>3, <1>4, <1>5, <3>6, ReadsPut
      <4> QED BY <1>4, <1>5, <1>6, <2>2, <4>3, <4>4, ArithRuns
    <3>7. k \in Scratch
      BY <1>3, <1>4
    <3> QED BY <1>7, <3>5, <3>6, <3>7, RunsThen
  <2>4. Runs(X, q \o (p \o <<i>>), P, Scratch, l, n)
    BY <1>7, <1>8, <2>3, RunsThen
  <2>5. lower_bit_shift(t, lhs, rhs, d) = q \o (p \o <<i>>)
    BY <1>1, <1>2, <1>10, <2>1 DEF lower_bit_shift
  <2> QED BY <1>4, <2>4, <2>5
<1> QED BY <1>9, <1>10

\* What idiv leaves.
LEMMA DividedExists ==
    ASSUME NEW P, Reg("AX") \in DOMAIN P, Reg("DX") \in DOMAIN P, NEW b
    PROVE  \E Q : Divided(P, Q, b)
<1>1. PICK a, y, z : /\ a = Dividend(P)
                     /\ y = IF DivisionTraps(a, b) THEN 0 ELSE Quotient(a, b)
                     /\ z = IF DivisionTraps(a, b) THEN 0 ELSE Remainder(a, b)
  OBVIOUS
<1>2. PICK Q : Q = [x \in DOMAIN P |-> IF x = Reg("AX") THEN y ELSE IF x = Reg("DX") THEN z ELSE P[x]]
  OBVIOUS
<1>3. Reg("AX") # Reg("DX")
  BY ScratchFacts
<1>4. /\ DOMAIN Q = DOMAIN P /\ \A x \in DOMAIN P \ {Reg("AX"), Reg("DX")} : Q[x] = P[x]
      /\ Q[Reg("AX")] = y /\ Q[Reg("DX")] = z
  BY <1>2, <1>3
<1>5. Divided(P, Q, b)
  BY <1>1, <1>4 DEF Divided
<1> QED BY <1>5

\* cdq makes a word of two of it: the dividend is the word.
LEMMA DividendWord ==
    ASSUME NEW P, NEW a \in Words, P[Reg("AX")] = a, P[Reg("DX")] = IF a < 0 THEN -1 ELSE 0
    PROVE  Dividend(P) = a
<1>1. a \in Int /\ 2^W = 2 * Half /\ Half \in Nat
  BY Widths
<1>2. Unsigned(a) = IF a < 0 THEN a + 2 * Half ELSE a
  BY <1>1, SignedWord
<1>3. PICK u, z, h : u = Unsigned(a) /\ z = P[Reg("DX")] /\ h = 2 * Half
  OBVIOUS
<1>4. h \in Int
  BY <1>1, <1>3
<1>5. Dividend(P) = z * h + u
  BY <1>1, <1>3 DEF Dividend
<1>6. CASE a < 0
  <2>1. z = -1 /\ u = a + h
    BY <1>2, <1>3, <1>6
  <2>2. (-1) * h + (a + h) = a
    BY <1>1, <1>4
  <2> QED BY <1>5, <2>1, <2>2
<1>7. CASE ~(a < 0)
  <2>1. z = 0 /\ u = a
    BY <1>2, <1>3, <1>7
  <2>2. 0 * h + a = a
    BY <1>1, <1>4
  <2> QED BY <1>5, <2>1, <2>2
<1> QED BY <1>6, <1>7

\* The operands of idiv are in place: a in eax with its sign in edx, and b where e says.
Dividing(Q, e, a, b) ==
    /\ Reg("AX") \in DOMAIN Q /\ Q[Reg("AX")] = a
    /\ Reg("DX") \in DOMAIN Q /\ Q[Reg("DX")] = IF a < 0 THEN -1 ELSE 0
    /\ Reads(Q, e, b)

\* idiv, and the move of its result.
LEMMA DivideRuns ==
    ASSUME NEW X, NEW P, NEW e, NEW a \in Words, NEW b \in Words, Dividing(P, e, a, b),
           NEW i, i.type = "DIV", i.dst = e, X.m = "exact" => ~DivisionTraps(a, b),
           NEW o \in Divisions, NEW n, n = Gives(o, a, b),
           NEW r, r = Reg(IF o = "MOD" THEN "DX" ELSE "AX")
    PROVE  IsList(<<i>>) /\ \E Q : Chain(X, <<i>>, P, Q) /\ Sets(P, Q, {Reg("AX"), Reg("DX")}, r, n)
<1>1. PICK Q : Divided(P, Q, b)
  BY DividedExists DEF Dividing
<1>2. Dividend(P) = a
  BY DividendWord DEF Dividing
<1>3. Has(P, i.dst) /\ Of(P, i.dst) = b
  BY DEF Dividing, Reads
<1>4. DivideStep(X, i, P, Q)
  BY <1>1, <1>2, <1>3 DEF DivideStep, Dividing
<1>5. Moves(X, i, P, Q)
  BY <1>4 DEF Moves
<1>6. IsList(<<i>>) /\ Chain(X, <<i>>, P, Q)
  BY <1>5, OneRuns
<1>7. r \in DOMAIN Q /\ Q[r] = n
  <2>1. CASE o = "MOD"
    <3>1. n = IF DivisionTraps(a, b) THEN 0 ELSE Remainder(a, b)
      BY <2>1 DEF Gives
    <3>2. Q[Reg("DX")] = IF DivisionTraps(a, b) THEN 0 ELSE Remainder(a, b)
      BY <1>1, <1>2 DEF Divided
    <3>3. DOMAIN Q = DOMAIN P
      BY <1>1 DEF Divided
    <3> QED BY <2>1, <3>1, <3>2, <3>3 DEF Dividing
  <2>2. CASE o = "DIV"
    <3>1. n = IF DivisionTraps(a, b) THEN 0 ELSE Quotient(a, b)
      BY <2>2 DEF Gives
    <3>2. Q[Reg("AX")] = IF DivisionTraps(a, b) THEN 0 ELSE Quotient(a, b)
      BY <1>1, <1>2 DEF Divided
    <3>3. DOMAIN Q = DOMAIN P
      BY <1>1 DEF Divided
    <3> QED BY <2>2, <3>1, <3>2, <3>3 DEF Dividing
  <2> QED BY <2>1, <2>2 DEF Divisions
<1>8. Sets(P, Q, {Reg("AX"), Reg("DX")}, r, n)
  BY <1>1, <1>7 DEF Divided, Sets
<1> QED BY <1>6, <1>8

\* Division, with ax and dx.
LEMMA DivRuns ==
    ASSUME NEW X, NEW P, NEW lhs, NEW a, Rests(P, lhs, a), NEW rhs, NEW b, Rests(P, rhs, b),
           NEW d, NEW l, Target(X, d, l), NEW o \in Divisions, X.m = "exact" => ~DivisionTraps(a, b),
           NEW w, (w /\ o = "MOD") \/ (~w /\ o = "DIV")
    PROVE  Runs(X, lower_div(lhs, rhs, d, w), P, Scratch, l, Gives(o, a, b))
<1>1. a \in Words /\ b \in Words
  BY DEF Rests, Reads
<1>2. PICK n, ax, dx, z : /\ n = Gives(o, a, b) /\ ax = Reg("AX") /\ dx = Reg("DX")
                          /\ z = IF a < 0 THEN -1 ELSE 0
  OBVIOUS
<1>3. n \in Words
  <2>1. o \in BinaryOps
    BY OpNames DEF Divisions
  <2> QED BY <1>1, <1>2, <2>1, GivesWord
<1>4. PICK r1, r2, r3, r4 :
         /\ r1 = create_register("AX", "r1") /\ r2 = create_register("R10", "r2")
         /\ r3 = create_register("R10", "r3") /\ r4 = create_register(IF w THEN "DX" ELSE "AX", "r4")
  OBVIOUS
<1>5. PICK r : r = Reg(IF o = "MOD" THEN "DX" ELSE "AX")
  OBVIOUS
<1>6. /\ r1.kind = "reg" /\ Loc(r1) = ax /\ In(X, ax)
      /\ r2.kind = "reg" /\ Loc(r2) = Reg("R10") /\ In(X, Reg("R10"))
      /\ r3.kind = "reg" /\ Loc(r3) = Reg("R10")
      /\ r4.kind = "reg" /\ Loc(r4) = r
  BY <1>2, <1>4, <1>5, MadeOperands DEF Registers
<1>7. PICK q, t : q = insert_mov(lhs, r1, "m") /\ t = insert_mov(r4, d, "o")
  OBVIOUS
<1>8. PICK c : c = Inst("CDQ", NoOpnd, NoOpnd)
  OBVIOUS
<1>9. c.type = "CDQ"
  BY <1>8 DEF Inst
<1>10. Helper \subseteq Scratch /\ Reg("R10") \in Helper /\ ax \notin Helper /\ dx \notin Helper /\ ax # dx
       /\ ax \in Scratch /\ dx \in Scratch
  BY <1>2, ScratchFacts DEF Registers, Helper
<1>11. PICK P1 : Chain(X, q, P, P1) /\ Sets(P, P1, Helper, ax, a) /\ IsList(q)
  <2>1. Reads(P, lhs, a)
    BY DEF Rests
  <2>2. r1.kind \in {"reg", "stack"} /\ ax = Loc(r1) /\ In(X, ax)
    BY <1>6
  <2>3. Runs(X, insert_mov(lhs, r1, "m"), P, Helper, ax, a)
    BY <1>10, <2>1, <2>2, MovRuns
  <2> QED BY <1>7, <2>3 DEF Runs
<1>12. PICK P2 : Chain(X, <<c>>, P1, P2) /\ Sets(P1, P2, {}, dx, z) /\ IsList(<<c>>)
  <2>1. Reg("AX") \in DOMAIN P1 /\ P1[Reg("AX")] = a
    BY <1>2, <1>11 DEF Sets
  <2>2. z = IF P1[Reg("AX")] < 0 THEN -1 ELSE 0
    BY <1>2, <2>1
  <2>3. Runs(X, <<c>>, P1, {}, dx, z)
    BY <1>2, <1>9, <2>1, <2>2, SignRuns
  <2> QED BY <2>3 DEF Runs
<1>13. Rests(P1, rhs, b)
  BY <1>10, <1>11, RestsStay DEF Rests
<1>14. Rests(P2, rhs, b)
  <2>1. {} \subseteq Scratch
    OBVIOUS
  <2> QED BY <1>10, <1>12, <1>13, <2>1, RestsStay DEF Rests
<1>15. ax \in DOMAIN P2 /\ P2[ax] = a /\ dx \in DOMAIN P2 /\ P2[dx] = z
  BY <1>10, <1>11, <1>12 DEF Sets
<1>16. PICK m : m = IF IsImm(rhs) THEN insert_mov(rhs, r2, "n") \o << Inst("DIV", NoOpnd, r3) >>
                    ELSE << Inst("DIV", NoOpnd, rhs) >>
  OBVIOUS
<1>17. IsList(m) /\ \E Q : Chain(X, m, P2, Q) /\ r \in DOMAIN Q /\ Q[r] = n
                           /\ \A x \in DOMAIN P2 : x \notin Scratch => x \in DOMAIN Q /\ Q[x] = P2[x]
  <2>1. CASE IsImm(rhs)
    <3>1. PICK i, s : i = Inst("DIV", NoOpnd, r3) /\ s = insert_mov(rhs, r2, "n")
      OBVIOUS
    <3>2. i.type = "DIV" /\ i.dst = r3
      BY <3>1 DEF Inst
    <3>3. PICK k : k = Reg("R10")
      OBVIOUS
    <3>4. PICK P3 : Chain(X, s, P2, P3) /\ Sets(P2, P3, Helper, k, b) /\ IsList(s)
      <4>1. Reads(P2, rhs, b)
        BY <1>14 DEF Rests
      <4>2. r2.kind \in {"reg", "stack"} /\ k = Loc(r2) /\ In(X, k)
        BY <1>6, <3>3
      <4>3. Runs(X, insert_mov(rhs, r2, "n"), P2, Helper, k, b)
        BY <1>10, <4>1, <4>2, MovRuns
      <4> QED BY <3>1, <4>3 DEF Runs
    <3>5. k # ax /\ k # dx /\ k \in Scratch
      BY <1>2, <3>3, ScratchFacts DEF Registers
    <3>6. Reads(P3, r3, b)
      BY <1>1, <1>6, <3>3, <3>4, ReadsPut
    <3>7. ax \in DOMAIN P3 /\ P3[ax] = a /\ dx \in DOMAIN P3 /\ P3[dx] = z
      BY <1>10, <1>15, <3>4, <3>5 DEF Sets
    <3>8. Dividing(P3, r3, a, b)
      BY <1>2, <3>6, <3>7 DEF Dividing
    <3>9. IsList(<<i>>) /\ \E Q : Chain(X, <<i>>, P3, Q) /\ Sets(P3, Q, {Reg("AX"), Reg("DX")}, r, n)
      BY <1>1, <1>2, <1>5, <3>2, <3>8, DivideRuns
    <3>10. PICK Q : Chain(X, <<i>>, P3, Q) /\ Sets(P3, Q, {Reg("AX"), Reg("DX")}, r, n)
      BY <3>9
    <3>11. IsList(s \o <<i>>) /\ Chain(X, s \o <<i>>, P2, Q)
      BY <3>4, <3>9, <3>10, ChainConcat
    <3>12. m = s \o <<i>>
      BY <1>16, <2>1, <3>1
    <3>13. r \in Scratch
      BY <1>2, <1>5, <1>10
    <3>14. \A x \in DOMAIN P2 : x \notin Scratch => x \in DOMAIN P3 /\ P3[x] = P2[x]
      BY <1>10, <3>4, <3>5 DEF Sets
    <3>15. \A x \in DOMAIN P3 : x \notin Scratch => x \in DOMAIN Q /\ Q[x] = P3[x]
      BY <1>2, <1>10, <3>10, <3>13 DEF Sets
    <3>16. r \in DOMAIN Q /\ Q[r] = n
      BY <3>10 DEF Sets
    <3> QED BY <3>11, <3>12, <3>14, <3>15, <3>16
  <2>2. CASE ~IsImm(rhs)
    <3>1. PICK i : i = Inst("DIV", NoOpnd, rhs)
      OBVIOUS
    <3>2. i.type = "DIV" /\ i.dst = rhs
      BY <3>1 DEF Inst
    <3>3. Dividing(P2, rhs, a, b)
      BY <1>2, <1>14, <1>15 DEF Dividing, Rests
    <3>4. IsList(<<i>>) /\ \E Q : Chain(X, <<i>>, P2, Q) /\ Sets(P2, Q, {Reg("AX"), Reg("DX")}, r, n)
      BY <1>1, <1>2, <1>5, <3>2, <3>3, DivideRuns
    <3>5. PICK Q : Chain(X, <<i>>, P2, Q) /\ Sets(P2, Q, {Reg("AX"), Reg("DX")}, r, n)
      BY <3>4
    <3>6. m = <<i>>
      BY <1>16, <2>2, <3>1
    <3>7. r \in Scratch
      BY <1>2, <1>5, <1>10
    <3>8. \A x \in DOMAIN P2 : x \notin Scratch => x \in DOMAIN Q /\ Q[x] = P2[x]
      BY <1>2, <1>10, <3>5, <3>7 DEF Sets
    <3>9. r \in DOMAIN Q /\ Q[r] = n
      BY <3>5 DEF Sets
    <3> QED BY <3>4, <3>5, <3>6, <3>8, <3>9
  <2> QED BY <2>1, <2>2
<1>18. PICK P4 : /\ Chain(X, m, P2, P4) /\ r \in DOMAIN P4 /\ P4[r] = n
                 /\ \A x \in DOMAIN P2 : x \notin Scratch => x \in DOMAIN P4 /\ P4[x] = P2[x]
  BY <1>17
<1>19. PICK P5 : Chain(X, t, P4, P5) /\ Sets(P4, P5, Helper, l, n) /\ IsList(t)
  <2>1. Reads(P4, r4, n)
    BY <1>3, <1>6, <1>18 DEF Reads, Has, Of, IsImm
  <2>2. d.kind \in {"reg", "stack"} /\ In(X, l) /\ l = Loc(d)
    BY TargetFacts
  <2>3. Runs(X, insert_mov(r4, d, "o"), P4, Helper, l, n)
    BY <1>10, <2>1, <2>2, MovRuns
  <2> QED BY <1>7, <2>3 DEF Runs
<1>20. PICK q2, q3 : q2 = q \o <<c>> /\ q3 = q2 \o m
  OBVIOUS
<1>21. IsList(q2) /\ Chain(X, q2, P, P2)
  BY <1>11, <1>12, <1>20, ChainConcat
<1>22. IsList(q3) /\ Chain(X, q3, P, P4)
  BY <1>17, <1>18, <1>20, <1>21, ChainConcat
<1>23. IsList(q3 \o t) /\ Chain(X, q3 \o t, P, P5)
  BY <1>19, <1>22, ChainConcat
<1>24. Sets(P, P5, Scratch, l, n)
  <2>1. \A x \in DOMAIN P : x \notin Scratch => x \in DOMAIN P1 /\ P1[x] = P[x]
    BY <1>10, <1>11 DEF Sets
  <2>2. \A x \in DOMAIN P1 : x \notin Scratch => x \in DOMAIN P2 /\ P2[x] = P1[x]
    BY <1>10, <1>12 DEF Sets
  <2>3. \A x \in DOMAIN P4 : x \notin Scratch /\ x # l => x \in DOMAIN P5 /\ P5[x] = P4[x]
    BY <1>10, <1>19 DEF Sets
  <2>4. \A x \in DOMAIN P : x \notin Scratch /\ x # l => x \in DOMAIN P5 /\ P5[x] = P[x]
    BY <1>18, <2>1, <2>2, <2>3
  <2>5. l \in DOMAIN P5 /\ P5[l] = n
    BY <1>19 DEF Sets
  <2> QED BY <2>4, <2>5 DEF Sets
<1>25. lower_div(lhs, rhs, d, w) = q3 \o t
  BY <1>4, <1>7, <1>8, <1>16, <1>20 DEF lower_div, Plain
<1>26. Runs(X, q3 \o t, P, Scratch, l, n)
  BY <1>23, <1>24 DEF Runs
<1> QED BY <1>2, <1>25, <1>26

\* A copy of an operand is worth what the operand is.
LEMMA RestsDup ==
    ASSUME NEW P, NEW x, IsOpnd(x), NEW n, Rests(P, x, n), NEW o, NEW y, y = dup_operand(x, o)
    PROVE  Rests(P, y, n)
<1>1. y = [kind |-> x.kind, val |-> x.val, size |-> x.size, obj |-> o]
  BY DEF dup_operand, IsOpnd
<1>2. y.kind = x.kind /\ y.val = x.val /\ Loc(y) = Loc(x)
  BY <1>1 DEF Loc
<1> QED BY <1>2 DEF Rests, Reads, Has, Of, IsImm

\* Zero, as an operand.
LEMMA ZeroRests ==
    ASSUME NEW P, NEW o, NEW z, z = create_immediate(0, o)
    PROVE  Rests(P, z, 0)
<1>1. 0 \in Words
  BY TruthWord
<1>2. Reads(P, z, 0) /\ IsImm(z)
  BY <1>1, MadeOperands
<1> QED BY <1>2 DEF Rests

\* Logical negation.
LEMMA NotRuns ==
    ASSUME NEW X, NEW P, NEW src, NEW a, Rests(P, src, a), NEW d, NEW l, Target(X, d, l),
           NEW n, n = Truth(a = 0)
    PROVE  Runs(X, lower_logical_not(src, d), P, Scratch, l, n)
<1>1. PICK z, q, e : /\ z = create_immediate(0, "zero1") /\ q = insert_cmp(z, src)
                     /\ e = dup_operand(d, "dst3")
  OBVIOUS
<1>2. PICK m : m = 0
  OBVIOUS
<1>3. Rests(P, z, m)
  BY <1>1, <1>2, ZeroRests
<1>4. Runs(X, q, P, Scratch, Flags, <<a, m>>)
  BY <1>1, <1>3, CmpRuns
<1>5. Target(X, e, l)
  BY <1>1, TargetFacts
<1>6. n = Truth(Holds("EQ", a, m))
  <2>1. Holds("EQ", a, m) <=> a = 0
    BY <1>2 DEF Holds
  <2> QED BY <2>1 DEF Truth
<1>7. Runs(X, q \o insert_mov(create_immediate(0, "zero2"), d, "n") \o SetIf("EQ", e), P, Scratch, l, n)
  BY <1>4, <1>5, <1>6, FlagsRun
<1> QED BY <1>1, <1>7 DEF lower_logical_not

\* A unary operator.
LEMMA UnaryRuns ==
    ASSUME NEW X, NEW P, NEW src, IsOpnd(src), NEW a, Rests(P, src, a), NEW d, NEW l, Target(X, d, l),
           IsImm(src) \/ l # Loc(src), NEW o \in UnaryOps
    PROVE  Runs(X, lower_ir_unary(o, src, d), P, Scratch, l, UnGives(o, a))
<1>1. PICK q, e, s, n : /\ q = insert_mov(src, d, "m") /\ e = dup_operand(d, "dst2")
                        /\ s = dup_operand(src, "src2") /\ n = UnGives(o, a)
  OBVIOUS
<1>2. Target(X, e, l) /\ a \in Words /\ l = Loc(e) /\ In(X, l)
  <2>1. Target(X, e, l)
    BY <1>1, TargetFacts
  <2> QED BY <2>1, TargetFacts DEF Rests, Reads
<1>3. Runs(X, q, P, Helper, l, a)
  BY <1>1, LeftRuns
<1>4. Helper \subseteq Scratch
  BY ScratchFacts
<1>5. CASE o = "NOT"
  <2>1. PICK p : p = lower_logical_not(s, e)
    OBVIOUS
  <2>2. n = Truth(a = 0)
    BY <1>1, <1>5 DEF UnGives
  <2>3. ASSUME NEW Q, Sets(P, Q, Helper, l, a) PROVE Runs(X, p, Q, Scratch, l, n)
    <3>1. Rests(Q, src, a)
      BY <1>4, <2>3, RestsStay
    <3>2. Rests(Q, s, a)
      BY <1>1, <3>1, RestsDup
    <3> QED BY <1>2, <2>1, <2>2, <3>2, NotRuns
  <2>4. Runs(X, q \o p, P, Scratch, l, n)
    BY <1>3, <1>4, <2>3, RunsThen
  <2>5. lower_ir_unary(o, src, d) = q \o p
    BY <1>1, <1>5, <2>1 DEF lower_ir_unary
  <2> QED BY <1>1, <2>4, <2>5
<1>6. CASE o \in {"NEG", "BITNOT"}
  <2>1. PICK t : t = IF o = "NEG" THEN "NEG" ELSE "NOT"
    OBVIOUS
  <2>2. PICK i : i = Inst(t, NoOpnd, e)
    OBVIOUS
  <2>3. i.type = t /\ i.dst = e /\ i.type \in {"NEG", "NOT"}
    BY <2>1, <2>2 DEF Inst
  <2>4. n = Alu(t, 0, a)
    BY <1>1, <1>6, <2>1 DEF UnGives, Alu
  <2>5. ASSUME NEW Q, Sets(P, Q, Helper, l, a) PROVE Runs(X, <<i>>, Q, Scratch, l, n)
    <3>1. Target(X, e, l)
      BY <1>2
    <3>2. e.kind \in {"reg", "stack"}
      BY <3>1, TargetFacts
    <3>3. Reads(Q, e, a)
      BY <1>2, <2>5, <3>2, ReadsPut
    <3> QED BY <1>2, <2>3, <2>4, <3>3, SingleRuns
  <2>6. Runs(X, q \o <<i>>, P, Scratch, l, n)
    BY <1>3, <1>4, <2>5, RunsThen
  <2>7. lower_ir_unary(o, src, d) = q \o <<i>>
    BY <1>1, <1>6, <2>1, <2>2 DEF lower_ir_unary
  <2> QED BY <1>1, <2>6, <2>7
<1> QED BY <1>5, <1>6 DEF UnaryOps

\* A binary operator.
LEMMA BinaryRuns ==
    ASSUME NEW X, NEW P, NEW lhs, NEW a, Rests(P, lhs, a), NEW rhs, NEW b, Rests(P, rhs, b),
           NEW d, NEW l, Target(X, d, l), IsImm(rhs) \/ l # Loc(rhs), NEW o \in BinaryOps,
           X.m = "exact" => ~Traps(o, a, b)
    PROVE  Runs(X, lower_ir_binary(o, lhs, rhs, d), P, Scratch, l, Gives(o, a, b))
<1>1. PICK n : n = Gives(o, a, b)
  OBVIOUS
<1>2. CASE o \in DOMAIN SimpleOps
  <2>1. PICK t : t = SimpleOps[o]
    OBVIOUS
  <2>2. t \in Ariths /\ n = Alu(t, b, a)
    <3>1. o \in {"ADD", "SUB", "BITAND", "BITXOR", "BITOR"}
      BY <1>2, OpNames
    <3>3. CASE o = "ADD"
      BY <1>1, <2>1, <3>3 DEF SimpleOps, Ariths, Gives, Alu
    <3>4. CASE o = "SUB"
      BY <1>1, <2>1, <3>4 DEF SimpleOps, Ariths, Gives, Alu
    <3>5. CASE o = "BITAND"
      BY <1>1, <2>1, <3>5 DEF SimpleOps, Ariths, Gives, Alu
    <3>6. CASE o = "BITXOR"
      BY <1>1, <2>1, <3>6 DEF SimpleOps, Ariths, Gives, Alu
    <3>7. CASE o = "BITOR"
      BY <1>1, <2>1, <3>7 DEF SimpleOps, Ariths, Gives, Alu
    <3> QED BY <3>1, <3>3, <3>4, <3>5, <3>6, <3>7
  <2>3. Runs(X, lower_simple_binary_inst(t, lhs, rhs, d), P, Scratch, l, Alu(t, b, a))
    BY <2>2, SimpleRuns
  <2>4. lower_ir_binary(o, lhs, rhs, d) = lower_simple_binary_inst(t, lhs, rhs, d)
    <3>1. o \in {"ADD", "SUB", "BITAND", "BITXOR", "BITOR"}
      BY <1>2, OpNames
    <3>2. o # "MUL" /\ o \notin {"DIV", "MOD"} /\ o \notin {"SHL", "SHR"} /\ o \notin Relations
      BY <3>1 DEF Relations
    <3> QED BY <1>2, <2>1, <3>2 DEF lower_ir_binary
  <2> QED BY <1>1, <2>2, <2>3, <2>4
<1>3. CASE o = "MUL"
  <2>1. n = Signed(a * b) /\ o \notin DOMAIN SimpleOps
    BY <1>1, <1>3, OpNames DEF Gives
  <2>2. Runs(X, lower_mul(lhs, rhs, d), P, Scratch, l, Signed(a * b))
    BY MulRuns
  <2>3. lower_ir_binary(o, lhs, rhs, d) = lower_mul(lhs, rhs, d)
    BY <1>3, <2>1 DEF lower_ir_binary, Relations
  <2> QED BY <1>1, <2>1, <2>2, <2>3
<1>4. CASE o \in Divisions
  <2>1. X.m = "exact" => ~DivisionTraps(a, b)
    BY <1>4 DEF Traps
  <2>2. PICK w : (w /\ o = "MOD") \/ (~w /\ o = "DIV")
    BY <1>4 DEF Divisions
  <2>3. Runs(X, lower_div(lhs, rhs, d, w), P, Scratch, l, Gives(o, a, b))
    BY <1>4, <2>1, <2>2, DivRuns
  <2>4. o \notin DOMAIN SimpleOps /\ o \in {"DIV", "MOD"} /\ o # "MUL"
    BY <1>4, OpNames DEF Divisions
  <2>5. lower_div(lhs, rhs, d, o = "MOD") = lower_div(lhs, rhs, d, w)
    BY <2>2 DEF lower_div
  <2>6. lower_ir_binary(o, lhs, rhs, d) = lower_div(lhs, rhs, d, o = "MOD")
    BY <2>4 DEF lower_ir_binary, Relations
  <2> QED BY <2>3, <2>5, <2>6
<1>5. CASE o \in Shifts
  <2>1. n = Alu(o, b, a) /\ o \notin DOMAIN SimpleOps
    BY <1>1, <1>5, OpNames DEF Shifts, Gives, Alu
  <2>2. Runs(X, lower_bit_shift(o, lhs, rhs, d), P, Scratch, l, Alu(o, b, a))
    BY <1>5, ShiftRuns
  <2>3. lower_ir_binary(o, lhs, rhs, d) = lower_bit_shift(o, lhs, rhs, d)
    BY <1>5, <2>1 DEF lower_ir_binary, Relations, Shifts
  <2> QED BY <1>1, <2>1, <2>2, <2>3
<1>6. CASE o \in Relations
  <2>1. Runs(X, lower_relational(o, lhs, rhs, d), P, Scratch, l, Gives(o, a, b))
    BY <1>6, RelationalRuns
  <2>2. o \notin DOMAIN SimpleOps
    BY <1>6, OpNames DEF Relations
  <2>3. lower_ir_binary(o, lhs, rhs, d) = lower_relational(o, lhs, rhs, d)
    BY <1>6, <2>2 DEF lower_ir_binary, Relations
  <2> QED BY <2>1, <2>3
<1>7. o \in DOMAIN SimpleOps \/ o = "MUL" \/ o \in Divisions \/ o \in Shifts \/ o \in Relations
  BY OpNames DEF Divisions, Shifts, Relations
<1> QED BY <1>2, <1>3, <1>4, <1>5, <1>6, <1>7

-----------------------------------------------------------------------------
(* No lowering but that of a label makes a label, and none makes nothing.  *)

Straight(q) == IsList(q) /\ Len(q) \in Nat /\ Len(q) >= 1 /\ \A j \in 1..Len(q) : q[j].type # "LABEL"

\* An instruction by itself.
LEMMA SingleStraight ==
    ASSUME NEW x, x.type # "LABEL"
    PROVE  Straight(<<x>>)
<1>1. PICK q : q = <<x>>
  OBVIOUS
<1>2. q \in Seq({x}) /\ Len(q) = 1 /\ \A j \in 1..Len(q) : q[j] = x
  BY <1>1
<1>3. Straight(q)
  BY <1>2 DEF Straight, IsList
<1> QED BY <1>1, <1>3

\* One list behind another.
LEMMA ConcatStraight ==
    ASSUME NEW p, NEW q, Straight(p), Straight(q)
    PROVE  Straight(p \o q)
<1>1. PICK r : r = p \o q
  OBVIOUS
<1>2. Joined(p, q, r)
  BY <1>1, ConcatParts DEF Straight
<1>3. IsList(r) /\ Len(r) \in Nat /\ Len(r) >= 1
  BY <1>2 DEF Joined, Straight
<1>4. ASSUME NEW j \in 1..Len(r) PROVE r[j].type # "LABEL"
  <2>1. CASE j <= Len(p)
    <3>1. j \in 1..Len(p) /\ r[j] = p[j]
      BY <1>2, <2>1 DEF Joined
    <3> QED BY <3>1 DEF Straight
  <2>2. CASE ~(j <= Len(p))
    <3>1. PICK i : i = j - Len(p)
      OBVIOUS
    <3>2. i \in 1..Len(q) /\ j = Len(p) + i
      BY <1>2, <2>2, <3>1 DEF Joined
    <3>3. r[j] = q[i]
      BY <1>2, <3>2 DEF Joined
    <3> QED BY <3>2, <3>3 DEF Straight
  <2> QED BY <2>1, <2>2
<1> QED BY <1>1, <1>3, <1>4 DEF Straight

\* Instructions that have less than two operands.
LEMMA BareStraight ==
    /\ \A t : t # "LABEL" => Straight(Plain(t))
    /\ \A c, l : Straight(JumpIf(c, l))
    /\ \A c, o : Straight(SetIf(c, o))
    /\ \A t, s, d : t # "LABEL" => Straight(<<Inst(t, s, d)>>)
<1>1. ASSUME NEW t, NEW s, NEW d, t # "LABEL" PROVE Straight(<<Inst(t, s, d)>>)
  <2>1. PICK x : x = Inst(t, s, d)
    OBVIOUS
  <2>2. x.type # "LABEL"
    BY <1>1, <2>1 DEF Inst
  <2> QED BY <2>1, <2>2, SingleStraight
<1>2. ASSUME NEW t, t # "LABEL" PROVE Straight(Plain(t))
  BY <1>1, <1>2 DEF Plain
<1>3. ASSUME NEW c, NEW l PROVE Straight(JumpIf(c, l))
  <2>1. PICK x : x = [Inst("JMPCC", NoOpnd, NoOpnd) EXCEPT !.code = c, !.label = l]
    OBVIOUS
  <2>2. x.type # "LABEL"
    BY <2>1 DEF Inst
  <2> QED BY <2>1, <2>2, SingleStraight DEF JumpIf
<1>4. ASSUME NEW c, NEW o PROVE Straight(SetIf(c, o))
  <2>1. PICK x : x = [Inst("SETCC", o, NoOpnd) EXCEPT !.code = c]
    OBVIOUS
  <2>2. x.type # "LABEL"
    BY <2>1 DEF Inst
  <2> QED BY <2>1, <2>2, SingleStraight DEF SetIf
<1> QED BY <1>1, <1>2, <1>3, <1>4

\* A move.
LEMMA MovStraight ==
    ASSUME NEW s, NEW d, NEW t
    PROVE  Straight(insert_mov(s, d, t))
<1>1. PICK x, y, z : /\ x = Inst("MOV", s, create_register("R10", halves[t][1]))
                     /\ y = Inst("MOV", create_register("R10", halves[t][2]), d) /\ z = Inst("MOV", s, d)
  OBVIOUS
<1>2. Straight(<<x>>) /\ Straight(<<y>>) /\ Straight(<<z>>)
  BY <1>1, BareStraight
<1>3. Straight(<<x>> \o <<y>>)
  BY <1>2, ConcatStraight
<1>4. <<x>> \o <<y>> = <<x, y>>
  BY PairListed
<1>5. insert_mov(s, d, t) = <<x, y>> \/ insert_mov(s, d, t) = <<z>>
  BY <1>1 DEF insert_mov
<1> QED BY <1>2, <1>3, <1>4, <1>5

\* A comparison.
LEMMA CmpStraight ==
    ASSUME NEW s, NEW d
    PROVE  Straight(insert_cmp(s, d))
<1>1. PICK u, v : /\ u = (IF IsStack(s) /\ IsStack(d) THEN create_register("R10", "c2") ELSE s)
                  /\ v = (IF IsImm(d) THEN create_register("R11", "c4") ELSE d)
  OBVIOUS
<1>2. PICK a, b, x : /\ a = insert_mov(s, create_register("R10", "c1"), "n")
                     /\ b = insert_mov(d, create_register("R11", "c3"), "o") /\ x = <<Inst("CMP", u, v)>>
  OBVIOUS
<1>3. Straight(a) /\ Straight(b) /\ Straight(x)
  BY <1>2, MovStraight, BareStraight
<1>4. PICK p : p = IF IsStack(s) /\ IsStack(d) THEN a ELSE <<>>
  OBVIOUS
<1>5. PICK q : q = IF IsImm(d) THEN b ELSE <<>>
  OBVIOUS
<1>6. insert_cmp(s, d) = p \o q \o x
  BY <1>1, <1>2, <1>4, <1>5 DEF insert_cmp
<1>7. IsList(a) /\ IsList(b) /\ IsList(x)
  BY <1>3 DEF Straight
<1>8. a \o <<>> = a /\ <<>> \o b = b /\ <<>> \o x = x /\ <<>> \o <<>> = <<>>
  BY <1>7, NothingBefore DEF IsList
<1>9. Straight(a \o b) /\ Straight(a \o b \o x) /\ Straight(a \o x) /\ Straight(b \o x)
  BY <1>3, ConcatStraight
<1>10. p \o q \o x \in {a \o b \o x, a \o x, b \o x, x}
  BY <1>4, <1>5, <1>8
<1> QED BY <1>3, <1>6, <1>9, <1>10

\* A comparison and the two instructions that store its result.
LEMMA FlagsStraight ==
    ASSUME NEW q, Straight(q), NEW a, NEW d, NEW t, NEW c, NEW e
    PROVE  Straight(q \o insert_mov(a, d, t) \o SetIf(c, e))
<1>1. PICK m, s : m = insert_mov(a, d, t) /\ s = SetIf(c, e)
  OBVIOUS
<1>2. Straight(m) /\ Straight(s)
  BY <1>1, MovStraight, BareStraight
<1>3. Straight(q \o m \o s)
  BY <1>2, ConcatStraight
<1> QED BY <1>1, <1>3

\* A binary operator.
LEMMA BinaryStraight ==
    ASSUME NEW o \in BinaryOps, NEW l, NEW r, NEW d, IsStack(d)
    PROVE  Straight(lower_ir_binary(o, l, r, d))
<1>1. PICK y : y = lower_ir_binary(o, l, r, d)
  OBVIOUS
<1>2. CASE o \in DOMAIN SimpleOps
  <2>1. o \in {"ADD", "SUB", "BITAND", "BITXOR", "BITOR"}
    BY <1>2, OpNames
  <2>2. o # "MUL" /\ o \notin {"DIV", "MOD"} /\ o \notin {"SHL", "SHR"} /\ o \notin Relations
    BY <2>1 DEF Relations
  <2>3. PICK t : t = SimpleOps[o]
    OBVIOUS
  <2>4. t # "LABEL"
    BY <2>1, <2>3 DEF SimpleOps
  <2>5. PICK a, e, s : a = insert_mov(l, d, "m") /\ e = dup_operand(d, "dst2") /\ s = create_register("R10", "r2")
    OBVIOUS
  <2>6. PICK b : b = insert_mov(r, create_register("R10", "r1"), "n")
    OBVIOUS
  <2>7. PICK u, v : u = <<Inst(t, s, e)>> /\ v = <<Inst(t, r, e)>>
    OBVIOUS
  <2>8. Straight(a) /\ Straight(b) /\ Straight(u) /\ Straight(v)
    BY <2>4, <2>5, <2>6, <2>7, MovStraight, BareStraight
  <2>9. Straight(b \o u) /\ Straight(a \o (b \o u)) /\ Straight(a \o v)
    BY <2>8, ConcatStraight
  <2>10. y = lower_simple_binary_inst(t, l, r, d)
    BY <1>1, <1>2, <2>2, <2>3 DEF lower_ir_binary
  <2>11. y = a \o (b \o u) \/ y = a \o v
    BY <2>5, <2>6, <2>7, <2>10 DEF lower_simple_binary_inst
  <2> QED BY <1>1, <2>9, <2>11
<1>3. CASE o = "MUL"
  <2>1. o \notin DOMAIN SimpleOps
    BY <1>3, OpNames
  <2>2. PICK a, b : /\ a = insert_mov(l, d, "m")
                    /\ b = insert_mov(dup_operand(d, "dst2"), create_register("R11", "r1"), "n")
    OBVIOUS
  <2>3. PICK c, e : /\ c = << Inst("MUL", r, create_register("R11", "r2")) >>
                    /\ e = insert_mov(create_register("R11", "r3"), dup_operand(d, "dst3"), "o")
    OBVIOUS
  <2>4. Straight(a) /\ Straight(b) /\ Straight(c) /\ Straight(e)
    BY <2>2, <2>3, MovStraight, BareStraight
  <2>5. Straight(b \o c \o e)
    BY <2>4, ConcatStraight
  <2>6. Straight(a \o (b \o c \o e))
    BY <2>4, <2>5, ConcatStraight
  <2>7. y = lower_mul(l, r, d)
    BY <1>1, <1>3, <2>1 DEF lower_ir_binary, Relations
  <2>8. y = a \o (b \o c \o e)
    BY <2>2, <2>3, <2>7 DEF lower_mul
  <2> QED BY <1>1, <2>6, <2>8
<1>4. CASE o \in {"DIV", "MOD"}
  <2>1. o \notin DOMAIN SimpleOps
    BY <1>4, OpNames
  <2>2. PICK a, b, c : /\ a = insert_mov(l, create_register("AX", "r1"), "m") /\ b = Plain("CDQ")
                       /\ c = insert_mov(r, create_register("R10", "r2"), "n")
    OBVIOUS
  <2>3. PICK e, f, g : /\ e = << Inst("DIV", NoOpnd, create_register("R10", "r3")) >>
                       /\ f = << Inst("DIV", NoOpnd, r) >>
                       /\ g = insert_mov(create_register(IF o = "MOD" THEN "DX" ELSE "AX", "r4"), d, "o")
    OBVIOUS
  <2>4. Straight(a) /\ Straight(b) /\ Straight(c)
    BY <2>2, MovStraight, BareStraight
  <2>5. Straight(e) /\ Straight(f) /\ Straight(g)
    BY <2>3, MovStraight, BareStraight
  <2>6. Straight(a \o b) /\ Straight(c \o e)
    BY <2>4, <2>5, ConcatStraight
  <2>7. Straight(a \o b \o (c \o e)) /\ Straight(a \o b \o f)
    BY <2>5, <2>6, ConcatStraight
  <2>8. Straight(a \o b \o (c \o e) \o g) /\ Straight(a \o b \o f \o g)
    BY <2>5, <2>7, ConcatStraight
  <2>9. y = lower_div(l, r, d, o = "MOD")
    BY <1>1, <1>4, <2>1 DEF lower_ir_binary, Relations
  <2>10. y = a \o b \o (c \o e) \o g \/ y = a \o b \o f \o g
    BY <2>2, <2>3, <2>9 DEF lower_div
  <2> QED BY <1>1, <2>8, <2>10
<1>5. CASE o \in Shifts
  <2>1. o \notin DOMAIN SimpleOps
    BY <1>5, OpNames DEF Shifts
  <2>2. o # "LABEL"
    BY <1>5 DEF Shifts
  <2>3. PICK g, h : /\ g = [create_register("CX", "r1") EXCEPT !.size = 8]
                    /\ h = [create_register("CX", "r2") EXCEPT !.size = 8]
    OBVIOUS
  <2>4. PICK a, b : a = insert_mov(l, d, "m") /\ b = insert_mov(r, g, "n")
    OBVIOUS
  <2>5. PICK u, v : u = <<Inst(o, h, dup_operand(d, "dst2"))>> /\ v = <<Inst(o, r, dup_operand(d, "dst2"))>>
    OBVIOUS
  <2>6. Straight(a) /\ Straight(b) /\ Straight(u) /\ Straight(v)
    BY <2>2, <2>4, <2>5, MovStraight, BareStraight
  <2>7. Straight(b \o u) /\ Straight(a \o (b \o u)) /\ Straight(a \o v)
    BY <2>6, ConcatStraight
  <2>8. y = lower_bit_shift(o, l, r, d)
    BY <1>1, <1>5, <2>1 DEF lower_ir_binary, Relations, Shifts
  <2>9. y = a \o (b \o u) \/ y = a \o v
    BY <2>3, <2>4, <2>5, <2>8 DEF lower_bit_shift
  <2> QED BY <1>1, <2>7, <2>9
<1>6. CASE o \in Relations
  <2>1. o \notin DOMAIN SimpleOps
    BY <1>6, OpNames DEF Relations
  <2>2. y = lower_relational(o, l, r, d)
    BY <1>1, <1>6, <2>1 DEF lower_ir_binary, Relations
  <2>3. PICK q : q = insert_cmp(r, l)
    OBVIOUS
  <2>4. Straight(q)
    BY <2>3, CmpStraight
  <2>5. Straight(q \o insert_mov(create_immediate(0, "zero"), d, "m") \o SetIf(o, dup_operand(d, "dst2")))
    BY <2>4, FlagsStraight
  <2> QED BY <1>1, <2>2, <2>3, <2>5 DEF lower_relational
<1> QED BY <1>2, <1>3, <1>4, <1>5, <1>6, OpNames DEF Shifts, Relations

\* A unary operator.
LEMMA UnaryStraight ==
    ASSUME NEW o \in UnaryOps, NEW s, NEW d
    PROVE  Straight(lower_ir_unary(o, s, d))
<1>1. PICK a, e, f : a = insert_mov(s, d, "m") /\ e = dup_operand(d, "dst2") /\ f = dup_operand(s, "src2")
  OBVIOUS
<1>2. Straight(a)
  BY <1>1, MovStraight
<1>3. CASE o \in {"NEG", "BITNOT"}
  <2>1. PICK t, x : t = (IF o = "NEG" THEN "NEG" ELSE "NOT") /\ x = <<Inst(t, NoOpnd, e)>>
    OBVIOUS
  <2>2. t # "LABEL"
    BY <2>1
  <2>3. Straight(a \o x)
    BY <1>2, <2>1, <2>2, BareStraight, ConcatStraight
  <2>4. lower_ir_unary(o, s, d) = a \o x
    BY <1>1, <1>3, <2>1 DEF lower_ir_unary
  <2> QED BY <2>3, <2>4
<1>4. CASE o = "NOT"
  <2>1. PICK q, n : q = insert_cmp(create_immediate(0, "zero1"), f) /\ n = lower_logical_not(f, e)
    OBVIOUS
  <2>2. Straight(q)
    BY <2>1, CmpStraight
  <2>3. Straight(q \o insert_mov(create_immediate(0, "zero2"), e, "n") \o SetIf("EQ", dup_operand(e, "dst3")))
    BY <2>2, FlagsStraight
  <2>4. Straight(n)
    BY <2>1, <2>3 DEF lower_logical_not
  <2>5. Straight(a \o n)
    BY <1>2, <2>4, ConcatStraight
  <2>6. lower_ir_unary(o, s, d) = a \o n
    BY <1>1, <1>4, <2>1 DEF lower_ir_unary
  <2> QED BY <2>5, <2>6
<1> QED BY <1>3, <1>4 DEF UnaryOps

-----------------------------------------------------------------------------
(* Where the processor gets to.  X.on, X.live and X.range are those of a   *)
(* plan, X.start says where the lowering of an IR instruction begins and   *)
(* X.place where a variable in X.vars is kept.                             *)

\* What the plan says is written at the i-th IR instruction is known.
Fits(X, i, Q) == \A v \in X.live[i] : v \in X.vars => X.place[v] \in DOMAIN Q /\ Q[X.place[v]] \in X.range[v]

\* At j, the lowering of an IR instruction that is reached begins.
Lands(X, j, Q) == j \in Nat /\ \E i \in X.on : j = X.start[i] /\ Fits(X, i, Q)

\* The label l is at t and nowhere else.
LabelledAt(X, l, t) ==
    /\ t \in DOMAIN X.code /\ X.code[t].type = "LABEL" /\ X.code[t].label = l
    /\ \A u \in DOMAIN X.code : X.code[u].type = "LABEL" /\ X.code[u].label = l => u = t

Leads(X, l, Q) == \E t : LabelledAt(X, l, t) /\ Lands(X, t, Q)

\* The instruction at j passes on to one that is landed at, or returns what it should.
PassStop(X, j, Q) == X.code[j].type \in {"LABEL", "ALLOCSTACK"} /\ Lands(X, j + 1, Q)
JumpStop(X, j, Q) == X.code[j].type = "JMP" /\ Leads(X, X.code[j].label, Q)
BranchStop(X, j, Q) ==
    /\ X.code[j].type = "JMPCC" /\ Flags \in DOMAIN Q
    /\ IF Holds(X.code[j].code, Q[Flags][1], Q[Flags][2]) THEN Leads(X, X.code[j].label, Q)
       ELSE Lands(X, j + 1, Q)
ReturnStop(X, j, Q) == X.code[j].type = "RETURN" /\ Reg("AX") \in DOMAIN Q /\ Q[Reg("AX")] \in X.goal

Stops(X, j, Q) == PassStop(X, j, Q) \/ JumpStop(X, j, Q) \/ BranchStop(X, j, Q) \/ ReturnStop(X, j, Q)

\* From j, n instructions lead from P to Q.
Walk(X, j, P, n, Q) ==
    \E w : w[1] = P /\ w[n + 1] = Q /\ \A i \in 1..n : Moves(X, X.code[j + i - 1], w[i], w[i + 1])

Ends(X, j, Q) == Lands(X, j, Q) \/ Stops(X, j, Q)

Ahead(X, j, P) == j \in Nat /\ \E n \in Nat : \E Q : Walk(X, j, P, n, Q) /\ Ends(X, j + n, Q)

Going(X, j, P) == Stops(X, j, P) \/ \E Q : Moves(X, X.code[j], P, Q) /\ Ahead(X, j + 1, Q)

\* Wherever the processor lands it goes on.
Sure(X) == \A j, P : Lands(X, j, P) => Going(X, j, P)

\* The first instruction of a walk, and the rest.
LEMMA WalkHead ==
    ASSUME NEW X, NEW j \in Nat, NEW P, NEW n \in Nat, n >= 1, NEW Q, Walk(X, j, P, n, Q), Ends(X, j + n, Q)
    PROVE  \E R : Moves(X, X.code[j], P, R) /\ Ahead(X, j + 1, R)
<1>1. PICK w : w[1] = P /\ w[n + 1] = Q /\ \A i \in 1..n : Moves(X, X.code[j + i - 1], w[i], w[i + 1])
  BY DEF Walk
<1>2. PICK R, m, k : R = w[2] /\ m = n - 1 /\ k = j + 1
  OBVIOUS
<1>3. 1 \in 1..n /\ m \in Nat /\ k \in Nat /\ j + 1 - 1 = j /\ k + m = j + n /\ m + 1 = n
  BY <1>2
<1>4. Moves(X, X.code[j + 1 - 1], w[1], w[1 + 1])
  BY <1>1, <1>3
<1>5. Moves(X, X.code[j], P, R)
  BY <1>1, <1>2, <1>3, <1>4
<1>6. PICK u : u = [i \in 1..n |-> w[i + 1]]
  OBVIOUS
<1>7. \A i \in 1..n : u[i] = w[i + 1]
  BY <1>6
<1>8. u[1] = R /\ u[m + 1] = Q
  BY <1>1, <1>2, <1>3, <1>7
<1>9. ASSUME NEW i \in 1..m PROVE Moves(X, X.code[k + i - 1], u[i], u[i + 1])
  <2>1. i \in 1..n /\ i + 1 \in 1..n /\ k + i - 1 = j + (i + 1) - 1
    BY <1>2
  <2>2. PICK h : h = i + 1
    OBVIOUS
  <2>3. Moves(X, X.code[j + h - 1], w[h], w[h + 1])
    BY <1>1, <2>1, <2>2
  <2>4. u[i] = w[h] /\ u[h] = w[h + 1] /\ j + h - 1 = k + i - 1
    BY <1>7, <2>1, <2>2
  <2> QED BY <2>2, <2>3, <2>4
<1>10. Walk(X, k, R, m, Q)
  BY <1>8, <1>9 DEF Walk
<1>11. Ends(X, k + m, Q)
  BY <1>3
<1>12. Ahead(X, k, R)
  BY <1>3, <1>10, <1>11 DEF Ahead
<1> QED BY <1>2, <1>5, <1>12

\* The processor goes on as long as something is ahead.
LEMMA GoesOn ==
    ASSUME NEW X, Sure(X), NEW j, NEW P, Ahead(X, j, P)
    PROVE  Going(X, j, P)
<1>1. j \in Nat
  BY DEF Ahead
<1>0. PICK n \in Nat : \E Q : Walk(X, j, P, n, Q) /\ Ends(X, j + n, Q)
  BY DEF Ahead
<1>2. PICK Q : Walk(X, j, P, n, Q) /\ Ends(X, j + n, Q)
  BY <1>0
<1>3. CASE n >= 1
  <2>1. \E R : Moves(X, X.code[j], P, R) /\ Ahead(X, j + 1, R)
    BY <1>1, <1>2, <1>3, WalkHead
  <2> QED BY <2>1 DEF Going
<1>4. CASE n = 0
  <2>1. PICK w : w[1] = P /\ w[n + 1] = Q
    BY <1>2 DEF Walk
  <2>2. P = Q /\ j + n = j
    BY <1>1, <1>4, <2>1
  <2>3. Ends(X, j, P)
    BY <1>2, <2>2
  <2> QED BY <2>3 DEF Ends, Sure, Going
<1> QED BY <1>2, <1>3, <1>4

\* A list that is in the code from j on.
Found(X, j, q) == \A i \in 1..Len(q) : X.code[j + i - 1] = q[i]

\* The processor goes along it.
LEMMA ChainGoes ==
    ASSUME NEW X, NEW j \in Nat, NEW q, IsList(q), Len(q) >= 1, Found(X, j, q), NEW P, NEW Q, Chain(X, q, P, Q),
           NEW n, n = Len(q), Ends(X, j + n, Q)
    PROVE  Going(X, j, P)
<1>1. n \in Nat /\ n >= 1
  BY DEF IsList
<1>2. PICK w : w[1] = P /\ w[Len(q) + 1] = Q /\ Along(X, q, w)
  BY DEF Chain
<1>3. ASSUME NEW i \in 1..n PROVE Moves(X, X.code[j + i - 1], w[i], w[i + 1])
  BY <1>2 DEF Along, Found
<1>4. Walk(X, j, P, n, Q)
  BY <1>2, <1>3 DEF Walk
<1>5. \E R : Moves(X, X.code[j], P, R) /\ Ahead(X, j + 1, R)
  BY <1>1, <1>4, WalkHead
<1> QED BY <1>5 DEF Going

-----------------------------------------------------------------------------
(* Where the lowering of each IR instruction is.                           *)

\* The instructions for x, its operands being l, r and d.
LoweredTo(x, l, r, d) ==
    CASE x.type = "RETURN" -> lower_ir_return(l)
      [] x.type = "UNARY"  -> lower_ir_unary(x.op, l, d)
      [] x.type = "BINARY" -> lower_ir_binary(x.op, l, r, d)
      [] x.type = "JMP"    -> JumpTo(x.label)
      [] x.type \in {"JZ", "JNZ"} -> lower_cond_jump(x, l)
      [] x.type = "COPY"   -> insert_mov(l, d, "m")
      [] x.type = "LABEL"  -> LabelAt(x.label)

\* The operand o is for the value v: a constant, or a variable in its slot.
Serves(vs, s, v, o) ==
    v # 0 =>
       /\ IsOpnd(o)
       /\ vs[v].is_constant => IsImm(o) /\ o.val = vs[v].val
       /\ ~vs[v].is_constant =>
             IsStack(o) /\ \E h \in 1..Len(s) : s[h] = vs[v].val /\ o.val = -(SlotBytes * h)

Operated(x, vs, s, l, r, d) == Serves(vs, s, x.lhs, l) /\ Serves(vs, s, x.rhs, r) /\ Serves(vs, s, x.dst, d)

\* The instruction has what its lowering needs.
Fit(x, vs) ==
    /\ Whole(x) /\ Lowerable(x)
    /\ x.type \in {"UNARY", "BINARY", "COPY"} => x.dst \in 1..Len(vs) /\ ~vs[x.dst].is_constant

\* The list q is the lowering of x.
Lowering(x, vs, s, q) == Fit(x, vs) /\ \E l, r, d : Operated(x, vs, s, l, r, d) /\ q = LoweredTo(x, l, r, d)

\* The lowering of a label is the label, and no other has one.
Marked(x, q) ==
    /\ IsList(q) /\ Len(q) \in Nat /\ Len(q) >= 1
    /\ IF x.type = "LABEL" THEN q = LabelAt(x.label) ELSE Straight(q)

\* What a destination is.
LEMMA DestinationServed ==
    ASSUME NEW x, NEW vs, Fit(x, vs), x.type \in {"UNARY", "BINARY", "COPY"}, NEW s, NEW d, Serves(vs, s, x.dst, d)
    PROVE  /\ x.dst \in 1..Len(vs) /\ Slot(d)
           /\ \E h \in 1..Len(s) : s[h] = vs[x.dst].val /\ d.val = -(SlotBytes * h)
<1>1. x.dst \in 1..Len(vs) /\ ~vs[x.dst].is_constant
  BY DEF Fit
<1>2. x.dst # 0
  BY DEF Fit, Whole
<1> QED BY <1>1, <1>2 DEF Serves, Slot

\* Where labels are in a lowering.
LEMMA LoweringMarked ==
    ASSUME NEW x, NEW vs, NEW s, NEW q, Lowering(x, vs, s, q)
    PROVE  Marked(x, q)
<1>1. PICK l, r, d : Operated(x, vs, s, l, r, d) /\ q = LoweredTo(x, l, r, d)
  BY DEF Lowering
<1>2. Fit(x, vs) /\ x.type \in Types
  BY DEF Lowering, Fit, Whole
<1>3. CASE x.type = "LABEL"
  <2>1. PICK i : i = [Inst("LABEL", NoOpnd, NoOpnd) EXCEPT !.label = x.label]
    OBVIOUS
  <2>2. q = LabelAt(x.label) /\ LabelAt(x.label) = <<i>>
    BY <1>1, <1>3, <2>1 DEF LoweredTo, LabelAt
  <2>3. <<i>> \in Seq({i}) /\ Len(<<i>>) = 1
    OBVIOUS
  <2>4. IsList(q) /\ Len(q) = 1
    BY <2>2, <2>3 DEF IsList
  <2> QED BY <1>3, <2>2, <2>4 DEF Marked
<1>4. CASE x.type # "LABEL"
  <2>1. Straight(q)
    <3>1. CASE x.type = "RETURN"
      <4>1. PICK a, b : a = insert_mov(l, create_register("AX", "r1"), "m") /\ b = Plain("RETURN")
        OBVIOUS
      <4>2. Straight(a) /\ Straight(b)
        BY <4>1, MovStraight, BareStraight
      <4>3. Straight(a \o b)
        BY <4>2, ConcatStraight
      <4> QED BY <1>1, <3>1, <4>1, <4>3 DEF LoweredTo, lower_ir_return
    <3>2. CASE x.type = "UNARY"
      <4>1. x.op \in UnaryOps
        BY <1>2, <3>2 DEF Fit, Lowerable, Unimplemented
      <4>2. Straight(lower_ir_unary(x.op, l, d))
        BY <4>1, UnaryStraight
      <4> QED BY <1>1, <3>2, <4>2 DEF LoweredTo
    <3>3. CASE x.type = "BINARY"
      <4>1. x.op \in BinaryOps
        BY <1>2, <3>3 DEF Fit, Lowerable, Unimplemented
      <4>2. Slot(d)
        BY <1>1, <1>2, <3>3, DestinationServed DEF Operated
      <4>3. Straight(lower_ir_binary(x.op, l, r, d))
        BY <4>1, <4>2, BinaryStraight DEF Slot
      <4> QED BY <1>1, <3>3, <4>3 DEF LoweredTo
    <3>4. CASE x.type = "COPY"
      BY <1>1, <3>4, MovStraight DEF LoweredTo
    <3>5. CASE x.type = "JMP"
      <4>1. PICK i : i = [Inst("JMP", NoOpnd, NoOpnd) EXCEPT !.label = x.label]
        OBVIOUS
      <4>2. i.type # "LABEL"
        BY <4>1 DEF Inst
      <4> QED BY <1>1, <3>5, <4>1, <4>2, SingleStraight DEF LoweredTo, JumpTo
    <3>6. CASE x.type \in {"JZ", "JNZ"}
      <4>1. PICK a, c : a = insert_cmp(create_immediate(0, "zero"), l) /\ c = IF x.type = "JZ" THEN "EQ" ELSE "NE"
        OBVIOUS
      <4>2. Straight(a) /\ Straight(JumpIf(c, x.label))
        BY <4>1, CmpStraight, BareStraight
      <4>3. Straight(a \o JumpIf(c, x.label))
        BY <4>2, ConcatStraight
      <4> QED BY <1>1, <3>6, <4>1, <4>3 DEF LoweredTo, lower_cond_jump
    <3> QED BY <1>2, <1>4, <3>1, <3>2, <3>3, <3>4, <3>5, <3>6 DEF Types, Jumps
  <2> QED BY <1>4, <2>1 DEF Marked, Straight
<1> QED BY <1>3, <1>4

\* It stays the lowering when slots are added.
LEMMA LoweringWider ==
    ASSUME NEW x, NEW vs, NEW s, NEW q, Lowering(x, vs, s, q), NEW t, Wider(s, t)
    PROVE  Lowering(x, vs, t, q)
<1>1. PICK l, r, d : Operated(x, vs, s, l, r, d) /\ q = LoweredTo(x, l, r, d)
  BY DEF Lowering
<1>2. ASSUME NEW v, NEW o, Serves(vs, s, v, o) PROVE Serves(vs, t, v, o)
  <2>1. SUFFICES ASSUME v # 0, ~vs[v].is_constant
                 PROVE  IsStack(o) /\ \E h \in 1..Len(t) : t[h] = vs[v].val /\ o.val = -(SlotBytes * h)
    BY <1>2 DEF Serves
  <2>2. PICK h \in 1..Len(s) : s[h] = vs[v].val /\ o.val = -(SlotBytes * h)
    BY <1>2, <2>1 DEF Serves
  <2>3. h \in 1..Len(t) /\ t[h] = s[h]
    BY DEF Wider
  <2> QED BY <1>2, <2>1, <2>2, <2>3 DEF Serves
<1>3. Operated(x, vs, t, l, r, d)
  BY <1>1, <1>2 DEF Operated
<1> QED BY <1>1, <1>3 DEF Lowering

\* The lowering of x is in q from a up to b.
Laid(x, vs, s, q, a, b) ==
    a \in Nat \ {0} /\ b \in Nat /\ b <= Len(q) + 1 /\
    \E p : Lowering(x, vs, s, p) /\ b = a + Len(p) /\ \A i \in 1..Len(p) : q[a + i - 1] = p[i]

\* A label of q at u is that of one of the first n instructions.
Known(is, st, n, q, u) ==
    q[u].type = "LABEL" => \E i \in 1..n : u = st[i] /\ is[i].type = "LABEL" /\ is[i].label = q[u].label

\* The lowerings of the first n instructions follow each other up to the end of q, st saying
\* where each begins.
Layout(is, vs, s, q, st, n) ==
    /\ IsList(q) /\ Len(q) \in Nat /\ st[1] \in Nat \ {0} /\ st[n + 1] = Len(q) + 1
    /\ \A j \in 1..n : Laid(is[j], vs, s, q, st[j], st[j + 1])
    /\ \A u \in 1..Len(q) : Known(is, st, n, q, u)

\* What is laid stays when more is behind it.
LEMMA LaidBehind ==
    ASSUME NEW x, NEW vs, NEW s, NEW t, Wider(s, t), NEW q, NEW p, NEW r, Joined(q, p, r),
           NEW a, NEW b, Laid(x, vs, s, q, a, b)
    PROVE  Laid(x, vs, t, r, a, b)
<1>1. PICK g : Lowering(x, vs, s, g) /\ b = a + Len(g) /\ \A i \in 1..Len(g) : q[a + i - 1] = g[i]
  BY DEF Laid
<1>2. Lowering(x, vs, t, g) /\ Len(g) \in Nat
  BY <1>1, LoweringWider, LoweringMarked DEF Marked
<1>3. ASSUME NEW i \in 1..Len(g) PROVE r[a + i - 1] = g[i]
  <2>1. PICK j : j = a + i - 1
    OBVIOUS
  <2>2. j \in 1..Len(q)
    BY <1>1, <1>2, <2>1 DEF Laid, Joined
  <2> QED BY <1>1, <2>1, <2>2 DEF Joined
<1>4. a \in Nat \ {0} /\ b \in Nat /\ b <= Len(r) + 1
  BY DEF Laid, Joined
<1> QED BY <1>1, <1>2, <1>3, <1>4 DEF Laid

\* What is laid stays when an instruction is in front of it.
LEMMA LaidBefore ==
    ASSUME NEW x, NEW vs, NEW s, NEW q, NEW c, NEW r, Joined(<<c>>, q, r),
           NEW a, NEW b, Laid(x, vs, s, q, a, b), NEW d, NEW e, d = a + 1, e = b + 1
    PROVE  Laid(x, vs, s, r, d, e)
<1>1. PICK g : Lowering(x, vs, s, g) /\ b = a + Len(g) /\ \A i \in 1..Len(g) : q[a + i - 1] = g[i]
  BY DEF Laid
<1>2. Len(g) \in Nat
  BY <1>1, LoweringMarked DEF Marked
<1>3. Len(<<c>>) = 1
  OBVIOUS
<1>4. ASSUME NEW i \in 1..Len(g) PROVE r[d + i - 1] = g[i]
  <2>1. PICK j : j = a + i - 1
    OBVIOUS
  <2>2. j \in 1..Len(q) /\ d + i - 1 = 1 + j
    BY <1>1, <1>2, <2>1 DEF Laid, Joined
  <2>3. r[1 + j] = q[j]
    BY <1>3, <2>2 DEF Joined
  <2> QED BY <1>1, <2>1, <2>2, <2>3
<1>5. d \in Nat \ {0} /\ e \in Nat /\ e <= Len(r) + 1 /\ e = d + Len(g)
  <2>1. Len(r) = 1 + Len(q) /\ Len(q) \in Nat
    BY <1>3 DEF Joined
  <2>2. a \in Nat \ {0} /\ b \in Nat /\ b <= Len(q) + 1
    BY DEF Laid
  <2> QED BY <1>1, <1>2, <2>1, <2>2
<1> QED BY <1>1, <1>4, <1>5 DEF Laid

\* The m-th instruction is lowered to p behind q, which makes r, and the slots s become t.
LaidNext(is, vs, s, q, st, n, t, m, p, r) ==
    /\ n \in Nat /\ m = n + 1 /\ Layout(is, vs, s, q, st, n)
    /\ Wider(s, t) /\ Lowering(is[m], vs, t, p) /\ r = q \o p

\* One more instruction is lowered.
LEMMA LayoutGrown ==
    ASSUME NEW is, NEW vs, NEW s, NEW q, NEW st, NEW n, NEW t, NEW m, NEW p, NEW r,
           LaidNext(is, vs, s, q, st, n, t, m, p, r)
    PROVE  \E u : Layout(is, vs, t, r, u, m) /\ u[1] = st[1]
<1> USE DEF LaidNext
<1>0. Lowering(is[n + 1], vs, t, p)
  OBVIOUS
<1>1. Marked(is[n + 1], p)
  BY <1>0, LoweringMarked
<1>2. Joined(q, p, r)
  BY <1>1, ConcatParts DEF Layout, Marked
<1>3. PICK u : u = [j \in 1..(n + 2) |-> IF j = n + 2 THEN Len(r) + 1 ELSE st[j]]
  OBVIOUS
<1>4. /\ \A j \in 1..(n + 1) : u[j] = st[j]
      /\ u[n + 2] = Len(r) + 1 /\ 1 \in 1..(n + 1) /\ n + 1 \in 1..(n + 1) /\ n + 1 + 1 = n + 2
  BY <1>3
<1>5. Len(r) = Len(q) + Len(p) /\ Len(q) \in Nat /\ Len(p) \in Nat /\ Len(p) >= 1 /\ IsList(r)
  BY <1>1, <1>2 DEF Joined, Marked
<1>6. ASSUME NEW j \in 1..(n + 1) PROVE Laid(is[j], vs, t, r, u[j], u[j + 1])
  <2>1. CASE j = n + 1
    <3>1. PICK a, b : a = u[j] /\ b = u[j + 1]
      OBVIOUS
    <3>2. a = Len(q) + 1 /\ b = Len(r) + 1
      BY <1>4, <2>1, <3>1 DEF Layout
    <3>3. ASSUME NEW i \in 1..Len(p) PROVE r[a + i - 1] = p[i]
      <4>1. a + i - 1 = Len(q) + i
        BY <1>5, <3>2
      <4> QED BY <1>2, <4>1 DEF Joined
    <3>4. a \in Nat \ {0} /\ b \in Nat /\ b <= Len(r) + 1 /\ b = a + Len(p)
      BY <1>5, <3>2
    <3>5. Laid(is[n + 1], vs, t, r, a, b)
      BY <1>0, <3>3, <3>4 DEF Laid
    <3> QED BY <2>1, <3>1, <3>5
  <2>2. CASE j # n + 1
    <3>1. j \in 1..n /\ j + 1 \in 1..(n + 1)
      BY <2>2
    <3>2. Laid(is[j], vs, s, q, st[j], st[j + 1])
      BY <3>1 DEF Layout
    <3>3. PICK a, b : a = st[j] /\ b = st[j + 1]
      OBVIOUS
    <3>4. Laid(is[j], vs, t, r, a, b)
      BY <1>2, <3>2, <3>3, LaidBehind
    <3> QED BY <1>4, <3>1, <3>3, <3>4
  <2> QED BY <2>1, <2>2
<1>7. ASSUME NEW h \in 1..Len(r) PROVE Known(is, u, n + 1, r, h)
  <2>1. SUFFICES ASSUME r[h].type = "LABEL"
                 PROVE  \E i \in 1..(n + 1) : h = u[i] /\ is[i].type = "LABEL" /\ is[i].label = r[h].label
    BY DEF Known
  <2>2. CASE h \in 1..Len(q)
    <3>1. r[h] = q[h]
      BY <1>2, <2>2 DEF Joined
    <3>2. PICK i \in 1..n : h = st[i] /\ is[i].type = "LABEL" /\ is[i].label = q[h].label
      BY <2>1, <2>2, <3>1 DEF Layout, Known
    <3>3. i \in 1..(n + 1)
      BY <3>2
    <3> QED BY <1>4, <3>1, <3>2, <3>3
  <2>3. CASE h \notin 1..Len(q)
    <3>1. PICK i : i = h - Len(q)
      OBVIOUS
    <3>2. i \in 1..Len(p) /\ h = Len(q) + i
      BY <1>5, <2>3, <3>1
    <3>3. r[h] = p[i]
      BY <1>2, <3>2 DEF Joined
    <3>4. is[n + 1].type = "LABEL" /\ p = LabelAt(is[n + 1].label)
      BY <1>1, <2>1, <3>2, <3>3 DEF Marked, Straight
    <3>5. PICK c : c = [Inst("LABEL", NoOpnd, NoOpnd) EXCEPT !.label = is[n + 1].label]
      OBVIOUS
    <3>6. p = <<c>> /\ c.label = is[n + 1].label
      BY <3>4, <3>5 DEF LabelAt, Inst
    <3>7. i = 1 /\ p[i] = c
      BY <3>2, <3>6
    <3>8. u[n + 1] = Len(q) + 1
      BY <1>4 DEF Layout
    <3> QED BY <1>4, <3>2, <3>3, <3>4, <3>6, <3>7, <3>8
  <2> QED BY <2>2, <2>3
<1>8. u[1] = st[1]
  BY <1>4
<1>9. u[n + 1 + 1] = Len(r) + 1 /\ u[1] \in Nat \ {0} /\ Len(r) \in Nat
  BY <1>4, <1>5 DEF Layout
<1>10. Layout(is, vs, t, r, u, n + 1)
  BY <1>5, <1>6, <1>7, <1>9 DEF Layout
<1> QED BY <1>8, <1>10

\* An instruction that is no label comes in front of all.
Led(is, vs, s, q, st, n, c, r) ==
    n \in Nat /\ Layout(is, vs, s, q, st, n) /\ c.type # "LABEL" /\ r = <<c>> \o q

\* Such code is laid out one place further behind.
LEMMA LayoutShifted ==
    ASSUME NEW is, NEW vs, NEW s, NEW q, NEW st, NEW n, NEW c, NEW r, Led(is, vs, s, q, st, n, c, r)
    PROVE  \E u : Layout(is, vs, s, r, u, n) /\ u[1] = st[1] + 1
<1> USE DEF Led
<1>1. IsList(<<c>>) /\ Len(<<c>>) = 1 /\ <<c>>[1] = c
  <2>1. <<c>> \in Seq({c})
    OBVIOUS
  <2> QED BY <2>1 DEF IsList
<1>2. Joined(<<c>>, q, r)
  BY <1>1, ConcatParts DEF Layout
<1>3. Len(r) = Len(q) + 1 /\ Len(q) \in Nat /\ IsList(r) /\ \A i \in 1..Len(q) : r[1 + i] = q[i]
  BY <1>1, <1>2 DEF Joined
<1>4. r[1] = c
  <2>1. 1 \in 1..Len(<<c>>)
    BY <1>1
  <2> QED BY <1>1, <1>2, <2>1 DEF Joined
<1>5. PICK u : u = [j \in 1..(n + 1) |-> st[j] + 1]
  OBVIOUS
<1>6. /\ \A j \in 1..(n + 1) : u[j] = st[j] + 1
      /\ 1 \in 1..(n + 1) /\ n + 1 \in 1..(n + 1)
  BY <1>5
<1>7. ASSUME NEW j \in 1..n PROVE Laid(is[j], vs, s, r, u[j], u[j + 1])
  <2>1. j \in 1..(n + 1) /\ j + 1 \in 1..(n + 1)
    OBVIOUS
  <2>2. PICK a, b, d, e : a = st[j] /\ b = st[j + 1] /\ d = u[j] /\ e = u[j + 1]
    OBVIOUS
  <2>3. Laid(is[j], vs, s, q, a, b)
    BY <2>2 DEF Layout
  <2>4. d = a + 1 /\ e = b + 1
    BY <1>6, <2>1, <2>2
  <2>5. Laid(is[j], vs, s, r, d, e)
    BY <1>2, <2>3, <2>4, LaidBefore
  <2> QED BY <2>2, <2>5
<1>8. ASSUME NEW h \in 1..Len(r) PROVE Known(is, u, n, r, h)
  <2>1. SUFFICES ASSUME r[h].type = "LABEL"
                 PROVE  \E i \in 1..n : h = u[i] /\ is[i].type = "LABEL" /\ is[i].label = r[h].label
    BY DEF Known
  <2>2. h # 1
    BY <1>4, <2>1
  <2>3. PICK g : g = h - 1
    OBVIOUS
  <2>4. g \in 1..Len(q) /\ h = 1 + g
    BY <1>3, <2>2, <2>3
  <2>5. r[h] = q[g]
    BY <1>3, <2>4
  <2>6. PICK i \in 1..n : g = st[i] /\ is[i].type = "LABEL" /\ is[i].label = q[g].label
    BY <2>1, <2>4, <2>5 DEF Layout, Known
  <2>7. u[i] = h
    <3>1. i \in 1..(n + 1)
      BY <2>6
    <3> QED BY <1>6, <2>4, <2>6, <3>1
  <2> QED BY <2>5, <2>6, <2>7
<1>9. u[1] = st[1] + 1 /\ u[n + 1] = Len(r) + 1 /\ u[1] \in Nat \ {0} /\ Len(r) \in Nat
  BY <1>3, <1>6 DEF Layout
<1>10. Layout(is, vs, s, r, u, n)
  BY <1>3, <1>7, <1>8, <1>9 DEF Layout
<1> QED BY <1>9, <1>10

-----------------------------------------------------------------------------
(* Where variables are kept.                                               *)

Distinct(s) == \A g, h \in 1..Len(s) : s[g] = s[h] => g = h

\* Where v is kept: in its slot, if it has one.
HasSlot(v, vs, s) == \E h \in 1..Len(s) : s[h] = vs[v].val
PlaceOf(v, vs, s) ==
    IF HasSlot(v, vs, s) THEN <<"stack", -(SlotBytes * slot_of(s, vs[v].val))>> ELSE <<"none", v>>

\* The offsets of the slots.
Frame(s) == {-(SlotBytes * j) : j \in 1..Len(s)}

\* Two slots have two offsets.
LEMMA OffsetsApart ==
    ASSUME NEW g \in Nat, NEW h \in Nat, -(SlotBytes * g) = -(SlotBytes * h)
    PROVE  g = h
<1>1. PICK m : m = SlotBytes
  OBVIOUS
<1>2. m \in Nat /\ m >= 1
  BY <1>1, SlotAssumption
<1>3. ASSUME NEW a \in Nat, NEW b \in Nat, a < b PROVE m * a < m * b
  <2>1. PICK d \in Nat : b = a + d /\ d >= 1
    <3>1. b - a \in Nat /\ b = a + (b - a) /\ b - a >= 1
      BY <1>3
    <3> QED BY <3>1
  <2>2. m * b = m * a + m * d
    BY <1>2, <2>1
  <2>3. m * d >= 1
    BY <1>2, <2>1
  <2> QED BY <1>2, <2>2, <2>3
<1>4. m * g = m * h /\ m * g \in Int /\ m * h \in Int
  BY <1>1, <1>2
<1>5. ~(g < h) /\ ~(h < g)
  BY <1>3, <1>4
<1> QED BY <1>5

\* A variable's operand is where the variable is kept.
LEMMA PlaceServed ==
    ASSUME NEW vs, NEW s, Distinct(s), NEW v, v # 0, ~vs[v].is_constant, NEW o, Serves(vs, s, v, o)
    PROVE  IsStack(o) /\ IsOpnd(o) /\ Loc(o) = PlaceOf(v, vs, s) /\ o.val \in Frame(s)
<1>1. PICK n : n = vs[v].val
  OBVIOUS
<1>2. IsStack(o) /\ IsOpnd(o) /\ \E h \in 1..Len(s) : s[h] = n /\ o.val = -(SlotBytes * h)
  BY <1>1 DEF Serves
<1>3. PICK h \in 1..Len(s) : s[h] = n /\ o.val = -(SlotBytes * h)
  BY <1>2
<1>4. slot_of(s, n) = h
  BY <1>3 DEF Distinct, slot_of
<1>5. HasSlot(v, vs, s)
  BY <1>1, <1>3 DEF HasSlot
<1>6. PlaceOf(v, vs, s) = <<"stack", -(SlotBytes * h)>>
  BY <1>1, <1>4, <1>5 DEF PlaceOf
<1>7. Loc(o) = <<"stack", -(SlotBytes * h)>>
  BY <1>2, <1>3 DEF Loc, IsStack
<1>8. o.val \in Frame(s)
  BY <1>3 DEF Frame
<1> QED BY <1>2, <1>6, <1>7, <1>8

\* Two variables are kept in two places, which lowering does not use besides.
LEMMA PlacesApart ==
    ASSUME NEW vs, NEW s, Distinct(s), Len(s) \in Nat, NEW n, NamesApart(vs, n),
           NEW v \in 1..Len(vs), NEW w \in 1..Len(vs), ~vs[v].is_constant, ~vs[w].is_constant
    PROVE  PlaceOf(v, vs, s) \notin Scratch /\ (PlaceOf(v, vs, s) = PlaceOf(w, vs, s) => v = w)
<1>1. PICK a, b : a = vs[v].val /\ b = vs[w].val
  OBVIOUS
<1>2. ASSUME NEW u, HasSlot(u, vs, s)
      PROVE  \E h \in 1..Len(s) : s[h] = vs[u].val /\ PlaceOf(u, vs, s) = <<"stack", -(SlotBytes * h)>>
  <2>1. PICK c : c = vs[u].val
    OBVIOUS
  <2>2. PICK h \in 1..Len(s) : s[h] = c
    BY <1>2, <2>1 DEF HasSlot
  <2>3. slot_of(s, c) = h
    BY <2>2 DEF Distinct, slot_of
  <2>4. PlaceOf(u, vs, s) = <<"stack", -(SlotBytes * h)>>
    BY <1>2, <2>1, <2>3 DEF PlaceOf
  <2> QED BY <2>1, <2>2, <2>4
<1>3. ASSUME NEW u, ~HasSlot(u, vs, s) PROVE PlaceOf(u, vs, s) = <<"none", u>>
  BY <1>3 DEF PlaceOf
<1>4. \A c : <<"stack", c>> \notin Scratch /\ <<"none", c>> \notin Scratch
  BY DEF Scratch, Reg, Flags, Registers
<1>5. PlaceOf(v, vs, s) \notin Scratch
  BY <1>2, <1>3, <1>4
<1>6. ASSUME PlaceOf(v, vs, s) = PlaceOf(w, vs, s) PROVE v = w
  <2>1. CASE ~HasSlot(v, vs, s) /\ ~HasSlot(w, vs, s)
    <3>1. <<"none", v>> = <<"none", w>>
      BY <1>3, <1>6, <2>1
    <3>2. <<"none", v>>[2] = <<"none", w>>[2]
      BY <3>1
    <3> QED BY <3>2
  <2>2. CASE HasSlot(v, vs, s) /\ HasSlot(w, vs, s)
    <3>1. PICK g \in 1..Len(s) : s[g] = a /\ PlaceOf(v, vs, s) = <<"stack", -(SlotBytes * g)>>
      BY <1>1, <1>2, <2>2
    <3>2. PICK h \in 1..Len(s) : s[h] = b /\ PlaceOf(w, vs, s) = <<"stack", -(SlotBytes * h)>>
      BY <1>1, <1>2, <2>2
    <3>3. PICK c, d : c = -(SlotBytes * g) /\ d = -(SlotBytes * h)
      OBVIOUS
    <3>4. <<"stack", c>> = <<"stack", d>>
      BY <1>6, <3>1, <3>2, <3>3
    <3>5. -(SlotBytes * g) = -(SlotBytes * h)
      <4>1. <<"stack", c>>[2] = <<"stack", d>>[2]
        BY <3>4
      <4> QED BY <3>3, <4>1
    <3>6. g = h
      BY <3>5, OffsetsApart
    <3>7. vs[v].val = vs[w].val
      BY <1>1, <3>1, <3>2, <3>6
    <3>8. \A e, f \in 1..Len(vs) :
             ~vs[e].is_constant /\ ~vs[f].is_constant /\ vs[e].val = vs[f].val => e = f
      BY DEF NamesApart
    <3> QED BY <3>7, <3>8
  <2>3. CASE HasSlot(v, vs, s) /\ ~HasSlot(w, vs, s)
    <3>1. PICK c : PlaceOf(v, vs, s) = <<"stack", c>>
      BY <1>2, <2>3
    <3>2. PlaceOf(w, vs, s) = <<"none", w>>
      BY <1>3, <2>3
    <3>3. <<"stack", c>>[1] = <<"none", w>>[1]
      BY <1>6, <3>1, <3>2
    <3> QED BY <3>3
  <2>4. CASE ~HasSlot(v, vs, s) /\ HasSlot(w, vs, s)
    <3>1. PICK c : PlaceOf(w, vs, s) = <<"stack", c>>
      BY <1>2, <2>4
    <3>2. PlaceOf(v, vs, s) = <<"none", v>>
      BY <1>3, <2>4
    <3>3. <<"stack", c>>[1] = <<"none", v>>[1]
      BY <1>6, <3>1, <3>2
    <3> QED BY <3>3
  <2> QED BY <2>1, <2>2, <2>3, <2>4
<1> QED BY <1>5, <1>6

-----------------------------------------------------------------------------
(* The code goes by the plan, wherever the processor lands in it.          *)

\* X is for the code that the instructions is, which go by the plan p, are lowered to.
Certificate(X, p, k, is, vs, s, n) ==
    /\ Planned(k, p, is, vs, {}) /\ p.on \subseteq 1..Len(is) /\ Len(is) \in Nat
    /\ X.on = p.on /\ X.live = p.live /\ X.range = p.range
    /\ X.m = k.m /\ X.goal = k.V[k.r] /\ X.frame = Frame(s)
    /\ \A v : v \in X.vars <=> v \in 1..Len(vs) /\ ~vs[v].is_constant
    /\ \A v \in X.vars : X.place[v] = PlaceOf(v, vs, s)
    /\ NamesApart(vs, n) /\ Once(is) /\ Distinct(s) /\ Len(s) \in Nat
    /\ Layout(is, vs, s, X.code, X.start, Len(is))

\* What the environment Q knows of the variables in S.
Knows(X, p, Q, S) == \A v \in S : v \in X.vars => X.place[v] \in DOMAIN Q /\ Q[X.place[v]] \in p.range[v]

\* The processor has landed at the i-th instruction.
Arrived(X, p, k, is, vs, s, n, i, P) ==
    Certificate(X, p, k, is, vs, s, n) /\ i \in p.on /\ Knows(X, p, P, p.live[i])

\* The lowering of the i-th instruction, and what the plan says of it.
LEMMA InstThere ==
    ASSUME NEW X, NEW p, NEW k, NEW is, NEW vs, NEW s, NEW n, Certificate(X, p, k, is, vs, s, n), NEW i \in p.on
    PROVE  /\ i \in 1..Len(is) /\ i \in Nat /\ InstOk(k, p, is, vs, {}, is[i], i)
           /\ Laid(is[i], vs, s, X.code, X.start[i], X.start[i + 1])
           /\ X.start[i] \in Nat
<1>1. i \in 1..Len(is) /\ Len(is) \in Nat
  BY DEF Certificate
<1>2. Laid(is[i], vs, s, X.code, X.start[i], X.start[i + 1])
  BY <1>1 DEF Certificate, Layout
<1>3. InstOk(k, p, is, vs, {}, is[i], i)
  BY <1>1 DEF Certificate, Planned, AllOk
<1>4. X.start[i] \in Nat
  BY <1>2 DEF Laid
<1> QED BY <1>1, <1>2, <1>3, <1>4

\* Where the processor lands.
LEMMA LandsThere ==
    ASSUME NEW X, NEW p, NEW k, NEW is, NEW vs, NEW s, NEW n, Certificate(X, p, k, is, vs, s, n), NEW i \in p.on,
           NEW Q, NEW S, Knows(X, p, Q, S), p.live[i] \subseteq S
    PROVE  Lands(X, X.start[i], Q)
<1>1. X.start[i] \in Nat
  BY InstThere
<1>2. Fits(X, i, Q)
  BY DEF Fits, Knows, Certificate
<1>3. i \in X.on
  BY DEF Certificate
<1> QED BY <1>1, <1>2, <1>3 DEF Lands

\* It lands behind the instruction.
LEMMA LandsBehind ==
    ASSUME NEW X, NEW p, NEW k, NEW is, NEW vs, NEW s, NEW n, Certificate(X, p, k, is, vs, s, n), NEW i,
           NEW Q, NEW S, Knows(X, p, Q, S), Follows(p, i, S)
    PROVE  Lands(X, X.start[i + 1], Q)
<1>1. PICK h : h = i + 1
  OBVIOUS
<1>2. h \in p.on /\ p.live[h] \subseteq S
  BY <1>1 DEF Follows
<1>3. Lands(X, X.start[h], Q)
  BY <1>2, LandsThere
<1> QED BY <1>1, <1>3

\* The label of an instruction is where its lowering is.
LEMMA LabelThere ==
    ASSUME NEW X, NEW p, NEW k, NEW is, NEW vs, NEW s, NEW n, Certificate(X, p, k, is, vs, s, n),
           NEW i \in 1..Len(is), is[i].type = "LABEL"
    PROVE  /\ LabelledAt(X, is[i].label, X.start[i])
           /\ X.start[i] \in Nat /\ X.start[i + 1] = X.start[i] + 1
<1>1. PICK a, b, x : a = X.start[i] /\ b = X.start[i + 1] /\ x = is[i]
  OBVIOUS
<1>2. Laid(x, vs, s, X.code, a, b)
  BY <1>1 DEF Certificate, Layout
<1>3. PICK g : Lowering(x, vs, s, g) /\ b = a + Len(g) /\ \A h \in 1..Len(g) : X.code[a + h - 1] = g[h]
  BY <1>2 DEF Laid
<1>4. g = LabelAt(x.label)
  BY <1>1, <1>3, LoweringMarked DEF Marked
<1>5. PICK c : c = [Inst("LABEL", NoOpnd, NoOpnd) EXCEPT !.label = x.label]
  OBVIOUS
<1>6. g = <<c>> /\ c.type = "LABEL" /\ c.label = x.label
  BY <1>4, <1>5 DEF LabelAt, Inst
<1>7. Len(g) = 1 /\ g[1] = c
  BY <1>6
<1>8. a \in Nat \ {0} /\ b = a + 1 /\ b <= Len(X.code) + 1 /\ a + 1 - 1 = a
  BY <1>2, <1>3, <1>7 DEF Laid
<1>9. X.code[a] = c
  <2>1. X.code[a + 1 - 1] = g[1]
    BY <1>3, <1>7
  <2> QED BY <1>7, <1>8, <2>1
<1>10. IsList(X.code) /\ Len(X.code) \in Nat
  BY DEF Certificate, Layout
<1>11. DOMAIN X.code = 1..Len(X.code)
  BY <1>10 DEF IsList
<1>12. a \in DOMAIN X.code
  BY <1>8, <1>10, <1>11
<1>13. ASSUME NEW u \in DOMAIN X.code, X.code[u].type = "LABEL" /\ X.code[u].label = x.label PROVE u = a
  <2>1. Known(is, X.start, Len(is), X.code, u)
    BY <1>11 DEF Certificate, Layout
  <2>2. PICK h \in 1..Len(is) : u = X.start[h] /\ is[h].type = "LABEL" /\ is[h].label = x.label
    BY <1>13, <2>1 DEF Known
  <2>3. h = i
    BY <1>1, <2>2 DEF Certificate, Once
  <2> QED BY <1>1, <2>2, <2>3
<1>14. LabelledAt(X, x.label, a)
  BY <1>6, <1>9, <1>12, <1>13 DEF LabelledAt
<1> QED BY <1>1, <1>8, <1>14

\* A jump lands where it arrives.
LEMMA LabelLeads ==
    ASSUME NEW X, NEW p, NEW k, NEW is, NEW vs, NEW s, NEW n, Certificate(X, p, k, is, vs, s, n), NEW l,
           NEW Q, NEW S, Knows(X, p, Q, S), Arrives(p, is, {}, l, S)
    PROVE  Leads(X, l, Q)
<1>1. PICK j \in 1..Len(is) : Landed(p, is, l, S, j)
  BY DEF Arrives
<1>2. is[j].type = "LABEL" /\ is[j].label = l /\ j \in p.on /\ p.live[j] \subseteq S
  BY <1>1 DEF Landed
<1>3. LabelledAt(X, is[j].label, X.start[j])
  BY <1>2, LabelThere
<1>4. Lands(X, X.start[j], Q)
  BY <1>2, LandsThere
<1> QED BY <1>2, <1>3, <1>4 DEF Leads

\* A value that can be read.
Held(X, p, vs, s, v, o, P) ==
    /\ \E a \in p.range[v] : Rests(P, o, a)
    /\ IsOpnd(o)
    /\ \A w \in X.vars : w # v => IsImm(o) \/ X.place[w] # Loc(o)

LEMMA OperandHeld ==
    ASSUME NEW X, NEW p, NEW k, NEW is, NEW vs, NEW s, NEW n, Certificate(X, p, k, is, vs, s, n),
           NEW S, NEW v, Ready(vs, v, S), NEW P, Knows(X, p, P, S), NEW o, Serves(vs, s, v, o)
    PROVE  Held(X, p, vs, s, v, o, P)
<1>2. v \in 1..Len(vs) /\ v # 0
  BY DEF Ready
<1>3. p.range[v] \subseteq Words /\ (vs[v].is_constant => p.range[v] = {Signed(vs[v].val)})
  BY <1>2 DEF Certificate, Planned, Ranged
<1>4. CASE vs[v].is_constant
  <2>1. IsImm(o) /\ o.val = vs[v].val /\ IsOpnd(o)
    BY <1>2, <1>4 DEF Serves
  <2>2. PICK a : a = Signed(vs[v].val)
    OBVIOUS
  <2>3. a \in p.range[v] /\ a \in Words
    BY <1>3, <1>4, <2>2
  <2>4. Rests(P, o, a)
    BY <2>1, <2>2, <2>3 DEF Rests, Reads, IsImm, Has, Of
  <2> QED BY <2>1, <2>3, <2>4 DEF Held
<1>5. CASE ~vs[v].is_constant
  <2>1. v \in S /\ v \in X.vars
    BY <1>2, <1>5 DEF Ready, Certificate
  <2>2. PICK l : l = PlaceOf(v, vs, s)
    OBVIOUS
  <2>3. X.place[v] = l
    BY <2>1, <2>2 DEF Certificate
  <2>4. Distinct(s)
    BY DEF Certificate
  <2>5. IsStack(o) /\ IsOpnd(o) /\ Loc(o) = l
    BY <1>2, <1>5, <2>2, <2>4, PlaceServed
  <2>6. PICK a : a = P[l]
    OBVIOUS
  <2>7. l \in DOMAIN P /\ a \in p.range[v]
    BY <2>1, <2>3, <2>6 DEF Knows
  <2>8. a \in Words
    BY <1>3, <2>7
  <2>9. ~IsImm(o)
    BY <2>5 DEF IsImm, IsStack
  <2>10. Reads(P, o, a)
    BY <2>5, <2>6, <2>7, <2>8, <2>9 DEF Reads, Has, Of, IsStack
  <2>11. Rests(P, o, a)
    BY <2>5, <2>10, ScratchFacts DEF Rests
  <2>12. ASSUME NEW w \in X.vars, w # v PROVE X.place[w] # Loc(o)
    <3>1. w \in 1..Len(vs) /\ ~vs[w].is_constant /\ X.place[w] = PlaceOf(w, vs, s)
      BY DEF Certificate
    <3>2. NamesApart(vs, n) /\ Len(s) \in Nat
      BY DEF Certificate
    <3>3. PlaceOf(w, vs, s) = PlaceOf(v, vs, s) => w = v
      BY <1>2, <1>5, <2>4, <3>1, <3>2, PlacesApart
    <3> QED BY <2>2, <2>5, <2>12, <3>1, <3>3
  <2> QED BY <2>5, <2>7, <2>11, <2>12 DEF Held
<1> QED BY <1>4, <1>5

\* A destination is where its variable is kept.
LEMMA TargetThere ==
    ASSUME NEW X, NEW p, NEW k, NEW is, NEW vs, NEW s, NEW n, Certificate(X, p, k, is, vs, s, n),
           NEW v \in X.vars, NEW d, Serves(vs, s, v, d)
    PROVE  Target(X, d, X.place[v])
<1>1. v \in 1..Len(vs) /\ v # 0 /\ ~vs[v].is_constant /\ X.place[v] = PlaceOf(v, vs, s) /\ Distinct(s)
  BY DEF Certificate
<1>2. IsStack(d) /\ IsOpnd(d) /\ Loc(d) = PlaceOf(v, vs, s) /\ d.val \in Frame(s)
  BY <1>1, PlaceServed
<1>3. PICK l : l = Loc(d)
  OBVIOUS
<1>4. l[1] = "stack" /\ l[2] \in X.frame
  BY <1>2, <1>3 DEF Loc, IsStack, Certificate
<1>5. In(X, l)
  BY <1>4 DEF In
<1> QED BY <1>1, <1>2, <1>3, <1>5 DEF Target, Slot

-----------------------------------------------------------------------------
(* From each kind of instruction the processor goes on.                    *)

\* The lowering g of x is at a, its operands being l, r and d.
LoweredAt(X, vs, s, x, a, b, g, l, r, d) ==
    /\ Fit(x, vs) /\ Operated(x, vs, s, l, r, d) /\ g = LoweredTo(x, l, r, d)
    /\ a \in Nat /\ b = a + Len(g) /\ IsList(g) /\ Len(g) >= 1 /\ Found(X, a, g)

\* There is such a lowering where the processor lands.
LEMMA LoweringThere ==
    ASSUME NEW X, NEW p, NEW k, NEW is, NEW vs, NEW s, NEW n, Certificate(X, p, k, is, vs, s, n), NEW i \in p.on
    PROVE  \E g, l, r, d : LoweredAt(X, vs, s, is[i], X.start[i], X.start[i + 1], g, l, r, d)
<1>1. PICK a, b, x : a = X.start[i] /\ b = X.start[i + 1] /\ x = is[i]
  OBVIOUS
<1>2. Laid(x, vs, s, X.code, a, b)
  BY <1>1, InstThere
<1>3. PICK g : Lowering(x, vs, s, g) /\ b = a + Len(g) /\ \A h \in 1..Len(g) : X.code[a + h - 1] = g[h]
  BY <1>2 DEF Laid
<1>4. PICK l, r, d : Operated(x, vs, s, l, r, d) /\ g = LoweredTo(x, l, r, d)
  BY <1>3 DEF Lowering
<1>5. Fit(x, vs) /\ IsList(g) /\ Len(g) >= 1 /\ a \in Nat
  BY <1>2, <1>3, LoweringMarked DEF Lowering, Marked, Laid
<1>6. Found(X, a, g)
  BY <1>3 DEF Found
<1>7. LoweredAt(X, vs, s, x, a, b, g, l, r, d)
  BY <1>3, <1>4, <1>5, <1>6 DEF LoweredAt
<1> QED BY <1>1, <1>7

\* After a run that puts a value of the destination's range where it is kept.
LEMMA WriteGoes ==
    ASSUME NEW X, NEW p, NEW k, NEW is, NEW vs, NEW s, NEW n, NEW i, NEW P, Arrived(X, p, k, is, vs, s, n, i, P),
           NEW x, WriteOk(p, vs, x, i),
           NEW g, NEW l, NEW r, NEW d, LoweredAt(X, vs, s, x, X.start[i], X.start[i + 1], g, l, r, d),
           NEW t, t = X.place[x.dst], NEW a \in p.range[x.dst], Runs(X, g, P, Scratch, t, a)
    PROVE  Going(X, X.start[i], P)
<1>1. PICK Q : Chain(X, g, P, Q) /\ Sets(P, Q, Scratch, t, a)
  BY DEF Runs
<1>2. Certificate(X, p, k, is, vs, s, n) /\ Knows(X, p, P, p.live[i]) /\ i \in p.on
  BY DEF Arrived
<1>3. PICK S : S = p.live[i] \cup {x.dst}
  OBVIOUS
<1>4. x.dst \in 1..Len(vs) /\ ~vs[x.dst].is_constant /\ Follows(p, i, S)
  BY <1>3 DEF WriteOk
<1>5. x.dst \in X.vars
  BY <1>2, <1>4 DEF Certificate
<1>6. ASSUME NEW v \in S, v \in X.vars PROVE X.place[v] \in DOMAIN Q /\ Q[X.place[v]] \in p.range[v]
  <2>1. CASE v = x.dst
    BY <1>1, <2>1 DEF Sets
  <2>2. CASE v # x.dst
    <3>1. v \in p.live[i]
      BY <1>3, <2>2
    <3>2. X.place[v] \in DOMAIN P /\ P[X.place[v]] \in p.range[v]
      BY <1>2, <1>6, <3>1 DEF Knows
    <3>3. /\ v \in 1..Len(vs) /\ ~vs[v].is_constant /\ X.place[v] = PlaceOf(v, vs, s)
          /\ X.place[x.dst] = PlaceOf(x.dst, vs, s)
      BY <1>2, <1>5, <1>6 DEF Certificate
    <3>4. NamesApart(vs, n) /\ Len(s) \in Nat /\ Distinct(s)
      BY <1>2 DEF Certificate
    <3>5. PICK w : w = x.dst
      OBVIOUS
    <3>6. PlaceOf(v, vs, s) \notin Scratch /\ (PlaceOf(v, vs, s) = PlaceOf(w, vs, s) => v = w)
      BY <1>4, <3>3, <3>4, <3>5, PlacesApart
    <3>7. X.place[v] \notin Scratch /\ X.place[v] # t
      BY <2>2, <3>3, <3>5, <3>6
    <3> QED BY <1>1, <3>2, <3>7 DEF Sets
  <2> QED BY <2>1, <2>2
<1>7. Knows(X, p, Q, S)
  BY <1>6 DEF Knows
<1>8. Lands(X, X.start[i + 1], Q)
  BY <1>2, <1>4, <1>7, LandsBehind
<1>9. PICK j, m : j = X.start[i] /\ m = Len(g)
  OBVIOUS
<1>10. j \in Nat /\ X.start[i + 1] = j + m /\ IsList(g) /\ Len(g) >= 1 /\ Found(X, j, g)
  BY <1>9 DEF LoweredAt
<1>11. Ends(X, j + m, Q)
  BY <1>8, <1>10 DEF Ends
<1>12. Going(X, j, P)
  BY <1>1, <1>9, <1>10, <1>11, ChainGoes
<1> QED BY <1>9, <1>12

\* What is needed of a destination.
LEMMA WriteTarget ==
    ASSUME NEW X, NEW p, NEW k, NEW is, NEW vs, NEW s, NEW n, NEW i, NEW P, Arrived(X, p, k, is, vs, s, n, i, P),
           NEW x, WriteOk(p, vs, x, i), NEW d, Serves(vs, s, x.dst, d)
    PROVE  x.dst \in X.vars /\ Target(X, d, X.place[x.dst])
<1>1. x.dst \in X.vars
  BY DEF WriteOk, Arrived, Certificate
<1>2. PICK v : v = x.dst
  OBVIOUS
<1>3. Target(X, d, X.place[v])
  BY <1>1, <1>2, TargetThere DEF Arrived
<1> QED BY <1>1, <1>2, <1>3

\* A unary operator.
LEMMA UnaryGoes ==
    ASSUME NEW X, NEW p, NEW k, NEW is, NEW vs, NEW s, NEW n, NEW i, NEW P, Arrived(X, p, k, is, vs, s, n, i, P),
           NEW x, WriteOk(p, vs, x, i), x.type = "UNARY", UnaryOk(p, vs, x, i),
           NEW g, NEW l, NEW r, NEW d, LoweredAt(X, vs, s, x, X.start[i], X.start[i + 1], g, l, r, d)
    PROVE  Going(X, X.start[i], P)
<1>1. Fit(x, vs) /\ Operated(x, vs, s, l, r, d) /\ g = LoweredTo(x, l, r, d)
  BY DEF LoweredAt
<1>2. Serves(vs, s, x.lhs, l) /\ Serves(vs, s, x.dst, d)
  BY <1>1 DEF Operated
<1>3. PICK t : t = X.place[x.dst]
  OBVIOUS
<1>4. x.dst \in X.vars /\ Target(X, d, t)
  BY <1>2, <1>3, WriteTarget
<1>5. Certificate(X, p, k, is, vs, s, n) /\ Knows(X, p, P, p.live[i])
  BY DEF Arrived
<1>6. PICK v : v = x.lhs
  OBVIOUS
<1>7. Ready(vs, v, p.live[i]) /\ x.dst # v
  BY <1>6 DEF UnaryOk
<1>8. Held(X, p, vs, s, v, l, P)
  BY <1>2, <1>5, <1>6, <1>7, OperandHeld
<1>9. PICK a \in p.range[v] : Rests(P, l, a)
  BY <1>8 DEF Held
<1>10. IsOpnd(l) /\ (IsImm(l) \/ t # Loc(l))
  BY <1>3, <1>4, <1>7, <1>8 DEF Held
<1>11. x.op \in UnaryOps
  BY <1>1 DEF Fit, Lowerable, Unimplemented
<1>12. PICK o : o = x.op
  OBVIOUS
<1>13. Runs(X, lower_ir_unary(o, l, d), P, Scratch, t, UnGives(o, a))
  BY <1>4, <1>9, <1>10, <1>11, <1>12, UnaryRuns
<1>14. PICK b : b = UnGives(o, a)
  OBVIOUS
<1>15. b \in p.range[x.dst]
  BY <1>6, <1>9, <1>12, <1>14 DEF UnaryOk
<1>16. g = lower_ir_unary(o, l, d)
  BY <1>1, <1>12 DEF LoweredTo
<1>17. Runs(X, g, P, Scratch, t, b)
  BY <1>13, <1>14, <1>16
<1> QED BY <1>3, <1>15, <1>17, WriteGoes

\* A binary operator.
LEMMA BinaryGoes ==
    ASSUME NEW X, NEW p, NEW k, NEW is, NEW vs, NEW s, NEW n, NEW i, NEW P, Arrived(X, p, k, is, vs, s, n, i, P),
           NEW x, WriteOk(p, vs, x, i), x.type = "BINARY", BinaryOk(k, p, vs, x, i),
           NEW g, NEW l, NEW r, NEW d, LoweredAt(X, vs, s, x, X.start[i], X.start[i + 1], g, l, r, d)
    PROVE  Going(X, X.start[i], P)
<1>1. Fit(x, vs) /\ Operated(x, vs, s, l, r, d) /\ g = LoweredTo(x, l, r, d)
  BY DEF LoweredAt
<1>2. Serves(vs, s, x.lhs, l) /\ Serves(vs, s, x.rhs, r) /\ Serves(vs, s, x.dst, d)
  BY <1>1 DEF Operated
<1>3. PICK t : t = X.place[x.dst]
  OBVIOUS
<1>4. x.dst \in X.vars /\ Target(X, d, t)
  BY <1>2, <1>3, WriteTarget
<1>5. Certificate(X, p, k, is, vs, s, n) /\ Knows(X, p, P, p.live[i]) /\ X.m = k.m
  BY DEF Arrived, Certificate
<1>6. PICK v, w : v = x.lhs /\ w = x.rhs
  OBVIOUS
<1>7. Ready(vs, v, p.live[i]) /\ Ready(vs, w, p.live[i]) /\ x.dst # v /\ x.dst # w
  BY <1>6 DEF BinaryOk
<1>8. Held(X, p, vs, s, v, l, P) /\ Held(X, p, vs, s, w, r, P)
  BY <1>2, <1>5, <1>6, <1>7, OperandHeld
<1>9. PICK a \in p.range[v] : Rests(P, l, a)
  BY <1>8 DEF Held
<1>10. PICK b \in p.range[w] : Rests(P, r, b)
  BY <1>8 DEF Held
<1>11. IsImm(r) \/ t # Loc(r)
  BY <1>3, <1>4, <1>7, <1>8 DEF Held
<1>12. PICK o : o = x.op
  OBVIOUS
<1>13. o \in BinaryOps
  BY <1>1, <1>12 DEF Fit, Lowerable, Unimplemented
<1>14. Gives(o, a, b) \in p.range[x.dst] /\ (X.m = "exact" => ~Traps(o, a, b))
  BY <1>5, <1>6, <1>9, <1>10, <1>12 DEF BinaryOk
<1>15. Runs(X, lower_ir_binary(o, l, r, d), P, Scratch, t, Gives(o, a, b))
  BY <1>4, <1>9, <1>10, <1>11, <1>13, <1>14, BinaryRuns
<1>16. PICK c : c = Gives(o, a, b)
  OBVIOUS
<1>17. g = lower_ir_binary(o, l, r, d)
  BY <1>1, <1>12 DEF LoweredTo
<1>18. Runs(X, g, P, Scratch, t, c)
  BY <1>15, <1>16, <1>17
<1> QED BY <1>3, <1>14, <1>16, <1>18, WriteGoes

\* A copy.
LEMMA CopyGoes ==
    ASSUME NEW X, NEW p, NEW k, NEW is, NEW vs, NEW s, NEW n, NEW i, NEW P, Arrived(X, p, k, is, vs, s, n, i, P),
           NEW x, WriteOk(p, vs, x, i), x.type = "COPY", CopyOk(p, vs, x),
           NEW g, NEW l, NEW r, NEW d, LoweredAt(X, vs, s, x, X.start[i], X.start[i + 1], g, l, r, d)
    PROVE  Going(X, X.start[i], P)
<1>1. Operated(x, vs, s, l, r, d) /\ g = LoweredTo(x, l, r, d)
  BY DEF LoweredAt
<1>2. Serves(vs, s, x.lhs, l) /\ Serves(vs, s, x.dst, d)
  BY <1>1 DEF Operated
<1>3. PICK t : t = X.place[x.dst]
  OBVIOUS
<1>4. x.dst \in X.vars /\ Target(X, d, t)
  BY <1>2, <1>3, WriteTarget
<1>5. Certificate(X, p, k, is, vs, s, n) /\ Knows(X, p, P, p.live[i])
  BY DEF Arrived
<1>6. PICK v : v = x.lhs
  OBVIOUS
<1>7. Ready(vs, v, p.live[i]) /\ p.range[v] \subseteq p.range[x.dst]
  BY <1>6 DEF CopyOk, Ready
<1>8. Held(X, p, vs, s, v, l, P)
  BY <1>2, <1>5, <1>6, <1>7, OperandHeld
<1>9. PICK a \in p.range[v] : Rests(P, l, a)
  BY <1>8 DEF Held
<1>10. Reads(P, l, a)
  BY <1>9 DEF Rests
<1>11. d.kind \in {"reg", "stack"} /\ t = Loc(d) /\ In(X, t)
  BY <1>4, TargetFacts
<1>12. Reg("R10") \in Scratch
  BY ScratchFacts
<1>13. Runs(X, insert_mov(l, d, "m"), P, Scratch, t, a)
  BY <1>10, <1>11, <1>12, MovRuns
<1>14. g = insert_mov(l, d, "m")
  BY <1>1 DEF LoweredTo
<1>15. a \in p.range[x.dst]
  BY <1>7, <1>9
<1>16. Runs(X, g, P, Scratch, t, a)
  BY <1>13, <1>14
<1> QED BY <1>3, <1>15, <1>16, WriteGoes

\* A list that ends with one more instruction.
LEMMA FoundEnd ==
    ASSUME NEW X, NEW j \in Nat, NEW q, IsList(q), NEW z, NEW g, g = q \o <<z>>, Found(X, j, g)
    PROVE  /\ Found(X, j, q) /\ Len(q) \in Nat /\ Len(g) = Len(q) + 1
           /\ X.code[j + Len(q)] = z
<1>1. <<z>> \in Seq({z}) /\ Len(<<z>>) = 1 /\ <<z>>[1] = z
  OBVIOUS
<1>2. IsList(<<z>>)
  BY <1>1 DEF IsList
<1>3. PICK y : y = <<z>>
  OBVIOUS
<1>4. Joined(q, y, g)
  BY <1>2, <1>3, ConcatParts
<1>5. Len(y) = 1 /\ y[1] = z
  BY <1>1, <1>3
<1>6. Len(q) \in Nat /\ Len(g) = Len(q) + 1
  BY <1>4, <1>5 DEF Joined
<1>7. ASSUME NEW i \in 1..Len(q) PROVE X.code[j + i - 1] = q[i]
  <2>1. i \in 1..Len(g) /\ g[i] = q[i]
    BY <1>4, <1>6 DEF Joined
  <2> QED BY <2>1 DEF Found
<1>8. X.code[j + Len(q)] = z
  <2>1. PICK h : h = Len(q) + 1
    OBVIOUS
  <2>2. 1 \in 1..Len(y)
    BY <1>5
  <2>3. g[h] = z
    BY <1>4, <1>5, <2>1, <2>2 DEF Joined
  <2>4. h \in 1..Len(g) /\ j + h - 1 = j + Len(q)
    BY <1>6, <2>1
  <2>5. X.code[j + h - 1] = g[h]
    BY <2>4 DEF Found
  <2> QED BY <2>3, <2>4, <2>5
<1> QED BY <1>6, <1>7, <1>8 DEF Found

\* What is known stays when only helpers are written.
LEMMA KnowsStays ==
    ASSUME NEW X, NEW p, NEW k, NEW is, NEW vs, NEW s, NEW n, Certificate(X, p, k, is, vs, s, n),
           NEW P, NEW S, Knows(X, p, P, S), NEW Q, NEW l \in Scratch, NEW a, Sets(P, Q, Scratch, l, a)
    PROVE  Knows(X, p, Q, S)
<1>1. ASSUME NEW v \in S, v \in X.vars PROVE X.place[v] \in DOMAIN Q /\ Q[X.place[v]] \in p.range[v]
  <2>1. X.place[v] \in DOMAIN P /\ P[X.place[v]] \in p.range[v]
    BY <1>1 DEF Knows
  <2>2. v \in 1..Len(vs) /\ ~vs[v].is_constant /\ X.place[v] = PlaceOf(v, vs, s)
    BY <1>1 DEF Certificate
  <2>3. NamesApart(vs, n) /\ Len(s) \in Nat /\ Distinct(s)
    BY DEF Certificate
  <2>4. PlaceOf(v, vs, s) \notin Scratch
    BY <2>2, <2>3, PlacesApart
  <2> QED BY <2>1, <2>2, <2>4 DEF Sets
<1> QED BY <1>1 DEF Knows

\* A test and its jump.
LEMMA TestGoes ==
    ASSUME NEW X, NEW p, NEW k, NEW is, NEW vs, NEW s, NEW n, NEW i, NEW P, Arrived(X, p, k, is, vs, s, n, i, P),
           NEW x, x.type \in {"JZ", "JNZ"}, TestOk(p, is, vs, {}, x, i),
           NEW g, NEW l, NEW r, NEW d, LoweredAt(X, vs, s, x, X.start[i], X.start[i + 1], g, l, r, d)
    PROVE  Going(X, X.start[i], P)
<1>1. Operated(x, vs, s, l, r, d) /\ g = LoweredTo(x, l, r, d)
  BY DEF LoweredAt
<1>2. Serves(vs, s, x.lhs, l)
  BY <1>1 DEF Operated
<1>3. Certificate(X, p, k, is, vs, s, n) /\ Knows(X, p, P, p.live[i]) /\ i \in p.on
  BY DEF Arrived
<1>4. PICK v : v = x.lhs
  OBVIOUS
<1>5. Ready(vs, v, p.live[i])
  BY <1>4 DEF TestOk
<1>6. Held(X, p, vs, s, v, l, P)
  BY <1>2, <1>3, <1>4, <1>5, OperandHeld
<1>7. PICK a \in p.range[v] : Rests(P, l, a)
  BY <1>6 DEF Held
<1>8. PICK z : z = create_immediate(0, "zero")
  OBVIOUS
<1>9. Rests(P, z, 0)
  BY <1>8, ZeroRests
<1>10. PICK q : q = insert_cmp(z, l)
  OBVIOUS
<1>11. PICK u : u = 0
  OBVIOUS
<1>12. Rests(P, z, u)
  BY <1>9, <1>11
<1>13. Runs(X, insert_cmp(z, l), P, Scratch, Flags, <<a, u>>)
  BY <1>7, <1>12, CmpRuns
<1>14. PICK e : e = <<a, u>>
  OBVIOUS
<1>15. Runs(X, q, P, Scratch, Flags, e)
  BY <1>10, <1>13, <1>14
<1>16. PICK Q : Chain(X, q, P, Q) /\ Sets(P, Q, Scratch, Flags, e)
  BY <1>15 DEF Runs
<1>17. Straight(q)
  BY <1>10, CmpStraight
<1>18. IsList(q) /\ Len(q) >= 1
  BY <1>17 DEF Straight
<1>19. PICK c : c = IF x.type = "JZ" THEN "EQ" ELSE "NE"
  OBVIOUS
<1>20. PICK y : y = [Inst("JMPCC", NoOpnd, NoOpnd) EXCEPT !.code = c, !.label = x.label]
  OBVIOUS
<1>21. y.type = "JMPCC" /\ y.code = c /\ y.label = x.label
  BY <1>20 DEF Inst
<1>22. g = q \o <<y>>
  BY <1>1, <1>8, <1>10, <1>19, <1>20 DEF LoweredTo, lower_cond_jump, JumpIf
<1>23. PICK j, m : j = X.start[i] /\ m = Len(q)
  OBVIOUS
<1>24. j \in Nat /\ Found(X, j, g) /\ X.start[i + 1] = j + Len(g)
  BY <1>23 DEF LoweredAt
<1>25. Found(X, j, q) /\ m \in Nat /\ Len(g) = m + 1 /\ X.code[j + m] = y
  <2>1. Found(X, j, q) /\ Len(q) \in Nat /\ X.code[j + Len(q)] = y
    BY <1>18, <1>22, <1>24, FoundEnd
  <2>2. PICK f : f = q \o <<y>>
    OBVIOUS
  <2>3. Found(X, j, f) /\ j \in Nat /\ IsList(q)
    BY <1>18, <1>22, <1>24, <2>2
  <2>4. Len(f) = Len(q) + 1
    BY <2>2, <2>3, FoundEnd
  <2> QED BY <1>22, <1>23, <2>1, <2>2, <2>4
<1>26. PICK h : h = j + m
  OBVIOUS
<1>27. X.code[h] = y /\ h + 1 = X.start[i + 1] /\ h \in Nat
  BY <1>24, <1>25, <1>26
<1>28. Knows(X, p, Q, p.live[i])
  <2>1. Flags \in Scratch
    BY ScratchFacts
  <2>2. PICK w, S : w = Flags /\ S = p.live[i]
    OBVIOUS
  <2>3. w \in Scratch /\ Sets(P, Q, Scratch, w, e) /\ Knows(X, p, P, S)
    BY <1>3, <1>16, <2>1, <2>2
  <2>4. Knows(X, p, Q, S)
    BY <1>3, <2>3, KnowsStays
  <2> QED BY <2>2, <2>4
<1>29. Flags \in DOMAIN Q /\ Q[Flags] = e /\ e[1] = a /\ e[2] = 0
  BY <1>11, <1>14, <1>16 DEF Sets
<1>30. Jumping(x.type, a) => Leads(X, x.label, Q)
  <2>1. SUFFICES ASSUME Jumping(x.type, a) PROVE Leads(X, x.label, Q)
    OBVIOUS
  <2>2. Arrives(p, is, {}, x.label, p.live[i])
    BY <1>4, <1>7, <2>1 DEF TestOk
  <2>3. PICK t, S : t = x.label /\ S = p.live[i]
    OBVIOUS
  <2>4. Arrives(p, is, {}, t, S) /\ Knows(X, p, Q, S)
    BY <1>28, <2>2, <2>3
  <2>5. Leads(X, t, Q)
    BY <1>3, <2>4, LabelLeads
  <2> QED BY <2>3, <2>5
<1>31. ~Jumping(x.type, a) => Lands(X, h + 1, Q)
  <2>1. SUFFICES ASSUME ~Jumping(x.type, a) PROVE Lands(X, h + 1, Q)
    OBVIOUS
  <2>2. Follows(p, i, p.live[i])
    BY <1>4, <1>7, <2>1 DEF TestOk
  <2>3. PICK S : S = p.live[i]
    OBVIOUS
  <2>4. Follows(p, i, S) /\ Knows(X, p, Q, S)
    BY <1>28, <2>2, <2>3
  <2>5. Lands(X, X.start[i + 1], Q)
    BY <1>3, <2>4, LandsBehind
  <2> QED BY <1>27, <2>5
<1>32. Holds(c, a, 0) <=> Jumping(x.type, a)
  <2>1. CASE x.type = "JZ"
    BY <1>19, <2>1 DEF Holds, Jumping
  <2>2. CASE x.type = "JNZ"
    BY <1>19, <2>2 DEF Holds, Jumping
  <2> QED BY <2>1, <2>2
<1>33. BranchStop(X, h, Q)
  <2>1. CASE Jumping(x.type, a)
    BY <1>21, <1>27, <1>29, <1>30, <1>32, <2>1 DEF BranchStop
  <2>2. CASE ~Jumping(x.type, a)
    BY <1>21, <1>27, <1>29, <1>31, <1>32, <2>2 DEF BranchStop
  <2> QED BY <2>1, <2>2
<1>34. Ends(X, j + m, Q)
  BY <1>26, <1>33 DEF Ends, Stops
<1>35. Going(X, j, P)
  BY <1>16, <1>18, <1>23, <1>24, <1>25, <1>34, ChainGoes
<1> QED BY <1>23, <1>35

\* The return.
LEMMA ReturnGoes ==
    ASSUME NEW X, NEW p, NEW k, NEW is, NEW vs, NEW s, NEW n, NEW i, NEW P, Arrived(X, p, k, is, vs, s, n, i, P),
           NEW x, x.type = "RETURN", ReturnOk(k, p, vs, x, i),
           NEW g, NEW l, NEW r, NEW d, LoweredAt(X, vs, s, x, X.start[i], X.start[i + 1], g, l, r, d)
    PROVE  Going(X, X.start[i], P)
<1>1. Operated(x, vs, s, l, r, d) /\ g = LoweredTo(x, l, r, d)
  BY DEF LoweredAt
<1>2. Serves(vs, s, x.lhs, l)
  BY <1>1 DEF Operated
<1>3. Certificate(X, p, k, is, vs, s, n) /\ Knows(X, p, P, p.live[i]) /\ X.goal = k.V[k.r]
  BY DEF Arrived, Certificate
<1>4. PICK v : v = x.lhs
  OBVIOUS
<1>5. Ready(vs, v, p.live[i]) /\ p.range[v] \subseteq X.goal
  BY <1>3, <1>4 DEF ReturnOk
<1>6. Held(X, p, vs, s, v, l, P)
  BY <1>2, <1>3, <1>4, <1>5, OperandHeld
<1>7. PICK a \in p.range[v] : Rests(P, l, a)
  BY <1>6 DEF Held
<1>8. PICK e, t : e = create_register("AX", "r1") /\ t = Reg("AX")
  OBVIOUS
<1>9. e.kind \in {"reg", "stack"} /\ t = Loc(e) /\ In(X, t)
  BY <1>8, MadeOperands DEF Registers
<1>10. Reads(P, l, a) /\ Reg("R10") \in Scratch
  BY <1>7, ScratchFacts DEF Rests
<1>11. Runs(X, insert_mov(l, e, "m"), P, Scratch, t, a)
  BY <1>9, <1>10, MovRuns
<1>12. PICK q : q = insert_mov(l, e, "m")
  OBVIOUS
<1>13. PICK Q : Chain(X, q, P, Q) /\ Sets(P, Q, Scratch, t, a)
  BY <1>11, <1>12 DEF Runs
<1>14. Straight(q)
  BY <1>12, MovStraight
<1>15. IsList(q) /\ Len(q) >= 1
  BY <1>14 DEF Straight
<1>16. PICK y : y = Inst("RETURN", NoOpnd, NoOpnd)
  OBVIOUS
<1>17. y.type = "RETURN"
  BY <1>16 DEF Inst
<1>18. g = q \o <<y>>
  BY <1>1, <1>8, <1>12, <1>16 DEF LoweredTo, lower_ir_return, Plain
<1>19. PICK j, m : j = X.start[i] /\ m = Len(q)
  OBVIOUS
<1>20. j \in Nat /\ Found(X, j, g)
  BY <1>19 DEF LoweredAt
<1>21. Found(X, j, q) /\ m \in Nat /\ X.code[j + m] = y
  <2>1. Found(X, j, q) /\ Len(q) \in Nat /\ X.code[j + Len(q)] = y
    BY <1>15, <1>18, <1>20, FoundEnd
  <2> QED BY <1>19, <2>1
<1>22. ReturnStop(X, j + m, Q)
  BY <1>5, <1>7, <1>8, <1>13, <1>17, <1>21 DEF ReturnStop, Sets
<1>23. Ends(X, j + m, Q)
  BY <1>22 DEF Ends, Stops
<1>24. Going(X, j, P)
  BY <1>13, <1>15, <1>19, <1>20, <1>21, <1>23, ChainGoes
<1> QED BY <1>19, <1>24

\* A jump, and a label.
LEMMA PlainGoes ==
    ASSUME NEW X, NEW p, NEW k, NEW is, NEW vs, NEW s, NEW n, NEW i, NEW P, Arrived(X, p, k, is, vs, s, n, i, P),
           NEW x, x = is[i],
           \/ x.type = "JMP" /\ Arrives(p, is, {}, x.label, p.live[i])
           \/ x.type = "LABEL" /\ Follows(p, i, p.live[i]),
           NEW g, NEW l, NEW r, NEW d, LoweredAt(X, vs, s, x, X.start[i], X.start[i + 1], g, l, r, d)
    PROVE  Going(X, X.start[i], P)
<1>1. Certificate(X, p, k, is, vs, s, n) /\ Knows(X, p, P, p.live[i]) /\ i \in p.on
  BY DEF Arrived
<1>2. PICK S : S = p.live[i]
  OBVIOUS
<1>3. CASE x.type = "LABEL"
  <2>1. Follows(p, i, S) /\ Knows(X, p, P, S)
    BY <1>1, <1>2, <1>3
  <2>2. Lands(X, X.start[i + 1], P)
    BY <1>1, <2>1, LandsBehind
  <2>3. i \in 1..Len(is)
    BY <1>1, InstThere
  <2>4. LabelledAt(X, is[i].label, X.start[i]) /\ X.start[i + 1] = X.start[i] + 1
    BY <1>1, <1>3, <2>3, LabelThere
  <2>5. PassStop(X, X.start[i], P)
    BY <2>2, <2>4 DEF PassStop, LabelledAt
  <2> QED BY <2>5 DEF Going, Stops
<1>4. CASE x.type = "JMP"
  <2>1. Arrives(p, is, {}, x.label, S) /\ Knows(X, p, P, S)
    BY <1>1, <1>2, <1>4
  <2>2. PICK t, j : t = x.label /\ j = X.start[i]
    OBVIOUS
  <2>3. Leads(X, t, P)
    BY <1>1, <2>1, <2>2, LabelLeads
  <2>4. PICK y : y = [Inst("JMP", NoOpnd, NoOpnd) EXCEPT !.label = t]
    OBVIOUS
  <2>5. y.type = "JMP" /\ y.label = t
    BY <2>4 DEF Inst
  <2>6. g = <<y>> /\ j \in Nat /\ Found(X, j, g)
    BY <1>4, <2>2, <2>4 DEF LoweredAt, LoweredTo, JumpTo
  <2>7. Len(g) = 1 /\ g[1] = y
    BY <2>6
  <2>8. X.code[j + 1 - 1] = y
    BY <2>6, <2>7 DEF Found
  <2>9. X.code[j] = y
    BY <2>6, <2>8
  <2>10. JumpStop(X, j, P)
    BY <2>3, <2>5, <2>9 DEF JumpStop
  <2> QED BY <2>2, <2>10 DEF Going, Stops
<1> QED BY <1>3, <1>4

\* Wherever the processor lands in the code, it goes on.
LEMMA CodeSure ==
    ASSUME NEW X, NEW p, NEW k, NEW is, NEW vs, NEW s, NEW n, Certificate(X, p, k, is, vs, s, n)
    PROVE  Sure(X)
<1>1. SUFFICES ASSUME NEW j, NEW P, Lands(X, j, P) PROVE Going(X, j, P)
  BY DEF Sure
<1>2. PICK i \in X.on : j = X.start[i] /\ Fits(X, i, P)
  BY <1>1 DEF Lands
<1>3. i \in p.on /\ Knows(X, p, P, p.live[i])
  BY <1>2 DEF Fits, Knows, Certificate
<1>4. Arrived(X, p, k, is, vs, s, n, i, P)
  BY <1>3 DEF Arrived
<1>5. PICK x : x = is[i]
  OBVIOUS
<1>6. PICK g, l, r, d : LoweredAt(X, vs, s, x, X.start[i], X.start[i + 1], g, l, r, d)
  BY <1>3, <1>5, LoweringThere
<1>7. Lowerable(x) /\ x.type \in Types
  BY <1>6 DEF LoweredAt, Fit, Whole
<1>8. InstOk(k, p, is, vs, {}, x, i)
  BY <1>3, <1>5, InstThere
<1>9. CASE x.type = "UNARY"
  <2>1. UnaryOk(p, vs, x, i) /\ WriteOk(p, vs, x, i)
    BY <1>7, <1>8, <1>9 DEF InstOk
  <2> QED BY <1>2, <1>4, <1>6, <1>9, <2>1, UnaryGoes
<1>10. CASE x.type = "BINARY"
  <2>1. BinaryOk(k, p, vs, x, i) /\ WriteOk(p, vs, x, i)
    BY <1>7, <1>8, <1>10 DEF InstOk
  <2> QED BY <1>2, <1>4, <1>6, <1>10, <2>1, BinaryGoes
<1>11. CASE x.type = "COPY"
  <2>1. CopyOk(p, vs, x) /\ WriteOk(p, vs, x, i)
    BY <1>7, <1>8, <1>11 DEF InstOk
  <2> QED BY <1>2, <1>4, <1>6, <1>11, <2>1, CopyGoes
<1>12. CASE x.type \in {"JZ", "JNZ"}
  <2>1. TestOk(p, is, vs, {}, x, i)
    BY <1>7, <1>8, <1>12 DEF InstOk
  <2> QED BY <1>2, <1>4, <1>6, <1>12, <2>1, TestGoes
<1>13. CASE x.type = "RETURN"
  <2>1. ReturnOk(k, p, vs, x, i)
    BY <1>7, <1>8, <1>13 DEF InstOk
  <2> QED BY <1>2, <1>4, <1>6, <1>13, <2>1, ReturnGoes
<1>14. CASE x.type = "LABEL"
  <2>1. Follows(p, i, p.live[i])
    BY <1>7, <1>8, <1>14 DEF InstOk
  <2> QED BY <1>2, <1>4, <1>5, <1>6, <1>14, <2>1, PlainGoes
<1>15. CASE x.type = "JMP"
  <2>1. Arrives(p, is, {}, x.label, p.live[i])
    BY <1>7, <1>8, <1>15 DEF InstOk
  <2> QED BY <1>2, <1>4, <1>5, <1>6, <1>15, <2>1, PlainGoes
<1> QED BY <1>7, <1>9, <1>10, <1>11, <1>12, <1>13, <1>14, <1>15 DEF Types, Jumps

\* The program starts in front of the first instruction, or of the reservation before it.
Entered(X) == X.start[1] = 1 \/ (X.start[1] = 2 /\ X.code[1].type = "ALLOCSTACK")

\* So the start leads on, whatever is known.
LEMMA CodeAhead ==
    ASSUME NEW X, NEW p, NEW k, NEW is, NEW vs, NEW s, NEW n, Certificate(X, p, k, is, vs, s, n), Entered(X), NEW P
    PROVE  Ahead(X, 1, P)
<1>1. 1 \in p.on /\ p.live[1] = {}
  BY DEF Certificate, Planned
<1>2. PICK i, S : i = 1 /\ S = {}
  OBVIOUS
<1>3. i \in p.on /\ p.live[i] \subseteq S /\ Knows(X, p, P, S)
  BY <1>1, <1>2 DEF Knows
<1>4. Lands(X, X.start[i], P)
  BY <1>3, LandsThere
<1>5. Ends(X, 1, P)
  <2>1. CASE X.start[1] = 1
    BY <1>2, <1>4, <2>1 DEF Ends
  <2>2. CASE X.start[1] = 2 /\ X.code[1].type = "ALLOCSTACK"
    <3>1. Lands(X, 1 + 1, P)
      BY <1>2, <1>4, <2>2
    <3> QED BY <2>2, <3>1 DEF Ends, Stops, PassStop
  <2> QED BY <2>1, <2>2 DEF Entered
<1>6. Walk(X, 1, P, 0, P)
  <2>1. PICK w : w = [h \in {1} |-> P]
    OBVIOUS
  <2>2. w[1] = P /\ 0 + 1 = 1 /\ 1..0 = {}
    BY <2>1
  <2>3. w[0 + 1] = P
    BY <2>2
  <2>4. \A h \in 1..0 : Moves(X, X.code[1 + h - 1], w[h], w[h + 1])
    BY <2>2
  <2> QED BY <2>2, <2>3, <2>4 DEF Walk
<1>7. 0 \in Nat /\ 1 \in Nat /\ 1 + 0 = 1
  OBVIOUS
<1>8. Ends(X, 1 + 0, P)
  BY <1>5, <1>7
<1> QED BY <1>6, <1>7, <1>8 DEF Ahead

-----------------------------------------------------------------------------
(* The lowering keeps to the layout.                                       *)

\* A variable that had no slot gets one behind the others.
LEMMA SlotBehind ==
    ASSUME NEW s, IsList(s), Distinct(s), NEW v, NEW t, t = slot_taken(s, v)
    PROVE  IsList(t) /\ Distinct(t) /\ Wider(s, t)
<1>1. Len(s) \in Nat
  BY AppendFacts
<1>2. PICK n : n = vals[v].val
  OBVIOUS
<1>3. CASE v = 0 \/ vals[v].is_constant \/ Contains(s, n)
  <2>1. t = s
    BY <1>2, <1>3 DEF slot_taken
  <2> QED BY <1>1, <2>1 DEF Wider
<1>4. CASE ~(v = 0 \/ vals[v].is_constant \/ Contains(s, n))
  <2>1. t = Append(s, n)
    BY <1>2, <1>4 DEF slot_taken
  <2>2. /\ IsList(t) /\ Len(t) = Len(s) + 1 /\ t[Len(s) + 1] = n
        /\ \A j \in 1..Len(s) : t[j] = s[j]
    BY <2>1, AppendFacts
  <2>3. \A j \in 1..Len(s) : s[j] # n
    BY <1>4 DEF Contains
  <2>4. ASSUME NEW g \in 1..Len(t), NEW h \in 1..Len(t), t[g] = t[h] PROVE g = h
    <3>1. (g \in 1..Len(s) \/ g = Len(s) + 1) /\ (h \in 1..Len(s) \/ h = Len(s) + 1)
      BY <1>1, <2>2
    <3>2. CASE g \in 1..Len(s) /\ h \in 1..Len(s)
      BY <2>2, <2>4, <3>2 DEF Distinct
    <3>3. CASE ~(g \in 1..Len(s) /\ h \in 1..Len(s))
      BY <2>2, <2>3, <2>4, <3>1, <3>3
    <3> QED BY <3>2, <3>3
  <2>5. Distinct(t)
    BY <2>4 DEF Distinct
  <2>6. Wider(s, t)
    BY <1>1, <2>2 DEF Wider
  <2> QED BY <2>2, <2>5, <2>6
<1> QED BY <1>3, <1>4

\* The same for the slots of an instruction's operands.
LEMMA SlotsBehind ==
    ASSUME IsList(slots), Distinct(slots), NEW x, NEW s, s = SlotsFor(x)
    PROVE  IsList(s) /\ Distinct(s) /\ Wider(slots, s)
<1>1. PICK l, r, d : l = x.lhs /\ r = x.rhs /\ d = x.dst
  OBVIOUS
<1>2. PICK a : a = slot_taken(slots, l)
  OBVIOUS
<1>3. PICK b : b = slot_taken(a, r)
  OBVIOUS
<1>4. s = slot_taken(b, d)
  BY <1>1, <1>2, <1>3 DEF SlotsFor
<1>5. IsList(a) /\ Distinct(a) /\ Wider(slots, a)
  BY <1>2, SlotBehind
<1>6. IsList(b) /\ Distinct(b) /\ Wider(a, b)
  BY <1>3, <1>5, SlotBehind
<1>7. IsList(s) /\ Distinct(s) /\ Wider(b, s)
  BY <1>4, <1>6, SlotBehind
<1>8. /\ Len(slots) \in Nat /\ Len(a) \in Nat /\ Len(b) \in Nat /\ Len(s) \in Nat
      /\ Len(slots) <= Len(a) /\ Len(a) <= Len(b) /\ Len(b) <= Len(s)
  BY <1>5, <1>6, <1>7 DEF Wider
<1>9. ASSUME NEW v \in 1..Len(slots) PROVE s[v] = slots[v]
  <2>1. v \in 1..Len(a) /\ v \in 1..Len(b)
    BY <1>8
  <2>2. a[v] = slots[v]
    BY <1>5 DEF Wider
  <2>3. b[v] = a[v]
    BY <1>6, <2>1 DEF Wider
  <2>4. s[v] = b[v]
    BY <1>7, <2>1 DEF Wider
  <2> QED BY <2>2, <2>3, <2>4
<1>10. Wider(slots, s)
  BY <1>8, <1>9 DEF Wider
<1> QED BY <1>7, <1>10

\* The operand of a value that has its slot is for the value.
LEMMA ValueServed ==
    ASSUME NEW s, NEW v, v = 0 \/ vals[v].is_constant \/ Contains(s, vals[v].val), NEW o,
           NEW x, x = lower_ir_val(v, s, o), NEW vs, vs = vals
    PROVE  Serves(vs, s, v, x)
<1>1. SUFFICES ASSUME v # 0 PROVE /\ IsOpnd(x)
                                  /\ vs[v].is_constant => IsImm(x) /\ x.val = vs[v].val
                                  /\ ~vs[v].is_constant =>
                                        IsStack(x) /\ \E h \in 1..Len(s) : s[h] = vs[v].val /\ x.val = -(SlotBytes * h)
  BY DEF Serves
<1>2. IsOpnd(x)
  BY ValueKinds
<1>3. CASE vals[v].is_constant
  <2>1. x = create_immediate(vals[v].val, o)
    BY <1>3 DEF lower_ir_val
  <2>2. IsImm(x) /\ x.val = vals[v].val
    BY <2>1 DEF create_immediate, Opnd, IsImm
  <2> QED BY <1>2, <1>3, <2>2
<1>4. CASE ~vals[v].is_constant
  <2>1. PICK n, h : n = vals[v].val /\ h = slot_of(s, n)
    OBVIOUS
  <2>2. h \in 1..Len(s) /\ s[h] = n
    BY <1>1, <1>4, <2>1 DEF slot_of, Contains
  <2>3. PICK y : y = Opnd("stack", -(SlotBytes * h), 32, o)
    OBVIOUS
  <2>4. x = y
    BY <1>4, <2>1, <2>3 DEF lower_ir_val
  <2>5. y.kind = "stack" /\ y.val = -(SlotBytes * h)
    BY <2>3 DEF Opnd
  <2>6. IsStack(x)
    BY <2>4, <2>5 DEF IsStack
  <2> QED BY <1>2, <1>4, <2>1, <2>2, <2>4, <2>5, <2>6
<1> QED BY <1>3, <1>4

\* What an instruction is lowered to is its lowering.
LEMMA LoweredRight ==
    ASSUME IsList(slots), NEW x, NEW vs, vs = vals, Fit(x, vs), NEW s, s = SlotsFor(x),
           NEW q, q = lower_ir_instruction(x, s)
    PROVE  Lowering(x, vs, s, q)
<1>1. PICK l, r, d : /\ l = lower_ir_val(x.lhs, s, "lhs") /\ r = lower_ir_val(x.rhs, s, "rhs")
                     /\ d = lower_ir_val(x.dst, s, "dst")
  OBVIOUS
<1>2. PICK a, b, c : a = x.lhs /\ b = x.rhs /\ c = x.dst
  OBVIOUS
<1>3. \A v \in {a, b, c} : v = 0 \/ vals[v].is_constant \/ Contains(s, vals[v].val)
  BY <1>2, SlotsTaken
<1>4. Serves(vs, s, a, l)
  BY <1>1, <1>2, <1>3, ValueServed
<1>5. Serves(vs, s, b, r)
  BY <1>1, <1>2, <1>3, ValueServed
<1>6. Serves(vs, s, c, d)
  BY <1>1, <1>2, <1>3, ValueServed
<1>7. Operated(x, vs, s, l, r, d)
  BY <1>2, <1>4, <1>5, <1>6 DEF Operated
<1>8. q = LoweredTo(x, l, r, d)
  BY <1>1 DEF lower_ir_instruction, LoweredTo
<1> QED BY <1>7, <1>8 DEF Lowering

\* The code that is lowered so far is laid out; before emit_ir is done nothing is lowered.
Laying ==
    /\ Distinct(slots)
    /\ ipc \in {"destroy", "destroyed"} => cpc = "lowered"
    /\ ipc \in Emitting => cpc = "lower" /\ next_ir = 1 /\ asm = <<>> /\ slots = <<>>
    /\ ipc = "emitted" /\ cpc = "lower" =>
          /\ next_ir \in 1..(Len(insts) + 1)
          /\ \E st : Layout(insts, vals, slots, asm, st, next_ir - 1) /\ st[1] = 1

\* Nothing is lowered at first.
LEMMA LayingStarts == IrInit /\ CodegenInit => Laying
BY DEF IrInit, CodegenInit, Laying, Distinct

\* No code is laid out for no instructions.
LEMMA NothingLaid ==
    ASSUME NEW is, NEW vs, NEW s
    PROVE  \E st : Layout(is, vs, s, <<>>, st, 0) /\ st[1] = 1
<1>1. PICK st : st = [j \in {1} |-> 1]
  OBVIOUS
<1>2. st[1] = 1 /\ st[0 + 1] = 1 /\ Len(<<>>) = 0 /\ 1..0 = {}
  BY <1>1
<1>3. <<>> \in Seq({})
  OBVIOUS
<1>4. PICK q : q = <<>>
  OBVIOUS
<1>5. IsList(q) /\ Len(q) = 0
  BY <1>2, <1>3, <1>4 DEF IsList
<1>6. Layout(is, vs, s, q, st, 0)
  BY <1>2, <1>5 DEF Layout
<1> QED BY <1>2, <1>4, <1>6

\* One more instruction is lowered.
LEMMA LowerLaid ==
    ASSUME Shape, AllWhole, Kinds, FrameInv, Laying, Lower, ipc = "emitted", UNCHANGED irVars
    PROVE  Laying'
<1>1. PICK x, s : x = insts[next_ir] /\ s = SlotsFor(x)
  OBVIOUS
<1>2. /\ cpc = "lower" /\ cpc' = "lower" /\ next_ir' = next_ir + 1
      /\ slots' = s /\ asm' = asm \o lower_ir_instruction(x, s)
      /\ next_ir <= Len(insts) /\ ~Unimplemented(x) /\ ~LacksOperand(x)
  BY <1>1 DEF Lower
<1>3. IsList(slots) /\ Distinct(slots) /\ next_ir \in Nat \ {0}
  BY DEF FrameInv, Laying
<1>4. PICK is, vs, n : is = insts /\ vs = vals /\ n = next_ir - 1
  OBVIOUS
<1>5. Len(insts) \in Nat
  BY AppendFacts DEF Shape
<1>6. next_ir \in 1..Len(insts) /\ n \in Nat /\ n + 1 = next_ir
  BY <1>2, <1>3, <1>4, <1>5
<1>7. Whole(x)
  BY <1>1, <1>6 DEF AllWhole
<1>8. InstKind(x, vs, Root)
  <2>1. AllKind(insts, vals, Root)
    BY DEF Kinds
  <2> QED BY <1>1, <1>4, <1>6, <2>1 DEF AllKind
<1>9. Fit(x, vs)
  BY <1>2, <1>7, <1>8 DEF Fit, Lowerable, InstKind
<1>10. PICK q : q = lower_ir_instruction(x, s)
  OBVIOUS
<1>11. Lowering(x, vs, s, q)
  BY <1>1, <1>3, <1>4, <1>9, <1>10, LoweredRight
<1>12. IsList(s) /\ Distinct(s) /\ Wider(slots, s)
  BY <1>1, <1>3, SlotsBehind
<1>13. PICK st : Layout(insts, vals, slots, asm, st, next_ir - 1) /\ st[1] = 1
  BY <1>2 DEF Laying
<1>14. PICK t, c, r : t = slots /\ c = asm /\ r = c \o q
  OBVIOUS
<1>15. Layout(is, vs, t, c, st, n)
  BY <1>4, <1>13, <1>14
<1>16. PICK m : m = n + 1
  OBVIOUS
<1>17. Lowering(is[m], vs, s, q) /\ Wider(t, s) /\ n \in Nat
  BY <1>1, <1>4, <1>6, <1>11, <1>12, <1>14, <1>16
<1>18. PICK u : Layout(is, vs, s, r, u, m) /\ u[1] = 1
  <2>1. \E u : Layout(is, vs, s, r, u, m) /\ u[1] = st[1]
    <3>1. LaidNext(is, vs, t, c, st, n, s, m, q, r)
      BY <1>14, <1>15, <1>16, <1>17 DEF LaidNext
    <3> QED BY <3>1, LayoutGrown
  <2> QED BY <1>13, <2>1
<1>19. /\ insts' = is /\ vals' = vs /\ slots' = s /\ asm' = r /\ next_ir' - 1 = m
       /\ ipc' = "emitted"
  BY <1>2, <1>4, <1>6, <1>10, <1>14, <1>16 DEF irVars
<1>20. Layout(insts', vals', slots', asm', u, next_ir' - 1)
  BY <1>18, <1>19
<1>21. next_ir' \in 1..(Len(insts') + 1)
  BY <1>2, <1>4, <1>5, <1>6, <1>19
<1>22. Distinct(slots')
  BY <1>2, <1>12
<1>23. ipc' \notin Emitting /\ ipc' \notin {"destroy", "destroyed"}
  BY <1>19 DEF Emitting
<1> QED BY <1>18, <1>20, <1>21, <1>22, <1>23 DEF Laying

\* Every step of the three phases keeps to the layout.
LEMMA LayingStep ==
    ASSUME Shape, Counted, Progress, AllWhole, Kinds, FrameInv, Laying, [Translate]_<<irVars, codegenVars>>
    PROVE  Laying'
<1>1. CASE UNCHANGED <<irVars, codegenVars>>
  BY <1>1 DEF irVars, codegenVars, Laying, Distinct
<1>2. CASE EmitIr
  <2>1. ipc \in Emitting /\ UNCHANGED codegenVars /\ EmitStep
    BY <1>2 DEF EmitIr, EmitStep, EmitBody, EmitAbsent, EmitVar, EmitConst, EmitOperator, EmitRight,
                EmitOperation, EmitLogical, EmitReturn, Emitting
  <2>2. cpc = "lower" /\ next_ir = 1 /\ asm = <<>> /\ slots = <<>>
    BY <2>1 DEF Laying
  <2>3. cpc' = "lower" /\ next_ir' = 1 /\ asm' = <<>> /\ slots' = <<>>
    BY <2>1, <2>2 DEF codegenVars
  <2>4. ipc' \in Emitting \cup {"emitted"}
    BY <2>1 DEF EmitStep, EmitBody, EmitAbsent, EmitVar, EmitConst, EmitOperator, EmitRight,
                EmitOperation, EmitLogical, EmitReturn, Emitting
  <2>5. ipc' \notin {"destroy", "destroyed"}
    BY <2>4 DEF Emitting
  <2>6. Distinct(slots')
    BY <2>3 DEF Distinct
  <2>7. ASSUME ipc' = "emitted"
        PROVE  /\ next_ir' \in 1..(Len(insts') + 1)
               /\ \E st : Layout(insts', vals', slots', asm', st, next_ir' - 1) /\ st[1] = 1
    <3>1. PICK is, vs, s, q, n : is = insts' /\ vs = vals' /\ s = slots' /\ q = asm' /\ n = next_ir' - 1
      OBVIOUS
    <3>2. \E st : Layout(is, vs, s, <<>>, st, 0) /\ st[1] = 1
      BY NothingLaid
    <3>3. q = <<>> /\ n = 0
      BY <2>3, <3>1
    <3>4. \E st : Layout(is, vs, s, q, st, n) /\ st[1] = 1
      BY <3>2, <3>3
    <3>5. Len(insts') \in Nat
      <4>1. [IrNext]_irVars
        BY TranslateMoves
      <4>2. Shape'
        BY <4>1, ShapeStep
      <4>3. IsList(insts')
        BY <4>2 DEF Shape
      <4> QED BY <4>3, AppendFacts
    <3> QED BY <2>3, <3>1, <3>4, <3>5
  <2> QED BY <2>3, <2>5, <2>6, <2>7, SMTT(40) DEF Laying
<1>3. CASE EmitAsm
  <2>1. ipc = "emitted" /\ UNCHANGED irVars /\ CodegenStep
    BY <1>3 DEF EmitAsm
  <2>2. CASE Lower
    BY <2>1, <2>2, LowerLaid
  <2>3. CASE LowerFails \/ LowerAbsent \/ ReserveStack
    <3>1. cpc' # "lower" /\ slots' = slots
      BY <2>3 DEF LowerFails, LowerAbsent, ReserveStack
    <3>2. ipc' = "emitted"
      BY <2>1 DEF irVars
    <3>3. ipc' \notin Emitting /\ ipc' \notin {"destroy", "destroyed"}
      BY <3>2 DEF Emitting
    <3> QED BY <3>1, <3>3 DEF Laying
  <2> QED BY <2>1, <2>2, <2>3 DEF CodegenStep
<1>4. CASE DestroyIr
  <2>1. cpc = "lowered" /\ UNCHANGED codegenVars /\ ipc' \in {"destroy", "destroyed"}
    BY <1>4 DEF DestroyIr, DestroyStep, DestroyBegins, DestroyInst, DestroyDone
  <2>2. cpc' = "lowered" /\ slots' = slots
    BY <2>1 DEF codegenVars
  <2>3. ipc' \notin Emitting /\ ipc' # "emitted"
    BY <2>1 DEF Emitting
  <2> QED BY <2>2, <2>3 DEF Laying
<1> QED BY <1>1, <1>2, <1>3, <1>4 DEF Translate

-----------------------------------------------------------------------------
(* The finished code is certified, whatever can be claimed of the source.  *)

\* The code q with the slots s keeps what k claims.
Certified(X, k, q, s) ==
    /\ X.code = q /\ X.m = k.m /\ X.goal = k.V[k.r] /\ X.frame = Frame(s)
    /\ Sure(X) /\ \A P : Ahead(X, 1, P)

\* The complete IR code is is laid out in q.
LaidOut(k, is, vs, s, q, st, n) ==
    /\ Complete(k, is, vs) /\ NamesApart(vs, n) /\ Once(is) /\ IsList(is) /\ IsList(s) /\ Distinct(s)
    /\ Layout(is, vs, s, q, st, Len(is))
    /\ st[1] = 1 \/ (st[1] = 2 /\ q[1].type = "ALLOCSTACK")

\* So it is certified.
LEMMA CodeCertified ==
    ASSUME NEW k, NEW is, NEW vs, NEW s, NEW q, NEW st, NEW n, LaidOut(k, is, vs, s, q, st, n)
    PROVE  \E X : Certified(X, k, q, s)
<1>1. PICK p : Planned(k, p, is, vs, {}) /\ p.on \subseteq 1..Len(is)
  BY DEF LaidOut, Complete
<1>2. PICK V, F : V = {v \in 1..Len(vs) : ~vs[v].is_constant} /\ F = [v \in 1..Len(vs) |-> PlaceOf(v, vs, s)]
  OBVIOUS
<1>3. PICK X : X = [on |-> p.on, live |-> p.live, range |-> p.range, m |-> k.m, goal |-> k.V[k.r],
                    frame |-> Frame(s), vars |-> V, place |-> F, code |-> q, start |-> st]
  OBVIOUS
<1>4. /\ X.on = p.on /\ X.live = p.live /\ X.range = p.range
      /\ X.m = k.m /\ X.goal = k.V[k.r] /\ X.frame = Frame(s)
      /\ X.vars = V /\ X.place = F /\ X.code = q /\ X.start = st
  BY <1>3
<1>5. \A v : v \in X.vars <=> v \in 1..Len(vs) /\ ~vs[v].is_constant
  BY <1>2, <1>4
<1>6. \A v \in X.vars : X.place[v] = PlaceOf(v, vs, s)
  BY <1>2, <1>4
<1>7. Len(is) \in Nat /\ Len(s) \in Nat
  BY AppendFacts DEF LaidOut
<1>8. Certificate(X, p, k, is, vs, s, n)
  BY <1>1, <1>4, <1>5, <1>6, <1>7 DEF Certificate, LaidOut
<1>9. Sure(X)
  BY <1>8, CodeSure
<1>10. Entered(X)
  BY <1>4 DEF Entered, LaidOut
<1>11. ASSUME NEW P PROVE Ahead(X, 1, P)
  BY <1>8, <1>10, CodeAhead
<1>12. Certified(X, k, q, s)
  BY <1>4, <1>9, <1>11 DEF Certified
<1> QED BY <1>12

\* The finished code keeps every claim.
Certain ==
    cpc = "lowered" /\ body # <<>> /\ Source # NoExpr =>
       \A k : Backed(k) /\ k.r = Root => \E X : Certified(X, k, asm, slots)

\* No code is finished at first.
LEMMA CertainStarts == CodegenInit => Certain
BY DEF CodegenInit, Certain

\* The stack is reserved in front of the code, which is then finished.
LEMMA ReserveCertain ==
    ASSUME Shape, Labels, FrameInv, Names, Planful, Laying, ReserveStack, ipc = "emitted", UNCHANGED irVars,
           NEW k, Backed(k), k.r = Root, body # <<>>, Source # NoExpr
    PROVE  \E X : Certified(X, k, asm', slots')
<1>1. /\ cpc = "lower" /\ next_ir > Len(insts) /\ slots' = slots
      /\ slots = <<>> => asm' = asm
      /\ slots # <<>> => asm' = << Inst("ALLOCSTACK", create_immediate(FrameBytes, "frame"), NoOpnd) >> \o asm
  BY DEF ReserveStack
<1>2. PICK is, vs, s, q, r, n, m : /\ is = insts /\ vs = vals /\ s = slots /\ q = asm /\ r = asm'
                                   /\ n = name_count /\ m = Len(insts)
  OBVIOUS
<1>3. IsList(is) /\ m \in Nat /\ m = Len(is)
  BY <1>2, AppendFacts DEF Shape
<1>4. next_ir - 1 = m
  BY <1>1, <1>2, <1>3 DEF Laying
<1>5. PICK st : Layout(is, vs, s, q, st, m) /\ st[1] = 1
  BY <1>1, <1>2, <1>4 DEF Laying
<1>6. Complete(k, is, vs)
  BY <1>2 DEF Planful
<1>7. NamesApart(vs, n) /\ Once(is) /\ IsList(s) /\ Distinct(s)
  BY <1>2 DEF Names, Labels, FrameInv, Laying
<1>8. CASE s = <<>>
  <2>1. LaidOut(k, is, vs, s, q, st, n)
    BY <1>3, <1>5, <1>6, <1>7 DEF LaidOut
  <2>2. \E X : Certified(X, k, q, s)
    BY <2>1, CodeCertified
  <2> QED BY <1>1, <1>2, <1>8, <2>2
<1>9. CASE s # <<>>
  <2>1. PICK c : c = Inst("ALLOCSTACK", create_immediate(FrameBytes, "frame"), NoOpnd)
    OBVIOUS
  <2>2. c.type = "ALLOCSTACK" /\ r = <<c>> \o q
    BY <1>1, <1>2, <1>9, <2>1 DEF Inst
  <2>3. c.type # "LABEL"
    BY <2>2
  <2>4. PICK u : Layout(is, vs, s, r, u, m) /\ u[1] = st[1] + 1
    <3>1. Led(is, vs, s, q, st, m, c, r)
      BY <1>3, <1>5, <2>2, <2>3 DEF Led
    <3> QED BY <3>1, LayoutShifted
  <2>5. u[1] = 2
    BY <1>5, <2>4
  <2>6. r[1].type = "ALLOCSTACK"
    <3>1. <<c>> \in Seq({c}) /\ Len(<<c>>) = 1 /\ <<c>>[1] = c
      OBVIOUS
    <3>2. PICK y : y = <<c>>
      OBVIOUS
    <3>3. IsList(y) /\ IsList(q) /\ r = y \o q
      BY <1>5, <2>2, <3>1, <3>2 DEF IsList, Layout
    <3>4. Joined(y, q, r)
      BY <3>3, ConcatParts
    <3>5. 1 \in 1..Len(y) /\ y[1] = c
      BY <3>1, <3>2
    <3>6. r[1] = c
      BY <3>4, <3>5 DEF Joined
    <3> QED BY <2>2, <3>6
  <2>7. LaidOut(k, is, vs, s, r, u, n)
    BY <1>3, <1>6, <1>7, <2>4, <2>5, <2>6 DEF LaidOut
  <2>8. \E X : Certified(X, k, r, s)
    BY <2>7, CodeCertified
  <2> QED BY <1>1, <1>2, <2>8
<1> QED BY <1>8, <1>9

\* Every step of the three phases keeps the code certified.
LEMMA CertainStep ==
    ASSUME Shape, Labels, FrameInv, Names, Planful, Laying, Certain, [Translate]_<<irVars, codegenVars>>
    PROVE  Certain'
<1>1. body' = body /\ Root' = Root
  BY TranslateMoves, RootStays
<1>2. Source' = Source
  BY <1>1 DEF Source
<1>3. CASE ReserveStack /\ EmitAsm
  <2>1. ipc = "emitted" /\ UNCHANGED irVars
    BY <1>3 DEF EmitAsm
  <2>2. ASSUME body # <<>>, Source # NoExpr, NEW k, Backed(k), k.r = Root
        PROVE  \E X : Certified(X, k, asm', slots')
    BY <1>3, <2>1, <2>2, ReserveCertain
  <2> QED BY <1>1, <1>2, <2>2 DEF Certain
<1>4. CASE ~(ReserveStack /\ EmitAsm)
  <2>1. cpc' = "lowered" => cpc = "lowered" /\ asm' = asm /\ slots' = slots
    BY <1>4 DEF Translate, EmitIr, EmitAsm, DestroyIr, CodegenStep, Lower, LowerFails, LowerAbsent, codegenVars
  <2> QED BY <1>1, <1>2, <2>1 DEF Certain
<1> QED BY <1>3, <1>4

-----------------------------------------------------------------------------
(* The processor does what is known of it: its registers, slots and flags  *)
(* have the values of an environment.                                      *)

Stk(h) == <<"stack", h>>

\* What P knows has been written, and has the value that P says.
Agrees(X, P, R, M, T, f) ==
    /\ DOMAIN R = Registers /\ DOMAIN M = X.frame
    /\ \A l \in DOMAIN P : l = Flags \/ (\E r \in Registers : l = Reg(r)) \/ (\E h \in X.frame : l = Stk(h))
    /\ \A r \in Registers : Reg(r) \in DOMAIN P => Reg(r) \in T /\ R[r] = P[Reg(r)]
    /\ \A h \in X.frame : Stk(h) \in DOMAIN P => Stk(h) \in T /\ M[h] = P[Stk(h)]
    /\ Flags \in DOMAIN P => f = P[Flags]

\* An operand that is known was written, and is read as what it is worth.
LEMMA KnownRead ==
    ASSUME NEW X, NEW P, Agrees(X, P, regs, memory, written, flags), NEW o, Has(P, o)
    PROVE  ~Unwritten(o) /\ Read(o) = Of(P, o)
<1>1. CASE IsImm(o)
  <2>1. o.kind = "imm"
    BY <1>1 DEF IsImm
  <2> QED BY <1>1, <2>1 DEF Unwritten, Read, Of, IsReg, IsStack, IsImm
<1>2. CASE ~IsImm(o) /\ Loc(o) \in DOMAIN P
  <2>1. Loc(o) # Flags
    BY DEF Loc, Flags
  <2>2. Loc(o)[1] = o.kind /\ Loc(o)[2] = o.val
    BY DEF Loc
  <2>3. CASE \E r \in Registers : Loc(o) = Reg(r)
    <3>1. PICK r \in Registers : Loc(o) = Reg(r)
      BY <2>3
    <3>2. o.kind = "reg" /\ o.val = r
      BY <2>2, <3>1 DEF Reg
    <3>3. Reg(r) \in written /\ regs[r] = P[Reg(r)] /\ Loc(o) \in written
      BY <1>2, <3>1 DEF Agrees
    <3> QED BY <1>2, <3>1, <3>2, <3>3 DEF Unwritten, Read, Of, IsReg, IsStack, IsImm, Loc
  <2>4. CASE \E h \in X.frame : Loc(o) = Stk(h)
    <3>1. PICK h \in X.frame : Loc(o) = Stk(h)
      BY <2>4
    <3>2. o.kind = "stack" /\ o.val = h
      BY <2>2, <3>1 DEF Stk
    <3>3. Stk(h) \in written /\ memory[h] = P[Stk(h)] /\ Loc(o) \in written
      BY <1>2, <3>1 DEF Agrees
    <3> QED BY <1>2, <3>1, <3>2, <3>3 DEF Unwritten, Read, Of, IsReg, IsStack, IsImm, Loc
  <2> QED BY <1>2, <2>1, <2>3, <2>4 DEF Agrees
<1> QED BY <1>1, <1>2 DEF Has

\* A write keeps it, if it is to a register or to a slot of the frame.
LEMMA WriteAgrees ==
    ASSUME NEW X, NEW P, Agrees(X, P, regs, memory, written, flags), NEW o, NEW n, Write(o, n),
           NEW l, l = Loc(o), In(X, l), NEW Q, Puts(P, Q, l, n), flags' = flags
    PROVE  Agrees(X, Q, regs', memory', written', flags')
<1>1. PICK R, M, T : R = regs' /\ M = memory' /\ T = written'
  OBVIOUS
<1>2. DOMAIN Q = DOMAIN P \cup {l} /\ Q[l] = n /\ \A x \in DOMAIN P : x # l => Q[x] = P[x]
  BY DEF Puts
<1>3. l[1] = o.kind /\ l[2] = o.val /\ l = <<o.kind, o.val>> /\ l # Flags
  BY DEF Loc, Flags
<1>4. T = written \cup {l}
  BY <1>1, <1>3 DEF Write
<1>5. DOMAIN regs = Registers /\ DOMAIN memory = X.frame
  BY DEF Agrees
<1>6. \A r, s : Reg(r) = Reg(s) => r = s
  <2> SUFFICES ASSUME NEW r, NEW s, Reg(r) = Reg(s) PROVE r = s
    OBVIOUS
  <2>1. Reg(r)[2] = Reg(s)[2]
    OBVIOUS
  <2> QED BY <2>1 DEF Reg
<1>7. \A r, s : Stk(r) = Stk(s) => r = s
  <2> SUFFICES ASSUME NEW r, NEW s, Stk(r) = Stk(s) PROVE r = s
    OBVIOUS
  <2>1. Stk(r)[2] = Stk(s)[2]
    OBVIOUS
  <2> QED BY <2>1 DEF Stk
<1>8. \A r, h : Reg(r) # Stk(h) /\ Reg(r) # Flags /\ Stk(h) # Flags
  <2> SUFFICES ASSUME NEW r, NEW h PROVE Reg(r) # Stk(h) /\ Reg(r) # Flags /\ Stk(h) # Flags
    OBVIOUS
  <2>1. Reg(r)[1] = "reg" /\ Stk(h)[1] = "stack" /\ Flags[1] = "flags"
    BY DEF Reg, Stk, Flags
  <2> QED BY <2>1
<1>9. CASE o.kind = "reg"
  <2>1. PICK v : v = o.val
    OBVIOUS
  <2>2. v \in Registers /\ l = Reg(v)
    BY <1>3, <1>9, <2>1 DEF In, Reg
  <2>3. R = [regs EXCEPT ![v] = n] /\ M = memory
    BY <1>1, <1>9, <2>1 DEF Write, IsReg, IsStack
  <2>4. DOMAIN R = Registers /\ R[v] = n /\ \A r \in Registers : r # v => R[r] = regs[r]
    BY <1>5, <2>2, <2>3
  <2>5. \A x \in DOMAIN Q : x = Flags \/ (\E r \in Registers : x = Reg(r)) \/ (\E h \in X.frame : x = Stk(h))
    BY <1>2, <2>2 DEF Agrees
  <2>6. ASSUME NEW r \in Registers, Reg(r) \in DOMAIN Q PROVE Reg(r) \in T /\ R[r] = Q[Reg(r)]
    <3>1. CASE r = v
      BY <1>2, <1>4, <2>2, <2>4, <3>1
    <3>2. CASE r # v
      <4>1. Reg(r) # l
        BY <1>6, <2>2, <3>2
      <4>2. Reg(r) \in DOMAIN P
        BY <1>2, <2>6, <4>1
      <4> QED BY <1>2, <1>4, <2>4, <3>2, <4>1, <4>2 DEF Agrees
    <3> QED BY <3>1, <3>2
  <2>7. ASSUME NEW h \in X.frame, Stk(h) \in DOMAIN Q PROVE Stk(h) \in T /\ M[h] = Q[Stk(h)]
    <3>1. Stk(h) # l
      BY <1>8, <2>2
    <3>2. Stk(h) \in DOMAIN P
      BY <1>2, <2>7, <3>1
    <3> QED BY <1>2, <1>4, <2>3, <3>1, <3>2 DEF Agrees
  <2>8. Flags \in DOMAIN Q => flags = Q[Flags]
    BY <1>2, <1>3 DEF Agrees
  <2> QED BY <1>1, <1>5, <2>3, <2>4, <2>5, <2>6, <2>7, <2>8 DEF Agrees
<1>10. CASE o.kind = "stack"
  <2>1. PICK v : v = o.val
    OBVIOUS
  <2>2. v \in X.frame /\ l = Stk(v)
    BY <1>3, <1>10, <2>1 DEF In, Stk
  <2>3. M = [memory EXCEPT ![v] = n] /\ R = regs
    BY <1>1, <1>10, <2>1 DEF Write, IsReg, IsStack
  <2>4. DOMAIN M = X.frame /\ M[v] = n /\ \A h \in X.frame : h # v => M[h] = memory[h]
    BY <1>5, <2>2, <2>3
  <2>5. \A x \in DOMAIN Q : x = Flags \/ (\E r \in Registers : x = Reg(r)) \/ (\E h \in X.frame : x = Stk(h))
    BY <1>2, <2>2 DEF Agrees
  <2>6. ASSUME NEW h \in X.frame, Stk(h) \in DOMAIN Q PROVE Stk(h) \in T /\ M[h] = Q[Stk(h)]
    <3>1. CASE h = v
      BY <1>2, <1>4, <2>2, <2>4, <3>1
    <3>2. CASE h # v
      <4>1. Stk(h) # l
        BY <1>7, <2>2, <3>2
      <4>2. Stk(h) \in DOMAIN P
        BY <1>2, <2>6, <4>1
      <4> QED BY <1>2, <1>4, <2>4, <3>2, <4>1, <4>2 DEF Agrees
    <3> QED BY <3>1, <3>2
  <2>7. ASSUME NEW r \in Registers, Reg(r) \in DOMAIN Q PROVE Reg(r) \in T /\ R[r] = Q[Reg(r)]
    <3>1. Reg(r) # l
      BY <1>8, <2>2
    <3>2. Reg(r) \in DOMAIN P
      BY <1>2, <2>7, <3>1
    <3> QED BY <1>2, <1>4, <2>3, <3>1, <3>2 DEF Agrees
  <2>8. Flags \in DOMAIN Q => flags = Q[Flags]
    BY <1>2, <1>3 DEF Agrees
  <2> QED BY <1>1, <1>5, <2>3, <2>4, <2>5, <2>6, <2>7, <2>8 DEF Agrees
<1> QED BY <1>3, <1>9, <1>10 DEF In

\* An instruction in the middle of a run is one of these.
LEMMA GoingOne ==
    ASSUME NEW X, NEW j, NEW P, Going(X, j, P), NEW i, i = X.code[j], NEW k, k = j + 1
    PROVE  /\ i.type = "MOV" => \E Q : MoveStep(X, i, P, Q) /\ Ahead(X, k, Q)
           /\ i.type \in Ariths => \E Q : ArithStep(X, i, P, Q) /\ Ahead(X, k, Q)
           /\ i.type \in {"NEG", "NOT"} => \E Q : OneStep(X, i, P, Q) /\ Ahead(X, k, Q)
           /\ i.type = "CDQ" => \E Q : SignStep(X, i, P, Q) /\ Ahead(X, k, Q)
           /\ i.type = "DIV" => \E Q : DivideStep(X, i, P, Q) /\ Ahead(X, k, Q)
           /\ i.type = "CMP" => \E Q : CompareStep(X, i, P, Q) /\ Ahead(X, k, Q)
           /\ i.type = "SETCC" => \E Q : SetStep(X, i, P, Q) /\ Ahead(X, k, Q)
           /\ i.type \in {"LABEL", "ALLOCSTACK"} => PassStop(X, j, P)
           /\ i.type = "JMP" => JumpStop(X, j, P)
           /\ i.type = "JMPCC" => BranchStop(X, j, P)
           /\ i.type = "RETURN" => ReturnStop(X, j, P)
<1>1. CASE Stops(X, j, P)
  <2>1. CASE PassStop(X, j, P)
    BY <2>1 DEF PassStop, Ariths
  <2>2. CASE JumpStop(X, j, P)
    BY <2>2 DEF JumpStop, Ariths
  <2>3. CASE BranchStop(X, j, P)
    BY <2>3 DEF BranchStop, Ariths
  <2>4. CASE ReturnStop(X, j, P)
    BY <2>4 DEF ReturnStop, Ariths
  <2> QED BY <1>1, <2>1, <2>2, <2>3, <2>4 DEF Stops
<1>2. CASE \E Q : Moves(X, i, P, Q) /\ Ahead(X, k, Q)
  <2>1. PICK Q : Moves(X, i, P, Q) /\ Ahead(X, k, Q)
    BY <1>2
  <2>2. CASE MoveStep(X, i, P, Q)
    BY <2>1, <2>2 DEF MoveStep, Ariths
  <2>3. CASE ArithStep(X, i, P, Q)
    BY <2>1, <2>3 DEF ArithStep, Ariths
  <2>4. CASE OneStep(X, i, P, Q)
    BY <2>1, <2>4 DEF OneStep, Ariths
  <2>5. CASE SignStep(X, i, P, Q)
    BY <2>1, <2>5 DEF SignStep, Ariths
  <2>6. CASE DivideStep(X, i, P, Q)
    BY <2>1, <2>6 DEF DivideStep, Ariths
  <2>7. CASE CompareStep(X, i, P, Q)
    BY <2>1, <2>7 DEF CompareStep, Ariths
  <2>8. CASE SetStep(X, i, P, Q)
    BY <2>1, <2>8 DEF SetStep, Ariths
  <2> QED BY <2>1, <2>2, <2>3, <2>4, <2>5, <2>6, <2>7, <2>8 DEF Moves
<1> QED BY <1>1, <1>2 DEF Going

\* The processor reads nothing that is unset, goes on as the environment says, and ends as it should.
Doing(X) ==
    /\ ~unset /\ outcome \in {"none", "returned", "trap"}
    /\ outcome = "none" => \E P : Agrees(X, P, regs, memory, written, flags) /\ Ahead(X, mpc, P)
    /\ outcome = "returned" => regs["AX"] \in X.goal
    /\ outcome = "trap" => X.m # "exact"

\* What the instruction that runs is known to do.
LEMMA DoingGoes ==
    ASSUME NEW X, Sure(X), X.code = asm, Doing(X), outcome = "none"
    PROVE  \E P : Agrees(X, P, regs, memory, written, flags) /\ mpc \in Nat /\ Going(X, mpc, P)
<1>1. PICK P : Agrees(X, P, regs, memory, written, flags) /\ Ahead(X, mpc, P)
  BY DEF Doing
<1>2. PICK j : j = mpc
  OBVIOUS
<1>3. Ahead(X, j, P)
  BY <1>1, <1>2
<1>4. Going(X, j, P)
  BY <1>3, GoesOn
<1>5. j \in Nat
  BY <1>3 DEF Ahead
<1> QED BY <1>1, <1>2, <1>4, <1>5

\* It goes on in the next environment.
LEMMA DoingOn ==
    ASSUME NEW X, ~unset', outcome' = "none", NEW Q, Agrees(X, Q, regs', memory', written', flags'), Ahead(X, mpc', Q)
    PROVE  Doing(X)'
<1>1. \E P : Agrees(X, P, regs', memory', written', flags') /\ Ahead(X, mpc', P)
  OBVIOUS
<1> QED BY <1>1 DEF Doing

\* Where it lands it is known to go on.
LEMMA LandsAhead ==
    ASSUME NEW X, NEW j, NEW Q, Lands(X, j, Q)
    PROVE  Ahead(X, j, Q)
<1>1. j \in Nat /\ Ends(X, j, Q)
  BY DEF Lands, Ends
<1>2. PICK w : w = <<Q>>
  OBVIOUS
<1>3. PICK n : n = 0
  OBVIOUS
<1>4. w[1] = Q /\ w[n + 1] = Q /\ 1..n = {} /\ n \in Nat /\ j + n = j
  BY <1>1, <1>2, <1>3
<1>5. Walk(X, j, Q, n, Q)
  BY <1>4 DEF Walk
<1> QED BY <1>1, <1>4, <1>5 DEF Ahead

\* A two-operand instruction.
LEMMA ArithmeticDoing ==
    ASSUME NEW X, Sure(X), X.code = asm, Doing(X), Arithmetic
    PROVE  Doing(X)'
<1>1. PICK i, j : i = inst /\ j = mpc
  OBVIOUS
<1>2. i.type \in Ariths /\ outcome = "none" /\ i = X.code[j]
  BY <1>1 DEF Arithmetic, Running, inst, Ariths
<1>3. PICK P : Agrees(X, P, regs, memory, written, flags) /\ Going(X, j, P)
  BY <1>1, <1>2, DoingGoes
<1>4. PICK k : k = j + 1
  OBVIOUS
<1>5. PICK Q : ArithStep(X, i, P, Q) /\ Ahead(X, k, Q)
  BY <1>2, <1>3, <1>4, GoingOne
<1>6. PICK n, l, o : n = Alu(i.type, Of(P, i.src), Of(P, i.dst)) /\ l = Loc(i.dst) /\ o = i.dst
  OBVIOUS
<1>7. Has(P, i.src) /\ Has(P, i.dst) /\ In(X, l) /\ Puts(P, Q, l, n)
  BY <1>5, <1>6 DEF ArithStep
<1>8. ~Unwritten(i.src) /\ Read(i.src) = Of(P, i.src)
  BY <1>3, <1>7, KnownRead
<1>9. ~Unwritten(i.dst) /\ Read(i.dst) = Of(P, i.dst)
  BY <1>3, <1>7, KnownRead
<1>10. Write(o, n) /\ ~unset' /\ mpc' = k /\ outcome' = "none" /\ flags' = flags
  BY <1>1, <1>2, <1>4, <1>6, <1>8, <1>9 DEF Arithmetic, Doing
<1>11. Agrees(X, Q, regs', memory', written', flags')
  BY <1>3, <1>6, <1>7, <1>10, WriteAgrees
<1> QED BY <1>5, <1>10, <1>11, DoingOn

\* mov.
LEMMA MoveDoing ==
    ASSUME NEW X, Sure(X), X.code = asm, Doing(X), Move
    PROVE  Doing(X)'
<1>1. PICK i, j : i = inst /\ j = mpc
  OBVIOUS
<1>2. i.type = "MOV" /\ outcome = "none" /\ i = X.code[j]
  BY <1>1 DEF Move, Running, inst
<1>3. PICK P : Agrees(X, P, regs, memory, written, flags) /\ Going(X, j, P)
  BY <1>1, <1>2, DoingGoes
<1>4. PICK k : k = j + 1
  OBVIOUS
<1>5. PICK Q : MoveStep(X, i, P, Q) /\ Ahead(X, k, Q)
  BY <1>2, <1>3, <1>4, GoingOne
<1>6. PICK n, l, o : n = Alu("MOV", Of(P, i.src), 0) /\ l = Loc(i.dst) /\ o = i.dst
  OBVIOUS
<1>7. Has(P, i.src) /\ In(X, l) /\ Puts(P, Q, l, n)
  BY <1>5, <1>6 DEF MoveStep
<1>8. ~Unwritten(i.src) /\ Read(i.src) = Of(P, i.src)
  BY <1>3, <1>7, KnownRead
<1>9. Write(o, n) /\ ~unset' /\ mpc' = k /\ outcome' = "none" /\ flags' = flags
  BY <1>1, <1>2, <1>4, <1>6, <1>8 DEF Move, Doing
<1>10. Agrees(X, Q, regs', memory', written', flags')
  BY <1>3, <1>6, <1>7, <1>9, WriteAgrees
<1> QED BY <1>5, <1>9, <1>10, DoingOn

\* neg and not.
LEMMA OneOperandDoing ==
    ASSUME NEW X, Sure(X), X.code = asm, Doing(X), OneOperand
    PROVE  Doing(X)'
<1>1. PICK i, j : i = inst /\ j = mpc
  OBVIOUS
<1>2. i.type \in {"NEG", "NOT"} /\ outcome = "none" /\ i = X.code[j]
  BY <1>1 DEF OneOperand, Running, inst
<1>3. PICK P : Agrees(X, P, regs, memory, written, flags) /\ Going(X, j, P)
  BY <1>1, <1>2, DoingGoes
<1>4. PICK k : k = j + 1
  OBVIOUS
<1>5. PICK Q : OneStep(X, i, P, Q) /\ Ahead(X, k, Q)
  BY <1>2, <1>3, <1>4, GoingOne
<1>6. PICK n, l, o : n = Alu(i.type, 0, Of(P, i.dst)) /\ l = Loc(i.dst) /\ o = i.dst
  OBVIOUS
<1>7. Has(P, i.dst) /\ In(X, l) /\ Puts(P, Q, l, n)
  BY <1>5, <1>6 DEF OneStep
<1>8. ~Unwritten(i.dst) /\ Read(i.dst) = Of(P, i.dst)
  BY <1>3, <1>7, KnownRead
<1>9. Write(o, n) /\ ~unset' /\ mpc' = k /\ outcome' = "none" /\ flags' = flags
  BY <1>1, <1>2, <1>4, <1>6, <1>8 DEF OneOperand, Doing
<1>10. Agrees(X, Q, regs', memory', written', flags')
  BY <1>3, <1>6, <1>7, <1>9, WriteAgrees
<1> QED BY <1>5, <1>9, <1>10, DoingOn

\* What is known of a register.
LEMMA KnownReg ==
    ASSUME NEW X, NEW P, Agrees(X, P, regs, memory, written, flags), NEW r \in Registers, Reg(r) \in DOMAIN P
    PROVE  Reg(r) \in written /\ regs[r] = P[Reg(r)] /\ DOMAIN regs = Registers
BY DEF Agrees

\* cdq.
LEMMA SignExtendDoing ==
    ASSUME NEW X, Sure(X), X.code = asm, Doing(X), SignExtend
    PROVE  Doing(X)'
<1>1. PICK i, j : i = inst /\ j = mpc
  OBVIOUS
<1>2. i.type = "CDQ" /\ outcome = "none" /\ i = X.code[j]
  BY <1>1 DEF SignExtend, Running, inst
<1>3. PICK P : Agrees(X, P, regs, memory, written, flags) /\ Going(X, j, P)
  BY <1>1, <1>2, DoingGoes
<1>4. PICK k : k = j + 1
  OBVIOUS
<1>5. PICK Q : SignStep(X, i, P, Q) /\ Ahead(X, k, Q)
  BY <1>2, <1>3, <1>4, GoingOne
<1>6. PICK n, l, o : n = (IF P[Reg("AX")] < 0 THEN -1 ELSE 0) /\ l = Reg("DX") /\ o = [kind |-> "reg", val |-> "DX"]
  OBVIOUS
<1>7. Reg("AX") \in DOMAIN P /\ Puts(P, Q, l, n)
  BY <1>5, <1>6 DEF SignStep
<1>8. "AX" \in Registers /\ "DX" \in Registers
  BY DEF Registers
<1>9. Reg("AX") \in written /\ regs["AX"] = P[Reg("AX")]
  BY <1>3, <1>7, <1>8, KnownReg
<1>10. o.kind = "reg" /\ o.val = "DX" /\ l = Loc(o)
  BY <1>6 DEF Loc, Reg
<1>11. In(X, l)
  BY <1>6, <1>8 DEF In, Reg
<1>12. Write(o, n)
  BY <1>6, <1>9, <1>10 DEF Write, IsReg, IsStack, SignExtend, DX
<1>13. ~unset' /\ mpc' = k /\ outcome' = "none" /\ flags' = flags
  BY <1>1, <1>2, <1>4, <1>9 DEF SignExtend, Doing, AX, Reg
<1>14. Agrees(X, Q, regs', memory', written', flags')
  BY <1>3, <1>7, <1>10, <1>11, <1>12, <1>13, WriteAgrees
<1> QED BY <1>5, <1>13, <1>14, DoingOn

\* cmp.
LEMMA CompareDoing ==
    ASSUME NEW X, Sure(X), X.code = asm, Doing(X), Compare
    PROVE  Doing(X)'
<1>1. PICK i, j : i = inst /\ j = mpc
  OBVIOUS
<1>2. i.type = "CMP" /\ outcome = "none" /\ i = X.code[j]
  BY <1>1 DEF Compare, Running, inst
<1>3. PICK P : Agrees(X, P, regs, memory, written, flags) /\ Going(X, j, P)
  BY <1>1, <1>2, DoingGoes
<1>4. PICK k : k = j + 1
  OBVIOUS
<1>5. PICK Q : CompareStep(X, i, P, Q) /\ Ahead(X, k, Q)
  BY <1>2, <1>3, <1>4, GoingOne
<1>6. PICK n : n = <<Of(P, i.dst), Of(P, i.src)>>
  OBVIOUS
<1>7. Has(P, i.src) /\ Has(P, i.dst) /\ Puts(P, Q, Flags, n)
  BY <1>5, <1>6 DEF CompareStep
<1>8. ~Unwritten(i.src) /\ Read(i.src) = Of(P, i.src)
  BY <1>3, <1>7, KnownRead
<1>9. ~Unwritten(i.dst) /\ Read(i.dst) = Of(P, i.dst)
  BY <1>3, <1>7, KnownRead
<1>10. /\ flags' = n /\ ~unset' /\ mpc' = k /\ outcome' = "none"
       /\ regs' = regs /\ memory' = memory /\ written' = written
  BY <1>1, <1>2, <1>4, <1>6, <1>8, <1>9 DEF Compare, Doing
<1>11. \A r : Reg(r) # Flags /\ Stk(r) # Flags
  <2> SUFFICES ASSUME NEW r PROVE Reg(r) # Flags /\ Stk(r) # Flags
    OBVIOUS
  <2>1. Reg(r)[1] = "reg" /\ Stk(r)[1] = "stack" /\ Flags[1] = "flags"
    BY DEF Reg, Stk, Flags
  <2> QED BY <2>1
<1>12. DOMAIN Q = DOMAIN P \cup {Flags} /\ Q[Flags] = n /\ \A x \in DOMAIN P : x # Flags => Q[x] = P[x]
  BY <1>7 DEF Puts
<1>13. Agrees(X, Q, regs, memory, written, n)
  BY <1>3, <1>11, <1>12 DEF Agrees
<1>14. Agrees(X, Q, regs', memory', written', flags')
  BY <1>10, <1>13
<1> QED BY <1>5, <1>10, <1>14, DoingOn

\* setcc.
LEMMA SetByteDoing ==
    ASSUME NEW X, Sure(X), X.code = asm, Doing(X), SetByte
    PROVE  Doing(X)'
<1>1. PICK i, j : i = inst /\ j = mpc
  OBVIOUS
<1>2. i.type = "SETCC" /\ outcome = "none" /\ i = X.code[j]
  BY <1>1 DEF SetByte, Running, inst
<1>3. PICK P : Agrees(X, P, regs, memory, written, flags) /\ Going(X, j, P)
  BY <1>1, <1>2, DoingGoes
<1>4. PICK k : k = j + 1
  OBVIOUS
<1>5. PICK Q : SetStep(X, i, P, Q) /\ Ahead(X, k, Q)
  BY <1>2, <1>3, <1>4, GoingOne
<1>6. PICK n, l, o : n = Truth(Holds(i.code, P[Flags][1], P[Flags][2])) /\ l = Loc(i.src) /\ o = i.src
  OBVIOUS
<1>7. l \in DOMAIN P /\ Flags \in DOMAIN P /\ In(X, l) /\ Puts(P, Q, l, n)
  BY <1>5, <1>6 DEF SetStep
<1>8. ~Unwritten(o)
  <2>1. Has(P, o)
    BY <1>6, <1>7 DEF Has
  <2> QED BY <1>3, <2>1, KnownRead
<1>9. flags = P[Flags]
  BY <1>3, <1>7 DEF Agrees
<1>10. n = IF Holds(i.code, flags[1], flags[2]) THEN 1 ELSE 0
  BY <1>6, <1>9 DEF Truth
<1>11. Write(o, n) /\ ~unset' /\ mpc' = k /\ outcome' = "none" /\ flags' = flags
  BY <1>1, <1>2, <1>4, <1>6, <1>8, <1>10 DEF SetByte, Doing
<1>12. Agrees(X, Q, regs', memory', written', flags')
  BY <1>3, <1>6, <1>7, <1>11, WriteAgrees
<1> QED BY <1>5, <1>11, <1>12, DoingOn

\* idiv: where it may trap, nothing is claimed exactly.
LEMMA DivideDoing ==
    ASSUME NEW X, Sure(X), X.code = asm, Doing(X), Divide
    PROVE  Doing(X)'
<1>1. PICK i, j : i = inst /\ j = mpc
  OBVIOUS
<1>2. i.type = "DIV" /\ outcome = "none" /\ i = X.code[j]
  BY <1>1 DEF Divide, Running, inst
<1>3. PICK P : Agrees(X, P, regs, memory, written, flags) /\ Going(X, j, P)
  BY <1>1, <1>2, DoingGoes
<1>4. PICK k : k = j + 1
  OBVIOUS
<1>5. PICK Q : DivideStep(X, i, P, Q) /\ Ahead(X, k, Q)
  BY <1>2, <1>3, <1>4, GoingOne
<1>6. PICK a, b : a = Dividend(P) /\ b = Of(P, i.dst)
  OBVIOUS
<1>7. /\ Reg("AX") \in DOMAIN P /\ Reg("DX") \in DOMAIN P /\ Has(P, i.dst)
      /\ X.m = "exact" => ~DivisionTraps(a, b)
      /\ Divided(P, Q, b)
  BY <1>5, <1>6 DEF DivideStep
<1>8. "AX" \in Registers /\ "DX" \in Registers
  BY DEF Registers
<1>9. Reg("AX") \in written /\ regs["AX"] = P[Reg("AX")] /\ DOMAIN regs = Registers
  BY <1>3, <1>7, <1>8, KnownReg
<1>10. Reg("DX") \in written /\ regs["DX"] = P[Reg("DX")]
  BY <1>3, <1>7, <1>8, KnownReg
<1>11. ~Unwritten(i.dst) /\ Read(i.dst) = b
  BY <1>3, <1>6, <1>7, KnownRead
<1>12. a = regs["DX"] * 2^W + Unsigned(regs["AX"])
  BY <1>6, <1>9, <1>10 DEF Dividend
<1>13. ~unset' /\ memory' = memory /\ written' = written /\ flags' = flags
  BY <1>1, <1>9, <1>10, <1>11 DEF Divide, Doing, AX, DX, Reg
<1>14. \/ /\ ~DivisionTraps(a, b) /\ mpc' = k /\ outcome' = "none"
          /\ regs' = [regs EXCEPT !["AX"] = Quotient(a, b), !["DX"] = Remainder(a, b)]
       \/ DivisionTraps(a, b) /\ outcome' = "trap"
  BY <1>1, <1>2, <1>4, <1>11, <1>12 DEF Divide
<1>15. CASE DivisionTraps(a, b) /\ outcome' = "trap"
  BY <1>7, <1>13, <1>15 DEF Doing
<1>16. CASE /\ ~DivisionTraps(a, b) /\ mpc' = k /\ outcome' = "none"
            /\ regs' = [regs EXCEPT !["AX"] = Quotient(a, b), !["DX"] = Remainder(a, b)]
  <2>1. PICK u, v, R : u = Quotient(a, b) /\ v = Remainder(a, b) /\ R = regs'
    OBVIOUS
  <2>2. /\ DOMAIN R = Registers /\ R["AX"] = u /\ R["DX"] = v
        /\ \A r \in Registers : r # "AX" /\ r # "DX" => R[r] = regs[r]
    BY <1>8, <1>9, <1>16, <2>1
  <2>3. /\ DOMAIN Q = DOMAIN P /\ \A x \in DOMAIN P \ {Reg("AX"), Reg("DX")} : Q[x] = P[x]
        /\ Q[Reg("AX")] = u /\ Q[Reg("DX")] = v
    BY <1>6, <1>7, <1>16, <2>1 DEF Divided
  <2>4. ASSUME NEW r \in Registers, Reg(r) \in DOMAIN Q PROVE Reg(r) \in written /\ R[r] = Q[Reg(r)]
    <3>1. Reg(r) \in written /\ regs[r] = P[Reg(r)]
      BY <1>3, <2>3, <2>4, KnownReg
    <3>2. CASE r = "AX" \/ r = "DX"
      BY <2>2, <2>3, <3>1, <3>2
    <3>3. CASE r # "AX" /\ r # "DX"
      <4>1. Reg(r)[2] = r /\ Reg("AX")[2] = "AX" /\ Reg("DX")[2] = "DX"
        BY DEF Reg
      <4>2. Reg(r) # Reg("AX") /\ Reg(r) # Reg("DX")
        BY <3>3, <4>1
      <4>3. Q[Reg(r)] = P[Reg(r)]
        BY <2>3, <2>4, <4>2
      <4> QED BY <2>2, <3>1, <3>3, <4>3
    <3> QED BY <3>2, <3>3
  <2>5. ASSUME NEW x, x = Flags \/ \E h : x = Stk(h) PROVE x # Reg("AX") /\ x # Reg("DX")
    <3>1. Reg("AX")[1] = "reg" /\ Reg("DX")[1] = "reg" /\ Flags[1] = "flags" /\ \A h : Stk(h)[1] = "stack"
      BY DEF Reg, Stk, Flags
    <3> QED BY <2>5, <3>1
  <2>6. ASSUME NEW h \in X.frame, Stk(h) \in DOMAIN Q PROVE Stk(h) \in written /\ memory[h] = Q[Stk(h)]
    <3>1. Q[Stk(h)] = P[Stk(h)] /\ Stk(h) \in DOMAIN P
      BY <2>3, <2>5, <2>6
    <3> QED BY <1>3, <3>1 DEF Agrees
  <2>7. Flags \in DOMAIN Q => flags = Q[Flags]
    BY <1>3, <2>3, <2>5 DEF Agrees
  <2>8. Agrees(X, Q, R, memory, written, flags)
    BY <1>3, <2>2, <2>3, <2>4, <2>6, <2>7 DEF Agrees
  <2>9. Agrees(X, Q, regs', memory', written', flags')
    BY <1>13, <2>1, <2>8
  <2> QED BY <1>5, <1>13, <1>16, <2>9, DoingOn
<1> QED BY <1>14, <1>15, <1>16

\* A jump to a label lands where the label is.
LEMMA GotoLands ==
    ASSUME NEW X, X.code = asm, NEW l, NEW P, Leads(X, l, P), Goto(l)
    PROVE  Lands(X, mpc', P)
<1>1. PICK t : LabelledAt(X, l, t) /\ Lands(X, t, P)
  BY DEF Leads
<1>2. /\ t \in DOMAIN asm /\ asm[t].type = "LABEL" /\ asm[t].label = l
      /\ \A u \in DOMAIN asm : asm[u].type = "LABEL" /\ asm[u].label = l => u = t
  BY <1>1 DEF LabelledAt
<1>3. mpc' = t
  BY <1>2 DEF Goto
<1> QED BY <1>1, <1>3

\* A jump goes on where the lowering of an IR instruction begins.
LEMMA JumpDoing ==
    ASSUME NEW X, Sure(X), X.code = asm, Doing(X), Jump
    PROVE  Doing(X)'
<1>1. PICK i, j : i = inst /\ j = mpc
  OBVIOUS
<1>2. i.type \in {"JMP", "JMPCC"} /\ outcome = "none" /\ i = X.code[j]
  BY <1>1 DEF Jump, Running, inst
<1>3. PICK P : Agrees(X, P, regs, memory, written, flags) /\ Going(X, j, P)
  BY <1>1, <1>2, DoingGoes
<1>4. PICK k : k = j + 1
  OBVIOUS
<1>5. /\ ~unset' /\ outcome' = "none" /\ regs' = regs /\ memory' = memory /\ written' = written /\ flags' = flags
  BY <1>2 DEF Jump, Doing
<1>6. Agrees(X, P, regs', memory', written', flags')
  BY <1>3, <1>5
<1>7. PICK l : l = i.label
  OBVIOUS
<1>8. Lands(X, mpc', P)
  <2>1. CASE i.type = "JMP"
    <3>1. JumpStop(X, j, P)
      BY <1>2, <1>3, <1>4, <2>1, GoingOne
    <3>2. Leads(X, l, P)
      BY <1>2, <1>7, <3>1 DEF JumpStop
    <3>3. Goto(l)
      BY <1>1, <1>7, <2>1 DEF Jump
    <3> QED BY <3>2, <3>3, GotoLands
  <2>2. CASE i.type = "JMPCC"
    <3>1. BranchStop(X, j, P)
      BY <1>2, <1>3, <1>4, <2>2, GoingOne
    <3>2. /\ Flags \in DOMAIN P
          /\ IF Holds(i.code, P[Flags][1], P[Flags][2]) THEN Leads(X, l, P) ELSE Lands(X, j + 1, P)
      BY <1>2, <1>7, <3>1 DEF BranchStop
    <3>3. flags = P[Flags]
      BY <1>3, <3>2, SMTT(40) DEF Agrees
    <3>4. i.type # "JMP"
      BY <2>2
    <3>5. CASE Holds(i.code, flags[1], flags[2])
      <4>1. Leads(X, l, P)
        BY <3>2, <3>3, <3>5
      <4>2. Goto(l)
        BY <1>1, <1>7, <3>5 DEF Jump
      <4> QED BY <4>1, <4>2, GotoLands
    <3>6. CASE ~Holds(i.code, flags[1], flags[2])
      <4>1. Lands(X, j + 1, P)
        BY <3>2, <3>3, <3>6
      <4>2. mpc' = j + 1
        BY <1>1, <3>4, <3>6 DEF Jump
      <4> QED BY <4>1, <4>2
    <3> QED BY <3>5, <3>6
  <2> QED BY <1>2, <2>1, <2>2
<1>9. PICK t : t = mpc'
  OBVIOUS
<1>10. Ahead(X, t, P)
  BY <1>8, <1>9, LandsAhead
<1>11. Ahead(X, mpc', P)
  BY <1>9, <1>10
<1> QED BY <1>5, <1>6, <1>11, DoingOn

\* A label, and sub of rsp.
LEMMA PassDoing ==
    ASSUME NEW X, Sure(X), X.code = asm, Doing(X), Pass
    PROVE  Doing(X)'
<1>1. PICK i, j : i = inst /\ j = mpc
  OBVIOUS
<1>2. i.type \in {"LABEL", "ALLOCSTACK"} /\ outcome = "none" /\ i = X.code[j]
  BY <1>1 DEF Pass, Running, inst
<1>3. PICK P : Agrees(X, P, regs, memory, written, flags) /\ Going(X, j, P)
  BY <1>1, <1>2, DoingGoes
<1>4. PICK k : k = j + 1
  OBVIOUS
<1>5. PassStop(X, j, P)
  BY <1>2, <1>3, <1>4, GoingOne
<1>6. /\ ~unset' /\ outcome' = "none" /\ regs' = regs /\ memory' = memory /\ written' = written /\ flags' = flags
      /\ mpc' = k
  BY <1>1, <1>2, <1>4 DEF Pass, Doing
<1>7. Agrees(X, P, regs', memory', written', flags')
  BY <1>3, <1>6
<1>8. Lands(X, k, P)
  BY <1>4, <1>5 DEF PassStop
<1>9. Ahead(X, k, P)
  BY <1>8, LandsAhead
<1> QED BY <1>6, <1>7, <1>9, DoingOn

\* ret.
LEMMA ReturnDoing ==
    ASSUME NEW X, Sure(X), X.code = asm, Doing(X), Return
    PROVE  Doing(X)'
<1>1. PICK i, j : i = inst /\ j = mpc
  OBVIOUS
<1>2. i.type = "RETURN" /\ outcome = "none" /\ i = X.code[j]
  BY <1>1 DEF Return, Running, inst
<1>3. PICK P : Agrees(X, P, regs, memory, written, flags) /\ Going(X, j, P)
  BY <1>1, <1>2, DoingGoes
<1>4. PICK k : k = j + 1
  OBVIOUS
<1>5. Reg("AX") \in DOMAIN P /\ P[Reg("AX")] \in X.goal
  BY <1>2, <1>3, <1>4, GoingOne DEF ReturnStop
<1>6. "AX" \in Registers
  BY DEF Registers
<1>7. Reg("AX") \in written /\ regs["AX"] = P[Reg("AX")]
  BY <1>3, <1>5, <1>6, KnownReg
<1>8. outcome' = "returned" /\ ~unset' /\ regs' = regs
  BY <1>7 DEF Return, Doing, AX, Reg
<1>9. regs'["AX"] \in X.goal
  BY <1>5, <1>7, <1>8
<1> QED BY <1>8, <1>9 DEF Doing

-----------------------------------------------------------------------------
(* The whole.                                                              *)

\* The program that runs is certified for what k claims, and does what is certified.
Obeys(k) ==
    /\ cpc # "lowered" => mpc = 0
    /\ mpc = 0 => outcome \in {"none", "rejected"} /\ ~unset /\ DOMAIN regs = Registers
    /\ mpc # 0 => \E X : Certified(X, k, asm, slots) /\ Doing(X)

Obeyed == body # <<>> /\ Source # NoExpr => \A k : Backed(k) /\ k.r = Root => Obeys(k)

\* At first nothing runs.
LEMMA ObeyedStarts == MachineInit => Obeyed
BY DEF MachineInit, Obeyed, Obeys, Registers

\* The assembler takes the code as it is certified.
LEMMA AssembleObeys ==
    ASSUME NEW k, Obeys(k), cpc = "lowered", NEW X, Certified(X, k, asm, slots), Assemble,
           UNCHANGED <<irVars, codegenVars>>
    PROVE  Obeys(k)'
<1>1. mpc = 0 /\ outcome = "none" /\ ~unset' /\ DOMAIN regs' = Registers /\ cpc' = "lowered"
  BY DEF Assemble, Obeys, codegenVars
<1>2. asm' = asm /\ slots' = slots
  BY DEF codegenVars
<1>3. CASE outcome' = "rejected" /\ mpc' = mpc
  BY <1>1, <1>3 DEF Obeys
<1>4. CASE ~(outcome' = "rejected" /\ mpc' = mpc)
  <2>1. mpc' = 1 /\ outcome' = "none"
    BY <1>1, <1>4 DEF Assemble
  <2>2. DOMAIN memory' = {-SlotBytes * j : j \in 1..Len(slots)}
    BY <1>1, <1>4 DEF Assemble
  <2>3. X.frame = Frame(slots) /\ \A P : Ahead(X, 1, P)
    BY DEF Certified
  <2>4. DOMAIN memory' = X.frame
    <3>1. SlotBytes \in Nat
      BY SlotAssumption
    <3>2. \A j \in 1..Len(slots) : -SlotBytes * j = -(SlotBytes * j)
      BY <3>1
    <3> QED BY <2>2, <2>3, <3>2 DEF Frame
  <2>5. PICK P : P = [x \in {} |-> 0]
    OBVIOUS
  <2>6. DOMAIN P = {}
    BY <2>5
  <2>7. Agrees(X, P, regs', memory', written', flags')
    BY <1>1, <2>4, <2>6 DEF Agrees
  <2>8. Ahead(X, mpc', P)
    BY <2>1, <2>3
  <2>9. Doing(X)'
    BY <1>1, <2>1, <2>7, <2>8, DoingOn
  <2>10. Certified(X, k, asm', slots')
    BY <1>2
  <2> QED BY <1>1, <2>1, <2>9, <2>10 DEF Obeys
<1> QED BY <1>3, <1>4

\* Every step of the program obeys.
LEMMA MachineObeys ==
    ASSUME NEW k, Obeys(k), cpc = "lowered", NEW Y, Certified(Y, k, asm, slots), MachineStep,
           UNCHANGED <<irVars, codegenVars>>
    PROVE  Obeys(k)'
<1>1. CASE Assemble
  BY <1>1, AssembleObeys
<1>2. CASE ~Assemble
  <2>1. mpc > 0 /\ outcome = "none"
    BY <1>2 DEF MachineStep, Arithmetic, Move, OneOperand, SignExtend, Divide, Compare, SetByte, Jump, Pass,
                Return, Running
  <2>2. mpc # 0
    BY <2>1
  <2>3. PICK X : Certified(X, k, asm, slots) /\ Doing(X)
    BY <2>2 DEF Obeys
  <2>4. Sure(X) /\ X.code = asm
    BY <2>3 DEF Certified
  <2>5. Doing(X)'
    BY <1>2, <2>3, <2>4, ArithmeticDoing, MoveDoing, OneOperandDoing, SignExtendDoing, DivideDoing, CompareDoing,
       SetByteDoing, JumpDoing, PassDoing, ReturnDoing DEF MachineStep
  <2>6. Certified(X, k, asm', slots') /\ cpc' = "lowered"
    BY <2>3 DEF codegenVars
  <2>7. CASE outcome' = "none"
    <3>1. DOMAIN regs' = Registers
      BY <2>5, <2>7 DEF Doing, Agrees
    <3> QED BY <2>5, <2>6, <2>7, <3>1 DEF Obeys, Doing
  <2>8. CASE outcome' # "none"
    <3>1. mpc' = mpc
      BY <1>2, <2>1, <2>8 DEF MachineStep, Arithmetic, Move, OneOperand, SignExtend, Divide, Compare, SetByte, Jump,
                Pass, Return
    <3> QED BY <2>2, <2>5, <2>6, <3>1 DEF Obeys
  <2> QED BY <2>7, <2>8
<1> QED BY <1>1, <1>2

\* Every step of the three phases obeys.
LEMMA CompileObeys ==
    ASSUME Laying, Obeyed, [Translate]_<<irVars, codegenVars>>, UNCHANGED machineVars
    PROVE  Obeyed'
<1>1. body' = body /\ Root' = Root
  BY TranslateMoves, RootStays
<1>2. Source' = Source
  BY <1>1 DEF Source
<1>3. SUFFICES ASSUME body # <<>>, Source # NoExpr, NEW k, Backed(k), k.r = Root PROVE Obeys(k)'
  BY <1>1, <1>2 DEF Obeyed
<1>4. Obeys(k)
  BY <1>3 DEF Obeyed
<1>5. /\ mpc' = mpc /\ outcome' = outcome /\ regs' = regs /\ memory' = memory /\ written' = written
      /\ flags' = flags /\ unset' = unset
  BY DEF machineVars
<1>6. cpc = "lowered" => cpc' = "lowered" /\ asm' = asm /\ slots' = slots
  BY DEF Translate, EmitIr, EmitAsm, DestroyIr, CodegenStep, Lower, LowerFails, LowerAbsent, ReserveStack, codegenVars
<1>7. CASE mpc = 0
  BY <1>4, <1>5, <1>7 DEF Obeys
<1>8. CASE mpc # 0
  <2>1. cpc = "lowered"
    BY <1>4, <1>8 DEF Obeys
  <2>2. PICK X : Certified(X, k, asm, slots) /\ Doing(X)
    BY <1>4, <1>8 DEF Obeys
  <2>3. Doing(X)'
    BY <1>5, <2>2 DEF Doing
  <2>4. Certified(X, k, asm', slots')
    BY <1>6, <2>1, <2>2
  <2> QED BY <1>5, <1>6, <1>8, <2>1, <2>3, <2>4 DEF Obeys
<1> QED BY <1>7, <1>8

\* So does every step of the program.
LEMMA RunObeys ==
    ASSUME Laying, Certain, Obeyed, Run
    PROVE  Obeyed'
<1>1. ipc = "destroyed" /\ MachineStep /\ UNCHANGED <<irVars, codegenVars>>
  BY DEF Run
<1>2. cpc = "lowered"
  BY <1>1 DEF Laying
<1>3. body' = body /\ Root' = Root /\ Source' = Source
  BY <1>1 DEF irVars, Root, Source
<1>4. SUFFICES ASSUME body # <<>>, Source # NoExpr, NEW k, Backed(k), k.r = Root PROVE Obeys(k)'
  BY <1>3 DEF Obeyed
<1>5. PICK X : Certified(X, k, asm, slots)
  BY <1>2, <1>4 DEF Certain
<1>6. Obeys(k)
  BY <1>4 DEF Obeyed
<1> QED BY <1>1, <1>2, <1>5, <1>6, MachineObeys

\* What holds in every state.
Obedient ==
    /\ EmittedWell /\ Labels /\ Planful /\ Names /\ Laying /\ Certain
    /\ Obeyed

\* No label is made at first.
LEMMA LabelsStart == IrInit => Labels
<1> SUFFICES ASSUME IrInit PROVE Labels
  OBVIOUS
<1>1. frames = <<>> /\ insts = <<>> /\ label_count = 0 /\ Len(<<>>) = 0
  BY DEF IrInit
<1> QED BY <1>1 DEF Labels, Nested, Taken, Defined, Jumped, Once

\* It holds at first.
LEMMA ObedientStarts == Init => Obedient
<1> SUFFICES ASSUME Init PROVE Obedient
  OBVIOUS
<1>1. IrInit /\ CodegenInit /\ MachineInit
  BY DEF Init
<1>2. Labels
  BY <1>1, LabelsStart
<1> QED BY <1>1, <1>2, WellStarts, PlanfulStarts, NamesStart, LayingStarts, CertainStarts, ObeyedStarts DEF Obedient

\* Every step keeps it.
LEMMA ObedientStep ==
    ASSUME Obedient, [Next]_compilerVars
    PROVE  Obedient'
<1>1. [Translate]_<<irVars, codegenVars>>
  BY DEF Next, Compile, Run, compilerVars
<1>2. [IrNext]_irVars
  BY <1>1, TranslateMoves
<1>3. Shape /\ Counted /\ Progress /\ AllWhole /\ FrameInv /\ Tree /\ Kinds
  BY DEF Obedient, EmittedWell
<1>4. EmittedWell'
  BY <1>1, WellStep DEF Obedient
<1>5. Labels'
  BY <1>2, <1>3, LabelsStep DEF Obedient
<1>6. Planful'
  BY <1>2, <1>3, PlanfulStep DEF Obedient
<1>7. Names'
  BY <1>2, <1>3, NamesStep DEF Obedient
<1>8. Laying'
  BY <1>1, <1>3, LayingStep DEF Obedient
<1>9. Certain'
  BY <1>1, <1>3, CertainStep DEF Obedient
<1>10. Obeyed'
  <2>1. CASE Run
    BY <2>1, RunObeys DEF Obedient
  <2>2. CASE ~Run
    <3>1. UNCHANGED machineVars
      BY <2>2 DEF Next, Compile, compilerVars
    <3> QED BY <1>1, <3>1, CompileObeys DEF Obedient
  <2> QED BY <2>1, <2>2
<1> QED BY <1>4, <1>5, <1>6, <1>7, <1>8, <1>9, <1>10 DEF Obedient

\* The constants of the compiled expression are integers.
LEMMA ConstantsAreIntegers ==
    ASSUME body \in Bodies, body # <<>>, NEW x \in Parts(Source), x.op = "CONST"
    PROVE  x.val \in Int
<1>1. x \in Subterms(Source)
  BY DEF Parts, NoExpr
<1>2. Source = Head(body).expression
  BY DEF Source
<1> QED BY <1>1, <1>2, TreeAssumption

\* No slot or register is read before it is written, in the code that emit_ir, lower_* and insert_* make of any
\* expression without variables: on every path through the short circuits, whatever the word size and the values.
THEOREM NothingUnsetRead == Spec => []NoUnsetRead
<1>1. Obedient => NoUnsetRead
  <2> SUFFICES ASSUME Obedient, Compiled, \A s \in Subterms(Source) : s.op # "VAR" PROVE ~unset
    BY DEF NoUnsetRead
  <2>1. body \in Bodies /\ body # <<>> /\ Source # NoExpr /\ Obeyed
    BY DEF Obedient, EmittedWell, Tree, Compiled
  <2>2. PICK D, V : Sound(D, V, Source, "any")
    BY <2>1, SoundAny
  <2>3. PICK k : k = [D |-> D, V |-> V, r |-> Source, m |-> "any"]
    OBVIOUS
  <2>4. k.D = D /\ k.V = V /\ k.r = Source /\ k.m = "any"
    BY <2>3
  <2>5. \A x \in Parts(Source) : x.op = "CONST" => x.val \in Int
    BY <2>1, ConstantsAreIntegers
  <2>6. Backed(k)
    BY <2>2, <2>4, <2>5 DEF Backed
  <2>7. k.r = Root
    BY <2>1, <2>4 DEF Root, Source
  <2>8. Obeys(k)
    BY <2>1, <2>6, <2>7 DEF Obeyed
  <2> QED BY <2>8 DEF Obeys, Doing
<1> QED BY <1>1, ObedientStarts, ObedientStep, PTL DEF Spec

\* The program returns what C says the compiled expression is worth, whenever C says, and does not trap: emit_ir,
\* the slots of lower_ir_val, every lower_* and insert_* and the registers they use are right, for every
\* expression, word size and slot size.
THEOREM ProgramCorrect == Spec => []ResultCorrect
<1>1. Obedient => ResultCorrect
  <2> SUFFICES ASSUME Obedient, Compiled, outcome \in {"returned", "trap"}, Meaning(Source) # Undefined
               PROVE  outcome = "returned" /\ regs["AX"] = Meaning(Source)
    BY DEF ResultCorrect
  <2>1. body \in Bodies /\ body # <<>> /\ Source # NoExpr /\ Obeyed
    BY DEF Obedient, EmittedWell, Tree, Compiled
  <2>2. PICK D, V : Sound(D, V, Source, "exact") /\ V[Source] \subseteq {Meaning(Source)}
    BY <2>1, SoundExact
  <2>3. PICK k : k = [D |-> D, V |-> V, r |-> Source, m |-> "exact"]
    OBVIOUS
  <2>4. k.D = D /\ k.V = V /\ k.r = Source /\ k.m = "exact"
    BY <2>3
  <2>5. \A x \in Parts(Source) : x.op = "CONST" => x.val \in Int
    BY <2>1, ConstantsAreIntegers
  <2>6. Backed(k)
    BY <2>2, <2>4, <2>5 DEF Backed
  <2>7. k.r = Root
    BY <2>1, <2>4 DEF Root, Source
  <2>8. Obeys(k)
    BY <2>1, <2>6, <2>7 DEF Obeyed
  <2>9. mpc # 0
    BY <2>8 DEF Obeys
  <2>10. PICK X : Certified(X, k, asm, slots) /\ Doing(X)
    BY <2>8, <2>9 DEF Obeys
  <2>11. X.m = "exact" /\ X.goal = V[Source]
    BY <2>4, <2>10 DEF Certified
  <2>12. outcome = "returned" /\ regs["AX"] \in V[Source]
    BY <2>10, <2>11 DEF Doing
  <2> QED BY <2>2, <2>12
<1> QED BY <1>1, ObedientStarts, ObedientStep, PTL DEF Spec

=============================================================================
