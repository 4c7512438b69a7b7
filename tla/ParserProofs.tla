---------------------------- MODULE ParserProofs ----------------------------
(***************************************************************************)
(* The parser never looks past the token array; the tree it builds is one  *)
(* that the grammar gives the tokens; and it builds one for every          *)
(* definition of C that it has the productions for, unless that assigns to *)
(* a constant with something behind it that the parser drops.              *)
(*                                                                         *)
(* CursorInRange.  has_token is asked only in the loops of expressions;    *)
(* everywhere else the parser relies on the TK_EOF token, which no check   *)
(* lets it consume.                                                        *)
(*                                                                         *)
(* TreeIsGrammars.  The frames link what each waiting function was called  *)
(* for, from the statement to the function that runs: with any tree of the *)
(* callee's span, the caller has one of its own.  The loop of binary       *)
(* operators keeps its left operand ready for whatever operator it takes   *)
(* next.                                                                   *)
(*                                                                         *)
(* AcceptsGrammar.  With tokens that are such a definition of C, each      *)
(* function has an aim, a tree of C's grammar and the position behind it,  *)
(* and each frame says that the caller reaches its aim when the callee has *)
(* reached its own.  A level of the grammar is left-recursive and the      *)
(* parser has a loop: that every tree of the grammar is made by rounds of  *)
(* the loop is shown once, of the shortest span of which it would not be.  *)
(* There an assignment begins where one can begin, so that its target,     *)
(* which is no constant as it is written, is none as the parser has it.    *)
(*                                                                         *)
(* Trees is a recursive function: that there is a table that meets its     *)
(* equation is proved first, by the same argument on the span.             *)
(***************************************************************************)
EXTENDS Grammar, FiniteSetTheorems, SequenceTheorems, NaturalsInduction, WellFoundedInduction, TLAPS

\* Where the parser has not ended.
Running == {"header", "item", "unary", "postfix", "operand", "climb", "expression"}

\* The inductive invariant: the cursor's range, and where the header ends.
IInv ==
    /\ tokens \in Inputs
    /\ CursorInRange
    /\ pc = "header" => cur \in 1..6

\* A token that is not TK_EOF has one behind it.
LEMMA Behind ==
    ASSUME NEW s \in Inputs, NEW c \in 1..Len(s), s[c] # EOF
    PROVE  c + 1 \in 1..Len(s)
<1>1. s \in Seq(STRING) /\ s[Len(s)] = EOF
  BY InputsEndWithEOF
<1>2. c # Len(s)
  BY <1>1
<1>3. Len(s) \in Nat
  BY <1>1
<1> QED BY <1>2, <1>3

\* What identifiers and constants are not.
LEMMA NotEOF ==
    /\ EOF \notin Identifiers \cup Constants
    /\ \A t \in {"int", "void", "return", "sizeof", "(", ")", "[", "]", "{", "}", ";",
                 ".", "->", "="} \cup DOMAIN prefix_op_type \cup DOMAIN postfix_op_type
                 \cup DOMAIN binary_op_type : t # EOF
<1>1. EOF \notin Identifiers \cup Constants
  BY KindsDiffer
<1>2. \A t \in {"int", "void", "return", "sizeof", "(", ")", "[", "]", "{", "}", ";",
                ".", "->", "="} : t # EOF
  BY DEF EOF
<1>3. \A t \in DOMAIN prefix_op_type : t # EOF
  BY DEF prefix_op_type, EOF
<1>4. \A t \in DOMAIN postfix_op_type : t # EOF
  BY DEF postfix_op_type, EOF
<1>5. \A t \in DOMAIN binary_op_type : t # EOF
  BY DEF binary_op_type, EOF
<1> QED BY <1>1, <1>2, <1>3, <1>4, <1>5

\* A step that leaves the cursor alone or moves it by one over a token that is
\* not TK_EOF keeps the invariant, as long as it does not enter the header.
LEMMA Moved ==
    ASSUME IInv, tokens' = tokens, pc' \in Running \cup {"parsed", "error", "crashed"},
           pc' # "header", cur' \in 1..Len(tokens)
    PROVE  IInv'
BY DEF IInv, CursorInRange, Running

\* The parser begins at the first token.
LEMMA InitIInv == Init => IInv
<1> SUFFICES ASSUME Init PROVE IInv
  OBVIOUS
<1>1. tokens \in Inputs /\ cur = 1 /\ pc = "header"
  BY DEF Init
<1>2. tokens \in Seq(STRING) /\ tokens # <<>>
  BY <1>1, InputsEndWithEOF
<1>3. Len(tokens) \in Nat /\ Len(tokens) >= 1
  BY <1>2
<1> QED BY <1>1, <1>3 DEF IInv, CursorInRange

\* Statements and the header.
LEMMA StatementStep == IInv /\ ParseStatement => IInv'
<1> SUFFICES ASSUME IInv, ParseStatement PROVE IInv'
  OBVIOUS
<1>0. /\ tokens \in Inputs /\ cur \in 1..Len(tokens)
      /\ tok = tokens[cur] /\ next_tok = tokens[cur + 1]
  BY DEF IInv, CursorInRange, tok, next_tok
<1>20. ASSUME tok # EOF PROVE cur + 1 \in 1..Len(tokens)
  BY <1>0, <1>20, Behind
<1>21. ASSUME tok # EOF, next_tok # EOF PROVE cur + 2 \in 1..Len(tokens)
  <2>1. cur + 1 \in 1..Len(tokens)
    BY <1>20, <1>21
  <2>2. (cur + 1) + 1 \in 1..Len(tokens)
    BY <1>0, <1>21, <2>1, Behind
  <2> QED BY <1>0, <2>2
<1>1. CASE ParseHeader
  <2>1. CASE header_matches(cur)
    <3>1. /\ tokens' = tokens /\ cur' = cur + 1 /\ cur \in 1..6
          /\ pc' = IF cur = 6 THEN "item" ELSE "header"
      BY <1>1, <2>1 DEF ParseHeader, IInv
    <3>2. tok # EOF
      <4>1. tok \in {"int", "(", "void", ")", "{"} \cup Identifiers
        <5>1. Header[cur] \in {"int", "identifier", "(", "void", ")", "{"}
          <6>1. cur = 1 \/ cur = 2 \/ cur = 3 \/ cur = 4 \/ cur = 5 \/ cur = 6
            BY <3>1
          <6>2. /\ Header[1] = "int" /\ Header[2] = "identifier" /\ Header[3] = "("
                /\ Header[4] = "void" /\ Header[5] = ")" /\ Header[6] = "{"
            BY DEF Header
          <6> QED BY <6>1, <6>2
        <5>2. CASE Header[cur] = "identifier"
          BY <2>1, <5>2 DEF header_matches
        <5>3. CASE Header[cur] # "identifier"
          <6>1. tok = Header[cur]
            BY <2>1, <5>3 DEF header_matches, matches
          <6> QED BY <5>1, <5>3, <6>1
        <5> QED BY <5>2, <5>3
      <4> QED BY <4>1, NotEOF
    <3>3. cur + 1 \in 1..Len(tokens)
      BY <1>20, <3>2
    <3> QED BY <1>0, <3>1, <3>3 DEF IInv, CursorInRange
  <2>2. CASE ~ header_matches(cur)
    BY <1>0, <1>1, <2>2, Moved DEF ParseHeader, Fail, Running
  <2> QED BY <2>1, <2>2
<1>2. CASE ParseEnd
  <2>1. cur + 1 \in 1..Len(tokens)
    BY <1>2, <1>20, NotEOF DEF ParseEnd
  <2> QED BY <1>2, <2>1, Moved DEF ParseEnd, Running
<1>3. CASE ParseReturn
  <2>1. cur + 1 \in 1..Len(tokens)
    BY <1>3, <1>20, NotEOF DEF ParseReturn
  <2> QED BY <1>3, <2>1, Moved DEF ParseReturn, CallExpression, Running
<1>4. CASE ParseDeclaration
  <2>0. tok # EOF /\ tok = "int" /\ pc = "item"
    BY <1>4, NotEOF DEF ParseDeclaration
  <2>1. CASE next_tok \notin Identifiers
    BY <1>0, <1>4, <2>1, Moved DEF ParseDeclaration, Fail, Running
  <2>2. CASE next_tok \in Identifiers
    <3>1. cur + 2 \in 1..Len(tokens)
      BY <2>0, <2>2, <1>21, NotEOF
    <3>2. tokens[cur + 2] # EOF => cur + 3 \in 1..Len(tokens)
      <4>1. tokens[cur + 2] # EOF => (cur + 2) + 1 \in 1..Len(tokens)
        BY <1>0, <3>1, Behind
      <4> QED BY <1>0, <4>1
    <3>3. CASE tokens[cur + 2] = "="
      <4>1. tokens' = tokens /\ pc' = "unary" /\ cur' = cur + 3
        BY <1>4, <2>2, <3>3 DEF ParseDeclaration, CallExpression
      <4> QED BY <3>2, <3>3, <4>1, NotEOF, Moved DEF Running
    <3>4. CASE tokens[cur + 2] = ";"
      <4>1. tokens' = tokens /\ pc' = "item" /\ cur' = cur + 3
        BY <1>4, <2>0, <2>2, <3>4 DEF ParseDeclaration
      <4> QED BY <3>2, <3>4, <4>1, NotEOF, Moved DEF Running
    <3>5. CASE tokens[cur + 2] \notin {"=", ";"}
      <4>1. tokens' = tokens /\ pc' = "error" /\ cur' = cur
        BY <1>4, <2>2, <3>5 DEF ParseDeclaration, Fail
      <4> QED BY <1>0, <4>1, Moved
    <3> QED BY <3>3, <3>4, <3>5
  <2> QED BY <2>1, <2>2
<1>5. CASE ParseExpressionStatement
  <2>1. cur + 0 = cur
    BY <1>0
  <2> QED BY <1>0, <1>5, <2>1, Moved DEF ParseExpressionStatement, CallExpression, Running
<1>6. CASE ParseItemEnd
  <2>1. CASE matches(";")
    <3>1. cur + 1 \in 1..Len(tokens)
      BY <2>1, <1>20, NotEOF DEF matches
    <3> QED BY <1>6, <2>1, <3>1, Moved DEF ParseItemEnd, Running
  <2>2. CASE ~ matches(";")
    BY <1>0, <1>6, <2>2, Moved DEF ParseItemEnd, Fail, Running
  <2> QED BY <2>1, <2>2
<1> QED BY <1>1, <1>2, <1>3, <1>4, <1>5, <1>6 DEF ParseStatement

\* Unary, postfix and primary expressions.
LEMMA UnaryStep == IInv /\ ParseUnary => IInv'
<1> SUFFICES ASSUME IInv, ParseUnary PROVE IInv'
  OBVIOUS
<1>0. /\ tokens \in Inputs /\ cur \in 1..Len(tokens)
      /\ tok = tokens[cur] /\ next_tok = tokens[cur + 1]
  BY DEF IInv, CursorInRange, tok, next_tok
<1>20. ASSUME tok # EOF PROVE cur + 1 \in 1..Len(tokens)
  BY <1>0, <1>20, Behind
<1>21. ASSUME tok # EOF, next_tok # EOF PROVE cur + 2 \in 1..Len(tokens)
  <2>1. cur + 1 \in 1..Len(tokens)
    BY <1>20, <1>21
  <2>2. (cur + 1) + 1 \in 1..Len(tokens)
    BY <1>0, <1>21, <2>1, Behind
  <2> QED BY <1>0, <2>2
<1>1. CASE ParsePrefix
  <2>1. cur + 1 \in 1..Len(tokens)
    BY <1>1, <1>20, NotEOF DEF ParsePrefix
  <2> QED BY <1>1, <2>1, Moved DEF ParsePrefix, Running
<1>2. CASE ParseSizeof
  <2>0. tok # EOF /\ pc = "unary"
    BY <1>2, NotEOF DEF ParseSizeof
  <2>1. CASE next_tok # "("
    BY <1>2, <1>20, <2>0, <2>1, Moved DEF ParseSizeof, Running
  <2>2. CASE next_tok = "(" /\ tokens[cur + 2] = ")"
    <3>1. cur + 2 \in 1..Len(tokens)
      BY <2>0, <2>2, <1>21, NotEOF
    <3>2. (cur + 2) + 1 \in 1..Len(tokens)
      BY <1>0, <2>2, <3>1, NotEOF, Behind
    <3>3. cur + 3 \in 1..Len(tokens)
      BY <1>0, <3>2
    <3> QED BY <1>2, <2>2, <3>3, Moved DEF ParseSizeof, Running
  <2>3. CASE next_tok = "(" /\ tokens[cur + 2] # ")"
    BY <1>0, <1>2, <2>3, Moved DEF ParseSizeof, Fail, Running
  <2> QED BY <2>1, <2>2, <2>3
<1>3. CASE ParseTerminal
  <2>1. cur + 1 \in 1..Len(tokens)
    BY <1>3, <1>20, NotEOF DEF ParseTerminal
  <2> QED BY <1>3, <2>1, Moved DEF ParseTerminal, Running
<1>4. CASE ParseParen
  <2>1. cur + 1 \in 1..Len(tokens)
    BY <1>4, <1>20, NotEOF DEF ParseParen
  <2> QED BY <1>4, <2>1, Moved DEF ParseParen, CallExpression, Running
<1>5. CASE ParseUnexpected
  BY <1>0, <1>5, Moved DEF ParseUnexpected, Fail, Running
<1>6. CASE ParsePostfixOperator
  <2>1. cur + 1 \in 1..Len(tokens)
    BY <1>6, <1>20, NotEOF DEF ParsePostfixOperator
  <2> QED BY <1>6, <2>1, Moved DEF ParsePostfixOperator, Running
<1>7. CASE ParseSubscript
  <2>1. cur + 1 \in 1..Len(tokens)
    BY <1>7, <1>20, NotEOF DEF ParseSubscript
  <2> QED BY <1>7, <2>1, Moved DEF ParseSubscript, CallExpression, Running
<1>8. CASE ParseArguments
  <2>0. tok # EOF /\ pc = "postfix"
    BY <1>8, NotEOF DEF ParseArguments
  <2>1. CASE next_tok = ")"
    <3>1. cur + 2 \in 1..Len(tokens)
      BY <2>0, <2>1, <1>21, NotEOF
    <3> QED BY <1>8, <2>0, <2>1, <3>1, Moved
            DEF ParseArguments, behind_arguments, Running
  <2>2. CASE next_tok # ")"
    BY <1>8, <1>20, <2>0, <2>2, Moved DEF ParseArguments, CallExpression, Running
  <2> QED BY <2>1, <2>2
<1>9. CASE ParseMember
  <2>0. tok # EOF /\ pc = "postfix"
    BY <1>9, NotEOF DEF ParseMember
  <2>1. CASE next_tok \in Identifiers
    <3>1. cur + 2 \in 1..Len(tokens)
      BY <2>0, <2>1, <1>21, NotEOF
    <3> QED BY <1>9, <2>0, <2>1, <3>1, Moved DEF ParseMember, Running
  <2>2. CASE next_tok \notin Identifiers
    BY <1>0, <1>9, <2>2, Moved DEF ParseMember, Fail, Running
  <2> QED BY <2>1, <2>2
<1>10. CASE ParseClosing
  <2>1. CASE matches(closing(top.kind))
    <3>1. tok # EOF
      BY <2>1, NotEOF DEF matches, closing
    <3>2. cur + 1 \in 1..Len(tokens)
      BY <3>1, <1>20
    <3> QED BY <1>10, <2>1, <3>2, Moved DEF ParseClosing, continues, Running
  <2>2. CASE ~ matches(closing(top.kind))
    BY <1>0, <1>10, <2>2, Moved DEF ParseClosing, Fail, Running
  <2> QED BY <2>1, <2>2
<1>11. CASE ParsePostfixDone
  BY <1>0, <1>11, Moved DEF ParsePostfixDone, Running
<1>12. CASE ParseOperand
  BY <1>0, <1>12, Moved DEF ParseOperand, Running
<1> QED BY <1>1, <1>2, <1>3, <1>4, <1>5, <1>6, <1>7, <1>8, <1>9, <1>10, <1>11, <1>12
        DEF ParseUnary

\* The precedence climbing loop.
LEMMA ExpressionStep == IInv /\ ParseExpression => IInv'
<1> SUFFICES ASSUME IInv, ParseExpression PROVE IInv'
  OBVIOUS
<1>0. tokens \in Inputs /\ cur \in 1..Len(tokens) /\ tok = tokens[cur]
  BY DEF IInv, CursorInRange, tok
<1>1. CASE ParseAssignTo
  BY <1>0, <1>1, Moved DEF ParseAssignTo, Fail, Running
<1>2. CASE ParseBinary
  <2>1. tok # EOF
    BY <1>2, NotEOF DEF ParseBinary
  <2>2. cur + 1 \in 1..Len(tokens)
    BY <1>0, <2>1, Behind
  <2>3. tokens' = tokens /\ cur' = cur + 1 /\ pc' = "unary"
    BY <1>2 DEF ParseBinary
  <2> QED BY <2>2, <2>3, Moved DEF Running
<1>3. CASE ParseClimbDone
  BY <1>0, <1>3, Moved DEF ParseClimbDone, Running
<1>4. CASE ParseRight
  BY <1>0, <1>4, Moved DEF ParseRight, Running
<1> QED BY <1>1, <1>2, <1>3, <1>4 DEF ParseExpression

\* The cursor never leaves the token array, on any input that lex makes: every
\* peek_token of parser.c is in range.
THEOREM PeeksInRange == Spec => []CursorInRange
<1>1. IInv /\ [Next]_parserVars => IInv'
  <2> SUFFICES ASSUME IInv, [Next]_parserVars PROVE IInv'
    OBVIOUS
  <2>1. CASE Next
    BY <2>1, StatementStep, UnaryStep, ExpressionStep DEF Next
  <2>2. CASE UNCHANGED parserVars
    BY <2>2 DEF IInv, CursorInRange, parserVars
  <2> QED BY <2>1, <2>2
<1>2. IInv => CursorInRange
  BY DEF IInv
<1> QED BY InitIInv, <1>1, <1>2, PTL DEF Spec

\* A level, the first position and the one behind the last.
Span(s) == (0..13) \X Positions(s) \X Positions(s)

\* T and U are the same on spans of fewer than n tokens.
AgreeBelow(s, T, U, n) ==
    \A l \in 0..13, p \in Positions(s), q \in Positions(s) : q - p < n => T[<<l, p, q>>] = U[<<l, p, q>>]

\* A set of naturals that is not empty has a least element.
LEMMA LeastElement ==
    ASSUME NEW T \in SUBSET Nat, T # {}
    PROVE  \E m \in T : \A k \in T : m <= k
<1>1. IsWellFoundedOn({ss \in Nat \X Nat : ss[1] < ss[2]}, Nat)
  BY NatLessThanWellFounded DEF OpToRel
<1>2. PICK m \in T : \A y \in T : ~(<<y, m>> \in {ss \in Nat \X Nat : ss[1] < ss[2]})
  BY <1>1, WFMin
<1>3. ASSUME NEW k \in T PROVE m <= k
  <2>1. PICK z \in Nat \X Nat : z = <<k, m>>
    OBVIOUS
  <2>2. z[1] = k /\ z[2] = m
    BY <2>1
  <2>3. ~(z[1] < z[2])
    BY <1>2, <2>1
  <2> QED BY <2>2, <2>3
<1> QED BY <1>3

\* The productions of each level.
LEMMA OwnIs ==
    ASSUME NEW s, NEW strict, NEW T, NEW p, NEW q
    PROVE  /\ OwnTrees(s, strict, T, 0, p, q) = AssignmentTrees(s, strict, T, p, q)
           /\ \A m \in 1..10 : OwnTrees(s, strict, T, m, p, q) = BinaryTrees(s, T, m, p, q)
           /\ OwnTrees(s, strict, T, 11, p, q) = UnaryTrees(s, strict, T, p, q)
           /\ OwnTrees(s, strict, T, 12, p, q) = PostfixTrees(s, T, p, q)
           /\ OwnTrees(s, strict, T, 13, p, q) = PrimaryTrees(s, T, p, q)
BY DEF OwnTrees, Assignment, UnaryLevel, PostfixLevel, PrimaryLevel

\* What the left side of "=" is.
LeftLevel(strict) == IF strict THEN 11 ELSE 1

\* a and b are the sides of an assignment, or of an operator of a level, at k.
Targets(s, strict, T, p, k) == {t \in T[<<LeftLevel(strict), p, k>>] : IsTarget(s, strict, p, k, t)}
AssignmentAt(s, strict, T, p, q, k, a, b) ==
    /\ k \in (p + 1)..(q - 2) /\ s[k] = "="
    /\ a \in T[<<LeftLevel(strict), p, k>>] /\ IsTarget(s, strict, p, k, a) /\ b \in T[<<0, k + 1, q>>]
BinaryAt(s, m, T, p, q, k, a, b) ==
    /\ k \in (p + 1)..(q - 2) /\ s[k] \in Levels[m]
    /\ a \in T[<<m, p, k>>] /\ b \in T[<<m + 1, k + 1, q>>]

\* A tree that an assignment, a binary operator or a postfix operator makes.
IsAssignment(s, strict, T, p, q, x) ==
    \E k, a, b : AssignmentAt(s, strict, T, p, q, k, a, b) /\ x = Bin("ASSIGN", a, b)
IsBinary(s, m, T, p, q, x) ==
    \E k, a, b : BinaryAt(s, m, T, p, q, k, a, b) /\ x = Bin(binary_op_type[s[k]], a, b)
IsPostfix(s, T, p, q, x) ==
    \/ s[q - 1] \in DOMAIN postfix_op_type /\
          \E a \in T[<<12, p, q - 1>>] : x = Un(postfix_op_type[s[q - 1]], a)
    \/ \E k \in (p + 1)..(q - 2) : Drops(s, T, k, q) /\ x \in T[<<12, p, k>>]

\* The trees that the productions make, one by one.
LEMMA BinsMember ==
    ASSUME NEW o, NEW A, NEW B, NEW x
    PROVE  x \in Bins(o, A, B) <=> \E a \in A, b \in B : x = Bin(o, a, b)
<1>1. ASSUME NEW a \in A, NEW b \in B PROVE Bin(o, a, b) \in Bins(o, A, B)
  <2>1. PICK z : z = <<a, b>>
    OBVIOUS
  <2>2. z \in A \X B /\ z[1] = a /\ z[2] = b
    BY <2>1
  <2> QED BY <2>2 DEF Bins
<1> QED BY <1>1 DEF Bins

\* So it is of assignments.
LEMMA AssignmentMember ==
    ASSUME NEW s, NEW strict, NEW T, NEW p, NEW q, NEW x
    PROVE  x \in AssignmentTrees(s, strict, T, p, q) <=> IsAssignment(s, strict, T, p, q, x)
<1>1. ASSUME x \in AssignmentTrees(s, strict, T, p, q)
      PROVE  IsAssignment(s, strict, T, p, q, x)
  <2>1. PICK k \in Parting(s, {"="}, p, q) :
             x \in Bins("ASSIGN", Targets(s, strict, T, p, k), T[<<0, k + 1, q>>])
    BY <1>1 DEF AssignmentTrees, Targets, LeftLevel, UnaryLevel, Assignment
  <2>2. PICK a \in Targets(s, strict, T, p, k), b \in T[<<0, k + 1, q>>] :
             x = Bin("ASSIGN", a, b)
    BY <2>1, BinsMember
  <2>3. AssignmentAt(s, strict, T, p, q, k, a, b)
    BY <2>1, <2>2 DEF AssignmentAt, Parting, Targets
  <2> QED BY <2>2, <2>3 DEF IsAssignment
<1>2. ASSUME IsAssignment(s, strict, T, p, q, x)
      PROVE  x \in AssignmentTrees(s, strict, T, p, q)
  <2>1. PICK k, a, b : AssignmentAt(s, strict, T, p, q, k, a, b) /\ x = Bin("ASSIGN", a, b)
    BY <1>2 DEF IsAssignment
  <2>2. k \in Parting(s, {"="}, p, q)
    BY <2>1 DEF AssignmentAt, Parting
  <2>3. a \in Targets(s, strict, T, p, k) /\ b \in T[<<0, k + 1, q>>]
    BY <2>1 DEF AssignmentAt, Targets
  <2>4. x \in Bins("ASSIGN", Targets(s, strict, T, p, k), T[<<0, k + 1, q>>])
    BY <2>1, <2>3, BinsMember
  <2> QED BY <2>2, <2>4 DEF AssignmentTrees, Targets, LeftLevel, UnaryLevel, Assignment
<1> QED BY <1>1, <1>2

\* So it is of the binary operators.
LEMMA BinaryMember ==
    ASSUME NEW s, NEW m, NEW T, NEW p, NEW q, NEW x
    PROVE  x \in BinaryTrees(s, T, m, p, q) <=> IsBinary(s, m, T, p, q, x)
<1>1. ASSUME x \in BinaryTrees(s, T, m, p, q)
      PROVE  IsBinary(s, m, T, p, q, x)
  <2>1. PICK k \in Parting(s, Levels[m], p, q) :
             x \in Bins(binary_op_type[s[k]], T[<<m, p, k>>], T[<<m + 1, k + 1, q>>])
    BY <1>1 DEF BinaryTrees
  <2>2. PICK a \in T[<<m, p, k>>], b \in T[<<m + 1, k + 1, q>>] : x = Bin(binary_op_type[s[k]], a, b)
    BY <2>1, BinsMember
  <2>3. BinaryAt(s, m, T, p, q, k, a, b)
    BY <2>1, <2>2 DEF BinaryAt, Parting
  <2> QED BY <2>2, <2>3 DEF IsBinary
<1>2. ASSUME IsBinary(s, m, T, p, q, x)
      PROVE  x \in BinaryTrees(s, T, m, p, q)
  <2>1. PICK k, a, b : BinaryAt(s, m, T, p, q, k, a, b) /\ x = Bin(binary_op_type[s[k]], a, b)
    BY <1>2 DEF IsBinary
  <2>2. k \in Parting(s, Levels[m], p, q)
    BY <2>1 DEF BinaryAt, Parting
  <2>3. a \in T[<<m, p, k>>] /\ b \in T[<<m + 1, k + 1, q>>]
    BY <2>1 DEF BinaryAt
  <2>4. x \in Bins(binary_op_type[s[k]], T[<<m, p, k>>], T[<<m + 1, k + 1, q>>])
    BY <2>1, <2>3, BinsMember
  <2> QED BY <2>2, <2>4 DEF BinaryTrees
<1> QED BY <1>1, <1>2

\* So it is of postfix expressions.
LEMMA PostfixMember ==
    ASSUME NEW s, NEW T, NEW p, NEW q, NEW x
    PROVE  x \in PostfixTrees(s, T, p, q) <=> IsPostfix(s, T, p, q, x)
BY DEF PostfixTrees, PostfixLevel, IsPostfix

\* Productions have the trees of parts that are shorter.
LEMMA OwnAgree ==
    ASSUME NEW s \in Inputs, NEW strict, NEW T, NEW U, NEW p \in Positions(s), NEW q \in Positions(s), p < q,
           AgreeBelow(s, T, U, q - p), NEW m \in 0..13
    PROVE  OwnTrees(s, strict, T, m, p, q) = OwnTrees(s, strict, U, m, p, q)
<1>1. Len(s) \in Nat /\ p \in 1..Len(s) /\ q \in 1..Len(s)
  BY InputsEndWithEOF DEF Positions
<1>2. ASSUME NEW l \in 0..13, NEW b \in Int, NEW e \in Int, p <= b, e <= q, b <= q, p <= e, e - b < q - p
      PROVE  T[<<l, b, e>>] = U[<<l, b, e>>]
  <2>1. b \in Positions(s) /\ e \in Positions(s)
    BY <1>1, <1>2 DEF Positions
  <2> QED BY <1>2, <2>1 DEF AgreeBelow
<1>3. ASSUME NEW k \in (p + 1)..(q - 2), NEW l \in 0..13
      PROVE  /\ T[<<l, p, k>>] = U[<<l, p, k>>] /\ T[<<l, k + 1, q>>] = U[<<l, k + 1, q>>]
             /\ T[<<l, k + 1, q - 1>>] = U[<<l, k + 1, q - 1>>]
  <2>1. /\ k \in Int /\ k + 1 \in Int /\ q - 1 \in Int /\ q \in Int /\ p \in Int
        /\ p <= k /\ k <= q /\ p <= k + 1 /\ k + 1 <= q /\ p <= q - 1 /\ q - 1 <= q /\ p <= p /\ q <= q /\ p <= q
        /\ k - p < q - p /\ q - (k + 1) < q - p /\ (q - 1) - (k + 1) < q - p
    BY <1>1
  <2> QED BY <1>2, <2>1
<1>4. ASSUME NEW l \in 0..13
      PROVE  /\ T[<<l, p + 1, q>>] = U[<<l, p + 1, q>>] /\ T[<<l, p, q - 1>>] = U[<<l, p, q - 1>>]
             /\ q # p + 1 => T[<<l, p + 1, q - 1>>] = U[<<l, p + 1, q - 1>>]
  <2>1. /\ p + 1 \in Int /\ q - 1 \in Int /\ q \in Int /\ p \in Int /\ p <= p /\ q <= q /\ p <= q
        /\ p <= p + 1 /\ p + 1 <= q /\ p <= q - 1 /\ q - 1 <= q
        /\ q - (p + 1) < q - p /\ (q - 1) - p < q - p /\ (q - 1) - (p + 1) < q - p
    BY <1>1
  <2> QED BY <1>2, <2>1
<1>5. CASE m = 0
  <2>1. LeftLevel(strict) \in 0..13
    BY DEF LeftLevel
  <2>2. \A k \in (p + 1)..(q - 2) :
           /\ T[<<LeftLevel(strict), p, k>>] = U[<<LeftLevel(strict), p, k>>]
           /\ T[<<0, k + 1, q>>] = U[<<0, k + 1, q>>]
    <3>1. 0 \in 0..13
      OBVIOUS
    <3> QED BY <1>3, <2>1, <3>1, Zenon
  <2>3. ASSUME NEW x PROVE x \in AssignmentTrees(s, strict, T, p, q) <=> x \in AssignmentTrees(s, strict, U, p, q)
    <3>1. \A k, a, b : AssignmentAt(s, strict, T, p, q, k, a, b) <=> AssignmentAt(s, strict, U, p, q, k, a, b)
      BY <2>2 DEF AssignmentAt
    <3>2. IsAssignment(s, strict, T, p, q, x) <=> IsAssignment(s, strict, U, p, q, x)
      BY <3>1, Zenon DEF IsAssignment
    <3> QED BY <3>2, AssignmentMember
  <2>4. AssignmentTrees(s, strict, T, p, q) = AssignmentTrees(s, strict, U, p, q)
    BY <2>3
  <2> QED BY <1>5, <2>4, OwnIs
<1>6. CASE m \in 1..10
  <2>1. m + 1 \in 0..13 /\ m \in 0..13
    BY <1>6
  <2>2. \A k \in (p + 1)..(q - 2) :
           T[<<m, p, k>>] = U[<<m, p, k>>] /\ T[<<m + 1, k + 1, q>>] = U[<<m + 1, k + 1, q>>]
    BY <1>3, <2>1
  <2>3. ASSUME NEW x PROVE x \in BinaryTrees(s, T, m, p, q) <=> x \in BinaryTrees(s, U, m, p, q)
    <3>1. \A k, a, b : BinaryAt(s, m, T, p, q, k, a, b) <=> BinaryAt(s, m, U, p, q, k, a, b)
      BY <2>2 DEF BinaryAt
    <3>2. IsBinary(s, m, T, p, q, x) <=> IsBinary(s, m, U, p, q, x)
      BY <3>1, Zenon DEF IsBinary
    <3> QED BY <3>2, BinaryMember
  <2>4. BinaryTrees(s, T, m, p, q) = BinaryTrees(s, U, m, p, q)
    BY <2>3
  <2> QED BY <1>6, <2>4, OwnIs
<1>7. CASE m = 11
  <2>1. T[<<11, p + 1, q>>] = U[<<11, p + 1, q>>]
    BY <1>4
  <2>2. UnaryTrees(s, strict, T, p, q) = UnaryTrees(s, strict, U, p, q)
    BY <2>1, Zenon DEF UnaryTrees, UnaryLevel
  <2> QED BY <1>7, <2>2, OwnIs
<1>8. CASE m = 12
  <2>0. 12 \in 0..13 /\ 0 \in 0..13
    OBVIOUS
  <2>1. T[<<12, p, q - 1>>] = U[<<12, p, q - 1>>]
    BY <1>4, <2>0
  <2>2. \A k \in (p + 1)..(q - 2) :
           T[<<0, k + 1, q - 1>>] = U[<<0, k + 1, q - 1>>] /\ T[<<12, p, k>>] = U[<<12, p, k>>]
    <3>1. ASSUME NEW k \in (p + 1)..(q - 2)
          PROVE  T[<<0, k + 1, q - 1>>] = U[<<0, k + 1, q - 1>>] /\ T[<<12, p, k>>] = U[<<12, p, k>>]
      BY <1>3, <2>0, Zenon
    <3> QED BY <3>1
  <2>3. \A k \in (p + 1)..(q - 2) : Drops(s, T, k, q) <=> Drops(s, U, k, q)
    BY <2>2, Zenon DEF Drops, Assignment
  <2>4. ASSUME NEW x PROVE x \in PostfixTrees(s, T, p, q) <=> x \in PostfixTrees(s, U, p, q)
    <3>1. IsPostfix(s, T, p, q, x) <=> IsPostfix(s, U, p, q, x)
      BY <2>1, <2>2, <2>3, Zenon DEF IsPostfix
    <3> QED BY <3>1, PostfixMember
  <2>5. PostfixTrees(s, T, p, q) = PostfixTrees(s, U, p, q)
    BY <2>4
  <2> QED BY <1>8, <2>5, OwnIs
<1>9. CASE m = 13
  <2>1. PrimaryTrees(s, T, p, q) = PrimaryTrees(s, U, p, q)
    BY <1>4 DEF PrimaryTrees, Assignment
  <2> QED BY <1>9, <2>1, OwnIs
<1> QED BY <1>5, <1>6, <1>7, <1>8, <1>9

-----------------------------------------------------------------------------

\* The equation of the table at the spans of at most n tokens.
Charted(s, T, strict, n) ==
    /\ T = [x \in Span(s) |-> T[x]]
    /\ \A x \in Span(s) : x[3] - x[2] <= n =>
          T[x] = IF x[2] >= x[3] THEN {}
                 ELSE UNION {OwnTrees(s, strict, T, m, x[2], x[3]) : m \in x[1]..13}

\* A table that meets the equation at every span.
IsChart(s, T, strict) ==
    T = [x \in Span(s) |-> IF x[2] >= x[3] THEN {}
                        ELSE UNION {OwnTrees(s, strict, T, m, x[2], x[3]) : m \in x[1]..13}]

\* There is a table for the spans of each size.
LEMMA ChartsExist ==
    ASSUME NEW s \in Inputs, NEW strict, NEW n \in Nat
    PROVE  \E T : Charted(s, T, strict, n)
<1>1. PICK G : G = {k \in Nat : ~ \E T : Charted(s, T, strict, k)}
  OBVIOUS
<1>2. SUFFICES ASSUME G # {} PROVE FALSE
  BY <1>1
<1>3. PICK k \in G : \A j \in G : k <= j
  BY <1>1, <1>2, LeastElement
<1>4. k \in Nat
  BY <1>1
<1>5. PICK T : T = [x \in Span(s) |-> T[x]] /\ (IF k = 0 THEN T = [x \in Span(s) |-> {}] ELSE Charted(s, T, strict, k - 1))
  <2>1. CASE k = 0
    <3>1. PICK T : T = [x \in Span(s) |-> {}]
      OBVIOUS
    <3>2. T = [x \in Span(s) |-> T[x]]
      BY <3>1
    <3> QED BY <2>1, <3>2
  <2>2. CASE k # 0
    <3>1. k - 1 \in Nat /\ ~ (k <= k - 1)
      BY <1>4, <2>2
    <3>2. k - 1 \notin G
      BY <1>3, <3>1
    <3>3. PICK T : Charted(s, T, strict, k - 1)
      BY <1>1, <3>1, <3>2
    <3> QED BY <3>3 DEF Charted
  <2> QED BY <2>1, <2>2
<1>6. PICK U : U = [x \in Span(s) |-> IF x[2] >= x[3] THEN {}
                                   ELSE UNION {OwnTrees(s, strict, T, m, x[2], x[3]) : m \in x[1]..13}]
  OBVIOUS
<1>7. \A x \in Span(s) : U[x] = IF x[2] >= x[3] THEN {}
                             ELSE UNION {OwnTrees(s, strict, T, m, x[2], x[3]) : m \in x[1]..13}
  BY <1>6
<1>8. Len(s) \in Nat
  BY InputsEndWithEOF
<1>9. AgreeBelow(s, T, U, k)
  <2> SUFFICES ASSUME NEW l \in 0..13, NEW p \in Positions(s), NEW q \in Positions(s), q - p < k
               PROVE  T[<<l, p, q>>] = U[<<l, p, q>>]
    BY DEF AgreeBelow
  <2>1. PICK x : x = <<l, p, q>>
    OBVIOUS
  <2>2. x \in Span(s) /\ x[1] = l /\ x[2] = p /\ x[3] = q
    BY <2>1 DEF Span
  <2>3. p \in Int /\ q \in Int
    BY <1>8 DEF Positions
  <2>4. CASE k = 0
    <3>1. p >= q
      BY <2>3, <2>4
    <3>2. U[x] = {}
      BY <1>7, <2>2, <3>1
    <3>3. T[x] = {}
      BY <1>5, <2>2, <2>4
    <3> QED BY <2>1, <3>2, <3>3
  <2>5. CASE k # 0
    <3>1. x[3] - x[2] <= k - 1
      BY <1>4, <2>2, <2>3
    <3>2. U[x] = T[x]
      BY <1>5, <1>7, <2>2, <2>5, <3>1 DEF Charted
    <3> QED BY <2>1, <3>2
  <2> QED BY <2>4, <2>5
<1>10. Charted(s, U, strict, k)
  <2>1. U = [x \in Span(s) |-> U[x]]
    BY <1>6
  <2>2. ASSUME NEW x \in Span(s), x[3] - x[2] <= k
        PROVE  U[x] = IF x[2] >= x[3] THEN {}
                      ELSE UNION {OwnTrees(s, strict, U, m, x[2], x[3]) : m \in x[1]..13}
    <3>1. x[1] \in 0..13 /\ x[2] \in Positions(s) /\ x[3] \in Positions(s)
      BY DEF Span
    <3>2. x[2] \in Int /\ x[3] \in Int
      BY <1>8, <3>1 DEF Positions
    <3>3. CASE x[2] >= x[3]
      BY <1>7, <3>3
    <3>4. CASE x[2] < x[3]
      <4>1. AgreeBelow(s, T, U, x[3] - x[2])
        BY <1>4, <1>8, <1>9, <2>2, <3>2 DEF AgreeBelow, Positions
      <4>2. \A m \in x[1]..13 : m \in 0..13
        BY <3>1
      <4>3. \A m \in x[1]..13 : OwnTrees(s, strict, T, m, x[2], x[3]) = OwnTrees(s, strict, U, m, x[2], x[3])
        BY <3>1, <3>4, <4>1, <4>2, OwnAgree
      <4>4. {OwnTrees(s, strict, T, m, x[2], x[3]) : m \in x[1]..13}
            = {OwnTrees(s, strict, U, m, x[2], x[3]) : m \in x[1]..13}
        BY <4>3, Zenon
      <4>5. ~ (x[2] >= x[3])
        BY <3>2, <3>4
      <4> QED BY <1>7, <4>4, <4>5
    <3> QED BY <3>2, <3>3, <3>4
  <2> QED BY <2>1, <2>2 DEF Charted
<1> QED BY <1>1, <1>10

\* The equation of the table: the trees of a span at a level are those that the
\* productions of the level, or of one below it, make.
Grammatical(s, T, strict) ==
    \A l \in 0..13, p \in Positions(s), q \in Positions(s) :
       T[<<l, p, q>>] = IF p >= q THEN {} ELSE UNION {OwnTrees(s, strict, T, m, p, q) : m \in l..13}

\* The table of Grammar is one.
LEMMA TreesGrammatical ==
    ASSUME NEW s \in Inputs, NEW strict
    PROVE  Grammatical(s, Trees(s, strict), strict)
<1>1. Len(s) \in Nat
  BY InputsEndWithEOF
<1>2. PICK C : C = CHOOSE T : IsChart(s, T, strict)
  OBVIOUS
<1>3. PICK D : Charted(s, D, strict, Len(s))
  BY <1>1, ChartsExist
<1>4. IsChart(s, D, strict)
  <2>1. \A x \in Span(s) : x[3] - x[2] <= Len(s)
    BY <1>1 DEF Span, Positions
  <2> QED BY <1>3, <2>1 DEF Charted, IsChart
<1>5. IsChart(s, C, strict)
  BY <1>2, <1>4
<1>6. Trees(s, strict) = C
  BY <1>2 DEF Trees, Span, Assignment, PrimaryLevel, IsChart
<1>7. ASSUME NEW l \in 0..13, NEW p \in Positions(s), NEW q \in Positions(s)
      PROVE  C[<<l, p, q>>] = IF p >= q THEN {}
                              ELSE UNION {OwnTrees(s, strict, C, m, p, q) : m \in l..13}
  <2>1. PICK x : x = <<l, p, q>>
    OBVIOUS
  <2>2. x \in Span(s) /\ x[1] = l /\ x[2] = p /\ x[3] = q
    BY <2>1 DEF Span
  <2>3. C[x] = IF x[2] >= x[3] THEN {}
               ELSE UNION {OwnTrees(s, strict, C, m, x[2], x[3]) : m \in x[1]..13}
    BY <1>5, <2>2 DEF IsChart
  <2> QED BY <2>1, <2>2, <2>3
<1>8. Grammatical(s, C, strict)
  BY <1>7 DEF Grammatical
<1> QED BY <1>6, <1>8

\* The trees of a span are what the productions make of it.
LEMMA TreesMade ==
    ASSUME NEW s, NEW strict, NEW T, Grammatical(s, T, strict),
           NEW l \in 0..13, NEW p \in Positions(s), NEW q \in Positions(s), NEW x
    PROVE  x \in T[<<l, p, q>>] <=> ~ (p >= q) /\ \E m \in l..13 : x \in OwnTrees(s, strict, T, m, p, q)
<1>1. T[<<l, p, q>>] = IF p >= q THEN {} ELSE UNION {OwnTrees(s, strict, T, m, p, q) : m \in l..13}
  BY ZenonT(60) DEF Grammatical
<1>2. PICK S : S = {OwnTrees(s, strict, T, m, p, q) : m \in l..13}
  OBVIOUS
<1>3. x \in UNION S <=> \E m \in l..13 : x \in OwnTrees(s, strict, T, m, p, q)
  BY <1>2
<1> QED BY <1>1, <1>2, <1>3

\* A tree of a lower level is one of the levels above.
LEMMA TreesNested ==
    ASSUME NEW s, NEW strict, NEW T, Grammatical(s, T, strict),
           NEW l \in 0..13, NEW k \in 0..13, l <= k, NEW p \in Positions(s), NEW q \in Positions(s)
    PROVE  T[<<k, p, q>>] \subseteq T[<<l, p, q>>]
<1>1. \A m \in k..13 : m \in l..13
  OBVIOUS
<1> QED BY <1>1, TreesMade

\* The operators of binary_op_type.
LEMMA OperatorNames ==
    /\ DOMAIN binary_op_type = {"*", "/", "+", "-", "%", "<<", ">>", "<", "<=", ">", ">=", "==", "!=",
                                "&", "^", "|", "&&", "||", "="}
    /\ binary_op_type["*"] = "MUL" /\ binary_op_type["/"] = "DIV" /\ binary_op_type["+"] = "ADD"
    /\ binary_op_type["-"] = "SUB" /\ binary_op_type["%"] = "MOD" /\ binary_op_type["<<"] = "SHL"
    /\ binary_op_type[">>"] = "SHR" /\ binary_op_type["<"] = "LT" /\ binary_op_type["<="] = "LE"
    /\ binary_op_type[">"] = "GT" /\ binary_op_type[">="] = "GE" /\ binary_op_type["=="] = "EQ"
    /\ binary_op_type["!="] = "NE" /\ binary_op_type["&"] = "BITAND" /\ binary_op_type["^"] = "BITXOR"
    /\ binary_op_type["|"] = "BITOR" /\ binary_op_type["&&"] = "AND" /\ binary_op_type["||"] = "OR"
    /\ binary_op_type["="] = "ASSIGN"
BY DEF binary_op_type

\* None of them is the empty string.
LEMMA OperatorsNamed == \A t \in DOMAIN binary_op_type : binary_op_type[t] # ""
BY OperatorNames

\* Their precedences.
LEMMA Precedences ==
    /\ \A o \in {"MUL", "DIV", "MOD"} : PRECEDENCE(o) = 13 /\ next_min_pred(o) = 14
    /\ \A o \in {"ADD", "SUB"} : PRECEDENCE(o) = 12 /\ next_min_pred(o) = 13
    /\ \A o \in {"SHL", "SHR"} : PRECEDENCE(o) = 11 /\ next_min_pred(o) = 12
    /\ \A o \in {"LT", "LE", "GT", "GE"} : PRECEDENCE(o) = 10 /\ next_min_pred(o) = 11
    /\ \A o \in {"EQ", "NE"} : PRECEDENCE(o) = 9 /\ next_min_pred(o) = 10
    /\ PRECEDENCE("BITAND") = 8 /\ next_min_pred("BITAND") = 9
    /\ PRECEDENCE("BITXOR") = 7 /\ next_min_pred("BITXOR") = 8
    /\ PRECEDENCE("BITOR") = 6 /\ next_min_pred("BITOR") = 7
    /\ PRECEDENCE("AND") = 5 /\ next_min_pred("AND") = 6
    /\ PRECEDENCE("OR") = 4 /\ next_min_pred("OR") = 5
    /\ PRECEDENCE("ASSIGN") = 2 /\ next_min_pred("ASSIGN") = 2
BY DEF PRECEDENCE, next_min_pred, ASSOC

\* The level of the grammar that an operator is of.
OpLevel(t) == IF t = "=" THEN 0 ELSE PRECEDENCE(binary_op_type[t]) - 3

\* The level that parse_expression_internal(min_pred) parses.
LevelOf(min_pred) == IF min_pred <= 2 THEN 0 ELSE min_pred - 3

\* The minima that it is called with.
Minima == {1, 2} \cup 5..14

\* The operators of each level.
LEMMA LevelsAre ==
    /\ Levels[1] = {"||"} /\ Levels[2] = {"&&"} /\ Levels[3] = {"|"} /\ Levels[4] = {"^"}
    /\ Levels[5] = {"&"} /\ Levels[6] = {"==", "!="} /\ Levels[7] = {"<", ">", "<=", ">="}
    /\ Levels[8] = {"<<", ">>"} /\ Levels[9] = {"+", "-"} /\ Levels[10] = {"*", "/", "%"}
BY DEF Levels

\* An operator is of the level of its precedence.
LEMMA OperatorLevel ==
    ASSUME NEW t \in DOMAIN binary_op_type
    PROVE  \/ t = "=" /\ binary_op_type[t] = "ASSIGN"
              /\ PRECEDENCE(binary_op_type[t]) = 2 /\ next_min_pred(binary_op_type[t]) = 2
           \/ \E j \in 1..10 : /\ t # "=" /\ t \in Levels[j]
                               /\ PRECEDENCE(binary_op_type[t]) = j + 3
                               /\ next_min_pred(binary_op_type[t]) = j + 4
<1>1. CASE t = "="
  BY <1>1, OperatorNames, Precedences
<1>2. CASE t = "||"
  <2>1. t # "=" /\ t \in Levels[1] /\ binary_op_type[t] = "OR"
    BY <1>2, LevelsAre, OperatorNames
  <2> QED BY <2>1, Precedences
<1>3. CASE t = "&&"
  <2>1. t # "=" /\ t \in Levels[2] /\ binary_op_type[t] = "AND"
    BY <1>3, LevelsAre, OperatorNames
  <2> QED BY <2>1, Precedences
<1>4. CASE t = "|"
  <2>1. t # "=" /\ t \in Levels[3] /\ binary_op_type[t] = "BITOR"
    BY <1>4, LevelsAre, OperatorNames
  <2> QED BY <2>1, Precedences
<1>5. CASE t = "^"
  <2>1. t # "=" /\ t \in Levels[4] /\ binary_op_type[t] = "BITXOR"
    BY <1>5, LevelsAre, OperatorNames
  <2> QED BY <2>1, Precedences
<1>6. CASE t = "&"
  <2>1. t # "=" /\ t \in Levels[5] /\ binary_op_type[t] = "BITAND"
    BY <1>6, LevelsAre, OperatorNames
  <2> QED BY <2>1, Precedences
<1>7. CASE t \in {"==", "!="}
  <2>1. t # "=" /\ t \in Levels[6] /\ binary_op_type[t] \in {"EQ", "NE"}
    BY <1>7, LevelsAre, OperatorNames
  <2> QED BY <2>1, Precedences
<1>8. CASE t \in {"<", ">", "<=", ">="}
  <2>1. t # "=" /\ t \in Levels[7] /\ binary_op_type[t] \in {"LT", "LE", "GT", "GE"}
    BY <1>8, LevelsAre, OperatorNames
  <2> QED BY <2>1, Precedences
<1>9. CASE t \in {"<<", ">>"}
  <2>1. t # "=" /\ t \in Levels[8] /\ binary_op_type[t] \in {"SHL", "SHR"}
    BY <1>9, LevelsAre, OperatorNames
  <2> QED BY <2>1, Precedences
<1>10. CASE t \in {"+", "-"}
  <2>1. t # "=" /\ t \in Levels[9] /\ binary_op_type[t] \in {"ADD", "SUB"}
    BY <1>10, LevelsAre, OperatorNames
  <2> QED BY <2>1, Precedences
<1>11. CASE t \in {"*", "/", "%"}
  <2>1. t # "=" /\ t \in Levels[10] /\ binary_op_type[t] \in {"MUL", "DIV", "MOD"}
    BY <1>11, LevelsAre, OperatorNames
  <2> QED BY <2>1, Precedences
<1> QED BY <1>1, <1>2, <1>3, <1>4, <1>5, <1>6, <1>7, <1>8, <1>9, <1>10, <1>11, OperatorNames

\* The operators of a level are operators, and of no other.
LEMMA LevelOperators ==
    ASSUME NEW j \in 1..10, NEW t \in Levels[j]
    PROVE  t \in DOMAIN binary_op_type /\ t # "=" /\ \A k \in 1..10 : t \in Levels[k] => k = j
<1>1. t \in DOMAIN binary_op_type /\ t # "="
  <2>1. j \in {1, 2, 3, 4, 5, 6, 7, 8, 9, 10}
    OBVIOUS
  <2> QED BY <2>1, LevelsAre, OperatorNames
<1>2. ASSUME NEW k \in 1..10, t \in Levels[k] PROVE k = j
  <2>1. j \in {1, 2, 3, 4, 5, 6, 7, 8, 9, 10} /\ k \in {1, 2, 3, 4, 5, 6, 7, 8, 9, 10}
    OBVIOUS
  <2> QED BY <1>2, <2>1, LevelsAre
<1> QED BY <1>1, <1>2

\* What the loop of parse_expression_internal takes, by levels.
LEMMA TakesLevel ==
    ASSUME NEW t \in DOMAIN binary_op_type, NEW min \in Minima
    PROVE  /\ OpLevel(t) \in 0..10 /\ (OpLevel(t) = 0 <=> t = "=")
           /\ t # "=" => t \in Levels[OpLevel(t)]
           /\ \A j \in 1..10 : t \in Levels[j] => OpLevel(t) = j
           /\ takes(binary_op_type[t], min) <=> OpLevel(t) >= LevelOf(min)
           /\ next_min_pred(binary_op_type[t]) \in Minima
           /\ LevelOf(next_min_pred(binary_op_type[t])) = IF t = "=" THEN 0 ELSE OpLevel(t) + 1
           /\ LevelOf(min) \in 0..11
<1>1. CASE t = "="
  <2>1. /\ binary_op_type[t] = "ASSIGN" /\ PRECEDENCE(binary_op_type[t]) = 2
        /\ next_min_pred(binary_op_type[t]) = 2
    BY <1>1, OperatorNames, Precedences
  <2>2. \A j \in 1..10 : t \notin Levels[j]
    BY <1>1, LevelOperators
  <2> QED BY <1>1, <2>1, <2>2 DEF OpLevel, LevelOf, Minima, takes
<1>2. CASE t # "="
  <2>1. PICK j \in 1..10 : /\ t \in Levels[j] /\ PRECEDENCE(binary_op_type[t]) = j + 3
                           /\ next_min_pred(binary_op_type[t]) = j + 4
    BY <1>2, OperatorLevel
  <2>2. OpLevel(t) = j
    BY <1>2, <2>1 DEF OpLevel
  <2>3. \A k \in 1..10 : t \in Levels[k] => k = j
    BY <2>1, LevelOperators
  <2>4. takes(binary_op_type[t], min) <=> j + 3 >= min
    BY <2>1 DEF takes
  <2> QED BY <1>2, <2>1, <2>2, <2>3, <2>4 DEF LevelOf, Minima
<1> QED BY <1>1, <1>2

\* A span that has a tree is not empty.
LEMMA TreesSpan ==
    ASSUME NEW s \in Inputs, NEW strict, NEW T, Grammatical(s, T, strict),
           NEW l \in 0..13, NEW p \in Positions(s), NEW q \in Positions(s), NEW x \in T[<<l, p, q>>]
    PROVE  p < q /\ p \in Nat /\ q \in Nat
<1>1. Len(s) \in Nat
  BY InputsEndWithEOF
<1>2. p \in Nat /\ q \in Nat
  BY <1>1 DEF Positions
<1>3. ~ (p >= q)
  BY TreesMade
<1> QED BY <1>2, <1>3

\* The productions one by one.
LEMMA LeafTree ==
    ASSUME NEW s \in Inputs, NEW strict, NEW T, Grammatical(s, T, strict),
           NEW p \in Positions(s), p + 1 \in Positions(s), s[p] \in Constants \cup Identifiers
    PROVE  Leaf(IF s[p] \in Constants THEN "CONST" ELSE "VAR", s[p]) \in T[<<13, p, p + 1>>]
<1>1. ~ (p >= p + 1)
  <2>1. Len(s) \in Nat
    BY InputsEndWithEOF
  <2> QED BY <2>1 DEF Positions
<1>2. PICK x : x = Leaf(IF s[p] \in Constants THEN "CONST" ELSE "VAR", s[p])
  OBVIOUS
<1>3. x \in OwnTrees(s, strict, T, 13, p, p + 1)
  <2>1. x \in PrimaryTrees(s, T, p, p + 1)
    BY <1>2 DEF PrimaryTrees
  <2> QED BY <2>1, OwnIs
<1>4. 13 \in 13..13 /\ 13 \in 0..13
  OBVIOUS
<1> QED BY <1>1, <1>2, <1>3, <1>4, TreesMade

\* A parenthesised expression is a primary expression.
LEMMA ParenTree ==
    ASSUME NEW s \in Inputs, NEW strict, NEW T, Grammatical(s, T, strict),
           NEW p \in Positions(s), NEW q \in Positions(s), p + 1 \in Positions(s), q + 1 \in Positions(s),
           s[p] = "(", s[q] = ")", NEW x \in T[<<0, p + 1, q>>]
    PROVE  x \in T[<<13, p, q + 1>>]
<1>1. 0 \in 0..13 /\ 13 \in 0..13 /\ 13 \in 13..13
  OBVIOUS
<1>2. p + 1 < q /\ p \in Nat /\ q \in Nat
  <2>1. p + 1 < q /\ p + 1 \in Nat /\ q \in Nat
    BY <1>1, TreesSpan
  <2>2. p \in Nat
    BY InputsEndWithEOF DEF Positions
  <2> QED BY <2>1, <2>2
<1>3. ~ (p >= q + 1) /\ q + 1 # p + 1 /\ (q + 1) - 1 = q
  BY <1>2
<1>4. x \in PrimaryTrees(s, T, p, q + 1)
  BY <1>3 DEF PrimaryTrees, Assignment
<1>5. x \in OwnTrees(s, strict, T, 13, p, q + 1)
  BY <1>4, OwnIs
<1> QED BY <1>1, <1>3, <1>5, TreesMade

\* A postfix operator behind a postfix expression.
LEMMA PostfixTree ==
    ASSUME NEW s \in Inputs, NEW strict, NEW T, Grammatical(s, T, strict),
           NEW p \in Positions(s), NEW q \in Positions(s), q + 1 \in Positions(s),
           s[q] \in DOMAIN postfix_op_type, NEW x \in T[<<12, p, q>>]
    PROVE  Un(postfix_op_type[s[q]], x) \in T[<<12, p, q + 1>>]
<1>1. 12 \in 0..13 /\ 12 \in 12..13
  OBVIOUS
<1>2. p < q /\ p \in Nat /\ q \in Nat
  BY <1>1, TreesSpan
<1>3. ~ (p >= q + 1) /\ (q + 1) - 1 = q
  BY <1>2
<1>4. IsPostfix(s, T, p, q + 1, Un(postfix_op_type[s[q]], x))
  BY <1>3 DEF IsPostfix
<1>5. Un(postfix_op_type[s[q]], x) \in OwnTrees(s, strict, T, 12, p, q + 1)
  BY <1>4, OwnIs, PostfixMember
<1> QED BY <1>1, <1>3, <1>5, TreesMade

\* What is dropped behind a postfix expression leaves its tree.
LEMMA DroppedTree ==
    ASSUME NEW s \in Inputs, NEW strict, NEW T, Grammatical(s, T, strict),
           NEW p \in Positions(s), NEW q \in Positions(s), NEW k \in (p + 1)..(q - 2),
           Drops(s, T, k, q), NEW x \in T[<<12, p, k>>]
    PROVE  x \in T[<<12, p, q>>]
<1>1. 12 \in 0..13 /\ 12 \in 12..13
  OBVIOUS
<1>2. p \in Nat /\ q \in Nat
  BY InputsEndWithEOF DEF Positions
<1>3. ~ (p >= q)
  BY <1>2
<1>4. IsPostfix(s, T, p, q, x)
  BY DEF IsPostfix
<1>5. x \in OwnTrees(s, strict, T, 12, p, q)
  BY <1>4, OwnIs, PostfixMember
<1> QED BY <1>1, <1>3, <1>5, TreesMade

\* A prefix operator in front of a unary expression.
LEMMA PrefixTree ==
    ASSUME NEW s \in Inputs, NEW strict, NEW T, Grammatical(s, T, strict),
           NEW p \in Positions(s), NEW q \in Positions(s), p + 1 \in Positions(s),
           s[p] \in DOMAIN prefix_op_type, NEW x \in T[<<11, p + 1, q>>]
    PROVE  Un(prefix_op_type[s[p]], x) \in T[<<11, p, q>>]
<1>1. 11 \in 0..13 /\ 11 \in 11..13
  OBVIOUS
<1>2. p + 1 < q /\ p \in Nat
  <2>1. p + 1 < q
    BY <1>1, TreesSpan
  <2>2. p \in Nat
    BY InputsEndWithEOF DEF Positions
  <2> QED BY <2>1, <2>2
<1>3. ~ (p >= q)
  <2>1. q \in Nat
    BY InputsEndWithEOF DEF Positions
  <2> QED BY <1>2, <2>1
<1>4. Un(prefix_op_type[s[p]], x) \in UnaryTrees(s, strict, T, p, q)
  BY DEF UnaryTrees, UnaryLevel
<1>5. Un(prefix_op_type[s[p]], x) \in OwnTrees(s, strict, T, 11, p, q)
  BY <1>4, OwnIs
<1> QED BY <1>1, <1>3, <1>5, TreesMade

\* The operands of a binary operator are of its level and the one below.
LEMMA BinaryTree ==
    ASSUME NEW s \in Inputs, NEW strict, NEW T, Grammatical(s, T, strict),
           NEW p \in Positions(s), NEW k \in Positions(s), NEW q \in Positions(s), k + 1 \in Positions(s),
           NEW m \in 1..10, s[k] \in Levels[m], NEW x \in T[<<m, p, k>>], NEW y \in T[<<m + 1, k + 1, q>>]
    PROVE  Bin(binary_op_type[s[k]], x, y) \in T[<<m, p, q>>]
<1>1. m \in 0..13 /\ m + 1 \in 0..13 /\ m \in m..13
  OBVIOUS
<1>2. p < k /\ p \in Nat /\ k \in Nat
  BY <1>1, TreesSpan
<1>3. k + 1 < q /\ q \in Nat
  BY <1>1, TreesSpan
<1>4. ~ (p >= q) /\ k \in (p + 1)..(q - 2)
  BY <1>2, <1>3
<1>5. BinaryAt(s, m, T, p, q, k, x, y)
  BY <1>4 DEF BinaryAt
<1>6. IsBinary(s, m, T, p, q, Bin(binary_op_type[s[k]], x, y))
  BY <1>5 DEF IsBinary
<1>7. Bin(binary_op_type[s[k]], x, y) \in OwnTrees(s, strict, T, m, p, q)
  BY <1>6, OwnIs, BinaryMember
<1> QED BY <1>1, <1>4, <1>7, TreesMade

\* The right side of an assignment is one.
LEMMA AssignmentTree ==
    ASSUME NEW s \in Inputs, NEW strict, NEW T, Grammatical(s, T, strict),
           NEW p \in Positions(s), NEW k \in Positions(s), NEW q \in Positions(s), k + 1 \in Positions(s),
           s[k] = "=", NEW x \in T[<<LeftLevel(strict), p, k>>], IsTarget(s, strict, p, k, x),
           NEW y \in T[<<0, k + 1, q>>]
    PROVE  Bin("ASSIGN", x, y) \in T[<<0, p, q>>]
<1>1. 0 \in 0..13 /\ 0 \in 0..13 /\ LeftLevel(strict) \in 0..13
  BY DEF LeftLevel
<1>2. p < k /\ p \in Nat /\ k \in Nat
  BY <1>1, TreesSpan
<1>3. k + 1 < q /\ q \in Nat
  BY <1>1, TreesSpan
<1>4. ~ (p >= q) /\ k \in (p + 1)..(q - 2)
  BY <1>2, <1>3
<1>5. AssignmentAt(s, strict, T, p, q, k, x, y)
  BY <1>4 DEF AssignmentAt
<1>6. IsAssignment(s, strict, T, p, q, Bin("ASSIGN", x, y))
  BY <1>5 DEF IsAssignment
<1>7. Bin("ASSIGN", x, y) \in OwnTrees(s, strict, T, 0, p, q)
  BY <1>6, OwnIs, AssignmentMember
<1> QED BY <1>1, <1>4, <1>7, TreesMade

\* sizeof is dropped, or stands in front of "( )".
LEMMA SizeofTree ==
    ASSUME NEW s \in Inputs, NEW strict, strict = FALSE, NEW T, Grammatical(s, T, strict),
           NEW p \in Positions(s), NEW q \in Positions(s), p + 1 \in Positions(s),
           s[p] = "sizeof", s[p + 1] # "(", NEW x \in T[<<11, p + 1, q>>]
    PROVE  x \in T[<<11, p, q>>]
<1>1. 11 \in 0..13 /\ 11 \in 11..13
  OBVIOUS
<1>2. p + 1 < q /\ p \in Nat /\ q \in Nat
  <2>1. p + 1 < q
    BY <1>1, TreesSpan
  <2>2. p \in Nat /\ q \in Nat
    BY InputsEndWithEOF DEF Positions
  <2> QED BY <2>1, <2>2
<1>3. ~ (p >= q) /\ q # p + 1
  BY <1>2
<1>4. "sizeof" \notin DOMAIN prefix_op_type
  BY DEF prefix_op_type
<1>5. x \in UnaryTrees(s, strict, T, p, q)
  BY <1>3, <1>4 DEF UnaryTrees, UnaryLevel
<1>6. x \in OwnTrees(s, strict, T, 11, p, q)
  BY <1>5, OwnIs
<1> QED BY <1>1, <1>3, <1>6, TreesMade

\* sizeof with empty parentheses is NULL.
LEMMA SizeofNothing ==
    ASSUME NEW s \in Inputs, NEW strict, strict = FALSE, NEW T, Grammatical(s, T, strict),
           NEW p \in Positions(s), p + 3 \in Positions(s),
           s[p] = "sizeof", s[p + 1] = "(", s[p + 2] = ")"
    PROVE  NoExpr \in T[<<11, p, p + 3>>]
<1>1. 11 \in 0..13 /\ 11 \in 11..13
  OBVIOUS
<1>2. p \in Nat
  BY InputsEndWithEOF DEF Positions
<1>3. ~ (p >= p + 3) /\ p + 3 # p + 1
  BY <1>2
<1>4. "sizeof" \notin DOMAIN prefix_op_type
  BY DEF prefix_op_type
<1>5. NoExpr \in UnaryTrees(s, strict, T, p, p + 3)
  BY <1>3, <1>4 DEF UnaryTrees
<1>6. NoExpr \in OwnTrees(s, strict, T, 11, p, p + 3)
  BY <1>5, OwnIs
<1> QED BY <1>1, <1>3, <1>6, TreesMade

\* The span of a postfix expression.
LEMMA PostfixSpan ==
    ASSUME NEW s \in Inputs, NEW strict, NEW T, Grammatical(s, T, strict),
           NEW p \in Positions(s), NEW q \in Positions(s), NEW x \in T[<<12, p, q>>]
    PROVE  p < q /\ p \in Nat /\ q \in Nat
<1>1. 12 \in 0..13
  OBVIOUS
<1> QED BY <1>1, TreesSpan, Zenon

\* A primary expression is a postfix expression, and that a unary expression.
LEMMA PrimaryNested ==
    ASSUME NEW s, NEW strict, NEW T, Grammatical(s, T, strict),
           NEW p \in Positions(s), NEW q \in Positions(s)
    PROVE  T[<<13, p, q>>] \subseteq T[<<12, p, q>>] /\ T[<<12, p, q>>] \subseteq T[<<11, p, q>>]
<1>1. PICK a : a = 11
  OBVIOUS
<1>2. PICK b : b = 12
  OBVIOUS
<1>3. PICK c : c = 13
  OBVIOUS
<1>4. a \in 0..13 /\ b \in 0..13 /\ c \in 0..13 /\ a <= b /\ b <= c
  BY <1>1, <1>2, <1>3
<1>5. T[<<c, p, q>>] \subseteq T[<<b, p, q>>]
  BY <1>4, TreesNested
<1>6. T[<<b, p, q>>] \subseteq T[<<a, p, q>>]
  BY <1>4, TreesNested
<1> QED BY <1>1, <1>2, <1>3, <1>5, <1>6

-----------------------------------------------------------------------------
(* Sequences.  Their elements are of no set that could be named.           *)

\* A sequence, of whatever.
IsList(q) == \E S : q \in Seq(S)

\* One element more, and the others where they were.
LEMMA AppendFacts ==
    ASSUME NEW q, IsList(q), NEW x
    PROVE  /\ IsList(Append(q, x))
           /\ Len(q) \in Nat /\ Len(Append(q, x)) = Len(q) + 1
           /\ Append(q, x)[Len(q) + 1] = x
           /\ \A j \in 1..Len(q) : Append(q, x)[j] = q[j]
           /\ Append(q, x) # <<>>
<1>1. PICK S : q \in Seq(S)
  BY DEF IsList
<1>2. q \in Seq(S \cup {x})
  BY <1>1
<1>3. Append(q, x) \in Seq(S \cup {x})
  BY <1>2
<1> QED BY <1>2, <1>3 DEF IsList

\* The last element of a list and the others.
LEMMA FrontFacts ==
    ASSUME NEW q, IsList(q), q # <<>>
    PROVE  /\ IsList(Front(q))
           /\ Len(q) \in Nat \ {0} /\ Len(Front(q)) = Len(q) - 1
           /\ Last(q) = q[Len(q)]
           /\ \A j \in 1..(Len(q) - 1) : Front(q)[j] = q[j]
<1>1. PICK S : q \in Seq(S)
  BY DEF IsList
<1>2. Len(q) \in Nat \ {0}
  BY <1>1
<1>3. Front(q) = SubSeq(q, 1, Len(q) - 1)
  BY DEF Front
<1>0. PICK n : n = Len(q) - 1
  OBVIOUS
<1>4. 1 \in Int /\ n \in Int /\ n \in Nat /\ \A i \in 1..n : q[i] \in S
  BY <1>0, <1>1, <1>2
<1>5. /\ SubSeq(q, 1, n) \in Seq(S)
      /\ Len(SubSeq(q, 1, n)) = IF 1 <= n THEN n - 1 + 1 ELSE 0
      /\ \A i \in 1..(n - 1 + 1) : SubSeq(q, 1, n)[i] = q[1 + i - 1]
  BY <1>4, SubSeqProperties
<1>6. Len(Front(q)) = Len(q) - 1
  BY <1>0, <1>3, <1>4, <1>5
<1>7. ASSUME NEW j \in 1..(Len(q) - 1) PROVE Front(q)[j] = q[j]
  <2>1. j \in 1..(n - 1 + 1) /\ 1 + j - 1 = j
    BY <1>0, <1>2
  <2> QED BY <1>0, <1>3, <1>5, <2>1
<1> QED BY <1>0, <1>2, <1>3, <1>5, <1>6, <1>7 DEF IsList, Last

\* Two elements more.
LEMMA ConcatTwo ==
    ASSUME NEW q, IsList(q), NEW x, NEW y
    PROVE  q \o <<x, y>> = Append(Append(q, x), y)
<1>1. PICK S : q \in Seq(S)
  BY DEF IsList
<1>2. q \in Seq(S \cup {x, y}) /\ <<x, y>> \in Seq(S \cup {x, y})
  BY <1>1
<1> QED BY <1>2

-----------------------------------------------------------------------------
(* The calls that wait.  What the function that runs is called for is a    *)
(* record; each frame links the record of the function that it stands for  *)
(* to that of the function it has called.                                  *)

\* Trees of the parser's grammar, and of C's.
ParserTrees(s) == Trees(s, FALSE)
CTrees(s) == Trees(s, TRUE)

\* A function is called at start: for an item, an expression whose operators have
\* at least the precedence min, or a unary expression.
Want(k, m, p) == [kind |-> k, min |-> m, start |-> p]

\* What stands between two positions is read and dropped in front of a unary expression.
Skips(s, b, c) ==
    /\ b \in Positions(s) /\ c \in Positions(s)
    /\ \A q \in Positions(s) : ParserTrees(s)[<<11, c, q>>] \subseteq ParserTrees(s)[<<11, b, q>>]

\* t is the left side of the operator at k.
LeftOf(s, p, k, t) ==
    IF s[k] = "=" THEN t \in ParserTrees(s)[<<1, p, k>>] /\ Assignable(t)
    ELSE t \in ParserTrees(s)[<<OpLevel(s[k]), p, k>>]

\* The items are those of the statements in front of p, where one ends.
Block(s, its, p) ==
    /\ p \in Positions(s) /\ p > 6
    /\ s[1] = "int" /\ s[2] \in Identifiers /\ s[3] = "(" /\ s[4] = "void" /\ s[5] = ")" /\ s[6] = "{"
    /\ \A k \in 7..(p - 1) : s[k] # "}"
    /\ p = 7 \/ s[p - 1] = ";"
    /\ ItemsMatch(s, FALSE, p, its)

\* A statement that begins at p has its expression at b.
Opens(s, kind, p, b) ==
    \/ kind = "return" /\ s[p] = "return" /\ b = p + 1
    \/ kind = "declaration" /\ s[p] = "int" /\ s[p + 1] \in Identifiers /\ s[p + 2] = "=" /\ b = p + 3
    \/ kind = "expression" /\ s[p] \notin {"}", "return", "int"} /\ b = p

\* The bracket that a call in brackets has been made behind.
opening(kind) == IF kind = "dropped ]" THEN "[" ELSE "("

\* A call of parse_expression_internal.
IsClimb(f) == \E o, m, n : f = Frame("climb", o, m, n)

\* parse_expression_internal waits for its unary expression, or for the right
\* operand of an operator whose left operand it has.
SoundClimb(s, f, x, y) ==
    /\ IsClimb(f) /\ f.kind = "climb" /\ f.min \in Minima
    /\ x = Want("expression", f.min, x.start) /\ x.start \in Positions(s)
    /\ \/ f.op = "" /\ y = Want("unary", 0, x.start)
       \/ /\ f.op # ""
          /\ \E k \in Positions(s) :
                /\ k + 1 \in Positions(s) /\ s[k] \in DOMAIN binary_op_type /\ f.op = binary_op_type[s[k]]
                /\ OpLevel(s[k]) >= LevelOf(f.min) /\ LeftOf(s, x.start, k, f.node)
                /\ y = Want("expression", next_min_pred(f.op), k + 1)

\* A prefix operator waits for its operand.
SoundApply(s, f, x, y) ==
    /\ f.kind = "apply" /\ x = Want("unary", 0, x.start) /\ x.start \in Positions(s)
    /\ y = Want("unary", 0, y.start) /\ y.start \in Positions(s)
    /\ \A q \in Positions(s) : \A t \in ParserTrees(s)[<<11, y.start, q>>] :
          Un(f.op, t) \in ParserTrees(s)[<<11, x.start, q>>]

\* A parenthesised expression waits for what is inside.
SoundParen(s, f, x, y) ==
    /\ f.kind = ")" /\ x = Want("unary", 0, x.start)
    /\ \E c \in Positions(s) : /\ Skips(s, x.start, c) /\ s[c] = "(" /\ c + 1 \in Positions(s)
                               /\ y = Want("expression", 1, c + 1)

\* A subscript or an argument list is read, behind the tree f.node.
SoundDropped(s, f, x, y) ==
    /\ f.kind \in {"dropped ]", "dropped )"} /\ x = Want("unary", 0, x.start)
    /\ \E c \in Positions(s), k \in Positions(s) :
          /\ Skips(s, x.start, c) /\ f.node \in ParserTrees(s)[<<12, c, k>>]
          /\ s[k] = opening(f.kind) /\ k + 1 \in Positions(s) /\ y = Want("expression", 1, k + 1)

\* A statement waits for its expression.
SoundItem(s, its, f, x, y) ==
    /\ f.kind \in {"return", "declaration", "expression"} /\ x = Want("item", 0, x.start)
    /\ Block(s, its, x.start) /\ y = Want("expression", 1, y.start) /\ y.start \in Positions(s)
    /\ Opens(s, f.kind, x.start, y.start)

\* What the frame f says of the call x that waits for the call y.
SoundLink(s, its, f, x, y) ==
    \/ SoundClimb(s, f, x, y) \/ SoundApply(s, f, x, y) \/ SoundParen(s, f, x, y)
    \/ SoundDropped(s, f, x, y) \/ SoundItem(s, its, f, x, y)

-----------------------------------------------------------------------------
(* Completeness.  A function aims at a tree of C's grammar and at the      *)
(* position behind it.                                                     *)

\* What a function that C's grammar lets succeed returns, and where.
Aim(k, m, t, e) == [kind |-> k, min |-> m, tree |-> t, end |-> e]

\* What ends an expression of C in this grammar.
Closers == {")", "]", ";"}

\* What is behind a unary expression, and behind an operand of an operator of a
\* level below l.
AfterUnary(s, e) == s[e] \in Closers \cup DOMAIN binary_op_type
AfterLevel(s, l, e) ==
    s[e] \in Closers \/ (s[e] \in DOMAIN binary_op_type /\ s[e] # "=" /\ OpLevel(s[e]) < l)

\* The loop, with the left operand n at c, reads the right operand r up to e.
ClimbsTo(s, l, n, c, r, e) ==
    /\ c \in Positions(s) /\ c + 1 \in Positions(s) /\ e \in Positions(s)
    /\ s[c] \in DOMAIN binary_op_type /\ OpLevel(s[c]) >= l /\ (s[c] = "=" => Assignable(n))
    /\ r \in CTrees(s)[<<LevelOf(next_min_pred(binary_op_type[s[c]])), c + 1, e>>]
    /\ AfterLevel(s, LevelOf(next_min_pred(binary_op_type[s[c]])), e)

\* A postfix operator is at c, or what is dropped is from c to e.
Postfixes(s, n, c, t, e) ==
    /\ c \in Positions(s) /\ c + 1 \in Positions(s) /\ e \in Positions(s)
    /\ \/ s[c] \in DOMAIN postfix_op_type /\ t = Un(postfix_op_type[s[c]], n) /\ e = c + 1
       \/ Drops(s, CTrees(s), c, e) /\ c + 1 < e /\ t = n

\* x and y are a tree and the position behind it, before and after a round of a loop.
Step(mode, s, l, x, y) ==
    IF mode = "climb"
    THEN \E n, c, r, e : x = <<n, c>> /\ y = <<Bin(binary_op_type[s[c]], n, r), e>> /\ ClimbsTo(s, l, n, c, r, e)
    ELSE \E n, c, t, e : x = <<n, c>> /\ y = <<t, e>> /\ Postfixes(s, n, c, t, e)

\* Some number of rounds of a loop, that of binary operators at least at level l
\* or that of postfix operators.
Rounds(mode, s, l, x, y) ==
    \E n, z : n \in Nat /\ z[0] = x /\ z[n] = y /\ \A i \in 0..(n - 1) : Step(mode, s, l, z[i], z[i + 1])

\* The rounds that are left lead parse_expression_internal to its aim, from the
\* unary expression, or from the right operand, that it waits for.
CompleteClimb(s, f, x, y) ==
    /\ IsClimb(f) /\ f.kind = "climb" /\ f.min \in Minima
    /\ x.kind = "expression" /\ x.min = f.min /\ AfterLevel(s, LevelOf(f.min), x.end)
    /\ \/ f.op = "" /\ y.kind = "unary"
          /\ Rounds("climb", s, LevelOf(f.min), <<y.tree, y.end>>, <<x.tree, x.end>>)
       \/ f.op # "" /\ y.kind = "expression"
          /\ Rounds("climb", s, LevelOf(f.min), <<Bin(f.op, f.node, y.tree), y.end>>, <<x.tree, x.end>>)

\* The prefix operator makes the tree aimed at.
CompleteApply(s, f, x, y) ==
    /\ f.kind = "apply" /\ x.kind = "unary" /\ y.kind = "unary"
    /\ x.tree = Un(f.op, y.tree) /\ x.end = y.end

\* The bracket is closed, and the rounds of the postfix loop lead to the aim.
CompleteBracket(s, f, x, y) ==
    /\ f.kind \in {")", "dropped ]", "dropped )"} /\ x.kind = "unary" /\ y.kind = "expression"
    /\ s[y.end] = closing(f.kind) /\ AfterUnary(s, x.end)
    /\ Rounds("postfix", s, 0, <<IF f.kind = ")" THEN y.tree ELSE f.node, y.end + 1>>, <<x.tree, x.end>>)

\* The statement is closed.
CompleteItem(s, f, x, y) ==
    /\ f.kind \in {"return", "declaration", "expression"} /\ x.kind = "item" /\ y.kind = "expression"
    /\ s[y.end] = ";"

\* What the frame f says of the aims of the call x and of the call y it waits for.
CompleteLink(s, f, x, y) ==
    CompleteClimb(s, f, x, y) \/ CompleteApply(s, f, x, y) \/ CompleteBracket(s, f, x, y) \/ CompleteItem(s, f, x, y)

-----------------------------------------------------------------------------

\* The same for both invariants.  No call is made for an item.
Link(mode, s, its, f, x, y) ==
    y.kind # "item" /\ IF mode = "sound" THEN SoundLink(s, its, f, x, y) ELSE CompleteLink(s, f, x, y)

\* The frames are linked from an item to x.
Linked(mode, s, its, fr, x) ==
    /\ IsList(fr)
    /\ \E w : /\ w[1].kind = "item" /\ w[Len(fr) + 1] = x
              /\ \A j \in 1..Len(fr) : Link(mode, s, its, fr[j], w[j], w[j + 1])

\* Such a call with another operator and left operand.
LEMMA ClimbUpdate ==
    ASSUME NEW f, IsClimb(f), NEW o, NEW n
    PROVE  [f EXCEPT !.op = o, !.node = n] = Frame("climb", o, f.min, n)
<1>1. PICK a, m, b : f = Frame("climb", a, m, b)
  BY DEF IsClimb
<1>2. f = [kind |-> "climb", op |-> a, min |-> m, node |-> b]
  BY <1>1 DEF Frame
<1>3. f.min = m
  BY <1>2
<1>4. [f EXCEPT !.op = o, !.node = n] = [kind |-> "climb", op |-> o, min |-> m, node |-> n]
  <2>1. PICK h : h = [f EXCEPT !.op = o]
    OBVIOUS
  <2>2. h = [kind |-> "climb", op |-> o, min |-> m, node |-> b]
    BY <1>2, <2>1
  <2>3. [h EXCEPT !.node = n] = [kind |-> "climb", op |-> o, min |-> m, node |-> n]
    BY <2>2
  <2>4. [f EXCEPT !.op = o, !.node = n] = [h EXCEPT !.node = n]
    BY <2>1
  <2> QED BY <2>3, <2>4
<1> QED BY <1>3, <1>4 DEF Frame

\* No call waits for an item.
LEMMA LinkNone ==
    ASSUME NEW mode, NEW s, NEW its, NEW x, x.kind = "item"
    PROVE  Linked(mode, s, its, <<>>, x)
<1>1. PICK w : w = [j \in {1} |-> x]
  OBVIOUS
<1>2. w[1] = x /\ Len(<<>>) = 0 /\ IsList(<<>>)
  BY <1>1 DEF IsList
<1>3. w[Len(<<>>) + 1] = x
  BY <1>2
<1> QED BY <1>2, <1>3 DEF Linked

\* A call more.
LEMMA LinkPush ==
    ASSUME NEW mode, NEW s, NEW its, NEW fr, NEW x, Linked(mode, s, its, fr, x),
           NEW f, NEW y, Link(mode, s, its, f, x, y)
    PROVE  Linked(mode, s, its, Append(fr, f), y)
<1>1. PICK w : /\ w[1].kind = "item" /\ w[Len(fr) + 1] = x
               /\ \A j \in 1..Len(fr) : Link(mode, s, its, fr[j], w[j], w[j + 1])
  BY DEF Linked
<1>2. PICK n : n = Len(fr)
  OBVIOUS
<1>3. PICK g : g = Append(fr, f)
  OBVIOUS
<1>4. IsList(g) /\ n \in Nat /\ Len(g) = n + 1 /\ g[n + 1] = f /\ \A j \in 1..n : g[j] = fr[j]
  BY <1>2, <1>3, AppendFacts DEF Linked
<1>5. PICK v : v = [j \in 1..(n + 2) |-> IF j = n + 2 THEN y ELSE w[j]]
  OBVIOUS
<1>6. v[1].kind = "item" /\ v[n + 2] = y /\ v[n + 1] = x /\ \A j \in 1..n : v[j] = w[j] /\ v[j + 1] = w[j + 1]
  <2>1. v[1] = w[1]
    BY <1>4, <1>5
  <2>2. v[n + 2] = y
    BY <1>4, <1>5
  <2>3. v[n + 1] = x
    BY <1>1, <1>2, <1>4, <1>5
  <2>4. \A j \in 1..n : v[j] = w[j] /\ v[j + 1] = w[j + 1]
    BY <1>4, <1>5
  <2> QED BY <1>1, <2>1, <2>2, <2>3, <2>4
<1>7. ASSUME NEW j \in 1..(n + 1) PROVE Link(mode, s, its, g[j], v[j], v[j + 1])
  <2>1. CASE j = n + 1
    <3>1. g[j] = f /\ v[j] = x /\ v[j + 1] = y
      <4>1. j + 1 = n + 2
        BY <1>4, <2>1
      <4> QED BY <1>4, <1>6, <2>1, <4>1
    <3> QED BY <3>1
  <2>2. CASE j \in 1..n
    <3>1. g[j] = fr[j] /\ v[j] = w[j] /\ v[j + 1] = w[j + 1]
      BY <1>4, <1>6, <2>2
    <3> QED BY <1>1, <1>2, <2>2, <3>1
  <2> QED BY <1>4, <2>1, <2>2
<1>8. v[Len(g) + 1] = y
  BY <1>4, <1>6
<1> QED BY <1>3, <1>4, <1>6, <1>7, <1>8 DEF Linked

\* A call less: the innermost frame links the aim of the call that waits.
LEMMA LinkPop ==
    ASSUME NEW mode, NEW s, NEW its, NEW fr, NEW y, Linked(mode, s, its, fr, y), y.kind # "item"
    PROVE  /\ fr # <<>> /\ IsList(Front(fr))
           /\ \E x : Linked(mode, s, its, Front(fr), x) /\ Link(mode, s, its, Last(fr), x, y)
<1>1. PICK w : /\ w[1].kind = "item" /\ w[Len(fr) + 1] = y
               /\ \A j \in 1..Len(fr) : Link(mode, s, its, fr[j], w[j], w[j + 1])
  BY DEF Linked
<1>2. fr # <<>>
  <2> SUFFICES ASSUME fr = <<>> PROVE FALSE
    OBVIOUS
  <2>1. Len(fr) + 1 = 1
    OBVIOUS
  <2> QED BY <1>1, <2>1
<1>3. PICK n : n = Len(fr)
  OBVIOUS
<1>4. PICK g : g = Front(fr)
  OBVIOUS
<1>5. /\ IsList(g) /\ n \in Nat \ {0} /\ Len(g) = n - 1 /\ Last(fr) = fr[n]
      /\ \A j \in 1..(n - 1) : g[j] = fr[j]
  BY <1>2, <1>3, <1>4, FrontFacts DEF Linked
<1>6. Linked(mode, s, its, g, w[n])
  <2>1. w[Len(g) + 1] = w[n]
    BY <1>5
  <2>2. ASSUME NEW j \in 1..(n - 1) PROVE Link(mode, s, its, g[j], w[j], w[j + 1])
    <3>1. j \in 1..n /\ g[j] = fr[j]
      BY <1>5
    <3> QED BY <1>1, <1>3, <3>1
  <2> QED BY <1>1, <1>5, <2>1, <2>2 DEF Linked
<1>7. Link(mode, s, its, Last(fr), w[n], y)
  <2>1. n \in 1..n
    BY <1>5
  <2>2. Link(mode, s, its, fr[n], w[n], w[n + 1])
    BY <1>1, <1>3, <2>1
  <2> QED BY <1>1, <1>3, <1>5, <2>2
<1> QED BY <1>2, <1>4, <1>5, <1>6, <1>7

-----------------------------------------------------------------------------
(* The invariant of soundness.                                             *)

\* The header up to c is read.
HeadRead(s, c) ==
    \A k \in 1..(c - 1) : IF Header[k] = "identifier" THEN s[k] \in Identifiers ELSE s[k] = Header[k]

\* t is the left operand of the operator at c, if the loop takes it.
Ready(s, m, p, c, t) ==
    /\ t \in ParserTrees(s)[<<LevelOf(m), p, c>>]
    /\ s[c] \in DOMAIN binary_op_type /\ OpLevel(s[c]) >= LevelOf(m) =>
          t \in ParserTrees(s)[<<IF s[c] = "=" THEN 1 ELSE OpLevel(s[c]), p, c>>]

\* No operator at c that the loop takes.
NoMore(s, c, m) == s[c] \in DOMAIN binary_op_type => OpLevel(s[c]) < LevelOf(m)

\* What is known where the parser is: the unary expression begins here, behind
\* what was dropped.
UnaryPoint(s, c, x) == x = Want("unary", 0, x.start) /\ Skips(s, x.start, c)

\* The node is the postfix expression that ends here.
PostfixPoint(s, c, n, x) ==
    x = Want("unary", 0, x.start) /\ \E b \in Positions(s) :
        Skips(s, x.start, b) /\ n \in ParserTrees(s)[<<12, b, c>>]

\* The node is the unary expression.
OperandPoint(s, c, n, x) ==
    /\ x = Want("unary", 0, x.start) /\ x.start \in Positions(s)
    /\ n \in ParserTrees(s)[<<11, x.start, c>>]

\* The node is a left operand, and no operator waits.
ClimbPoint(s, c, n, f, x) ==
    /\ x = Want("unary", 0, x.start) /\ x.start \in Positions(s)
    /\ f.kind = "climb" /\ f.op = "" /\ Ready(s, f.min, x.start, c, n)

\* The node is the expression, and no operator that it takes is behind it.
ExpressionPoint(s, c, n, x) ==
    /\ x = Want("expression", x.min, x.start) /\ x.min \in Minima /\ x.start \in Positions(s)
    /\ n \in ParserTrees(s)[<<LevelOf(x.min), x.start, c>>] /\ NoMore(s, c, x.min)

\* One of them, by the place p.
SoundPoint(s, c, p, n, f, x) ==
    \/ p = "unary" /\ UnaryPoint(s, c, x)
    \/ p = "postfix" /\ PostfixPoint(s, c, n, x)
    \/ p = "operand" /\ OperandPoint(s, c, n, x)
    \/ p = "climb" /\ ClimbPoint(s, c, n, f, x)
    \/ p = "expression" /\ ExpressionPoint(s, c, n, x)

\* Inside of an expression.
Expressions == {"unary", "postfix", "operand", "climb", "expression"}

\* The parser is in an expression.
SoundIn(s, c, p, n, fr, its) ==
    \E x : Linked("sound", s, its, fr, x) /\ SoundPoint(s, c, p, n, Last(fr), x)

\* The items are those of a definition that the tokens begin with.
GrammarGives(s, its) == \E e \in Positions(s) : Defines(s, e) /\ ItemsMatch(s, FALSE, e, its)

\* What is true of the tokens that are read, at each place.
Sound(s, c, p, n, fr, its) ==
    /\ IsList(its)
    /\ p = "header" => fr = <<>> /\ its = <<>> /\ HeadRead(s, c)
    /\ p = "item" => fr = <<>> /\ Block(s, its, c)
    /\ p \in Expressions => SoundIn(s, c, p, n, fr, its)
    /\ p = "parsed" => GrammarGives(s, its)

\* The inductive invariant behind TreeIsGrammars.
SInv == IInv /\ Sound(tokens, cur, pc, node, frames, items)

\* The table is the grammar's.
LEMMA ParserTreesGrammatical ==
    ASSUME NEW s \in Inputs
    PROVE  \E strict : strict = FALSE /\ Grammatical(s, ParserTrees(s), strict)
BY TreesGrammatical DEF ParserTrees

\* A call of parse_expression.
LEMMA CallSound ==
    ASSUME NEW s \in Inputs, NEW its, NEW fr, NEW x, Linked("sound", s, its, fr, x), NEW f,
           NEW b \in Positions(s), NEW m \in Minima, Link("sound", s, its, f, x, Want("expression", m, b)),
           NEW n
    PROVE  SoundIn(s, b, "unary", n, fr \o <<f, climbing(m)>>, its)
<1>1. Linked("sound", s, its, Append(fr, f), Want("expression", m, b))
  BY LinkPush
<1>2. Link("sound", s, its, climbing(m), Want("expression", m, b), Want("unary", 0, b))
  <2>1. IsClimb(climbing(m))
    BY DEF IsClimb, climbing
  <2>2. climbing(m).kind = "climb" /\ climbing(m).op = "" /\ climbing(m).min = m
    BY DEF climbing, Frame
  <2>3. SoundClimb(s, climbing(m), Want("expression", m, b), Want("unary", 0, b))
    BY <2>1, <2>2 DEF SoundClimb, Want
  <2> QED BY <2>3 DEF Link, SoundLink, Want
<1>3. Linked("sound", s, its, Append(Append(fr, f), climbing(m)), Want("unary", 0, b))
  BY <1>1, <1>2, LinkPush
<1>4. fr \o <<f, climbing(m)>> = Append(Append(fr, f), climbing(m))
  BY ConcatTwo DEF Linked
<1>5. UnaryPoint(s, b, Want("unary", 0, b))
  BY DEF UnaryPoint, Want, Skips
<1> QED BY <1>3, <1>4, <1>5 DEF SoundIn, SoundPoint

\* The last call.
LEMMA ReturnSound ==
    ASSUME NEW s, NEW its, NEW fr, NEW y, Linked("sound", s, its, fr, y), y.kind # "item"
    PROVE  /\ fr # <<>>
           /\ \E x : Linked("sound", s, its, Front(fr), x) /\ SoundLink(s, its, Last(fr), x, y)
BY LinkPop DEF Link

\* The point where the parser is.
LEMMA PointAt ==
    ASSUME NEW s, NEW c, NEW p \in Expressions, NEW n, NEW fr, NEW its, SoundIn(s, c, p, n, fr, its)
    PROVE  \E x : /\ Linked("sound", s, its, fr, x) /\ x.kind # "item"
                  /\ p = "unary" => UnaryPoint(s, c, x)
                  /\ p = "postfix" => PostfixPoint(s, c, n, x)
                  /\ p = "operand" => OperandPoint(s, c, n, x)
                  /\ p = "climb" => ClimbPoint(s, c, n, Last(fr), x)
                  /\ p = "expression" => ExpressionPoint(s, c, n, x)
<1>1. PICK x : Linked("sound", s, its, fr, x) /\ SoundPoint(s, c, p, n, Last(fr), x)
  BY DEF SoundIn
<1>2. x.kind # "item"
  <2>1. Want("unary", 0, x.start).kind # "item" /\ Want("expression", x.min, x.start).kind # "item"
    BY DEF Want
  <2>2. x = Want("unary", 0, x.start) \/ x = Want("expression", x.min, x.start)
    BY <1>1 DEF SoundPoint, UnaryPoint, PostfixPoint, OperandPoint, ClimbPoint, ExpressionPoint
  <2> QED BY <2>1, <2>2, Zenon
<1>3. /\ p = "unary" => UnaryPoint(s, c, x)
      /\ p = "postfix" => PostfixPoint(s, c, n, x)
      /\ p = "operand" => OperandPoint(s, c, n, x)
      /\ p = "climb" => ClimbPoint(s, c, n, Last(fr), x)
      /\ p = "expression" => ExpressionPoint(s, c, n, x)
  BY <1>1 DEF SoundPoint
<1> QED BY <1>1, <1>2, <1>3

\* A step within an expression keeps the invariant if it keeps the point.
LEMMA Within ==
    ASSUME SInv, IInv', tokens' = tokens, items' = items, pc' \in Expressions,
           SoundIn(tokens, cur', pc', node', frames', items)
    PROVE  SInv'
BY DEF SInv, Sound, Expressions

\* A step that fails keeps it.
LEMMA FailSound ==
    ASSUME SInv, IInv', items' = items, pc' \in {"error", "crashed"}
    PROVE  SInv'
BY DEF SInv, Sound, Expressions

-----------------------------------------------------------------------------
(* Unary and postfix expressions.                                          *)

\* What the invariant says of the cursor.
LEMMA CursorNow ==
    ASSUME IInv
    PROVE  tokens \in Inputs /\ cur \in Positions(tokens) /\ cur \in Nat /\ Len(tokens) \in Nat
BY InputsEndWithEOF DEF IInv, CursorInRange, Positions

\* A prefix operator's operand is called for.
LEMMA PrefixSound == SInv /\ IInv' /\ ParsePrefix => SInv'
<1> SUFFICES ASSUME SInv, IInv', ParsePrefix PROVE SInv'
  OBVIOUS
<1>1. tokens' = tokens /\ items' = items /\ pc' = "unary" /\ pc = "unary" /\ cur' = cur + 1
      /\ frames' = Append(frames, Frame("apply", prefix_op_type[tokens[cur]], 0, NoExpr))
      /\ tokens[cur] \in DOMAIN prefix_op_type
  BY DEF ParsePrefix, tok
<1>2. tokens \in Inputs /\ cur \in Positions(tokens) /\ cur \in Nat /\ cur + 1 \in Positions(tokens)
  <2>1. cur' \in Positions(tokens')
    BY DEF IInv, CursorInRange, Positions
  <2> QED BY <1>1, <2>1, CursorNow DEF SInv
<1>3. PICK x : Linked("sound", tokens, items, frames, x) /\ UnaryPoint(tokens, cur, x)
  BY <1>1, PointAt DEF SInv, Sound, Expressions
<1>4. PICK f : f = Frame("apply", prefix_op_type[tokens[cur]], 0, NoExpr)
  OBVIOUS
<1>5. ASSUME NEW q \in Positions(tokens), NEW t \in ParserTrees(tokens)[<<11, cur + 1, q>>]
      PROVE  Un(f.op, t) \in ParserTrees(tokens)[<<11, x.start, q>>]
  <2>1. Un(prefix_op_type[tokens[cur]], t) \in ParserTrees(tokens)[<<11, cur, q>>]
    BY <1>1, <1>2, <1>5, PrefixTree, ParserTreesGrammatical
  <2>2. f.op = prefix_op_type[tokens[cur]]
    BY <1>4 DEF Frame
  <2> QED BY <1>3, <2>1, <2>2 DEF UnaryPoint, Skips
<1>6. Link("sound", tokens, items, f, x, Want("unary", 0, cur + 1))
  <2>1. SoundApply(tokens, f, x, Want("unary", 0, cur + 1))
    BY <1>2, <1>3, <1>4, <1>5 DEF SoundApply, UnaryPoint, Skips, Want, Frame
  <2> QED BY <2>1 DEF Link, SoundLink, Want
<1>7. Linked("sound", tokens, items, frames', Want("unary", 0, cur + 1))
  BY <1>1, <1>3, <1>4, <1>6, LinkPush
<1>8. UnaryPoint(tokens, cur + 1, Want("unary", 0, cur + 1))
  BY <1>2 DEF UnaryPoint, Want, Skips
<1> QED BY <1>1, <1>7, <1>8, Within DEF SoundIn, SoundPoint, Expressions

\* The cursor stays in the tokens.
LEMMA CursorNext ==
    ASSUME IInv', tokens' = tokens
    PROVE  cur' \in Positions(tokens)
BY DEF IInv, CursorInRange, Positions

\* A token in front of which something is dropped leaves the start where it is.
LEMMA SizeofSound == SInv /\ IInv' /\ ParseSizeof => SInv'
<1> SUFFICES ASSUME SInv, IInv', ParseSizeof PROVE SInv'
  OBVIOUS
<1>1. tokens' = tokens /\ items' = items /\ pc = "unary" /\ tokens[cur] = "sizeof"
  BY DEF ParseSizeof, tok, Fail
<1>2. tokens \in Inputs /\ cur \in Positions(tokens) /\ cur \in Nat /\ cur' \in Positions(tokens)
  BY <1>1, CursorNow, CursorNext DEF SInv
<1>3. PICK x : Linked("sound", tokens, items, frames, x) /\ UnaryPoint(tokens, cur, x)
  BY <1>1, PointAt DEF SInv, Sound, Expressions
<1>4. PICK strict : strict = FALSE /\ Grammatical(tokens, ParserTrees(tokens), strict)
  BY <1>2, ParserTreesGrammatical
<1>5. CASE tokens[cur + 1] # "("
  <2>1. cur' = cur + 1 /\ pc' = "unary" /\ frames' = frames
    BY <1>1, <1>5 DEF ParseSizeof, next_tok
  <2>2. \A q \in Positions(tokens) : \A t \in ParserTrees(tokens)[<<11, cur + 1, q>>] :
           t \in ParserTrees(tokens)[<<11, cur, q>>]
    BY <1>1, <1>2, <1>4, <1>5, <2>1, SizeofTree
  <2>3. UnaryPoint(tokens, cur + 1, x)
    BY <1>2, <1>3, <2>1, <2>2 DEF UnaryPoint, Skips
  <2> QED BY <1>1, <1>3, <2>1, <2>3, Within DEF SoundIn, SoundPoint, Expressions
<1>6. CASE tokens[cur + 1] = "(" /\ tokens[cur + 2] = ")"
  <2>1. cur' = cur + 3 /\ pc' = "operand" /\ frames' = frames /\ node' = NoExpr
    BY <1>1, <1>6 DEF ParseSizeof, next_tok
  <2>2. NoExpr \in ParserTrees(tokens)[<<11, cur, cur + 3>>]
    BY <1>1, <1>2, <1>4, <1>6, <2>1, SizeofNothing
  <2>3. OperandPoint(tokens, cur + 3, NoExpr, x)
    BY <1>2, <1>3, <2>1, <2>2 DEF UnaryPoint, OperandPoint, Skips
  <2> QED BY <1>1, <1>3, <2>1, <2>3, Within DEF SoundIn, SoundPoint, Expressions
<1>7. CASE tokens[cur + 1] = "(" /\ tokens[cur + 2] # ")"
  <2>1. Fail
    BY <1>7 DEF ParseSizeof, next_tok
  <2> QED BY <1>1, <2>1, FailSound DEF Fail
<1> QED BY <1>5, <1>6, <1>7

\* A constant or an identifier is a primary expression.
LEMMA TerminalSound == SInv /\ IInv' /\ ParseTerminal => SInv'
<1> SUFFICES ASSUME SInv, IInv', ParseTerminal PROVE SInv'
  OBVIOUS
<1>1. tokens' = tokens /\ items' = items /\ pc = "unary" /\ pc' = "postfix" /\ frames' = frames
      /\ tokens[cur] \in Constants \cup Identifiers /\ cur' = cur + 1
      /\ node' = Leaf(IF tokens[cur] \in Constants THEN "CONST" ELSE "VAR", tokens[cur])
  BY DEF ParseTerminal, tok
<1>2. tokens \in Inputs /\ cur \in Positions(tokens) /\ cur \in Nat /\ cur + 1 \in Positions(tokens)
  BY <1>1, CursorNow, CursorNext DEF SInv
<1>3. PICK x : Linked("sound", tokens, items, frames, x) /\ UnaryPoint(tokens, cur, x)
  BY <1>1, PointAt DEF SInv, Sound, Expressions
<1>4. PICK strict : strict = FALSE /\ Grammatical(tokens, ParserTrees(tokens), strict)
  BY <1>2, ParserTreesGrammatical
<1>5. node' \in ParserTrees(tokens)[<<13, cur, cur + 1>>]
  BY <1>1, <1>2, <1>4, LeafTree
<1>6. node' \in ParserTrees(tokens)[<<12, cur, cur + 1>>]
  <2>1. ParserTrees(tokens)[<<13, cur, cur + 1>>] \subseteq ParserTrees(tokens)[<<12, cur, cur + 1>>]
    BY <1>2, <1>4, PrimaryNested
  <2> QED BY <1>5, <2>1
<1>7. PostfixPoint(tokens, cur + 1, node', x)
  BY <1>2, <1>3, <1>6 DEF PostfixPoint, UnaryPoint
<1> QED BY <1>1, <1>3, <1>7, Within DEF SoundIn, SoundPoint, Expressions

\* What is in the parentheses is called for.
LEMMA ParenSound == SInv /\ IInv' /\ ParseParen => SInv'
<1> SUFFICES ASSUME SInv, IInv', ParseParen PROVE SInv'
  OBVIOUS
<1>1. tokens' = tokens /\ items' = items /\ pc = "unary" /\ pc' = "unary"
      /\ frames' = frames \o <<Frame(")", "", 0, NoExpr), climbing(1)>>
      /\ tokens[cur] = "(" /\ cur' = cur + 1
  BY DEF ParseParen, tok, CallExpression
<1>2. tokens \in Inputs /\ cur \in Positions(tokens) /\ cur \in Nat /\ cur + 1 \in Positions(tokens)
  BY <1>1, CursorNow, CursorNext DEF SInv
<1>3. PICK x : Linked("sound", tokens, items, frames, x) /\ UnaryPoint(tokens, cur, x)
  BY <1>1, PointAt DEF SInv, Sound, Expressions
<1>4. Link("sound", tokens, items, Frame(")", "", 0, NoExpr), x, Want("expression", 1, cur + 1))
  <2>1. SoundParen(tokens, Frame(")", "", 0, NoExpr), x, Want("expression", 1, cur + 1))
    BY <1>1, <1>2, <1>3 DEF SoundParen, UnaryPoint, Frame
  <2> QED BY <2>1 DEF Link, SoundLink, Want
<1>5. SoundIn(tokens, cur + 1, "unary", node', frames', items)
  BY <1>1, <1>2, <1>3, <1>4, CallSound DEF Minima
<1> QED BY <1>1, <1>5, Within DEF Expressions

\* The operator is applied to the postfix expression in front of it.
LEMMA PostfixOperatorSound == SInv /\ IInv' /\ ParsePostfixOperator => SInv'
<1> SUFFICES ASSUME SInv, IInv', ParsePostfixOperator PROVE SInv'
  OBVIOUS
<1>1. tokens' = tokens /\ items' = items /\ pc = "postfix" /\ pc' = "postfix" /\ frames' = frames
      /\ tokens[cur] \in DOMAIN postfix_op_type /\ cur' = cur + 1
      /\ node' = Un(postfix_op_type[tokens[cur]], node)
  BY DEF ParsePostfixOperator, tok
<1>2. tokens \in Inputs /\ cur \in Positions(tokens) /\ cur \in Nat /\ cur + 1 \in Positions(tokens)
  BY <1>1, CursorNow, CursorNext DEF SInv
<1>3. PICK x : Linked("sound", tokens, items, frames, x) /\ PostfixPoint(tokens, cur, node, x)
  BY <1>1, PointAt DEF SInv, Sound, Expressions
<1>4. PICK strict : strict = FALSE /\ Grammatical(tokens, ParserTrees(tokens), strict)
  BY <1>2, ParserTreesGrammatical
<1>5. PICK b \in Positions(tokens) : Skips(tokens, x.start, b) /\ node \in ParserTrees(tokens)[<<12, b, cur>>]
  BY <1>3 DEF PostfixPoint
<1>6. node' \in ParserTrees(tokens)[<<12, b, cur + 1>>]
  BY <1>1, <1>2, <1>4, <1>5, PostfixTree
<1>7. PostfixPoint(tokens, cur + 1, node', x)
  BY <1>2, <1>3, <1>5, <1>6 DEF PostfixPoint
<1> QED BY <1>1, <1>3, <1>7, Within DEF SoundIn, SoundPoint, Expressions

\* The subscript is called for, and the tree kept.
LEMMA SubscriptSound == SInv /\ IInv' /\ ParseSubscript => SInv'
<1> SUFFICES ASSUME SInv, IInv', ParseSubscript PROVE SInv'
  OBVIOUS
<1>0. PICK f : f = Frame("dropped ]", "", 0, node)
  OBVIOUS
<1>1. tokens' = tokens /\ items' = items /\ pc = "postfix" /\ pc' = "unary"
      /\ frames' = frames \o <<f, climbing(1)>>
      /\ tokens[cur] = "[" /\ cur' = cur + 1
  BY <1>0 DEF ParseSubscript, tok, CallExpression
<1>2. tokens \in Inputs /\ cur \in Positions(tokens) /\ cur \in Nat /\ cur + 1 \in Positions(tokens)
  BY <1>1, CursorNow, CursorNext DEF SInv
<1>3. PICK x : Linked("sound", tokens, items, frames, x) /\ PostfixPoint(tokens, cur, node, x)
  BY <1>1, PointAt DEF SInv, Sound, Expressions
<1>4. Link("sound", tokens, items, f, x, Want("expression", 1, cur + 1))
  <2>1. f.kind = "dropped ]" /\ f.node = node /\ opening(f.kind) = "["
    BY <1>0 DEF Frame, opening
  <2>2. SoundDropped(tokens, f, x, Want("expression", 1, cur + 1))
    BY <1>1, <1>2, <1>3, <2>1 DEF SoundDropped, PostfixPoint
  <2> QED BY <2>2 DEF Link, SoundLink, Want
<1>5. SoundIn(tokens, cur + 1, "unary", node', frames', items)
  BY <1>1, <1>2, <1>3, <1>4, CallSound DEF Minima
<1> QED BY <1>1, <1>5, Within DEF Expressions

\* So are arguments; without any the tree is that of the longer span.
LEMMA ArgumentsSound == SInv /\ IInv' /\ ParseArguments => SInv'
<1> SUFFICES ASSUME SInv, IInv', ParseArguments PROVE SInv'
  OBVIOUS
<1>0. PICK f : f = Frame("dropped )", "", 0, node)
  OBVIOUS
<1>1. tokens' = tokens /\ items' = items /\ pc = "postfix" /\ tokens[cur] = "("
  BY DEF ParseArguments, tok, CallExpression
<1>2. tokens \in Inputs /\ cur \in Positions(tokens) /\ cur \in Nat /\ cur' \in Positions(tokens)
  BY <1>1, CursorNow, CursorNext DEF SInv
<1>3. PICK x : Linked("sound", tokens, items, frames, x) /\ PostfixPoint(tokens, cur, node, x)
  BY <1>1, PointAt DEF SInv, Sound, Expressions
<1>4. PICK strict : strict = FALSE /\ Grammatical(tokens, ParserTrees(tokens), strict)
  BY <1>2, ParserTreesGrammatical
<1>5. CASE tokens[cur + 1] = ")"
  <2>1. cur' = cur + 2 /\ pc' = "postfix" /\ frames' = frames /\ node' = node
    BY <1>1, <1>5 DEF ParseArguments, next_tok, behind_arguments
  <2>2. PICK b \in Positions(tokens) : Skips(tokens, x.start, b) /\ node \in ParserTrees(tokens)[<<12, b, cur>>]
    BY <1>3 DEF PostfixPoint
  <2>3. b < cur /\ b \in Nat
    BY <1>2, <1>4, <2>2, PostfixSpan
  <2>4. cur \in (b + 1)..((cur + 2) - 2) /\ (cur + 2) - 1 = cur + 1 /\ cur = (cur + 2) - 2
    BY <1>2, <2>3
  <2>5. Drops(tokens, ParserTrees(tokens), cur, cur + 2)
    BY <1>1, <1>5, <2>4 DEF Drops
  <2>6. node \in ParserTrees(tokens)[<<12, b, cur + 2>>]
    <3>1. PICK e : e = cur + 2
      OBVIOUS
    <3>2. e \in Positions(tokens) /\ cur \in (b + 1)..(e - 2) /\ Drops(tokens, ParserTrees(tokens), cur, e)
      BY <1>2, <2>1, <2>4, <2>5, <3>1
    <3>3. node \in ParserTrees(tokens)[<<12, b, e>>]
      BY <1>2, <1>4, <2>2, <3>2, DroppedTree
    <3> QED BY <3>1, <3>3
  <2>7. PostfixPoint(tokens, cur + 2, node', x)
    BY <1>3, <2>1, <2>2, <2>6 DEF PostfixPoint
  <2> QED BY <1>1, <1>3, <2>1, <2>7, Within DEF SoundIn, SoundPoint, Expressions
<1>6. CASE tokens[cur + 1] # ")"
  <2>1. cur' = cur + 1 /\ pc' = "unary" /\ frames' = frames \o <<f, climbing(1)>>
    BY <1>0, <1>1, <1>6 DEF ParseArguments, next_tok, CallExpression
  <2>2. Link("sound", tokens, items, f, x, Want("expression", 1, cur + 1))
    <3>1. f.kind = "dropped )" /\ f.node = node /\ opening(f.kind) = "("
      BY <1>0 DEF Frame, opening
    <3>2. SoundDropped(tokens, f, x, Want("expression", 1, cur + 1))
      BY <1>1, <1>2, <1>3, <2>1, <3>1 DEF SoundDropped, PostfixPoint
    <3> QED BY <3>2 DEF Link, SoundLink, Want
  <2>3. SoundIn(tokens, cur + 1, "unary", node', frames', items)
    BY <1>1, <1>2, <1>3, <2>1, <2>2, CallSound DEF Minima
  <2> QED BY <1>1, <2>1, <2>3, Within DEF Expressions
<1> QED BY <1>5, <1>6

\* A member leaves the tree.
LEMMA MemberSound == SInv /\ IInv' /\ ParseMember => SInv'
<1> SUFFICES ASSUME SInv, IInv', ParseMember PROVE SInv'
  OBVIOUS
<1>1. tokens' = tokens /\ items' = items /\ pc = "postfix" /\ tokens[cur] \in {".", "->"}
  BY DEF ParseMember, tok, Fail
<1>2. tokens \in Inputs /\ cur \in Positions(tokens) /\ cur \in Nat /\ cur' \in Positions(tokens)
  BY <1>1, CursorNow, CursorNext DEF SInv
<1>3. PICK x : Linked("sound", tokens, items, frames, x) /\ PostfixPoint(tokens, cur, node, x)
  BY <1>1, PointAt DEF SInv, Sound, Expressions
<1>4. PICK strict : strict = FALSE /\ Grammatical(tokens, ParserTrees(tokens), strict)
  BY <1>2, ParserTreesGrammatical
<1>5. CASE tokens[cur + 1] \in Identifiers
  <2>1. cur' = cur + 2 /\ pc' = "postfix" /\ frames' = frames /\ node' = node
    BY <1>1, <1>5 DEF ParseMember, next_tok
  <2>2. PICK b \in Positions(tokens) : Skips(tokens, x.start, b) /\ node \in ParserTrees(tokens)[<<12, b, cur>>]
    BY <1>3 DEF PostfixPoint
  <2>3. b < cur /\ b \in Nat
    BY <1>2, <1>4, <2>2, PostfixSpan
  <2>4. cur \in (b + 1)..((cur + 2) - 2) /\ (cur + 2) - 1 = cur + 1 /\ cur = (cur + 2) - 2
    BY <1>2, <2>3
  <2>5. Drops(tokens, ParserTrees(tokens), cur, cur + 2)
    BY <1>1, <1>5, <2>4 DEF Drops
  <2>6. node \in ParserTrees(tokens)[<<12, b, cur + 2>>]
    <3>1. PICK e : e = cur + 2
      OBVIOUS
    <3>2. e \in Positions(tokens) /\ cur \in (b + 1)..(e - 2) /\ Drops(tokens, ParserTrees(tokens), cur, e)
      BY <1>2, <2>1, <2>4, <2>5, <3>1
    <3>3. node \in ParserTrees(tokens)[<<12, b, e>>]
      BY <1>2, <1>4, <2>2, <3>2, DroppedTree
    <3> QED BY <3>1, <3>3
  <2>7. PostfixPoint(tokens, cur + 2, node', x)
    BY <1>3, <2>1, <2>2, <2>6 DEF PostfixPoint
  <2> QED BY <1>1, <1>3, <2>1, <2>7, Within DEF SoundIn, SoundPoint, Expressions
<1>6. CASE tokens[cur + 1] \notin Identifiers
  <2>1. Fail
    BY <1>6 DEF ParseMember, next_tok
  <2> QED BY <1>1, <2>1, FailSound DEF Fail
<1> QED BY <1>5, <1>6

\* A postfix expression is a unary expression.
LEMMA PostfixDoneSound == SInv /\ IInv' /\ ParsePostfixDone => SInv'
<1> SUFFICES ASSUME SInv, IInv', ParsePostfixDone PROVE SInv'
  OBVIOUS
<1>1. tokens' = tokens /\ items' = items /\ pc = "postfix" /\ pc' = "operand" /\ frames' = frames
      /\ cur' = cur /\ node' = node
  BY DEF ParsePostfixDone
<1>2. tokens \in Inputs /\ cur \in Positions(tokens)
  BY CursorNow DEF SInv
<1>3. PICK x : Linked("sound", tokens, items, frames, x) /\ PostfixPoint(tokens, cur, node, x)
  BY <1>1, PointAt DEF SInv, Sound, Expressions
<1>4. PICK strict : strict = FALSE /\ Grammatical(tokens, ParserTrees(tokens), strict)
  BY <1>2, ParserTreesGrammatical
<1>5. PICK b \in Positions(tokens) : Skips(tokens, x.start, b) /\ node \in ParserTrees(tokens)[<<12, b, cur>>]
  BY <1>3 DEF PostfixPoint
<1>6. node \in ParserTrees(tokens)[<<11, b, cur>>]
  <2>1. ParserTrees(tokens)[<<12, b, cur>>] \subseteq ParserTrees(tokens)[<<11, b, cur>>]
    BY <1>2, <1>4, <1>5, PrimaryNested
  <2> QED BY <1>5, <2>1
<1>7. OperandPoint(tokens, cur, node, x)
  BY <1>2, <1>3, <1>5, <1>6 DEF PostfixPoint, OperandPoint, Skips
<1> QED BY <1>1, <1>3, <1>7, Within DEF SoundIn, SoundPoint, Expressions

\* A frame links the call of an expression, or of a unary expression.
LEMMA LinkKinds ==
    ASSUME NEW s, NEW its, NEW f, NEW x, NEW y, SoundLink(s, its, f, x, y)
    PROVE  /\ f.kind = "climb" => SoundClimb(s, f, x, y)
           /\ f.kind = "apply" => SoundApply(s, f, x, y)
           /\ f.kind = ")" => SoundParen(s, f, x, y)
           /\ f.kind \in {"dropped ]", "dropped )"} => SoundDropped(s, f, x, y)
           /\ f.kind \in {"return", "declaration", "expression"} => SoundItem(s, its, f, x, y)
<1>1. SoundClimb(s, f, x, y) => f.kind = "climb"
  BY DEF SoundClimb
<1>2. SoundApply(s, f, x, y) => f.kind = "apply"
  BY DEF SoundApply
<1>3. SoundParen(s, f, x, y) => f.kind = ")"
  BY DEF SoundParen
<1>4. SoundDropped(s, f, x, y) => f.kind \in {"dropped ]", "dropped )"}
  BY DEF SoundDropped
<1>5. SoundItem(s, its, f, x, y) => f.kind \in {"return", "declaration", "expression"}
  BY DEF SoundItem
<1> QED BY <1>1, <1>2, <1>3, <1>4, <1>5 DEF SoundLink

\* A unary expression is called by the loop, which has no operator, or by a prefix operator.
LEMMA UnaryLinks ==
    ASSUME NEW s, NEW its, NEW f, NEW x, NEW y, SoundLink(s, its, f, x, y), y = Want("unary", 0, y.start)
    PROVE  (SoundClimb(s, f, x, y) /\ f.op = "") \/ SoundApply(s, f, x, y)
<1>0. y.kind = "unary" /\ \A m, p : Want("expression", m, p).kind = "expression"
  BY DEF Want
<1>1. SoundClimb(s, f, x, y) => f.op = ""
  BY <1>0 DEF SoundClimb
<1>3. ~ SoundParen(s, f, x, y)
  BY <1>0 DEF SoundParen
<1>4. ~ SoundDropped(s, f, x, y)
  BY <1>0 DEF SoundDropped
<1>5. ~ SoundItem(s, its, f, x, y)
  BY <1>0 DEF SoundItem
<1> QED BY <1>1, <1>3, <1>4, <1>5 DEF SoundLink

\* The brackets make a primary expression, or are dropped.
LEMMA ClosingSound == SInv /\ IInv' /\ ParseClosing => SInv'
<1> SUFFICES ASSUME SInv, IInv', ParseClosing PROVE SInv'
  OBVIOUS
<1>0. PICK f : f = Last(frames)
  OBVIOUS
<1>1. tokens' = tokens /\ items' = items /\ pc = "expression" /\ f.kind \in {")", "dropped ]", "dropped )"}
  BY <1>0 DEF ParseClosing, Fail, top
<1>2. tokens \in Inputs /\ cur \in Positions(tokens) /\ cur \in Nat /\ cur' \in Positions(tokens)
  BY <1>1, CursorNow, CursorNext DEF SInv
<1>3. PICK y : Linked("sound", tokens, items, frames, y) /\ y.kind # "item" /\ ExpressionPoint(tokens, cur, node, y)
  BY <1>1, PointAt DEF SInv, Sound, Expressions
<1>4. PICK strict : strict = FALSE /\ Grammatical(tokens, ParserTrees(tokens), strict)
  BY <1>2, ParserTreesGrammatical
<1>5. PICK x : Linked("sound", tokens, items, Front(frames), x) /\ SoundLink(tokens, items, f, x, y)
  BY <1>0, <1>3, ReturnSound
<1>6. SUFFICES ASSUME tokens[cur] = closing(f.kind) PROVE SInv'
  <2>1. CASE tokens[cur] # closing(f.kind)
    <3>1. Fail
      BY <1>0, <2>1 DEF ParseClosing, matches, tok, top
    <3> QED BY <1>1, <3>1, FailSound DEF Fail
  <2> QED BY <1>6, <2>1
<1>7. /\ node' = (IF f.kind = ")" THEN node ELSE f.node) /\ cur' = cur + 1
      /\ frames' = Front(frames) /\ pc' = "postfix"
  BY <1>0, <1>6 DEF ParseClosing, matches, tok, top, callers, continues
<1>8. PICK e : e = cur + 1
  OBVIOUS
<1>9. e \in Positions(tokens) /\ e - 1 = cur /\ cur = e - 1
  BY <1>2, <1>7, <1>8
<1>10. PostfixPoint(tokens, e, node', x)
  <2>1. CASE f.kind = ")"
    <3>1. SoundParen(tokens, f, x, y)
      BY <1>5, <2>1, LinkKinds
    <3>2. PICK c \in Positions(tokens) : /\ Skips(tokens, x.start, c) /\ tokens[c] = "(" /\ c + 1 \in Positions(tokens)
                                         /\ y = Want("expression", 1, c + 1)
      BY <3>1 DEF SoundParen
    <3>3. node \in ParserTrees(tokens)[<<0, c + 1, cur>>]
      <4>1. y.min = 1 /\ y.start = c + 1 /\ LevelOf(1) = 0
        BY <3>2 DEF Want, LevelOf
      <4> QED BY <1>3, <4>1 DEF ExpressionPoint
    <3>4. tokens[cur] = ")"
      BY <1>6, <2>1 DEF closing
    <3>5. node \in ParserTrees(tokens)[<<13, c, cur + 1>>]
      BY <1>2, <1>4, <1>7, <3>2, <3>3, <3>4, ParenTree
    <3>6. node \in ParserTrees(tokens)[<<12, c, e>>]
      BY <1>4, <1>8, <1>9, <3>2, <3>5, PrimaryNested
    <3> QED BY <1>7, <2>1, <3>1, <3>2, <3>6 DEF PostfixPoint, SoundParen
  <2>2. CASE f.kind \in {"dropped ]", "dropped )"}
    <3>1. SoundDropped(tokens, f, x, y)
      BY <1>5, <2>2, LinkKinds
    <3>2. PICK c \in Positions(tokens), k \in Positions(tokens) :
             /\ Skips(tokens, x.start, c) /\ f.node \in ParserTrees(tokens)[<<12, c, k>>]
             /\ tokens[k] = opening(f.kind) /\ k + 1 \in Positions(tokens) /\ y = Want("expression", 1, k + 1)
      BY <3>1 DEF SoundDropped
    <3>3. node \in ParserTrees(tokens)[<<0, k + 1, cur>>]
      <4>1. y.min = 1 /\ y.start = k + 1 /\ LevelOf(1) = 0
        BY <3>2 DEF Want, LevelOf
      <4> QED BY <1>3, <4>1 DEF ExpressionPoint
    <3>4. c < k /\ c \in Nat /\ k \in Nat
      BY <1>2, <1>4, <3>2, PostfixSpan
    <3>5. k + 1 < cur
      <4>1. PICK l : l = 0
        OBVIOUS
      <4>2. l \in 0..13 /\ node \in ParserTrees(tokens)[<<l, k + 1, cur>>]
        BY <3>3, <4>1
      <4> QED BY <1>2, <1>4, <3>2, <4>2, TreesSpan
    <3>6. k \in (c + 1)..(e - 2)
      BY <1>2, <1>8, <3>4, <3>5
    <3>7. Drops(tokens, ParserTrees(tokens), k, e)
      <4>1. ParserTrees(tokens)[<<0, k + 1, e - 1>>] # {}
        BY <1>9, <3>3
      <4>2. tokens[e - 1] = closing(f.kind)
        BY <1>6, <1>9
      <4> QED BY <2>2, <3>2, <4>1, <4>2 DEF Drops, closing, opening, Assignment
    <3>8. f.node \in ParserTrees(tokens)[<<12, c, e>>]
      BY <1>2, <1>4, <1>9, <3>2, <3>6, <3>7, DroppedTree
    <3> QED BY <1>7, <2>2, <3>1, <3>2, <3>8 DEF PostfixPoint, SoundDropped
  <2> QED BY <1>1, <2>1, <2>2
<1> QED BY <1>1, <1>5, <1>7, <1>8, <1>10, Within DEF SoundIn, SoundPoint, Expressions

\* A unary expression is the left operand of any operator.
LEMMA OperandReady ==
    ASSUME NEW s \in Inputs, NEW strict, Grammatical(s, ParserTrees(s), strict), NEW m \in Minima,
           NEW p \in Positions(s), NEW c \in Positions(s), NEW t \in ParserTrees(s)[<<11, p, c>>]
    PROVE  Ready(s, m, p, c, t)
<1>1. PICK u : u = 11
  OBVIOUS
<1>2. \A l \in 0..11 : t \in ParserTrees(s)[<<l, p, c>>]
  <2> TAKE l \in 0..11
  <2>1. u \in 0..13 /\ l \in 0..13 /\ l <= u /\ t \in ParserTrees(s)[<<u, p, c>>]
    BY <1>1
  <2> QED BY <2>1, TreesNested
<1>3. LevelOf(m) \in 0..11
  BY DEF LevelOf, Minima
<1>4. s[c] \in DOMAIN binary_op_type => OpLevel(s[c]) \in 0..11 /\ 1 \in 0..11
  BY TakesLevel
<1> QED BY <1>2, <1>3, <1>4 DEF Ready

\* The prefix operator is applied, or the loop has its left operand.
LEMMA OperandSound == SInv /\ IInv' /\ ParseOperand => SInv'
<1> SUFFICES ASSUME SInv, IInv', ParseOperand PROVE SInv'
  OBVIOUS
<1>0. PICK f : f = Last(frames)
  OBVIOUS
<1>1. tokens' = tokens /\ items' = items /\ pc = "operand" /\ cur' = cur
  BY DEF ParseOperand
<1>2. tokens \in Inputs /\ cur \in Positions(tokens) /\ cur \in Nat
  BY <1>1, CursorNow DEF SInv
<1>3. PICK y : Linked("sound", tokens, items, frames, y) /\ y.kind # "item" /\ OperandPoint(tokens, cur, node, y)
  BY <1>1, PointAt DEF SInv, Sound, Expressions
<1>4. PICK strict : strict = FALSE /\ Grammatical(tokens, ParserTrees(tokens), strict)
  BY <1>2, ParserTreesGrammatical
<1>5. PICK x : Linked("sound", tokens, items, Front(frames), x) /\ SoundLink(tokens, items, f, x, y)
  BY <1>0, <1>3, ReturnSound
<1>6. (SoundClimb(tokens, f, x, y) /\ f.op = "") \/ SoundApply(tokens, f, x, y)
  BY <1>3, <1>5, UnaryLinks DEF OperandPoint
<1>7. CASE f.kind = "apply"
  <2>1. SoundApply(tokens, f, x, y)
    BY <1>5, <1>7, LinkKinds
  <2>2. node' = Un(f.op, node) /\ frames' = Front(frames) /\ pc' = "operand"
    BY <1>0, <1>1, <1>7 DEF ParseOperand, top, callers
  <2>3. Un(f.op, node) \in ParserTrees(tokens)[<<11, x.start, cur>>]
    BY <1>2, <1>3, <2>1 DEF SoundApply, OperandPoint
  <2>4. OperandPoint(tokens, cur, node', x)
    BY <2>1, <2>2, <2>3 DEF OperandPoint, SoundApply
  <2> QED BY <1>1, <1>5, <2>2, <2>4, Within DEF SoundIn, SoundPoint, Expressions
<1>8. CASE f.kind # "apply"
  <2>1. SoundClimb(tokens, f, x, y) /\ f.op = ""
    BY <1>6, <1>8 DEF SoundApply
  <2>2. node' = node /\ frames' = frames /\ pc' = "climb"
    BY <1>0, <1>1, <1>8 DEF ParseOperand, top
  <2>3. Ready(tokens, f.min, y.start, cur, node)
    BY <1>2, <1>3, <1>4, <2>1, OperandReady DEF OperandPoint, SoundClimb
  <2>4. f.kind = "climb"
    BY <2>1 DEF SoundClimb
  <2>5. ClimbPoint(tokens, cur, node', Last(frames'), y)
    BY <1>0, <1>3, <2>1, <2>2, <2>3, <2>4 DEF ClimbPoint, OperandPoint
  <2> QED BY <1>1, <1>3, <2>2, <2>5, Within DEF SoundIn, SoundPoint, Expressions
<1> QED BY <1>7, <1>8

\* A step that ends the parser keeps the invariant.
LEMMA AssignToSound == SInv /\ IInv' /\ ParseAssignTo => SInv'
BY FailSound DEF ParseAssignTo, Fail

\* The climbing call and its point.
LEMMA ClimbingAt ==
    ASSUME SInv, pc = "climb"
    PROVE  \E x, y : /\ Linked("sound", tokens, items, frames, y) /\ ClimbPoint(tokens, cur, node, Last(frames), y)
                     /\ Linked("sound", tokens, items, Front(frames), x)
                     /\ SoundClimb(tokens, Last(frames), x, y) /\ Last(frames).op = "" /\ x.start = y.start
<1>1. PICK y : Linked("sound", tokens, items, frames, y) /\ y.kind # "item"
               /\ ClimbPoint(tokens, cur, node, Last(frames), y)
  BY PointAt DEF SInv, Sound, Expressions
<1>2. PICK x : Linked("sound", tokens, items, Front(frames), x) /\ SoundLink(tokens, items, Last(frames), x, y)
  BY <1>1, ReturnSound
<1>3. SoundClimb(tokens, Last(frames), x, y) /\ Last(frames).op = ""
  BY <1>1, <1>2, LinkKinds DEF ClimbPoint
<1>4. y = Want("unary", 0, x.start)
  BY <1>3 DEF SoundClimb
<1>5. x.start = y.start
  BY <1>4 DEF Want
<1> QED BY <1>1, <1>2, <1>3, <1>5

\* The right operand is called for, one level down unless it is an assignment.
LEMMA BinarySound == SInv /\ IInv' /\ ParseBinary => SInv'
<1> SUFFICES ASSUME SInv, IInv', ParseBinary PROVE SInv'
  OBVIOUS
<1>0. PICK f : f = Last(frames)
  OBVIOUS
<1>a. PICK o : o = binary_op_type[tokens[cur]]
  OBVIOUS
<1>b. PICK g : g = [f EXCEPT !.op = o, !.node = node]
  OBVIOUS
<1>1. /\ tokens' = tokens /\ items' = items /\ pc = "climb" /\ pc' = "unary" /\ cur' = cur + 1
      /\ tokens[cur] \in DOMAIN binary_op_type /\ takes(o, f.min)
      /\ tokens[cur] = "=" => Assignable(node)
      /\ frames' = Front(frames) \o <<g, climbing(next_min_pred(o))>>
  BY <1>0, <1>a, <1>b DEF ParseBinary, tok, top, callers, Assignable
<1>2. tokens \in Inputs /\ cur \in Positions(tokens) /\ cur \in Nat /\ cur + 1 \in Positions(tokens)
  BY <1>1, CursorNow, CursorNext DEF SInv
<1>3. PICK x, y : /\ ClimbPoint(tokens, cur, node, f, y)
                  /\ Linked("sound", tokens, items, Front(frames), x)
                  /\ SoundClimb(tokens, f, x, y) /\ f.op = "" /\ x.start = y.start
  BY <1>0, <1>1, ClimbingAt
<1>4. f.min \in Minima /\ IsClimb(f)
      /\ x = Want("expression", f.min, x.start) /\ x.start \in Positions(tokens)
  BY <1>3 DEF SoundClimb
<1>5. /\ OpLevel(tokens[cur]) \in 0..10 /\ OpLevel(tokens[cur]) >= LevelOf(f.min)
      /\ next_min_pred(o) \in Minima
  BY <1>1, <1>4, <1>a, TakesLevel
<1>6. g = Frame("climb", o, f.min, node)
  BY <1>4, <1>b, ClimbUpdate
<1>7. g.kind = "climb" /\ g.op = o /\ g.min = f.min /\ g.node = node
  BY <1>6 DEF Frame
<1>8. o # ""
  BY <1>1, <1>a, OperatorsNamed
<1>9. LeftOf(tokens, x.start, cur, node)
  <2>1. /\ node \in ParserTrees(tokens)[<<LevelOf(f.min), x.start, cur>>]
        /\ node \in ParserTrees(tokens)[<<IF tokens[cur] = "=" THEN 1 ELSE OpLevel(tokens[cur]), x.start, cur>>]
    BY <1>1, <1>3, <1>5 DEF ClimbPoint, Ready
  <2> QED BY <1>1, <2>1 DEF LeftOf
<1>10. Link("sound", tokens, items, g, x, Want("expression", next_min_pred(o), cur + 1))
  <2>1. IsClimb(g)
    BY <1>6 DEF IsClimb
  <2>2. SoundClimb(tokens, g, x, Want("expression", next_min_pred(o), cur + 1))
    BY <1>1, <1>2, <1>4, <1>5, <1>7, <1>8, <1>9, <1>a, <2>1 DEF SoundClimb
  <2> QED BY <2>2 DEF Link, SoundLink, Want
<1>11. SoundIn(tokens, cur + 1, "unary", node', frames', items)
  BY <1>1, <1>2, <1>3, <1>5, <1>10, CallSound
<1> QED BY <1>1, <1>11, Within DEF Expressions

\* No operator that the loop takes follows.
LEMMA ClimbDoneSound == SInv /\ IInv' /\ ParseClimbDone => SInv'
<1> SUFFICES ASSUME SInv, IInv', ParseClimbDone PROVE SInv'
  OBVIOUS
<1>0. PICK f : f = Last(frames)
  OBVIOUS
<1>1. /\ tokens' = tokens /\ items' = items /\ pc = "climb" /\ pc' = "expression" /\ cur' = cur /\ node' = node
      /\ tokens[cur] \in DOMAIN binary_op_type => ~ takes(binary_op_type[tokens[cur]], f.min)
      /\ frames' = Front(frames)
  BY <1>0 DEF ParseClimbDone, tok, top, callers
<1>2. tokens \in Inputs /\ cur \in Positions(tokens) /\ cur \in Nat
  BY CursorNow DEF SInv
<1>3. PICK x, y : /\ ClimbPoint(tokens, cur, node, f, y)
                  /\ Linked("sound", tokens, items, Front(frames), x)
                  /\ SoundClimb(tokens, f, x, y) /\ f.op = "" /\ x.start = y.start
  BY <1>0, <1>1, ClimbingAt
<1>4. f.min \in Minima /\ x = Want("expression", f.min, x.start) /\ x.start \in Positions(tokens)
  BY <1>3 DEF SoundClimb
<1>5. x.min = f.min
  BY <1>4 DEF Want
<1>6. NoMore(tokens, cur, f.min)
  <2>1. LevelOf(f.min) \in Int
    BY <1>4 DEF Minima, LevelOf
  <2>2. tokens[cur] \in DOMAIN binary_op_type =>
           OpLevel(tokens[cur]) \in 0..10 /\ ~ (OpLevel(tokens[cur]) >= LevelOf(f.min))
    BY <1>1, <1>4, TakesLevel
  <2> QED BY <2>1, <2>2 DEF NoMore
<1>7. ExpressionPoint(tokens, cur, node, x)
  BY <1>3, <1>4, <1>5, <1>6 DEF ExpressionPoint, ClimbPoint, Ready
<1> QED BY <1>1, <1>3, <1>7, Within DEF SoundIn, SoundPoint, Expressions

\* An operator with both of its operands is the left operand of any operator
\* behind them that the loop takes.
LEMMA RightReady ==
    ASSUME NEW s \in Inputs, NEW strict, strict = FALSE, Grammatical(s, ParserTrees(s), strict),
           NEW m \in Minima, NEW p \in Positions(s), NEW k \in Positions(s), k + 1 \in Positions(s),
           NEW c \in Positions(s), s[k] \in DOMAIN binary_op_type, OpLevel(s[k]) >= LevelOf(m),
           NEW a, LeftOf(s, p, k, a),
           NEW b \in ParserTrees(s)[<<LevelOf(next_min_pred(binary_op_type[s[k]])), k + 1, c>>],
           NoMore(s, c, next_min_pred(binary_op_type[s[k]]))
    PROVE  Ready(s, m, p, c, Bin(binary_op_type[s[k]], a, b))
<1>1. LevelOf(m) \in 0..11 /\ OpLevel(s[k]) \in 0..10
      /\ LevelOf(next_min_pred(binary_op_type[s[k]])) = IF s[k] = "=" THEN 0 ELSE OpLevel(s[k]) + 1
  BY TakesLevel
<1>2. PICK z : z = Bin(binary_op_type[s[k]], a, b)
  OBVIOUS
<1>3. CASE s[k] = "="
  <2>1. a \in ParserTrees(s)[<<LeftLevel(strict), p, k>>] /\ IsTarget(s, strict, p, k, a)
    BY <1>3 DEF LeftOf, LeftLevel, IsTarget
  <2>2. b \in ParserTrees(s)[<<0, k + 1, c>>]
    BY <1>1, <1>3
  <2>3. z \in ParserTrees(s)[<<0, p, c>>]
    BY <1>2, <1>3, <2>1, <2>2, AssignmentTree, OperatorNames
  <2>4. OpLevel(s[k]) = 0 /\ LevelOf(m) = 0
    BY <1>1, <1>3 DEF OpLevel
  <2>5. s[c] \notin DOMAIN binary_op_type
    <3>1. s[c] \in DOMAIN binary_op_type => OpLevel(s[c]) \in 0..10 /\ OpLevel(s[c]) < 0
      BY <1>1, <1>3, TakesLevel DEF NoMore
    <3> QED BY <3>1
  <2> QED BY <1>2, <2>3, <2>4, <2>5 DEF Ready
<1>4. CASE s[k] # "="
  <2>1. PICK l : l = OpLevel(s[k])
    OBVIOUS
  <2>2. l \in 1..10 /\ s[k] \in Levels[l]
    <3>1. OpLevel(s[k]) \in 0..10 /\ (OpLevel(s[k]) = 0 <=> s[k] = "=") /\ s[k] \in Levels[OpLevel(s[k])]
      BY <1>4, TakesLevel
    <3> QED BY <1>4, <2>1, <3>1
  <2>3. a \in ParserTrees(s)[<<l, p, k>>] /\ b \in ParserTrees(s)[<<l + 1, k + 1, c>>]
    BY <1>1, <1>4, <2>1 DEF LeftOf
  <2>4. z \in ParserTrees(s)[<<l, p, c>>]
    BY <1>2, <2>2, <2>3, BinaryTree
  <2>5. \A j \in 0..l : z \in ParserTrees(s)[<<j, p, c>>]
    <3> TAKE j \in 0..l
    <3>1. j \in 0..13 /\ l \in 0..13 /\ j <= l
      BY <2>2
    <3> QED BY <2>4, <3>1, TreesNested
  <2>6. LevelOf(m) \in 0..l
    BY <1>1, <2>1, <2>2
  <2>7. s[c] \in DOMAIN binary_op_type => (IF s[c] = "=" THEN 1 ELSE OpLevel(s[c])) \in 0..l
    <3>1. s[c] \in DOMAIN binary_op_type => OpLevel(s[c]) \in 0..10 /\ OpLevel(s[c]) < l + 1
      BY <1>1, <1>4, <2>1, TakesLevel DEF NoMore
    <3> QED BY <2>2, <3>1
  <2> QED BY <1>2, <2>5, <2>6, <2>7 DEF Ready
<1> QED BY <1>3, <1>4

\* The operator is applied to both operands.
LEMMA RightSound == SInv /\ IInv' /\ ParseRight => SInv'
<1> SUFFICES ASSUME SInv, IInv', ParseRight PROVE SInv'
  OBVIOUS
<1>0. PICK f : f = Last(frames)
  OBVIOUS
<1>1. /\ tokens' = tokens /\ items' = items /\ pc = "expression" /\ pc' = "climb" /\ cur' = cur /\ f.kind = "climb"
      /\ node' = Bin(f.op, f.node, node)
      /\ frames' = Append(Front(frames), [f EXCEPT !.op = "", !.node = NoExpr])
  BY <1>0 DEF ParseRight, top, callers
<1>2. tokens \in Inputs /\ cur \in Positions(tokens) /\ cur \in Nat
  BY CursorNow DEF SInv
<1>3. PICK y : Linked("sound", tokens, items, frames, y) /\ y.kind # "item" /\ ExpressionPoint(tokens, cur, node, y)
  BY <1>1, PointAt DEF SInv, Sound, Expressions
<1>4. PICK strict : strict = FALSE /\ Grammatical(tokens, ParserTrees(tokens), strict)
  BY <1>2, ParserTreesGrammatical
<1>5. PICK x : Linked("sound", tokens, items, Front(frames), x) /\ SoundLink(tokens, items, f, x, y)
  BY <1>0, <1>3, ReturnSound
<1>6. SoundClimb(tokens, f, x, y)
  BY <1>1, <1>5, LinkKinds
<1>7. f.op # ""
  <2>1. y.kind = "expression"
    BY <1>3 DEF ExpressionPoint, Want
  <2>2. Want("unary", 0, x.start).kind = "unary"
    BY DEF Want
  <2> QED BY <1>6, <2>1, <2>2 DEF SoundClimb
<1>8. PICK k \in Positions(tokens) :
         /\ k + 1 \in Positions(tokens) /\ tokens[k] \in DOMAIN binary_op_type /\ f.op = binary_op_type[tokens[k]]
         /\ OpLevel(tokens[k]) >= LevelOf(f.min) /\ LeftOf(tokens, x.start, k, f.node)
         /\ y = Want("expression", next_min_pred(f.op), k + 1)
  BY <1>6, <1>7 DEF SoundClimb
<1>9. y.min = next_min_pred(f.op) /\ y.start = k + 1
  BY <1>8 DEF Want
<1>10. f.min \in Minima /\ x = Want("expression", f.min, x.start) /\ x.start \in Positions(tokens)
  BY <1>6 DEF SoundClimb
<1>11. Ready(tokens, f.min, x.start, cur, node')
  BY <1>1, <1>2, <1>3, <1>4, <1>8, <1>9, <1>10, RightReady DEF ExpressionPoint
<1>12. PICK g : g = climbing(f.min)
  OBVIOUS
<1>13. [f EXCEPT !.op = "", !.node = NoExpr] = g
  BY <1>6, <1>12, ClimbUpdate DEF SoundClimb, climbing
<1>14. g = Frame("climb", "", f.min, NoExpr) /\ g.kind = "climb" /\ g.op = "" /\ g.min = f.min /\ g.node = NoExpr
  BY <1>12 DEF climbing, Frame
<1>15. Link("sound", tokens, items, g, x, Want("unary", 0, x.start))
  <2>0. IsClimb(g)
    BY <1>14 DEF IsClimb
  <2>1. SoundClimb(tokens, g, x, Want("unary", 0, x.start))
    BY <1>10, <1>14, <2>0 DEF SoundClimb
  <2> QED BY <2>1 DEF Link, SoundLink, Want
<1>16. Linked("sound", tokens, items, frames', Want("unary", 0, x.start))
  BY <1>1, <1>5, <1>13, <1>15, LinkPush
<1>17. Last(frames') = g
  <2>1. IsList(Front(frames))
    BY <1>5 DEF Linked
  <2> QED BY <1>1, <1>13, <2>1, AppendFacts DEF Last
<1>18. ClimbPoint(tokens, cur, node', Last(frames'), Want("unary", 0, x.start))
  <2>1. Want("unary", 0, x.start).start = x.start
    BY DEF Want
  <2> QED BY <1>10, <1>11, <1>14, <1>17, <2>1 DEF ClimbPoint
<1> QED BY <1>1, <1>16, <1>18, Within DEF SoundIn, SoundPoint, Expressions

\* A token that ends no statement and not the block.
Ordinary(s, k) == s[k] # ";" /\ s[k] # "}"

\* All tokens of the span are such.
Plain(s, p, q) == \A k \in p..(q - 1) : Ordinary(s, k)

\* What is proved of spans of fewer than n tokens.
PlainBelow(s, T, n) ==
    \A l \in 0..13, p \in Positions(s), q \in Positions(s) : q - p < n /\ T[<<l, p, q>>] # {} => Plain(s, p, q)

\* Tokens in front of those that are ordinary.
LEMMA PlainFirst ==
    ASSUME NEW s, NEW p \in Nat, NEW q \in Nat, p < q, Ordinary(s, p), Plain(s, p + 1, q)
    PROVE  Plain(s, p, q)
<1> SUFFICES ASSUME NEW k \in p..(q - 1) PROVE Ordinary(s, k)
  BY DEF Plain
<1>1. k \in Int /\ p <= k /\ k <= q - 1
  OBVIOUS
<1>2. CASE k = p
  BY <1>2
<1>3. CASE k # p
  <2>1. k \in (p + 1)..(q - 1)
    BY <1>1, <1>3
  <2> QED BY <2>1 DEF Plain
<1> QED BY <1>2, <1>3

\* Tokens behind them.
LEMMA PlainLast ==
    ASSUME NEW s, NEW p \in Nat, NEW q \in Nat, p < q, Ordinary(s, q - 1), Plain(s, p, q - 1)
    PROVE  Plain(s, p, q)
<1> SUFFICES ASSUME NEW k \in p..(q - 1) PROVE Ordinary(s, k)
  BY DEF Plain
<1>1. k \in Int /\ p <= k /\ k <= q - 1
  OBVIOUS
<1>2. CASE k = q - 1
  BY <1>2
<1>3. CASE k # q - 1
  <2>1. k \in p..((q - 1) - 1)
    BY <1>1, <1>3
  <2> QED BY <2>1 DEF Plain
<1> QED BY <1>2, <1>3

\* Two stretches of ordinary tokens.
LEMMA PlainConcat ==
    ASSUME NEW s, NEW p \in Nat, NEW k \in Nat, NEW q \in Nat, Plain(s, p, k), Plain(s, k, q)
    PROVE  Plain(s, p, q)
<1> SUFFICES ASSUME NEW j \in p..(q - 1) PROVE Ordinary(s, j)
  BY DEF Plain
<1>1. j \in p..(k - 1) \/ j \in k..(q - 1)
  OBVIOUS
<1> QED BY <1>1 DEF Plain

\* Two plain spans and the token between them.
LEMMA PlainJoin ==
    ASSUME NEW s, NEW p \in Nat, NEW k \in Nat, NEW q \in Nat, p <= k, k < q,
           Plain(s, p, k), Ordinary(s, k), Plain(s, k + 1, q)
    PROVE  Plain(s, p, q)
BY PlainFirst, PlainConcat

\* A subscript, arguments or a member behind a plain span.
LEMMA DropsPlain ==
    ASSUME NEW s \in Inputs, NEW strict, NEW T, Grammatical(s, T, strict), NEW n, PlainBelow(s, T, n), n \in Nat,
           NEW k \in Positions(s), NEW q \in Positions(s), k \in 1..(q - 2), q - k < n, Drops(s, T, k, q)
    PROVE  Plain(s, k, q)
<1>1. Ordinary(s, k) /\ Ordinary(s, q - 1)
  BY KindsDiffer DEF Drops, Ordinary
<1>2. k \in Nat /\ q \in Nat /\ Positions(s) \subseteq Nat
  BY InputsEndWithEOF DEF Positions
<1>3. k = q - 2 \/ Plain(s, k + 1, q - 1)
  <2>1. k + 1 \in Positions(s) /\ q - 1 \in Positions(s) /\ (q - 1) - (k + 1) < n
    BY <1>2, InputsEndWithEOF DEF Positions
  <2>2. PICK l : l = 0
    OBVIOUS
  <2>3. k = q - 2 \/ T[<<l, k + 1, q - 1>>] # {}
    BY <2>2 DEF Drops, Assignment
  <2> QED BY <2>1, <2>2, <2>3 DEF PlainBelow
<1>4. CASE k = q - 2
  <2>1. \A j \in k..(q - 1) : j = k \/ j = q - 1
    BY <1>2, <1>4
  <2> QED BY <1>1, <2>1 DEF Plain
<1>5. CASE Plain(s, k + 1, q - 1) /\ k # q - 2
  <2>1. k < q - 1 /\ q - 1 \in Nat
    BY <1>2
  <2>2. Plain(s, k, q - 1)
    BY <1>1, <1>2, <1>5, <2>1, PlainFirst
  <2> QED BY <1>1, <1>2, <2>1, <2>2, PlainLast
<1> QED BY <1>3, <1>4, <1>5

\* What a production makes is plain if its parts are.
LEMMA OwnPlain ==
    ASSUME NEW s \in Inputs, NEW strict, NEW T, Grammatical(s, T, strict),
           NEW p \in Positions(s), NEW q \in Positions(s), p < q, PlainBelow(s, T, q - p),
           NEW m \in 0..13, NEW x \in OwnTrees(s, strict, T, m, p, q)
    PROVE  Plain(s, p, q)
<1>0. p \in Nat /\ q \in Nat /\ Positions(s) \subseteq Nat /\ \A k \in p..q : k \in Positions(s)
  BY InputsEndWithEOF DEF Positions
<1>1. CASE m = 0
  <2>1. IsAssignment(s, strict, T, p, q, x)
    BY <1>1, OwnIs, AssignmentMember
  <2>2. PICK k, a, b : AssignmentAt(s, strict, T, p, q, k, a, b)
    BY <2>1 DEF IsAssignment
  <2>3. k \in (p + 1)..(q - 2) /\ s[k] = "=" /\ a \in T[<<LeftLevel(strict), p, k>>] /\ b \in T[<<0, k + 1, q>>]
    BY <2>2 DEF AssignmentAt
  <2>4. k \in Positions(s) /\ k + 1 \in Positions(s) /\ k - p < q - p /\ q - (k + 1) < q - p
    BY <1>0, <2>3
  <2>5. Plain(s, p, k)
    <3>1. PICK l : l = LeftLevel(strict)
      OBVIOUS
    <3>2. l \in 0..13 /\ T[<<l, p, k>>] # {}
      BY <2>3, <3>1 DEF LeftLevel
    <3> QED BY <2>4, <3>2 DEF PlainBelow
  <2>6. Plain(s, k + 1, q)
    <3>1. PICK l : l = 0
      OBVIOUS
    <3>2. l \in 0..13 /\ b \in T[<<l, k + 1, q>>]
      BY <2>3, <3>1
    <3> QED BY <2>4, <3>2 DEF PlainBelow
  <2>7. Ordinary(s, k)
    BY <2>3 DEF Ordinary
  <2> QED BY <1>0, <2>3, <2>5, <2>6, <2>7, PlainJoin
<1>2. CASE m \in 1..10
  <2>1. IsBinary(s, m, T, p, q, x)
    BY <1>2, OwnIs, BinaryMember
  <2>2. PICK k, a, b : BinaryAt(s, m, T, p, q, k, a, b)
    BY <2>1 DEF IsBinary
  <2>3. k \in (p + 1)..(q - 2) /\ s[k] \in Levels[m] /\ a \in T[<<m, p, k>>] /\ b \in T[<<m + 1, k + 1, q>>]
    BY <2>2 DEF BinaryAt
  <2>4. k \in Positions(s) /\ k + 1 \in Positions(s) /\ k - p < q - p /\ q - (k + 1) < q - p /\ m + 1 \in 0..13
    BY <1>0, <1>2, <2>3
  <2>5. Plain(s, p, k)
    BY <2>3, <2>4 DEF PlainBelow
  <2>6. Plain(s, k + 1, q)
    BY <2>3, <2>4 DEF PlainBelow
  <2>7. Ordinary(s, k)
    <3>1. s[k] \in DOMAIN binary_op_type
      BY <1>2, <2>3, LevelOperators
    <3> QED BY <3>1, OperatorNames DEF Ordinary
  <2> QED BY <1>0, <2>3, <2>5, <2>6, <2>7, PlainJoin
<1>3. CASE m = 11
  <2>1. x \in UnaryTrees(s, strict, T, p, q)
    BY <1>3, OwnIs
  <2>2. s[p] \in DOMAIN prefix_op_type \/ s[p] = "sizeof"
    BY <2>1 DEF UnaryTrees
  <2>3. Ordinary(s, p)
    BY <2>2 DEF prefix_op_type, Ordinary
  <2>4. T[<<11, p + 1, q>>] # {} \/ (q = p + 3 /\ s[p + 1] = "(" /\ s[p + 2] = ")")
    BY <2>1 DEF UnaryTrees, UnaryLevel
  <2>5. CASE T[<<11, p + 1, q>>] # {}
    <3>1. PICK l : l = 11
      OBVIOUS
    <3>2. p + 1 \in Positions(s) /\ q - (p + 1) < q - p /\ l \in 0..13 /\ T[<<l, p + 1, q>>] # {}
      BY <1>0, <2>5, <3>1
    <3>3. Plain(s, p + 1, q)
      BY <3>2 DEF PlainBelow
    <3> QED BY <1>0, <2>3, <3>3, PlainFirst
  <2>6. CASE q = p + 3 /\ s[p + 1] = "(" /\ s[p + 2] = ")"
    <3>1. \A k \in p..(q - 1) : k = p \/ k = p + 1 \/ k = p + 2
      BY <1>0, <2>6
    <3> QED BY <2>3, <2>6, <3>1 DEF Plain, Ordinary
  <2> QED BY <2>4, <2>5, <2>6
<1>4. CASE m = 12
  <2>1. IsPostfix(s, T, p, q, x)
    BY <1>4, OwnIs, PostfixMember
  <2>2. CASE s[q - 1] \in DOMAIN postfix_op_type /\ \E a \in T[<<12, p, q - 1>>] : x = Un(postfix_op_type[s[q - 1]], a)
    <3>1. PICK l : l = 12
      OBVIOUS
    <3>2. q - 1 \in Positions(s) /\ (q - 1) - p < q - p /\ l \in 0..13 /\ T[<<l, p, q - 1>>] # {}
      BY <1>0, <2>2, <3>1
    <3>3. Plain(s, p, q - 1)
      BY <3>2 DEF PlainBelow
    <3>4. Ordinary(s, q - 1)
      BY <2>2 DEF postfix_op_type, Ordinary
    <3> QED BY <1>0, <3>3, <3>4, PlainLast
  <2>3. CASE \E k \in (p + 1)..(q - 2) : Drops(s, T, k, q) /\ x \in T[<<12, p, k>>]
    <3>1. PICK k \in (p + 1)..(q - 2) : Drops(s, T, k, q) /\ x \in T[<<12, p, k>>]
      BY <2>3
    <3>2. PICK l : l = 12
      OBVIOUS
    <3>3. k \in Positions(s) /\ k \in Nat /\ k - p < q - p /\ l \in 0..13 /\ T[<<l, p, k>>] # {}
      BY <1>0, <3>1, <3>2
    <3>4. Plain(s, p, k)
      BY <3>3 DEF PlainBelow
    <3>5. k \in 1..(q - 2) /\ q - k < q - p /\ q - p \in Nat
      BY <1>0, <3>1, <3>3
    <3>6. Plain(s, k, q)
      BY <3>1, <3>3, <3>5, DropsPlain
    <3> QED BY <1>0, <3>3, <3>4, <3>6, PlainConcat
  <2> QED BY <2>1, <2>2, <2>3 DEF IsPostfix
<1>5. CASE m = 13
  <2>1. x \in PrimaryTrees(s, T, p, q)
    BY <1>5, OwnIs
  <2>2. CASE q = p + 1
    <3>1. s[p] \in Constants \cup Identifiers
      BY <2>1, <2>2 DEF PrimaryTrees
    <3>2. Ordinary(s, p)
      BY <3>1, KindsDiffer DEF Ordinary
    <3>3. \A k \in p..(q - 1) : k = p
      BY <1>0, <2>2
    <3> QED BY <3>2, <3>3 DEF Plain
  <2>3. CASE q # p + 1
    <3>1. s[p] = "(" /\ s[q - 1] = ")" /\ x \in T[<<0, p + 1, q - 1>>]
      BY <2>1, <2>3 DEF PrimaryTrees, Assignment
    <3>2. PICK l : l = 0
      OBVIOUS
    <3>3. p + 1 \in Positions(s) /\ q - 1 \in Positions(s) /\ (q - 1) - (p + 1) < q - p /\ l \in 0..13
          /\ T[<<l, p + 1, q - 1>>] # {}
      BY <1>0, <2>3, <3>1, <3>2
    <3>4. Plain(s, p + 1, q - 1)
      BY <3>3 DEF PlainBelow
    <3>0. Ordinary(s, p)
      BY <3>1 DEF Ordinary
    <3>5. p < q - 1 /\ q - 1 \in Nat
      BY <1>0, <2>3
    <3>6. Plain(s, p, q - 1)
      BY <1>0, <3>0, <3>4, <3>5, PlainFirst
    <3>7. Ordinary(s, q - 1)
      BY <3>1 DEF Ordinary
    <3> QED BY <1>0, <3>6, <3>7, PlainLast
  <2> QED BY <2>2, <2>3
<1> QED BY <1>1, <1>2, <1>3, <1>4, <1>5

\* An expression does not go over the end of its statement.
LEMMA TreesPlain ==
    ASSUME NEW s \in Inputs, NEW strict, NEW T, Grammatical(s, T, strict),
           NEW l \in 0..13, NEW p \in Positions(s), NEW q \in Positions(s), T[<<l, p, q>>] # {}
    PROVE  Plain(s, p, q)
<1>1. PICK Bad : Bad = {n \in Nat : \E i \in 0..13, a \in Positions(s), b \in Positions(s) :
                                       b - a = n /\ T[<<i, a, b>>] # {} /\ ~ Plain(s, a, b)}
  OBVIOUS
<1>2. p < q /\ Positions(s) \subseteq Nat
  BY TreesSpan, InputsEndWithEOF DEF Positions
<1>3. SUFFICES ASSUME Bad # {} PROVE FALSE
  <2>1. q - p \in Nat
    BY <1>2
  <2> QED BY <1>1, <1>3, <2>1
<1>4. PICK n \in Bad : \A k \in Bad : n <= k
  <2>1. Bad \in SUBSET Nat
    BY <1>1
  <2> QED BY <1>3, <2>1, LeastElement
<1>5. PICK i \in 0..13, a \in Positions(s), b \in Positions(s) :
         b - a = n /\ T[<<i, a, b>>] # {} /\ ~ Plain(s, a, b)
  BY <1>1, <1>4
<1>6. PICK x : x \in T[<<i, a, b>>]
  BY <1>5
<1>7. PICK m \in i..13 : x \in OwnTrees(s, strict, T, m, a, b)
  BY <1>6, TreesMade
<1>8. a < b
  BY <1>6, TreesSpan
<1>9. PlainBelow(s, T, b - a)
  <2> SUFFICES ASSUME NEW j \in 0..13, NEW c \in Positions(s), NEW d \in Positions(s),
                      d - c < b - a, T[<<j, c, d>>] # {}, ~ Plain(s, c, d)
               PROVE FALSE
    BY DEF PlainBelow
  <2>1. c < d /\ d - c \in Nat
    BY <1>2, TreesSpan
  <2>2. d - c \in Bad
    BY <1>1, <2>1
  <2>3. n <= d - c
    BY <1>4, <2>2
  <2> QED BY <1>2, <1>5, <2>1, <2>3
<1>10. m \in 0..13
  BY <1>7
<1> QED BY <1>5, <1>7, <1>8, <1>9, <1>10, OwnPlain

-----------------------------------------------------------------------------
(* The items of the block.                                                 *)

\* The statements that end in front of p are finitely many.
LEMMA EndsFinite ==
    ASSUME NEW s, NEW p \in Nat
    PROVE  IsFiniteSet(Ends(s, p)) /\ Ends(s, p) \subseteq 7..(p - 1) /\ Cardinality(Ends(s, p)) \in Nat
<1>1. Ends(s, p) \subseteq 7..(p - 1)
  BY DEF Ends
<1>2. IsFiniteSet(7..(p - 1))
  BY FS_Interval
<1>3. IsFiniteSet(Ends(s, p))
  BY <1>1, <1>2, FS_Subset
<1> QED BY <1>1, <1>3, FS_CardinalityType

\* A statement more is one end more.
LEMMA EndsGrow ==
    ASSUME NEW s, NEW p \in Nat, NEW q \in Nat, p > 6, p <= q, IsStatement(s, p, q), Plain(s, p, q)
    PROVE  /\ Ends(s, q + 1) = Ends(s, p) \cup {q}
           /\ Cardinality(Ends(s, q + 1)) = Cardinality(Ends(s, p)) + 1
<1>1. ASSUME NEW k \in Ends(s, q + 1) PROVE k \in Ends(s, p) \cup {q}
  <2>1. s[k] = ";"
    BY <1>1 DEF Ends
  <2>2. k \in Int /\ 7 <= k /\ k <= q
    <3>1. k \in 7..((q + 1) - 1)
      BY <1>1 DEF Ends
    <3> QED BY <3>1
  <2>3. CASE k < p
    <3>1. k \in 7..(p - 1)
      BY <2>2, <2>3
    <3> QED BY <2>1, <3>1 DEF Ends
  <2>4. CASE ~ (k < p) /\ k # q
    <3>1. k \in p..(q - 1)
      BY <2>2, <2>4
    <3>2. Ordinary(s, k)
      BY <3>1 DEF Plain
    <3> QED BY <2>1, <3>2 DEF Ordinary
  <2> QED BY <2>3, <2>4
<1>2. ASSUME NEW k \in Ends(s, p) PROVE k \in Ends(s, q + 1)
  <2>1. k \in 7..(p - 1)
    BY <1>2 DEF Ends
  <2>2. k \in 7..((q + 1) - 1)
    BY <2>1
  <2> QED BY <1>2, <2>2 DEF Ends
<1>3. q \in Ends(s, q + 1)
  <2>1. q \in 7..((q + 1) - 1)
    OBVIOUS
  <2> QED BY <2>1 DEF Ends, IsStatement
<1>4. Ends(s, q + 1) = Ends(s, p) \cup {q}
  BY <1>1, <1>2, <1>3
<1>5. q \notin Ends(s, p)
  <2>1. q \notin 7..(p - 1)
    OBVIOUS
  <2> QED BY <2>1 DEF Ends
<1>6. IsFiniteSet(Ends(s, p))
  BY EndsFinite
<1> QED BY <1>4, <1>5, <1>6, FS_AddElement

\* A statement begins at p.
Begins(s, p) == p = 7 \/ s[p - 1] = ";"

\* The statement that ends at q is only one.
LEMMA OneStatement ==
    ASSUME NEW s, NEW p \in Nat, NEW q \in Nat, p > 6, p <= q, Plain(s, p, q), Begins(s, p),
           NEW b \in Nat, b > 6, b <= q, IsStatement(s, b, q)
    PROVE  b = p
<1>1. Begins(s, b) /\ \A k \in b..(q - 1) : s[k] # ";"
  BY DEF IsStatement, Begins
<1>2. CASE b < p
  <2>1. p - 1 \in b..(q - 1) /\ p # 7
    BY <1>2
  <2> QED BY <1>1, <2>1 DEF Begins
<1>3. CASE b > p
  <2>1. b - 1 \in p..(q - 1) /\ b # 7
    BY <1>3
  <2>2. Ordinary(s, b - 1)
    BY <2>1 DEF Plain
  <2> QED BY <1>1, <2>1, <2>2 DEF Ordinary, Begins
<1> QED BY <1>2, <1>3

\* The item of a statement more.
LEMMA BlockGrows ==
    ASSUME NEW s \in Inputs, NEW its, IsList(its), NEW p, Block(s, its, p),
           NEW q \in Positions(s), q + 1 \in Positions(s), p <= q, IsStatement(s, p, q), Plain(s, p, q),
           NEW item \in ItemsOf(s, FALSE, p, q)
    PROVE  Block(s, Append(its, item), q + 1)
<1>0. p \in Nat /\ q \in Nat /\ p > 6 /\ Positions(s) \subseteq Nat
  <2>1. p \in Positions(s) /\ p > 6
    BY DEF Block
  <2>2. Positions(s) \subseteq Nat
    BY InputsEndWithEOF DEF Positions
  <2> QED BY <2>1, <2>2
<1>1. /\ Ends(s, q + 1) = Ends(s, p) \cup {q}
      /\ Cardinality(Ends(s, q + 1)) = Cardinality(Ends(s, p)) + 1
  BY <1>0, EndsGrow
<1>2. PICK g : g = Append(its, item)
  OBVIOUS
<1>3. PICK n : n = Len(its)
  OBVIOUS
<1>4. n \in Nat /\ Len(g) = n + 1 /\ g[n + 1] = item /\ \A j \in 1..n : g[j] = its[j]
  BY <1>2, <1>3, AppendFacts
<1>5. /\ n = Cardinality(Ends(s, p))
      /\ \A e \in Ends(s, p), b \in 7..(p - 1) :
            b <= e /\ IsStatement(s, b, e) => its[Cardinality(Ends(s, e + 1))] \in ItemsOf(s, FALSE, b, e)
  BY <1>3 DEF Block, ItemsMatch
<1>6. ASSUME NEW e \in Ends(s, q + 1), NEW b \in 7..((q + 1) - 1), b <= e, IsStatement(s, b, e)
      PROVE  g[Cardinality(Ends(s, e + 1))] \in ItemsOf(s, FALSE, b, e)
  <2>1. CASE e = q
    <3>1. b = p
      <4>1. b \in Nat /\ b > 6 /\ b <= q
        BY <1>6, <2>1
      <4>2. Begins(s, p)
        BY DEF Block, Begins
      <4>3. IsStatement(s, b, q)
        BY <1>6, <2>1
      <4> QED BY <1>0, <4>1, <4>2, <4>3, OneStatement
    <3>2. g[Cardinality(Ends(s, e + 1))] = item
      BY <1>1, <1>4, <1>5, <2>1
    <3> QED BY <2>1, <3>1, <3>2
  <2>2. CASE e \in Ends(s, p)
    <3>1. e \in 7..(p - 1)
      BY <2>2 DEF Ends
    <3>2. b \in 7..(p - 1)
      BY <1>0, <1>6, <3>1
    <3>3. its[Cardinality(Ends(s, e + 1))] \in ItemsOf(s, FALSE, b, e)
      BY <1>5, <1>6, <2>2, <3>2
    <3>4. Cardinality(Ends(s, e + 1)) \in 1..n
      <4>0. e \in Nat /\ e + 1 \in Nat
        BY <3>1
      <4>1. Ends(s, e + 1) \subseteq Ends(s, p)
        <5> SUFFICES ASSUME NEW k \in Ends(s, e + 1) PROVE k \in Ends(s, p)
          OBVIOUS
        <5>1. k \in 7..((e + 1) - 1)
          BY DEF Ends
        <5>2. k \in 7..(p - 1)
          BY <1>0, <3>1, <5>1
        <5> QED BY <5>2 DEF Ends
      <4>2. e \in Ends(s, e + 1)
        <5>1. e \in 7..((e + 1) - 1)
          BY <3>1
        <5> QED BY <2>2, <5>1 DEF Ends
      <4>3. IsFiniteSet(Ends(s, p)) /\ IsFiniteSet(Ends(s, e + 1))
        BY <1>0, <4>0, EndsFinite
      <4>4. Cardinality(Ends(s, e + 1)) <= Cardinality(Ends(s, p))
        BY <4>1, <4>3, FS_Subset
      <4>5. Cardinality(Ends(s, e + 1)) # 0 /\ Cardinality(Ends(s, e + 1)) \in Nat
        BY <4>2, <4>3, FS_EmptySet, FS_CardinalityType
      <4> QED BY <1>4, <1>5, <4>4, <4>5
    <3>5. g[Cardinality(Ends(s, e + 1))] = its[Cardinality(Ends(s, e + 1))]
      BY <1>4, <3>4
    <3> QED BY <3>3, <3>5
  <2> QED BY <1>1, <1>6, <2>1, <2>2
<1>7. ItemsMatch(s, FALSE, q + 1, g)
  BY <1>1, <1>4, <1>5, <1>6 DEF ItemsMatch
<1>8. \A k \in 7..((q + 1) - 1) : s[k] # "}"
  <2> TAKE k \in 7..((q + 1) - 1)
  <2>1. k \in Int /\ 7 <= k /\ k <= q
    BY <1>0
  <2>2. CASE k < p
    <3>1. k \in 7..(p - 1)
      BY <1>0, <2>1, <2>2
    <3> QED BY <3>1 DEF Block
  <2>3. CASE ~ (k < p) /\ k # q
    <3>1. k \in p..(q - 1)
      BY <1>0, <2>1, <2>3
    <3>2. Ordinary(s, k)
      BY <3>1 DEF Plain
    <3> QED BY <3>2 DEF Ordinary
  <2>4. CASE k = q
    BY <2>4 DEF IsStatement
  <2> QED BY <2>2, <2>3, <2>4
<1>9. q + 1 > 6 /\ (q + 1) - 1 = q
  BY <1>0
<1>10. s[(q + 1) - 1] = ";"
  BY <1>9 DEF IsStatement
<1> QED BY <1>2, <1>7, <1>8, <1>9, <1>10 DEF Block

\* No call waits for an item.
LEMMA LinkBottom ==
    ASSUME NEW mode, NEW s, NEW its, NEW fr, NEW x, Linked(mode, s, its, fr, x), x.kind = "item"
    PROVE  fr = <<>>
<1>1. PICK w : /\ w[1].kind = "item" /\ w[Len(fr) + 1] = x
               /\ \A j \in 1..Len(fr) : Link(mode, s, its, fr[j], w[j], w[j + 1])
  BY DEF Linked
<1>2. PICK n : n = Len(fr)
  OBVIOUS
<1>3. PICK S : fr \in Seq(S)
  BY DEF Linked, IsList
<1>4. n \in Nat
  BY <1>2, <1>3
<1>5. n = 0
  <2> SUFFICES ASSUME n # 0 PROVE FALSE
    OBVIOUS
  <2>1. n \in 1..n
    BY <1>4
  <2>2. Link(mode, s, its, fr[n], w[n], w[n + 1])
    BY <1>1, <1>2, <2>1
  <2> QED BY <1>1, <1>2, <2>2 DEF Link
<1> QED BY <1>2, <1>3, <1>5, EmptySeq

\* The header is read token by token, and then the block is empty.
LEMMA HeaderSound == SInv /\ IInv' /\ ParseHeader => SInv'
<1> SUFFICES ASSUME SInv, IInv', ParseHeader PROVE SInv'
  OBVIOUS
<1>1. tokens' = tokens /\ items' = items /\ pc = "header" /\ node' = node /\ frames' = frames
  BY DEF ParseHeader, Fail
<1>2. /\ IsList(items) /\ frames = <<>> /\ items = <<>> /\ HeadRead(tokens, cur)
      /\ cur \in 1..6 /\ tokens \in Inputs /\ cur \in Positions(tokens)
  BY <1>1, CursorNow DEF SInv, Sound, IInv
<1>3. CASE ~ header_matches(cur)
  <2>1. Fail
    BY <1>1, <1>3 DEF ParseHeader
  <2> QED BY <1>1, <2>1, FailSound DEF Fail
<1>4. CASE header_matches(cur)
  <2>1. cur' = cur + 1 /\ pc' = IF cur = 6 THEN "item" ELSE "header"
    BY <1>1, <1>4 DEF ParseHeader
  <2>2. HeadRead(tokens, cur + 1)
    <3> SUFFICES ASSUME NEW k \in 1..((cur + 1) - 1)
                 PROVE  IF Header[k] = "identifier" THEN tokens[k] \in Identifiers ELSE tokens[k] = Header[k]
      BY DEF HeadRead
    <3>1. CASE k = cur
      BY <1>4, <3>1 DEF header_matches, matches, tok
    <3>2. CASE k # cur
      <4>1. k \in 1..(cur - 1)
        BY <1>2, <3>2
      <4> QED BY <1>2, <4>1 DEF HeadRead
    <3> QED BY <3>1, <3>2
  <2>3. CASE cur # 6
    <3>1. pc' = "header"
      BY <2>1, <2>3
    <3> QED BY <1>1, <1>2, <2>1, <2>2, <3>1 DEF SInv, Sound, Expressions
  <2>4. CASE cur = 6
    <3>1. pc' = "item" /\ cur' = 7
      BY <2>1, <2>4
    <3>2. /\ tokens[1] = "int" /\ tokens[2] \in Identifiers /\ tokens[3] = "(" /\ tokens[4] = "void"
          /\ tokens[5] = ")" /\ tokens[6] = "{"
      <4>1. \A k \in 1..6 : IF Header[k] = "identifier" THEN tokens[k] \in Identifiers ELSE tokens[k] = Header[k]
        BY <2>2, <2>4 DEF HeadRead
      <4>2. /\ Header[1] = "int" /\ Header[2] = "identifier" /\ Header[3] = "(" /\ Header[4] = "void"
            /\ Header[5] = ")" /\ Header[6] = "{"
        BY DEF Header
      <4>3. 1 \in 1..6 /\ 2 \in 1..6 /\ 3 \in 1..6 /\ 4 \in 1..6 /\ 5 \in 1..6 /\ 6 \in 1..6
        OBVIOUS
      <4>4. tokens[1] = "int"
        BY <4>1, <4>2, <4>3
      <4>5. tokens[2] \in Identifiers
        BY <4>1, <4>2, <4>3
      <4>6. tokens[3] = "("
        BY <4>1, <4>2, <4>3
      <4>7. tokens[4] = "void"
        BY <4>1, <4>2, <4>3
      <4>8. tokens[5] = ")"
        BY <4>1, <4>2, <4>3
      <4>9. tokens[6] = "{"
        BY <4>1, <4>2, <4>3
      <4> QED BY <4>4, <4>5, <4>6, <4>7, <4>8, <4>9
    <3>3. Ends(tokens, 7) = {}
      BY DEF Ends
    <3>4. ItemsMatch(tokens, FALSE, 7, <<>>)
      <4>1. Cardinality(Ends(tokens, 7)) = 0
        BY <3>3, FS_EmptySet
      <4> QED BY <3>3, <4>1 DEF ItemsMatch
    <3>5. 7 \in Positions(tokens)
      BY <1>1, <3>1, CursorNext
    <3>6. Block(tokens, <<>>, 7)
      <4>1. 7 > 6 /\ \A k \in 7..(7 - 1) : tokens[k] # "}"
        OBVIOUS
      <4> QED BY <3>2, <3>4, <3>5, <4>1 DEF Block
    <3> QED BY <1>1, <1>2, <3>1, <3>6 DEF SInv, Sound, Expressions
  <2> QED BY <2>3, <2>4
<1> QED BY <1>3, <1>4

\* The block ends at the first closing brace.
LEMMA EndSound == SInv /\ IInv' /\ ParseEnd => SInv'
<1> SUFFICES ASSUME SInv, IInv', ParseEnd PROVE SInv'
  OBVIOUS
<1>1. tokens' = tokens /\ items' = items /\ pc = "item" /\ pc' = "parsed" /\ tokens[cur] = "}"
  BY DEF ParseEnd, tok
<1>2. Block(tokens, items, cur)
  BY <1>1 DEF SInv, Sound
<1>3. GrammarGives(tokens, items)
  BY <1>1, <1>2 DEF GrammarGives, Block, Defines
<1> QED BY <1>1, <1>3 DEF SInv, Sound, Expressions

\* A statement's expression is called.
LEMMA ItemCall ==
    ASSUME SInv, IInv', tokens' = tokens, items' = items, pc = "item", pc' = "unary",
           NEW k \in {"return", "declaration", "expression"}, NEW b \in Positions(tokens),
           Opens(tokens, k, cur, b), cur' = b,
           frames' = frames \o <<Frame(k, "", 0, NoExpr), climbing(1)>>
    PROVE  SInv'
<1>1. frames = <<>> /\ Block(tokens, items, cur) /\ tokens \in Inputs
  BY CursorNow DEF SInv, Sound
<1>2. PICK f : f = Frame(k, "", 0, NoExpr)
  OBVIOUS
<1>3. f.kind = k
  BY <1>2 DEF Frame
<1>4. Want("item", 0, cur).kind = "item" /\ Want("item", 0, cur).start = cur
      /\ Want("expression", 1, b).kind = "expression" /\ Want("expression", 1, b).start = b
  BY DEF Want
<1>5. Linked("sound", tokens, items, frames, Want("item", 0, cur))
  BY <1>1, <1>4, LinkNone
<1>6. SoundItem(tokens, items, f, Want("item", 0, cur), Want("expression", 1, b))
  BY <1>1, <1>3, <1>4 DEF SoundItem
<1>7. Link("sound", tokens, items, f, Want("item", 0, cur), Want("expression", 1, b))
  BY <1>4, <1>6 DEF Link, SoundLink
<1>8. SoundIn(tokens, b, "unary", node', frames', items)
  BY <1>1, <1>2, <1>5, <1>7, CallSound DEF Minima
<1> QED BY <1>8, Within DEF Expressions

\* The expression of a return statement is called for.
LEMMA ReturnStatementSound == SInv /\ IInv' /\ ParseReturn => SInv'
<1> SUFFICES ASSUME SInv, IInv', ParseReturn PROVE SInv'
  OBVIOUS
<1>1. tokens' = tokens /\ items' = items /\ pc = "item" /\ pc' = "unary" /\ tokens[cur] = "return" /\ cur' = cur + 1
      /\ frames' = frames \o <<Frame("return", "", 0, NoExpr), climbing(1)>>
  BY DEF ParseReturn, CallExpression, tok
<1>2. cur + 1 \in Positions(tokens) /\ Opens(tokens, "return", cur, cur + 1)
  BY <1>1, CursorNext DEF Opens
<1> QED BY <1>1, <1>2, ItemCall

\* That of an expression statement.
LEMMA ExpressionStatementSound == SInv /\ IInv' /\ ParseExpressionStatement => SInv'
<1> SUFFICES ASSUME SInv, IInv', ParseExpressionStatement PROVE SInv'
  OBVIOUS
<1>1. tokens' = tokens /\ items' = items /\ pc = "item" /\ pc' = "unary" /\ cur' = cur + 0
      /\ tokens[cur] \notin {"}", "return", "int"}
      /\ frames' = frames \o <<Frame("expression", "", 0, NoExpr), climbing(1)>>
  BY DEF ParseExpressionStatement, CallExpression, tok
<1>2. cur \in Positions(tokens) /\ cur \in Nat
  BY CursorNow DEF SInv
<1>3. cur' = cur
  <2>1. cur' = cur + 0
    BY DEF ParseExpressionStatement, CallExpression
  <2> QED BY <1>2, <2>1
<1>4. Opens(tokens, "expression", cur, cur)
  BY <1>1 DEF Opens
<1> QED BY <1>1, <1>2, <1>3, <1>4, ItemCall

\* The initializer, or the declaration without one is an item.
LEMMA DeclarationSound == SInv /\ IInv' /\ ParseDeclaration => SInv'
<1> SUFFICES ASSUME SInv, IInv', ParseDeclaration PROVE SInv'
  OBVIOUS
<1>1. tokens' = tokens /\ pc = "item" /\ tokens[cur] = "int"
  BY DEF ParseDeclaration, CallExpression, tok, Fail
<1>2. cur \in Positions(tokens) /\ cur \in Nat /\ tokens \in Inputs /\ cur' \in Positions(tokens)
      /\ frames = <<>> /\ Block(tokens, items, cur) /\ IsList(items)
  BY <1>1, CursorNow, CursorNext DEF SInv, Sound
<1>3. CASE tokens[cur + 1] \notin Identifiers \/ tokens[cur + 2] \notin {"=", ";"}
  <2>1. Fail
    BY <1>1, <1>3 DEF ParseDeclaration, next_tok
  <2> QED BY <2>1, FailSound DEF Fail
<1>4. CASE tokens[cur + 1] \in Identifiers /\ tokens[cur + 2] = "="
  <2>1. items' = items /\ pc' = "unary" /\ cur' = cur + 3
        /\ frames' = frames \o <<Frame("declaration", "", 0, NoExpr), climbing(1)>>
    BY <1>1, <1>4 DEF ParseDeclaration, next_tok, CallExpression
  <2>2. Opens(tokens, "declaration", cur, cur + 3)
    BY <1>1, <1>4 DEF Opens
  <2> QED BY <1>1, <1>2, <2>1, <2>2, ItemCall
<1>5. CASE tokens[cur + 1] \in Identifiers /\ tokens[cur + 2] = ";"
  <2>1. items' = Append(items, Declaration(NoExpr)) /\ cur' = cur + 3 /\ pc' = pc /\ frames' = frames
    BY <1>1, <1>5 DEF ParseDeclaration, next_tok
  <2>2. PICK q : q = cur + 2
    OBVIOUS
  <2>3. q \in Positions(tokens) /\ q + 1 \in Positions(tokens) /\ cur <= q /\ q + 1 = cur + 3
    BY <1>2, <2>1, <2>2, InputsEndWithEOF DEF Positions
  <2>4. \A k \in cur..(q - 1) : k = cur \/ k = cur + 1
    BY <1>2, <2>2
  <2>5. Ordinary(tokens, cur) /\ Ordinary(tokens, cur + 1)
    BY <1>1, <1>5, KindsDiffer DEF Ordinary
  <2>6. Plain(tokens, cur, q)
    BY <2>4, <2>5 DEF Plain
  <2>7. IsStatement(tokens, cur, q)
    <3>1. \A k \in cur..(q - 1) : tokens[k] # ";"
      BY <2>6 DEF Plain, Ordinary
    <3>2. cur = 7 \/ tokens[cur - 1] = ";"
      BY <1>2 DEF Block
    <3> QED BY <1>5, <2>2, <3>1, <3>2 DEF IsStatement
  <2>8. Declaration(NoExpr) \in ItemsOf(tokens, FALSE, cur, q)
    BY <1>1, <1>5, <2>2 DEF ItemsOf
  <2>9. Block(tokens, items', q + 1)
    BY <1>2, <2>1, <2>3, <2>6, <2>7, <2>8, BlockGrows
  <2>10. IsList(items')
    BY <1>2, <2>1, AppendFacts
  <2> QED BY <1>1, <1>2, <2>1, <2>3, <2>9, <2>10 DEF SInv, Sound, Expressions
<1> QED BY <1>3, <1>4, <1>5

\* The item is one that the grammar has for the statement.
LEMMA ItemEndSound == SInv /\ IInv' /\ ParseItemEnd => SInv'
<1> SUFFICES ASSUME SInv, IInv', ParseItemEnd PROVE SInv'
  OBVIOUS
<1>0. PICK f : f = Last(frames)
  OBVIOUS
<1>1. tokens' = tokens /\ pc = "expression" /\ f.kind \in {"return", "declaration", "expression"}
  BY <1>0 DEF ParseItemEnd, Fail, top
<1>2. tokens \in Inputs /\ cur \in Positions(tokens) /\ cur \in Nat /\ cur' \in Positions(tokens) /\ IsList(items)
  BY <1>1, CursorNow, CursorNext DEF SInv, Sound
<1>3. PICK y : Linked("sound", tokens, items, frames, y) /\ y.kind # "item" /\ ExpressionPoint(tokens, cur, node, y)
  BY <1>1, PointAt DEF SInv, Sound, Expressions
<1>4. PICK strict : strict = FALSE /\ Grammatical(tokens, ParserTrees(tokens), strict)
  BY <1>2, ParserTreesGrammatical
<1>5. PICK x : Linked("sound", tokens, items, Front(frames), x) /\ SoundLink(tokens, items, f, x, y)
  BY <1>0, <1>3, ReturnSound
<1>6. SUFFICES ASSUME tokens[cur] = ";" PROVE SInv'
  <2>1. CASE tokens[cur] # ";"
    <3>1. Fail
      BY <1>0, <2>1 DEF ParseItemEnd, matches, tok
    <3> QED BY <1>1, <3>1, FailSound DEF Fail
  <2> QED BY <1>6, <2>1
<1>7. PICK item : item = IF f.kind = "declaration" THEN Declaration(node) ELSE Item(f.kind, node)
  OBVIOUS
<1>8. items' = Append(items, item) /\ cur' = cur + 1 /\ pc' = "item" /\ frames' = Front(frames)
  BY <1>0, <1>6, <1>7 DEF ParseItemEnd, matches, tok, top, callers
<1>9. SoundItem(tokens, items, f, x, y)
  BY <1>1, <1>5, LinkKinds
<1>10. /\ x.kind = "item" /\ Block(tokens, items, x.start)
       /\ y = Want("expression", 1, y.start) /\ y.start \in Positions(tokens)
       /\ Opens(tokens, f.kind, x.start, y.start)
  <2>1. Want("item", 0, x.start).kind = "item"
    BY DEF Want
  <2> QED BY <1>9, <2>1 DEF SoundItem
<1>11. frames' = <<>>
  BY <1>5, <1>8, <1>10, LinkBottom
<1>12. PICK p : p = x.start
  OBVIOUS
<1>13. PICK b : b = y.start
  OBVIOUS
<1>14. node \in ParserTrees(tokens)[<<0, b, cur>>]
  <2>1. y.min = 1 /\ LevelOf(1) = 0
    BY <1>10 DEF Want, LevelOf
  <2> QED BY <1>3, <1>13, <2>1 DEF ExpressionPoint
<1>15. p \in Nat /\ b \in Nat /\ b \in Positions(tokens) /\ p <= b /\ p \in Positions(tokens)
  <2>1. p \in Positions(tokens)
    BY <1>10, <1>12 DEF Block
  <2>2. p \in Nat /\ b \in Positions(tokens)
    BY <1>2, <1>10, <1>13, <2>1, InputsEndWithEOF DEF Positions
  <2>3. b = p \/ b = p + 1 \/ b = p + 3
    BY <1>10, <1>12, <1>13 DEF Opens
  <2> QED BY <2>1, <2>2, <2>3
<1>16. PICK l : l = 0
  OBVIOUS
<1>17. b < cur /\ Plain(tokens, b, cur)
  <2>1. l \in 0..13 /\ node \in ParserTrees(tokens)[<<l, b, cur>>]
    BY <1>14, <1>16
  <2> QED BY <1>2, <1>4, <1>15, <2>1, TreesSpan, TreesPlain
<1>18. Plain(tokens, p, b)
  <2>1. CASE b = p
    BY <1>15, <2>1 DEF Plain
  <2>2. CASE b = p + 1 /\ tokens[p] = "return"
    <3>1. \A k \in p..(b - 1) : k = p
      BY <1>15, <2>2
    <3> QED BY <2>2, <3>1 DEF Plain, Ordinary
  <2>3. CASE b = p + 3 /\ tokens[p] = "int" /\ tokens[p + 1] \in Identifiers /\ tokens[p + 2] = "="
    <3>1. \A k \in p..(b - 1) : k = p \/ k = p + 1 \/ k = p + 2
      BY <1>15, <2>3
    <3>2. tokens[p + 1] # ";" /\ tokens[p + 1] # "}"
      BY <2>3, KindsDiffer
    <3> QED BY <2>3, <3>1, <3>2 DEF Plain, Ordinary
  <2> QED BY <1>10, <1>12, <1>13, <2>1, <2>2, <2>3 DEF Opens
<1>19. Plain(tokens, p, cur) /\ p <= cur
  BY <1>2, <1>15, <1>17, <1>18, PlainConcat
<1>20. IsStatement(tokens, p, cur)
  <2>1. \A k \in p..(cur - 1) : tokens[k] # ";"
    BY <1>19 DEF Plain, Ordinary
  <2>2. p = 7 \/ tokens[p - 1] = ";"
    BY <1>10, <1>12 DEF Block
  <2> QED BY <1>6, <2>1, <2>2 DEF IsStatement
<1>21. item \in ItemsOf(tokens, FALSE, p, cur)
  <2>1. node \in Trees(tokens, FALSE)[<<Assignment, b, cur>>]
    BY <1>14 DEF ParserTrees, Assignment
  <2>2. Opens(tokens, f.kind, p, b)
    BY <1>10, <1>12, <1>13
  <2>3. CASE f.kind = "return"
    <3>1. tokens[p] = "return" /\ b = p + 1
      BY <2>2, <2>3 DEF Opens
    <3> QED BY <1>7, <2>1, <2>3, <3>1 DEF ItemsOf
  <2>4. CASE f.kind = "declaration"
    <3>1. tokens[p] = "int" /\ tokens[p + 1] \in Identifiers /\ tokens[p + 2] = "=" /\ b = p + 3
      BY <2>2, <2>4 DEF Opens
    <3>2. cur # p + 2
      BY <1>2, <1>15, <1>17, <3>1
    <3> QED BY <1>7, <2>1, <2>4, <3>1, <3>2 DEF ItemsOf
  <2>5. CASE f.kind = "expression"
    <3>1. tokens[p] \notin {"}", "return", "int"} /\ b = p
      BY <2>2, <2>5 DEF Opens
    <3> QED BY <1>7, <2>1, <2>5, <3>1 DEF ItemsOf
  <2> QED BY <1>1, <2>3, <2>4, <2>5
<1>22. Block(tokens, items', cur + 1)
  <2>1. Block(tokens, items, p) /\ cur + 1 \in Positions(tokens)
    BY <1>2, <1>8, <1>10, <1>12
  <2> QED BY <1>2, <1>8, <1>19, <1>20, <1>21, <2>1, BlockGrows
<1>23. IsList(items')
  BY <1>2, <1>8, AppendFacts
<1> QED BY <1>1, <1>8, <1>11, <1>22, <1>23 DEF SInv, Sound, Expressions

\* The parser begins in the header.
LEMMA InitSound == Init => SInv
<1> SUFFICES ASSUME Init PROVE SInv
  OBVIOUS
<1>1. IsList(items)
  BY DEF Init, IsList
<1>2. HeadRead(tokens, cur)
  BY DEF Init, HeadRead
<1> QED BY <1>1, <1>2, InitIInv DEF Init, SInv, Sound, Expressions

\* Every step keeps the invariant.
LEMMA NextSound == SInv /\ [Next]_parserVars => SInv'
<1> SUFFICES ASSUME SInv, [Next]_parserVars PROVE SInv'
  OBVIOUS
<1>1. CASE Next
  <2>1. IInv'
    BY <1>1, StatementStep, UnaryStep, ExpressionStep DEF Next, SInv
  <2>2. CASE ParseStatement
    BY <2>1, <2>2, HeaderSound, EndSound, ReturnStatementSound, DeclarationSound, ExpressionStatementSound,
       ItemEndSound DEF ParseStatement
  <2>3. CASE ParseUnary
    <3>1. ParseUnexpected => SInv'
      BY <2>1, FailSound DEF ParseUnexpected, Fail
    <3> QED BY <2>1, <2>3, <3>1, PrefixSound, SizeofSound, TerminalSound, ParenSound, PostfixOperatorSound,
               SubscriptSound, ArgumentsSound, MemberSound, ClosingSound, PostfixDoneSound, OperandSound DEF ParseUnary
  <2>4. CASE ParseExpression
    BY <2>1, <2>4, AssignToSound, BinarySound, ClimbDoneSound, RightSound DEF ParseExpression
  <2> QED BY <1>1, <2>2, <2>3, <2>4 DEF Next
<1>2. CASE UNCHANGED parserVars
  <2>1. IInv'
    BY <1>2 DEF SInv, IInv, CursorInRange, parserVars
  <2>2. tokens' = tokens /\ cur' = cur /\ pc' = pc /\ node' = node /\ frames' = frames /\ items' = items
    BY <1>2 DEF parserVars
  <2> QED BY <2>1, <2>2 DEF SInv
<1> QED BY <1>1, <1>2

\* The trees are the grammar's.
THEOREM ParserSound == Spec => []TreeIsGrammars
<1>1. SInv => TreeIsGrammars
  BY DEF SInv, Sound, TreeIsGrammars, GrammarGives
<1> QED BY <1>1, InitSound, NextSound, PTL DEF Spec

-----------------------------------------------------------------------------
(* Rounds of the loops.                                                    *)

\* No round.
LEMMA RoundsNone ==
    ASSUME NEW mode, NEW s, NEW l, NEW x
    PROVE  Rounds(mode, s, l, x, x)
<1>1. PICK z : z = [i \in {0} |-> x]
  OBVIOUS
<1>2. z[0] = x /\ 0 \in Nat /\ \A i \in 0..(0 - 1) : Step(mode, s, l, z[i], z[i + 1])
  BY <1>1
<1> QED BY <1>2 DEF Rounds

\* A round behind the others.
LEMMA RoundsMore ==
    ASSUME NEW mode, NEW s, NEW l, NEW x, NEW w, NEW y, Rounds(mode, s, l, x, w), Step(mode, s, l, w, y)
    PROVE  Rounds(mode, s, l, x, y)
<1>1. PICK n, z : n \in Nat /\ z[0] = x /\ z[n] = w /\ \A i \in 0..(n - 1) : Step(mode, s, l, z[i], z[i + 1])
  BY DEF Rounds
<1>2. PICK v : v = [i \in 0..(n + 1) |-> IF i = n + 1 THEN y ELSE z[i]]
  OBVIOUS
<1>3. v[n + 1] = y /\ \A i \in 0..n : v[i] = z[i]
  BY <1>1, <1>2
<1>4. v[0] = x /\ v[n] = w
  BY <1>1, <1>3
<1>5. ASSUME NEW i \in 0..((n + 1) - 1) PROVE Step(mode, s, l, v[i], v[i + 1])
  <2>1. CASE i = n
    <3>1. v[i] = w /\ v[i + 1] = y
      BY <1>3, <1>4, <2>1
    <3> QED BY <3>1
  <2>2. CASE i # n
    <3>1. i \in 0..(n - 1) /\ i \in 0..n /\ i + 1 \in 0..n
      BY <1>1, <2>2
    <3>2. v[i] = z[i] /\ v[i + 1] = z[i + 1]
      BY <1>3, <3>1
    <3> QED BY <1>1, <3>1, <3>2
  <2> QED BY <2>1, <2>2
<1>6. n + 1 \in Nat
  BY <1>1
<1> QED BY <1>3, <1>4, <1>5, <1>6 DEF Rounds

\* The first of the rounds.
LEMMA RoundsFirst ==
    ASSUME NEW mode, NEW s, NEW l, NEW x, NEW y, Rounds(mode, s, l, x, y), x # y
    PROVE  \E w : Step(mode, s, l, x, w) /\ Rounds(mode, s, l, w, y)
<1>1. PICK n, z : n \in Nat /\ z[0] = x /\ z[n] = y /\ \A i \in 0..(n - 1) : Step(mode, s, l, z[i], z[i + 1])
  BY DEF Rounds
<1>2. n # 0
  BY <1>1
<1>3. PICK m : m = n - 1
  OBVIOUS
<1>4. m \in Nat /\ n = m + 1
  BY <1>1, <1>2, <1>3
<1>5. PICK v : v = [i \in 0..m |-> z[i + 1]]
  OBVIOUS
<1>6. \A i \in 0..m : v[i] = z[i + 1]
  BY <1>5
<1>7. v[0] = z[1] /\ v[m] = y
  BY <1>1, <1>4, <1>6
<1>8. ASSUME NEW i \in 0..(m - 1) PROVE Step(mode, s, l, v[i], v[i + 1])
  <2>1. i \in 0..m /\ i + 1 \in 0..m /\ i + 1 \in 0..(n - 1)
    BY <1>4
  <2>2. v[i] = z[i + 1] /\ v[i + 1] = z[(i + 1) + 1]
    BY <1>6, <2>1
  <2> QED BY <1>1, <2>1, <2>2
<1>9. Rounds(mode, s, l, z[1], y)
  BY <1>4, <1>7, <1>8 DEF Rounds
<1>10. Step(mode, s, l, x, z[1])
  <2>1. 0 \in 0..(n - 1) /\ 0 + 1 = 1
    BY <1>4
  <2>2. Step(mode, s, l, z[0], z[0 + 1])
    BY <1>1, <2>1
  <2> QED BY <1>1, <2>1, <2>2
<1> QED BY <1>9, <1>10

\* A loop that takes fewer operators makes the same rounds.
LEMMA RoundsBelow ==
    ASSUME NEW s \in Inputs, NEW l \in Int, NEW m \in Int, l <= m, NEW x, NEW y, Rounds("climb", s, m, x, y)
    PROVE  Rounds("climb", s, l, x, y)
<1>1. PICK n, z : n \in Nat /\ z[0] = x /\ z[n] = y /\ \A i \in 0..(n - 1) : Step("climb", s, m, z[i], z[i + 1])
  BY DEF Rounds
<1>2. ASSUME NEW a, NEW b, Step("climb", s, m, a, b) PROVE Step("climb", s, l, a, b)
  <2>1. PICK t, c, r, e : a = <<t, c>> /\ b = <<Bin(binary_op_type[s[c]], t, r), e>> /\ ClimbsTo(s, m, t, c, r, e)
    BY <1>2 DEF Step
  <2>2. OpLevel(s[c]) >= l
    <3>1. s[c] \in DOMAIN binary_op_type /\ OpLevel(s[c]) >= m
      BY <2>1 DEF ClimbsTo
    <3>2. 1 \in Minima
      BY DEF Minima
    <3>3. OpLevel(s[c]) \in 0..10
      BY <3>1, <3>2, TakesLevel
    <3> QED BY <3>1, <3>3
  <2>3. ClimbsTo(s, l, t, c, r, e)
    BY <2>1, <2>2 DEF ClimbsTo
  <2> QED BY <2>1, <2>3 DEF Step
<1> QED BY <1>1, <1>2 DEF Rounds

\* The grammar is C's.
IsStrict(strict) == strict = TRUE

\* The table of C's grammar is its grammar's.
LEMMA CTreesGrammatical ==
    ASSUME NEW s \in Inputs
    PROVE  \E strict : IsStrict(strict) /\ Grammatical(s, CTrees(s), strict)
BY TreesGrammatical DEF CTrees, IsStrict

\* Of the spans in a set there is a shortest.
LEMMA ShortestSpan ==
    ASSUME NEW s \in Inputs, NEW Bad, Bad \subseteq {x \in Span(s) : x[2] < x[3]}, Bad # {}
    PROVE  \E x \in Bad : \A y \in Bad : x[3] - x[2] <= y[3] - y[2]
<1>1. PICK N : N = {x[3] - x[2] : x \in Bad}
  OBVIOUS
<1>2. Positions(s) \subseteq Nat
  BY InputsEndWithEOF DEF Positions
<1>3. ASSUME NEW x \in Bad PROVE x[3] - x[2] \in Nat
  <2>1. x[2] \in Nat /\ x[3] \in Nat /\ x[2] < x[3]
    BY <1>2 DEF Span
  <2> QED BY <2>1
<1>4. N \in SUBSET Nat
  BY <1>1, <1>3
<1>5. PICK n \in N : \A k \in N : n <= k
  <2>1. N # {}
    BY <1>1
  <2> QED BY <1>4, <2>1, LeastElement
<1>6. PICK x \in Bad : n = x[3] - x[2]
  BY <1>1, <1>5
<1>7. ASSUME NEW y \in Bad PROVE x[3] - x[2] <= y[3] - y[2]
  <2>1. y[3] - y[2] \in N
    BY <1>1
  <2> QED BY <1>5, <1>6, <2>1
<1> QED BY <1>7

\* Of the spans in a set that have trees there is one that no other is inside of.
LEMMA Shortest ==
    ASSUME NEW s \in Inputs, NEW strict, NEW T, Grammatical(s, T, strict),
           NEW Bad, \A x \in Bad : x \in Span(s) /\ T[x] # {}, Bad # {}
    PROVE  \E i \in 0..13, a \in Positions(s), b \in Positions(s) :
              /\ <<i, a, b>> \in Bad /\ a < b
              /\ \A j \in 0..13, c \in Positions(s), d \in Positions(s) : d - c < b - a => <<j, c, d>> \notin Bad
<1>1. Bad \subseteq {x \in Span(s) : x[2] < x[3]}
  <2> SUFFICES ASSUME NEW x \in Bad PROVE x \in Span(s) /\ x[2] < x[3]
    OBVIOUS
  <2>1. x \in Span(s) /\ T[x] # {}
    OBVIOUS
  <2>2. PICK i \in 0..13, a \in Positions(s), b \in Positions(s) : x = <<i, a, b>>
    BY <2>1 DEF Span
  <2>3. PICK t : t \in T[<<i, a, b>>]
    BY <2>1, <2>2
  <2>4. a < b
    BY <2>3, TreesSpan
  <2> QED BY <2>1, <2>2, <2>4
<1>2. PICK w \in Bad : \A y \in Bad : w[3] - w[2] <= y[3] - y[2]
  BY <1>1, ShortestSpan
<1>3. PICK i \in 0..13, a \in Positions(s), b \in Positions(s) : w = <<i, a, b>>
  BY <1>2 DEF Span
<1>4. a < b
  BY <1>1, <1>2, <1>3
<1>5. ASSUME NEW j \in 0..13, NEW c \in Positions(s), NEW d \in Positions(s), d - c < b - a, <<j, c, d>> \in Bad
      PROVE  FALSE
  <2>1. b - a <= d - c
    BY <1>2, <1>3, <1>5
  <2>2. a \in Nat /\ b \in Nat /\ c \in Nat /\ d \in Nat
    BY InputsEndWithEOF DEF Positions
  <2> QED BY <1>5, <2>1, <2>2
<1> QED BY <1>2, <1>3, <1>4, <1>5

\* What a primary or postfix expression begins with, and a unary expression.
PrimaryFirst == Constants \cup Identifiers \cup {"("}
First(l) == IF l > 11 THEN PrimaryFirst ELSE PrimaryFirst \cup DOMAIN prefix_op_type

\* What is proved of spans of fewer than n tokens.
FirstBelow(s, T, n) ==
    \A l \in 0..13, p \in Positions(s), q \in Positions(s) : q - p < n /\ T[<<l, p, q>>] # {} => s[p] \in First(l)

\* So begins what the productions of a level make.
LEMMA OwnFirst ==
    ASSUME NEW s \in Inputs, NEW strict, IsStrict(strict), NEW T, Grammatical(s, T, strict),
           NEW p \in Positions(s), NEW q \in Positions(s), p < q, FirstBelow(s, T, q - p),
           NEW m \in 0..13, NEW x \in OwnTrees(s, strict, T, m, p, q)
    PROVE  s[p] \in First(m)
<1>0. p \in Nat /\ q \in Nat /\ Positions(s) \subseteq Nat /\ \A k \in p..q : k \in Positions(s)
  BY InputsEndWithEOF DEF Positions
<1>1. CASE m = 0
  <2>1. IsAssignment(s, strict, T, p, q, x)
    BY <1>1, OwnIs, AssignmentMember
  <2>2. PICK k, a, b : AssignmentAt(s, strict, T, p, q, k, a, b)
    BY <2>1 DEF IsAssignment
  <2>3. k \in (p + 1)..(q - 2) /\ a \in T[<<LeftLevel(strict), p, k>>]
    BY <2>2 DEF AssignmentAt
  <2>4. PICK l : l = 11
    OBVIOUS
  <2>5. k \in Positions(s) /\ k - p < q - p /\ l \in 0..13 /\ T[<<l, p, k>>] # {}
    BY <1>0, <2>3, <2>4 DEF LeftLevel, IsStrict
  <2>6. s[p] \in First(l)
    BY <2>5 DEF FirstBelow
  <2> QED BY <1>1, <2>4, <2>6 DEF First
<1>2. CASE m \in 1..10
  <2>1. IsBinary(s, m, T, p, q, x)
    BY <1>2, OwnIs, BinaryMember
  <2>2. PICK k, a, b : BinaryAt(s, m, T, p, q, k, a, b)
    BY <2>1 DEF IsBinary
  <2>3. k \in (p + 1)..(q - 2) /\ a \in T[<<m, p, k>>]
    BY <2>2 DEF BinaryAt
  <2>4. k \in Positions(s) /\ k - p < q - p
    BY <1>0, <1>2, <2>3
  <2> QED BY <2>3, <2>4 DEF FirstBelow
<1>3. CASE m = 11
  <2>1. x \in UnaryTrees(s, strict, T, p, q)
    BY <1>3, OwnIs
  <2>2. s[p] \in DOMAIN prefix_op_type
    BY <2>1 DEF UnaryTrees, IsStrict
  <2> QED BY <1>3, <2>2 DEF First
<1>4. CASE m = 12
  <2>1. IsPostfix(s, T, p, q, x)
    BY <1>4, OwnIs, PostfixMember
  <2>2. PICK l : l = 12
    OBVIOUS
  <2>3. PICK k : k \in Positions(s) /\ k - p < q - p /\ T[<<l, p, k>>] # {}
    <3>1. CASE s[q - 1] \in DOMAIN postfix_op_type /\ \E a \in T[<<12, p, q - 1>>] : x = Un(postfix_op_type[s[q - 1]], a)
      <4>1. q - 1 \in Positions(s) /\ (q - 1) - p < q - p
        BY <1>0
      <4>2. T[<<l, p, q - 1>>] # {}
        BY <2>2, <3>1
      <4> QED BY <4>1, <4>2
    <3>2. CASE \E k \in (p + 1)..(q - 2) : Drops(s, T, k, q) /\ x \in T[<<12, p, k>>]
      <4>1. PICK k \in (p + 1)..(q - 2) : x \in T[<<12, p, k>>]
        BY <3>2
      <4>2. k \in Positions(s) /\ k - p < q - p
        BY <1>0
      <4>3. T[<<l, p, k>>] # {}
        BY <2>2, <4>1
      <4> QED BY <4>2, <4>3
    <3> QED BY <2>1, <3>1, <3>2 DEF IsPostfix
  <2>4. l \in 0..13
    BY <2>2
  <2>5. s[p] \in First(l)
    BY <2>3, <2>4 DEF FirstBelow
  <2> QED BY <1>4, <2>2, <2>5
<1>5. CASE m = 13
  <2>1. x \in PrimaryTrees(s, T, p, q)
    BY <1>5, OwnIs
  <2>2. s[p] \in PrimaryFirst
    BY <2>1 DEF PrimaryTrees, PrimaryFirst
  <2> QED BY <1>5, <2>2 DEF First
<1> QED BY <1>1, <1>2, <1>3, <1>4, <1>5

\* So begins every expression.
LEMMA FirstToken ==
    ASSUME NEW s \in Inputs, NEW strict, IsStrict(strict), NEW T, Grammatical(s, T, strict),
           NEW l \in 0..13, NEW p \in Positions(s), NEW q \in Positions(s), T[<<l, p, q>>] # {}
    PROVE  s[p] \in First(l)
<1>1. PICK Bad : Bad = {x \in Span(s) : T[x] # {} /\ ~ (s[x[2]] \in First(x[1]))}
  OBVIOUS
<1>2. Positions(s) \subseteq Nat
  BY InputsEndWithEOF DEF Positions
<1>3. SUFFICES ASSUME Bad # {} PROVE FALSE
  <2>1. <<l, p, q>> \in Span(s)
    BY DEF Span
  <2>2. s[p] \notin First(l) => <<l, p, q>> \in Bad
    BY <1>1, <2>1
  <2> QED BY <1>3, <2>2
<1>4. PICK i \in 0..13, a \in Positions(s), b \in Positions(s) :
         /\ <<i, a, b>> \in Bad /\ a < b
         /\ \A j \in 0..13, c \in Positions(s), d \in Positions(s) : d - c < b - a => <<j, c, d>> \notin Bad
  <2>1. \A x \in Bad : x \in Span(s) /\ T[x] # {}
    BY <1>1
  <2> QED BY <1>3, <2>1, Shortest, Zenon
<1>5. T[<<i, a, b>>] # {} /\ s[a] \notin First(i)
  BY <1>1, <1>4
<1>6. PICK t : t \in T[<<i, a, b>>]
  BY <1>5
<1>7. PICK m \in i..13 : t \in OwnTrees(s, strict, T, m, a, b)
  BY <1>6, TreesMade
<1>8. FirstBelow(s, T, b - a)
  <2> SUFFICES ASSUME NEW j \in 0..13, NEW c \in Positions(s), NEW d \in Positions(s),
                      d - c < b - a, T[<<j, c, d>>] # {}, s[c] \notin First(j)
               PROVE FALSE
    BY DEF FirstBelow
  <2>1. <<j, c, d>> \in Bad
    BY <1>1 DEF Span
  <2> QED BY <1>4, <2>1
<1>9. s[a] \in First(m) /\ m \in 0..13
  BY <1>4, <1>7, <1>8, OwnFirst
<1>10. First(m) \subseteq First(i)
  BY <1>7 DEF First
<1> QED BY <1>5, <1>9, <1>10

\* A postfix expression is a primary expression and the rounds of its loop.
PrimaryRounds(s, b, t, e) ==
    \E p, c : /\ c \in Positions(s) /\ p \in PrimaryTrees(s, CTrees(s), b, c) /\ b < c
              /\ Rounds("postfix", s, 0, <<p, c>>, <<t, e>>)

\* A round more.
LEMMA PrimaryMore ==
    ASSUME NEW s, NEW b, NEW n, NEW c, PrimaryRounds(s, b, n, c), NEW t, NEW e, Postfixes(s, n, c, t, e)
    PROVE  PrimaryRounds(s, b, t, e)
<1>1. PICK p, k : /\ k \in Positions(s) /\ p \in PrimaryTrees(s, CTrees(s), b, k) /\ b < k
                  /\ Rounds("postfix", s, 0, <<p, k>>, <<n, c>>)
  BY DEF PrimaryRounds
<1>2. Step("postfix", s, 0, <<n, c>>, <<t, e>>)
  BY DEF Step
<1>3. Rounds("postfix", s, 0, <<p, k>>, <<t, e>>)
  BY <1>1, <1>2, RoundsMore
<1> QED BY <1>1, <1>3 DEF PrimaryRounds

\* This is so of every postfix expression of C: by the least counterexample.
LEMMA PostfixIsRounds ==
    ASSUME NEW s \in Inputs, NEW b \in Positions(s), NEW e \in Positions(s), NEW t \in CTrees(s)[<<12, b, e>>]
    PROVE  PrimaryRounds(s, b, t, e)
<1>0. PICK T : T = CTrees(s)
  OBVIOUS
<1>1. PICK strict : IsStrict(strict) /\ Grammatical(s, T, strict)
  BY <1>0, CTreesGrammatical
<1>2. PICK Bad : Bad = {x \in Span(s) : x[1] = 12 /\ \E u \in T[x] : ~ PrimaryRounds(s, x[2], u, x[3])}
  OBVIOUS
<1>3. SUFFICES ASSUME Bad # {} PROVE FALSE
  <2>1. PICK l : l = 12
    OBVIOUS
  <2>2. <<l, b, e>> \in Span(s) /\ t \in T[<<l, b, e>>]
    BY <1>0, <2>1 DEF Span
  <2>3. ~ PrimaryRounds(s, b, t, e) => <<l, b, e>> \in Bad
    BY <1>2, <2>1, <2>2
  <2> QED BY <1>3, <2>3
<1>4. PICK i \in 0..13, a \in Positions(s), d \in Positions(s) :
         /\ <<i, a, d>> \in Bad /\ a < d
         /\ \A j \in 0..13, m \in Positions(s), n \in Positions(s) : n - m < d - a => <<j, m, n>> \notin Bad
  <2>1. \A x \in Bad : x \in Span(s) /\ T[x] # {}
    BY <1>2
  <2> QED BY <1>1, <1>3, <2>1, Shortest, Zenon
<1>5. i = 12
  BY <1>2, <1>4
<1>6. PICK u \in T[<<i, a, d>>] : ~ PrimaryRounds(s, a, u, d)
  BY <1>2, <1>4
<1>7. PICK m \in i..13 : u \in OwnTrees(s, strict, T, m, a, d)
  BY <1>1, <1>6, TreesMade
<1>8. a \in Nat /\ d \in Nat /\ \A k \in a..d : k \in Positions(s)
  BY InputsEndWithEOF DEF Positions
<1>9. ASSUME NEW k \in Positions(s), k < d, NEW n \in T[<<12, a, k>>] PROVE PrimaryRounds(s, a, n, k)
  <2>1. <<i, a, k>> \in Span(s) /\ n \in T[<<i, a, k>>] /\ k - a < d - a
    BY <1>5, <1>8, <1>9, InputsEndWithEOF DEF Span, Positions
  <2>2. <<i, a, k>> \notin Bad
    BY <1>4, <2>1
  <2> QED BY <1>2, <1>5, <2>1, <2>2
<1>10. CASE m = 13
  <2>1. u \in PrimaryTrees(s, T, a, d)
    BY <1>7, <1>10, OwnIs
  <2> QED BY <1>0, <1>4, <1>6, <2>1, RoundsNone DEF PrimaryRounds
<1>11. CASE m = 12
  <2>1. IsPostfix(s, T, a, d, u)
    BY <1>7, <1>11, OwnIs, PostfixMember
  <2>2. CASE s[d - 1] \in DOMAIN postfix_op_type /\ \E n \in T[<<12, a, d - 1>>] : u = Un(postfix_op_type[s[d - 1]], n)
    <3>1. PICK k : k = d - 1
      OBVIOUS
    <3>2. k \in Positions(s) /\ k < d /\ d = k + 1
      BY <1>4, <1>8, <3>1
    <3>3. PICK n \in T[<<12, a, k>>] : u = Un(postfix_op_type[s[k]], n)
      BY <2>2, <3>1
    <3>4. Postfixes(s, n, k, u, d)
      BY <2>2, <3>1, <3>2, <3>3 DEF Postfixes
    <3> QED BY <1>6, <1>9, <3>2, <3>3, <3>4, PrimaryMore
  <2>3. CASE \E k \in (a + 1)..(d - 2) : Drops(s, T, k, d) /\ u \in T[<<12, a, k>>]
    <3>1. PICK k \in (a + 1)..(d - 2) : Drops(s, T, k, d) /\ u \in T[<<12, a, k>>]
      BY <2>3
    <3>2. k \in Positions(s) /\ k + 1 \in Positions(s) /\ k < d /\ k + 1 < d
      BY <1>8
    <3>3. Postfixes(s, u, k, u, d)
      BY <1>0, <3>1, <3>2 DEF Postfixes
    <3> QED BY <1>6, <1>9, <3>1, <3>2, <3>3, PrimaryMore
  <2> QED BY <2>1, <2>2, <2>3 DEF IsPostfix
<1> QED BY <1>5, <1>7, <1>10, <1>11

-----------------------------------------------------------------------------

\* An expression is a unary expression and the rounds of the climbing loop.
UnaryRounds(s, l, b, t, e) ==
    \E u, c : /\ c \in Positions(s) /\ u \in CTrees(s)[<<11, b, c>>] /\ AfterUnary(s, c)
              /\ Rounds("climb", s, l, <<u, c>>, <<t, e>>)

\* A round more.
LEMMA UnaryMore ==
    ASSUME NEW s, NEW l, NEW b, NEW n, NEW c, UnaryRounds(s, l, b, n, c), NEW r, NEW e, ClimbsTo(s, l, n, c, r, e)
    PROVE  UnaryRounds(s, l, b, Bin(binary_op_type[s[c]], n, r), e)
<1>1. PICK u, k : /\ k \in Positions(s) /\ u \in CTrees(s)[<<11, b, k>>] /\ AfterUnary(s, k)
                  /\ Rounds("climb", s, l, <<u, k>>, <<n, c>>)
  BY DEF UnaryRounds
<1>2. Step("climb", s, l, <<n, c>>, <<Bin(binary_op_type[s[c]], n, r), e>>)
  BY DEF Step
<1>3. Rounds("climb", s, l, <<u, k>>, <<Bin(binary_op_type[s[c]], n, r), e>>)
  BY <1>1, <1>2, RoundsMore
<1> QED BY <1>1, <1>3 DEF UnaryRounds

\* A unary expression is one without rounds.
LEMMA UnaryNone ==
    ASSUME NEW s, NEW l, NEW b, NEW c \in Positions(s), NEW u \in CTrees(s)[<<11, b, c>>], AfterUnary(s, c)
    PROVE  UnaryRounds(s, l, b, u, c)
BY RoundsNone DEF UnaryRounds

\* What is behind an operand.
LEMMA After ==
    ASSUME NEW s, NEW l \in 0..11, NEW e
    PROVE  /\ AfterLevel(s, l, e) => AfterUnary(s, e) /\ AfterLevel(s, l + 1, e)
           /\ AfterLevel(s, 1, e) => s[e] \in Closers
           /\ \A m \in l..11 : AfterLevel(s, l + 1, e) => AfterLevel(s, m + 1, e)
           /\ \A m \in 1..10 : s[e] \in Levels[m] => AfterLevel(s, m + 1, e)
<1>1. s[e] \in DOMAIN binary_op_type => OpLevel(s[e]) \in 0..10 /\ (OpLevel(s[e]) = 0 <=> s[e] = "=")
  BY TakesLevel DEF Minima
<1>2. ASSUME NEW m \in 1..10, s[e] \in Levels[m]
      PROVE  s[e] \in DOMAIN binary_op_type /\ s[e] # "=" /\ OpLevel(s[e]) = m
  <2>1. s[e] \in DOMAIN binary_op_type /\ s[e] # "="
    BY <1>2, LevelOperators
  <2>2. 1 \in Minima
    BY DEF Minima
  <2> QED BY <1>2, <2>1, <2>2, TakesLevel
<1>3. AfterLevel(s, l, e) => AfterUnary(s, e) /\ AfterLevel(s, l + 1, e)
  BY <1>1 DEF AfterLevel, AfterUnary
<1>4. AfterLevel(s, 1, e) => s[e] \in Closers
  BY <1>1 DEF AfterLevel
<1>5. \A m \in l..11 : AfterLevel(s, l + 1, e) => AfterLevel(s, m + 1, e)
  BY <1>1 DEF AfterLevel
<1>6. \A m \in 1..10 : s[e] \in Levels[m] => AfterLevel(s, m + 1, e)
  BY <1>2 DEF AfterLevel
<1> QED BY <1>3, <1>4, <1>5, <1>6

\* The operator of the loop's round: its level, and that of its right operand.
LEMMA RightLevel ==
    ASSUME NEW t \in DOMAIN binary_op_type
    PROVE  /\ OpLevel(t) \in 0..10 /\ (OpLevel(t) = 0 <=> t = "=") /\ next_min_pred(binary_op_type[t]) \in Minima
           /\ LevelOf(next_min_pred(binary_op_type[t])) = IF t = "=" THEN 0 ELSE OpLevel(t) + 1
           /\ \A m \in 1..10 : t \in Levels[m] => OpLevel(t) = m
<1>1. 1 \in Minima
  BY DEF Minima
<1> QED BY <1>1, TakesLevel

\* This is so of every expression of C that the loop's operators do not go on
\* behind: by the least counterexample.
LEMMA ExpressionIsRounds ==
    ASSUME NEW s \in Inputs, NEW l \in 0..11, NEW b \in Positions(s), NEW e \in Positions(s),
           NEW t \in CTrees(s)[<<l, b, e>>], AfterLevel(s, l + 1, e),
           ~ AssignsToDropped(s), l = 0 => Headed(s, b)
    PROVE  UnaryRounds(s, l, b, t, e)
<1>0. PICK T : T = CTrees(s)
  OBVIOUS
<1>1. PICK strict : IsStrict(strict) /\ Grammatical(s, T, strict)
  BY <1>0, CTreesGrammatical
<1>2. PICK Bad : Bad = {x \in Span(s) : /\ x[1] \in 0..11 /\ AfterLevel(s, x[1] + 1, x[3])
                                        /\ x[1] = 0 => Headed(s, x[2])
                                        /\ \E u \in T[x] : ~ UnaryRounds(s, x[1], x[2], u, x[3])}
  OBVIOUS
<1>3. SUFFICES ASSUME Bad # {} PROVE FALSE
  <2>1. <<l, b, e>> \in Span(s) /\ t \in T[<<l, b, e>>]
    BY <1>0 DEF Span
  <2>2. ~ UnaryRounds(s, l, b, t, e) => <<l, b, e>> \in Bad
    BY <1>2, <2>1
  <2> QED BY <1>3, <2>2
<1>4. PICK i \in 0..13, a \in Positions(s), d \in Positions(s) :
         /\ <<i, a, d>> \in Bad /\ a < d
         /\ \A j \in 0..13, m \in Positions(s), n \in Positions(s) : n - m < d - a => <<j, m, n>> \notin Bad
  <2>1. \A x \in Bad : x \in Span(s) /\ T[x] # {}
    BY <1>2
  <2> QED BY <1>1, <1>3, <2>1, Shortest, Zenon
<1>5. i \in 0..11 /\ AfterLevel(s, i + 1, d) /\ (i = 0 => Headed(s, a))
  BY <1>2, <1>4
<1>6. PICK u \in T[<<i, a, d>>] : ~ UnaryRounds(s, i, a, u, d)
  BY <1>2, <1>4
<1>7. PICK m \in i..13 : u \in OwnTrees(s, strict, T, m, a, d)
  BY <1>1, <1>6, TreesMade
<1>8. a \in Nat /\ d \in Nat /\ \A k \in a..d : k \in Positions(s)
  BY InputsEndWithEOF DEF Positions
<1>9. AfterUnary(s, d)
  <2>1. CASE i + 1 \in 0..11
    BY <1>5, <2>1, After
  <2>2. CASE i = 11
    BY <1>5 DEF AfterLevel, AfterUnary
  <2> QED BY <1>5, <2>1, <2>2
<1>10. CASE m \in 11..13
  <2>1. PICK j : j = 11
    OBVIOUS
  <2>2. j \in 0..13 /\ m \in j..13
    BY <1>10, <2>1
  <2>3. u \in T[<<j, a, d>>]
    BY <1>1, <1>4, <1>7, <1>8, <2>2, TreesMade
  <2> QED BY <1>0, <1>6, <1>9, <2>1, <2>3, UnaryNone
<1>11. CASE m = 0
  <2>0. i = 0
    BY <1>5, <1>7, <1>11
  <2>1. IsAssignment(s, strict, T, a, d, u)
    BY <1>7, <1>11, OwnIs, AssignmentMember
  <2>2. PICK k, n, r : AssignmentAt(s, strict, T, a, d, k, n, r) /\ u = Bin("ASSIGN", n, r)
    BY <2>1 DEF IsAssignment
  <2>3. /\ k \in (a + 1)..(d - 2) /\ s[k] = "=" /\ ~ IsConstant(s, a, k)
        /\ n \in T[<<11, a, k>>] /\ r \in T[<<0, k + 1, d>>]
    BY <1>1, <2>2 DEF AssignmentAt, LeftLevel, IsStrict, IsTarget
  <2>4. k \in Positions(s) /\ k + 1 \in Positions(s) /\ a < k
    BY <1>8, <2>3
  <2>11. Assignable(n)
    <3>1. Headed(s, a) /\ n \in Trees(s, TRUE)[<<UnaryLevel, a, k>>]
      BY <1>0, <1>5, <2>0, <2>3 DEF CTrees, UnaryLevel
    <3> QED BY <2>3, <2>4, <3>1 DEF AssignsToDropped
  <2>5. /\ s[k] \in DOMAIN binary_op_type /\ OpLevel(s[k]) = 0 /\ binary_op_type[s[k]] = "ASSIGN"
        /\ LevelOf(next_min_pred(binary_op_type[s[k]])) = 0
    BY <2>3, OperatorNames, RightLevel
  <2>6. AfterUnary(s, k)
    BY <2>5 DEF AfterUnary
  <2>7. UnaryRounds(s, i, a, n, k)
    BY <1>0, <2>3, <2>4, <2>6, UnaryNone, SMTT(40)
  <2>8. AfterLevel(s, 0, d)
    <3>1. AfterLevel(s, 1, d)
      BY <1>5, <2>0
    <3> QED BY <1>5, <3>1, After DEF AfterLevel
  <2>9. ClimbsTo(s, i, n, k, r, d)
    BY <1>0, <2>0, <2>3, <2>4, <2>5, <2>8, <2>11 DEF ClimbsTo
  <2>10. UnaryRounds(s, i, a, Bin(binary_op_type[s[k]], n, r), d)
    BY <2>7, <2>9, UnaryMore
  <2> QED BY <1>6, <2>2, <2>5, <2>10
<1>12. CASE m \in 1..10
  <2>1. IsBinary(s, m, T, a, d, u)
    BY <1>7, <1>12, OwnIs, BinaryMember
  <2>2. PICK k, n, r : BinaryAt(s, m, T, a, d, k, n, r) /\ u = Bin(binary_op_type[s[k]], n, r)
    BY <2>1 DEF IsBinary
  <2>3. k \in (a + 1)..(d - 2) /\ s[k] \in Levels[m] /\ n \in T[<<m, a, k>>] /\ r \in T[<<m + 1, k + 1, d>>]
    BY <2>2 DEF BinaryAt
  <2>4. k \in Positions(s) /\ k + 1 \in Positions(s) /\ k - a < d - a
    BY <1>8, <2>3
  <2>5. s[k] \in DOMAIN binary_op_type /\ s[k] # "="
    BY <1>12, <2>3, LevelOperators
  <2>6. OpLevel(s[k]) = m /\ LevelOf(next_min_pred(binary_op_type[s[k]])) = m + 1
    BY <1>12, <2>3, <2>5, RightLevel
  <2>7. AfterLevel(s, m + 1, k)
    BY <1>12, <2>3, <2>5, <2>6 DEF AfterLevel
  <2>8. UnaryRounds(s, m, a, n, k)
    <3>1. <<m, a, k>> \in Span(s) /\ <<m, a, k>> \notin Bad
      BY <1>4, <1>12, <2>4 DEF Span
    <3>2. m \in 0..11 /\ m # 0
      BY <1>12
    <3>3. \A y \in Span(s) : y \notin Bad /\ y[1] \in 0..11 /\ y[1] # 0 /\ AfterLevel(s, y[1] + 1, y[3])
             => \A v \in T[y] : UnaryRounds(s, y[1], y[2], v, y[3])
      BY <1>2
    <3>4. PICK y : y = <<m, a, k>>
      OBVIOUS
    <3>5. y[1] = m /\ y[2] = a /\ y[3] = k /\ n \in T[y] /\ y \in Span(s) /\ y \notin Bad
      BY <2>3, <3>1, <3>4
    <3> QED BY <2>7, <3>2, <3>3, <3>5
  <2>9. UnaryRounds(s, i, a, n, k)
    <3>1. i \in Int /\ m \in Int /\ i <= m
      BY <1>5, <1>7, <1>12
    <3> QED BY <2>8, <3>1, RoundsBelow DEF UnaryRounds
  <2>10. AfterLevel(s, m + 1, d)
    <3>1. m \in i..11
      BY <1>7, <1>12
    <3> QED BY <1>5, <3>1, After
  <2>11. ClimbsTo(s, i, n, k, r, d)
    <3>1. m >= i
      BY <1>5, <1>7, <1>12
    <3> QED BY <1>0, <2>3, <2>4, <2>5, <2>6, <2>10, <3>1 DEF ClimbsTo
  <2>12. UnaryRounds(s, i, a, Bin(binary_op_type[s[k]], n, r), d)
    BY <2>9, <2>11, UnaryMore
  <2> QED BY <1>6, <2>2, <2>12
<1> QED BY <1>5, <1>7, <1>10, <1>11, <1>12

-----------------------------------------------------------------------------
(* The invariant of completeness.                                          *)

\* The tokens are a definition of C, and none of its assignments is to a constant
\* behind which something is dropped.
Valid(s) == ~ AssignsToDropped(s) /\ \E e \in Positions(s) : Defines(s, e) /\ HasItems(s, TRUE, e)

\* What is known where the parser is: the unary expression aimed at begins here.
UnaryAim(s, c, y) ==
    /\ y.kind = "unary" /\ y.end \in Positions(s)
    /\ y.tree \in CTrees(s)[<<11, c, y.end>>] /\ AfterUnary(s, y.end)

\* The rounds of the postfix loop lead to the aim.
PostfixAim(s, c, n, y) ==
    y.kind = "unary" /\ AfterUnary(s, y.end) /\ Rounds("postfix", s, 0, <<n, c>>, <<y.tree, y.end>>)

\* The aim is reached.
Hit(c, n, y) == y.tree = n /\ y.end = c

\* One of them, by the place p.
CompletePoint(s, c, p, n, f, y) ==
    \/ p = "unary" /\ UnaryAim(s, c, y)
    \/ p = "postfix" /\ PostfixAim(s, c, n, y)
    \/ p = "operand" /\ y.kind = "unary" /\ Hit(c, n, y)
    \/ p = "climb" /\ y.kind = "unary" /\ Hit(c, n, y) /\ f.kind = "climb" /\ f.op = ""
    \/ p = "expression" /\ y.kind = "expression" /\ Hit(c, n, y)

\* The parser is in an expression and has an aim.
CompleteIn(s, c, p, n, fr, its) ==
    \E y : Linked("complete", s, its, fr, y) /\ CompletePoint(s, c, p, n, Last(fr), y)

\* The parser has not failed, and what it is called for is there.
Complete(s, c, p, n, fr, its) ==
    p \notin {"error", "crashed"} /\ (p \in Expressions => CompleteIn(s, c, p, n, fr, its))

\* The inductive invariant behind AcceptsGrammar, together with SInv.
CInv == Valid(tokens) => Complete(tokens, cur, pc, node, frames, items)

\* The aim where the parser is.
LEMMA AimAt ==
    ASSUME SInv, CInv, pc \in Expressions, Valid(tokens)
    PROVE  \E y : /\ Linked("complete", tokens, items, frames, y) /\ y.kind # "item"
                  /\ pc = "unary" => UnaryAim(tokens, cur, y)
                  /\ pc = "postfix" => PostfixAim(tokens, cur, node, y)
                  /\ pc = "operand" => y.kind = "unary" /\ Hit(cur, node, y)
                  /\ pc = "climb" => y.kind = "unary" /\ Hit(cur, node, y) /\ Last(frames).kind = "climb"
                                     /\ Last(frames).op = ""
                  /\ pc = "expression" => y.kind = "expression" /\ Hit(cur, node, y)
<1>1. PICK y : Linked("complete", tokens, items, frames, y)
               /\ CompletePoint(tokens, cur, pc, node, Last(frames), y)
  BY DEF CInv, Complete, CompleteIn
<1>2. y.kind \in {"unary", "expression"}
  BY <1>1 DEF CompletePoint, UnaryAim, PostfixAim
<1>3. /\ pc = "unary" => UnaryAim(tokens, cur, y)
      /\ pc = "postfix" => PostfixAim(tokens, cur, node, y)
      /\ pc = "operand" => y.kind = "unary" /\ Hit(cur, node, y)
      /\ pc = "climb" => y.kind = "unary" /\ Hit(cur, node, y) /\ Last(frames).kind = "climb"
                         /\ Last(frames).op = ""
      /\ pc = "expression" => y.kind = "expression" /\ Hit(cur, node, y)
  BY <1>1 DEF CompletePoint
<1> QED BY <1>1, <1>2, <1>3

\* The aim of the call that waits.
LEMMA ReturnComplete ==
    ASSUME NEW s, NEW its, NEW fr, NEW y, Linked("complete", s, its, fr, y), y.kind # "item"
    PROVE  \E x : Linked("complete", s, its, Front(fr), x) /\ CompleteLink(s, Last(fr), x, y)
<1>1. PICK x : Linked("complete", s, its, Front(fr), x) /\ Link("complete", s, its, Last(fr), x, y)
  BY LinkPop
<1> QED BY <1>1 DEF Link

\* What a frame of each kind links.
LEMMA AimLinks ==
    ASSUME NEW s, NEW f, NEW x, NEW y, CompleteLink(s, f, x, y)
    PROVE  /\ f.kind = "climb" => CompleteClimb(s, f, x, y)
           /\ f.kind = "apply" => CompleteApply(s, f, x, y)
           /\ f.kind \in {")", "dropped ]", "dropped )"} => CompleteBracket(s, f, x, y)
           /\ f.kind \in {"return", "declaration", "expression"} => CompleteItem(s, f, x, y)
           /\ y.kind = "unary" => (CompleteClimb(s, f, x, y) /\ f.op = "") \/ CompleteApply(s, f, x, y)
<1>1. CompleteClimb(s, f, x, y) => f.kind = "climb" /\ (y.kind = "unary" => f.op = "")
  BY DEF CompleteClimb
<1>2. CompleteApply(s, f, x, y) => f.kind = "apply"
  BY DEF CompleteApply
<1>3. CompleteBracket(s, f, x, y) => f.kind \in {")", "dropped ]", "dropped )"} /\ y.kind = "expression"
  BY DEF CompleteBracket
<1>4. CompleteItem(s, f, x, y) => f.kind \in {"return", "declaration", "expression"} /\ y.kind = "expression"
  BY DEF CompleteItem
<1> QED BY <1>1, <1>2, <1>3, <1>4 DEF CompleteLink

\* A call of parse_expression.
LEMMA CallComplete ==
    ASSUME NEW s \in Inputs, NEW its, NEW fr, NEW x, Linked("complete", s, its, fr, x), NEW f,
           NEW b \in Positions(s), NEW e \in Positions(s), NEW m \in Minima,
           NEW t \in CTrees(s)[<<LevelOf(m), b, e>>], AfterLevel(s, LevelOf(m), e),
           CompleteLink(s, f, x, Aim("expression", m, t, e)), NEW n,
           ~ AssignsToDropped(s), LevelOf(m) = 0 => Headed(s, b)
    PROVE  CompleteIn(s, b, "unary", n, fr \o <<f, climbing(m)>>, its)
<1>1. PICK l : l = LevelOf(m)
  OBVIOUS
<1>2. l \in 0..11
  BY <1>1 DEF LevelOf, Minima
<1>3. AfterLevel(s, l + 1, e)
  BY <1>1, <1>2, After
<1>4. UnaryRounds(s, l, b, t, e)
  BY <1>1, <1>2, <1>3, ExpressionIsRounds
<1>5. PICK u, c : /\ c \in Positions(s) /\ u \in CTrees(s)[<<11, b, c>>] /\ AfterUnary(s, c)
                  /\ Rounds("climb", s, l, <<u, c>>, <<t, e>>)
  BY <1>4 DEF UnaryRounds
<1>6. PICK y : y = Aim("expression", m, t, e)
  OBVIOUS
<1>7. y.kind = "expression" /\ y.min = m /\ y.tree = t /\ y.end = e
  BY <1>6 DEF Aim
<1>8. PICK z : z = Aim("unary", 0, u, c)
  OBVIOUS
<1>9. z.kind = "unary" /\ z.tree = u /\ z.end = c
  BY <1>8 DEF Aim
<1>10. PICK g : g = climbing(m)
  OBVIOUS
<1>11. IsClimb(g) /\ g.kind = "climb" /\ g.op = "" /\ g.min = m
  BY <1>10 DEF IsClimb, climbing, Frame
<1>12. Linked("complete", s, its, Append(fr, f), y)
  BY <1>6, <1>7, LinkPush DEF Link
<1>13. CompleteClimb(s, g, y, z)
  BY <1>1, <1>5, <1>7, <1>9, <1>11 DEF CompleteClimb
<1>14. Linked("complete", s, its, Append(Append(fr, f), g), z)
  BY <1>9, <1>12, <1>13, LinkPush DEF Link, CompleteLink
<1>15. fr \o <<f, climbing(m)>> = Append(Append(fr, f), g)
  BY <1>10, ConcatTwo DEF Linked
<1>16. UnaryAim(s, b, z)
  BY <1>5, <1>9 DEF UnaryAim
<1> QED BY <1>14, <1>15, <1>16 DEF CompleteIn, CompletePoint

\* A step within an expression.
LEMMA WithinComplete ==
    ASSUME tokens' = tokens, items' = items, pc' \in Expressions,
           Valid(tokens) => CompleteIn(tokens, cur', pc', node', frames', items)
    PROVE  CInv'
BY DEF CInv, Complete, Expressions

\* A step that does not fail.
LEMMA NoFailure ==
    ASSUME tokens' = tokens, ~ Valid(tokens)
    PROVE  CInv'
BY DEF CInv

-----------------------------------------------------------------------------
(* Unary and postfix expressions.                                          *)

\* A unary expression of C is an operator and one, or a primary expression and
\* the rounds of its loop.
LEMMA UnaryIs ==
    ASSUME NEW s \in Inputs, NEW b \in Positions(s), NEW e \in Positions(s), NEW t \in CTrees(s)[<<11, b, e>>]
    PROVE  \/ s[b] \in DOMAIN prefix_op_type /\ b + 1 \in Positions(s)
              /\ \E a \in CTrees(s)[<<11, b + 1, e>>] : t = Un(prefix_op_type[s[b]], a)
           \/ s[b] \in PrimaryFirst /\ PrimaryRounds(s, b, t, e)
<1>0. PICK T : T = CTrees(s)
  OBVIOUS
<1>1. PICK strict : IsStrict(strict) /\ Grammatical(s, T, strict)
  BY <1>0, CTreesGrammatical
<1>2. PICK i : i = 11
  OBVIOUS
<1>3. i \in 0..13 /\ t \in T[<<i, b, e>>]
  BY <1>0, <1>2
<1>4. b < e /\ b \in Nat /\ e \in Nat
  BY <1>1, <1>3, TreesSpan
<1>5. b + 1 \in Positions(s)
  BY <1>4, InputsEndWithEOF DEF Positions
<1>6. PICK m \in i..13 : t \in OwnTrees(s, strict, T, m, b, e)
  BY <1>1, <1>3, TreesMade
<1>7. CASE m = 11
  <2>1. t \in UnaryTrees(s, strict, T, b, e)
    BY <1>6, <1>7, OwnIs
  <2>2. s[b] \in DOMAIN prefix_op_type /\ \E a \in T[<<11, b + 1, e>>] : t = Un(prefix_op_type[s[b]], a)
    BY <1>1, <2>1 DEF UnaryTrees, UnaryLevel, IsStrict
  <2> QED BY <1>0, <1>5, <2>2
<1>8. CASE m \in 12..13
  <2>1. PICK j : j = 12
    OBVIOUS
  <2>2. j \in 0..13 /\ m \in j..13
    BY <1>8, <2>1
  <2>3. t \in T[<<j, b, e>>]
    BY <1>1, <1>4, <1>6, <2>2, TreesMade
  <2>4. s[b] \in First(j)
    BY <1>1, <2>2, <2>3, FirstToken
  <2>5. s[b] \in PrimaryFirst
    BY <2>1, <2>4 DEF First
  <2> QED BY <1>0, <2>1, <2>3, <2>5, PostfixIsRounds
<1> QED BY <1>2, <1>6, <1>7, <1>8

\* What primary expressions begin with is no operator.
LEMMA FirstsDiffer ==
    /\ \A t \in PrimaryFirst : t \notin DOMAIN prefix_op_type /\ t # "sizeof" /\ t # ")" /\ t # "int"
    /\ \A t \in DOMAIN prefix_op_type : t # "sizeof" /\ t # ")" /\ t # "int"
    /\ "(" \notin Constants \cup Identifiers
    /\ \A e \in Closers \cup DOMAIN binary_op_type :
          e \notin DOMAIN postfix_op_type \cup {"[", "(", ".", "->"}
<1>1. DOMAIN prefix_op_type = {"++", "--", "*", "&", "+", "-", "!", "~"}
  BY DEF prefix_op_type
<1>2. DOMAIN postfix_op_type = {"++", "--"}
  BY DEF postfix_op_type
<1>3. \A t \in Constants \cup Identifiers :
         /\ t \notin {"++", "--", "*", "&", "+", "-", "!", "~"} /\ t # "sizeof" /\ t # ")" /\ t # "int" /\ t # "("
         /\ t # "[" /\ t # "]" /\ t # ";"
  BY KindsDiffer, ZenonT(60)
<1>4. ASSUME NEW t \in PrimaryFirst PROVE t \notin DOMAIN prefix_op_type /\ t # "sizeof" /\ t # ")" /\ t # "int"
  BY <1>1, <1>3 DEF PrimaryFirst
<1>5. ASSUME NEW t \in DOMAIN prefix_op_type PROVE t # "sizeof" /\ t # ")" /\ t # "int"
  BY <1>1
<1>6. ASSUME NEW e \in Closers \cup DOMAIN binary_op_type
      PROVE  e \notin DOMAIN postfix_op_type \cup {"[", "(", ".", "->"}
  BY <1>2, OperatorNames DEF Closers
<1> QED BY <1>3, <1>4, <1>5, <1>6

\* The operand's aim is the tree under the operator.
LEMMA PrefixComplete == SInv /\ CInv /\ SInv' /\ ParsePrefix => CInv'
<1> SUFFICES ASSUME SInv, CInv, SInv', ParsePrefix PROVE CInv'
  OBVIOUS
<1>1. tokens' = tokens /\ items' = items /\ pc' = "unary" /\ pc = "unary" /\ cur' = cur + 1
      /\ frames' = Append(frames, Frame("apply", prefix_op_type[tokens[cur]], 0, NoExpr))
      /\ tokens[cur] \in DOMAIN prefix_op_type
  BY DEF ParsePrefix, tok
<1>2. SUFFICES ASSUME Valid(tokens) PROVE CInv'
  BY <1>1, NoFailure
<1>3. tokens \in Inputs /\ cur \in Positions(tokens)
  BY CursorNow DEF SInv
<1>4. PICK x : Linked("complete", tokens, items, frames, x) /\ UnaryAim(tokens, cur, x)
  BY <1>1, <1>2, AimAt DEF Expressions
<1>5. PICK a \in CTrees(tokens)[<<11, cur + 1, x.end>>] : x.tree = Un(prefix_op_type[tokens[cur]], a)
  BY <1>1, <1>3, <1>4, UnaryIs, FirstsDiffer DEF UnaryAim
<1>6. PICK f : f = Frame("apply", prefix_op_type[tokens[cur]], 0, NoExpr)
  OBVIOUS
<1>7. f.kind = "apply" /\ f.op = prefix_op_type[tokens[cur]]
  BY <1>6 DEF Frame
<1>8. PICK y : y = Aim("unary", 0, a, x.end)
  OBVIOUS
<1>9. y.kind = "unary" /\ y.tree = a /\ y.end = x.end
  BY <1>8 DEF Aim
<1>10. CompleteApply(tokens, f, x, y)
  BY <1>4, <1>5, <1>7, <1>9 DEF CompleteApply, UnaryAim
<1>11. Linked("complete", tokens, items, frames', y)
  BY <1>1, <1>4, <1>6, <1>9, <1>10, LinkPush DEF Link, CompleteLink
<1>12. UnaryAim(tokens, cur + 1, y)
  BY <1>4, <1>5, <1>9 DEF UnaryAim
<1> QED BY <1>1, <1>11, <1>12, WithinComplete DEF CompleteIn, CompletePoint, Expressions

\* No expression of this grammar has sizeof.
LEMMA SizeofComplete == SInv /\ CInv /\ SInv' /\ ParseSizeof => CInv'
<1> SUFFICES ASSUME SInv, CInv, SInv', ParseSizeof PROVE CInv'
  OBVIOUS
<1>1. tokens' = tokens /\ pc = "unary" /\ tokens[cur] = "sizeof"
  BY DEF ParseSizeof, tok, Fail
<1>2. SUFFICES ASSUME Valid(tokens) PROVE FALSE
  BY <1>1, NoFailure
<1>3. tokens \in Inputs /\ cur \in Positions(tokens)
  BY CursorNow DEF SInv
<1>4. PICK x : UnaryAim(tokens, cur, x)
  BY <1>1, <1>2, AimAt DEF Expressions
<1>5. tokens[cur] \in DOMAIN prefix_op_type \cup PrimaryFirst
  BY <1>3, <1>4, UnaryIs DEF UnaryAim
<1> QED BY <1>1, <1>5, FirstsDiffer

\* No unary expression begins with another token.
LEMMA UnexpectedComplete == SInv /\ CInv /\ SInv' /\ ParseUnexpected => CInv'
<1> SUFFICES ASSUME SInv, CInv, SInv', ParseUnexpected PROVE CInv'
  OBVIOUS
<1>1. tokens' = tokens /\ pc = "unary"
      /\ tokens[cur] \notin DOMAIN prefix_op_type \cup {"sizeof", "("} \cup Constants \cup Identifiers
  BY DEF ParseUnexpected, tok, Fail
<1>2. SUFFICES ASSUME Valid(tokens) PROVE FALSE
  BY <1>1, NoFailure
<1>3. tokens \in Inputs /\ cur \in Positions(tokens)
  BY CursorNow DEF SInv
<1>4. PICK x : UnaryAim(tokens, cur, x)
  BY <1>1, <1>2, AimAt DEF Expressions
<1>5. tokens[cur] \in DOMAIN prefix_op_type \cup PrimaryFirst
  BY <1>3, <1>4, UnaryIs DEF UnaryAim
<1> QED BY <1>1, <1>5 DEF PrimaryFirst

\* The least precedence.
LEMMA MinimumOne == 1 \in Minima /\ LevelOf(1) = 0
BY DEF Minima, LevelOf

\* The position in front of one that another is in front of.
LEMMA Predecessor ==
    ASSUME NEW s \in Inputs, NEW b \in Positions(s), NEW c \in Positions(s), b < c
    PROVE  \E e \in Positions(s) : e = c - 1 /\ e + 1 = c
BY InputsEndWithEOF DEF Positions

\* An assignment can begin behind a bracket, a "=" or a return.
Heads == {"=", "(", "[", "return", ";", "{"}
LEMMA HeadedBehind ==
    ASSUME NEW s, NEW c \in Nat, c > 0, s[c] \in Heads
    PROVE  Headed(s, c + 1)
<1>1. c + 1 > 1 /\ (c + 1) - 1 = c
  OBVIOUS
<1>2. s[(c + 1) - 1] \in Heads
  BY <1>1, Zenon
<1> QED BY <1>1, <1>2, Zenon DEF Headed, Heads

\* So it is behind the cursor.
LEMMA HeadedNow ==
    ASSUME SInv, tokens[cur] \in Heads
    PROVE  Headed(tokens, cur + 1)
<1>1. cur \in Nat /\ cur > 0
  BY CursorNow DEF SInv, Positions
<1> QED BY <1>1, HeadedBehind

\* A call of parse_expression inside of brackets.
LEMMA BracketCall ==
    ASSUME NEW s \in Inputs, NEW its, NEW fr, NEW x, Linked("complete", s, its, fr, x), x.kind = "unary",
           AfterUnary(s, x.end), NEW k \in {")", "dropped ]", "dropped )"}, NEW n,
           NEW b \in Positions(s), NEW e \in Positions(s), NEW r \in CTrees(s)[<<0, b, e>>], s[e] = closing(k),
           Rounds("postfix", s, 0, <<IF k = ")" THEN r ELSE n, e + 1>>, <<x.tree, x.end>>), NEW m,
           ~ AssignsToDropped(s), Headed(s, b)
    PROVE  CompleteIn(s, b, "unary", m, fr \o <<Frame(k, "", 0, n), climbing(1)>>, its)
<1>1. PICK f : f = Frame(k, "", 0, n)
  OBVIOUS
<1>2. f.kind = k /\ f.node = n
  BY <1>1 DEF Frame
<1>3. PICK y : y = Aim("expression", 1, r, e)
  OBVIOUS
<1>4. y.kind = "expression" /\ y.tree = r /\ y.end = e
  BY <1>3 DEF Aim
<1>5. CompleteBracket(s, f, x, y)
  BY <1>2, <1>4 DEF CompleteBracket
<1>6. CompleteLink(s, f, x, Aim("expression", 1, r, e))
  BY <1>3, <1>5 DEF CompleteLink
<1>7. 1 \in Minima /\ LevelOf(1) = 0
  BY MinimumOne
<1>8. r \in CTrees(s)[<<LevelOf(1), b, e>>]
  BY <1>7
<1>9. AfterLevel(s, LevelOf(1), e)
  BY DEF AfterLevel, Closers, closing
<1>10. CompleteIn(s, b, "unary", m, fr \o <<f, climbing(1)>>, its)
  BY <1>6, <1>7, <1>8, <1>9, CallComplete
<1> QED BY <1>1, <1>10

\* A primary expression is called for.
LEMMA PrimaryAt ==
    ASSUME SInv, CInv, pc = "unary", Valid(tokens), tokens[cur] \in PrimaryFirst
    PROVE  \E y, p, c :
              /\ Linked("complete", tokens, items, frames, y) /\ y.kind = "unary" /\ AfterUnary(tokens, y.end)
              /\ c \in Positions(tokens) /\ cur < c /\ p \in PrimaryTrees(tokens, CTrees(tokens), cur, c)
              /\ Rounds("postfix", tokens, 0, <<p, c>>, <<y.tree, y.end>>)
<1>1. tokens \in Inputs /\ cur \in Positions(tokens)
  BY CursorNow DEF SInv
<1>2. PICK y : Linked("complete", tokens, items, frames, y) /\ UnaryAim(tokens, cur, y)
  BY AimAt DEF Expressions
<1>3. /\ y.kind = "unary" /\ y.end \in Positions(tokens)
      /\ y.tree \in CTrees(tokens)[<<11, cur, y.end>>] /\ AfterUnary(tokens, y.end)
  BY <1>2 DEF UnaryAim
<1>4. PrimaryRounds(tokens, cur, y.tree, y.end)
  BY <1>1, <1>3, UnaryIs, FirstsDiffer
<1> QED BY <1>2, <1>3, <1>4 DEF PrimaryRounds

\* A constant or identifier is the whole primary expression.
LEMMA TerminalComplete == SInv /\ CInv /\ SInv' /\ ParseTerminal => CInv'
<1> SUFFICES ASSUME SInv, CInv, SInv', ParseTerminal PROVE CInv'
  OBVIOUS
<1>1. tokens' = tokens /\ items' = items /\ frames' = frames /\ pc' = "postfix" /\ pc = "unary" /\ cur' = cur + 1
      /\ node' = Leaf(IF tokens[cur] \in Constants THEN "CONST" ELSE "VAR", tokens[cur])
      /\ tokens[cur] \in Constants \cup Identifiers
  BY DEF ParseTerminal, tok
<1>2. SUFFICES ASSUME Valid(tokens) PROVE CInv'
  BY <1>1, NoFailure
<1>3. PICK y, p, c :
         /\ Linked("complete", tokens, items, frames, y) /\ y.kind = "unary" /\ AfterUnary(tokens, y.end)
         /\ c \in Positions(tokens) /\ cur < c /\ p \in PrimaryTrees(tokens, CTrees(tokens), cur, c)
         /\ Rounds("postfix", tokens, 0, <<p, c>>, <<y.tree, y.end>>)
  BY <1>1, <1>2, PrimaryAt DEF PrimaryFirst
<1>4. tokens[cur] # "("
  BY <1>1, FirstsDiffer
<1>5. c = cur + 1 /\ p = node'
  BY <1>1, <1>3, <1>4 DEF PrimaryTrees
<1>6. PostfixAim(tokens, cur', node', y)
  BY <1>1, <1>3, <1>5 DEF PostfixAim
<1> QED BY <1>1, <1>3, <1>6, WithinComplete DEF CompleteIn, CompletePoint, Expressions

\* The tree in the parentheses is the aim.
LEMMA ParenComplete == SInv /\ CInv /\ SInv' /\ ParseParen => CInv'
<1> SUFFICES ASSUME SInv, CInv, SInv', ParseParen PROVE CInv'
  OBVIOUS
<1>1. tokens' = tokens /\ items' = items /\ pc' = "unary" /\ pc = "unary" /\ cur' = cur + 1
      /\ frames' = frames \o <<Frame(")", "", 0, NoExpr), climbing(1)>> /\ tokens[cur] = "("
  BY DEF ParseParen, CallExpression, tok
<1>2. SUFFICES ASSUME Valid(tokens) PROVE CInv'
  BY <1>1, NoFailure
<1>3. tokens \in Inputs /\ cur \in Nat /\ cur + 1 \in Positions(tokens)
  BY <1>1, CursorNow, CursorNext DEF SInv
<1>4. PICK y, p, c :
         /\ Linked("complete", tokens, items, frames, y) /\ y.kind = "unary" /\ AfterUnary(tokens, y.end)
         /\ c \in Positions(tokens) /\ cur < c /\ p \in PrimaryTrees(tokens, CTrees(tokens), cur, c)
         /\ Rounds("postfix", tokens, 0, <<p, c>>, <<y.tree, y.end>>)
  BY <1>1, <1>2, PrimaryAt DEF PrimaryFirst
<1>5. tokens[cur] \notin Constants \cup Identifiers
  BY <1>1, FirstsDiffer
<1>6. cur \in Positions(tokens)
  BY CursorNow DEF SInv
<1>7. PICK e \in Positions(tokens) : e = c - 1 /\ e + 1 = c
  BY <1>3, <1>4, <1>6, Predecessor
<1>8. c # cur + 1
  BY <1>4, <1>5 DEF PrimaryTrees
<1>9. tokens[e] = ")" /\ p \in CTrees(tokens)[<<0, cur + 1, e>>]
  BY <1>4, <1>7, <1>8 DEF PrimaryTrees, Assignment
<1>10. tokens[e] = closing(")")
  BY <1>9 DEF closing
<1>12. ~ AssignsToDropped(tokens) /\ Headed(tokens, cur + 1)
  BY <1>1, <1>2, HeadedNow DEF Valid, Heads
<1>11. CompleteIn(tokens, cur + 1, "unary", node', frames \o <<Frame(")", "", 0, NoExpr), climbing(1)>>, items)
  BY <1>3, <1>4, <1>7, <1>9, <1>10, <1>12, BracketCall
<1> QED BY <1>1, <1>11, WithinComplete DEF Expressions

\* The loop of postfix expressions goes on, as C's grammar does.
LEMMA PostfixAt ==
    ASSUME SInv, CInv, pc = "postfix", Valid(tokens),
           tokens[cur] \in DOMAIN postfix_op_type \cup {"[", "(", ".", "->"}
    PROVE  \E y, t, e : /\ Linked("complete", tokens, items, frames, y) /\ Postfixes(tokens, node, cur, t, e)
                        /\ PostfixAim(tokens, e, t, y)
<1>1. PICK y : Linked("complete", tokens, items, frames, y) /\ PostfixAim(tokens, cur, node, y)
  BY AimAt DEF Expressions
<1>2. /\ y.kind = "unary" /\ AfterUnary(tokens, y.end)
      /\ Rounds("postfix", tokens, 0, <<node, cur>>, <<y.tree, y.end>>)
  BY <1>1 DEF PostfixAim
<1>3. cur # y.end
  BY <1>2, FirstsDiffer DEF AfterUnary
<1>4. <<node, cur>> # <<y.tree, y.end>>
  BY <1>3
<1>5. PICK w : Step("postfix", tokens, 0, <<node, cur>>, w) /\ Rounds("postfix", tokens, 0, w, <<y.tree, y.end>>)
  BY <1>2, <1>4, RoundsFirst
<1>6. PICK n, c, t, e : <<node, cur>> = <<n, c>> /\ w = <<t, e>> /\ Postfixes(tokens, n, c, t, e)
  BY <1>5 DEF Step
<1> QED BY <1>1, <1>2, <1>5, <1>6 DEF PostfixAim

\* What is dropped begins with a bracket, a dot or an arrow.
LEMMA PostfixesIs ==
    ASSUME NEW s, NEW n, NEW c, NEW t, NEW e, Postfixes(s, n, c, t, e)
    PROVE  \/ s[c] \in DOMAIN postfix_op_type /\ t = Un(postfix_op_type[s[c]], n) /\ e = c + 1
           \/ s[c] \in {"[", "(", ".", "->"} /\ Drops(s, CTrees(s), c, e) /\ t = n
BY DEF Postfixes, Drops

\* The operator is a round.
LEMMA PostfixOperatorComplete == SInv /\ CInv /\ SInv' /\ ParsePostfixOperator => CInv'
<1> SUFFICES ASSUME SInv, CInv, SInv', ParsePostfixOperator PROVE CInv'
  OBVIOUS
<1>1. tokens' = tokens /\ items' = items /\ frames' = frames /\ pc' = "postfix" /\ pc = "postfix" /\ cur' = cur + 1
      /\ node' = Un(postfix_op_type[tokens[cur]], node) /\ tokens[cur] \in DOMAIN postfix_op_type
  BY DEF ParsePostfixOperator, tok
<1>2. SUFFICES ASSUME Valid(tokens) PROVE CInv'
  BY <1>1, NoFailure
<1>3. PICK y, t, e : /\ Linked("complete", tokens, items, frames, y) /\ Postfixes(tokens, node, cur, t, e)
                     /\ PostfixAim(tokens, e, t, y)
  BY <1>1, <1>2, PostfixAt
<1>4. tokens[cur] \notin {"[", "(", ".", "->"}
  BY <1>1 DEF postfix_op_type
<1>5. t = node' /\ e = cur'
  BY <1>1, <1>3, <1>4, PostfixesIs
<1> QED BY <1>1, <1>3, <1>5, WithinComplete DEF CompleteIn, CompletePoint, Expressions

\* So is the subscript, whose expression is the aim.
LEMMA SubscriptComplete == SInv /\ CInv /\ SInv' /\ ParseSubscript => CInv'
<1> SUFFICES ASSUME SInv, CInv, SInv', ParseSubscript PROVE CInv'
  OBVIOUS
<1>1. tokens' = tokens /\ items' = items /\ pc' = "unary" /\ pc = "postfix" /\ cur' = cur + 1
      /\ frames' = frames \o <<Frame("dropped ]", "", 0, node), climbing(1)>> /\ tokens[cur] = "["
  BY DEF ParseSubscript, CallExpression, tok
<1>2. SUFFICES ASSUME Valid(tokens) PROVE CInv'
  BY <1>1, NoFailure
<1>3. tokens \in Inputs /\ cur \in Nat /\ cur + 1 \in Positions(tokens)
  BY <1>1, CursorNow, CursorNext DEF SInv
<1>4. PICK y, t, e : /\ Linked("complete", tokens, items, frames, y) /\ Postfixes(tokens, node, cur, t, e)
                     /\ PostfixAim(tokens, e, t, y)
  BY <1>1, <1>2, PostfixAt
<1>5. tokens[cur] \notin DOMAIN postfix_op_type
  BY <1>1 DEF postfix_op_type
<1>6. Drops(tokens, CTrees(tokens), cur, e) /\ t = node
  BY <1>4, <1>5, PostfixesIs
<1>7. PICK q : q = e - 1
  OBVIOUS
<1>8. q \in Positions(tokens) /\ q + 1 = e
  <2>1. e \in Positions(tokens) /\ cur + 1 < e
    BY <1>4, <1>5 DEF Postfixes
  <2> QED BY <1>3, <1>7, <2>1, InputsEndWithEOF DEF Positions
<1>9. tokens[q] = "]" /\ CTrees(tokens)[<<0, cur + 1, q>>] # {}
  BY <1>1, <1>6, <1>7 DEF Drops, Assignment
<1>10. PICK r : r \in CTrees(tokens)[<<0, cur + 1, q>>]
  BY <1>9
<1>11. tokens[q] = closing("dropped ]")
  BY <1>9 DEF closing
<1>12. /\ y.kind = "unary" /\ AfterUnary(tokens, y.end)
       /\ Rounds("postfix", tokens, 0, <<IF "dropped ]" = ")" THEN r ELSE node, q + 1>>, <<y.tree, y.end>>)
  BY <1>4, <1>6, <1>8 DEF PostfixAim
<1>15. ~ AssignsToDropped(tokens) /\ Headed(tokens, cur + 1)
  BY <1>1, <1>2, HeadedNow DEF Valid, Heads
<1>13. CompleteIn(tokens, cur + 1, "unary", node', frames \o <<Frame("dropped ]", "", 0, node), climbing(1)>>, items)
  BY <1>3, <1>4, <1>8, <1>10, <1>11, <1>12, <1>15, BracketCall
<1> QED BY <1>1, <1>13, WithinComplete DEF Expressions

\* So are arguments, or none.
LEMMA ArgumentsComplete == SInv /\ CInv /\ SInv' /\ ParseArguments => CInv'
<1> SUFFICES ASSUME SInv, CInv, SInv', ParseArguments PROVE CInv'
  OBVIOUS
<1>1. tokens' = tokens /\ items' = items /\ pc = "postfix" /\ tokens[cur] = "("
  BY DEF ParseArguments, CallExpression, tok
<1>2. SUFFICES ASSUME Valid(tokens) PROVE CInv'
  BY <1>1, NoFailure
<1>3. tokens \in Inputs /\ cur \in Nat /\ cur \in Positions(tokens)
  BY <1>1, CursorNow DEF SInv
<1>4. PICK y, t, e : /\ Linked("complete", tokens, items, frames, y) /\ Postfixes(tokens, node, cur, t, e)
                     /\ PostfixAim(tokens, e, t, y)
  BY <1>1, <1>2, PostfixAt
<1>5. tokens[cur] \notin DOMAIN postfix_op_type
  BY <1>1 DEF postfix_op_type
<1>6. Drops(tokens, CTrees(tokens), cur, e) /\ t = node
  BY <1>4, <1>5, PostfixesIs
<1>7. PICK q : q = e - 1
  OBVIOUS
<1>8. q \in Positions(tokens) /\ q + 1 = e /\ cur + 1 \in Positions(tokens)
  <2>1. e \in Positions(tokens) /\ cur + 1 < e /\ cur + 1 \in Positions(tokens)
    BY <1>4, <1>5 DEF Postfixes
  <2> QED BY <1>3, <1>7, <2>1, InputsEndWithEOF DEF Positions
<1>9. tokens[q] = ")" /\ (q = cur + 1 \/ CTrees(tokens)[<<0, cur + 1, q>>] # {})
  <2>1. tokens[q] = ")" /\ (cur = e - 2 \/ CTrees(tokens)[<<0, cur + 1, q>>] # {})
    BY <1>1, <1>6, <1>7 DEF Drops, Assignment
  <2>2. cur = e - 2 => q = cur + 1
    BY <1>3, <1>7, <1>8
  <2> QED BY <2>1, <2>2
<1>10. CASE tokens[cur + 1] = ")"
  <2>1. cur' = cur + 2 /\ pc' = "postfix" /\ node' = node /\ frames' = frames
    BY <1>1, <1>10 DEF ParseArguments, next_tok, behind_arguments
  <2>2. q = cur + 1
    <3> SUFFICES ASSUME CTrees(tokens)[<<0, cur + 1, q>>] # {} PROVE FALSE
      BY <1>9
    <3>1. PICK l : l = 0
      OBVIOUS
    <3>2. l \in 0..13 /\ CTrees(tokens)[<<l, cur + 1, q>>] # {}
      BY <3>1
    <3>3. PICK strict : IsStrict(strict) /\ Grammatical(tokens, CTrees(tokens), strict)
      BY <1>3, CTreesGrammatical
    <3>4. tokens[cur + 1] \in First(l)
      BY <1>3, <1>8, <3>2, <3>3, FirstToken
    <3> QED BY <1>10, <3>1, <3>4, FirstsDiffer DEF First
  <2>3. e = cur'
    <3>1. e = cur + 2
      BY <1>3, <1>8, <2>2
    <3> QED BY <2>1, <3>1
  <2> QED BY <1>1, <1>4, <1>6, <2>1, <2>3, WithinComplete DEF CompleteIn, CompletePoint, Expressions
<1>11. CASE tokens[cur + 1] # ")"
  <2>1. cur' = cur + 1 /\ pc' = "unary" /\ frames' = frames \o <<Frame("dropped )", "", 0, node), climbing(1)>>
    BY <1>1, <1>11 DEF ParseArguments, next_tok, CallExpression
  <2>2. PICK r : r \in CTrees(tokens)[<<0, cur + 1, q>>]
    BY <1>9, <1>11
  <2>3. tokens[q] = closing("dropped )")
    BY <1>9 DEF closing
  <2>4. /\ y.kind = "unary" /\ AfterUnary(tokens, y.end)
        /\ Rounds("postfix", tokens, 0, <<IF "dropped )" = ")" THEN r ELSE node, q + 1>>, <<y.tree, y.end>>)
    BY <1>4, <1>6, <1>8 DEF PostfixAim
  <2>6. ~ AssignsToDropped(tokens) /\ Headed(tokens, cur + 1)
    BY <1>1, <1>2, HeadedNow DEF Valid, Heads
  <2>5. CompleteIn(tokens, cur + 1, "unary", node', frames \o <<Frame("dropped )", "", 0, node), climbing(1)>>, items)
    BY <1>3, <1>4, <1>8, <2>2, <2>3, <2>4, <2>6, BracketCall
  <2> QED BY <1>1, <2>1, <2>5, WithinComplete DEF Expressions
<1> QED BY <1>10, <1>11

\* So is a member.
LEMMA MemberComplete == SInv /\ CInv /\ SInv' /\ ParseMember => CInv'
<1> SUFFICES ASSUME SInv, CInv, SInv', ParseMember PROVE CInv'
  OBVIOUS
<1>1. tokens' = tokens /\ items' = items /\ pc = "postfix" /\ tokens[cur] \in {".", "->"} /\ frames' = frames
      /\ node' = node
  BY DEF ParseMember, Fail, tok
<1>2. SUFFICES ASSUME Valid(tokens) PROVE CInv'
  BY <1>1, NoFailure
<1>3. tokens \in Inputs /\ cur \in Nat /\ cur \in Positions(tokens)
  BY <1>1, CursorNow DEF SInv
<1>4. PICK y, t, e : /\ Linked("complete", tokens, items, frames, y) /\ Postfixes(tokens, node, cur, t, e)
                     /\ PostfixAim(tokens, e, t, y)
  BY <1>1, <1>2, PostfixAt
<1>5. tokens[cur] \notin DOMAIN postfix_op_type
  BY <1>1 DEF postfix_op_type
<1>6. Drops(tokens, CTrees(tokens), cur, e) /\ t = node
  BY <1>4, <1>5, PostfixesIs
<1>7. e \in Nat
  BY <1>3, <1>4, InputsEndWithEOF DEF Postfixes, Positions
<1>8. cur = e - 2 /\ tokens[e - 1] \in Identifiers
  BY <1>1, <1>6 DEF Drops
<1>9. e = cur + 2 /\ e - 1 = cur + 1
  BY <1>3, <1>7, <1>8
<1>10. cur' = e /\ pc' = "postfix"
  BY <1>1, <1>8, <1>9 DEF ParseMember, next_tok
<1> QED BY <1>1, <1>4, <1>6, <1>10, WithinComplete DEF CompleteIn, CompletePoint, Expressions

\* Without one of them there is no round left.
LEMMA PostfixDoneComplete == SInv /\ CInv /\ SInv' /\ ParsePostfixDone => CInv'
<1> SUFFICES ASSUME SInv, CInv, SInv', ParsePostfixDone PROVE CInv'
  OBVIOUS
<1>1. tokens' = tokens /\ items' = items /\ frames' = frames /\ node' = node /\ cur' = cur /\ pc' = "operand"
      /\ pc = "postfix" /\ tokens[cur] \notin DOMAIN postfix_op_type \cup {"[", "(", ".", "->"}
  BY DEF ParsePostfixDone, tok
<1>2. SUFFICES ASSUME Valid(tokens) PROVE CInv'
  BY <1>1, NoFailure
<1>3. PICK y : Linked("complete", tokens, items, frames, y) /\ PostfixAim(tokens, cur, node, y)
  BY <1>1, <1>2, AimAt DEF Expressions
<1>4. <<node, cur>> = <<y.tree, y.end>>
  <2> SUFFICES ASSUME <<node, cur>> # <<y.tree, y.end>> PROVE FALSE
    OBVIOUS
  <2>1. Rounds("postfix", tokens, 0, <<node, cur>>, <<y.tree, y.end>>)
    BY <1>3 DEF PostfixAim
  <2>2. PICK w : Step("postfix", tokens, 0, <<node, cur>>, w)
    BY <2>1, RoundsFirst
  <2>3. PICK n, c, t, e : <<node, cur>> = <<n, c>> /\ Postfixes(tokens, n, c, t, e)
    BY <2>2 DEF Step
  <2> QED BY <1>1, <2>3, PostfixesIs
<1>5. y.kind = "unary" /\ Hit(cur, node, y)
  BY <1>3, <1>4 DEF PostfixAim, Hit
<1> QED BY <1>1, <1>3, <1>5, WithinComplete DEF CompleteIn, CompletePoint, Expressions

-----------------------------------------------------------------------------
(* Brackets that close, and the loop of binary operators.                  *)

\* The bracket closes where the grammar has it.
LEMMA ClosingComplete == SInv /\ CInv /\ SInv' /\ ParseClosing => CInv'
<1> SUFFICES ASSUME SInv, CInv, SInv', ParseClosing PROVE CInv'
  OBVIOUS
<1>0. PICK f : f = Last(frames)
  OBVIOUS
<1>1. tokens' = tokens /\ items' = items /\ pc = "expression" /\ f.kind \in {")", "dropped ]", "dropped )"}
  BY <1>0 DEF ParseClosing, Fail, top
<1>2. SUFFICES ASSUME Valid(tokens) PROVE CInv'
  BY <1>1, NoFailure
<1>3. PICK y : Linked("complete", tokens, items, frames, y) /\ y.kind = "expression" /\ Hit(cur, node, y)
  BY <1>1, <1>2, AimAt DEF Expressions
<1>4. PICK x : Linked("complete", tokens, items, Front(frames), x) /\ CompleteLink(tokens, f, x, y)
  BY <1>0, <1>3, ReturnComplete
<1>5. CompleteBracket(tokens, f, x, y)
  BY <1>1, <1>4, AimLinks
<1>6. y.tree = node /\ y.end = cur
  BY <1>3 DEF Hit
<1>7. /\ x.kind = "unary" /\ AfterUnary(tokens, x.end) /\ tokens[cur] = closing(f.kind)
      /\ Rounds("postfix", tokens, 0, <<IF f.kind = ")" THEN node ELSE f.node, cur + 1>>, <<x.tree, x.end>>)
  BY <1>5, <1>6 DEF CompleteBracket
<1>8. /\ node' = (IF f.kind = ")" THEN node ELSE f.node) /\ cur' = cur + 1 /\ frames' = Front(frames)
      /\ pc' = "postfix"
  BY <1>0, <1>7 DEF ParseClosing, matches, tok, top, callers, continues
<1>9. PostfixAim(tokens, cur', node', x)
  BY <1>7, <1>8 DEF PostfixAim
<1> QED BY <1>1, <1>4, <1>8, <1>9, WithinComplete DEF CompleteIn, CompletePoint, Expressions

\* The prefix operator makes its aim, or the loop has its left operand.
LEMMA OperandComplete == SInv /\ CInv /\ SInv' /\ ParseOperand => CInv'
<1> SUFFICES ASSUME SInv, CInv, SInv', ParseOperand PROVE CInv'
  OBVIOUS
<1>0. PICK f : f = Last(frames)
  OBVIOUS
<1>1. tokens' = tokens /\ items' = items /\ cur' = cur /\ pc = "operand"
  BY DEF ParseOperand
<1>2. SUFFICES ASSUME Valid(tokens) PROVE CInv'
  BY <1>1, NoFailure
<1>3. PICK y : Linked("complete", tokens, items, frames, y) /\ y.kind = "unary" /\ Hit(cur, node, y)
  BY <1>1, <1>2, AimAt DEF Expressions
<1>4. PICK x : Linked("complete", tokens, items, Front(frames), x) /\ CompleteLink(tokens, f, x, y)
  BY <1>0, <1>3, ReturnComplete
<1>5. CASE f.kind = "apply"
  <2>1. CompleteApply(tokens, f, x, y)
    BY <1>4, <1>5, AimLinks
  <2>2. node' = Un(f.op, node) /\ frames' = Front(frames) /\ pc' = "operand"
    BY <1>0, <1>1, <1>5 DEF ParseOperand, top, callers
  <2>3. x.kind = "unary" /\ Hit(cur', node', x)
    BY <1>1, <1>3, <2>1, <2>2 DEF CompleteApply, Hit
  <2> QED BY <1>1, <1>4, <2>2, <2>3, WithinComplete DEF CompleteIn, CompletePoint, Expressions
<1>6. CASE f.kind # "apply"
  <2>1. CompleteClimb(tokens, f, x, y) /\ f.op = ""
    BY <1>3, <1>4, <1>6, AimLinks, ZenonT(60) DEF CompleteApply
  <2>2. node' = node /\ frames' = frames /\ pc' = "climb"
    BY <1>0, <1>6 DEF ParseOperand, top
  <2>3. f.kind = "climb"
    BY <2>1 DEF CompleteClimb
  <2>4. CompletePoint(tokens, cur', pc', node', Last(frames'), y)
    BY <1>0, <1>1, <1>3, <2>1, <2>2, <2>3 DEF CompletePoint
  <2> QED BY <1>1, <1>3, <2>2, <2>4, WithinComplete DEF CompleteIn, Expressions
<1> QED BY <1>5, <1>6

\* The loop is where C's grammar has the left operand, and is done or goes on.
LEMMA ClimbAt ==
    ASSUME SInv, CInv, pc = "climb", Valid(tokens), NEW f, f = Last(frames)
    PROVE  \E x : /\ Linked("complete", tokens, items, Front(frames), x)
                  /\ IsClimb(f) /\ f.op = "" /\ f.min \in Minima /\ x.kind = "expression" /\ x.min = f.min
                  /\ AfterLevel(tokens, LevelOf(f.min), x.end)
                  /\ \/ Hit(cur, node, x)
                     \/ \E r, e : /\ ClimbsTo(tokens, LevelOf(f.min), node, cur, r, e)
                                  /\ Rounds("climb", tokens, LevelOf(f.min),
                                            <<Bin(binary_op_type[tokens[cur]], node, r), e>>, <<x.tree, x.end>>)
<1>1. PICK y : /\ Linked("complete", tokens, items, frames, y) /\ y.kind = "unary" /\ Hit(cur, node, y)
               /\ f.kind = "climb" /\ f.op = ""
  BY AimAt DEF Expressions
<1>2. PICK x : Linked("complete", tokens, items, Front(frames), x) /\ CompleteLink(tokens, f, x, y)
  BY <1>1, ReturnComplete
<1>3. CompleteClimb(tokens, f, x, y)
  BY <1>1, <1>2, AimLinks
<1>4. PICK l : l = LevelOf(f.min)
  OBVIOUS
<1>5. /\ IsClimb(f) /\ f.min \in Minima /\ x.kind = "expression" /\ x.min = f.min
      /\ AfterLevel(tokens, l, x.end)
      /\ Rounds("climb", tokens, l, <<node, cur>>, <<x.tree, x.end>>)
  BY <1>1, <1>3, <1>4 DEF CompleteClimb, Hit
<1>6. CASE <<node, cur>> = <<x.tree, x.end>>
  <2>1. Hit(cur, node, x)
    BY <1>6 DEF Hit
  <2> QED BY <1>1, <1>2, <1>4, <1>5, <2>1
<1>7. CASE <<node, cur>> # <<x.tree, x.end>>
  <2>1. PICK w : Step("climb", tokens, l, <<node, cur>>, w) /\ Rounds("climb", tokens, l, w, <<x.tree, x.end>>)
    BY <1>5, <1>7, RoundsFirst
  <2>2. PICK n, c, r, e : /\ <<node, cur>> = <<n, c>> /\ w = <<Bin(binary_op_type[tokens[c]], n, r), e>>
                          /\ ClimbsTo(tokens, l, n, c, r, e)
    BY <2>1 DEF Step
  <2>3. n = node /\ c = cur
    BY <2>2
  <2> QED BY <1>1, <1>2, <1>4, <1>5, <2>1, <2>2, <2>3
<1> QED BY <1>6, <1>7

\* What C assigns to is no constant and is not missing.
LEMMA AssignToComplete == SInv /\ CInv /\ SInv' /\ ParseAssignTo => CInv'
<1> SUFFICES ASSUME SInv, CInv, SInv', ParseAssignTo PROVE CInv'
  OBVIOUS
<1>1. tokens' = tokens /\ pc = "climb" /\ tokens[cur] = "=" /\ ~ Assignable(node)
  BY DEF ParseAssignTo, tok, Fail, Assignable
<1>2. SUFFICES ASSUME Valid(tokens) PROVE FALSE
  BY <1>1, NoFailure
<1>3. PICK f, x : /\ AfterLevel(tokens, LevelOf(f.min), x.end)
                  /\ \/ Hit(cur, node, x)
                     \/ \E r, e : ClimbsTo(tokens, LevelOf(f.min), node, cur, r, e)
  BY <1>1, <1>2, ClimbAt
<1>4. CASE Hit(cur, node, x)
  BY <1>1, <1>3, <1>4 DEF Hit, AfterLevel, Closers
<1>5. CASE \E r, e : ClimbsTo(tokens, LevelOf(f.min), node, cur, r, e)
  BY <1>1, <1>5 DEF ClimbsTo
<1> QED BY <1>3, <1>4, <1>5

\* The loop takes the operators of its levels, and none that ends it.
LEMMA TakesIs ==
    ASSUME NEW t \in DOMAIN binary_op_type, NEW m \in Minima
    PROVE  /\ takes(binary_op_type[t], m) <=> OpLevel(t) >= LevelOf(m)
           /\ \A s, e : s[e] = t /\ AfterLevel(s, LevelOf(m), e) => ~ takes(binary_op_type[t], m)
<1>1. PICK l : l = LevelOf(m)
  OBVIOUS
<1>2. OpLevel(t) \in 0..10 /\ (takes(binary_op_type[t], m) <=> OpLevel(t) >= l) /\ l \in 0..11
  BY <1>1, TakesLevel
<1>3. t \notin Closers
  BY OperatorNames DEF Closers
<1>4. OpLevel(t) < l => ~ (OpLevel(t) >= l)
  BY <1>2
<1>5. ASSUME NEW s, NEW e, s[e] = t, AfterLevel(s, l, e) PROVE ~ takes(binary_op_type[t], m)
  BY <1>2, <1>3, <1>4, <1>5 DEF AfterLevel
<1> QED BY <1>1, <1>2, <1>5

\* The operator is a round of the loop, and its right operand the aim.
LEMMA BinaryComplete == SInv /\ CInv /\ SInv' /\ ParseBinary => CInv'
<1> SUFFICES ASSUME SInv, CInv, SInv', ParseBinary PROVE CInv'
  OBVIOUS
<1>0. PICK f : f = Last(frames)
  OBVIOUS
<1>a. PICK o : o = binary_op_type[tokens[cur]]
  OBVIOUS
<1>b. PICK g : g = [f EXCEPT !.op = o, !.node = node]
  OBVIOUS
<1>1. /\ tokens' = tokens /\ items' = items /\ pc = "climb" /\ pc' = "unary" /\ cur' = cur + 1
      /\ tokens[cur] \in DOMAIN binary_op_type /\ takes(o, f.min)
      /\ frames' = Front(frames) \o <<g, climbing(next_min_pred(o))>>
  BY <1>0, <1>a, <1>b DEF ParseBinary, tok, top, callers
<1>2. SUFFICES ASSUME Valid(tokens) PROVE CInv'
  BY <1>1, NoFailure
<1>3. tokens \in Inputs
  BY CursorNow DEF SInv
<1>4. PICK x : /\ Linked("complete", tokens, items, Front(frames), x)
               /\ IsClimb(f) /\ f.op = "" /\ f.min \in Minima /\ x.kind = "expression" /\ x.min = f.min
               /\ AfterLevel(tokens, LevelOf(f.min), x.end)
               /\ \/ Hit(cur, node, x)
                  \/ \E r, e : /\ ClimbsTo(tokens, LevelOf(f.min), node, cur, r, e)
                               /\ Rounds("climb", tokens, LevelOf(f.min),
                                         <<Bin(binary_op_type[tokens[cur]], node, r), e>>, <<x.tree, x.end>>)
  BY <1>0, <1>1, <1>2, ClimbAt
<1>5. ~ Hit(cur, node, x)
  BY <1>1, <1>4, <1>a, TakesIs DEF Hit
<1>6. PICK r, e : /\ ClimbsTo(tokens, LevelOf(f.min), node, cur, r, e)
                  /\ Rounds("climb", tokens, LevelOf(f.min), <<Bin(o, node, r), e>>, <<x.tree, x.end>>)
  BY <1>4, <1>5, <1>a
<1>7. /\ cur + 1 \in Positions(tokens) /\ e \in Positions(tokens)
      /\ r \in CTrees(tokens)[<<LevelOf(next_min_pred(o)), cur + 1, e>>]
      /\ AfterLevel(tokens, LevelOf(next_min_pred(o)), e)
  BY <1>6, <1>a DEF ClimbsTo
<1>8. next_min_pred(o) \in Minima
  BY <1>1, <1>a, RightLevel
<1>9. o # ""
  BY <1>1, <1>a, OperatorsNamed
<1>10. g = Frame("climb", o, f.min, node)
  <2>1. IsClimb(f)
    BY <1>4
  <2>2. [f EXCEPT !.op = o, !.node = node] = Frame("climb", o, f.min, node)
    BY <2>1, ClimbUpdate
  <2> QED BY <1>b, <2>2
<1>11. g.kind = "climb" /\ g.op = o /\ g.min = f.min /\ g.node = node /\ IsClimb(g)
  BY <1>10 DEF Frame, IsClimb
<1>12. PICK y : y = Aim("expression", next_min_pred(o), r, e)
  OBVIOUS
<1>13. y.kind = "expression" /\ y.tree = r /\ y.end = e
  BY <1>12 DEF Aim
<1>14. CompleteClimb(tokens, g, x, y)
  BY <1>4, <1>6, <1>9, <1>11, <1>13 DEF CompleteClimb
<1>15. CompleteLink(tokens, g, x, Aim("expression", next_min_pred(o), r, e))
  BY <1>12, <1>14 DEF CompleteLink
<1>17. ~ AssignsToDropped(tokens) /\ (LevelOf(next_min_pred(o)) = 0 => Headed(tokens, cur + 1))
  <2>1. tokens[cur] # "=" => LevelOf(next_min_pred(o)) # 0
    <3> SUFFICES ASSUME tokens[cur] # "=" PROVE LevelOf(next_min_pred(o)) # 0
      OBVIOUS
    <3>1. PICK m : m = OpLevel(tokens[cur])
      OBVIOUS
    <3>2. m \in 0..10 /\ LevelOf(next_min_pred(o)) = m + 1
      BY <1>1, <1>a, <3>1, RightLevel
    <3> QED BY <3>2
  <2> QED BY <1>2, <2>1, HeadedNow DEF Valid, Heads
<1>16. CompleteIn(tokens, cur + 1, "unary", node', Front(frames) \o <<g, climbing(next_min_pred(o))>>, items)
  BY <1>3, <1>4, <1>7, <1>8, <1>15, <1>17, CallComplete
<1> QED BY <1>1, <1>16, WithinComplete DEF Expressions

\* Without an operator that the loop takes there is no round left.
LEMMA ClimbDoneComplete == SInv /\ CInv /\ SInv' /\ ParseClimbDone => CInv'
<1> SUFFICES ASSUME SInv, CInv, SInv', ParseClimbDone PROVE CInv'
  OBVIOUS
<1>0. PICK f : f = Last(frames)
  OBVIOUS
<1>1. /\ tokens' = tokens /\ items' = items /\ pc = "climb" /\ pc' = "expression" /\ cur' = cur /\ node' = node
      /\ tokens[cur] \in DOMAIN binary_op_type => ~ takes(binary_op_type[tokens[cur]], f.min)
      /\ frames' = Front(frames)
  BY <1>0 DEF ParseClimbDone, tok, top, callers
<1>2. SUFFICES ASSUME Valid(tokens) PROVE CInv'
  BY <1>1, NoFailure
<1>3. PICK x : /\ Linked("complete", tokens, items, Front(frames), x)
               /\ f.min \in Minima /\ x.kind = "expression"
               /\ \/ Hit(cur, node, x)
                  \/ \E r, e : ClimbsTo(tokens, LevelOf(f.min), node, cur, r, e)
  BY <1>0, <1>1, <1>2, ClimbAt
<1>4. Hit(cur, node, x)
  <2> SUFFICES ASSUME NEW r, NEW e, ClimbsTo(tokens, LevelOf(f.min), node, cur, r, e) PROVE FALSE
    BY <1>3
  <2>1. tokens[cur] \in DOMAIN binary_op_type /\ OpLevel(tokens[cur]) >= LevelOf(f.min)
    BY DEF ClimbsTo
  <2> QED BY <1>1, <1>3, <2>1, TakesIs
<1>5. Hit(cur', node', x)
  BY <1>1, <1>4
<1> QED BY <1>1, <1>3, <1>5, WithinComplete DEF CompleteIn, CompletePoint, Expressions

\* The round is done.
LEMMA RightComplete == SInv /\ CInv /\ SInv' /\ ParseRight => CInv'
<1> SUFFICES ASSUME SInv, CInv, SInv', ParseRight PROVE CInv'
  OBVIOUS
<1>0. PICK f : f = Last(frames)
  OBVIOUS
<1>1. /\ tokens' = tokens /\ items' = items /\ pc = "expression" /\ pc' = "climb" /\ cur' = cur /\ f.kind = "climb"
      /\ node' = Bin(f.op, f.node, node)
      /\ frames' = Append(Front(frames), [f EXCEPT !.op = "", !.node = NoExpr])
  BY <1>0 DEF ParseRight, top, callers
<1>2. SUFFICES ASSUME Valid(tokens) PROVE CInv'
  BY <1>1, NoFailure
<1>3. PICK y : Linked("complete", tokens, items, frames, y) /\ y.kind = "expression" /\ Hit(cur, node, y)
  BY <1>1, <1>2, AimAt DEF Expressions
<1>4. PICK x : Linked("complete", tokens, items, Front(frames), x) /\ CompleteLink(tokens, f, x, y)
  BY <1>0, <1>3, ReturnComplete
<1>5. CompleteClimb(tokens, f, x, y)
  BY <1>1, <1>4, AimLinks
<1>6. /\ IsClimb(f) /\ f.min \in Minima /\ x.kind = "expression" /\ x.min = f.min
      /\ AfterLevel(tokens, LevelOf(f.min), x.end)
      /\ Rounds("climb", tokens, LevelOf(f.min), <<Bin(f.op, f.node, node), cur>>, <<x.tree, x.end>>)
  BY <1>3, <1>5 DEF CompleteClimb, Hit
<1>7. PICK g : g = climbing(f.min)
  OBVIOUS
<1>8. [f EXCEPT !.op = "", !.node = NoExpr] = g
  BY <1>6, <1>7, ClimbUpdate DEF climbing
<1>9. g.kind = "climb" /\ g.op = "" /\ g.min = f.min /\ IsClimb(g)
  BY <1>7 DEF climbing, Frame, IsClimb
<1>10. PICK z : z = Aim("unary", 0, node', cur)
  OBVIOUS
<1>11. z.kind = "unary" /\ z.tree = node' /\ z.end = cur
  BY <1>10 DEF Aim
<1>12. CompleteClimb(tokens, g, x, z)
  BY <1>1, <1>6, <1>9, <1>11 DEF CompleteClimb
<1>13. Linked("complete", tokens, items, frames', z)
  BY <1>1, <1>4, <1>8, <1>11, <1>12, LinkPush DEF Link, CompleteLink
<1>14. Last(frames') = g
  <2>1. IsList(Front(frames))
    BY <1>4 DEF Linked
  <2> QED BY <1>1, <1>8, <2>1, AppendFacts DEF Last
<1>15. CompletePoint(tokens, cur', pc', node', Last(frames'), z)
  BY <1>1, <1>9, <1>11, <1>14 DEF CompletePoint, Hit
<1> QED BY <1>1, <1>13, <1>15, WithinComplete DEF CompleteIn, Expressions

-----------------------------------------------------------------------------
(* Statements.                                                             *)

\* A step to the header, an item or the end.
LEMMA OutsideComplete ==
    ASSUME pc' \notin Expressions \cup {"error", "crashed"}
    PROVE  CInv'
BY DEF CInv, Complete

\* Each token of the header is there.
LEMMA HeaderComplete == SInv /\ CInv /\ SInv' /\ ParseHeader => CInv'
<1> SUFFICES ASSUME SInv, CInv, SInv', ParseHeader PROVE CInv'
  OBVIOUS
<1>1. tokens' = tokens /\ cur \in 1..6
  BY DEF ParseHeader, Fail, SInv, IInv
<1>2. SUFFICES ASSUME Valid(tokens) PROVE CInv'
  BY <1>1, NoFailure
<1>3. /\ tokens[1] = "int" /\ tokens[2] \in Identifiers /\ tokens[3] = "(" /\ tokens[4] = "void"
      /\ tokens[5] = ")" /\ tokens[6] = "{"
  BY <1>2 DEF Valid, Defines
<1>4. /\ Header[1] = "int" /\ Header[2] = "identifier" /\ Header[3] = "(" /\ Header[4] = "void"
      /\ Header[5] = ")" /\ Header[6] = "{"
  BY DEF Header
<1>5. cur = 1 \/ cur = 2 \/ cur = 3 \/ cur = 4 \/ cur = 5 \/ cur = 6
  BY <1>1
<1>6. IF Header[cur] = "identifier" THEN tokens[cur] \in Identifiers ELSE tokens[cur] = Header[cur]
  BY <1>3, <1>4, <1>5
<1>7. header_matches(cur)
  BY <1>6 DEF header_matches, matches, tok
<1>8. pc' \in {"item", "header"}
  BY <1>7 DEF ParseHeader
<1> QED BY <1>8, OutsideComplete DEF Expressions

\* The closing brace ends the definition.
LEMMA EndComplete == SInv /\ CInv /\ SInv' /\ ParseEnd => CInv'
BY OutsideComplete DEF ParseEnd, Expressions

\* The first member of a set from a position on.
LEMMA FirstFrom ==
    ASSUME NEW S, NEW p \in Nat, NEW e \in Nat, p <= e, e \in S
    PROVE  \E q \in p..e : q \in S /\ \A k \in p..(q - 1) : k \notin S
<1>1. PICK Q : Q = {k \in p..e : k \in S}
  OBVIOUS
<1>2. Q \in SUBSET Nat /\ Q # {}
  <2>1. e \in p..e
    OBVIOUS
  <2>2. e \in Q
    BY <1>1, <2>1
  <2>3. \A k \in p..e : k \in Nat
    OBVIOUS
  <2> QED BY <1>1, <2>2, <2>3
<1>3. PICK q \in Q : \A k \in Q : q <= k
  BY <1>2, LeastElement
<1>4. q \in p..e /\ q \in S
  BY <1>1
<1>5. ASSUME NEW k \in p..(q - 1), k \in Q PROVE FALSE
  <2>1. q <= k
    BY <1>3, <1>5
  <2> QED BY <1>4, <2>1
<1>6. ASSUME NEW k \in p..(q - 1) PROVE k \notin S
  <2>1. k \in p..e
    BY <1>4
  <2> QED BY <1>1, <1>5, <2>1
<1> QED BY <1>4, <1>6

\* In a block that is not at its end there is a statement.
LEMMA BlockAhead ==
    ASSUME SInv, pc = "item", NEW e \in Positions(tokens), Defines(tokens, e), e # cur
    PROVE  \E q \in Positions(tokens) :
              cur \in 7..(e - 1) /\ cur <= q /\ q \in Ends(tokens, e) /\ IsStatement(tokens, cur, q)
<1>1. tokens \in Inputs /\ cur \in Nat /\ Positions(tokens) \subseteq Nat /\ e \in Nat
  BY CursorNow, InputsEndWithEOF DEF SInv, Positions
<1>2. Block(tokens, items, cur)
  BY DEF SInv, Sound
<1>3. cur > 6 /\ (cur = 7 \/ tokens[cur - 1] = ";") /\ \A k \in 7..(cur - 1) : tokens[k] # "}"
  BY <1>2 DEF Block
<1>4. e > 6 /\ tokens[e] = "}" /\ (e = 7 \/ tokens[e - 1] = ";")
  BY DEF Defines
<1>5. e \notin 7..(cur - 1)
  BY <1>3, <1>4
<1>6. e > 6 /\ cur > 6
  BY <1>3, <1>4
<1>7. cur < e /\ e # 7
  BY <1>1, <1>5, <1>6
<1>8. PICK d : d = e - 1
  OBVIOUS
<1>9. d \in Nat /\ cur <= d /\ d < e
  BY <1>1, <1>7, <1>8
<1>10. PICK S : S = {k \in Nat : tokens[k] = ";"}
  OBVIOUS
<1>11. d \in S
  BY <1>4, <1>7, <1>8, <1>9, <1>10
<1>12. PICK q \in cur..d : q \in S /\ \A k \in cur..(q - 1) : k \notin S
  BY <1>1, <1>9, <1>11, FirstFrom
<1>13. q \in 7..(e - 1) /\ cur \in 7..(e - 1) /\ cur <= q
  BY <1>1, <1>6, <1>8, <1>9
<1>14. q \in Positions(tokens)
  <2>1. e \in 1..Len(tokens) /\ Len(tokens) \in Nat
    BY <1>1, CursorNow DEF Positions, SInv
  <2>2. q \in 1..Len(tokens)
    BY <1>1, <1>13, <2>1
  <2> QED BY <2>2 DEF Positions
<1>15. \A k \in cur..(q - 1) : k \in Nat
  BY <1>1
<1>16. tokens[q] = ";" /\ \A k \in cur..(q - 1) : tokens[k] # ";"
  BY <1>10, <1>12, <1>15
<1>17. IsStatement(tokens, cur, q)
  BY <1>3, <1>16 DEF IsStatement
<1>18. q \in Ends(tokens, e)
  BY <1>13, <1>16 DEF Ends
<1> QED BY <1>13, <1>14, <1>17, <1>18

\* C's grammar has items of it.
LEMMA StatementAhead ==
    ASSUME SInv, pc = "item", Valid(tokens), tokens[cur] # "}"
    PROVE  \E q \in Positions(tokens) : tokens[q] = ";" /\ ItemsOf(tokens, TRUE, cur, q) # {}
<1>1. PICK e \in Positions(tokens) : Defines(tokens, e) /\ HasItems(tokens, TRUE, e)
  BY DEF Valid
<1>2. e # cur
  BY <1>1 DEF Defines
<1>3. PICK q \in Positions(tokens) :
         cur \in 7..(e - 1) /\ cur <= q /\ q \in Ends(tokens, e) /\ IsStatement(tokens, cur, q)
  BY <1>1, <1>2, BlockAhead
<1>4. tokens[q] = ";"
  BY <1>3 DEF Ends
<1>5. ItemsOf(tokens, TRUE, cur, q) # {}
  BY <1>1, <1>3 DEF HasItems
<1> QED BY <1>4, <1>5

\* The expression of a statement is called for.
LEMMA ItemCallComplete ==
    ASSUME SInv, tokens' = tokens, items' = items, pc = "item", pc' = "unary",
           NEW k \in {"return", "declaration", "expression"}, NEW b \in Positions(tokens),
           NEW q \in Positions(tokens), tokens[q] = ";", NEW t \in CTrees(tokens)[<<0, b, q>>], cur' = b,
           frames' = frames \o <<Frame(k, "", 0, NoExpr), climbing(1)>>,
           Valid(tokens), Headed(tokens, b)
    PROVE  CInv'
<1>1. frames = <<>> /\ tokens \in Inputs
  BY CursorNow DEF SInv, Sound
<1>2. PICK f : f = Frame(k, "", 0, NoExpr)
  OBVIOUS
<1>3. f.kind = k
  BY <1>2 DEF Frame
<1>4. PICK x : x = Aim("item", 0, NoExpr, q)
  OBVIOUS
<1>5. x.kind = "item"
  BY <1>4 DEF Aim
<1>6. Linked("complete", tokens, items, frames, x)
  BY <1>1, <1>5, LinkNone
<1>7. PICK y : y = Aim("expression", 1, t, q)
  OBVIOUS
<1>8. y.kind = "expression" /\ y.end = q
  BY <1>7 DEF Aim
<1>9. CompleteItem(tokens, f, x, y)
  BY <1>3, <1>5, <1>8 DEF CompleteItem
<1>10. CompleteLink(tokens, f, x, Aim("expression", 1, t, q))
  BY <1>7, <1>9 DEF CompleteLink
<1>11. t \in CTrees(tokens)[<<LevelOf(1), b, q>>] /\ 1 \in Minima
  BY MinimumOne
<1>12. AfterLevel(tokens, LevelOf(1), q)
  BY DEF AfterLevel, Closers
<1>16. ~ AssignsToDropped(tokens)
  BY DEF Valid
<1>13. CompleteIn(tokens, b, "unary", node', frames \o <<f, climbing(1)>>, items)
  BY <1>1, <1>6, <1>10, <1>11, <1>12, <1>16, CallComplete
<1>14. frames' = frames \o <<f, climbing(1)>>
  BY <1>2
<1>15. CompleteIn(tokens, cur', pc', node', frames', items)
  BY <1>13, <1>14
<1> QED BY <1>15, WithinComplete DEF Expressions

\* The expression that the grammar has is the aim.
LEMMA ReturnStatementComplete == SInv /\ CInv /\ SInv' /\ ParseReturn => CInv'
<1> SUFFICES ASSUME SInv, CInv, SInv', ParseReturn PROVE CInv'
  OBVIOUS
<1>1. tokens' = tokens /\ items' = items /\ pc = "item" /\ pc' = "unary" /\ tokens[cur] = "return" /\ cur' = cur + 1
      /\ frames' = frames \o <<Frame("return", "", 0, NoExpr), climbing(1)>>
  BY DEF ParseReturn, CallExpression, tok
<1>2. SUFFICES ASSUME Valid(tokens) PROVE CInv'
  BY <1>1, NoFailure
<1>3. cur + 1 \in Positions(tokens)
  BY <1>1, CursorNext DEF SInv
<1>4. PICK q \in Positions(tokens) : tokens[q] = ";" /\ ItemsOf(tokens, TRUE, cur, q) # {}
  BY <1>1, <1>2, StatementAhead
<1>5. PICK t : t \in CTrees(tokens)[<<0, cur + 1, q>>]
  BY <1>1, <1>4 DEF ItemsOf, CTrees, Assignment
<1>6. Headed(tokens, cur + 1)
  BY <1>1, HeadedNow DEF Heads
<1> QED BY <1>1, <1>2, <1>3, <1>4, <1>5, <1>6, ItemCallComplete

\* So it is of an expression statement.
LEMMA ExpressionStatementComplete == SInv /\ CInv /\ SInv' /\ ParseExpressionStatement => CInv'
<1> SUFFICES ASSUME SInv, CInv, SInv', ParseExpressionStatement PROVE CInv'
  OBVIOUS
<1>1. tokens' = tokens /\ items' = items /\ pc = "item" /\ pc' = "unary"
      /\ tokens[cur] \notin {"}", "return", "int"}
      /\ frames' = frames \o <<Frame("expression", "", 0, NoExpr), climbing(1)>>
  BY DEF ParseExpressionStatement, CallExpression, tok
<1>2. SUFFICES ASSUME Valid(tokens) PROVE CInv'
  BY <1>1, NoFailure
<1>3. cur \in Positions(tokens) /\ cur \in Nat
  BY CursorNow DEF SInv
<1>4. cur' = cur
  <2>1. cur' = cur + 0
    BY DEF ParseExpressionStatement, CallExpression
  <2> QED BY <1>3, <2>1
<1>5. PICK q \in Positions(tokens) : tokens[q] = ";" /\ ItemsOf(tokens, TRUE, cur, q) # {}
  BY <1>1, <1>2, StatementAhead
<1>6. PICK t : t \in CTrees(tokens)[<<0, cur, q>>]
  BY <1>1, <1>5 DEF ItemsOf, CTrees, Assignment
<1>7. Headed(tokens, cur)
  <2>1. cur \in Nat /\ cur > 6 /\ (cur = 7 \/ tokens[cur - 1] = ";") /\ tokens[6] = "{"
    BY <1>1, CursorNow DEF SInv, Sound, Block
  <2>2. cur = 7 => cur - 1 = 6
    OBVIOUS
  <2>3. tokens[cur - 1] \in Heads
    BY <2>1, <2>2, Zenon DEF Heads
  <2>4. cur > 1
    <3>1. cur \in Nat /\ cur > 6
      BY <2>1, Zenon
    <3> QED BY <3>1
  <2> QED BY <2>3, <2>4 DEF Headed, Heads
<1> QED BY <1>1, <1>2, <1>3, <1>4, <1>5, <1>6, <1>7, ItemCallComplete

\* So it is of an initializer; without one the ";" is there.
LEMMA DeclarationComplete == SInv /\ CInv /\ SInv' /\ ParseDeclaration => CInv'
<1> SUFFICES ASSUME SInv, CInv, SInv', ParseDeclaration PROVE CInv'
  OBVIOUS
<1>1. tokens' = tokens /\ pc = "item" /\ tokens[cur] = "int"
  BY DEF ParseDeclaration, CallExpression, tok, Fail
<1>2. SUFFICES ASSUME Valid(tokens) PROVE CInv'
  BY <1>1, NoFailure
<1>3. tokens \in Inputs /\ cur \in Positions(tokens)
  BY CursorNow DEF SInv
<1>4. PICK q \in Positions(tokens) : tokens[q] = ";" /\ ItemsOf(tokens, TRUE, cur, q) # {}
  BY <1>1, <1>2, StatementAhead
<1>5. tokens[cur + 1] \in Identifiers
  <2> SUFFICES ASSUME tokens[cur + 1] \notin Identifiers PROVE FALSE
    OBVIOUS
  <2>0. CTrees(tokens)[<<0, cur, q>>] # {}
    BY <1>1, <1>4 DEF ItemsOf, CTrees, Assignment
  <2>1. PICK l : l = 0
    OBVIOUS
  <2>2. l \in 0..13 /\ CTrees(tokens)[<<l, cur, q>>] # {}
    BY <2>0, <2>1
  <2>3. PICK strict : IsStrict(strict) /\ Grammatical(tokens, CTrees(tokens), strict)
    BY <1>3, CTreesGrammatical
  <2>4. tokens[cur] \in First(l)
    BY <1>3, <2>2, <2>3, FirstToken
  <2> QED BY <1>1, <2>1, <2>4, FirstsDiffer DEF First
<1>6. \/ tokens[cur + 2] = ";"
      \/ tokens[cur + 2] = "=" /\ \E t : t \in CTrees(tokens)[<<0, cur + 3, q>>]
  <2>1. CASE q = cur + 2
    BY <1>4, <2>1
  <2>2. CASE q # cur + 2
    BY <1>1, <1>4, <1>5, <2>2 DEF ItemsOf, CTrees, Assignment
  <2> QED BY <2>1, <2>2
<1>7. CASE tokens[cur + 2] = ";"
  <2>1. pc' = "item"
    BY <1>1, <1>5, <1>7 DEF ParseDeclaration, next_tok
  <2> QED BY <2>1, OutsideComplete DEF Expressions
<1>8. CASE tokens[cur + 2] = "=" /\ \E t : t \in CTrees(tokens)[<<0, cur + 3, q>>]
  <2>1. items' = items /\ pc' = "unary" /\ cur' = cur + 3
        /\ frames' = frames \o <<Frame("declaration", "", 0, NoExpr), climbing(1)>>
    BY <1>1, <1>5, <1>8 DEF ParseDeclaration, next_tok, CallExpression
  <2>2. PICK t : t \in CTrees(tokens)[<<0, cur + 3, q>>]
    BY <1>8
  <2>3. cur + 3 \in Positions(tokens)
    BY <1>1, <2>1, CursorNext DEF SInv
  <2>4. Headed(tokens, cur + 3)
    <3>1. cur + 2 \in Nat /\ cur + 2 > 0 /\ (cur + 2) + 1 = cur + 3
      BY <1>3, InputsEndWithEOF DEF Positions
    <3>2. Headed(tokens, (cur + 2) + 1)
      BY <1>8, <3>1, HeadedBehind DEF Heads
    <3> QED BY <3>1, <3>2
  <2> QED BY <1>1, <1>2, <1>4, <2>1, <2>2, <2>3, <2>4, ItemCallComplete
<1> QED BY <1>6, <1>7, <1>8

\* The ";" is where the expression ends.
LEMMA ItemEndComplete == SInv /\ CInv /\ SInv' /\ ParseItemEnd => CInv'
<1> SUFFICES ASSUME SInv, CInv, SInv', ParseItemEnd PROVE CInv'
  OBVIOUS
<1>0. PICK f : f = Last(frames)
  OBVIOUS
<1>1. tokens' = tokens /\ pc = "expression" /\ f.kind \in {"return", "declaration", "expression"}
  BY <1>0 DEF ParseItemEnd, Fail, top
<1>2. SUFFICES ASSUME Valid(tokens) PROVE CInv'
  BY <1>1, NoFailure
<1>3. PICK y : Linked("complete", tokens, items, frames, y) /\ y.kind = "expression" /\ Hit(cur, node, y)
  BY <1>1, <1>2, AimAt DEF Expressions
<1>4. PICK x : Linked("complete", tokens, items, Front(frames), x) /\ CompleteLink(tokens, f, x, y)
  BY <1>0, <1>3, ReturnComplete
<1>5. CompleteItem(tokens, f, x, y)
  BY <1>1, <1>4, AimLinks
<1>6. tokens[cur] = ";"
  BY <1>3, <1>5 DEF CompleteItem, Hit
<1>7. pc' = "item"
  BY <1>6 DEF ParseItemEnd, matches, tok
<1> QED BY <1>7, OutsideComplete DEF Expressions

\* The parser begins without a failure.
LEMMA InitComplete == Init => CInv
BY DEF Init, CInv, Complete, Expressions

\* Every step keeps the invariant.
LEMMA NextComplete == SInv /\ CInv /\ SInv' /\ [Next]_parserVars => CInv'
<1> SUFFICES ASSUME SInv, CInv, SInv', [Next]_parserVars PROVE CInv'
  OBVIOUS
<1>1. CASE ParseStatement
  BY <1>1, HeaderComplete, EndComplete, ReturnStatementComplete, DeclarationComplete, ExpressionStatementComplete,
     ItemEndComplete DEF ParseStatement
<1>2. CASE ParseUnary
  BY <1>2, PrefixComplete, SizeofComplete, TerminalComplete, ParenComplete, UnexpectedComplete,
     PostfixOperatorComplete, SubscriptComplete, ArgumentsComplete, MemberComplete, ClosingComplete,
     PostfixDoneComplete, OperandComplete DEF ParseUnary
<1>3. CASE ParseExpression
  BY <1>3, AssignToComplete, BinaryComplete, ClimbDoneComplete, RightComplete DEF ParseExpression
<1>4. CASE UNCHANGED parserVars
  <2>1. tokens' = tokens /\ cur' = cur /\ pc' = pc /\ node' = node /\ frames' = frames /\ items' = items
    BY <1>4 DEF parserVars
  <2> QED BY <2>1 DEF CInv
<1> QED BY <1>1, <1>2, <1>3, <1>4 DEF Next

\* The parser neither rejects a definition of C that it has the productions for
\* nor faults on it, unless it has a sizeof, or assigns to a constant behind which
\* the parser drops a subscript, arguments or a member.
THEOREM ParserComplete == Spec => []AcceptsGrammar
<1>1. CInv => AcceptsGrammar
  BY DEF CInv, Complete, AcceptsGrammar, Valid
<1>2. SInv /\ CInv /\ [Next]_parserVars => (SInv /\ CInv)'
  BY NextSound, NextComplete
<1> QED BY <1>1, <1>2, InitSound, InitComplete, PTL DEF Spec

=============================================================================
