------------------------------ MODULE Grammar ------------------------------
(***************************************************************************)
(* What the parser should do: the expression grammar of C (6.5.1-6.5.16)   *)
(* as far as parser.c has its productions, one level per nonterminal, and  *)
(* the trees it gives the tokens.  There is no conditional, cast or comma  *)
(* expression.  What the parser reads and drops (a subscript, the          *)
(* arguments of a call, a member) has the tree of its left operand.        *)
(*                                                                         *)
(* A span of the tokens s is given by its first position and the one       *)
(* behind it.                                                              *)
(***************************************************************************)
EXTENDS Parser, FiniteSets

\* logical-OR-expression down to multiplicative-expression.
Levels == << {"||"}, {"&&"}, {"|"}, {"^"}, {"&"}, {"==", "!="},
             {"<", ">", "<=", ">="}, {"<<", ">>"}, {"+", "-"}, {"*", "/", "%"} >>

Assignment == 0
UnaryLevel == 11
PostfixLevel == 12
PrimaryLevel == 13

Positions(s) == 1..Len(s)

-----------------------------------------------------------------------------
(* The productions.  T has the trees of shorter spans.  With strict they   *)
(* are C's: an assignment is to a unary expression, which no constant is   *)
(* that is written as such, and there is no sizeof.  Without, they are     *)
(* what the parser makes of them: an assignment is to any operand of which *)
(* no bare constant is left, and sizeof is dropped.                        *)

\* Where an operator can part the span.
Parting(s, ops, p, q) == {k \in (p + 1)..(q - 2) : s[k] \in ops}

\* What is left of the operand is no constant.
Assignable(t) == t # NoExpr /\ t.op # "CONST"

\* The tokens from p to k are a constant in n pairs of parentheses.
IsConstant(s, p, k) ==
    \E n \in 0..(k - p) : /\ k = p + 2 * n + 1 /\ s[p + n] \in Constants
                          /\ \A j \in 1..n : s[p + j - 1] = "(" /\ s[k - j] = ")"

\* The tokens from p to k, with the tree t, can be assigned to.
IsTarget(s, strict, p, k, t) == IF strict THEN ~ IsConstant(s, p, k) ELSE Assignable(t)

Bins(o, A, B) == {Bin(o, x[1], x[2]) : x \in A \X B}

AssignmentTrees(s, strict, T, p, q) ==
    UNION {Bins("ASSIGN",
                {t \in T[<<IF strict THEN UnaryLevel ELSE 1, p, k>>] : IsTarget(s, strict, p, k, t)},
                T[<<Assignment, k + 1, q>>]) : k \in Parting(s, {"="}, p, q)}

BinaryTrees(s, T, level, p, q) ==
    UNION {Bins(binary_op_type[s[k]], T[<<level, p, k>>], T[<<level + 1, k + 1, q>>]) :
                k \in Parting(s, Levels[level], p, q)}

UnaryTrees(s, strict, T, p, q) ==
    IF s[p] \in DOMAIN prefix_op_type
    THEN {Un(prefix_op_type[s[p]], a) : a \in T[<<UnaryLevel, p + 1, q>>]}
    ELSE IF strict \/ s[p] # "sizeof" \/ q = p + 1 THEN {}
    ELSE IF s[p + 1] # "(" THEN T[<<UnaryLevel, p + 1, q>>]
    ELSE IF q = p + 3 /\ s[p + 2] = ")" THEN {NoExpr} ELSE {}

\* From k on the span is a subscript, the arguments of a call or a member.
Drops(s, T, k, q) ==
    \/ s[k] = "[" /\ s[q - 1] = "]" /\ T[<<Assignment, k + 1, q - 1>>] # {}
    \/ s[k] = "(" /\ s[q - 1] = ")" /\ (k = q - 2 \/ T[<<Assignment, k + 1, q - 1>>] # {})
    \/ s[k] \in {".", "->"} /\ k = q - 2 /\ s[q - 1] \in Identifiers

PostfixTrees(s, T, p, q) ==
    {Un(postfix_op_type[s[q - 1]], a) :
        a \in {t \in T[<<PostfixLevel, p, q - 1>>] : s[q - 1] \in DOMAIN postfix_op_type}}
    \cup UNION {T[<<PostfixLevel, p, k>>] : k \in {j \in (p + 1)..(q - 2) : Drops(s, T, j, q)}}

PrimaryTrees(s, T, p, q) ==
    IF q = p + 1
    THEN IF s[p] \in Constants THEN {Leaf("CONST", s[p])}
         ELSE IF s[p] \in Identifiers THEN {Leaf("VAR", s[p])} ELSE {}
    ELSE IF s[p] = "(" /\ s[q - 1] = ")" THEN T[<<Assignment, p + 1, q - 1>>] ELSE {}

OwnTrees(s, strict, T, level, p, q) ==
    CASE level = Assignment -> AssignmentTrees(s, strict, T, p, q)
      [] level \in 1..10 -> BinaryTrees(s, T, level, p, q)
      [] level = UnaryLevel -> UnaryTrees(s, strict, T, p, q)
      [] level = PostfixLevel -> PostfixTrees(s, T, p, q)
      [] level = PrimaryLevel -> PrimaryTrees(s, T, p, q)

\* The trees of every span at every level: its own, and those of the levels below.
Trees(s, strict) ==
    LET T[x \in (Assignment..PrimaryLevel) \X Positions(s) \X Positions(s)] ==
            IF x[2] >= x[3] THEN {}
            ELSE UNION {OwnTrees(s, strict, T, level, x[2], x[3]) : level \in x[1]..PrimaryLevel}
    IN  T

-----------------------------------------------------------------------------
(* Function definitions.                                                   *)

\* The items of the statement from p to the ";" at q.
ItemsOf(s, strict, p, q) ==
    IF s[p] = "return"
    THEN {Item("return", t) : t \in Trees(s, strict)[<<Assignment, p + 1, q>>]}
    ELSE IF s[p] = "int" /\ s[p + 1] \in Identifiers
    THEN IF q = p + 2 THEN {Declaration(NoExpr)}
         ELSE {Declaration(t) :
                  t \in {u \in Trees(s, strict)[<<Assignment, p + 3, q>>] : s[p + 2] = "="}}
    ELSE {Item("expression", t) : t \in Trees(s, strict)[<<Assignment, p, q>>]}

\* The tokens begin with a function definition whose block ends in front of e.
Defines(s, e) ==
    /\ e > 6 /\ s[e] = "}" /\ \A k \in 7..(e - 1) : s[k] # "}"
    /\ s[1] = "int" /\ s[2] \in Identifiers /\ s[3] = "(" /\ s[4] = "void" /\ s[5] = ")" /\ s[6] = "{"
    /\ e = 7 \/ s[e - 1] = ";"

\* The ends of the statements in front of e.
Ends(s, e) == {k \in 7..(e - 1) : s[k] = ";"}

\* A statement is from p to the ";" at q.
IsStatement(s, p, q) ==
    /\ p = 7 \/ s[p - 1] = ";"
    /\ s[q] = ";" /\ \A k \in p..(q - 1) : s[k] # ";"

\* its are items that the grammar gives to the block.
ItemsMatch(s, strict, e, its) ==
    /\ Len(its) = Cardinality(Ends(s, e))
    /\ \A q \in Ends(s, e), p \in 7..(e - 1) :
          p <= q /\ IsStatement(s, p, q) => its[Cardinality(Ends(s, q + 1))] \in ItemsOf(s, strict, p, q)

HasItems(s, strict, e) ==
    \A q \in Ends(s, e), p \in 7..(e - 1) : p <= q /\ IsStatement(s, p, q) => ItemsOf(s, strict, p, q) # {}

-----------------------------------------------------------------------------

\* The tree is one that the grammar gives the tokens: precedence, associativity
\* and parentheses are the grammar's through any nesting, and no item is lost.
TreeIsGrammars == pc = "parsed" => \E e \in Positions(tokens) :
                      Defines(tokens, e) /\ ItemsMatch(tokens, FALSE, e, items)

\* An assignment expression can begin at p.
Headed(s, p) == p > 1 /\ s[p - 1] \in {"=", "(", "[", "return", ";", "{"}

\* Somewhere a constant with a subscript, arguments or a member behind it is
\* assigned to, as in "ab"[0] = x or 1[p] = x.  parse_postfix_expression drops
\* what is behind the constant, and the test for an operand that cannot be
\* assigned to looks at what is left.
AssignsToDropped(s) ==
    \E p, k \in Positions(s) :
        /\ p < k /\ Headed(s, p) /\ s[k] = "="
        /\ ~ IsConstant(s, p, k)
        /\ \E t \in Trees(s, TRUE)[<<UnaryLevel, p, k>>] : ~ Assignable(t)

\* The parser neither rejects a definition of C that it has the productions for
\* nor faults on it, but for one that assigns to a constant with something behind
\* it that the parser drops: such an assignment is C, and is rejected.  Nothing is
\* said of a definition with a sizeof, of which the parser has no whole production.
AcceptsGrammar ==
    pc \in {"error", "crashed"} =>
        \A e \in Positions(tokens) :
            Defines(tokens, e) /\ HasItems(tokens, TRUE, e) => AssignsToDropped(tokens)

=============================================================================
