------------------------------- MODULE Parser -------------------------------
(***************************************************************************)
(* parser.c: tokens to syntax tree.  The functions of parser.c call one    *)
(* another recursively; here the C stack is the sequence frames, and pc    *)
(* names the function that runs or, past it, what it returns to:           *)
(*                                                                         *)
(*   header, item   parse_function_definition, parse_compound_statement    *)
(*   unary          parse_unary_expression is called                       *)
(*   postfix        the loop of parse_postfix_expression                   *)
(*   operand        parse_unary_expression returns node                    *)
(*   climb          the loop of parse_expression_internal, lhs in node     *)
(*   expression     parse_expression_internal returns node                 *)
(*                                                                         *)
(* A keyword, punctuator or TK_EOF token is its text; an identifier or a   *)
(* constant is a member of Identifiers or Constants.                       *)
(***************************************************************************)
EXTENDS Ast, Integers, Sequences, SequencesExt

CONSTANTS
    Inputs,        \* the token arrays to parse, as lex makes them
    Identifiers,   \* the identifier tokens
    Constants      \* the constant and string literal tokens

EOF == "EOF"

\* lex puts one TK_EOF token behind the others.
ASSUME InputsEndWithEOF ==
    \A s \in Inputs : /\ s \in Seq(STRING)
                      /\ s # <<>> /\ s[Len(s)] = EOF
                      /\ \A j \in 1..Len(s) : s[j] = EOF => j = Len(s)

\* An identifier is no constant, and neither has the text of a token that the
\* parser asks for.
ASSUME KindsDiffer ==
    /\ Identifiers \cap Constants = {}
    /\ (Identifiers \cup Constants) \cap
         {EOF, "int", "void", "return", "sizeof", "(", ")", "[", "]", "{", "}", ";",
          ".", "->", "++", "--", "!", "~", "*", "/", "+", "-", "%", "<<", ">>", "<",
          "<=", ">", ">=", "==", "!=", "&", "^", "|", "&&", "||", "="} = {}

VARIABLES
    tokens,   \* parser->tokens
    cur,      \* parser->cur, counted from 1
    pc,       \* where the parser is
    node,     \* the tree being built or returned
    frames,   \* the calls that wait for it, innermost last
    items     \* the block items so far

parserVars == <<tokens, cur, pc, node, frames, items>>

-----------------------------------------------------------------------------
(* The tables.                                                             *)

prefix_op_type ==
    [t \in {"++", "--", "*", "&", "+", "-", "!", "~"} |->
        CASE t = "++" -> "PREINC" [] t = "--" -> "PREDEC" [] t = "*" -> "DEREF"
          [] t = "&" -> "ADDROF"  [] t = "+" -> "POS"     [] t = "-" -> "NEG"
          [] t = "!" -> "NOT"     [] t = "~" -> "BITNOT"]

postfix_op_type == [t \in {"++", "--"} |-> IF t = "++" THEN "POSTINC" ELSE "POSTDEC"]

binary_op_type ==
    [t \in {"*", "/", "+", "-", "%", "<<", ">>", "<", "<=", ">", ">=", "==", "!=",
            "&", "^", "|", "&&", "||", "="} |->
        CASE t = "*"  -> "MUL"    [] t = "/"  -> "DIV"    [] t = "+"  -> "ADD"
          [] t = "-"  -> "SUB"    [] t = "%"  -> "MOD"    [] t = "<<" -> "SHL"
          [] t = ">>" -> "SHR"    [] t = "<"  -> "LT"     [] t = "<=" -> "LE"
          [] t = ">"  -> "GT"     [] t = ">=" -> "GE"     [] t = "==" -> "EQ"
          [] t = "!=" -> "NE"     [] t = "&"  -> "BITAND" [] t = "^"  -> "BITXOR"
          [] t = "|"  -> "BITOR"  [] t = "&&" -> "AND"    [] t = "||" -> "OR"
          [] t = "="  -> "ASSIGN"]

\* The precedence of the binary operators; the others' is never asked for.
PRECEDENCE(o) ==
    CASE o \in {"MUL", "DIV", "MOD"} -> 13
      [] o \in {"ADD", "SUB"} -> 12
      [] o \in {"SHL", "SHR"} -> 11
      [] o \in {"LT", "LE", "GT", "GE"} -> 10
      [] o \in {"EQ", "NE"} -> 9
      [] o = "BITAND" -> 8
      [] o = "BITXOR" -> 7
      [] o = "BITOR" -> 6
      [] o = "AND" -> 5
      [] o = "OR" -> 4
      [] o = "ASSIGN" -> 2

ASSOC(o) == IF o = "ASSIGN" THEN "RIGHT" ELSE "LEFT"

\* Mutant: the right operand of a left-associative operator takes operators of
\* the same precedence.
next_min_pred_same(o) == PRECEDENCE(o)

\* The least precedence of an operator in the right operand of o.
next_min_pred(o) == IF ASSOC(o) = "LEFT" THEN PRECEDENCE(o) + 1 ELSE PRECEDENCE(o)

-----------------------------------------------------------------------------
(* Tokens and calls.                                                       *)

tok == tokens[cur]
next_tok == tokens[cur + 1]

\* A call that waits: [kind, op, min, node].
Frame(k, o, m, n) == [kind |-> k, op |-> o, min |-> m, node |-> n]
top == Last(frames)
callers == Front(frames)

\* A call of parse_expression_internal that has no operator pending.
climbing(min_pred) == Frame("climb", "", min_pred, NoExpr)

\* Mutant: check_token's error does not stop the parser.
matches_any(t) == TRUE

\* check_token lets the parser go on.
matches(t) == tok = t

Fail ==
    /\ pc' = "error"
    /\ UNCHANGED <<tokens, cur, node, frames, items>>

\* A call of parse_expression by the code that frame stands for, behind n tokens
\* of its own.
CallExpression(frame, n) ==
    /\ frames' = frames \o <<frame, climbing(1)>>
    /\ cur' = cur + n
    /\ pc' = "unary"
    /\ UNCHANGED <<tokens, node, items>>

Init ==
    /\ tokens \in Inputs
    /\ cur = 1
    /\ pc = "header"
    /\ node = NoExpr
    /\ frames = <<>>
    /\ items = <<>>

-----------------------------------------------------------------------------
(* The function definition and its statements.                             *)

Header == << "int", "identifier", "(", "void", ")", "{" >>

header_matches(k) == IF Header[k] = "identifier" THEN tok \in Identifiers
                     ELSE matches(Header[k])

ParseHeader ==
    /\ pc = "header"
    /\ IF header_matches(cur)
       THEN /\ cur' = cur + 1
            /\ pc' = IF cur = 6 THEN "item" ELSE "header"
            /\ UNCHANGED <<tokens, node, frames, items>>
       ELSE Fail

\* The closing brace ends the definition, whatever follows it.
ParseEnd ==
    /\ pc = "item" /\ tok = "}"
    /\ cur' = cur + 1
    /\ pc' = "parsed"
    /\ UNCHANGED <<tokens, node, frames, items>>

ParseReturn ==
    /\ pc = "item" /\ tok = "return"
    /\ CallExpression(Frame("return", "", 0, NoExpr), 1)

ParseDeclaration ==
    /\ pc = "item" /\ tok = "int"
    /\ IF next_tok \notin Identifiers THEN Fail
       ELSE IF tokens[cur + 2] = "="
       THEN CallExpression(Frame("declaration", "", 0, NoExpr), 3)
       ELSE IF tokens[cur + 2] = ";"
       THEN /\ items' = Append(items, Declaration(NoExpr))
            /\ cur' = cur + 3
            /\ UNCHANGED <<tokens, pc, node, frames>>
       ELSE Fail

ParseExpressionStatement ==
    /\ pc = "item" /\ tok \notin {"}", "return", "int"}
    /\ CallExpression(Frame("expression", "", 0, NoExpr), 0)

\* The item's expression is done: ";" and the item is kept.
ParseItemEnd ==
    /\ pc = "expression" /\ top.kind \in {"return", "declaration", "expression"}
    /\ IF matches(";")
       THEN /\ items' = Append(items, IF top.kind = "declaration" THEN Declaration(node)
                                      ELSE Item(top.kind, node))
            /\ cur' = cur + 1
            /\ pc' = "item"
            /\ frames' = callers
            /\ UNCHANGED <<tokens, node>>
       ELSE Fail

-----------------------------------------------------------------------------
(* Expressions.                                                            *)

\* A prefix operator is applied to the unary expression behind it;
\* parse_cast_expression never finds a type name.
ParsePrefix ==
    /\ pc = "unary" /\ tok \in DOMAIN prefix_op_type
    /\ frames' = Append(frames, Frame("apply", prefix_op_type[tok], 0, NoExpr))
    /\ cur' = cur + 1
    /\ UNCHANGED <<tokens, pc, node, items>>

\* sizeof is dropped; in front of a parenthesis it takes "( )" and is NULL.
ParseSizeof ==
    /\ pc = "unary" /\ tok = "sizeof"
    /\ IF next_tok # "("
       THEN /\ cur' = cur + 1
            /\ UNCHANGED <<tokens, pc, node, frames, items>>
       ELSE IF tokens[cur + 2] = ")"
       THEN /\ node' = NoExpr
            /\ cur' = cur + 3
            /\ pc' = "operand"
            /\ UNCHANGED <<tokens, frames, items>>
       ELSE Fail

ParseTerminal ==
    /\ pc = "unary" /\ tok \in Constants \cup Identifiers
    /\ node' = Leaf(IF tok \in Constants THEN "CONST" ELSE "VAR", tok)
    /\ cur' = cur + 1
    /\ pc' = "postfix"
    /\ UNCHANGED <<tokens, frames, items>>

ParseParen ==
    /\ pc = "unary" /\ tok = "("
    /\ CallExpression(Frame(")", "", 0, NoExpr), 1)

ParseUnexpected ==
    /\ pc = "unary"
    /\ tok \notin DOMAIN prefix_op_type \cup {"sizeof", "("} \cup Constants \cup Identifiers
    /\ Fail

ParsePostfixOperator ==
    /\ pc = "postfix" /\ tok \in DOMAIN postfix_op_type
    /\ node' = Un(postfix_op_type[tok], node)
    /\ cur' = cur + 1
    /\ UNCHANGED <<tokens, pc, frames, items>>

\* Mutant: the parentheses are looked at and not consumed.
at_arguments(c) == c

\* The cursor behind the "( )" of a call without arguments.
behind_arguments(c) == c + 2

\* A subscript, an argument list or a member leaves the node as it was.
ParseSubscript ==
    /\ pc = "postfix" /\ tok = "["
    /\ CallExpression(Frame("dropped ]", "", 0, node), 1)

ParseArguments ==
    /\ pc = "postfix" /\ tok = "("
    /\ IF next_tok = ")"
       THEN /\ cur' = behind_arguments(cur)
            /\ UNCHANGED <<tokens, pc, node, frames, items>>
       ELSE CallExpression(Frame("dropped )", "", 0, node), 1)

ParseMember ==
    /\ pc = "postfix" /\ tok \in {".", "->"}
    /\ IF next_tok \in Identifiers
       THEN /\ cur' = cur + 2
            /\ UNCHANGED <<tokens, pc, node, frames, items>>
       ELSE Fail

\* Mutant: a parenthesised expression takes no postfix operator.
continues_climbing(kind) == IF kind = ")" THEN "operand" ELSE "postfix"

\* Where a closing bracket of that kind leaves the parser.
continues(kind) == "postfix"

closing(kind) == IF kind = "dropped ]" THEN "]" ELSE ")"

\* The bracket that a primary or postfix expression opened is closed.
ParseClosing ==
    /\ pc = "expression" /\ top.kind \in {")", "dropped ]", "dropped )"}
    /\ IF matches(closing(top.kind))
       THEN /\ node' = IF top.kind = ")" THEN node ELSE top.node
            /\ cur' = cur + 1
            /\ frames' = callers
            /\ pc' = continues(top.kind)
            /\ UNCHANGED <<tokens, items>>
       ELSE Fail

ParsePostfixDone ==
    /\ pc = "postfix"
    /\ tok \notin DOMAIN postfix_op_type \cup {"[", "(", ".", "->"}
    /\ pc' = "operand"
    /\ UNCHANGED <<tokens, cur, node, frames, items>>

\* A unary expression returns to the operator in front of it, or becomes the
\* left operand of the loop.
ParseOperand ==
    /\ pc = "operand"
    /\ IF top.kind = "apply"
       THEN /\ node' = Un(top.op, node)
            /\ frames' = callers
            /\ pc' = pc
       ELSE /\ pc' = "climb"
            /\ UNCHANGED <<node, frames>>
    /\ UNCHANGED <<tokens, cur, items>>

\* The loop goes on with the operator o.
takes(o, min_pred) == PRECEDENCE(o) >= min_pred

\* A constant cannot be assigned to.  This is looked at before the precedence
\* is, and an operand that is NULL faults.
ParseAssignTo ==
    /\ pc = "climb" /\ tok = "="
    /\ \/ /\ node = NoExpr
          /\ pc' = "crashed"
          /\ UNCHANGED <<tokens, cur, node, frames, items>>
       \/ /\ node # NoExpr /\ node.op = "CONST"
          /\ Fail

ParseBinary ==
    LET o == binary_op_type[tok] IN
    /\ pc = "climb" /\ tok \in DOMAIN binary_op_type
    /\ tok = "=" => node # NoExpr /\ node.op # "CONST"
    /\ takes(o, top.min)
    /\ frames' = callers \o <<[top EXCEPT !.op = o, !.node = node],
                              climbing(next_min_pred(o))>>
    /\ cur' = cur + 1
    /\ pc' = "unary"
    /\ UNCHANGED <<tokens, node, items>>

\* No operator, or one that an enclosing call takes.
ParseClimbDone ==
    /\ pc = "climb"
    /\ tok = "=" => node # NoExpr /\ node.op # "CONST"
    /\ tok \in DOMAIN binary_op_type => ~ takes(binary_op_type[tok], top.min)
    /\ frames' = callers
    /\ pc' = "expression"
    /\ UNCHANGED <<tokens, cur, node, items>>

\* The right operand is done, and the whole is the left operand of what follows.
ParseRight ==
    /\ pc = "expression" /\ top.kind = "climb"
    /\ node' = Bin(top.op, top.node, node)
    /\ frames' = Append(callers, [top EXCEPT !.op = "", !.node = NoExpr])
    /\ pc' = "climb"
    /\ UNCHANGED <<tokens, cur, items>>

-----------------------------------------------------------------------------

ParseStatement ==
    \/ ParseHeader \/ ParseEnd \/ ParseReturn \/ ParseDeclaration
    \/ ParseExpressionStatement \/ ParseItemEnd

ParseUnary ==
    \/ ParsePrefix \/ ParseSizeof \/ ParseTerminal \/ ParseParen \/ ParseUnexpected
    \/ ParsePostfixOperator \/ ParseSubscript \/ ParseArguments \/ ParseMember
    \/ ParseClosing \/ ParsePostfixDone \/ ParseOperand

ParseExpression == ParseAssignTo \/ ParseBinary \/ ParseClimbDone \/ ParseRight

Next == ParseStatement \/ ParseUnary \/ ParseExpression

Spec == Init /\ [][Next]_parserVars /\ WF_parserVars(Next)

-----------------------------------------------------------------------------
(* Properties.                                                             *)

\* The parser stays within the token array: it never moves past TK_EOF, so that
\* every token it looks at, without asking has_token, is there.
CursorInRange ==
    /\ cur \in 1..Len(tokens)
    /\ pc \in {"header", "item", "unary", "postfix", "operand", "climb", "expression",
               "parsed", "error", "crashed"}

\* The parser ends on every input: it builds a tree, rejects the input or faults.
ParseEnds == <>(pc \in {"parsed", "error", "crashed"})

=============================================================================
