------------------------------ MODULE MCParser ------------------------------
(* Every short expression over a few tokens of each kind, every pair and a   *)
(* triple of binary operators, and damaged programs.                         *)
EXTENDS Grammar

MCIdentifiers == {"x", "main"}
MCConstants == {"1", "2"}

Program(body) == <<"int", "main", "(", "void", ")", "{">> \o body \o <<"}", EOF>>
Returning(e) == Program(<<"return">> \o e \o <<";">>)

Strings(alphabet, n) == UNION {[1..k -> alphabet] : k \in 0..n}

Operators == DOMAIN binary_op_type
OnePerLevel == {"=", "||", "&", "==", "<", "-", "*"}

Pairs == {<<"x", o, "1", p, "2">> : o \in Operators, p \in Operators}
         \cup {<<"x", o, "(", "1", p, "2", ")">> : o \in Operators, p \in Operators}
         \cup {<<"x", o, "-", "x", "++", p, "2">> : o \in Operators, p \in Operators}
Triples == {<<"x", o, "1", p, "x", q, "2">> :
                 o \in OnePerLevel, p \in OnePerLevel, q \in OnePerLevel}

ShortExpressions ==
    Strings({"1", "x", "(", ")", "-", "++", "="}, 5)
    \cup Strings({"x", "(", ")", "[", "]", "->", "*", "&&"}, 4)
    \cup Strings({"x", "(", ")", "sizeof", "=", "!"}, 4)

\* Constants to the left of "=": as such, behind an operator, and with a
\* subscript, arguments or a member behind them.
Targets == {<<"(", "1", ")">>, <<"(", "(", "1", ")", ")">>, <<"-", "1">>, <<"1", "++">>,
            <<"1", "[", "x", "]">>, <<"1", "(", ")">>, <<"1", "->", "x">>,
            <<"-", "1", "[", "x", "]">>, <<"(", "1", ")", "[", "x", "]">>,
            <<"(", "1", "[", "x", "]", ")">>, <<"x", "[", "1", "(", "x", ")", "]">>}
ToTargets == {t \o <<"=", "2">> : t \in Targets} \cup {<<"x", "=">> \o t \o <<"=", "2">> : t \in Targets}

Statements == << "int", "x", "=", "1", ";", "int", "x", ";", "x", "=", "x", "+", "2", ";",
                 "return", "x", "(", "x", ")", ";" >>
Whole == Program(Statements)

Truncated == {SubSeq(Whole, 1, k) \o <<EOF>> : k \in 0..(Len(Whole) - 1)}
Replaced == {[Whole EXCEPT ![k] = t] :
                 k \in 1..(Len(Whole) - 1), t \in {"int", "x", "1", "}", ";", "=", "("}}
Dropped == {SubSeq(Whole, 1, k - 1) \o SubSeq(Whole, k + 1, Len(Whole)) :
                 k \in 1..(Len(Whole) - 1)}

MCInputs == {Returning(e) : e \in Pairs \cup Triples \cup ShortExpressions \cup ToTargets}
            \cup {Whole, Program(<<>>)} \cup Truncated \cup Replaced \cup Dropped
=============================================================================
