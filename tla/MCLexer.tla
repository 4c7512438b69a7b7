------------------------------- MODULE MCLexer -------------------------------
(* Short texts over the characters of numbers, of literals and of punctuators,  *)
(* constants with suffixes, literals of every kind with escapes, multi-byte      *)
(* characters and bad endings, and texts of several tokens and lines.            *)
EXTENDS Lexemes

Strings(alphabet, n) == UNION {[1..k -> alphabet] : k \in 0..n}
Texts(ws) == {Bytes(w) : w \in ws}
NewLine == <<NL>>
Space == <<32>>

Numbers == Strings(Chars("018xe.+u"), 4)
           \cup {a \o b : a \in Texts({"0", "017", "08", "12", "0x1F", "0x", "1.5", "0x1.8", "0x.8p-1",
                                       "1e5", ".5e+1", "999999999", "0x1p"}),
                          b \in Texts({"", "u", "l", "f", "ull", "LLu", "Ul", "lU", "uLl", "lul", "ulla",
                                       "F1", "p3", ".", ".e"})}

Quotes == Strings(Chars("'\"\\7xua") \cup {NL}, 4)
Elements == Texts({"a", "\\n", "\\y", "\\x", "\\x4f", "\\x041", "\\7", "\\377", "\\400", "\\1234", "'", "\\\"",
                   "\\"})
            \cup {<<195, 169>>, <<226, 130, 172>>, <<240, 159, 152, 128>>, <<247, 191, 191, 191>>,
                <<195>>, <<226, 130>>, <<128>>}
Literals == {p \o q \o e \o z :
                 p \in Texts({"", "L", "u", "U", "u8"}), q \in Texts({"'", "\""}),
                 e \in {<<>>} \cup Elements \cup {a \o b : a, b \in Elements},
                 z \in Texts({"", "'", "\""}) \cup {NewLine}}

Operators == Strings(Chars("+->=.&|#"), 3) \cup Strings(Chars("*/%!<:^=@"), 3)

Pieces == Texts({"int", "x", "1", ".", "'ab'", "\"s\"", "L\"\\y\\y\"", "u", "\\"}) \cup {<<QUOTE, BACKSLASH, NL, QUOTE>>}
Lines == {a \o x \o b \o y \o c : a, b, c \in Pieces, x, y \in {<<>>, Space, NewLine}}
         \cup {NewLine \o Space \o a \o NewLine \o b \o Space \o c \o <<TAB, NL>> : a, b, c \in Pieces}

MCInputs == {t \o <<NUL>> : t \in Numbers \cup Quotes \cup Literals \cup Operators \cup Lines}
==============================================================================
