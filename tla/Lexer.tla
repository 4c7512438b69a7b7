-------------------------------- MODULE Lexer --------------------------------
(***************************************************************************)
(* lexer.c: from a source text to tokens, with the array of the tokens,    *)
(* the alert queue and the literals on a heap of blocks.  pc names where   *)
(* lex is:                                                                 *)
(*                                                                         *)
(*   loop                    the head of lex's loop                        *)
(*   numeric, char, string, identifier, punctuator                         *)
(*                           the sub-lexer that is tried next              *)
(*   char_body, wide, wide_close, wide_rest, str_body                      *)
(*                           inside a literal, at position s               *)
(*   report, clear           alert_queue_report and what follows it        *)
(*   returned, destroy       the caller has the tokens; destroy_tokens     *)
(*   done, exit, overrun     the end; exit(1); a read behind the text      *)
(*                                                                         *)
(* A text is a sequence of bytes that ends with its only NUL; a pointer    *)
(* into it is a position, and 0 is NULL.                                   *)
(***************************************************************************)
EXTENDS Alerts, Unicode, Chars, FiniteSetsExt

CONSTANTS
    Inputs,       \* the texts
    ULLONG_MAX,   \* where strtoull saturates
    UINT32_MAX    \* the largest value of a uint32_t

ASSUME TextsEndWithNul ==
    \A t \in Inputs : /\ t \in Seq(0..255)
                       /\ t # <<>>
                       /\ \A k \in 1..Len(t) : t[k] = NUL <=> k = Len(t)

ASSUME MaxAssumption == ULLONG_MAX \in Nat /\ UINT32_MAX \in Nat /\ UINT32_MAX >= 255

VARIABLES
    text,       \* the source
    cur,        \* lexer->cur
    line,       \* lexer->line
    line_num, col_num,
    tokens,     \* lexer->tokens
    pc,
    s,          \* the position inside a literal
    width,      \* the literal's char_width
    arr,        \* the array of a string literal, or the characters of another
    i           \* the index of the loops over alerts and tokens

lexVars == <<text, cur, line, line_num, col_num, tokens, pc, s, width, arr, i>>
vars == <<lexVars, alertVars>>

-----------------------------------------------------------------------------
(* Scanning.                                                               *)

Positions == 1..Len(text)

\* `while (class(*p)) ++p' from position p.
Skip(p, class) == CHOOSE j \in p..Len(text) :
                      text[j] \notin class /\ \A k \in p..(j - 1) : text[k] \in class

matches(w, p) == p + Len(w) - 1 <= Len(text) /\ \A k \in DOMAIN w : text[p + k - 1] = w[k]

\* Mutant: a later, shorter entry of the table wins.
last_match(table, p) ==
    LET found == {k \in DOMAIN table : matches(table[k], p)}
    IN IF found = {} THEN 0 ELSE Len(table[Max(found)])

\* The length of the first string of a table that matches at p, or 0.
first_match(table, p) ==
    LET found == {k \in DOMAIN table : matches(table[k], p)}
    IN IF found = {} THEN 0 ELSE Len(table[Min(found)])

is_word_char == isalpha \cup isdigit \cup Chars("_")
is_hex_exp_char == Chars("pP")
is_dec_exp_char == Chars("eE")

digit_value(c) == IF c \in isdigit THEN c - 48 ELSE IF c <= 70 THEN c - 55 ELSE c - 87

\* The number that the digits at p..(q - 1) spell; strtoull saturates.
Number(p, q, base) ==
    LET v[k \in p..q] == IF k = p THEN 0 ELSE v[k - 1] * base + digit_value(text[k - 1])
    IN v[q]
strtoull(p, q, base) ==
    LET v[k \in p..q] == IF k = p THEN 0
                         ELSE Min({ULLONG_MAX, v[k - 1] * base + digit_value(text[k - 1])})
    IN v[q]

-----------------------------------------------------------------------------
(* Numeric constants: where one ends, its type and value, and its error.   *)

INT_SUFFIXES ==
    << Bytes("uLL"), Bytes("ull"), Bytes("ULL"), Bytes("Ull"), Bytes("LLu"), Bytes("llu"),
       Bytes("LLU"), Bytes("llU"), Bytes("ul"), Bytes("uL"), Bytes("Ul"), Bytes("UL"),
       Bytes("lu"), Bytes("Lu"), Bytes("lU"), Bytes("LU"), Bytes("ll"), Bytes("LL"),
       Bytes("u"), Bytes("U"), Bytes("l"), Bytes("L") >>

Numeric(type, end, val, error) == [type |-> type, end |-> end, val |-> val, error |-> error]
NoNumber == Numeric("none", 0, 0, "")
Bad(end, error) == Numeric("TK_UNKNOWN", end, 0, error)

\* consume_int_suffix and consume_float_suffix: a constant ends at a word boundary.
consume_suffix(p, suffix, type, val, error) ==
    IF text[p + suffix] \notin is_word_char
    THEN Numeric(type, p + suffix, val, "")
    ELSE Bad(Skip(p, is_word_char), error)

int_constant(p, val) ==
    consume_suffix(p, first_match(INT_SUFFIXES, p), "TK_ICONST", val, "invalid integer suffix")

float_constant(p) ==
    consume_suffix(p, IF text[p] \in Chars("fFlL") THEN 1 ELSE 0, "TK_FCONST", 0,
                   "invalid floating suffix")

\* consume_exponent, behind the exponent character, and the suffix of the float.
exponent_and_suffix(p) ==
    LET digits == IF text[p] \in Chars("+-") THEN p + 1 ELSE p
        end == Skip(digits, isdigit)
    IN IF end = digits THEN Bad(end, "exponent has no digits") ELSE float_constant(end)

\* Behind the digits of a float before its point.
fraction_end(p, class) == IF text[p] = DOT THEN Skip(p + 1, class) ELSE p

consume_hex(p) ==
    LET int_end == Skip(p + 2, isxdigit)
        end == fraction_end(int_end, isxdigit)
    IN IF \/ text[p + 2] \notin isxdigit \cup {DOT}
          \/ text[p + 2] = DOT /\ text[p + 3] \notin isxdigit
       THEN NoNumber
       ELSE IF text[int_end] \notin {DOT} \cup is_hex_exp_char
       THEN int_constant(int_end, strtoull(p + 2, int_end, 16))
       ELSE IF text[end] \notin is_hex_exp_char
       THEN Bad(end, "no exponent")
       ELSE exponent_and_suffix(end + 1)

consume_dec_or_oct(p) ==
    LET int_end == Skip(p, isdigit)
        end == fraction_end(int_end, isdigit)
        is_oct == text[p] = Ord("0")
    IN IF \/ text[p] \notin isdigit \cup {DOT}
          \/ text[p] = DOT /\ text[p + 1] \notin isdigit
       THEN NoNumber
       ELSE IF text[int_end] \notin {DOT} \cup is_dec_exp_char
       THEN IF is_oct /\ \E k \in p..(int_end - 1) : text[k] \notin isoctal
            THEN Bad(int_end, "invalid octal digit")
            ELSE int_constant(int_end, strtoull(p, int_end, IF is_oct THEN 8 ELSE 10))
       ELSE IF text[end] \in is_dec_exp_char
       THEN exponent_and_suffix(end + 1)
       ELSE float_constant(end)

numeric_constant(p) ==
    IF text[p] = Ord("0") /\ text[p + 1] \in Chars("xX")
    THEN consume_hex(p) ELSE consume_dec_or_oct(p)

-----------------------------------------------------------------------------
(* Punctuators, keywords and escape sequences.                             *)

PUNCTUATORS ==
    << Bytes(";"), Bytes("{"), Bytes("}"), Bytes("["), Bytes("]"), Bytes("("), Bytes(")"),
       Bytes(","), Bytes("=="), Bytes("="), Bytes("..."), Bytes("."), Bytes("++"), Bytes("+="),
       Bytes("+"), Bytes("--"), Bytes("->"), Bytes("-="), Bytes("-"), Bytes("*="), Bytes("*"),
       Bytes("/="), Bytes("/"), Bytes("%="), Bytes("%"), Bytes("?"), Bytes(":"), Bytes("<<="),
       Bytes("<<"), Bytes("<="), Bytes("<"), Bytes(">>="), Bytes(">>"), Bytes(">="), Bytes(">"),
       Bytes("!="), Bytes("!"), Bytes("&&"), Bytes("&="), Bytes("&"), Bytes("||"), Bytes("|="),
       Bytes("|"), Bytes("^="), Bytes("^"), Bytes("~"), Bytes("##"), Bytes("#") >>

\* The codes of the string constants that the lexer compares with; none has a NUL inside.
ASSUME LiteralsAssumption ==
    /\ Chars("_") = {95} /\ Chars("xX") = {88, 120} /\ Chars("pP") = {80, 112}
    /\ Chars("eE") = {69, 101} /\ Chars("+-") = {43, 45} /\ Chars("fFlL") = {70, 76, 102, 108}
    /\ Chars("LuU") = {76, 85, 117} /\ Chars("UL") = {76, 85}
    /\ Ord("0") = 48 /\ Ord("x") = 120 /\ Ord("u") = 117
    /\ Bytes("u8") = <<117, 56>>
    /\ INT_SUFFIXES \in Seq(Seq(1..255)) /\ PUNCTUATORS \in Seq(Seq(1..255))

KEYWORDS ==
    { Bytes("auto"), Bytes("if"), Bytes("unsigned"), Bytes("break"), Bytes("inline"),
      Bytes("void"), Bytes("case"), Bytes("int"), Bytes("volatile"), Bytes("char"),
      Bytes("long"), Bytes("while"), Bytes("const"), Bytes("register"), Bytes("_Alignas"),
      Bytes("continue"), Bytes("restrict"), Bytes("_Alignof"), Bytes("default"),
      Bytes("return"), Bytes("_Atomic"), Bytes("do"), Bytes("short"), Bytes("_Bool"),
      Bytes("double"), Bytes("signed"), Bytes("_Complex"), Bytes("else"), Bytes("sizeof"),
      Bytes("_Generic"), Bytes("enum"), Bytes("static"), Bytes("_Imaginary"), Bytes("extern"),
      Bytes("struct"), Bytes("_Noreturn"), Bytes("float"), Bytes("switch"),
      Bytes("_Static_assert"), Bytes("for"), Bytes("typedef"), Bytes("_Thread_local"),
      Bytes("goto"), Bytes("union") }

\* The map is filled once and is only asked afterwards; HashMap shows what it answers.
is_keyword(p, size) == SubSeq(text, p, p + size - 1) \in KEYWORDS

CW_UTF8 == 1
CW_UTF16 == 2
CW_UTF32 == 4

\* Where an escape sequence ends, its value, and the alert it pushes ("" for none).
Escape(end, val, type, msg) == [end |-> end, val |-> val, type |-> type, msg |-> msg]

\* dst has 32 bits and keeps the last eight digits.
consume_hex_escape_sequence(p) ==
    LET end == Skip(p, isxdigit)
        c == Number(Max({p, end - 8}), end, 16)
    IN IF end = p THEN Escape(end, c, "ALERT_ERR", "no hex digits")
       ELSE IF end - p > 2 * width THEN Escape(end, c, "ALERT_ERR", "hex escape out of range")
       ELSE Escape(end, c, "", "")

\* The loop takes up to four digits.
consume_oct_escape_sequence(p) ==
    LET end == Min({p + 4, Skip(p, isoctal)})
        c == Number(p, end, 8)
    IN IF width = CW_UTF8 /\ c > 255
       THEN Escape(end, c, "ALERT_ERR", "octal escape out of range")
       ELSE Escape(end, c, "", "")

simple_escapes == [c \in Chars("'\"?\\abfnrtve") |->
    CASE c = Ord("a") -> 7  [] c = Ord("b") -> 8  [] c = Ord("f") -> 12
      [] c = Ord("n") -> 10 [] c = Ord("r") -> 13 [] c = Ord("t") -> 9
      [] c = Ord("v") -> 11 [] c = Ord("e") -> 27 [] OTHER -> c]

\* A char, which is signed, as a uint32_t.
sign_extended(c) == IF c < 128 THEN c ELSE UINT32_MAX - (255 - c)

\* Mutant: an unsupported escape is an error.
get_escape_char_strict(p) ==
    IF text[p] \in DOMAIN simple_escapes
    THEN Escape(p + 1, simple_escapes[text[p]], "", "")
    ELSE Escape(p + 1, sign_extended(text[p]), "ALERT_ERR", "unknown escape")

get_escape_char(p) ==
    IF text[p] \in DOMAIN simple_escapes
    THEN Escape(p + 1, simple_escapes[text[p]], "", "")
    ELSE Escape(p + 1, sign_extended(text[p]), "ALERT_WARN", "unknown escape")

\* Behind the backslash.  The NUL of the text is an escape like another.
consume_escape_sequence(p) ==
    IF text[p] = Ord("x") THEN consume_hex_escape_sequence(p + 1)
    ELSE IF text[p] \in isoctal THEN consume_oct_escape_sequence(p)
    ELSE get_escape_char(p)

\* The 32-bit value of a character literal whose bytes are b, by its own bytes: the
\* last four.
char_value(b) == SubSeq(b, Max({1, Len(b) - 3}), Len(b))

\* A unit as the array's element type keeps it; 32 bits hold every value.
unit(c) == IF width = CW_UTF8 THEN c % 256 ELSE IF width = CW_UTF16 THEN c % 65536 ELSE c

-----------------------------------------------------------------------------
(* The token in the making, and alerts about it.                           *)

\* What lexer_add_token makes of the zeroed element.  chars is the contents of a
\* string literal's block, or the value of a character literal by its bytes.
NewToken == [token_type |-> "TK_UNKNOWN", int_val |-> 0, str_val |-> 0, chars |-> <<>>,
             loc |-> 0, size |-> 0, line |-> line, line_num |-> line_num, col_num |-> col_num]

tok == array_at(tokens, Len(tokens.items))

\* A token that a sub-lexer accepts spans cur up to end.
SetToken(type, int_val, str_val, chars, end) ==
    /\ tokens' = [tokens EXCEPT !.items[Len(tokens.items)] =
                    [@ EXCEPT !.token_type = type, !.int_val = int_val, !.str_val = str_val,
                              !.chars = chars, !.loc = cur, !.size = end - cur]]
    /\ pc' = "report"
    /\ i' = 1
    /\ s' = end
    /\ UNCHANGED <<text, cur, line, line_num, col_num, width, arr>>

Goto(label) ==
    /\ pc' = label
    /\ UNCHANGED <<text, cur, line, line_num, col_num, tokens, s, width, arr, i>>

\* The queue and the heap behind the alert of an escape.
alerted(e) == IF e.type = "" THEN [queue |-> queue, heap |-> heap]
              ELSE alert_queue_push(e.type, tok, e.msg, heap)

Push(type, msg) ==
    LET q == alert_queue_push(type, tok, msg, heap)
    IN queue' = q.queue /\ heap' = q.heap /\ UNCHANGED printed

Quiet == UNCHANGED alertVars

-----------------------------------------------------------------------------
(* lex.                                                                    *)

\* lexer_init: the blocks of the lexer, of the tokens, and of the alert queue, its
\* array and that one's buffer.
LEXER == 1
TOKENS == 2
QUEUE == 3
QUEUE_ARRAY == 4
ALERTS == 5

Init ==
    /\ text \in Inputs
    /\ cur = 1 /\ line = 1 /\ line_num = 1 /\ col_num = 1
    /\ tokens = array_init(TOKENS)
    /\ queue = array_init(ALERTS)
    /\ heap = <<0, 0, 0, 0, 0>>
    /\ printed = <<>>
    /\ pc = "loop"
    /\ s = 1 /\ width = CW_UTF8 /\ arr = array_init(0) /\ i = 1

\* Mutant: a new line keeps the column.
column_kept == col_num + 1

column_of_line == 1

SkipNewline ==
    /\ pc = "loop" /\ text[cur] = NL
    /\ line_num' = line_num + 1
    /\ col_num' = column_of_line
    /\ cur' = cur + 1
    /\ line' = cur + 1
    /\ UNCHANGED <<text, tokens, pc, s, width, arr, i, alertVars>>

SkipSpace ==
    /\ pc = "loop" /\ text[cur] \in isspace \ {NL}
    /\ col_num' = col_num + 1
    /\ cur' = cur + 1
    /\ UNCHANGED <<text, line, line_num, tokens, pc, s, width, arr, i, alertVars>>

lexer_add_token ==
    /\ pc = "loop" /\ text[cur] \notin isspace \cup {NUL}
    /\ LET p == array_push_back(tokens, NewToken, heap)
       IN tokens' = p.arr /\ heap' = p.heap
    /\ pc' = "numeric"
    /\ UNCHANGED <<text, cur, line, line_num, col_num, s, width, arr, i, queue, printed>>

lex_numeric_constant ==
    /\ pc = "numeric"
    /\ LET n == numeric_constant(cur)
       IN \/ n = NoNumber /\ Goto("char") /\ Quiet
          \/ /\ n # NoNumber
             /\ SetToken(n.type, n.val, 0, <<>>, n.end)
             /\ IF n.error = "" THEN Quiet ELSE Push("ALERT_ERR", n.error)

\* Into a literal whose first character is at p.
Enter(label, p, w, a) ==
    /\ pc' = label
    /\ s' = p
    /\ width' = w
    /\ arr' = a
    /\ UNCHANGED <<text, cur, line, line_num, col_num, tokens, i>>

\* consume_char_body and consume_wide_char_body up to the first character.
lex_char_literal ==
    /\ pc = "char"
    /\ LET is_wide == text[cur] \in Chars("LuU") /\ text[cur + 1] = QUOTE
           body == IF is_wide THEN cur + 2 ELSE cur + 1
           w == IF ~is_wide THEN CW_UTF8
                ELSE IF text[cur] = Ord("u") THEN CW_UTF16 ELSE CW_UTF32
       IN \/ text[cur] # QUOTE /\ ~is_wide /\ Goto("string") /\ Quiet
          \/ /\ text[cur] = QUOTE \/ is_wide
             /\ text[body] = QUOTE
             /\ SetToken("TK_ICONST", 0, 0, <<>>, body + 1)
             /\ Push("ALERT_ERR", "empty character literal")
          \/ /\ text[cur] = QUOTE \/ is_wide
             /\ text[body] # QUOTE
             /\ Enter(IF is_wide THEN "wide" ELSE "char_body", body, w, array_init(0))
             /\ Quiet

\* The prefix of a string literal: its length and the width of the characters.
prefix ==
    IF matches(Bytes("u8"), cur) THEN [len |-> 2, width |-> CW_UTF8]
    ELSE IF text[cur] = Ord("u") THEN [len |-> 1, width |-> CW_UTF16]
    ELSE IF text[cur] \in Chars("UL") THEN [len |-> 1, width |-> CW_UTF32]
    ELSE [len |-> 0, width |-> CW_UTF8]

lex_string_literal ==
    /\ pc = "string"
    /\ \/ text[cur + prefix.len] # DQUOTE /\ Goto("identifier") /\ Quiet
       \/ /\ text[cur + prefix.len] = DQUOTE
          /\ heap' = malloc(heap)
          /\ Enter("str_body", cur + prefix.len + 1, prefix.width, array_init(Len(heap) + 1))
          /\ UNCHANGED <<queue, printed>>

lex_identifier ==
    /\ pc = "identifier"
    /\ Quiet
    /\ LET end == Skip(cur, is_word_char)
       IN \/ text[cur] \notin isalpha \cup Chars("_") /\ Goto("punctuator")
          \/ /\ text[cur] \in isalpha \cup Chars("_")
             /\ SetToken(IF is_keyword(cur, end - cur) THEN "TK_KEYWRD" ELSE "TK_IDENT",
                         0, 0, <<>>, end)

lex_punctuator ==
    /\ pc = "punctuator"
    /\ LET len == IF text[cur] \in ispunct THEN first_match(PUNCTUATORS, cur) ELSE 0
       IN \/ len > 0 /\ SetToken("TK_PUNCT", 0, 0, <<>>, cur + len) /\ Quiet
          \/ /\ len = 0
             /\ tokens' = [tokens EXCEPT !.items[Len(tokens.items)].size = 1]
             /\ pc' = "report" /\ i' = 1
             /\ Push("ALERT_ERR", "unexpected token")
             /\ UNCHANGED <<text, cur, line, line_num, col_num, s, width, arr>>

-----------------------------------------------------------------------------
(* The bodies of literals, one character or escape at a time.              *)

in_text == s <= Len(text)

\* Mutant: only a newline ends an open literal.
at_newline == text[s] = NL

at_line_end == text[s] \in {NUL, NL}

\* The element of a literal at s, if it is an escape.
escape == consume_escape_sequence(s + 1)

\* On to position p of the literal, with the characters a.
Advance(p, a) ==
    /\ s' = p
    /\ arr' = a
    /\ UNCHANGED <<text, cur, line, line_num, col_num, tokens, pc, width, i>>

CharBodyClose ==
    /\ pc = "char_body" /\ in_text /\ text[s] = QUOTE
    /\ SetToken("TK_ICONST", 0, 0, char_value(arr.items), s + 1)
    /\ IF Len(arr.items) > 1 THEN Push("ALERT_WARN", "multi-byte character") ELSE Quiet

CharBodyEscape ==
    /\ pc = "char_body" /\ in_text /\ text[s] = BACKSLASH
    /\ queue' = alerted(escape).queue
    /\ heap' = alerted(escape).heap
    /\ Advance(escape.end, [arr EXCEPT !.items = Append(@, unit(escape.val))])
    /\ UNCHANGED printed

CharBodyPlain ==
    /\ pc = "char_body" /\ in_text /\ ~at_line_end /\ text[s] \notin {QUOTE, BACKSLASH}
    /\ Advance(s + 1, [arr EXCEPT !.items = Append(@, text[s])])
    /\ Quiet

CharBodyUnterminated ==
    /\ pc = "char_body" /\ in_text /\ at_line_end
    /\ SetToken("TK_ICONST", 0, 0, <<>>, s)
    /\ Push("ALERT_ERR", "unterminated character literal")

\* error() for a byte that begins no UTF-8 sequence.
invalid_utf8 == text[s] > 127 /\ utf8_len(text[s]) = 0

\* consume_wide_char_body: its one character, of any kind.
WideChar ==
    /\ pc = "wide" /\ in_text /\ ~invalid_utf8
    /\ LET d == decode_utf8(text, s)
           is_escape == text[s] = BACKSLASH
           end == IF is_escape THEN escape.end ELSE s + d.len
           c == IF is_escape THEN escape.val ELSE d.code
       IN /\ pc' = "wide_close"
          /\ s' = end
          /\ arr' = [arr EXCEPT !.items = <<c>>]
          /\ IF is_escape
             THEN queue' = alerted(escape).queue /\ heap' = alerted(escape).heap
             ELSE UNCHANGED <<queue, heap>>
          /\ UNCHANGED <<text, cur, line, line_num, col_num, tokens, width, i, printed>>

WideClose ==
    /\ pc = "wide_close" /\ in_text
    /\ \/ /\ text[s] = QUOTE
          /\ SetToken("TK_ICONST", arr.items[1], 0, <<>>, s + 1)
          /\ Quiet
       \/ /\ text[s] # QUOTE
          /\ Goto("wide_rest")
          /\ Push("ALERT_ERR", "multiple characters")

\* The rest of a wide literal, which is an error already.
WideRest ==
    /\ pc = "wide_rest"
    /\ LET end == Skip(s, 0..255 \ {NUL, NL, QUOTE})
       IN \/ /\ text[end] = QUOTE
             /\ SetToken("TK_ICONST", arr.items[1], 0, <<>>, end + 1)
             /\ Quiet
          \/ /\ text[end] # QUOTE
             /\ SetToken("TK_ICONST", arr.items[1], 0, <<>>, end)
             /\ Push("ALERT_ERR", "unterminated character literal")

\* The three bodies of string literals close alike; the array keeps its NUL.
StringClose ==
    /\ pc = "str_body" /\ in_text /\ text[s] = DQUOTE
    /\ LET p == array_push_back(arr, 0, heap)
       IN /\ heap' = p.heap
          /\ SetToken("TK_STRLIT", 0, p.arr.buf, p.arr.items, s + 1)
    /\ UNCHANGED <<queue, printed>>

StringEscape ==
    /\ pc = "str_body" /\ in_text /\ text[s] = BACKSLASH
    /\ LET p == array_push_back(arr, unit(escape.val), alerted(escape).heap)
       IN heap' = p.heap /\ Advance(escape.end, p.arr)
    /\ queue' = alerted(escape).queue
    /\ UNCHANGED printed

\* An unescaped character: a byte of a UTF-8 literal, or else a code point.
StringPlain ==
    /\ pc = "str_body" /\ in_text /\ ~at_line_end /\ text[s] \notin {DQUOTE, BACKSLASH}
    /\ width # CW_UTF8 => ~invalid_utf8
    /\ LET d == decode_utf8(text, s)
           p == CASE width = CW_UTF8 -> array_push_back(arr, text[s], heap)
                  [] width = CW_UTF16 -> encode_utf16(d.code, arr, heap)
                  [] width = CW_UTF32 -> encode_utf32(d.code, arr, heap)
       IN heap' = p.heap /\ Advance(IF width = CW_UTF8 THEN s + 1 ELSE s + d.len, p.arr)
    /\ UNCHANGED <<queue, printed>>

StringUnterminated ==
    /\ pc = "str_body" /\ in_text /\ at_line_end
    /\ SetToken("TK_STRLIT", 0, arr.buf, arr.items, s)
    /\ Push("ALERT_ERR", "unterminated string literal")

InvalidUtf8 ==
    /\ in_text /\ invalid_utf8
    /\ pc = "wide" \/ (pc = "str_body" /\ width # CW_UTF8)
    /\ Goto("exit") /\ Quiet

\* What is read behind the NUL of the text, and what becomes of it, is undefined.
Overrun ==
    /\ pc \in {"char_body", "wide_close", "str_body"} /\ ~in_text
    /\ Goto("overrun") /\ Quiet

-----------------------------------------------------------------------------
(* Reporting, the end of lex, and destroy_tokens.                          *)

Reporting == pc = "report" /\ i <= Len(queue.items)

\* The token an alert points to, as the live buffer of the tokens has it.
pointee == tokens.items[queue.items[i].tok.index]

ReportAlert ==
    /\ Reporting
    /\ printed' = Append(printed, report_of(queue.items[i], pointee))
    /\ IF queue.items[i].alert_type = "ALERT_ERR"
       THEN pc' = "exit" /\ UNCHANGED i
       ELSE i' = i + 1 /\ UNCHANGED pc
    /\ UNCHANGED <<text, cur, line, line_num, col_num, tokens, s, width, arr, heap, queue>>

\* lexer_advance, behind the alerts.
Reported ==
    /\ pc = "report" /\ i > Len(queue.items)
    /\ alert_queue_clear
    /\ LET t == tokens.items[Len(tokens.items)]
       IN cur' = t.loc + t.size /\ col_num' = col_num + t.size
    /\ pc' = "loop"
    /\ UNCHANGED <<text, line, line_num, tokens, s, width, arr, i, printed>>

\* TK_EOF, whose loc is a string of its own, and lexer_destroy.
EndOfText ==
    /\ pc = "loop" /\ text[cur] = NUL
    /\ LET p == array_push_back(tokens, [NewToken EXCEPT !.token_type = "TK_EOF"], heap)
       IN /\ tokens' = p.arr
          /\ heap' = free(alert_queue_destroyed(p.heap, QUEUE, QUEUE_ARRAY), LEXER)
    /\ pc' = "returned"
    /\ UNCHANGED <<text, cur, line, line_num, col_num, s, width, arr, i, queue, printed>>

destroy_tokens ==
    /\ pc = "returned"
    /\ pc' = "destroy"
    /\ i' = 1
    /\ UNCHANGED <<text, cur, line, line_num, col_num, tokens, s, width, arr, alertVars>>

\* Mutant: the index moves on behind string literals only.
next_literal == IF tokens.items[i].token_type = "TK_STRLIT" THEN i + 1 ELSE i

next_token == i + 1

FreeLiteral ==
    /\ pc = "destroy" /\ i <= Len(tokens.items)
    /\ heap' = IF tokens.items[i].token_type = "TK_STRLIT"
               THEN free(heap, tokens.items[i].str_val) ELSE heap
    /\ i' = next_token
    /\ UNCHANGED <<text, cur, line, line_num, col_num, tokens, pc, s, width, arr, queue, printed>>

FreeTokens ==
    /\ pc = "destroy" /\ i > Len(tokens.items)
    /\ heap' = array_destroy(tokens, heap)
    /\ pc' = "done"
    /\ UNCHANGED <<text, cur, line, line_num, col_num, tokens, s, width, arr, i, queue, printed>>

SubLexer ==
    \/ lex_numeric_constant \/ lex_char_literal \/ lex_string_literal
    \/ lex_identifier \/ lex_punctuator

CharLiteral ==
    \/ CharBodyClose \/ CharBodyEscape \/ CharBodyPlain \/ CharBodyUnterminated
    \/ WideChar \/ WideClose \/ WideRest

StringLiteral == StringClose \/ StringEscape \/ StringPlain \/ StringUnterminated

Next ==
    \/ SkipNewline \/ SkipSpace \/ lexer_add_token
    \/ SubLexer \/ CharLiteral \/ StringLiteral \/ InvalidUtf8 \/ Overrun
    \/ ReportAlert \/ Reported \/ EndOfText
    \/ destroy_tokens \/ FreeLiteral \/ FreeTokens

Spec == Init /\ [][Next]_vars /\ WF_vars(Next)

-----------------------------------------------------------------------------
(* Properties.                                                             *)

Token == [token_type : {"TK_UNKNOWN", "TK_KEYWRD", "TK_IDENT", "TK_ICONST", "TK_FCONST",
                        "TK_STRLIT", "TK_PUNCT", "TK_EOF"},
          int_val : Nat, str_val : Nat, chars : Seq(Nat), loc : Nat, size : Nat,
          line : Nat, line_num : Nat, col_num : Nat]

\* Types, and that the position stays in the text between tokens.
TypeOK ==
    /\ cur \in Positions /\ line \in 1..cur
    /\ line_num \in Nat \ {0} /\ col_num \in Nat \ {0}
    /\ s \in Nat \ {0} /\ width \in {CW_UTF8, CW_UTF16, CW_UTF32} /\ i \in Nat \ {0}
    /\ heap \in Seq(Nat)
    /\ tokens.items \in Seq(Token) /\ Len(tokens.items) <= tokens.capacity
    /\ arr.items \in Seq(Nat)
    /\ \A k \in DOMAIN queue.items : queue.items[k].alert_type \in {"ALERT_WARN", "ALERT_ERR"}
    /\ Len(queue.items) <= queue.capacity
    /\ pc \in {"loop", "numeric", "char", "char_body", "wide", "wide_close", "wide_rest",
               "string", "str_body", "identifier", "punctuator", "report", "returned",
               "destroy", "done", "exit", "overrun"}

\* A queued alert points at the token in the making, in the buffer the token array
\* has now: an array that grows while alerts are queued, or an alert that stays
\* queued, would leave a pointer into a buffer that is gone.
AlertsPointToLive ==
    \A k \in DOMAIN queue.items :
        /\ queue.items[k].tok = tok
        /\ tokens.items # <<>>
        /\ heap[tokens.buf] = 0

\* No block is freed twice, whatever still is in use has not been freed, and the
\* caller that destroys the tokens leaves no block behind: buffers that were grown
\* out of, messages, literals, the queue and the lexer.
BlocksFreedOnce ==
    /\ \A b \in DOMAIN heap : heap[b] <= 1
    /\ pc # "done" => /\ heap[tokens.buf] = 0
                      /\ pc = "str_body" => heap[arr.buf] = 0
    /\ pc \notin {"returned", "destroy", "done"} =>
           /\ heap[queue.buf] = 0
           /\ \A k \in DOMAIN queue.items : heap[queue.items[k].alert_msg] = 0
    /\ pc \notin {"destroy", "done"} =>
           \A k \in DOMAIN tokens.items :
               tokens.items[k].token_type = "TK_STRLIT" => heap[tokens.items[k].str_val] = 0
    /\ pc = "done" => \A b \in DOMAIN heap : heap[b] = 1

\* Where token k begins; the last one may not have its loc yet.
begin(k) == IF tokens.items[k].loc = 0 THEN cur ELSE tokens.items[k].loc
span(k) == begin(k) .. (begin(k) + tokens.items[k].size - 1)

newlines(p) == {q \in 1..(p - 1) : text[q] = NL}
line_start(p) == IF newlines(p) = {} THEN 1 ELSE Max(newlines(p)) + 1

\* The line and column kept in each token are those of its first character, and
\* the caret of a report is under it; up to a literal that an escaped newline
\* breaks, behind which lexer_advance has lost count.
PositionsTrue ==
    /\ \A k \in DOMAIN tokens.items :
           (\A j \in 1..(k - 1) : \A p \in span(j) : text[p] # NL) =>
               /\ tokens.items[k].line_num = Cardinality(newlines(begin(k))) + 1
               /\ tokens.items[k].line = line_start(begin(k))
               /\ tokens.items[k].col_num = begin(k) - line_start(begin(k)) + 1
    /\ \A k \in DOMAIN printed :
           (\A j \in DOMAIN tokens.items : \A p \in span(j) : text[p] # NL) =>
               /\ text[printed[k].caret] \notin isspace
               /\ printed[k].line_num = Cardinality(newlines(printed[k].caret)) + 1

\* lex returns, exits, or reads behind the text.
LexEnds == <>(pc \in {"done", "exit", "overrun"})
=============================================================================
