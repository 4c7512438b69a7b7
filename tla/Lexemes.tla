------------------------------- MODULE Lexemes -------------------------------
(***************************************************************************)
(* What the tokens of a text are: the lexical grammar of C (C11 6.4,       *)
(* without digraphs) as predicates on the characters p..(q - 1), and the   *)
(* values of constants and literals, against which Lexer's results are     *)
(* checked.  lexer.h restricts the grammar in two points that are          *)
(* followed: a wide character literal has one character, and a hex escape  *)
(* has no more digits than its character has.                              *)
(***************************************************************************)
EXTENDS Lexer

IsIn(p, q, class) == \A k \in p..(q - 1) : text[k] \in class
DigitSeq(p, q, class) == p < q /\ IsIn(p, q, class)
Spelling(p, q) == SubSeq(text, p, q - 1)

-----------------------------------------------------------------------------
(* Identifiers and numbers.                                                *)

Word(p, q) == DigitSeq(p, q, isalpha \cup isdigit \cup Chars("_")) /\ text[p] \notin isdigit

LOCAL Us == {Bytes("u"), Bytes("U")}
LOCAL Ls == {Bytes("l"), Bytes("L"), Bytes("ll"), Bytes("LL")}
IntegerSuffixes == {<<>>} \cup Us \cup Ls \cup {u \o l : u \in Us, l \in Ls}
                   \cup {l \o u : u \in Us, l \in Ls}

HexPrefix(p, q) == p + 1 < q /\ text[p] = Ord("0") /\ text[p + 1] \in Chars("xX")

\* The integer constants without suffix.
Base(p, q) == IF HexPrefix(p, q) THEN 16 ELSE IF text[p] = Ord("0") THEN 8 ELSE 10
Integer(p, q) == CASE Base(p, q) = 16 -> DigitSeq(p + 2, q, isxdigit)
                   [] Base(p, q) = 8  -> DigitSeq(p, q, isoctal)
                   [] OTHER           -> DigitSeq(p, q, isdigit)

IntegerConstant(p, q) ==
    \E k \in (p + 1)..q : Integer(p, k) /\ Spelling(k, q) \in IntegerSuffixes

\* Digits around a point.
Fraction(p, q, class) ==
    /\ p + 1 < q
    /\ \E k \in p..(q - 1) : text[k] = DOT /\ IsIn(p, k, class) /\ IsIn(k + 1, q, class)

Exponent(p, q, letters) ==
    /\ p < q /\ text[p] \in letters
    /\ DigitSeq(p + 1, q, isdigit)
       \/ (p + 1 < q /\ text[p + 1] \in Chars("+-") /\ DigitSeq(p + 2, q, isdigit))

Float(p, q) ==
    \E k \in p..q :
        \/ Fraction(p, k, isdigit) /\ (k = q \/ Exponent(k, q, Chars("eE")))
        \/ DigitSeq(p, k, isdigit) /\ Exponent(k, q, Chars("eE"))
        \/ /\ HexPrefix(p, k)
           /\ (Fraction(p + 2, k, isxdigit) \/ DigitSeq(p + 2, k, isxdigit))
           /\ Exponent(k, q, Chars("pP"))

FloatConstant(p, q) ==
    Float(p, q) \/ (p + 1 < q /\ Float(p, q - 1) /\ text[q - 1] \in Chars("fFlL"))

\* The end of the longest preprocessing number at p (C11 6.4.8).
PpNumberEnd(p) ==
    LET goes(k) == \/ text[k] \in isalpha \cup isdigit \cup Chars("_.")
                   \/ text[k] \in Chars("+-") /\ text[k - 1] \in Chars("eEpP")
    IN CHOOSE q \in p..Len(text) : ~goes(q) /\ \A k \in p..(q - 1) : goes(k)

-----------------------------------------------------------------------------
(* Literals: the units of the body from p up to the quote, and its end, or *)
(* end 0 where there is none.                                              *)

\* The value of the digits p..(q - 1).
Places(base, p, q) ==
    LET weight[k \in p..q] == IF k = q THEN 1 ELSE base * weight[k + 1]
        v[k \in p..q] == IF k = q THEN 0 ELSE digit_value(text[k]) * weight[k + 1] + v[k + 1]
    IN v[p]

\* The element at p of a literal of w-byte characters: where it ends and its value.
Element(end, val) == [end |-> end, val |-> val]
Malformed == Element(0, 0)

EscapeAt(p, w) ==
    LET hex_end == Skip(p + 2, isxdigit)
        oct_end == Min({p + 4, Skip(p + 1, isoctal)})
    IN CASE text[p + 1] = NUL -> Malformed
         [] text[p + 1] = Ord("x") ->
              IF hex_end - (p + 2) \in 1..(2 * w)
              THEN Element(hex_end, Places(16, p + 2, hex_end)) ELSE Malformed
         [] text[p + 1] \in isoctal ->
              IF w > 1 \/ Places(8, p + 1, oct_end) < 256
              THEN Element(oct_end, Places(8, p + 1, oct_end)) ELSE Malformed
         [] OTHER ->
              Element(p + 2,
                  IF text[p + 1] \in DOMAIN simple_escapes THEN simple_escapes[text[p + 1]]
                  ELSE text[p + 1])

\* A UTF-8 sequence of n bytes is a lead byte of its class and continuation bytes.
Utf8At(p, n) ==
    /\ p + n - 1 < Len(text)
    /\ text[p] \in CASE n = 1 -> 1..127 [] n = 2 -> 192..223 [] n = 3 -> 224..239 [] n = 4 -> 240..247
    /\ IsIn(p + 1, p + n, 128..191)
CodePoint(p, n) ==
    LET b(k) == text[p + k - 1]
    IN CASE n = 1 -> b(1)
         [] n = 2 -> 64 * (b(1) - 192) + b(2) - 128
         [] n = 3 -> 4096 * (b(1) - 224) + 64 * (b(2) - 128) + b(3) - 128
         [] n = 4 -> 262144 * (b(1) - 240) + 4096 * (b(2) - 128) + 64 * (b(3) - 128) + b(4) - 128

\* The last code point there is, 10FFFF.
MAX_CODE_POINT == 1114111

CharAt(p, w) ==
    IF w = CW_UTF8 THEN Element(p + 1, text[p])
    ELSE LET ns == {n \in 1..4 : Utf8At(p, n)}
         IN IF ns = {} THEN Malformed ELSE Element(p + Min(ns), CodePoint(p, Min(ns)))

\* The units of a code point in a literal of w-byte characters.
Units(c, w) == IF w = CW_UTF16 /\ c > 65535
               THEN <<55296 + ((c - 65536) \div 1024), 56320 + ((c - 65536) % 1024)>>
               ELSE <<c>>

Literal(end, vals, units) == [end |-> end, vals |-> vals, units |-> units]

Body(start, quote, w) ==
    LET b[p \in start..Len(text)] ==
          LET e == IF text[p] = BACKSLASH THEN EscapeAt(p, w) ELSE CharAt(p, w)
              rest == b[e.end]
          IN IF text[p] = quote THEN Literal(p + 1, <<>>, <<>>)
             ELSE IF text[p] \in {NUL, NL} \/ e = Malformed THEN Literal(0, <<>>, <<>>)
             ELSE Literal(rest.end, <<e.val>> \o rest.vals,
                          (IF text[p] = BACKSLASH THEN <<e.val>> ELSE Units(e.val, w)) \o rest.units)
    IN b[start]

\* The lengths and widths that prefixes of a quote have at p.
Prefixes(table, p, quote) == {x \in table : matches(x[1] \o <<quote>>, p)}
CharPrefixes == {<< <<>>, CW_UTF8>>, <<Bytes("u"), CW_UTF16>>,
                 <<Bytes("U"), CW_UTF32>>, <<Bytes("L"), CW_UTF32>>}
StringPrefixes == CharPrefixes \cup {<<Bytes("u8"), CW_UTF8>>}

\* The literals that begin at p: none or one.
CharLiterals(p) ==
    {l \in {Body(p + Len(x[1]) + 1, QUOTE, x[2]) : x \in Prefixes(CharPrefixes, p, QUOTE)} :
        /\ l.end # 0 /\ l.vals # <<>>
        /\ text[p] # QUOTE => Len(l.vals) = 1}
StringLiterals(p) ==
    {l \in {Body(p + Len(x[1]) + 1, DQUOTE, x[2]) : x \in Prefixes(StringPrefixes, p, DQUOTE)} :
        l.end # 0}
BeginsLiteral(p) == \/ Prefixes(CharPrefixes, p, QUOTE) # {}
                    \/ Prefixes(StringPrefixes, p, DQUOTE) # {}

-----------------------------------------------------------------------------
(* Tokens.                                                                 *)

Punctuators ==
    {Bytes(w) : w \in {"[", "]", "(", ")", "{", "}", ".", "->", "++", "--", "&", "*", "+", "-",
        "~", "!", "/", "%", "<<", ">>", "<", ">", "<=", ">=", "==", "!=", "^", "|", "&&", "||",
        "?", ":", ";", "...", "=", "*=", "/=", "%=", "+=", "-=", "<<=", ">>=", "&=", "^=", "|=",
        ",", "#", "##"}}

\* A table in which the first match is the longest.
Begins(v, w) == Len(v) <= Len(w) /\ \A n \in DOMAIN v : v[n] = w[n]
LongestFirst(table) == \A j, k \in DOMAIN table : j < k => ~Begins(table[j], table[k])

\* The lexer's tables are C's, and longer entries come before their beginnings.
ASSUME TablesAssumption ==
    /\ Punctuators = {PUNCTUATORS[k] : k \in DOMAIN PUNCTUATORS} /\ LongestFirst(PUNCTUATORS)
    /\ IntegerSuffixes = {<<>>} \cup {INT_SUFFIXES[k] : k \in DOMAIN INT_SUFFIXES}
    /\ LongestFirst(INT_SUFFIXES)
    /\ \A w \in Punctuators : w # <<>> /\ \A n \in DOMAIN w : w[n] \in ispunct \ {QUOTE, DQUOTE, 95}
    /\ \A w \in IntegerSuffixes : \A n \in DOMAIN w : w[n] \in {76, 85, 108, 117}
    /\ Chars("_.") = {95, 46} /\ Chars("eEpP") = {69, 101, 80, 112}
    /\ Bytes("u") = <<117>> /\ Bytes("U") = <<85>> /\ Bytes("L") = <<76>>

Lexeme(type, p, q) ==
    CASE type = "TK_KEYWRD" -> Word(p, q) /\ Spelling(p, q) \in KEYWORDS
      [] type = "TK_IDENT"  -> Word(p, q) /\ Spelling(p, q) \notin KEYWORDS
      [] type = "TK_ICONST" -> IntegerConstant(p, q) \/ \E l \in CharLiterals(p) : l.end = q
      [] type = "TK_FCONST" -> FloatConstant(p, q)
      [] type = "TK_STRLIT" -> \E l \in StringLiterals(p) : l.end = q
      [] type = "TK_PUNCT"  -> Spelling(p, q) \in Punctuators

TokenTypes == {"TK_KEYWRD", "TK_IDENT", "TK_ICONST", "TK_FCONST", "TK_STRLIT", "TK_PUNCT"}
IsToken(p, q) == \E type \in TokenTypes : Lexeme(type, p, q)

\* The value a token has besides its type.
ValueIsRight(t) ==
    LET q == t.loc + t.size
    IN CASE t.token_type = "TK_STRLIT" ->
              \E l \in StringLiterals(t.loc) : t.chars = Append(l.units, 0)
         [] t.token_type = "TK_ICONST" /\ CharLiterals(t.loc) # {} ->
              \E l \in CharLiterals(t.loc) :
                  IF text[t.loc] # QUOTE THEN t.int_val = l.vals[1]
                  ELSE t.chars = [k \in 1..Min({4, Len(l.vals)}) |->
                                    l.vals[Len(l.vals) - Min({4, Len(l.vals)}) + k]]
         [] t.token_type = "TK_ICONST" /\ CharLiterals(t.loc) = {} ->
              \E k \in (t.loc + 1)..q :
                  /\ Integer(t.loc, k) /\ Spelling(k, q) \in IntegerSuffixes
                  /\ LET base == Base(t.loc, k)
                         digits == IF base = 16 THEN t.loc + 2 ELSE t.loc
                     IN t.int_val = Min({ULLONG_MAX, Places(base, digits, k)})
         [] OTHER -> TRUE

-----------------------------------------------------------------------------
(* Properties.                                                             *)

\* What the lexer takes its text for: UTF-8 of code points up to 10FFFF, escapes of
\* at most three octal digits where four could be meant, no escape of a character
\* that is not ASCII, and no newline as the character of a wide literal.  It has
\* checks for none of them.
Ordinary ==
    /\ \A p \in 1..(Len(text) - 1) :
           \E q \in 1..p, n \in 1..4 : Utf8At(q, n) /\ p < q + n /\ CodePoint(q, n) <= MAX_CODE_POINT
    /\ \A p \in 1..(Len(text) - 5) : text[p] = BACKSLASH => ~IsIn(p + 1, p + 5, isoctal)
    /\ \A p \in 1..(Len(text) - 1) : text[p] = BACKSLASH => text[p + 1] < 128
    /\ ~ \E p \in 1..(Len(text) - 3) :
             text[p] \in Chars("LuU") /\ text[p + 1] = QUOTE /\ text[p + 2] = NL

Finished == pc \in {"returned", "destroy", "done"}

\* lex returns the tokens of C: in the order of the text, with only white space
\* between them and behind the last, each the longest lexeme where it begins, with
\* the type and the value C gives it, and one TK_EOF at the end.  This is what the
\* fixed order of the overlapping sub-lexers has to come to, and what the parser
\* assumes of its input.
TokensAreLexemes ==
    pc = "returned" /\ Ordinary =>
        LET n == Len(tokens.items) - 1
            begins(k) == IF k = n + 1 THEN Len(text) ELSE tokens.items[k].loc
            ends(k) == IF k = 0 THEN 1 ELSE tokens.items[k].loc + tokens.items[k].size
        IN /\ tokens.items[n + 1].token_type = "TK_EOF"
           /\ \A k \in 1..(n + 1) : ends(k - 1) <= begins(k) /\ IsIn(ends(k - 1), begins(k), isspace)
           /\ \A k \in 1..n :
                 /\ Lexeme(tokens.items[k].token_type, begins(k), ends(k))
                 /\ ValueIsRight(tokens.items[k])
                 /\ \A q \in (ends(k) + 1)..Len(text) : ~IsToken(begins(k), q)

\* The lexer gives up on a text only for a token that is none of C's: a number that
\* is no constant, a literal that is malformed, or a character that begins no token.
\* Only errors end it, and an error always does.
RejectsOnlyMalformed ==
    /\ pc = "exit" /\ Ordinary =>
          IF text[cur] \in isdigit \/ (text[cur] = DOT /\ text[cur + 1] \in isdigit)
          THEN ~IntegerConstant(cur, PpNumberEnd(cur)) /\ ~FloatConstant(cur, PpNumberEnd(cur))
          ELSE IF BeginsLiteral(cur) THEN CharLiterals(cur) = {} /\ StringLiterals(cur) = {}
          ELSE \A q \in (cur + 1)..Len(text) : ~IsToken(cur, q)
    /\ Finished => \A k \in DOMAIN printed : printed[k].alert_type = "ALERT_WARN"

\* The lexer reads behind the NUL of its text for texts only that are cut off inside
\* a literal: by a backslash, in the middle of a UTF-8 sequence, or right behind the
\* quote of a wide character literal.
OverrunsOnlyAtCut ==
    pc = "overrun" =>
        \E p \in Max({1, Len(text) - 3})..(Len(text) - 1) :
            \/ p = Len(text) - 1 /\ text[p] = BACKSLASH
            \/ text[p] > 191 /\ p + utf8_len(text[p]) > Len(text)
            \/ p = Len(text) - 2 /\ text[p] \in Chars("LuU") /\ text[p + 1] = QUOTE
=============================================================================
