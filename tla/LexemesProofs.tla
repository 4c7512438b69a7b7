---------------------------- MODULE LexemesProofs ----------------------------
(***************************************************************************)
(* What lex returns and what it refuses, against the grammar of Lexemes,   *)
(* for every text.  The first half is about the text alone: each scanner   *)
(* finds the longest lexeme of its kind or sees that there is none, with   *)
(* the value that Lexemes gives it.  The second half is about the steps:   *)
(*                                                                         *)
(*   Chained  the tokens that are finished are C's, with white space       *)
(*            between them and up to lexer->cur                            *)
(*   Tried    what the sub-lexers that were tried have not found           *)
(*   Read     what is read of a literal, in front of the rest of its       *)
(*            body, is the literal, unless an error among the alerts says  *)
(*            that there is none                                           *)
(*   Decided  the token in the making is C's, or what begins there is no   *)
(*            token and there is an error among the alerts                 *)
(***************************************************************************)
EXTENDS LexerProofs

-----------------------------------------------------------------------------
(* What the first character of a lexeme tells.                             *)

\* What an identifier begins with.
Letters == isalpha \cup Chars("_")

\* The characters by their codes.
LEMMA Codes ==
    /\ isdigit = 48..57 /\ isoctal = 48..55 /\ isxdigit = 48..57 \cup 65..70 \cup 97..102
    /\ isalpha = 65..90 \cup 97..122
    /\ is_word_char = (65..90 \cup 97..122) \cup 48..57 \cup 95..95
    /\ Letters = (65..90 \cup 97..122) \cup 95..95
    /\ is_hex_exp_char = 80..80 \cup 112..112 /\ is_dec_exp_char = 69..69 \cup 101..101
    /\ Chars("xX") = 88..88 \cup 120..120
    /\ Chars("pP") = 80..80 \cup 112..112 /\ Chars("eE") = 69..69 \cup 101..101
    /\ Chars("+-") = 43..43 \cup 45..45 /\ Chars("_.") = 95..95 \cup 46..46
    /\ Chars("eEpP") = 69..69 \cup 101..101 \cup 80..80 \cup 112..112
    /\ Chars("fFlL") = 70..70 \cup 76..76 \cup 102..102 \cup 108..108
    /\ Chars("LuU") = 76..76 \cup 85..85 \cup 117..117 /\ Chars("UL") = 76..76 \cup 85..85
<1>1. /\ Chars("_") = {95} /\ Chars("xX") = {88, 120} /\ Chars("pP") = {80, 112}
      /\ Chars("eE") = {69, 101} /\ Chars("+-") = {43, 45} /\ Chars("fFlL") = {70, 76, 102, 108}
      /\ Chars("LuU") = {76, 85, 117} /\ Chars("UL") = {76, 85}
  BY LiteralsAssumption
<1>2. Chars("_.") = {95, 46} /\ Chars("eEpP") = {69, 101, 80, 112}
  BY TablesAssumption
<1>3. /\ {95} = 95..95 /\ {88, 120} = 88..88 \cup 120..120 /\ {80, 112} = 80..80 \cup 112..112
      /\ {69, 101} = 69..69 \cup 101..101 /\ {43, 45} = 43..43 \cup 45..45
      /\ {70, 76, 102, 108} = 70..70 \cup 76..76 \cup 102..102 \cup 108..108
      /\ {76, 85, 117} = 76..76 \cup 85..85 \cup 117..117 /\ {76, 85} = 76..76 \cup 85..85
      /\ {95, 46} = 95..95 \cup 46..46
      /\ {69, 101, 80, 112} = 69..69 \cup 101..101 \cup 80..80 \cup 112..112
  OBVIOUS
<1>4. /\ isdigit = 48..57 /\ isoctal = 48..55 /\ isxdigit = 48..57 \cup 65..70 \cup 97..102
      /\ isalpha = 65..90 \cup 97..122
  BY DEF isdigit, isoctal, isxdigit, isalpha
<1>5. /\ Chars("_") = 95..95 /\ Chars("xX") = 88..88 \cup 120..120
      /\ Chars("pP") = 80..80 \cup 112..112 /\ Chars("eE") = 69..69 \cup 101..101
      /\ Chars("+-") = 43..43 \cup 45..45 /\ Chars("_.") = 95..95 \cup 46..46
      /\ Chars("eEpP") = 69..69 \cup 101..101 \cup 80..80 \cup 112..112
      /\ Chars("fFlL") = 70..70 \cup 76..76 \cup 102..102 \cup 108..108
      /\ Chars("LuU") = 76..76 \cup 85..85 \cup 117..117 /\ Chars("UL") = 76..76 \cup 85..85
  BY <1>1, <1>2, <1>3, ZenonT(60)
<1>6. /\ is_word_char = (65..90 \cup 97..122) \cup 48..57 \cup 95..95
      /\ Letters = (65..90 \cup 97..122) \cup 95..95
  BY <1>4, <1>5, Zenon DEF is_word_char, Letters
<1>7. is_hex_exp_char = 80..80 \cup 112..112 /\ is_dec_exp_char = 69..69 \cup 101..101
  BY <1>5, Zenon DEF is_hex_exp_char, is_dec_exp_char
<1> QED BY <1>4, <1>5, <1>6, <1>7, Zenon

\* Whether a character is one of them.
LEMMA Tests ==
    /\ \A c : c \in isdigit <=> c \in 48..57
    /\ \A c : c \in isoctal <=> c \in 48..55
    /\ \A c : c \in isxdigit <=> c \in 48..57 \/ c \in 65..70 \/ c \in 97..102
    /\ \A c : c \in isalpha <=> c \in 65..90 \/ c \in 97..122
    /\ \A c : c \in is_word_char <=> c \in 65..90 \/ c \in 97..122 \/ c \in 48..57 \/ c \in 95..95
    /\ \A c : c \in Letters <=> c \in 65..90 \/ c \in 97..122 \/ c \in 95..95
    /\ \A c : c \in is_hex_exp_char <=> c \in 80..80 \/ c \in 112..112
    /\ \A c : c \in is_dec_exp_char <=> c \in 69..69 \/ c \in 101..101
    /\ \A c : c \in Chars("xX") <=> c \in 88..88 \/ c \in 120..120
    /\ \A c : c \in Chars("pP") <=> c \in 80..80 \/ c \in 112..112
    /\ \A c : c \in Chars("eE") <=> c \in 69..69 \/ c \in 101..101
    /\ \A c : c \in Chars("+-") <=> c \in 43..43 \/ c \in 45..45
    /\ \A c : c \in Chars("_.") <=> c \in 95..95 \/ c \in 46..46
    /\ \A c : c \in Chars("eEpP") <=>
                c \in 69..69 \/ c \in 101..101 \/ c \in 80..80 \/ c \in 112..112
    /\ \A c : c \in Chars("fFlL") <=>
                c \in 70..70 \/ c \in 76..76 \/ c \in 102..102 \/ c \in 108..108
    /\ \A c : c \in Chars("LuU") <=> c \in 76..76 \/ c \in 85..85 \/ c \in 117..117
    /\ \A c : c \in Chars("UL") <=> c \in 76..76 \/ c \in 85..85
BY Codes

\* The characters that stand alone.
LEMMA Marks ==
    /\ DOT = 46 /\ QUOTE = 39 /\ DQUOTE = 34 /\ BACKSLASH = 92 /\ NUL = 0 /\ NL = 10
    /\ Ord("0") = 48 /\ Ord("x") = 120 /\ Ord("u") = 117
BY LiteralsAssumption DEF DOT, QUOTE, DQUOTE, BACKSLASH, NUL, NL

\* A scan that could stop at q stops there.
LEMMA SkipIs ==
    ASSUME Given, NEW p \in Positions, NEW class, NUL \notin class,
           NEW q \in p..Len(text), IsIn(p, q, class), text[q] \notin class
    PROVE  Skip(p, class) = q
<1>1. /\ Skip(p, class) \in p..Len(text) /\ text[Skip(p, class)] \notin class
      /\ \A k \in p..(Skip(p, class) - 1) : text[k] \in class
  BY SkipFacts
<1>2. PICK j : j = Skip(p, class)
  OBVIOUS
<1>3. p \in Int /\ Len(text) \in Nat /\ j \in Int /\ q \in Int
  BY <1>1, <1>2, TextFacts DEF Positions
<1>4. ~ (j < q)
  BY <1>1, <1>2, <1>3 DEF IsIn
<1>5. ~ (q < j)
  BY <1>1, <1>2, <1>3
<1> QED BY <1>2, <1>3, <1>4, <1>5

\* A span of a class that reaches q is inside the scan over the class.
LEMMA SkipBeyond ==
    ASSUME Given, NEW p \in Positions, NEW class, NUL \notin class,
           NEW q \in p..Len(text), IsIn(p, q, class)
    PROVE  q <= Skip(p, class)
<1>1. /\ Skip(p, class) \in p..Len(text) /\ text[Skip(p, class)] \notin class
  BY SkipFacts
<1>2. PICK j : j = Skip(p, class)
  OBVIOUS
<1>3. p \in Int /\ Len(text) \in Nat /\ j \in Int /\ q \in Int
  BY <1>1, <1>2, TextFacts DEF Positions
<1> QED BY <1>1, <1>2, <1>3 DEF IsIn

\* A spelling is what it matches: its characters, one by one.
LEMMA SpellingFacts ==
    ASSUME Given, NEW p \in Positions, NEW q \in p..Len(text), NEW w
    PROVE  /\ Len(Spelling(p, q)) = q - p
           /\ \A n \in 1..(q - p) : Spelling(p, q)[n] = text[p + n - 1]
           /\ w = Spelling(p, q) => matches(w, p) /\ Len(w) = q - p
           /\ w \in Seq(1..255) /\ matches(w, p) /\ Len(w) = q - p => w = Spelling(p, q)
<1>1. text \in Seq(0..255) /\ p \in 1..Len(text) /\ q - 1 \in (p - 1)..Len(text)
      /\ Len(text) \in Nat /\ p \in Nat /\ q \in Nat /\ p <= q
  BY TextFacts DEF Positions
<1>2. PICK t : t = Spelling(p, q)
  OBVIOUS
<1>3. t = [n \in 1..(q - p) |-> text[p + n - 1]] /\ t \in Seq(0..255) /\ Len(t) = q - p
  <2>1. t = SubSeq(text, p, q - 1)
    BY <1>2 DEF Spelling
  <2>2. \A n \in p..(q - 1) : text[n] \in 0..255
    <3>1. \A n \in p..(q - 1) : n \in Positions
      BY <1>1 DEF Positions
    <3> QED BY <3>1, TextFacts
  <2>3. /\ SubSeq(text, p, q - 1) = [n \in 1..((q - 1) - p + 1) |-> text[p + n - 1]]
        /\ SubSeq(text, p, q - 1) \in Seq(0..255) /\ Len(SubSeq(text, p, q - 1)) = (q - 1) - p + 1
    BY <1>1, <2>2
  <2> QED BY <1>1, <2>1, <2>3
<1>4. matches(t, p)
  BY <1>1, <1>3 DEF matches
<1>5. ASSUME w \in Seq(1..255), matches(w, p), Len(w) = q - p
      PROVE  w = t
  <2>1. w = [n \in 1..(q - p) |-> w[n]] /\ DOMAIN w = 1..(q - p)
    BY <1>5
  <2>2. \A n \in 1..(q - p) : text[p + n - 1] = w[n]
    BY <1>5, <2>1 DEF matches
  <2> QED BY <1>3, <2>1, <2>2
<1> QED BY <1>2, <1>3, <1>4, <1>5

\* The first match in a table whose longer entries come first is the longest.
LEMMA LongestMatch ==
    ASSUME Given, NEW p \in Positions, NEW table \in Seq(Seq(1..255)), LongestFirst(table)
    PROVE  /\ \A k \in DOMAIN table : matches(table[k], p) => Len(table[k]) <= first_match(table, p)
           /\ \/ first_match(table, p) = 0 /\ \A k \in DOMAIN table : ~matches(table[k], p)
              \/ \E k \in DOMAIN table : matches(table[k], p) /\ Len(table[k]) = first_match(table, p)
<1>1. PICK found : found = {k \in DOMAIN table : matches(table[k], p)}
  OBVIOUS
<1>2. first_match(table, p) = IF found = {} THEN 0 ELSE Len(table[Min(found)])
  BY <1>1 DEF first_match
<1>3. CASE found = {}
  BY <1>1, <1>2, <1>3
<1>4. CASE found # {}
  <2>1. found \in SUBSET Nat
    BY <1>1
  <2>2. Min(found) \in found /\ \A k \in found : Min(found) <= k
    BY <1>4, <2>1, MinFacts
  <2>3. PICK m : m = Min(found)
    OBVIOUS
  <2>4. m \in DOMAIN table /\ matches(table[m], p) /\ first_match(table, p) = Len(table[m])
    BY <1>1, <1>2, <1>4, <2>2, <2>3
  <2>5. ASSUME NEW k \in DOMAIN table, matches(table[k], p)
        PROVE  Len(table[k]) <= Len(table[m])
    <3>1. k \in found /\ m <= k /\ k \in Nat /\ m \in Nat
      BY <1>1, <2>1, <2>2, <2>3, <2>5
    <3>2. table[k] \in Seq(1..255) /\ table[m] \in Seq(1..255)
      BY <2>4, <2>5
    <3>3. SUFFICES ASSUME Len(table[m]) < Len(table[k]) PROVE FALSE
      BY <3>2
    <3>4. m # k
      BY <3>2, <3>3
    <3>5. ~Begins(table[m], table[k])
      BY <2>4, <2>5, <3>1, <3>4 DEF LongestFirst
    <3>6. ASSUME NEW n \in DOMAIN table[m]
          PROVE  table[k][n] = table[m][n]
      <4>1. n \in DOMAIN table[k]
        BY <3>2, <3>3
      <4> QED BY <2>4, <2>5, <4>1 DEF matches
    <3> QED BY <3>2, <3>3, <3>5, <3>6 DEF Begins
  <2> QED BY <2>4, <2>5
<1> QED BY <1>3, <1>4

-----------------------------------------------------------------------------
(* Numbers: the lexemes that begin where numeric_constant begins.          *)

\* A suffix of an integer is empty or begins with one of its letters.
LEMMA SuffixBegins ==
    ASSUME Given, NEW p \in Positions, NEW q \in p..Len(text), Spelling(p, q) \in IntegerSuffixes
    PROVE  p = q \/ text[p] \in {76, 85, 108, 117}
<1>1. p \in Nat /\ q \in Nat /\ p <= q
  BY TextFacts DEF Positions
<1>2. PICK w \in IntegerSuffixes : w = Spelling(p, q)
  OBVIOUS
<1>3. Len(w) = q - p /\ \A n \in 1..(q - p) : w[n] = text[p + n - 1]
  BY <1>2, SpellingFacts
<1>4. CASE p # q
  <2>1. 1 \in 1..(q - p) /\ p + 1 - 1 = p
    BY <1>1, <1>4
  <2>2. w[1] = text[p]
    BY <1>3, <2>1
  <2>3. 1 \in DOMAIN w
    <3>1. w \in Seq(0..255)
      <4>1. \A n \in p..(q - 1) : n \in Positions
        BY <1>1, TextFacts DEF Positions
      <4>2. \A n \in p..(q - 1) : text[n] \in 0..255
        BY <4>1, TextFacts
      <4>3. SubSeq(text, p, q - 1) \in Seq(0..255)
        BY <1>1, <4>2
      <4> QED BY <1>2, <4>3 DEF Spelling
    <3> QED BY <1>3, <2>1, <3>1
  <2> QED BY <1>2, <2>2, <2>3, TablesAssumption
<1> QED BY <1>4

\* The characters that a preprocessing number goes on with.
Goes(k) == \/ text[k] \in isalpha \cup isdigit \cup Chars("_.")
           \/ text[k] \in Chars("+-") /\ text[k - 1] \in Chars("eEpP")

\* A preprocessing number goes as far as its characters go.
LEMMA PpReaches ==
    ASSUME Given, NEW p \in Positions, NEW j \in p..Len(text), \A k \in p..(j - 1) : Goes(k)
    PROVE  PpNumberEnd(p) \in j..Len(text)
<1>1. Len(text) \in Nat /\ p \in Nat /\ p <= Len(text) /\ j \in Nat
  BY TextFacts DEF Positions
<1>2. ~Goes(Len(text))
  <2>1. text[Len(text)] = 0
    BY TextFacts DEF NUL
  <2>2. 0 \notin isalpha \cup isdigit \cup Chars("_.") /\ 0 \notin Chars("+-")
    BY Codes
  <2> QED BY <2>1, <2>2 DEF Goes
<1>3. PICK T : T = {q \in p..Len(text) : ~Goes(q)}
  OBVIOUS
<1>4. T \in SUBSET Nat /\ T # {}
  BY <1>1, <1>2, <1>3
<1>5. PICK m \in T : \A k \in T : m <= k
  BY <1>4, LeastElement
<1>6. m \in p..Len(text) /\ ~Goes(m)
  BY <1>3
<1>7. \A k \in p..(m - 1) : Goes(k)
  <2> SUFFICES ASSUME NEW k \in p..(m - 1) PROVE Goes(k)
    OBVIOUS
  <2>1. k \in p..Len(text) /\ ~ (m <= k)
    BY <1>1, <1>6
  <2> QED BY <1>3, <1>5, <2>1
<1>8. PpNumberEnd(p) = CHOOSE q \in p..Len(text) : ~Goes(q) /\ \A k \in p..(q - 1) : Goes(k)
  BY DEF PpNumberEnd, Goes
<1>9. PICK n : n = PpNumberEnd(p)
  OBVIOUS
<1>10. n \in p..Len(text) /\ ~Goes(n)
  BY <1>6, <1>7, <1>8, <1>9
<1>11. ~ (n < j)
  BY <1>1, <1>10
<1> QED BY <1>1, <1>9, <1>10, <1>11

\* A character of a word goes on.
LEMMA WordGoes ==
    \A k : text[k] \in is_word_char \cup {DOT} => Goes(k)
BY Tests, Marks DEF Goes

\* An exponent: its sign, and how far its digits go.
ExponentDigits(k) == IF text[k + 1] \in Chars("+-") THEN k + 2 ELSE k + 1
ExponentEnd(k) == Skip(ExponentDigits(k), isdigit)

\* How far an exponent goes that begins with a letter at p.
LEMMA ExponentFacts ==
    ASSUME Given, NEW p \in Positions, NEW letters, letters \in {{69, 101}, {80, 112}},
           text[p] \in letters
    PROVE  /\ ExponentDigits(p) \in Positions /\ p < ExponentDigits(p)
           /\ ExponentEnd(p) \in ExponentDigits(p)..Len(text)
           /\ \A q \in p..Len(text) : Exponent(p, q, letters) <=>
                  ExponentDigits(p) < q /\ q <= ExponentEnd(p)
           /\ \A k \in p..(ExponentEnd(p) - 1) : Goes(k)
<1>1. Len(text) \in Nat /\ p \in 1..Len(text) /\ text[p] # NUL /\ p + 1 \in 1..Len(text)
  BY Tests, Marks, TextFacts, NextPosition DEF Positions
<1>2. PICK d : d = ExponentDigits(p)
  OBVIOUS
<1>3. d \in Positions /\ p < d
  <2>1. CASE text[p + 1] \in Chars("+-")
    <3>1. (p + 1) + 1 \in Positions
      BY <1>1, <2>1, Tests, Marks, NextPosition DEF Positions
    <3> QED BY <1>1, <1>2, <2>1, <3>1 DEF ExponentDigits
  <2>2. CASE text[p + 1] \notin Chars("+-")
    BY <1>1, <1>2, <2>2 DEF ExponentDigits, Positions
  <2> QED BY <2>1, <2>2
<1>4. PICK e : e = ExponentEnd(p)
  OBVIOUS
<1>5. /\ e \in d..Len(text) /\ text[e] \notin isdigit
      /\ \A k \in d..(e - 1) : text[k] \in isdigit
  BY <1>2, <1>3, <1>4, SkipFacts, Classes, ZenonT(60) DEF ExponentEnd
<1>6. d \in 1..Len(text) /\ e \in d..Len(text)
  BY <1>3, <1>5 DEF Positions
<1>7. ASSUME NEW q \in p..Len(text), d < q, q <= e
      PROVE  Exponent(p, q, letters)
  <2>1. DigitSeq(d, q, isdigit)
    BY <1>1, <1>5, <1>6, <1>7 DEF DigitSeq, IsIn
  <2>2. CASE text[p + 1] \in Chars("+-")
    <3>1. d = p + 2
      BY <1>2, <2>2 DEF ExponentDigits
    <3>2. p < q /\ p + 1 < q
      BY <1>1, <1>6, <1>7, <3>1
    <3> QED BY <2>1, <2>2, <3>1, <3>2 DEF Exponent
  <2>3. CASE text[p + 1] \notin Chars("+-")
    <3>1. d = p + 1
      BY <1>2, <2>3 DEF ExponentDigits
    <3>2. p < q
      BY <1>1, <1>6, <1>7, <3>1
    <3> QED BY <2>1, <3>1, <3>2 DEF Exponent
  <2> QED BY <2>2, <2>3
<1>8. ASSUME NEW q \in p..Len(text), Exponent(p, q, letters)
      PROVE  d < q /\ q <= e
  <2>1. DigitSeq(d, q, isdigit)
    <3>1. CASE text[p + 1] \in Chars("+-")
      <4>1. ~ DigitSeq(p + 1, q, isdigit)
        <5>1. text[p + 1] \notin isdigit
          BY <3>1, Tests, Marks
        <5> QED BY <1>1, <5>1 DEF DigitSeq, IsIn
      <4> QED BY <1>2, <1>8, <3>1, <4>1 DEF Exponent, ExponentDigits
    <3>2. CASE text[p + 1] \notin Chars("+-")
      BY <1>2, <1>8, <3>2 DEF Exponent, ExponentDigits
    <3> QED BY <3>1, <3>2
  <2>2. d < q /\ IsIn(d, q, isdigit)
    BY <2>1 DEF DigitSeq
  <2>3. q \in d..Len(text)
    BY <1>1, <1>6, <2>2
  <2> QED BY <1>2, <1>3, <1>4, <2>2, <2>3, SkipBeyond, Classes DEF ExponentEnd
<1>9. ASSUME NEW k \in p..(e - 1)
      PROVE  Goes(k)
  <2>1. CASE k = p
    <3>1. text[k] \in is_word_char
      BY <2>1, Tests, Marks
    <3> QED BY <3>1, WordGoes
  <2>2. CASE k \in d..(e - 1)
    <3>1. text[k] \in is_word_char
      BY <1>5, <2>2, Tests, Marks
    <3> QED BY <3>1, WordGoes
  <2>3. CASE k # p /\ k \notin d..(e - 1)
    <3>1. k < d /\ p < k /\ k \in Nat
      BY <1>1, <1>6, <2>3
    <3>2. text[p + 1] \in Chars("+-") /\ k = p + 1
      BY <1>1, <1>2, <3>1 DEF ExponentDigits
    <3>3. text[k - 1] \in Chars("eEpP")
      <4>1. k - 1 = p
        BY <1>1, <3>2
      <4> QED BY <4>1, Tests, Marks
    <3> QED BY <3>2, <3>3 DEF Goes
  <2> QED BY <2>1, <2>2, <2>3
<1> QED BY <1>2, <1>3, <1>4, <1>5, <1>7, <1>8, <1>9

-----------------------------------------------------------------------------
(* The classes of characters, apart from each other.                       *)

\* The letters of the suffixes of integers.
Suffixes == {76, 85, 108, 117}

\* What a character of one class is or is not besides.
LEMMA Apart ==
    /\ \A c \in isdigit : /\ c \in isxdigit /\ c \in is_word_char /\ c \notin Suffixes /\ c # DOT
                          /\ c \notin Chars("eE") /\ c \notin Chars("pP") /\ c \notin Chars("+-")
                          /\ c \notin Chars("fFlL") /\ c \notin Letters /\ c # NUL
    /\ \A c \in isxdigit : c \in is_word_char /\ c \notin Suffixes /\ c # DOT /\ c \notin Chars("pP")
    /\ \A c \in isoctal : c \in isdigit
    /\ \A c \in Chars("xX") : /\ c \in is_word_char /\ c \notin isdigit /\ c # DOT /\ c # NUL
                              /\ c \notin Chars("eE") /\ c \notin Suffixes
    /\ \A c \in Chars("eE") : /\ c \in is_word_char /\ c \notin isdigit /\ c # DOT /\ c # NUL
                              /\ c \notin Chars("fFlL") /\ c \notin Suffixes
    /\ \A c \in Chars("pP") : /\ c \in is_word_char /\ c \notin isxdigit /\ c # DOT /\ c # NUL
                              /\ c \notin Chars("fFlL") /\ c \notin Suffixes
    /\ \A c \in Chars("fFlL") : c \in is_word_char
    /\ \A c \in Suffixes : c \in is_word_char /\ c # DOT
    /\ DOT \notin is_word_char /\ DOT \notin Chars("fFlL") /\ DOT \notin Chars("eE")
    /\ DOT \notin Chars("pP") /\ DOT \notin isdigit /\ DOT \notin isxdigit
    /\ 48 \in isdigit /\ 48 \in isoctal /\ 48 # DOT
<1>1. DOT = 46 /\ NUL = 0
  BY Marks
<1>2. \A c \in isdigit : c \in 48..57
  BY Codes
<1>3. \A c \in isxdigit : c \in 48..57 \/ c \in 65..70 \/ c \in 97..102
  BY Codes
<1>4. \A c \in isoctal : c \in 48..55
  BY Codes
<1>5. \A c \in Chars("xX") : c = 88 \/ c = 120
  BY LiteralsAssumption
<1>6. \A c \in Chars("eE") : c = 69 \/ c = 101
  BY LiteralsAssumption
<1>7. \A c \in Chars("pP") : c = 80 \/ c = 112
  BY LiteralsAssumption
<1>8. \A c \in Chars("fFlL") : c = 70 \/ c = 76 \/ c = 102 \/ c = 108
  BY LiteralsAssumption
<1>9. \A c \in Chars("+-") : c = 43 \/ c = 45
  BY LiteralsAssumption
<1>10. \A c \in Letters : c \in 65..90 \/ c \in 97..122 \/ c = 95
  BY Codes
<1>11. /\ \A c \in 48..57 : c \in is_word_char /\ c \in isdigit
       /\ \A c \in 65..90 : c \in is_word_char
       /\ \A c \in 97..122 : c \in is_word_char
       /\ \A c \in is_word_char : c \in 48..57 \/ c \in 65..90 \/ c \in 97..122 \/ c = 95
  BY Codes
<1>12. \A c \in isdigit : /\ c \in isxdigit /\ c \in is_word_char /\ c \notin Suffixes /\ c # DOT
                          /\ c \notin Chars("eE") /\ c \notin Chars("pP") /\ c \notin Chars("+-")
                          /\ c \notin Chars("fFlL") /\ c \notin Letters /\ c # NUL
  <2> SUFFICES ASSUME NEW c \in 48..57
               PROVE  /\ c \in isxdigit /\ c \in is_word_char /\ c \notin Suffixes /\ c # DOT
                      /\ c \notin Chars("eE") /\ c \notin Chars("pP") /\ c \notin Chars("+-")
                      /\ c \notin Chars("fFlL") /\ c \notin Letters /\ c # NUL
    BY <1>2
  <2>1. c \in isxdigit
    BY Codes
  <2> QED BY <1>1, <1>6, <1>7, <1>8, <1>9, <1>10, <1>11, <2>1 DEF Suffixes
<1>13. \A c \in isxdigit : c \in is_word_char /\ c \notin Suffixes /\ c # DOT /\ c \notin Chars("pP")
  BY <1>1, <1>3, <1>7, <1>11 DEF Suffixes
<1>14. \A c \in isoctal : c \in isdigit
  BY <1>4, <1>11
<1>15. /\ \A c \in Chars("xX") : /\ c \in is_word_char /\ c \notin isdigit /\ c # DOT /\ c # NUL
                                 /\ c \notin Chars("eE") /\ c \notin Suffixes
       /\ \A c \in Chars("eE") : /\ c \in is_word_char /\ c \notin isdigit /\ c # DOT /\ c # NUL
                                 /\ c \notin Chars("fFlL") /\ c \notin Suffixes
       /\ \A c \in Chars("pP") : /\ c \in is_word_char /\ c \notin isxdigit /\ c # DOT /\ c # NUL
                                 /\ c \notin Chars("fFlL") /\ c \notin Suffixes
  <2>1. \A c \in {88, 120, 69, 101, 80, 112} :
            /\ c \in is_word_char /\ c # DOT /\ c # NUL /\ c \notin Suffixes
            /\ c \notin isdigit /\ (c \in {80, 112} => c \notin isxdigit)
            /\ (c \in {88, 120} => c \notin Chars("eE"))
            /\ (c \notin {88, 120} => c \notin Chars("fFlL"))
    BY <1>1, <1>2, <1>3, <1>6, <1>8, <1>11 DEF Suffixes
  <2> QED BY <1>5, <1>6, <1>7, <2>1
<1>16. /\ \A c \in Chars("fFlL") : c \in is_word_char
       /\ \A c \in Suffixes : c \in is_word_char /\ c # DOT
  BY <1>1, <1>8, <1>11 DEF Suffixes
<1>17. /\ DOT \notin is_word_char /\ DOT \notin Chars("fFlL") /\ DOT \notin Chars("eE")
       /\ DOT \notin Chars("pP") /\ DOT \notin isdigit /\ DOT \notin isxdigit
  BY <1>1, <1>2, <1>3, <1>6, <1>7, <1>8, <1>11
<1>18. 48 \in isdigit /\ 48 \in isoctal /\ 48 # DOT
  <2>1. 48 \in isoctal
    BY Codes
  <2> QED BY <1>1, <1>11, <2>1
<1> QED BY <1>12, <1>13, <1>14, <1>15, <1>16, <1>17, <1>18, Zenon

\* The two places up to which a number is read before its exponent, and the letters
\* of the exponent.
HexInt(p) == Skip(p + 2, isxdigit)
HexEnd(p) == fraction_end(HexInt(p), isxdigit)
DecInt(p) == Skip(p, isdigit)
DecEnd(p) == fraction_end(DecInt(p), isdigit)
IsHex(p) == text[p] = Ord("0") /\ text[p + 1] \in Chars("xX")

\* Digits with a point among them: the point is where the scan over digits ends.
LEMMA FractionEnds ==
    ASSUME Given, NEW class, class \in {isdigit, isxdigit}, NEW p \in Positions,
           NEW m, m = Skip(p, class), NEW e, e = fraction_end(m, class)
    PROVE  /\ m \in p..Len(text) /\ e \in m..Len(text) /\ text[m] \notin class /\ text[e] \notin class
           /\ \A k \in p..(e - 1) : text[k] \in class \cup {DOT}
           /\ \A q \in p..Len(text) : Fraction(p, q, class) => text[m] = DOT /\ m < q /\ q <= e
           /\ text[m] = DOT /\ p + 1 < e => Fraction(p, e, class)
<1>1. NUL \notin class /\ DOT \notin class /\ NUL # DOT
  <2>1. NUL \notin isdigit /\ NUL \notin isxdigit /\ NUL # DOT
    BY Classes
  <2>2. DOT \notin isdigit /\ DOT \notin isxdigit
    BY DEF DOT, isdigit, isxdigit
  <2> QED BY <2>1, <2>2
<1>2. /\ m \in p..Len(text) /\ m \in Positions /\ text[m] \notin class
      /\ \A k \in p..(m - 1) : text[k] \in class
  BY <1>1, SkipFacts
<1>3. p \in 1..Len(text) /\ Len(text) \in Nat /\ p \in Nat /\ m \in Nat
  BY <1>2, TextFacts DEF Positions
<1>4. CASE text[m] # DOT
  <2>1. e = m
    BY <1>4 DEF fraction_end
  <2>2. ASSUME NEW q \in p..Len(text), Fraction(p, q, class)
        PROVE  FALSE
    <3>1. PICK j \in p..(q - 1) : text[j] = DOT /\ IsIn(p, j, class)
      BY <2>2 DEF Fraction
    <3>2. j \in p..Len(text)
      BY <1>3, <3>1
    <3>3. m = j
      BY <1>1, <3>1, <3>2, SkipIs
    <3> QED BY <1>4, <3>1, <3>3
  <2> QED BY <1>2, <1>3, <1>4, <2>1, <2>2
<1>5. CASE text[m] = DOT
  <2>1. e = Skip(m + 1, class)
    BY <1>5 DEF fraction_end
  <2>2. m + 1 \in Positions
    BY <1>1, <1>2, <1>5, NextPosition
  <2>3. /\ e \in (m + 1)..Len(text) /\ text[e] \notin class
        /\ \A k \in (m + 1)..(e - 1) : text[k] \in class
    BY <1>1, <2>1, <2>2, SkipFacts
  <2>4. \A k \in p..(e - 1) : text[k] \in class \cup {DOT}
    <3> SUFFICES ASSUME NEW k \in p..(e - 1) PROVE text[k] \in class \cup {DOT}
      OBVIOUS
    <3>1. k \in p..(m - 1) \/ k = m \/ k \in (m + 1)..(e - 1)
      BY <1>2, <1>3, <2>3
    <3> QED BY <1>2, <1>5, <2>3, <3>1
  <2>5. ASSUME NEW q \in p..Len(text), Fraction(p, q, class)
        PROVE  m < q /\ q <= e
    <3>1. PICK j \in p..(q - 1) : text[j] = DOT /\ IsIn(p, j, class) /\ IsIn(j + 1, q, class)
      BY <2>5 DEF Fraction
    <3>2. j \in p..Len(text) /\ q \in (j + 1)..Len(text) /\ j \in Nat /\ q \in Nat
      BY <1>3, <3>1
    <3>3. m = j
      BY <1>1, <3>1, <3>2, SkipIs
    <3>4. q \in (m + 1)..Len(text) /\ IsIn(m + 1, q, class)
      BY <3>1, <3>2, <3>3
    <3>5. q <= e
      BY <1>1, <2>1, <2>2, <3>4, SkipBeyond
    <3> QED BY <1>3, <3>2, <3>3, <3>5
  <2>6. p + 1 < e => Fraction(p, e, class)
    <3>1. m \in p..(e - 1)
      BY <1>2, <1>3, <2>3
    <3>2. IsIn(p, m, class) /\ IsIn(m + 1, e, class)
      BY <1>2, <2>3 DEF IsIn
    <3> QED BY <1>5, <3>1, <3>2 DEF Fraction
  <2>7. e \in m..Len(text)
    BY <1>3, <2>3
  <2> QED BY <1>2, <1>5, <2>3, <2>4, <2>5, <2>6, <2>7
<1> QED BY <1>4, <1>5

\* Where the digits of a number end: those before its point, and those behind it.
NumberEnds(p, m, e) ==
    /\ m \in p..Len(text) /\ e \in m..Len(text) /\ (p < m \/ text[m] = DOT)
    /\ e = m \/ text[m] = DOT
    /\ \A k \in p..(e - 1) : Goes(k)

\* The integer constants that reach the end of the digits.
IntegersFrom(p, m) ==
    \A q \in m..Len(text) :
        IntegerConstant(p, q) => Integer(p, m) /\ Spelling(m, q) \in IntegerSuffixes

\* Hexadecimal constants.
LEMMA HexLexemes ==
    ASSUME Given, NEW p \in Positions, IsHex(p), NEW m, m = HexInt(p), NEW e, e = HexEnd(p)
    PROVE  /\ NumberEnds(p, m, e) /\ IntegersFrom(p, m) /\ p + 2 \in Positions
           /\ m \in (p + 2)..Len(text) /\ text[e] \notin isxdigit
           /\ Base(p, m) = 16
           /\ Integer(p, m) <=> p + 2 < m
           /\ \A k \in (p + 2)..(m - 1) : text[k] \in isxdigit
           /\ \A q \in p..Len(text) : Float(p, q) =>
                  /\ text[e] \in Chars("pP") /\ Exponent(e, q, Chars("pP"))
                  /\ \/ text[p + 2] \in isxdigit
                     \/ text[p + 2] = DOT /\ text[p + 3] \in isxdigit
           /\ \A q \in p..Len(text) :
                  /\ text[e] \in Chars("pP") /\ Exponent(e, q, Chars("pP"))
                  /\ \/ text[p + 2] \in isxdigit
                     \/ text[p + 2] = DOT /\ text[p + 3] \in isxdigit
                  => Float(p, q)
<1>1. p \in Nat /\ p \in 1..Len(text) /\ Len(text) \in Nat /\ text[p] = 48 /\ text[p + 1] \in Chars("xX")
  BY TextFacts, Marks DEF Positions, IsHex
<1>2. p + 1 \in Positions /\ p + 2 \in Positions
  <2>1. text[p] # NUL
    BY <1>1, Marks
  <2>2. p + 1 \in Positions
    BY <2>1, NextPosition
  <2>3. text[p + 1] # NUL
    BY <1>1, Apart
  <2>4. (p + 1) + 1 \in Positions
    BY <2>2, <2>3, NextPosition
  <2> QED BY <1>1, <2>2, <2>4
<1>3. /\ m \in (p + 2)..Len(text) /\ e \in m..Len(text) /\ text[m] \notin isxdigit
      /\ text[e] \notin isxdigit
      /\ \A k \in (p + 2)..(e - 1) : text[k] \in isxdigit \cup {DOT}
      /\ \A q \in (p + 2)..Len(text) :
             Fraction(p + 2, q, isxdigit) => text[m] = DOT /\ m < q /\ q <= e
      /\ text[m] = DOT /\ (p + 2) + 1 < e => Fraction(p + 2, e, isxdigit)
  <2>1. m = Skip(p + 2, isxdigit) /\ e = fraction_end(m, isxdigit) /\ isxdigit \in {isdigit, isxdigit}
    BY DEF HexInt, HexEnd
  <2>2. PICK j \in Positions : j = p + 2
    BY <1>2
  <2>3. /\ m \in j..Len(text) /\ e \in m..Len(text) /\ text[m] \notin isxdigit
        /\ text[e] \notin isxdigit
        /\ \A k \in j..(e - 1) : text[k] \in isxdigit \cup {DOT}
        /\ \A q \in j..Len(text) :
               Fraction(j, q, isxdigit) => text[m] = DOT /\ m < q /\ q <= e
        /\ text[m] = DOT /\ j + 1 < e => Fraction(j, e, isxdigit)
    <3>1. PICK class : class = isxdigit /\ class \in {isdigit, isxdigit}
      OBVIOUS
    <3>2. m = Skip(j, class) /\ e = fraction_end(m, class)
      BY <2>1, <2>2, <3>1
    <3>3. /\ m \in j..Len(text) /\ e \in m..Len(text) /\ text[m] \notin class
          /\ text[e] \notin class
          /\ \A k \in j..(e - 1) : text[k] \in class \cup {DOT}
          /\ \A q \in j..Len(text) :
                 Fraction(j, q, class) => text[m] = DOT /\ m < q /\ q <= e
          /\ text[m] = DOT /\ j + 1 < e => Fraction(j, e, class)
      BY <3>1, <3>2, FractionEnds
    <3> QED BY <3>1, <3>3
  <2> QED BY <2>2, <2>3
<1>4. \A k \in (p + 2)..(m - 1) : text[k] \in isxdigit
  BY <1>2, SkipFacts, Classes DEF HexInt
<1>5. NumberEnds(p, m, e)
  <2>1. ASSUME NEW k \in p..(e - 1)
        PROVE  Goes(k)
    <3>1. k = p \/ k = p + 1 \/ k \in (p + 2)..(e - 1)
      BY <1>1, <1>3
    <3>2. text[k] \in is_word_char \cup {DOT}
      <4>1. CASE k = p
        BY <1>1, <4>1, Apart
      <4>2. CASE k = p + 1
        BY <1>1, <4>2, Apart
      <4>3. CASE k \in (p + 2)..(e - 1)
        BY <1>3, <4>3, Apart
      <4> QED BY <3>1, <4>1, <4>2, <4>3
    <3> QED BY <3>2, WordGoes
  <2>2. m \in p..Len(text) /\ p < m /\ e \in m..Len(text)
    BY <1>1, <1>3
  <2>3. e = m \/ text[m] = DOT
    BY DEF HexEnd, fraction_end
  <2> QED BY <2>1, <2>2, <2>3 DEF NumberEnds
<1>6. \A q : HexPrefix(p, q) <=> p + 1 < q
  BY <1>1, Marks DEF HexPrefix
<1>7. \A q \in (p + 2)..Len(text) : Base(p, q) = 16 /\ (Integer(p, q) <=> DigitSeq(p + 2, q, isxdigit))
  <2> SUFFICES ASSUME NEW q \in (p + 2)..Len(text)
               PROVE  Base(p, q) = 16 /\ (Integer(p, q) <=> DigitSeq(p + 2, q, isxdigit))
    OBVIOUS
  <2>1. HexPrefix(p, q)
    BY <1>1, <1>6
  <2>2. Base(p, q) = 16
    BY <2>1 DEF Base
  <2> QED BY <2>2 DEF Integer
<1>8. Integer(p, m) <=> p + 2 < m
  BY <1>3, <1>4, <1>7 DEF DigitSeq, IsIn
<1>9. ASSUME NEW q \in m..Len(text), IntegerConstant(p, q)
      PROVE  Integer(p, m) /\ Spelling(m, q) \in IntegerSuffixes
  <2>1. PICK k \in (p + 1)..q : Integer(p, k) /\ Spelling(k, q) \in IntegerSuffixes
    BY <1>9 DEF IntegerConstant
  <2>2. k \in Positions /\ q \in k..Len(text) /\ k \in Nat /\ q \in Nat /\ m \in Nat
    BY <1>1, <1>3, <2>1 DEF Positions
  <2>3. k = q \/ text[k] \in Suffixes
    BY <2>1, <2>2, SuffixBegins DEF Suffixes
  <2>4. k # p + 1
    <3>1. q # p + 1
      BY <1>1, <1>3
    <3>2. text[p + 1] \notin Suffixes
      BY <1>1, Apart
    <3> QED BY <2>3, <3>1, <3>2
  <2>5. k \in (p + 2)..Len(text)
    BY <1>1, <2>1, <2>2, <2>4
  <2>6. p + 2 < k /\ IsIn(p + 2, k, isxdigit)
    BY <1>7, <2>1, <2>5 DEF DigitSeq
  <2>7. k <= m
    BY <1>2, <2>5, <2>6, SkipBeyond, Classes DEF HexInt
  <2>8. k = m
    <3>1. SUFFICES ASSUME k < m PROVE FALSE
      BY <2>2, <2>7
    <3>2. k # q
      BY <2>2, <3>1
    <3>3. text[k] \in isxdigit
      BY <1>1, <1>4, <2>2, <2>6, <3>1
    <3>4. text[k] \notin Suffixes
      BY <3>3, Apart
    <3> QED BY <2>3, <3>2, <3>4
  <2> QED BY <2>1, <2>8
<1>10. ASSUME NEW q \in p..Len(text), Float(p, q)
       PROVE  /\ text[e] \in Chars("pP") /\ Exponent(e, q, Chars("pP"))
              /\ \/ text[p + 2] \in isxdigit
                 \/ text[p + 2] = DOT /\ text[p + 3] \in isxdigit
  <2>1. PICK k \in p..q :
            \/ Fraction(p, k, isdigit)
            \/ DigitSeq(p, k, isdigit) /\ Exponent(k, q, Chars("eE"))
            \/ /\ HexPrefix(p, k)
               /\ (Fraction(p + 2, k, isxdigit) \/ DigitSeq(p + 2, k, isxdigit))
               /\ Exponent(k, q, Chars("pP"))
    BY <1>10 DEF Float
  <2>2. k \in Nat /\ q \in Nat /\ k \in p..Len(text)
    BY <1>1, <2>1
  <2>3. text[p + 1] \notin isdigit \cup {DOT} /\ text[p + 1] \notin Chars("eE") /\ text[p] # DOT
    BY <1>1, Apart
  <2>4. ~ Fraction(p, k, isdigit)
    <3> SUFFICES ASSUME Fraction(p, k, isdigit) PROVE FALSE
      OBVIOUS
    <3>1. PICK j \in p..(k - 1) : text[j] = DOT /\ IsIn(p, j, isdigit)
      BY DEF Fraction
    <3>2. j # p /\ j # p + 1
      BY <2>3, <3>1
    <3>3. p + 1 \in p..(j - 1)
      BY <1>1, <2>2, <3>1, <3>2
    <3> QED BY <2>3, <3>1, <3>3 DEF IsIn
  <2>5. ~ (DigitSeq(p, k, isdigit) /\ Exponent(k, q, Chars("eE")))
    <3> SUFFICES ASSUME DigitSeq(p, k, isdigit), Exponent(k, q, Chars("eE")) PROVE FALSE
      OBVIOUS
    <3>1. p < k /\ text[k] \in Chars("eE") /\ \A j \in p..(k - 1) : text[j] \in isdigit
      BY DEF DigitSeq, IsIn, Exponent
    <3>2. k # p + 1
      BY <2>3, <3>1
    <3>3. p + 1 \in p..(k - 1)
      BY <1>1, <2>2, <3>1, <3>2
    <3> QED BY <2>3, <3>1, <3>3
  <2>6. /\ HexPrefix(p, k) /\ Exponent(k, q, Chars("pP"))
        /\ Fraction(p + 2, k, isxdigit) \/ DigitSeq(p + 2, k, isxdigit)
    BY <2>1, <2>4, <2>5
  <2>7. k \in (p + 2)..Len(text) /\ text[k] \in Chars("pP") /\ text[k] \notin isxdigit
    <3>1. text[k] \in Chars("pP")
      BY <2>6 DEF Exponent
    <3>2. text[k] \notin isxdigit
      BY <3>1, Apart
    <3> QED BY <1>1, <1>6, <2>2, <2>6, <3>1, <3>2
  <2>8. CASE Fraction(p + 2, k, isxdigit)
    <3>1. text[m] = DOT /\ m < k /\ k <= e
      BY <1>3, <2>7, <2>8
    <3>2. PICK j \in (p + 2)..(k - 1) : /\ text[j] = DOT /\ IsIn(p + 2, j, isxdigit)
                                        /\ IsIn(j + 1, k, isxdigit) /\ (p + 2) + 1 < k
      BY <2>8 DEF Fraction
    <3>3. j \in (p + 2)..Len(text) /\ DOT \notin isxdigit /\ j \in Nat
      <4>1. DOT \notin isxdigit
        BY Apart
      <4>2. j \in Int /\ k \in Int /\ p + 2 <= j /\ j <= k - 1 /\ k <= Len(text)
        BY <1>1, <2>2, <3>2
      <4> QED BY <1>1, <4>1, <4>2
    <3>4. m = j
      BY <1>2, <3>2, <3>3, SkipIs, Classes DEF HexInt
    <3>5. e = Skip(m + 1, isxdigit) /\ m + 1 \in Positions
      BY <1>1, <1>3, <2>7, <3>1 DEF HexEnd, fraction_end, Positions
    <3>6. k \in (m + 1)..Len(text) /\ IsIn(m + 1, k, isxdigit)
      BY <2>2, <3>2, <3>3, <3>4
    <3>7. e = k
      BY <2>7, <3>5, <3>6, SkipIs, Classes
    <3>8. \/ text[p + 2] \in isxdigit
          \/ text[p + 2] = DOT /\ text[p + 3] \in isxdigit
      <4>1. CASE j = p + 2
        <5>1. p + 3 \in (j + 1)..(k - 1)
          BY <1>1, <2>2, <3>2, <4>1
        <5> QED BY <3>2, <4>1, <5>1 DEF IsIn
      <4>2. CASE j # p + 2
        <5>1. p + 2 \in (p + 2)..(j - 1)
          BY <1>1, <3>2, <3>3, <4>2
        <5> QED BY <3>2, <5>1 DEF IsIn
      <4> QED BY <4>1, <4>2
    <3> QED BY <2>6, <2>7, <3>7, <3>8
  <2>9. CASE DigitSeq(p + 2, k, isxdigit)
    <3>1. p + 2 < k /\ IsIn(p + 2, k, isxdigit)
      BY <2>9 DEF DigitSeq
    <3>2. m = k
      BY <1>2, <2>7, <3>1, SkipIs, Classes DEF HexInt
    <3>3. text[m] # DOT
      BY <2>7, <3>2, Apart
    <3>4. e = m
      BY <3>3 DEF HexEnd, fraction_end
    <3>5. p + 2 \in (p + 2)..(k - 1)
      BY <1>1, <2>2, <3>1
    <3> QED BY <2>6, <2>7, <3>1, <3>2, <3>4, <3>5 DEF IsIn
  <2> QED BY <2>6, <2>8, <2>9
<1>11. ASSUME NEW q \in p..Len(text), text[e] \in Chars("pP"), Exponent(e, q, Chars("pP")),
              \/ text[p + 2] \in isxdigit
              \/ text[p + 2] = DOT /\ text[p + 3] \in isxdigit
       PROVE  Float(p, q)
  <2>1. e \in p..q
    <3>1. e < q
      BY <1>11 DEF Exponent
    <3> QED BY <1>1, <1>3, <3>1
  <2>2. Fraction(p + 2, e, isxdigit) \/ DigitSeq(p + 2, e, isxdigit)
    <3>1. CASE text[m] = DOT
      <4>1. (p + 2) + 1 < e
        <5>1. e = Skip(m + 1, isxdigit) /\ m + 1 \in Positions
          <6>1. text[m] # NUL /\ m \in Positions
            BY <1>1, <1>3, <3>1, Marks DEF Positions
          <6> QED BY <3>1, <6>1, NextPosition DEF HexEnd, fraction_end
        <5>2. e \in (m + 1)..Len(text) /\ text[e] \notin isxdigit
          BY <5>1, SkipFacts, Classes, ZenonT(60)
        <5>3. CASE p + 2 < m
          BY <1>1, <1>3, <5>2, <5>3
        <5>4. CASE p + 2 = m
          <6>1. text[p + 2] \notin isxdigit
            BY <1>3, <5>4
          <6>2. text[m + 1] \in isxdigit
            <7>1. m + 1 = p + 3
              BY <1>1, <5>4
            <7> QED BY <1>11, <6>1, <7>1
          <6>3. e # m + 1
            BY <5>2, <6>2
          <6> QED BY <1>1, <1>3, <5>2, <5>4, <6>3
        <5> QED BY <1>1, <1>3, <5>3, <5>4
      <4> QED BY <1>3, <3>1, <4>1
    <3>2. CASE text[m] # DOT
      <4>1. e = m
        BY <3>2 DEF HexEnd, fraction_end
      <4>2. m # p + 2
        BY <1>3, <1>11, <3>2
      <4>3. p + 2 < m
        BY <1>1, <1>3, <4>2
      <4> QED BY <1>4, <4>1, <4>3 DEF DigitSeq, IsIn
    <3> QED BY <3>1, <3>2
  <2>3. HexPrefix(p, e)
    BY <1>1, <1>3, <1>6
  <2> QED BY <1>11, <2>1, <2>2, <2>3 DEF Float
<1>12. Base(p, m) = 16
  BY <1>3, <1>7
<1> QED BY <1>2, <1>3, <1>4, <1>5, <1>8, <1>9, <1>10, <1>11, <1>12 DEF IntegersFrom

\* A number begins with a digit, or with a point and a digit.
Begun(p) == text[p] \in isdigit \/ (text[p] = DOT /\ text[p + 1] \in isdigit)

\* Decimal and octal constants.
LEMMA DecLexemes ==
    ASSUME Given, NEW p \in Positions, ~IsHex(p), Begun(p),
           NEW m, m = DecInt(p), NEW e, e = DecEnd(p)
    PROVE  /\ NumberEnds(p, m, e) /\ IntegersFrom(p, m) /\ p < e /\ text[m] \notin isdigit
           /\ \A k \in p..(m - 1) : text[k] \in isdigit
           /\ Base(p, m) = (IF text[p] = Ord("0") THEN 8 ELSE 10)
           /\ Integer(p, m) <=> p < m /\ (text[p] = Ord("0") => IsIn(p, m, isoctal))
           /\ \A q \in p..Len(text) : Float(p, q) =>
                  \/ text[e] \in Chars("eE") /\ Exponent(e, q, Chars("eE"))
                  \/ text[m] = DOT /\ q <= e
           /\ \A q \in p..Len(text) :
                  text[e] \in Chars("eE") /\ Exponent(e, q, Chars("eE")) => Float(p, q)
           /\ text[m] = DOT => Float(p, e)
<1>1. p \in Nat /\ p \in 1..Len(text) /\ Len(text) \in Nat
  BY TextFacts DEF Positions
<1>2. m = Skip(p, isdigit) /\ e = fraction_end(m, isdigit)
  BY DEF DecInt, DecEnd
<1>3. /\ m \in p..Len(text) /\ e \in m..Len(text) /\ text[m] \notin isdigit /\ text[e] \notin isdigit
      /\ \A k \in p..(e - 1) : text[k] \in isdigit \cup {DOT}
      /\ \A q \in p..Len(text) : Fraction(p, q, isdigit) => text[m] = DOT /\ m < q /\ q <= e
      /\ text[m] = DOT /\ p + 1 < e => Fraction(p, e, isdigit)
  <2>1. PICK class : class = isdigit /\ class \in {isdigit, isxdigit}
    OBVIOUS
  <2>2. m = Skip(p, class) /\ e = fraction_end(m, class)
    BY <1>2, <2>1
  <2>3. /\ m \in p..Len(text) /\ e \in m..Len(text) /\ text[m] \notin class /\ text[e] \notin class
        /\ \A k \in p..(e - 1) : text[k] \in class \cup {DOT}
        /\ \A q \in p..Len(text) : Fraction(p, q, class) => text[m] = DOT /\ m < q /\ q <= e
        /\ text[m] = DOT /\ p + 1 < e => Fraction(p, e, class)
    BY <2>1, <2>2, FractionEnds
  <2> QED BY <2>1, <2>3
<1>4. \A k \in p..(m - 1) : text[k] \in isdigit
  BY <1>2, SkipFacts, Classes
<1>5. \A q : ~HexPrefix(p, q)
  BY DEF HexPrefix, IsHex
<1>6. ASSUME text[m] = DOT PROVE p + 1 < e
  <2>1. m \in Positions /\ text[m] # NUL
    BY <1>1, <1>3, <1>6, Marks DEF Positions
  <2>2. e = Skip(m + 1, isdigit) /\ m + 1 \in Positions
    BY <1>2, <1>6, <2>1, NextPosition DEF fraction_end
  <2>3. e \in (m + 1)..Len(text) /\ text[e] \notin isdigit
    <3>1. PICK j \in Positions : j = m + 1
      BY <2>2
    <3>2. e = Skip(j, isdigit) /\ NUL \notin isdigit
      BY <2>2, <3>1, Classes
    <3>3. e \in j..Len(text) /\ text[e] \notin isdigit
      BY <3>2, SkipFacts
    <3> QED BY <3>1, <3>3
  <2>4. CASE p = m
    <3>1. text[p + 1] \in isdigit
      BY <1>3, <2>4 DEF Begun
    <3>2. e # p + 1
      BY <2>3, <3>1
    <3> QED BY <1>1, <2>3, <2>4, <3>2
  <2>5. CASE p # m
    BY <1>1, <1>3, <2>3, <2>5
  <2> QED BY <2>4, <2>5
<1>7. NumberEnds(p, m, e) /\ p < e
  <2>1. ASSUME NEW k \in p..(e - 1)
        PROVE  Goes(k)
    <3>1. text[k] \in is_word_char \cup {DOT}
      BY <1>3, Apart
    <3> QED BY <3>1, WordGoes
  <2>2. p < m \/ text[m] = DOT
    <3>1. text[p] \in isdigit => p # m
      BY <1>3
    <3>2. text[p] = DOT => p = m
      <4>1. text[p] = DOT => text[p] \notin isdigit
        BY Apart
      <4>2. p # m => p \in p..(m - 1)
        BY <1>1, <1>3
      <4> QED BY <1>4, <4>1, <4>2
    <3> QED BY <1>1, <1>3, <3>1, <3>2 DEF Begun
  <2>3. e = m \/ text[m] = DOT
    BY <1>2 DEF fraction_end
  <2>4. p < e
    BY <1>1, <1>3, <1>6, <2>2
  <2> QED BY <1>3, <2>1, <2>2, <2>3, <2>4 DEF NumberEnds
<1>8. \A q : Base(p, q) = IF text[p] = Ord("0") THEN 8 ELSE 10
  BY <1>5 DEF Base
<1>9. \A q : Integer(p, q) <=>
          p < q /\ (IF text[p] = Ord("0") THEN IsIn(p, q, isoctal) ELSE IsIn(p, q, isdigit))
  BY <1>8 DEF Integer, DigitSeq
<1>10. \A q : Integer(p, q) => p < q /\ IsIn(p, q, isdigit)
  BY <1>9, Apart DEF IsIn
<1>11. Integer(p, m) <=> p < m /\ (text[p] = Ord("0") => IsIn(p, m, isoctal))
  BY <1>4, <1>9 DEF IsIn
<1>12. ASSUME NEW q \in m..Len(text), IntegerConstant(p, q)
       PROVE  Integer(p, m) /\ Spelling(m, q) \in IntegerSuffixes
  <2>1. PICK k \in (p + 1)..q : Integer(p, k) /\ Spelling(k, q) \in IntegerSuffixes
    BY <1>12 DEF IntegerConstant
  <2>2. k \in Positions /\ q \in k..Len(text) /\ k \in p..Len(text) /\ k \in Nat /\ q \in Nat /\ m \in Nat
    BY <1>1, <1>3, <2>1 DEF Positions
  <2>3. k = q \/ text[k] \in Suffixes
    BY <2>1, <2>2, SuffixBegins DEF Suffixes
  <2>4. k <= m
    BY <1>2, <1>10, <2>1, <2>2, SkipBeyond, Classes
  <2>5. k = m
    <3>1. SUFFICES ASSUME k < m PROVE FALSE
      BY <2>2, <2>4
    <3>2. k # q
      BY <2>2, <3>1
    <3>3. text[k] \in isdigit
      BY <1>4, <2>2, <3>1
    <3>4. text[k] \notin Suffixes
      BY <3>3, Apart
    <3> QED BY <2>3, <3>2, <3>4
  <2> QED BY <2>1, <2>5
<1>13. ASSUME NEW q \in p..Len(text), Float(p, q)
       PROVE  \/ text[e] \in Chars("eE") /\ Exponent(e, q, Chars("eE"))
              \/ text[m] = DOT /\ q <= e
  <2>1. PICK k \in p..q :
            \/ Fraction(p, k, isdigit) /\ (k = q \/ Exponent(k, q, Chars("eE")))
            \/ DigitSeq(p, k, isdigit) /\ Exponent(k, q, Chars("eE"))
    BY <1>5, <1>13 DEF Float
  <2>2. k \in Nat /\ q \in Nat /\ k \in p..Len(text)
    BY <1>1, <2>1
  <2>3. CASE Fraction(p, k, isdigit) /\ k = q
    BY <1>3, <2>2, <2>3
  <2>4. ASSUME Exponent(k, q, Chars("eE")), k <= e PROVE k = e
    <3>1. text[k] \in Chars("eE")
      BY <2>4 DEF Exponent
    <3>2. text[k] \notin isdigit \cup {DOT}
      BY <3>1, Apart
    <3>3. k \notin p..(e - 1)
      BY <1>3, <3>2
    <3> QED BY <1>1, <1>3, <2>2, <2>4, <3>3
  <2>5. CASE Exponent(k, q, Chars("eE"))
    <3>1. k <= e
      <4>1. CASE Fraction(p, k, isdigit)
        BY <1>3, <2>2, <4>1
      <4>2. CASE DigitSeq(p, k, isdigit)
        <5>1. k <= m
          BY <1>2, <2>2, <4>2, SkipBeyond, Classes DEF DigitSeq
        <5> QED BY <1>1, <1>3, <2>2, <5>1
      <4> QED BY <2>1, <2>3, <4>1, <4>2, <2>5
    <3>2. k = e
      BY <2>4, <2>5, <3>1
    <3> QED BY <2>5, <3>2 DEF Exponent
  <2> QED BY <2>1, <2>3, <2>5
<1>14. ASSUME NEW q \in p..Len(text), text[e] \in Chars("eE"), Exponent(e, q, Chars("eE"))
       PROVE  Float(p, q)
  <2>1. e \in p..q
    <3>1. e < q
      BY <1>14 DEF Exponent
    <3> QED BY <1>1, <1>3, <3>1
  <2>2. Fraction(p, e, isdigit) \/ DigitSeq(p, e, isdigit)
    <3>1. CASE text[m] = DOT
      BY <1>3, <1>6, <3>1
    <3>2. CASE text[m] # DOT
      <4>1. e = m /\ p < m
        BY <1>7, <3>2 DEF NumberEnds
      <4> QED BY <1>4, <4>1 DEF DigitSeq, IsIn
    <3> QED BY <3>1, <3>2
  <2> QED BY <1>14, <2>1, <2>2 DEF Float
<1>15. text[m] = DOT => Float(p, e)
  <2> SUFFICES ASSUME text[m] = DOT PROVE Float(p, e)
    OBVIOUS
  <2>1. Fraction(p, e, isdigit) /\ e \in p..e
    BY <1>1, <1>3, <1>6
  <2> QED BY <2>1 DEF Float
<1> QED BY <1>3, <1>4, <1>7, <1>8, <1>11, <1>12, <1>13, <1>14, <1>15 DEF IntegersFrom

\* Where no number begins there is no constant.
LEMMA NotBegun ==
    ASSUME Given, NEW p \in Positions, ~Begun(p), NEW q \in p..Len(text)
    PROVE  ~IntegerConstant(p, q) /\ ~FloatConstant(p, q)
<1>1. p \in Nat /\ p \in 1..Len(text) /\ Len(text) \in Nat /\ q \in Nat
  BY TextFacts DEF Positions
<1>2. \A k : ~HexPrefix(p, k)
  <2>1. text[p] # 48
    BY Apart DEF Begun
  <2> QED BY <2>1, Marks DEF HexPrefix
<1>3. \A k : Integer(p, k) => p < k /\ (IsIn(p, k, isdigit) \/ IsIn(p, k, isoctal))
  BY <1>2 DEF Integer, Base, DigitSeq
<1>4. \A k \in Nat : ~Integer(p, k)
  <2> SUFFICES ASSUME NEW k \in Nat, Integer(p, k) PROVE FALSE
    OBVIOUS
  <2>1. p \in p..(k - 1)
    BY <1>1, <1>3
  <2>2. text[p] \in isdigit
    BY <1>3, <2>1, Apart DEF IsIn
  <2> QED BY <2>2 DEF Begun
<1>5. ~IntegerConstant(p, q)
  <2>1. \A k \in (p + 1)..q : k \in Nat
    BY <1>1
  <2> QED BY <1>4, <2>1 DEF IntegerConstant
<1>6. ASSUME NEW k \in Nat PROVE ~Fraction(p, k, isdigit) /\ ~DigitSeq(p, k, isdigit)
  <2>1. text[p] \notin isdigit
    BY DEF Begun
  <2>2. ~DigitSeq(p, k, isdigit)
    <3>1. p < k => p \in p..(k - 1)
      BY <1>1, <1>6
    <3> QED BY <2>1, <3>1 DEF DigitSeq, IsIn
  <2>3. ASSUME Fraction(p, k, isdigit) PROVE FALSE
    <3>1. PICK j \in p..(k - 1) : /\ text[j] = DOT /\ IsIn(p, j, isdigit) /\ IsIn(j + 1, k, isdigit)
                                  /\ p + 1 < k
      BY <2>3 DEF Fraction
    <3>2. j = p
      <4>1. j # p => p \in p..(j - 1)
        BY <1>1, <3>1
      <4> QED BY <2>1, <3>1, <4>1 DEF IsIn
    <3>3. p + 1 \in (j + 1)..(k - 1)
      BY <1>1, <1>6, <3>1, <3>2
    <3>4. text[p + 1] \in isdigit
      BY <3>1, <3>3 DEF IsIn
    <3> QED BY <3>1, <3>2, <3>4 DEF Begun
  <2> QED BY <2>2, <2>3
<1>7. ASSUME NEW r \in Nat PROVE ~Float(p, r)
  <2>1. \A k \in p..r : k \in Nat
    BY <1>1
  <2> QED BY <1>2, <1>6, <2>1 DEF Float
<1>8. ~FloatConstant(p, q)
  <2>1. p + 1 < q => q - 1 \in Nat
    BY <1>1
  <2> QED BY <1>1, <1>7, <2>1 DEF FloatConstant
<1> QED BY <1>5, <1>8

\* What f is on n..q by a recursion that jumps ahead: from k on to jump[k].
Backward(f, n, q, base, jump, step) ==
    \A k \in n..q : f[k] = IF jump[k] \in (k + 1)..q THEN step[k][f[jump[k]]] ELSE base[k]

\* A recursion over p..q that jumps ahead and whose step stays in V defines a function into V.
LEMMA BackwardDefined ==
    ASSUME NEW p \in Nat, NEW q \in Nat, p <= q, NEW V, NEW base, \A k \in p..q : base[k] \in V,
           NEW jump, NEW step,
           \A k \in p..q : jump[k] \in (k + 1)..q => \A x \in V : step[k][x] \in V
    PROVE  \E f \in [p..q -> V] : Backward(f, p, q, base, jump, step)
<1> DEFINE Defined(n) == \E f \in [n..q -> V] : Backward(f, n, q, base, jump, step)
<1>0. PICK G : G = {j \in 0..(q - p) : Defined(q - j)}
  OBVIOUS
<1>1. 0 \in G
  <2>1. PICK f : f = [k \in q..q |-> base[k]]
    OBVIOUS
  <2>2. f \in [q..q -> V] /\ \A k \in q..q : f[k] = base[k] /\ jump[k] \notin (k + 1)..q
    BY <2>1
  <2>3. Defined(q) /\ 0 \in 0..(q - p) /\ q - 0 = q
    BY <2>2 DEF Backward
  <2> HIDE DEF Defined
  <2> QED BY <1>0, <2>3
<1>2. ASSUME NEW j \in 0..(q - p), j \in G, j < q - p PROVE j + 1 \in G
  <2>1. PICK n : n = q - j
    OBVIOUS
  <2>2. n \in (p + 1)..q /\ n \in Nat
    BY <1>2, <2>1
  <2>3. PICK f \in [n..q -> V] : Backward(f, n, q, base, jump, step)
    BY <1>0, <1>2, <2>1
  <2>4. PICK m : m = n - 1
    OBVIOUS
  <2>5. PICK y : y = IF jump[m] \in (m + 1)..q THEN step[m][f[jump[m]]] ELSE base[m]
    OBVIOUS
  <2>6. m \in p..q /\ (m + 1)..q = n..q /\ m \notin n..q /\ m..q = {m} \cup n..q
    BY <2>2, <2>4
  <2>7. y \in V
    <3>1. jump[m] \in (m + 1)..q => f[jump[m]] \in V
      BY <2>6
    <3> QED BY <2>5, <2>6, <3>1
  <2>8. PICK g : g = [k \in m..q |-> IF k = m THEN y ELSE f[k]]
    OBVIOUS
  <2>9. g \in [m..q -> V] /\ g[m] = y /\ \A k \in n..q : g[k] = f[k]
    BY <2>6, <2>7, <2>8
  <2>10. ASSUME NEW k \in m..q
         PROVE  g[k] = IF jump[k] \in (k + 1)..q THEN step[k][g[jump[k]]] ELSE base[k]
    <3>1. CASE k = m
      <4>1. jump[m] \in (m + 1)..q => g[jump[m]] = f[jump[m]]
        BY <2>6, <2>9
      <4> QED BY <2>5, <2>9, <3>1, <4>1
    <3>2. CASE k # m
      <4>1. k \in n..q
        BY <2>6, <3>2
      <4>2. jump[k] \in (k + 1)..q => jump[k] \in n..q
        BY <2>2, <4>1
      <4> QED BY <2>3, <2>9, <4>1, <4>2 DEF Backward
    <3> QED BY <3>1, <3>2
  <2>11. Defined(m)
    BY <2>9, <2>10 DEF Backward
  <2>12. j + 1 \in 0..(q - p) /\ q - (j + 1) = m
    BY <1>2, <2>1, <2>4
  <2> HIDE DEF Defined
  <2> QED BY <1>0, <2>11, <2>12
<1>3. q - p \in G
  <2>1. 0 \in Nat /\ q - p \in Nat /\ \A j \in 0..(q - p) : j \in G /\ j < q - p => j + 1 \in G
    BY <1>2
  <2>2. \A j \in 0..(q - p) : j \in G
    BY <1>1, <2>1, PassedOn
  <2> QED BY <2>1, <2>2
<1>4. Defined(p)
  <2>1. q - (q - p) = p
    OBVIOUS
  <2> HIDE DEF Defined
  <2> QED BY <1>0, <1>3, <2>1
<1> QED BY <1>4

\* w and v are the weights and the values of the digits p..(q - 1).
Weighs(w, v, base, p, q) ==
    /\ w[q] = 1 /\ v[q] = 0
    /\ \A k \in p..q : w[k] \in Nat /\ v[k] \in Nat
    /\ \A k \in p..(q - 1) : /\ w[k] = base * w[k + 1]
                             /\ v[k] = digit_value(text[k]) * w[k + 1] + v[k + 1]

\* Weights and values of the digits p..(q - 1), from the last to the first.
LEMMA PlacesFacts ==
    ASSUME NEW p \in Nat, NEW q \in Nat, p <= q, NEW base \in Nat,
           \A k \in p..(q - 1) : text[k] \in isxdigit
    PROVE  \E w, v : Places(base, p, q) = v[p] /\ Weighs(w, v, base, p, q)
<1>1. PICK jump : jump = [k \in p..q |-> k + 1]
  OBVIOUS
<1>2. \A k \in p..q : (jump[k] \in (k + 1)..q <=> k # q) /\ jump[k] = k + 1
  BY <1>1
<1>3. PICK step : step = [k \in p..q |-> [x \in Nat |-> base * x]]
  OBVIOUS
<1>4. PICK one : one = [k \in p..q |-> 1]
  OBVIOUS
<1>5. PICK f \in [p..q -> Nat] : Backward(f, p, q, one, jump, step)
  <2>1. PICK V : V = Nat
    OBVIOUS
  <2>2. /\ \A k \in p..q : one[k] \in V
        /\ \A k \in p..q : jump[k] \in (k + 1)..q => \A x \in V : step[k][x] \in V
    BY <1>3, <1>4, <2>1
  <2> QED BY <2>1, <2>2, BackwardDefined
<1>6. f = [k \in p..q |-> IF k = q THEN 1 ELSE base * f[k + 1]]
  <2>1. ASSUME NEW k \in p..q PROVE f[k] = IF k = q THEN 1 ELSE base * f[k + 1]
    <3>1. CASE k = q
      BY <1>2, <1>4, <1>5, <3>1 DEF Backward
    <3>2. CASE k # q
      <4>1. k + 1 \in p..q /\ jump[k] = k + 1 /\ jump[k] \in (k + 1)..q /\ f[k + 1] \in Nat
        BY <1>2, <3>2
      <4>2. f[k] = step[k][f[k + 1]]
        BY <1>5, <4>1 DEF Backward
      <4> QED BY <1>3, <3>2, <4>1, <4>2
    <3> QED BY <3>1, <3>2
  <2> QED BY <2>1
<1>7. PICK w : w = CHOOSE u : u = [k \in p..q |-> IF k = q THEN 1 ELSE base * u[k + 1]]
  OBVIOUS
<1>8. w = [k \in p..q |-> IF k = q THEN 1 ELSE base * w[k + 1]]
  BY <1>6, <1>7
<1>9. \A k \in p..q : w[k] \in Nat
  <2>1. PICK G : G = {j \in 0..(q - p) : w[q - j] \in Nat}
    OBVIOUS
  <2>2. 0 \in G
    BY <1>8, <2>1
  <2>3. ASSUME NEW j \in 0..(q - p), j \in G, j < q - p PROVE j + 1 \in G
    <3>1. PICK k : k = q - (j + 1)
      OBVIOUS
    <3>2. k \in p..q /\ k # q /\ k + 1 = q - j /\ j + 1 \in 0..(q - p)
      BY <2>3, <3>1
    <3>3. w[k] = base * w[k + 1] /\ w[k + 1] \in Nat
      BY <1>8, <2>1, <2>3, <3>2
    <3>4. w[k] \in Nat
      BY <3>3
    <3> QED BY <2>1, <3>1, <3>2, <3>4
  <2>4. \A j \in 0..(q - p) : j \in G
    <3>1. 0 \in Nat /\ q - p \in Nat /\ \A j \in 0..(q - p) : j \in G /\ j < q - p => j + 1 \in G
      BY <2>3
    <3> QED BY <2>2, <3>1, PassedOn
  <2> SUFFICES ASSUME NEW k \in p..q PROVE w[k] \in Nat
    OBVIOUS
  <2>5. q - k \in 0..(q - p) /\ q - (q - k) = k
    OBVIOUS
  <2>6. w[q - (q - k)] \in Nat
    BY <2>1, <2>4, <2>5
  <2> QED BY <2>5, <2>6
<1>10. \A k \in p..(q - 1) : k + 1 \in p..q /\ digit_value(text[k]) \in Nat
  BY DigitFacts
<1>11. PICK add : add = [k \in p..q |-> [x \in Nat |-> digit_value(text[k]) * w[k + 1] + x]]
  OBVIOUS
<1>12. PICK nought : nought = [k \in p..q |-> 0]
  OBVIOUS
<1>13. ASSUME NEW k \in p..(q - 1), NEW x \in Nat
       PROVE  add[k][x] = digit_value(text[k]) * w[k + 1] + x /\ add[k][x] \in Nat
  <2>1. k \in p..q /\ digit_value(text[k]) \in Nat /\ w[k + 1] \in Nat
    BY <1>9, <1>10
  <2>2. digit_value(text[k]) * w[k + 1] + x \in Nat
    BY <2>1, Linear
  <2> QED BY <1>11, <2>1, <2>2
<1>14. PICK g \in [p..q -> Nat] : Backward(g, p, q, nought, jump, add)
  <2>1. PICK V : V = Nat
    OBVIOUS
  <2>2. /\ \A k \in p..q : nought[k] \in V
        /\ \A k \in p..q : jump[k] \in (k + 1)..q => \A x \in V : add[k][x] \in V
    <3>1. \A k \in p..q : jump[k] \in (k + 1)..q => k \in p..(q - 1)
      BY <1>2
    <3> QED BY <1>12, <1>13, <2>1, <3>1
  <2> QED BY <2>1, <2>2, BackwardDefined
<1>15. g = [k \in p..q |-> IF k = q THEN 0 ELSE digit_value(text[k]) * w[k + 1] + g[k + 1]]
  <2>1. ASSUME NEW k \in p..q
        PROVE  g[k] = IF k = q THEN 0 ELSE digit_value(text[k]) * w[k + 1] + g[k + 1]
    <3>1. CASE k = q
      BY <1>2, <1>12, <1>14, <3>1 DEF Backward
    <3>2. CASE k # q
      <4>1. /\ k \in p..(q - 1) /\ k + 1 \in p..q /\ jump[k] = k + 1 /\ jump[k] \in (k + 1)..q
            /\ g[k + 1] \in Nat
        BY <1>2, <3>2
      <4>2. g[k] = add[k][g[k + 1]]
        <5>1. \A j \in p..q : g[j] = IF jump[j] \in (j + 1)..q THEN add[j][g[jump[j]]] ELSE nought[j]
          BY <1>14, Zenon DEF Backward
        <5>2. g[k] = IF jump[k] \in (k + 1)..q THEN add[k][g[jump[k]]] ELSE nought[k]
          BY <5>1, Zenon
        <5> QED BY <4>1, <5>2, Zenon
      <4> QED BY <1>13, <3>2, <4>1, <4>2
    <3> QED BY <3>1, <3>2
  <2> QED BY <2>1
<1>16. PICK v : v = CHOOSE u : u = [k \in p..q |-> IF k = q THEN 0
                                      ELSE digit_value(text[k]) * w[k + 1] + u[k + 1]]
  OBVIOUS
<1>17. v = [k \in p..q |-> IF k = q THEN 0 ELSE digit_value(text[k]) * w[k + 1] + v[k + 1]]
  BY <1>15, <1>16
<1>18. \A k \in p..q : v[k] \in Nat
  <2>1. PICK G : G = {j \in 0..(q - p) : v[q - j] \in Nat}
    OBVIOUS
  <2>2. 0 \in G
    BY <1>17, <2>1
  <2>3. ASSUME NEW j \in 0..(q - p), j \in G, j < q - p PROVE j + 1 \in G
    <3>1. PICK k : k = q - (j + 1)
      OBVIOUS
    <3>2. k \in p..q /\ k \in p..(q - 1) /\ k # q /\ k + 1 = q - j /\ j + 1 \in 0..(q - p) /\ k + 1 \in p..q
      BY <2>3, <3>1
    <3>3. v[k] = digit_value(text[k]) * w[k + 1] + v[k + 1] /\ v[k + 1] \in Nat
      BY <1>17, <2>1, <2>3, <3>2
    <3>4. digit_value(text[k]) \in Nat /\ w[k + 1] \in Nat
      BY <1>9, <1>10, <3>2
    <3>5. PICK a \in Nat, b \in Nat, c \in Nat :
              a = digit_value(text[k]) /\ b = w[k + 1] /\ c = v[k + 1]
      BY <3>3, <3>4
    <3>6. v[k] = a * b + c
      BY <3>3, <3>5
    <3>7. v[k] \in Nat
      BY <3>6, Linear, SMTT(40)
    <3> QED BY <2>1, <3>1, <3>2, <3>7
  <2>4. \A j \in 0..(q - p) : j \in G
    <3>1. 0 \in Nat /\ q - p \in Nat /\ \A j \in 0..(q - p) : j \in G /\ j < q - p => j + 1 \in G
      BY <2>3
    <3> QED BY <2>2, <3>1, PassedOn
  <2> SUFFICES ASSUME NEW k \in p..q PROVE v[k] \in Nat
    OBVIOUS
  <2>5. q - k \in 0..(q - p) /\ q - (q - k) = k
    OBVIOUS
  <2>6. v[q - (q - k)] \in Nat
    BY <2>1, <2>4, <2>5
  <2> QED BY <2>5, <2>6
<1>19. Places(base, p, q) = v[p]
  BY <1>7, <1>16 DEF Places
<1>20. /\ w[q] = 1 /\ v[q] = 0
       /\ \A k \in p..(q - 1) : /\ w[k] = base * w[k + 1]
                                /\ v[k] = digit_value(text[k]) * w[k + 1] + v[k + 1]
  <2>1. w[q] = 1 /\ v[q] = 0
    BY <1>8, <1>17
  <2> SUFFICES ASSUME NEW k \in p..(q - 1)
               PROVE  /\ w[k] = base * w[k + 1]
                      /\ v[k] = digit_value(text[k]) * w[k + 1] + v[k + 1]
    BY <2>1
  <2>2. k \in p..q /\ k # q
    OBVIOUS
  <2> QED BY <1>8, <1>17, <2>2
<1>21. Weighs(w, v, base, p, q)
  BY <1>9, <1>18, <1>20 DEF Weighs
<1> QED BY <1>19, <1>21

\* The digits of a constant are worth the same from the left as by their places, and
\* strtoull cuts the value off at the largest there is.
LEMMA DigitsValue ==
    ASSUME NEW p \in Nat, NEW q \in Nat, p <= q, NEW base \in {8, 10, 16},
           \A k \in p..(q - 1) : text[k] \in isxdigit
    PROVE  /\ Number(p, q, base) = Places(base, p, q)
           /\ strtoull(p, q, base) = Min({ULLONG_MAX, Places(base, p, q)})
           /\ Places(base, p, q) \in Nat
<1>1. base \in Nat
  OBVIOUS
<1>2. PICK w, v : /\ Places(base, p, q) = v[p] /\ w[q] = 1 /\ v[q] = 0
                  /\ \A k \in p..q : w[k] \in Nat /\ v[k] \in Nat
                  /\ \A k \in p..(q - 1) :
                         /\ w[k] = base * w[k + 1]
                         /\ v[k] = digit_value(text[k]) * w[k + 1] + v[k + 1]
  <2>1. PICK w, v : Places(base, p, q) = v[p] /\ Weighs(w, v, base, p, q)
    BY <1>1, PlacesFacts
  <2> QED BY <2>1 DEF Weighs
<1>3. PICK n : /\ Number(p, q, base) = n[q] /\ n[p] = 0 /\ \A k \in p..q : n[k] \in Nat
               /\ \A k \in (p + 1)..q : n[k] = n[k - 1] * base + digit_value(text[k - 1])
  <2>1. PICK n : Number(p, q, base) = n[q] /\ Sums(n, p, q, base)
    BY <1>1, NumberFacts
  <2> QED BY <2>1 DEF Sums
<1>4. PICK c : /\ strtoull(p, q, base) = c[q] /\ c[p] = 0 /\ \A k \in p..q : c[k] \in Nat
               /\ \A k \in (p + 1)..q :
                      c[k] = Min({ULLONG_MAX, c[k - 1] * base + digit_value(text[k - 1])})
  <2>1. PICK c : strtoull(p, q, base) = c[q] /\ Saturates(c, p, q, base)
    BY <1>1, StrtoullFacts
  <2> QED BY <2>1 DEF Saturates
<1>5. \A k \in p..(q - 1) : digit_value(text[k]) \in Nat
  BY DigitFacts
<1>6. PICK G : G = {k \in p..q : /\ n[k] * w[k] + v[k] = v[p]
                                 /\ c[k] = IF n[k] <= ULLONG_MAX THEN n[k] ELSE ULLONG_MAX}
  OBVIOUS
<1>7. p \in G
  BY <1>2, <1>3, <1>4, <1>6, MaxAssumption
<1>8. ASSUME NEW k \in p..q, k \in G, k < q PROVE k + 1 \in G
  <2>1. PICK j : j = k + 1
    OBVIOUS
  <2>2. k \in p..(q - 1) /\ j \in (p + 1)..q /\ j \in p..q /\ j - 1 = k
    BY <1>8, <2>1
  <2>3. PICK d \in Nat, nk \in Nat, nj \in Nat, wk \in Nat, wj \in Nat, vk \in Nat, vj \in Nat :
            /\ d = digit_value(text[k]) /\ nk = n[k] /\ nj = n[j] /\ wk = w[k] /\ wj = w[j]
            /\ vk = v[k] /\ vj = v[j]
    BY <1>2, <1>3, <1>5, <2>2
  <2>4. nj = nk * base + d /\ wk = base * wj /\ vk = d * wj + vj
    BY <1>2, <1>3, <2>1, <2>2, <2>3
  <2>5. nj * wj + vj = nk * wk + vk
    <3>1. (nk * base + d) * wj = (nk * base) * wj + d * wj
      OBVIOUS
    <3>2. (nk * base) * wj = nk * (base * wj)
      OBVIOUS
    <3>3. PICK x \in Nat, y \in Nat : x = nk * wk /\ y = d * wj
      OBVIOUS
    <3>4. nj * wj = x + y
      BY <2>4, <3>1, <3>2, <3>3
    <3> QED BY <2>4, <3>3, <3>4
  <2>6. n[j] * w[j] + v[j] = v[p]
    BY <1>6, <1>8, <2>3, <2>5
  <2>7. PICK ck \in Nat, t \in Nat : ck = c[k] /\ t = ck * base + d
    BY <1>4, <2>2
  <2>8. ck = IF nk <= ULLONG_MAX THEN nk ELSE ULLONG_MAX
    BY <1>6, <1>8, <2>3, <2>7
  <2>9. c[j] = Min({ULLONG_MAX, t})
    BY <1>4, <2>2, <2>3, <2>7
  <2>10. Min({ULLONG_MAX, t}) = IF t <= ULLONG_MAX THEN t ELSE ULLONG_MAX
    <3>1. ULLONG_MAX \in Int /\ t \in Int
      BY MaxAssumption
    <3>2. Min({ULLONG_MAX, t}) \in {ULLONG_MAX, t} /\ Min({ULLONG_MAX, t}) <= t /\ Min({ULLONG_MAX, t}) <= ULLONG_MAX
      BY <3>1, PairFacts
    <3> QED BY <3>1, <3>2
  <2>11. c[j] = IF nj <= ULLONG_MAX THEN nj ELSE ULLONG_MAX
    <3>1. CASE nk <= ULLONG_MAX
      BY <2>4, <2>7, <2>8, <2>9, <2>10, <3>1
    <3>2. CASE ~(nk <= ULLONG_MAX)
      <4>1. ck = ULLONG_MAX
        BY <2>8, <3>2
      <4>2. nj > ULLONG_MAX /\ t >= ULLONG_MAX
        BY <2>4, <2>7, <3>2, <4>1, MaxAssumption
      <4> QED BY <2>9, <2>10, <4>2, MaxAssumption
    <3> QED BY <3>1, <3>2
  <2> QED BY <1>6, <2>1, <2>2, <2>3, <2>6, <2>11
<1>9. q \in G
  <2>1. \A k \in p..q : k \in G /\ k < q => k + 1 \in G
    BY <1>8
  <2>2. \A k \in p..q : k \in G
    BY <1>7, <2>1, PassedOn
  <2> QED BY <2>2
<1>10. n[q] = v[p] /\ v[p] \in Nat
  BY <1>2, <1>3, <1>6, <1>9
<1>11. Min({ULLONG_MAX, v[p]}) = IF v[p] <= ULLONG_MAX THEN v[p] ELSE ULLONG_MAX
  <2>1. ULLONG_MAX \in Int /\ v[p] \in Int
    BY <1>10, MaxAssumption
  <2>2. /\ Min({ULLONG_MAX, v[p]}) \in {ULLONG_MAX, v[p]} /\ Min({ULLONG_MAX, v[p]}) <= v[p]
        /\ Min({ULLONG_MAX, v[p]}) <= ULLONG_MAX
    BY <2>1, PairFacts
  <2> QED BY <2>1, <2>2
<1> QED BY <1>2, <1>3, <1>4, <1>6, <1>9, <1>10, <1>11

\* The tables, without the names of other strings.
LEMMA TableFacts ==
    /\ INT_SUFFIXES \in Seq(Seq(1..255)) /\ PUNCTUATORS \in Seq(Seq(1..255))
    /\ LongestFirst(INT_SUFFIXES) /\ LongestFirst(PUNCTUATORS)
    /\ IntegerSuffixes = {<<>>} \cup {INT_SUFFIXES[k] : k \in DOMAIN INT_SUFFIXES}
    /\ Punctuators = {PUNCTUATORS[k] : k \in DOMAIN PUNCTUATORS}
    /\ \A w \in IntegerSuffixes : \A n \in DOMAIN w : w[n] \in Suffixes
    /\ \A w \in Punctuators : w # <<>> /\ \A n \in DOMAIN w : w[n] \in ispunct \ {QUOTE, DQUOTE, 95}
BY LiteralsAssumption, TablesAssumption, Zenon DEF Suffixes

\* The value of the integer constant p..(q - 1) is val.
IntegerIs(p, q, val) ==
    \E k \in (p + 1)..q :
        /\ Integer(p, k) /\ Spelling(k, q) \in IntegerSuffixes
        /\ LET base == Base(p, k)
               digits == IF base = 16 THEN p + 2 ELSE p
           IN val = Min({ULLONG_MAX, Places(base, digits, k)})

\* What the scan of a number makes of it is right: a constant with its value that no
\* longer one contains, or an error for what is no constant.
Judged(p, n) ==
    /\ n.error = "" =>
          /\ n.end \in (p + 1)..Len(text)
          /\ \/ n.type = "TK_ICONST" /\ IntegerIs(p, n.end, n.val)
             \/ n.type = "TK_FCONST" /\ FloatConstant(p, n.end)
          /\ \A q \in (n.end + 1)..Len(text) : ~IntegerConstant(p, q) /\ ~FloatConstant(p, q)
    /\ n.error # "" =>
          /\ n.type = "TK_UNKNOWN"
          /\ ~IntegerConstant(p, PpNumberEnd(p)) /\ ~FloatConstant(p, PpNumberEnd(p))

\* The suffix that int_constant finds is one, and no longer one is there.
LEMMA SuffixFound ==
    ASSUME Given, NEW m \in Positions, NEW n, n = first_match(INT_SUFFIXES, m)
    PROVE  /\ n \in Nat /\ m + n \in Positions /\ Spelling(m, m + n) \in IntegerSuffixes
           /\ \A q \in m..Len(text) : Spelling(m, q) \in IntegerSuffixes => q <= m + n
           /\ \A k \in m..(m + n - 1) : text[k] \in is_word_char
<1>1. n \in Nat /\ m + n \in Positions
  BY TableFacts, FirstMatch
<1>2. m \in 1..Len(text) /\ Len(text) \in Nat /\ m \in Nat /\ m + n \in m..Len(text)
  BY <1>1, TextFacts DEF Positions
<1>3. /\ \A k \in DOMAIN INT_SUFFIXES : matches(INT_SUFFIXES[k], m) => Len(INT_SUFFIXES[k]) <= n
      /\ n = 0 \/ \E k \in DOMAIN INT_SUFFIXES :
                      matches(INT_SUFFIXES[k], m) /\ Len(INT_SUFFIXES[k]) = n
  <2>1. PICK table \in Seq(Seq(1..255)) : table = INT_SUFFIXES /\ LongestFirst(table)
    BY TableFacts
  <2>2. /\ \A k \in DOMAIN table : matches(table[k], m) => Len(table[k]) <= n
        /\ n = 0 \/ \E k \in DOMAIN table : matches(table[k], m) /\ Len(table[k]) = n
    BY <2>1, LongestMatch
  <2> QED BY <2>1, <2>2
<1>4. Spelling(m, m + n) \in IntegerSuffixes
  <2>1. CASE n = 0
    <3>0. <<>> \in Seq(1..255)
      OBVIOUS
    <3>1. PICK w \in Seq(1..255) : w = <<>>
      BY <3>0
    <3>2. matches(w, m) /\ Len(w) = (m + n) - m
      BY <1>2, <2>1, <3>1 DEF matches
    <3>3. w = Spelling(m, m + n)
      BY <1>2, <3>2, SpellingFacts
    <3> QED BY <3>1, <3>3, TableFacts
  <2>2. CASE n # 0
    <3>1. PICK k \in DOMAIN INT_SUFFIXES : matches(INT_SUFFIXES[k], m) /\ Len(INT_SUFFIXES[k]) = n
      BY <1>3, <2>2
    <3>2. PICK w \in Seq(1..255) : w = INT_SUFFIXES[k]
      BY TableFacts
    <3>3. Len(w) = (m + n) - m
      BY <1>1, <1>2, <3>1, <3>2
    <3>4. w = Spelling(m, m + n)
      BY <1>2, <3>1, <3>2, <3>3, SpellingFacts
    <3> QED BY <3>2, <3>4, TableFacts
  <2> QED BY <2>1, <2>2
<1>5. ASSUME NEW q \in m..Len(text), Spelling(m, q) \in IntegerSuffixes
      PROVE  q <= m + n
  <2>1. PICK w \in IntegerSuffixes : w = Spelling(m, q)
    BY <1>5
  <2>2. matches(w, m) /\ Len(w) = q - m
    BY <2>1, SpellingFacts
  <2>3. CASE w = <<>>
    BY <1>1, <1>2, <2>2, <2>3
  <2>4. CASE w # <<>>
    <3>1. PICK k \in DOMAIN INT_SUFFIXES : w = INT_SUFFIXES[k]
      BY <2>4, TableFacts
    <3>2. q - m <= n
      BY <1>3, <2>2, <3>1
    <3> QED BY <1>1, <1>2, <3>2
  <2> QED BY <2>3, <2>4
<1>6. ASSUME NEW k \in m..(m + n - 1)
      PROVE  text[k] \in is_word_char
  <2>1. PICK w \in IntegerSuffixes : w = Spelling(m, m + n)
    BY <1>4
  <2>2. Len(w) = n /\ \A j \in 1..n : w[j] = text[m + j - 1]
    <3>1. (m + n) - m = n
      BY <1>1, <1>2
    <3> QED BY <1>2, <2>1, <3>1, SpellingFacts
  <2>3. PICK j \in 1..n : j = k - m + 1
    BY <1>1, <1>2
  <2>4. j \in DOMAIN w
    <3>1. w = <<>> \/ w \in Seq(1..255)
      BY TableFacts
    <3>0. <<>> \in Seq(1..255)
      OBVIOUS
    <3>2. w \in Seq(1..255)
      BY <3>0, <3>1
    <3> QED BY <2>2, <2>3, <3>2
  <2>5. w[j] \in Suffixes
    BY <2>4, TableFacts
  <2>6. m + j - 1 = k
    BY <1>2, <2>3
  <2>7. text[k] \in Suffixes
    BY <2>2, <2>3, <2>5, <2>6
  <2> QED BY <2>7, Apart
<1> QED BY <1>1, <1>4, <1>5, <1>6

\* An integer that is followed by no point and no exponent.
LEMMA IntJudged ==
    ASSUME Given, NEW p \in Positions, NEW m \in (p + 1)..Len(text),
           \A k \in p..(m - 1) : Goes(k), IntegersFrom(p, m), Integer(p, m),
           \A q \in p..Len(text) : ~FloatConstant(p, q),
           NEW val, LET base == Base(p, m)
                        digits == IF base = 16 THEN p + 2 ELSE p
                    IN val = Min({ULLONG_MAX, Places(base, digits, m)})
    PROVE  Judged(p, int_constant(m, val))
<1>1. p \in Nat /\ m \in Nat /\ Len(text) \in Nat /\ m \in Positions /\ p < m /\ m <= Len(text)
  BY TextFacts DEF Positions
<1>2. PICK n : n = first_match(INT_SUFFIXES, m)
  OBVIOUS
<1>3. /\ n \in Nat /\ m + n \in Positions /\ Spelling(m, m + n) \in IntegerSuffixes
      /\ \A q \in m..Len(text) : Spelling(m, q) \in IntegerSuffixes => q <= m + n
      /\ \A k \in m..(m + n - 1) : text[k] \in is_word_char
  BY <1>1, <1>2, SuffixFound
<1>4. m + n \in (p + 1)..Len(text)
  BY <1>1, <1>3 DEF Positions
<1>5. ASSUME NEW q \in (m + n + 1)..Len(text) PROVE ~IntegerConstant(p, q) /\ ~FloatConstant(p, q)
  <2>1. q \in m..Len(text) /\ ~ (q <= m + n) /\ q \in p..Len(text)
    BY <1>1, <1>3
  <2> QED BY <1>3, <2>1 DEF IntegersFrom
<1>6. PICK c : c = int_constant(m, val)
  OBVIOUS
<1>7. c = consume_suffix(m, n, "TK_ICONST", val, "invalid integer suffix")
  BY <1>2, <1>6 DEF int_constant
<1>8. CASE text[m + n] \notin is_word_char
  <2>1. c.error = "" /\ c.end = m + n /\ c.type = "TK_ICONST" /\ c.val = val
    BY <1>7, <1>8 DEF consume_suffix, Numeric
  <2>2. IntegerIs(p, m + n, val)
    <3>1. m \in (p + 1)..(m + n)
      BY <1>1, <1>3
    <3> QED BY <1>3, <3>1 DEF IntegerIs
  <2> QED BY <1>4, <1>5, <1>6, <2>1, <2>2 DEF Judged
<1>9. CASE text[m + n] \in is_word_char
  <2>1. c.error = "invalid integer suffix" /\ c.type = "TK_UNKNOWN"
    BY <1>7, <1>9 DEF consume_suffix, Numeric, Bad
  <2>2. PICK j : j = m + n + 1
    OBVIOUS
  <2>3. j \in p..Len(text)
    <3>1. text[m + n] # NUL
      BY <1>9, Classes
    <3>2. (m + n) + 1 \in Positions
      BY <1>3, <3>1, NextPosition
    <3> QED BY <1>1, <1>3, <2>2, <3>2 DEF Positions
  <2>4. ASSUME NEW k \in p..(j - 1) PROVE Goes(k)
    <3>1. k \in p..(m - 1) \/ k \in m..(m + n - 1) \/ k = m + n
      BY <1>1, <1>3, <2>2
    <3> QED BY <1>3, <1>9, <3>1, WordGoes
  <2>5. PpNumberEnd(p) \in j..Len(text)
    BY <2>3, <2>4, PpReaches
  <2>6. ~IntegerConstant(p, PpNumberEnd(p)) /\ ~FloatConstant(p, PpNumberEnd(p))
    BY <1>5, <2>2, <2>5
  <2> QED BY <1>6, <2>1, <2>6 DEF Judged
<1> QED BY <1>6, <1>8, <1>9

\* A float, from where its suffix is looked for.
LEMMA FloatJudged ==
    ASSUME Given, NEW p \in Positions, NEW e \in (p + 1)..Len(text),
           \A k \in p..(e - 1) : Goes(k), Float(p, e),
           \A q \in p..Len(text) : Float(p, q) => q <= e,
           \A q \in e..Len(text) : ~IntegerConstant(p, q)
    PROVE  Judged(p, float_constant(e))
<1>1. p \in Nat /\ e \in Nat /\ Len(text) \in Nat /\ e \in Positions /\ p < e /\ e <= Len(text)
  BY TextFacts DEF Positions
<1>2. PICK n : n = IF text[e] \in Chars("fFlL") THEN 1 ELSE 0
  OBVIOUS
<1>3. e + n \in Positions /\ n \in {0, 1}
  <2>1. text[e] \in Chars("fFlL") => text[e] # NUL
    BY Classes
  <2>2. text[e] \in Chars("fFlL") => e + 1 \in Positions
    BY <1>1, <2>1, NextPosition
  <2> QED BY <1>1, <1>2, <2>2
<1>4. e + n \in (p + 1)..Len(text)
  BY <1>1, <1>3 DEF Positions
<1>5. ASSUME NEW q \in (e + n + 1)..Len(text) PROVE ~IntegerConstant(p, q) /\ ~FloatConstant(p, q)
  <2>1. q \in e..Len(text) /\ ~ (q <= e) /\ q \in p..Len(text) /\ q - 1 \in p..Len(text)
    BY <1>1, <1>3
  <2>2. ~ Float(p, q)
    BY <2>1
  <2>3. ASSUME Float(p, q - 1), text[q - 1] \in Chars("fFlL") PROVE FALSE
    <3>1. q - 1 <= e
      BY <2>1, <2>3
    <3>2. q - 1 = e /\ n = 0
      BY <1>1, <1>3, <3>1
    <3> QED BY <1>2, <2>3, <3>2
  <2> QED BY <2>1, <2>2, <2>3 DEF FloatConstant
<1>6. FloatConstant(p, e + n)
  <2>1. CASE n = 0
    BY <1>1, <2>1 DEF FloatConstant
  <2>2. CASE n = 1
    <3>1. text[e] \in Chars("fFlL") /\ (e + n) - 1 = e /\ p + 1 < e + n
      BY <1>1, <1>2, <2>2
    <3> QED BY <3>1 DEF FloatConstant
  <2> QED BY <1>3, <2>1, <2>2
<1>7. PICK c : c = float_constant(e)
  OBVIOUS
<1>8. c = consume_suffix(e, n, "TK_FCONST", 0, "invalid floating suffix")
  BY <1>2, <1>7 DEF float_constant
<1>9. CASE text[e + n] \notin is_word_char
  <2>1. c.error = "" /\ c.end = e + n /\ c.type = "TK_FCONST"
    BY <1>8, <1>9 DEF consume_suffix, Numeric
  <2> QED BY <1>4, <1>5, <1>6, <1>7, <2>1 DEF Judged
<1>10. CASE text[e + n] \in is_word_char
  <2>1. c.error = "invalid floating suffix" /\ c.type = "TK_UNKNOWN"
    BY <1>8, <1>10 DEF consume_suffix, Numeric, Bad
  <2>2. PICK j : j = e + n + 1
    OBVIOUS
  <2>3. j \in p..Len(text)
    <3>1. text[e + n] # NUL
      BY <1>10, Classes
    <3>2. (e + n) + 1 \in Positions
      BY <1>3, <3>1, NextPosition
    <3> QED BY <1>1, <1>3, <2>2, <3>2 DEF Positions
  <2>4. ASSUME NEW k \in p..(j - 1) PROVE Goes(k)
    <3>1. k \in p..(e - 1) \/ k = e + n \/ (k = e /\ n = 1)
      BY <1>1, <1>3, <2>2
    <3>2. n = 1 => text[e] \in is_word_char
      BY <1>2, Apart
    <3> QED BY <1>10, <3>1, <3>2, WordGoes
  <2>5. PpNumberEnd(p) \in j..Len(text)
    BY <2>3, <2>4, PpReaches
  <2>6. ~IntegerConstant(p, PpNumberEnd(p)) /\ ~FloatConstant(p, PpNumberEnd(p))
    BY <1>5, <2>2, <2>5
  <2> QED BY <1>7, <2>1, <2>6 DEF Judged
<1> QED BY <1>7, <1>9, <1>10

\* No suffix at m, no constant behind it.
LEMMA NoInteger ==
    ASSUME Given, NEW p \in Positions, NEW m \in p..Len(text), IntegersFrom(p, m),
           text[m] \notin Suffixes
    PROVE  \A q \in (m + 1)..Len(text) : ~IntegerConstant(p, q)
<1> SUFFICES ASSUME NEW q \in (m + 1)..Len(text), IntegerConstant(p, q) PROVE FALSE
  OBVIOUS
<1>1. m \in Positions /\ q \in m..Len(text) /\ m # q
  BY TextFacts DEF Positions
<1>2. Spelling(m, q) \in IntegerSuffixes
  BY <1>1 DEF IntegersFrom
<1> QED BY <1>1, <1>2, SuffixBegins DEF Suffixes

\* An exponent and the suffix behind it.
LEMMA ExponentJudged ==
    ASSUME Given, NEW p \in Positions, NEW e \in (p + 1)..Len(text),
           NEW letters, letters \in {{69, 101}, {80, 112}}, text[e] \in letters,
           \A k \in p..(e - 1) : Goes(k),
           \A q \in p..Len(text) : Exponent(e, q, letters) => Float(p, q),
           \A q \in p..Len(text) : Float(p, q) => Exponent(e, q, letters) \/ q <= e,
           \A q \in (e + 1)..Len(text) : ~IntegerConstant(p, q)
    PROVE  Judged(p, exponent_and_suffix(e + 1))
<1>1. p \in Nat /\ e \in Nat /\ Len(text) \in Nat /\ e \in Positions /\ p < e /\ e <= Len(text)
  BY TextFacts DEF Positions
<1>2. PICK d, end : d = ExponentDigits(e) /\ end = ExponentEnd(e)
  OBVIOUS
<1>3. /\ d \in Positions /\ e < d /\ end \in d..Len(text)
      /\ \A q \in e..Len(text) : Exponent(e, q, letters) <=> d < q /\ q <= end
      /\ \A k \in e..(end - 1) : Goes(k)
  BY <1>1, <1>2, ExponentFacts
<1>4. d \in Nat /\ end \in Nat /\ d \in p..Len(text) /\ end \in (p + 1)..Len(text) /\ d <= end
  BY <1>1, <1>3 DEF Positions
<1>5. PICK c : c = exponent_and_suffix(e + 1)
  OBVIOUS
<1>6. c = IF end = d THEN Bad(end, "exponent has no digits") ELSE float_constant(end)
  <2>1. (e + 1) + 1 = e + 2
    BY <1>1
  <2> QED BY <1>2, <1>5, <2>1 DEF exponent_and_suffix, ExponentDigits, ExponentEnd
<1>7. \A k \in p..(end - 1) : Goes(k)
  <2> SUFFICES ASSUME NEW k \in p..(end - 1) PROVE Goes(k)
    OBVIOUS
  <2>1. k \in p..(e - 1) \/ k \in e..(end - 1)
    BY <1>1, <1>4
  <2> QED BY <1>3, <2>1
<1>8. \A q \in p..Len(text) : Float(p, q) => q <= end
  <2> SUFFICES ASSUME NEW q \in p..Len(text), Float(p, q) PROVE q <= end
    OBVIOUS
  <2>1. CASE Exponent(e, q, letters)
    <3>1. e < q
      BY <2>1 DEF Exponent
    <3>2. q \in e..Len(text)
      BY <1>1, <3>1
    <3> QED BY <1>3, <2>1, <3>2
  <2>2. CASE q <= e
    BY <1>1, <1>3, <1>4, <2>2
  <2> QED BY <2>1, <2>2
<1>9. CASE end # d
  <2>1. Float(p, end)
    <3>1. end \in e..Len(text) /\ d < end
      BY <1>1, <1>3, <1>4, <1>9
    <3> QED BY <1>3, <1>4, <3>1
  <2>2. \A q \in end..Len(text) : ~IntegerConstant(p, q)
    <3>1. \A q \in end..Len(text) : q \in (e + 1)..Len(text)
      BY <1>1, <1>3, <1>4
    <3> QED BY <3>1
  <2>3. Judged(p, float_constant(end))
    BY <1>4, <1>7, <1>8, <2>1, <2>2, FloatJudged
  <2> QED BY <1>5, <1>6, <1>9, <2>3
<1>10. CASE end = d
  <2>1. c.error = "exponent has no digits" /\ c.type = "TK_UNKNOWN"
    BY <1>6, <1>10 DEF Bad, Numeric
  <2>2. PICK q : q = PpNumberEnd(p)
    OBVIOUS
  <2>3. q \in d..Len(text)
    <3>1. d \in p..Len(text)
      BY <1>4
    <3> QED BY <1>7, <1>10, <2>2, <3>1, PpReaches
  <2>4. q \in (e + 1)..Len(text) /\ q \in p..Len(text) /\ q \in e..Len(text) /\ q - 1 \in e..Len(text)
    BY <1>1, <1>3, <1>4, <2>3
  <2>5. ASSUME NEW r \in e..Len(text), Float(p, r) PROVE r = e
    <3>1. ~Exponent(e, r, letters)
      BY <1>3, <1>4, <1>10, <2>5
    <3>2. r \in p..Len(text) /\ e <= r /\ r \in Nat
      BY <1>1
    <3>3. r <= e
      BY <2>5, <3>1, <3>2
    <3> QED BY <1>1, <3>2, <3>3
  <2>6. ~Float(p, q)
    BY <1>1, <2>4, <2>5
  <2>7. ~ (Float(p, q - 1) /\ text[q - 1] \in Chars("fFlL"))
    <3>1. text[e] \notin Chars("fFlL")
      <4>1. text[e] \in Chars("eE") \/ text[e] \in Chars("pP")
        BY Tests
      <4> QED BY <4>1, Apart
    <3> QED BY <2>4, <2>5, <3>1
  <2> QED BY <1>5, <2>1, <2>2, <2>4, <2>6, <2>7 DEF Judged, FloatConstant
<1> QED BY <1>9, <1>10

\* A number that is no constant, however far it goes.
NoConstant(p) == ~IntegerConstant(p, PpNumberEnd(p)) /\ ~FloatConstant(p, PpNumberEnd(p))

\* An error for what is no constant.
LEMMA BadJudged ==
    ASSUME NEW p, NEW e, NEW msg, msg # "", NoConstant(p)
    PROVE  Judged(p, Bad(e, msg))
BY DEF Judged, NoConstant, Bad, Numeric

\* No Float from p on, no FloatConstant.
LEMMA NoFloat ==
    ASSUME Given, NEW p \in Positions, \A q \in p..Len(text) : ~Float(p, q)
    PROVE  \A q \in p..Len(text) : ~FloatConstant(p, q)
<1> SUFFICES ASSUME NEW q \in p..Len(text), FloatConstant(p, q) PROVE FALSE
  OBVIOUS
<1>1. p \in Nat /\ q \in Nat /\ Len(text) \in Nat
  BY TextFacts DEF Positions
<1>2. p + 1 < q => q - 1 \in p..Len(text)
  BY <1>1
<1> QED BY <1>2 DEF FloatConstant

\* A number goes on to where its digits end, and over a point that ends them.
LEMMA GoesBeyond ==
    ASSUME Given, NEW p \in Positions, NEW m, NEW e, NumberEnds(p, m, e)
    PROVE  /\ PpNumberEnd(p) \in e..Len(text) /\ PpNumberEnd(p) \in m..Len(text)
           /\ text[m] = DOT => PpNumberEnd(p) \in (m + 1)..Len(text)
<1>1. /\ p \in Nat /\ Len(text) \in Nat /\ m \in p..Len(text) /\ e \in m..Len(text)
      /\ \A k \in p..(e - 1) : Goes(k)
  BY TextFacts DEF Positions, NumberEnds
<1>2. e \in p..Len(text)
  BY <1>1
<1>3. PpNumberEnd(p) \in e..Len(text)
  BY <1>1, <1>2, PpReaches
<1>4. ASSUME text[m] = DOT PROVE PpNumberEnd(p) \in (m + 1)..Len(text)
  <2>1. m \in Positions /\ text[m] # NUL
    BY <1>1, <1>4, Classes DEF Positions
  <2>2. PICK j : j = m + 1
    OBVIOUS
  <2>3. j \in p..Len(text)
    <3>1. m + 1 \in Positions
      BY <2>1, NextPosition
    <3> QED BY <1>1, <2>2, <3>1 DEF Positions
  <2>4. ASSUME NEW k \in p..(j - 1) PROVE Goes(k)
    <3>1. k \in p..(e - 1) \/ k = m
      BY <1>1, <2>2
    <3> QED BY <1>1, <1>4, <3>1, WordGoes
  <2> QED BY <2>2, <2>3, <2>4, PpReaches
<1> QED BY <1>1, <1>3, <1>4

\* Hexadecimal numbers.
LEMMA HexJudged ==
    ASSUME Given, NEW p \in Positions, IsHex(p), NEW n, n = consume_hex(p)
    PROVE  (n = NoNumber /\ NoConstant(p)) \/ Judged(p, n)
<1>1. PICK m, e : m = HexInt(p) /\ e = HexEnd(p)
  OBVIOUS
<1>2. PICK q : q = PpNumberEnd(p)
  OBVIOUS
<1> DEFINE started == text[p + 2] \in isxdigit \/ (text[p + 2] = DOT /\ text[p + 3] \in isxdigit)
<1>3. /\ NumberEnds(p, m, e) /\ IntegersFrom(p, m) /\ p + 2 \in Positions
      /\ m \in (p + 2)..Len(text) /\ text[e] \notin isxdigit
      /\ Base(p, m) = 16
      /\ Integer(p, m) <=> p + 2 < m
      /\ \A k \in (p + 2)..(m - 1) : text[k] \in isxdigit
      /\ \A r \in p..Len(text) :
             Float(p, r) <=> text[e] \in Chars("pP") /\ Exponent(e, r, Chars("pP")) /\ started
  BY <1>1, HexLexemes
<1>4. /\ p \in Nat /\ p \in 1..Len(text) /\ Len(text) \in Nat /\ m \in Nat /\ e \in Nat
      /\ m \in (p + 1)..Len(text) /\ e \in (p + 1)..Len(text) /\ m <= e
      /\ \A k \in p..(e - 1) : Goes(k)
  <2>1. m \in p..Len(text) /\ e \in m..Len(text) /\ \A k \in p..(e - 1) : Goes(k)
    BY <1>3 DEF NumberEnds
  <2> QED BY <1>3, <2>1, TextFacts DEF Positions
<1>5. q \in e..Len(text) /\ q \in m..Len(text) /\ (text[m] = DOT => q \in (m + 1)..Len(text))
  BY <1>2, <1>3, GoesBeyond
<1>6. q \in p..Len(text)
  BY <1>4, <1>5
<1>7. e = IF text[m] = DOT THEN Skip(m + 1, isxdigit) ELSE m
  BY <1>1 DEF HexEnd, fraction_end
<1>8. n = IF ~started THEN NoNumber
          ELSE IF text[m] \notin {DOT} \cup is_hex_exp_char
          THEN int_constant(m, strtoull(p + 2, m, 16))
          ELSE IF text[e] \notin is_hex_exp_char
          THEN Bad(e, "no exponent")
          ELSE exponent_and_suffix(e + 1)
  <2>1. DOT \notin isxdigit
    BY Apart
  <2> QED BY <1>1, <2>1 DEF consume_hex, HexInt, HexEnd
<1>9. is_hex_exp_char = Chars("pP")
  BY DEF is_hex_exp_char
<1>10. CASE ~started
  <2>1. \A r \in p..Len(text) : ~FloatConstant(p, r)
    BY <1>3, <1>10, NoFloat
  <2>2. ~IntegerConstant(p, q)
    <3>1. m = p + 2
      <4>1. m # p + 2 => p + 2 \in (p + 2)..(m - 1)
        BY <1>3, <1>4
      <4> QED BY <1>3, <1>10, <4>1
    <3>2. ~Integer(p, m)
      BY <1>3, <1>4, <3>1
    <3> QED BY <1>3, <1>5, <3>2 DEF IntegersFrom
  <2> QED BY <1>2, <1>6, <1>8, <1>10, <2>1, <2>2 DEF NoConstant
<1>11. CASE started /\ text[m] \notin {DOT} \cup is_hex_exp_char
  <2>1. n = int_constant(m, strtoull(p + 2, m, 16))
    BY <1>8, <1>11
  <2>2. p + 2 < m
    <3>1. m # p + 2
      <4>1. SUFFICES ASSUME m = p + 2 PROVE FALSE
        OBVIOUS
      <4>2. text[m] \in isxdigit
        BY <1>11, <4>1
      <4>3. e = m
        BY <1>7, <1>11
      <4> QED BY <1>3, <4>2, <4>3
    <3> QED BY <1>3, <1>4, <3>1
  <2>3. \A r \in p..Len(text) : ~FloatConstant(p, r)
    <3>1. text[e] \notin Chars("pP")
      BY <1>7, <1>9, <1>11
    <3> QED BY <1>3, <3>1, NoFloat
  <2>4. PICK val : val = strtoull(p + 2, m, 16)
    OBVIOUS
  <2>5. val = Min({ULLONG_MAX, Places(16, p + 2, m)})
    <3>1. PICK d \in Nat : d = p + 2
      BY <1>4
    <3>2. d <= m /\ \A k \in d..(m - 1) : text[k] \in isxdigit
      BY <1>3, <2>2, <3>1
    <3>3. PICK b \in {8, 10, 16} : b = 16
      OBVIOUS
    <3>4. strtoull(d, m, b) = Min({ULLONG_MAX, Places(b, d, m)})
      BY <1>4, <3>2, DigitsValue
    <3> QED BY <2>4, <3>1, <3>3, <3>4
  <2>6. LET base == Base(p, m)
            digits == IF base = 16 THEN p + 2 ELSE p
        IN val = Min({ULLONG_MAX, Places(base, digits, m)})
    BY <1>3, <2>5
  <2>7. \A k \in p..(m - 1) : Goes(k)
    BY <1>4
  <2>8. Integer(p, m)
    BY <1>3, <2>2
  <2>9. Judged(p, int_constant(m, val))
    BY <1>3, <1>4, <2>3, <2>6, <2>7, <2>8, IntJudged
  <2> QED BY <2>1, <2>4, <2>9
<1>12. CASE started /\ text[m] \in {DOT} \cup is_hex_exp_char
  <2>1. text[m] \notin Suffixes
    BY <1>9, <1>12, Apart
  <2>2. \A r \in (m + 1)..Len(text) : ~IntegerConstant(p, r)
    <3>1. m \in p..Len(text)
      BY <1>4
    <3> QED BY <1>3, <2>1, <3>1, NoInteger
  <2>3. CASE text[e] \notin is_hex_exp_char
    <3>9. n = Bad(e, "no exponent")
      BY <1>8, <1>12, <2>3
    <3>2. text[m] = DOT
      BY <1>7, <1>12, <2>3
    <3>3. ~IntegerConstant(p, q)
      BY <1>5, <2>2, <3>2
    <3>4. \A r \in p..Len(text) : ~FloatConstant(p, r)
      BY <1>3, <1>9, <2>3, NoFloat
    <3>10. NoConstant(p)
      BY <1>2, <1>6, <3>3, <3>4 DEF NoConstant
    <3>11. PICK msg : msg = "no exponent"
      OBVIOUS
    <3>12. msg # ""
      BY <3>11
    <3>13. n = Bad(e, msg)
      BY <3>9, <3>11
    <3> QED BY <3>10, <3>12, <3>13, BadJudged
  <2>4. CASE text[e] \in is_hex_exp_char
    <3>0. Chars("pP") = {80, 112}
      BY LiteralsAssumption
    <3>1. PICK letters : letters = Chars("pP") /\ letters \in {{69, 101}, {80, 112}}
      <4>1. Chars("pP") \in {{69, 101}, {80, 112}}
        BY <3>0, Zenon
      <4> QED BY <4>1, Zenon
    <3>2. \A r \in (e + 1)..Len(text) : ~IntegerConstant(p, r)
      BY <1>4, <2>2
    <3>3. Judged(p, exponent_and_suffix(e + 1))
      <4>1. text[e] \in letters
        BY <1>9, <2>4, <3>1
      <4>2. \A r \in p..Len(text) : Exponent(e, r, letters) <=> Float(p, r)
        BY <1>3, <1>12, <3>1, <4>1
      <4> QED BY <1>4, <3>1, <3>2, <4>1, <4>2, ExponentJudged
    <3> QED BY <1>8, <1>12, <2>4, <3>3
  <2> QED BY <2>3, <2>4
<1> QED BY <1>10, <1>11, <1>12

\* Decimal and octal numbers.
LEMMA DecJudged ==
    ASSUME Given, NEW p \in Positions, ~IsHex(p), Begun(p), NEW n, n = consume_dec_or_oct(p)
    PROVE  Judged(p, n)
<1>1. PICK m, e : m = DecInt(p) /\ e = DecEnd(p)
  OBVIOUS
<1>2. PICK q : q = PpNumberEnd(p)
  OBVIOUS
<1>3. /\ NumberEnds(p, m, e) /\ IntegersFrom(p, m) /\ p < e /\ text[m] \notin isdigit
      /\ \A k \in p..(m - 1) : text[k] \in isdigit
      /\ Base(p, m) = (IF text[p] = Ord("0") THEN 8 ELSE 10)
      /\ Integer(p, m) <=> p < m /\ (text[p] = Ord("0") => IsIn(p, m, isoctal))
      /\ \A r \in p..Len(text) : Float(p, r) =>
             \/ text[e] \in Chars("eE") /\ Exponent(e, r, Chars("eE"))
             \/ text[m] = DOT /\ r <= e
      /\ \A r \in p..Len(text) :
             text[e] \in Chars("eE") /\ Exponent(e, r, Chars("eE")) => Float(p, r)
      /\ text[m] = DOT => Float(p, e)
  BY <1>1, DecLexemes
<1>4. /\ p \in Nat /\ p \in 1..Len(text) /\ Len(text) \in Nat /\ m \in Nat /\ e \in Nat
      /\ m \in p..Len(text) /\ e \in (p + 1)..Len(text) /\ m <= e
      /\ \A k \in p..(e - 1) : Goes(k)
  <2>1. m \in p..Len(text) /\ e \in m..Len(text) /\ \A k \in p..(e - 1) : Goes(k)
    BY <1>3 DEF NumberEnds
  <2> QED BY <1>3, <2>1, TextFacts DEF Positions
<1>5. q \in e..Len(text) /\ q \in m..Len(text) /\ (text[m] = DOT => q \in (m + 1)..Len(text))
  BY <1>2, <1>3, GoesBeyond
<1>6. q \in p..Len(text)
  BY <1>4, <1>5
<1>7. e = IF text[m] = DOT THEN Skip(m + 1, isdigit) ELSE m
  BY <1>1 DEF DecEnd, fraction_end
<1> DEFINE is_oct == text[p] = Ord("0")
<1>8. n = IF text[m] \notin {DOT} \cup is_dec_exp_char
          THEN IF is_oct /\ \E k \in p..(m - 1) : text[k] \notin isoctal
               THEN Bad(m, "invalid octal digit")
               ELSE int_constant(m, strtoull(p, m, IF is_oct THEN 8 ELSE 10))
          ELSE IF text[e] \in is_dec_exp_char
          THEN exponent_and_suffix(e + 1)
          ELSE float_constant(e)
  <2>1. ~ \/ text[p] \notin isdigit \cup {DOT}
          \/ text[p] = DOT /\ text[p + 1] \notin isdigit
    <3>1. DOT \notin isdigit
      BY Apart
    <3> QED BY <3>1 DEF Begun
  <2> QED BY <1>1, <2>1 DEF consume_dec_or_oct, DecInt, DecEnd
<1>9. is_dec_exp_char = Chars("eE")
  BY DEF is_dec_exp_char
<1>10. CASE text[m] \notin {DOT} \cup is_dec_exp_char
  <2>1. e = m /\ p < m
    BY <1>3, <1>7, <1>10
  <2>2. \A r \in p..Len(text) : ~FloatConstant(p, r)
    <3>1. text[e] \notin Chars("eE")
      BY <1>9, <1>10, <2>1
    <3>2. \A r \in p..Len(text) : ~Float(p, r)
      BY <1>3, <1>10, <3>1
    <3> QED BY <3>2, NoFloat
  <2>3. CASE is_oct /\ \E k \in p..(m - 1) : text[k] \notin isoctal
    <3>9. n = Bad(m, "invalid octal digit")
      BY <1>8, <1>10, <2>3
    <3>2. ~Integer(p, m)
      BY <1>3, <2>3 DEF IsIn
    <3>3. ~IntegerConstant(p, q)
      BY <1>3, <1>5, <3>2 DEF IntegersFrom
    <3>10. NoConstant(p)
      BY <1>2, <1>6, <2>2, <3>3 DEF NoConstant
    <3>11. PICK msg : msg = "invalid octal digit"
      OBVIOUS
    <3>12. msg # ""
      BY <3>11
    <3>13. n = Bad(m, msg)
      BY <3>9, <3>11
    <3> QED BY <3>10, <3>12, <3>13, BadJudged
  <2>4. CASE ~ (is_oct /\ \E k \in p..(m - 1) : text[k] \notin isoctal)
    <3>1. PICK b \in {8, 10, 16} : b = IF is_oct THEN 8 ELSE 10
      OBVIOUS
    <3>2. PICK val : val = strtoull(p, m, b)
      OBVIOUS
    <3>3. n = int_constant(m, val)
      BY <1>8, <1>10, <2>4, <3>1, <3>2
    <3>4. val = Min({ULLONG_MAX, Places(b, p, m)})
      <4>1. \A k \in p..(m - 1) : text[k] \in isxdigit
        BY <1>3, Apart
      <4>2. p \in Nat /\ m \in Nat /\ p <= m
        BY <1>4
      <4>3. strtoull(p, m, b) = Min({ULLONG_MAX, Places(b, p, m)})
        BY <4>1, <4>2, DigitsValue
      <4> QED BY <3>2, <4>3
    <3>5. Base(p, m) = b /\ b # 16
      BY <1>3, <3>1
    <3>6. LET base == Base(p, m)
              digits == IF base = 16 THEN p + 2 ELSE p
          IN val = Min({ULLONG_MAX, Places(base, digits, m)})
      BY <3>4, <3>5
    <3>7. Integer(p, m)
      BY <1>3, <2>1, <2>4 DEF IsIn
    <3>8. m \in (p + 1)..Len(text) /\ \A k \in p..(m - 1) : Goes(k)
      BY <1>4, <2>1
    <3>9. Judged(p, int_constant(m, val))
      BY <1>3, <2>2, <3>6, <3>7, <3>8, IntJudged
    <3> QED BY <3>3, <3>9
  <2> QED BY <2>3, <2>4
<1>11. CASE text[m] \in {DOT} \cup is_dec_exp_char
  <2>1. text[m] \notin Suffixes
    BY <1>9, <1>11, Apart
  <2>2. \A r \in (m + 1)..Len(text) : ~IntegerConstant(p, r)
    BY <1>3, <1>4, <2>1, NoInteger
  <2>3. CASE text[e] \in is_dec_exp_char
    <3>0. Chars("eE") = {69, 101}
      BY LiteralsAssumption
    <3>1. PICK letters : letters = Chars("eE") /\ letters \in {{69, 101}, {80, 112}}
      <4>1. Chars("eE") \in {{69, 101}, {80, 112}}
        BY <3>0, Zenon
      <4> QED BY <4>1, Zenon
    <3>2. \A r \in (e + 1)..Len(text) : ~IntegerConstant(p, r)
      BY <1>4, <2>2
    <3>3. Judged(p, exponent_and_suffix(e + 1))
      <4>1. text[e] \in letters
        BY <1>9, <2>3, <3>1
      <4>2. \A r \in p..Len(text) : Exponent(e, r, letters) => Float(p, r)
        BY <1>3, <3>1, <4>1
      <4>3. \A r \in p..Len(text) : Float(p, r) => Exponent(e, r, letters) \/ r <= e
        BY <1>3, <3>1
      <4> QED BY <1>4, <3>1, <3>2, <4>1, <4>2, <4>3, ExponentJudged
    <3> QED BY <1>8, <1>11, <2>3, <3>3
  <2>4. CASE text[e] \notin is_dec_exp_char
    <3>1. text[m] = DOT
      BY <1>7, <1>11, <2>4
    <3>2. Float(p, e) /\ \A r \in p..Len(text) : Float(p, r) => r <= e
      BY <1>3, <1>9, <2>4, <3>1
    <3>3. m < e
      <4>1. m \in Positions /\ text[m] # NUL
        BY <1>4, <3>1, Classes DEF Positions
      <4>2. PICK j \in Positions : j = m + 1
        BY <4>1, NextPosition
      <4>3. e \in j..Len(text)
        BY <1>7, <3>1, <4>2, SkipFacts, Classes
      <4> QED BY <1>4, <4>2, <4>3
    <3>4. \A r \in e..Len(text) : ~IntegerConstant(p, r)
      BY <1>4, <2>2, <3>3
    <3>5. Judged(p, float_constant(e))
      BY <1>4, <3>2, <3>4, FloatJudged
    <3> QED BY <1>8, <1>11, <2>4, <3>5
  <2> QED BY <2>3, <2>4
<1> QED BY <1>10, <1>11

\* What numeric_constant makes of a place in the text is right.
LEMMA NumberJudged ==
    ASSUME Given, NEW p \in Positions, NEW n, n = numeric_constant(p)
    PROVE  /\ n # NoNumber => Judged(p, n) /\ Begun(p)
           /\ n = NoNumber /\ Begun(p) => NoConstant(p) /\ text[p] = 48
<1>0. ~Judged(p, NoNumber)
  BY DEF Judged, NoNumber, Numeric
<1>1. CASE IsHex(p)
  <2>1. n = consume_hex(p)
    BY <1>1 DEF numeric_constant, IsHex
  <2>2. (n = NoNumber /\ NoConstant(p)) \/ Judged(p, n)
    BY <1>1, <2>1, HexJudged
  <2>3. text[p] = 48 /\ Begun(p)
    BY <1>1, Marks, Apart DEF IsHex, Begun
  <2> QED BY <1>0, <2>2, <2>3
<1>2. CASE ~IsHex(p) /\ Begun(p)
  <2>1. n = consume_dec_or_oct(p)
    BY <1>2 DEF numeric_constant, IsHex
  <2> QED BY <1>0, <1>2, <2>1, DecJudged
<1>3. CASE ~IsHex(p) /\ ~Begun(p)
  <2>1. n = consume_dec_or_oct(p)
    BY <1>3 DEF numeric_constant, IsHex
  <2>2. n = NoNumber
    BY <1>3, <2>1 DEF consume_dec_or_oct, Begun
  <2> QED BY <1>3, <2>2
<1> QED BY <1>1, <1>2, <1>3

-----------------------------------------------------------------------------
(* Tokens: what begins where.                                              *)

\* Where a character literal begins, and where a string literal does.
QuoteAt(p) == text[p] = QUOTE \/ (text[p] \in {76, 85, 117} /\ text[p + 1] = QUOTE)
DquoteAt(p) == \/ text[p] = DQUOTE
               \/ text[p] \in {76, 85, 117} /\ text[p + 1] = DQUOTE
               \/ text[p] = 117 /\ text[p + 1] = 56 /\ text[p + 2] = DQUOTE

\* The characters that a string of one to three matches.
LEMMA MatchFew ==
    ASSUME Given, NEW p \in Positions, NEW a, NEW b, NEW c
    PROVE  /\ matches(<<a>>, p) <=> text[p] = a
           /\ a \in 1..255 /\ b \in 1..255 => (matches(<<a, b>>, p) <=> text[p] = a /\ text[p + 1] = b)
           /\ a \in 1..255 /\ b \in 1..255 /\ c \in 1..255 =>
                 (matches(<<a, b, c>>, p) <=> text[p] = a /\ text[p + 1] = b /\ text[p + 2] = c)
<1>1. p \in Nat /\ Len(text) \in Nat /\ 1 <= p /\ p <= Len(text)
  BY TextFacts DEF Positions
<1>2. matches(<<a>>, p) <=> text[p] = a
  <2>1. Len(<<a>>) = 1 /\ DOMAIN <<a>> = {1} /\ <<a>>[1] = a /\ p + 1 - 1 = p
    BY <1>1
  <2> QED BY <1>1, <2>1 DEF matches
<1>3. ASSUME a \in 1..255, b \in 1..255
      PROVE  matches(<<a, b>>, p) <=> text[p] = a /\ text[p + 1] = b
  <2>1. /\ Len(<<a, b>>) = 2 /\ DOMAIN <<a, b>> = {1, 2} /\ <<a, b>>[1] = a /\ <<a, b>>[2] = b
        /\ p + 1 - 1 = p /\ p + 2 - 1 = p + 1
    BY <1>1
  <2>2. text[p] = a => p + 1 \in Positions
    BY <1>3, NextPosition DEF NUL
  <2>3. text[p] = a => p + 1 <= Len(text)
    BY <2>2 DEF Positions
  <2>4. matches(<<a, b>>, p) <=> p + 1 <= Len(text) /\ text[p] = a /\ text[p + 1] = b
    BY <2>1 DEF matches
  <2> QED BY <2>3, <2>4
<1>4. ASSUME a \in 1..255, b \in 1..255, c \in 1..255
      PROVE  matches(<<a, b, c>>, p) <=> text[p] = a /\ text[p + 1] = b /\ text[p + 2] = c
  <2>1. /\ Len(<<a, b, c>>) = 3 /\ DOMAIN <<a, b, c>> = {1, 2, 3}
        /\ <<a, b, c>>[1] = a /\ <<a, b, c>>[2] = b /\ <<a, b, c>>[3] = c
        /\ p + 1 - 1 = p /\ p + 2 - 1 = p + 1 /\ p + 3 - 1 = p + 2
    BY <1>1
  <2>2. text[p] = a => p + 1 \in Positions
    BY <1>4, NextPosition DEF NUL
  <2>3. text[p] = a /\ text[p + 1] = b => p + 2 <= Len(text)
    <3>1. SUFFICES ASSUME text[p] = a, text[p + 1] = b PROVE p + 2 <= Len(text)
      OBVIOUS
    <3>2. PICK j \in Positions : j = p + 1
      BY <2>2, <3>1
    <3>3. j + 1 \in Positions
      BY <1>4, <3>1, <3>2, NextPosition DEF NUL
    <3> QED BY <1>1, <3>2, <3>3 DEF Positions
  <2>4. matches(<<a, b, c>>, p) <=>
            p + 2 <= Len(text) /\ text[p] = a /\ text[p + 1] = b /\ text[p + 2] = c
    BY <2>1 DEF matches
  <2> QED BY <2>3, <2>4
<1> QED BY <1>2, <1>3, <1>4

\* A string with a character behind it.
LEMMA MatchThen ==
    ASSUME Given, NEW p \in Positions, NEW w \in Seq(1..255), NEW q \in 1..255
    PROVE  matches(w \o <<q>>, p) <=> matches(w, p) /\ text[p + Len(w)] = q
<1>1. p \in Nat /\ Len(text) \in Nat /\ 1 <= p /\ p <= Len(text)
  BY TextFacts DEF Positions
<1>2. PICK u : u = w \o <<q>>
  OBVIOUS
<1>3. /\ Len(w) \in Nat /\ Len(u) = Len(w) + 1 /\ DOMAIN u = 1..(Len(w) + 1) /\ DOMAIN w = 1..Len(w)
      /\ \A n \in 1..Len(w) : u[n] = w[n]
      /\ u[Len(w) + 1] = q
  BY <1>2
<1>4. PICK n : n = Len(w)
  OBVIOUS
<1>5. matches(u, p) <=> p + n <= Len(text) /\ matches(w, p) /\ text[p + n] = q
  <2>1. ASSUME matches(u, p)
        PROVE  p + n <= Len(text) /\ matches(w, p) /\ text[p + n] = q
    <3>1. p + n <= Len(text)
      BY <1>1, <1>3, <1>4, <2>1 DEF matches
    <3>2. \A k \in 1..n : text[p + k - 1] = w[k]
      BY <1>1, <1>3, <1>4, <2>1, SMTT(40) DEF matches
    <3>3. text[p + (n + 1) - 1] = u[n + 1]
      BY <1>1, <1>3, <1>4, <2>1 DEF matches
    <3>4. p + (n + 1) - 1 = p + n
      BY <1>1, <1>3, <1>4
    <3> QED BY <1>1, <1>3, <1>4, <3>1, <3>2, <3>3, <3>4 DEF matches
  <2>2. ASSUME p + n <= Len(text), matches(w, p), text[p + n] = q
        PROVE  matches(u, p)
    <3>1. ASSUME NEW k \in 1..(n + 1) PROVE text[p + k - 1] = u[k]
      <4>1. CASE k = n + 1
        <5>1. p + k - 1 = p + n
          BY <1>1, <1>3, <1>4, <4>1
        <5> QED BY <1>3, <1>4, <2>2, <4>1, <5>1
      <4>2. CASE k \in 1..n
        BY <1>3, <1>4, <2>2, <4>2 DEF matches
      <4> QED BY <1>3, <1>4, <4>1, <4>2
    <3> QED BY <1>1, <1>3, <1>4, <2>2, <3>1 DEF matches
  <2> QED BY <2>1, <2>2
<1>6. ASSUME matches(w, p), text[p + n] = q PROVE p + n <= Len(text)
  <2>1. p + n \in Positions
    BY <1>4, <1>6, MatchFacts
  <2> QED BY <2>1 DEF Positions
<1> QED BY <1>2, <1>4, <1>5, <1>6

\* The prefixes by their characters.
LEMMA PrefixTables ==
    /\ CharPrefixes = {<< <<>>, 1>>, << <<117>>, 2>>, << <<85>>, 4>>, << <<76>>, 4>>}
    /\ StringPrefixes = CharPrefixes \cup {<< <<117, 56>>, 1>>}
<1>1. Bytes("u") = <<117>> /\ Bytes("U") = <<85>> /\ Bytes("L") = <<76>>
  BY TablesAssumption, Zenon
<1>2. Bytes("u8") = <<117, 56>>
  BY LiteralsAssumption, Zenon
<1> QED BY <1>1, <1>2, Zenon DEF CharPrefixes, StringPrefixes, CW_UTF8, CW_UTF16, CW_UTF32

\* The width of the characters of a literal whose prefix is c.
WidthOf(c) == IF c = 117 THEN 2 ELSE 4

\* The literals that can begin at p: at most one of all kinds.
LEMMA PrefixesAre ==
    ASSUME Given, NEW p \in Positions
    PROVE  /\ Prefixes(CharPrefixes, p, QUOTE) =
                  IF text[p] = QUOTE THEN {<< <<>>, 1>>}
                  ELSE IF QuoteAt(p) THEN {<< <<text[p]>>, WidthOf(text[p])>>} ELSE {}
           /\ Prefixes(StringPrefixes, p, DQUOTE) =
                  IF text[p] = DQUOTE THEN {<< <<>>, 1>>}
                  ELSE IF ~DquoteAt(p) THEN {}
                  ELSE IF text[p + 1] = 56 THEN {<< <<117, 56>>, 1>>}
                  ELSE {<< <<text[p]>>, WidthOf(text[p])>>}
<1> DEFINE M(x, q) == matches(x[1] \o <<q>>, p)
<1>1. \A q \in {QUOTE, DQUOTE} :
          /\ M(<< <<>>, 1>>, q) <=> text[p] = q
          /\ \A c \in {76, 85, 117}, w \in {1, 2, 4} :
                 M(<< <<c>>, w>>, q) <=> text[p] = c /\ text[p + 1] = q
          /\ M(<< <<117, 56>>, 1>>, q) <=> text[p] = 117 /\ text[p + 1] = 56 /\ text[p + 2] = q
  <2> SUFFICES ASSUME NEW q \in {QUOTE, DQUOTE}
               PROVE  /\ M(<< <<>>, 1>>, q) <=> text[p] = q
                      /\ \A c \in {76, 85, 117}, w \in {1, 2, 4} :
                             M(<< <<c>>, w>>, q) <=> text[p] = c /\ text[p + 1] = q
                      /\ M(<< <<117, 56>>, 1>>, q) <=>
                             text[p] = 117 /\ text[p + 1] = 56 /\ text[p + 2] = q
    OBVIOUS
  <2>1. q \in 1..255
    BY SMTT(40) DEF QUOTE, DQUOTE
  <2>0. \A w \in Seq(1..255) : matches(w \o <<q>>, p) <=> matches(w, p) /\ text[p + Len(w)] = q
    BY <2>1, MatchThen
  <2>2. M(<< <<>>, 1>>, q) <=> text[p] = q
    <3>1. <<>> \in Seq(1..255) /\ Len(<<>>) = 0
      OBVIOUS
    <3>2. p + 0 = p /\ p - 1 <= Len(text)
      BY TextFacts DEF Positions
    <3>3. matches(<<>>, p)
      BY <3>1, <3>2, TextFacts DEF matches, Positions
    <3>4. PICK w \in Seq(1..255) : w = <<>>
      BY <3>1
    <3>5. matches(w \o <<q>>, p) <=> matches(w, p) /\ text[p + Len(w)] = q
      BY <2>1, MatchThen
    <3> QED BY <3>1, <3>2, <3>3, <3>4, <3>5
  <2>3. ASSUME NEW c \in {76, 85, 117}, NEW w \in {1, 2, 4}
        PROVE  M(<< <<c>>, w>>, q) <=> text[p] = c /\ text[p + 1] = q
    <3>1. <<c>> \in Seq(1..255) /\ Len(<<c>>) = 1
      OBVIOUS
    <3>2. PICK v \in Seq(1..255) : v = <<c>>
      BY <3>1
    <3>3. matches(v \o <<q>>, p) <=> matches(v, p) /\ text[p + Len(v)] = q
      BY <2>0, <3>2
    <3>4. matches(<<c>>, p) <=> text[p] = c
      BY MatchFew, ZenonT(60)
    <3> QED BY <3>1, <3>2, <3>3, <3>4
  <2>4. M(<< <<117, 56>>, 1>>, q) <=> text[p] = 117 /\ text[p + 1] = 56 /\ text[p + 2] = q
    <3>1. <<117, 56>> \in Seq(1..255) /\ Len(<<117, 56>>) = 2
      OBVIOUS
    <3>2. PICK v \in Seq(1..255) : v = <<117, 56>>
      BY <3>1
    <3>3. matches(v \o <<q>>, p) <=> matches(v, p) /\ text[p + Len(v)] = q
      BY <2>0
    <3>4. PICK a, b : a = 117 /\ b = 56
      OBVIOUS
    <3>5. a \in 1..255 /\ b \in 1..255
      BY <3>4
    <3>6. matches(<<a, b>>, p) <=> text[p] = a /\ text[p + 1] = b
      BY <3>5, MatchFew
    <3> QED BY <3>1, <3>2, <3>3, <3>4, <3>6
  <2> QED BY <2>2, <2>3, <2>4
<1>2. /\ QUOTE \notin {76, 85, 117, 56} /\ DQUOTE \notin {76, 85, 117, 56} /\ QUOTE # DQUOTE
  BY Marks
<1>3. Prefixes(CharPrefixes, p, QUOTE) = {x \in CharPrefixes : M(x, QUOTE)}
      /\ Prefixes(StringPrefixes, p, DQUOTE) = {x \in StringPrefixes : M(x, DQUOTE)}
  BY DEF Prefixes
<1>4. \A q \in {QUOTE, DQUOTE} : \A x : x \in CharPrefixes /\ M(x, q) <=>
          \/ x = << <<>>, 1>> /\ text[p] = q
          \/ x = << <<117>>, 2>> /\ text[p] = 117 /\ text[p + 1] = q
          \/ x = << <<85>>, 4>> /\ text[p] = 85 /\ text[p + 1] = q
          \/ x = << <<76>>, 4>> /\ text[p] = 76 /\ text[p + 1] = q
  <2> HIDE DEF M
  <2> QED BY <1>1, PrefixTables
<1>5. \A x : x \in StringPrefixes /\ M(x, DQUOTE) <=>
          \/ x \in CharPrefixes /\ M(x, DQUOTE)
          \/ x = << <<117, 56>>, 1>> /\ text[p] = 117 /\ text[p + 1] = 56 /\ text[p + 2] = DQUOTE
  <2> HIDE DEF M
  <2> QED BY <1>1, PrefixTables
<1> HIDE DEF M
<1>6. PICK c : c = text[p]
  OBVIOUS
<1>7. \A x : x \in Prefixes(CharPrefixes, p, QUOTE) <=>
          \/ x = << <<>>, 1>> /\ c = QUOTE
          \/ x = << <<c>>, WidthOf(c)>> /\ c \in {76, 85, 117} /\ text[p + 1] = QUOTE
  BY <1>3, <1>4, <1>6 DEF WidthOf
<1>8. \A x : x \in Prefixes(StringPrefixes, p, DQUOTE) <=>
          \/ x = << <<>>, 1>> /\ c = DQUOTE
          \/ x = << <<c>>, WidthOf(c)>> /\ c \in {76, 85, 117} /\ text[p + 1] = DQUOTE
          \/ x = << <<117, 56>>, 1>> /\ c = 117 /\ text[p + 1] = 56 /\ text[p + 2] = DQUOTE
  BY <1>3, <1>4, <1>5, <1>6 DEF WidthOf
<1>9. Prefixes(CharPrefixes, p, QUOTE) =
          IF c = QUOTE THEN {<< <<>>, 1>>}
          ELSE IF QuoteAt(p) THEN {<< <<c>>, WidthOf(c)>>} ELSE {}
  BY <1>2, <1>6, <1>7 DEF QuoteAt
<1>10. Prefixes(StringPrefixes, p, DQUOTE) =
          IF c = DQUOTE THEN {<< <<>>, 1>>}
          ELSE IF ~DquoteAt(p) THEN {}
          ELSE IF text[p + 1] = 56 THEN {<< <<117, 56>>, 1>>}
          ELSE {<< <<c>>, WidthOf(c)>>}
  BY <1>2, <1>6, <1>8 DEF DquoteAt
<1> QED BY <1>6, <1>9, <1>10

\* Where the body of a string literal begins, and the width of its characters.
StringStart(p) == IF text[p] = DQUOTE THEN p + 1 ELSE IF text[p + 1] = 56 THEN p + 3 ELSE p + 2
StringWidth(p) == IF text[p] = DQUOTE \/ text[p + 1] = 56 THEN 1 ELSE WidthOf(text[p])

\* The literals at p are what their bodies are.
LEMMA LiteralsAre ==
    ASSUME Given, NEW p \in Positions
    PROVE  /\ BeginsLiteral(p) <=> QuoteAt(p) \/ DquoteAt(p)
           /\ ~QuoteAt(p) => CharLiterals(p) = {}
           /\ ~DquoteAt(p) => StringLiterals(p) = {}
           /\ text[p] = QUOTE =>
                  CharLiterals(p) = {l \in {Body(p + 1, QUOTE, 1)} : l.end # 0 /\ l.vals # <<>>}
           /\ QuoteAt(p) /\ text[p] # QUOTE =>
                  CharLiterals(p) = {l \in {Body(p + 2, QUOTE, WidthOf(text[p]))} :
                                        l.end # 0 /\ l.vals # <<>> /\ Len(l.vals) = 1}
           /\ DquoteAt(p) =>
                  StringLiterals(p) = {l \in {Body(StringStart(p), DQUOTE, StringWidth(p))} : l.end # 0}
<1>1. p \in Nat /\ p + 0 + 1 = p + 1 /\ p + 1 + 1 = p + 2 /\ p + 2 + 1 = p + 3
  BY DEF Positions
<1>2. Len(<<>>) = 0 /\ Len(<<117, 56>>) = 2 /\ \A c : Len(<<c>>) = 1
  OBVIOUS
<1>3. PICK pc1 : pc1 = Prefixes(CharPrefixes, p, QUOTE)
  OBVIOUS
<1>4. PICK ps : ps = Prefixes(StringPrefixes, p, DQUOTE)
  OBVIOUS
<1>5. pc1 = IF text[p] = QUOTE THEN {<< <<>>, 1>>}
            ELSE IF QuoteAt(p) THEN {<< <<text[p]>>, WidthOf(text[p])>>} ELSE {}
  BY <1>3, PrefixesAre
<1>6. ps = IF text[p] = DQUOTE THEN {<< <<>>, 1>>}
           ELSE IF ~DquoteAt(p) THEN {}
           ELSE IF text[p + 1] = 56 THEN {<< <<117, 56>>, 1>>}
           ELSE {<< <<text[p]>>, WidthOf(text[p])>>}
  BY <1>4, PrefixesAre
<1>7. BeginsLiteral(p) <=> QuoteAt(p) \/ DquoteAt(p)
  <2>1. BeginsLiteral(p) <=> pc1 # {} \/ ps # {}
    BY <1>3, <1>4 DEF BeginsLiteral
  <2>2. pc1 # {} <=> QuoteAt(p)
    BY <1>5 DEF QuoteAt
  <2>3. ps # {} <=> DquoteAt(p)
    BY <1>6 DEF DquoteAt
  <2> QED BY <2>1, <2>2, <2>3
<1>8. CharLiterals(p) = {l \in {Body(p + Len(x[1]) + 1, QUOTE, x[2]) : x \in pc1} :
                            /\ l.end # 0 /\ l.vals # <<>>
                            /\ text[p] # QUOTE => Len(l.vals) = 1}
  BY <1>3 DEF CharLiterals
<1>9. StringLiterals(p) = {l \in {Body(p + Len(x[1]) + 1, DQUOTE, x[2]) : x \in ps} : l.end # 0}
  BY <1>4 DEF StringLiterals
<1>10. ASSUME ~QuoteAt(p) PROVE CharLiterals(p) = {}
  <2>1. pc1 = {}
    BY <1>5, <1>10 DEF QuoteAt
  <2> QED BY <1>8, <2>1
<1>11. ASSUME ~DquoteAt(p) PROVE StringLiterals(p) = {}
  <2>1. ps = {}
    BY <1>6, <1>11 DEF DquoteAt
  <2> QED BY <1>9, <2>1
<1>12. ASSUME text[p] = QUOTE
       PROVE  CharLiterals(p) = {l \in {Body(p + 1, QUOTE, 1)} : l.end # 0 /\ l.vals # <<>>}
  <2>1. {Body(p + Len(x[1]) + 1, QUOTE, x[2]) : x \in pc1} = {Body(p + 1, QUOTE, 1)}
    <3>1. pc1 = {<< <<>>, 1>>}
      BY <1>5, <1>12
    <3> QED BY <1>1, <1>2, <3>1
  <2> QED BY <1>8, <1>12, <2>1
<1>13. ASSUME QuoteAt(p), text[p] # QUOTE
       PROVE  CharLiterals(p) = {l \in {Body(p + 2, QUOTE, WidthOf(text[p]))} :
                                    l.end # 0 /\ l.vals # <<>> /\ Len(l.vals) = 1}
  <2>1. {Body(p + Len(x[1]) + 1, QUOTE, x[2]) : x \in pc1} = {Body(p + 2, QUOTE, WidthOf(text[p]))}
    <3>1. PICK w : w = << <<text[p]>>, WidthOf(text[p])>>
      OBVIOUS
    <3>2. pc1 = {w} /\ Len(w[1]) = 1 /\ w[2] = WidthOf(text[p])
      BY <1>2, <1>5, <1>13, <3>1
    <3>3. p + Len(w[1]) + 1 = p + 2
      BY <1>1, <3>2
    <3> QED BY <3>2, <3>3
  <2> QED BY <1>8, <1>13, <2>1
<1>14. ASSUME DquoteAt(p)
       PROVE  StringLiterals(p) = {l \in {Body(StringStart(p), DQUOTE, StringWidth(p))} : l.end # 0}
  <2>1. PICK w : ps = {w} /\ p + Len(w[1]) + 1 = StringStart(p) /\ w[2] = StringWidth(p)
    <3>1. CASE text[p] = DQUOTE
      <4>1. ps = {<< <<>>, 1>>}
        BY <1>6, <3>1
      <4>2. PICK w : w = << <<>>, 1>>
        OBVIOUS
      <4>3. Len(w[1]) = 0 /\ w[2] = 1
        BY <1>2, <4>2
      <4> QED BY <1>1, <3>1, <4>1, <4>2, <4>3 DEF StringStart, StringWidth
    <3>2. CASE text[p] # DQUOTE /\ text[p + 1] = 56
      <4>1. ps = {<< <<117, 56>>, 1>>}
        BY <1>6, <1>14, <3>2
      <4>2. PICK w : w = << <<117, 56>>, 1>>
        OBVIOUS
      <4>3. Len(w[1]) = 2 /\ w[2] = 1
        BY <1>2, <4>2
      <4> QED BY <1>1, <3>2, <4>1, <4>2, <4>3 DEF StringStart, StringWidth
    <3>3. CASE text[p] # DQUOTE /\ text[p + 1] # 56
      <4>1. PICK w : w = << <<text[p]>>, WidthOf(text[p])>>
        OBVIOUS
      <4>2. ps = {w} /\ Len(w[1]) = 1 /\ w[2] = WidthOf(text[p])
        BY <1>2, <1>6, <1>14, <3>3, <4>1
      <4> QED BY <1>1, <3>3, <4>2 DEF StringStart, StringWidth
    <3> QED BY <3>1, <3>2, <3>3
  <2>2. {Body(p + Len(x[1]) + 1, DQUOTE, x[2]) : x \in ps} = {Body(StringStart(p), DQUOTE, StringWidth(p))}
    BY <2>1
  <2> QED BY <1>9, <2>2
<1> QED BY <1>7, <1>10, <1>11, <1>12, <1>13, <1>14

\* What a token is, without the names of the types.
LEMMA TokenKinds ==
    ASSUME NEW p, NEW q, IsToken(p, q)
    PROVE  \/ Word(p, q)
           \/ IntegerConstant(p, q)
           \/ FloatConstant(p, q)
           \/ \E l \in CharLiterals(p) : l.end = q
           \/ \E l \in StringLiterals(p) : l.end = q
           \/ Spelling(p, q) \in Punctuators
<1>1. PICK type \in TokenTypes : Lexeme(type, p, q)
  BY DEF IsToken
<1>2. CASE type = "TK_KEYWRD"
  BY <1>1, <1>2 DEF Lexeme
<1>3. CASE type = "TK_IDENT"
  BY <1>1, <1>3 DEF Lexeme
<1>4. CASE type = "TK_ICONST"
  BY <1>1, <1>4 DEF Lexeme
<1>5. CASE type = "TK_FCONST"
  BY <1>1, <1>5 DEF Lexeme
<1>6. CASE type = "TK_STRLIT"
  BY <1>1, <1>6 DEF Lexeme
<1>7. CASE type = "TK_PUNCT"
  BY <1>1, <1>7 DEF Lexeme
<1> QED BY <1>1, <1>2, <1>3, <1>4, <1>5, <1>6, <1>7 DEF TokenTypes

\* The characters with which the kinds of tokens begin.
LEMMA FirstCharacters ==
    /\ \A c \in Letters : /\ c \notin isdigit /\ c # DOT /\ c # QUOTE /\ c # DQUOTE
                          /\ c \notin ispunct \ {QUOTE, DQUOTE, 95} /\ c # NUL
    /\ \A c \in isdigit : /\ c \notin Letters /\ c # QUOTE /\ c # DQUOTE /\ c \notin ispunct
                          /\ c \notin {76, 85, 117}
    /\ \A c \in {76, 85, 117} : c \in Letters /\ c \notin isdigit /\ c # QUOTE /\ c # DQUOTE
    /\ DOT \notin Letters /\ DOT # QUOTE /\ DOT # DQUOTE /\ DOT \notin {76, 85, 117}
    /\ QUOTE \notin Letters /\ QUOTE \notin isdigit /\ QUOTE # DOT /\ QUOTE # DQUOTE
    /\ QUOTE \notin {76, 85, 117} /\ QUOTE \notin is_word_char /\ QUOTE # 56
    /\ DQUOTE \notin Letters /\ DQUOTE \notin isdigit /\ DQUOTE # DOT
    /\ DQUOTE \notin {76, 85, 117} /\ DQUOTE \notin is_word_char /\ DQUOTE # 56
    /\ NUL \notin Letters /\ 56 \notin {76, 85, 117}
    /\ \A c : c \in is_word_char <=> c \in Letters \/ c \in isdigit
<1>1. \A c \in Letters : /\ c \notin isdigit /\ c # DOT /\ c # QUOTE /\ c # DQUOTE
                          /\ c \notin ispunct \ {QUOTE, DQUOTE, 95} /\ c # NUL
  BY Tests, Marks DEF ispunct
<1>2. \A c \in isdigit : /\ c \notin Letters /\ c # QUOTE /\ c # DQUOTE /\ c \notin ispunct
                          /\ c \notin {76, 85, 117}
  BY Tests, Marks DEF ispunct
<1>3. \A c \in {76, 85, 117} : c \in Letters /\ c \notin isdigit /\ c # QUOTE /\ c # DQUOTE
  BY Tests, Marks
<1>4. DOT \notin Letters /\ DOT # QUOTE /\ DOT # DQUOTE /\ DOT \notin {76, 85, 117}
  BY Tests, Marks
<1>5. /\ QUOTE \notin Letters /\ QUOTE \notin isdigit /\ QUOTE # DOT /\ QUOTE # DQUOTE
      /\ QUOTE \notin {76, 85, 117} /\ QUOTE \notin is_word_char /\ QUOTE # 56
  BY Tests, Marks
<1>6. /\ DQUOTE \notin Letters /\ DQUOTE \notin isdigit /\ DQUOTE # DOT
      /\ DQUOTE \notin {76, 85, 117} /\ DQUOTE \notin is_word_char /\ DQUOTE # 56
  BY Tests, Marks
<1>7. NUL \notin Letters /\ 56 \notin {76, 85, 117}
  BY Tests, Marks
<1>8. \A c : c \in is_word_char <=> c \in Letters \/ c \in isdigit
  BY DEF is_word_char, Letters
<1> QED BY <1>1, <1>2, <1>3, <1>4, <1>5, <1>6, <1>7, <1>8

\* A word ends where the scan over its characters does, at the latest.
LEMMA WordBegins ==
    ASSUME Given, NEW p \in Positions, NEW q \in p..Len(text)
    PROVE  /\ Word(p, q) => text[p] \in Letters /\ q <= Skip(p, is_word_char)
           /\ text[p] \in Letters => /\ Skip(p, is_word_char) \in (p + 1)..Len(text)
                                     /\ Word(p, Skip(p, is_word_char))
<1>1. Word(p, q) <=> p < q /\ IsIn(p, q, is_word_char) /\ text[p] \notin isdigit
  BY DEF Word, DigitSeq, is_word_char
<1>2. PICK m : m = Skip(p, is_word_char)
  OBVIOUS
<1>3. /\ m \in p..Len(text) /\ text[m] \notin is_word_char
      /\ \A k \in p..(m - 1) : text[k] \in is_word_char
  BY <1>2, SkipFacts, Classes
<1>4. p \in Nat /\ q \in Nat /\ m \in Nat /\ Len(text) \in Nat
  BY <1>3, TextFacts DEF Positions
<1>5. ASSUME Word(p, q)
      PROVE  text[p] \in Letters /\ q <= m
  <2>1. p \in p..(q - 1)
    BY <1>1, <1>4, <1>5
  <2>2. text[p] \in is_word_char
    BY <1>1, <1>5, <2>1 DEF IsIn
  <2>3. q <= m
    BY <1>1, <1>2, <1>5, SkipBeyond, Classes
  <2> QED BY <1>1, <1>5, <2>2, <2>3, FirstCharacters
<1>6. ASSUME text[p] \in Letters
      PROVE  m \in (p + 1)..Len(text) /\ Word(p, m)
  <2>1. m # p
    BY <1>3, <1>6, FirstCharacters
  <2>2. p < m /\ m \in (p + 1)..Len(text)
    BY <1>3, <1>4, <2>1
  <2>3. IsIn(p, m, is_word_char) /\ text[p] \notin isdigit
    BY <1>3, <1>6, FirstCharacters DEF IsIn
  <2> QED BY <2>2, <2>3 DEF Word, DigitSeq, is_word_char
<1> QED BY <1>2, <1>5, <1>6

\* The characters of a punctuator.
LEMMA PunctuatorBegins ==
    ASSUME Given, NEW p \in Positions, NEW q \in p..Len(text), Spelling(p, q) \in Punctuators
    PROVE  /\ p < q /\ text[p] \in ispunct \ {QUOTE, DQUOTE, 95}
           /\ q > p + 1 => text[p + 1] \in ispunct
<1>1. PICK w : w = Spelling(p, q)
  OBVIOUS
<1>2. w # <<>> /\ (\A n \in DOMAIN w : w[n] \in ispunct \ {QUOTE, DQUOTE, 95})
  BY <1>1, TableFacts
<1>3. Len(w) = q - p /\ \A n \in 1..(q - p) : w[n] = text[p + n - 1]
  BY <1>1, SpellingFacts
<1>4. p \in Nat /\ q \in Nat /\ p <= q /\ p + 1 - 1 = p /\ p + 2 - 1 = p + 1
  BY TextFacts DEF Positions
<1>5. w \in Seq(0..255)
  <2>1. /\ text \in Seq(0..255) /\ p \in 1..Len(text) /\ q - 1 \in (p - 1)..Len(text)
        /\ Len(text) \in Nat
    BY <1>4, TextFacts DEF Positions
  <2>2. \A n \in p..(q - 1) : n \in Positions
    BY <1>4, <2>1 DEF Positions
  <2>3. \A n \in p..(q - 1) : text[n] \in 0..255
    BY <2>2, TextFacts
  <2>4. w = SubSeq(text, p, q - 1)
    BY <1>1 DEF Spelling
  <2>5. SubSeq(text, p, q - 1) \in Seq(0..255)
    BY <1>4, <2>1, <2>3
  <2> QED BY <2>4, <2>5
<1>6. DOMAIN w = 1..(q - p)
  BY <1>3, <1>5
<1>7. p < q
  <2>1. Len(w) # 0
    BY <1>2, <1>5
  <2> QED BY <1>3, <1>4, <2>1
<1>8. text[p] \in ispunct \ {QUOTE, DQUOTE, 95}
  <2>1. 1 \in 1..(q - p)
    BY <1>4, <1>7
  <2> QED BY <1>2, <1>3, <1>4, <1>6, <2>1
<1>9. ASSUME q > p + 1 PROVE text[p + 1] \in ispunct
  <2>1. 2 \in 1..(q - p)
    BY <1>4, <1>9
  <2> QED BY <1>2, <1>3, <1>4, <1>6, <2>1, ZenonT(60)
<1> QED BY <1>7, <1>8, <1>9

-----------------------------------------------------------------------------
(* Tokens that are right, and texts that are refused.                      *)

\* A token is the longest lexeme where it begins, and has its type and its value.
Right(t) ==
    /\ t.loc + t.size \in (t.loc + 1)..Len(text)
    /\ Lexeme(t.token_type, t.loc, t.loc + t.size)
    /\ ValueIsRight(t)
    /\ \A q \in (t.loc + t.size + 1)..Len(text) : ~IsToken(t.loc, q)

\* What begins at p is no token.
Refused(p) ==
    IF text[p] \in isdigit \/ (text[p] = DOT /\ text[p + 1] \in isdigit)
    THEN ~IntegerConstant(p, PpNumberEnd(p)) /\ ~FloatConstant(p, PpNumberEnd(p))
    ELSE IF BeginsLiteral(p) THEN CharLiterals(p) = {} /\ StringLiterals(p) = {}
    ELSE \A q \in (p + 1)..Len(text) : ~IsToken(p, q)

\* A constant with an error.
Erring(n) == n.error # ""

\* A token without a value.
LEMMA NoValue ==
    ASSUME NEW t, t.token_type \in {"TK_KEYWRD", "TK_IDENT", "TK_FCONST", "TK_PUNCT"}
    PROVE  ValueIsRight(t)
<1>1. t.token_type # "TK_STRLIT" /\ t.token_type # "TK_ICONST"
  OBVIOUS
<1> QED BY <1>1 DEF ValueIsRight

\* The constant that numeric_constant finds is right.
LEMMA NumberRight ==
    ASSUME Given, NEW p \in Positions, NEW n, n = numeric_constant(p), n # NoNumber, ~Erring(n),
           NEW t, t.token_type = n.type, t.int_val = n.val, t.loc = p, t.size = n.end - p
    PROVE  Right(t)
<1>1. Judged(p, n) /\ Begun(p)
  BY NumberJudged
<1>2. PICK e : e = n.end
  OBVIOUS
<1>3. /\ e \in (p + 1)..Len(text)
      /\ \/ n.type = "TK_ICONST" /\ IntegerIs(p, e, n.val)
         \/ n.type = "TK_FCONST" /\ FloatConstant(p, e)
      /\ \A q \in (e + 1)..Len(text) : ~IntegerConstant(p, q) /\ ~FloatConstant(p, q)
  BY <1>1, <1>2 DEF Judged, Erring
<1>4. p \in Nat /\ e \in Nat /\ Len(text) \in Nat /\ t.loc + t.size = e
  BY <1>2, <1>3, TextFacts DEF Positions
<1>5. /\ text[p] \notin Letters /\ text[p] # QUOTE /\ text[p] # DQUOTE
      /\ text[p] \notin {76, 85, 117}
  BY <1>1, FirstCharacters DEF Begun
<1>6. CharLiterals(p) = {} /\ StringLiterals(p) = {}
  <2>1. ~QuoteAt(p) /\ ~DquoteAt(p)
    BY <1>5 DEF QuoteAt, DquoteAt
  <2> QED BY <2>1, LiteralsAre
<1>7. ASSUME NEW q \in (e + 1)..Len(text) PROVE ~IsToken(p, q)
  <2>1. q \in p..Len(text) /\ q > p + 1
    BY <1>3, <1>4
  <2>2. ~Word(p, q)
    BY <1>5, <2>1, WordBegins
  <2>3. Spelling(p, q) \notin Punctuators
    <3>1. SUFFICES ASSUME Spelling(p, q) \in Punctuators PROVE FALSE
      OBVIOUS
    <3>2. text[p] \in ispunct /\ text[p + 1] \in ispunct
      BY <2>1, <3>1, PunctuatorBegins
    <3> QED BY <1>1, <3>2, FirstCharacters DEF Begun
  <2> QED BY <1>3, <1>6, <2>2, <2>3, TokenKinds
<1>8. CASE n.type = "TK_ICONST"
  <2>1. IntegerIs(p, e, n.val)
    BY <1>3, <1>8
  <2>2. PICK k \in (p + 1)..e :
            /\ Integer(p, k) /\ Spelling(k, e) \in IntegerSuffixes
            /\ LET base == Base(p, k)
                   digits == IF base = 16 THEN p + 2 ELSE p
               IN n.val = Min({ULLONG_MAX, Places(base, digits, k)})
    BY <2>1 DEF IntegerIs
  <2>3. Lexeme("TK_ICONST", p, e)
    <3>1. IntegerConstant(p, e)
      BY <2>2 DEF IntegerConstant
    <3> QED BY <3>1 DEF Lexeme
  <2>4. ValueIsRight(t)
    <3>1. t.token_type = "TK_ICONST"
      BY <1>8
    <3>2. \E j \in (p + 1)..e :
              /\ Integer(p, j) /\ Spelling(j, e) \in IntegerSuffixes
              /\ LET base == Base(p, j)
                     digits == IF base = 16 THEN p + 2 ELSE p
                 IN t.int_val = Min({ULLONG_MAX, Places(base, digits, j)})
      BY <2>2
    <3> QED BY <1>4, <1>6, <3>1, <3>2 DEF ValueIsRight
  <2> QED BY <1>3, <1>4, <1>7, <1>8, <2>3, <2>4 DEF Right
<1>9. CASE n.type = "TK_FCONST"
  <2>1. FloatConstant(p, e)
    BY <1>3, <1>9
  <2>2. Lexeme("TK_FCONST", p, e)
    BY <2>1 DEF Lexeme
  <2>3. ValueIsRight(t)
    BY <1>9, NoValue
  <2> QED BY <1>3, <1>4, <1>7, <1>9, <2>2, <2>3 DEF Right
<1> QED BY <1>3, <1>8, <1>9

\* A number that numeric_constant refuses.
LEMMA NumberRefused ==
    ASSUME Given, NEW p \in Positions, NEW n, n = numeric_constant(p), n # NoNumber, Erring(n)
    PROVE  Refused(p)
<1>1. Judged(p, n) /\ Begun(p)
  BY NumberJudged
<1> QED BY <1>1 DEF Judged, Begun, Refused, Erring

\* The identifier or the keyword at a letter.
LEMMA WordRight ==
    ASSUME Given, NEW p \in Positions, text[p] \in Letters, ~BeginsLiteral(p),
           NEW e, e = Skip(p, is_word_char),
           NEW t, t.token_type = IF is_keyword(p, e - p) THEN "TK_KEYWRD" ELSE "TK_IDENT",
           t.loc = p, t.size = e - p
    PROVE  Right(t)
<1>1. e \in (p + 1)..Len(text) /\ Word(p, e)
  <2>1. p \in p..Len(text)
    BY TextFacts DEF Positions
  <2> QED BY <2>1, WordBegins
<1>2. p \in Nat /\ e \in Nat /\ Len(text) \in Nat /\ t.loc + t.size = e
  BY <1>1, TextFacts DEF Positions
<1>3. text[p] \notin isdigit /\ text[p] # DOT /\ text[p] \notin ispunct \ {QUOTE, DQUOTE, 95}
  BY FirstCharacters
<1>4. ASSUME NEW q \in (e + 1)..Len(text) PROVE ~IsToken(p, q)
  <2>1. q \in p..Len(text) /\ ~ (q <= e)
    BY <1>1, <1>2
  <2>2. ~Word(p, q)
    BY <2>1, WordBegins
  <2>3. Spelling(p, q) \notin Punctuators
    BY <1>3, <2>1, PunctuatorBegins
  <2>4. ~IntegerConstant(p, q) /\ ~FloatConstant(p, q)
    BY <1>3, <2>1, NotBegun DEF Begun
  <2>5. CharLiterals(p) = {} /\ StringLiterals(p) = {}
    BY LiteralsAre
  <2> QED BY <2>2, <2>3, <2>4, <2>5, TokenKinds
<1>5. Lexeme(t.token_type, p, e)
  <2>1. is_keyword(p, e - p) <=> Spelling(p, e) \in KEYWORDS
    <3>1. p + (e - p) - 1 = e - 1
      BY <1>2
    <3> QED BY <3>1 DEF is_keyword, Spelling
  <2>2. CASE is_keyword(p, e - p)
    <3>1. Lexeme("TK_KEYWRD", p, e)
      BY <1>1, <2>1, <2>2 DEF Lexeme
    <3> QED BY <2>2, <3>1
  <2>3. CASE ~is_keyword(p, e - p)
    <3>1. Lexeme("TK_IDENT", p, e)
      BY <1>1, <2>1, <2>3 DEF Lexeme
    <3> QED BY <2>3, <3>1
  <2> QED BY <2>2, <2>3
<1>6. ValueIsRight(t)
  <2>1. t.token_type \in {"TK_KEYWRD", "TK_IDENT", "TK_FCONST", "TK_PUNCT"}
    OBVIOUS
  <2> QED BY <2>1, NoValue
<1> QED BY <1>1, <1>2, <1>4, <1>5, <1>6 DEF Right

\* No token begins at p but a punctuator.
LEMMA OnlyPunctuators ==
    ASSUME Given, NEW p \in Positions, text[p] \notin Letters, ~BeginsLiteral(p),
           Begun(p) => text[p] = 48, NEW q \in p..Len(text), IsToken(p, q)
    PROVE  \/ Spelling(p, q) \in Punctuators /\ ~Begun(p)
           \/ Begun(p) /\ (IntegerConstant(p, q) \/ FloatConstant(p, q))
<1>1. ~Word(p, q)
  BY WordBegins
<1>2. CharLiterals(p) = {} /\ StringLiterals(p) = {}
  BY LiteralsAre
<1>3. ~Begun(p) => ~IntegerConstant(p, q) /\ ~FloatConstant(p, q)
  BY NotBegun
<1>4. Begun(p) => Spelling(p, q) \notin Punctuators
  <2>1. SUFFICES ASSUME Begun(p), Spelling(p, q) \in Punctuators PROVE FALSE
    OBVIOUS
  <2>2. text[p] \in ispunct /\ text[p] \in isdigit
    BY <2>1, PunctuatorBegins, Apart
  <2> QED BY <2>2, FirstCharacters
<1> QED BY <1>1, <1>2, <1>3, <1>4, TokenKinds

\* The punctuator that is found, and where there is none.
LEMMA PunctuatorRight ==
    ASSUME Given, NEW p \in Positions, text[p] \notin Letters, ~BeginsLiteral(p),
           Begun(p) => text[p] = 48 /\ NoConstant(p),
           NEW len, len = IF text[p] \in ispunct THEN first_match(PUNCTUATORS, p) ELSE 0
    PROVE  /\ len \in Nat
           /\ len > 0 => \A t : t.token_type = "TK_PUNCT" /\ t.loc = p /\ t.size = len => Right(t)
           /\ len = 0 => Refused(p)
<1>1. PUNCTUATORS \in Seq(Seq(1..255)) /\ LongestFirst(PUNCTUATORS)
      /\ Punctuators = {PUNCTUATORS[k] : k \in DOMAIN PUNCTUATORS}
  BY TableFacts
<1>2. PICK m : m = first_match(PUNCTUATORS, p)
  OBVIOUS
<1>3. /\ \A k \in DOMAIN PUNCTUATORS : matches(PUNCTUATORS[k], p) => Len(PUNCTUATORS[k]) <= m
      /\ \/ m = 0 /\ \A k \in DOMAIN PUNCTUATORS : ~matches(PUNCTUATORS[k], p)
         \/ \E k \in DOMAIN PUNCTUATORS : matches(PUNCTUATORS[k], p) /\ Len(PUNCTUATORS[k]) = m
  BY <1>1, <1>2, LongestMatch
<1>4. m \in Nat /\ p + m \in Positions
  BY <1>1, <1>2, FirstMatch
<1>5. p \in Nat /\ Len(text) \in Nat
  BY TextFacts DEF Positions
<1>6. ASSUME NEW q \in p..Len(text), Spelling(p, q) \in Punctuators
      PROVE  q <= p + m /\ p < q /\ text[p] \in ispunct
  <2>1. PICK k \in DOMAIN PUNCTUATORS : Spelling(p, q) = PUNCTUATORS[k]
    BY <1>1, <1>6
  <2>2. PICK w : w = PUNCTUATORS[k]
    OBVIOUS
  <2>3. matches(w, p) /\ Len(w) = q - p
    BY <2>1, <2>2, SpellingFacts
  <2>4. q - p <= m
    BY <1>3, <2>2, <2>3
  <2>5. p < q /\ text[p] \in ispunct
    BY <1>6, PunctuatorBegins
  <2> QED BY <1>4, <1>5, <2>4, <2>5
<1>7. ASSUME len > 0, NEW t, t.token_type = "TK_PUNCT", t.loc = p, t.size = len
      PROVE  Right(t)
  <2>1. len = m /\ text[p] \in ispunct
    BY <1>2, <1>7
  <2>2. PICK e : e = p + m
    OBVIOUS
  <2>3. e \in (p + 1)..Len(text) /\ e \in p..Len(text) /\ e \in Nat /\ t.loc + t.size = e /\ e - p = m
    BY <1>4, <1>5, <1>7, <2>1, <2>2 DEF Positions
  <2>4. Spelling(p, e) \in Punctuators
    <3>1. PICK k \in DOMAIN PUNCTUATORS : matches(PUNCTUATORS[k], p) /\ Len(PUNCTUATORS[k]) = m
      BY <1>3, <1>7, <2>1
    <3>2. PICK w : w = PUNCTUATORS[k]
      OBVIOUS
    <3>3. w \in Seq(1..255) /\ matches(w, p) /\ Len(w) = e - p
      BY <1>1, <2>3, <3>1, <3>2
    <3>4. w = Spelling(p, e)
      BY <2>3, <3>3, SpellingFacts
    <3> QED BY <1>1, <3>2, <3>4
  <2>5. ~Begun(p)
    <3>1. text[p] = 48 => text[p] \notin ispunct
      BY FirstCharacters, Apart
    <3> QED BY <2>1, <3>1
  <2>6. ASSUME NEW q \in (e + 1)..Len(text) PROVE ~IsToken(p, q)
    <3>1. q \in p..Len(text) /\ ~ (q <= p + m)
      BY <1>4, <1>5, <2>2, <2>3
    <3>2. Spelling(p, q) \notin Punctuators
      BY <1>6, <3>1
    <3> QED BY <2>5, <3>1, <3>2, OnlyPunctuators
  <2>7. Lexeme("TK_PUNCT", p, e)
    BY <2>4 DEF Lexeme
  <2>8. ValueIsRight(t)
    BY <1>7, NoValue
  <2> QED BY <1>7, <2>3, <2>6, <2>7, <2>8 DEF Right
<1>8. ASSUME len = 0 PROVE Refused(p)
  <2>1. CASE Begun(p)
    BY <2>1 DEF Refused, Begun, NoConstant
  <2>2. CASE ~Begun(p)
    <3>1. ASSUME NEW q \in (p + 1)..Len(text) PROVE ~IsToken(p, q)
      <4>1. q \in p..Len(text)
        BY <1>5
      <4>2. Spelling(p, q) \notin Punctuators
        <5>1. SUFFICES ASSUME Spelling(p, q) \in Punctuators PROVE FALSE
          OBVIOUS
        <5>2. q <= p + m /\ p < q /\ text[p] \in ispunct
          BY <1>6, <4>1, <5>1
        <5>3. m = 0
          BY <1>2, <1>8, <5>2
        <5> QED BY <1>5, <4>1, <5>2, <5>3
      <4> QED BY <2>2, <4>1, <4>2, OnlyPunctuators
    <3> QED BY <2>2, <3>1 DEF Refused, Begun
  <2> QED BY <2>1, <2>2
<1>9. len \in Nat
  BY <1>2, <1>4
<1> QED BY <1>7, <1>8, <1>9

-----------------------------------------------------------------------------
(* Escape sequences.                                                       *)

\* The largest digit of a base.
LEMMA DigitBounds ==
    /\ \A c \in isxdigit : digit_value(c) \in 0..15
    /\ \A c \in isoctal : digit_value(c) \in 0..7 /\ c \in isxdigit
  BY DEF digit_value, isxdigit, isdigit, isoctal

\* The last digits of a number, and what they weigh.
LEMMA LastDigits ==
    ASSUME NEW p \in Nat, NEW q \in Nat, p <= q, NEW base \in {8, 16}, NEW w, NEW v,
           Weighs(w, v, base, p, q), \A k \in p..(q - 1) : digit_value(text[k]) \in 0..(base - 1)
    PROVE  /\ q - 1 >= p => w[q - 1] = base /\ v[q - 1] <= base - 1
           /\ q - 2 >= p => w[q - 2] = base * base /\ v[q - 2] <= base * base - 1
           /\ q - 3 >= p => w[q - 3] = base * base * base /\ v[q - 3] <= base * base * base - 1
           /\ q - 4 >= p => v[q - 4] <= base * base * base * base - 1
<1>1. \A k \in p..q : w[k] \in Nat /\ v[k] \in Nat
  BY DEF Weighs
<1>2. w[q] = 1 /\ v[q] = 0
  BY DEF Weighs
<1>3. ASSUME NEW k \in p..(q - 1)
      PROVE  /\ w[k] = base * w[k + 1] /\ v[k] = digit_value(text[k]) * w[k + 1] + v[k + 1]
             /\ digit_value(text[k]) \in 0..(base - 1)
  BY <1>3 DEF Weighs
<1>4. ASSUME q - 1 >= p PROVE w[q - 1] = base /\ v[q - 1] <= base - 1
  <2>1. PICK k \in p..(q - 1) : k = q - 1
    BY <1>4
  <2>2. k + 1 = q
    BY <2>1
  <2>3. w[k] = base * 1 /\ v[k] = digit_value(text[k]) * 1 + 0 /\ digit_value(text[k]) \in 0..(base - 1)
    BY <1>2, <1>3, <2>2
  <2> QED BY <2>1, <2>3
<1>5. ASSUME q - 2 >= p PROVE w[q - 2] = base * base /\ v[q - 2] <= base * base - 1
  <2>1. PICK k \in p..(q - 1) : k = q - 2
    BY <1>5
  <2>2. k + 1 = q - 1 /\ q - 1 >= p /\ q - 1 \in p..q
    BY <1>5, <2>1
  <2>3. PICK d \in 0..(base - 1), r \in Nat : d = digit_value(text[k]) /\ r = v[q - 1]
    BY <1>1, <1>3, <2>2
  <2>4. w[k] = base * base /\ v[k] = d * base + r /\ r <= base - 1
    BY <1>3, <1>4, <2>2, <2>3
  <2>5. CASE base = 8
    BY <2>1, <2>3, <2>4, <2>5
  <2>6. CASE base = 16
    BY <2>1, <2>3, <2>4, <2>6
  <2> QED BY <2>5, <2>6
<1>6. ASSUME q - 3 >= p
      PROVE  w[q - 3] = base * base * base /\ v[q - 3] <= base * base * base - 1
  <2>1. PICK k \in p..(q - 1) : k = q - 3
    BY <1>6
  <2>2. k + 1 = q - 2 /\ q - 2 >= p /\ q - 2 \in p..q
    BY <1>6, <2>1
  <2>3. PICK d \in 0..(base - 1), r \in Nat : d = digit_value(text[k]) /\ r = v[q - 2]
    BY <1>1, <1>3, <2>2
  <2>4. w[k] = base * (base * base) /\ v[k] = d * (base * base) + r /\ r <= base * base - 1
    BY <1>3, <1>5, <2>2, <2>3
  <2>5. CASE base = 8
    BY <2>1, <2>3, <2>4, <2>5
  <2>6. CASE base = 16
    BY <2>1, <2>3, <2>4, <2>6
  <2> QED BY <2>5, <2>6
<1>7. ASSUME q - 4 >= p PROVE v[q - 4] <= base * base * base * base - 1
  <2>1. PICK k \in p..(q - 1) : k = q - 4
    BY <1>7
  <2>2. k + 1 = q - 3 /\ q - 3 >= p /\ q - 3 \in p..q
    BY <1>7, <2>1
  <2>3. PICK d \in 0..(base - 1), r \in Nat : d = digit_value(text[k]) /\ r = v[q - 3]
    BY <1>1, <1>3, <2>2
  <2>4. v[k] = d * (base * base * base) + r /\ r <= base * base * base - 1
    BY <1>3, <1>6, <2>2, <2>3
  <2>5. CASE base = 8
    BY <2>1, <2>3, <2>4, <2>5
  <2>6. CASE base = 16
    BY <2>1, <2>3, <2>4, <2>6
  <2> QED BY <2>5, <2>6
<1> QED BY <1>4, <1>5, <1>6, <1>7

\* Two hexadecimal digits fit a byte, four of them fit two, and so do three octal ones.
LEMMA PlacesBounds ==
    ASSUME NEW p \in Nat, NEW q \in Nat, p <= q
    PROVE  /\ (\A k \in p..(q - 1) : text[k] \in isxdigit) =>
                  /\ q - p <= 2 => Places(16, p, q) <= 255
                  /\ q - p <= 4 => Places(16, p, q) <= 65535
           /\ (\A k \in p..(q - 1) : text[k] \in isoctal) =>
                  (q - p <= 3 => Places(8, p, q) <= 65535)
<1>1. ASSUME \A k \in p..(q - 1) : text[k] \in isxdigit
      PROVE  /\ q - p <= 2 => Places(16, p, q) <= 255
             /\ q - p <= 4 => Places(16, p, q) <= 65535
  <2>1. PICK base \in {8, 16} : base = 16
    OBVIOUS
  <2>2. PICK w, v : Places(base, p, q) = v[p] /\ Weighs(w, v, base, p, q)
    BY <1>1, <2>1, PlacesFacts
  <2>3. \A k \in p..(q - 1) : digit_value(text[k]) \in 0..(base - 1)
    BY <1>1, <2>1, DigitBounds
  <2>4. /\ q - 1 >= p => v[q - 1] <= 15
        /\ q - 2 >= p => v[q - 2] <= 255
        /\ q - 3 >= p => v[q - 3] <= 4095
        /\ q - 4 >= p => v[q - 4] <= 65535
    BY <2>1, <2>2, <2>3, LastDigits
  <2>5. v[q] = 0
    BY <2>2 DEF Weighs
  <2>6. PICK x : x = v[p]
    OBVIOUS
  <2>7. CASE p = q
    BY <2>1, <2>2, <2>5, <2>7
  <2>8. CASE p = q - 1
    <3>1. x <= 15 /\ x \in Nat
      BY <2>2, <2>4, <2>6, <2>8 DEF Weighs
    <3> QED BY <2>1, <2>2, <2>6, <3>1
  <2>9. CASE p = q - 2
    <3>1. x <= 255 /\ x \in Nat
      BY <2>2, <2>4, <2>6, <2>9 DEF Weighs
    <3> QED BY <2>1, <2>2, <2>6, <3>1
  <2>10. CASE p = q - 3
    <3>1. x <= 4095 /\ x \in Nat
      BY <2>2, <2>4, <2>6, <2>10 DEF Weighs
    <3> QED BY <2>1, <2>2, <2>6, <2>10, <3>1
  <2>11. CASE p = q - 4
    <3>1. x <= 65535 /\ x \in Nat
      BY <2>2, <2>4, <2>6, <2>11 DEF Weighs
    <3> QED BY <2>1, <2>2, <2>6, <2>11, <3>1
  <2>12. CASE p < q - 4
    BY <2>12
  <2> QED BY <2>7, <2>8, <2>9, <2>10, <2>11, <2>12
<1>2. ASSUME \A k \in p..(q - 1) : text[k] \in isoctal
      PROVE  q - p <= 3 => Places(8, p, q) <= 65535
  <2>1. PICK base \in {8, 16} : base = 8
    OBVIOUS
  <2>2. PICK w, v : Places(base, p, q) = v[p] /\ Weighs(w, v, base, p, q)
    BY <1>2, <2>1, PlacesFacts, DigitBounds
  <2>3. \A k \in p..(q - 1) : digit_value(text[k]) \in 0..(base - 1)
    BY <1>2, <2>1, DigitBounds
  <2>4. /\ q - 1 >= p => v[q - 1] <= 7
        /\ q - 2 >= p => v[q - 2] <= 63
        /\ q - 3 >= p => v[q - 3] <= 511
    BY <2>1, <2>2, <2>3, LastDigits
  <2>5. v[q] = 0
    BY <2>2 DEF Weighs
  <2>6. PICK x : x = v[p]
    OBVIOUS
  <2>7. x \in Nat
    BY <2>2, <2>6 DEF Weighs
  <2>8. CASE p = q
    BY <2>1, <2>2, <2>5, <2>8
  <2>9. CASE p = q - 1 \/ p = q - 2 \/ p = q - 3
    <3>1. x <= 511
      BY <2>4, <2>6, <2>7, <2>9
    <3> QED BY <2>1, <2>2, <2>6, <2>7, <3>1
  <2>10. CASE p < q - 3
    BY <2>10
  <2> QED BY <2>8, <2>9, <2>10
<1> QED BY <1>1, <1>2

\* A simple escape is a byte.
LEMMA SimpleEscapes ==
    ASSUME NEW c \in 0..255, c \in DOMAIN simple_escapes
    PROVE  simple_escapes[c] \in 0..255
<1>1. simple_escapes[c] = CASE c = Ord("a") -> 7  [] c = Ord("b") -> 8  [] c = Ord("f") -> 12
          [] c = Ord("n") -> 10 [] c = Ord("r") -> 13 [] c = Ord("t") -> 9
          [] c = Ord("v") -> 11 [] c = Ord("e") -> 27 [] OTHER -> c
  BY DEF simple_escapes
<1> QED BY <1>1

\* An escape whose alert is an error.
IsError(e) == e.type = "ALERT_ERR"

\* The fields of an escape.
LEMMA EscapeFields ==
    ASSUME NEW end, NEW val, NEW type, NEW msg, NEW e, e = Escape(end, val, type, msg)
    PROVE  /\ e.end = end /\ e.val = val /\ e.type = type
           /\ IsError(e) <=> type = "ALERT_ERR"
  BY DEF Escape, IsError

\* The widths by their numbers.
LEMMA WidthValues == Widths = {1, 2, 4} /\ CW_UTF8 = 1 /\ CW_UTF16 = 2 /\ CW_UTF32 = 4
  BY DEF Widths, CW_UTF8, CW_UTF16, CW_UTF32

\* A value that fits its unit is kept.
LEMMA UnitKeeps ==
    ASSUME NEW c \in Nat, width \in {1, 2, 4}, width = 1 => c <= 255, width = 2 => c <= 65535
    PROVE  unit(c) = c
  BY WidthValues DEF unit

\* What an escape sequence is, and what the lexer makes of it.
EscapeRight(p, w) ==
    /\ EscapeAt(p, w) # Malformed =>
          /\ EscapeAt(p, w) = Element(EscapeAt(p, w).end, EscapeAt(p, w).val)
          /\ EscapeAt(p, w).end \in (p + 2)..Len(text) /\ EscapeAt(p, w).val \in Nat
    /\ (/\ w = width /\ text[p + 1] # NUL /\ text[p + 1] < 128
        /\ p <= Len(text) - 5 => ~IsIn(p + 1, p + 5, isoctal)) =>
          /\ IsError(consume_escape_sequence(p + 1)) <=> EscapeAt(p, w) = Malformed
          /\ EscapeAt(p, w) # Malformed =>
                /\ consume_escape_sequence(p + 1).end = EscapeAt(p, w).end
                /\ consume_escape_sequence(p + 1).val = EscapeAt(p, w).val
                /\ unit(consume_escape_sequence(p + 1).val) = EscapeAt(p, w).val

\* An element is not malformed unless it ends nowhere.
LEMMA ElementFacts ==
    ASSUME NEW end \in Nat \ {0}, NEW val, NEW e, e = Element(end, val)
    PROVE  e.end = end /\ e.val = val /\ e # Malformed /\ e = Element(e.end, e.val)
  BY DEF Element, Malformed

\* What the lexer does with an element that is one.
LEMMA EscapeAgrees ==
    ASSUME Given, NEW p \in Positions, NEW w \in {1, 2, 4},
           NEW end \in (p + 2)..Len(text), NEW val \in Nat, EscapeAt(p, w) = Element(end, val),
           NEW e, e = consume_escape_sequence(p + 1),
           w = width /\ text[p + 1] < 128 /\ (p <= Len(text) - 5 => ~IsIn(p + 1, p + 5, isoctal)) =>
               ~IsError(e) /\ e.end = end /\ e.val = val /\ unit(val) = val
    PROVE  EscapeRight(p, w)
<1>1. end \in Nat \ {0}
  BY DEF Positions
<1>2. PICK x : x = EscapeAt(p, w)
  OBVIOUS
<1>3. x.end = end /\ x.val = val /\ x # Malformed /\ x = Element(x.end, x.val)
  BY <1>1, <1>2, ElementFacts
<1> QED BY <1>2, <1>3 DEF EscapeRight

\* The hexadecimal escapes.
LEMMA HexEscapeRight ==
    ASSUME Given, NEW p \in Positions, text[p] = BACKSLASH, text[p + 1] = Ord("x"), NEW w \in {1, 2, 4}
    PROVE  EscapeRight(p, w)
<1>1. PICK q \in Positions : q = p + 2
  <2>1. p + 1 \in Positions
    BY NextPosition, Marks
  <2>2. PICK k \in Positions : k = p + 1
    BY <2>1
  <2>3. text[k] # NUL
    BY <2>2, Marks
  <2>4. k + 1 \in Positions /\ k + 1 = p + 2
    BY <2>2, <2>3, NextPosition DEF Positions
  <2> QED BY <2>4
<1>2. PICK m : m = Skip(q, isxdigit)
  OBVIOUS
<1>3. m \in q..Len(text) /\ m \in Positions /\ \A k \in q..(m - 1) : text[k] \in isxdigit
  BY <1>2, SkipFacts, Classes
<1>4. /\ p \in Nat /\ q \in Nat /\ m \in Nat /\ q <= m /\ Len(text) \in Nat /\ m - q \in Nat
      /\ (p + 1) + 1 = q
  BY <1>1, <1>3, TextFacts DEF Positions
<1>5. PICK val : val = Places(16, q, m)
  OBVIOUS
<1>6. val \in Nat /\ Number(q, m, 16) = val
  <2>1. PICK b \in {8, 10, 16} : b = 16
    OBVIOUS
  <2>2. Number(q, m, b) = Places(b, q, m) /\ Places(b, q, m) \in Nat
    BY <1>3, <1>4, <2>1, DigitsValue
  <2> QED BY <1>5, <2>1, <2>2
<1>7. text[p + 1] # NUL /\ text[p + 1] \notin isoctal
  BY Marks, Codes
<1>8. EscapeAt(p, w) = IF m - q \in 1..(2 * w) THEN Element(m, val) ELSE Malformed
  BY <1>1, <1>2, <1>5, <1>7 DEF EscapeAt
<1>9. PICK e : e = consume_escape_sequence(p + 1)
  OBVIOUS
<1>10. e = consume_hex_escape_sequence(q)
  BY <1>1, <1>4, <1>9 DEF consume_escape_sequence
<1>11. PICK c : c = Number(Max({q, m - 8}), m, 16)
  OBVIOUS
<1>12. e = IF m = q THEN Escape(m, c, "ALERT_ERR", "no hex digits")
           ELSE IF m - q > 2 * width THEN Escape(m, c, "ALERT_ERR", "hex escape out of range")
           ELSE Escape(m, c, "", "")
  BY <1>2, <1>10, <1>11 DEF consume_hex_escape_sequence
<1>13. CASE m - q \in 1..(2 * w)
  <2>1. ASSUME w = width
        PROVE  ~IsError(e) /\ e.end = m /\ e.val = val /\ unit(val) = val
    <3>1. m # q /\ ~ (m - q > 2 * width)
      BY <1>4, <1>13, <2>1
    <3>2. PICK none, word : none = "" /\ word = ""
      OBVIOUS
    <3>3. e = Escape(m, c, none, word)
      BY <1>12, <3>1, <3>2, Zenon
    <3>4. none # "ALERT_ERR"
      BY <3>2
    <3>5. e.end = m /\ e.val = c /\ ~IsError(e)
      BY <3>3, <3>4, EscapeFields
    <3>6. c = val
      <4>1. PICK low \in Int : low = m - 8
        BY <1>4
      <4>2. low <= q
        BY <1>4, <1>13, <4>1
      <4>3. Max({q, low}) = q
        <5>1. q \in Int /\ low \in Int
          BY <1>4, <4>1
        <5>2. Max({q, low}) \in {q, low} /\ Max({q, low}) >= q
          BY <5>1, PairFacts
        <5> QED BY <1>4, <4>1, <4>2, <5>2
      <4> QED BY <1>6, <1>11, <4>1, <4>3
    <3>7. unit(val) = val
      <4>1. w = 1 => m - q <= 2
        BY <1>13
      <4>2. w = 2 => m - q <= 4
        BY <1>13
      <4>3. (m - q <= 2 => val <= 255) /\ (m - q <= 4 => val <= 65535)
        BY <1>3, <1>4, <1>5, PlacesBounds
      <4> QED BY <1>6, <2>1, <4>1, <4>2, <4>3, UnitKeeps
    <3> QED BY <3>5, <3>6, <3>7
  <2>2. m \in (p + 2)..Len(text)
    BY <1>1, <1>3
  <2> QED BY <1>6, <1>8, <1>9, <1>13, <2>1, <2>2, EscapeAgrees
<1>14. CASE m - q \notin 1..(2 * w)
  <2>1. EscapeAt(p, w) = Malformed
    BY <1>8, <1>14
  <2>2. ASSUME w = width PROVE IsError(e)
    <3>1. m = q \/ m - q > 2 * width
      BY <1>4, <1>14, <2>2
    <3>2. PICK m1, m2 : m1 = "no hex digits" /\ m2 = "hex escape out of range"
      OBVIOUS
    <3>3. e = Escape(m, c, "ALERT_ERR", m1) \/ e = Escape(m, c, "ALERT_ERR", m2)
      BY <1>12, <3>1, <3>2, Zenon
    <3> QED BY <3>3, EscapeFields
  <2> QED BY <1>9, <2>1, <2>2 DEF EscapeRight
<1> QED BY <1>13, <1>14

\* The octal escapes.
LEMMA OctEscapeRight ==
    ASSUME Given, NEW p \in Positions, text[p] = BACKSLASH, text[p + 1] \in isoctal, NEW w \in {1, 2, 4}
    PROVE  EscapeRight(p, w)
<1>1. PICK q \in Positions : q = p + 1
  <2>1. p + 1 \in Positions
    BY NextPosition, Marks
  <2> QED BY <2>1
<1>2. PICK stop : stop = Skip(q, isoctal)
  OBVIOUS
<1>3. /\ stop \in q..Len(text) /\ stop \in Positions /\ \A k \in q..(stop - 1) : text[k] \in isoctal
      /\ text[stop] \notin isoctal
  BY <1>2, SkipFacts, Classes
<1>4. /\ p \in Nat /\ q \in Nat /\ stop \in Nat /\ q <= stop /\ Len(text) \in Nat /\ p + 4 = q + 3
      /\ p + 5 = q + 4
  BY <1>1, <1>3, TextFacts DEF Positions
<1>5. q < stop
  <2>1. q # stop
    BY <1>1, <1>3
  <2> QED BY <1>4, <2>1
<1>6. PICK m : m = Min({p + 4, stop})
  OBVIOUS
<1>7. m \in {p + 4, stop} /\ m <= p + 4 /\ m <= stop
  <2>1. p + 4 \in Int /\ stop \in Int
    BY <1>4
  <2>2. PICK far \in Int : far = p + 4
    BY <2>1
  <2>3. Min({far, stop}) \in {far, stop} /\ Min({far, stop}) <= far /\ Min({far, stop}) <= stop
    BY <2>1, PairFacts
  <2> QED BY <1>6, <2>2, <2>3
<1>8. m \in Nat /\ m \in (p + 2)..Len(text) /\ q <= m /\ m - q <= 3
  BY <1>1, <1>3, <1>4, <1>5, <1>7
<1>9. \A k \in q..(m - 1) : text[k] \in isoctal /\ text[k] \in isxdigit
  <2>1. \A k \in q..(m - 1) : k \in q..(stop - 1)
    BY <1>4, <1>7, <1>8
  <2> QED BY <1>3, <2>1, DigitBounds
<1>10. PICK val : val = Places(8, q, m)
  OBVIOUS
<1>11. val \in Nat /\ Number(q, m, 8) = val /\ val <= 65535
  <2>1. PICK b \in {8, 10, 16} : b = 8
    OBVIOUS
  <2>2. Number(q, m, b) = Places(b, q, m) /\ Places(b, q, m) \in Nat
    BY <1>4, <1>8, <1>9, DigitsValue, ZenonT(60)
  <2>3. Places(8, q, m) <= 65535
    BY <1>4, <1>8, <1>9, PlacesBounds
  <2> QED BY <1>10, <2>1, <2>2, <2>3
<1>12. text[q] # NUL /\ text[q] # Ord("x") /\ text[q] \in isoctal
  <2>1. NUL \notin isoctal /\ Ord("x") \notin isoctal
    BY Marks, Codes
  <2> QED BY <1>1, <2>1
<1>13. EscapeAt(p, w) = IF w > 1 \/ val < 256 THEN Element(m, val) ELSE Malformed
  BY <1>1, <1>2, <1>6, <1>10, <1>12 DEF EscapeAt
<1>14. PICK e : e = consume_escape_sequence(q)
  OBVIOUS
<1>15. e = consume_oct_escape_sequence(q)
  BY <1>12, <1>14 DEF consume_escape_sequence
<1>16. ASSUME w = width, p <= Len(text) - 5 => ~IsIn(p + 1, p + 5, isoctal)
       PROVE  e = IF w = 1 /\ val > 255 THEN Escape(m, val, "ALERT_ERR", "octal escape out of range")
                  ELSE Escape(m, val, "", "")
  <2>1. stop <= q + 3
    <3>1. SUFFICES ASSUME stop > q + 3 PROVE FALSE
      BY <1>4
    <3>2. p <= Len(text) - 5
      BY <1>1, <1>3, <1>4, <3>1
    <3>3. IsIn(p + 1, p + 5, isoctal)
      <4>1. \A k \in (p + 1)..((p + 5) - 1) : k \in q..(stop - 1)
        BY <1>1, <1>4, <3>1
      <4> QED BY <1>3, <4>1 DEF IsIn
    <3> QED BY <1>16, <3>2, <3>3
  <2>2. PICK far \in Int : far = q + 4
    BY <1>4
  <2>3. Min({far, stop}) = stop /\ m = stop
    <3>1. Min({far, stop}) \in {far, stop} /\ Min({far, stop}) <= far /\ Min({far, stop}) <= stop
      <4>1. far \in Int /\ stop \in Int
        BY <1>4, <2>2
      <4> QED BY <4>1, PairFacts
    <3>2. Min({far, stop}) = stop
      BY <1>4, <2>1, <2>2, <3>1
    <3>3. m = stop
      BY <1>4, <1>7, <2>1
    <3> QED BY <3>2, <3>3
  <2>4. Number(q, Min({q + 4, Skip(q, isoctal)}), 8) = val /\ Min({q + 4, Skip(q, isoctal)}) = m
    BY <1>2, <1>11, <2>2, <2>3
  <2> QED BY <1>15, <1>16, <2>4, WidthValues DEF consume_oct_escape_sequence
<1>17. CASE w > 1 \/ val < 256
  <2>1. EscapeAt(p, w) = Element(m, val)
    BY <1>13, <1>17
  <2>2. ASSUME w = width, p <= Len(text) - 5 => ~IsIn(p + 1, p + 5, isoctal)
        PROVE  ~IsError(e) /\ e.end = m /\ e.val = val /\ unit(val) = val
    <3>1. ~ (w = 1 /\ val > 255)
      BY <1>11, <1>17
    <3>2. PICK none, word : none = "" /\ word = ""
      OBVIOUS
    <3>3. e = Escape(m, val, none, word)
      BY <1>16, <2>2, <3>1, <3>2, Zenon
    <3>4. none # "ALERT_ERR"
      BY <3>2
    <3>5. e.end = m /\ e.val = val /\ ~IsError(e)
      BY <3>3, <3>4, EscapeFields
    <3>6. unit(val) = val
      BY <1>11, <1>17, <2>2, UnitKeeps
    <3> QED BY <3>5, <3>6
  <2> QED BY <1>1, <1>8, <1>11, <1>14, <2>1, <2>2, EscapeAgrees
<1>18. CASE ~ (w > 1 \/ val < 256)
  <2>1. EscapeAt(p, w) = Malformed
    BY <1>13, <1>18
  <2>2. ASSUME w = width, p <= Len(text) - 5 => ~IsIn(p + 1, p + 5, isoctal)
        PROVE  IsError(e)
    <3>1. w = 1 /\ val > 255
      BY <1>11, <1>18
    <3>2. PICK word : word = "octal escape out of range"
      OBVIOUS
    <3>3. e = Escape(m, val, "ALERT_ERR", word)
      BY <1>16, <2>2, <3>1, <3>2, Zenon
    <3> QED BY <3>3, EscapeFields
  <2> QED BY <1>1, <1>14, <2>1, <2>2 DEF EscapeRight
<1> QED BY <1>17, <1>18

\* The escapes of one character.
LEMMA CharEscapeRight ==
    ASSUME Given, NEW p \in Positions, text[p] = BACKSLASH, text[p + 1] \notin isoctal,
           text[p + 1] # Ord("x"), NEW w \in {1, 2, 4}
    PROVE  EscapeRight(p, w)
<1>1. PICK q \in Positions : q = p + 1
  <2>1. p + 1 \in Positions
    BY NextPosition, Marks
  <2> QED BY <2>1
<1>2. PICK c : c = text[q]
  OBVIOUS
<1>3. c \in 0..255 /\ p \in Nat /\ q \in Nat /\ Len(text) \in Nat
  BY <1>2, TextFacts DEF Positions
<1>4. CASE c = NUL
  <2>1. EscapeAt(p, w) = Malformed
    BY <1>1, <1>2, <1>4 DEF EscapeAt
  <2> QED BY <1>1, <1>2, <1>4, <2>1 DEF EscapeRight
<1>5. CASE c # NUL
  <2>1. q + 1 \in Positions /\ q + 1 = p + 2
    BY <1>1, <1>2, <1>3, <1>5, NextPosition
  <2>2. PICK m : m = p + 2
    OBVIOUS
  <2>3. m \in (p + 2)..Len(text)
    BY <1>3, <2>1, <2>2 DEF Positions
  <2>4. PICK val : val = IF c \in DOMAIN simple_escapes THEN simple_escapes[c] ELSE c
    BY SMTT(40)
  <2>5. val \in 0..255
    BY <1>3, <2>4, SimpleEscapes
  <2>6. EscapeAt(p, w) = Element(m, val)
    BY <1>1, <1>2, <1>5, <2>2, <2>4 DEF EscapeAt
  <2>7. PICK e : e = consume_escape_sequence(q)
    OBVIOUS
  <2>8. e = get_escape_char(q)
    BY <1>1, <1>2, <2>7 DEF consume_escape_sequence
  <2>9. ASSUME text[p + 1] < 128 PROVE ~IsError(e) /\ e.end = m /\ e.val = val
    <3>3. sign_extended(c) = c
      BY <1>1, <1>2, <1>3, <2>9 DEF sign_extended
    <3>1. CASE c \in DOMAIN simple_escapes
      <4>1. PICK none, word : none = "" /\ word = ""
        OBVIOUS
      <4>2. e = Escape(q + 1, simple_escapes[c], none, word)
        BY <1>2, <2>8, <3>1, <4>1, Zenon DEF get_escape_char
      <4>3. none # "ALERT_ERR"
        BY <4>1
      <4> QED BY <2>1, <2>2, <2>4, <3>1, <4>2, <4>3, EscapeFields
    <3>2. CASE c \notin DOMAIN simple_escapes
      <4>1. PICK word : word = "unknown escape"
        OBVIOUS
      <4>2. e = Escape(q + 1, c, "ALERT_WARN", word)
        BY <1>2, <2>8, <3>2, <3>3, <4>1, Zenon DEF get_escape_char
      <4> QED BY <2>1, <2>2, <2>4, <3>2, <4>2, EscapeFields
    <3> QED BY <3>1, <3>2
  <2>10. w = width => unit(val) = val
    BY <2>5, UnitKeeps
  <2>11. val \in Nat
    BY <2>5
  <2> QED BY <1>1, <2>3, <2>6, <2>7, <2>9, <2>10, <2>11, EscapeAgrees
<1> QED BY <1>4, <1>5

\* Every escape.
LEMMA EscapesRight ==
    ASSUME Given, NEW p \in Positions, text[p] = BACKSLASH, NEW w \in {1, 2, 4}
    PROVE  EscapeRight(p, w)
  BY HexEscapeRight, OctEscapeRight, CharEscapeRight

-----------------------------------------------------------------------------
(* Characters of more than one byte.                                       *)

\* The bits of the bytes are numbers.
LEMMA LeadBits == \A c \in 0..255 : lead_bits(c) \in Nat /\ c % 64 \in Nat
BY DEF lead_bits

\* What decode_utf8 computes of the bytes.
LEMMA DecodeIs ==
    ASSUME Given, NEW p \in Positions, NEW n \in 1..4, n = utf8_len(text[p]), p + n - 1 <= Len(text)
    PROVE  LET a == lead_bits(text[p])
               t(k) == text[p + k] % 64
           IN /\ n = 1 => decode_utf8(text, p).code = a
              /\ n = 2 => decode_utf8(text, p).code = 64 * a + t(1)
              /\ n = 3 => decode_utf8(text, p).code = 64 * (64 * a + t(1)) + t(2)
              /\ n = 4 => decode_utf8(text, p).code = 64 * (64 * (64 * a + t(1)) + t(2)) + t(3)
<1>1. p \in Nat /\ Len(text) \in Nat /\ text[p] \in 0..255
  BY TextFacts DEF Positions
<1>2. PICK a \in Nat : a = lead_bits(text[p])
  <2>1. \A c \in 0..255 : lead_bits(c) \in Nat
    BY LeadBits
  <2> QED BY <1>1, <2>1
<1>3. \A k \in 2..n : text[p + k - 1] % 64 \in Nat
  <2> SUFFICES ASSUME NEW k \in 2..n PROVE text[p + k - 1] % 64 \in Nat
    OBVIOUS
  <2>1. p + k - 1 \in Positions
    BY <1>1 DEF Positions
  <2>2. text[p + k - 1] \in 0..255
    BY <2>1, TextFacts
  <2>3. \A c \in 0..255 : c % 64 \in Nat
    BY LeadBits
  <2> QED BY <2>2, <2>3
<1>4. PICK t : t = [k \in 0..4 |-> text[p + k - 1] % 64]
  OBVIOUS
<1>5. \A k \in 2..n : t[k] = text[p + k - 1] % 64 /\ t[k] \in Nat
  BY <1>3, <1>4
<1>6. PICK v : v = CHOOSE w : w = [k \in 0..n |->
                   IF k <= 1 THEN a ELSE 64 * w[k - 1] + (text[p + k - 1] % 64)]
  OBVIOUS
<1>7. decode_utf8(text, p).code = v[n]
  BY <1>2, <1>6 DEF decode_utf8
<1>8. PICK f : f = [k \in 0..n |-> IF k <= 1 THEN a
                      ELSE IF k = 2 THEN 64 * a + t[2]
                      ELSE IF k = 3 THEN 64 * (64 * a + t[2]) + t[3]
                      ELSE 64 * (64 * (64 * a + t[2]) + t[3]) + t[4]]
  OBVIOUS
<1>9. f = [k \in 0..n |-> IF k <= 1 THEN a ELSE 64 * f[k - 1] + (text[p + k - 1] % 64)]
  <2>1. ASSUME NEW k \in 0..n
        PROVE  f[k] = IF k <= 1 THEN a ELSE 64 * f[k - 1] + (text[p + k - 1] % 64)
    <3>1. CASE k <= 1
      BY <1>8, <3>1
    <3>2. CASE k = 2
      BY <1>5, <1>8, <3>2
    <3>3. CASE k = 3
      BY <1>5, <1>8, <3>3
    <3>4. CASE k = 4
      BY <1>5, <1>8, <3>4
    <3> QED BY <3>1, <3>2, <3>3, <3>4
  <2> QED BY <1>8, <2>1, SMTT(40)
<1>10. v = [k \in 0..n |-> IF k <= 1 THEN a ELSE 64 * v[k - 1] + (text[p + k - 1] % 64)]
  BY <1>6, <1>9, SMTT(40)
<1>11. p + 2 - 1 = p + 1 /\ p + 3 - 1 = p + 2 /\ p + 4 - 1 = p + 3
  BY <1>1
<1>12. 1 \in 0..n /\ v[1] = a
  BY <1>10
<1>13. n >= 2 => v[2] = 64 * a + (text[p + 1] % 64)
  <2> SUFFICES ASSUME n >= 2 PROVE v[2] = 64 * a + (text[p + 1] % 64)
    OBVIOUS
  <2>1. 2 \in 0..n /\ ~(2 <= 1) /\ 2 - 1 = 1
    OBVIOUS
  <2> QED BY <1>10, <1>11, <1>12, <2>1
<1>14. n >= 3 => v[3] = 64 * (64 * a + (text[p + 1] % 64)) + (text[p + 2] % 64)
  <2> SUFFICES ASSUME n >= 3 PROVE v[3] = 64 * (64 * a + (text[p + 1] % 64)) + (text[p + 2] % 64)
    OBVIOUS
  <2>1. 3 \in 0..n /\ ~(3 <= 1) /\ 3 - 1 = 2 /\ n >= 2
    OBVIOUS
  <2> QED BY <1>10, <1>11, <1>13, <2>1
<1>15. n = 4 => v[4] = 64 * (64 * (64 * a + (text[p + 1] % 64)) + (text[p + 2] % 64))
                       + (text[p + 3] % 64)
  <2> SUFFICES ASSUME n = 4
               PROVE  v[4] = 64 * (64 * (64 * a + (text[p + 1] % 64)) + (text[p + 2] % 64))
                             + (text[p + 3] % 64)
    OBVIOUS
  <2>1. 4 \in 0..n /\ ~(4 <= 1) /\ 4 - 1 = 3 /\ n >= 3
    OBVIOUS
  <2> QED BY <1>10, <1>11, <1>14, <2>1
<1> QED BY <1>2, <1>7, <1>12, <1>13, <1>14, <1>15

\* A sequence has the length that its first byte tells.
LEMMA Utf8Facts ==
    ASSUME NEW p \in Positions, NEW n \in 1..4, Given
    PROVE  Utf8At(p, n) <=>
               /\ n = utf8_len(text[p]) /\ text[p] \in 1..247 /\ p + n - 1 < Len(text)
               /\ IsIn(p + 1, p + n, 128..191)
<1>1. PICK c \in 0..255 : c = text[p]
  BY TextFacts
<1>2. n = 1 => (utf8_len(c) = n <=> c <= 127)
  BY <1>1 DEF utf8_len
<1>3. n = 2 => (utf8_len(c) = n <=> c \in 192..223)
  BY <1>1 DEF utf8_len
<1>4. n = 3 => (utf8_len(c) = n <=> c \in 224..239)
  BY <1>1 DEF utf8_len
<1>5. n = 4 => (utf8_len(c) = n <=> c \in 240..255)
  BY <1>1 DEF utf8_len
<1>6. PICK class : class = CASE n = 1 -> 1..127 [] n = 2 -> 192..223 [] n = 3 -> 224..239 [] n = 4 -> 240..247
  OBVIOUS
<1>7. /\ n = 1 => class = 1..127
      /\ n = 2 => class = 192..223
      /\ n = 3 => class = 224..239
      /\ n = 4 => class = 240..247
  BY <1>6
<1>8. c \in class <=> n = utf8_len(c) /\ c \in 1..247
  <2>1. CASE n = 1
    BY <1>1, <1>2, <1>7, <2>1
  <2>2. CASE n = 2
    BY <1>1, <1>3, <1>7, <2>2
  <2>3. CASE n = 3
    BY <1>1, <1>4, <1>7, <2>3
  <2>4. CASE n = 4
    BY <1>1, <1>5, <1>7, <2>4
  <2> QED BY <2>1, <2>2, <2>3, <2>4
<1>9. Utf8At(p, n) <=> p + n - 1 < Len(text) /\ c \in class /\ IsIn(p + 1, p + n, 128..191)
  BY <1>1, <1>6 DEF Utf8At
<1> QED BY <1>1, <1>8, <1>9

\* A position in a sequence that is UTF-8.
Clean(p) == \E q \in 1..p, n \in 1..4 : Utf8At(q, n) /\ p < q + n /\ CodePoint(q, n) <= MAX_CODE_POINT

\* Six bits at a time.
LEMMA SixBits ==
    /\ \A x \in Int, y \in Int, z \in Int : 64 * (64 * x + y) + z = 4096 * x + 64 * y + z
    /\ \A x \in Int, y \in Int, z \in Int, v \in Int :
           64 * (64 * (64 * x + y) + z) + v = 262144 * x + 4096 * y + 64 * z + v
<1>1. \A x \in Int, y \in Int, z \in Int : 64 * (64 * x + y) + z = 4096 * x + 64 * y + z
  BY SMT
<1>2. \A x \in Int, y \in Int, z \in Int, v \in Int :
          64 * (64 * (64 * x + y) + z) + v = 262144 * x + 4096 * y + 64 * z + v
  BY SMT
<1> QED BY <1>1, <1>2, SMT

\* The code point that decode_utf8 finds in a sequence.
LEMMA CodePointIs ==
    ASSUME Given, NEW p \in Positions, NEW n \in 1..4, Utf8At(p, n)
    PROVE  decode_utf8(text, p).code = CodePoint(p, n)
<1>1. /\ n = utf8_len(text[p]) /\ text[p] \in 1..247 /\ p + n - 1 < Len(text)
      /\ IsIn(p + 1, p + n, 128..191)
  BY Utf8Facts
<1>2. /\ p \in Nat /\ Len(text) \in Nat /\ p + n - 1 <= Len(text)
      /\ p + 1 - 1 = p /\ p + 2 - 1 = p + 1 /\ p + 3 - 1 = p + 2 /\ p + 4 - 1 = p + 3
  BY <1>1, TextFacts DEF Positions
<1>3. \A k \in (p + 1)..(p + n - 1) : text[k] \in 128..191
  <2>1. IsIn(p + 1, p + n, 128..191)
    BY <1>1
  <2> SUFFICES ASSUME NEW k \in (p + 1)..(p + n - 1) PROVE text[k] \in 128..191
    OBVIOUS
  <2>2. PICK a, b : a = p + 1 /\ b = p + n
    OBVIOUS
  <2>3. IsIn(a, b, 128..191)
    BY <2>1, <2>2
  <2>4. k \in a..(b - 1)
    BY <1>2, <2>2
  <2> QED BY <2>3, <2>4 DEF IsIn
<1>4. PICK c : c = text[p]
  OBVIOUS
<1>5. /\ n = 1 => c \in 1..127
      /\ n = 2 => c \in 192..223
      /\ n = 3 => c \in 224..239
      /\ n = 4 => c \in 240..247
  <2>1. c \in 1..247 /\ n = utf8_len(c)
    BY <1>1, <1>4
  <2>2. n = 1 => c \in 1..127
    BY <2>1 DEF utf8_len
  <2>3. n = 2 => c \in 192..223
    BY <2>1 DEF utf8_len
  <2>4. n = 3 => c \in 224..239
    BY <2>1 DEF utf8_len
  <2>5. n = 4 => c \in 240..247
    BY <2>1 DEF utf8_len
  <2> QED BY <2>2, <2>3, <2>4, <2>5
<1>6. PICK t1, t2, t3 : t1 = text[p + 1] /\ t2 = text[p + 2] /\ t3 = text[p + 3]
  OBVIOUS
<1>7. /\ n >= 2 => t1 \in 128..191 /\ t1 % 64 = t1 - 128
      /\ n >= 3 => t2 \in 128..191 /\ t2 % 64 = t2 - 128
      /\ n >= 4 => t3 \in 128..191 /\ t3 % 64 = t3 - 128
  <2>1. \A t \in 128..191 : t % 64 = t - 128
    OBVIOUS
  <2>2. n >= 2 => p + 1 \in (p + 1)..(p + n - 1)
    BY <1>2
  <2>3. n >= 3 => p + 2 \in (p + 1)..(p + n - 1)
    BY <1>2
  <2>4. n >= 4 => p + 3 \in (p + 1)..(p + n - 1)
    BY <1>2
  <2> QED BY <1>3, <1>6, <2>1, <2>2, <2>3, <2>4
<1>8. PICK d : d = decode_utf8(text, p).code
  OBVIOUS
<1>9. PICK a : a = lead_bits(c)
  OBVIOUS
<1>10. /\ n = 1 => d = a
       /\ n = 2 => d = 64 * a + (t1 % 64)
       /\ n = 3 => d = 64 * (64 * a + (t1 % 64)) + (t2 % 64)
       /\ n = 4 => d = 64 * (64 * (64 * a + (t1 % 64)) + (t2 % 64)) + (t3 % 64)
  BY <1>1, <1>2, <1>4, <1>6, <1>8, <1>9, DecodeIs, ZenonT(60)
<1>11. CASE n = 1
  <2>1. a = c
    BY <1>5, <1>9, <1>11 DEF lead_bits
  <2>2. CodePoint(p, n) = c
    BY <1>2, <1>4, <1>11, SMT DEF CodePoint
  <2> QED BY <1>8, <1>10, <1>11, <2>1, <2>2
<1>12. CASE n = 2
  <2>1. a = c - 192
    BY <1>5, <1>9, <1>12 DEF lead_bits
  <2>2. CodePoint(p, n) = 64 * (c - 192) + t1 - 128
    BY <1>2, <1>4, <1>6, <1>12, SMT DEF CodePoint
  <2>3. d = 64 * a + (t1 - 128)
    BY <1>7, <1>10, <1>12
  <2> QED BY <1>5, <1>7, <1>8, <1>12, <2>1, <2>2, <2>3
<1>13. CASE n = 3
  <2>1. a = c - 224
    BY <1>5, <1>9, <1>13 DEF lead_bits
  <2>2. CodePoint(p, n) = 4096 * (c - 224) + 64 * (t1 - 128) + t2 - 128
    BY <1>2, <1>4, <1>6, <1>13, SMT DEF CodePoint
  <2>3. d = 64 * (64 * a + (t1 - 128)) + (t2 - 128)
    BY <1>7, <1>10, <1>13
  <2> QED BY <1>5, <1>7, <1>8, <1>13, <2>1, <2>2, <2>3, SMT
<1>14. CASE n = 4
  <2>1. a = c - 240
    BY <1>5, <1>9, <1>14 DEF lead_bits
  <2>2. CodePoint(p, n) = 262144 * (c - 240) + 4096 * (t1 - 128) + 64 * (t2 - 128) + t3 - 128
    BY <1>2, <1>4, <1>6, <1>14, SMT DEF CodePoint
  <2>3. d = 64 * (64 * (64 * a + (t1 - 128)) + (t2 - 128)) + (t3 - 128)
    BY <1>7, <1>10, <1>14
  <2>4. PICK x \in Int, y \in Int, z \in Int, v \in Int :
            x = c - 240 /\ y = t1 - 128 /\ z = t2 - 128 /\ v = t3 - 128
    <3>1. c - 240 \in Int
      BY <1>5, <1>14
    <3>2. t1 - 128 \in Int
      BY <1>7, <1>14
    <3>3. t2 - 128 \in Int
      BY <1>7, <1>14
    <3>4. t3 - 128 \in Int
      BY <1>7, <1>14
    <3> QED BY <3>1, <3>2, <3>3, <3>4, Zenon
  <2>5. d = 64 * (64 * (64 * x + y) + z) + v
    BY <2>1, <2>3, <2>4
  <2>6. CodePoint(p, n) = 262144 * x + 4096 * y + 64 * z + v
    BY <1>7, <1>14, <2>2, <2>4, SMT
  <2> QED BY <1>8, <2>5, <2>6, SixBits, SMT
<1> QED BY <1>11, <1>12, <1>13, <1>14

\* The character at p of a wide literal.
LEMMA CharRight ==
    ASSUME Given, NEW p \in Positions, NEW w \in {2, 4}
    PROVE  /\ CharAt(p, w) # Malformed =>
                  /\ CharAt(p, w) = Element(CharAt(p, w).end, CharAt(p, w).val)
                  /\ CharAt(p, w).end = p + decode_utf8(text, p).len
                  /\ CharAt(p, w).val = decode_utf8(text, p).code
                  /\ CharAt(p, w).end \in (p + 1)..Len(text) /\ CharAt(p, w).val \in Nat
           /\ Clean(p) => /\ CharAt(p, w) = Malformed <=> text[p] > 127 /\ utf8_len(text[p]) = 0
                          /\ CharAt(p, w) # Malformed => CharAt(p, w).val <= MAX_CODE_POINT
<1>1. p \in Nat /\ Len(text) \in Nat /\ text[p] \in 0..255
  BY TextFacts DEF Positions
<1>2. PICK ns : ns = {n \in 1..4 : Utf8At(p, n)}
  OBVIOUS
<1>3. w # CW_UTF8
  BY WidthValues
<1>4. CharAt(p, w) = IF ns = {} THEN Malformed ELSE Element(p + Min(ns), CodePoint(p, Min(ns)))
  BY <1>2, <1>3 DEF CharAt
<1>5. ASSUME NEW n \in 1..4, Utf8At(p, n)
      PROVE  /\ ns = {n} /\ CharAt(p, w) = Element(p + n, CodePoint(p, n))
             /\ n = utf8_len(text[p]) /\ p + n \in (p + 1)..Len(text)
             /\ CodePoint(p, n) = decode_utf8(text, p).code /\ CodePoint(p, n) \in Nat
  <2>1. n = utf8_len(text[p]) /\ p + n - 1 < Len(text)
    BY <1>5, Utf8Facts
  <2>2. ns = {n}
    <3>1. \A k \in 1..4 : Utf8At(p, k) => k = utf8_len(text[p])
      BY Utf8Facts
    <3> QED BY <1>2, <1>5, <2>1, <3>1
  <2>3. Min({n}) = n
    <3>1. {n, n} = {n} /\ n \in Int
      OBVIOUS
    <3>2. Min({n, n}) \in {n, n}
      BY <3>1, PairFacts
    <3> QED BY <3>1, <3>2
  <2>4. CharAt(p, w) = Element(p + n, CodePoint(p, n))
    BY <1>4, <2>2, <2>3
  <2>5. p + n \in (p + 1)..Len(text)
    BY <1>1, <2>1
  <2>6. CodePoint(p, n) = decode_utf8(text, p).code
    BY <1>5, CodePointIs
  <2>7. CodePoint(p, n) \in Nat
    BY <2>6, DecodeFacts
  <2> QED BY <2>1, <2>2, <2>4, <2>5, <2>6, <2>7
<1>6. ASSUME CharAt(p, w) # Malformed
      PROVE  /\ CharAt(p, w) = Element(CharAt(p, w).end, CharAt(p, w).val)
             /\ CharAt(p, w).end = p + decode_utf8(text, p).len
             /\ CharAt(p, w).val = decode_utf8(text, p).code
             /\ CharAt(p, w).end \in (p + 1)..Len(text) /\ CharAt(p, w).val \in Nat
  <2>1. PICK n \in 1..4 : Utf8At(p, n)
    BY <1>2, <1>4, <1>6
  <2>2. PICK e, x : e = p + n /\ x = CodePoint(p, n)
    OBVIOUS
  <2>3. CharAt(p, w) = Element(e, x) /\ e \in (p + 1)..Len(text) /\ x \in Nat
        /\ x = decode_utf8(text, p).code /\ n = utf8_len(text[p])
    BY <1>5, <2>1, <2>2
  <2>4. e \in Nat \ {0}
    BY <1>1, <2>3
  <2>5. decode_utf8(text, p).len = n
    BY <2>3, DecodeFacts
  <2>6. PICK y : y = CharAt(p, w)
    OBVIOUS
  <2>7. y.end = e /\ y.val = x /\ y = Element(y.end, y.val)
    BY <2>3, <2>4, <2>6, ElementFacts
  <2> QED BY <2>2, <2>3, <2>5, <2>6, <2>7
<1>7. ASSUME Clean(p)
      PROVE  /\ CharAt(p, w) = Malformed <=> text[p] > 127 /\ utf8_len(text[p]) = 0
             /\ CharAt(p, w) # Malformed => CharAt(p, w).val <= MAX_CODE_POINT
  <2>1. PICK q \in 1..p, n \in 1..4 : Utf8At(q, n) /\ p < q + n /\ CodePoint(q, n) <= MAX_CODE_POINT
    BY <1>7 DEF Clean
  <2>2. CASE q = p
    <3>1. /\ CharAt(p, w) = Element(p + n, CodePoint(p, n)) /\ n = utf8_len(text[p])
          /\ p + n \in (p + 1)..Len(text)
      BY <1>5, <2>1, <2>2
    <3>2. PICK e, x, y : e = p + n /\ x = CodePoint(p, n) /\ y = CharAt(p, w)
      OBVIOUS
    <3>3. e \in Nat \ {0} /\ y = Element(e, x)
      BY <1>1, <3>1, <3>2
    <3>4. y # Malformed /\ y.val = x
      BY <3>3, ElementFacts
    <3> QED BY <2>1, <2>2, <3>1, <3>2, <3>4
  <2>3. CASE q # p
    <3>1. q \in Positions /\ q \in Nat /\ p \in (q + 1)..(q + n - 1)
      BY <1>1, <2>1, <2>3 DEF Positions
    <3>2. text[p] \in 128..191
      <4>1. IsIn(q + 1, q + n, 128..191)
        BY <2>1, <3>1, Utf8Facts
      <4> QED BY <3>1, <4>1 DEF IsIn
    <3>3. utf8_len(text[p]) = 0
      BY <3>2 DEF utf8_len
    <3>4. ns = {}
      <4>1. \A k \in 1..4 : ~Utf8At(p, k)
        BY <3>3, Utf8Facts
      <4> QED BY <1>2, <4>1
    <3> QED BY <1>4, <3>2, <3>3, <3>4
  <2> QED BY <2>2, <2>3
<1> QED BY <1>6, <1>7

\* One number is added to an array.
LEMMA PushOne ==
    ASSUME NEW a, Typed(a, Nat), NEW x \in Nat, NEW h \in Seq(Nat)
    PROVE  /\ a.items \in Seq(Nat) /\ Append(a.items, x) = a.items \o <<x>>
           /\ array_push_back(a, x, h).arr.items = a.items \o <<x>>
           /\ Typed(array_push_back(a, x, h).arr, Nat) /\ array_push_back(a, x, h).heap \in Seq(Nat)
<1>1. a.items \in Seq(Nat)
  BY DEF Typed
<1>2. Append(a.items, x) = a.items \o <<x>>
  BY <1>1, AppendIsConcat
<1> QED BY <1>1, <1>2, PushTyped, ZenonT(60)

\* Two numbers are added to an array.
LEMMA PushTwo ==
    ASSUME NEW a, Typed(a, Nat), NEW x \in Nat, NEW y \in Nat, NEW h \in Seq(Nat)
    PROVE  array_push_back(array_push_back(a, x, h).arr, y, array_push_back(a, x, h).heap).arr.items
               = a.items \o <<x, y>>
<1>0. PICK f : f = array_push_back(a, x, h)
  OBVIOUS
<1>1. Typed(f.arr, Nat) /\ f.heap \in Seq(Nat) /\ f.arr.items = a.items \o <<x>>
      /\ a.items \in Seq(Nat)
  BY <1>0, PushOne
<1>2. array_push_back(f.arr, y, f.heap).arr.items = (a.items \o <<x>>) \o <<y>>
  <2>1. PICK g, k : g = f.arr /\ k = f.heap
    OBVIOUS
  <2>2. array_push_back(g, y, k).arr.items = g.items \o <<y>>
    BY <1>1, <2>1, PushOne
  <2> QED BY <1>1, <2>1, <2>2
<1>3. (a.items \o <<x>>) \o <<y>> = a.items \o (<<x>> \o <<y>>)
  <2>1. <<x>> \in Seq(Nat) /\ <<y>> \in Seq(Nat)
    OBVIOUS
  <2> QED BY <1>1, <2>1, ConcatAssociative, SMTT(40)
<1>4. <<x>> \o <<y>> = <<x, y>>
  <2>1. PICK u, v : u = <<x>> \o <<y>> /\ v = <<x, y>>
    OBVIOUS
  <2>2. <<x>> \in Seq(Nat) /\ <<y>> \in Seq(Nat) /\ v \in Seq(Nat) /\ Len(v) = 2
        /\ v[1] = x /\ v[2] = y /\ Len(<<x>>) = 1 /\ Len(<<y>>) = 1
    BY <2>1
  <2>3. u \in Seq(Nat) /\ Len(u) = 2 /\ u[1] = x /\ u[2] = y
    BY <2>1, <2>2, ConcatProperties
  <2>4. \A n \in 1..Len(u) : u[n] = v[n]
    BY <2>2, <2>3
  <2>5. u = v
    BY <2>2, <2>3, <2>4, SeqEqual
  <2> QED BY <2>1, <2>5
<1> QED BY <1>0, <1>2, <1>3, <1>4

\* The two halves of a code point.
LEMMA Surrogates ==
    ASSUME NEW c \in Nat, c > 65535, c <= MAX_CODE_POINT
    PROVE  /\ (((c - 65536) \div 1024) % 1024) + 55296 = 55296 + ((c - 65536) \div 1024)
           /\ ((c - 65536) % 1024) + 56320 = 56320 + ((c - 65536) % 1024)
<1>1. PICK b \in Nat : b = c - 65536 /\ b <= 1048575
  <2>1. c - 65536 \in Nat /\ c - 65536 <= 1048575
    BY SMT DEF MAX_CODE_POINT
  <2> QED BY <2>1, SMT
<1>2. b \div 1024 \in Nat /\ b \div 1024 <= 1023 /\ b % 1024 \in Nat
  BY <1>1, SMT
<1>3. PICK hi \in Nat, lo \in Nat : hi = b \div 1024 /\ lo = b % 1024 /\ hi <= 1023
  BY <1>2, SMT
<1>4. hi % 1024 = hi
  BY <1>3, SMT
<1> QED BY <1>1, <1>3, <1>4, SMT

\* The two halves are numbers.
LEMMA HalvesAreNat ==
    ASSUME NEW c \in Nat, c > 65535
    PROVE  55296 + ((c - 65536) \div 1024) \in Nat /\ 56320 + ((c - 65536) % 1024) \in Nat
<1>1. PICK b \in Nat : b = c - 65536
  BY SMT
<1>2. b \div 1024 \in Nat /\ b % 1024 \in Nat
  BY <1>1, SMT
<1> QED BY <1>1, <1>2, SMT

\* The units that are added to the array of a literal.
LEMMA EncodeIs ==
    ASSUME NEW a, Typed(a, Nat), NEW c \in Nat, NEW h \in Seq(Nat)
    PROVE  /\ encode_utf32(c, a, h).arr.items = a.items \o Units(c, CW_UTF32)
           /\ c <= MAX_CODE_POINT => encode_utf16(c, a, h).arr.items = a.items \o Units(c, CW_UTF16)
           /\ \A w \in {1, 2, 4} : Units(c, w) \in Seq(Nat)
<1>1. array_push_back(a, c, h).arr.items = a.items \o <<c>>
  BY PushOne
<1>5. \A x \in Nat, y \in Nat :
          array_push_back(array_push_back(a, x, h).arr, y, array_push_back(a, x, h).heap).arr.items
              = a.items \o <<x, y>>
  BY PushTwo
<1>2. encode_utf32(c, a, h).arr.items = a.items \o Units(c, CW_UTF32)
  BY <1>1, SMT DEF encode_utf32, Units, CW_UTF32, CW_UTF16
<1>3. ASSUME c <= MAX_CODE_POINT
      PROVE  encode_utf16(c, a, h).arr.items = a.items \o Units(c, CW_UTF16)
  <2>1. CASE c <= 65535
    <3>1. ~ (c > 65535)
      BY <2>1, SMT
    <3> QED BY <1>1, <2>1, <3>1, SMTT(40) DEF encode_utf16, Units
  <2>2. CASE c > 65535
    <3>1. PICK x \in Nat, y \in Nat :
              x = 55296 + ((c - 65536) \div 1024) /\ y = 56320 + ((c - 65536) % 1024)
      BY <2>2, HalvesAreNat, SMT
    <3>2. (((c - 65536) \div 1024) % 1024) + 55296 = x /\ ((c - 65536) % 1024) + 56320 = y
      BY <1>3, <2>2, <3>1, Surrogates, SMT
    <3>3. PICK f : f = array_push_back(a, x, h)
      BY SMT
    <3>4. encode_utf16(c, a, h) = array_push_back(f.arr, y, f.heap)
      <4>1. ~ (c <= 65535)
        BY <2>2, SMT
      <4> QED BY <3>2, <3>3, <4>1, SMT DEF encode_utf16
    <3>5. array_push_back(f.arr, y, f.heap).arr.items = a.items \o <<x, y>>
      <4>1. x \in Nat /\ y \in Nat
        BY <3>1, SMT
      <4>2. array_push_back(array_push_back(a, x, h).arr, y, array_push_back(a, x, h).heap).arr.items
                = a.items \o <<x, y>>
        BY <1>5, <4>1, SMT
      <4> QED BY <3>3, <4>2, SMT
    <3>6. Units(c, CW_UTF16) = <<x, y>>
      BY <2>2, <3>1, SMT DEF Units
    <3> QED BY <3>4, <3>5, <3>6, SMT
  <2>3. c <= 65535 \/ c > 65535
    BY SMT
  <2> QED BY <2>1, <2>2, <2>3, SMT
<1>4. ASSUME NEW w \in {1, 2, 4} PROVE Units(c, w) \in Seq(Nat)
  <2>1. \A x \in Nat, y \in Nat : <<x>> \in Seq(Nat) /\ <<x, y>> \in Seq(Nat)
    OBVIOUS
  <2>2. CASE c > 65535
    <3>1. PICK x \in Nat, y \in Nat :
              x = 55296 + ((c - 65536) \div 1024) /\ y = 56320 + ((c - 65536) % 1024)
      BY <2>2, HalvesAreNat, SMT
    <3> QED BY <2>1, <3>1, SMT DEF Units
  <2>3. CASE ~ (c > 65535)
    BY <2>1, <2>3, SMT DEF Units
  <2> QED BY <2>2, <2>3, SMT
<1> QED BY <1>2, <1>3, <1>4

-----------------------------------------------------------------------------
(* Bodies of literals.                                                     *)

\* What holds of a place whenever it holds of all places behind it holds everywhere.
LEMMA FromTheEnd ==
    ASSUME NEW p \in Nat, NEW q \in Nat, p <= q, NEW V, NEW f,
           \A k \in p..q : (\A m \in (k + 1)..q : f[m] \in V) => f[k] \in V
    PROVE  \A k \in p..q : f[k] \in V
<1>1. PICK G : G = {j \in 0..(q - p) : \A k \in (q - j)..q : f[k] \in V}
  OBVIOUS
<1>2. \A k \in p..q : (\A m \in (k + 1)..q : f[m] \in V) => f[k] \in V
  OBVIOUS
<1>3. 0 \in G
  <2>1. q \in p..q /\ \A m \in (q + 1)..q : f[m] \in V
    OBVIOUS
  <2>2. f[q] \in V
    BY <1>2, <2>1
  <2>3. \A k \in (q - 0)..q : k = q
    OBVIOUS
  <2> QED BY <1>1, <2>2, <2>3
<1>4. ASSUME NEW j \in 0..(q - p), j \in G, j < q - p PROVE j + 1 \in G
  <2>1. PICK k : k = q - (j + 1)
    OBVIOUS
  <2>2. k \in p..q /\ k + 1 = q - j /\ j + 1 \in 0..(q - p) /\ k..q = {k} \cup (k + 1)..q
    BY <1>4, <2>1
  <2>3. \A m \in (k + 1)..q : f[m] \in V
    BY <1>1, <1>4, <2>2
  <2>4. f[k] \in V
    BY <1>2, <2>2, <2>3
  <2>5. \A m \in k..q : f[m] \in V
    BY <2>2, <2>3, <2>4
  <2> QED BY <1>1, <2>1, <2>2, <2>5
<1>5. \A j \in 0..(q - p) : j \in G
  <2>1. 0 \in Nat /\ q - p \in Nat /\ \A j \in 0..(q - p) : j \in G /\ j < q - p => j + 1 \in G
    BY <1>4
  <2> QED BY <1>3, <2>1, PassedOn
<1> SUFFICES ASSUME NEW k \in p..q PROVE f[k] \in V
  OBVIOUS
<1>6. q - p \in G /\ q - (q - p) = p
  BY <1>5
<1> QED BY <1>1, <1>6

\* The element at p of a literal, its units, and whether there is one.
Elt(p, w) == IF text[p] = BACKSLASH THEN EscapeAt(p, w) ELSE CharAt(p, w)
UnitsAt(p, w) == IF text[p] = BACKSLASH THEN <<Elt(p, w).val>> ELSE Units(Elt(p, w).val, w)
Fails(p, w) == text[p] \in {NUL, NL} \/ Elt(p, w) = Malformed

\* The rest of a literal, its characters and its units.
Rests == [end : Nat, vals : Seq(Nat), units : Seq(Nat)]

\* A character in front of a rest.
Joined(p, w, x) == Literal(x.end, <<Elt(p, w).val>> \o x.vals, UnitsAt(p, w) \o x.units)

\* What the rest from p on is, by those behind it.
BodyAt(b, p, quote, w) ==
    IF text[p] = quote THEN Literal(p + 1, <<>>, <<>>)
    ELSE IF Fails(p, w) THEN Literal(0, <<>>, <<>>)
    ELSE Joined(p, w, b[Elt(p, w).end])

\* b holds the rests of a literal from all places on.
Unrolled(b, start, quote, w) ==
    \A p \in start..Len(text) : b[p] \in Rests /\ b[p] = BodyAt(b, p, quote, w)

\* An element ends behind where it begins.
LEMMA EltFacts ==
    ASSUME Given, NEW p \in Positions, NEW w \in {1, 2, 4}, ~Fails(p, w)
    PROVE  /\ Elt(p, w).end \in (p + 1)..Len(text) /\ Elt(p, w).end \in Positions
           /\ Elt(p, w).val \in Nat /\ <<Elt(p, w).val>> \in Seq(Nat)
           /\ UnitsAt(p, w) \in Seq(Nat)
<1>1. text[p] # NUL /\ Elt(p, w) # Malformed
  BY DEF Fails
<1>2. p \in Nat /\ p \in 1..(Len(text) - 1) /\ text[p] \in Nat /\ Len(text) \in Nat
  <2>1. p \in Nat /\ Len(text) \in Nat
    BY TextFacts DEF Positions
  <2>2. p # Len(text)
    BY <1>1, TextFacts
  <2>3. text[p] \in 0..255
    BY TextFacts
  <2>4. p \in 1..Len(text)
    BY DEF Positions
  <2>5. p \in 1..(Len(text) - 1)
    <3>1. PICK n \in Nat : n = Len(text)
      BY <2>1
    <3> QED BY <2>2, <2>4, <3>1
  <2>6. text[p] \in Nat
    BY <2>3
  <2> QED BY <2>1, <2>5, <2>6
<1>3. Elt(p, w).end \in (p + 1)..Len(text) /\ Elt(p, w).val \in Nat
  <2>1. CASE text[p] = BACKSLASH
    <3>1. Elt(p, w) = EscapeAt(p, w)
      BY <2>1 DEF Elt
    <3>2. EscapeRight(p, w)
      BY <2>1, EscapesRight
    <3>3. EscapeAt(p, w).end \in (p + 2)..Len(text) /\ EscapeAt(p, w).val \in Nat
      BY <1>1, <3>1, <3>2 DEF EscapeRight
    <3> QED BY <1>2, <3>1, <3>3
  <2>2. CASE text[p] # BACKSLASH /\ w = 1
    <3>1. Elt(p, w) = Element(p + 1, text[p])
      BY <2>2, WidthValues DEF Elt, CharAt
    <3>2. PICK e, x : e = p + 1 /\ x = Elt(p, w)
      OBVIOUS
    <3>3. e \in Nat \ {0} /\ e \in (p + 1)..Len(text)
      BY <1>2, <3>2
    <3>4. x.end = e /\ x.val = text[p]
      BY <3>1, <3>2, <3>3, ElementFacts
    <3> QED BY <1>2, <3>2, <3>3, <3>4
  <2>3. CASE text[p] # BACKSLASH /\ w \in {2, 4}
    <3>1. Elt(p, w) = CharAt(p, w)
      BY <2>3 DEF Elt
    <3> QED BY <1>1, <2>3, <3>1, CharRight
  <2> QED BY <2>1, <2>2, <2>3
<1>4. PICK v \in Nat : v = Elt(p, w).val
  BY <1>3
<1>5. <<v>> \in Seq(Nat)
  OBVIOUS
<1>6. Units(v, w) \in Seq(Nat)
  <2>1. PICK h : h = <<v>>
    OBVIOUS
  <2>2. PICK a : a = array_init(0)
    OBVIOUS
  <2>3. 0 \in Nat /\ Typed(a, Nat)
    BY <2>2, InitTyped
  <2> QED BY <1>5, <2>3, EncodeIs
<1>7. UnitsAt(p, w) \in Seq(Nat)
  BY <1>4, <1>5, <1>6 DEF UnitsAt
<1>8. Elt(p, w).end \in Positions
  BY <1>2, <1>3 DEF Positions
<1> QED BY <1>3, <1>4, <1>5, <1>7, <1>8

\* The parts of a literal.
LEMMA LiteralFacts ==
    ASSUME NEW end \in Nat, NEW vals \in Seq(Nat), NEW units \in Seq(Nat), NEW x,
           x = Literal(end, vals, units)
    PROVE  x \in Rests /\ x.end = end /\ x.vals = vals /\ x.units = units
  BY DEF Literal, Rests

\* A character in front of a rest makes one.
LEMMA JoinedFacts ==
    ASSUME Given, NEW p \in Positions, NEW w \in {1, 2, 4}, ~Fails(p, w), NEW x \in Rests,
           NEW y, y = Joined(p, w, x)
    PROVE  /\ y \in Rests /\ y.end = x.end /\ y.vals = <<Elt(p, w).val>> \o x.vals
           /\ y.units = UnitsAt(p, w) \o x.units
           /\ x.vals \in Seq(Nat) /\ x.units \in Seq(Nat)
<1>1. x.end \in Nat /\ x.vals \in Seq(Nat) /\ x.units \in Seq(Nat)
  BY DEF Rests
<1>2. PICK a, b : a = <<Elt(p, w).val>> /\ b = UnitsAt(p, w)
  OBVIOUS
<1>3. a \in Seq(Nat) /\ b \in Seq(Nat)
  BY <1>2, EltFacts
<1>4. PICK v, u : v = a \o x.vals /\ u = b \o x.units
  OBVIOUS
<1>5. v \in Seq(Nat) /\ u \in Seq(Nat)
  BY <1>1, <1>3, <1>4, ConcatProperties
<1>6. PICK e \in Nat : e = x.end
  BY <1>1
<1>7. y = Literal(e, v, u)
  BY <1>2, <1>4, <1>6 DEF Joined
<1>8. y \in Rests /\ y.end = e /\ y.vals = v /\ y.units = u
  BY <1>5, <1>7, LiteralFacts
<1> QED BY <1>1, <1>2, <1>4, <1>6, <1>8

\* Rests without characters, and with one more.
LEMMA RestsTyped ==
    /\ \A e \in Nat : Literal(e, <<>>, <<>>) \in Rests
    /\ Given => \A p \in Positions, w \in {1, 2, 4} :
                   ~Fails(p, w) => \A x \in Rests : Joined(p, w, x) \in Rests
<1>1. \A e \in Nat : Literal(e, <<>>, <<>>) \in Rests
  <2> SUFFICES ASSUME NEW e \in Nat PROVE Literal(e, <<>>, <<>>) \in Rests
    OBVIOUS
  <2>0. <<>> \in Seq(Nat)
    OBVIOUS
  <2>1. PICK none \in Seq(Nat) : none = <<>>
    BY <2>0, Zenon
  <2>2. Literal(e, none, none) \in Rests
    BY LiteralFacts
  <2> QED BY <2>1, <2>2
<1>2. ASSUME Given, NEW p \in Positions, NEW w \in {1, 2, 4}, ~Fails(p, w), NEW x \in Rests
      PROVE  Joined(p, w, x) \in Rests
  <2>1. PICK y : y = Joined(p, w, x)
    OBVIOUS
  <2> QED BY <1>2, <2>1, JoinedFacts
<1> QED BY <1>1, <1>2

\* The body of a literal is the rest from its start on.
LEMMA BodyIs ==
    ASSUME Given, NEW start \in Positions, NEW quote, NEW w \in {1, 2, 4}
    PROVE  \E b : Body(start, quote, w) = b[start] /\ Unrolled(b, start, quote, w)
<1>1. PICK n : n = Len(text)
  OBVIOUS
<1>2. n \in Nat /\ start \in Nat /\ start <= n /\ \A k \in start..n : k \in Positions
  BY <1>1, TextFacts DEF Positions
<1>3. PICK going : going = {k \in start..n : text[k] # quote /\ ~Fails(k, w)}
  OBVIOUS
<1>4. PICK jump : jump = [k \in start..n |-> IF k \in going THEN Elt(k, w).end ELSE 0]
  OBVIOUS
<1>5. \A k \in start..n : /\ jump[k] \in (k + 1)..n <=> k \in going
                          /\ k \in going => jump[k] = Elt(k, w).end
  <2> SUFFICES ASSUME NEW k \in start..n
               PROVE  /\ jump[k] \in (k + 1)..n <=> k \in going
                      /\ k \in going => jump[k] = Elt(k, w).end
    OBVIOUS
  <2>1. k \in Positions /\ k \in Nat
    BY <1>2
  <2>2. CASE k \in going
    <3>1. jump[k] = Elt(k, w).end
      BY <1>4, <2>2
    <3>2. ~Fails(k, w)
      BY <1>3, <2>2
    <3>3. Elt(k, w).end \in (k + 1)..n
      BY <1>1, <2>1, <3>2, EltFacts
    <3> QED BY <2>2, <3>1, <3>3
  <2>3. CASE k \notin going
    <3>1. jump[k] = 0
      BY <1>4, <2>3
    <3> QED BY <2>1, <2>3, <3>1
  <2> QED BY <2>2, <2>3
<1>6. PICK base : base = [k \in start..n |-> IF text[k] = quote THEN Literal(k + 1, <<>>, <<>>)
                                             ELSE Literal(0, <<>>, <<>>)]
  OBVIOUS
<1>7. \A k \in start..n : base[k] \in Rests
  <2> SUFFICES ASSUME NEW k \in start..n PROVE base[k] \in Rests
    OBVIOUS
  <2>1. k + 1 \in Nat /\ 0 \in Nat
    BY <1>2
  <2> QED BY <1>6, <2>1, RestsTyped
<1>8. PICK step : step = [k \in start..n |-> [x \in Rests |-> Joined(k, w, x)]]
  OBVIOUS
<1>9. \A k \in start..n : jump[k] \in (k + 1)..n => \A x \in Rests : step[k][x] \in Rests
  <2> SUFFICES ASSUME NEW k \in start..n, jump[k] \in (k + 1)..n, NEW x \in Rests
               PROVE  step[k][x] \in Rests
    OBVIOUS
  <2>1. k \in Positions /\ ~Fails(k, w)
    BY <1>2, <1>3, <1>5
  <2>2. step[k][x] = Joined(k, w, x)
    BY <1>8
  <2> QED BY <2>1, <2>2, RestsTyped
<1>10. ASSUME NEW f, \A k \in start..n : k \in going => f[Elt(k, w).end] \in Rests
       PROVE  Backward(f, start, n, base, jump, step)
                  <=> \A k \in start..n : f[k] = BodyAt(f, k, quote, w)
  <2>1. ASSUME NEW k \in start..n
        PROVE  (IF jump[k] \in (k + 1)..n THEN step[k][f[jump[k]]] ELSE base[k])
                   = BodyAt(f, k, quote, w)
    <3>1. CASE k \in going
      <4>1. jump[k] \in (k + 1)..n /\ jump[k] = Elt(k, w).end
        BY <1>5, <3>1
      <4>2. PICK x \in Rests : x = f[Elt(k, w).end]
        BY <1>10, <3>1
      <4>3. step[k][x] = Joined(k, w, x)
        BY <1>8, <4>2
      <4>4. BodyAt(f, k, quote, w) = Joined(k, w, x)
        BY <1>3, <3>1, <4>2 DEF BodyAt
      <4> QED BY <4>1, <4>2, <4>3, <4>4
    <3>2. CASE k \notin going
      <4>1. jump[k] \notin (k + 1)..n
        BY <1>5, <3>2
      <4>2. base[k] = BodyAt(f, k, quote, w)
        BY <1>3, <1>6, <3>2 DEF BodyAt
      <4> QED BY <4>1, <4>2
    <3> QED BY <3>1, <3>2
  <2> QED BY <2>1 DEF Backward
<1>11. \A k \in start..n : k \in going => Elt(k, w).end \in start..n
  <2> SUFFICES ASSUME NEW k \in start..n, k \in going PROVE Elt(k, w).end \in start..n
    OBVIOUS
  <2>1. jump[k] \in (k + 1)..n /\ jump[k] = Elt(k, w).end
    BY <1>5
  <2> QED BY <1>2, <2>1
<1>12. PICK f \in [start..n -> Rests] : Backward(f, start, n, base, jump, step)
  <2>1. PICK V : V = Rests
    OBVIOUS
  <2> QED BY <1>2, <1>7, <1>9, <2>1, BackwardDefined
<1>13. f = [k \in start..n |-> BodyAt(f, k, quote, w)]
  <2>1. \A k \in start..n : f[k] = BodyAt(f, k, quote, w)
    BY <1>10, <1>11, <1>12
  <2> QED BY <1>12, <2>1
<1>14. PICK b : b = CHOOSE u : u = [k \in start..Len(text) |-> BodyAt(u, k, quote, w)]
  OBVIOUS
<1>15. b = [k \in start..n |-> BodyAt(b, k, quote, w)]
  BY <1>1, <1>13, <1>14
<1>16. Body(start, quote, w) = b[start]
  BY <1>14 DEF Body, BodyAt, Joined, Elt, UnitsAt, Fails
<1>17. \A k \in start..n : b[k] \in Rests
  <2>1. \A k \in start..n : b[k] = IF k \in going THEN Joined(k, w, b[Elt(k, w).end]) ELSE base[k]
    <3> SUFFICES ASSUME NEW k \in start..n
                 PROVE  b[k] = IF k \in going THEN Joined(k, w, b[Elt(k, w).end]) ELSE base[k]
      OBVIOUS
    <3>1. b[k] = BodyAt(b, k, quote, w)
      BY <1>15
    <3>2. CASE k \in going
      BY <1>3, <3>1, <3>2 DEF BodyAt
    <3>3. CASE k \notin going
      BY <1>3, <1>6, <3>1, <3>3 DEF BodyAt
    <3> QED BY <3>2, <3>3
  <2>2. ASSUME NEW k \in start..n, \A m \in (k + 1)..n : b[m] \in Rests PROVE b[k] \in Rests
    <3>1. CASE k \in going
      <4>1. PICK x \in Rests : x = b[Elt(k, w).end]
        BY <1>5, <2>2, <3>1
      <4>2. b[k] = Joined(k, w, x) /\ k \in Positions /\ ~Fails(k, w)
        BY <1>2, <1>3, <2>1, <3>1, <4>1
      <4> QED BY <4>1, <4>2, RestsTyped
    <3>2. CASE k \notin going
      BY <1>7, <2>1, <3>2
    <3> QED BY <3>1, <3>2
  <2> QED BY <1>2, <2>2, FromTheEnd
<1>18. Unrolled(b, start, quote, w)
  BY <1>1, <1>15, <1>17 DEF Unrolled
<1> QED BY <1>16, <1>18

-----------------------------------------------------------------------------
(* What depends on the text alone stays.                                   *)

\* The body of a literal.
LEMMA BodySame ==
    ASSUME text' = text, NEW p, NEW quote, NEW w
    PROVE  Body(p, quote, w)' = Body(p, quote, w)
  BY DEF Body, EscapeAt, CharAt, Skip, Places, Utf8At, IsIn, CodePoint

\* The literals at a place, and whether one begins there.
LEMMA LiteralsSame ==
    ASSUME text' = text, NEW p
    PROVE  /\ CharLiterals(p)' = CharLiterals(p) /\ StringLiterals(p)' = StringLiterals(p)
           /\ BeginsLiteral(p)' <=> BeginsLiteral(p)
<1>1. \A q, quote, w : Body(q, quote, w)' = Body(q, quote, w)
  BY BodySame
<1>2. CharLiterals(p)' = CharLiterals(p)
  BY <1>1 DEF CharLiterals, Prefixes, matches
<1>3. StringLiterals(p)' = StringLiterals(p)
  BY <1>1 DEF StringLiterals, Prefixes, matches
<1>4. BeginsLiteral(p)' <=> BeginsLiteral(p)
  BY DEF BeginsLiteral, Prefixes, matches
<1> QED BY <1>2, <1>3, <1>4

\* Constants.
LEMMA ConstantsSame ==
    ASSUME text' = text, NEW p
    PROVE  /\ \A q : IntegerConstant(p, q)' <=> IntegerConstant(p, q)
           /\ \A q : FloatConstant(p, q)' <=> FloatConstant(p, q)
           /\ PpNumberEnd(p)' = PpNumberEnd(p)
<1>1. \A q : IntegerConstant(p, q)' <=> IntegerConstant(p, q)
  BY DEF IntegerConstant, Integer, Base, HexPrefix, DigitSeq, IsIn, Spelling
<1>2. \A q : Float(p, q)' <=> Float(p, q)
  BY DEF Float, Fraction, Exponent, HexPrefix, DigitSeq, IsIn
<1>3. \A q : FloatConstant(p, q)' <=> FloatConstant(p, q)
  BY <1>2 DEF FloatConstant
<1>4. PpNumberEnd(p)' = PpNumberEnd(p)
  BY DEF PpNumberEnd
<1> QED BY <1>1, <1>3, <1>4

\* Tokens.
LEMMA TokenSame ==
    ASSUME text' = text, NEW p, NEW q, NEW type \in TokenTypes
    PROVE  Lexeme(type, p, q)' <=> Lexeme(type, p, q)
<1>1. (IntegerConstant(p, q)' <=> IntegerConstant(p, q)) /\ (FloatConstant(p, q)' <=> FloatConstant(p, q))
  BY ConstantsSame, Zenon
<1>2. \A l : l \in CharLiterals(p)' <=> l \in CharLiterals(p)
  BY LiteralsSame, Zenon
<1>3. \A l : l \in StringLiterals(p)' <=> l \in StringLiterals(p)
  BY LiteralsSame, Zenon
<1>4. (\E l \in CharLiterals(p)' : l.end = q) <=> \E l \in CharLiterals(p) : l.end = q
  BY <1>2, Zenon
<1>5. (\E l \in StringLiterals(p)' : l.end = q) <=> \E l \in StringLiterals(p) : l.end = q
  BY <1>3, Zenon
<1>6. Word(p, q)' <=> Word(p, q)
  BY Zenon DEF Word, DigitSeq, IsIn
<1>7. Spelling(p, q)' = Spelling(p, q)
  BY Zenon DEF Spelling
<1>8. (Spelling(p, q)' \in KEYWORDS <=> Spelling(p, q) \in KEYWORDS)
      /\ (Spelling(p, q)' \in Punctuators <=> Spelling(p, q) \in Punctuators)
  BY <1>7, Zenon
<1>9. CASE type = "TK_KEYWRD"
  BY <1>6, <1>8, <1>9, Zenon DEF Lexeme
<1>10. CASE type = "TK_IDENT"
  BY <1>6, <1>8, <1>10, Zenon DEF Lexeme
<1>11. CASE type = "TK_ICONST"
  BY <1>1, <1>4, <1>11, Zenon DEF Lexeme
<1>12. CASE type = "TK_FCONST"
  BY <1>1, <1>12, Zenon DEF Lexeme
<1>13. CASE type = "TK_STRLIT"
  BY <1>5, <1>13, Zenon DEF Lexeme
<1>14. CASE type = "TK_PUNCT"
  BY <1>8, <1>14, Zenon DEF Lexeme
<1> QED BY <1>9, <1>10, <1>11, <1>12, <1>13, <1>14, Zenon DEF TokenTypes

\* A token that is right.
LEMMA RightSame ==
    ASSUME text' = text, NEW t, t.token_type \in TokenTypes
    PROVE  Right(t)' <=> Right(t)
<1>1. \A p, q : IsToken(p, q)' <=> IsToken(p, q)
  BY TokenSame, Zenon DEF IsToken
<1>2. \A p, q : Lexeme(t.token_type, p, q)' <=> Lexeme(t.token_type, p, q)
  BY TokenSame, Zenon
<1>3. ValueIsRight(t)' <=> ValueIsRight(t)
  <2>1. \A l : l \in CharLiterals(t.loc)' <=> l \in CharLiterals(t.loc)
    BY LiteralsSame, Zenon
  <2>2. \A l : l \in StringLiterals(t.loc)' <=> l \in StringLiterals(t.loc)
    BY LiteralsSame, Zenon
  <2>3. \A p, q : IntegerIs(p, q, t.int_val)' <=> IntegerIs(p, q, t.int_val)
    <3>1. \A p, k : (Integer(p, k)' <=> Integer(p, k)) /\ Base(p, k)' = Base(p, k)
      <4> SUFFICES ASSUME NEW p, NEW k
                   PROVE  (Integer(p, k)' <=> Integer(p, k)) /\ Base(p, k)' = Base(p, k)
        OBVIOUS
      <4>1. Base(p, k)' = Base(p, k)
        BY DEF Base, HexPrefix
      <4>2. \A j, class : DigitSeq(j, k, class)' <=> DigitSeq(j, k, class)
        BY DEF DigitSeq, IsIn
      <4>3. Integer(p, k)' <=> Integer(p, k)
        BY DEF Integer, Base, HexPrefix, DigitSeq, IsIn
      <4> QED BY <4>1, <4>3
    <3>2. \A k, q : Spelling(k, q)' = Spelling(k, q)
      BY Zenon DEF Spelling
    <3>3. \A base, p, k : Places(base, p, k)' = Places(base, p, k)
      BY DEF Places
    <3>4. \A k, q : Spelling(k, q)' \in IntegerSuffixes <=> Spelling(k, q) \in IntegerSuffixes
      BY <3>2
    <3> QED BY <3>1, <3>3, <3>4 DEF IntegerIs
  <2> QED BY <2>1, <2>2, <2>3, Zenon DEF ValueIsRight, IntegerIs
<1> QED BY <1>1, <1>2, <1>3, Zenon DEF Right

\* A place that is refused.
LEMMA RefusedSame ==
    ASSUME text' = text, NEW p
    PROVE  Refused(p)' <=> Refused(p)
<1>1. \A q : IsToken(p, q)' <=> IsToken(p, q)
  BY TokenSame, Zenon DEF IsToken
<1> QED BY <1>1, LiteralsSame, ConstantsSame, Zenon DEF Refused

\* The rests of literals.
LEMMA UnrolledSame ==
    ASSUME text' = text, NEW b, NEW start, NEW quote, NEW w
    PROVE  Unrolled(b, start, quote, w)' <=> Unrolled(b, start, quote, w)
  BY DEF Unrolled, BodyAt, Joined, Elt, UnitsAt, Fails,
         EscapeAt, CharAt, Skip, Places, Utf8At, IsIn, CodePoint

\* What an ordinary text is.
LEMMA OrdinarySame ==
    ASSUME text' = text
    PROVE  Ordinary' <=> Ordinary
  BY DEF Ordinary, Utf8At, IsIn, CodePoint

\* The rests of a literal are the same wherever one begins to read.
LEMMA RestsAgree ==
    ASSUME Given, NEW a \in Positions, NEW e \in Positions, a <= e, NEW quote, NEW w \in {1, 2, 4},
           NEW b, NEW c, Unrolled(b, a, quote, w), Unrolled(c, e, quote, w)
    PROVE  b[e] = c[e]
<1> DEFINE V == {1}
           f == [k \in e..Len(text) |-> IF b[k] = c[k] THEN 1 ELSE 0]
<1>1. Len(text) \in Nat /\ a \in Nat /\ e \in Nat /\ e <= Len(text)
  BY TextFacts DEF Positions
<1>2. ASSUME NEW k \in e..Len(text), \A m \in (k + 1)..Len(text) : f[m] \in V
      PROVE  f[k] \in V
  <2>1. b[k] = BodyAt(b, k, quote, w) /\ c[k] = BodyAt(c, k, quote, w)
    BY <1>1 DEF Unrolled
  <2>2. CASE Fails(k, w) \/ text[k] = quote
    <3>1. b[k] = c[k]
      BY <2>1, <2>2 DEF BodyAt
    <3>2. QED
      BY <3>1
  <2>3. CASE ~Fails(k, w) /\ text[k] # quote
    <3>0. k \in Positions
      BY <1>1 DEF Positions
    <3>1. Elt(k, w).end \in (k + 1)..Len(text)
      BY <2>3, <3>0, EltFacts
    <3>2. PICK m : m = Elt(k, w).end
      OBVIOUS
    <3>3. f[m] = 1
      <4>1. m \in (k + 1)..Len(text)
        BY <3>1, <3>2
      <4>2. f[m] \in V
        BY <1>2, <4>1
      <4> HIDE DEF f
      <4>3. QED
        BY <4>2
    <3>4. m \in e..Len(text)
      BY <1>1, <3>1, <3>2
    <3>5. b[m] = c[m]
      BY <3>3, <3>4
    <3>6. b[k] = c[k]
      BY <2>1, <2>3, <3>2, <3>5 DEF BodyAt
    <3>7. QED
      BY <3>6
  <2>4. QED
    BY <2>2, <2>3
<1> HIDE DEF V, f
<1>3. \A k \in e..Len(text) : f[k] \in V
  BY <1>1, <1>2, FromTheEnd
<1>4. e \in e..Len(text)
  BY <1>1
<1>5. f[e] = 1
  BY <1>3, <1>4 DEF V
<1>6. QED
  BY <1>4, <1>5 DEF f

\* The body of a literal, by its first character.
LEMMA BodyStep ==
    ASSUME Given, NEW p \in Positions, NEW quote, NEW w \in {1, 2, 4}
    PROVE  /\ Body(p, quote, w) \in Rests
           /\ text[p] = quote => Body(p, quote, w) = Literal(p + 1, <<>>, <<>>)
           /\ text[p] # quote /\ Fails(p, w) => Body(p, quote, w) = Literal(0, <<>>, <<>>)
           /\ text[p] # quote /\ ~Fails(p, w) =>
                  Body(p, quote, w) = Joined(p, w, Body(Elt(p, w).end, quote, w))
<1>1. PICK b : Body(p, quote, w) = b[p] /\ Unrolled(b, p, quote, w)
  BY BodyIs
<1>2. p \in p..Len(text)
  BY TextFacts DEF Positions
<1>3. b[p] \in Rests /\ b[p] = BodyAt(b, p, quote, w)
  BY <1>1, <1>2 DEF Unrolled
<1>4. ASSUME text[p] # quote, ~Fails(p, w)
      PROVE  Body(p, quote, w) = Joined(p, w, Body(Elt(p, w).end, quote, w))
  <2>1. Elt(p, w).end \in Positions /\ p <= Elt(p, w).end
    BY <1>4, EltFacts, TextFacts DEF Positions
  <2>2. PICK c : Body(Elt(p, w).end, quote, w) = c[Elt(p, w).end] /\ Unrolled(c, Elt(p, w).end, quote, w)
    BY <2>1, BodyIs
  <2>3. b[Elt(p, w).end] = c[Elt(p, w).end]
    BY <1>1, <2>1, <2>2, RestsAgree
  <2>4. b[p] = Joined(p, w, b[Elt(p, w).end])
    BY <1>3, <1>4 DEF BodyAt
  <2>5. QED
    BY <1>1, <2>2, <2>3, <2>4
<1>5. QED
  BY <1>1, <1>3, <1>4 DEF BodyAt

-----------------------------------------------------------------------------
(* What lex has done of its text is right.                                 *)

\* A token that is C's.
Fine(t) == t.token_type \in TokenTypes /\ Right(t)

\* Nothing but white space from a to b.
Spaced(a, b) == a <= b /\ IsIn(a, b, isspace)

\* The first n tokens are C's, with white space between them and up to p.
EndOf(toks, k) == IF k = 0 THEN 1 ELSE toks[k].loc + toks[k].size
Chain(toks, n, p) ==
    /\ \A k \in 1..n : Fine(toks[k]) /\ Spaced(EndOf(toks, k - 1), toks[k].loc)
    /\ Spaced(EndOf(toks, n), p)

\* There is an error among the alerts.
Alarmed(q) == \E k \in 1..Len(q.items) : q.items[k].alert_type = "ALERT_ERR"

\* What was read of a literal, in front of the rest of it that is still to be read, is
\* the literal; an error among the alerts means that there is none.
Reads(q, items, end, vals, rest_end, more) ==
    IF Alarmed(q) THEN end = 0 ELSE end = rest_end /\ vals = items \o more
CharRead(start) ==
    s \in Positions =>
        Reads(queue, arr.items, Body(start, QUOTE, width).end, Body(start, QUOTE, width).vals,
              Body(s, QUOTE, width).end, Body(s, QUOTE, width).vals)
StringRead(start) ==
    s \in Positions =>
        Reads(queue, arr.items, Body(start, DQUOTE, width).end, Body(start, DQUOTE, width).units,
              Body(s, DQUOTE, width).end, Body(s, DQUOTE, width).units)

\* The sub-lexers that were tried have found nothing that is theirs.
NumberTried == Begun(cur) => text[cur] = 48 /\ NoConstant(cur)
CharTried == ~QuoteAt(cur)
StringTried == ~BeginsLiteral(cur)
WordTried == text[cur] \notin Letters

\* A literal as far as it is read.
InChar == text[cur] = QUOTE /\ width = 1 /\ (arr.items = <<>> => text[s] # QUOTE) /\ CharRead(cur + 1)
InWide == QuoteAt(cur) /\ text[cur] # QUOTE /\ width = WidthOf(text[cur])
WideRead == Len(arr.items) = 1 /\ CharRead(cur + 2)
InString == /\ DquoteAt(cur) /\ ~QuoteAt(cur) /\ width = StringWidth(cur)
            /\ StringRead(StringStart(cur))

\* The token in the making is C's, or there is none and an error among the alerts.
Verdict == IF Alarmed(queue) THEN Refused(cur) ELSE Fine(Last) /\ Last.loc = cur
Unreported == \A k \in 1..Len(queue.items) : k < i => queue.items[k].alert_type # "ALERT_ERR"

Tried ==
    /\ pc \in {"char", "string", "identifier", "punctuator"} => NumberTried
    /\ pc = "string" => CharTried
    /\ pc \in {"identifier", "punctuator"} => StringTried
    /\ pc = "punctuator" => WordTried
    /\ pc \in {"loop", "numeric", "char", "string", "identifier", "punctuator", "wide"} =>
           ~Alarmed(queue)

Read ==
    /\ pc = "char_body" => InChar
    /\ pc \in {"wide", "wide_close"} => InWide
    /\ pc = "wide" => text[s] # QUOTE
    /\ pc = "wide_close" => WideRead
    /\ pc = "wide_rest" => Alarmed(queue) /\ Refused(cur)
    /\ pc = "str_body" => InString

Decided ==
    /\ pc = "report" => Verdict /\ Unreported
    /\ pc = "exit" => Refused(cur)
    /\ pc = "returned" => Last.token_type = "TK_EOF" /\ cur = Len(text)

\* The tokens that are finished.
Chained == pc \notin {"destroy", "done"} => Chain(tokens.items, Through(pc, tokens.items), cur)

\* The inductive invariant.
Lexed == Ordinary => Chained /\ Tried /\ Read /\ Decided
-----------------------------------------------------------------------------
\* What is said of the place of the token in the making stays while that does.
LEMMA PlaceSame ==
    ASSUME text' = text, cur' = cur
    PROVE  /\ Refused(cur)' <=> Refused(cur)
           /\ NumberTried' <=> NumberTried
           /\ CharTried' <=> CharTried
           /\ StringTried' <=> StringTried
           /\ WordTried' <=> WordTried
           /\ QuoteAt(cur)' <=> QuoteAt(cur)
           /\ DquoteAt(cur)' <=> DquoteAt(cur)
           /\ StringWidth(cur)' = StringWidth(cur)
           /\ StringStart(cur)' = StringStart(cur)
<1>1. Refused(cur)' <=> Refused(cur)
  <2>1. PICK p : p = cur
    OBVIOUS
  <2>2. Refused(p)' <=> Refused(p)
    BY RefusedSame
  <2>3. QED
    BY <2>1, <2>2
<1>2. NumberTried' <=> NumberTried
  <2>1. PICK p : p = cur
    OBVIOUS
  <2>2. /\ \A q : IntegerConstant(p, q)' <=> IntegerConstant(p, q)
        /\ \A q : FloatConstant(p, q)' <=> FloatConstant(p, q)
        /\ PpNumberEnd(p)' = PpNumberEnd(p)
    BY ConstantsSame
  <2>3. QED
    BY <2>1, <2>2 DEF NumberTried, Begun, NoConstant
<1>3. StringTried' <=> StringTried
  <2>1. PICK p : p = cur
    OBVIOUS
  <2>2. BeginsLiteral(p)' <=> BeginsLiteral(p)
    BY LiteralsSame
  <2>3. QED
    BY <2>1, <2>2 DEF StringTried
<1>4. QED
  BY <1>1, <1>2, <1>3 DEF CharTried, WordTried, QuoteAt, DquoteAt, StringWidth, StringStart, WidthOf

\* An alert more: an error alarms.
LEMMA AlarmPushed ==
    ASSUME IsArray(queue), NEW type, NEW tk, NEW msg, NEW h
    PROVE  Alarmed(alert_queue_push(type, tk, msg, h).queue) <=> Alarmed(queue) \/ type = "ALERT_ERR"
<1> PICK alert : alert = [alert_type |-> type, tok |-> tk, alert_msg |-> Len(h) + 1, msg |-> msg]
  OBVIOUS
<1> PICK g : g = malloc(h)
  OBVIOUS
<1> PICK q : q = array_push_back(queue, alert, g).arr
  OBVIOUS
<1> PICK n : n = Len(queue.items)
  OBVIOUS
<1>1. alert_queue_push(type, tk, msg, h).queue = q
  BY DEF alert_queue_push
<1>2. IsList(queue.items) /\ n \in Nat
  BY DEF IsArray, IsList
<1>3. q.items = Append(queue.items, alert)
  <2>1. CASE at_capacity(queue)
    BY <2>1 DEF array_push_back
  <2>2. CASE ~ at_capacity(queue)
    <3>1. queue = [buf |-> queue.buf, items |-> queue.items, capacity |-> queue.capacity]
      BY DEF IsArray
    <3>2. QED
      BY <2>2, <3>1 DEF array_push_back
  <2>3. QED
    BY <2>1, <2>2
<1>4. /\ Len(q.items) = n + 1 /\ q.items[n + 1] = alert
      /\ \A k \in 1..n : q.items[k] = queue.items[k]
  BY <1>2, <1>3, AppendFacts
<1>5. alert.alert_type = type
  OBVIOUS
<1>6. ASSUME Alarmed(q) PROVE Alarmed(queue) \/ type = "ALERT_ERR"
  <2>1. PICK k \in 1..(n + 1) : q.items[k].alert_type = "ALERT_ERR"
    BY <1>4, <1>6 DEF Alarmed
  <2>2. CASE k = n + 1
    BY <1>4, <1>5, <2>1, <2>2
  <2>3. CASE k \in 1..n
    BY <1>4, <2>1, <2>3 DEF Alarmed
  <2>4. QED
    BY <1>2, <2>2, <2>3
<1>7. ASSUME Alarmed(queue) PROVE Alarmed(q)
  <2>1. PICK k \in 1..n : queue.items[k].alert_type = "ALERT_ERR"
    BY <1>7 DEF Alarmed
  <2>2. k \in 1..(n + 1) /\ q.items[k].alert_type = "ALERT_ERR"
    BY <1>2, <1>4, <2>1, SMTT(40)
  <2>3. QED
    BY <1>4, <2>2 DEF Alarmed
<1>8. ASSUME type = "ALERT_ERR" PROVE Alarmed(q)
  <2>1. n + 1 \in 1..(n + 1) /\ q.items[n + 1].alert_type = "ALERT_ERR"
    BY <1>2, <1>4, <1>5, <1>8
  <2>2. QED
    BY <1>4, <2>1 DEF Alarmed
<1>9. QED
  BY <1>1, <1>6, <1>7, <1>8

\* When the alerts alarm behind a step.
LEMMA Alarms ==
    ASSUME IInv
    PROVE  /\ queue' = queue => (Alarmed(queue)' <=> Alarmed(queue))
           /\ \A msg : Push("ALERT_WARN", msg) => (Alarmed(queue)' <=> Alarmed(queue))
           /\ \A msg : Push("ALERT_ERR", msg) => Alarmed(queue)'
           /\ \A e : Alarmed(alerted(e).queue) <=> Alarmed(queue) \/ IsError(e)
<1>1. IsArray(queue)
  BY DEF IInv, Shaped
<1>2. queue' = queue => (Alarmed(queue)' <=> Alarmed(queue))
  BY DEF Alarmed
<1>3. ASSUME NEW type, NEW msg, Push(type, msg)
      PROVE  Alarmed(queue)' <=> Alarmed(queue) \/ type = "ALERT_ERR"
  <2>1. PICK q : q = alert_queue_push(type, tok, msg, heap).queue
    OBVIOUS
  <2>2. Alarmed(q) <=> Alarmed(queue) \/ type = "ALERT_ERR"
    BY <1>1, <2>1, AlarmPushed
  <2>3. queue' = q
    BY <1>3, <2>1 DEF Push
  <2>4. Alarmed(queue)' <=> Alarmed(q)
    BY <2>3 DEF Alarmed
  <2>5. QED
    BY <2>2, <2>4
<1>4. ASSUME NEW e PROVE Alarmed(alerted(e).queue) <=> Alarmed(queue) \/ IsError(e)
  <2>1. CASE e.type = ""
    <3>1. alerted(e).queue = queue
      BY <2>1 DEF alerted
    <3>2. ~IsError(e)
      BY <2>1 DEF IsError
    <3>3. QED
      BY <3>1, <3>2
  <2>2. CASE e.type # ""
    <3>1. alerted(e).queue = alert_queue_push(e.type, tok, e.msg, heap).queue
      BY <2>2 DEF alerted
    <3>2. QED
      BY <1>1, <3>1, AlarmPushed DEF IsError
  <2>3. QED
    BY <2>1, <2>2
<1>5. "ALERT_WARN" # "ALERT_ERR"
  OBVIOUS
<1>6. QED
  BY <1>2, <1>3, <1>4, <1>5

\* Tokens that are C's stay it.
LEMMA FineSame ==
    ASSUME text' = text, NEW t
    PROVE  Fine(t)' <=> Fine(t)
  BY RightSame DEF Fine, TokenTypes

\* A chain depends on the text and on its tokens.
LEMMA ChainSame ==
    ASSUME text' = text, NEW a, NEW b, NEW n \in Nat, \A k \in 1..n : a[k] = b[k], NEW p,
           Chain(a, n, p)
    PROVE  Chain(b, n, p)'
<1>1. \A t : Fine(t)' <=> Fine(t)
  BY FineSame
<1>2. \A x, y : Spaced(x, y)' <=> Spaced(x, y)
  BY DEF Spaced, IsIn
<1>3. \A k \in 0..n : EndOf(a, k) = EndOf(b, k)
  BY DEF EndOf
<1>4. ASSUME NEW k \in 1..n
      PROVE  Fine(b[k])' /\ Spaced(EndOf(b, k - 1), b[k].loc)'
  <2>1. Fine(a[k]) /\ Spaced(EndOf(a, k - 1), a[k].loc) /\ a[k] = b[k]
    BY DEF Chain
  <2>2. EndOf(a, k - 1) = EndOf(b, k - 1)
    BY <1>3
  <2>3. Fine(b[k]) /\ Spaced(EndOf(b, k - 1), b[k].loc)
    BY <2>1, <2>2
  <2>4. PICK t, x, y : t = b[k] /\ x = EndOf(b, k - 1) /\ y = b[k].loc
    OBVIOUS
  <2>5. Fine(t)' /\ Spaced(x, y)'
    BY <1>1, <1>2, <2>3, <2>4
  <2>6. QED
    BY <2>4, <2>5
<1>5. Spaced(EndOf(b, n), p)'
  <2>1. PICK x : x = EndOf(b, n)
    OBVIOUS
  <2>2. Spaced(x, p)
    BY <1>3, <2>1 DEF Chain
  <2>3. Spaced(x, p)'
    BY <1>2, <2>2
  <2>4. QED
    BY <2>1, <2>3
<1>6. QED
  BY <1>4, <1>5 DEF Chain

-----------------------------------------------------------------------------
(* The tokens that are finished stay a chain.                              *)

\* A step that leaves lex where it is and what it is through with.
LEMMA ChainKept ==
    ASSUME UNCHANGED <<text, cur>>, NEW n \in Nat, Chain(tokens.items, n, cur),
           Through(pc', tokens'.items) = n, \A k \in 1..n : tokens'.items[k] = tokens.items[k]
    PROVE  Chained'
<1> PICK a, b, p : a = tokens.items /\ b = tokens'.items /\ p = cur
  OBVIOUS
<1>1. Chain(b, n, p)'
  BY ChainSame
<1>2. QED
  BY <1>1 DEF Chained

\* The steps inside a token.
LEMMA ChainStays ==
    ASSUME IInv, TInv, Tracked, Stays, Chained
    PROVE  Chained'
<1> PICK n : n = Len(tokens.items) - 1
  OBVIOUS
<1>1. pc \in Open /\ pc # "loop" /\ pc \notin {"destroy", "done"}
  BY DEF Stays, Moves, Ends, Open
<1>2. n \in Nat /\ n = Through(pc, tokens.items)
  BY <1>1, OpenTracked
<1>3. Chain(tokens.items, n, cur)
  BY <1>1, <1>2 DEF Chained
<1>4. CASE Moves
  <2>1. UNCHANGED <<text, cur, tokens>> /\ pc' # "loop"
    BY <1>4 DEF Moves, Open, Stopped
  <2>2. Through(pc', tokens'.items) = n /\ \A k \in 1..n : tokens'.items[k] = tokens.items[k]
    BY <2>1 DEF Through
  <2>3. QED
    BY <1>2, <1>3, <2>1, <2>2, ChainKept
<1>5. ASSUME NEW t, Ends(t) PROVE Chained'
  <2>1. UNCHANGED <<text, cur>> /\ pc' = "report" /\ Replacing(t) /\ t \in Token
    BY <1>5 DEF Ends
  <2>2. /\ Len(tokens'.items) = Len(tokens.items)
        /\ \A k \in 1..n : tokens'.items[k] = tokens.items[k]
    BY <1>1, <2>1, ReplacedTyped
  <2>3. Through(pc', tokens'.items) = n
    BY <2>1, <2>2 DEF Through
  <2>4. QED
    BY <1>2, <1>3, <2>1, <2>2, <2>3, ChainKept
<1>6. QED
  BY <1>4, <1>5 DEF Stays

\* The token that is added is not finished.
LEMMA ChainAdds ==
    ASSUME IInv, TInv, Tracked, lexer_add_token \/ EndOfText, Chained
    PROVE  Chained'
<1> PICK n : n = Len(tokens.items)
  OBVIOUS
<1>1. /\ pc = "loop" /\ UNCHANGED <<text, cur, line, line_num, col_num, printed>>
      /\ pc' # "loop" /\ pc \notin {"destroy", "done"}
  BY DEF lexer_add_token, EndOfText
<1>2. n \in Nat /\ n = Through(pc, tokens.items)
  <2>1. n = Through(pc, tokens.items)
    BY <1>1 DEF Through
  <2>2. QED
    BY <2>1 DEF Tracked
<1>3. PICK t : /\ tokens' = array_push_back(tokens, t, heap).arr
               /\ t = NewToken \/ t = [NewToken EXCEPT !.token_type = "TK_EOF"]
  BY DEF lexer_add_token, EndOfText
<1>4. t \in Token
  BY <1>3, NewTyped
<1>5. Len(tokens'.items) = n + 1 /\ \A k \in 1..n : tokens'.items[k] = tokens.items[k]
  BY <1>1, <1>3, <1>4, AddedTyped
<1>6. Through(pc', tokens'.items) = n
  BY <1>1, <1>2, <1>5 DEF Through
<1>7. Chain(tokens.items, n, cur)
  BY <1>1, <1>2 DEF Chained
<1>8. QED
  BY <1>1, <1>2, <1>5, <1>6, <1>7, ChainKept

\* White space goes between the tokens.
LEMMA ChainSkips ==
    ASSUME IInv, TInv, Tracked, SkipNewline \/ SkipSpace, Chained
    PROVE  Chained'
<1> PICK n, a, p : n = Len(tokens.items) /\ a = tokens.items /\ p = cur
  OBVIOUS
<1>1. /\ pc = "loop" /\ pc' = "loop" /\ text' = text /\ tokens' = tokens /\ cur' = cur + 1
      /\ pc \notin {"destroy", "done"}
  BY DEF SkipNewline, SkipSpace
<1>2. text[p] \in isspace
  BY DEF SkipNewline, SkipSpace, isspace, NL
<1>3. n \in Nat /\ n = Through(pc, a)
  <2>1. n = Through(pc, a)
    BY <1>1 DEF Through
  <2>2. QED
    BY <2>1 DEF Tracked
<1>4. p \in Nat
  BY DEF TInv, Placed, Positions
<1>5. Chain(a, n, p)
  BY <1>1, <1>3 DEF Chained
<1> PICK r : r = p + 1
  OBVIOUS
<1>6. Chain(a, n, r)
  <2>1. PICK x : x = EndOf(a, n)
    OBVIOUS
  <2>2. Spaced(x, p)
    BY <1>5, <2>1 DEF Chain
  <2>3. x \in Nat
    <3>1. CASE n = 0
      BY <2>1, <3>1 DEF EndOf
    <3>2. CASE n # 0
      <4>1. a \in Seq(Token) /\ n \in 1..Len(a)
        BY <1>3, <3>2 DEF TInv, Typed
      <4>2. a[n] \in Token
        BY <4>1
      <4>3. a[n].loc \in Nat /\ a[n].size \in Nat
        BY <4>2 DEF Token
      <4>4. QED
        BY <2>1, <3>2, <4>3 DEF EndOf
    <3>3. QED
      BY <3>1, <3>2
  <2>4. Spaced(x, r)
    <3>1. x <= p /\ \A k \in x..(p - 1) : text[k] \in isspace
      BY <2>2 DEF Spaced, IsIn
    <3>2. \A k \in x..(r - 1) : text[k] \in isspace
      BY <1>2, <1>4, <2>3, <3>1
    <3>3. x <= r
      BY <1>4, <2>3, <3>1
    <3>4. QED
      BY <3>2, <3>3 DEF Spaced, IsIn
  <2>5. QED
    BY <1>5, <2>1, <2>4 DEF Chain
<1>7. Chain(a, n, r)'
  BY <1>1, <1>3, <1>6, ChainSame
<1>8. Through(pc', tokens'.items) = n /\ tokens'.items = a /\ cur' = r
  BY <1>1, <1>3
<1>9. QED
  BY <1>7, <1>8 DEF Chained

\* A token that is C's is the next of the chain.
LEMMA ChainReported ==
    ASSUME IInv, TInv, Tracked, Reported, Chained, Fine(Last), Last.loc = cur
    PROVE  Chained'
<1> PICK n, a, p : n = Len(tokens.items) /\ a = tokens.items /\ p = cur
  OBVIOUS
<1> PICK r : r = EndOf(a, n)
  OBVIOUS
<1>1. pc = "report" /\ pc' = "loop" /\ cur' = Last.loc + Last.size /\ UNCHANGED <<text, tokens>>
  BY DEF Reported, Last
<1>2. n \in Nat \ {0} /\ n - 1 = Through(pc, a) /\ n - 1 \in Nat
  BY <1>1, OpenTracked
<1>3. Chain(a, n - 1, p)
  BY <1>1, <1>2 DEF Chained
<1>4. a[n] = Last
  BY DEF Last
<1>5. r = Last.loc + Last.size
  BY <1>2, <1>4 DEF EndOf
<1>6. r \in Nat
  <2>1. a \in Seq(Token) /\ n \in 1..Len(a)
    BY <1>2 DEF TInv, Typed
  <2>2. Last \in Token
    BY <1>4, <2>1
  <2>3. Last.loc \in Nat /\ Last.size \in Nat
    BY <2>2 DEF Token
  <2>4. QED
    BY <1>5, <2>3
<1>7. Chain(a, n, r)
  <2>1. ASSUME NEW k \in 1..n PROVE Fine(a[k]) /\ Spaced(EndOf(a, k - 1), a[k].loc)
    <3>1. CASE k = n
      <4>1. Spaced(EndOf(a, n - 1), p)
        BY <1>3 DEF Chain
      <4>2. QED
        BY <1>4, <3>1, <4>1
    <3>2. CASE k \in 1..(n - 1)
      BY <1>3, <3>2 DEF Chain
    <3>3. QED
      BY <1>2, <3>1, <3>2
  <2>2. Spaced(r, r)
    BY <1>6 DEF Spaced, IsIn
  <2>3. QED
    BY <2>1, <2>2 DEF Chain
<1>8. Chain(a, n, r)'
  BY <1>1, <1>2, <1>7, ChainSame
<1>9. Through(pc', tokens'.items) = n /\ tokens'.items = a /\ cur' = r
  BY <1>1, <1>5 DEF Through
<1>10. QED
  BY <1>8, <1>9 DEF Chained

-----------------------------------------------------------------------------
(* The ends of tokens.                                                     *)

\* What SetToken makes of the token in the making.
IsMade(t, type, int_val, chars, end) ==
    /\ t.token_type = type /\ t.int_val = int_val /\ t.chars = chars
    /\ t.loc = cur /\ t.size = end - cur

\* The token that a sub-lexer accepts.
LEMMA SetMakes ==
    ASSUME IInv, pc \in Open, NEW type, NEW int_val, NEW str_val, NEW chars, NEW end,
           SetToken(type, int_val, str_val, chars, end)
    PROVE  /\ pc' = "report" /\ i' = 1 /\ UNCHANGED <<text, cur>>
           /\ \E t : Last' = t /\ IsMade(t, type, int_val, chars, end)
<1> PICK n, old, size : n = Len(tokens.items) /\ old = tokens.items[n] /\ size = end - cur
  OBVIOUS
<1>1. PICK t : t = [old EXCEPT !.token_type = type, !.int_val = int_val, !.str_val = str_val,
                               !.chars = chars, !.loc = cur, !.size = size]
  OBVIOUS
<1>2. /\ IsRecord(old) /\ IsArray(tokens) /\ IsList(tokens.items) /\ n \in Nat /\ n >= 1
  BY DEF IInv, Shaped, Labelled, IsArray, IsList
<1>3. /\ t.token_type = type /\ t.int_val = int_val /\ t.chars = chars /\ t.loc = cur
      /\ t.size = size
  BY <1>1, <1>2 DEF IsRecord, TokenFields
<1>4. tokens' = [tokens EXCEPT !.items[n] = t]
  BY <1>1 DEF SetToken
<1>5. tokens'.items = [tokens.items EXCEPT ![n] = t]
  BY <1>2, <1>4 DEF IsArray
<1>6. Len(tokens'.items) = n /\ tokens'.items[n] = t
  <2>1. PICK S : tokens.items \in Seq(S)
    BY <1>2 DEF IsList
  <2>2. tokens.items \in Seq(S \cup {t}) /\ n \in 1..n
    BY <1>2, <2>1
  <2>3. QED
    BY <1>5, <2>2
<1>7. Last' = t
  BY <1>6 DEF Last
<1>8. pc' = "report" /\ i' = 1 /\ UNCHANGED <<text, cur>>
  BY DEF SetToken
<1>9. QED
  BY <1>3, <1>7, <1>8 DEF IsMade

\* Nothing is reported yet of a token that has just ended.
LEMMA JustEnded ==
    ASSUME pc' = "report", i' = 1, Verdict'
    PROVE  Tried' /\ Read' /\ Decided'
<1>1. Unreported'
  BY DEF Unreported
<1>2. QED
  BY <1>1 DEF Tried, Read, Decided

\* What is no token ends with an error.
LEMMA Refuses ==
    ASSUME pc' = "report", i' = 1, UNCHANGED <<text, cur>>, Refused(cur), Alarmed(queue)'
    PROVE  Tried' /\ Read' /\ Decided'
<1>1. Refused(cur)'
  BY PlaceSame
<1>2. Verdict'
  BY <1>1 DEF Verdict
<1>3. QED
  BY <1>2, JustEnded

\* A token that ends without an error is C's.
LEMMA Accepted ==
    ASSUME IInv, pc \in Open, NEW type, NEW int_val, NEW str_val, NEW chars, NEW end,
           SetToken(type, int_val, str_val, chars, end),
           \A t : IsMade(t, type, int_val, chars, end) => Fine(t),
           ~Alarmed(queue)'
    PROVE  Tried' /\ Read' /\ Decided'
<1>1. pc' = "report" /\ i' = 1 /\ UNCHANGED <<text, cur>>
  BY SetMakes
<1>2. \E t : Last' = t /\ IsMade(t, type, int_val, chars, end)
  BY SetMakes
<1>3. ASSUME NEW t, Last' = t, IsMade(t, type, int_val, chars, end)
      PROVE  Verdict'
  <2>1. Fine(t)
    BY <1>3
  <2>2. Fine(t)'
    BY <1>1, <2>1, FineSame
  <2>3. Last'.loc = cur'
    BY <1>1, <1>3 DEF IsMade
  <2>4. QED
    BY <1>3, <2>2, <2>3 DEF Verdict
<1>4. Verdict'
  BY <1>2, <1>3
<1>5. pc' = "report" /\ i' = 1
  BY <1>1
<1>6. Tried' /\ Read' /\ Decided'
  BY <1>5, <1>4, JustEnded
<1>7. QED
  BY <1>6

\* A literal that is a refused token.
LEMMA RefusedLiteral ==
    ASSUME BeginsLiteral(cur), ~Begun(cur), CharLiterals(cur) = {}, StringLiterals(cur) = {}
    PROVE  Refused(cur)
  BY DEF Refused, Begun

\* Literals begin where no number does.
LEMMA LiteralStarts ==
    ASSUME Given, NEW p \in Positions
    PROVE  /\ QuoteAt(p) \/ DquoteAt(p) => ~Begun(p) /\ BeginsLiteral(p)
           /\ QuoteAt(p) => ~DquoteAt(p)
<1>1. ASSUME QuoteAt(p) \/ DquoteAt(p) PROVE ~Begun(p)
  BY <1>1, FirstCharacters DEF QuoteAt, DquoteAt, Begun
<1>2. ASSUME QuoteAt(p), DquoteAt(p) PROVE FALSE
  BY <1>2, FirstCharacters DEF QuoteAt, DquoteAt
<1>3. QED
  BY <1>1, <1>2, LiteralsAre

-----------------------------------------------------------------------------
(* The sub-lexers.                                                         *)

\* Where lex is when it tries a sub-lexer, with what has been tried.
LEMMA Trying ==
    ASSUME TInv, Tried, pc \in {"numeric", "char", "string", "identifier", "punctuator"}
    PROVE  /\ pc \in Open /\ Given /\ cur \in Positions /\ text[cur] # NUL /\ ~Alarmed(queue)
           /\ pc \in {"char", "string", "identifier", "punctuator"} => NumberTried
           /\ pc = "string" => CharTried
           /\ pc \in {"identifier", "punctuator"} => StringTried
           /\ pc = "punctuator" => WordTried
<1>1. pc \in Open
  BY DEF Open
<1>2. Given /\ cur \in Positions /\ text[cur] # NUL
  BY <1>1, OpenFacts
<1>3. ~Alarmed(queue)
  BY DEF Tried
<1>4. /\ pc \in {"char", "string", "identifier", "punctuator"} => NumberTried
      /\ pc = "string" => CharTried
      /\ pc \in {"identifier", "punctuator"} => StringTried
      /\ pc = "punctuator" => WordTried
  BY DEF Tried
<1>5. QED
  BY <1>1, <1>2, <1>3, <1>4

\* On to the next sub-lexer, with what was tried.
LEMMA TriesNext ==
    ASSUME UNCHANGED <<text, cur>>, ~Alarmed(queue)', NumberTried,
           \/ pc' = "char"
           \/ pc' = "string" /\ CharTried
           \/ pc' = "identifier" /\ StringTried
           \/ pc' = "punctuator" /\ StringTried /\ WordTried
    PROVE  Tried' /\ Read' /\ Decided'
<1>1. NumberTried' /\ (CharTried => CharTried') /\ (StringTried => StringTried') /\ (WordTried => WordTried')
  BY PlaceSame
<1>2. Tried'
  BY <1>1 DEF Tried
<1>3. Read' /\ Decided'
  BY DEF Read, Decided
<1>4. QED
  BY <1>2, <1>3

\* A new token: nothing is tried yet.
LEMMA AddGoes ==
    ASSUME IInv, Tried, lexer_add_token
    PROVE  Tried' /\ Read' /\ Decided'
<1>1. pc = "loop" /\ pc' = "numeric" /\ queue' = queue
  BY DEF lexer_add_token
<1>2. ~Alarmed(queue)'
  BY <1>1, Alarms DEF Tried
<1>3. Tried' /\ Read' /\ Decided'
  BY <1>1, <1>2 DEF Tried, Read, Decided
<1>4. QED
  BY <1>3

\* What numeric_constant makes of the place.
LEMMA NumericCases ==
    ASSUME lex_numeric_constant, NEW n, n = numeric_constant(cur)
    PROVE  \/ n = NoNumber /\ Goto("char") /\ Quiet
           \/ /\ n # NoNumber /\ SetToken(n.type, n.val, 0, <<>>, n.end)
              /\ \/ ~Erring(n) /\ Quiet
                 \/ Erring(n) /\ Push("ALERT_ERR", n.error)
  BY Zenon DEF lex_numeric_constant, Erring

\* A number without an error is a constant.
LEMMA ConstantTyped ==
    ASSUME NEW p, NEW n, Judged(p, n), ~Erring(n)
    PROVE  n.type \in TokenTypes
<1>1. n.type = "TK_ICONST" \/ n.type = "TK_FCONST"
  BY Zenon DEF Judged, Erring
<1>2. QED
  BY <1>1, Zenon DEF TokenTypes

\* Numbers.
LEMMA NumericGoes ==
    ASSUME IInv, TInv, Tried, lex_numeric_constant
    PROVE  Tried' /\ Read' /\ Decided'
<1>1. pc = "numeric" /\ pc \in Open
  BY DEF lex_numeric_constant, Open
<1>2. Given /\ cur \in Positions /\ ~Alarmed(queue)
  BY <1>1, Trying
<1> PICK n : n = numeric_constant(cur)
  OBVIOUS
<1>3. CASE n = NoNumber /\ Goto("char") /\ Quiet
  <2>1. NumberTried
    BY <1>2, <1>3, NumberJudged DEF NumberTried
  <2>2. pc' = "char" /\ UNCHANGED <<text, cur, queue>>
    BY <1>3 DEF Goto, Quiet, alertVars
  <2>3. ~Alarmed(queue)'
    BY <1>2, <2>2, Alarms
  <2>4. QED
    BY <2>1, <2>2, <2>3, TriesNext
<1>4. CASE /\ n # NoNumber /\ SetToken(n.type, n.val, 0, <<>>, n.end)
           /\ ~Erring(n) /\ Quiet
  <2>1. PICK type, val, end : type = n.type /\ val = n.val /\ end = n.end
    OBVIOUS
  <2>2. SetToken(type, val, 0, <<>>, end)
    BY <1>4, <2>1
  <2>3. queue' = queue
    BY <1>4 DEF Quiet, alertVars
  <2>4. ~Alarmed(queue)'
    BY <1>2, <2>3, Alarms
  <2>5. n.type \in TokenTypes
    BY <1>2, <1>4, NumberJudged, ConstantTyped
  <2>6. ASSUME NEW t, IsMade(t, type, val, <<>>, end)
        PROVE  Fine(t)
    <3>1. t.token_type = n.type /\ t.int_val = n.val /\ t.loc = cur /\ t.size = n.end - cur
      BY <2>1, <2>6 DEF IsMade
    <3>2. Right(t)
      BY <1>2, <1>4, <3>1, NumberRight
    <3>3. QED
      BY <2>5, <3>1, <3>2 DEF Fine
  <2>7. QED
    BY <1>1, <2>2, <2>4, <2>6, Accepted
<1>5. CASE /\ n # NoNumber /\ SetToken(n.type, n.val, 0, <<>>, n.end)
           /\ Erring(n) /\ Push("ALERT_ERR", n.error)
  <2>1. Refused(cur)
    BY <1>2, <1>5, NumberRefused
  <2>2. pc' = "report" /\ i' = 1 /\ UNCHANGED <<text, cur>>
    BY <1>5 DEF SetToken
  <2>3. Alarmed(queue)'
    BY <1>5, Alarms
  <2>4. QED
    BY <2>1, <2>2, <2>3, Refuses
<1>6. QED
  BY <1>3, <1>4, <1>5, NumericCases

\* Identifiers and keywords.
LEMMA IdentifierGoes ==
    ASSUME IInv, TInv, Tried, lex_identifier
    PROVE  Tried' /\ Read' /\ Decided'
<1>1. pc = "identifier" /\ pc \in Open
  BY DEF lex_identifier, Open
<1>2. Given /\ cur \in Positions /\ ~Alarmed(queue) /\ NumberTried /\ StringTried
  BY <1>1, Trying
<1> PICK end : end = Skip(cur, is_word_char)
  OBVIOUS
<1> PICK type : type = IF is_keyword(cur, end - cur) THEN "TK_KEYWRD" ELSE "TK_IDENT"
  OBVIOUS
<1>3. \/ text[cur] \notin Letters /\ Goto("punctuator")
      \/ text[cur] \in Letters /\ SetToken(type, 0, 0, <<>>, end)
  BY Zenon DEF lex_identifier, Letters
<1>4. ~Alarmed(queue)'
  <2>1. queue' = queue
    BY DEF lex_identifier, Quiet, alertVars
  <2>2. QED
    BY <1>2, <2>1, Alarms
<1>5. CASE text[cur] \notin Letters /\ Goto("punctuator")
  <2>1. WordTried
    BY <1>5 DEF WordTried
  <2>2. pc' = "punctuator" /\ UNCHANGED <<text, cur>>
    BY <1>5 DEF Goto
  <2>3. QED
    BY <1>2, <1>4, <2>1, <2>2, TriesNext
<1>6. CASE text[cur] \in Letters /\ SetToken(type, 0, 0, <<>>, end)
  <2>1. type \in TokenTypes
    BY DEF TokenTypes
  <2>2. ASSUME NEW t, IsMade(t, type, 0, <<>>, end)
        PROVE  Fine(t)
    <3>1. t.token_type = type /\ t.loc = cur /\ t.size = end - cur
      BY <2>2 DEF IsMade
    <3>2. Right(t)
      BY <1>2, <1>6, <3>1, WordRight DEF StringTried
    <3>3. QED
      BY <2>1, <3>1, <3>2 DEF Fine
  <2>3. QED
    BY <1>1, <1>4, <1>6, <2>2, Accepted
<1>7. QED
  BY <1>3, <1>5, <1>6

\* Punctuators.
LEMMA PunctuatorGoes ==
    ASSUME IInv, TInv, Tried, lex_punctuator
    PROVE  Tried' /\ Read' /\ Decided'
<1>1. pc = "punctuator" /\ pc \in Open
  BY DEF lex_punctuator, Open
<1>2. /\ Given /\ cur \in Positions /\ ~Alarmed(queue)
      /\ NumberTried /\ StringTried /\ WordTried
  BY <1>1, Trying
<1> PICK len : len = IF text[cur] \in ispunct THEN first_match(PUNCTUATORS, cur) ELSE 0
  OBVIOUS
<1>3. /\ len \in Nat
      /\ len > 0 => \A t : t.token_type = "TK_PUNCT" /\ t.loc = cur /\ t.size = len => Right(t)
      /\ len = 0 => Refused(cur)
  BY <1>2, PunctuatorRight DEF NumberTried, StringTried, WordTried
<1>4. \/ len > 0 /\ SetToken("TK_PUNCT", 0, 0, <<>>, cur + len) /\ Quiet
      \/ /\ len = 0 /\ pc' = "report" /\ i' = 1 /\ UNCHANGED <<text, cur>>
         /\ Push("ALERT_ERR", "unexpected token")
  BY Zenon DEF lex_punctuator
<1>5. CASE len > 0 /\ SetToken("TK_PUNCT", 0, 0, <<>>, cur + len) /\ Quiet
  <2>1. PICK type, end : type = "TK_PUNCT" /\ end = cur + len
    OBVIOUS
  <2>2. SetToken(type, 0, 0, <<>>, end)
    BY <1>5, <2>1
  <2>3. queue' = queue
    BY <1>5 DEF Quiet, alertVars
  <2>4. ~Alarmed(queue)'
    BY <1>2, <2>3, Alarms
  <2>5. end - cur = len
    BY <1>2, <1>3, <2>1 DEF Positions
  <2>6. ASSUME NEW t, IsMade(t, type, 0, <<>>, end)
        PROVE  Fine(t)
    <3>1. t.token_type = "TK_PUNCT" /\ t.loc = cur /\ t.size = len
      BY <2>1, <2>5, <2>6 DEF IsMade
    <3>2. Right(t)
      BY <1>3, <1>5, <3>1
    <3>3. QED
      BY <3>1, <3>2 DEF Fine, TokenTypes
  <2>7. QED
    BY <1>1, <2>2, <2>4, <2>6, Accepted
<1>6. CASE /\ len = 0 /\ pc' = "report" /\ i' = 1 /\ UNCHANGED <<text, cur>>
           /\ Push("ALERT_ERR", "unexpected token")
  <2>1. Alarmed(queue)'
    BY <1>6, Alarms
  <2>2. Refused(cur) /\ pc' = "report" /\ i' = 1 /\ UNCHANGED <<text, cur>>
    BY <1>3, <1>6
  <2>3. QED
    BY <2>1, <2>2, Refuses
<1>7. QED
  BY <1>4, <1>5, <1>6

-----------------------------------------------------------------------------
(* Into literals.                                                          *)

\* A literal that is none is refused.
LEMMA LiteralRefused ==
    ASSUME Given, cur \in Positions,
           \/ QuoteAt(cur) /\ CharLiterals(cur) = {}
           \/ DquoteAt(cur) /\ StringLiterals(cur) = {}
    PROVE  Refused(cur)
<1>1. ~Begun(cur) /\ BeginsLiteral(cur) /\ ~(QuoteAt(cur) /\ DquoteAt(cur))
  BY LiteralStarts
<1>2. CharLiterals(cur) = {} /\ StringLiterals(cur) = {}
  BY <1>1, LiteralsAre
<1>3. QED
  BY <1>1, <1>2, RefusedLiteral

\* A body at its closing quote, and one that goes wrong.
LEMMA BodyEnds ==
    ASSUME Given, NEW p \in Positions, NEW quote, NEW w \in {1, 2, 4}
    PROVE  LET b == Body(p, quote, w)
           IN /\ b.end \in Nat /\ b.vals \in Seq(Nat) /\ b.units \in Seq(Nat)
              /\ text[p] = quote => b.end = p + 1 /\ b.vals = <<>> /\ b.units = <<>>
              /\ text[p] # quote /\ Fails(p, w) => b.end = 0
<1> PICK b : b = Body(p, quote, w)
  OBVIOUS
<1>1. b \in Rests
  BY BodyStep
<1>2. b.end \in Nat /\ b.vals \in Seq(Nat) /\ b.units \in Seq(Nat)
  BY <1>1 DEF Rests
<1>3. ASSUME text[p] = quote PROVE b.end = p + 1 /\ b.vals = <<>> /\ b.units = <<>>
  <2>1. b = Literal(p + 1, <<>>, <<>>)
    BY <1>3, BodyStep
  <2>2. QED
    BY <2>1 DEF Literal
<1>4. ASSUME text[p] # quote, Fails(p, w) PROVE b.end = 0
  <2>1. b = Literal(0, <<>>, <<>>)
    BY <1>4, BodyStep
  <2>2. QED
    BY <2>1 DEF Literal
<1>5. QED
  BY <1>2, <1>3, <1>4

\* The literal that begins with a quote at once is none.
LEMMA EmptyRefused ==
    ASSUME Given, cur \in Positions, QuoteAt(cur), NEW body \in Positions,
           body = IF text[cur] = QUOTE THEN cur + 1 ELSE cur + 2, text[body] = QUOTE
    PROVE  Refused(cur)
<1> PICK w : w = IF text[cur] = QUOTE THEN 1 ELSE WidthOf(text[cur])
  OBVIOUS
<1>1. w \in {1, 2, 4}
  BY DEF WidthOf
<1>2. Body(body, QUOTE, w).vals = <<>>
  BY <1>1, BodyEnds
<1>3. CharLiterals(cur) = {}
  <2>1. CASE text[cur] = QUOTE
    <3>1. CharLiterals(cur) = {l \in {Body(cur + 1, QUOTE, 1)} : l.end # 0 /\ l.vals # <<>>}
      BY <2>1, LiteralsAre
    <3>2. Body(cur + 1, QUOTE, 1).vals = <<>>
      BY <1>2, <2>1
    <3>3. QED
      BY <3>1, <3>2
  <2>2. CASE text[cur] # QUOTE
    <3>1. CharLiterals(cur) = {l \in {Body(cur + 2, QUOTE, WidthOf(text[cur]))} :
                                  l.end # 0 /\ l.vals # <<>> /\ Len(l.vals) = 1}
      BY <2>2, LiteralsAre
    <3>2. Body(cur + 2, QUOTE, WidthOf(text[cur])).vals = <<>>
      BY <1>2, <2>2
    <3>3. QED
      BY <3>1, <3>2
  <2>3. QED
    BY <2>1, <2>2
<1>4. QED
  BY <1>3, LiteralRefused

\* Of a literal that has just been entered nothing is read yet.
LEMMA ReadsNothing ==
    ASSUME Given, NEW p \in Positions, NEW quote, NEW w \in {1, 2, 4}, NEW q, ~Alarmed(q)
    PROVE  /\ Reads(q, <<>>, Body(p, quote, w).end, Body(p, quote, w).vals,
                    Body(p, quote, w).end, Body(p, quote, w).vals)
           /\ Reads(q, <<>>, Body(p, quote, w).end, Body(p, quote, w).units,
                    Body(p, quote, w).end, Body(p, quote, w).units)
<1> PICK b : b = Body(p, quote, w)
  OBVIOUS
<1>1. b.vals \in Seq(Nat) /\ b.units \in Seq(Nat)
  BY BodyEnds
<1>2. \A x \in Seq(Nat) : x = <<>> \o x
  OBVIOUS
<1>3. b.vals = <<>> \o b.vals /\ b.units = <<>> \o b.units
  BY <1>1, <1>2
<1>4. QED
  BY <1>3 DEF Reads

\* Character literals are read alike wherever the text is the same.
LEMMA CharReadSame ==
    ASSUME text' = text, NEW start, NEW p, NEW w, s' = p, width' = w,
           p \in Positions => Reads(queue', arr'.items, Body(start, QUOTE, w).end,
                                    Body(start, QUOTE, w).vals, Body(p, QUOTE, w).end,
                                    Body(p, QUOTE, w).vals)
    PROVE  CharRead(start)'
<1>1. Body(start, QUOTE, w)' = Body(start, QUOTE, w) /\ Body(p, QUOTE, w)' = Body(p, QUOTE, w)
  BY BodySame
<1>2. Positions' = Positions
  BY DEF Positions
<1>3. QED
  BY <1>1, <1>2 DEF CharRead, Reads, Alarmed

\* String literals are, too.
LEMMA StringReadSame ==
    ASSUME text' = text, NEW start, NEW p, NEW w, s' = p, width' = w,
           p \in Positions => Reads(queue', arr'.items, Body(start, DQUOTE, w).end,
                                    Body(start, DQUOTE, w).units, Body(p, DQUOTE, w).end,
                                    Body(p, DQUOTE, w).units)
    PROVE  StringRead(start)'
<1>1. Body(start, DQUOTE, w)' = Body(start, DQUOTE, w) /\ Body(p, DQUOTE, w)' = Body(p, DQUOTE, w)
  BY BodySame
<1>2. Positions' = Positions
  BY DEF Positions
<1>3. QED
  BY <1>1, <1>2 DEF StringRead, Reads, Alarmed

\* Where a character literal begins, as the lexer asks for it.
LEMMA WideQuote ==
    /\ QuoteAt(cur) <=> text[cur] = QUOTE \/ (text[cur] \in Chars("LuU") /\ text[cur + 1] = QUOTE)
    /\ text[cur] = QUOTE => text[cur] \notin Chars("LuU")
<1>1. \A c : c \in Chars("LuU") <=> c \in {76, 85, 117}
  BY LiteralsAssumption
<1>2. QUOTE \notin {76, 85, 117}
  BY FirstCharacters
<1>3. QED
  BY <1>1, <1>2 DEF QuoteAt

\* Character literals.
LEMMA CharGoes ==
    ASSUME IInv, TInv, Tried, lex_char_literal
    PROVE  Tried' /\ Read' /\ Decided'
<1>1. pc = "char" /\ pc \in Open
  BY DEF lex_char_literal, Open
<1>2. /\ Given /\ cur \in Positions /\ text[cur] # NUL /\ ~Alarmed(queue) /\ NumberTried
      /\ cur + 1 \in Positions
  BY <1>1, Trying, OpenFacts
<1> PICK body : body = IF text[cur] = QUOTE THEN cur + 1 ELSE cur + 2
  OBVIOUS
<1> PICK w : w = IF text[cur] = QUOTE THEN 1 ELSE WidthOf(text[cur])
  OBVIOUS
<1>3. w \in {1, 2, 4}
  BY DEF WidthOf
<1>4. \/ ~QuoteAt(cur) /\ Goto("string") /\ Quiet
      \/ /\ QuoteAt(cur) /\ text[body] = QUOTE
         /\ pc' = "report" /\ i' = 1 /\ UNCHANGED <<text, cur>>
         /\ Push("ALERT_ERR", "empty character literal")
      \/ /\ QuoteAt(cur) /\ text[body] # QUOTE /\ Quiet
         /\ Enter(IF text[cur] = QUOTE THEN "char_body" ELSE "wide", body, w, array_init(0))
  <2>1. CASE text[cur] = QUOTE
    <3>1. text[cur] \notin Chars("LuU") /\ QuoteAt(cur) /\ body = cur + 1 /\ w = CW_UTF8
      BY <2>1, WideQuote DEF CW_UTF8
    <3>2. QED
      BY <2>1, <3>1 DEF lex_char_literal, SetToken
  <2>2. CASE text[cur] # QUOTE /\ text[cur] \in Chars("LuU") /\ text[cur + 1] = QUOTE
    <3>1. QuoteAt(cur) /\ body = cur + 2
      BY <2>2, WideQuote
    <3>2. w = IF text[cur] = Ord("u") THEN CW_UTF16 ELSE CW_UTF32
      BY <2>2, Marks DEF WidthOf, CW_UTF16, CW_UTF32
    <3>3. QED
      BY <2>2, <3>1, <3>2 DEF lex_char_literal, SetToken
  <2>3. CASE text[cur] # QUOTE /\ ~(text[cur] \in Chars("LuU") /\ text[cur + 1] = QUOTE)
    <3>1. ~QuoteAt(cur)
      BY <2>3, WideQuote
    <3>2. Goto("string") /\ Quiet
      BY <2>3 DEF lex_char_literal
    <3>3. QED
      BY <3>1, <3>2
  <2>4. QED
    BY <2>1, <2>2, <2>3
<1>5. CASE ~QuoteAt(cur) /\ Goto("string") /\ Quiet
  <2>1. pc' = "string" /\ UNCHANGED <<text, cur, queue>>
    BY <1>5 DEF Goto, Quiet, alertVars
  <2>2. ~Alarmed(queue)'
    BY <1>2, <2>1, Alarms
  <2>3. QED
    BY <1>2, <1>5, <2>1, <2>2, TriesNext DEF CharTried
<1>6. CASE QuoteAt(cur)
  <2>0. body \in Positions
    <3>1. CASE text[cur] = QUOTE
      BY <1>2, <3>1
    <3>2. CASE text[cur] # QUOTE
      <4>1. text[cur + 1] = QUOTE
        BY <1>6, <3>2 DEF QuoteAt
      <4>2. text[cur + 1] # NUL
        BY <4>1, Marks
      <4>3. (cur + 1) + 1 \in Positions
        BY <1>2, <4>2, NextPosition
      <4>4. cur \in Nat
        BY <1>2 DEF Positions
      <4>5. QED
        BY <3>2, <4>3, <4>4
    <3>3. QED
      BY <3>1, <3>2
  <2>1. CASE /\ text[body] = QUOTE
             /\ pc' = "report" /\ i' = 1 /\ UNCHANGED <<text, cur>>
             /\ Push("ALERT_ERR", "empty character literal")
    <3>1. Refused(cur)
      BY <1>2, <1>6, <2>0, <2>1, EmptyRefused
    <3>2. Alarmed(queue)'
      BY <2>1, Alarms
    <3>3. QED
      BY <2>1, <3>1, <3>2, Refuses
  <2>2. CASE /\ text[body] # QUOTE /\ Quiet
             /\ Enter(IF text[cur] = QUOTE THEN "char_body" ELSE "wide", body, w, array_init(0))
    <3>1. /\ pc' = IF text[cur] = QUOTE THEN "char_body" ELSE "wide"
          /\ s' = body /\ width' = w /\ arr' = array_init(0)
          /\ UNCHANGED <<text, cur, queue>>
      BY <2>2 DEF Enter, Quiet, alertVars
    <3>2. ~Alarmed(queue)'
      BY <1>2, <3>1, Alarms
    <3>3. arr'.items = <<>>
      BY <3>1 DEF array_init
    <3>4. QuoteAt(cur)' /\ text'[s'] # QUOTE
      BY <1>6, <2>2, <3>1, PlaceSame
    <3>5. CASE text[cur] = QUOTE
      <4>1. pc' = "char_body" /\ w = 1 /\ body = cur + 1
        BY <3>1, <3>5
      <4>2. ~Alarmed(queue')
        BY <3>2 DEF Alarmed
      <4>3. Reads(queue', arr'.items, Body(body, QUOTE, w).end, Body(body, QUOTE, w).vals,
                  Body(body, QUOTE, w).end, Body(body, QUOTE, w).vals)
        BY <1>2, <1>3, <2>0, <3>3, <4>2, ReadsNothing
      <4>4. CharRead(body)'
        BY <3>1, <4>3, CharReadSame
      <4>5. InChar'
        BY <3>1, <3>4, <3>5, <4>1, <4>4 DEF InChar
      <4>6. QED
        BY <4>1, <4>5 DEF Tried, Read, Decided
    <3>6. CASE text[cur] # QUOTE
      <4>1. pc' = "wide" /\ w = WidthOf(text[cur])
        BY <3>1, <3>6
      <4>2. InWide'
        BY <3>1, <3>4, <3>6, <4>1 DEF InWide, WidthOf
      <4>3. QED
        BY <3>2, <3>4, <4>1, <4>2 DEF Tried, Read, Decided
    <3>7. QED
      BY <3>5, <3>6
  <2>3. QED
    BY <1>4, <1>6, <2>1, <2>2
<1>7. QED
  BY <1>4, <1>5, <1>6

\* The prefix that the lexer finds at a string literal, and what is behind it.
LEMMA PrefixIs ==
    ASSUME Given, cur \in Positions
    PROVE  /\ prefix.len \in 0..2
           /\ text[cur + prefix.len] = DQUOTE <=> DquoteAt(cur)
           /\ DquoteAt(cur) => /\ cur + prefix.len + 1 = StringStart(cur)
                               /\ prefix.width = StringWidth(cur)
<1>1. matches(Bytes("u8"), cur) <=> text[cur] = 117 /\ text[cur + 1] = 56
  <2>1. matches(<<117, 56>>, cur) <=> text[cur] = 117 /\ text[cur + 1] = 56
    <3>0. PICK a, b : a = 117 /\ b = 56
      OBVIOUS
    <3>1. a \in 1..255 /\ b \in 1..255
      BY <3>0
    <3>2. matches(<<a, b>>, cur) <=> text[cur] = a /\ text[cur + 1] = b
      BY <3>1, MatchFew
    <3>3. QED
      BY <3>0, <3>2, Zenon
  <2>2. Bytes("u8") = <<117, 56>>
    BY Zenon, LiteralsAssumption
  <2>3. QED
    BY <2>1, <2>2, Zenon
<1>2. Ord("u") = 117 /\ \A c : c \in Chars("UL") <=> c \in {76, 85}
  BY LiteralsAssumption
<1>3. DQUOTE \notin {76, 85, 117} /\ DQUOTE # 56 /\ 56 \notin {76, 85, 117}
  BY FirstCharacters
<1>4. cur \in Nat
  BY DEF Positions
<1>5. CW_UTF8 = 1 /\ CW_UTF16 = 2 /\ CW_UTF32 = 4
  BY DEF CW_UTF8, CW_UTF16, CW_UTF32
<1>6. cur + 0 = cur
  BY <1>4
<1>7. CASE text[cur] = 117 /\ text[cur + 1] = 56
  <2>1. prefix.len = 2 /\ prefix.width = 1
    BY <1>1, <1>5, <1>7 DEF prefix
  <2>2. DquoteAt(cur) <=> text[cur + 2] = DQUOTE
    BY <1>3, <1>7 DEF DquoteAt
  <2>3. StringStart(cur) = cur + 3 /\ StringWidth(cur) = 1
    BY <1>3, <1>7 DEF StringStart, StringWidth
  <2>4. QED
    BY <1>4, <2>1, <2>2, <2>3
<1>8. CASE text[cur] \in {76, 85, 117} /\ ~(text[cur] = 117 /\ text[cur + 1] = 56)
  <2>1. prefix.len = 1 /\ prefix.width = WidthOf(text[cur])
    BY <1>1, <1>2, <1>5, <1>8 DEF prefix, WidthOf
  <2>2. DquoteAt(cur) <=> text[cur + 1] = DQUOTE
    BY <1>3, <1>8 DEF DquoteAt
  <2>3. text[cur + 1] = DQUOTE => StringStart(cur) = cur + 2 /\ StringWidth(cur) = WidthOf(text[cur])
    BY <1>3, <1>8 DEF StringStart, StringWidth
  <2>4. QED
    BY <1>4, <2>1, <2>2, <2>3
<1>9. CASE text[cur] \notin {76, 85, 117}
  <2>1. prefix.len = 0 /\ prefix.width = 1
    BY <1>1, <1>2, <1>5, <1>9 DEF prefix
  <2>2. DquoteAt(cur) <=> text[cur] = DQUOTE
    BY <1>9 DEF DquoteAt
  <2>3. text[cur] = DQUOTE => StringStart(cur) = cur + 1 /\ StringWidth(cur) = 1
    BY DEF StringStart, StringWidth
  <2>4. QED
    BY <1>4, <1>6, <2>1, <2>2, <2>3
<1>10. QED
  BY <1>7, <1>8, <1>9

\* Where a string literal begins, its body begins in the text.
LEMMA StringStartIs ==
    ASSUME Given, cur \in Positions, DquoteAt(cur)
    PROVE  StringStart(cur) \in Positions
<1>1. prefix.len \in 0..2 /\ text[cur + prefix.len] = DQUOTE /\ cur + prefix.len + 1 = StringStart(cur)
  BY PrefixIs
<1>2. cur \in 1..Len(text) /\ Len(text) \in Nat
  BY TextFacts DEF Positions
<1>3. DQUOTE # NUL
  BY Marks
<1>4. CASE text[cur] = DQUOTE
  <2>1. cur + 1 \in Positions
    BY <1>3, <1>4, NextPosition
  <2>2. QED
    BY <1>4, <2>1 DEF StringStart
<1>5. CASE text[cur] # DQUOTE
  <2>1. text[cur] \in {76, 85, 117}
    BY <1>5 DEF DquoteAt
  <2>2. cur + 1 \in Positions
    BY <2>1, Marks, NextPosition
  <2>3. CASE text[cur + 1] = DQUOTE
    <3>1. (cur + 1) + 1 \in Positions
      BY <1>3, <2>2, <2>3, NextPosition
    <3>2. text[cur + 1] # 56
      BY <2>3, FirstCharacters
    <3>3. StringStart(cur) = cur + 2
      BY <1>5, <3>2 DEF StringStart
    <3>4. QED
      BY <1>2, <3>1, <3>3
  <2>4. CASE text[cur + 1] = 56 /\ text[cur + 2] = DQUOTE
    <3>1. (cur + 1) + 1 \in Positions
      BY <2>2, <2>4, Marks, NextPosition
    <3>2. cur + 2 \in Positions
      BY <1>2, <3>1
    <3>3. (cur + 2) + 1 \in Positions
      BY <1>3, <3>2, <2>4, NextPosition
    <3>4. StringStart(cur) = cur + 3
      BY <1>5, <2>4 DEF StringStart
    <3>5. QED
      BY <1>2, <3>3, <3>4
  <2>5. QED
    BY <1>5, <2>3, <2>4 DEF DquoteAt
<1>6. QED
  BY <1>4, <1>5

\* String literals.
LEMMA StringGoes ==
    ASSUME IInv, TInv, Tried, lex_string_literal
    PROVE  Tried' /\ Read' /\ Decided'
<1>1. pc = "string"
  BY DEF lex_string_literal
<1>2. /\ Given /\ cur \in Positions /\ ~Alarmed(queue) /\ NumberTried /\ CharTried
  BY <1>1, Trying
<1>3. queue' = queue
  BY DEF lex_string_literal, Quiet, alertVars
<1>4. ~Alarmed(queue)'
  BY <1>2, <1>3, Alarms
<1>5. CASE text[cur + prefix.len] # DQUOTE /\ Goto("identifier")
  <2>1. ~DquoteAt(cur)
    BY <1>2, <1>5, PrefixIs
  <2>2. StringTried
    BY <1>2, <2>1, LiteralsAre DEF StringTried, CharTried
  <2>3. pc' = "identifier" /\ UNCHANGED <<text, cur>>
    BY <1>5 DEF Goto
  <2>4. QED
    BY <1>2, <1>4, <2>2, <2>3, TriesNext
<1>6. CASE /\ text[cur + prefix.len] = DQUOTE
           /\ Enter("str_body", cur + prefix.len + 1, prefix.width, array_init(Len(heap) + 1))
  <2>1. /\ DquoteAt(cur) /\ cur + prefix.len + 1 = StringStart(cur) /\ prefix.width = StringWidth(cur)
    BY <1>2, <1>6, PrefixIs
  <2> PICK p, w : p = StringStart(cur) /\ w = StringWidth(cur)
    OBVIOUS
  <2>2. pc' = "str_body" /\ s' = p /\ width' = w /\ arr'.items = <<>> /\ UNCHANGED <<text, cur>>
    BY <1>6, <2>1 DEF Enter, array_init
  <2>3. p \in Positions
    BY <1>2, <2>1, StringStartIs
  <2>4. w \in {1, 2, 4}
    BY DEF StringWidth, WidthOf
  <2>5. ~Alarmed(queue')
    BY <1>4 DEF Alarmed
  <2>6. Reads(queue', arr'.items, Body(p, DQUOTE, w).end, Body(p, DQUOTE, w).units,
              Body(p, DQUOTE, w).end, Body(p, DQUOTE, w).units)
    BY <1>2, <2>2, <2>3, <2>4, <2>5, ReadsNothing
  <2>7. StringRead(p)'
    BY <2>2, <2>6, StringReadSame
  <2>8. /\ DquoteAt(cur)' /\ ~QuoteAt(cur)' /\ width' = StringWidth(cur)' /\ StringStart(cur)' = p
    BY <1>2, <2>1, <2>2, PlaceSame DEF CharTried
  <2>9. InString'
    BY <2>7, <2>8 DEF InString
  <2>10. QED
    BY <2>2, <2>9 DEF Tried, Read, Decided
<1>7. QED
  BY <1>5, <1>6 DEF lex_string_literal

-----------------------------------------------------------------------------
(* Inside literals.                                                        *)

\* Characters may be joined in any order.
LEMMA Joins == \A a, b, c \in Seq(Nat) : a \o (b \o c) = (a \o b) \o c
  BY SMTT(40)

\* A body goes on behind its first element.
LEMMA BodyOn ==
    ASSUME Given, NEW p \in Positions, NEW quote, text[p] # quote, NEW w \in {1, 2, 4},
           ~Fails(p, w)
    PROVE  LET y == Body(p, quote, w)
               x == Body(Elt(p, w).end, quote, w)
           IN /\ y.end = x.end /\ y.vals = <<Elt(p, w).val>> \o x.vals
              /\ y.units = UnitsAt(p, w) \o x.units
<1>1. Body(p, quote, w) = Joined(p, w, Body(Elt(p, w).end, quote, w))
  BY BodyStep
<1>2. PICK x : x = Body(Elt(p, w).end, quote, w)
  OBVIOUS
<1>3. Body(p, quote, w) = Joined(p, w, x)
  BY <1>1, <1>2
<1>4. /\ Joined(p, w, x).end = x.end
      /\ Joined(p, w, x).vals = <<Elt(p, w).val>> \o x.vals
      /\ Joined(p, w, x).units = UnitsAt(p, w) \o x.units
  BY DEF Joined, Literal
<1>5. QED
  BY <1>2, <1>3, <1>4

\* The element at s of a literal is read: its character, or an error.
LEMMA CharReadOn ==
    ASSUME Given, NEW start, NEW p \in Positions, p = s, text[p] # QUOTE,
           NEW w \in {1, 2, 4}, w = width, arr.items \in Seq(Nat), CharRead(start),
           text' = text, width' = width, NEW e, s' = e,
           e \in Positions => /\ Alarmed(queue)' <=> Alarmed(queue) \/ Fails(p, w)
                              /\ ~Fails(p, w) => /\ e = Elt(p, w).end
                                                 /\ arr'.items = arr.items \o <<Elt(p, w).val>>
    PROVE  CharRead(start)'
<1>1. ASSUME e \in Positions
      PROVE  Reads(queue', arr'.items, Body(start, QUOTE, w).end, Body(start, QUOTE, w).vals,
                   Body(e, QUOTE, w).end, Body(e, QUOTE, w).vals)
  <2>1. Reads(queue, arr.items, Body(start, QUOTE, w).end, Body(start, QUOTE, w).vals,
              Body(p, QUOTE, w).end, Body(p, QUOTE, w).vals)
    BY DEF CharRead
  <2>2. Alarmed(queue') <=> Alarmed(queue) \/ Fails(p, w)
    BY <1>1 DEF Alarmed
  <2>3. PICK y, x : y = Body(p, QUOTE, w) /\ x = Body(e, QUOTE, w)
    OBVIOUS
  <2>4. x.vals \in Seq(Nat)
    BY <1>1, <2>3, BodyEnds
  <2>5. CASE Fails(p, w)
    <3>1. Body(p, QUOTE, w).end = 0
      BY <2>5, BodyEnds
    <3>2. QED
      BY <2>1, <2>2, <2>5, <3>1 DEF Reads
  <2>6. CASE ~Fails(p, w)
    <3>1. PICK u : u = <<Elt(p, w).val>>
      OBVIOUS
    <3>2. u \in Seq(Nat)
      BY <2>6, <3>1, EltFacts
    <3>3. y.end = x.end /\ y.vals = <<Elt(p, w).val>> \o x.vals
      <4>1. e = Elt(p, w).end
        BY <1>1, <2>6
      <4>2. QED
        BY <2>3, <2>6, <4>1, BodyOn, ZenonT(60)
    <3>4. arr.items \o y.vals = arr'.items \o x.vals
      <4>1. PICK a, b, c, d : a = arr.items /\ b = arr'.items /\ c = x.vals /\ d = y.vals
        OBVIOUS
      <4>2. a \in Seq(Nat) /\ c \in Seq(Nat) /\ d = u \o c /\ b = a \o u
        BY <1>1, <2>4, <2>6, <3>1, <3>3, <4>1
      <4>3. a \o d = b \o c
        BY <3>2, <4>2, Joins
      <4>4. QED
        BY <4>1, <4>3
    <3>5. QED
      BY <2>1, <2>2, <2>3, <2>6, <3>3, <3>4 DEF Reads
  <2>7. QED
    BY <2>5, <2>6
<1>2. width' = w
  OBVIOUS
<1>3. QED
  BY <1>1, <1>2, CharReadSame

\* The same for the units of a string literal.
LEMMA StringReadOn ==
    ASSUME Given, NEW start, NEW p \in Positions, p = s, text[p] # DQUOTE,
           NEW w \in {1, 2, 4}, w = width, arr.items \in Seq(Nat), StringRead(start),
           text' = text, width' = width, NEW e, s' = e,
           e \in Positions => /\ Alarmed(queue)' <=> Alarmed(queue) \/ Fails(p, w)
                              /\ ~Fails(p, w) => /\ e = Elt(p, w).end
                                                 /\ arr'.items = arr.items \o UnitsAt(p, w)
    PROVE  StringRead(start)'
<1>1. ASSUME e \in Positions
      PROVE  Reads(queue', arr'.items, Body(start, DQUOTE, w).end, Body(start, DQUOTE, w).units,
                   Body(e, DQUOTE, w).end, Body(e, DQUOTE, w).units)
  <2>1. Reads(queue, arr.items, Body(start, DQUOTE, w).end, Body(start, DQUOTE, w).units,
              Body(p, DQUOTE, w).end, Body(p, DQUOTE, w).units)
    BY DEF StringRead
  <2>2. Alarmed(queue') <=> Alarmed(queue) \/ Fails(p, w)
    BY <1>1 DEF Alarmed
  <2>3. PICK y, x : y = Body(p, DQUOTE, w) /\ x = Body(e, DQUOTE, w)
    OBVIOUS
  <2>4. x.units \in Seq(Nat)
    BY <1>1, <2>3, BodyEnds
  <2>5. CASE Fails(p, w)
    <3>1. Body(p, DQUOTE, w).end = 0
      BY <2>5, BodyEnds
    <3>2. QED
      BY <2>1, <2>2, <2>5, <3>1 DEF Reads
  <2>6. CASE ~Fails(p, w)
    <3>1. PICK u : u = UnitsAt(p, w)
      OBVIOUS
    <3>2. u \in Seq(Nat)
      BY <2>6, <3>1, EltFacts
    <3>3. y.end = x.end /\ y.units = UnitsAt(p, w) \o x.units
      <4>1. e = Elt(p, w).end
        BY <1>1, <2>6
      <4>2. QED
        BY <2>3, <2>6, <4>1, BodyOn
    <3>4. arr.items \o y.units = arr'.items \o x.units
      <4>1. PICK a, b, c, d : a = arr.items /\ b = arr'.items /\ c = x.units /\ d = y.units
        OBVIOUS
      <4>2. a \in Seq(Nat) /\ c \in Seq(Nat) /\ d = u \o c /\ b = a \o u
        BY <1>1, <2>4, <2>6, <3>1, <3>3, <4>1
      <4>3. a \o d = b \o c
        BY <3>2, <4>2, Joins
      <4>4. QED
        BY <4>1, <4>3
    <3>5. QED
      BY <2>1, <2>2, <2>3, <2>6, <3>3, <3>4 DEF Reads
  <2>7. QED
    BY <2>5, <2>6
<1>2. width' = w
  OBVIOUS
<1>3. QED
  BY <1>1, <1>2, StringReadSame

\* An escape inside a literal, if it is not cut off by the end of the text.
LEMMA EscapeRead ==
    ASSUME IInv, TInv, Ordinary, pc \in Bodies, in_text, text[s] = BACKSLASH,
           NEW p, p = s, NEW w, w = width
    PROVE  /\ p \in Positions /\ w \in {1, 2, 4}
           /\ escape.end \in Positions =>
                 /\ IsError(escape) <=> Fails(p, w)
                 /\ ~Fails(p, w) => /\ escape.end = Elt(p, w).end /\ escape.val = Elt(p, w).val
                                    /\ unit(escape.val) = Elt(p, w).val
<1>1. Given /\ p \in Positions /\ width \in Widths
  BY BodyFacts
<1>2. w \in {1, 2, 4}
  BY <1>1, WidthValues
<1>3. BACKSLASH \notin {NUL, NL}
  BY Marks
<1>4. p + 1 \in Positions
  BY <1>1, <1>3, NextPosition
<1>5. Elt(p, w) = EscapeAt(p, w) /\ (Fails(p, w) <=> EscapeAt(p, w) = Malformed)
  BY <1>3 DEF Elt, Fails
<1>6. CASE text[p + 1] = NUL
  <2>1. p + 1 = Len(text) /\ Len(text) \in Nat
    BY <1>1, <1>4, <1>6, TextFacts
  <2>2. escape.end = p + 2
    <3>1. escape = get_escape_char(p + 1)
      <4>1. NUL # Ord("x") /\ NUL \notin isoctal
        BY Classes
      <4>2. QED
        BY <1>6, <4>1 DEF escape, consume_escape_sequence
    <3>2. escape.end = (p + 1) + 1
      BY <3>1 DEF get_escape_char, Escape
    <3>3. QED
      BY <1>1, <3>2 DEF Positions
  <2>3. escape.end \notin Positions
    BY <1>1, <2>1, <2>2 DEF Positions
  <2>4. QED
    BY <1>1, <1>2, <2>3
<1>7. CASE text[p + 1] # NUL
  <2>1. p <= Len(text) - 5 => ~IsIn(p + 1, p + 5, isoctal)
    BY <1>1 DEF Ordinary, Positions
  <2>5. text[p + 1] < 128
    BY <1>1, <1>4, TextFacts DEF Ordinary, Positions
  <2>2. EscapeRight(p, w)
    BY <1>1, <1>2, EscapesRight
  <2>3. /\ IsError(escape) <=> EscapeAt(p, w) = Malformed
        /\ EscapeAt(p, w) # Malformed => /\ escape.end = EscapeAt(p, w).end
                                         /\ escape.val = EscapeAt(p, w).val
                                         /\ unit(escape.val) = EscapeAt(p, w).val
    BY <1>7, <2>1, <2>2, <2>5 DEF EscapeRight, escape
  <2>4. QED
    BY <1>1, <1>2, <1>5, <2>3
<1>8. QED
  BY <1>6, <1>7

\* The value of a character literal by its bytes: the last four.
LEMMA CharValueIs ==
    ASSUME NEW b \in Seq(Nat)
    PROVE  char_value(b) = [k \in 1..Min({4, Len(b)}) |-> b[Len(b) - Min({4, Len(b)}) + k]]
<1>1. Len(b) \in Nat
  OBVIOUS
<1>2. PICK n, m : n = Min({4, Len(b)}) /\ m = Max({1, Len(b) - 3})
  OBVIOUS
<1>3. PICK len, less, four, one : len = Len(b) /\ less = Len(b) - 3 /\ four = 4 /\ one = 1
  OBVIOUS
<1>4. len \in Int /\ less \in Int /\ four \in Int /\ one \in Int
  BY <1>1, <1>3
<1>5. Min({four, len}) \in {four, len} /\ Min({four, len}) <= four /\ Min({four, len}) <= len
  BY <1>4, PairFacts
<1>6. Max({one, less}) \in {one, less} /\ Max({one, less}) >= one /\ Max({one, less}) >= less
  BY <1>4, PairFacts
<1>7. /\ n \in {4, len} /\ n <= 4 /\ n <= len
      /\ m \in {1, less} /\ m >= 1 /\ m >= less
  BY <1>2, <1>3, <1>5, <1>6
<1>8. n \in Nat /\ m \in Nat /\ Len(b) - m + 1 = n /\ m = Len(b) - n + 1
  BY <1>1, <1>3, <1>7
<1>9. SubSeq(b, m, Len(b)) = [k \in 1..(Len(b) - m + 1) |-> b[m + k - 1]]
  BY <1>1, <1>8
<1>10. [k \in 1..(Len(b) - m + 1) |-> b[m + k - 1]] = [k \in 1..n |-> b[Len(b) - n + k]]
  BY <1>1, <1>8
<1>11. QED
  BY <1>2, <1>9, <1>10 DEF char_value

\* Where a literal begins, no token begins that is none and goes on behind its start.
LEMMA OnlyLiterals ==
    ASSUME Given, NEW p \in Positions, QuoteAt(p) \/ DquoteAt(p), NEW q \in p..Len(text),
           QuoteAt(p) => q > p + 1, DquoteAt(p) => q >= StringStart(p), IsToken(p, q)
    PROVE  \/ \E l \in CharLiterals(p) : l.end = q
           \/ \E l \in StringLiterals(p) : l.end = q
<1>1. ~Begun(p)
  BY LiteralStarts
<1>2. p \in 1..Len(text) /\ Len(text) \in Nat
  BY TextFacts DEF Positions
<1>3. ~IntegerConstant(p, q) /\ ~FloatConstant(p, q)
  BY <1>1, NotBegun
<1>4. text[p] \in {QUOTE, DQUOTE, 76, 85, 117}
  BY DEF QuoteAt, DquoteAt
<1>5. Spelling(p, q) \notin Punctuators
  <2>1. text[p] \notin ispunct \ {QUOTE, DQUOTE, 95}
    BY <1>4, FirstCharacters
  <2>2. QED
    BY <2>1, PunctuatorBegins
<1>6. ~Word(p, q)
  <2>1. SUFFICES ASSUME Word(p, q) PROVE FALSE
    OBVIOUS
  <2>2. text[p] \in Letters /\ q <= Skip(p, is_word_char)
    BY <2>1, WordBegins
  <2>3. text[p] \in {76, 85, 117}
    BY <1>4, <2>2, FirstCharacters
  <2>4. text[p] # DQUOTE /\ text[p] # QUOTE /\ text[p] \in is_word_char /\ NUL \notin is_word_char
    BY <2>3, FirstCharacters, Classes
  <2>5. p + 1 \in p..Len(text)
    <3>1. text[p] # NUL
      BY <2>4
    <3>2. p + 1 \in Positions
      BY <3>1, NextPosition
    <3>3. QED
      BY <1>2, <3>2 DEF Positions
  <2>6. CASE text[p + 1] \in {QUOTE, DQUOTE}
    <3>1. text[p + 1] \notin is_word_char /\ text[p + 1] # 56
      BY <2>6, FirstCharacters
    <3>2. IsIn(p, p + 1, is_word_char)
      BY <1>2, <2>4 DEF IsIn
    <3>3. PICK r : r = p + 1
      OBVIOUS
    <3>4. Skip(p, is_word_char) = r
      BY <2>4, <2>5, <3>1, <3>2, <3>3, SkipIs
    <3>5. DquoteAt(p) => StringStart(p) = p + 2
      BY <2>4, <3>1 DEF StringStart
    <3>6. QED
      BY <1>2, <2>2, <3>3, <3>4, <3>5
  <2>7. CASE text[p + 1] = 56 /\ text[p + 2] = DQUOTE
    <3>1. text[p + 1] \in is_word_char /\ text[p + 2] \notin is_word_char /\ text[p + 1] # QUOTE
      <4>1. 56 \in isdigit
        BY Tests
      <4>2. QED
        BY <2>7, <4>1, FirstCharacters
    <3>2. p + 2 \in p..Len(text)
      <4>1. text[p + 1] # NUL /\ p + 1 \in Positions
        BY <1>2, <2>5, <2>7, Marks DEF Positions
      <4>2. (p + 1) + 1 \in Positions
        BY <4>1, NextPosition
      <4>3. QED
        BY <1>2, <4>2 DEF Positions
    <3>3. IsIn(p, p + 2, is_word_char)
      <4>1. \A k \in p..((p + 2) - 1) : k = p \/ k = p + 1
        BY <1>2
      <4>2. QED
        BY <2>4, <3>1, <4>1 DEF IsIn
    <3>4. PICK r : r = p + 2
      OBVIOUS
    <3>5. Skip(p, is_word_char) = r
      BY <2>4, <3>1, <3>2, <3>3, <3>4, SkipIs
    <3>6. DquoteAt(p) /\ StringStart(p) = p + 3
      BY <2>3, <2>4, <2>7, <3>1 DEF StringStart, QuoteAt
    <3>7. QED
      BY <1>2, <2>2, <3>4, <3>5, <3>6
  <2>8. QED
    BY <2>4, <2>6, <2>7 DEF QuoteAt, DquoteAt
<1>7. QED
  BY <1>3, <1>5, <1>6, TokenKinds

\* A character literal that is the one at p.
LEMMA CharLiteralRight ==
    ASSUME Given, NEW p \in Positions, QuoteAt(p), NEW l, CharLiterals(p) = {l},
           l.end \in (p + 2)..Len(text),
           NEW t, t.token_type = "TK_ICONST", t.loc = p, t.size = l.end - p,
           text[p] # QUOTE => t.int_val = l.vals[1],
           text[p] = QUOTE => t.chars = [k \in 1..Min({4, Len(l.vals)}) |->
                                          l.vals[Len(l.vals) - Min({4, Len(l.vals)}) + k]]
    PROVE  Fine(t)
<1>1. p \in 1..Len(text) /\ Len(text) \in Nat
  BY TextFacts DEF Positions
<1>2. t.loc + t.size = l.end /\ l.end \in Nat /\ l.end \in (t.loc + 1)..Len(text)
  BY <1>1
<1>3. ~DquoteAt(p) /\ StringLiterals(p) = {}
  BY LiteralStarts, LiteralsAre
<1>4. Lexeme(t.token_type, t.loc, t.loc + t.size)
  BY <1>2 DEF Lexeme
<1>5. ValueIsRight(t)
  <2>1. \E m \in CharLiterals(t.loc) :
            IF text[t.loc] # QUOTE THEN t.int_val = m.vals[1]
            ELSE t.chars = [k \in 1..Min({4, Len(m.vals)}) |->
                              m.vals[Len(m.vals) - Min({4, Len(m.vals)}) + k]]
    OBVIOUS
  <2>2. t.token_type = "TK_ICONST" /\ CharLiterals(t.loc) # {}
    OBVIOUS
  <2>3. QED
    BY <2>1, <2>2 DEF ValueIsRight
<1>6. ASSUME NEW q \in (t.loc + t.size + 1)..Len(text), IsToken(t.loc, q)
      PROVE  FALSE
  <2>1. q \in p..Len(text) /\ q > p + 1 /\ q # l.end
    BY <1>1, <1>2
  <2>2. \E m \in CharLiterals(p) : m.end = q
    BY <1>3, <1>6, <2>1, OnlyLiterals
  <2>3. QED
    BY <2>1, <2>2
<1>7. QED
  BY <1>2, <1>4, <1>5, <1>6 DEF Fine, Right, TokenTypes

\* A string literal that is the one at p.
LEMMA StringLiteralRight ==
    ASSUME Given, NEW p \in Positions, DquoteAt(p), NEW l, StringLiterals(p) = {l},
           l.end \in (p + 1)..Len(text), l.end >= StringStart(p), StringStart(p) \in Nat,
           NEW t, t.token_type = "TK_STRLIT", t.loc = p, t.size = l.end - p,
           t.chars = Append(l.units, 0)
    PROVE  Fine(t)
<1>1. p \in 1..Len(text) /\ Len(text) \in Nat
  BY TextFacts DEF Positions
<1>2. t.loc + t.size = l.end /\ l.end \in Nat /\ l.end \in (t.loc + 1)..Len(text)
  BY <1>1
<1>3. ~QuoteAt(p) /\ CharLiterals(p) = {}
  BY LiteralStarts, LiteralsAre
<1>4. Lexeme(t.token_type, t.loc, t.loc + t.size)
  BY <1>2 DEF Lexeme
<1>5. ValueIsRight(t)
  <2>1. \E m \in StringLiterals(t.loc) : t.chars = Append(m.units, 0)
    OBVIOUS
  <2>2. QED
    BY <2>1 DEF ValueIsRight
<1>6. ASSUME NEW q \in (t.loc + t.size + 1)..Len(text), IsToken(t.loc, q)
      PROVE  FALSE
  <2>1. q \in p..Len(text) /\ q >= StringStart(p) /\ q # l.end
    BY <1>1, <1>2
  <2>2. \E m \in StringLiterals(p) : m.end = q
    BY <1>3, <1>6, <2>1, OnlyLiterals
  <2>3. QED
    BY <2>1, <2>2
<1>7. QED
  BY <1>2, <1>4, <1>5, <1>6 DEF Fine, Right, TokenTypes

\* The literal at a quote is its body, if that is one.
LEMMA CharBodyIs ==
    ASSUME Given, cur \in Positions, text[cur] = QUOTE, NEW b, b = Body(cur + 1, QUOTE, 1)
    PROVE  /\ QuoteAt(cur)
           /\ b.end = 0 => Refused(cur)
           /\ b.end # 0 /\ b.vals # <<>> => CharLiterals(cur) = {b}
<1>1. QuoteAt(cur)
  BY DEF QuoteAt
<1>2. CharLiterals(cur) = {l \in {b} : l.end # 0 /\ l.vals # <<>>}
  BY LiteralsAre
<1>3. ASSUME b.end = 0 PROVE Refused(cur)
  <2>1. CharLiterals(cur) = {}
    BY <1>2, <1>3
  <2>2. QED
    BY <1>1, <2>1, LiteralRefused
<1>4. QED
  BY <1>1, <1>2, <1>3

\* A character literal that is read.
LEMMA InCharFacts ==
    ASSUME IInv, TInv, Read, pc = "char_body", in_text
    PROVE  /\ pc \in Open /\ pc \in Bodies /\ Given /\ cur \in Positions /\ s \in Positions /\ cur <= s
           /\ text[cur] = QUOTE /\ width = 1 /\ Typed(arr, Nat) /\ arr.items \in Seq(Nat)
           /\ arr.items = <<>> => text[s] # QUOTE
           /\ CharRead(cur + 1)
           /\ Reads(queue, arr.items, Body(cur + 1, QUOTE, 1).end, Body(cur + 1, QUOTE, 1).vals,
                    Body(s, QUOTE, 1).end, Body(s, QUOTE, 1).vals)
<1>1. pc \in Open /\ pc \in Bodies
  BY DEF Open, Bodies
<1>2. /\ Given /\ cur \in Positions /\ s \in Positions /\ cur <= s
      /\ Typed(arr, Nat) /\ arr.items \in Seq(Nat)
  BY <1>1, OpenFacts, BodyFacts
<1>3. InChar
  BY DEF Read
<1>4. QED
  BY <1>1, <1>2, <1>3 DEF InChar, CharRead

\* On inside a character literal.
LEMMA InCharGoes ==
    ASSUME IInv, TInv, Read, pc = "char_body", in_text, text[s] # QUOTE,
           UNCHANGED <<text, cur, pc, width>>, arr'.items # <<>>, NEW e, s' = e,
           e \in Positions => /\ Alarmed(queue)' <=> Alarmed(queue) \/ Fails(s, 1)
                              /\ ~Fails(s, 1) => /\ e = Elt(s, 1).end
                                                 /\ arr'.items = arr.items \o <<Elt(s, 1).val>>
    PROVE  Tried' /\ Read' /\ Decided'
<1>1. PICK start, p, w : start = cur + 1 /\ p = s /\ w = 1
  OBVIOUS
<1>2. /\ Given /\ p \in Positions /\ p = s /\ text[p] # QUOTE /\ w \in {1, 2, 4} /\ w = width
      /\ arr.items \in Seq(Nat) /\ CharRead(start)
  BY <1>1, InCharFacts
<1>3. e \in Positions => /\ Alarmed(queue)' <=> Alarmed(queue) \/ Fails(p, w)
                         /\ ~Fails(p, w) => /\ e = Elt(p, w).end
                                            /\ arr'.items = arr.items \o <<Elt(p, w).val>>
  BY <1>1
<1>4. CharRead(start)'
  BY <1>2, <1>3, CharReadOn
<1>5. InChar'
  BY <1>1, <1>4, InCharFacts DEF InChar
<1>6. QED
  BY <1>5 DEF Tried, Read, Decided

\* An escape in a character literal.
LEMMA CharEscapeGoes ==
    ASSUME IInv, TInv, Ordinary, Read, CharBodyEscape
    PROVE  Tried' /\ Read' /\ Decided'
<1>1. /\ pc = "char_body" /\ in_text /\ text[s] = BACKSLASH
      /\ queue' = alerted(escape).queue /\ s' = escape.end
      /\ arr' = [arr EXCEPT !.items = Append(@, unit(escape.val))]
      /\ UNCHANGED <<text, cur, pc, width>>
  BY DEF CharBodyEscape, Advance
<1>2. /\ Typed(arr, Nat) /\ arr.items \in Seq(Nat) /\ pc \in Bodies /\ width = 1
  BY <1>1, InCharFacts
<1>3. text[s] # QUOTE
  BY <1>1, Marks
<1>4. unit(escape.val) \in Nat
  BY <1>1, <1>2, InsideEscape, UnitTyped
<1>5. arr'.items = arr.items \o <<unit(escape.val)>> /\ arr'.items # <<>>
  <2>1. arr'.items = Append(arr.items, unit(escape.val))
    BY <1>1, <1>2 DEF Typed, IsArray
  <2>2. QED
    BY <1>2, <1>4, <2>1
<1>6. Alarmed(queue)' <=> Alarmed(queue) \/ IsError(escape)
  <2>1. Alarmed(alerted(escape).queue) <=> Alarmed(queue) \/ IsError(escape)
    BY Alarms
  <2>2. QED
    BY <1>1, <2>1 DEF Alarmed
<1>7. escape.end \in Positions =>
          /\ IsError(escape) <=> Fails(s, 1)
          /\ ~Fails(s, 1) => escape.end = Elt(s, 1).end /\ unit(escape.val) = Elt(s, 1).val
  BY <1>1, <1>2, EscapeRead
<1>8. QED
  BY <1>1, <1>3, <1>5, <1>6, <1>7, InCharGoes

\* A byte that is no escape is an element of a literal of bytes.
LEMMA ByteIs ==
    ASSUME Given, NEW p \in Positions, text[p] \notin {NUL, NL, BACKSLASH}
    PROVE  /\ ~Fails(p, 1) /\ Elt(p, 1).end = p + 1 /\ Elt(p, 1).val = text[p]
           /\ UnitsAt(p, 1) = <<text[p]>>
<1>1. Elt(p, 1) = Element(p + 1, text[p])
  BY DEF Elt, CharAt, CW_UTF8
<1>2. p + 1 \in Nat \ {0}
  BY DEF Positions
<1>3. Elt(p, 1) # Malformed /\ Elt(p, 1).end = p + 1 /\ Elt(p, 1).val = text[p]
  BY <1>1, <1>2, ElementFacts
<1>4. UnitsAt(p, 1) = <<text[p]>>
  BY <1>3 DEF UnitsAt, Units, CW_UTF16
<1>5. QED
  BY <1>3, <1>4 DEF Fails

\* A byte in a character literal.
LEMMA CharPlainGoes ==
    ASSUME IInv, TInv, Ordinary, Read, CharBodyPlain
    PROVE  Tried' /\ Read' /\ Decided'
<1>1. /\ pc = "char_body" /\ in_text /\ text[s] \notin {QUOTE, BACKSLASH, NUL, NL}
      /\ queue' = queue /\ s' = s + 1
      /\ arr' = [arr EXCEPT !.items = Append(@, text[s])]
      /\ UNCHANGED <<text, cur, pc, width>>
  BY DEF CharBodyPlain, Advance, at_line_end, Quiet, alertVars
<1>2. /\ Typed(arr, Nat) /\ arr.items \in Seq(Nat) /\ Given /\ s \in Positions
  BY <1>1, InCharFacts
<1>3. text[s] \in Nat
  <2>1. text[s] \in 0..255
    BY <1>2, TextFacts
  <2>2. QED
    BY <2>1
<1>4. arr'.items = arr.items \o <<text[s]>> /\ arr'.items # <<>>
  <2>1. arr'.items = Append(arr.items, text[s])
    BY <1>1, <1>2 DEF Typed, IsArray
  <2>2. PICK c \in Nat : c = text[s]
    BY <1>3
  <2>3. Append(arr.items, c) = arr.items \o <<c>> /\ Append(arr.items, c) # <<>>
    BY <1>2, SMTT(40)
  <2>4. QED
    BY <2>1, <2>2, <2>3
<1>5. Alarmed(queue)' <=> Alarmed(queue)
  BY <1>1, Alarms
<1>6. ~Fails(s, 1) /\ Elt(s, 1).end = s + 1 /\ Elt(s, 1).val = text[s]
  BY <1>1, <1>2, ByteIs
<1>7. PICK e : e = s + 1
  OBVIOUS
<1>8. text[s] # QUOTE /\ s' = e
  BY <1>1, <1>7
<1>9. /\ Alarmed(queue)' <=> Alarmed(queue) \/ Fails(s, 1)
      /\ ~Fails(s, 1) => /\ e = Elt(s, 1).end
                         /\ arr'.items = arr.items \o <<Elt(s, 1).val>>
  BY <1>4, <1>5, <1>6, <1>7
<1>10. QED
  BY <1>1, <1>4, <1>8, <1>9, InCharGoes

\* The end of a body is behind its beginning.
LEMMA BodyBeyond ==
    ASSUME Given, NEW p \in Positions, NEW quote, NEW w \in {1, 2, 4}, NEW b, b = Body(p, quote, w)
    PROVE  b.end = 0 \/ b.end > p
<1> DEFINE V == {1}
           Beyond(k) == Body(k, quote, w).end = 0 \/ Body(k, quote, w).end > k
           f == [k \in p..Len(text) |-> IF Beyond(k) THEN 1 ELSE 0]
<1>1. p \in Nat /\ Len(text) \in Nat /\ p <= Len(text)
  BY TextFacts DEF Positions
<1>2. ASSUME NEW k \in p..Len(text), \A m \in (k + 1)..Len(text) : f[m] \in V
      PROVE  f[k] \in V
  <2>1. k \in Positions
    BY <1>1 DEF Positions
  <2>2. CASE text[k] = quote
    <3>1. Body(k, quote, w).end = k + 1
      BY <2>1, <2>2, BodyEnds
    <3>2. Beyond(k)
      BY <1>1, <3>1
    <3>3. QED
      BY <3>2
  <2>3. CASE text[k] # quote /\ Fails(k, w)
    <3>1. Beyond(k)
      BY <2>1, <2>3, BodyEnds
    <3>2. QED
      BY <3>1
  <2>4. CASE text[k] # quote /\ ~Fails(k, w)
    <3>1. PICK e : e = Elt(k, w).end
      OBVIOUS
    <3>2. e \in (k + 1)..Len(text) /\ e \in Positions
      BY <2>1, <2>4, <3>1, EltFacts
    <3>3. f[e] = 1
      <4>1. f[e] \in V
        BY <1>2, <3>2
      <4> HIDE DEF f
      <4>2. QED
        BY <4>1
    <3>4. Beyond(e)
      BY <1>1, <3>2, <3>3
    <3>5. Body(k, quote, w).end = Body(e, quote, w).end
      BY <2>1, <2>4, <3>1, BodyOn
    <3>6. Body(e, quote, w).end \in Nat
      BY <3>2, BodyEnds
    <3>7. Beyond(k)
      BY <1>1, <3>2, <3>4, <3>5, <3>6
    <3>8. QED
      BY <3>7
  <2>5. QED
    BY <2>2, <2>3, <2>4
<1> HIDE DEF V, f
<1>3. \A k \in p..Len(text) : f[k] \in V
  BY <1>1, <1>2, FromTheEnd
<1>4. p \in p..Len(text)
  BY <1>1
<1>5. f[p] = 1
  BY <1>3, <1>4 DEF V
<1>6. QED
  BY <1>4, <1>5 DEF f

\* A literal that goes wrong at s is none.
LEMMA ReadsNone ==
    ASSUME NEW q, NEW items, NEW end, NEW vals, NEW more, Reads(q, items, end, vals, 0, more)
    PROVE  end = 0
  BY DEF Reads

\* A line ends inside a character literal.
LEMMA CharUnterminatedGoes ==
    ASSUME IInv, TInv, Ordinary, Read, CharBodyUnterminated
    PROVE  Tried' /\ Read' /\ Decided'
<1>1. /\ pc = "char_body" /\ in_text /\ text[s] \in {NUL, NL}
      /\ pc' = "report" /\ i' = 1 /\ UNCHANGED <<text, cur>>
      /\ Push("ALERT_ERR", "unterminated character literal")
  BY DEF CharBodyUnterminated, at_line_end, SetToken
<1>2. /\ Given /\ cur \in Positions /\ s \in Positions /\ text[cur] = QUOTE
      /\ Reads(queue, arr.items, Body(cur + 1, QUOTE, 1).end, Body(cur + 1, QUOTE, 1).vals,
               Body(s, QUOTE, 1).end, Body(s, QUOTE, 1).vals)
  BY <1>1, InCharFacts
<1>3. text[s] # QUOTE /\ Fails(s, 1)
  <2>1. NUL # QUOTE /\ NL # QUOTE
    BY Marks
  <2>2. QED
    BY <1>1, <2>1 DEF Fails
<1>4. Body(s, QUOTE, 1).end = 0
  BY <1>2, <1>3, BodyEnds
<1>5. Body(cur + 1, QUOTE, 1).end = 0
  BY <1>2, <1>4, ReadsNone
<1>6. Refused(cur)
  BY <1>2, <1>5, CharBodyIs
<1>7. Alarmed(queue)'
  BY <1>1, Alarms
<1>8. QED
  BY <1>1, <1>6, <1>7, Refuses

\* The end of a character literal.
LEMMA CharCloseGoes ==
    ASSUME IInv, TInv, Ordinary, Read, CharBodyClose
    PROVE  Tried' /\ Read' /\ Decided'
<1>1. /\ pc = "char_body" /\ in_text /\ text[s] = QUOTE
      /\ SetToken("TK_ICONST", 0, 0, char_value(arr.items), s + 1)
      /\ Push("ALERT_WARN", "multi-byte character") \/ Quiet
  BY DEF CharBodyClose
<1>2. /\ pc \in Open /\ pc \in Bodies /\ Given /\ cur \in Positions /\ s \in Positions /\ cur <= s
      /\ text[cur] = QUOTE /\ arr.items \in Seq(Nat) /\ arr.items # <<>>
      /\ Reads(queue, arr.items, Body(cur + 1, QUOTE, 1).end, Body(cur + 1, QUOTE, 1).vals,
               Body(s, QUOTE, 1).end, Body(s, QUOTE, 1).vals)
  BY <1>1, InCharFacts
<1>3. Alarmed(queue)' <=> Alarmed(queue)
  <2>1. CASE Push("ALERT_WARN", "multi-byte character")
    BY <2>1, Alarms
  <2>2. CASE Quiet
    BY <2>2, Alarms DEF Quiet, alertVars
  <2>3. QED
    BY <1>1, <2>1, <2>2
<1>4. PICK b, chars, end : b = Body(cur + 1, QUOTE, 1) /\ chars = char_value(arr.items) /\ end = s + 1
  OBVIOUS
<1>5. CASE Alarmed(queue)
  <2>1. Body(cur + 1, QUOTE, 1).end = 0
    BY <1>2, <1>5 DEF Reads
  <2>2. Refused(cur)
    BY <1>2, <2>1, CharBodyIs
  <2>3. pc' = "report" /\ i' = 1 /\ UNCHANGED <<text, cur>>
    BY <1>1 DEF SetToken
  <2>4. QED
    BY <1>3, <1>5, <2>2, <2>3, Refuses
<1>6. CASE ~Alarmed(queue)
  <2>1. Body(s, QUOTE, 1).end = s + 1 /\ Body(s, QUOTE, 1).vals = <<>>
    BY <1>1, <1>2, BodyEnds
  <2>2. b.end = end /\ b.vals = arr.items
    <3>1. b.end = s + 1 /\ b.vals = arr.items \o <<>>
      BY <1>2, <1>4, <1>6, <2>1 DEF Reads
    <3>2. arr.items \o <<>> = arr.items
      BY <1>2
    <3>3. QED
      BY <1>4, <3>1, <3>2
  <2>3. end > cur + 1
    <3>1. PICK start : start = cur + 1
      OBVIOUS
    <3>2. start \in Positions
      BY <1>1, <1>2, <3>1, OpenFacts
    <3>3. b = Body(start, QUOTE, 1)
      BY <1>4, <3>1
    <3>4. b.end = 0 \/ b.end > start
      BY <1>2, <3>2, <3>3, BodyBeyond
    <3>5. QED
      BY <1>2, <1>4, <2>2, <3>1, <3>4 DEF Positions
  <2>4. end \in (cur + 2)..Len(text)
    <3>1. end \in Positions
      BY <1>1, <1>2, <1>4, EndFacts
    <3>2. QED
      BY <1>2, <2>3, <3>1, TextFacts DEF Positions
  <2>5. CharLiterals(cur) = {b} /\ QuoteAt(cur)
    <3>1. b.end # 0 /\ b.vals # <<>>
      BY <1>2, <2>2, <2>4 DEF Positions
    <3>2. QED
      BY <1>2, <1>4, <3>1, CharBodyIs
  <2>6. chars = [k \in 1..Min({4, Len(b.vals)}) |-> b.vals[Len(b.vals) - Min({4, Len(b.vals)}) + k]]
    BY <1>2, <1>4, <2>2, CharValueIs
  <2>7. ASSUME NEW t, IsMade(t, "TK_ICONST", 0, chars, end)
        PROVE  Fine(t)
    <3>1. /\ t.token_type = "TK_ICONST" /\ t.loc = cur /\ t.size = b.end - cur /\ t.chars = chars
      BY <2>2, <2>7 DEF IsMade
    <3>2. b.end \in (cur + 2)..Len(text)
      BY <2>2, <2>4
    <3>3. QED
      BY <1>2, <2>5, <2>6, <3>1, <3>2, CharLiteralRight
  <2>8. SetToken("TK_ICONST", 0, 0, chars, end)
    BY <1>1, <1>4
  <2>9. ~Alarmed(queue)'
    BY <1>3, <1>6
  <2>10. QED
    BY <1>2, <2>7, <2>8, <2>9, Accepted
<1>7. QED
  BY <1>5, <1>6

\* A character of a wide literal that is no escape, if the text goes on behind it.
LEMMA CharacterRead ==
    ASSUME Given, Ordinary, NEW p \in Positions, text[p] # BACKSLASH, text[p] # NL,
           ~(text[p] > 127 /\ utf8_len(text[p]) = 0), NEW w \in {2, 4},
           NEW e, e = p + decode_utf8(text, p).len
    PROVE  e \in Positions => /\ ~Fails(p, w) /\ e = Elt(p, w).end
                              /\ Elt(p, w).val = decode_utf8(text, p).code
                              /\ Elt(p, w).val <= MAX_CODE_POINT
<1>1. p \in 1..Len(text) /\ Len(text) \in Nat
  BY TextFacts DEF Positions
<1>2. CASE text[p] = NUL
  <2>1. p = Len(text)
    BY <1>2, TextFacts
  <2>2. decode_utf8(text, p).len = 1
    <3>1. utf8_len(text[p]) = 1
      BY <1>2, Marks DEF utf8_len
    <3>2. QED
      BY <3>1, DecodeFacts
  <2>3. e \notin Positions
    BY <1>1, <2>1, <2>2 DEF Positions
  <2>4. QED
    BY <2>3
<1>3. CASE text[p] # NUL
  <2>1. p \in 1..(Len(text) - 1)
    BY <1>1, <1>3, TextFacts
  <2>2. Clean(p)
    BY <2>1 DEF Ordinary, Clean
  <2>3. Elt(p, w) = CharAt(p, w)
    BY DEF Elt
  <2>4. CharAt(p, w) # Malformed
    BY <2>2, CharRight
  <2>5. /\ CharAt(p, w).end = p + decode_utf8(text, p).len
        /\ CharAt(p, w).val = decode_utf8(text, p).code
        /\ CharAt(p, w).val <= MAX_CODE_POINT
    BY <2>2, <2>4, CharRight
  <2>6. QED
    BY <1>3, <2>3, <2>4, <2>5 DEF Fails
<1>4. QED
  BY <1>2, <1>3

\* A byte that begins no UTF-8 sequence is no character.
LEMMA InvalidFails ==
    ASSUME Given, Ordinary, NEW p \in Positions, text[p] > 127, utf8_len(text[p]) = 0, NEW w \in {2, 4}
    PROVE  Fails(p, w) /\ text[p] \notin {QUOTE, DQUOTE}
<1>1. p \in 1..Len(text) /\ Len(text) \in Nat /\ text[p] \in 0..255
  BY TextFacts DEF Positions
<1>2. text[p] \notin {NUL, NL, BACKSLASH, QUOTE, DQUOTE}
  BY <1>1, Marks
<1>3. p \in 1..(Len(text) - 1)
  BY <1>1, <1>2, TextFacts
<1>4. Clean(p)
  BY <1>3 DEF Ordinary, Clean
<1>5. CharAt(p, w) = Malformed
  BY <1>4, CharRight
<1>6. QED
  BY <1>2, <1>5 DEF Fails, Elt

\* The wide literal at cur is its body, if that is one character.
LEMMA WideBodyIs ==
    ASSUME Given, cur \in Positions, QuoteAt(cur), text[cur] # QUOTE,
           NEW b, b = Body(cur + 2, QUOTE, WidthOf(text[cur]))
    PROVE  /\ b.end = 0 \/ Len(b.vals) # 1 => Refused(cur)
           /\ b.end # 0 /\ b.vals # <<>> /\ Len(b.vals) = 1 => CharLiterals(cur) = {b}
<1>1. CharLiterals(cur) = {l \in {b} : l.end # 0 /\ l.vals # <<>> /\ Len(l.vals) = 1}
  BY LiteralsAre
<1>2. ASSUME b.end = 0 \/ Len(b.vals) # 1 PROVE Refused(cur)
  <2>1. CharLiterals(cur) = {}
    BY <1>1, <1>2
  <2>2. QED
    BY <2>1, LiteralRefused
<1>3. QED
  BY <1>1, <1>2

\* A wide literal that is read.
LEMMA InWideFacts ==
    ASSUME IInv, TInv, Read, pc \in {"wide", "wide_close"}, NEW w, w = WidthOf(text[cur])
    PROVE  /\ pc \in Open /\ pc \in Bodies /\ Given /\ cur \in Positions
           /\ QuoteAt(cur) /\ text[cur] # QUOTE /\ width = w /\ w \in {2, 4}
           /\ cur + 2 \in Positions /\ cur \in Nat
           /\ in_text => s \in Positions
<1>1. pc \in Open /\ pc \in Bodies
  BY DEF Open, Bodies
<1>2. /\ Given /\ cur \in Positions /\ (in_text => s \in Positions)
  BY <1>1, OpenFacts, BodyFacts
<1>3. InWide
  BY DEF Read
<1>4. cur + 2 \in Positions /\ cur \in Nat
  <2>1. text[cur + 1] = QUOTE /\ cur + 1 \in Positions
    BY <1>1, <1>3, OpenFacts DEF InWide, QuoteAt
  <2>2. (cur + 1) + 1 \in Positions
    <3>1. text[cur + 1] # NUL
      BY <2>1, Classes
    <3>2. QED
      BY <1>2, <2>1, <3>1, NextPosition
  <2>3. QED
    BY <1>2, <2>2 DEF Positions
<1>5. QED
  BY <1>1, <1>2, <1>3, <1>4 DEF InWide, WidthOf

\* The one character of a wide literal.
LEMMA WideCharGoes ==
    ASSUME IInv, TInv, Inside, Ordinary, Tried, Read, WideChar
    PROVE  Tried' /\ Read' /\ Decided'
<1>1. PICK w, p : w = WidthOf(text[cur]) /\ p = cur + 2
  OBVIOUS
<1>2. pc = "wide" /\ in_text /\ ~invalid_utf8
  BY DEF WideChar
<1>3. /\ pc \in Bodies /\ Given /\ cur \in Positions /\ QuoteAt(cur) /\ text[cur] # QUOTE
      /\ width = w /\ w \in {2, 4} /\ p \in Positions /\ cur \in Nat
  BY <1>1, <1>2, InWideFacts
<1>4. s = p /\ text[p] # QUOTE /\ ~Alarmed(queue)
  BY <1>1, <1>2 DEF Inside, Tried, Read
<1>5. PICK e, c :
         /\ e = IF text[s] = BACKSLASH THEN escape.end ELSE s + decode_utf8(text, s).len
         /\ c = IF text[s] = BACKSLASH THEN escape.val ELSE decode_utf8(text, s).code
  OBVIOUS
<1>6. /\ pc' = "wide_close" /\ s' = e /\ UNCHANGED <<text, cur, width>>
      /\ arr' = [arr EXCEPT !.items = <<c>>]
      /\ text[s] = BACKSLASH => queue' = alerted(escape).queue
      /\ text[s] # BACKSLASH => queue' = queue
  BY <1>5 DEF WideChar
<1>7. arr'.items = <<c>>
  <2>1. IsArray(arr)
    BY <1>2, <1>3, BodyFacts DEF Typed
  <2>2. QED
    BY <1>6, <2>1 DEF IsArray
<1>8. ASSUME e \in Positions
      PROVE  (Alarmed(queue') <=> Fails(p, w)) /\ (~Fails(p, w) => e = Elt(p, w).end /\ c = Elt(p, w).val)
  <2>1. CASE text[s] = BACKSLASH
    <3>1. /\ IsError(escape) <=> Fails(p, w)
          /\ ~Fails(p, w) => escape.end = Elt(p, w).end /\ escape.val = Elt(p, w).val
      BY <1>2, <1>3, <1>4, <1>5, <1>8, <2>1, EscapeRead
    <3>2. Alarmed(alerted(escape).queue) <=> Alarmed(queue) \/ IsError(escape)
      BY Alarms
    <3>3. QED
      BY <1>4, <1>5, <1>6, <2>1, <3>1, <3>2
  <2>2. CASE text[s] # BACKSLASH
    <3>1. text[p] # NL
      <4>1. SUFFICES ASSUME text[p] = NL PROVE FALSE
        OBVIOUS
      <4>2. NL # NUL
        BY Marks
      <4>3. p + 1 \in Positions
        BY <1>3, <4>1, <4>2, NextPosition
      <4>4. cur \in 1..(Len(text) - 3)
        BY <1>1, <1>3, <4>3, TextFacts DEF Positions
      <4>5. text[cur] \in Chars("LuU") /\ text[cur + 1] = QUOTE
        BY <1>2 DEF Inside
      <4>6. QED
        BY <1>1, <4>1, <4>4, <4>5 DEF Ordinary
    <3>2. ~(text[p] > 127 /\ utf8_len(text[p]) = 0)
      BY <1>2, <1>4 DEF invalid_utf8
    <3>3. e = p + decode_utf8(text, p).len /\ c = decode_utf8(text, p).code
      BY <1>4, <1>5, <2>2
    <3>4. text[p] # BACKSLASH
      BY <1>4, <2>2
    <3>5. ~Fails(p, w) /\ e = Elt(p, w).end /\ Elt(p, w).val = decode_utf8(text, p).code
      BY <1>3, <1>8, <3>1, <3>2, <3>3, <3>4, CharacterRead
    <3>6. ~Alarmed(queue')
      BY <1>4, <1>6, <2>2
    <3>7. QED
      BY <3>3, <3>5, <3>6
  <2>3. QED
    BY <2>1, <2>2
<1>9. ASSUME e \in Positions
      PROVE  Reads(queue', arr'.items, Body(p, QUOTE, w).end, Body(p, QUOTE, w).vals,
                   Body(e, QUOTE, w).end, Body(e, QUOTE, w).vals)
  <2>0. w \in {1, 2, 4}
    BY <1>3
  <2>1. CASE Fails(p, w)
    <3>1. Body(p, QUOTE, w).end = 0
      BY <1>3, <1>4, <2>0, <2>1, BodyEnds
    <3>2. QED
      BY <1>8, <1>9, <2>1, <3>1 DEF Reads
  <2>2. CASE ~Fails(p, w)
    <3>1. /\ Body(p, QUOTE, w).end = Body(Elt(p, w).end, QUOTE, w).end
          /\ Body(p, QUOTE, w).vals = <<Elt(p, w).val>> \o Body(Elt(p, w).end, QUOTE, w).vals
      BY <1>3, <1>4, <2>0, <2>2, BodyOn
    <3>2. QED
      BY <1>7, <1>8, <1>9, <2>2, <3>1 DEF Reads
  <2>3. QED
    BY <2>1, <2>2
<1>10. CharRead(p)'
  BY <1>3, <1>6, <1>9, CharReadSame
<1>11. WideRead'
  <2>1. Len(arr'.items) = 1
    BY <1>7
  <2>2. CharRead(cur + 2)'
    BY <1>1, <1>6, <1>10
  <2>3. QED
    BY <2>1, <2>2 DEF WideRead
<1>12. InWide'
  BY <1>1, <1>3, <1>6, PlaceSame DEF InWide, WidthOf
<1>13. QED
  BY <1>6, <1>11, <1>12 DEF Tried, Read, Decided

\* What is read of a wide literal behind its character.
LEMMA WideReads ==
    ASSUME IInv, TInv, Read, pc = "wide_close", in_text, NEW w, w = WidthOf(text[cur]),
           NEW p, p = cur + 2
    PROVE  /\ Len(arr.items) = 1 /\ arr.items \in Seq(Nat)
           /\ Reads(queue, arr.items, Body(p, QUOTE, w).end, Body(p, QUOTE, w).vals,
                    Body(s, QUOTE, w).end, Body(s, QUOTE, w).vals)
<1>1. WideRead
  BY DEF Read
<1>2. s \in Positions /\ width = w /\ arr.items \in Seq(Nat)
  <2>1. s \in Positions /\ width = w /\ pc \in Bodies
    BY InWideFacts
  <2>2. arr.items \in Seq(Nat)
    BY <2>1, BodyFacts
  <2>3. QED
    BY <2>1, <2>2
<1>3. QED
  BY <1>1, <1>2 DEF WideRead, CharRead

\* The end of a wide literal, or a second character of it.
LEMMA WideCloseGoes ==
    ASSUME IInv, TInv, Tried, Read, WideClose
    PROVE  Tried' /\ Read' /\ Decided'
<1>1. PICK w, p, b, x, items : /\ w = WidthOf(text[cur]) /\ p = cur + 2 /\ b = Body(p, QUOTE, w)
                               /\ x = Body(s, QUOTE, w) /\ items = arr.items
  OBVIOUS
<1>2. pc = "wide_close" /\ in_text
  BY DEF WideClose
<1>3. /\ pc \in Open /\ pc \in Bodies /\ Given /\ cur \in Positions /\ QuoteAt(cur) /\ text[cur] # QUOTE
      /\ w \in {1, 2, 4} /\ p \in Positions /\ cur \in Nat /\ s \in Positions
  BY <1>1, <1>2, InWideFacts
<1>4. Len(items) = 1 /\ items \in Seq(Nat) /\ Reads(queue, items, b.end, b.vals, x.end, x.vals)
  BY <1>1, <1>2, WideReads
<1>5. b = Body(cur + 2, QUOTE, WidthOf(text[cur]))
  BY <1>1
<1>6. b.end = 0 \/ Len(b.vals) # 1 => Refused(cur)
  BY <1>3, <1>5, WideBodyIs
<1>7. x.end \in Nat /\ x.vals \in Seq(Nat)
  BY <1>1, <1>3, BodyEnds
<1>8. CASE text[s] = QUOTE /\ SetToken("TK_ICONST", arr.items[1], 0, <<>>, s + 1) /\ Quiet
  <2>1. Alarmed(queue)' <=> Alarmed(queue)
    BY <1>8, Alarms DEF Quiet, alertVars
  <2>2. CASE Alarmed(queue)
    <3>1. Refused(cur)
      BY <1>4, <1>6, <2>2 DEF Reads
    <3>2. pc' = "report" /\ i' = 1 /\ UNCHANGED <<text, cur>>
      BY <1>8 DEF SetToken
    <3>3. QED
      BY <2>1, <2>2, <3>1, <3>2, Refuses
  <2>3. CASE ~Alarmed(queue)
    <3>1. x.end = s + 1 /\ x.vals = <<>>
      BY <1>1, <1>3, <1>8, BodyEnds
    <3>2. b.end = s + 1 /\ b.vals = items
      <4>1. items \o <<>> = items
        BY <1>4
      <4>2. QED
        BY <1>4, <2>3, <3>1, <4>1 DEF Reads
    <3>3. PICK end, val : end = s + 1 /\ val = arr.items[1]
      OBVIOUS
    <3>4. b.end # 0 /\ b.vals # <<>> /\ Len(b.vals) = 1
      <4>1. items # <<>>
        <5>1. Len(<<>>) = 0
          OBVIOUS
        <5>2. Len(items) = 1
          BY <1>4
        <5>3. QED
          BY <5>1, <5>2
      <4>2. QED
        BY <1>3, <1>4, <3>2, <4>1 DEF Positions
    <3>5. CharLiterals(cur) = {b}
      BY <1>3, <1>5, <3>4, WideBodyIs
    <3>6. end \in (cur + 2)..Len(text)
      <4>1. end \in Positions
        BY <1>2, <1>3, <1>8, <3>3, EndFacts
      <4>2. b.end = 0 \/ b.end > p
        BY <1>1, <1>3, BodyBeyond
      <4>3. QED
        BY <1>1, <1>3, <3>2, <3>3, <3>4, <4>1, <4>2, TextFacts DEF Positions
    <3>7. ASSUME NEW t, IsMade(t, "TK_ICONST", val, <<>>, end)
          PROVE  Fine(t)
      <4>1. t.token_type = "TK_ICONST" /\ t.loc = cur /\ t.size = b.end - cur /\ t.int_val = b.vals[1]
        BY <1>1, <3>2, <3>3, <3>7 DEF IsMade
      <4>2. b.end \in (cur + 2)..Len(text)
        BY <3>2, <3>3, <3>6
      <4>3. QED
        BY <1>3, <3>5, <4>1, <4>2, CharLiteralRight
    <3>8. SetToken("TK_ICONST", val, 0, <<>>, end)
      BY <1>8, <3>3
    <3>9. ~Alarmed(queue)'
      BY <2>1, <2>3
    <3>10. QED
      BY <1>3, <3>7, <3>8, <3>9, Accepted
  <2>4. QED
    BY <2>2, <2>3
<1>9. CASE text[s] # QUOTE /\ Goto("wide_rest") /\ Push("ALERT_ERR", "multiple characters")
  <2>1. pc' = "wide_rest" /\ UNCHANGED <<text, cur>>
    BY <1>9 DEF Goto
  <2>2. Alarmed(queue)'
    BY <1>9, Alarms
  <2>3. Refused(cur)
    <3>1. CASE Alarmed(queue)
      BY <1>4, <1>6, <3>1 DEF Reads
    <3>2. CASE ~Alarmed(queue) /\ Fails(s, w)
      <4>1. x.end = 0
        BY <1>1, <1>3, <1>9, <3>2, BodyEnds
      <4>2. QED
        BY <1>4, <1>6, <3>2, <4>1 DEF Reads
    <3>3. CASE ~Alarmed(queue) /\ ~Fails(s, w)
      <4>1. PICK v, rest : v = Elt(s, w).val /\ rest = Body(Elt(s, w).end, QUOTE, w).vals
        OBVIOUS
      <4>2. x.vals = <<v>> \o rest
        BY <1>1, <1>3, <1>9, <3>3, <4>1, BodyOn
      <4>3. v \in Nat /\ rest \in Seq(Nat)
        BY <1>3, <3>3, <4>1, EltFacts, BodyEnds
      <4>4. Len(items \o x.vals) >= 2
        <5>1. Len(x.vals) = 1 + Len(rest) /\ Len(rest) \in Nat
          BY <4>2, <4>3
        <5>2. \A a, c \in Seq(Nat) : Len(a \o c) = Len(a) + Len(c)
          OBVIOUS
        <5>3. Len(items \o x.vals) = Len(items) + Len(x.vals)
          BY <1>4, <1>7, <5>2
        <5>4. QED
          BY <1>4, <5>1, <5>3
      <4>5. b.vals = items \o x.vals
        BY <1>4, <3>3 DEF Reads
      <4>6. Len(b.vals) # 1
        BY <4>4, <4>5
      <4>7. QED
        BY <1>6, <4>6
    <3>4. QED
      BY <3>1, <3>2, <3>3
  <2>4. Refused(cur)'
    BY <2>1, <2>3, PlaceSame
  <2>5. QED
    BY <2>1, <2>2, <2>4 DEF Tried, Read, Decided
<1>10. QED
  BY <1>8, <1>9 DEF WideClose

\* The rest of a wide literal of more than one character.
LEMMA WideRestGoes ==
    ASSUME IInv, TInv, Read, WideRest
    PROVE  Tried' /\ Read' /\ Decided'
<1>1. /\ pc = "wide_rest" /\ pc' = "report" /\ i' = 1 /\ UNCHANGED <<text, cur>>
      /\ Quiet \/ Push("ALERT_ERR", "unterminated character literal")
  BY DEF WideRest, SetToken
<1>2. Alarmed(queue) /\ Refused(cur)
  BY <1>1 DEF Read
<1>3. Alarmed(queue)'
  <2>1. CASE Quiet
    BY <1>2, <2>1, Alarms DEF Quiet, alertVars
  <2>2. CASE Push("ALERT_ERR", "unterminated character literal")
    BY <2>2, Alarms
  <2>3. QED
    BY <1>1, <2>1, <2>2
<1>4. QED
  BY <1>1, <1>2, <1>3, Refuses

\* The literal at a double quote is its body, if that is one.
LEMMA StringBodyIs ==
    ASSUME Given, cur \in Positions, DquoteAt(cur),
           NEW b, b = Body(StringStart(cur), DQUOTE, StringWidth(cur))
    PROVE  /\ b.end = 0 => Refused(cur)
           /\ b.end # 0 => StringLiterals(cur) = {b}
<1>1. StringLiterals(cur) = {l \in {b} : l.end # 0}
  BY LiteralsAre
<1>2. ASSUME b.end = 0 PROVE Refused(cur)
  <2>1. StringLiterals(cur) = {}
    BY <1>1, <1>2
  <2>2. QED
    BY <2>1, LiteralRefused
<1>3. QED
  BY <1>1, <1>2

\* A string literal that is read.
LEMMA InStringFacts ==
    ASSUME IInv, TInv, Read, pc = "str_body", in_text,
           NEW start, start = StringStart(cur), NEW w, w = StringWidth(cur)
    PROVE  /\ pc \in Open /\ pc \in Bodies /\ Given /\ cur \in Positions /\ s \in Positions /\ cur <= s
           /\ DquoteAt(cur) /\ ~QuoteAt(cur) /\ width = w /\ w \in {1, 2, 4} /\ start \in Positions
           /\ Typed(arr, Nat) /\ arr.items \in Seq(Nat) /\ heap \in Seq(Nat)
           /\ StringRead(start)
           /\ Reads(queue, arr.items, Body(start, DQUOTE, w).end, Body(start, DQUOTE, w).units,
                    Body(s, DQUOTE, w).end, Body(s, DQUOTE, w).units)
<1>1. pc \in Open /\ pc \in Bodies
  BY DEF Open, Bodies
<1>2. /\ Given /\ cur \in Positions /\ s \in Positions /\ cur <= s
      /\ Typed(arr, Nat) /\ arr.items \in Seq(Nat) /\ heap \in Seq(Nat)
  BY <1>1, OpenFacts, BodyFacts
<1>3. InString
  BY DEF Read
<1>4. start \in Positions
  BY <1>2, <1>3, StringStartIs DEF InString
<1>5. w \in {1, 2, 4}
  BY DEF StringWidth, WidthOf
<1>6. QED
  BY <1>1, <1>2, <1>3, <1>4, <1>5 DEF InString, StringRead

\* On inside a string literal.
LEMMA InStringGoes ==
    ASSUME IInv, TInv, Read, pc = "str_body", in_text, text[s] # DQUOTE,
           UNCHANGED <<text, cur, pc, width>>, NEW e, s' = e, NEW p, p = s, NEW w, w = width,
           e \in Positions => /\ Alarmed(queue)' <=> Alarmed(queue) \/ Fails(p, w)
                              /\ ~Fails(p, w) => /\ e = Elt(p, w).end
                                                 /\ arr'.items = arr.items \o UnitsAt(p, w)
    PROVE  Tried' /\ Read' /\ Decided'
<1>1. PICK start : start = StringStart(cur)
  OBVIOUS
<1>2. /\ Given /\ p \in Positions /\ text[p] # DQUOTE /\ w \in {1, 2, 4}
      /\ arr.items \in Seq(Nat) /\ StringRead(start)
  BY <1>1, InStringFacts
<1>3. StringRead(start)'
  BY <1>2, StringReadOn
<1>4. InString'
  <2>1. DquoteAt(cur) /\ ~QuoteAt(cur) /\ width = StringWidth(cur)
    BY InStringFacts
  <2>2. StringStart(cur)' = start /\ StringWidth(cur)' = StringWidth(cur)
    BY <1>1, PlaceSame
  <2>3. DquoteAt(cur)' /\ ~QuoteAt(cur)'
    BY <2>1, PlaceSame
  <2>4. QED
    BY <1>3, <2>1, <2>2, <2>3 DEF InString
<1>5. QED
  BY <1>4 DEF Tried, Read, Decided

\* A text that is read beyond its end, of which nothing is said.
LEMMA OverrunGoes ==
    ASSUME Tried, Overrun
    PROVE  Tried' /\ Read' /\ Decided'
  BY DEF Overrun, Goto, Tried, Read, Decided

\* A byte that begins no UTF-8 sequence, inside a literal.
LEMMA InvalidGoes ==
    ASSUME IInv, TInv, Inside, Ordinary, Tried, Read, InvalidUtf8
    PROVE  Tried' /\ Read' /\ Decided'
<1>1. /\ in_text /\ text[s] > 127 /\ utf8_len(text[s]) = 0
      /\ pc = "wide" \/ (pc = "str_body" /\ width # 1)
      /\ pc' = "exit" /\ UNCHANGED <<text, cur>>
  BY DEF InvalidUtf8, invalid_utf8, Goto, CW_UTF8
<1>2. Refused(cur)
  <2>1. PICK p : p = s
    OBVIOUS
  <2>2. CASE pc = "wide"
    <3>1. PICK w : w = WidthOf(text[cur])
      OBVIOUS
    <3>2. /\ Given /\ cur \in Positions /\ QuoteAt(cur) /\ text[cur] # QUOTE
          /\ p \in Positions /\ w \in {2, 4}
      BY <1>1, <2>1, <2>2, <3>1, InWideFacts
    <3>3. p = cur + 2
      BY <2>1, <2>2 DEF Inside
    <3>4. Fails(p, w) /\ text[p] # QUOTE
      BY <1>1, <2>1, <3>2, InvalidFails
    <3>5. w \in {1, 2, 4}
      BY <3>2
    <3>6. Body(p, QUOTE, w).end = 0
      BY <3>2, <3>4, <3>5, BodyEnds
    <3>7. QED
      BY <3>1, <3>2, <3>3, <3>6, WideBodyIs
  <2>3. CASE pc = "str_body" /\ width # 1
    <3>1. PICK w, start : w = StringWidth(cur) /\ start = StringStart(cur)
      OBVIOUS
    <3>2. /\ Given /\ cur \in Positions /\ DquoteAt(cur) /\ p \in Positions
          /\ w \in {1, 2, 4} /\ w = width
          /\ Reads(queue, arr.items, Body(start, DQUOTE, w).end, Body(start, DQUOTE, w).units,
                   Body(p, DQUOTE, w).end, Body(p, DQUOTE, w).units)
      BY <1>1, <2>1, <2>3, <3>1, InStringFacts
    <3>3. w \in {2, 4}
      BY <2>3, <3>2
    <3>4. Fails(p, w) /\ text[p] # DQUOTE
      BY <1>1, <2>1, <3>2, <3>3, InvalidFails
    <3>5. Body(p, DQUOTE, w).end = 0
      BY <3>2, <3>4, BodyEnds
    <3>6. Body(start, DQUOTE, w).end = 0
      BY <3>2, <3>5, ReadsNone
    <3>7. QED
      BY <3>1, <3>2, <3>6, StringBodyIs
  <2>4. QED
    BY <1>1, <2>2, <2>3
<1>3. Refused(cur)'
  BY <1>1, <1>2, PlaceSame
<1>4. QED
  BY <1>1, <1>3 DEF Tried, Read, Decided

\* An escape in a string literal.
LEMMA StringEscapeGoes ==
    ASSUME IInv, TInv, Ordinary, Read, StringEscape
    PROVE  Tried' /\ Read' /\ Decided'
<1>1. /\ pc = "str_body" /\ in_text /\ text[s] = BACKSLASH
      /\ queue' = alerted(escape).queue /\ s' = escape.end
      /\ arr' = array_push_back(arr, unit(escape.val), alerted(escape).heap).arr
      /\ UNCHANGED <<text, cur, pc, width>>
  BY DEF StringEscape, Advance
<1>2. PICK p, w, e : p = s /\ w = width /\ e = escape.end
  OBVIOUS
<1>3. /\ Typed(arr, Nat) /\ arr.items \in Seq(Nat) /\ pc \in Bodies
  BY <1>1, InStringFacts
<1>4. text[s] # DQUOTE /\ text[p] = BACKSLASH
  BY <1>1, <1>2, Marks
<1>5. unit(escape.val) \in Nat /\ alerted(escape).heap \in Seq(Nat)
  BY <1>1, <1>3, InsideEscape, UnitTyped
<1>6. arr'.items = arr.items \o <<unit(escape.val)>>
  BY <1>1, <1>3, <1>5, PushOne
<1>7. Alarmed(queue)' <=> Alarmed(queue) \/ IsError(escape)
  <2>1. Alarmed(alerted(escape).queue) <=> Alarmed(queue) \/ IsError(escape)
    BY Alarms
  <2>2. QED
    BY <1>1, <2>1 DEF Alarmed
<1>8. e \in Positions => /\ IsError(escape) <=> Fails(p, w)
                         /\ ~Fails(p, w) => e = Elt(p, w).end /\ unit(escape.val) = Elt(p, w).val
  BY <1>1, <1>2, <1>3, EscapeRead
<1>9. UnitsAt(p, w) = <<Elt(p, w).val>>
  BY <1>4 DEF UnitsAt
<1>10. s' = e
  BY <1>1, <1>2
<1>11. QED
  BY <1>1, <1>2, <1>4, <1>6, <1>7, <1>8, <1>9, <1>10, InStringGoes

\* A byte in a string literal of bytes.
LEMMA StringByteGoes ==
    ASSUME IInv, TInv, Ordinary, Read, StringPlain, width = 1
    PROVE  Tried' /\ Read' /\ Decided'
<1>1. /\ pc = "str_body" /\ in_text /\ text[s] \notin {NUL, NL, DQUOTE, BACKSLASH}
      /\ queue' = queue /\ s' = s + 1 /\ arr' = array_push_back(arr, text[s], heap).arr
      /\ UNCHANGED <<text, cur, pc, width>>
  <2>1. width = CW_UTF8 /\ width # CW_UTF16 /\ width # CW_UTF32
    BY DEF CW_UTF8, CW_UTF16, CW_UTF32
  <2>2. PICK a, d : a = array_push_back(arr, text[s], heap) /\ d = decode_utf8(text, s)
    OBVIOUS
  <2>3. /\ pc = "str_body" /\ in_text /\ text[s] \notin {NUL, NL, DQUOTE, BACKSLASH}
        /\ queue' = queue /\ Advance(s + 1, a.arr)
    BY <2>1, <2>2 DEF StringPlain, at_line_end
  <2>4. QED
    BY <2>2, <2>3 DEF Advance
<1>2. PICK p, w, e : p = s /\ w = 1 /\ e = s + 1
  OBVIOUS
<1>3. /\ Typed(arr, Nat) /\ arr.items \in Seq(Nat) /\ heap \in Seq(Nat) /\ Given /\ s \in Positions
      /\ pc \in Bodies
  BY <1>1, InStringFacts
<1>4. text[s] \in Nat
  <2>1. text[s] \in 0..255
    BY <1>3, TextFacts
  <2>2. QED
    BY <2>1
<1>5. arr'.items = arr.items \o <<text[s]>>
  BY <1>1, <1>3, <1>4, PushOne
<1>6. Alarmed(queue)' <=> Alarmed(queue)
  BY <1>1, Alarms
<1>7. ~Fails(s, 1) /\ Elt(s, 1).end = s + 1 /\ UnitsAt(s, 1) = <<text[s]>>
  BY <1>1, <1>3, ByteIs
<1>8. text[s] # DQUOTE /\ s' = e /\ w = width
  BY <1>1, <1>2
<1>9. /\ Alarmed(queue)' <=> Alarmed(queue) \/ Fails(p, w)
      /\ ~Fails(p, w) => e = Elt(p, w).end /\ arr'.items = arr.items \o UnitsAt(p, w)
  BY <1>2, <1>5, <1>6, <1>7
<1>10. QED
  BY <1>1, <1>2, <1>8, <1>9, InStringGoes

\* A character in a wide string literal.
LEMMA StringWideGoes ==
    ASSUME IInv, TInv, Ordinary, Read, StringPlain, width # 1
    PROVE  Tried' /\ Read' /\ Decided'
<1>1. PICK p, w, e, c : /\ p = s /\ w = width /\ e = s + decode_utf8(text, s).len
                        /\ c = decode_utf8(text, s).code
  OBVIOUS
<1>2. /\ pc = "str_body" /\ in_text /\ text[s] \notin {NUL, NL, DQUOTE, BACKSLASH}
      /\ ~(text[s] > 127 /\ utf8_len(text[s]) = 0)
      /\ queue' = queue /\ s' = e
      /\ width = CW_UTF16 => arr' = encode_utf16(c, arr, heap).arr
      /\ width = CW_UTF32 => arr' = encode_utf32(c, arr, heap).arr
      /\ UNCHANGED <<text, cur, pc, width>>
  BY <1>1, WidthValues DEF StringPlain, Advance, at_line_end, CW_UTF8, invalid_utf8
<1>3. /\ Typed(arr, Nat) /\ arr.items \in Seq(Nat) /\ heap \in Seq(Nat) /\ Given /\ p \in Positions
      /\ w \in {1, 2, 4} /\ pc \in Bodies
  BY <1>1, <1>2, InStringFacts
<1>4. w \in {2, 4}
  BY <1>1, <1>3
<1>5. /\ text[p] # BACKSLASH /\ text[p] # NL /\ ~(text[p] > 127 /\ utf8_len(text[p]) = 0)
      /\ e = p + decode_utf8(text, p).len /\ c = decode_utf8(text, p).code
  BY <1>1, <1>2
<1>6. c \in Nat
  BY <1>3, <1>5, DecodeFacts
<1>7. Alarmed(queue)' <=> Alarmed(queue)
  BY <1>2, Alarms
<1>8. ASSUME e \in Positions
      PROVE  /\ Alarmed(queue)' <=> Alarmed(queue) \/ Fails(p, w)
             /\ ~Fails(p, w) => e = Elt(p, w).end /\ arr'.items = arr.items \o UnitsAt(p, w)
  <2>1. ~Fails(p, w) /\ e = Elt(p, w).end /\ Elt(p, w).val = c /\ c <= MAX_CODE_POINT
    <3>1. /\ ~Fails(p, w) /\ e = Elt(p, w).end /\ Elt(p, w).val = decode_utf8(text, p).code
          /\ Elt(p, w).val <= MAX_CODE_POINT
      BY <1>3, <1>4, <1>5, <1>8, CharacterRead
    <3>2. QED
      BY <1>5, <3>1
  <2>2. UnitsAt(p, w) = Units(c, w)
    BY <1>5, <2>1 DEF UnitsAt
  <2>3. arr'.items = arr.items \o Units(c, w)
    <3>1. CASE w = 2
      <4>1. width = CW_UTF16
        BY <1>1, <3>1, WidthValues
      <4>2. encode_utf16(c, arr, heap).arr.items = arr.items \o Units(c, CW_UTF16)
        BY <1>3, <1>6, <2>1, EncodeIs
      <4>3. QED
        BY <1>1, <1>2, <4>1, <4>2
    <3>2. CASE w = 4
      <4>1. width = CW_UTF32
        BY <1>1, <3>2, WidthValues
      <4>2. encode_utf32(c, arr, heap).arr.items = arr.items \o Units(c, CW_UTF32)
        BY <1>3, <1>6, EncodeIs
      <4>3. QED
        BY <1>1, <1>2, <4>1, <4>2
    <3>3. QED
      BY <1>4, <3>1, <3>2
  <2>4. QED
    BY <1>7, <2>1, <2>2, <2>3
<1>9. text[s] # DQUOTE
  BY <1>2
<1>10. QED
  BY <1>1, <1>2, <1>8, <1>9, InStringGoes

\* A line ends inside a string literal.
LEMMA StringUnterminatedGoes ==
    ASSUME IInv, TInv, Ordinary, Read, StringUnterminated
    PROVE  Tried' /\ Read' /\ Decided'
<1>1. /\ pc = "str_body" /\ in_text /\ text[s] \in {NUL, NL}
      /\ pc' = "report" /\ i' = 1 /\ UNCHANGED <<text, cur>>
      /\ Push("ALERT_ERR", "unterminated string literal")
  BY DEF StringUnterminated, at_line_end, SetToken
<1>2. PICK p, w, start : p = s /\ w = StringWidth(cur) /\ start = StringStart(cur)
  OBVIOUS
<1>3. /\ Given /\ cur \in Positions /\ p \in Positions /\ DquoteAt(cur) /\ w \in {1, 2, 4}
      /\ Reads(queue, arr.items, Body(start, DQUOTE, w).end, Body(start, DQUOTE, w).units,
               Body(p, DQUOTE, w).end, Body(p, DQUOTE, w).units)
  BY <1>1, <1>2, InStringFacts
<1>4. text[p] # DQUOTE /\ Fails(p, w)
  <2>1. NUL # DQUOTE /\ NL # DQUOTE
    BY Marks
  <2>2. QED
    BY <1>1, <1>2, <2>1 DEF Fails
<1>5. Body(p, DQUOTE, w).end = 0
  BY <1>3, <1>4, BodyEnds
<1>6. Body(start, DQUOTE, w).end = 0
  BY <1>3, <1>5, ReadsNone
<1>7. Refused(cur)
  BY <1>2, <1>3, <1>6, StringBodyIs
<1>8. Alarmed(queue)'
  BY <1>1, Alarms
<1>9. QED
  BY <1>1, <1>7, <1>8, Refuses

\* The end of a string literal.
LEMMA StringCloseGoes ==
    ASSUME IInv, TInv, Ordinary, Read, StringClose
    PROVE  Tried' /\ Read' /\ Decided'
<1>1. PICK a : a = array_push_back(arr, 0, heap).arr
  OBVIOUS
<1>2. /\ pc = "str_body" /\ in_text /\ text[s] = DQUOTE
      /\ SetToken("TK_STRLIT", 0, a.buf, a.items, s + 1) /\ queue' = queue
  BY <1>1 DEF StringClose
<1>3. PICK p, w, start, b, x, items : /\ p = s /\ w = StringWidth(cur) /\ start = StringStart(cur)
                                      /\ b = Body(start, DQUOTE, w) /\ x = Body(p, DQUOTE, w)
                                      /\ items = arr.items
  OBVIOUS
<1>4. /\ pc \in Open /\ pc \in Bodies /\ Given /\ cur \in Positions /\ p \in Positions
      /\ DquoteAt(cur) /\ w \in {1, 2, 4} /\ start \in Positions /\ items \in Seq(Nat)
      /\ Typed(arr, Nat) /\ heap \in Seq(Nat)
      /\ Reads(queue, items, b.end, b.units, x.end, x.units)
  BY <1>2, <1>3, InStringFacts
<1>5. b = Body(StringStart(cur), DQUOTE, StringWidth(cur))
  BY <1>3
<1>6. Alarmed(queue)' <=> Alarmed(queue)
  BY <1>2, Alarms
<1>7. CASE Alarmed(queue)
  <2>1. Refused(cur)
    BY <1>4, <1>5, <1>7, StringBodyIs DEF Reads
  <2>2. pc' = "report" /\ i' = 1 /\ UNCHANGED <<text, cur>>
    BY <1>2 DEF SetToken
  <2>3. QED
    BY <1>6, <1>7, <2>1, <2>2, Refuses
<1>8. CASE ~Alarmed(queue)
  <2>1. x.end = p + 1 /\ x.units = <<>>
    BY <1>2, <1>3, <1>4, BodyEnds
  <2>2. PICK end, str, chars : end = s + 1 /\ str = a.buf /\ chars = a.items
    OBVIOUS
  <2>3. b.end = end /\ b.units = items
    <3>1. items \o <<>> = items
      BY <1>4
    <3>2. b.end = p + 1 /\ b.units = items
      BY <1>4, <1>8, <2>1, <3>1 DEF Reads
    <3>3. QED
      BY <1>3, <2>2, <3>2
  <2>4. chars = Append(b.units, 0)
    <3>1. 0 \in Nat
      OBVIOUS
    <3>2. a.items = items \o <<0>> /\ Append(items, 0) = items \o <<0>>
      BY <1>1, <1>3, <1>4, <3>1, PushOne
    <3>3. QED
      BY <2>2, <2>3, <3>2
  <2>5. end \in Positions
    BY <1>2, <1>4, <2>2, EndFacts
  <2>6. b.end # 0
    BY <2>3, <2>5 DEF Positions
  <2>7. b.end > start
    BY <1>3, <1>4, <2>6, BodyBeyond
  <2>8. start \in Nat /\ cur < start
    <3>1. cur \in Nat
      BY <1>4 DEF Positions
    <3>2. start \in {cur + 1, cur + 2, cur + 3}
      BY <1>3 DEF StringStart
    <3>3. QED
      BY <3>1, <3>2
  <2>9. b.end \in (cur + 1)..Len(text) /\ b.end >= StringStart(cur) /\ StringStart(cur) \in Nat
    <3>1. cur \in Nat /\ end \in Nat /\ end <= Len(text) /\ Len(text) \in Nat
      BY <1>4, <2>5, TextFacts DEF Positions
    <3>2. QED
      BY <1>3, <2>3, <2>7, <2>8, <3>1
  <2>10. StringLiterals(cur) = {b}
    BY <1>4, <1>5, <2>6, StringBodyIs
  <2>11. ASSUME NEW t, IsMade(t, "TK_STRLIT", 0, chars, end)
         PROVE  Fine(t)
    <3>1. /\ t.token_type = "TK_STRLIT" /\ t.loc = cur /\ t.size = b.end - cur
          /\ t.chars = Append(b.units, 0)
      BY <2>3, <2>4, <2>11 DEF IsMade
    <3>2. QED
      BY <1>4, <2>9, <2>10, <3>1, StringLiteralRight
  <2>12. SetToken("TK_STRLIT", 0, str, chars, end)
    BY <1>2, <2>2
  <2>13. ~Alarmed(queue)'
    BY <1>6, <1>8
  <2>14. QED
    BY <1>4, <2>11, <2>12, <2>13, Accepted
<1>9. QED
  BY <1>7, <1>8

-----------------------------------------------------------------------------
(* Between tokens.                                                         *)

\* White space.
LEMMA SkipGoes ==
    ASSUME Tried, SkipNewline \/ SkipSpace
    PROVE  Tried' /\ Read' /\ Decided'
<1>1. pc = "loop" /\ pc' = "loop" /\ queue' = queue
  BY DEF SkipNewline, SkipSpace, alertVars
<1>2. ~Alarmed(queue)'
  BY <1>1 DEF Tried, Alarmed
<1>3. QED
  BY <1>1, <1>2 DEF Tried, Read, Decided

\* What a verdict is about stays.
LEMMA VerdictSame ==
    ASSUME UNCHANGED <<text, cur, tokens, queue>>, Verdict
    PROVE  Verdict'
<1>1. Alarmed(queue)' <=> Alarmed(queue)
  BY DEF Alarmed
<1>2. Refused(cur)' <=> Refused(cur)
  BY PlaceSame
<1>3. Last' = Last
  BY DEF Last
<1>4. PICK t : t = Last
  OBVIOUS
<1>5. Fine(t)' <=> Fine(t)
  BY FineSame
<1>6. QED
  BY <1>1, <1>2, <1>3, <1>4, <1>5 DEF Verdict

\* A report: an error ends lex, a warning does not.
LEMMA ReportGoes ==
    ASSUME IInv, TInv, Decided, ReportAlert
    PROVE  Tried' /\ Read' /\ Decided' /\ UNCHANGED <<text, cur, tokens>> /\ pc = "report"
           /\ pc' \in {"report", "exit"}
<1>1. /\ pc = "report" /\ i <= Len(queue.items) /\ UNCHANGED <<text, cur, tokens, queue>>
      /\ \/ queue.items[i].alert_type = "ALERT_ERR" /\ pc' = "exit"
         \/ queue.items[i].alert_type # "ALERT_ERR" /\ pc' = "report" /\ i' = i + 1
  BY DEF ReportAlert, Reporting
<1>2. Verdict /\ Unreported
  BY <1>1 DEF Decided
<1>3. i \in 1..Len(queue.items) /\ i \in Nat
  BY <1>1 DEF TInv, LiteralTyped, IInv, Shaped, IsArray, IsList
<1>4. CASE queue.items[i].alert_type = "ALERT_ERR" /\ pc' = "exit"
  <2>1. Alarmed(queue)
    BY <1>3, <1>4 DEF Alarmed
  <2>2. Refused(cur)
    BY <1>2, <2>1 DEF Verdict
  <2>3. Refused(cur)'
    BY <1>1, <2>2, PlaceSame
  <2>4. QED
    BY <1>1, <1>4, <2>3 DEF Tried, Read, Decided
<1>5. CASE queue.items[i].alert_type # "ALERT_ERR" /\ pc' = "report" /\ i' = i + 1
  <2>1. Verdict'
    BY <1>1, <1>2, VerdictSame
  <2>2. Unreported'
    <3>1. ASSUME NEW k \in 1..Len(queue.items), k < i + 1
          PROVE  queue.items[k].alert_type # "ALERT_ERR"
      <4>1. CASE k = i
        BY <1>5, <4>1
      <4>2. CASE k < i
        BY <1>2, <4>2 DEF Unreported
      <4>3. QED
        BY <1>3, <3>1, <4>1, <4>2
    <3>2. QED
      BY <1>1, <1>5, <3>1 DEF Unreported
  <2>3. QED
    BY <1>1, <1>5, <2>1, <2>2 DEF Tried, Read, Decided
<1>6. QED
  BY <1>1, <1>4, <1>5

\* All alerts are reported, and lex goes on behind the token.
LEMMA ReportedGoes ==
    ASSUME IInv, TInv, Decided, Reported
    PROVE  Tried' /\ Read' /\ Decided' /\ Fine(Last) /\ Last.loc = cur
<1>1. pc = "report" /\ i > Len(queue.items) /\ pc' = "loop" /\ queue' = array_clear(queue)
  BY DEF Reported, alert_queue_clear
<1>2. Verdict /\ Unreported
  BY <1>1 DEF Decided
<1>3. IsArray(queue) /\ Len(queue.items) \in Nat /\ i \in Nat
  BY DEF TInv, LiteralTyped, IInv, Shaped, IsArray, IsList
<1>4. ~Alarmed(queue)
  BY <1>1, <1>2, <1>3 DEF Alarmed, Unreported
<1>5. ~Alarmed(queue)'
  <2>1. queue'.items = <<>>
    BY <1>1, <1>3 DEF array_clear, IsArray
  <2>2. Len(queue'.items) = 0
    BY <2>1
  <2>3. QED
    BY <2>2 DEF Alarmed
<1>6. QED
  BY <1>1, <1>2, <1>4, <1>5 DEF Verdict, Tried, Read, Decided

\* The end of the text.
LEMMA EndGoes ==
    ASSUME IInv, TInv, EndOfText
    PROVE  Tried' /\ Read' /\ Decided'
<1>1. PICK t : t = [NewToken EXCEPT !.token_type = "TK_EOF"]
  OBVIOUS
<1>2. /\ pc = "loop" /\ text[cur] = NUL /\ pc' = "returned" /\ UNCHANGED <<text, cur>>
      /\ tokens' = array_push_back(tokens, t, heap).arr
  BY <1>1 DEF EndOfText
<1>3. t \in Token /\ t.token_type = "TK_EOF"
  BY <1>1, NewTyped DEF NewToken
<1>4. Last' = t
  BY <1>2, <1>3, AddedTyped
<1>5. cur = Len(text)
  BY <1>2, TextFacts DEF TInv, Placed
<1>6. QED
  BY <1>2, <1>3, <1>4, <1>5 DEF Tried, Read, Decided

\* Nothing is said of what the caller does with the tokens.
LEMMA DestroyGoes ==
    ASSUME destroy_tokens \/ FreeLiteral \/ FreeTokens
    PROVE  Tried' /\ Read' /\ Decided' /\ Chained'
<1>1. pc' \in {"destroy", "done"}
  BY DEF destroy_tokens, FreeLiteral, FreeTokens
<1>2. QED
  BY <1>1 DEF Tried, Read, Decided, Chained

-----------------------------------------------------------------------------
(* Every step.                                                             *)

\* The sub-lexers.
LEMMA SubLexerGoes ==
    ASSUME IInv, TInv, Tried, SubLexer
    PROVE  Tried' /\ Read' /\ Decided'
  BY NumericGoes, CharGoes, StringGoes, IdentifierGoes, PunctuatorGoes DEF SubLexer

\* The bodies of character literals.
LEMMA CharLiteralGoes ==
    ASSUME IInv, TInv, Inside, Ordinary, Tried, Read, CharLiteral
    PROVE  Tried' /\ Read' /\ Decided'
  BY CharCloseGoes, CharEscapeGoes, CharPlainGoes, CharUnterminatedGoes, WideCharGoes,
     WideCloseGoes, WideRestGoes DEF CharLiteral

\* The bodies of string literals.
LEMMA StringLiteralGoes ==
    ASSUME IInv, TInv, Ordinary, Read, StringLiteral
    PROVE  Tried' /\ Read' /\ Decided'
  BY StringCloseGoes, StringEscapeGoes, StringByteGoes, StringWideGoes, StringUnterminatedGoes
  DEF StringLiteral

\* A step that leaves everything as it is.
LEMMA StutterGoes ==
    ASSUME UNCHANGED vars, Ordinary, Chained, Tried, Read, Decided
    PROVE  Chained' /\ Tried' /\ Read' /\ Decided'
<1>1. UNCHANGED <<text, cur, tokens, queue, pc, s, width, arr, i>>
  BY DEF vars, lexVars, alertVars
<1>2. Chained'
  <2>1. CASE pc \in {"destroy", "done"}
    BY <1>1, <2>1 DEF Chained
  <2>2. CASE pc \notin {"destroy", "done"}
    <3>1. PICK a, n, p : a = tokens.items /\ n = Through(pc, tokens.items) /\ p = cur
      OBVIOUS
    <3>2. Chain(a, n, p)
      BY <2>2, <3>1 DEF Chained
    <3>3. Chain(a, n, p)'
      <4>1. \A t : Fine(t)' <=> Fine(t)
        BY <1>1, FineSame
      <4>2. \A x, y : Spaced(x, y)' <=> Spaced(x, y)
        BY <1>1 DEF Spaced, IsIn
      <4>3. QED
        BY <3>2, <4>1, <4>2 DEF Chain, EndOf
    <3>4. tokens'.items = a /\ Through(pc', tokens'.items) = n /\ cur' = p
      BY <1>1, <3>1 DEF Through
    <3>5. QED
      BY <3>3, <3>4 DEF Chained
  <2>3. QED
    BY <2>1, <2>2
<1>3. Alarmed(queue)' <=> Alarmed(queue)
  BY <1>1 DEF Alarmed
<1>4. Tried'
  BY <1>1, <1>3, PlaceSame DEF Tried
<1>5. ASSUME NEW start, CharRead(start) PROVE CharRead(start)'
  <2>1. PICK p, w : p = s /\ w = width
    OBVIOUS
  <2>2. p \in Positions => Reads(queue', arr'.items, Body(start, QUOTE, w).end,
                                 Body(start, QUOTE, w).vals, Body(p, QUOTE, w).end,
                                 Body(p, QUOTE, w).vals)
    BY <1>1, <1>5, <2>1 DEF CharRead
  <2>3. s' = p /\ width' = w
    BY <1>1, <2>1
  <2>4. QED
    BY <1>1, <2>2, <2>3, CharReadSame
<1>6. ASSUME NEW start, StringRead(start) PROVE StringRead(start)'
  <2>1. PICK p, w : p = s /\ w = width
    OBVIOUS
  <2>2. p \in Positions => Reads(queue', arr'.items, Body(start, DQUOTE, w).end,
                                 Body(start, DQUOTE, w).units, Body(p, DQUOTE, w).end,
                                 Body(p, DQUOTE, w).units)
    BY <1>1, <1>6, <2>1 DEF StringRead
  <2>3. s' = p /\ width' = w
    BY <1>1, <2>1
  <2>4. QED
    BY <1>1, <2>2, <2>3, StringReadSame
<1>7. InChar => InChar'
  <2>1. PICK start : start = cur + 1
    OBVIOUS
  <2>2. CharRead(start) => CharRead(start)'
    BY <1>5
  <2>3. QED
    BY <1>1, <2>1, <2>2 DEF InChar
<1>8. InWide => InWide'
  BY <1>1, PlaceSame DEF InWide, WidthOf
<1>9. WideRead => WideRead'
  <2>1. PICK start : start = cur + 2
    OBVIOUS
  <2>2. CharRead(start) => CharRead(start)'
    BY <1>5
  <2>3. QED
    BY <1>1, <2>1, <2>2 DEF WideRead
<1>10. InString => InString'
  <2>1. PICK start : start = StringStart(cur)
    OBVIOUS
  <2>2. StringRead(start) => StringRead(start)'
    BY <1>6
  <2>3. StringStart(cur)' = start
    BY <1>1, <2>1, PlaceSame
  <2>4. (DquoteAt(cur)' <=> DquoteAt(cur)) /\ (QuoteAt(cur)' <=> QuoteAt(cur))
    BY <1>1, PlaceSame
  <2>5. StringWidth(cur)' = StringWidth(cur) /\ width' = width
    BY <1>1, PlaceSame
  <2>6. QED
    BY <2>1, <2>2, <2>3, <2>4, <2>5 DEF InString
<1>11. Read'
  <2>1. Refused(cur)' <=> Refused(cur)
    BY <1>1, PlaceSame
  <2>2. QED
    BY <1>1, <1>3, <1>7, <1>8, <1>9, <1>10, <2>1 DEF Read
<1>12. Decided'
  <2>1. Verdict => Verdict'
    BY <1>1, VerdictSame
  <2>2. Unreported => Unreported'
    BY <1>1 DEF Unreported
  <2>3. Refused(cur)' <=> Refused(cur)
    BY <1>1, PlaceSame
  <2>4. Last' = Last
    BY <1>1 DEF Last
  <2>5. QED
    BY <1>1, <2>1, <2>2, <2>3, <2>4 DEF Decided
<1>13. QED
  BY <1>2, <1>4, <1>11, <1>12

\* Every step of lex of an ordinary text is right.
LEMMA StepLexed ==
    ASSUME IInv, TInv, Tracked, Inside, Ordinary, Chained, Tried, Read, Decided, Next
    PROVE  Chained' /\ Tried' /\ Read' /\ Decided'
<1>1. CASE SubLexer \/ CharLiteral \/ StringLiteral \/ InvalidUtf8 \/ Overrun
  <2>1. Stays
    BY <1>1, SubLexerStays, CharLiteralStays, StringLiteralStays, StopStays
  <2>2. Chained'
    BY <2>1, ChainStays
  <2>3. Tried' /\ Read' /\ Decided'
    BY <1>1, SubLexerGoes, CharLiteralGoes, StringLiteralGoes, InvalidGoes, OverrunGoes
  <2>4. QED
    BY <2>2, <2>3
<1>2. CASE SkipNewline \/ SkipSpace
  BY <1>2, SkipGoes, ChainSkips
<1>3. CASE lexer_add_token
  BY <1>3, AddGoes, ChainAdds
<1>4. CASE ReportAlert
  <2>1. Tried' /\ Read' /\ Decided'
    BY <1>4, ReportGoes
  <2>2. UNCHANGED <<text, cur, tokens>> /\ pc = "report" /\ pc' \in {"report", "exit"}
    BY <1>4, ReportGoes
  <2>3. PICK n : n = Len(tokens.items) - 1
    OBVIOUS
  <2>4. n \in Nat /\ n = Through(pc, tokens.items) /\ n = Through(pc', tokens'.items)
    BY <2>2, <2>3, OpenTracked DEF Through
  <2>5. Chain(tokens.items, n, cur)
    BY <2>2, <2>4 DEF Chained
  <2>6. Chained'
    BY <2>2, <2>4, <2>5, ChainKept
  <2>7. QED
    BY <2>1, <2>6
<1>5. CASE Reported
  BY <1>5, ReportedGoes, ChainReported
<1>6. CASE EndOfText
  BY <1>6, EndGoes, ChainAdds
<1>7. CASE destroy_tokens \/ FreeLiteral \/ FreeTokens
  BY <1>7, DestroyGoes
<1>8. QED
  BY <1>1, <1>2, <1>3, <1>4, <1>5, <1>6, <1>7 DEF Next

\* The text stays.
LEMMA TextStays == [Next]_vars => text' = text
  BY Zenon DEF Next, vars, lexVars, SkipNewline, SkipSpace, lexer_add_token, SubLexer,
     lex_numeric_constant, lex_char_literal, lex_string_literal, lex_identifier, lex_punctuator,
     CharLiteral, CharBodyClose, CharBodyEscape, CharBodyPlain, CharBodyUnterminated, WideChar,
     WideClose, WideRest, StringLiteral, StringClose, StringEscape, StringPlain,
     StringUnterminated, InvalidUtf8, Overrun, ReportAlert, Reported, EndOfText, destroy_tokens,
     FreeLiteral, FreeTokens, SetToken, Goto, Enter, Advance

\* Every step keeps what lex has done right.
LEMMA NextLexed == IInv /\ TInv /\ Tracked /\ Inside /\ Lexed /\ [Next]_vars => Lexed'
<1> SUFFICES ASSUME IInv, TInv, Tracked, Inside, Lexed, [Next]_vars, Ordinary'
             PROVE  Chained' /\ Tried' /\ Read' /\ Decided'
  BY DEF Lexed
<1>1. Ordinary
  BY TextStays, OrdinarySame
<1>2. Chained /\ Tried /\ Read /\ Decided
  BY <1>1 DEF Lexed
<1>3. CASE UNCHANGED vars
  BY <1>1, <1>2, <1>3, StutterGoes
<1>4. CASE Next
  BY <1>1, <1>2, <1>4, StepLexed
<1>5. QED
  BY <1>3, <1>4

\* Nothing is done yet.
LEMMA InitLexed == Init => Lexed
<1> SUFFICES ASSUME Init PROVE Lexed
  OBVIOUS
<1>1. pc = "loop" /\ tokens.items = <<>> /\ queue.items = <<>> /\ cur = 1
  BY DEF Init, array_init
<1>2. ~Alarmed(queue)
  BY <1>1 DEF Alarmed
<1>3. Chained
  <2>1. Through(pc, tokens.items) = 0
    BY <1>1 DEF Through
  <2>2. Chain(tokens.items, 0, cur)
    BY <1>1 DEF Chain, EndOf, Spaced, IsIn
  <2>3. QED
    BY <2>1, <2>2 DEF Chained
<1>4. QED
  BY <1>1, <1>2, <1>3 DEF Lexed, Tried, Read, Decided

-----------------------------------------------------------------------------
(* What lex returns, and why it exits.                                     *)

\* The tokens that are returned are C's.
LEMMA ReturnsLexemes ==
    ASSUME IInv, TInv, Tracked, Lexed
    PROVE  TokensAreLexemes
<1> SUFFICES ASSUME pc = "returned", Ordinary
             PROVE  LET n == Len(tokens.items) - 1
                        begins(k) == IF k = n + 1 THEN Len(text) ELSE tokens.items[k].loc
                        ends(k) == IF k = 0 THEN 1 ELSE tokens.items[k].loc + tokens.items[k].size
                    IN /\ tokens.items[n + 1].token_type = "TK_EOF"
                       /\ \A k \in 1..(n + 1) :
                             ends(k - 1) <= begins(k) /\ IsIn(ends(k - 1), begins(k), isspace)
                       /\ \A k \in 1..n :
                             /\ Lexeme(tokens.items[k].token_type, begins(k), ends(k))
                             /\ ValueIsRight(tokens.items[k])
                             /\ \A q \in (ends(k) + 1)..Len(text) : ~IsToken(begins(k), q)
  BY DEF TokensAreLexemes
<1> PICK n : n = Len(tokens.items) - 1
  OBVIOUS
<1> DEFINE begins(k) == IF k = n + 1 THEN Len(text) ELSE tokens.items[k].loc
           ends(k) == IF k = 0 THEN 1 ELSE tokens.items[k].loc + tokens.items[k].size
<1>1. n \in Nat /\ n + 1 = Len(tokens.items) /\ n = Through(pc, tokens.items)
  BY OpenTracked
<1>2. Chain(tokens.items, n, Len(text)) /\ Last.token_type = "TK_EOF"
  BY <1>1 DEF Lexed, Chained, Decided
<1>3. \A k \in 0..n : ends(k) = EndOf(tokens.items, k)
  BY DEF EndOf
<1>4. tokens.items[n + 1].token_type = "TK_EOF"
  BY <1>1, <1>2 DEF Last
<1>5. ASSUME NEW k \in 1..(n + 1)
      PROVE  ends(k - 1) <= begins(k) /\ IsIn(ends(k - 1), begins(k), isspace)
  <2>1. k - 1 \in 0..n
    BY <1>1
  <2>2. Spaced(EndOf(tokens.items, k - 1), begins(k))
    <3>1. CASE k = n + 1
      <4>1. k - 1 = n
        BY <1>1, <3>1
      <4>2. QED
        BY <1>2, <3>1, <4>1 DEF Chain
    <3>2. CASE k \in 1..n
      <4>1. k # n + 1
        BY <1>1, <3>2
      <4>2. QED
        BY <1>2, <3>2, <4>1 DEF Chain
    <3>3. QED
      BY <1>1, <3>1, <3>2
  <2>3. Spaced(ends(k - 1), begins(k))
    <3> HIDE DEF ends, begins
    <3>1. QED
      BY <1>3, <2>1, <2>2
  <2> HIDE DEF ends, begins
  <2>4. QED
    BY <2>3 DEF Spaced
<1>6. ASSUME NEW k \in 1..n
      PROVE  /\ Lexeme(tokens.items[k].token_type, begins(k), ends(k))
             /\ ValueIsRight(tokens.items[k])
             /\ \A q \in (ends(k) + 1)..Len(text) : ~IsToken(begins(k), q)
  <2>1. PICK t : t = tokens.items[k]
    OBVIOUS
  <2>2. Right(t)
    BY <1>2, <2>1 DEF Chain, Fine
  <2>3. begins(k) = t.loc /\ ends(k) = t.loc + t.size
    BY <1>1, <2>1
  <2> HIDE DEF ends, begins
  <2>4. QED
    BY <2>1, <2>2, <2>3 DEF Right
<1> HIDE DEF ends, begins
<1>7. /\ tokens.items[n + 1].token_type = "TK_EOF"
      /\ \A k \in 1..(n + 1) : ends(k - 1) <= begins(k) /\ IsIn(ends(k - 1), begins(k), isspace)
      /\ \A k \in 1..n :
            /\ Lexeme(tokens.items[k].token_type, begins(k), ends(k))
            /\ ValueIsRight(tokens.items[k])
            /\ \A q \in (ends(k) + 1)..Len(text) : ~IsToken(begins(k), q)
  BY <1>4, <1>5, <1>6
<1>8. QED
  BY <1>7, Zenon DEF begins, ends

\* What was printed before lex exits are warnings.
Warned == pc # "exit" => \A k \in 1..Len(printed) : printed[k].alert_type = "ALERT_WARN"

\* Only an error that is printed, or one that is fatal, ends lex.
LEMMA NextWarned ==
    ASSUME IInv, TInv, Tracked, Warned, [Next]_vars
    PROVE  Warned'
<1>1. CASE ReportAlert
  <2>1. PICK r : r = report_of(queue.items[i], pointee)
    OBVIOUS
  <2>2. /\ pc = "report" /\ i <= Len(queue.items) /\ printed' = Append(printed, r)
        /\ pc' # "exit" => queue.items[i].alert_type # "ALERT_ERR"
    BY <1>1, <2>1 DEF ReportAlert, Reporting
  <2>3. i \in 1..Len(queue.items)
    BY <2>2 DEF TInv, LiteralTyped, IInv, Shaped, IsArray, IsList
  <2>4. pc' # "exit" => r.alert_type = "ALERT_WARN"
    <3>1. queue.items[i].alert_type \in {"ALERT_WARN", "ALERT_ERR"}
      BY <2>3 DEF TInv, AlertsTyped, AlertTypes
    <3>2. r.alert_type = queue.items[i].alert_type
      BY <2>1 DEF report_of
    <3>3. QED
      BY <2>2, <3>1, <3>2
  <2>5. /\ Len(printed') = Len(printed) + 1 /\ printed'[Len(printed) + 1] = r
        /\ \A k \in 1..Len(printed) : printed'[k] = printed[k]
        /\ Len(printed) \in Nat
    <3>1. IsList(printed) /\ Len(printed) \in Nat
      BY DEF Tracked, IsList
    <3>2. QED
      BY <2>2, <3>1, AppendFacts
  <2>6. ASSUME pc' # "exit", NEW k \in 1..Len(printed')
        PROVE  printed'[k].alert_type = "ALERT_WARN"
    <3>1. CASE k = Len(printed) + 1
      BY <2>4, <2>5, <2>6, <3>1
    <3>2. CASE k \in 1..Len(printed)
      BY <2>2, <2>5, <3>2 DEF Warned
    <3>3. QED
      BY <2>5, <3>1, <3>2
  <2>7. QED
    BY <2>6 DEF Warned
<1>2. CASE ~ReportAlert
  <2>1. printed' = printed /\ (pc = "exit" => pc' = "exit")
    <3>1. CASE UNCHANGED vars
      BY <3>1 DEF vars, lexVars, alertVars
    <3>2. CASE Stays
      BY <3>2 DEF Stays, Moves, Ends, Open
    <3>3. CASE \/ SkipNewline \/ SkipSpace \/ lexer_add_token \/ Reported
               \/ EndOfText \/ destroy_tokens \/ FreeLiteral \/ FreeTokens
      BY <3>3 DEF SkipNewline, SkipSpace, lexer_add_token, Reported, EndOfText, destroy_tokens,
         FreeLiteral, FreeTokens, alertVars
    <3>4. QED
      BY <1>2, <3>1, <3>2, <3>3, SubLexerStays, CharLiteralStays, StringLiteralStays, StopStays
      DEF Next
  <2>2. QED
    BY <2>1 DEF Warned
<1>3. QED
  BY <1>1, <1>2

\* The invariants that the tokens and the exits follow from.
LEMMA SpecLexed == Spec => [](IInv /\ TInv /\ Tracked /\ Lexed /\ Warned)
<1>1. Init => IInv /\ TInv /\ Tracked /\ Inside /\ Lexed /\ Warned
  <2>1. Init => Inside /\ Warned
    BY DEF Init, Inside, Bodies, Warned
  <2>2. QED
    BY <2>1, InitIInv, InitTInv, InitTracked, InitLexed
<1>2. IInv /\ TInv /\ Tracked /\ Inside /\ Lexed /\ Warned /\ [Next]_vars
      => IInv' /\ TInv' /\ Tracked' /\ Inside' /\ Lexed' /\ Warned'
  BY NextIInv, NextTInv, NextTracked, NextInside, NextLexed, NextWarned
<1>3. QED
  BY <1>1, <1>2, PTL DEF Spec

\* The tokens that lex returns for an ordinary text are C's, for every text: with the
\* types and values of C, each the longest where it begins, with only white space
\* between them, and TK_EOF at the end.
THEOREM LexerTokens == Spec => []TokensAreLexemes
<1>1. IInv /\ TInv /\ Tracked /\ Lexed => TokensAreLexemes
  BY ReturnsLexemes
<1>2. QED
  BY <1>1, SpecLexed, PTL

\* lex gives up only on a text with a token that is none of C's, and prints no error
\* unless it gives up, for every text.
THEOREM LexerRejects == Spec => []RejectsOnlyMalformed
<1>1. Tracked /\ Lexed /\ Warned => RejectsOnlyMalformed
  <2> SUFFICES ASSUME Tracked, Lexed, Warned PROVE RejectsOnlyMalformed
    OBVIOUS
  <2>1. pc = "exit" /\ Ordinary => Refused(cur)
    BY DEF Lexed, Decided
  <2>2. Finished => \A k \in DOMAIN printed : printed[k].alert_type = "ALERT_WARN"
    <3>1. Finished => pc # "exit"
      BY DEF Finished
    <3>2. DOMAIN printed = 1..Len(printed)
      BY DEF Tracked, IsList
    <3>3. QED
      BY <3>1, <3>2 DEF Warned
  <2>3. QED
    BY <2>1, <2>2 DEF Refused, RejectsOnlyMalformed
<1>2. QED
  BY <1>1, SpecLexed, PTL
=============================================================================
