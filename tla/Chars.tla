-------------------------------- MODULE Chars --------------------------------
(***************************************************************************)
(* The characters of a source text are bytes; ctype.h in the C locale, and *)
(* string constants as byte sequences.                                     *)
(***************************************************************************)
EXTENDS Naturals, Sequences

NUL == 0
TAB == 9
NL == 10

\* The printable characters in the order of their codes from 32; the grave accent
\* (96) is left out.
LOCAL Printable == " !\"#$%&'()*+,-./0123456789:;<=>?@ABCDEFGHIJKLMNOPQRSTUVWXYZ[\\]^_abcdefghijklmnopqrstuvwxyz{|}~"

\* The codes of the printable characters, and the bytes of a string of them.
Code == [c \in {SubSeq(Printable, k, k) : k \in 1..94} |->
            LET k == CHOOSE k \in 1..94 : SubSeq(Printable, k, k) = c
            IN IF k <= 64 THEN 31 + k ELSE 32 + k]
Ord(c) == Code[c]
Bytes(w) == [k \in 1..Len(w) |-> Ord(SubSeq(w, k, k))]
Chars(w) == {Ord(SubSeq(w, k, k)) : k \in 1..Len(w)}

isdigit == 48..57
isoctal == 48..55
isxdigit == isdigit \cup 65..70 \cup 97..102
isalpha == 65..90 \cup 97..122
isspace == 9..13 \cup {32}
ispunct == 33..47 \cup 58..64 \cup 91..96 \cup 123..126

QUOTE == 39
DQUOTE == 34
BACKSLASH == 92
DOT == 46
=============================================================================
