------------------------------- MODULE Unicode -------------------------------
(***************************************************************************)
(* unicode.c: from UTF-8 to code points, and from them to the units of a   *)
(* string literal.                                                         *)
(***************************************************************************)
EXTENDS Array, Integers

\* The bytes of a sequence by its first one; 0 for a byte that begins none.
utf8_len(c) == IF c <= 127 THEN 1 ELSE IF c >= 240 THEN 4
               ELSE IF c >= 224 THEN 3 ELSE IF c >= 192 THEN 2 ELSE 0

\* The bits of the code point that the first byte holds.
lead_bits(c) == IF c <= 127 THEN c ELSE IF c >= 240 THEN c % 8 ELSE IF c >= 224 THEN c % 16 ELSE c % 32

\* decode_utf8 at position s of a text; whether the bytes that follow the first
\* are continuation bytes is not looked at.  len 0 is error(), and the reads go
\* beyond the text when s + len - 1 does.
decode_utf8(text, s) ==
    LET n == utf8_len(text[s])
        res[k \in 0..n] == IF k <= 1 THEN lead_bits(text[s])
                           ELSE 64 * res[k - 1] + (text[s + k - 1] % 64)
    IN [len |-> n, code |-> IF s + n - 1 <= Len(text) THEN res[n] ELSE 0]

encode_utf16(c, arr, h) ==
    IF c <= 65535 THEN array_push_back(arr, c, h)
    ELSE LET p == array_push_back(arr, (((c - 65536) \div 1024) % 1024) + 55296, h)
         IN array_push_back(p.arr, ((c - 65536) % 1024) + 56320, p.heap)

encode_utf32(c, arr, h) == array_push_back(arr, c, h)
=============================================================================
