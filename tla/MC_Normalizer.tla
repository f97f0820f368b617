--------------------------- MODULE MC_Normalizer ---------------------------
(***************************************************************************)
(* Every string of up to seven characters over a backslash, 'u' and the    *)
(* hex digits '0' and 'a': long enough for "a\u00aab", "\\u00a0" and two  *)
(* escapes in a row, and 'u' and the backslash stand for the non-hex       *)
(* characters.  The code units reached (0x0, 0xa, 0xa0, 0xa00, 0xa000, ...)*)
(* take every MUTF-8 length, U+0000 included.                              *)
(***************************************************************************)
EXTENDS Normalizer

MaxLen == 7

MCCodeOf == ("\\" :> 92) @@ ("u" :> 117) @@ ("0" :> 48) @@ ("a" :> 97)
MCStrings == BoundedSeq(DOMAIN MCCodeOf, MaxLen)

\* spec.md 8, scenario 4: "a\u00aab" is a, U+00AA, b and "\\u00aa" is the text \u00aa
\* (with the digits of this alphabet).
ASSUME SpecNormalize(<<"a", "\\", "u", "0", "0", "a", "a", "a">>) = <<97, 194, 170, 97>>
ASSUME SpecNormalize(<<"\\", "\\", "u", "0", "0", "a">>) = <<92, 117, 48, 48, 97>>

=============================================================================
