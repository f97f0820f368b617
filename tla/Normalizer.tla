----------------------------- MODULE Normalizer -----------------------------
(***************************************************************************)
(* The string normalizer of ts2abc.cpp: ParseString and the loop of        *)
(* ParseUnicodeEscapeString, one step per iteration, with the UTF-8 ->     *)
(* UTF-16 -> MUTF-8 conversions they call.                                 *)
(*                                                                         *)
(* A string is a sequence of ASCII characters, each given by its code      *)
(* point in CodeOf; the output is a sequence of MUTF-8 bytes.  Positions   *)
(* (startIdx, index) are 0-based as in the code, NPOS is string::npos.     *)
(* An exception the code does not catch (std::stoi's invalid_argument,    *)
(* substr's out_of_range) ends ParseString in state "abort".               *)
(***************************************************************************)
EXTENDS Integers, Sequences, SequencesExt

CONSTANTS
  Strings,  \* the strings handed to ParseString
  CodeOf    \* code point of each character that occurs in Strings

VARIABLES
  data,      \* the argument of ParseString
  startIdx,  \* ParseUnicodeEscapeString: first position not yet consumed
  newData,   \* ParseUnicodeEscapeString: the MUTF-8 bytes built so far
  pc         \* "parse" | "loop" | "done" | "abort"

vars == <<data, startIdx, newData, pc>>

NPOS == -1

(***************************************************************************)
(* String operations of std::string and the conversions.                   *)
(***************************************************************************)
\* data.substr(p, n); the callers ensure p <= length.
Substr(s, p, n) == SubSeq(s, p + 1, IF p + n > Len(s) THEN Len(s) ELSE p + n)

\* data.find("\\u", from)
Find(s, from) ==
  LET hits == {i \in from..(Len(s) - 2) : s[i + 1] = "\\" /\ s[i + 2] = "u"}
  IN  IF hits = {} THEN NPOS ELSE Min(hits)

\* ConvertUtf16ToMUtf8 of one code unit: MUTF-8 writes U+0000 in two bytes.
MUtf8Unit(c) ==
  IF c # 0 /\ c <= 127 THEN <<c>>
  ELSE IF c <= 2047 THEN <<192 + c \div 64, 128 + (c % 64)>>
  ELSE <<224 + c \div 4096, 128 + ((c \div 64) % 64), 128 + (c % 64)>>

\* ConvertUtf8ToMUtf8: an ASCII character is one UTF-8 byte and one UTF-16
\* code unit, re-encoded by MUtf8Unit.
ConvertUtf8ToMUtf8(s) == FlattenSeq([i \in DOMAIN s |-> MUtf8Unit(CodeOf[s[i]])])

HexValue(ch) ==
  LET c == CodeOf[ch]
  IN  CASE c \in 48..57  -> c - 48
        [] c \in 97..102 -> c - 87
        [] c \in 65..70  -> c - 55
        [] OTHER         -> NPOS

IsHex(ch) == HexValue(ch) # NPOS

\* std::stoi(s, NULL, 16) reads the longest prefix of hex digits and throws
\* invalid_argument when it is empty (the characters of Strings include no
\* blank, sign or 'x', the other prefixes strtol accepts).
RECURSIVE HexPrefix(_)
HexPrefix(s) == IF s # <<>> /\ IsHex(Head(s)) THEN <<Head(s)>> \o HexPrefix(Tail(s)) ELSE <<>>

HexNumber(ds) == FoldLeft(LAMBDA acc, d : 16 * acc + HexValue(d), 0, ds)

(***************************************************************************)
(* ParseString and ParseUnicodeEscapeString.                               *)
(***************************************************************************)
Init ==
  /\ data \in Strings
  /\ startIdx = 0
  /\ newData = <<>>
  /\ pc = "parse"

\* ParseString: no "\u" anywhere, the whole string is converted.
ParsePlain ==
  /\ pc = "parse"
  /\ Find(data, 0) = NPOS
  /\ newData' = ConvertUtf8ToMUtf8(data)
  /\ pc' = "done"
  /\ UNCHANGED <<data, startIdx>>

ParseEscaped ==
  /\ pc = "parse"
  /\ Find(data, 0) # NPOS
  /\ pc' = "loop"
  /\ UNCHANGED <<data, startIdx, newData>>

\* The "\u" found at index is preceded by a backslash.
EscapedAt(index) == index # 0 /\ data[index] = "\\"

\* A length index - 1 - startIdx in size_t: when index = startIdx it wraps
\* to npos, and substr then takes the rest of the string.
PrefixLen(index) == IF index - 1 - startIdx < 0 THEN Len(data) ELSE index - 1 - startIdx

\* Mutant: the backslash before "\u" is kept.
DeEscapeKeepBackslash ==
  LET index == Find(data, startIdx)
  IN  /\ pc = "loop"
      /\ index # NPOS
      /\ EscapedAt(index)
      /\ newData' = newData \o ConvertUtf8ToMUtf8(Substr(data, startIdx, index - startIdx) \o Substr(data, index, 2))
      /\ startIdx' = index + 2
      /\ UNCHANGED <<data, pc>>

\* "\\u": everything up to the second backslash, then "\u" itself.
DeEscape ==
  LET index == Find(data, startIdx)
  IN  /\ pc = "loop"
      /\ index # NPOS
      /\ EscapedAt(index)
      /\ newData' = newData \o ConvertUtf8ToMUtf8(Substr(data, startIdx, PrefixLen(index)) \o Substr(data, index, 2))
      /\ startIdx' = index + 2
      /\ UNCHANGED <<data, pc>>

\* "\u" and the (at most) four characters after it: std::stoi decodes the
\* leading hex digits of that window, and the whole window is consumed.
DecodeEscape ==
  LET index == Find(data, startIdx)
      uStr  == Substr(data, index + 2, 4)
  IN  /\ pc = "loop"
      /\ index # NPOS
      /\ ~EscapedAt(index)
      /\ HexPrefix(uStr) # <<>>
      /\ newData' = newData \o ConvertUtf8ToMUtf8(Substr(data, startIdx, index - startIdx))
                            \o MUtf8Unit(HexNumber(HexPrefix(uStr)) % 65536)
      /\ startIdx' = index + 6
      /\ UNCHANGED <<data, pc>>

\* std::stoi finds no hex digit and throws invalid_argument.
StoiThrows ==
  LET index == Find(data, startIdx)
  IN  /\ pc = "loop"
      /\ index # NPOS
      /\ ~EscapedAt(index)
      /\ HexPrefix(Substr(data, index + 2, 4)) = <<>>
      /\ pc' = "abort"
      /\ UNCHANGED <<data, startIdx, newData>>

\* No further "\u": the rest of the string, if any, is converted.
ConvertTail ==
  /\ pc = "loop"
  /\ Find(data, startIdx) = NPOS
  /\ startIdx <= Len(data)
  /\ newData' = IF startIdx # Len(data)
                THEN newData \o ConvertUtf8ToMUtf8(SubSeq(data, startIdx + 1, Len(data)))
                ELSE newData
  /\ pc' = "done"
  /\ UNCHANGED <<data, startIdx>>

\* startIdx passed the end (a "\u" within four characters of the end):
\* startIdx != len holds and data.substr(startIdx) throws out_of_range.
TailOutOfRange ==
  /\ pc = "loop"
  /\ Find(data, startIdx) = NPOS
  /\ startIdx > Len(data)
  /\ pc' = "abort"
  /\ UNCHANGED <<data, startIdx, newData>>

Terminated ==
  /\ pc \in {"done", "abort"}
  /\ UNCHANGED vars

Next ==
  \/ ParsePlain
  \/ ParseEscaped
  \/ DeEscape
  \/ DecodeEscape
  \/ StoiThrows
  \/ ConvertTail
  \/ TailOutOfRange
  \/ Terminated

Spec == Init /\ [][Next]_vars

(***************************************************************************)
(* The normalization of spec.md 4.6, read left to right: "\\u" loses one   *)
(* backslash, "\uXXXX" is one code unit, any other character is itself.   *)
(***************************************************************************)
Drop(s, n) == SubSeq(s, n + 1, Len(s))

EscapedEscape(s) == Len(s) >= 3 /\ s[1] = "\\" /\ s[2] = "\\" /\ s[3] = "u"

Escape(s) == Len(s) >= 6 /\ s[1] = "\\" /\ s[2] = "u" /\ \A i \in 3..6 : IsHex(s[i])

BareEscape(s) == Len(s) >= 2 /\ s[1] = "\\" /\ s[2] = "u" /\ ~Escape(s)

RECURSIVE SpecNormalize(_)
SpecNormalize(s) ==
  CASE s = <<>>          -> <<>>
    [] EscapedEscape(s)  -> ConvertUtf8ToMUtf8(<<"\\", "u">>) \o SpecNormalize(Drop(s, 3))
    [] Escape(s)         -> MUtf8Unit(HexNumber(SubSeq(s, 3, 6))) \o SpecNormalize(Drop(s, 6))
    [] OTHER             -> ConvertUtf8ToMUtf8(<<Head(s)>>) \o SpecNormalize(Tail(s))

\* Every "\u" the reading above meets is "\\u" or "\uXXXX".
RECURSIVE WellFormed(_)
WellFormed(s) ==
  CASE s = <<>>          -> TRUE
    [] EscapedEscape(s)  -> WellFormed(Drop(s, 3))
    [] Escape(s)         -> WellFormed(Drop(s, 6))
    [] BareEscape(s)     -> FALSE
    [] OTHER             -> WellFormed(Tail(s))

TypeOK ==
  /\ data \in Strings
  /\ startIdx \in Nat
  /\ newData \in Seq(0..255)
  /\ pc \in {"parse", "loop", "done", "abort"}

(***************************************************************************)
(* Properties.                                                             *)
(***************************************************************************)
\* ParseString on a well-formed string never throws, and what it returns is
\* the normalization of spec.md 4.6: the find/substr arithmetic of
\* ParseUnicodeEscapeString (the look-behind at index - 1, the windows of
\* 2 and 4 characters, the tail after the last escape) loses, duplicates
\* or decodes no character the specification does not.
NormalizeMatchesSpec ==
  WellFormed(data) =>
    /\ pc # "abort"
    /\ pc = "done" => newData = SpecNormalize(data)

=============================================================================
