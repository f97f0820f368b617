---------------------------- MODULE MC_Builder ----------------------------
(***************************************************************************)
(* Model-checking instance of Builder: an OPTIONS frame, then up to        *)
(* MaxFrames frames of every kind, missing payloads and an unknown type    *)
(* included.  The module of end-to-end scenario 2 is one of the modules.   *)
(***************************************************************************)
EXTENDS Builder

MaxFrames == 4

\* The characters of the strings below and their code points.
MCCodeOf ==
  ("\\" :> 92) @@ ("." :> 46) @@ ("/" :> 47) @@ ("0" :> 48) @@ ("1" :> 49)
  @@ ("2" :> 50) @@ ("6" :> 54) @@ ("a" :> 97) @@ ("d" :> 100) @@ ("e" :> 101)
  @@ ("f" :> 102) @@ ("j" :> 106) @@ ("l" :> 108) @@ ("m" :> 109) @@ ("s" :> 115)
  @@ ("t" :> 116) @@ ("u" :> 117) @@ ("x" :> 120) @@ ("y" :> 121)

\* Two opcodes of the generated table and its INVALID entry.
MCOpcodeTable == (0 :> "MOV_DYN") @@ (1 :> "STA_DYN") @@ (-1 :> "INVALID")

\* Immediates at the int32 boundaries: 1, 1.5, INT_MAX, INT_MAX + 1,
\* INT_MIN + 1/2 and INT_MIN - 1.
D(a, o, h) == [anchor |-> a, off |-> o, half |-> h]
MCImms == <<D("ZERO", 1, FALSE), D("ZERO", 1, TRUE), D("INT_MAX", 0, FALSE),
            D("INT_MAX", 1, FALSE), D("INT_MIN", 0, TRUE), D("INT_MIN", -1, FALSE)>>

\* Only 1 and INT_MAX are int64; scenario 3: 3000000000.0 stays a double.
ASSUME [j \in 1..6 |-> "int64" \in DOMAIN ParseInstructionImms([im |-> MCImms])[j]]
         = <<TRUE, FALSE, TRUE, FALSE, FALSE, FALSE>>
ASSUME ParseInstructionImms([im |-> <<D("INT_MAX", 852516353, FALSE)>>])
         = <<[double |-> D("INT_MAX", 852516353, FALSE)]>>

\* "a", and "\u0061", which ParseString turns into the same string.
StrA   == <<"a">>
EscStr == <<"\\", "u", "0", "0", "6", "1">>

\* Every instruction field: a known opcode, registers, the immediates, an
\* id and a non-string id, a label, every debug field; an unknown opcode with an
\* empty label and the line only; no "d"; an array entry that is not an
\* object.  One variable descriptor; a signature with a parameter count
\* but no return type for foo and none at all for func_main_0; a repeated
\* label; catch blocks with all, one and none of their labels; exported
\* symbols with and without a type, a declared symbol without a name.
FunctionFrame(n) ==
  LET body ==
         [n |-> n, ct |-> 1, ti |-> <<2, 0>>, r |-> 3,
          es2t |-> <<[obj |-> [symbol |-> "x", type |-> 4]], [obj |-> [symbol |-> "y"]], [notobj |-> 0]>>,
          ds2t |-> <<[obj |-> [type |-> 5]]>>,
          i |-> <<[obj |-> [o |-> 0, r |-> <<0, 1>>, im |-> MCImms, id |-> <<[str |-> EscStr], [notstr |-> 0]>>,
                            l |-> "L1", d |-> [bl |-> 1, br |-> 2, w |-> "w", c |-> 3, l |-> 4]]],
                  [obj |-> [o |-> 7, l |-> "", d |-> [l |-> 5]]], [obj |-> [o |-> 1]], [notobj |-> 0]>>,
          v |-> <<[obj |-> [n |-> "x", r |-> 0]], [notobj |-> 0]>>,
          l |-> <<"L1", "L1">>,
          ca_tab |-> <<[obj |-> [tb_lab |-> "L1", te_lab |-> "L1", cb_lab |-> "L1"]],
                       [obj |-> [tb_lab |-> "L1"]], [notobj |-> 0]>>,
          sf |-> "a.ts", sc |-> "src"]
  IN  [t |-> "FUNCTION", p |-> IF n = "foo" THEN body @@ [s |-> [p |-> 1]] ELSE body]
Missing(t)       == [t |-> t, p |-> [missing |-> t]]
\* Two records of the same name: every member, and the name only.
RecordFrame      == [t |-> "RECORD",
                     p |-> [name |-> "R", whole_line |-> EscStr, bound_left |-> 0,
                            bound_right |-> 3, line_number |-> 1,
                            metadata |-> [attribute |-> "external"]]]
BareRecordFrame  == [t |-> "RECORD", p |-> [name |-> "R"]]
StringFrame      == [t |-> "STRING", p |-> [s |-> <<StrA, EscStr>>]]
\* A literal buffer of the tag values ts.
LiteralFrame(ts) == [t |-> "LITERALBUFFER",
                     p |-> [lb |-> [j \in 1..Len(ts) |->
                              [t |-> ts[j], v |-> IF TagName(ts[j] % 256) \in StringTags THEN EscStr ELSE 1]]]]
\* Two TYPEINFO frames with different constants.
TypeInfoFrame(f, i) == [t |-> "TYPEINFO", p |-> [tf |-> f, tsi |-> i]]
UnknownFrame     == [t |-> "UNKNOWN", p |-> [unknown |-> 0]]

\* Module of end-to-end scenario 2, and a module with no entries.
Scenario2 ==
  [moduleName |-> <<"m", "1">>, requests |-> <<<<".", "/", "a", ".", "j", "s">>>>,
   regular |-> <<[localName |-> <<"x">>, importName |-> <<"d", "e", "f", "a", "u", "l", "t">>,
                  moduleRequest |-> 0]>>,
   namespace |-> <<>>, localExport |-> <<>>,
   indirect |-> <<[exportName |-> <<"y">>, importName |-> <<"x">>, moduleRequest |-> 0]>>,
   star |-> <<>>]
EmptyModule ==
  [moduleName |-> <<"m", "2">>, requests |-> <<>>, regular |-> <<>>, namespace |-> <<>>,
   localExport |-> <<>>, indirect |-> <<>>, star |-> <<>>]
ModuleFrame(m) == [t |-> "MODULE", p |-> m]

\* The layout scenario 2 expects, its strings as MUTF-8 bytes.
Bytes(bs) == [tag |-> "STRING", value |-> bs]
ASSUME ModuleLayout(Scenario2) =
  <<IntLit(1), Bytes(<<46, 47, 97, 46, 106, 115>>), IntLit(1), Bytes(<<120>>),
    Bytes(<<100, 101, 102, 97, 117, 108, 116>>), AffLit(0), IntLit(0), IntLit(0),
    IntLit(1), Bytes(<<121>>), Bytes(<<120>>), AffLit(0), IntLit(0)>>

\* ParseString returns on every string it is handed here, and the two
\* spellings of "a" are one string.
ASSUME \A str \in {StrA, EscStr, <<"m", "1">>, <<"m", "2">>} : Norm!WellFormed(str)
ASSUME ParseString(EscStr) = ParseString(StrA)

\* Spec 4.3: "ti" = [2, 0] is the typeOfVreg array [0, 2, 1, 0].
ASSUME TypeOfVregAnno(FunctionFrame("foo").p).elems[1].value = <<0, 2, 1, 0>>

OptionsFrames ==
  {[t |-> "OPTIONS", p |-> [module_mode |-> m, debug_mode |-> d, opt_level |-> 2,
                            log_enabled |-> TRUE, opt_log_level |-> "info"]] :
      m, d \in BOOLEAN}
  \cup {[t |-> "OPTIONS", p |-> [opt_level |-> 2]]}

Body ==
  {FunctionFrame("foo"), FunctionFrame("func_main_0"), Missing("FUNCTION"),
   RecordFrame, BareRecordFrame, StringFrame, TypeInfoFrame(TRUE, 3), TypeInfoFrame(FALSE, 4),
   UnknownFrame,
   LiteralFrame(<<258, 7, 255>>), Missing("LITERALBUFFER"),
   ModuleFrame(Scenario2), ModuleFrame(EmptyModule)}

\* What the front end sends: OPTIONS first.
MCInputs == {<<o>> \o b : o \in OptionsFrames, b \in BoundedSeq(Body, MaxFrames)}

\* Frames in any order, OPTIONS among them.
MCInputsAnyOrder == BoundedSeq(Body \cup OptionsFrames, MaxFrames)

\* A literal of a tag the decoder does not know.
MCInputsUnknownTag ==
  {<<o>> \o b : o \in OptionsFrames,
                b \in BoundedSeq(Body \cup {LiteralFrame(<<100>>)}, 2)}

\* A function frame without a name.
MCInputsNameless ==
  {<<o>> \o b : o \in OptionsFrames,
                b \in BoundedSeq(Body \cup {FunctionFrame("")}, 2)}

\* The values of panda_file::LiteralTag (libpandafile, outside this
\* repository).
MCLiteralTagOf ==
  (0 :> "TAGVALUE") @@ (1 :> "BOOL") @@ (2 :> "INTEGER") @@ (3 :> "FLOAT")
  @@ (4 :> "DOUBLE") @@ (5 :> "STRING") @@ (6 :> "METHOD") @@ (7 :> "GENERATORMETHOD")
  @@ (8 :> "ACCESSOR") @@ (9 :> "METHODAFFILIATE") @@ (255 :> "NULLVALUE")

\* 258 is INTEGER once cast to uint8_t; 7 is GENERATORMETHOD, 255 NULLVALUE.
ASSUME [j \in 1..3 |-> TagName(<<258, 7, 255>>[j] % 256)] = <<"INTEGER", "GENERATORMETHOD", "NULLVALUE">>

MCGarbageTags == {"NULLVALUE"}
MCAnyTag == ValueTags \cup {"TAGVALUE"}

=============================================================================
