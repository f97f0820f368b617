------------------------------ MODULE Builder ------------------------------
(***************************************************************************)
(* The program builder of ts2abc.cpp: ParseSmallPieceJson dispatches each  *)
(* decoded frame on its type "t" to a handler that adds to the program     *)
(* (function_table, record_table, strings, literalarray_table) or sets the *)
(* process-wide options (g_debugModeEnabled, g_optLevel, ...).  Literal    *)
(* arrays are stored under std::to_string(g_literalArrayCount++).          *)
(*                                                                         *)
(* A frame is [t |-> type, p |-> payload]; a payload missing or of the     *)
(* wrong JSON type is [missing |-> type].  Names and literal values are    *)
(* small constants; a literal tag is its name.  A string the code passes   *)
(* through ParseString is a sequence of characters (Normalizer's CodeOf)   *)
(* and is stored as the MUTF-8 bytes ParseString returns.                  *)
(***************************************************************************)
EXTENDS Integers, Sequences, SequencesExt, FiniteSets

CONSTANTS
  Inputs,       \* the frame sequences the front end may send
  GarbageTags,  \* the tags an uninitialized Literal::tag_ may hold
  LiteralTagOf, \* panda_file::LiteralTag: uint8_t value -> tag name
  CodeOf,       \* code point of each character of a string ParseString reads
  OpcodeTable   \* g_opcodeMap: opcode index -> opcode

VARIABLES
  msgs,                \* history: the frames, in stream order
  k,                   \* index of the next frame to dispatch
  status,              \* "run" | "ok" | "fail"
  functions,           \* function_table: name -> annotations and debug info
  records,             \* record_table: name -> [fields |-> Seq(field)]
  strings,             \* prog.strings
  literalArrays,       \* literalarray_table: key -> Seq(literal)
  literalArrayCount,   \* g_literalArrayCount
  debugMode,           \* g_debugModeEnabled
  logEnabled,          \* the debug-log flag
  optLevel,            \* g_optLevel
  optLogLevel          \* g_optLogLevel

prog == <<functions, records, strings, literalArrays>>
opts == <<debugMode, logEnabled, optLevel, optLogLevel>>
vars == <<msgs, k, status, prog, literalArrayCount, opts>>

Frame == msgs[k]

\* std::unordered_map::emplace: an existing key keeps its value.
Emplace(m, key, v) == IF key \in DOMAIN m THEN m ELSE m @@ (key :> v)

NoFun == [x \in {} |-> 0]

\* ParseString, on a string it returns from: the normalization that the run
\* of Normalizer (NormalizeMatchesSpec) shows ParseUnicodeEscapeString and
\* ConvertUtf8ToMUtf8 compute.
Norm == INSTANCE Normalizer WITH Strings <- {}, data <- <<>>, startIdx <- 0,
                                 newData <- <<>>, pc <- "parse"
ParseString(s) == Norm!SpecNormalize(s)

\* static_cast<size_t> of an int: a negative x is 2^64 + x, written as the
\* pair (wrapped, x) since 2^64 is beyond TLC's integers.
SizeT(x) == [wrapped |-> x < 0, v |-> x]

\* A JSON member read with a default when it is absent or of another type.
Member(o, key, default) == IF key \in DOMAIN o THEN o[key] ELSE default

(***************************************************************************)
(* std::to_string on an unsigned counter: its decimal digits.              *)
(***************************************************************************)
RECURSIVE ToDecimal(_)
ToDecimal(n) ==
  IF n < 10 THEN <<n>> ELSE ToDecimal(n \div 10) \o <<n % 10>>

\* g_literalArrayCount++.  The uint32_t wraps after 2^32 arrays, a count
\* neither TLC's integers nor any bounded input reach.
Increment(c) == c + 1

(***************************************************************************)
(* ParseLiteral: a TAGVALUE entry, then the value entry of the tag.  For a *)
(* tag the switch does not know, valueLiteral is emplaced as constructed:  *)
(* its tag_ was never written and holds whatever the build leaves there.   *)
(* A frame's "t" is a number; the switch reads it cast to uint8_t.         *)
(***************************************************************************)
ValueTags == {"BOOL", "INTEGER", "DOUBLE", "STRING", "METHOD",
              "GENERATORMETHOD", "ACCESSOR", "METHODAFFILIATE", "NULLVALUE"}
ZeroPayloadTags == {"ACCESSOR", "NULLVALUE"}
StringTags == {"STRING", "METHOD", "GENERATORMETHOD"}

\* static_cast<uint8_t>(literal["t"].asUInt()).
TagValue(lit) == lit.t % (2^8)

\* The case of the switch a tag value selects, "UNKNOWN" for the default.
TagName(v) ==
  IF v \in DOMAIN LiteralTagOf /\ LiteralTagOf[v] \in ValueTags THEN LiteralTagOf[v]
  ELSE "UNKNOWN"

\* The value entry of a known tag: ParseString of "v" for the string tags,
\* 0 for ACCESSOR and NULLVALUE, "v" cast to uint16_t for METHODAFFILIATE,
\* "v" itself otherwise.
LiteralValue(tag, lit) ==
  CASE tag \in StringTags        -> ParseString(lit.v)
    [] tag \in ZeroPayloadTags   -> 0
    [] tag = "METHODAFFILIATE"   -> lit.v % (2^16)
    [] OTHER                     -> lit.v

\* Mutant: the switch on "t" without the uint8_t cast.
ParseLiteralNoCast(lit, garbage) ==
  LET tag == TagName(lit.t)
  IN  <<[tag |-> "TAGVALUE", value |-> lit.t],
        IF tag \in ValueTags THEN [tag |-> tag, value |-> LiteralValue(tag, lit)]
        ELSE [tag |-> garbage, value |-> "unset"]>>

ParseLiteral(lit, garbage) ==
  LET tag == TagName(TagValue(lit))
  IN  <<[tag |-> "TAGVALUE", value |-> TagValue(lit)],
        IF tag \in ValueTags THEN [tag |-> tag, value |-> LiteralValue(tag, lit)]
        ELSE [tag |-> garbage, value |-> "unset"]>>

\* ParseSingleLiteralBuf's loop, for one choice of the uninitialized tags.
LiteralBuffer(lb, garbage) ==
  FlattenSeq([j \in 1..Len(lb) |-> ParseLiteral(lb[j], garbage[j])])

(***************************************************************************)
(* The module literal array: six sections, each its length as INTEGER and  *)
(* then its entries (ParseModuleRequests ... ParseStarExportEntries).      *)
(***************************************************************************)
IntLit(n) == [tag |-> "INTEGER", value |-> n]
StrLit(s) == [tag |-> "STRING", value |-> ParseString(s)]
AffLit(r) == [tag |-> "METHODAFFILIATE", value |-> r % (2^16)]

\* A section: its length as INTEGER, then the literals of its entries.
Section(s, entries) == <<IntLit(Len(s))>> \o FlattenSeq(entries)

ModuleLayout(m) ==
  LET reqs == m.requests
      reg == m.regular
      ns == m.namespace
      le == m.localExport
      ie == m.indirect
  IN Section(reqs, [j \in 1..Len(reqs) |-> <<StrLit(reqs[j])>>])
     \o Section(reg, [j \in 1..Len(reg) |->
           <<StrLit(reg[j].localName), StrLit(reg[j].importName), AffLit(reg[j].moduleRequest)>>])
     \o Section(ns, [j \in 1..Len(ns) |-> <<StrLit(ns[j].localName), AffLit(ns[j].moduleRequest)>>])
     \o Section(le, [j \in 1..Len(le) |-> <<StrLit(le[j].localName), StrLit(le[j].exportName)>>])
     \o Section(ie, [j \in 1..Len(ie) |->
           <<StrLit(ie[j].exportName), StrLit(ie[j].importName), AffLit(ie[j].moduleRequest)>>])
     \o Section(m.star, [j \in 1..Len(m.star) |-> <<AffLit(m.star[j])>>])

(***************************************************************************)
(* ParseFunction: the annotations its sub-parsers append, in their order,  *)
(* each a name and its elements.  A function without a string "n" gets     *)
(* the name "".  A JSON array entry that is not an object is               *)
(* [notobj |-> x] and is skipped.                                          *)
(***************************************************************************)
IsObject(x) == "obj" \in DOMAIN x
Objects(s) == LET objs == SelectSeq(s, IsObject) IN [j \in 1..Len(objs) |-> objs[j].obj]

Element(n, v) == [name |-> n, value |-> v]

\* ParseFunctionCallType: "ct", or 0.
CallTypeAnno(fb) ==
  [name |-> "_ESCallTypeAnnotation", elems |-> <<Element("callType", Member(fb, "ct", 0))>>]

\* ParseFunctionTypeInfo: [0, t0, 1, t1, ...] from the "ti" array.
TypeOfVregAnno(fb) ==
  [name |-> "_ESTypeAnnotation",
   elems |-> <<Element("typeOfVreg", FlattenSeq([i \in DOMAIN fb.ti |-> <<i - 1, fb.ti[i]>>]))>>]

\* The loop of ParseFunctionExportedType / DeclaredType: one symbol ("" when
\* absent) and one type (0 when absent) per object entry.
SymbolAnno(entries, kind) ==
  LET objs == Objects(entries)
  IN  [name |-> "_ESTypeAnnotation",
       elems |-> <<Element(kind \o "Symbols", [j \in DOMAIN objs |-> Member(objs[j], "symbol", "")]),
                   Element(kind \o "SymbolTypes", [j \in DOMAIN objs |-> Member(objs[j], "type", 0)])>>]

ExportedAnno(fb) == SymbolAnno(fb.es2t, "exported")
DeclaredAnno(fb) == SymbolAnno(fb.ds2t, "declared")

\* ParseFunctionExportedType / DeclaredType: the func_main_0 test sits
\* inside the test that "n" is a string.
MainOnly(fb) == fb.n = "" \/ fb.n = "func_main_0"

\* Mutant: ParseFunctionCallType without its debug-mode early return.
FunctionAnnosNoDebugCheck(fb, debug) ==
  (IF fb.n # "func_main_0" THEN <<CallTypeAnno(fb)>> ELSE <<>>)
  \o (IF "ti" \in DOMAIN fb THEN <<TypeOfVregAnno(fb)>> ELSE <<>>)
  \o (IF "es2t" \in DOMAIN fb /\ MainOnly(fb) THEN <<ExportedAnno(fb)>> ELSE <<>>)
  \o (IF "ds2t" \in DOMAIN fb /\ MainOnly(fb) THEN <<DeclaredAnno(fb)>> ELSE <<>>)

FunctionAnnos(fb, debug) ==
  (IF ~debug /\ fb.n # "func_main_0" THEN <<CallTypeAnno(fb)>> ELSE <<>>)
  \o (IF "ti" \in DOMAIN fb THEN <<TypeOfVregAnno(fb)>> ELSE <<>>)
  \o (IF "es2t" \in DOMAIN fb /\ MainOnly(fb) THEN <<ExportedAnno(fb)>> ELSE <<>>)
  \o (IF "ds2t" \in DOMAIN fb /\ MainOnly(fb) THEN <<DeclaredAnno(fb)>> ELSE <<>>)

(***************************************************************************)
(* ParseFunction: the debug information it keeps.  A field of "d" the      *)
(* decoder does not copy keeps the default of debuginfo::Ins, so the       *)
(* decoded "d" is the part of the frame's "d" that was copied.             *)
(***************************************************************************)
DebugPosKeys == {"bl", "br", "w", "c"}

\* Mutant: the positional fields copied whatever the debug mode.
ParseInstructionDebugInfoNoModeCheck(ins, debug) ==
  IF "d" \in DOMAIN ins THEN Restrict(ins.d, DOMAIN ins.d \cap (DebugPosKeys \cup {"l"}))
  ELSE <<>>

\* ParseInstructionDebugInfo: bl, br, w and c in debug mode only, l always.
ParseInstructionDebugInfo(ins, debug) ==
  IF "d" \in DOMAIN ins
  THEN Restrict(ins.d, DOMAIN ins.d \cap ((IF debug THEN DebugPosKeys ELSE {}) \cup {"l"}))
  ELSE <<>>

(***************************************************************************)
(* ParseInstruction.  An opcode index outside g_opcodeMap leaves the       *)
(* default INVALID; an "id" entry that is not a string ([notstr |-> x]) is *)
(* skipped; the label is set only when "l" is a non-empty string.  "r"     *)
(* entries are read with asUInt unchecked (the inputs are unsigned).       *)
(***************************************************************************)
ParseInstructionOpCode(ins) ==
  IF "o" \in DOMAIN ins /\ ins.o \in DOMAIN OpcodeTable THEN OpcodeTable[ins.o]
  ELSE "INVALID"

ParseInstructionIds(ins) ==
  IF "id" \in DOMAIN ins
  THEN LET strs == SelectSeq(ins.id, LAMBDA x : "str" \in DOMAIN x)
       IN  [j \in 1..Len(strs) |-> ParseString(strs[j].str)]
  ELSE <<>>

ParseInstructionRegs(ins) == Member(ins, "r", <<>>)

(***************************************************************************)
(* An immediate is a JSON number, read as a double.  A double is written   *)
(* [anchor, off, half]: the anchor's value (INT_MIN, 0 or INT_MAX) plus    *)
(* off plus 1/2 when half, so that INT_MAX + 1 and INT_MIN - 1 stay exact  *)
(* without leaving TLC's 32-bit integers (|off| stays below 2^31 - 1).     *)
(***************************************************************************)
IntMax == 2147483647
IntMin == -2147483647 - 1
AnchorValue(a) == CASE a = "INT_MAX" -> IntMax [] a = "INT_MIN" -> IntMin [] OTHER -> 0

\* IsValidInt32: INT_MIN <= value <= INT_MAX, compared as doubles.
IsValidInt32(d) ==
  CASE d.anchor = "INT_MAX" -> d.off < 0 \/ (d.off = 0 /\ ~d.half)
    [] d.anchor = "INT_MIN" -> d.off >= 0
    [] OTHER               -> TRUE

\* ParseInstructionImms: std::modf(v) == 0.0 (no fractional part) and in
\* range gives the int64 value; anything else stays a double.
ParseInstructionImms(ins) ==
  IF "im" \in DOMAIN ins
  THEN [j \in DOMAIN ins.im |->
          IF ~ins.im[j].half /\ IsValidInt32(ins.im[j])
          THEN [int64 |-> AnchorValue(ins.im[j].anchor) + ins.im[j].off]
          ELSE [double |-> ins.im[j]]]
  ELSE <<>>

\* ParseInstructionLabel: set_label and label only for a non-empty "l".
ParseInstructionLabel(ins) == [setLabel |-> Member(ins, "l", "") # "", label |-> Member(ins, "l", "")]

ParseInstruction(ins, debug) ==
  [opcode   |-> ParseInstructionOpCode(ins),
   regs     |-> ParseInstructionRegs(ins),
   ids      |-> ParseInstructionIds(ins),
   imms     |-> ParseInstructionImms(ins),
   debug    |-> ParseInstructionDebugInfo(ins, debug)]
  @@ ParseInstructionLabel(ins)

\* ParseFunctionInstructions: the object entries of "i", in order.
ParseFunctionInstructions(fb, debug) ==
  IF "i" \in DOMAIN fb
  THEN LET ins == Objects(fb.i)
       IN  [j \in 1..Len(ins) |-> ParseInstruction(ins[j], debug)]
  ELSE <<>>

\* ParseVariablesDebugInfo returns at once outside debug mode.
ParseVariablesDebugInfo(fb, debug) ==
  IF debug /\ "v" \in DOMAIN fb THEN Objects(fb.v) ELSE <<>>

\* ParseSourceFileDebugInfo: "sf" always, "sc" in debug mode only.
ParseSourceFileDebugInfo(fb, debug) ==
  [sourceFile |-> IF "sf" \in DOMAIN fb THEN fb.sf ELSE "",
   sourceCode |-> IF debug /\ "sc" \in DOMAIN fb THEN fb.sc ELSE ""]

\* GetFunctionDefintion: the return type is "any" only when "s" is an object
\* without a string "rt"; without "s" it stays "".  "p" and "r" are read
\* with asUInt (the inputs are unsigned).
GetFunctionDefintion(fb) ==
  LET sig == Member(fb, "s", [none |-> 0])
  IN  [name       |-> Member(fb, "n", ""),
       returnType |-> IF "none" \in DOMAIN sig THEN "" ELSE Member(sig, "rt", "any"),
       params     |-> [j \in 1..Member(sig, "p", 0) |-> "any"],
       regsNum    |-> Member(fb, "r", 0)]

\* ParseFunctionLabels: label_table.emplace of each name of "l" (a repeated
\* name keeps its first label, which is the same label).
ParseFunctionLabels(fb) == IF "l" \in DOMAIN fb THEN Range(fb.l) ELSE {}

\* ParsecatchBlock: absent labels stay ""; the catch end is the catch begin.
ParsecatchBlock(cb) ==
  [tryBegin   |-> Member(cb, "tb_lab", ""),
   tryEnd     |-> Member(cb, "te_lab", ""),
   catchBegin |-> Member(cb, "cb_lab", ""),
   catchEnd   |-> Member(cb, "cb_lab", "")]

\* ParseFunctionCatchTables: the object entries of "ca_tab", in order.
ParseFunctionCatchTables(fb) ==
  IF "ca_tab" \in DOMAIN fb
  THEN LET cbs == Objects(fb.ca_tab) IN [j \in 1..Len(cbs) |-> ParsecatchBlock(cbs[j])]
  ELSE <<>>

ParseFunction(fb, debug) ==
  GetFunctionDefintion(fb)
  @@ [ins         |-> ParseFunctionInstructions(fb, debug),
      vars        |-> ParseVariablesDebugInfo(fb, debug),
      labels      |-> ParseFunctionLabels(fb),
      catchBlocks |-> ParseFunctionCatchTables(fb),
      annos       |-> FunctionAnnos(fb, debug)]
  @@ ParseSourceFileDebugInfo(fb, debug)

(***************************************************************************)
(* ParseRecord: "whole_line" through ParseString, the bounds and the line  *)
(* number -1 when absent and then cast to size_t, and the metadata         *)
(* attribute set only when it is a non-empty string.                       *)
(***************************************************************************)
ParseRecord(rb) ==
  LET md == Member(rb, "metadata", [none |-> 0])
  IN  [name       |-> Member(rb, "name", ""),
       wholeLine  |-> ParseString(Member(rb, "whole_line", <<>>)),
       boundLeft  |-> SizeT(Member(rb, "bound_left", -1)),
       boundRight |-> SizeT(Member(rb, "bound_right", -1)),
       lineNumber |-> SizeT(Member(rb, "line_number", -1)),
       attribute  |-> Member(md, "attribute", ""),
       fields     |-> <<>>]

Field(n, v) == [name |-> n, value |-> v]
NoFields == [fields |-> <<>>]

HasPayload == "missing" \notin DOMAIN Frame.p

(***************************************************************************)
(* The handlers of ParseSmallPieceJson.                                    *)
(***************************************************************************)
ParseSingleFunc ==
  /\ status = "run" /\ k <= Len(msgs) /\ Frame.t = "FUNCTION" /\ HasPayload
  /\ functions' = Emplace(functions, Frame.p.n, ParseFunction(Frame.p, debugMode))
  /\ k' = k + 1
  /\ UNCHANGED <<msgs, status, records, strings, literalArrays,
                 literalArrayCount, opts>>

\* Mutant: record_table[name] = record, a later record replacing the first.
ParseSingleRecAssign ==
  /\ status = "run" /\ k <= Len(msgs) /\ Frame.t = "RECORD" /\ HasPayload
  /\ records' = (ParseRecord(Frame.p).name :> ParseRecord(Frame.p)) @@ records
  /\ k' = k + 1
  /\ UNCHANGED <<msgs, status, functions, strings, literalArrays,
                 literalArrayCount, opts>>

ParseSingleRec ==
  /\ status = "run" /\ k <= Len(msgs) /\ Frame.t = "RECORD" /\ HasPayload
  /\ records' = Emplace(records, ParseRecord(Frame.p).name, ParseRecord(Frame.p))
  /\ k' = k + 1
  /\ UNCHANGED <<msgs, status, functions, strings, literalArrays,
                 literalArrayCount, opts>>

ParseSingleStr ==
  /\ status = "run" /\ k <= Len(msgs) /\ Frame.t = "STRING" /\ HasPayload
  /\ strings' = strings \cup {ParseString(str) : str \in Range(Frame.p.s)}
  /\ k' = k + 1
  /\ UNCHANGED <<msgs, status, functions, records, literalArrays,
                 literalArrayCount, opts>>

ParseSingleLiteralBuf ==
  /\ status = "run" /\ k <= Len(msgs) /\ Frame.t = "LITERALBUFFER" /\ HasPayload
  /\ \E garbage \in [1..Len(Frame.p.lb) -> GarbageTags] :
       literalArrays' = Emplace(literalArrays, ToDecimal(literalArrayCount),
                                LiteralBuffer(Frame.p.lb, garbage))
  /\ literalArrayCount' = Increment(literalArrayCount)
  /\ k' = k + 1
  /\ UNCHANGED <<msgs, status, functions, records, strings, opts>>

\* Mutant: the module field takes the counter after its increment.
AddModuleRecordAfterIncrement(recs, moduleName, moduleIdx) ==
  IF "_ESModuleRecord" \in DOMAIN recs
  THEN [recs EXCEPT !["_ESModuleRecord"].fields =
          Append(@, Field(moduleName, Increment(moduleIdx)))]
  ELSE recs

\* AddModuleRecord: a no-op when there is no _ESModuleRecord.
AddModuleRecord(recs, moduleName, moduleIdx) ==
  IF "_ESModuleRecord" \in DOMAIN recs
  THEN [recs EXCEPT !["_ESModuleRecord"].fields =
          Append(@, Field(moduleName, moduleIdx))]
  ELSE recs

\* Mutant: the module handler registers its array without counting it.
ParseSingleModuleNoIncrement ==
  /\ status = "run" /\ k <= Len(msgs) /\ Frame.t = "MODULE" /\ HasPayload
  /\ records' = AddModuleRecord(records, ParseString(Frame.p.moduleName), literalArrayCount)
  /\ literalArrays' = Emplace(literalArrays, ToDecimal(literalArrayCount),
                              ModuleLayout(Frame.p))
  /\ k' = k + 1
  /\ UNCHANGED <<msgs, status, functions, strings, opts, literalArrayCount>>

ParseSingleModule ==
  /\ status = "run" /\ k <= Len(msgs) /\ Frame.t = "MODULE" /\ HasPayload
  /\ records' = AddModuleRecord(records, ParseString(Frame.p.moduleName), literalArrayCount)
  /\ literalArrays' = Emplace(literalArrays, ToDecimal(literalArrayCount),
                              ModuleLayout(Frame.p))
  /\ literalArrayCount' = Increment(literalArrayCount)
  /\ k' = k + 1
  /\ UNCHANGED <<msgs, status, functions, strings, opts>>

\* ParseModuleMode: _ESModuleRecord only when module_mode is true.
ModuleModeRecords(o, recs) ==
  IF "module_mode" \in DOMAIN o /\ o.module_mode
  THEN Emplace(recs, "_ESModuleRecord", NoFields)
  ELSE recs

\* ParseOptLevel: g_optLevel is forced to 0 whenever debug mode is on,
\* whichever frame turned it on.
OptLevelOf(o, debug, old) ==
  IF debug THEN 0 ELSE Member(o, "opt_level", old)

\* ParseOptions: the two annotation records, then the flags in order.
ParseOptions ==
  /\ status = "run" /\ k <= Len(msgs) /\ Frame.t = "OPTIONS"
  /\ LET o == Frame.p
         debug == Member(o, "debug_mode", debugMode)
     IN /\ records' = ModuleModeRecords(o,
                        Emplace(Emplace(records, "_ESCallTypeAnnotation", NoFields),
                                "_ESTypeAnnotation", NoFields))
        /\ logEnabled' = Member(o, "log_enabled", logEnabled)
        /\ debugMode' = debug
        /\ optLevel' = OptLevelOf(o, debug, optLevel)
        /\ optLogLevel' = Member(o, "opt_log_level", optLogLevel)
  /\ k' = k + 1
  /\ UNCHANGED <<msgs, status, functions, strings, literalArrays, literalArrayCount>>

ParseSingleTypeInfo ==
  /\ status = "run" /\ k <= Len(msgs) /\ Frame.t = "TYPEINFO" /\ HasPayload
  /\ records' = Emplace(records, "_ESTypeInfoRecord",
                        [fields |-> <<Field("typeFlag", IF Frame.p.tf THEN 1 ELSE 0),
                                      Field("typeSummaryIndex", Frame.p.tsi)>>])
  /\ k' = k + 1
  /\ UNCHANGED <<msgs, status, functions, strings, literalArrays,
                 literalArrayCount, opts>>

\* A known type whose payload key is missing or has the wrong JSON type.
SkipMissingPayload ==
  /\ status = "run" /\ k <= Len(msgs) /\ Frame.t # "OPTIONS" /\ ~HasPayload
  /\ k' = k + 1
  /\ UNCHANGED <<msgs, status, prog, literalArrayCount, opts>>

\* "Unreachable json type": ParseSmallPieceJson fails and the build stops.
RejectUnknownType ==
  /\ status = "run" /\ k <= Len(msgs) /\ Frame.t = "UNKNOWN"
  /\ status' = "fail"
  /\ UNCHANGED <<msgs, k, prog, literalArrayCount, opts>>

Finish ==
  /\ status = "run" /\ k > Len(msgs)
  /\ status' = "ok"
  /\ UNCHANGED <<msgs, k, prog, literalArrayCount, opts>>

Terminated ==
  /\ status # "run"
  /\ UNCHANGED vars

\* The globals' initializers and an empty Program.
Init ==
  /\ msgs \in Inputs /\ k = 1 /\ status = "run"
  /\ functions = NoFun /\ records = NoFun /\ strings = {}
  /\ literalArrays = NoFun /\ literalArrayCount = 0
  /\ debugMode = FALSE /\ logEnabled = FALSE /\ optLevel = 0
  /\ optLogLevel = "error"

Next ==
  \/ ParseSingleFunc \/ ParseSingleRec \/ ParseSingleStr
  \/ ParseSingleLiteralBuf \/ ParseSingleModule \/ ParseOptions
  \/ ParseSingleTypeInfo \/ SkipMissingPayload \/ RejectUnknownType
  \/ Finish \/ Terminated

Spec == Init /\ [][Next]_vars

-----------------------------------------------------------------------------
(***************************************************************************)
(* The frames dispatched so far, and those among them that register a      *)
(* literal array or a module.                                              *)
(***************************************************************************)
Dispatched == SubSeq(msgs, 1, k - 1)
IsArrayFrame(f) == f.t \in {"LITERALBUFFER", "MODULE"} /\ "missing" \notin DOMAIN f.p
ArrayFrames == SelectSeq(Dispatched, IsArrayFrame)
ModuleFrames == SelectSeq(Dispatched, LAMBDA f : IsArrayFrame(f) /\ f.t = "MODULE")

\* The payload of the first FUNCTION frame named n: the one Emplace kept.
FunctionPayload(n) ==
  LET js == {j \in 1..k - 1 : msgs[j].t = "FUNCTION" /\ "n" \in DOMAIN msgs[j].p
                              /\ msgs[j].p.n = n}
  IN  msgs[Min(js)].p

\* The function carries an annotation with an element of that name.
HasElement(f, e) ==
  \E i \in DOMAIN f.annos : \E j \in DOMAIN f.annos[i].elems : f.annos[i].elems[j].name = e

ModuleModeRequested ==
  \E j \in 1..k - 1 : /\ msgs[j].t = "OPTIONS"
                      /\ "module_mode" \in DOMAIN msgs[j].p
                      /\ msgs[j].p.module_mode

TypeOK ==
  /\ k \in 1..Len(msgs) + 1 /\ status \in {"run", "ok", "fail"}
  /\ literalArrayCount \in Nat
  /\ debugMode \in BOOLEAN /\ logEnabled \in BOOLEAN

(***************************************************************************)
(* Properties                                                              *)
(***************************************************************************)
\* Spec 8.1: the literal-array keys are exactly "0" .. "count-1", and key j
\* holds the array of the j-th LITERALBUFFER or MODULE frame, whichever
\* order the two handlers that share g_literalArrayCount ran in; each
\* TAGVALUE entry holds its literal's "t" as a U8 (spec 4.5), a tag of
\* 256 + n included.
LiteralArraysMatchFrames ==
  /\ literalArrayCount = Len(ArrayFrames)
  /\ DOMAIN literalArrays = {ToDecimal(j) : j \in 0..Len(ArrayFrames) - 1}
  /\ \A j \in 1..Len(ArrayFrames) :
       LET f == ArrayFrames[j]
           arr == literalArrays[ToDecimal(j - 1)]
       IN IF f.t = "MODULE" THEN arr = ModuleLayout(f.p)
          ELSE /\ Len(arr) = 2 * Len(f.p.lb)
               /\ \A i \in 1..Len(f.p.lb) : arr[2*i - 1].value = f.p.lb[i].t % 256

\* Spec 4.5 and 7: a literal of a tag the decoder does not know keeps its
\* TAGVALUE entry and contributes no value entry ("unknown literal tags
\* skip the value entry").  Stated: the array of every LITERALBUFFER frame
\* is, literal by literal, the TAGVALUE entry followed by a value entry
\* only for a known tag.  ParseLiteral emplaces valueLiteral whatever the
\* tag (ts2abc.cpp:278).
SpecLiteral(lit) ==
  LET tag == TagName(TagValue(lit))
  IN  <<[tag |-> "TAGVALUE", value |-> TagValue(lit)]>>
      \o (IF tag \in ValueTags THEN <<[tag |-> tag, value |-> LiteralValue(tag, lit)]>> ELSE <<>>)

UnknownTagsSkipValue ==
  \A j \in 1..Len(ArrayFrames) :
    LET lb == ArrayFrames[j].p.lb
    IN  ArrayFrames[j].t = "LITERALBUFFER" /\ ToDecimal(j - 1) \in DOMAIN literalArrays =>
          literalArrays[ToDecimal(j - 1)] = FlattenSeq([i \in 1..Len(lb) |-> SpecLiteral(lb[i])])

\* Spec 8.3: _ESModuleRecord exists iff module mode was requested, and it
\* has one field per MODULE frame, in frame order, named after the module
\* and holding the key of that module's layout (AddModuleRecord is called
\* with the counter before ParseSingleModule increments it).
ModuleRecordIndexesLayouts ==
  /\ ("_ESModuleRecord" \in DOMAIN records) = ModuleModeRequested
  /\ ModuleModeRequested =>
       LET fs == records["_ESModuleRecord"].fields
       IN /\ Len(fs) = Len(ModuleFrames)
          /\ \A j \in 1..Len(fs) :
               /\ fs[j].name = ParseString(ModuleFrames[j].p.moduleName)
               /\ ToDecimal(fs[j].value) \in DOMAIN literalArrays
               /\ literalArrays[ToDecimal(fs[j].value)] = ModuleLayout(ModuleFrames[j].p)

\* Spec 3 and 8.4, and end-to-end scenario 6: no call-type annotation on
\* func_main_0 or in debug mode, and exported/declared symbol annotations
\* only on func_main_0 (ParseFunctionCallType, ParseFunctionExportedType,
\* ParseFunctionDeclaredType).
FunctionAnnotationsAsSpecified ==
  \A n \in DOMAIN functions :
    /\ HasElement(functions[n], "callType") => n # "func_main_0" /\ ~debugMode
    /\ HasElement(functions[n], "exportedSymbols") \/ HasElement(functions[n], "declaredSymbols")
         => n = "func_main_0"

\* Spec 3 and 4.3, and end-to-end scenario 6, for the debug mode the build
\* ends with: each instruction keeps the line number of its "d", and its
\* bound_left, bound_right, whole_line and column_number exactly in debug
\* mode; local-variable descriptors and the source text are kept exactly in
\* debug mode; the source file always (ParseInstructionDebugInfo,
\* ParseVariablesDebugInfo, ParseSourceFileDebugInfo, each reading
\* g_debugModeEnabled while the FUNCTION frame is decoded).
DebugInfoAsSpecified ==
  \A n \in DOMAIN functions :
    LET f   == functions[n]
        fb  == FunctionPayload(n)
        src == IF "i" \in DOMAIN fb THEN Objects(fb.i) ELSE <<>>
    IN  /\ Len(f.ins) = Len(src)
        /\ \A j \in 1..Len(src) :
             "d" \in DOMAIN src[j] =>
               /\ "l" \in DOMAIN src[j].d => f.ins[j].debug["l"] = src[j].d["l"]
               /\ \A key \in DebugPosKeys \cap DOMAIN src[j].d :
                    key \in DOMAIN f.ins[j].debug <=> debugMode
        /\ f.vars # <<>> => debugMode
        /\ debugMode /\ "v" \in DOMAIN fb => Len(f.vars) = Len(SelectSeq(fb.v, IsObject))
        /\ f.sourceCode # "" => debugMode
        /\ "sf" \in DOMAIN fb => f.sourceFile = fb.sf


\* Spec 3 (names unique) as the code keeps it across frames: an entry of
\* function_table, record_table or literalarray_table, once made, is never
\* removed or replaced by a later frame, a duplicate function, record or
\* TYPEINFO frame included (the handlers emplace); the one change an entry
\* sees is a module field appended to _ESModuleRecord (AddModuleRecord).
TablesKeepFirstDefinition ==
  [][ /\ \A n \in DOMAIN functions :
           n \in DOMAIN functions' /\ functions'[n] = functions[n]
      /\ \A key \in DOMAIN literalArrays :
           key \in DOMAIN literalArrays' /\ literalArrays'[key] = literalArrays[key]
      /\ \A n \in DOMAIN records :
           /\ n \in DOMAIN records'
           /\ [records'[n] EXCEPT !.fields = records[n].fields] = records[n]
           /\ records[n].fields = SubSeq(records'[n].fields, 1, Len(records[n].fields))
    ]_vars

=============================================================================
