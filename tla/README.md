# TLA+ models of ts2abc

This directory holds TLA+ models of the back end of the ts2panda compiler,
`src/ts2panda/ts2abc/`. The back end reads a framed stream of JSON messages from
the front end and builds a `panda::pandasm::Program` from them. The models are
checked with TLC. Each one is translated from the C++ source. `PROJECT.json`
maps every definition to the lines it models.

## The system

`ts2abc.cpp` (1345 lines) and `type_adapter.cpp`/`.h` (200 lines) have these
parts. Data flows from the top of the list to the bottom.

| Part | Code | State | Operations |
|---|---|---|---|
| Stream framer | `ParseData` | scan index, frame start, `isStartDollar` | a `$` not preceded by `#` opens or closes a frame; a closed frame is un-escaped (`ReplaceAllDistinct`, `#$`→`$`) and dispatched; the first failure aborts |
| Pipe reader | `ReadFromPipe`, `HandleBuffer`, `IsStartOrEndPosition` | the same, plus the carried `data` of a frame that spans reads | `read(3, buff, 4096)` in a loop; each chunk is scanned; EOF ends with success; `read < 0` fails |
| Dispatcher | `ParseSmallPieceJson` | — | switch on `"t"`: FUNCTION, RECORD, STRING, LITERALBUFFER, MODULE, OPTIONS, TYPEINFO; a missing payload is a no-op; an unknown type fails |
| Program assembler | `ParseSingle*` | `function_table`, `record_table`, `strings`, `literalarray_table` (all `emplace`: first definition wins), `g_literalArrayCount` | one handler per frame type |
| Options handler | `ParseOptions` and helpers | `g_debugModeEnabled`, debug-log flag, `g_optLevel`, `g_optLogLevel` | synthesizes `_ESCallTypeAnnotation`, `_ESTypeAnnotation` and, in module mode, `_ESModuleRecord`; sets the flags |
| Literal decoder | `ParseLiteral` | — | a TAGVALUE entry, then a tagged value entry |
| Module decoder | `ParseSingleModule` and six section parsers | — | one positional literal array per module; a `u32` field on `_ESModuleRecord` holding its key |
| Function decoder | `GetFunctionDefintion`, `ParseFunction*` | — | name, signature, instructions, labels, catch tables, debug info, and synthesized annotations (call type, `typeOfVreg`, exported/declared symbols) |
| Instruction decoder | `ParseInstruction*` | — | opcode lookup, registers, ids, immediates (int32 policy), label, debug info |
| String normalizer | `ParseString` and UTF helpers | — | `\u` un-escaping, UTF-8 → UTF-16 → MUTF-8 |
| Type adapter | `TypeAdapter` | `vreg_type_map`, `order_type_map`, `finished_vregs`, `order` | rewrites `_TypeOfInstruction` from `[vreg, type, …]` to `[order, type, …]` |
| Driver and emitter | `GenerateProgram`, `HandleJsonFile` | `g_optLevel`, `g_optLogLevel`, the `optLevel`/`optLogLevel` arguments, the output file | reads the file or the pipe and returns false if that fails; then either one `AsmEmitter::Emit`, or (with `ENABLE_BYTECODE_OPT` and a non-zero level) Emit, `OptimizeBytecode`, Emit |

The parts interact in these ways:

- The framers call the dispatcher once per frame. `GenerateProgram` calls a framer and, only if it succeeds, the emitter.
- The handlers share the process-wide globals. `g_literalArrayCount` is shared by LITERALBUFFER and MODULE. `g_debugModeEnabled` is written by OPTIONS and read by the function decoder.
- The module decoder depends on `_ESModuleRecord` having been created by an earlier OPTIONS frame.
- The type adapter reads the annotations that the function decoder writes. However, `GenerateProgram` never calls it. The decoder writes the element `typeOfVreg`, while the adapter looks for `_TypeOfInstruction`. The adapter is therefore modelled on its own, on the input that spec §4.9 describes.

Everything runs on a single thread. The hard behaviours are:

- every way `read(2)` can split the stream;
- the carry-over of a frame, and of the `#` before a `$`, across reads;
- a writer that stops early, and a failing read;
- the order of frames, which the handlers depend on through the globals;
- emplace semantics, which silently drop a second definition;
- the unspecified iteration order of `unordered_map`;
- a check that exists only as an `ASSERT`.

## Modules

| Module | Models | State ↔ code |
|---|---|---|
| `Framer` | `ParseData` | `data` is the buffer, `idx`/`pos`/`isStartDollar` are its locals, `out` is the frames dispatched, `status` is the return value. `msgs` is a history variable: the messages the front end framed with `Encode` (the front end is not in this repository; `EscapeText`/`Encode` are modelled from spec §4.1). |
| `PipeReader` | `ReadFromPipe`, `HandleBuffer`, `IsStartOrEndPosition` | `stream` is what the writer put in the pipe; `sent`/`buff` are the reads so far and the last chunk; `idx`/`startPos`/`data`/`isStartDollar` are the code's variables; `phase` says whether the loop is at `read` or inside `HandleBuffer`. `framePos` is an auxiliary variable for the refinement mapping. |
| `Builder` | `ParseSmallPieceJson` and every handler, `ParseOptions`, `ParseLiteral`, the module decoder, `ParseRecord`, `GetFunctionDefintion` and every `ParseFunction*` and `ParseInstruction*` | one variable per program table and per global; `msgs`/`k` are the frames and the next one to dispatch. A function is its signature (return type, parameters, register count), its instructions (opcode, registers, immediates, ids, label, kept part of `"d"`), its label names, catch blocks, annotations with their element values, variable descriptors, source file and source text. A record is its name, `whole_line`, the three `size_t` positions and its attribute. `ParseString` is `Normalizer`'s normalization (`Norm == INSTANCE Normalizer`), applied wherever the code calls it. |
| `Normalizer` | `ParseString`, `ParseUnicodeEscapeString`, `ConvertUtf8ToMUtf8`, `ConvertUtf16ToMUtf8` | `data` is the argument; `startIdx` and `newData` are the loop's locals; `pc` is the point in the code (`parse`, `loop`, `done`, or `abort` for an exception that escapes). One action per branch of one loop iteration: `DeEscape` (`\\u`), `DecodeEscape` (`\uXXXX`, `std::stoi` of the 4-character window), `StoiThrows`, `ConvertTail`, `TailOutOfRange` (`substr` past the end). Characters are ASCII code points (`CodeOf`); the output is MUTF-8 bytes, U+0000 as `C0 80`. |
| `Driver` | `GenerateProgram` on the `ParseData` path | `EXTENDS Framer` and adds `stage` (where `GenerateProgram` is: `parse`, `emit`, `emitBeforeOpt`, `optimize`, `emitAfterOpt`, `done`), `debugMode` (what the OPTIONS frame left), `gOptLevel`/`cliOptLevel` (the two levels the `#ifdef` test reads), `loggerLevel` (what `InitializeStdLogging` was given), `optimized` (what `OptimizeBytecode` did to `prog`), `output` (the file: `none`, `unoptimized`, `optimized`, `corrupt`) and `result`. `DriverNext` is `Framer`'s `Next` with the driver unchanged, or one driver step. In `Framer` the frames are abstract, so what the OPTIONS frame left is chosen when the test reads it: debug mode, `g_optLevel` (0 in debug mode, as `ParseOptLevel` forces it; `OptionsOutcomes`) and `g_optLogLevel`. An Emit may fail, leaving the file as it was or corrupt. `OptimizeBytecode` may fail, and its result is ignored. |
| `TypeAdapter` | `type_adapter.cpp` | `funcs` is the function table, `annos` the annotation lists; `fi`, `annoIdx`, `eleIdx`, `vregTypeMap` are the locals of `AdaptTypeForProgram`/`AdaptTypeForFunction`; `i`, `order`, `orderTypeMap`, `finished` are those of `HandleTypeForFunction`. |

Each module has one action per handler or loop iteration. An action's guard is the
code's condition and its effect is the whole handler: for example, `ParseOptions`
creates the records and sets every flag in one step.

Data is abstracted as follows:

- A byte is `"$"`, `"#"` or `"c"`.
- A frame parses if and only if its un-escaped text is one of the message texts.
- Names and literal values are small constants. A string the code hands to `ParseString` is a sequence of characters, stored as the MUTF-8 bytes the normalization gives; `MC_Builder` ASSUMEs every such string is well formed (on those `NormalizeMatchesSpec` shows `ParseString` computes the normalization) and uses both `a` and `\u0061`, which become one string.
- `static_cast<size_t>` of a negative `int` is written `[wrapped |-> TRUE, v |-> x]` (2^64 + x).
- An immediate is a double written relative to `INT_MIN`, 0 or `INT_MAX` plus an offset and an optional 1/2, so `INT_MAX + 1` and `INT_MIN - 1` are exact. `IsValidInt32` compares in that form.
- The opcode table is the constant `OpcodeTable` (generated outside the repository); `MC_Builder` gives it two opcodes and `-1 -> INVALID`.
- A literal tag is a number. `ParseLiteral` casts it to `uint8_t` (`TagValue`), and the constant `LiteralTagOf` maps a byte to its `panda_file::LiteralTag` name (`TagName`). So a tag of 256 + n is decoded as tag n. The builder run's input includes 258, which decodes as INTEGER.
- The uninitialized `tag_` of an unknown literal is a nondeterministic choice from `GarbageTags`.
- Literal-array keys are the decimal digits `std::to_string` produces (`ToDecimal`).
- The `unordered_map` iteration order in `UpdateTypeAnnotation` is any order (`SetToSeqs`).

`PipeReader` instantiates `Framer` with the stream as its buffer
(`Whole == INSTANCE Framer WITH …`). Its property `ChunkingInvariant == Whole!Spec`
states that `ReadFromPipe` implements `ParseData`. The mapping is:

- a read, and the carry-over at the end of a chunk, are stuttering steps;
- each scan step of `HandleBuffer` is the scan step of `ParseData` at offset `sent - Len(buff) + idx`.

`Driver` composes `GenerateProgram` with `Framer` by `EXTENDS`. `MC_Framer` instantiates `Driver`, so the framer run checks both.

The MC modules (`MC_Framer`, `MC_PipeReader`, `MC_Builder`, `MC_Normalizer`, `MC_TypeAdapter`)
give the constants their values.

## Runs

| Run | Cfg | Expect | What it shows |
|---|---|---|---|
| typeadapter | `MC_TypeAdapter.cfg` | pass | For every function of up to 3 instructions over 2 locals and 2 arguments, with every type map over 2 vregs, every annotation-list shape, and the unit test's `foo`, the rewritten element is the reference set of spec §4.9 (`AdaptMatchesReference`). Inputs are restricted to those satisfying the code's ASSERT. |
| typeadapter_unchecked | `MC_TypeAdapter_unchecked.cfg` | violation | Finding: the same inputs without the ASSERT's precondition bind one vreg to two argument orders (`AtMostOneEntryPerVreg`). |
| framer | `MC_Framer.cfg` | pass | `ParseData` returns exactly the framed messages, in order, for texts of up to 4 bytes containing `$` and `#`, and up to 3 messages (`FramesRoundTrip`). `GenerateProgram` then reports success only once the parse has succeeded and an Emit of the final program has succeeded. The file holds an optimized program only if opt level 2 was asked for, by the OPTIONS frame or by the command line, and an unoptimized one otherwise. A failed parse writes no file. This holds whatever the emitter and the optimizer do (`EmitsOnlyParsedProgram`). |
| pipe_chunking | `MC_PipeReader.cfg` | pass | Every chunking into reads of 1–4 bytes refines `ParseData` (`ChunkingInvariant`); this includes a `#` and `$` split between two reads. |
| pipe_read_error | `MC_PipeReader_readerr.cfg` | pass | A read may fail at any point; a reported success still has every message (`SuccessMeansComplete`). Under weak fairness the loop always ends, on the failed read or at EOF with every message handed on (`Delivered`). |
| driver_debug_opt | `MC_Framer_debugopt.cfg` | violation | Finding: with debug mode on and the command-line level 2, `GenerateProgram` reaches the optimizer (`DebugBuildNotOptimized`). |
| pipe_truncated | `MC_PipeReader_truncated.cfg` | violation | Finding: a writer that closes the pipe inside a frame gives a successful `ReadFromPipe` that dropped the open frame (`NoFrameLeftOpen`). A cut between two frames is not a finding: no reader can tell it from the end of the output. |
| builder | `MC_Builder.cfg` | pass | An OPTIONS frame (module and debug mode each on or off, or no flags) followed by up to 4 frames of every kind (missing payloads and an unknown type included). Checks: literal-array keys and contents follow the frame order, each TAGVALUE entry holding its literal's tag as a U8 (`LiteralArraysMatchFrames`, spec 8.1 and 4.5); `_ESModuleRecord` indexes each module's layout (`ModuleRecordIndexesLayouts`, 8.3); call-type and symbol annotations go where the spec puts them (`FunctionAnnotationsAsSpecified`, 8.4 and scenario 6); instructions keep their line number always and their positional debug fields, variables and source text exactly in debug mode (`DebugInfoAsSpecified`, spec 3, 4.3 and scenario 6); no frame removes or replaces a function, record or literal array already built, two RECORD frames named `R`, two TYPEINFO frames and two functions per name included, and the only change to a record is a field appended to `_ESModuleRecord` (`TablesKeepFirstDefinition`, spec 3). |
| builder_frame_order | `MC_Builder_order.cfg` | violation | Finding: MODULE before OPTIONS loses the module's field. |
| builder_unknown_tag | `MC_Builder_unknowntag.cfg` | violation | Finding: an unknown literal tag keeps a value entry, with an uninitialized tag, that spec 4.5 drops (`UnknownTagsSkipValue`). A decoder that skips the entry satisfies the property. |
| builder_nameless | `MC_Builder_nameless.cfg` | violation | Finding: a nameless function gets the `func_main_0`-only annotations. |
| normalizer | `MC_Normalizer.cfg` | pass | For every string of up to 7 characters over `\`, `u`, `0`, `a`, `ParseString` never throws on a well-formed string and returns the left-to-right normalization of spec 4.6 (`NormalizeMatchesSpec`). `MC_Normalizer` ASSUMEs scenario 4 of the reference. |

Every property of a passing run has a mutant in `PROJECT.json`: a plausible bug in
the mapped code that TLC finds. The mutants are:

- `BindLocal` without its `finished` check;
- the `#` look-behind dropped;
- the carried-byte look-behind dropped;
- a failed read taken as EOF;
- `ParseSingleModule` not incrementing the counter;
- the tag switched on without the `uint8_t` cast (`ParseLiteralNoCast`), caught by `LiteralArraysMatchFrames`;
- `AddModuleRecord` given the incremented counter;
- `ParseFunctionCallType` without its debug check;
- `ParseInstructionDebugInfo` copying the positional fields outside debug mode;
- the `\\u` branch keeping both backslashes;
- a 0 returned by `read` at EOF handed to `HandleBuffer` as an empty chunk (the loop spins);
- `ParseSingleRec` assigning `record_table[name]` instead of emplacing;
- `GenerateProgram` going on to the emitter after `ParseData` returned false.

`MC_Builder` also ASSUMEs:

- `ModuleLayout` of end-to-end scenario 2 is the 13-entry array the spec lists, its strings as MUTF-8 bytes;
- the immediates 1 and `INT_MAX` become `int64`, and 1.5, `INT_MAX + 1`, `INT_MIN + 1/2`, `INT_MIN - 1` and scenario 3's 3000000000.0 stay doubles;
- `"ti" = [2, 0]` becomes the `typeOfVreg` array `[0, 2, 1, 0]` (spec 4.3).

### Bounds

- **Stream framing.** Message texts of up to 4 bytes over `{c, #, $}` cover every escape position: leading, trailing, and doubled (`#$#c`, `$$$c`). `Framer` takes up to three messages and `PipeReader` two, which is enough for a frame to follow a frame. Reads of 1 to 4 bytes put a read boundary between every two bytes of a frame, the `#`|`$` split included.
- **Normalizer.** Seven characters hold `a\u00aab`, `\\u00a0`, two escapes in a row, and every short or non-hex window. The code units reached take 1, 2 and 3 MUTF-8 bytes, and U+0000 is among them.
- **Builder.** Four frames after OPTIONS are enough for a literal buffer between two modules, a duplicate module, a module after an unknown frame, and a second definition of a function, a record or the type-info record after other frames. The decoders are pure functions of one payload, so each payload shape (every optional field present and absent, non-object and non-string array entries, the boundary immediates) appears once in the frames and is decoded in every order and debug mode.
- **Driver.** The levels 0 and 2, from the OPTIONS frame and from the command line, with debug mode on and off, reach both branches of the `#ifdef` test, and both choices of the logger level. The emitter's and the optimizer's outcomes are all taken after every parse of the framer run.
- **Type adapter.** Three instructions with two arguments are enough for the window of two, a local `sta.dyn` after it, and repeated bindings.

### Fairness and deadlock

`ReadFromPipe` is one thread looping over a blocking `read(2)` and
`HandleBuffer`. Once the writer has closed the pipe, every `read` returns, so
the program always has a next step until it returns. `PipeReader`'s `FairSpec`
is therefore `Spec /\ WF_vars(Next)`, and `Delivered` is checked under it.
Nothing else is assumed: there is no other thread whose progress the model
could require. The other properties are safety properties, or refinement of
a safety specification. Every model ends in an explicit stuttering action
(`Terminated`, `Done`), so deadlock checking stays on.

## Findings

1. **Type adapter** (`type_adapter.cpp:93`). The "not yet finished" test for arguments exists only as an `ASSERT`. In a release build, two argument `mov.dyn` into the same vreg produce two entries for it.
2. **Pipe reader** (`ts2abc.cpp:1237`). EOF is success even inside an open frame: the frame's bytes are dropped without a parse, and a front end that dies mid-frame gives a program missing that message and exit code 0. Spec 4.1 says the framer hands on complete frames, and spec 7 makes a frame that does not parse fatal. `ParseData` ends the same way at the end of its buffer.
3. **Frame order** (`ts2abc.cpp:807`). A MODULE frame before the OPTIONS frame that enables module mode gets no `_ESModuleRecord` field. Spec 8.3 says this holds "for all inputs".
4. **Unknown literal tag** (`ts2abc.cpp:278`). The value entry is emplaced with an uninitialized tag. Spec 4.5 and 7 say it is dropped and only the TAGVALUE entry kept.
5. **Nameless function** (`ts2abc.cpp:658`). The `func_main_0` test sits inside the `isMember("n")` block, so a function without a name gets exported/declared symbol annotations.
6. **Debug build optimized** (`ts2abc.cpp:1275`). With debug mode on, `ParseOptLevel` makes `g_optLevel` 0, but a non-zero `optLevel` argument still sends the build through `OptimizeBytecode` (run driver_debug_opt, `DebugBuildNotOptimized`). Spec scenario 6 says the effective opt level is 0; the spec does not mention the command-line level, so this is recorded as a gap in the spec.

Also observed, without a run of its own:

- A `\u` with fewer than four hex digits (`ts2abc.cpp:196`) is decoded from the digits that are there, and `startIdx` skips the whole 4-character window: in `\u0\\0` the window `0\\0` gives U+0000 and the rest of it is lost. When the window has no hex digit, or runs past the end, the process dies of an uncaught `std::invalid_argument` or `std::out_of_range`. Spec §1 leaves escape details out of scope and §7 does not count them as malformed input, so no property is stated; `Normalizer` models the code, and `NormalizeMatchesSpec` is stated on well-formed strings only.
- Spec 4.3 gives the return type the default `"any"`. `GetFunctionDefintion` (`ts2abc.cpp:519`) sets `"any"` only when `"s"` is an object without a string `"rt"`. A frame without `"s"` keeps the return type `""`. `Builder` models the code.
- `GenerateProgram` ignores `OptimizeBytecode`'s result (`ts2abc.cpp:1292`). If the optimizer fails, the build returns true with an unoptimized file. If the second Emit fails (`:1293`), the build returns false, yet the complete unoptimized file from the first Emit stays on disk. `Driver` reaches both cases. The spec says nothing about either, so no property is stated.
- Spec 8.2 says that "every literal array" alternates tag and value entries. Module literal arrays follow the §4.7 layout, which `LiteralArraysMatchFrames` checks, and are not such pairs.

## Not modelled, and the plan

Not modelled:

- **JSON types the front end never sends.** Examples are a negative `"p"` or `"r"` (which `asUInt` throws on), a non-string label, and a NUL inside a name (which `c_str()` truncates). These are listed as hazards.
- **Multi-byte and invalid UTF-8 in the normalizer.** The alphabet is ASCII. `std::wstring_convert` throwing on invalid UTF-8 belongs to the standard library.
- **The type adapter inside the build.** `GenerateProgram` never calls `TypeAdapter`, so in the program as written the composition is a no-op. `TypeAdapter` is checked on the input spec §4.9 describes. The decoder's element name `typeOfVreg` is not the adapter's `_TypeOfInstruction`, which is recorded as a hazard.
- **Opcode table.** It is generated outside the repository.
- **File input, emitter and optimizer.** `HandleJsonFile` is file I/O. `AsmEmitter` and the optimizer are libraries, and only their outcomes (success or failure) are modelled.
- **Logging.**
- **The `uint32_t` wrap of `g_literalArrayCount`** and the `uint16_t` module request index. They need 2^32 arrays or 65536 requests.
- **An OPTIONS frame after a FUNCTION frame.** The function decoder reads `g_debugModeEnabled` while a frame is decoded (`ts2abc.cpp:391`, `:599`), so a function before the OPTIONS frame that turns debug mode on is decoded as a release function. The front end sends OPTIONS first, the builder run does the same, and the spec does not say what a later OPTIONS frame must do; the two hazards have no property.

Plan for later sittings, most important first:

1. Compose `Framer`/`PipeReader` with `Builder`, so that the program built from a pipe is shown to be independent of chunking (spec 8, round-trips), with frames that really are builder messages.
2. Add a RECORD frame named like a synthesized record (`_ESTypeInfoRecord`, `_ESModuleRecord`) to Builder's inputs. Emplace then keeps whichever came first, and spec 8.3's "iff" fails.
3. Compose `Driver` with `Builder` as well, so that the OPTIONS frame itself, and not an abstract outcome of it, feeds the `#ifdef` test.
