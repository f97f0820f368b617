------------------------------- MODULE Driver -------------------------------
(***************************************************************************)
(* GenerateProgram of ts2abc.cpp on the ParseData path: ParseData (Framer) *)
(* and then either one AsmEmitter::Emit or, when ENABLE_BYTECODE_OPT is    *)
(* defined and g_optLevel or the optLevel argument is not O_LEVEL0, an     *)
(* Emit, the bytecode optimizer and a second Emit.                         *)
(*                                                                         *)
(* The frames are abstract in Framer, so what their OPTIONS frame left    *)
(* is chosen when GenerateProgram reaches the test that reads it: debug    *)
(* mode, g_optLevel (from OptLevels, and 0 in debug mode, as ParseOptLevel *)
(* forces it) and g_optLogLevel; the optLogLevel argument, read only      *)
(* there, is chosen there too.  The emitter and the optimizer are          *)
(* libraries: an Emit may fail, leaving the file as it was or partly       *)
(* written ("corrupt"), and OptimizeBytecode may fail, leaving the program *)
(* unoptimized; its result is not looked at.                               *)
(***************************************************************************)
EXTENDS Framer

CONSTANTS
  OptLevels,         \* g_optLevel values the OPTIONS frame may leave
  OptLogLevels,      \* g_optLogLevel values
  CliOptLevels,      \* the optLevel argument of GenerateProgram
  CliOptLogLevels,   \* its optLogLevel argument
  EnableBytecodeOpt  \* ENABLE_BYTECODE_OPT is defined in the build

VARIABLES
  stage,        \* "parse" | "emit" | "emitBeforeOpt" | "optimize" | "emitAfterOpt" | "done"
  debugMode,    \* g_debugModeEnabled as the OPTIONS frame left it
  gOptLevel,    \* g_optLevel as GenerateProgram reads it
  cliOptLevel,  \* the optLevel argument
  loggerLevel,  \* the level panda::Logger was initialized with, "none" before
  optimized,    \* OptimizeBytecode has optimized prog
  output,       \* the output file: "none" | "unoptimized" | "optimized" | "corrupt"
  result        \* GenerateProgram's return value once stage is "done"

drvVars == <<stage, debugMode, gOptLevel, cliOptLevel, loggerLevel, optimized, output, result>>
allVars == <<vars, drvVars>>

O_LEVEL0 == 0

\* What ParseDebugMode and ParseOptLevel leave: g_optLevel is the frame's
\* opt_level, or 0 once debug mode is on.
OptionsOutcomes ==
  {[debug |-> d, optLevel |-> IF d THEN O_LEVEL0 ELSE l] : d \in BOOLEAN, l \in OptLevels}

\* What an Emit of prog writes.
Written == IF optimized THEN "optimized" ELSE "unoptimized"

\* A failed AsmEmitter::Emit: the error is printed and GenerateProgram
\* returns false.
EmitFails ==
  /\ output' \in {output, "corrupt"}
  /\ result' = FALSE /\ stage' = "done"

\* Mutant: ParseData's false return not looked at, the build goes on.
ParseFailedNoReturn ==
  /\ stage = "parse" /\ status = "fail"
  /\ \E o \in OptionsOutcomes : debugMode' = o.debug /\ gOptLevel' = o.optLevel
  /\ stage' = IF EnableBytecodeOpt /\ (gOptLevel' # O_LEVEL0 \/ cliOptLevel # O_LEVEL0)
              THEN "emitBeforeOpt" ELSE "emit"
  /\ UNCHANGED <<vars, cliOptLevel, loggerLevel, optimized, output, result>>

\* "fail to parse Data!": ParseData returned false.
ParseFailed ==
  /\ stage = "parse" /\ status = "fail"
  /\ result' = FALSE /\ stage' = "done"
  /\ UNCHANGED <<vars, debugMode, gOptLevel, cliOptLevel, loggerLevel, optimized, output>>

\* The #ifdef ENABLE_BYTECODE_OPT test after a successful parse.  On the
\* optimizing branch the logger is initialized with the optLogLevel
\* argument, or with g_optLogLevel when the argument is "error".
SelectEmitter ==
  /\ stage = "parse" /\ status = "ok"
  /\ \E o \in OptionsOutcomes, gl \in OptLogLevels, l \in CliOptLogLevels :
       /\ debugMode' = o.debug /\ gOptLevel' = o.optLevel
       /\ IF EnableBytecodeOpt /\ (o.optLevel # O_LEVEL0 \/ cliOptLevel # O_LEVEL0)
          THEN /\ loggerLevel' = IF l # "error" THEN l ELSE gl
               /\ stage' = "emitBeforeOpt"
          ELSE /\ stage' = "emit"
               /\ UNCHANGED loggerLevel
  /\ UNCHANGED <<vars, cliOptLevel, optimized, output, result>>

\* The first Emit of the optimizing branch.
EmitBeforeOptimize ==
  /\ stage = "emitBeforeOpt"
  /\ \/ output' = Written /\ stage' = "optimize" /\ UNCHANGED result
     \/ EmitFails
  /\ UNCHANGED <<vars, debugMode, gOptLevel, cliOptLevel, loggerLevel, optimized>>

\* panda::bytecodeopt::OptimizeBytecode, whose result is ignored.
OptimizeBytecode ==
  /\ stage = "optimize"
  /\ optimized' \in BOOLEAN
  /\ stage' = "emitAfterOpt"
  /\ UNCHANGED <<vars, debugMode, gOptLevel, cliOptLevel, loggerLevel, output, result>>

\* The second Emit of the optimizing branch, then return true.
EmitAfterOptimize ==
  /\ stage = "emitAfterOpt"
  /\ \/ output' = Written /\ result' = TRUE /\ stage' = "done"
     \/ EmitFails
  /\ UNCHANGED <<vars, debugMode, gOptLevel, cliOptLevel, loggerLevel, optimized>>

\* The Emit after #endif, the only one when not optimizing.
EmitProgram ==
  /\ stage = "emit"
  /\ \/ output' = Written /\ result' = TRUE /\ stage' = "done"
     \/ EmitFails
  /\ UNCHANGED <<vars, debugMode, gOptLevel, cliOptLevel, loggerLevel, optimized>>

\* g_debugModeEnabled's and g_optLevel's initializers, the argument as passed, an empty Program.
DriverInit ==
  /\ Init
  /\ stage = "parse" /\ debugMode = FALSE /\ gOptLevel = O_LEVEL0 /\ cliOptLevel \in CliOptLevels
  /\ loggerLevel = "none" /\ optimized = FALSE
  /\ output = "none" /\ result = FALSE

DriverNext ==
  \/ Next /\ UNCHANGED drvVars
  \/ ParseFailed \/ SelectEmitter
  \/ EmitBeforeOptimize \/ OptimizeBytecode \/ EmitAfterOptimize
  \/ EmitProgram

DriverSpec == DriverInit /\ [][DriverNext]_allVars

-----------------------------------------------------------------------------
\* Spec 6 (Output): the optimizer is asked for when opt_level > 0, from the OPTIONS
\* frame or the command line, and it is compiled in.
OptimizerRequested ==
  EnableBytecodeOpt /\ (gOptLevel > O_LEVEL0 \/ cliOptLevel > O_LEVEL0)

\* GenerateProgram reports success only once ParseData has succeeded and an
\* Emit of the final program has succeeded: the file then holds an
\* optimized program only if the optimizer was asked for, and the
\* unoptimized one if it was not; a parse that fails writes no file,
\* whatever the emitter and the optimizer do afterwards.
EmitsOnlyParsedProgram ==
  /\ status = "fail" => output = "none"
  /\ stage = "done" /\ result =>
       /\ status = "ok"
       /\ output \in {"unoptimized", "optimized"}
       /\ output = "optimized" => OptimizerRequested
       /\ ~OptimizerRequested => output = "unoptimized"

\* Spec 8, scenario 6: with debug mode on the effective opt level is 0, so a
\* debug build is emitted unoptimized and never reaches the optimizer.
\* ParseOptLevel resets only g_optLevel; the test at ts2abc.cpp:1275 also
\* reads the optLevel argument of GenerateProgram.
DebugBuildNotOptimized ==
  debugMode => stage \notin {"emitBeforeOpt", "optimize", "emitAfterOpt"}

=============================================================================
