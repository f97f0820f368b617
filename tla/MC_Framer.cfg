CONSTANTS
  Texts <- MCTexts
  Inputs <- MCInputs
  OptLevels = {0, 2}
  OptLogLevels = {"info"}
  CliOptLevels = {0, 2}
  CliOptLogLevels = {"error", "debug"}
  EnableBytecodeOpt = TRUE
SPECIFICATION DriverSpec
INVARIANT FramesRoundTrip
INVARIANT EmitsOnlyParsedProgram
