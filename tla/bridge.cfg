SPECIFICATION Spec
CONSTANTS
  Sizes = {1, 3}
  Blocks = {1, 2}
  Files = {1, 2}
  MaxPrinted = 3
  Args <- MCArgs
  MaxPushed = 2
  Returns <- MCReturns
  Commands <- MCCommands
  Lines <- MCLines
  Formats <- MCFormats
  Inputs <- MCInputs
  Pieces <- MCPieces
  Names = {"a", "b", ".c"}
  Hidden = {".c"}
  MaxIndent = 3
  MaxOutput = 12
INVARIANTS
  CapturedPrefix
  ReportAgrees
  ArgsAgree
  FrameIsAsked
  IndentKeeps
  ListsSplit
PROPERTIES
  HandedOutKept
  DebugKeeps
CHECK_DEADLOCK FALSE
