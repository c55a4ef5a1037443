SPECIFICATION Spec
CONSTANTS
  CodeSize = 32
  MaxSub = 4
  Pattern <- MCWrong
  Text <- MCText
  CharsOf <- MCCharsOf
  High <- MCHigh
  ClassChars <- MCClassChars
  Expression <- NoExpression
PROPERTY BracketRefused
CHECK_DEADLOCK FALSE
