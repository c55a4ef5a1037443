SPECIFICATION Spec
CONSTANTS
  CodeSize = 32
  MaxSub = 4
  Pattern <- MCPattern
  Text <- MCText
  CharsOf <- MCCharsOf
  High <- MCHigh
  ClassChars <- MCClassChars
  Expression <- MCExpression
INVARIANTS
  TypeOK
  Sound
  CapturesSound
  FirstFound
CHECK_DEADLOCK FALSE
PROPERTY
  Returns
