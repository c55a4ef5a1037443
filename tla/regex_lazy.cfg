SPECIFICATION Spec
CONSTANTS
  CodeSize = 32
  MaxSub = 4
  Pattern <- MCLazyPattern
  Text <- MCText
  CharsOf <- MCCharsOf
  High <- MCHigh
  ClassChars <- MCClassChars
  Expression <- MCLazy
INVARIANT AlwaysSound
CHECK_DEADLOCK FALSE
