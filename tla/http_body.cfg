SPECIFICATION Spec
CONSTANTS
  BufLen <- MCBufLen
  Reply <- MCReply
  TmpSize = 3
INVARIANT BodyComplete
