SPECIFICATION Spec
CONSTANTS
  BufLen <- MCBufLen
  Reply <- MCReply
  TmpSize = 3
INVARIANTS
  TypeOK
  StoredPrefix
  Released
  NoWaitForMore
  SplitIsWhole
PROPERTY
  ImplementsCall
