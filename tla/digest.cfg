SPECIFICATION Spec
CONSTANTS
  Text <- MCText
  Word = 1024
  Bytes = {0, 65, 128, 144, 160, 193, 194, 224, 237, 240, 244, 248, 252}
  Codes = {0, 1, 48, 64, 65, 107, 128, 255}
  TextSize = 4
  FirstDays <- MCDays
  LastDay = 70
INVARIANTS
  Md5Absorbed
  Sha1Absorbed
  KnownDigests
  DecodesExactly
  Utf8Walk
  EncodingsInvert
  DatesSubtract
PROPERTIES
  Md5ImplementsDigest
  Sha1ImplementsDigest
CHECK_DEADLOCK FALSE
