SPECIFICATION Spec
CONSTANTS
  MaxLength = 2
  ByteArrayMaxLen = 2
  Half = 4
  Values <- MCValues
  Foreign <- MCForeign
  Strays <- MCStrays
  MaxStrays = 1
INVARIANTS
  TypeOK
  RoundTrip
  PartIsRefused
  ReadIsCanonical
CHECK_DEADLOCK FALSE
