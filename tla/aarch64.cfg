SPECIFICATION Spec
CONSTANTS
  Words <- MCWords
  Lengths = {0, 2, 3, 4, 8}
  Encodings <- MCEncodings
  Templates <- MCTemplates
  MaxAstray = 4
INVARIANTS
  AArch64TypeOK
  AcceptedIsFirstFit
  ConditionsAreEncoded
  OffsetIsField
  RegistersFollow
  LogicalImmediateIsManual
  MovLoadsWideImmediate
  BitfieldEncodesBack
PROPERTIES
  StreamIsCursor
