SPECIFICATION StreamSpec
CONSTANTS
  Images <- Sandwiches
  Filler = 5
  Lengths <- StreamLengths
  MachineModes = {32, 64}
  OldCounts = {0}
  OldBases = {"NONE", "REG"}
  Wrap = 256
  MaxBytecodes = 15
  MaxAstray = 8
  Entries <- Rows
  FirstEntry <- AAA
INVARIANTS
  SameBytesSameInsn
PROPERTIES
  StreamIsCursor
