SPECIFICATION Spec
CONSTANTS
  Images <- PrefixImages
  Filler = 0
  Lengths = {15}
  MachineModes = {16, 32, 64}
  OldCounts = {0}
  OldBases = {"NONE"}
  Wrap = 256
  MaxBytecodes = 15
  Entries <- Rows
  FirstEntry <- AAA
INVARIANTS
  TypeOK
  ForbiddenPrefixUndefined
  LastRepeatPrefixWins
  SegmentOverride
  OperandSizeRule
