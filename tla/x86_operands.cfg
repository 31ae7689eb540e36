SPECIFICATION Spec
CONSTANTS
  Images <- OperandImages
  Filler = 158
  Lengths = {1, 2, 3, 4, 5, 6, 7, 8, 9, 12}
  MachineModes = {16, 32, 64}
  OldCounts = {0}
  OldBases = {"NONE"}
  Wrap = 256
  MaxBytecodes = 15
  Entries <- Rows
  FirstEntry <- AAA
INVARIANTS
  BytecodesTile
  OvershootIsModRM
  StaleOnlyWhenTruncated
  RefusedOnlyWhenTruncated
