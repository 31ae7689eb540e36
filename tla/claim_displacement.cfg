SPECIFICATION Spec
CONSTANTS
  Images <- Gather
  Filler = 0
  Lengths = {15}
  MachineModes = {32}
  OldCounts = {0}
  OldBases = {"NONE"}
  Wrap = 256
  MaxBytecodes = 15
  Entries <- Rows
  FirstEntry <- AAA
INVARIANTS
  OneDisplacement
