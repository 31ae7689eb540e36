SPECIFICATION Spec
CONSTANTS
  Images <- LimitImages
  Filler = 0
  Lengths <- LimitLengths
  MachineModes = {0, 32, 64}
  OldCounts = {0, 14, 15}
  OldBases = {"NONE"}
  Wrap = 256
  MaxBytecodes = 15
  Entries <- Rows
  FirstEntry <- AAA
INVARIANTS
  Progress
PROPERTIES
  Terminates
