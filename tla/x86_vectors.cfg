SPECIFICATION Spec
CONSTANTS
  Images <- VectorImages
  Filler = 17
  Lengths = {2, 4, 5, 7, 12}
  MachineModes = {32, 64}
  OldCounts = {0}
  OldBases = {"NONE"}
  Wrap = 256
  MaxBytecodes = 15
  Entries <- Rows
  FirstEntry <- AAA
INVARIANTS
  ArgumentsMatchTemplate
  LegacyFormsStay
PROPERTIES
  AdvanceIsRecorded
