SPECIFICATION HistorySpec
CONSTANTS
  Words <- MCWords
  Lengths = {0, 1, 3, 4, 10}
  OldTokens = {0, 170}
  Garbage = {0, 2}
  Encodings <- MCEncodings
  Templates <- MCTemplates
  MaxAstray = 4
INVARIANTS
  AArch32TypeOK
  AcceptedDescribesInsn
  ConditionIsEncoded
  PcWriteBranches
  DestructiveIsOverlap
  ListsStayInBank
  ImmediatesExpand
  VectorImmediatesExpand
  ShiftsAreManual
  BranchOffsetIsField
  ItBlockMatchesMask
  FlagSettingFollowsIT
  LengthFits
PROPERTIES
  AliasOnlyAdds
  StreamIsCursor
