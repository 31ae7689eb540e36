SPECIFICATION HistorySpec
CONSTANTS
  Words <- ItEq
  Lengths = {4}
  OldTokens = {0}
  Garbage = {0}
  Encodings <- EncodingRows
  Templates <- TemplateRows
  MaxAstray = 4
INVARIANTS
  ItConditionIsEncoded
