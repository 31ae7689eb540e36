SPECIFICATION HistorySpec
CONSTANTS
  Words <- ItAdc
  Lengths = {6}
  OldTokens = {0}
  Garbage = {0}
  Encodings <- EncodingRows
  Templates <- TemplateRows
  MaxAstray = 4
INVARIANTS
  FormIsInsideBlock
