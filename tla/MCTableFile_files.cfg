SPECIFICATION TSpec
CONSTANTS
  HashWidth = 16
  Key <- Keys4
  Value <- Values2
  BlockLimits = {20, 36}
  RestartInterval = 2
  DefaultKeys = 7
  SizedFirst = TRUE
  ExpectedKeys = {2}
INVARIANTS TTypeOK DecodesBack OffsetsExact FilterUsed RestartsWhole NeverPanics
PROPERTIES Implements
