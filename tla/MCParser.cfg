CONSTANTS
  MaxText = 3
  ParseFunction <- MCParseFunction
SPECIFICATION Spec
INVARIANTS
  TreesMatchTexts
  LaterDeclarationsFound
PROPERTIES
  ReadsOn
CHECK_DEADLOCK FALSE
