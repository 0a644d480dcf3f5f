CONSTANTS
  Value <- McValue
  Name = {"x", "y"}
  Small = 3
  MaxChars = 5
  MaxTokens = 5
  MaxOperators = 7
  MaxNodes = 3
  MaxLogical = 4
SPECIFICATION McSpec
INVARIANTS
  LexesTheText
  ParsesTheGrammar
  ScopeMonotone
  DeMorgan
  Trichotomy
CHECK_DEADLOCK FALSE
