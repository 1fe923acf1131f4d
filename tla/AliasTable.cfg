CONSTANTS
  MaxItems = 4
  Weights = {1, 2, 5}
  INTROSPECTION = FALSE
SPECIFICATION AliasSpec
INVARIANTS TableCovers ChancesRight ChosenEnabled
