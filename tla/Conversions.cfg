SPECIFICATION MCSpec
CONSTANTS
  None = None
  Token <- MCToken
  Within <- Itself
  Amount = {0, 1, 3}
  MaxEdits = 2
INVARIANTS
  
  ResultsCrossTheBridge
  CardTellsTheWhole
