SPECIFICATION Spec
CONSTANTS
  MaxTokens = 4
  MaxOperators = 4
  Inputs <- MCInputs
INVARIANTS
  TypeOK
  MinsClimb
  DepthPaid
  PrecedenceTree
  NoParenthesis
  OutcomeByTokens
PROPERTIES
  Termination
