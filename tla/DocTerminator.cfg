SPECIFICATION Spec
CONSTANTS
  MaxTokens = 4
  MaxOperators = 2
  Inputs <- MCInputs
INVARIANTS
  UntilTerminator
