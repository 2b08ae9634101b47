SPECIFICATION Spec
CONSTANTS
  Wrong = {"semi"}
  Inputs <- MCHeads
INVARIANTS
  MissingParenDiagnosed
