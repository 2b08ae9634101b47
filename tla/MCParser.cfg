SPECIFICATION Spec
CONSTANTS
  Wrong = {"close_paren", "open_braces", "close_braces", "semi", "ident"}
  Inputs <- MCInputs
INVARIANTS
  TypeOK
  AcceptsGrammar
  NodesDerive
  SpansNest
PROPERTIES
  Termination
