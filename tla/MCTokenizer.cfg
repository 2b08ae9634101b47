SPECIFICATION Spec
CONSTANTS
  Letters = {"i", "f"}
  Digits = {"1"}
  Others = {" "}
  Invalid = "0xFF"
  Keyword <- MCKeyword
  BufSize = 4
  MaxText = 4
  MaxWord = 6
  Sources <- MCSources
INVARIANTS
  TypeOK
  NothingLost
PROPERTIES
  ImplementsLexer
  Termination
