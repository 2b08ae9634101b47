SPECIFICATION Spec
CONSTANTS
  a = a
  i = i
  f = f
  none = none
  Names <- MCNames
  NoName <- none
  Sources <- MCSources
  Tails <- MCTails
INVARIANTS
  HandedOver
  NoLoopTests
  BuiltFromThis
PROPERTY
  Termination
