SPECIFICATION Spec
CONSTANTS
  p1 = p1
  p2 = p2
  a = a
  b = b
  c = c
  x = x
  y = y
  pa = pa
  f = f
  g = g
  none = none
  Names <- MCNames
  NoName = none
  ByteValues = 4
  StackTop = 120
  StackSize = 120
  Programs <- MCPrograms
  Compile <- ImageOf
INVARIANTS
  TypeOK
  TextLevelled
  StackLevel
  CallsReturn
  ArgumentArrives
PROPERTIES
  MeansItsSource
