SPECIFICATION Spec
CONSTANTS
  a = a
  b = b
  c = c
  x = x
  y = y
  pa = pa
  pb = pb
  f = f
  g = g
  placeholder0 = placeholder0
  none = none
  Names <- MCNames
  NoName = none
  Spelling <- MCSpelling
  Programs <- MCShadow
INVARIANTS
  UndefinedIsInvisible
