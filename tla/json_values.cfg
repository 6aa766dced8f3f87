\* Two values of the caller's, nullval, and room for four more values; the
\* caller may stop, and the program may abort.
CONSTANTS
  v = v
  w = w
  null = null
  n1 = n1
  n2 = n2
  n3 = n3
  n4 = n4
  x = x
  y = y
  lit = lit
  s = s
  t = t
  Node <- MCNode
  Held <- MCHeld
  NullVal = null
  Name <- MCName
  Scalar <- MCScalar
  NullLiteral = lit
  Close <- MCClose
  MaxIndex = 1
  Compared <- MCCompared
SPECIFICATION Spec
CONSTRAINT StateBound
SYMMETRY MCSymmetry
INVARIANTS TypeOK OwnedOnce NothingLeaks NullInert EqualDecides
PROPERTIES CopiesIndependent
CHECK_DEADLOCK FALSE
