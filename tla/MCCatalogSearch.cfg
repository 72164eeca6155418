SPECIFICATION Spec
CONSTANTS
  Products = {p1, p2}
  Brands = {b1, b2}
  Words = {w1, w2}
  Names = {n1, n2}
  Handlers = {h1, h2}
  None = None
SYMMETRY Symmetry
INVARIANT TypeOK
INVARIANT OutOfDateHasCause
