SPECIFICATION Spec
CONSTANTS
  Products = {p1}
  Brands = {b1}
  Words = {w1}
  Names = {n1, n2}
  Handlers = {h1}
  None = None
SYMMETRY Symmetry
INVARIANT RenameRebuilds
