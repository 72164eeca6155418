SPECIFICATION Spec
CONSTANTS
  Ids = {c1, c2}
  Handlers = {h1, h2}
  MaxDepth = 4
  NoParent = NoParent
  Absent = Absent
SYMMETRY Symmetry
INVARIANT Acyclic
