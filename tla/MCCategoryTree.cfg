SPECIFICATION Spec
CONSTANTS
  Ids = {c1, c2, c3}
  Handlers = {h1, h2}
  MaxDepth = 2
  NoParent = NoParent
  Absent = Absent
SYMMETRY Symmetry
INVARIANT TypeOK
INVARIANT ParentsExist
INVARIANT DeletedAreGone
PROPERTY OnlyLongCyclesEscape
