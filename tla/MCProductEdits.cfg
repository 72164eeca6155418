SPECIFICATION Spec
CONSTANTS
  Products = {p1}
  Handlers = {h1, h2}
  Bodies <- MCBodies
  MoneyMax = 1
  StockMax = 1
  WeightMax = 1
  BigintMax = 2
  IntegerMax = 2
  Null = Null
  Text = Text
  Absent = Absent
  Specs = {"ab", "ba", "a"}
  Canonical <- MCCanonical
SYMMETRY Symmetry
INVARIANT TypeOK
INVARIANT AcceptedFits
INVARIANT EntryNamesChanges
INVARIANT EntryNamesOnlyChanges
INVARIANT EmptyWritesHaveCause
