SPECIFICATION Spec
CONSTANTS
  Calls = {c1, c2, c3}
  SectionIds = {s1, s2}
  Body = Body
  Blank = Blank
  None = None
  Slugs = {1}
  MaxCreates = 2
  MaxRetries = 1
SYMMETRY Symmetry
CHECK_DEADLOCK FALSE
INVARIANTS HistoryIsLinear ContentIntact ReportedTruthfully SectionsAreTheContent
