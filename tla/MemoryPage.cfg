SPECIFICATION Spec
CONSTANTS
  Addrs = {2, 3, 4, 8}
  Sizes = {0, 1, 7}
  Row = 4
  Page = 8
  Header = 2
  MaxReports = 3
  MaxPosted = 1
INVARIANTS
  PaintedRight
  SurvivesUndisturbed
CHECK_DEADLOCK FALSE
