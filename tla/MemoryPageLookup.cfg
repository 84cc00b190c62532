SPECIFICATION Spec
CONSTANTS
  Addrs = {1, 4, 8}
  Sizes = {0, 1}
  Row = 4
  Page = 8
  Header = 1
  MaxReports = 2
  MaxPosted = 1
INVARIANT LookupReturns
CHECK_DEADLOCK FALSE
