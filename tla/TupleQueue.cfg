\* A connection of three tuples.  The GUI never calls shutdown(), the class lets
\* anyone call it at any moment: both happen here.  After the last tuple the
\* handler thread waits for ever, so the system stops.
SPECIFICATION FairSpec
CONSTANTS
  Tuples = {a, b}
  NoTuple = NoTuple
  MaxTuples = 3
  ShutdownCalls = 2
INVARIANTS
  InOrder
  NoLostWakeup
PROPERTIES
  ShutdownStops
  DeliversInOrder
CHECK_DEADLOCK FALSE
