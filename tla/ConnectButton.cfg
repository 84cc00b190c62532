\* Four connections.  Each may be lost at any moment, and its reader may end before
\* its socket, or die.
SPECIFICATION ButtonFairSpec
CONSTANTS
  MaxConnections = 4
INVARIANTS
  OneReader
  ButtonTellsTruth
PROPERTIES
  CanReconnect
