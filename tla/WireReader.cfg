\* A 32 bit target whose records never stall for a second half way; both ends
\* may close at any moment, and then nothing is left to do.
SPECIFICATION FairSpec
CONSTANTS
  Records <- Win32Records
  MaxRecords = 3
  MidRecordStalls = FALSE
INVARIANTS
  ReceivedAsSent
  NeverDies
PROPERTIES
  ReaderEnds
CHECK_DEADLOCK FALSE
