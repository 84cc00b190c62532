\* Two threads of the target, two functions; every order of calls of the API, of what the
\* threads execute, and of the suspensions of its threads, by the call and by another
\* process, which finds them outside the functions.
SPECIFICATION Spec
CONSTANTS
  t1 = t1
  t2 = t2
  Threads <- MCThreads
  Targets <- MCTargets
  Last = 2
  HeldIn = {"elsewhere"}
SYMMETRY Symmetric
INVARIANTS
  JumpsAreBacked
  StoppedWhilePatched
  NoTornInstruction
  SuspendsBalanced
  ReleasedOnlyBehindJump
  CallNeverStuck
CHECK_DEADLOCK FALSE
