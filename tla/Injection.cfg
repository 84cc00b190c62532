\* Two injectors, one target; three modules, three functions, two hooks of a kind.
SPECIFICATION Spec
CONSTANTS
  i1 = i1
  i2 = i2
  a = a
  b = b
  f = f
  Null = Null
  Injectors <- MCInjectors
  CommandLines <- MCLines
  Pids = {"7"}
  Libraries = {"dll"}
  Modules <- MCModules
  Mallocs <- MCMallocs
  Frees <- MCFrees
  Avoided = {"msvcrt"}
  NumHooks = 2
INVARIANTS
  OriginalBehindEveryJump
  NothingLeftBehind
  SuspensionReturned
  SuspensionsCounted
PROPERTIES
  InjectorEnds
CHECK_DEADLOCK FALSE
