\* The loading thread and two of the target, whose stack walks allocate and free
\* too; the process ends, dies in a hook or runs out of calls.
SPECIFICATION DynSpec
CONSTANTS
  Modules <- DynModules
  Mallocs <- DynMallocs
  Frees <- DynFrees
  Avoided <- DynAvoided
  NumHooks = 1
  Null = Null
  Threads = {loader, t1, t2}
  Loader = loader
  MaxCalls = 3
  MaxDepth = 2
INVARIANTS
  EveryCallReported
  BuffersHeld
  LogUsedWhileOpen
CHECK_DEADLOCK FALSE
