CONSTANTS
  Procs = {a, b}
SPECIFICATION ModuleSpec
INVARIANT LoadedIsSafe
INVARIANT UnloadedIsSafe
INVARIANT CleanUnload
CHECK_DEADLOCK FALSE
