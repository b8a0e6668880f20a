SPECIFICATION Spec
CONSTANTS
  Targets <- MCTargets
  Imports <- MCImports
  Slots = 3
  Loader = "DllMain"
  Callers = {"watcher", "engine"}
INVARIANT PassesOn
CHECK_DEADLOCK FALSE
