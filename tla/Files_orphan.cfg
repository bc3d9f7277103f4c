CONSTANTS
  Procs = {1, 2}
  NINODE = 5
  NInum = 5
  Names = {"a", "b", "l", "n"}
  NFILE = 2
  NOFILE = 2
  Targets <- MCTargets
  Tree <- MCTree
  Scripts <- OrphanScripts
SPECIFICATION Spec
CHECK_DEADLOCK FALSE
INVARIANT FreedWhenUnused
