SPECIFICATION Spec
CONSTANTS
  Terminals = {t1, t2}
  Ring = 2
  NoTerminal = NoTerminal
  Workloads <- Small
INVARIANTS OutputIsTold ContainersAreRemoved
PROPERTIES ActsEnd
CHECK_DEADLOCK FALSE
