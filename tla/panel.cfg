SPECIFICATION Spec
CONSTANTS
  w1 = w1
  w2 = w2
  f = f
  g = g
  Workspaces = {w1, w2}
  Branches = {main, side}
  Files = {f, g}
  Disk <- MCDisk
  Loose <- MCLoose
  Printed <- MCPrinted
  Threads = {t1, t2}
  UI = ui
  NoFile = none
  NoBranch = none
  ContextLines = 1
  MaxDiffRows = 20
  MaxTreeDepth = 2
  MaxTreeEntries = 6
  Top = top
  Queries <- MCQueries
  AllNames <- MCNames
  Budgets <- MCBudgets

SYMMETRY AnyThread
INVARIANTS PushedIsCommitted QuietPanelIsShown TreeIsWhole EveryChangeIsShown
CHECK_DEADLOCK FALSE
