SPECIFICATION DrilledSpec
CONSTANTS
  Wsl1 = Wsl1
  Wsl2 = Wsl2
  Clusters = {c1}
  Pvcs = {p1}
  Prebind = FALSE
  Faults = {}
  Quiet = FALSE
  Unset = Unset
  InTransit = InTransit
INVARIANTS DrillSparesRunningApp
CHECK_DEADLOCK FALSE
