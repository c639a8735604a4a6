SPECIFICATION Spec
CONSTANTS
  Wsl1 = Wsl1
  Wsl2 = Wsl2
  Clusters = {c1}
  Pvcs = {p1}
  Prebind = FALSE
  Faults = {}
  Unset = Unset
  InTransit = InTransit
SYMMETRY Symmetry
INVARIANTS RollbackRestarts
CHECK_DEADLOCK FALSE
