SPECIFICATION Spec
CONSTANTS
  Wsl1 = Wsl1
  Wsl2 = Wsl2
  Clusters = {}
  Pvcs = {p1}
  Prebind = TRUE
  Faults = {"prebind"}
  Unset = Unset
  InTransit = InTransit
SYMMETRY Symmetry
INVARIANTS OneRunner
CHECK_DEADLOCK FALSE
