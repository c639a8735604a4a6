SPECIFICATION Spec
CONSTANTS
  Wsl1 = Wsl1
  Wsl2 = Wsl2
  Clusters = {}
  Pvcs = {p1, p2}
  Prebind = TRUE
  Faults = {"unread"}
  Unset = Unset
  InTransit = InTransit
SYMMETRY Symmetry
INVARIANT RunsOnCurrentData
CHECK_DEADLOCK FALSE
