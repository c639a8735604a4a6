SPECIFICATION Spec
CONSTANTS
  Wsl1 = Wsl1
  Wsl2 = Wsl2
  Clusters = {c1}
  Pvcs = {p1}
  Prebind = FALSE
  Faults = {"crash", "kubectl", "wrongWay", "unread"}
  Unset = Unset
  InTransit = InTransit
SYMMETRY Symmetry
INVARIANTS OneRunner OnePrimary NoLostWrite RunsOnCurrentData
PROPERTIES ClearKeepsPlacement ImplementsSingleWriter
CHECK_DEADLOCK FALSE
