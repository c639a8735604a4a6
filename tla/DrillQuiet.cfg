SPECIFICATION FairDrilledSpec
CONSTANTS
  Wsl1 = Wsl1
  Wsl2 = Wsl2
  Clusters = {c1}
  Pvcs = {p1}
  Prebind = FALSE
  Faults = {"crash", "kubectl", "wrongWay"}
  Quiet = TRUE
  Unset = Unset
  InTransit = InTransit
INVARIANT DrillSparesRunningApp
PROPERTY PlacementTakesEffect
CHECK_DEADLOCK FALSE
