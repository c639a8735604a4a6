SPECIFICATION Spec
CONSTANTS
  Wsl1 = Wsl1
  Wsl2 = Wsl2
  Clusters = {c1}
  Faults = {"alive"}
  None = None
INVARIANTS OneWriter
