SPECIFICATION Spec
CONSTANTS
  Wsl1 = Wsl1
  Wsl2 = Wsl2
  Clusters = {c1, c2}
  Faults = {"apiError"}
  None = None
INVARIANTS OneWriter AttestedCannotWrite
