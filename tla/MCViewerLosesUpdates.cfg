SPECIFICATION Spec
CONSTANTS
  Devices = {d1, d2}
  LineLimit = 2
  ClickLimit = 1
INVARIANTS
  UpToDate
