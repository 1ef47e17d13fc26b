SPECIFICATION Spec
CONSTANTS
  Clients = {c1, c2, c3}
  Quota = 4
  MaxEvents = 2
  Faults = {"refuse", "close", "slow", "signal", "cut"}
SYMMETRY ClientSymmetry
INVARIANTS
  TypeOK
  ReportsAccounted
  AckMatchesReport
  ClientsTakeTurns
  SummaryIsComplete
