SPECIFICATION FairSpec
CONSTANTS
  Clients = {c1, c2}
  Quota = 2
  MaxEvents = 2
  Faults = {"close"}
PROPERTIES
  RunEnds
