SPECIFICATION WidgetsSpec
CONSTANTS
  a = a
  b = b
  MapDevices = {a, b}
  NoDevice = nodevice
  PosInf = inf
  NegInf = neginf
  NaN = nan
  Coords <- MCCoords
  Positions <- MCPositions
  MapSizes <- MCSizes
  Points <- MCPoints
  GestureLimit = 2
  TableDevices = {a, b}
  States = {"OK", "LOW"}
  FreshAge = 2
  StaleAge = 4
  Second = 2
  Horizon = 9
CHECK_DEADLOCK FALSE
INVARIANT FleetDisplayed
