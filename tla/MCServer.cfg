SPECIFICATION Spec
CONSTANTS
  viewer = viewer
  loadgen = loadgen
  simulator = simulator
  Conns = {viewer, loadgen, simulator}
  f1 = f1
  f2 = f2
  f3 = f3
  Fds = {f1, f2, f3}
  ListenFd = listenfd
  NoConn = noconn
  d1 = d1
  d2 = d2
  Devices = {d1, d2}
  DeviceOf <- MCDeviceOf
  Says <- MCSays
  LineLimit <- MCLineLimit
  SendBuf = 3
  MaxEvents = 2
  MaxMetrics = 0
SYMMETRY FdSymmetry
INVARIANTS
  TypeOK
  TablesAgree
  NoStaleEvent
  ActiveMatchesCounters
  BytesStayWithConnection
  AckOwed
