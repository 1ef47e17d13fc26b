SPECIFICATION Spec
CONSTANTS
  viewer = viewer
  loadgen = loadgen
  simulator = simulator
  Conns = {viewer, loadgen}
  d1 = d1
  d2 = d2
  Devices = {d1, d2}
  f1 = f1
  f2 = f2
  f3 = f3
  Fds = {f1, f2, f3}
  ListenFd = listenfd
  NoConn = noconn
  DeviceOf <- MCDeviceOf
  Says <- MCSays
  LineLimit <- MCLineLimit
  SendBuf = 2
  MaxEvents = 2
  MaxMetrics = 1
INVARIANT KeepsRunning
