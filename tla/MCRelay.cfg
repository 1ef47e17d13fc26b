SPECIFICATION Spec
CONSTANTS
  peer1 = peer1
  peer2 = peer2
  Conns = {peer1, peer2}
  d1 = d1
  Devices = {d1}
  f1 = f1
  f2 = f2
  f3 = f3
  Fds = {f1, f2, f3}
  ListenFd = listenfd
  NoConn = noconn
  DeviceOf <- MCDeviceOf
  Says <- MCSays
  LineLimit <- MCLineLimit
  SendBuf = 3
  MaxEvents = 1
  MaxMetrics = 1
SYMMETRY FdSymmetry
INVARIANTS
  Routing
  ViewerStreamOrdered
  ViewerNeverAheadOfStore
  EveryLineCountedOnce
PROPERTIES
  ImplementsRelay
