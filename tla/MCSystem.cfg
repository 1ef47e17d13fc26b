SPECIFICATION SysSpec
CONSTANTS
  c1 = c1
  c2 = c2
  Conns = {c1, c2}
  Fds = {f1, f2, f3}
  ListenFd = listenfd
  NoConn = noconn
  device = device
  Devices = {device}
  DeviceOf <- MCDeviceOf
  Says <- MCSays
  LineLimit <- MCLineLimit
  SendBuf = 2
  MaxEvents = 2
  MaxMetrics = 0
  Quota = 2
  Faults = {"refuse", "close", "slow", "kill"}
SYMMETRY MCSymmetry
INVARIANTS
  AcksAsExpected
  CountsAgree
  ServerOutlivesLoadgen
