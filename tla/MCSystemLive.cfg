SPECIFICATION MCFairSpec
CONSTANTS
  c1 = c1
  c2 = c2
  Conns = {c1, c2}
  Fds = {4, 5, 6}
  ListenFd = 3
  NoConn = noconn
  device = device
  Devices = {device}
  DeviceOf <- MCDeviceOf
  Says <- MCSays
  LineLimit <- MCLineLimit
  SendBuf = 2
  MaxEvents = 2
  MaxMetrics = 0
  Quota = 1
  Faults = {"refuse", "close", "slow", "kill"}
PROPERTIES
  StopsOnSignal
  RunEndsWithServer
  ConnectionsReleased
