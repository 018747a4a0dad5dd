SPECIFICATION Spec
CONSTANTS
  Conns = {c1}
  MaxFd = 8
  SelectNfds = 8
  SelectWord = 8
  BufSize = 1
  SndCap = 1
  MaxSend = 1
  AllSend = 2
  Env = {"fin"}
  AfLeak = FALSE
  StartupLeaks = 0
  Free = Free
  Listener = Listener
  AfDevice = AfDevice
  NoFd = NoFd
INVARIANT TunnelPersists
CHECK_DEADLOCK FALSE
