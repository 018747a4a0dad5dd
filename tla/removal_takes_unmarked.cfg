SPECIFICATION Spec
CONSTANTS
  Conns = {c1, c2}
  MaxFd = 8
  SelectNfds = 8
  SelectWord = 8
  BufSize = 1
  SndCap = 1
  MaxSend = 1
  AllSend = 4
  Env = {"fin"}
  AfLeak = FALSE
  StartupLeaks = 0
  Free = Free
  Listener = Listener
  AfDevice = AfDevice
  NoFd = NoFd
SYMMETRY ConnSymmetry
PROPERTY OnlyMarkedRemoved
CHECK_DEADLOCK FALSE
