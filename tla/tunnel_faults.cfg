SPECIFICATION Spec
CONSTANTS
  Conns = {c1, c2}
  MaxFd = 8
  SelectNfds = 8
  SelectWord = 8
  BufSize = 2
  SndCap = 1
  MaxSend = 2
  AllSend = 8
  Env = {"fin", "bind", "selfail", "short"}
  AfLeak = TRUE
  StartupLeaks = 1
  Free = Free
  Listener = Listener
  AfDevice = AfDevice
  NoFd = NoFd
SYMMETRY ConnSymmetry
INVARIANT IInv
INVARIANT NoHalfTunnel
INVARIANT StreamOrdered
CHECK_DEADLOCK FALSE
