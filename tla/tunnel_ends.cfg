SPECIFICATION FairSpec
CONSTANTS
  Conns = {c1}
  MaxFd = 8
  SelectNfds = 8
  SelectWord = 8
  BufSize = 2
  SndCap = 1
  MaxSend = 2
  AllSend = 4
  Env = {"fin", "gone", "refuse", "abort"}
  AfLeak = FALSE
  StartupLeaks = 0
  Free = Free
  Listener = Listener
  AfDevice = AfDevice
  NoFd = NoFd
INVARIANT TypeOK
INVARIANT StreamIntegrity
PROPERTY EndPropagated
PROPERTY ImplementsRelay
CHECK_DEADLOCK FALSE
