SPECIFICATION FairSpec
CONSTANTS
  Conns = {c1, c2}
  MaxFd = 8
  SelectNfds = 8
  SelectWord = 8
  BufSize = 2
  SndCap = 1
  MaxSend = 2
  AllSend = 3
  Env = {}
  AfLeak = FALSE
  StartupLeaks = 0
  Free = Free
  Listener = Listener
  AfDevice = AfDevice
  NoFd = NoFd
PROPERTY Forwarded
PROPERTY ClientsAccepted
CHECK_DEADLOCK FALSE
