SPECIFICATION Spec
CONSTANTS
  Conns = {c1}
  Mode = "client"
  Platforms = {"linux"}
  Debug = {FALSE}
  MaxFd = 4
  MoreFds = 0
  SelectNfds = 4
  SelectWord = 4
  BufSize = 1
  ThreadBuf = 1
  PipeCap = 1
  MaxSend = 0
  AllItems = 1
  MaxTyped = 1
  WindowsConns = 0
  Env = {"eof"}
  Free = Free
  Beyond = Beyond
  Listener = Listener
  AfDevice = AfDevice
  NoFd = NoFd
INVARIANT UntilNetworkShutsDown
CHECK_DEADLOCK FALSE
