SPECIFICATION FairSpec
CONSTANTS
  Conns = {c1}
  Mode = "client"
  Platforms = {"linux", "windows"}
  Debug = {TRUE, FALSE}
  MaxFd = 4
  MoreFds = 6
  SelectNfds = 10
  SelectWord = 10
  BufSize = 2
  ThreadBuf = 2
  PipeCap = 1
  MaxSend = 3
  AllItems = 6
  MaxTyped = 3
  WindowsConns = 1
  Env = {"fin", "gone", "eof"}
  Free = Free
  Beyond = Beyond
  Listener = Listener
  AfDevice = AfDevice
  NoFd = NoFd
INVARIANT OneConnectionStreams
INVARIANT Awake
INVARIANT WindowsUntilNetworkShutsDown
PROPERTY ClientEnds
PROPERTY TypedIsSent
PROPERTY ImplementsSession
CHECK_DEADLOCK FALSE
