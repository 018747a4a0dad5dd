SPECIFICATION Spec
CONSTANTS
  Conns = {c1, c2, c3}
  Mode = "listen"
  Platforms = {"linux", "windows"}
  Debug = {TRUE, FALSE}
  MaxFd = 6
  MoreFds = 3
  SelectNfds = 9
  SelectWord = 9
  BufSize = 1
  ThreadBuf = 1
  PipeCap = 1
  MaxSend = 2
  AllItems = 2
  MaxTyped = 2
  WindowsConns = 2
  Env = {"fin", "eof", "selfail"}
  Free = Free
  Beyond = Beyond
  Listener = Listener
  AfDevice = AfDevice
  NoFd = NoFd
SYMMETRY ConnSymmetry
INVARIANT TypeOK
INVARIANT ServerListens
INVARIANT Awake
INVARIANT HandlersRead
INVARIANT IInv
INVARIANT ServerStreams
PROPERTY ImplementsSession
CHECK_DEADLOCK FALSE
