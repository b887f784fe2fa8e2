SPECIFICATION Spec
CONSTANTS
  None = None
  MaxCalls = 3
  Faults = 1
  FtpNames = {"a", "b"}
  File <- MCFile
  Secure = FALSE
  Urls <- MCUrls
  Requests <- MCRequests
  Responses <- MCResponses
  Routes = {"/a"}
  HttpHosts = {"near"}
  MaxBody = 2
  MaxAsks = 2
  Deadline = 2
  Timeouts <- MCTimeouts
  Sockets = {s1, s2}
  Addresses = {host, any}
  Ports = {1, 3}
  Any = any
  FirstPort = 3
  MaxClock = 3
  MaxSends = 2
  MaxPort = 4
  MaxPending = 2
  MaxItem = 2
  MaxSeal = 4
  Cases <- TlsCases
  Trusted <- Roots
  Clients = {c1, c2}
  Bare = {c2}
  Pages = 2
  Room = 1
  MaxJobs = 2
  MaxCrashes = 1
  MaxLost = 1
  Payloads <- MCPayloads
  MaxPayload = 2
  MaxFrames = 3
  MaxDamage = 1
  MaxFed = 2
  Users = {u1, u2}
  Consoles = {u1}
  Fronts = {f1, f2}
  Lines = {"a", "bad"}
  MaxTyped = 3
  MaxPokes = 2
  Runners = {r1, r2}
  Sessions = {h1}
  Viewers = {c1}
  Procs = {p1, p2}
  Threads = {t1, t2, t3}
  Closers = {t3}
  Outsider = Outside
  MaxRuns = 2
  Paths <- MCPaths
  Datas = {0}
  Gone = Gone
  Worlds <- Loads
  ObjectRoom = 2
  Dotted <- MCDotted
  DottedParent <- Enclosing
  HostHas <- OnHost
  Mountable = {"i", "j"}
  Stat <- InImage
  MaxMade = 6
  Members = {"m", "w"}
  HonorsRoles = {"embodies", "made"}
  NamesGiven = {2, 9}
  HonorsRoom = 5
  Commands = {"c"}
  MaxHonors = 6
CHECK_DEADLOCK FALSE
INVARIANTS
  DialogueHolds
  SocketsHold
  HandshakeAgrees
  WireAnswers
  FramesCome
  FrontFollows
  LinkOwned
  FormsAgree
  OneImageReached
  FileVerifies
PROPERTIES
  CallsReturn
  ExchangesWhole
  CloseCuts
  HandshakeEnds
