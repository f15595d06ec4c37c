SPECIFICATION Spec
CONSTANTS
  None = None
  Nobody = Nobody
  Absent = Absent
  Routes = {t1, t2, t3, g1, g2}
  Owners = {w1, w2}
  MaxPending = 3
  MaxChunks = 3
  MaxUnrouted = 2
  MaxUnroutedAll = 2
  MaxUnroutedRoutes = 1
  MaxTombstones = 1
  MaxMerged = 2
  Terminals = {t1, t2}
  MaxGen = 2
  MaxWork = 4
  MaxCoalesced = 2
  OutputCapacity = 2
  LifecycleCapacity = 1
  ControlCapacity = 1
  ControlBurst = 1
  MaxTick = 2
  Tabs = {t1, t2, t3}
  Groups = {g1, g2}
  MaxOps = 6
  Size = 2
  MaxVersions = 2
  MaxRuns = 3
  Slots = 2
  MaxRequests = 3
  MaxControls = 2
  MaxNews = 2
  MaxContents = 3
  MaxSaves = 2
  Procs = {p1, p2}
  Hosts = {h1, h2}
  Keys = {k1, k2}
  NoKey = NoKey
  Free = Free
  Orphan = Orphan
  MaxVerifies = 3
  QueueCapacity = 2
  WindowCapacity = 2
  Instances = {i1, i2}
  NewVersions = {2, 3}
  MaxInstalls = 3
  Devices = {d1, d2}
  Sessions = {s1, s2}
  Names = {"a", "b"}
  MaxDepth = 2
  MaxEdits = 4
INVARIANTS
  TypeOK
  RoutesFollowTabs
  NoCloseLost
  TabsConserved
  RoutesTravel
  
  CleanIsSafe
  FileSurvives
  KeysKept
  FrameNotStuck
  NeverStranded
  RestoreUndoesDelete
PROPERTIES
  InSendOrder
  RollbackExact
  CancelSticks
  TransferSettles
  NoSilentOverwrite
  InUseNotLost
CHECK_DEADLOCK FALSE
