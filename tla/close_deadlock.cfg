SPECIFICATION EvSpec
CONSTANTS
  None = None
  Nobody = Nobody
  Routes = {t1, t2}
  Owners = {w1}
  MaxPending = 3
  MaxChunks = 3
  MaxUnrouted = 2
  MaxUnroutedAll = 2
  MaxUnroutedRoutes = 1
  MaxTombstones = 1
  MaxMerged = 2
  Terminals = {t1, t2}
  MaxGen = 1
  MaxWork = 4
  MaxCoalesced = 2
  OutputCapacity = 2
  LifecycleCapacity = 1
  ControlCapacity = 1
  ControlBurst = 1
  MaxTick = 2
PROPERTY CloseIsHandled
CHECK_DEADLOCK FALSE
