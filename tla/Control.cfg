SPECIFICATION ControlSpec
CONSTANTS
  x1 = x1
  x2 = x2
  y1 = y1
  y2 = y2
  Attempts = {x1, x2}
  Dims = {"cost"}
  Generations = {y1, y2}
  NoEpoch = NoEpoch
  Modes = {"0"}
  Cap <- CapTwo
  MaxUnits = 1
  Estimates <- OneUnit
  Figures <- JustNone
  Evictable <- ReservedOnly
  Links = {"l1"}
  Subs = {"s1"}
  NoSub = NoSub
  LedgerCap <- CapOfOne
  SubsIdleOutUnused = TRUE
  Stops = {"tenant", "session"}
  NoStop = NoStop
  SessionStops = {"session"}
  Presses = {"p1"}
  Calls = {x1, x2}
  MaxDisarms = 1
  FailClosed = FALSE
  OpposedPresses = FALSE
  LoudFlushes = FALSE
  Prints = {y1, y2}
  NoPrint = NoPrint
  Questions = {x1, x2}
  NoQuestion = NoQuestion
  Asking = {"k1", "k2"}
  MaxPending = 1
  PendingFor = 2
  ApprovedFor = 1
  DeniedFor = 2
  LastTime = 4
  Delegations = {"d1"}
  NoDelegation = NoDelegation
  Workers = {"w1"}
  Owners = {x1, x2}
  LinkFor = 3
  VisaFor = 1
  CopyFor = 4
  ExchangeFor = 1
  LastSecond = 4
SYMMETRY Perms
INVARIANTS
  ControlTypeOK
  DelegationWithinCap
  SubAgentWithinCap
  SavedStopIsEnforced
  LiftedStaysLifted
  YesSendsOnce
  OneQuestionPerRequest
  PendingAreListed
  ImmediateMeansNow
  RevokedWithinOneVisa
CHECK_DEADLOCK FALSE
