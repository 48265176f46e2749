CONSTANTS
  NAccounts = 2
  Session = {s1}
  OldSession = {s1}
  Worker = {w1, w2}
  NoWorker = NoWorker
  Window = {n1, n2}
  NoWindow = NoWindow
  Served = {"resume", "stop", "restart", "transfer"}
  MoveOptions <- KindsOfMove
  MaxRequests = 2
  MaxCrashes = 1
  RemainOnExit = FALSE
  OwnTerminals = TRUE
  MoveToSelf = FALSE
  Sweeper = Sweeper
  Requesters = {r1}
  Stamps = {n1, n2}
  MaxSaid = 2
  ArchiveKills = 1
  AccountNames = {n1, n2, n3}
  MaxMade = 3
  MaxLogins = 3
  MaxOps = 4
  Off = Off
SPECIFICATION HostSpec
SYMMETRY HostInterchangeable
INVARIANTS TypesOK OneCopy NeverLost AccountsKept SessionsAtHome
PROPERTIES LiveNotRolledBack SessionKept MoveUndisturbed
CHECK_DEADLOCK FALSE
