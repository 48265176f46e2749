CONSTANTS
  NAccounts = 2
  Session = {s1}
  OldSession = {s1}
  Worker = {w1, w2}
  NoWorker = NoWorker
  Window = {n1}
  NoWindow = NoWindow
  Served = {"transfer"}
  MoveOptions <- FullMove
  MaxRequests = 1
  MaxCrashes = 0
  RemainOnExit = FALSE
  OwnTerminals = TRUE
  MoveToSelf = TRUE
SPECIFICATION FairSpec
PROPERTIES RequestsAnswered
CHECK_DEADLOCK FALSE
