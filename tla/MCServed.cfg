CONSTANTS
  Session = {s1, s2}
  Leaver = {l1}
  Resumer = {r1}
  Nobody = Nobody
  NoSession = NoSession
  MaxRedraws = 2
  MaxTyped = 2
  MaxSignOuts = 2
  MaxSignIns = 2
  MaxStarts = 1
  MaxMishaps = 1
  Moved = {s1}
  Worker = {w1, w2}
  NoWorker = NoWorker
  Window = {n1}
  NoWindow = NoWindow
  Off = Off
SPECIFICATION ServedSpec
INVARIANTS TypesOK ApartHeld SettledRight
PROPERTIES NothingLeftRunning LetGoAtLast RequestsAnswered
CHECK_DEADLOCK FALSE
