CONSTANTS
  Session = {s1, s2}
  Leaver = {l1}
  Resumer = {r1}
  Nobody = Nobody
  NoSession = NoSession
  MaxSignOuts = 2
  MaxSignIns = 2
  MaxStarts = 0
  MaxMishaps = 0
SPECIFICATION Spec
INVARIANT StoppedHeld
CHECK_DEADLOCK FALSE
