CONSTANTS
  a1 = a1
  a2 = a2
  s1 = s1
  s2 = s2
  Session = {s1, s2}
  Account = {a1, a2}
  AccountOf <- OneEach
  Requester = {r1}
  Background = Background
  Nobody = Nobody
  NoSession = NoSession
  MaxBoots = 2
  MaxStops = 1
  MaxStarts = 1
  MaxKills = 1
SPECIFICATION Spec
INVARIANT RestComesBack
CHECK_DEADLOCK FALSE
