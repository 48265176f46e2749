CONSTANTS
  Commands = {c1}
  Server = srv
  Macs = {m1, m2}
  Builtin = {ts}
  Lans = {l1, l2}
  None = None
  MaxKeys = 3
  MaxCommands = 2
  MaxKills = 1
SPECIFICATION Spec
INVARIANT StaysPaired
CHECK_DEADLOCK FALSE
