CONSTANTS
  Secret = {s1, s2}
  Client = {c1, c2}
  Thread = {t1, t2}
  Command = {m1}
  NoProcess = NoProcess
  MaxKills = 1
  Tasks = {t1, t2}
  Addresses = {home, away}
  Accounts = {a, b}
  Looks = {red}
  Lone = {x}
  Me = Me
  Other = Other
  None = None
  Off = Off
  PerPeer = 2
  Overall = 3
  MaxBad = 1
  Window = 2
  LockedFor = 3
  MaxTicks = 5
  MaxIds = 2
  MaxClients = 2
  MaxCalls = 3
  MaxKeys = 3
  MaxCommands = 2
  MaxWrites = 2
SPECIFICATION AllSpec
SYMMETRY Interchangeable
INVARIANTS TypesOK LimitsHold NotDoneTwice EntriesHold SetupHolds NamesHold
PROPERTIES Implements
CHECK_DEADLOCK FALSE
