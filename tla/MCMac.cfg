CONSTANTS
  p1 = p1
  p2 = p2
  p3 = p3
  p4 = p4
  a = a
  b = b
  c = c
  x = x
  y = y
  c1 = c1
  c2 = c2
  Profiles = {p1, p2, p3, p4}
  Names = {a, b, c}
  Originals <- AtStart
  Behind <- JustTheWrapper
  Shapes <- BothSurfaces
  SlugOf <- Slugs2
  Commands = {c1, c2}
  Startup = startup
  None = None
  MaxOps = 2
  MaxFailures = 1
  Pair = {p3, p4}
  Shelves = {a}
  One = {a}
  Dock = Dock
  StockHome = StockHome
  AppearLooks = 2
  LaunchLooks = 3
  SteadyLooks = 2
  SettleLooks = 2
  MaxOpens = 3
  MaxVendor = 2
  MaxSaid = 2
  MaxAsked = 2
  MaxCopies = 2
  Off = Off
SPECIFICATION MacSpec
SYMMETRY Symmetry
INVARIANTS TypesOK LaunchersMatch  LatestKept HalvesTogether ListsAgree
CHECK_DEADLOCK FALSE
