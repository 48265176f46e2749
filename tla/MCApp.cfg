CONSTANTS
  Caller = {c1, c2}
  NoCaller = NoCaller
  MaxTokens = 2
  MaxCalls = 3
  Pair = {p1, p2}
  Twin = {q1, q2}
  One = {x}
  Default = Default
  Items = {Folder, PlanFile, Transcript}
  Folders = {Folder}
  PlanFiles = {PlanFile}
  Transcript = Transcript
  MaxStops = 1
  MaxStarts = 2
  MaxEdits = 1
  FileKills = 1
  MaxTurns = 1
  MaxWindows = 2
  MaxTools = 1
  MaxMeanwhile = 3
  MaxFacts = 4
  MaxCuts = 2
  None = None
  Off = Off
SPECIFICATION AppSpec
SYMMETRY Interchangeable
INVARIANTS TypesOK RefreshesApart DeadForAReason DoneAsTold LinkGoesRight FilesKept
PROPERTIES CallsAnswered KeepsPromise FactsKept
CHECK_DEADLOCK FALSE
