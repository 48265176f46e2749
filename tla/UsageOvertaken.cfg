CONSTANTS
  Caller = {c1, c2}
  NoCaller = NoCaller
  MaxTokens = 2
  MaxCalls = 3
SPECIFICATION Spec
INVARIANT DeadWasRefused
CHECK_DEADLOCK FALSE
