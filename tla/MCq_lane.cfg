CONSTANTS
  MaxJobs = 2
  Request <- AllRequests
  NoKey = NoKey
  Null = Null
  TickLane = {t1}
  RecoverLane = {}
  Operator = {o1}
  SweepLimit = 1
  Faults <- PromptFaults
  MaxFaults = 3
  MaxRetries = 2
SPECIFICATION Spec
INVARIANTS HolderOwnsRow UnsureUnkeyedStops
PROPERTIES Lifecycle
