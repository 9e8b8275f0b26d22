CONSTANTS
  MaxJobs = 1
  Request <- OneKeyed
  NoKey = NoKey
  Null = Null
  TickLane = {t1}
  RecoverLane = {}
  Operator = {}
  SweepLimit = 1
  Faults <- Crashes
  MaxFaults = 1
  MaxRetries = 0
SPECIFICATION Spec
INVARIANTS RerunNeverPaysAgain
