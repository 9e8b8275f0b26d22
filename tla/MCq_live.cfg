CONSTANTS
  MaxJobs = 2
  Request <- AllRequests
  NoKey = NoKey
  Null = Null
  TickLane = {t1}
  RecoverLane = {}
  Operator = {o1}
  SweepLimit = 1
  Faults <- AllFaults
  MaxFaults = 2
  MaxRetries = 1
SPECIFICATION FairSpec
PROPERTIES EverySubmissionSettles AbandonedIsMoved
