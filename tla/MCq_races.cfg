CONSTANTS
  MaxJobs = 2
  Request <- AllRequests
  NoKey = NoKey
  Null = Null
  TickLane = {t1, t2}
  RecoverLane = {}
  Operator = {o1}
  SweepLimit = 2
  Faults <- AllFaults
  MaxFaults = 1
  MaxRetries = 1
SPECIFICATION Spec
SYMMETRY LaneSymmetry
INVARIANTS AttemptsBounded DoneIsBacked NoCompletedTwin
