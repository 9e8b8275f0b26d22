CONSTANTS
  Production = {p1, p2}
  Video = {v1, v2}
  Tx = {t1, t2}
  NoPin = NoPin
  NoOwner = NoOwner
  Absent = Absent
  Null = Null
  Request = {q1, q2}
  Scene = {s1}
  Take = {k1, k2}
  Provider = {canva}
  Transcripts <- TwoSegments
  Hints <- FourHints
  Proposals <- ProposedPlans
  Threshold = 60
  MinConfidence = 50
  Weight = 60
  MinReadable = 1
  MinSpacing = 2
  Profiles <- OneProfile
  Targets = {preview}
  Placings = {wide}
SPECIFICATION StudioSpec
INVARIANTS
  PinIsOwned TakesAreReal OnlyOverwritesLose PlacedApart EvidenceOnlyBlends
PROPERTIES EveryRenderIsTold
CHECK_DEADLOCK FALSE
