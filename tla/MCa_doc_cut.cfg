CONSTANTS
  Production = {pa, pb}
  Slot = {s1}
  File = {fa, cut}
  Poster = {fa}
  Named = {fa}
  FolderSets <- Environments
  DriveMethods <- GatewayClient
  Request = {r1, r2}
  MaxVersion = 2
  Null = Null
SPECIFICATION Spec
INVARIANTS UploadIsPossible
