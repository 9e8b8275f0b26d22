CONSTANTS
  Production = {pa, pb}
  Slot = {s1}
  File = {fa, cut}
  Poster = {fa}
  Named = {fa}
  FolderSets <- Environments
  DriveMethods <- DeclaredClient
  Request = {r1, r2}
  MaxVersion = 2
  Null = Null
  e1 = e1
  e2 = e2
  k1 = k1
  founder = founder
  Email = {e1, e2}
  Principal = {founder}
  Secret = {k1}
  Config <- Configurations
  Write = {w1, w2}
  Window = 1
  MaxTime = 2
  Message = {x1, x2}
  Memory = {m1}
  Brand = {b1}
  MaxTurns = 4
  MaxCalls = 2
SPECIFICATION PagesSpec
SYMMETRY RequestSymmetry
INVARIANTS
  VersionsDense CodeNamesItsProduction CutsAreOwn MarkedPosterIsFiled
  AuthorityIsProven NobodyHangs ReplyFollowsQuestion ListIsCurrent
