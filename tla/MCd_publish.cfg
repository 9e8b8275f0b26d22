CONSTANTS
  pr1 = pr1
  web = web
  Production = {pr1}
  Brand = {web, shop}
  BrandOf <- OfWeb
  Check = {c1}
  Platform = {f1}
  Request = {r1, r2}
  Boot = {g1}
  MaxRows = 2
  MaxAsked = 2
  MaxSent = 1
  Null = Null
SPECIFICATION Spec
SYMMETRY RequestSymmetry
INVARIANTS SentWasApproved StoredWasAsked PublishedWasSent
