CONSTANTS
  Row = {e1, e2}
  Subject = {s1}
  Scope = {web, email}
  Content <- TwoContents
  Transition <- NoTransitions
  MaxSeq = 1
  Tx = {t1}
  SigningKey = {k1}
  Time <- OneTime
  Intent = {i1, i2}
  Post = {p1, p2}
  Null = Null
SPECIFICATION IntentSpec
SYMMETRY IntentSymmetry
INVARIANTS IntentsCohere
PROPERTIES KnownPostIsKept SlotReleasedByOutcome
