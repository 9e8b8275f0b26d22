CONSTANTS
  Row = {e1, e2, e3}
  Subject = {s1, s2}
  Scope = {web, email}
  Content <- AllContents
  Transition <- EveryCitation
  MaxSeq = 2
  Tx = {t1, t2}
  SigningKey = {k1}
  Time <- OneTime
  s1 = s1
  web = web
  k1 = k1
  Null = Null
SPECIFICATION LedgersSpec
SYMMETRY LedgerSymmetry
INVARIANTS OneLiveAndNewest TransitionsCohere AssertionsUnique
PROPERTIES HistoryIsKept
