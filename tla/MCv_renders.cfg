CONSTANTS
  Title = {t1, t2}
  Keyed = {t1}
  Render = {r1, r2}
  Call = {c1, c2}
  MaxPages = 2
  Video = {v1, v2}
  Production = {p1}
  Request = {q1, q2}
  File = {f1, f2}
  Polled = {heygen}
  Background = {custom}
  Ready = {stock}
  MaxRestarts = 1
  Text = {x1, x2}
  Asset = {a1, a2}
  ScriptFile = {g1}
  Library = {}
  Null = Null
SPECIFICATION RendersSpec
SYMMETRY RendersSymmetry
INVARIANTS
  OneLiveRender RowTellsTheTruth OneApproved StageIsEarned AssetsAreBacked
PROPERTIES PaidOnce AcceptedStands
CHECK_DEADLOCK FALSE
