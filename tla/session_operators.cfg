SPECIFICATION Spec
CONSTANTS
  c1 = c1
  c2 = c2
  s1 = s1
  s2 = s2
  w1 = w1
  w2 = w2
  u1 = u1
  u2 = u2
  p1 = p1
  o1 = o1
  NoConn = NoConn
  NoLease = NoLease
  Conns = {c1, c2}
  Servers = {s1, s2}
  Worlds = {w1, w2}
  Portals = {p1}
  Universes = {u1}
  Operations = {o1}
  WorldOf <- WorldEach
  UniverseOf <- OneUniverse
  ServerOf <- TwoConns
  TargetOf <- OnOneProfile
  OpenTicketsMax = 5
  MaxTickets = 2
  MaxEpoch = 3
  MaxSeq = 1
  MaxCalls = 1
  MaxCheckpoints = 1
  Reports = {TRUE}
  Moves = {TRUE}
  Kinds = {"session.end", "stacks", "restrict"}
INVARIANTS OperatorChangeStays PositionOfItsWorld
PROPERTIES EndedForGood RestrictionEndsSession
CHECK_DEADLOCK FALSE
