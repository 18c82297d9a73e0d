SPECIFICATION Spec
CONSTANTS
  c1 = c1
  c2 = c2
  s1 = s1
  s2 = s2
  w1 = w1
  w2 = w2
  u1 = u1
  u2 = u2
  p1 = p1
  o1 = o1
  NoConn = NoConn
  NoLease = NoLease
  Conns = {c1, c2}
  Servers = {s1, s2}
  Worlds = {w1}
  Portals = {p1}
  Universes = {u1}
  Operations = {}
  WorldOf <- OneWorld
  UniverseOf <- OneUniverse
  ServerOf <- TwoConns
  TargetOf <- NoRequest
  OpenTicketsMax = 5
  MaxTickets = 2
  MaxEpoch = 3
  MaxSeq = 2
  MaxCalls = 2
  MaxCheckpoints = 0
  Reports = {FALSE}
  Moves = {FALSE}
  Kinds = {}
INVARIANTS TypeOK Fence SavedStaysStored TakeoverLoadsAllSaved 
PROPERTIES ImplementsRegister
CHECK_DEADLOCK FALSE
