SPECIFICATION Spec
CONSTANTS
  p1 = p1
  p2 = p2
  s1 = s1
  s2 = s2
  w1 = w1
  o1 = o1
  o2 = o2
  o3 = o3
  coin = coin
  stack = stack
  NoOp = NoOp
  NoPlayer = NoPlayer
  NoLease = NoLease
  NoSession = NoSession
  NoRequest = NoRequest
  Players = {p1, p2}
  Servers = {s1, s2}
  Worlds = {w1}
  Coins = {}
  Stacks = {stack}
  Ops = {o1, o2, o3}
  MaxEpoch = 2
  Kinds = {"drop", "pickup"}
  MaxSessions <- SecondTwice
  MaxSeq <- OneState
  WorldOf <- OneWorld
  InitialGoods <- OneEach
SYMMETRY OpSymmetry
INVARIANTS OneHolder StacksKept OutcomeIsFinal
CHECK_DEADLOCK FALSE
