SPECIFICATION Spec
CONSTANTS
  p1 = p1
  p2 = p2
  s1 = s1
  s2 = s2
  w1 = w1
  o1 = o1
  o2 = o2
  o3 = o3
  coin = coin
  stack = stack
  NoOp = NoOp
  NoPlayer = NoPlayer
  NoLease = NoLease
  NoSession = NoSession
  NoRequest = NoRequest
  Players = {p1, p2}
  Servers = {s1}
  Worlds = {w1}
  Coins = {coin}
  Stacks = {stack}
  Ops = {o1}
  MaxEpoch = 2
  Kinds = {"trade"}
  MaxSessions <- FirstTwice
  MaxSeq <- FirstTwo
  WorldOf <- OneWorld
  InitialGoods <- OneEach
INVARIANTS TypeOK OneHolder StacksKept OutcomeIsFinal
PROPERTIES TradeAtOnce
CHECK_DEADLOCK FALSE
