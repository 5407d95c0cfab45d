SPECIFICATION SystemSpec
CONSTANTS
  c1 = c1
  c2 = c2
  g1 = g1
  g2 = g2
  a1 = a1
  a2 = a2
  Fd <- FdsForTwo
  Session <- OneSession
  Client = {c1, c2}
  Gns = {g1, g2}
  GnsName <- TwoNames
  IpPort = {a1, a2}
  SelfAddr <- OwnAddr
  NoName = none
  Nobody = nobody
  Param = {p1}
  SetId = {p1}
  Text = {t1}
  Tag = {r1}
  CgiFd = 1
  MaxFlight = 1
  MaxAsked = 1
  MaxGetLogs = 1
  MaxPreserveLogs = 0
  SessionExpire = 0
  CheckInterval = 0
  MaxCfgs = 1
INVARIANTS
  OnlyAsked
  ListedAsItIs
  NullIsListed
VIEW Lasting
SYMMETRY Twins
