SPECIFICATION FairSpec
CONSTANTS
  Fd <- OneFd
  Session <- TwoSessions
  Gns = {g1}
  IpPort = {a1}
  NoName = none
  Param = {p1}
  Text = {t1}
  Tag = {r1}
  MaxGetLogs = 1
  MaxPreserveLogs = 1
  SessionExpire = 1
  CheckInterval = 2
  MaxCfgs = 1
INVARIANTS
  SessionAgeBound
PROPERTY
  IdleSessionsEnd
