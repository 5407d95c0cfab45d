SPECIFICATION Spec
CONSTANTS
  Fd <- TwoFds
  Session <- TwoSessions
  Gns = {g1}
  IpPort = {a1, a2}
  NoName = none
  Param = {p1}
  Text = {t1}
  Tag = {r1}
  MaxGetLogs = 2
  MaxPreserveLogs = 1
  SessionExpire = 1
  CheckInterval = 2
  MaxCfgs = 2
PROPERTY
  SessionsMaintained
