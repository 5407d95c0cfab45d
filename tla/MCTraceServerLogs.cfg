SPECIFICATION Spec
CONSTANTS
  Fd <- OneFd
  Session <- OneSession
  Gns = {g1}
  IpPort = {a1, a2}
  NoName = none
  Param = {p1}
  Text = {t1, t2}
  Tag = {r1}
  MaxGetLogs = 3
  MaxPreserveLogs = 2
  SessionExpire = 0
  CheckInterval = 1
  MaxCfgs = 2
INVARIANTS
  TypeOK
  MessagesMatchSessions
  WindowsSound
PROPERTIES
  FetchShares
  KeepsMailboxes
