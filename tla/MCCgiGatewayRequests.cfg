SPECIFICATION FairCgiSpec
CONSTANTS
  Fd <- TwoFds
  NReq = 2
  Known <- TwoRequests
  NLinks = 2
  Second <- ThreeSeconds
  Timeout = 1
  Expired = expired
INVARIANTS
  ForwardedOnce
  AnsweredOnce
  TimeoutsFinal
PROPERTIES
  EveryRequestEnds
  ServerRegained
