CONSTANTS
  Header = 2
  MinLook = 1
  Base = 4
  ReadMax = 15
  Lens = {1, 3, 4, 5, 8, 12}
  HeartBeatLen = 1
  Links = {"toServer", "toClient", "toGateway", "fromNginx"}
  Ids = {0, 1, 2, 3}
  MaxTransit = 2
SPECIFICATION FairReadBufferSpec
INVARIANTS NeverMisread
PROPERTIES InOrder AllHandedOver
CHECK_DEADLOCK FALSE
