CONSTANTS
  Conn = {4, 5}
  Cap = 1
SPECIFICATION FairStallSpec
PROPERTIES RoomAgain ConfigsGoOut
CHECK_DEADLOCK FALSE
