CONSTANTS
  Session = {"s1", "s2"}
  Value = {1, 2}
  Cfg <- Asked
  Checkif = 1
  Recv = 2
  CfgLen = 2
  ClearLen = 2
  BeatLen = 2
  OutLen = 2
  SndBuf = 2
  MaxIn = 2
  MaxCfgs = 2
SPECIFICATION FairPySpec
INVARIANTS NothingWaits TornOnlyWhenFull
PROPERTIES ClearedOrDead EachMatchOnce CfgKept
CHECK_DEADLOCK FALSE
