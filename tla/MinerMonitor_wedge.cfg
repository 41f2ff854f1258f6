CONSTANTS
  MAXQSIZE = 3
  WIAT_RES_TIMEOUT = 2
  Conn = {k1, k2, k3}
  Threads = {"main"}
  CmdKinds = {"01"}
  MaxCmds = 0
  MaxFaults = 1
  SwitchUsed = FALSE
SPECIFICATION FairSpec
PROPERTY KnowsConnected
CHECK_DEADLOCK FALSE
