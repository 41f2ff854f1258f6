CONSTANTS
  MAXQSIZE = 2
  WIAT_RES_TIMEOUT = 2
  Conn = {k1, k2, k3}
  Threads = {"main"}
  CmdKinds = {"03"}
  MaxCmds = 2
  MaxFaults = 1
  SwitchUsed = TRUE
SPECIFICATION FairSpec
PROPERTIES SwitchOffExits CommandsServed TcpComesBack
CHECK_DEADLOCK FALSE
