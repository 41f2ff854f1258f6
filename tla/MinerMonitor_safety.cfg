CONSTANTS
  MAXQSIZE = 3
  WIAT_RES_TIMEOUT = 2
  Conn = {k1, k2, k3}
  Threads = {"main", "rev"}
  CmdKinds = {"03", "06"}
  MaxCmds = 2
  MaxFaults = 1
  SwitchUsed = FALSE
SPECIFICATION Spec
SYMMETRY ConnSymmetry
INVARIANTS TypeOK RoomForReceived WaitsWholeTimeout ResponsePaired
PROPERTY AnswerNamesOrder
CHECK_DEADLOCK FALSE
