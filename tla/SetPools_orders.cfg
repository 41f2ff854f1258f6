SPECIFICATION FairSpec
CONSTANTS
  Text <- MCText
  Orders <- MCOrders
  WebConfs <- MCWebConfs
  FirstConfs <- MCFirstConfs
  MaxOrders = 2
  MaxKills = 1
  MaxSaves = 1
INVARIANT TypeOK
PROPERTIES FirstOrderApplied SuccessMeansRunning OrderEnds
CHECK_DEADLOCK FALSE
