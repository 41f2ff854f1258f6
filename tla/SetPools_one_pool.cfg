SPECIFICATION Spec
CONSTANTS
  Text <- MCText
  Orders <- MCOrders
  WebConfs <- MCWebConfs
  FirstConfs <- MCFirstConfs
  MaxOrders = 2
  MaxKills = 0
  MaxSaves = 0
PROPERTY OnePoolChanged
CHECK_DEADLOCK FALSE
