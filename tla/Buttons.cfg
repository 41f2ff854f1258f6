SPECIFICATION FairSpec
CONSTANTS
  HoldPolls = 1
  MaxFds = 7
  MaxSocks = 3
  KEY_TIMES = 2
  FOR_2MIM = 3
  MaxSteps = 1
  MaxMsgs = 2
INVARIANT TypeOK
PROPERTIES ResetMeansHeld EndsForAReason ReportEnds
