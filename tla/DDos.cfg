SPECIFICATION FairSpec
CONSTANTS
  Domains = {"d1", "d2"}
  BackupsOf <- MCBackupsOf
  Configs <- MCConfigs
  None = "none"
  MaxPools = 4
  MaxRestarts = 1
  MaxToggles = 3
  Changing = {"d1", "b1", "b2"}
INVARIANTS TypeOK BackupsCounted
PROPERTIES StandsIn Backed
