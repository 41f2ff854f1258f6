SPECIFICATION FairSpec
CONSTANTS
  Pages = {"page"}
  Forms <- MCForms
  Factory <- MCFactory
  MaxSaves = 1
  MaxAuths = 1
  MaxCuts = 0

PROPERTIES SwitchFollowed
