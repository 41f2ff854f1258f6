SPECIFICATION FairSpec
CONSTANTS
  MaxClicks = 3
  Forms = {"on", "off"}
  First = "off"
  Broken = "broken"
INVARIANTS TypeOK OneHandler
PROPERTIES ShowsSaved ComesBack
CHECK_DEADLOCK FALSE
