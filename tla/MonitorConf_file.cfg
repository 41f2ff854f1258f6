SPECIFICATION FairSpec
CONSTANTS
  Pages = {"page"}
  Forms <- MCForms
  Factory <- MCFactory
  MaxSaves = 2
  MaxAuths = 1
  MaxCuts = 1
INVARIANTS TypeOK PairsTogether OnePerStarter
PROPERTIES OffEnds OnRuns
