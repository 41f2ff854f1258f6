CONSTANTS
  MAXQSIZE = 4
  Packets = {p1, p2}
  Garbage = Garbage
SPECIFICATION MainClearSpec
INVARIANTS TypeOK TestsStillHold TakenWasReceived
PROPERTY FifoRefinement
