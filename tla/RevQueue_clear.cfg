CONSTANTS
  MAXQSIZE = 4
  Packets = {p1, p2}
  Garbage = Garbage
SPECIFICATION Spec
INVARIANT TakenWasReceived
