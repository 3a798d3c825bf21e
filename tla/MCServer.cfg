SPECIFICATION FairSpec
CONSTANTS
  c1 = c1
  c2 = c2
  Clients = {c1, c2}
  MaxCalls = 3
INVARIANTS TypeOK ServesAsAsked
PROPERTIES AcceptedIsAnswered ShutdownEnds
