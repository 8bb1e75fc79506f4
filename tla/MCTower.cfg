\* Every kind of SendFunction; callers give up, server and client fail; tasks are fair.
CONSTANTS
  MaxCalls = 2
  MaxFails = 2
  Capacity = 1
  Faults = {"drop", "refuse", "pending", "error"}
SPECIFICATION FairSpec
INVARIANTS TypeOK RightAnswer WaitsForSomething ResponderKept
PROPERTY CallEnds
