\* An error is injected while calls are in flight.
CONSTANTS
  MaxCalls = 2
  MaxFails = 1
  Capacity = 2
  Faults = {"error"}
SPECIFICATION Spec
INVARIANT ResponderExists
