\* perfect_connectivity and packets that share an ordering key.
CONSTANTS
  Nodes = {0, 1}
  Ports = {1}
  MaxPackets = 3
  MaxInFlight = 1
  Instants = {0, 1}
  MaxSockets = 2
  MaxStarts = 1
  Capacity = 2
  Latency = 1
  Perfect = TRUE
SPECIFICATION Spec
INVARIANT OrderKept
