\* Any SendFunction: copies are dropped, delayed, duplicated and reordered, with
\* deadlines that differ; inboxes of one slot, nodes that restart; the executor is fair.
CONSTANTS
  Nodes = {0, 1}
  Ports = {1}
  MaxPackets = 2
  MaxInFlight = 2
  Instants = {1, 2}
  MaxSockets = 2
  MaxStarts = 2
  Capacity = 1
  Latency = 1
  Perfect = FALSE
SPECIFICATION FairSpec
INVARIANTS TypeOK SocketsOwnInboxes NoMessageOverRestart OnTime AtMostOnce
PROPERTIES CopiesKept DeliveryHappens
