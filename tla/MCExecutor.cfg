\* Three tasks on two nodes, no simulator registered.
CONSTANTS
  MaxTasks = 3
  MaxNodes = 2
  HasSimulator = FALSE
SPECIFICATION Spec
INVARIANTS
  TablesExact NoInternalPanic OwnNodeScope
  StoppedNodesQuiet OutcomeExact ShutdownComplete
PROPERTY RefinesTaskLife
