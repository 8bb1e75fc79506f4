\* The order of cancellation and notification in stop_node.
CONSTANTS
  MaxTasks = 2
  MaxNodes = 1
  HasSimulator = TRUE
SPECIFICATION Spec
PROPERTY NotifiedBeforeCancel
