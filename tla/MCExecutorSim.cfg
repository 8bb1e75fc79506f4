\* Two tasks on two nodes with a simulator whose callbacks re-enter the executor;
\* user code returns.
CONSTANTS
  MaxTasks = 2
  MaxNodes = 2
  HasSimulator = TRUE
SPECIFICATION FairSpec
INVARIANT IndInv
PROPERTIES RefinesTaskLife QueueDrains
