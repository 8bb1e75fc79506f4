\* Two tasks that share two Sleeps, a clock that advances up to twice, one node.
CONSTANTS
  MaxTasks = 2
  MaxNodes = 1
  HasSimulator = FALSE
  MaxSleeps = 2
  Horizon = 2
SPECIFICATION RuntimeSpec
INVARIANTS UpcomingExact DeadlinesExact PromptWake
PROPERTY TimeWaitsForTasks
