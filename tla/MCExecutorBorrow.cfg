\* One task that is aborted while it is polled.
CONSTANTS
  MaxTasks = 1
  MaxNodes = 1
  HasSimulator = FALSE
SPECIFICATION Spec
INVARIANT NoDropUnderBorrow
