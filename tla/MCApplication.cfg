CONSTANTS
  MaxInstances = 3
  MaxTodo = 2
  MaxTimers = 2
SPECIFICATION AppFairSpec
INVARIANT StateMatchesProgram
PROPERTY StopTakesEffect
