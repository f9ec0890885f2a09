SPECIFICATION Spec
CONSTANTS
  Task = {1, 2}
  Worker = {w1, w2}
  Poller = poller
  NoTask = 0
  NoWorker = none
  Rank <- ByNumber
  Created <- ByNumber
  Filed <- AllReady
  Urgent = {}
  Recurring = {}
  Risky = {}
  Misfiled = {}
  Gated = {}
  Deps <- SecondNeeds1
  NotBefore <- Unset
  Expires <- Unset
  MaxAttempts = 2
  MaxWorkers = 2
  ScanLimit = 5
  SweepLimit = 50
  SageBatch = 10
  MaxTime = 0
  Budget <- BudgetNone
  MaxKinds = 7
SYMMETRY Symmetry
PROPERTIES PrerequisitesAreEnforced
CHECK_DEADLOCK FALSE
