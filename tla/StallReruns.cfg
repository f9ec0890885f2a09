SPECIFICATION Spec
CONSTANTS
  Task = {1}
  Worker = {w1, w2, w3}
  Poller = poller
  NoTask = 0
  NoWorker = none
  Rank <- ByNumber
  Created <- ByNumber
  Filed <- AllReady
  Urgent = {}
  Recurring = {}
  Risky = {}
  Misfiled = {}
  Gated = {}
  Deps <- NoDeps
  NotBefore <- Unset
  Expires <- Unset
  MaxAttempts = 3
  MaxWorkers = 1
  ScanLimit = 5
  SweepLimit = 1
  SageBatch = 0
  MaxTime = 0
  Budget <- BudgetStall
  MaxKinds = 7
SYMMETRY Symmetry
INVARIANTS OneRunPerTask
CHECK_DEADLOCK FALSE
