SPECIFICATION FairIntake
CONSTANTS
  Task = {t1}
  Caller = {jeff, iris, wren}
  Exogenous = {jeff, iris}
  NoOne = noone
  Recurring = {}
  Status = {"pending", "ready", "backlog", "delegated", "claimed", "pending_jeff_action", "completed", "cancelled"}
  MaxGoal = 3
  Milestone <- FirstGoal
  Urgent <- FirstGoal
  Limit = 2
  MaxAct = 1
  MaxBlock = 1
  MaxFail = 1
  MaxTrouble = 2
INVARIANTS UnruledIsTagged OneTaskForEachQueuer
PROPERTIES ParkedUntilRuled DueGoalsAreQueued
CHECK_DEADLOCK FALSE
