SPECIFICATION FairSpec
CONSTANTS
  Timer = {1}
  Cron = {2}
  Loop = {3}
  Recurring = {4}
  Schedule = {"hourly", "daily"}
  Base <- Hourly
  NoSchedule = none
  MaxTime = 1
  MaxEvents = 2
  Budget <- BudgetMirror
INVARIANTS LostLineHasCause RunsAreRecordedOnce
PROPERTIES Converges EndedRunIsRecorded
