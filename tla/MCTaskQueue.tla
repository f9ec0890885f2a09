----------------------------- MODULE MCTaskQueue -----------------------------
(***************************************************************************)
(* Small instances of TaskQueue for TLC: rows are numbers, ranked by their *)
(* number; every run says how often its environment may act.               *)
(***************************************************************************)
EXTENDS TaskQueue, TLC

ByNumber == [t \in Task |-> t]
Reversed == [t \in Task |-> 3 - t]
Unset    == [t \in Task |-> 0]
NoDeps   == [t \in Task |-> {}]

AllReady     == [t \in Task |-> {"ready"}]

\* Row 1 can be held back by its due time, row 2 by row 1.
FirstLater   == [t \in Task |-> IF t = 1 THEN 1 ELSE 0]
SecondNeeds1 == [t \in Task |-> IF t = 2 THEN {1} ELSE {}]
FirstExpires == [t \in Task |-> IF t = 1 THEN 1 ELSE 0]
SomeWaiting  == [t \in Task |-> {"ready", "pending", "waiting"}]
Various      ==
  [t \in Task |-> CASE t = 1 -> {"ready"} [] t = 2 -> {"ready", "waiting"} [] t = 3 -> {"delegated"}]
Parked       == [t \in Task |-> {"pending_jeff_action"}]

Times(poll, stall, sweep, crash, outage, human, fire) ==
  [k \in Event |->
     CASE k = "poll" -> poll     [] k = "stall" -> stall   [] k = "sweep" -> sweep
       [] k = "crash" -> crash   [] k = "outage" -> outage [] k = "human" -> human
       [] k = "fire" -> fire]

BudgetStalls  == Times(1, 1, 1, 1, 1, 1, 1)
BudgetFaults  == Times(0, 0, 0, 1, 1, 0, 0)
BudgetShared  == Times(2, 0, 0, 0, 0, 2, 0)
BudgetStall   == Times(0, 1, 0, 0, 0, 0, 0)
BudgetNone    == Times(0, 0, 0, 0, 0, 0, 0)

Symmetry == Permutations(Worker)
=============================================================================
