------------------------- MODULE MCScheduledControl -------------------------
(***************************************************************************)
(* Small instances of ScheduledControl for TLC: one activity of a kind.    *)
(***************************************************************************)
EXTENDS ScheduledControl

Hourly == [a \in Activity |-> "hourly"]
Times(edit, seed, fault, run, rearm) ==
  [k \in Event |->
     CASE k = "edit" -> edit [] k = "seed" -> seed [] k = "fault" -> fault
       [] k = "run" -> run   [] k = "rearm" -> rearm]
BudgetMirror == Times(2, 1, 1, 2, 1)
=============================================================================
