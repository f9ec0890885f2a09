-------------------------------- MODULE Intake --------------------------------
(***************************************************************************)
(* What stands between those who write rows and the daemons that take      *)
(* them: the premise gate on rows of its own, and the tasks made of goals. *)
(* They share no state, so each behaviour has one of them at work.         *)
(***************************************************************************)
EXTENDS PremiseGate, Integers

CONSTANTS MaxGoal, Milestone, Urgent, Limit, MaxAct, MaxBlock, MaxFail, MaxTrouble

VARIABLES part, goal, tasks, run, report, acts, blocks, fails

ofGoals == <<goal, tasks, run, report, acts, blocks, fails>>
all     == <<part, vars, ofGoals>>

Goals == INSTANCE GoalQueue WITH row <- tasks

\* One behaviour has the gate's rows; one has a single goal that both queuers and
\* people are at; one has every goal due, more than are fetched, and Argus alone.
IntakeInit ==
  /\ part \in {"gate", "race", "crowd"} /\ Init /\ Goals!Init
  /\ part = "gate" => acts = MaxAct /\ \A g \in Goals!Goal : goal[g].status = "planned" /\ ~goal[g].due
  /\ part = "race" => acts = 0 /\ \A g \in Goals!Goal : ~goal[g].due /\ (goal[g].status = "planned" <=> g = 1)
  /\ part = "crowd" => acts = MaxAct /\ \A g \in Goals!Goal : goal[g].status = "planned" /\ goal[g].due

OfGate(A)  == part = "gate" /\ A /\ UNCHANGED <<part, ofGoals>>
OfGoals(A) == part # "gate" /\ A /\ UNCHANGED <<part, vars>>

IntakeNext == OfGate(Next) \/ OfGoals(Goals!Next)

FairIntake ==
  /\ IntakeInit /\ [][IntakeNext]_all
  /\ WF_all(OfGoals(Goals!Poll("argus"))) /\ WF_all(OfGoals(Goals!Reports))
  /\ \A g \in Goals!Goal : /\ WF_all(OfGoals(Goals!Finish(g))) /\ WF_all(OfGoals(Goals!Approve(g)))
                           /\ WF_all(OfGoals(Goals!Cool(g)))

OneTaskForEachQueuer == Goals!OneTaskForEachQueuer
DueGoalsAreQueued == Goals!DueGoalsAreQueued
=============================================================================
