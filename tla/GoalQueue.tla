------------------------------- MODULE GoalQueue -------------------------------
(***************************************************************************)
(* Goals and the tasks made of them: a poll that has claimed nothing       *)
(* queues a goal whose date has come, or else an active milestone          *)
(* (auto_queue_from_goals).  Argus calls it from its loop, and the poller  *)
(* at the end of a run of its own: two processes, neither of which holds   *)
(* anything against the other.  A task that ends reports to its goal       *)
(* (update_goal_notes); people reschedule and reset goals on the           *)
(* dashboard, and rule on tasks.  Goals are numbered by priority.          *)
(***************************************************************************)
EXTENDS Integers, FiniteSets

CONSTANTS
  MaxGoal,      \* goals
  Milestone,    \* the milestones of the one strategy, with a prompt and auto_queue
  Urgent,       \* goals of priority 0 or 1: their tasks go to Iris
  Limit,        \* goals fetched at a time: ten of those due, five milestones
  MaxAct,       \* acts of people: on goals, and runs of the poller (a bound)
  MaxBlock,     \* tasks that are blocked (a bound)
  MaxFail,      \* calls that fail (a bound)
  MaxTrouble    \* of these three together (a bound)

Goal == 1..MaxGoal
Queuer == {"argus", "poller"}

VARIABLES
  goal,     \* goal[g]: its status, whether its date has come, and whether it
            \* was queued less than six hours ago, with a poll since ("old") or not
  row,      \* row[g]: its tasks, by what has become of them
  run,      \* run[q]: the poll that q has under way
  report,   \* the executor that reports to a goal
  acts, blocks, fails

vars  == <<goal, row, run, report, acts, blocks, fails>>
world == <<acts, blocks, fails>>

GoalStatus == {"planned", "active", "paused", "completed"}
\* What _has_recent_pending_task counts, and what it does not: "blocked".
NoRows  == [ready |-> 0, eval |-> 0, blocked |-> 0]
RunAt(pc, kind, list, next) == [pc |-> pc, kind |-> kind, list |-> list, next |-> next]
AtCall(pc) == RunAt(pc, "due", {}, 0)
RunIdle == AtCall("idle")
Quiet   == [pc |-> "idle", goal |-> 0, active |-> FALSE]
Rows    == 0..(MaxBlock + 2)

TypeOK ==
  /\ goal \in [Goal -> [status : GoalStatus, due : BOOLEAN, hot : {"no", "new", "old"}]]
  /\ row \in [Goal -> [ready : Rows, eval : Rows, blocked : 0..MaxBlock]]
  /\ \A q \in Queuer :
       /\ run[q].pc \in {"idle", "promote", "due", "milestone", "look", "post", "patch"}
       /\ run[q].list \subseteq Goal /\ run[q].next \in 0..MaxGoal
       /\ run[q].pc \in {"post", "patch"} => run[q].next \in Goal
  /\ report.pc \in {"idle", "read", "write"} /\ report.goal \in 0..MaxGoal
  /\ acts \in 0..MaxAct /\ blocks \in 0..MaxBlock /\ fails \in 0..MaxFail

\* Some goals are done with; the acts that are not taken any more count as taken.
Init ==
  /\ goal \in [Goal -> [status : {"planned", "completed"}, due : BOOLEAN, hot : {"no"}]]
  /\ row = [g \in Goal |-> NoRows] /\ run = [q \in Queuer |-> RunIdle] /\ report = Quiet
  /\ acts \in 0..MaxAct /\ blocks = 0 /\ fails = 0

More == acts + blocks + fails < MaxTrouble
Fail == More /\ fails < MaxFail /\ fails' = fails + 1
Least(S) == CHOOSE g \in S : \A h \in S : g <= h
Top(S)   == {g \in S : Cardinality({h \in S : h < g}) < Limit}
Counted(g) == row[g].ready + row[g].eval

-----------------------------------------------------------------------------
(* A poll that has claimed nothing *)

\* q goes on with the run as it stands now.
Go(q, r) == run' = [run EXCEPT ![q] = r]

\* A run of the poller is something that somebody starts: its timer is retired.
Starts(q) == IF q = "poller" THEN More /\ acts < MaxAct /\ acts' = acts + 1 ELSE UNCHANGED acts

\* _promote_planned_milestones: the milestone is chosen here, and made active later.
PromoteRead(q) ==
  /\ run[q].pc = "idle" /\ Starts(q)
  /\ LET planned == {g \in Milestone : goal[g].status = "planned"}
         active  == {g \in Milestone : goal[g].status = "active"}
     IN Go(q, IF active = {} /\ planned # {}
              THEN RunAt("promote", "due", {}, Least(planned))
              ELSE AtCall("due"))
  /\ UNCHANGED <<goal, row, report, blocks, fails>>

Promote(q) ==
  /\ run[q].pc = "promote" /\ Go(q, AtCall("due"))
  /\ \/ goal' = [goal EXCEPT ![run[q].next].status = "active"] /\ UNCHANGED fails
     \/ UNCHANGED goal /\ Fail
  /\ UNCHANGED <<row, report, acts, blocks>>

\* The next goal of the list, or what comes after the list.
Onward(kind, list) ==
  IF list # {} THEN RunAt("look", kind, list, 0)
  ELSE IF kind = "due" THEN AtCall("milestone") ELSE RunIdle

\* The goals to go through: those fetched, but for the ones that were queued
\* within six hours as of the fetch.  These take up the limit all the same.
Through(kind, S) == Onward(kind, {g \in Top(S) : goal[g].hot = "no"})

\* The clock of the model: this poll came within six hours.
Seen == [g \in Goal |-> IF goal[g].hot = "new" THEN [goal[g] EXCEPT !.hot = "old"] ELSE goal[g]]

DuePlanned(q) ==  \* mutant: a goal that was queued once is not queued again
  /\ run[q].pc = "due"
  /\ Go(q, Through("due", {g \in Goal : goal[g].due /\ goal[g].status = "planned"}))
  /\ goal' = Seen
  /\ UNCHANGED <<row, report, acts, blocks, fails>>

\* auto_queue_due_goals
Due(q) ==
  /\ run[q].pc = "due"
  /\ \/ Go(q, Through("due", {g \in Goal : goal[g].due /\ goal[g].status \in {"planned", "active"}}))
        /\ goal' = Seen /\ UNCHANGED fails
     \/ Go(q, AtCall("milestone")) /\ UNCHANGED goal /\ Fail
  /\ UNCHANGED <<row, report, acts, blocks>>

\* Jeff's morning window, or the goals of this kind.
Milestones(q) ==
  /\ run[q].pc = "milestone"
  /\ \/ Go(q, Through("milestone", {g \in Milestone : goal[g].status = "active"})) /\ UNCHANGED fails
     \/ Go(q, RunIdle) /\ Fail
  /\ UNCHANGED <<goal, row, report, acts, blocks>>

LookAtAge(q) ==  \* mutant: the six hours are all that is looked at
  /\ run[q].pc = "look" /\ run[q].list # {}
  /\ LET g == Least(run[q].list)
     IN Go(q, RunAt("post", run[q].kind, run[q].list \ {g}, g))
  /\ UNCHANGED <<goal, row, report, acts, blocks, fails>>

\* _has_recent_pending_task: a read, and the other process may insert between it
\* and the insertion; a look that fails stands for a task that is there.
Look(q) ==
  /\ run[q].pc = "look" /\ run[q].list # {}
  /\ LET g == Least(run[q].list)
         on == Onward(run[q].kind, run[q].list \ {g})
     IN \/ /\ Go(q, IF Counted(g) > 0 THEN on
                     ELSE RunAt("post", run[q].kind, run[q].list \ {g}, g))
           /\ UNCHANGED fails
        \/ Go(q, on) /\ Fail
  /\ UNCHANGED <<goal, row, report, acts, blocks>>

\* The task may be inserted and its id lost; the next goal has its turn then.
Post(q) ==
  /\ run[q].pc = "post"
  /\ \/ /\ row' = [row EXCEPT ![run[q].next].ready = @ + 1]
        /\ Go(q, RunAt("patch", run[q].kind, run[q].list, run[q].next)) /\ UNCHANGED fails
     \/ /\ row' \in {row, [row EXCEPT ![run[q].next].ready = @ + 1]}
        /\ Go(q, Onward(run[q].kind, run[q].list)) /\ Fail
  /\ UNCHANGED <<goal, report, acts, blocks>>

\* The goal is written by its id, whatever has become of it.
Patch(q) ==
  /\ run[q].pc = "patch"
  /\ \/ /\ goal' = [goal EXCEPT ![run[q].next].hot = "new",
                                ![run[q].next].status = IF run[q].kind = "due" THEN "active" ELSE @]
        /\ Go(q, RunIdle) /\ UNCHANGED fails
     \/ UNCHANGED goal /\ Go(q, Onward(run[q].kind, run[q].list)) /\ Fail
  /\ UNCHANGED <<row, report, acts, blocks>>

Crash(q) == run[q].pc # "idle" /\ Go(q, RunIdle) /\ Fail /\ UNCHANGED <<goal, row, report, acts, blocks>>

Poll(q) == PromoteRead(q) \/ Promote(q) \/ Due(q) \/ Milestones(q) \/ Look(q) \/ Post(q) \/ Patch(q)

-----------------------------------------------------------------------------
(* Tasks end, and report to their goals *)

\* mark_completed for a task of low priority, mark_pending_eval for one of high.
Finish(g) ==
  /\ row[g].ready > 0 /\ report.pc = "idle"
  /\ IF g \in Urgent
     THEN row' = [row EXCEPT ![g].ready = @ - 1, ![g].eval = @ + 1] /\ UNCHANGED report
     ELSE row' = [row EXCEPT ![g].ready = @ - 1] /\ report' = [Quiet EXCEPT !.pc = "read", !.goal = g]
  /\ UNCHANGED <<goal, run, acts, blocks, fails>>

\* update_goal_notes reads the goal, and writes it by its id.
ReportRead ==
  /\ report.pc = "read"
  /\ \/ report' = [report EXCEPT !.pc = "write", !.active = goal[report.goal].status = "active"]
        /\ UNCHANGED fails
     \/ report' = Quiet /\ Fail
  /\ UNCHANGED <<goal, row, run, acts, blocks>>

ReportWrite ==
  /\ report.pc = "write" /\ report' = Quiet
  /\ \/ goal' = [goal EXCEPT ![report.goal].status = IF report.active THEN "completed" ELSE @]
        /\ UNCHANGED fails
     \/ UNCHANGED goal /\ Fail
  /\ UNCHANGED <<row, run, acts, blocks>>

\* Iris approves: the task is completed, and its goal is not told.
Approve(g) ==
  /\ row[g].eval > 0 /\ row' = [row EXCEPT ![g].eval = @ - 1]
  /\ UNCHANGED <<goal, run, report, acts, blocks, fails>>

\* The preflight check parks the task, and a person takes it up again.
Block(g) ==
  /\ row[g].ready > 0 /\ More /\ blocks < MaxBlock /\ blocks' = blocks + 1
  /\ row' = [row EXCEPT ![g].ready = @ - 1, ![g].blocked = @ + 1]
  /\ UNCHANGED <<goal, run, report, acts, fails>>

Unblock(g) ==
  /\ row[g].blocked > 0 /\ row' = [row EXCEPT ![g].ready = @ + 1, ![g].blocked = @ - 1]
  /\ UNCHANGED <<goal, run, report, acts, blocks, fails>>

-----------------------------------------------------------------------------
(* The dashboard and the clock *)

Reset(g) ==
  /\ More /\ acts < MaxAct /\ acts' = acts + 1
  /\ \E status \in {"planned", "paused"}, due \in BOOLEAN :
       goal' = [goal EXCEPT ![g].status = status, ![g].due = due]
  /\ UNCHANGED <<row, run, report, blocks, fails>>

Arrive(g) ==
  /\ ~goal[g].due /\ goal' = [goal EXCEPT ![g].due = TRUE]
  /\ UNCHANGED <<row, run, report, acts, blocks, fails>>

\* Six hours have an idle poll in them.
Cool(g) ==
  /\ goal[g].hot = "old" /\ goal' = [goal EXCEPT ![g].hot = "no"]
  /\ UNCHANGED <<row, run, report, acts, blocks, fails>>

Reports == ReportRead \/ ReportWrite
Tasks   == \E g \in Goal : Finish(g) \/ Approve(g) \/ Block(g) \/ Unblock(g)
Next == (\E q \in Queuer : Poll(q) \/ Crash(q)) \/ Reports \/ Tasks \/ \E g \in Goal : Reset(g) \/ Arrive(g) \/ Cool(g)

Spec == Init /\ [][Next]_vars

\* Argus loops and finds nothing to claim from time to time, tasks come to an
\* end, Iris rules, time passes.  Nobody has to run the poller.
FairSpec ==
  /\ Spec /\ WF_vars(Poll("argus")) /\ WF_vars(Reports)
  /\ \A g \in Goal : WF_vars(Finish(g)) /\ WF_vars(Approve(g)) /\ WF_vars(Cool(g))

-----------------------------------------------------------------------------
(* Properties *)

\* A goal has at most one task for each of the two processes that queue goals,
\* and one more for each that was blocked: both may look before either inserts,
\* and what is blocked is not counted and may be taken up again
\* (_has_recent_pending_task, auto_queue_due_goals, auto_queue_from_goals).
OneTaskForEachQueuer == \A g \in Goal : Counted(g) + row[g].blocked <= 2 + blocks

Asks(g)    == goal[g].due /\ goal[g].status \in {"planned", "active"}
\* As many goals as are fetched are due before it: it is not fetched.
Crowded(g) == Cardinality({h \in Goal : h < g /\ Asks(h)}) >= Limit

\* A goal whose date has come, and that is among those fetched, gets a task,
\* whatever fails on the way and whichever process is at work, unless it is taken
\* back or goals of higher priority crowd it out: a goal that stays due, its task
\* in flight or its task blocked, is fetched again and again (auto_queue_due_goals).
DueGoalsAreQueued ==
  \A g \in Goal : (Asks(g) /\ ~Crowded(g)) ~> (Counted(g) > 0 \/ ~Asks(g) \/ Crowded(g))

=============================================================================
