----------------------------- MODULE ResearchDigest -----------------------------
(***************************************************************************)
(* The monthly consolidation of the daily research notes                   *)
(* (monthly_research_consolidation.py): a job looks for months that are    *)
(* over and have notes that no digest supersedes, and queues a task for    *)
(* each; agents do the tasks, writing the digest and superseding the notes *)
(* one by one.  The month is read after the notes, and each task is looked *)
(* for before it is posted.                                                *)
(***************************************************************************)
EXTENDS Integers, FiniteSets

CONSTANTS
  MaxMonth,   \* months of the calendar (a bound)
  MaxDaily,   \* notes written for a month (a bound)
  MaxBusy,    \* agents at work on a month at a time (a bound)
  MaxFail     \* calls and tasks that fail, and crashes (a bound)

Month == 1..MaxMonth

VARIABLES
  month,      \* the current one
  daily,      \* daily[m]: how many notes it got, and how many are not superseded
  digest,     \* the months that have a digest
  task,       \* task[m]: its tasks, waiting in one of the listed statuses or at work
  run,        \* the run of the job
  fails

vars == <<month, daily, digest, task, run, fails>>

Idle == [pc |-> "idle", list |-> {}, next |-> 1]

Init ==
  /\ month = 1 /\ digest = {} /\ run = Idle /\ fails = 0
  /\ daily = [m \in Month |-> [written |-> 0, live |-> 0]]
  /\ task = [m \in Month |-> [waiting |-> 0, busy |-> 0]]

Fail == fails < MaxFail /\ fails' = fails + 1
Least(S) == CHOOSE m \in S : \A n \in S : m <= n

-----------------------------------------------------------------------------
(* The job *)

\* find_unconsolidated reads the notes; an answer that does not come ends the run.
Fetch ==
  /\ run.pc = "idle"
  /\ \/ run' = [Idle EXCEPT !.pc = "date", !.list = {m \in Month : daily[m].live > 0}] /\ UNCHANGED fails
     \/ UNCHANGED run /\ Fail
  /\ UNCHANGED <<month, daily, digest, task>>

FoundUndigested ==  \* mutant: a month that has a digest is done
  /\ run.pc = "date"
  /\ run' = [run EXCEPT !.pc = "look", !.list = {m \in @ : m < month /\ m \notin digest}]
  /\ UNCHANGED <<month, daily, digest, task, fails>>

\* ... then the digests and the date.
Found ==
  /\ run.pc = "date"
  /\ \/ run' = [run EXCEPT !.pc = "look", !.list = {m \in @ : m < month}] /\ UNCHANGED fails
     \/ run' = Idle /\ Fail
  /\ UNCHANGED <<month, daily, digest, task>>

\* queue_task looks for a task in the statuses it lists; no row that an agent
\* is at work on has one of them.  Its failure is noted, and the next month's turn comes.
Look ==
  /\ run.pc = "look" /\ run.list # {}
  /\ LET m    == Least(run.list)
         skip == [run EXCEPT !.list = @ \ {m}]
     IN \/ task[m].waiting > 0 /\ run' = skip /\ UNCHANGED fails
        \/ task[m].waiting = 0 /\ run' = [skip EXCEPT !.pc = "post", !.next = m] /\ UNCHANGED fails
        \/ run' = skip /\ Fail
  /\ UNCHANGED <<month, daily, digest, task>>

LookDone == run.pc = "look" /\ run.list = {} /\ run' = Idle /\ UNCHANGED <<month, daily, digest, task, fails>>

\* ... and posts one.  The insert may be done and its answer lost.
Post ==
  /\ run.pc = "post" /\ run' = [run EXCEPT !.pc = "look"]
  /\ \/ task' = [task EXCEPT ![run.next].waiting = @ + 1] /\ UNCHANGED fails
     \/ task' \in {task, [task EXCEPT ![run.next].waiting = @ + 1]} /\ Fail
  /\ UNCHANGED <<month, daily, digest>>

Crash == run.pc # "idle" /\ run' = Idle /\ Fail /\ UNCHANGED <<month, daily, digest, task>>

Job == Fetch \/ Found \/ Look \/ LookDone \/ Post

-----------------------------------------------------------------------------
(* The agents, the researcher and the calendar *)

Take(m) ==
  /\ task[m].waiting > 0 /\ task[m].busy < MaxBusy
  /\ task' = [task EXCEPT ![m] = [waiting |-> @.waiting - 1, busy |-> @.busy + 1]]
  /\ UNCHANGED <<month, daily, digest, run, fails>>

\* supersede_memory, one note at a time; the digest is there first.
Supersede(m) ==
  /\ task[m].busy > 0 /\ daily[m].live > 0
  /\ digest' = digest \cup {m} /\ daily' = [daily EXCEPT ![m].live = @ - 1]
  /\ UNCHANGED <<month, task, run, fails>>

\* The task ends with the month done, or fails half-way: it is ended as it is, or taken up again.
End(m) ==
  /\ task[m].busy > 0
  /\ \/ daily[m].live = 0 /\ task' = [task EXCEPT ![m].busy = @ - 1] /\ UNCHANGED fails
     \/ /\ task' \in {[task EXCEPT ![m].busy = @ - 1],
                      [task EXCEPT ![m] = [waiting |-> @.waiting + 1, busy |-> @.busy - 1]]}
        /\ Fail
  /\ UNCHANGED <<month, daily, digest, run>>

\* A note may be late by a month: it is named for its day.
Write(m) ==
  /\ m \in {month - 1, month} /\ daily[m].written < MaxDaily
  /\ daily' = [daily EXCEPT ![m] = [written |-> @.written + 1, live |-> @.live + 1]]
  /\ UNCHANGED <<month, digest, task, run, fails>>

Turn == month < MaxMonth /\ month' = month + 1 /\ UNCHANGED <<daily, digest, task, run, fails>>

World == Turn \/ \E m \in Month : Take(m) \/ Supersede(m) \/ End(m) \/ Write(m)
Next  == Job \/ Crash \/ World

Spec == Init /\ [][Next]_vars

\* The timer fires again, and tasks are taken and worked on.
FairSpec ==
  /\ Spec /\ WF_vars(Job)
  /\ \A m \in Month : WF_vars(Take(m)) /\ WF_vars(Supersede(m)) /\ WF_vars(End(m))

-----------------------------------------------------------------------------
(* Properties *)

\* Counters stay within their bounds, and the job makes no task of a month that
\* is not over ("the current month is never touched"), though the calendar
\* turns between its calls.
TypeOK ==
  /\ month \in Month /\ digest \subseteq Month /\ fails \in 0..MaxFail
  /\ \A m \in Month : daily[m].live \in 0..daily[m].written /\ daily[m].written \in 0..MaxDaily
  /\ task \in [Month -> [waiting : 0..(1 + MaxFail), busy : 0..MaxBusy]]
  /\ run \in [pc : {"idle", "date", "look", "post"}, list : SUBSET Month, next : Month]
  /\ \A m \in Month : task[m].waiting + task[m].busy > 0 => m < month

\* Whatever fails, and however late a note comes, once the last note is written
\* every month that is over ends up with all of its notes superseded: a digest
\* alone is not enough (find_unconsolidated).
MonthsAreDigested == <>[](\A m \in Month : m < month => daily[m].live = 0)
=============================================================================
