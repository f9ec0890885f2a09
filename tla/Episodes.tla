------------------------------- MODULE Episodes -------------------------------
(***************************************************************************)
(* agent_episodes, the trace of what an agent did: the poller opens a row  *)
(* for a task and closes it, best effort both times (start_episode,        *)
(* end_episode); the first recall of a session is attached to the newest   *)
(* open row of the agent, the ones that follow to the same row (migrations *)
(* 116 and 116a, recordConsults); an hourly sweep closes the rows that     *)
(* nobody will (reap_stale_episodes, migration 117) and tells Discord.     *)
(***************************************************************************)
EXTENDS Integers, Sequences, FiniteSets

CONSTANTS
  MaxRow,     \* episodes in all (a bound)
  Floor,      \* OPEN_ALERT_FLOOR
  MaxFail     \* calls, messages and runs that may fail (a bound)

VARIABLES
  row,      \* row[e]: an episode, in the order they start
  task,     \* the episode of the task that runs, -1: none runs, 0: it has no row
  bound,    \* the episodes to which recalling sessions are bound
  run,      \* the sweep under way
  seen,     \* the key in the state file, but for its magnitude of zero
  told,     \* the findings Discord was last told of
  lost,     \* since told and seen last agreed a message or the file was lost
  fails

vars == <<row, task, bound, run, seen, told, lost, fails>>

Status   == {"in_progress", "completed", "failed", "partial", "abandoned"}
Row      == DOMAIN row
NewRow   == [status |-> "in_progress", late |-> FALSE, quiet |-> FALSE]
RunIdle  == [pc |-> "idle", found |-> {}]
Finding  == {"REAPED", "STALE_AFTER_REAP", "OPEN_ABOVE_FLOOR"}

TypeOK ==
  /\ Len(row) <= MaxRow
  /\ row \in [Row -> [status : Status, late : BOOLEAN, quiet : BOOLEAN]]
  /\ task \in {-1, 0} \cup Row /\ bound \subseteq Row
  /\ run.pc \in {"idle", "health", "post", "write"}
  /\ run.found \cup seen \cup told \subseteq Finding
  /\ lost \in BOOLEAN /\ fails \in 0..MaxFail

Init ==
  /\ row = <<>> /\ task = -1 /\ bound = {} /\ run = RunIdle /\ seen = {} /\ told = {} /\ lost = FALSE /\ fails = 0

Fail == fails < MaxFail /\ fails' = fails + 1
Open == {e \in Row : row[e].status = "in_progress"}
Last == Len(row)

-----------------------------------------------------------------------------
(* The poller and the agent *)

\* start_episode: the row may be written and its id lost with the answer.
Start ==
  /\ task = -1
  /\ \/ Last < MaxRow /\ row' = Append(row, NewRow) /\ task' = Last + 1 /\ UNCHANGED fails
     \/ Last < MaxRow /\ row' = Append(row, NewRow) /\ task' = 0 /\ Fail
     \/ UNCHANGED row /\ task' = 0 /\ Fail
  /\ UNCHANGED <<bound, run, seen, told, lost>>

\* end_episode: a gate of the queue maps to "partial"; the PATCH names the row
\* alone, whatever its status is by now.
End ==
  /\ task # -1 /\ task' = -1
  /\ \/ task = 0 /\ UNCHANGED <<row, fails>>
     \/ task # 0 /\ UNCHANGED fails
        /\ \E status \in {"completed", "failed", "partial"} :
             row' = [row EXCEPT ![task].status = status, ![task].quiet = FALSE]
     \/ task # 0 /\ UNCHANGED row /\ Fail
  /\ UNCHANGED <<bound, run, seen, told, lost>>

\* The poller is killed and nothing closes the row.
Die == task # -1 /\ task' = -1 /\ Fail /\ UNCHANGED <<row, bound, run, seen, told, lost>>

RecentEver == Open  \* mutant: an old row is recalled to for ever

\* attach_episode_consults: the open rows that started within the window.
Recent == {e \in Open : ~row[e].late}

Attach(e) == row' = [row EXCEPT ![e].quiet = FALSE]

\* A session without a row takes the newest of those that no other session
\* claims; claims are forgotten after six hours and when the server restarts.
Consult ==
  /\ \E claimed \in SUBSET bound : \E e \in Recent \ claimed :
       /\ \A f \in Recent \ claimed : f <= e
       /\ Attach(e) /\ bound' = bound \cup {e}
  /\ UNCHANGED <<task, run, seen, told, lost, fails>>

\* A session with a row names it, however long ago that row started, and lets
\* go of it once it is closed.
ConsultAgain(e) ==
  /\ e \in bound
  /\ IF e \in Open THEN Attach(e) /\ UNCHANGED bound ELSE bound' = bound \ {e} /\ UNCHANGED row
  /\ UNCHANGED <<task, run, seen, told, lost, fails>>

SessionEnds(e) ==
  /\ e \in bound /\ bound' = bound \ {e}
  /\ UNCHANGED <<row, task, run, seen, told, lost, fails>>

\* The row started, or was last touched, longer ago than the window.
Age(e) ==
  /\ ~row[e].late /\ (\A f \in Row : f < e => row[f].late) /\ row' = [row EXCEPT ![e].late = TRUE]
  /\ UNCHANGED <<task, bound, run, seen, told, lost, fails>>

Quieten(e) ==
  /\ row[e].status = "in_progress" /\ ~row[e].quiet /\ (\A f \in Row : f < e => row[f].late)
  /\ row' = [row EXCEPT ![e].late = TRUE, ![e].quiet = TRUE]
  /\ UNCHANGED <<task, bound, run, seen, told, lost, fails>>

-----------------------------------------------------------------------------
(* The sweep *)

Stale == {e \in Open : row[e].quiet}

\* What is reaped is lost to the report when the answer is.
Reap ==
  /\ run.pc = "idle"
  /\ \/ /\ row' = [e \in Row |-> IF e \in Stale THEN [row[e] EXCEPT !.status = "abandoned"] ELSE row[e]]
        /\ \/ run' = [pc |-> "health", found |-> IF Stale # {} THEN {"REAPED"} ELSE {}] /\ UNCHANGED fails
           \/ run' = RunIdle /\ Fail
     \/ UNCHANGED row /\ run' = RunIdle /\ Fail
  /\ UNCHANGED <<task, bound, seen, told, lost>>

\* agent_episode_health is read after the reap.
Health ==
  /\ run.pc = "health"
  /\ \/ LET found == run.found \cup (IF Stale # {} THEN {"STALE_AFTER_REAP"} ELSE {})
                               \cup (IF Cardinality(Open) > Floor THEN {"OPEN_ABOVE_FLOOR"} ELSE {})
        IN run' = (IF found = seen THEN RunIdle ELSE [pc |-> "post", found |-> found])
        /\ UNCHANGED fails
     \/ run' = RunIdle /\ Fail
  /\ UNCHANGED <<row, task, bound, seen, told, lost>>

\* A message that fails is printed, and is not tried again.
Post ==
  /\ run.pc = "post" /\ run' = [run EXCEPT !.pc = "write"]
  /\ \/ told' = run.found /\ UNCHANGED <<lost, fails>>
     \/ Fail /\ lost' = TRUE /\ UNCHANGED told
  /\ UNCHANGED <<row, task, bound, seen>>

Write ==
  /\ run.pc = "write" /\ run' = RunIdle /\ seen' = run.found /\ lost' = (told # run.found)
  /\ UNCHANGED <<row, task, bound, told, fails>>

\* A sweep is killed; a state file cut short reads as one without a key.
Crash ==
  /\ run.pc # "idle" /\ run' = RunIdle /\ Fail
  /\ \/ run.pc # "write" /\ UNCHANGED <<seen, lost>>
     \/ run.pc = "write" /\ lost' = TRUE /\ seen' \in {seen, {}}
  /\ UNCHANGED <<row, task, bound, told>>

Sweep == Reap \/ Health \/ Post \/ Write
Session == Consult \/ \E e \in bound : ConsultAgain(e) \/ SessionEnds(e)
Agent == Start \/ End \/ Die \/ Session
Lapse(e) == e \in Row /\ (Age(e) \/ Quieten(e))
Pass  == \E e \in 1..MaxRow : Lapse(e)
Next  == Sweep \/ Crash \/ Agent \/ Pass

Spec == Init /\ [][Next]_vars

\* The timer starts sweep after sweep, and time passes for every row.
FairSpec == Spec /\ WF_vars(Sweep) /\ \A e \in 1..MaxRow : WF_vars(Lapse(e))

-----------------------------------------------------------------------------
(* Properties *)

Latch == INSTANCE AlertLatch WITH reporting <- run.pc = "write"

\* Discord hears of every change in what a sweep finds and is told nothing
\* twice, but for a message that follows a lost one or a lost state file (main).
TellsChanges == Latch!Spec

\* A session bound to e recalls once more, just before e would be reaped.
KeepsOpen(e) == ConsultAgain(e) /\ e \in Open /\ row[e].quiet

\* Every trace terminates, although the poller may be killed, lose the id of
\* the row it wrote or fail to close it, and whatever recalls come, but for a
\* row whose session goes on recalling for ever, which is never reaped
\* (reap_stale_episodes, attach_episode_consults).
EveryTraceEnds ==
  \A e \in 1..MaxRow :
    ((e \in Open /\ task # e) ~> (e \notin Open)) \/ []<><<KeepsOpen(e)>>_vars
=============================================================================
