---------------------------- MODULE FailureArchive ----------------------------
(***************************************************************************)
(* archive_failed_runs.py: an hourly run copies the failures among the     *)
(* entries of scheduled_activity_audit into a CSV of the month, and, when  *)
(* the month has changed, packs the CSV of the month before.  A cursor and *)
(* the month are kept in a state object next to them in the bucket.  An    *)
(* entry has its id before it is committed, so ids may come late.          *)
(***************************************************************************)
EXTENDS Integers, FiniteSets

CONSTANTS
  MaxEntry,   \* audit entries in all (a bound)
  MaxMonth,   \* months in all (a bound)
  Limit,      \* entries asked for at a time
  MaxFail     \* runs that may end early (a bound)

Entry == 1..MaxEntry
Month == 1..MaxMonth

VARIABLES
  entry,     \* entry[i]: the audit entry of that id
  late,      \* the entries committed after one with a higher id
  month,     \* the calendar
  live,      \* live[m][i]: how often the row of i is in the CSV of the month
  packed,    \* packed[m][i]: and in its archive
  state,     \* the state object
  run,       \* the run under way
  fails

vars == <<entry, late, month, live, packed, state, run, fails>>
world == <<entry, month>>

\* What the daemon writes: a sync that failed, a recorded run whose status is
\* "failed", and the rest.
What      == {"sync failed", "run failed", "other"}
NoCsv     == [i \in Entry |-> 0]    \* no object; one without rows is never written
Fresh     == 0        \* no month in the state object
RunIdle   == [pc |-> "idle", cursor |-> 0, last |-> Fresh, month |-> Fresh, rows |-> {}]
Ids(csv)  == {i \in Entry : csv[i] > 0}

TypeOK ==
  /\ entry \in [Entry -> {"none", "uncommitted"} \cup What]
  /\ late \subseteq Entry /\ month \in Month /\ state \in [cursor : 0..MaxEntry, month : {Fresh} \cup Month]
  /\ live \in [Month -> [Entry -> 0..(MaxFail + 1)]] /\ packed \in [Month -> [Entry -> 0..(MaxFail + 1)]]
  /\ run.pc \in {"idle", "pack", "delete", "fetch", "write", "save"}
  /\ run.cursor \in 0..MaxEntry /\ run.rows \subseteq Entry
  /\ run.last \in {Fresh} \cup Month /\ run.month \in {Fresh} \cup Month
  /\ fails \in 0..MaxFail

Init ==
  /\ entry = [i \in Entry |-> "none"] /\ late = {} /\ month = 1
  /\ live = [m \in Month |-> NoCsv] /\ packed = [m \in Month |-> NoCsv]
  /\ state = [cursor |-> 0, month |-> Fresh] /\ run = RunIdle /\ fails = 0

-----------------------------------------------------------------------------
(* A run *)

\* load_state; a run keeps the month in which it started.
Load ==
  /\ run.pc = "idle"
  /\ run' = [RunIdle EXCEPT !.cursor = state.cursor, !.last = state.month, !.month = month,
                            !.pc = IF state.month \notin {Fresh, month} THEN "pack" ELSE "fetch"]
  /\ UNCHANGED <<entry, late, month, live, packed, state, fails>>

DeleteFirst ==  \* mutant: the CSV is deleted, and packed from memory afterwards
  /\ run.pc = "pack"
  /\ run' = [run EXCEPT !.pc = "fetch"]
  /\ live' = [live EXCEPT ![run.last] = NoCsv]
  /\ UNCHANGED <<entry, late, month, packed, state, fails>>

\* rotate_month: what an earlier run packed of the month is written over.
Pack ==
  /\ run.pc = "pack"
  /\ IF live[run.last] = NoCsv
     THEN run' = [run EXCEPT !.pc = "fetch"] /\ UNCHANGED packed
     ELSE run' = [run EXCEPT !.pc = "delete"] /\ packed' = [packed EXCEPT ![run.last] = live[run.last]]
  /\ UNCHANGED <<entry, late, month, live, state, fails>>

Delete ==
  /\ run.pc = "delete" /\ run' = [run EXCEPT !.pc = "fetch"]
  /\ live' = [live EXCEPT ![run.last] = NoCsv]
  /\ UNCHANGED <<entry, late, month, packed, state, fails>>

\* is_failure: an action that ends in "_failed", or the status "failure".
IsFailure(i) == entry[i] = "sync failed"

\* The lowest Limit ids of S.
First(S) == {i \in S : Cardinality({j \in S : j < i}) < Limit}

FetchOver ==  \* mutant: the cursor goes to the last entry there is
  /\ run.pc = "fetch"
  /\ LET there == {i \in Entry : entry[i] \in What /\ i > run.cursor}
     IN run' = [run EXCEPT
          !.pc = IF \E i \in First(there) : IsFailure(i) THEN "write" ELSE "save",
          !.cursor = IF there = {} THEN @ ELSE CHOOSE i \in there : \A j \in there : j <= i,
          !.rows = {i \in First(there) : IsFailure(i)}]
  /\ UNCHANGED <<entry, late, month, live, packed, state, fails>>

\* What is asked for is what the cursor has not passed, a page at a time.
Fetch ==
  /\ run.pc = "fetch"
  /\ LET batch == First({i \in Entry : entry[i] \in What /\ i > run.cursor})
     IN run' = [run EXCEPT
          !.pc = IF \E i \in batch : IsFailure(i) THEN "write" ELSE "save",
          !.cursor = IF batch = {} THEN @ ELSE CHOOSE i \in batch : \A j \in batch : j <= i,
          !.rows = {i \in batch : IsFailure(i)}]
  /\ UNCHANGED <<entry, late, month, live, packed, state, fails>>

Write ==
  /\ run.pc = "write" /\ run' = [run EXCEPT !.pc = "save", !.rows = {}]
  /\ live' = [live EXCEPT ![run.month] = [i \in Entry |-> @[i] + IF i \in run.rows THEN 1 ELSE 0]]
  /\ UNCHANGED <<entry, late, month, packed, state, fails>>

Save ==
  /\ run.pc = "save" /\ run' = RunIdle
  /\ state' = [cursor |-> run.cursor, month |-> run.month]
  /\ UNCHANGED <<entry, late, month, live, packed, fails>>

\* A call fails for good, or the run is killed.
Crash ==
  /\ run.pc # "idle" /\ run' = RunIdle /\ fails < MaxFail /\ fails' = fails + 1
  /\ UNCHANGED <<entry, late, month, live, packed, state>>

Step == Load \/ Pack \/ Delete \/ Fetch \/ Write \/ Save

-----------------------------------------------------------------------------
(* The daemon and the calendar *)

Allocate ==
  /\ \E i \in Entry :
       /\ entry[i] = "none" /\ \A j \in Entry : entry[j] = "none" => i <= j
       /\ entry' = [entry EXCEPT ![i] = "uncommitted"]
  /\ UNCHANGED <<late, month, live, packed, state, run, fails>>

Commit ==
  /\ \E i \in Entry, what \in What :
       /\ entry[i] = "uncommitted" /\ entry' = [entry EXCEPT ![i] = what]
       /\ late' = IF \E j \in Entry : j > i /\ entry[j] \in What THEN late \cup {i} ELSE late
  /\ UNCHANGED <<month, live, packed, state, run, fails>>

\* One of the 700 runs of a month gets to its end.
Turn ==
  /\ month < MaxMonth /\ state.month = month /\ month' = month + 1
  /\ UNCHANGED <<entry, late, live, packed, state, run, fails>>

Next == Step \/ Crash \/ Allocate \/ Commit \/ Turn

Spec == Init /\ [][Next]_vars

\* The timer starts run after run.
FairSpec == Spec /\ WF_vars(Step)

-----------------------------------------------------------------------------
(* Properties *)

Filed(i) == \E m \in Month : i \in Ids(live[m]) \cup Ids(packed[m])

\* A failed sync is in the archive in the end, wherever the runs that find it,
\* write it and pack its month are cut off, provided no later entry was
\* committed before it (main, rotate_month).
FailuresAreFiled ==
  (<>[][UNCHANGED world]_world) =>
    <>[](\A i \in Entry \ late : entry[i] = "sync failed" => Filed(i))

\* And it stays there: no rotation loses a row, none overwrites an archive
\* with less (rotate_month).
FiledIsKept == [][\A i \in Entry : Filed(i) => Filed(i)']_vars

\* "Permanent CSV archive of every failed scheduler run": also of a run the
\* daemon recorded as failed.
EveryFailedRunIsFiled ==
  (<>[][UNCHANGED world]_world) =>
    <>[](\A i \in Entry \ late : entry[i] = "run failed" => Filed(i))
=============================================================================
