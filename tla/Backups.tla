-------------------------------- MODULE Backups --------------------------------
(***************************************************************************)
(* r2_backup.py: every night a run copies each source to the bucket, then  *)
(* prunes the copies past their retention, records a row in backup_status, *)
(* and at the end looks for backups that are overdue.  What fails is told: *)
(* by main for a copy that raised, by check_staleness for the rest.        *)
(*                                                                         *)
(* Nights are counted back from tonight.  A source that is ill stays so    *)
(* until somebody mends it.  Some backups take what cannot be read for     *)
(* nothing to copy: their copies may lack what they are for.               *)
(***************************************************************************)
EXTENDS Integers, Sequences

CONSTANTS
  Task,      \* the backups, in the order of TASKS
  Weekly,    \* those that run once a week
  Lenient,   \* those whose failed reads count as empty
  Titled,    \* those whose name in TASKS contains their name in backup_status
  Keep,      \* Keep[b]: the retention, in nights
  Slack,     \* Slack[b]: expected_interval_hours, in nights
  Week,      \* WEEKLY_CATCHUP_AGE, in nights
  Budget     \* how many events there may be, by kind (a bound)

Backup == {Task[i] : i \in DOMAIN Task}
Event  == {"ill", "down", "lost", "people"}

ASSUME BackupsAssumption == Task \in Seq(Backup) \ {<<>>} /\ Keep \in [Backup -> Nat]

VARIABLES
  kept,     \* kept[b]: the good copies in the bucket, by their age
  blank,    \* blank[b]: the copies that lack what could not be read
  status,   \* status[b]: the rows of b in backup_status
  open,     \* open[b]: the names under which b has open audit tasks
  ill,      \* ill[b]: what is wrong with its source or with uploading it
  sunday,   \* nights since Sunday
  ran,      \* tonight's run has started
  run,      \* the run under way
  spent

vars == <<kept, blank, status, open, ill, sunday, ran, run, spent>>

Never == -1
NoRow == [row |-> FALSE, last |-> Never, failed |-> FALSE]
RunIdle == [pc |-> "idle", at |-> 1]

\* "source": it is not there, or its credentials are not; "reads": its reads fail.
Ills(b) == {"no", "source", "upload"} \cup {what \in {"reads"} : b \in Lenient}

TypeOK ==
  /\ \A b \in Backup : kept[b] \cup blank[b] \subseteq 0..(Keep[b] + 1) /\ kept[b] \cap blank[b] = {}
  /\ \A b \in Backup : status[b] \in [row : BOOLEAN, last : Never..(Slack[b] + 1), failed : BOOLEAN]
  /\ open \in [Backup -> SUBSET {"main", "status"}]
  /\ \A b \in Backup : ill[b] \in Ills(b)
  /\ sunday \in 0..(Week - 1) /\ ran \in BOOLEAN
  /\ run.pc \in {"idle", "copy", "prune", "record", "raise", "tell", "look", "file"}
  /\ run.at \in DOMAIN Task /\ (run.pc = "file" => status[Task[run.at]].row)
  /\ \A k \in Event : spent[k] <= Budget[k]

Init ==
  /\ kept = [b \in Backup |-> {}] /\ blank = kept /\ status = [b \in Backup |-> NoRow]
  /\ open = [b \in Backup |-> {}] /\ ill = [b \in Backup |-> "no"]
  /\ sunday = 0 /\ ran = FALSE /\ run = RunIdle
  /\ spent = [k \in Event |-> 0]

Spend(k) == spent[k] < Budget[k] /\ spent' = [spent EXCEPT ![k] = @ + 1]
Current == Task[run.at]
Goto(pc) == run' = [run EXCEPT !.pc = pc]

-----------------------------------------------------------------------------
(* A run *)

\* The timer starts it; a person may start it again the same night.
Start ==
  /\ run.pc = "idle" /\ Goto("copy") /\ ran' = TRUE
  /\ IF ran THEN Spend("people") ELSE UNCHANGED spent
  /\ UNCHANGED <<kept, blank, status, open, ill, sunday>>

NextTask == run' = IF run.at < Len(Task) THEN [RunIdle EXCEPT !.pc = "copy", !.at = run.at + 1]
                   ELSE [RunIdle EXCEPT !.pc = "look"]
NextLook == run' = IF run.at < Len(Task) THEN [run EXCEPT !.pc = "look", !.at = run.at + 1] ELSE RunIdle

\* weekly_due: Sunday, or a row that says no success for a week.
Due(b) ==
  \/ b \notin Weekly \/ sunday = 0
  \/ status[b].row /\ (status[b].last = Never \/ status[b].last >= Week)

Row(b, result) ==
  status' = [status EXCEPT ![b] =
    [row |-> TRUE, last |-> IF result = "success" THEN 0 ELSE @.last, failed |-> result = "failed"]]

\* record_status: a row that does not reach Supabase is lost.
Record(b, result) ==
  \/ Row(b, result) /\ UNCHANGED spent
  \/ UNCHANGED status /\ Spend("lost")

\* It is not the week's turn, or its last run cannot be looked up: a row
\* without news is recorded.
NotDue ==
  /\ run.pc = "copy" /\ NextTask
  /\ \/ ~Due(Current) /\ Record(Current, "skipped")
     \/ Current \in Weekly /\ sunday # 0 /\ Spend("lost") /\ Row(Current, "skipped")
  /\ UNCHANGED <<kept, blank, open, ill, sunday, ran>>

NoSource ==
  /\ run.pc = "copy" /\ Due(Current) /\ ill[Current] = "source"
  /\ Record(Current, "skipped") /\ NextTask
  /\ UNCHANGED <<kept, blank, open, ill, sunday, ran>>

\* The copy of an earlier run of the night is written over.  A table that
\* cannot be read is exported as an empty one.
Upload ==
  /\ run.pc = "copy" /\ Due(Current) /\ Goto("prune")
  /\ \/ /\ ill[Current] = "no"
        /\ kept' = [kept EXCEPT ![Current] = @ \cup {0}] /\ blank' = [blank EXCEPT ![Current] = @ \ {0}]
     \/ /\ ill[Current] = "reads"
        /\ kept' = [kept EXCEPT ![Current] = @ \ {0}] /\ blank' = [blank EXCEPT ![Current] = @ \cup {0}]
  /\ UNCHANGED <<status, open, ill, sunday, ran, spent>>

UploadFailsLoose ==  \* mutant: old copies are pruned although the new one failed
  /\ run.pc = "copy" /\ Due(Current) /\ ill[Current] = "upload"
  /\ Goto("prune")
  /\ UNCHANGED <<kept, blank, status, open, ill, sunday, ran, spent>>

\* A failed upload is recorded, then raised.
UploadFails ==
  /\ run.pc = "copy" /\ Due(Current) /\ ill[Current] = "upload"
  /\ Record(Current, "failed") /\ Goto("raise")
  /\ UNCHANGED <<kept, blank, open, ill, sunday, ran>>

\* Copies past their retention go; a prune that fails is logged.
Prune ==
  /\ run.pc = "prune" /\ Goto("record")
  /\ \/ /\ kept' = [kept EXCEPT ![Current] = {age \in @ : age <= Keep[Current]}]
        /\ blank' = [blank EXCEPT ![Current] = {age \in @ : age <= Keep[Current]}]
        /\ UNCHANGED spent
     \/ UNCHANGED <<kept, blank>> /\ Spend("lost")
  /\ UNCHANGED <<status, open, ill, sunday, ran>>

RecordSuccess ==
  /\ run.pc = "record" /\ Record(Current, "success") /\ NextTask
  /\ UNCHANGED <<kept, blank, open, ill, sunday, ran>>

\* An audit task is inserted under a name, or the insert fails.
Queue(name) ==
  \/ open' = [open EXCEPT ![Current] = @ \cup {name}] /\ UNCHANGED spent
  \/ UNCHANGED open /\ Spend("lost")

RaiseStops ==  \* mutant: what is raised ends the run
  /\ run.pc = "raise" /\ run' = RunIdle
  /\ UNCHANGED <<kept, blank, status, open, ill, sunday, ran, spent>>

\* main catches what is raised, tells, and goes on.
Raise ==
  /\ run.pc = "raise" /\ Queue("main") /\ NextTask
  /\ UNCHANGED <<kept, blank, status, ill, sunday, ran>>

Health(b) ==
  IF status[b].last = Never THEN "never_succeeded"
  ELSE IF status[b].failed THEN "failed"
  ELSE IF status[b].last > Slack[b] THEN "overdue" ELSE "ok"

\* Audit tasks are looked for by the name in backup_status.
HasOpenTask(b) == "status" \in open[b] \/ (b \in Titled /\ "main" \in open[b])

\* check_staleness; the rows may not be had, and then nothing is checked.
Look ==
  /\ run.pc = "look"
  /\ \/ /\ IF status[Current].row /\ Health(Current) # "ok" /\ ~HasOpenTask(Current)
           THEN Goto("file") ELSE NextLook
        /\ UNCHANGED spent
     \/ run.at = 1 /\ run' = RunIdle /\ Spend("lost")
     \/ status[Current].row /\ Health(Current) # "ok" /\ Goto("file") /\ Spend("lost")
  /\ UNCHANGED <<kept, blank, status, open, ill, sunday, ran>>

File ==
  /\ run.pc = "file" /\ Queue("status") /\ NextLook
  /\ UNCHANGED <<kept, blank, status, ill, sunday, ran>>

Crash ==
  /\ run.pc # "idle" /\ run' = RunIdle /\ Spend("lost")
  /\ UNCHANGED <<kept, blank, status, open, ill, sunday, ran>>

Step ==
  \/ NotDue \/ NoSource \/ Upload \/ UploadFails \/ Prune \/ RecordSuccess \/ Raise \/ Look \/ File

-----------------------------------------------------------------------------
(* The night goes by, sources fail, people act *)

Older(n, most) == IF n < most THEN n + 1 ELSE n

\* A night without a run is one the host is down.
Night ==
  /\ run.pc = "idle" /\ ran' = FALSE /\ sunday' = (sunday + 1) % Week
  /\ IF ran THEN UNCHANGED spent ELSE Spend("down")
  /\ kept' = [b \in Backup |-> {Older(age, Keep[b] + 1) : age \in kept[b]}]
  /\ blank' = [b \in Backup |-> {Older(age, Keep[b] + 1) : age \in blank[b]}]
  /\ status' = [b \in Backup |->
                  IF status[b].last = Never THEN status[b]
                  ELSE [status[b] EXCEPT !.last = Older(@, Slack[b] + 1)]]
  /\ UNCHANGED <<open, ill, run>>

Ail(b) ==
  /\ Spend("ill") /\ run.pc = "idle"
  /\ \E what \in Ills(b) : ill[b] # what /\ ill' = [ill EXCEPT ![b] = what]
  /\ UNCHANGED <<kept, blank, status, open, sunday, ran, run>>

Close(b) ==
  /\ Spend("people") /\ open[b] # {} /\ open' = [open EXCEPT ![b] = {}]
  /\ UNCHANGED <<kept, blank, status, ill, sunday, ran, run>>

Next == Start \/ Step \/ Crash \/ Night \/ \E b \in Backup : Ail(b) \/ Close(b)

Spec == Init /\ [][Next]_vars

\* The timer starts a run every night, a run goes on, and nights go by.
FairSpec == Spec /\ WF_vars(Start /\ ~ran) /\ WF_vars(Step) /\ WF_vars(Night)

-----------------------------------------------------------------------------
(* Properties *)

\* A backup that has a good copy in the bucket keeps one: retention never takes
\* the last, however long its source has been away or its uploads failing.  Only
\* a lenient one may trade it for a copy of tonight that lacks what could not be
\* read (prune; backup_supabase).
CopiesStay ==
  \A b \in Backup : kept[b] # {} => kept'[b] # {} \/ (b \in Lenient /\ 0 \in blank'[b])
KeepsACopy == [][CopiesStay]_vars

\* A source that is not there, or a copy that cannot be uploaded, has an open
\* audit task in the end, and another one when that is closed before it is
\* mended: whatever the other backups of the run do (main, check_staleness).
\* Of a lenient one's failing reads nobody is told: they count as success.
IllGetsATask ==
  (<>[][UNCHANGED ill]_ill) =>
    <>[](\A b \in Backup : ill[b] \in {"source", "upload"} => open[b] # {})
=============================================================================
