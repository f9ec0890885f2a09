-------------------------- MODULE ScheduledControl --------------------------
(***************************************************************************)
(* The scheduled_activity registry and the programs that keep it and the   *)
(* host's schedulers alike:                                                *)
(*                                                                         *)
(*   daemon   scripts/scheduled_control_daemon.py, one endless loop that   *)
(*            pushes the registry to systemd, crontab and task_queue, and  *)
(*            pulls run results back                                       *)
(*   seeder   scripts/scheduled_activity_seed.py, started by a timer, that *)
(*            pulls the host's configuration into the registry             *)
(*   people   who edit the registry through the dashboard                  *)
(*                                                                         *)
(* A REST call is one atomic step.  The daemon acts on the rows it read at *)
(* the start of its tick; everybody's writes filter on the row alone.      *)
(***************************************************************************)
EXTENDS Naturals, Sequences, FiniteSets

CONSTANTS
  Timer, Cron, Loop, Recurring,  \* the activities, by kind (numbered by name)
  Schedule,                      \* schedule expressions
  Base,                          \* Base[a]: the schedule a's unit or line was written with
  NoSchedule,                    \* there is no drop-in
  MaxTime,                       \* bound on the clock
  Budget,                        \* Budget[k]: how often k may happen (a bound)
  MaxEvents                      \* how many events there may be in all (a bound)

Unit == Timer \cup Loop
Activity == Unit \cup Cron \cup Recurring
Event == {"edit", "seed", "fault", "run", "rearm"}

ASSUME ControlAssumption ==
  /\ Activity \subseteq Nat
  /\ Timer \cap Loop = {} /\ Unit \cap Cron = {}
  /\ Unit \cap Recurring = {} /\ Cron \cap Recurring = {}
  /\ Base \in [Activity -> Schedule]
  /\ NoSchedule \notin Schedule
  /\ MaxTime \in Nat
  /\ Budget \in [Event -> Nat]
  /\ MaxEvents \in Nat

VARIABLES
  reg,      \* the registry
  unit,     \* systemd's view of each timer and loop
  crontab,  \* the crontab line of each cron activity
  task,     \* the task_queue row of each recurring activity
  svc,      \* the latest run of each unit's service
  runs,     \* runs[a]: what record_scheduled_run has appended
  daemon, seeder,
  now,
  spent

vars == <<reg, unit, crontab, task, svc, runs, daemon, seeder, now, spent>>

\* A registry row; line is the expression in source_ref.line of a cron row.
RegRow ==
  [ enabled : BOOLEAN, paused : BOOLEAN, until : Nat,
    schedule : Schedule, line : Schedule, lastRun : Nat ]

\* dropin is the override file, known the override the manager has loaded.
UnitState ==
  [ enabled : BOOLEAN, running : BOOLEAN,
    dropin : Schedule \cup {NoSchedule}, known : Schedule \cup {NoSchedule} ]

CronLine == [active : BOOLEAN, expr : Schedule]
TaskRow  == [status : {"ready", "claimed", "completed", "cancelled"}, busy : Nat]
Run      == [start : Nat, ended : BOOLEAN]

Fresh(a) ==
  [ enabled |-> TRUE, paused |-> FALSE, until |-> 0,
    schedule |-> Base[a], line |-> Base[a], lastRun |-> 0 ]

AtRest == [pc |-> "loop", todo |-> {}, rows |-> <<>>, seen |-> "ready"]
NoSeed == [at |-> {}, schedule |-> NoSchedule]

TypeOK ==
  /\ reg \in [Activity -> RegRow]
  /\ unit \in [Unit -> UnitState]
  /\ crontab \in [Cron -> CronLine]
  /\ task \in [Recurring -> TaskRow]
  /\ svc \in [Unit -> Run]
  /\ runs \in [Unit -> Seq(Nat)]
  /\ daemon.pc \in {"loop", "unpause", "row", "line", "patch", "poll"}
  /\ daemon.todo \subseteq Activity
  /\ daemon.pc # "loop" => daemon.rows \in [Activity -> RegRow]
  /\ seeder.at \subseteq Activity /\ Cardinality(seeder.at) <= 1
  /\ now \in 0..MaxTime
  /\ \A k \in Event : spent[k] <= Budget[k]

Init ==
  /\ reg = [a \in Activity |-> Fresh(a)]
  /\ unit = [a \in Unit |-> [enabled |-> TRUE, running |-> TRUE,
                             dropin |-> NoSchedule, known |-> NoSchedule]]
  /\ crontab = [a \in Cron |-> [active |-> TRUE, expr |-> Base[a]]]
  /\ task = [a \in Recurring |-> [status |-> "ready", busy |-> 0]]
  /\ svc = [a \in Unit |-> [start |-> 0, ended |-> TRUE]]
  /\ runs = [a \in Unit |-> <<>>]
  /\ daemon = AtRest
  /\ seeder = NoSeed
  /\ now = 0
  /\ spent = [k \in Event |-> 0]

Spend(k) ==
  /\ spent[k] < Budget[k]
  /\ spent["edit"] + spent["seed"] + spent["fault"] + spent["run"] + spent["rearm"] < MaxEvents
  /\ spent' = [spent EXCEPT ![k] = @ + 1]

\* A call or a command that fails although it was retried.
Fails == Spend("fault")

\* What the row asks for: enabled and not paused.
Wanted(r) == r.enabled /\ ~r.paused

-----------------------------------------------------------------------------
(* People: the dashboard changes one aspect of a row. *)

Edit(a) ==
  /\ Spend("edit")
  /\ \/ reg' = [reg EXCEPT ![a].enabled = ~@]
     \/ \E until \in {0} \cup ((now + 1)..MaxTime) :
          reg' = [reg EXCEPT ![a].paused = TRUE, ![a].until = until]
     \/ reg' = [reg EXCEPT ![a].paused = FALSE, ![a].until = 0]
     \/ \E s \in Schedule :
          /\ a \in Timer \cup Cron
          /\ reg' = [reg EXCEPT ![a].schedule = s]
  /\ UNCHANGED <<unit, crontab, task, svc, runs, daemon, seeder, now>>

-----------------------------------------------------------------------------
(* The host: services run, the queue works on recurring rows. *)

Fire(a) ==
  /\ unit[a].running
  /\ svc[a].ended
  /\ Spend("run")
  /\ svc' = [svc EXCEPT ![a] = [start |-> @.start + 1, ended |-> FALSE]]
  /\ UNCHANGED <<reg, unit, crontab, task, runs, daemon, seeder, now>>

\* The service exits; while it ran its exit timestamp was empty.
Exit(a) ==
  /\ ~svc[a].ended
  /\ svc' = [svc EXCEPT ![a].ended = TRUE]
  /\ UNCHANGED <<reg, unit, crontab, task, runs, daemon, seeder, now, spent>>

Claim(a) ==
  /\ task[a].status = "ready"
  /\ task' = [task EXCEPT ![a].status = "claimed", ![a].busy = @ + 1]
  /\ UNCHANGED <<reg, unit, crontab, svc, runs, daemon, seeder, now, spent>>

\* The executor records its result by id, whatever the row has become.
Finish(a) ==
  /\ task[a].busy > 0
  /\ task' = [task EXCEPT ![a].status = "completed", ![a].busy = @ - 1]
  /\ UNCHANGED <<reg, unit, crontab, svc, runs, daemon, seeder, now, spent>>

Rearm(a) ==
  /\ Spend("rearm")
  /\ task' = [task EXCEPT ![a].status = "ready"]
  /\ UNCHANGED <<reg, unit, crontab, svc, runs, daemon, seeder, now>>

Tick ==
  /\ now < MaxTime
  /\ now' = now + 1
  /\ UNCHANGED <<reg, unit, crontab, task, svc, runs, daemon, seeder, spent>>

-----------------------------------------------------------------------------
(* The seeder: one read of the host, one upsert by name.  enabled goes to  *)
(* TRUE whatever it was; pauses are left alone.                            *)

SeedReads(a, schedule) ==
  /\ seeder = NoSeed
  /\ Spend("seed")
  /\ seeder' = [at |-> {a}, schedule |-> schedule]
  /\ UNCHANGED <<reg, unit, crontab, task, svc, runs, daemon, now>>

\* Timers systemd lists; the first OnCalendar line of `systemctl cat` is the
\* base unit's, whatever an override says.
SeedTimer(a) == a \in Timer /\ SeedReads(a, Base[a])

\* The crontab's lines, except commented ones.
SeedCron(a) == a \in Cron /\ crontab[a].active /\ SeedReads(a, crontab[a].expr)

\* The hard-coded loops, disabled ones (is-enabled returns 1) included.
SeedLoop(a) == a \in Loop /\ SeedReads(a, Base[a])

\* task_queue rows with recurring = true, whatever their status.
SeedRecurring(a) == a \in Recurring /\ SeedReads(a, Base[a])

SeedUpsert(a) ==
  /\ a \in seeder.at
  /\ reg' = [reg EXCEPT ![a].enabled = TRUE,
                        ![a].schedule = seeder.schedule,
                        ![a].line = seeder.schedule]
  /\ seeder' = NoSeed
  /\ UNCHANGED <<unit, crontab, task, svc, runs, daemon, now, spent>>

Seed(a) == SeedTimer(a) \/ SeedCron(a) \/ SeedLoop(a) \/ SeedRecurring(a) \/ SeedUpsert(a)

-----------------------------------------------------------------------------
(* The daemon *)

Row == daemon.rows
First(S) == CHOOSE a \in S : \A b \in S : a <= b
Here == First(daemon.todo)

\* The handler of the current row returns and the next row is taken up.
NextRow ==
  daemon' = IF daemon.todo = {Here} THEN AtRest
            ELSE [daemon EXCEPT !.pc = "row", !.todo = @ \ {Here}]

\* auto_unpause: the pause has a limit and it is reached.
Due(a) == reg[a].paused /\ reg[a].until # 0 /\ now >= reg[a].until

\* tick: all rows in one read; auto_unpause looks at the clock once.
TickReads ==
  /\ daemon.pc = "loop"
  /\ LET due == {a \in Activity : Due(a)}
     IN daemon' = [pc |-> IF due = {} THEN "row" ELSE "unpause",
                   todo |-> IF due = {} THEN Activity ELSE due,
                   rows |-> reg, seen |-> "ready"]
  /\ UNCHANGED <<reg, unit, crontab, task, svc, runs, seeder, now, spent>>

\* auto_unpause: the PATCH clears the pause by id, then the copy; a PATCH
\* that fails leaves both.
Unpause ==
  /\ daemon.pc = "unpause"
  /\ LET rest == daemon.todo \ {Here}
         next(rows) == [daemon EXCEPT !.pc = IF rest = {} THEN "row" ELSE @,
                                      !.todo = IF rest = {} THEN Activity ELSE rest,
                                      !.rows = rows]
     IN \/ /\ reg' = [reg EXCEPT ![Here].paused = FALSE, ![Here].until = 0]
           /\ daemon' = next([Row EXCEPT ![Here].paused = FALSE, ![Here].until = 0])
           /\ UNCHANGED spent
        \/ /\ Fails
           /\ daemon' = next(Row)
           /\ UNCHANGED reg
  /\ UNCHANGED <<unit, crontab, task, svc, runs, seeder, now>>

\* systemctl enable/disable, which also reloads the manager.
Enabled(u, want, ok) ==
  IF want = u.enabled \/ ~ok THEN u
  ELSE [u EXCEPT !.enabled = want, !.known = u.dropin]

\* systemctl start/stop.
Started(u, want, ok) == IF want = u.running \/ ~ok THEN u ELSE [u EXCEPT !.running = want]

CurrentFirst(a) == Base[a]  \* mutant: the first OnCalendar line, not the last

\* `systemctl cat`: the override's present text if the manager knows of an
\* override, else the base unit.
Current(a) == IF unit[a].known = NoSchedule THEN Base[a] ELSE unit[a].dropin

\* The override is written, the manager reloaded, the timer restarted, each
\* if the one before went well; a file that is already right ends it at once.
Rescheduled(u, s, reload, restart) ==
  IF u.dropin = s THEN u
  ELSE IF ~reload THEN [u EXCEPT !.dropin = s]
  ELSE [u EXCEPT !.dropin = s, !.known = s, !.running = restart]

ReconcileSystemd ==
  /\ daemon.pc = "row" /\ Here \in Unit
  /\ \E enable, start, reload, restart \in BOOLEAN :
       LET u == Started(Enabled(unit[Here], Row[Here].enabled, enable),
                        Wanted(Row[Here]), start)
       IN /\ IF enable /\ start /\ reload /\ restart
             THEN UNCHANGED spent ELSE Fails
          /\ unit' = [unit EXCEPT ![Here] =
                        IF Here \in Timer /\ Current(Here) # Row[Here].schedule
                        THEN Rescheduled(u, Row[Here].schedule, reload, restart)
                        ELSE u]
  /\ daemon' = [daemon EXCEPT !.pc = "poll"]
  /\ UNCHANGED <<reg, crontab, task, svc, runs, seeder, now>>

NewsRunning(a) == svc[a].start > Row[a].lastRun  \* mutant: no exit timestamp asked for
NewsSkipped(a) == svc[a].ended /\ svc[a].start > Row[a].lastRun + 1  \* mutant: off by one

\* The unit's latest run is over and newer than last_run_at as read.
News(a) == svc[a].ended /\ svc[a].start > Row[a].lastRun

\* poll_systemd_run_history: a run that ended after last_run_at as read is
\* recorded; the call is retried when its answer is lost, and appends again.
PollRunHistory ==
  /\ daemon.pc = "poll"
  /\ LET s == svc[Here].start
         recorded(n) ==
           /\ reg' = [reg EXCEPT ![Here].lastRun = s]
           /\ runs' = [runs EXCEPT ![Here] = @ \o [i \in 1..n |-> s]]
     IN \/ ~News(Here) /\ UNCHANGED <<reg, runs, spent>>
        \/ News(Here) /\ recorded(1) /\ UNCHANGED spent
        \/ News(Here) /\ Fails /\ (recorded(2) \/ UNCHANGED <<reg, runs>>)
  /\ NextRow
  /\ UNCHANGED <<unit, crontab, task, svc, seeder, now>>

\* reconcile_cron: only the line the row remembers is touched; commented out
\* or restored, and rewritten when the schedule differs from the line's.
ReconcileCron ==
  /\ daemon.pc = "row" /\ Here \in Cron
  /\ LET r == Row[Here]
         line == [active |-> Wanted(r), expr |-> r.schedule]
         writes == crontab[Here].expr = r.line /\ crontab[Here] # line
     IN \/ ~writes /\ NextRow /\ UNCHANGED <<crontab, spent>>
        \/ /\ writes
           /\ crontab' = [crontab EXCEPT ![Here] = line]
           /\ IF r.schedule # r.line THEN daemon' = [daemon EXCEPT !.pc = "line"] ELSE NextRow
           /\ UNCHANGED spent
        \/ writes /\ Fails /\ NextRow /\ UNCHANGED crontab
  /\ UNCHANGED <<reg, unit, task, svc, runs, seeder, now>>

RememberLineNever ==  \* mutant: the line is rewritten and not remembered
  /\ daemon.pc = "line"
  /\ NextRow
  /\ UNCHANGED <<reg, unit, crontab, task, svc, runs, seeder, now, spent>>

\* source_ref.line follows in a call of its own, which may be lost.
RememberLine ==
  /\ daemon.pc = "line"
  /\ \/ reg' = [reg EXCEPT ![Here].line = Row[Here].schedule] /\ UNCHANGED spent
     \/ Fails /\ UNCHANGED reg
  /\ NextRow
  /\ UNCHANGED <<unit, crontab, task, svc, runs, seeder, now>>

\* reconcile_task_queue_recurring reads the row's status ...
ReadTask ==
  /\ daemon.pc = "row" /\ Here \in Recurring
  /\ LET s == task[Here].status
     IN IF IF Wanted(Row[Here]) THEN s = "cancelled" ELSE s \notin {"cancelled", "completed"}
        THEN daemon' = [daemon EXCEPT !.pc = "patch", !.seen = s]
        ELSE NextRow
  /\ UNCHANGED <<reg, unit, crontab, task, svc, runs, seeder, now, spent>>

\* ... and writes the other one by id.
PatchTask ==
  /\ daemon.pc = "patch"
  /\ \/ /\ task' = [task EXCEPT ![Here].status =
                      IF daemon.seen = "cancelled" THEN "ready" ELSE "cancelled"]
        /\ UNCHANGED spent
     \/ Fails /\ UNCHANGED task
  /\ NextRow
  /\ UNCHANGED <<reg, unit, crontab, svc, runs, seeder, now>>

\* The daemon dies between two calls, or its read of the rows fails; systemd
\* starts it again.
Restart ==
  /\ daemon.pc # "loop"
  /\ Fails
  /\ daemon' = AtRest
  /\ UNCHANGED <<reg, unit, crontab, task, svc, runs, seeder, now>>

Daemon ==
  \/ TickReads \/ Unpause \/ ReconcileSystemd \/ PollRunHistory
  \/ ReconcileCron \/ RememberLine \/ ReadTask \/ PatchTask

Next ==
  \/ Daemon \/ Restart \/ Tick
  \/ \E a \in Activity : Edit(a) \/ Seed(a)
  \/ \E a \in Unit : Fire(a) \/ Exit(a)
  \/ \E a \in Recurring : Claim(a) \/ Finish(a) \/ Rearm(a)

Spec == Init /\ [][Next]_vars

\* The daemon loops and time passes; edits, seedings, runs and their ends, and
\* faults are owed by nobody.
FairSpec ==
  /\ Spec
  /\ WF_vars(spent' = spent /\ Daemon)
  /\ WF_vars(Tick)

-----------------------------------------------------------------------------
(* Properties *)

\* The override has been written and the manager never told of it.
Unreloaded(a) == unit[a].dropin = reg[a].schedule /\ unit[a].known # unit[a].dropin

\* The row remembers another line than the crontab holds.
LostLine(a) == crontab[a].expr # reg[a].line

UnitMirrors(a) ==
  /\ unit[a].enabled = reg[a].enabled
  /\ unit[a].running = Wanted(reg[a])
  /\ a \in Timer => \/ Unreloaded(a)
                    \/ reg[a].schedule = IF unit[a].known = NoSchedule THEN Base[a]
                                         ELSE unit[a].known

CronMirrors(a) ==
  \/ LostLine(a)
  \/ crontab[a] = [active |-> Wanted(reg[a]), expr |-> reg[a].schedule]

TaskMirrors(a) ==
  IF Wanted(reg[a]) THEN task[a].status # "cancelled"
  ELSE task[a].status \in {"cancelled", "completed"}

\* However edits, seedings and failing calls fall between the daemon's read of
\* the registry and its writes, once they are over the host comes to mirror
\* the registry for good, in enablement, activity and schedule.  Two ways of
\* falling behind are excepted, because the code does not recover from them:
\* an override written before a daemon-reload that failed (the guard in
\* systemd_write_dropin takes it for done), and a crontab line that was
\* rewritten without source_ref.line following.
Converges ==
  <>[](/\ \A a \in Unit : UnitMirrors(a)
       /\ \A a \in Cron : CronMirrors(a)
       /\ \A a \in Recurring : TaskMirrors(a))

\* A crontab line is lost only to a failing call or to a seeding that read the
\* old line: the daemon's own two writes, interrupted by nobody, keep together.
LostLineHasCause ==
  \A a \in Cron :
    LostLine(a) => \/ spent["fault"] > 0 \/ spent["seed"] > 0
                   \/ daemon.pc = "line" /\ Here = a

\* The run history lists runs in their order, each once (twice only when the
\* answer to the call was lost), and a run only after it has ended, although
\* the daemon compares with a last_run_at it read before.
RunsAreRecordedOnce ==
  \A a \in Unit :
    /\ \A i, j \in DOMAIN runs[a] :
         i < j => \/ runs[a][i] < runs[a][j]
                  \/ runs[a][i] = runs[a][j] /\ spent["fault"] > 0
    /\ \A i \in DOMAIN runs[a] : runs[a][i] = svc[a].start => svc[a].ended

\* A run that has ended is recorded, unless a later one hides it first.
EndedRunIsRecorded ==
  \A a \in Unit : \A n \in 1..Budget["run"] :
    (svc[a].start = n /\ svc[a].ended)
      ~> (svc[a].start > n \/ \E i \in DOMAIN runs[a] : runs[a][i] = n)
=============================================================================
