------------------------ MODULE ScheduledControlProofs ------------------------
(***************************************************************************)
(* What the daemon remembers of the host is the host: a crontab line it    *)
(* rewrote, and the runs it recorded, for any activities, schedules, edits,*)
(* seedings, faults and runs, and any length of the clock.                 *)
(***************************************************************************)
EXTENDS ScheduledControl, TLAPS, FiniteSetTheorems, WellFoundedInduction

-----------------------------------------------------------------------------
(* Types *)

DaemonTyped ==
  /\ daemon = [pc |-> daemon.pc, todo |-> daemon.todo, rows |-> daemon.rows, seen |-> daemon.seen]
  /\ daemon.pc \in {"loop", "unpause", "row", "line", "patch", "poll"}
  /\ daemon.todo \subseteq Activity
  /\ daemon.pc # "loop" => daemon.rows \in [Activity -> RegRow]

\* While it goes through the rows there is one to go on with, of the kind that
\* the handler is for.
Busy ==
  /\ daemon.pc # "loop" => (daemon.todo # {} \/ Activity = {})
  /\ daemon.pc = "poll" => Here \in Unit
  /\ daemon.pc = "line" => Here \in Cron

SeederTyped ==
  \/ seeder = NoSeed
  \/ \E a \in Activity, s \in Schedule : seeder = [at |-> {a}, schedule |-> s]

Typed ==
  /\ reg \in [Activity -> RegRow] /\ unit \in [Unit -> UnitState]
  /\ crontab \in [Cron -> CronLine] /\ task \in [Recurring -> TaskRow]
  /\ svc \in [Unit -> Run] /\ runs \in [Unit -> Seq(Nat)]
  /\ DaemonTyped /\ Busy /\ SeederTyped
  /\ now \in 0..MaxTime /\ spent \in [Event -> Nat] /\ \A k \in Event : spent[k] <= Budget[k]

\* An event is counted, or is free.
LEMMA SpendCounts ==
  ASSUME Typed, NEW k \in Event, Spend(k)
  PROVE  /\ spent' \in [Event -> Nat] /\ \A e \in Event : spent'[e] <= Budget[e]
         /\ spent'[k] > 0 /\ \A e \in Event : spent[e] <= spent'[e]
<1>1. spent[k] < Budget[k] /\ spent' = [spent EXCEPT ![k] = spent[k] + 1] BY DEF Spend
<1>2. spent[k] \in Nat /\ Budget[k] \in Nat BY ControlAssumption DEF Typed
<1>3. /\ spent' \in [Event -> Nat] /\ spent'[k] = spent[k] + 1
      /\ \A e \in Event \ {k} : spent'[e] = spent[e]
  BY <1>1, <1>2 DEF Typed
<1> QED BY <1>1, <1>2, <1>3 DEF Typed

LEMMA NatMin == ASSUME NEW S \in SUBSET Nat, S # {} PROVE \E x \in S : \A y \in S : x <= y
<1> DEFINE R == OpToRel(<, Nat)
<1>1. IsWellFoundedOn(R, Nat) BY NatLessThanWellFounded
<1>2. \A x, y \in Nat : x < y => <<x, y>> \in R BY DEF OpToRel
<1> HIDE DEF R
<1>3. PICK x \in S : \A y \in S : ~(<<y, x>> \in R) BY <1>1, WFMin
<1>4. \A y \in S : ~(y < x) BY <1>2, <1>3
<1>5. x \in Nat /\ \A y \in S : y \in Nat OBVIOUS
<1>6. \A y \in S : x <= y BY <1>4, <1>5
<1> QED BY <1>6

\* The row at hand is one of those ahead.
LEMMA HereIsAhead == ASSUME Typed, daemon.todo # {} PROVE Here \in daemon.todo
<1>1. daemon.todo \in SUBSET Nat BY ControlAssumption DEF Typed, DaemonTyped
<1>2. PICK a \in daemon.todo : \A b \in daemon.todo : a <= b BY <1>1, NatMin
<1> QED BY <1>2 DEF Here, First

\* Going on to the next row.
LEMMA GoesOn ==
  ASSUME Typed, daemon.pc # "loop", NextRow
  PROVE  /\ DaemonTyped' /\ Busy' /\ daemon'.pc \in {"loop", "row"}
         /\ daemon'.pc = "row" => daemon'.rows = daemon.rows /\ daemon'.todo = daemon.todo \ {Here}
<1>1. CASE daemon.todo = {Here}
  <2>1. daemon' = AtRest BY <1>1 DEF NextRow
  <2> QED BY <2>1 DEF AtRest, DaemonTyped, Busy
<1>2. CASE daemon.todo # {Here}
  <2>1. daemon' = [daemon EXCEPT !.pc = "row", !.todo = @ \ {Here}] BY <1>2 DEF NextRow
  <2>2. /\ daemon'.pc = "row" /\ daemon'.rows = daemon.rows /\ daemon'.todo = daemon.todo \ {Here}
        /\ daemon' = [pc |-> daemon'.pc, todo |-> daemon'.todo, rows |-> daemon'.rows, seen |-> daemon'.seen]
    BY <2>1 DEF Typed, DaemonTyped
  <2>3. daemon'.todo # {} \/ Activity = {} BY <1>2, <2>2 DEF Typed, Busy
  <2> QED BY <2>2, <2>3 DEF Typed, DaemonTyped, Busy, Here
<1> QED BY <1>1, <1>2

\* Every program keeps the registry, the host and its own state in their types.
LEMMA PeopleType ==
  ASSUME Typed, NEW a \in Activity, Edit(a)
  PROVE  /\ Typed'
         /\ \A b \in Activity : reg'[b].line = reg[b].line /\ reg'[b].lastRun = reg[b].lastRun
<1>1. UNCHANGED <<unit, crontab, task, svc, runs, daemon, seeder, now>> /\ Spend("edit") BY DEF Edit
<1>2. spent' \in [Event -> Nat] /\ \A k \in Event : spent'[k] <= Budget[k] BY <1>1, SpendCounts DEF Event
<1> DEFINE Keeps == /\ reg' \in [Activity -> RegRow]
                    /\ \A b \in Activity : reg'[b].line = reg[b].line /\ reg'[b].lastRun = reg[b].lastRun
<1>3. Keeps
  <2>1. now \in Nat /\ MaxTime \in Nat BY ControlAssumption DEF Typed
  <2>2. CASE reg' = [reg EXCEPT ![a].enabled = ~@] BY <2>2 DEF Typed, RegRow
  <2>3. ASSUME NEW until \in {0} \cup ((now + 1)..MaxTime),
               reg' = [reg EXCEPT ![a].paused = TRUE, ![a].until = until]
        PROVE  Keeps
    <3>1. until \in Nat BY <2>1
    <3> QED BY ZenonT(60), <2>3, <3>1 DEF Typed, RegRow
  <2>4. CASE reg' = [reg EXCEPT ![a].paused = FALSE, ![a].until = 0] BY <2>4 DEF Typed, RegRow
  <2>5. ASSUME NEW s \in Schedule, reg' = [reg EXCEPT ![a].schedule = s] PROVE Keeps
    BY <2>5 DEF Typed, RegRow
  <2> QED BY <2>2, <2>3, <2>4, <2>5 DEF Edit
<1> QED BY <1>1, <1>2, <1>3 DEF Typed, DaemonTyped, Busy, Here, SeederTyped

\* The rows with one pause at an end, and with one row seeded.
Freed(f, x)     == [f EXCEPT ![x].paused = FALSE, ![x].until = 0]
Seeded(f, x, s) == [f EXCEPT ![x].enabled = TRUE, ![x].schedule = s, ![x].line = s]

\* The end of a pause leaves the line and the last run of a row alone.
LEMMA UnpausedKeeps ==
  ASSUME NEW f \in [Activity -> RegRow], NEW x
  PROVE  \A a \in Activity : Freed(f, x)[a].line = f[a].line /\ Freed(f, x)[a].lastRun = f[a].lastRun
<1> DEFINE first == [f EXCEPT ![x].paused = FALSE]
<1>1. first \in [Activity -> RegRow] /\ \A a \in Activity : first[a].line = f[a].line /\ first[a].lastRun = f[a].lastRun
  BY DEF RegRow
<1> HIDE DEF first
<1>2. \A a \in Activity : /\ [first EXCEPT ![x].until = 0][a].line = first[a].line
                         /\ [first EXCEPT ![x].until = 0][a].lastRun = first[a].lastRun
  BY <1>1 DEF RegRow
<1> QED BY <1>1, <1>2 DEF first, Freed

\* What a seeding writes is a row, with its last run left alone.
LEMMA SeededIsRow ==
  ASSUME NEW f \in [Activity -> RegRow], NEW a \in Activity, NEW s \in Schedule
  PROVE  /\ Seeded(f, a, s) \in [Activity -> RegRow]
         /\ \A b \in Activity : Seeded(f, a, s)[b].lastRun = f[b].lastRun
<1> DEFINE first  == [f EXCEPT ![a].enabled = TRUE]
           second == [first EXCEPT ![a].schedule = s]
<1>1. first \in [Activity -> RegRow] /\ \A b \in Activity : first[b].lastRun = f[b].lastRun BY DEF RegRow
<1>2. second \in [Activity -> RegRow] /\ \A b \in Activity : second[b].lastRun = f[b].lastRun
  <2> HIDE DEF first
  <2> QED BY <1>1 DEF RegRow
<1>3. /\ [second EXCEPT ![a].line = s] \in [Activity -> RegRow]
      /\ \A b \in Activity : [second EXCEPT ![a].line = s][b].lastRun = f[b].lastRun
  <2> HIDE DEF second
  <2> QED BY <1>2 DEF RegRow
<1>4. Seeded(f, a, s) = [second EXCEPT ![a].line = s] BY DEF Seeded
<1> QED BY <1>3, <1>4

\* A row of the queue that is claimed, finished, armed or patched is one still.
LEMMA TaskSet ==
  ASSUME task \in [Recurring -> TaskRow], NEW a \in Recurring,
         NEW s \in {"ready", "claimed", "completed", "cancelled"}
  PROVE  /\ [task EXCEPT ![a].status = s] \in [Recurring -> TaskRow]
         /\ [task EXCEPT ![a].status = s, ![a].busy = @ + 1] \in [Recurring -> TaskRow]
         /\ task[a].busy > 0 => [task EXCEPT ![a].status = s, ![a].busy = @ - 1] \in [Recurring -> TaskRow]
<1> DEFINE first == [task EXCEPT ![a].status = s]
<1>1. first \in [Recurring -> TaskRow] /\ first[a].busy = task[a].busy BY DEF TaskRow
<1> HIDE DEF first
<1>2. [first EXCEPT ![a].busy = @ + 1] \in [Recurring -> TaskRow] BY <1>1 DEF TaskRow
<1>3. task[a].busy > 0 => [first EXCEPT ![a].busy = @ - 1] \in [Recurring -> TaskRow] BY <1>1 DEF TaskRow
<1> QED BY <1>1, <1>2, <1>3 DEF first

LEMMA HostType ==
  ASSUME Typed, \/ \E a \in Unit : Fire(a) \/ Exit(a)
                \/ \E a \in Recurring : Claim(a) \/ Finish(a) \/ Rearm(a)
                \/ Tick \/ \E a \in Activity : Seed(a)
  PROVE  Typed'
<1> USE DEF Typed, DaemonTyped, Busy, Here, SeederTyped
<1>1. ASSUME NEW a \in Unit, Fire(a) PROVE Typed'
  <2>1. UNCHANGED <<reg, unit, crontab, task, runs, daemon, seeder, now>> /\ Spend("run")
        /\ svc' = [svc EXCEPT ![a] = [start |-> svc[a].start + 1, ended |-> FALSE]]
    BY <1>1 DEF Fire
  <2>2. spent' \in [Event -> Nat] /\ \A k \in Event : spent'[k] <= Budget[k] BY <2>1, SpendCounts DEF Event
  <2>3. svc[a].start + 1 \in Nat BY DEF Run
  <2>4. svc' \in [Unit -> Run] BY <2>1, <2>3 DEF Run
  <2> QED BY <2>1, <2>2, <2>4
<1>2. ASSUME NEW a \in Unit, Exit(a) PROVE Typed' BY <1>2 DEF Exit, Run
<1>3. ASSUME NEW a \in Recurring, Claim(a) PROVE Typed' BY <1>3, TaskSet DEF Claim
<1>4. ASSUME NEW a \in Recurring, Finish(a) PROVE Typed' BY <1>4, TaskSet DEF Finish
<1>5. ASSUME NEW a \in Recurring, Rearm(a) PROVE Typed'
  <2>1. spent' \in [Event -> Nat] /\ \A k \in Event : spent'[k] <= Budget[k]
    BY <1>5, SpendCounts DEF Event, Rearm
  <2> QED BY <1>5, <2>1, TaskSet DEF Rearm
<1>6. CASE Tick BY <1>6, ControlAssumption DEF Tick
<1>7. ASSUME NEW a \in Activity, Seed(a) PROVE Typed'
  <2>1. CASE SeedUpsert(a)
    <3>1. UNCHANGED <<unit, crontab, task, svc, runs, daemon, now, spent>> /\ seeder' = NoSeed
          /\ seeder.schedule \in Schedule
          /\ reg' = Seeded(reg, a, seeder.schedule)
      BY <1>7, <2>1 DEF SeedUpsert, NoSeed, Seeded
    <3>2. reg' \in [Activity -> RegRow] BY <3>1, SeededIsRow
    <3> QED BY <3>1, <3>2
  <2>2. ASSUME NEW s \in Schedule, SeedReads(a, s) PROVE Typed'
    <3>1. spent' \in [Event -> Nat] /\ \A k \in Event : spent'[k] <= Budget[k]
      BY <2>2, SpendCounts DEF Event, SeedReads
    <3> QED BY <2>2, <3>1 DEF SeedReads
  <2>3. SeedUpsert(a) \/ SeedReads(a, Base[a]) \/ (a \in Cron /\ SeedReads(a, crontab[a].expr))
    BY <1>7 DEF Seed, SeedTimer, SeedCron, SeedLoop, SeedRecurring
  <2>4. Base[a] \in Schedule /\ (a \in Cron => crontab[a].expr \in Schedule)
    BY ControlAssumption DEF CronLine
  <2> QED BY <2>1, <2>2, <2>3, <2>4
<1> QED BY <1>1, <1>2, <1>3, <1>4, <1>5, <1>6, <1>7

\* systemctl's steps, each of which may fail, leave a unit a unit.
LEMMA UnitType ==
  ASSUME NEW u \in UnitState, NEW want \in BOOLEAN, NEW ok \in BOOLEAN, NEW s \in Schedule,
         NEW reload \in BOOLEAN, NEW restart \in BOOLEAN
  PROVE  /\ Enabled(u, want, ok) \in UnitState /\ Started(u, want, ok) \in UnitState
         /\ Rescheduled(u, s, reload, restart) \in UnitState
BY DEF UnitState, Enabled, Started, Rescheduled

LEMMA DaemonType ==
  ASSUME Typed, Daemon \/ Restart
  PROVE  Typed'
<1> USE DEF Typed
<1>1. ASSUME UNCHANGED spent \/ Fails PROVE spent' \in [Event -> Nat] /\ \A k \in Event : spent'[k] <= Budget[k]
  BY <1>1, SpendCounts DEF Event, Fails
<1>2. CASE TickReads
  <2>1. daemon' = [pc |-> daemon'.pc, todo |-> daemon'.todo, rows |-> reg, seen |-> "ready"]
        /\ daemon'.pc \in {"unpause", "row"} /\ daemon'.todo \subseteq Activity
        /\ (daemon'.todo # {} \/ Activity = {})
    BY <1>2 DEF TickReads
  <2>2. UNCHANGED <<reg, unit, crontab, task, svc, runs, seeder, now, spent>> BY <1>2 DEF TickReads
  <2> QED BY <2>1, <2>2 DEF DaemonTyped, Busy, Here, SeederTyped
<1>3. CASE Unpause
  <2> DEFINE rest == daemon.todo \ {Here}
             After(rows) == [daemon EXCEPT !.pc = IF rest = {} THEN "row" ELSE @,
                                           !.todo = IF rest = {} THEN Activity ELSE rest, !.rows = rows]
  <2>1. UNCHANGED <<unit, crontab, task, svc, runs, seeder, now>> /\ daemon.pc = "unpause" BY <1>3 DEF Unpause
  <2>2. \A f \in [Activity -> RegRow] : Freed(f, Here) \in [Activity -> RegRow] BY ZenonT(60) DEF RegRow, Freed
  <2>3. ASSUME NEW f \in [Activity -> RegRow], daemon' = After(f) PROVE DaemonTyped' /\ Busy'
    BY <2>1, <2>3 DEF DaemonTyped, Busy
  <2>4. daemon.rows \in [Activity -> RegRow] BY <2>1 DEF DaemonTyped
  <2>5. \/ reg' = Freed(reg, Here) /\ daemon' = After(Freed(daemon.rows, Here)) /\ UNCHANGED spent
        \/ Fails /\ daemon' = After(daemon.rows) /\ UNCHANGED reg
    BY <1>3 DEF Unpause, Row, Freed
  <2> HIDE DEF After
  <2>6. DaemonTyped' /\ Busy' /\ reg' \in [Activity -> RegRow] BY <2>2, <2>3, <2>4, <2>5
  <2> QED BY <1>1, <2>1, <2>5, <2>6 DEF SeederTyped
<1>4. CASE ReconcileSystemd
  <2>1. /\ daemon.pc = "row" /\ Here \in Unit /\ daemon' = [daemon EXCEPT !.pc = "poll"]
        /\ UNCHANGED <<reg, crontab, task, svc, runs, seeder, now>> /\ (UNCHANGED spent \/ Fails)
    BY <1>4 DEF ReconcileSystemd
  <2>2. Row[Here] \in RegRow BY <2>1 DEF DaemonTyped, Row, Activity
  <2>3. PICK enable, start, reload, restart \in BOOLEAN :
          LET u == Started(Enabled(unit[Here], Row[Here].enabled, enable), Wanted(Row[Here]), start)
          IN  unit' = [unit EXCEPT ![Here] =
                         IF Here \in Timer /\ Current(Here) # Row[Here].schedule
                         THEN Rescheduled(u, Row[Here].schedule, reload, restart) ELSE u]
    BY ZenonT(60), <1>4 DEF ReconcileSystemd
  <2>4. /\ Row[Here].enabled \in BOOLEAN /\ Wanted(Row[Here]) \in BOOLEAN /\ Row[Here].schedule \in Schedule
        /\ unit[Here] \in UnitState
    BY <2>1, <2>2 DEF RegRow, Wanted
  <2> DEFINE u == Started(Enabled(unit[Here], Row[Here].enabled, enable), Wanted(Row[Here]), start)
  <2>5. u \in UnitState BY <2>4, UnitType
  <2> HIDE DEF u
  <2>6. Rescheduled(u, Row[Here].schedule, reload, restart) \in UnitState BY <2>4, <2>5, UnitType
  <2>7. unit' \in [Unit -> UnitState] BY <2>3, <2>5, <2>6 DEF u
  <2>8. DaemonTyped' /\ Busy' BY <2>1 DEF DaemonTyped, Busy, Here
  <2> QED BY <1>1, <2>1, <2>7, <2>8 DEF SeederTyped
<1>5. CASE PollRunHistory
  <2>1. daemon.pc = "poll" /\ NextRow /\ UNCHANGED <<unit, crontab, task, svc, seeder, now>>
        /\ (UNCHANGED spent \/ Fails)
    BY <1>5 DEF PollRunHistory
  <2>2. reg' \in [Activity -> RegRow] /\ runs' \in [Unit -> Seq(Nat)]
    <3> DEFINE s == svc[Here].start
    <3>1. \/ UNCHANGED <<reg, runs>>
          \/ \E n \in {1, 2} : /\ reg' = [reg EXCEPT ![Here].lastRun = s]
                               /\ runs' = [runs EXCEPT ![Here] = @ \o [i \in 1..n |-> s]]
      BY <1>5 DEF PollRunHistory
    <3>2. Here \in Unit BY <2>1 DEF Busy
    <3>3. s \in Nat /\ \A n \in {1, 2} : [i \in 1..n |-> s] \in Seq(Nat) BY <3>2 DEF Run
    <3> HIDE DEF s
    <3>4. ASSUME NEW n \in {1, 2}, runs' = [runs EXCEPT ![Here] = @ \o [i \in 1..n |-> s]]
          PROVE  runs' \in [Unit -> Seq(Nat)]
      <4>1. runs[Here] \o [i \in 1..n |-> s] \in Seq(Nat) BY <3>2, <3>3
      <4> QED BY <3>4, <4>1
    <3>5. ASSUME reg' = [reg EXCEPT ![Here].lastRun = s] PROVE reg' \in [Activity -> RegRow]
      BY <3>3, <3>5 DEF RegRow
    <3> QED BY <3>1, <3>4, <3>5
  <2> QED BY <1>1, <2>1, <2>2, GoesOn DEF SeederTyped
<1>6. CASE ReconcileCron
  <2>1. /\ daemon.pc = "row" /\ Here \in Cron /\ UNCHANGED <<reg, unit, task, svc, runs, seeder, now>>
        /\ (UNCHANGED spent \/ Fails)
        /\ \/ UNCHANGED crontab
           \/ crontab' = [crontab EXCEPT ![Here] = [active |-> Wanted(Row[Here]), expr |-> Row[Here].schedule]]
        /\ NextRow \/ daemon' = [daemon EXCEPT !.pc = "line"]
    BY <1>6 DEF ReconcileCron
  <2>2. Row[Here] \in RegRow BY <2>1 DEF DaemonTyped, Row, Activity
  <2>3. [active |-> Wanted(Row[Here]), expr |-> Row[Here].schedule] \in CronLine
    BY <2>2 DEF RegRow, CronLine, Wanted
  <2>4. crontab' \in [Cron -> CronLine] BY <2>1, <2>3
  <2>5. DaemonTyped' /\ Busy'
    <3>1. CASE daemon' = [daemon EXCEPT !.pc = "line"] BY <2>1, <3>1 DEF DaemonTyped, Busy, Here
    <3> QED BY <2>1, <3>1, GoesOn
  <2> QED BY <1>1, <2>1, <2>4, <2>5 DEF SeederTyped
<1>7. CASE RememberLine
  <2>1. /\ daemon.pc = "line" /\ NextRow /\ UNCHANGED <<unit, crontab, task, svc, runs, seeder, now>>
        /\ (UNCHANGED spent \/ Fails)
        /\ UNCHANGED reg \/ reg' = [reg EXCEPT ![Here].line = Row[Here].schedule]
    BY <1>7 DEF RememberLine
  <2>2. reg' \in [Activity -> RegRow]
    <3>1. Here \in Activity => Row[Here].schedule \in Schedule BY <2>1 DEF DaemonTyped, Row, RegRow
    <3> QED BY ZenonT(60), <2>1, <3>1 DEF RegRow
  <2> QED BY <1>1, <2>1, <2>2, GoesOn DEF SeederTyped
<1>8. CASE ReadTask
  <2>1. /\ daemon.pc = "row" /\ UNCHANGED <<reg, unit, crontab, task, svc, runs, seeder, now, spent>>
        /\ NextRow \/ daemon' = [daemon EXCEPT !.pc = "patch", !.seen = task[Here].status]
    BY <1>8 DEF ReadTask
  <2>2. CASE daemon' = [daemon EXCEPT !.pc = "patch", !.seen = task[Here].status]
    <3>1. DaemonTyped' /\ Busy' BY <2>1, <2>2 DEF DaemonTyped, Busy, Here
    <3> QED BY <2>1, <3>1 DEF SeederTyped
  <2> QED BY <2>1, <2>2, GoesOn DEF SeederTyped
<1>9. CASE PatchTask
  <2>1. /\ daemon.pc = "patch" /\ NextRow /\ UNCHANGED <<reg, unit, crontab, svc, runs, seeder, now>>
        /\ (UNCHANGED spent \/ Fails)
        /\ UNCHANGED task \/ \E s \in {"ready", "cancelled"} : task' = [task EXCEPT ![Here].status = s]
    BY <1>9 DEF PatchTask
  <2>2. task' \in [Recurring -> TaskRow] BY <2>1 DEF TaskRow
  <2> QED BY <1>1, <2>1, <2>2, GoesOn DEF SeederTyped
<1>10. CASE Restart
  <2>1. daemon' = AtRest /\ Fails /\ UNCHANGED <<reg, unit, crontab, task, svc, runs, seeder, now>>
    BY <1>10 DEF Restart
  <2>2. DaemonTyped' /\ Busy' BY <2>1 DEF AtRest, DaemonTyped, Busy
  <2> QED BY <1>1, <2>1, <2>2 DEF SeederTyped
<1> QED BY <1>2, <1>3, <1>4, <1>5, <1>6, <1>7, <1>8, <1>9, <1>10 DEF Daemon

LEMMA EveryStepTypes == ASSUME Typed, [Next]_vars PROVE Typed'
<1>1. CASE UNCHANGED vars BY <1>1 DEF vars, Typed, DaemonTyped, Busy, Here, SeederTyped
<1> QED BY <1>1, PeopleType, HostType, DaemonType DEF Next

LEMMA TypedFromInit == Init => Typed
BY ControlAssumption DEF Init, Typed, DaemonTyped, Busy, Here, SeederTyped, Fresh, AtRest, NoSeed,
     RegRow, UnitState, CronLine, TaskRow, Run, Activity, Unit

\* Everybody's writes keep the registry, the host and the daemon's own state in
\* their types.
THEOREM TypeCorrect == Spec => []TypeOK
<1>1. Typed => TypeOK
  <2> SUFFICES ASSUME Typed PROVE TypeOK OBVIOUS
  <2>1. seeder.at \subseteq Activity /\ Cardinality(seeder.at) <= 1
    <3>1. CASE seeder = NoSeed BY <3>1, FS_EmptySet DEF NoSeed
    <3>2. ASSUME NEW a \in Activity, seeder.at = {a} PROVE seeder.at \subseteq Activity /\ Cardinality(seeder.at) <= 1
      <4>1. Cardinality({a}) = 1 BY FS_Singleton
      <4> QED BY <3>2, <4>1
    <3> QED BY SMTT(30), <3>1, <3>2 DEF Typed, SeederTyped
  <2> QED BY <2>1 DEF Typed, TypeOK, DaemonTyped
<1> QED BY <1>1, TypedFromInit, EveryStepTypes, PTL DEF Spec

\* Every event is counted, and no count goes down.
LEMMA EventsCount ==
  ASSUME Typed, [Next]_vars
  PROVE  \A k \in Event : spent[k] <= spent'[k]
<1>1. UNCHANGED spent \/ \E k \in Event : Spend(k)
  BY DEF Event, Next, Daemon, TickReads, Unpause, ReconcileSystemd, PollRunHistory, ReconcileCron,
         RememberLine, ReadTask, PatchTask, Restart, Fails, Tick, Edit, Seed, SeedTimer, SeedCron,
         SeedLoop, SeedRecurring, SeedReads, SeedUpsert, Fire, Exit, Claim, Finish, Rearm, vars
<1>2. CASE UNCHANGED spent BY <1>2 DEF Typed
<1> QED BY <1>1, <1>2, SpendCounts

-----------------------------------------------------------------------------
(* Crontab lines *)

\* Between the daemon's two writes the crontab holds what the row is about to.
LineAtHand == daemon.pc = "line" => crontab[Here].expr = Row[Here].schedule

SeedingIsCounted == seeder # NoSeed => spent["seed"] > 0

LineIInv == Typed /\ LineAtHand /\ SeedingIsCounted /\ LostLineHasCause

\* The daemon's steps between the row it took up and the next one, but for a line.
LEMMA NoLineAtHand ==
  ASSUME Typed, TickReads \/ Unpause \/ ReconcileSystemd \/ PollRunHistory \/ ReadTask \/ PatchTask \/ Restart
  PROVE  /\ daemon'.pc # "line" /\ UNCHANGED <<crontab, seeder>>
         /\ \A a \in Activity : reg'[a].line = reg[a].line
         /\ daemon.pc = "line" => Fails
<1> USE DEF Typed
<1>1. CASE TickReads BY <1>1 DEF TickReads
<1>2. CASE Unpause
  <2>1. daemon.pc = "unpause" /\ UNCHANGED <<crontab, seeder>> BY <1>2 DEF Unpause
  <2>2. \E rows : daemon' = [daemon EXCEPT !.pc = IF daemon.todo \ {Here} = {} THEN "row" ELSE @,
                                           !.todo = IF daemon.todo \ {Here} = {} THEN Activity ELSE daemon.todo \ {Here},
                                           !.rows = rows]
    BY <1>2 DEF Unpause
  <2>3. daemon'.pc # "line" BY <2>1, <2>2 DEF DaemonTyped
  <2>4. UNCHANGED reg \/ reg' = Freed(reg, Here) BY <1>2 DEF Unpause, Freed
  <2> QED BY <2>1, <2>3, <2>4, UnpausedKeeps
<1>3. CASE ReconcileSystemd
  <2>1. daemon.pc = "row" /\ daemon' = [daemon EXCEPT !.pc = "poll"] /\ UNCHANGED <<crontab, seeder, reg>>
    BY <1>3 DEF ReconcileSystemd
  <2> QED BY <2>1 DEF DaemonTyped
<1>4. CASE PollRunHistory
  <2>1. daemon.pc = "poll" /\ NextRow /\ UNCHANGED <<crontab, seeder>>
        /\ (UNCHANGED reg \/ reg' = [reg EXCEPT ![Here].lastRun = svc[Here].start])
    BY <1>4 DEF PollRunHistory
  <2>2. \A a \in Activity : reg'[a].line = reg[a].line
    <3>1. CASE UNCHANGED reg BY <3>1
    <3>2. CASE reg' = [reg EXCEPT ![Here].lastRun = svc[Here].start] BY <3>2 DEF RegRow
    <3> QED BY <2>1, <3>1, <3>2
  <2>3. daemon'.pc # "line" BY <2>1, GoesOn
  <2> QED BY <2>1, <2>2, <2>3
<1>5. CASE ReadTask
  <2>1. daemon.pc = "row" /\ UNCHANGED <<crontab, seeder, reg>>
        /\ (NextRow \/ daemon' = [daemon EXCEPT !.pc = "patch", !.seen = task[Here].status])
    BY <1>5 DEF ReadTask
  <2> QED BY <2>1, GoesOn DEF DaemonTyped
<1>6. CASE PatchTask BY <1>6, GoesOn DEF PatchTask
<1>7. CASE Restart BY <1>7 DEF Restart, AtRest
<1> QED BY <1>1, <1>2, <1>3, <1>4, <1>5, <1>6, <1>7

LEMMA LinesKeep == ASSUME LineIInv, [Next]_vars PROVE LineIInv'
<1> DEFINE Caused == spent["fault"] > 0 \/ spent["seed"] > 0
<1>1. Typed /\ Typed' BY EveryStepTypes DEF LineIInv
<1>2. spent["fault"] <= spent'["fault"] /\ spent["seed"] <= spent'["seed"]
      /\ spent["fault"] \in Nat /\ spent["seed"] \in Nat /\ spent'["fault"] \in Nat /\ spent'["seed"] \in Nat
  BY <1>1, EventsCount DEF LineIInv, Typed, Event
<1>3. Fails => spent'["fault"] > 0 BY <1>1, SpendCounts DEF Fails, Event
<1>4. \A a, s : SeedReads(a, s) => spent'["seed"] > 0 BY <1>1, SpendCounts DEF SeedReads, Event
<1>5. Cron \subseteq Activity BY DEF Activity
\* What leaves the lines alone, with no line at hand or with one that stays.
<1>6. ASSUME UNCHANGED crontab, \A a \in Activity : reg'[a].line = reg[a].line,
             UNCHANGED daemon \/ (daemon'.pc # "line" /\ (daemon.pc = "line" => Fails)),
             seeder' # NoSeed => seeder # NoSeed \/ spent'["seed"] > 0
      PROVE  LineIInv'
  <2>1. LineAtHand' BY <1>6 DEF LineIInv, LineAtHand, Row, Here
  <2>2. SeedingIsCounted' BY <1>2, <1>6 DEF LineIInv, SeedingIsCounted
  <2>3. LostLineHasCause'
    BY <1>2, <1>3, <1>5, <1>6 DEF LineIInv, LostLineHasCause, LostLine, Here
  <2> QED BY <1>1, <2>1, <2>2, <2>3 DEF LineIInv
<1>7. CASE TickReads \/ Unpause \/ ReconcileSystemd \/ PollRunHistory \/ ReadTask \/ PatchTask \/ Restart
  BY <1>1, <1>6, <1>7, NoLineAtHand
<1>8. CASE ReconcileCron
  <2> DEFINE line == [active |-> Wanted(Row[Here]), expr |-> Row[Here].schedule]
  <2>1. daemon.pc = "row" /\ Here \in Cron /\ UNCHANGED <<reg, seeder>> BY <1>8 DEF ReconcileCron
  <2>2. \/ NextRow /\ UNCHANGED crontab
        \/ /\ crontab[Here].expr = Row[Here].line /\ crontab' = [crontab EXCEPT ![Here] = line]
           /\ IF Row[Here].schedule # Row[Here].line THEN daemon' = [daemon EXCEPT !.pc = "line"] ELSE NextRow
    BY <1>8 DEF ReconcileCron
  <2>3. CASE NextRow /\ UNCHANGED crontab BY <1>1, <1>6, <2>1, <2>3, GoesOn
  <2>4. CASE /\ crontab[Here].expr = Row[Here].line /\ crontab' = [crontab EXCEPT ![Here] = line]
             /\ IF Row[Here].schedule # Row[Here].line THEN daemon' = [daemon EXCEPT !.pc = "line"] ELSE NextRow
    <3>1. /\ crontab'[Here].expr = Row[Here].schedule
          /\ \A a \in Cron \ {Here} : crontab'[a] = crontab[a]
      BY <1>1, <2>1, <2>4 DEF Typed
    <3>2. CASE daemon' = [daemon EXCEPT !.pc = "line"] /\ Row[Here].schedule # Row[Here].line
      <4>1. daemon'.pc = "line" /\ UNCHANGED <<Here, Row>>
        BY <1>1, <3>2 DEF Typed, DaemonTyped, Here, Row
      <4>2. LineAtHand' BY <3>1, <4>1 DEF LineAtHand
      <4>3. SeedingIsCounted' BY <1>2, <2>1 DEF LineIInv, SeedingIsCounted
      <4>4. LostLineHasCause' BY <1>2, <2>1, <3>1, <4>1 DEF LineIInv, LostLineHasCause, LostLine
      <4> QED BY <1>1, <4>2, <4>3, <4>4 DEF LineIInv
    <3>3. CASE NextRow /\ Row[Here].schedule = Row[Here].line
      <4>1. daemon'.pc # "line" BY <1>1, <2>1, <3>3, GoesOn
      <4>2. LineAtHand' BY <4>1 DEF LineAtHand
      <4>3. SeedingIsCounted' BY <1>2, <2>1 DEF LineIInv, SeedingIsCounted
      <4>4. \A a \in Cron : crontab'[a].expr = crontab[a].expr BY <2>4, <3>1, <3>3
      <4>5. LostLineHasCause' BY <1>2, <2>1, <4>4 DEF LineIInv, LostLineHasCause, LostLine
      <4> QED BY <1>1, <4>2, <4>3, <4>5 DEF LineIInv
    <3> QED BY <2>4, <3>2, <3>3
  <2> QED BY <2>2, <2>3, <2>4
<1>9. CASE RememberLine
  <2>1. daemon.pc = "line" /\ NextRow /\ UNCHANGED <<crontab, seeder>> BY <1>9 DEF RememberLine
  <2>2. daemon'.pc # "line" BY <1>1, <2>1, GoesOn
  <2>3. CASE Fails /\ UNCHANGED reg BY <1>6, <2>1, <2>2, <2>3
  <2>4. CASE reg' = [reg EXCEPT ![Here].line = Row[Here].schedule]
    <3>1. Here \in Cron /\ crontab[Here].expr = Row[Here].schedule
      BY <1>1, <2>1 DEF Typed, Busy, LineIInv, LineAtHand
    <3>2. reg'[Here].line = Row[Here].schedule /\ \A a \in Activity \ {Here} : reg'[a] = reg[a]
      BY <1>1, <1>5, <2>4, <3>1 DEF Typed, RegRow
    <3>3. LineAtHand' BY <2>2 DEF LineAtHand
    <3>4. SeedingIsCounted' BY <1>2, <2>1 DEF LineIInv, SeedingIsCounted
    <3>5. LostLineHasCause' BY <1>2, <1>5, <2>1, <3>1, <3>2 DEF LineIInv, LostLineHasCause, LostLine
    <3> QED BY <1>1, <3>3, <3>4, <3>5 DEF LineIInv
  <2> QED BY <1>9, <2>3, <2>4 DEF RememberLine
<1>10. CASE \E a \in Activity : Edit(a)
  <2>1. UNCHANGED <<crontab, daemon, seeder>> BY <1>10 DEF Edit
  <2> QED BY <1>1, <1>6, <1>10, <2>1, PeopleType
<1>11. CASE \E a \in Activity : Seed(a)
  <2>1. CASE \E a \in Activity : SeedUpsert(a)
    <3>1. seeder # NoSeed /\ seeder' = NoSeed /\ UNCHANGED <<crontab, daemon>> BY <2>1 DEF SeedUpsert, NoSeed
    <3>2. spent'["seed"] > 0 BY <1>2, <3>1 DEF LineIInv, SeedingIsCounted
    <3> QED BY <1>1, <3>1, <3>2 DEF LineIInv, LineAtHand, Row, Here, SeedingIsCounted, LostLineHasCause
  <2>2. CASE \E a \in Activity : \E s : SeedReads(a, s)
    <3>1. UNCHANGED <<crontab, daemon, reg>> /\ spent'["seed"] > 0 BY <1>4, <2>2 DEF SeedReads
    <3> QED BY <1>6, <3>1
  <2> QED BY <1>11, <2>1, <2>2 DEF Seed, SeedTimer, SeedCron, SeedLoop, SeedRecurring
<1>12. CASE \/ \E a \in Unit : Fire(a) \/ Exit(a)
            \/ \E a \in Recurring : Claim(a) \/ Finish(a) \/ Rearm(a)
            \/ Tick \/ UNCHANGED vars
  <2>1. UNCHANGED <<crontab, daemon, reg, seeder>> BY <1>12 DEF Fire, Exit, Claim, Finish, Rearm, Tick, vars
  <2> QED BY <1>6, <2>1
<1> QED BY <1>7, <1>8, <1>9, <1>10, <1>11, <1>12 DEF Next, Daemon

\* The daemon rewrites a crontab line and remembers it in two writes, from rows
\* it read earlier, and people edit meanwhile: a row comes to remember another
\* line only by a failing call or a seeding.
THEOREM LinesAreRemembered == Spec => []LostLineHasCause
<1>1. Init => LineIInv
  <2> SUFFICES ASSUME Init PROVE LineIInv OBVIOUS
  <2>1. \A a \in Cron : ~LostLine(a) BY DEF Init, LostLine, Fresh, Activity
  <2> QED BY <2>1, TypedFromInit DEF Init, LineIInv, LineAtHand, AtRest, SeedingIsCounted, LostLineHasCause
<1> QED BY <1>1, LinesKeep, PTL DEF Spec, LineIInv

-----------------------------------------------------------------------------
(* The run history *)

\* The rows the daemon has still to handle in this tick, and that it read its
\* last_run_at for.
Ahead == IF daemon.pc = "loop" THEN {} ELSE IF daemon.pc = "unpause" THEN Activity ELSE daemon.todo

\* Nobody else writes last_run_at, so what it read of those rows is not stale.
NotStale == \A a \in Ahead : Row[a].lastRun = reg[a].lastRun

\* The history ends at last_run_at, and no later than the latest run.
UpToDate ==
  \A a \in Unit : /\ reg[a].lastRun <= svc[a].start
                  /\ \A i \in DOMAIN runs[a] : runs[a][i] <= reg[a].lastRun

HistoryIInv == Typed /\ NotStale /\ UpToDate /\ RunsAreRecordedOnce

LEMMA HistoryAside ==
  ASSUME HistoryIInv, [Next]_vars, UNCHANGED runs, NotStale',
         \A a \in Activity : reg'[a].lastRun = reg[a].lastRun,
         \A a \in Unit : /\ svc[a].start <= svc'[a].start
                         /\ svc'[a].start = svc[a].start => (svc[a].ended => svc'[a].ended)
  PROVE  HistoryIInv'
<1>1. Typed /\ Typed' BY EveryStepTypes DEF HistoryIInv
<1>2. ASSUME NEW a \in Unit
      PROVE  /\ reg[a].lastRun \in Nat /\ svc[a].start \in Nat /\ svc'[a].start \in Nat
             /\ runs[a] \in Seq(Nat) /\ \A i \in DOMAIN runs[a] : runs[a][i] \in Nat
             /\ reg'[a].lastRun = reg[a].lastRun /\ runs'[a] = runs[a]
  BY <1>1, <1>2 DEF Typed, RegRow, Run, Activity
<1>3. UpToDate' BY <1>2 DEF HistoryIInv, UpToDate
<1>4. spent["fault"] <= spent'["fault"] /\ spent["fault"] \in Nat /\ spent'["fault"] \in Nat
  BY <1>1, EventsCount DEF Typed, Event
<1>5. RunsAreRecordedOnce'
  <2>1. ASSUME NEW a \in Unit, NEW i \in DOMAIN runs[a], runs[a][i] = svc'[a].start PROVE svc'[a].ended
    <3>1. runs[a][i] <= svc[a].start BY <1>2 DEF HistoryIInv, UpToDate
    <3>2. svc'[a].start = svc[a].start BY <1>2, <2>1, <3>1
    <3> QED BY <2>1, <3>2 DEF HistoryIInv, RunsAreRecordedOnce
  <2>2. ASSUME NEW a \in Unit, NEW i \in DOMAIN runs[a], NEW j \in DOMAIN runs[a], i < j
        PROVE  \/ runs[a][i] < runs[a][j]
               \/ runs[a][i] = runs[a][j] /\ spent'["fault"] > 0
    BY <1>4, <2>2 DEF HistoryIInv, RunsAreRecordedOnce
  <2> QED BY <2>1, <2>2 DEF RunsAreRecordedOnce
<1> QED BY <1>1, <1>3, <1>5 DEF HistoryIInv

Copies(n, s) == [i \in 1..n |-> s]

Continues(new, old, s, n) ==
  /\ \A i \in DOMAIN new : new[i] <= s
  /\ \A i, j \in DOMAIN new : i < j =>
       \/ i \in DOMAIN old /\ j \in DOMAIN old /\ new[i] = old[i] /\ new[j] = old[j]
       \/ new[i] < new[j]
       \/ new[i] = new[j] /\ n = 2

\* A history whose new entries are later than the old ones, and alike.
LEMMA Appended ==
  ASSUME NEW old \in Seq(Nat), NEW s \in Nat, NEW n \in {1, 2}, \A i \in DOMAIN old : old[i] < s,
         NEW new, new = old \o Copies(n, s)
  PROVE  Continues(new, old, s, n)
<1>1. Copies(n, s) \in Seq(Nat) /\ Len(Copies(n, s)) = n BY DEF Copies
<1>2. new \in Seq(Nat) /\ Len(new) = Len(old) + n /\ Len(old) \in Nat /\ DOMAIN new = 1..Len(new)
      /\ DOMAIN old = 1..Len(old)
  BY <1>1
<1>3. \A i \in DOMAIN old : i \in DOMAIN new /\ new[i] = old[i] BY <1>1, <1>2
<1>4. \A i \in DOMAIN new \ DOMAIN old : new[i] = s /\ i \in {Len(old) + 1, Len(old) + 2} /\ i <= Len(old) + n
  BY <1>1, <1>2 DEF Copies
<1>5. \A i \in DOMAIN old : old[i] \in Nat OBVIOUS
<1>6. \A i \in DOMAIN new : new[i] <= s BY <1>3, <1>4, <1>5
<1>7. ASSUME NEW i \in DOMAIN new, NEW j \in DOMAIN new, i < j
      PROVE  \/ i \in DOMAIN old /\ j \in DOMAIN old /\ new[i] = old[i] /\ new[j] = old[j]
             \/ new[i] < new[j]
             \/ new[i] = new[j] /\ n = 2
  <2>1. CASE j \in DOMAIN old
    <3>1. i \in DOMAIN old BY <1>2, <1>7, <2>1
    <3> QED BY <1>3, <2>1, <3>1
  <2>2. CASE i \in DOMAIN old /\ j \notin DOMAIN old BY <1>3, <1>4, <2>2
  <2>3. CASE i \notin DOMAIN old /\ j \notin DOMAIN old
    <3>1. i = Len(old) + 1 /\ j = Len(old) + 2 BY <1>2, <1>4, <1>7, <2>3
    <3>2. n = 2 BY <1>2, <1>4, <2>3, <3>1
    <3> QED BY <1>4, <2>3, <3>2
  <2>4. CASE i \notin DOMAIN old /\ j \in DOMAIN old BY <1>2, <1>7, <2>4
  <2> QED BY <2>1, <2>2, <2>3, <2>4
<1> QED BY <1>6, <1>7 DEF Continues

LEMMA PollRecords == ASSUME HistoryIInv, PollRunHistory PROVE HistoryIInv'
<1>1. Typed /\ Typed' /\ [Next]_vars BY EveryStepTypes DEF HistoryIInv, Next, Daemon
<1>2. daemon.pc = "poll" /\ NextRow /\ UNCHANGED <<unit, crontab, task, svc, seeder, now>>
  BY DEF PollRunHistory
<1>3. Here \in Unit /\ Here \in daemon.todo
  BY <1>1, <1>2, HereIsAhead DEF Typed, Busy, Activity
<1>4. Ahead' \subseteq daemon.todo \ {Here} /\ (Ahead' # {} => daemon'.rows = daemon.rows)
  BY <1>1, <1>2, GoesOn DEF Ahead
<1> DEFINE s == svc[Here].start
<1>5. /\ reg[Here].lastRun \in Nat /\ s \in Nat /\ runs[Here] \in Seq(Nat)
      /\ \A i \in DOMAIN runs[Here] : runs[Here][i] \in Nat
  BY <1>1, <1>3 DEF Typed, RegRow, Run, Activity
<1>6. CASE UNCHANGED <<reg, runs>>
  <2>1. NotStale' BY <1>2, <1>4, <1>6 DEF HistoryIInv, NotStale, Ahead, Row
  <2>2. \A a \in Unit : svc[a].start <= svc'[a].start BY <1>1, <1>2 DEF Typed, Run
  <2> QED BY <1>1, <1>2, <1>6, <2>1, <2>2, HistoryAside
<1>7. ASSUME NEW n \in {1, 2}, News(Here), n = 2 => Fails,
             reg' = [reg EXCEPT ![Here].lastRun = s],
             runs' = [runs EXCEPT ![Here] = @ \o [i \in 1..n |-> s]]
      PROVE  HistoryIInv'
  <2>1. s > reg[Here].lastRun /\ svc[Here].ended
    BY <1>2, <1>3, <1>7 DEF News, HistoryIInv, NotStale, Ahead
  <2>2. /\ reg'[Here].lastRun = s /\ runs'[Here] = runs[Here] \o [i \in 1..n |-> s]
        /\ \A a \in Activity \ {Here} : reg'[a] = reg[a]
        /\ \A a \in Unit \ {Here} : runs'[a] = runs[a]
    BY <1>1, <1>3, <1>7 DEF Typed, RegRow, Activity
  <2> HIDE DEF s
  <2>3. NotStale'
    <3>1. \A a \in Ahead' : a \in Activity \ {Here} /\ a \in Ahead /\ daemon'.rows = daemon.rows
      BY <1>1, <1>2, <1>4 DEF Ahead, Typed, DaemonTyped
    <3> QED BY <2>2, <3>1 DEF HistoryIInv, NotStale, Row
  <2>4. \A i \in DOMAIN runs[Here] : runs[Here][i] < s
    <3>1. \A i \in DOMAIN runs[Here] : runs[Here][i] <= reg[Here].lastRun BY <1>3 DEF HistoryIInv, UpToDate
    <3> QED BY <1>5, <2>1, <3>1
  <2>5. Continues(runs'[Here], runs[Here], s, n)
    <3>1. runs'[Here] = runs[Here] \o Copies(n, s) BY <2>2 DEF Copies
    <3> QED BY <1>5, <2>4, <3>1, Appended
  <2>6. UpToDate'
    <3>1. s <= svc'[Here].start BY <1>2, <1>5 DEF s
    <3> QED BY <1>2, <1>3, <2>2, <2>5, <3>1 DEF HistoryIInv, UpToDate, Activity, Continues
  <2>7. RunsAreRecordedOnce'
    <3>1. spent["fault"] > 0 => spent'["fault"] > 0
      BY <1>1, EventsCount DEF Typed, Event
    <3>2. n = 2 => spent'["fault"] > 0 BY <1>1, <1>7, SpendCounts DEF Fails, Event
    <3>3. ASSUME NEW a \in Unit, NEW i \in DOMAIN runs'[a], NEW j \in DOMAIN runs'[a], i < j
          PROVE  \/ runs'[a][i] < runs'[a][j]
                 \/ runs'[a][i] = runs'[a][j] /\ spent'["fault"] > 0
      <4>1. CASE a # Here
        <5>1. runs'[a] = runs[a] BY <2>2, <4>1
        <5> QED BY <3>1, <3>3, <5>1 DEF HistoryIInv, RunsAreRecordedOnce
      <4>2. CASE a = Here BY <1>3, <2>5, <3>1, <3>2, <3>3, <4>2 DEF Continues, HistoryIInv, RunsAreRecordedOnce
      <4> QED BY <4>1, <4>2
    <3>4. ASSUME NEW a \in Unit, NEW i \in DOMAIN runs'[a], runs'[a][i] = svc'[a].start PROVE svc'[a].ended
      <4>1. CASE a # Here BY <1>2, <2>2, <3>4, <4>1 DEF HistoryIInv, RunsAreRecordedOnce
      <4>2. CASE a = Here BY <1>2, <2>1, <4>2
      <4> QED BY <4>1, <4>2
    <3> QED BY <3>3, <3>4 DEF RunsAreRecordedOnce
  <2> QED BY <1>1, <2>3, <2>6, <2>7 DEF HistoryIInv
<1>8. \/ UNCHANGED <<reg, runs>>
      \/ \E n \in {1, 2} : /\ News(Here) /\ (n = 2 => Fails)
                          /\ reg' = [reg EXCEPT ![Here].lastRun = s]
                          /\ runs' = [runs EXCEPT ![Here] = @ \o [i \in 1..n |-> s]]
  BY DEF PollRunHistory
<1> QED BY <1>6, <1>7, <1>8

LEMMA HistoryKeeps == ASSUME HistoryIInv, [Next]_vars PROVE HistoryIInv'
<1>1. Typed /\ Typed' BY EveryStepTypes DEF HistoryIInv
<1>2. Unit \subseteq Activity BY DEF Activity
<1>3. \A a \in Unit : svc[a].start \in Nat BY <1>1 DEF Typed, Run
\* What leaves last_run_at and the runs alone, and handles a row or none.
<1>4. ASSUME UNCHANGED <<runs, svc>>, \A a \in Activity : reg'[a].lastRun = reg[a].lastRun,
             \A a \in Ahead' : a \in Ahead /\ daemon'.rows[a].lastRun = daemon.rows[a].lastRun
      PROVE  HistoryIInv'
  <2>1. Ahead \subseteq Activity BY <1>1 DEF Ahead, Typed, DaemonTyped
  <2>2. NotStale' BY <1>4, <2>1 DEF HistoryIInv, NotStale, Row
  <2>3. \A a \in Unit : svc[a].start <= svc'[a].start BY <1>3, <1>4
  <2> QED BY <1>2, <1>4, <2>2, <2>3, HistoryAside
<1>5. CASE TickReads
  <2>1. UNCHANGED <<reg, runs, svc>> /\ daemon'.rows = reg BY <1>5 DEF TickReads
  <2>2. NotStale' BY <2>1 DEF NotStale, Row
  <2>3. \A a \in Unit : svc[a].start <= svc'[a].start BY <1>3, <2>1
  <2> QED BY <1>2, <2>1, <2>2, <2>3, HistoryAside
<1>6. CASE Unpause
  <2> DEFINE rest == daemon.todo \ {Here}
             After(rows) == [daemon EXCEPT !.pc = IF rest = {} THEN "row" ELSE @,
                                           !.todo = IF rest = {} THEN Activity ELSE rest, !.rows = rows]
  <2>1. UNCHANGED <<runs, svc>> /\ daemon.pc = "unpause" BY <1>6 DEF Unpause
  <2>2. daemon.rows \in [Activity -> RegRow] /\ reg \in [Activity -> RegRow] BY <1>1, <2>1 DEF Typed, DaemonTyped
  <2>3. \E rows \in {daemon.rows, Freed(daemon.rows, Here)} : daemon' = After(rows) BY <1>6 DEF Unpause, Row, Freed
  <2>4. daemon'.rows \in {daemon.rows, Freed(daemon.rows, Here)} BY <1>1, <2>3 DEF Typed, DaemonTyped
  <2>5. \A a \in Activity : daemon'.rows[a].lastRun = daemon.rows[a].lastRun BY <2>2, <2>4, UnpausedKeeps
  <2>6. reg' \in {reg, Freed(reg, Here)} BY <1>6 DEF Unpause, Freed
  <2>7. \A a \in Activity : reg'[a].lastRun = reg[a].lastRun BY <2>2, <2>6, UnpausedKeeps
  <2>8. Ahead' \subseteq Activity /\ Ahead = Activity BY <1>1, <2>1 DEF Ahead, Typed, DaemonTyped
  <2> QED BY <1>4, <2>1, <2>5, <2>7, <2>8
<1>7. CASE ReconcileSystemd
  <2>1. daemon.pc = "row" /\ daemon' = [daemon EXCEPT !.pc = "poll"] /\ UNCHANGED <<runs, svc, reg>>
    BY <1>7 DEF ReconcileSystemd
  <2>2. daemon'.pc = "poll" /\ daemon'.todo = daemon.todo /\ daemon'.rows = daemon.rows
    BY <1>1, <2>1 DEF Typed, DaemonTyped
  <2>3. Ahead' = Ahead BY <2>1, <2>2 DEF Ahead
  <2> QED BY <1>4, <2>1, <2>2, <2>3
<1>8. CASE PollRunHistory BY <1>8, PollRecords
<1>9. CASE ReconcileCron \/ RememberLine \/ ReadTask \/ PatchTask
  <2>1. daemon.pc \in {"row", "line", "patch"} /\ UNCHANGED <<runs, svc>>
    BY <1>9 DEF ReconcileCron, RememberLine, ReadTask, PatchTask
  <2>2. UNCHANGED reg \/ reg' = [reg EXCEPT ![Here].line = Row[Here].schedule]
    BY <1>9 DEF ReconcileCron, RememberLine, ReadTask, PatchTask
  <2>3. \A a \in Activity : reg'[a].lastRun = reg[a].lastRun
    <3>1. ASSUME NEW v, reg' = [reg EXCEPT ![Here].line = v]
          PROVE  \A a \in Activity : reg'[a].lastRun = reg[a].lastRun
      BY <1>1, <3>1 DEF Typed, RegRow
    <3> QED BY <2>2, <3>1
  <2>4. NextRow \/ daemon' = [daemon EXCEPT !.pc = "line"] \/ \E s : daemon' = [daemon EXCEPT !.pc = "patch", !.seen = s]
    BY <1>9 DEF ReconcileCron, RememberLine, ReadTask, PatchTask
  <2>5. \A a \in Ahead' : a \in Ahead /\ daemon'.rows = daemon.rows
    <3>1. CASE NextRow BY <1>1, <2>1, <3>1, GoesOn DEF Ahead
    <3>2. CASE daemon' = [daemon EXCEPT !.pc = "line"] BY <1>1, <2>1, <3>2 DEF Ahead, Typed, DaemonTyped
    <3>3. CASE \E s : daemon' = [daemon EXCEPT !.pc = "patch", !.seen = s]
      BY <1>1, <2>1, <3>3 DEF Ahead, Typed, DaemonTyped
    <3> QED BY <2>4, <3>1, <3>2, <3>3
  <2> QED BY <1>4, <2>1, <2>3, <2>5
<1>10. CASE Restart
  <2>1. UNCHANGED <<runs, svc, reg>> /\ Ahead' = {} BY <1>10 DEF Restart, AtRest, Ahead
  <2> QED BY <1>4, <2>1
<1>11. CASE \E a \in Activity : Edit(a)
  <2>1. UNCHANGED <<runs, svc, daemon>> BY <1>11 DEF Edit
  <2>2. UNCHANGED Ahead BY <2>1 DEF Ahead
  <2> QED BY <1>1, <1>4, <1>11, <2>1, <2>2, PeopleType
<1>12. CASE \E a \in Activity : Seed(a)
  <2>1. UNCHANGED <<runs, svc, daemon>>
        /\ (UNCHANGED reg \/ \E a \in Activity, s \in Schedule :
              reg' = Seeded(reg, a, s))
    <3>1. CASE \E a \in Activity : SeedUpsert(a)
      <4>1. seeder.schedule \in Schedule BY <1>1, <3>1 DEF SeedUpsert, Typed, SeederTyped, NoSeed
      <4> QED BY <3>1, <4>1 DEF SeedUpsert, Seeded
    <3>2. CASE \E a \in Activity : \E s : SeedReads(a, s) BY <3>2 DEF SeedReads
    <3> QED BY <1>12, <3>1, <3>2 DEF Seed, SeedTimer, SeedCron, SeedLoop, SeedRecurring
  <2>2. UNCHANGED Ahead BY <2>1 DEF Ahead
  <2>3. reg \in [Activity -> RegRow] BY <1>1 DEF Typed
  <2>4. \A a \in Activity : reg'[a].lastRun = reg[a].lastRun BY <2>1, <2>3, SeededIsRow
  <2> QED BY <1>4, <2>1, <2>2, <2>4
<1>13. CASE \E a \in Unit : Fire(a) \/ Exit(a)
  <2>1. UNCHANGED <<runs, reg, daemon>> BY <1>13 DEF Fire, Exit
  <2>2. NotStale' BY <2>1 DEF HistoryIInv, NotStale, Ahead, Row
  <2>3. \A a \in Unit : /\ svc[a].start <= svc'[a].start
                        /\ svc'[a].start = svc[a].start => (svc[a].ended => svc'[a].ended)
    <3>1. CASE \E a \in Unit : Fire(a)
      <4>1. PICK a \in Unit : svc' = [svc EXCEPT ![a] = [start |-> svc[a].start + 1, ended |-> FALSE]]
        BY <3>1 DEF Fire
      <4> QED BY <1>1, <1>3, <4>1 DEF Typed
    <3>2. CASE \E a \in Unit : Exit(a)
      <4>1. PICK a \in Unit : svc' = [svc EXCEPT ![a].ended = TRUE] BY <3>2 DEF Exit
      <4> QED BY <1>1, <1>3, <4>1 DEF Typed, Run
    <3> QED BY <1>13, <3>1, <3>2
  <2> QED BY <1>2, <2>1, <2>2, <2>3, HistoryAside
<1>14. CASE (\E a \in Recurring : Claim(a) \/ Finish(a) \/ Rearm(a)) \/ Tick \/ UNCHANGED vars
  <2>1. UNCHANGED <<runs, reg, svc, daemon>> BY <1>14 DEF Claim, Finish, Rearm, Tick, vars
  <2>2. UNCHANGED Ahead BY <2>1 DEF Ahead
  <2> QED BY <1>4, <2>1, <2>2
<1> QED BY <1>5, <1>6, <1>7, <1>8, <1>9, <1>10, <1>11, <1>12, <1>13, <1>14 DEF Next, Daemon

\* The daemon compares with a last_run_at it read at the start of its tick, and
\* its call may be made twice: the history still has every run once, in order
\* and after its end, and twice at most where an answer was lost.
THEOREM RecordedOnce == Spec => []RunsAreRecordedOnce
<1>1. Init => HistoryIInv
  <2> SUFFICES ASSUME Init PROVE HistoryIInv OBVIOUS
  <2>1. \A a \in Unit : runs[a] = <<>> /\ reg[a].lastRun = 0 /\ svc[a].start = 0
    BY DEF Init, Fresh, Activity
  <2>2. UpToDate /\ RunsAreRecordedOnce BY <2>1 DEF UpToDate, RunsAreRecordedOnce
  <2> QED BY <2>2, TypedFromInit DEF Init, HistoryIInv, NotStale, Ahead, AtRest
<1> QED BY <1>1, HistoryKeeps, PTL DEF Spec, HistoryIInv
=============================================================================
