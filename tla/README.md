# az-lab: verification of the lab's queue, gates, auditors and jobs

TLA+ models, TLC runs and TLAPS proofs for the parts of az-lab in which several
programs share state, or one program must survive its own failures. Source paths
are relative to `src/`.

## 1. The system

az-lab is a home lab run by agents. Its programs meet in Postgres tables, served by
Supabase's REST interface, of which `task_queue` is the busiest; in a few state
files; and in what they tell people on Discord.

| component | state it keeps | operations | talks to |
|---|---|---|---|
| **Argus** `infrastructure/task-queue/argus.py` | `_running`: task → thread, process, start time | fetch, claim, spawn worker, worker run, stall monitor, sweeps every 5 min | the queue; `claude` subprocesses |
| **poller** `infrastructure/task-queue/poll_queue.py` | none between runs | sweeps, scan (deadline, prerequisites, idempotency guard, preflight), claim, run, record, retry; tasks made of goals; the trace of a run | the queue, goals, episodes |
| **Sage** `infrastructure/task-queue/sage.py` | none between cycles | pre-dispatch tagging and safety scan; post-execution evaluation | the queue |
| **row triggers** `services/memory-mcp-server/migrations` | `premise_audit.claims`, `.verdicts`, columns of the row | insert gate, claim registration, update guard, retired-status coercion, archive stamp, `premise_decide`, `premise_ack` | every writer of the queue |
| **recurring producer** `upsert_recurring_task` (154) | the recurring row | re-arm | the queue |
| **scheduled-control daemon** `scripts/scheduled_control_daemon.py`, `scheduled_activity_seed.py` | `scheduled_activity` | mirror the registry to timers, crontab, loops and recurring rows; record runs; seed the registry | systemd, crontab, the queue |
| **memory forgetting** `memory_lifecycle_pass.py`, `contradiction_scan.py`, `forget_review_worker.py`, migrations 052–148 | memories, links, audit, conflicts | retire, supersede, scan, adjudicate, revert, guard | one another, through the tables |
| **memory distillation** `episodic_distill.py` | tags on memories, summaries | nightly phases 0–2, weekly phase 3 | the same memories |
| **state memory** `refresh_state_memory.py`, backfill in `src/index.ts` | one memory, part prose and part rendered | refresh, splice, embed | people who edit it |
| **monthly digests** `monthly_research_consolidation.py` | none | find months without a digest, queue a task for each | the queue, the research notes |
| **episodes** `infrastructure/episode-lifecycle`, migrations 116, 117 | `agent_episodes`, a state file | start, end, attach, reap, alert | poller, Discord |
| **container health, unit integrity** | a state file each | audit, alert on change | podman, systemd, Discord |
| **git durability** | a state file | audit, count, alert, escalate into the queue | git, the queue, Discord |
| **backups** `scripts/r2_backup.py` | bucket, `backup_status` | copy, prune, record, look for overdue ones, file tasks | the queue |
| **archive of failed runs** `scripts/archive_failed_runs.py` | cursor and month, CSV objects | fetch, append, pack | the registry's audit |
| **Home Assistant updates** `scripts/ha_auto_update.py` | none | refresh, apply, restart, report | Home Assistant |
| **people** Jeff, Iris | – | reply, send back, approve, cancel, reopen, rule, edit, commit | everything |
| **watchdog** `services/watchdog/src` | `state.json`, `breaker.json` | heartbeat, canary, hang, channel and login-wall checks; restart under a circuit breaker | systemd, tmux, Discord |
| **message relay** `services/message-relay` | `seen`, `workQueue`, `repliesByThread` | realtime feed, catch-up, FIFO pump, hop cap, poller start | `agent_messages`, `claude` |
| **ingest worker** `services/task-queue-worker` | a queue with retries and a dead-letter queue | accept, insert, retry | the queue |

`PROJECT.json` lists the rest (mail, probes, retrieval evaluation, configuration).

### What makes each part correct, and what is hard

**Queue.** One run per row at a time; a row is worked on only if it was open and
its gates (due time, prerequisites, premise ruling) allow it; finished work is not
rerun; a row waiting for a person is left to that person; a row whose executor
died is recovered; nothing open is forgotten; a failed run costs an attempt. It is
hard because three daemons and several people write to one table with single-row
PATCHes, of which only the claims compare the status first; each acts on what it
read some calls ago; a call may be applied and its answer lost; a stalled worker is
given up but goes on; threads and processes die with the service.

**Gate.** A gated row stays parked, tagged and visible until one of four auditors
rules. The promise rests on the order of five triggers, and any caller may write
any column.

**Goals.** A goal has a task at a time, and a due one gets it in the end. The question
"has it a task?" and the insertion are two calls; Argus and the poller both make
them, hold nothing against each other, and may die in between. What the code keeps
is at most one task for each of the two processes.

**Control daemon.** The host mirrors the registry, and each run is recorded once.
A tick acts on rows it read first, next to people, a seeder and failing calls.

**Memory.** What leaves retrieval is on record and can be put back, is cut off from
activation, and is judged; a memory is marked consolidated only when a summary of its
cluster has been written. Four workers, five statements that darken a row and people
interleave.

**Auditors.** Silence means nothing has changed, and a message that something has;
what was last told becomes true once the host rests; work that stays is escalated.
Each run reads a moving host in several calls and may die before it stores what it
told.

**Jobs.** The last good copy of a backup goes only for a newer one, a filed failure
stays on file, the prose a refresh has read survives it, and the job gets done
although calls fail and runs are killed at any step.

**Watchdog, relay, ingest worker** (not modelled yet). At most `maxRestartsHour`
restarts an hour, none behind a login wall; a message handled at most once per
process and a thread answered a bounded number of times; no accepted task lost.

## 2. Plan

1. *(done)* `TaskQueue`, `TaskLease`; `PremiseGate`, `EscrowGate`; their proofs.
2. *(done)* What feeds the queue: `GoalQueue`, composed with the gate; one theorem.
3. *(done)* `ScheduledControl`; `MemoryForget`, `MemoryDistill`.
4. *(done)* The auditors over one abstract latch: `GitDurability`,
   `ContainerHealth`, `UnitSource`, `Episodes`, `AlertLatch`.
5. *(done)* The timers' jobs: `Backups`, `FailureArchive`, `HomeAssistantUpdate`,
   `StateRow`, `ResearchDigest`.
6. `RestartBreaker` and `Watchdog`: breaker file, detectors, restart, grace, reset
   file; an abstract rate limiter that the breaker implements.
7. `MessageRelay`: table of messages, feed, catch-up, `seen`, pump, crash; an
   abstract at-most-once inbox. `TaskIngest`: at-least-once consumer and dead
   letters.
8. More of `TaskQueue`: `runs[]`, `claim_task`, the accepted tag across Sage's
   write, the snapshot behind a claim.
9. *(done)* Theorems: every safety property that a passing run checks, and the
   refinements of `TaskLease`, `EscrowGate` and `AlertLatch`.

## 3. Modules

| module | what it is | models |
|---|---|---|
| `TaskQueue` | the table and its daemons, and their properties | Argus, poller, Sage, recurring rows |
| `TaskLease` | abstract: a row is handed out only while open, handing it out closes it, one row per executor | |
| `PremiseGate` | the triggers and the two ruling functions | row triggers |
| `EscrowGate` | abstract: a deposit stays until somebody entitled rules | |
| `GoalQueue` | goals, milestones and the tasks made of them, by two processes | `auto_queue_from_goals` (called by Argus and by the poller), `update_goal_notes` |
| `ScheduledControl` | the registry, systemd, crontab, recurring rows, daemon, seeder | scheduled-control daemon |
| `MemoryForget` | memories, links, audit, conflicts and their workers | memory forgetting |
| `MemoryDistill` | the nightly and weekly jobs | memory distillation |
| `GitDurability` | one auditor run after another over work trees | git durability |
| `ContainerHealth`, `UnitSource` | containers against timers; deployed files against the repository | container health, unit integrity |
| `Episodes` | traces, sweep | episode lifecycle |
| `AlertLatch` | abstract: every change is told and nothing else; a message may be missing or repeated only once a message or a state file was lost, until the next report that is filed | |
| `Backups` | runs, retention, status rows, tasks | backups |
| `FailureArchive` | cursor, CSV of the month, rotation | archive of failed runs |
| `HomeAssistantUpdate` | updates in order, restarts, report | Home Assistant updates |
| `StateRow` | block and prose of one memory, backfill | state memory |
| `ResearchDigest` | notes, digests, their tasks, the calendar | monthly digests |
| `Intake`, `HostAudits`, `HostJobs` | compositions of parts that share no state | |
| `MC*` | constants for TLC | |
| `*Proofs` | theorems, section 5 | |

One call to a service (REST, podman, systemctl, git, ssh) is one atomic step; what
a program computes between two calls belongs to the step before or after. A call
that fails, with its effect or without, takes the error path the code has there. A
`pc` in a record named after the program (`run`, `poller`, `daemon`, `job`, ...) says
where it is; the record's other fields are the local variables that outlive a call.

### TaskQueue

*Coarser steps*, and why they lose nothing that the properties see:

- `ArgusStall` judges and kills in one step: both are local to the loop, and the
  worker meets the kill only through its process.
- A sweep's two reads (age, then activity) are one, followed by the write as a step
  of its own; the race that matters is between the last read and the write.
- Notifications, activity log and heartbeats change no row and are left out, as is
  `sweep_stale_tasks`, which only reports.

*Lost calls.* `Acked(r)` is a PATCH whose answer arrives; `Failed(r)` one that raises
in the caller, applied or not. A worker goes on without its `in_progress_agent`, a
finished run whose record fails is marked failed, a claim that raises is dropped,
Sage's cycle ends, a sweep goes on to the next row.

*State.* `row` keeps status, target, whether a result is stored, the tags
`premise-accepted` and `sage-evaluated`, whether a verdict exists, and
`attempt_count`. `running` is `_running`, with `worker` for the thread and `proc` for
the Popen handle. `exec[e].pc` follows `_worker` (for the poller, the second half of
`main`): `claimed`, `started`, `running` (the process exists), `exited`, `failing`
(between the two calls of `mark_failed`), `closing`. `argus.pc` follows one iteration
of its `main`, `poller.pc` one process, `sage` one cycle with the snapshot it read.

*Time.* `Tick` moves `now`, which due times and deadlines are compared with. Ages are
not counted: a stall, or a sweep that takes a live run for stuck, is an event that
`Budget` allows a number of times; a row with nobody on it gets old by waiting. What
is ordered by age is: `Created` is the order of `created_at`, and a sweep of the
waiting rows looks at the first `SweepLimit` (50 in the code) of them. The sweep for
stuck rows reads a hundred, more than are ever in flight, and is not cut.

*Left free.* What a run returns, Sage's verdict, whether Sage finds a row dangerous
(`Risky`), whether preflight finds a reason (`Misfiled`), which rows are gated.

*Gate.* `Movable` stands for the update guard. `PremiseGate` shows that a registered
row carries its tag until ruled on, so the guard's exemption (a result and no tag)
never applies; what is left of the guard for a parked row is what `Movable` says.

### PremiseGate and GoalQueue

In `PremiseGate` an action is one statement; it runs its triggers in name order and
either applies or raises (a stutter). `Insert` and `Update` take any row the caller
may write, the retired status included. `Stamped` is the archive trigger, `LetThrough`
the guard, `Ruled` what `premise_decide` and `premise_ack` share: the verdict is
stored first, which is why the guard lets the release through.

In `GoalQueue` a poll with nothing to claim goes `PromoteRead`, `Promote`, `Due`,
`Look` … `Post`, `Patch`, then the same for milestones. There is one such run of Argus
and one of the poller, each with its own list and place in it, and their calls
interleave. `Limit` goals are fetched, by priority. A goal's tasks are counted by
what `_has_recent_pending_task` counts. The six hours of `last_queued_at` are `hot`:
`new`, then `old` once a poll has seen it, since six hours always hold a poll.
`Finish` starts `update_goal_notes`, which reads and writes in two calls.

### ScheduledControl

`TickReads` takes every row in one read, as `main` does, and `Here` goes through them by
name, with one action for each call of the four reconcilers. A unit's state is
systemd's view: `dropin` is the file, `known` what the manager has loaded, so a failed
`daemon-reload` is visible. Runs of services are numbered by their start. The seeder
reads a schedule in one step and upserts in another.

### MemoryForget and MemoryDistill

A row of `MemoryForget` is the five columns that decide whether recall returns it.
The statements that darken or restore a row include their triggers (audit, edge
flooring, guard), so one action is one statement with all it sets off. An edge is
`strong`, `floored` or `weak`: what matters of a strength is whether it carries
activation and whether a restoration may give it back. The reviewer's model is a
free verdict; its fetch is limited and ordered by age. A conflict remembers when it
was filed, as a rank, since the scan's sweep takes the `SweepLimit` oldest that are
open, those it is going to skip included.

`MemoryDistill` writes summaries as sets of (memory, version): what a summary says is
which texts went into it. `Clusters` goes through a set of memories in fetch order: the
first gathers those like it, and the rest follow. `Batches` is the fallback of phase 0,
`Batch` memories at a time. `Readings` is what a summariser looks at of a cluster: a
model is shown the first `ModelReads`; without a model `TopReads` of them are put
together, any, since which were read most is not in the model. All members are marked
whichever were looked at, as in the code. A name is what is left of a memory's when the
dates are out, so two clusters may meet in one name, as they do in the code.

### The auditors

Each has `run`, the state file (`seen`, or `state` in `GitDurability`), what Discord
last heard (`told`) and `lost`: since the two last agreed a message or a state file
was lost. A crash between the message and the file leaves `lost` set, and may leave a
torn file, which reads as an empty one; the next report that comes through and is
filed clears it. A run of `ContainerHealth` reads timers, then containers, and posts,
then writes. A run of `UnitSource` takes the index of the repository, and then unit by
unit hashes the deployed file and the files that the index names; files change, appear
and go in between. A run of `Episodes` reaps, then reads the health view, then posts,
then writes; a session is bound to the row its first recall was attached to, and each
later recall bumps that row, however old it is. `GitDurability` goes repository by
repository, keeps a count for each finding, and files tasks one call at a time; a task
is `open` (in a status `OPEN_TASK_STATUSES` names) or `away`.

### The jobs

`Backups` takes the list in order: copy, prune, record, or raise and tell; then the
watchdog row by row. Copies are ages in nights, good ones and `blank` ones: a table
that cannot be read is uploaded empty and counts as a success. What is wrong with a
source is `source` (it, or its credentials, are missing), `upload`, or `reads`, the
kind nobody notices. `FailureArchive` has entries whose id is taken before they
commit, and one object write per step. `HomeAssistantUpdate` applies what `refresh`
found in the order of dependency; `unloaded` and `unbooted` are what an update leaves
to be restarted; a restart or a reboot may be refused. A text of `StateRow` is a
sequence of markers, block contents and pieces of prose, so `splice` is modelled by
what it does to them. The backfill takes the newest `Batch` memories without a vector
and stops at the first that cannot be embedded: `newer` is what precedes the row in
that order. `ResearchDigest` reads the notes, then the digests and the date, then
looks and posts month by month; its agents supersede notes one by one and may stop
half-way.

## 4. Runs

| run | what is at work | properties | states |
|---|---|---|---|
| `QueueStalls` | one gated, urgent, recurring row; two threads of Argus, a poller run, Sage; any four kinds of trouble out of a stall, a premature reset, the poller, a crash, a lost call, an act of a person, a re-arm | `TypeOK`, `UnruledIsHeld`, `SlotTracksLiveThread`, `HandsOutOpenRows` | 1 081 000 |
| `QueueProgress` | Argus with two threads; two rows that may wait, of which a sweep sees one; a crash, a lost call; fair | `FinishedIsNotRerun`, `OrphanIsRecovered`, `OpenIsTaken`, `WaitingIsReleased` | 156 000 |
| `QueueShared` | Argus, two poller runs, two acts of people, Sage; three rows: urgent, due later and with a deadline; needing the first; misfiled and delegated | `OneRunPerTask`, `FailuresAreCharged`, `GatesAreRespected` | 2 070 000 |
| `Intake` | the gate on one row with every write; three goals with a fetch of two, the first also a milestone, two processes that queue them; a failure, a block, an act of a person, two of these in a behaviour | `UnruledIsTagged`, `ParkedUntilRuled`, `OneTaskForEachQueuer`, `DueGoalsAreQueued` | 164 000 |
| `ControlMirror` | one activity of each kind; two edits, a seeding, a fault, two runs, a re-arm, two of all these in a behaviour | `LostLineHasCause`, `RunsAreRecordedOnce`, `Converges`, `EndedRunIsRecorded` | 59 000 |
| `ForgetAndRestore` | two pairs of rivals that share a memory, one of them with the name of another; a scan that closes one conflict at a time; people, pass, linker, reviewer, three events in a behaviour | `AuditExplains`, `RetirementCutsEdges`, `JudgedEventually`, `ConflictsSettle` | 235 000 |
| `Distill` | four episodic memories (the last two alike), two projects and a reference (one cluster); fetches of three, batches of two, a model shown two, a fallback of one; a failing call, a crash or an edit | `DistilledOnce`, `MarkedWasWritten`, `EpisodesDrain` | 430 000 |
| `HostAudits` | four auditors, each on a small host: two units with one script that has a namesake, two episodes with sessions bound to them | `SilenceIsNews`, `TellsChanges`, `Escalates`, `ContainerEndsTrue`, `UnitEndsTrue`, `EveryTraceEnds` | 353 000 |
| `HostJobs` | five jobs, each on its own data; one backup whose failed reads count as success; a backfill of two | `KeptInTrust`, `LoadedByTheEnd`, `IllGetsATask`, `FailuresAreFiled`, `SaysTheTruth`, `MonthsAreDigested` | 449 000 |
| `StallReruns` | one row, a stall | `OneRunPerTask` fails | |
| `ArgusSkipsGates` | two rows, Argus | `PrerequisitesAreEnforced` fails | |
| `FailedRuns` | the archive | `EveryFailedRunIsFiled` fails | |

*What the passing runs show.* The queue runs: no daemon moves a gated row before its
ruling, and Argus's table stays true, in any order of stall, reset, lost call, crash
and reply (`QueueStalls`); recovery takes back stranded rows without rerunning stored
work, and nothing open or released is left behind, but for a waiting row with a
sweep's worth of shut ones before it (`QueueProgress`); two daemons never run one row
at a time and charge each failed run, and the poller keeps due times and
prerequisites although Argus, which asks for neither, runs the same rows
(`QueueShared`). `Intake`: nothing a caller writes gets a row past the gate; a goal gets
at most a task for each process that queues goals, and a due one gets its task unless
as many goals as are fetched stay due before it. `ControlMirror`: once edits, seedings
and faults are over, the host mirrors the registry, but for the two ways of falling
behind that the code never recovers from, which the property names.
`ForgetAndRestore`: five ways out of retrieval and two back leave their record; edges
are cut on every path; a failing verdict does not hold up the queue for ever; a
conflict that may be closed is, unless those held before it fill the sweep. `Distill`:
no text is distilled twice in calm nights; what is marked has a summary of its cluster,
made of texts of that cluster as they were read; and the head of a limited fetch does
not starve the rest. `HostAudits`: three auditors implement the latch, and git's keeps
file and Discord alike; what was told last comes true; every trace ends but one a
session goes on recalling to. `HostJobs`: see section 1.

*Compositions.* `Intake`, `HostAudits` and `HostJobs` hold parts that share no state, so
in each behaviour one part, chosen at the start, is at work; interleaving parts that
do not meet would multiply states and reach no new one of any part. Each conjunct of a
fairness condition is about one part. `TellsChanges` is three refinements of
`AlertLatch`, `KeptInTrust` three action properties, one for each job that keeps
something.

*Bounds.* Two rows and two threads are the smallest instance with a race for a row
beside a row nobody races for, a thread of an older run beside one of a newer, and a
prerequisite. Each environmental event happens once or twice, since the hazards are
about one fault in the middle of something; where seven kinds of event would give too
many states, `MaxKinds`, `MaxTrouble` and `MaxEvents` bound how many come together in
one behaviour, and TLC takes every choice of them. `MaxAttempts = 2` gives a retry and
an exhaustion. The gate's triggers look at one row at a time. Limits are one below what
there is to fetch, so that each cuts: `SweepLimit = 1` with two waiting rows or two
conflicts, `Limit = 2` with three goals, a fetch of three with four episodes, a page of
two with three entries. One goal is of both kinds, so that both places that ask can act
on it. One activity of each kind is enough where reconcilers never look at two rows. A
cluster of three is larger than what either summariser looks at. Backups keep copies for
one night, so pruning bites at once; a week has two nights. Every safety property of
these runs is proved for all values of the constants, some under hypotheses (below, and
section 5); the bounds matter to the liveness properties, and to what a run shows
outside a theorem's hypotheses: `QueueProgress` checks `FinishedIsNotRerun` with a lost
call as well.

*Type invariants.* Every module states one. The run `QueueStalls` checks that of
`TaskQueue`; those of `TaskQueue`, `PremiseGate`, `ScheduledControl`, `MemoryForget` and
`MemoryDistill` are proved. The others hold on the instances above and are kept out of
the runs, which are about more than types; the proofs about those modules restate
what they need of them.

*Deadlock* is checked in `ControlMirror`, whose daemon never stops. In the other runs
the models stop once their budgets are spent and there is nothing to do, where the
programs would idle.

*What the properties need.* Some promises hold only while something does not happen, and
each theorem names it as a hypothesis about the constants, which the run that checks
the property satisfies unless said otherwise.

- `OneRunPerTask` and `FailuresAreCharged` need `Undisturbed`: no stalls (`StallReruns` is
  the counterexample), no reset of a live run, no lost call (a run whose record was
  applied but not answered goes on to mark the row failed, whoever has it by then; the
  count's lookup may fail), no re-arm under a run, no gated row (a second ruling may find
  the row at work) and none that Sage flags (it writes its flag by id, on a row that may
  be running), and no crash beside a poller: two sweepers may both find the orphan, and
  the reset of the second lands on a row claimed again.
- `FinishedIsNotRerun` needs, further, either no poller or no people: the poller's guard
  looks at a row some calls before it claims it, and a person may meanwhile send it back
  with its result. `QueueProgress` satisfies all of this but for its lost call.
- `GatesAreRespected` is a promise of the poller: `ArgusSkipsGates` shows that Argus makes
  none. It needs no hypothesis but that no row waits for itself, and names what may undo
  a prerequisite that was done: a person, a re-arm, a lost call, and the writes by id
  that come late. These are Sage's verdict on a row that Iris has approved meanwhile, the
  reset or charge by Argus of a row that others have reset, run and completed meanwhile,
  and the failure or result of a worker that goes on although it was given up.
- `WaitingIsReleased` leaves out a row with `SweepLimit` older ones before it whose gates
  stay shut (`Behind`), and `ConflictsSettle` a conflict with that many before it that the
  sweep skips (`Before`): fifty rows that never open, or a batch of conflicts under a
  veto, keep all that follow waiting in the code. `DueGoalsAreQueued` leaves out a goal
  that as many goals as are fetched are due before (`Crowded`).
- `OneTaskForEachQueuer` counts two processes and adds those tasks that were blocked,
  which the look does not count and which may be taken up again.
- `TellsChanges` lets a message repeat or be left out only when a message or a state file
  was lost, until the next report that is filed. `UnitEndsTrue` and `ContainerEndsTrue`
  leave out a host that came to rest with such a loss not yet made good.
- `EveryTraceEnds` leaves out a trace whose session goes on recalling for ever: a bound
  session names its row, and no window closes that branch (migration 116a).
- `RunsAreRecordedOnce` allows a run twice where an answer was lost. `LostLineHasCause`
  names the two causes. `AuditExplains` holds whatever happens; `RetirementCutsEdges` is
  about tools, pass and scan, and not about the reviewer.
- `DistilledOnce` is about nights without faults and edits. `MarkedWasWritten` is about
  those without edits, and what it promises of a large cluster is what the code does: a
  memory's own text is in the summary, or those of as many others as the fallback takes.
- `KeptInTrust` lets a backup whose failed reads count as success trade its last good copy
  for one of tonight that lacks data, and speaks of the prose that a refresh read, not of
  what is written between its read and its PATCH. `IllGetsATask` is about what fails for
  the job to see: a source or its credentials missing, an upload that fails. Reads that
  fail are nobody's task, for the backup in question.
- `LoadedByTheEnd` leaves out runs in which an answer was lost, and leaves one way out: a
  host that was asked to boot a new system and did not, which the run takes for done. A
  restart that was refused must be reported.
- `SaysTheTruth` lets the vector be missing while a newer memory cannot be embedded, and
  be old where a backfill was overtaken by the refresh. `FailuresAreFiled` leaves out
  entries that were committed after a later one.

The properties that something becomes true once the world rests say so in their
premise; those of the jobs and auditors hold with their failures already spent.

*Fairness.* Argus is an endless loop under systemd; its threads and the poller's
process are scheduled by the operating system: weak fairness of Argus's fetch, of its
next step inside an iteration, of each row's sweep, of each executor's next step and
of the poller's once it has been started. `Quietly` leaves the steps that spend the
environment's budget unforced. The control daemon loops likewise; of its steps only
those without a fault are owed. Auditors and jobs are started by timers again and
again, so `Step` (start included) is weakly fair; time passes (`Night`, `Tick`, `Cool`,
`Pass`); tasks that were taken end, Iris rules in the end, Home Assistant comes back,
if need be by hand. People, producers and crashes owe nothing anywhere.

### Where code and words differ

Each of these runs ends in a counterexample; `PROJECT.json` quotes the lines.

- `StallReruns`: a worker judged stalled before its process is on record is dropped
  and its row redispatched; two processes then work on it.
- `ArgusSkipsGates`: the docs call prerequisites enforced; the poller enforces them, and
  Argus, which has taken its place, fetches by status and target alone.
- `FailedRuns`: the archive takes what ends in `_failed` or has status `failure`; the
  daemon records a failed run with status `failed`, which is neither.

### Seen while modelling

With no run of their own; the models contain the behaviour.

*Queue.* A row a stall escalated to Jeff is overwritten with `failed` by the worker
the stall killed (`argus.py:331`). Fifty waiting rows whose gates stay shut keep
younger ones waiting. A row Iris sends back to `ready` has target `cowork` and is
never claimed. A row Jeff sets back to `ready` holds the result of the run that asked
him, so the idempotency guard returns it to him. Stalls increment `attempt_count`,
which migration 144 says only `mark_failed` does. `SAGE_EVAL_LAG_SECS` is used
nowhere. A failed lookup of the prerequisites releases a waiting row. A reset that
Argus decided on lands on a row that another daemon has reset, run and completed
meanwhile. A record whose answer is lost reopens a completed row. `requeue_recurring`
computes a next run and stores no `not_before`.

*Goals.* Argus and the poller may both look before either inserts, and a goal gets two
tasks. Ten goals that stay due keep the eleventh from being fetched. Iris's approval
does not complete a goal, which is queued again every six hours. A blocked task is not
counted. `Patch` writes `active` by id over a pause. A `last_queued_at` that is lost
lets the goal be queued again as soon as its task ends.

*Digests.* The job looks for tasks in `in_progress`, a status the queue lacks, so a month
whose task is at work gets a second one (line 141), the docstring's "idempotent"
notwithstanding.

*Control.* The seeder's upsert sets `enabled` and undoes a disable; it reads the first
`OnCalendar` and reverts an edited schedule. Writing a drop-in restarts a paused timer.
A `daemon-reload` that failed is not retried. A lost PATCH of `source_ref.line` orphans
the crontab line. `record_scheduled_run`, retried after a lost answer, appends twice.

*Memory.* Restored rows keep `valid_to`, so recall still leaves them out. A restoration
whose name is taken fails every night. Refused rows use up the retirement limit.
`prune_decayed_memories.py` passes a parameter the function does not have. Phase 3
filters on a tag no member gets. A batch or cluster of ten is marked whole, of which a
model was shown six and the fallback takes three; a summary overwrites that of a cluster
whose name differs from its own in the dates alone. Conflicts under a veto
use up the sweep's limit. The backfill writes a vector by id over content that changed
meanwhile, and a newest memory that cannot be embedded keeps all older ones without a
vector; prose written while a refresh renders is lost.

*Auditors.* A crash between the message and the state file repeats the message. A
session bound to a trace keeps it open as long as it recalls. A failed notifier does
not keep the state from being written, so the change is never told. A systemctl that
fails reads as no timers. A stale copy equal to another file of its name in the
repository is silent. A reap whose answer is lost is never reported. `git add` changes
a finding's identity and restarts its count. `OPEN_TASK_STATUSES` misses statuses of
open tasks.

*Jobs.* A table whose export fails is exported empty and counts as success, and good
copies are pruned after it (`r2_backup.py:304-311`). A crash between the CSV and the
state writes rows twice. Ids committed out of order are passed over. An unreachable
REST API reads as up to date. A refused reboot is reported as a success.

## 5. Proofs

Eight modules, one to a component or a composition of small ones. What each rests on is
the assumption of its module: `QueueAssumption` and `FiledAssumption` (`TaskQueue`),
`GateAssumption` (`PremiseGate`), `GitAssumption`, `HostAssumption`,
`BackupsAssumption`, `JobsAssumption`, `ControlAssumption`, `ForgetAssumption`,
`DistillAssumption`. TLC evaluates each of them on a run; none bounds the number of
rows, workers, activities or goals, but `MemoryForget` takes the memories to be finitely
many, and `MemoryDistill` numbers them. Further hypotheses are in the statement of the
theorem and in section 4.

**`TaskQueueProofs`**

- `TypeCorrect`, `Spec => []TypeOK`. `Typed` alone is not inductive: that
  `row[argus.task]` is a row needs `argus.task \in Task` whenever Argus is in the middle
  of something, and likewise for the poller and the executors. `Focused` says that, and
  that the poller looks for a row only while it holds none.
- `SlotsTrackThreads`, `Spec => []SlotTracksLiveThread`. Inductive with `TypeOK`: a
  thread leaves the table's sight only by `Close` or a crash, and both drop the entry; a
  claim finds an idle worker, which no entry can list.
- `QueueIsLease`, `Spec => HandsOutOpenRows`. The refinement maps `open` to the rows
  with a claimable status and `holder` to the executors' tasks. A claim compares the
  row's status with the one its daemon read, so what was read must have been claimable:
  `SeenOpen`.
- `UnruledRowsAreHeld`, `Spec => []UnruledIsHeld`. Daemons write by id, so it is not
  enough that the row is parked now: nobody may still hold a task, a snapshot or a
  pending write about it. `HeldBack` says that; every snapshot is taken of rows in
  statuses other than the parked one.

**`TaskQueueRunProofs`**, each under the hypotheses of section 4

- `OneRun`, `FailedRunsCost`. Both from the invariant `Alone`: a row at work is one
  nobody can fetch (`WorkIsTaken`) and has one executor (`OneAtWork`); Argus is not
  about to claim what a worker of its own has (`ArgusIsDone`); of a row handed to Sage
  one pending claim at most is left, and none while it is worked on (`LastClaim`); a
  reset is about a row nobody works on (`ResetIsAlone`), and the count a failing run has
  read is the row's (`CountIsFresh`). The last is why a run costs an attempt although
  reading and writing are two calls: nobody else writes the row in between.
- `FinishedStays`. Without people, a stored result has closed the row (`ResultCloses`).
  Without a poller, nobody is at work on the row Argus is about to claim, so what its
  guard has read is still so (`GuardHolds`).
- `GatesHold`, for any budgets: stalls, crashes, sweeps, lost calls and Argus
  included. From `AtDesk`: what the poller has fetched, chosen or claimed was due, and
  time only goes on (`DueOnly`). Its prerequisites are read in the step before the
  claim, so nothing need be said of the snapshots; a prerequisite that is completed
  leaves that status only by a write that the property names (`DoneStays`, by cases on
  the step), which needs that what Argus and the poller are about to claim was seen
  open (`SeenOpen`).

**`IntakeProofs`**

- `TypeCorrect`; `Tagged`, by cases on the statements; `GateIsEscrow`: deposits come
  from inserts and updates of unruled rows, and a row leaves the escrow only by a ruling
  of an exogenous auditor.
- `OneForEachQueuer`, `[]OneTaskForEachQueuer`. The bound alone is not inductive: a
  process that has found no task inserts one a step later, and by then the other may
  have done so, and a task that was blocked may be back. `Room` counts an insertion
  that each process has decided on (`Coming`) as a task, and blocked tasks against
  `blocks`; a look that finds no task leaves room for one insertion by each.

**`HostAuditsProofs`**

- `Silence`, `[]SilenceIsNews`. Between its message and its write a run has told what it
  is about to save; at any other time what was told is what is on file (`Telling`).
- `Tells`: each of the three auditors implements `AlertLatch`. One predicate, `Latched`,
  relates what was found, filed and heard at each point of a run, and whether the message
  or the file before it was lost, and is shown inductive for each of them.

**`HostJobsProofs`**

- `Loaded`, `LoadedByTheEnd` of the updater. By the step in which a run reports, and
  from which step on depends on what was applied, nothing is left unloaded unless the
  restart has failed and is on the list of failures (`LoadTried`), or a boot was asked for
  and has not happened (`BootTried`).
- `TrustKept`, `KeptInTrust` of the three jobs: a backup is pruned only after
  tonight's copy was made (`CopiedFirst`), and that is blank only for one whose failed
  reads count as success (`BlankIsLenient`); a month is packed only when it is over,
  for the run under way as well, and its CSV goes only when the archive holds all of
  it (`RunsInMonth`, `PackedIsOver`); a block of the state memory is in one piece, so
  that splicing takes out a block and no prose (`Whole`, `PatchKeeps`), for texts of
  any length.

**`ScheduledControlProofs`**

- `TypeCorrect`, with the kind of row each reconciler is at.
- `LinesAreRemembered`, `[]LostLineHasCause`. Between writing the crontab and recording
  the line in the registry, the crontab holds what the daemon has read (`LineAtHand`),
  and only a seeding changes what it is about to overwrite (`SeedingIsCounted`).
- `RecordedOnce`, `[]RunsAreRecordedOnce`. A tick compares with a row it read at its
  start. For the rows it has not come to yet (`Ahead`), what it read is still so
  (`NotStale`), since nobody else records runs of units; for those that are behind it,
  the history has caught up (`UpToDate`).

**`MemoryForgetProofs`**

- `TypeCorrect`. What the reviewer is about to judge is pending still, since nobody else
  rules; the ranks of conflicts are numbers since the pairs are finitely many.
- `Explained`, `[]AuditExplains`, from `Accounted`: `Told` follows each row's latest
  record. One lemma says that a log which grows by a true record of a change keeps it,
  and each statement that darkens, restores or replaces a row is shown to be such a
  change.
- `Cut`, `Spec => RetirementCutsEdges`, by cases on who takes the row out. The edges
  that a contradiction copies to the winner are dealt with in the same statement.

**`MemoryDistillProofs`**

- `TypeCorrect`. A job marks only members of the cluster it is at.
- `MarkedWasWrittenHolds`, `Spec => MarkedWasWritten`, from `Held`: while a job has
  members to mark, its summary is the texts it read of some members of the cluster it
  is at (`OfCluster`), all of them or at least `TopReads`. No other job writes the
  same name, since the two jobs' phases name their summaries differently. That a
  summariser reads so many (`Read`) rests on the members being ranked: a finite set of
  numbers has exactly as many members up to its k-th as k (`Ranked`). Batches are
  disjoint parts of what was fetched, as clusters are (`BatchesSound`).
- `DistilledOnceHolds`, `[]DistilledOnce`, from `Apart`: what is in a summary is marked
  or about to be, and what the night still has to work through is in none. It needs that
  clusters are disjoint, which is a fact about a function that recurses over sets of
  memories. The induction theorems of the library take an operator as a parameter and
  cannot be used, so it is proved by least counterexample (`LeastFails`, from the
  well-foundedness of the naturals): the memories above the last few, `Above(i)`, for
  the least `i` that would fail.

*What the proofs changed.* Three definitions were wrong, and TLC had not noticed.
`GatesAreRespected` lacked the case of Argus's late reset: one poll claims the
prerequisite and dies, Argus finds it stuck, a second poll resets, claims and completes
it, a third claims the dependent row, and then Argus's reset reopens the prerequisite,
which takes more polls than the run has. `AuditExplains`
asked too much of a row deleted and remembered again, which a reversion may mark with
the successor it had. An operator of `MemoryForget` (`OpOf`) had arms of a `CASE` that
overlapped, so that its value was TLC's choice.

*Model-checked only.* Liveness under fairness, which is out of the prover's reach:
`OrphanIsRecovered`, `OpenIsTaken`, `WaitingIsReleased`, `DueGoalsAreQueued`, `Converges`,
`EndedRunIsRecorded`, `JudgedEventually`, `ConflictsSettle`, `EpisodesDrain`, `Escalates`,
`ContainerEndsTrue`, `UnitEndsTrue`, `EveryTraceEnds`, `IllGetsATask`, `FailuresAreFiled`,
`SaysTheTruth`, `MonthsAreDigested`; and the three violations of section 4.

## 6. Not modelled

- *Of the queue:* `route_auto_tasks`, `notify_cowork_tasks`, archived rows, `runs[]` and
  `execution_count`, the file and `claim_task` gates, `handle_task_failure`, the
  Guardian audit, heartbeats, the scorers and patterns of Sage.
- *Of memory:* retrieval, scoring, embeddings and the evaluation suites (arithmetic over
  query results, where no sequence of states goes wrong); the other batch passes
  (`dreaming_consolidate.py`, `infrastructure/memory-consolidation`), which follow the
  same pattern as `episodic_distill.py`.
- *Planned:* watchdog, message relay, ingest worker.
- *Of the rest:* mail, Sentinel, health endpoint, desktop helper, browser extension,
  port sync, log rotation, resolver watchdog, `disk_audit.py`: stateless, or one
  idempotent step. Claude session recovery and reaction guard patch an external program.
  Compose stacks, proxies and the website are configuration.
- *Of what is modelled:* the wording of messages, what a backup contains, how files are
  hashed, how texts are compared; ages other than those a guard asks for.
