------------------------------ MODULE TaskQueue ------------------------------
(***************************************************************************)
(* The shared task_queue table and the daemons that move its rows:         *)
(*                                                                         *)
(*   Argus   infrastructure/task-queue/argus.py, one dispatch loop and the *)
(*           worker threads it spawns                                      *)
(*   poller  infrastructure/task-queue/poll_queue.py, a oneshot process    *)
(*           that message-relay and operators still start                  *)
(*   Sage    infrastructure/task-queue/sage.py, the evaluator              *)
(*   people  Jeff and Iris, who move rows by hand as the notifications     *)
(*           tell them to, and the producer that re-arms recurring rows    *)
(*                                                                         *)
(* Every Supabase call is one atomic step, because PostgREST runs it as    *)
(* one statement; anything between two calls may interleave.  A claim is a *)
(* PATCH filtered on the status the claimant read (id=eq.&status=eq.);     *)
(* every other PATCH of a daemon filters on the id alone.                  *)
(***************************************************************************)
EXTENDS Naturals, FiniteSets

CONSTANTS
  Task,         \* rows
  Worker,       \* Argus worker threads alive at once (a bound)
  Poller,       \* the one oneshot poller process
  NoTask, NoWorker,
  Rank,         \* Rank[t]: position under priority.asc, created_at.asc
  Created,      \* Created[t]: position under created_at.asc
  Filed,        \* Filed[t]: the statuses row t may be inserted with
  Urgent,       \* rows of priority 0 or 1
  Recurring,    \* rows with recurring = true
  Risky,        \* rows Sage's safety scan flags or its scorer calls "split"
  Misfiled,     \* rows preflight_task finds a reason against
  Deps,         \* Deps[t]: blocked_by_task_ids
  NotBefore,    \* NotBefore[t]: first instant the row is due, 0 if unset
  Expires,      \* Expires[t]: last instant the row is wanted
  Gated,        \* rows parked at insert by the premise gate
  MaxAttempts,  \* max_attempts of a row (a lookup that fails takes it for 3)
  MaxWorkers,   \* argus.MAX_WORKERS; 0 when Argus only sweeps
  ScanLimit,    \* poll_queue._PREFLIGHT_SCAN_LIMIT
  SweepLimit,   \* how many waiting rows sweep_waiting_tasks looks at, 50
  SageBatch,    \* sage.PRE_EVAL_BATCH; 0 when Sage only evaluates results
  MaxTime,      \* bound on the clock
  Budget,       \* Budget[k]: how often the environment does k (a bound)
  MaxKinds      \* how many of these it does in one behaviour (a bound)

Executor == Worker \cup {Poller}

\* What the environment may do, each a bounded number of times.
Event == {"poll", "stall", "sweep", "crash", "outage", "human", "fire"}

ASSUME QueueAssumption ==
  /\ Poller \notin Worker
  /\ NoTask \notin Task
  /\ NoWorker \notin Worker
  /\ Rank \in [Task -> Nat]
  /\ Created \in [Task -> Nat]
  /\ \A t, u \in Task : Rank[t] = Rank[u] \/ Created[t] = Created[u] => t = u
  /\ Urgent \subseteq Task /\ Recurring \subseteq Task
  /\ Risky \subseteq Task /\ Misfiled \subseteq Task /\ Gated \subseteq Task
  /\ Deps \in [Task -> SUBSET Task]
  /\ NotBefore \in [Task -> Nat]
  /\ Expires \in [Task -> Nat]
  /\ MaxAttempts \in Nat \ {0, 1}
  /\ MaxWorkers \in Nat
  /\ ScanLimit \in Nat \ {0} /\ SweepLimit \in Nat \ {0}
  /\ SageBatch \in Nat
  /\ MaxTime \in Nat
  /\ Budget \in [Event -> Nat]
  /\ MaxKinds \in Nat

Status ==
  { "ready", "pending", "delegated", "waiting", "claimed", "in_progress_agent",
    "pending_eval", "pending_jeff_action", "blocked", "expired", "failed",
    "completed", "cancelled" }

ASSUME FiledAssumption ==
  /\ Filed \in [Task -> SUBSET {"ready", "pending", "delegated", "waiting", "pending_jeff_action"}]
  /\ \A t \in Gated : Filed[t] = {"pending_jeff_action"}

ArgusTakes  == {"ready", "pending"}
PollerTakes == {"ready", "pending", "delegated"}
InFlight    == {"claimed", "in_progress_agent"}

Row ==
  [ status    : Status,
    target    : {"agent", "cowork", "jeff"},
    result    : BOOLEAN,     \* a non-blank result is stored
    accepted  : BOOLEAN,     \* tag premise-accepted
    ruled     : BOOLEAN,     \* premise_audit.verdicts has a row for it
    evaluated : BOOLEAN,     \* tag sage-evaluated
    attempts  : Nat ]        \* attempt_count

VARIABLES
  row,      \* the table
  running,  \* argus._running: slot per task, NoSlot when the key is absent
  argus,    \* the dispatch loop: where it is and what it read
  exec,     \* executors: worker threads and the poller's run
  poller,   \* the poller before it has claimed
  sage,     \* Sage's snapshot between its read and its write
  now,      \* the clock the gates are compared with
  spent     \* how often each event has happened

vars == <<row, running, argus, exec, poller, sage, now, spent>>

NoSlot == [worker |-> NoWorker, proc |-> NoWorker]
Slot   == [worker : Worker \cup {NoWorker}, proc : Worker \cup {NoWorker}]

Idle == [pc |-> "idle", task |-> NoTask, outcome |-> "none", read |-> 0]
Exec ==
  [ pc      : {"idle", "claimed", "started", "running", "exited", "failing", "closing"},
    task    : Task \cup {NoTask},
    outcome : {"none", "done", "ask", "error"},
    read    : Nat ]

LoopTop == [pc |-> "loop", task |-> NoTask, seen |-> "ready", finished |-> FALSE, read |-> 0]
Loop ==
  [ pc       : {"loop", "claim", "reset", "release", "charge", "charged", "unlist"},
    task     : Task \cup {NoTask},
    seen     : Status,
    finished : BOOLEAN,
    read     : Nat ]

PollerOff == [pc |-> "off", task |-> NoTask, seen |-> "ready", move |-> "claimed", list |-> {}]
Snapshot  == [task : Task, seen : Status, finished : BOOLEAN]
PollState ==
  [ pc   : {"off", "sweep", "reset", "release", "scan", "move"},
    task : Task \cup {NoTask},
    seen : Status,
    move : Status,
    list : SUBSET Snapshot ]

SageIdle == [pc |-> "idle", list |-> {}]
SageState ==
  [pc : {"idle", "pre", "post"}, list : SUBSET [task : Task, accepted : BOOLEAN]]

Typed ==
  /\ row \in [Task -> Row]
  /\ running \in [Task -> Slot]
  /\ argus \in Loop
  /\ exec \in [Executor -> Exec]
  /\ poller \in PollState
  /\ sage \in SageState
  /\ now \in Nat
  /\ spent \in [Event -> Nat]

\* Whoever is in the middle of something has a row it is about, and the poller
\* looks for a row only while it holds none.
Focused ==
  /\ argus.pc # "loop" => argus.task \in Task
  /\ poller.pc \in {"reset", "release", "move"} => poller.task \in Task
  /\ poller.pc # "off" => exec[Poller] = Idle
  /\ \A e \in Executor : exec[e] = Idle \/ (exec[e].pc # "idle" /\ exec[e].task \in Task)

TypeOK == Typed /\ Focused

Init ==
  /\ \E status \in [Task -> Status] :
       /\ \A t \in Task : status[t] \in Filed[t]
       /\ row = [t \in Task |->
                   [ status |-> status[t], target |-> "agent", result |-> FALSE,
                     accepted |-> FALSE, ruled |-> FALSE, evaluated |-> FALSE,
                     attempts |-> 0 ]]
  /\ running = [t \in Task |-> NoSlot]
  /\ argus = LoopTop
  /\ exec = [e \in Executor |-> Idle]
  /\ poller = PollerOff
  /\ sage = SageIdle
  /\ now = 0
  /\ spent = [k \in Event |-> 0]

Spend(k) ==
  /\ spent[k] < Budget[k]
  /\ Cardinality({j \in Event : spent[j] # 0} \cup {k}) <= MaxKinds
  /\ spent' = [spent EXCEPT ![k] = @ + 1]

-----------------------------------------------------------------------------
(* The table and the calls that read and write it.                         *)

Set(t, s)       == [row EXCEPT ![t].status = s]
Cas(t, seen, s) == IF row[t].status = seen THEN Set(t, s) ELSE row

\* A PATCH whose answer arrives, and one that raises in the caller whether or
\* not the database applied it.
Acked(r)  == row' = r /\ UNCHANGED spent
Failed(r) == Spend("outage") /\ row' \in {row, r}
Sent(r)   == Acked(r) \/ Failed(r)

\* order=priority.asc,created_at.asc&limit=n
First(S, n) == {t \in S : Cardinality({u \in S : Rank[u] < Rank[t]}) < n}

Claimable(statuses) ==
  {t \in Task : row[t].status \in statuses /\ row[t].target = "agent"}

\* Variant: no idempotency guard.
NeverFinished(t) == FALSE

\* The idempotency guard of both claimants, on the row they fetched.
Finished(t) == t \notin Recurring /\ row[t].result /\ ~row[t].accepted

\* Variant: a blocker that ended in any way counts as done.
DepsEnded(t) ==
  \A d \in Deps[t] : row[d].status \notin PollerTakes \cup InFlight \cup {"waiting"}

\* A cancelled blocker does not count as done; a lookup that fails does.
DepsDone(t)    == \A d \in Deps[t] : row[d].status = "completed"
DepsLookup(t)  == IF DepsDone(t) THEN UNCHANGED spent ELSE Spend("outage")

\* A failed attempt: another try while attempts remain.  `read` is the
\* attempt_count an earlier call returned.
Charged(t, read, retry, exhausted) ==
  IF read + 1 < MaxAttempts
  THEN [row EXCEPT ![t].attempts = read + 1, ![t].status = retry]
  ELSE [row EXCEPT ![t].attempts = read + 1, ![t].status = exhausted]

Alive(e)  == exec[e].pc # "idle"
Orphan(t) == row[t].status \in InFlight /\ \A e \in Executor : Alive(e) => exec[e].task # t

-----------------------------------------------------------------------------
(* Queue hygiene, run by Argus and by the poller alike.                    *)

\* Variant: rows left at `claimed` are not looked for.
LooksStuckInProgress(t) ==
  /\ row[t].status = "in_progress_agent"
  /\ IF Orphan(t) THEN UNCHANGED spent ELSE Spend("sweep")

\* recover_stuck_tasks picks an in-flight row claimed over 30 minutes ago and
\* silent for 10.  A row nobody works on gets there by waiting; a live run only
\* by being long and quiet, which a budget bounds.
LooksStuck(t) ==
  /\ row[t].status \in InFlight
  /\ IF Orphan(t) THEN UNCHANGED spent ELSE Spend("sweep")

\* Variant: the due instant itself is still too early.
GateOpenLate(t) ==
  /\ row[t].status = "waiting"
  /\ NotBefore[t] # 0 \/ Deps[t] # {}
  /\ NotBefore[t] < now
  /\ DepsLookup(t)

\* _gate_state: some gate is declared and every declared one has opened.
GateOpen(t) ==
  /\ row[t].status = "waiting"
  /\ NotBefore[t] # 0 \/ Deps[t] # {}
  /\ NotBefore[t] <= now
  /\ DepsLookup(t)

\* status=eq.waiting&order=created_at.asc&limit=n: rows that stay shut take up room.
InBatch(t) ==
  Cardinality({u \in Task : row[u].status = "waiting" /\ Created[u] < Created[t]}) < SweepLimit

SweepFinds(t, pc) ==
  \/ pc = "reset" /\ LooksStuck(t)
  \/ pc = "release" /\ InBatch(t) /\ GateOpen(t)

\* The reset filters on the id alone, the release on status=waiting too.
SweepWrites(t, pc) ==
  Sent(IF pc = "reset" THEN Set(t, "ready") ELSE Cas(t, "waiting", "ready"))

-----------------------------------------------------------------------------
(* Argus: the dispatch loop.                                               *)

ArgusFetch ==
  /\ argus.pc = "loop"
  /\ Cardinality({t \in Task : running[t] # NoSlot}) < MaxWorkers
  /\ \E t \in First(Claimable(ArgusTakes), 1) :
       argus' = [LoopTop EXCEPT !.pc = "claim", !.task = t,
                                !.seen = row[t].status, !.finished = Finished(t)]
  /\ UNCHANGED <<row, running, exec, poller, sage, now, spent>>

\* Variant: the claim filters on the id alone.
ArgusSpawnUnguarded ==
  LET t == argus.task IN
  /\ argus.pc = "claim" /\ ~argus.finished
  /\ \E w \in Worker :
       /\ exec[w] = Idle
       /\ exec' = [exec EXCEPT ![w] = [Idle EXCEPT !.pc = "claimed", !.task = t]]
       /\ running' = [running EXCEPT ![t] = [NoSlot EXCEPT !.worker = w]]
  /\ row' = Set(t, "claimed")
  /\ argus' = LoopTop
  /\ UNCHANGED <<poller, sage, now, spent>>

\* The claim went through: _spawn_worker lists the task and starts a thread.
ArgusSpawn ==
  LET t == argus.task IN
  /\ argus.pc = "claim" /\ ~argus.finished /\ row[t].status = argus.seen
  /\ \E w \in Worker :
       /\ exec[w] = Idle
       /\ exec' = [exec EXCEPT ![w] = [Idle EXCEPT !.pc = "claimed", !.task = t]]
       /\ running' = [running EXCEPT ![t] = [NoSlot EXCEPT !.worker = w]]
  /\ row' = Set(t, "claimed")
  /\ argus' = LoopTop
  /\ UNCHANGED <<poller, sage, now, spent>>

\* Nothing to run: finished work bounced, claim lost, or its answer lost.
ArgusPass ==
  LET t == argus.task
      wanted == IF argus.finished THEN "pending_jeff_action" ELSE "claimed"
  IN
  /\ argus.pc = "claim"
  /\ \/ argus.finished /\ Acked(Cas(t, argus.seen, wanted))
     \/ row[t].status # argus.seen /\ UNCHANGED <<row, spent>>
     \/ Failed(Cas(t, argus.seen, wanted))
  /\ argus' = LoopTop
  /\ UNCHANGED <<running, exec, poller, sage, now>>

ArgusSweep(t) ==
  /\ argus.pc = "loop"
  /\ \E pc \in {"reset", "release"} :
       SweepFinds(t, pc) /\ argus' = [LoopTop EXCEPT !.pc = pc, !.task = t]
  /\ UNCHANGED <<row, running, exec, poller, sage, now>>

ArgusSwept ==
  /\ argus.pc \in {"reset", "release"}
  /\ SweepWrites(argus.task, argus.pc)
  /\ argus' = LoopTop
  /\ UNCHANGED <<running, exec, poller, sage, now>>

\* _check_stalls finds a listed worker over its threshold and kills the process
\* on record, if one is and it still runs.
ArgusStall(t) ==
  LET p == running[t].proc IN
  /\ argus.pc = "loop" /\ running[t] # NoSlot
  /\ Spend("stall")
  /\ exec' = IF p # NoWorker /\ exec[p].pc = "running"
             THEN [exec EXCEPT ![p].pc = "exited", ![p].outcome = "error"]
             ELSE exec
  /\ argus' = [LoopTop EXCEPT !.pc = "charge", !.task = t]
  /\ UNCHANGED <<row, running, poller, sage, now>>

\* _reset_task_to_pending reads attempt_count; an exception skips the write.
ArgusChargeRead ==
  /\ argus.pc = "charge"
  /\ \/ /\ argus' = [argus EXCEPT !.pc = "charged", !.read = row[argus.task].attempts]
        /\ UNCHANGED spent
     \/ /\ argus' = [argus EXCEPT !.pc = "unlist"]
        /\ Spend("outage")
  /\ UNCHANGED <<row, running, exec, poller, sage, now>>

ArgusChargeWrite ==
  /\ argus.pc = "charged"
  /\ Sent(Charged(argus.task, argus.read, "pending", "pending_jeff_action"))
  /\ argus' = [argus EXCEPT !.pc = "unlist"]
  /\ UNCHANGED <<running, exec, poller, sage, now>>

ArgusUnlist ==
  /\ argus.pc = "unlist"
  /\ running' = [running EXCEPT ![argus.task] = NoSlot]
  /\ argus' = LoopTop
  /\ UNCHANGED <<row, exec, poller, sage, now, spent>>

\* The service restarts: threads and their claude processes die with it.
ArgusCrash ==
  /\ Spend("crash")
  /\ argus' = LoopTop
  /\ running' = [t \in Task |-> NoSlot]
  /\ exec' = [e \in Executor |-> IF e \in Worker THEN Idle ELSE exec[e]]
  /\ UNCHANGED <<row, poller, sage, now>>

-----------------------------------------------------------------------------
(* Executors: argus._worker, and poll_queue.main once it has claimed.      *)

\* A worker marks the row in progress and goes on if that fails.
Start(w) ==
  LET t == exec[w].task IN
  /\ exec[w].pc = "claimed"
  /\ Sent(Set(t, "in_progress_agent"))
  /\ exec' = [exec EXCEPT ![w].pc = "started"]
  /\ UNCHANGED <<running, argus, poller, sage, now>>

\* run_claude starts the process; _register_proc files it under whatever entry
\* the task has by then.
Launch(e) ==
  LET t == exec[e].task IN
  /\ exec[e].pc = "started"
  /\ exec' = [exec EXCEPT ![e].pc = "running"]
  /\ running' = IF e \in Worker /\ running[t] # NoSlot
                THEN [running EXCEPT ![t].proc = e] ELSE running
  /\ UNCHANGED <<row, argus, poller, sage, now, spent>>

\* The run ends with a result or a question, fails, or hits a timeout; building
\* the prompt may raise before it starts.
Exit(e) ==
  /\ \E outcome \in {"done", "ask", "error"} :
       /\ exec[e].pc \in (IF outcome = "error" THEN {"started", "running"} ELSE {"running"})
       /\ exec' = [exec EXCEPT ![e].pc = "exited", ![e].outcome = outcome]
  /\ UNCHANGED <<row, running, argus, poller, sage, now, spent>>

\* mark_pending_jeff_action, mark_pending_eval or mark_completed.
Recorded(t, outcome) ==
  IF outcome = "ask"
  THEN [row EXCEPT ![t].status = "pending_jeff_action", ![t].result = TRUE]
  ELSE IF t \in Urgent
  THEN [row EXCEPT ![t].status = "pending_eval", ![t].result = TRUE, ![t].target = "cowork"]
  ELSE [row EXCEPT ![t].status = "completed", ![t].result = TRUE]

\* A write that raises turns the finished run into a failed one.
Record(e) ==
  LET r == Recorded(exec[e].task, exec[e].outcome) IN
  /\ exec[e].pc = "exited" /\ exec[e].outcome # "error"
  /\ \/ Acked(r) /\ exec' = [exec EXCEPT ![e].pc = "closing"]
     \/ Failed(r) /\ exec' = [exec EXCEPT ![e].outcome = "error"]
  /\ UNCHANGED <<running, argus, poller, sage, now>>

\* Variant: the lookup is left out.
FailReadBlind(e) ==
  /\ exec[e].pc = "exited" /\ exec[e].outcome = "error"
  /\ exec' = [exec EXCEPT ![e].pc = "failing", ![e].read = 0]
  /\ UNCHANGED <<row, running, argus, poller, sage, now, spent>>

\* mark_failed; a lookup that raises counts as attempt_count 0.
FailRead(e) ==
  /\ exec[e].pc = "exited" /\ exec[e].outcome = "error"
  /\ \E read \in {row[exec[e].task].attempts, 0} :
       /\ exec' = [exec EXCEPT ![e].pc = "failing", ![e].read = read]
       /\ IF read = row[exec[e].task].attempts THEN UNCHANGED spent ELSE Spend("outage")
  /\ UNCHANGED <<row, running, argus, poller, sage, now>>

FailWrite(e) ==
  /\ exec[e].pc = "failing"
  /\ Sent(Charged(exec[e].task, exec[e].read, "ready", "failed"))
  /\ exec' = [exec EXCEPT ![e].pc = "closing"]
  /\ UNCHANGED <<running, argus, poller, sage, now>>

\* Variant: the entry is left behind.
CloseUnlisted(e) ==
  /\ exec[e].pc = "closing"
  /\ exec' = [exec EXCEPT ![e] = Idle]
  /\ UNCHANGED <<row, running, argus, poller, sage, now, spent>>

\* A worker's `finally` drops whatever entry its task has.
Close(e) ==
  /\ exec[e].pc = "closing"
  /\ exec' = [exec EXCEPT ![e] = Idle]
  /\ running' = IF e \in Worker THEN [running EXCEPT ![exec[e].task] = NoSlot] ELSE running
  /\ UNCHANGED <<row, argus, poller, sage, now, spent>>

-----------------------------------------------------------------------------
(* The poller, before it has claimed.                                      *)

PollStart ==
  /\ poller.pc = "off" /\ exec[Poller] = Idle
  /\ Spend("poll")
  /\ poller' = [PollerOff EXCEPT !.pc = "sweep"]
  /\ UNCHANGED <<row, running, argus, exec, sage, now>>

PollSweep(t) ==
  /\ poller.pc = "sweep"
  /\ \E pc \in {"reset", "release"} :
       SweepFinds(t, pc) /\ poller' = [poller EXCEPT !.pc = pc, !.task = t]
  /\ UNCHANGED <<row, running, argus, exec, sage, now>>

PollSwept ==
  /\ poller.pc \in {"reset", "release"}
  /\ SweepWrites(poller.task, poller.pc)
  /\ poller' = [PollerOff EXCEPT !.pc = "sweep"]
  /\ UNCHANGED <<running, argus, exec, sage, now>>

PollFetch ==
  /\ poller.pc = "sweep"
  /\ LET due == {t \in Claimable(PollerTakes) : NotBefore[t] <= now} IN
     poller' = [PollerOff EXCEPT
                  !.pc = "scan",
                  !.list = {[task |-> t, seen |-> row[t].status, finished |-> Finished(t)] :
                              t \in First(due, ScanLimit)}]
  /\ UNCHANGED <<row, running, argus, exec, sage, now, spent>>

Overdue(t) == Expires[t] # 0 /\ Expires[t] < now

\* The next candidate is judged: deadline, prerequisites, idempotency guard,
\* preflight.  Unmet prerequisites skip it.
PollJudge ==
  /\ poller.pc = "scan"
  /\ \E s \in poller.list :
       LET t == s.task
           rest == [poller EXCEPT !.list = @ \ {s}]
           to(move) == [rest EXCEPT !.pc = "move", !.task = t, !.seen = s.seen, !.move = move]
       IN
       /\ \A u \in poller.list : Rank[t] <= Rank[u.task]
       /\ \/ Overdue(t) /\ poller' = to("expired") /\ UNCHANGED spent
          \/ ~Overdue(t) /\ ~DepsDone(t) /\ poller' = rest /\ UNCHANGED spent
          \/ /\ ~Overdue(t) /\ DepsLookup(t)
             /\ poller' = to(IF s.finished THEN "pending_jeff_action"
                             ELSE IF t \in Misfiled THEN "blocked" ELSE "claimed")
  /\ UNCHANGED <<row, running, argus, exec, sage, now>>

\* Variant: the claim filters on the id alone.
PollClaimUnguarded ==
  LET t == poller.task IN
  /\ poller.pc = "move" /\ poller.move = "claimed"
  /\ row' = Set(t, "claimed")
  /\ exec' = [exec EXCEPT ![Poller] = [Idle EXCEPT !.pc = "started", !.task = t]]
  /\ poller' = PollerOff
  /\ UNCHANGED <<running, argus, sage, now, spent>>

PollClaim ==
  LET t == poller.task IN
  /\ poller.pc = "move" /\ poller.move = "claimed" /\ row[t].status = poller.seen
  /\ row' = Set(t, "claimed")
  /\ exec' = [exec EXCEPT ![Poller] = [Idle EXCEPT !.pc = "started", !.task = t]]
  /\ poller' = PollerOff
  /\ UNCHANGED <<running, argus, sage, now, spent>>

\* Not claimed: the row is parked elsewhere, or another runner moved it first.
\* An exception ends the process, except inside block_task.
PollPass ==
  LET r == Cas(poller.task, poller.seen, poller.move)
      next == [PollerOff EXCEPT !.pc = "scan", !.list = poller.list]
  IN
  /\ poller.pc = "move"
  /\ \/ /\ poller.move # "claimed" \/ row[poller.task].status # poller.seen
        /\ Acked(r) /\ poller' = next
     \/ Failed(r) /\ poller' = (IF poller.move = "blocked" THEN next ELSE PollerOff)
  /\ UNCHANGED <<running, argus, exec, sage, now>>

PollDone ==
  /\ poller.pc = "scan" /\ poller.list = {}
  /\ poller' = PollerOff
  /\ UNCHANGED <<row, running, argus, exec, sage, now, spent>>

PollerCrash ==
  /\ poller # PollerOff \/ exec[Poller] # Idle
  /\ Spend("crash")
  /\ poller' = PollerOff
  /\ exec' = [exec EXCEPT ![Poller] = Idle]
  /\ UNCHANGED <<row, running, argus, sage, now>>

-----------------------------------------------------------------------------
(* Sage.                                                                   *)

Seen(t) == [task |-> t, accepted |-> row[t].accepted]

\* The batch is cut before the rows already evaluated are dropped from it.
SagePreRead ==
  /\ sage.pc = "idle"
  /\ LET fresh == {t \in First(Claimable({"pending", "ready"}), SageBatch) : ~row[t].evaluated} IN
     fresh # {} /\ sage' = [pc |-> "pre", list |-> {Seen(t) : t \in fresh}]
  /\ UNCHANGED <<row, running, argus, exec, poller, now, spent>>

SagePostRead ==
  /\ sage.pc = "idle"
  /\ LET due == {t \in Task : row[t].status = "pending_eval"} IN
     due # {} /\ sage' = [pc |-> "post", list |-> {Seen(t) : t \in due}]
  /\ UNCHANGED <<row, running, argus, exec, poller, now, spent>>

\* The tags written are the ones read, with sage-evaluated added.
Evaluated(s) ==
  IF s.task \in Risky
  THEN [row EXCEPT ![s.task].evaluated = TRUE, ![s.task].accepted = s.accepted,
                   ![s.task].status = "pending_jeff_action"]
  ELSE [row EXCEPT ![s.task].evaluated = TRUE, ![s.task].accepted = s.accepted]

SageRest(s) ==
  LET rest == sage.list \ {s} IN
  sage' = IF rest = {} THEN SageIdle ELSE [sage EXCEPT !.list = rest]

SagePreWrite(s) ==
  /\ sage.pc = "pre" /\ s \in sage.list
  /\ \/ Acked(Evaluated(s)) /\ SageRest(s)
     \/ Failed(Evaluated(s)) /\ sage' = SageIdle
  /\ UNCHANGED <<running, argus, exec, poller, now>>

\* Variant: the review gate writes the retired status.
SagePostWriteRetired(s) ==
  /\ sage.pc = "post" /\ s \in sage.list
  /\ \E r \in {Set(s.task, "completed"), Set(s.task, "review_needed")} :
       Acked(r) /\ SageRest(s)
  /\ UNCHANGED <<running, argus, exec, poller, now>>

\* Approved; incomplete, so Jeff's; or a verify/review gate addressed to Jeff.
SagePostWrite(s) ==
  /\ sage.pc = "post" /\ s \in sage.list
  /\ \E r \in { Set(s.task, "completed"), Set(s.task, "pending_jeff_action"),
                [row EXCEPT ![s.task].status = "pending_jeff_action", ![s.task].target = "jeff"] } :
       \/ Acked([r EXCEPT ![s.task].result = TRUE]) /\ SageRest(s)
       \/ Failed([r EXCEPT ![s.task].result = TRUE]) /\ sage' = SageIdle
  /\ UNCHANGED <<running, argus, exec, poller, now>>

SageCrash ==
  /\ sage # SageIdle
  /\ Spend("crash")
  /\ sage' = SageIdle
  /\ UNCHANGED <<row, running, argus, exec, poller, now>>

-----------------------------------------------------------------------------
(* People, the recurring producer, and the clock.                          *)

\* Variant: the gate holds on insert only.
MovableAlways(t) == TRUE

\* The update guard refuses to move a gated row no auditor has ruled on.
Movable(t) == t \notin Gated \/ row[t].ruled

Human(r) ==
  /\ Spend("human")
  /\ row' = r
  /\ UNCHANGED <<running, argus, exec, poller, sage, now>>

\* "Set task status back to `ready` once you've provided direction."
JeffReplies(t) ==
  row[t].status = "pending_jeff_action" /\ Movable(t) /\ Human(Set(t, "ready"))

IrisSendsBack(t) == row[t].status = "pending_eval" /\ Human(Set(t, "ready"))
IrisApproves(t)  == row[t].status = "pending_eval" /\ Human(Set(t, "completed"))

Cancel(t) ==
  /\ row[t].status \notin {"completed", "cancelled"} /\ Movable(t)
  /\ Human(Set(t, "cancelled"))

\* The dashboard's reopen clears the result.
Reopen(t) ==
  /\ row[t].status \in {"completed", "failed", "pending_jeff_action"} /\ Movable(t)
  /\ Human([row EXCEPT ![t].status = "ready", ![t].result = FALSE])

\* premise_decide: the verdict releases or cancels the row, whatever its status.
PremiseDecide(t, accept) ==
  /\ t \in Gated
  /\ Human(IF accept
           THEN [row EXCEPT ![t].ruled = TRUE, ![t].accepted = TRUE, ![t].status = "ready"]
           ELSE [row EXCEPT ![t].ruled = TRUE, ![t].result = TRUE, ![t].status = "cancelled"])

\* upsert_recurring_task re-arms the row whatever it is doing.
Fire(t) ==
  /\ t \in Recurring /\ Movable(t)
  /\ Spend("fire")
  /\ row' = [row EXCEPT ![t].status = "ready", ![t].target = "agent", ![t].result = FALSE,
                        ![t].accepted = FALSE, ![t].evaluated = FALSE]
  /\ UNCHANGED <<running, argus, exec, poller, sage, now>>

Tick ==
  /\ now < MaxTime
  /\ now' = now + 1
  /\ UNCHANGED <<row, running, argus, exec, poller, sage, spent>>

-----------------------------------------------------------------------------
ArgusStep ==
  \/ ArgusFetch \/ ArgusSpawn \/ ArgusPass \/ ArgusSwept
  \/ ArgusChargeRead \/ ArgusChargeWrite \/ ArgusUnlist \/ ArgusCrash
  \/ \E t \in Task : ArgusSweep(t) \/ ArgusStall(t)

ExecStep ==
  \/ \E w \in Worker : Start(w)
  \/ \E e \in Executor :
       Launch(e) \/ Exit(e) \/ Record(e) \/ FailRead(e) \/ FailWrite(e) \/ Close(e)

PollStep ==
  \/ PollStart \/ PollSwept \/ PollFetch \/ PollJudge \/ PollClaim \/ PollPass
  \/ PollDone \/ PollerCrash
  \/ \E t \in Task : PollSweep(t)

SageStep ==
  \/ SagePreRead \/ SagePostRead \/ SageCrash
  \/ \E s \in sage.list : SagePreWrite(s) \/ SagePostWrite(s)

HumanStep ==
  \/ \E t \in Task :
       \/ JeffReplies(t) \/ IrisSendsBack(t) \/ IrisApproves(t) \/ Cancel(t) \/ Reopen(t)
       \/ \E accept \in BOOLEAN : PremiseDecide(t, accept)
       \/ Fire(t)
  \/ Tick

Next == ArgusStep \/ ExecStep \/ PollStep \/ SageStep \/ HumanStep

Spec == Init /\ [][Next]_vars

\* Daemons that run keep running: the loop comes round every POLL_INTERVAL and
\* sweeps every SWEEP_INTERVAL, threads and processes get scheduled.  Nothing
\* the environment does, and no person, is forced to act.
Quietly(A) == A /\ UNCHANGED spent

ArgusGoesOn ==
  \/ ArgusSpawn \/ ArgusPass \/ ArgusSwept \/ ArgusChargeRead \/ ArgusChargeWrite
  \/ ArgusUnlist
ExecGoesOn(e) ==
  \/ e \in Worker /\ Start(e)
  \/ Launch(e) \/ Exit(e) \/ Record(e) \/ FailRead(e) \/ FailWrite(e) \/ Close(e)
PollGoesOn == PollSwept \/ PollFetch \/ PollJudge \/ PollClaim \/ PollPass \/ PollDone

Fairness ==
  /\ WF_vars(ArgusFetch)
  /\ WF_vars(Quietly(ArgusGoesOn))
  /\ \A t \in Task : WF_vars(Quietly(ArgusSweep(t)))
  /\ \A e \in Executor : WF_vars(Quietly(ExecGoesOn(e)))
  /\ WF_vars(Quietly(PollGoesOn))

FairSpec == Spec /\ Fairness

-----------------------------------------------------------------------------
(* Properties.                                                             *)

\* The table of running tasks never lists a thread that has ended, nor a process
\* of another task: the reaping loop of _check_stalls is only a precaution.
SlotTracksLiveThread ==
  \A t \in Task : running[t] # NoSlot =>
    LET w == running[t].worker
        p == running[t].proc
    IN /\ w \in Worker /\ Alive(w) /\ exec[w].task = t
       /\ p \in Worker =>
            exec[p].task = t /\ exec[p].pc \in {"running", "exited", "failing", "closing"}

\* No row is handed out unless it is open, and handing it out closes it, whoever
\* else writes to the table meanwhile (claim PATCHes of argus and poll_queue).
Lease == INSTANCE TaskLease WITH
           open   <- {t \in Task : row[t].status \in PollerTakes},
           holder <- [e \in Executor |-> exec[e].task]
HandsOutOpenRows == Lease!LeaseSpec

\* Two claude processes never work on one row.
OneRunPerTask ==
  \A e, f \in Executor :
    exec[e].pc = "running" /\ exec[f].pc = "running" /\ exec[e].task = exec[f].task => e = f

\* Work whose result is stored is not run again unless it recurs, an auditor
\* accepted it, or somebody cleared the result (idempotency guards).
FinishedIsNotRerun ==
  [][\A e \in Executor : exec[e].pc = "idle" /\ exec'[e].pc # "idle" =>
       LET t == exec'[e].task IN t \in Recurring \/ row[t].accepted \/ ~row[t].result]_vars

\* Every failed run costs its row an attempt, although the count is read in one
\* call and written in another with the other daemon, Jeff and the sweeps in
\* between; while no lookup fails (mark_failed).
FailuresAreCharged ==
  [][\A e \in Executor : exec[e].pc = "failing" /\ exec'[e].pc = "closing" =>
       row'[exec[e].task].attempts > row[exec[e].task].attempts]_vars

\* A gated row stays parked until an auditor has ruled on it, whatever the
\* daemons read and write (145_premise_gate_update_guard.sql).
UnruledIsHeld ==
  \A t \in Gated : ~row[t].ruled =>
    /\ row[t].status = "pending_jeff_action"
    /\ \A e \in Executor : exec[e].task # t

\* A row that the poller works on, or is about to claim, is due, and its
\* prerequisites are done; unless since then a person or the recurring producer
\* has acted, a call has failed, or a daemon that writes by id has undone a
\* prerequisite which was done: Sage with a verdict on what it read before, Argus
\* with the reset or the charge of a row that others ran meanwhile, a worker that
\* still goes on with it (claim_next_task, _dependencies_incomplete).
AheadOfGates(t) ==
  /\ \/ <<"move", t, "claimed">> = <<poller.pc, poller.task, poller.move>>
     \/ Alive(Poller) /\ exec[Poller].task = t
  /\ NotBefore[t] > now \/ \E d \in Deps[t] : row[d].status # "completed"
LateWrite(d) ==
  \/ \E s \in sage.list : s.task = d /\ s \notin sage'.list
  \/ argus.pc \in {"reset", "charged"} /\ argus.task = d /\ argus' # argus
  \/ \E w \in Worker : Alive(w) /\ exec[w].task = d /\ exec'[w] # exec[w]
GatesAreRespected ==
  [][\A t \in Task :
       (AheadOfGates(t)' /\ ~AheadOfGates(t)) =>
         \/ \E k \in {"human", "fire", "outage"} : spent'[k] # spent[k]
         \/ \E d \in Deps[t] : row[d].status = "completed" /\ LateWrite(d)]_vars

\* What a row depends on is done when a run of it begins, whoever claims it
\* (blocked_by_task_ids, docs/task-queue-context-schema.md).
PrerequisitesAreEnforced ==
  [][\A e \in Executor :
       exec[e].pc = "idle" /\ exec'[e].pc # "idle" => DepsDone(exec'[e].task)]_vars

\* A row stranded in flight by a crash or a lost answer gets out of it
\* (recover_stuck_tasks).
OrphanIsRecovered == \A t \in Task : Orphan(t) ~> row[t].status \notin InFlight

\* Argus gets round to every row it may take, whatever ranks before it.
OpenIsTaken == \A t \in Task : t \in Claimable(ArgusTakes) ~> t \notin Claimable(ArgusTakes)

\* A waiting row whose gate is open and stays open leaves waiting, unless as many
\* older ones whose gates are shut as a sweep looks at keep it out of every batch
\* (sweep_waiting_tasks).
HeldThoughOpen(t) ==
  /\ row[t].status = "waiting"
  /\ NotBefore[t] # 0 \/ Deps[t] # {}
  /\ NotBefore[t] <= now /\ DepsDone(t)
GateShut(t) == row[t].status = "waiting" /\ ~HeldThoughOpen(t)
Behind(t)   == Cardinality({u \in Task : GateShut(u) /\ Created[u] < Created[t]}) >= SweepLimit
WaitingIsReleased ==
  \A t \in Task : HeldThoughOpen(t) /\ ~Behind(t) ~> ~HeldThoughOpen(t) \/ Behind(t)
=============================================================================
