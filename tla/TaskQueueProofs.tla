--------------------------- MODULE TaskQueueProofs ---------------------------
(***************************************************************************)
(* TaskQueue for any rows, workers, budgets and clock: types, the table of *)
(* running tasks, the lease, and the gated rows.                           *)
(***************************************************************************)
EXTENDS TaskQueue, TLAPS

-----------------------------------------------------------------------------
(* The calls keep the table's type.                                        *)

LEMMA SetTyped ==
  ASSUME Typed, NEW t \in Task, NEW s \in Status
  PROVE  Set(t, s) \in [Task -> Row]
<1>1. row[t] \in Row
  BY DEF Typed
<1> QED BY <1>1 DEF Typed, Set, Row

LEMMA CasTyped ==
  ASSUME Typed, NEW t \in Task, NEW s \in Status, NEW seen
  PROVE  Cas(t, seen, s) \in [Task -> Row]
BY SetTyped DEF Typed, Cas

LEMMA ChargedTyped ==
  ASSUME Typed, NEW t \in Task, NEW n \in Nat, NEW retry \in Status, NEW exhausted \in Status
  PROVE  Charged(t, n, retry, exhausted) \in [Task -> Row]
<1>1. row[t] \in Row
  BY DEF Typed
<1>2. ASSUME NEW s \in Status, NEW m \in Nat
      PROVE  [row EXCEPT ![t].attempts = m, ![t].status = s] \in [Task -> Row]
  BY <1>1 DEF Typed, Row
<1>3. n + 1 \in Nat
  OBVIOUS
<1> QED BY <1>2, <1>3, Zenon DEF Charged

LEMMA RecordedTyped ==
  ASSUME Typed, NEW t \in Task, NEW outcome
  PROVE  Recorded(t, outcome) \in [Task -> Row]
<1>1. row[t] \in Row
  BY DEF Typed
<1>2. {"pending_jeff_action", "pending_eval", "completed"} \subseteq Status
  BY DEF Status
<1>3. [row EXCEPT ![t].status = "pending_jeff_action", ![t].result = TRUE] \in [Task -> Row]
  BY <1>1, <1>2 DEF Typed, Row
<1>4. [row EXCEPT ![t].status = "pending_eval", ![t].result = TRUE, ![t].target = "cowork"]
        \in [Task -> Row]
  BY <1>1, <1>2 DEF Typed, Row
<1>5. [row EXCEPT ![t].status = "completed", ![t].result = TRUE] \in [Task -> Row]
  BY <1>1, <1>2 DEF Typed, Row
<1> QED BY <1>3, <1>4, <1>5 DEF Recorded

LEMMA EvaluatedTyped ==
  ASSUME Typed, NEW s \in [task : Task, accepted : BOOLEAN]
  PROVE  Evaluated(s) \in [Task -> Row]
<1>1. row[s.task] \in Row
  BY DEF Typed
<1>2. s.task \in Task /\ s.accepted \in BOOLEAN
  OBVIOUS
<1>3. "pending_jeff_action" \in Status
  BY DEF Status
<1>4. [row EXCEPT ![s.task].evaluated = TRUE, ![s.task].accepted = s.accepted,
                  ![s.task].status = "pending_jeff_action"] \in [Task -> Row]
  BY <1>1, <1>2, <1>3 DEF Typed, Row
<1>5. [row EXCEPT ![s.task].evaluated = TRUE, ![s.task].accepted = s.accepted] \in [Task -> Row]
  BY <1>1, <1>2 DEF Typed, Row
<1> QED BY <1>4, <1>5 DEF Evaluated

\* What a call may leave behind, answered or not.
LEMMA SentTyped ==
  ASSUME Typed, NEW r \in [Task -> Row], Acked(r) \/ Failed(r) \/ Sent(r)
  PROVE  row' \in [Task -> Row] /\ spent' \in [Event -> Nat]
BY DEF Typed, Acked, Failed, Sent, Spend

LEMMA SpendTyped ==
  ASSUME Typed, NEW k \in Event, Spend(k)
  PROVE  spent' \in [Event -> Nat]
BY DEF Typed, Spend

\* Where everybody starts.
LEMMA RestTyped ==
  /\ NoSlot \in Slot
  /\ Idle \in Exec
  /\ LoopTop \in Loop
  /\ PollerOff \in PollState
  /\ SageIdle \in SageState
<1>1. NoSlot \in Slot
  BY DEF NoSlot, Slot
<1>2. Idle \in Exec
  BY DEF Idle, Exec
<1>3. LoopTop \in Loop
  BY DEF LoopTop, Loop, Status
<1>4. PollerOff \in PollState
  BY DEF PollerOff, PollState, Status
<1>5. SageIdle \in SageState
  BY DEF SageIdle, SageState
<1> QED BY <1>1, <1>2, <1>3, <1>4, <1>5

-----------------------------------------------------------------------------
(* Type correctness.                                                       *)

LEMMA InitTyped == Init => TypeOK
<1> SUFFICES ASSUME Init PROVE TypeOK
  OBVIOUS
<1>1. row \in [Task -> Row]
  <2>1. PICK status \in [Task -> Status] :
          row = [t \in Task |->
                   [ status |-> status[t], target |-> "agent", result |-> FALSE,
                     accepted |-> FALSE, ruled |-> FALSE, evaluated |-> FALSE,
                     attempts |-> 0 ]]
    BY DEF Init
  <2> QED BY <2>1 DEF Row
<1>2. running \in [Task -> Slot] /\ exec \in [Executor -> Exec]
  BY RestTyped DEF Init
<1>3. argus \in Loop /\ poller \in PollState /\ sage \in SageState
  BY RestTyped DEF Init
<1>4. now \in Nat /\ spent \in [Event -> Nat]
  BY DEF Init
<1>5. Focused
  BY DEF Init, Focused, LoopTop, PollerOff, Idle, Executor
<1> QED BY <1>1, <1>2, <1>3, <1>4, <1>5 DEF TypeOK, Typed

\* A stall ends at most processes that run, and leaves their tasks alone.
LEMMA StallKills ==
  ASSUME TypeOK, NEW t \in Task, ArgusStall(t)
  PROVE  /\ exec' \in [Executor -> Exec]
         /\ \A e \in Executor :
              \/ exec'[e] = exec[e]
              \/ /\ exec[e].pc = "running" /\ exec'[e].pc = "exited"
                 /\ exec'[e].task = exec[e].task
<1> DEFINE p == running[t].proc
<1>1. CASE exec' = exec
  BY <1>1 DEF TypeOK, Typed
<1>2. CASE /\ p # NoWorker /\ exec[p].pc = "running"
           /\ exec' = [exec EXCEPT ![p].pc = "exited", ![p].outcome = "error"]
  <2>1. p \in Executor /\ exec[p] \in Exec
    BY <1>2 DEF TypeOK, Typed, Slot, Executor
  <2>2. exec' \in [Executor -> Exec]
    BY <1>2, <2>1 DEF TypeOK, Typed, Exec
  <2>3. \A e \in Executor : e # p => exec'[e] = exec[e]
    BY <1>2, <2>1 DEF TypeOK, Typed, Exec
  <2>4. exec'[p].pc = "exited" /\ exec'[p].task = exec[p].task
    BY <1>2, <2>1 DEF TypeOK, Typed, Exec
  <2> QED BY <1>2, <2>2, <2>3, <2>4
<1> QED BY <1>1, <1>2 DEF ArgusStall

LEMMA ArgusTyped ==
  ASSUME TypeOK, ArgusStep
  PROVE  TypeOK'
<1> USE DEF TypeOK
<1>1. CASE ArgusFetch
  <2>1. PICK t \in Task : argus' = [LoopTop EXCEPT !.pc = "claim", !.task = t,
                                      !.seen = row[t].status, !.finished = Finished(t)]
    BY <1>1 DEF ArgusFetch, First, Claimable
  <2>2. row[t].status \in Status /\ Finished(t) \in BOOLEAN
    BY DEF Typed, Row, Finished
  <2>3. argus' \in Loop /\ argus'.task \in Task
    BY <2>1, <2>2 DEF LoopTop, Loop
  <2> QED BY <1>1, <2>3 DEF ArgusFetch, Typed, Focused
<1>2. CASE ArgusSpawn
  <2>1. argus.task \in Task /\ argus' = LoopTop
    BY <1>2 DEF ArgusSpawn, Focused
  <2>2. row' \in [Task -> Row]
    BY <1>2, <2>1, SetTyped DEF ArgusSpawn, Status
  <2>3. PICK w \in Worker :
          /\ exec' = [exec EXCEPT ![w] = [Idle EXCEPT !.pc = "claimed", !.task = argus.task]]
          /\ running' = [running EXCEPT ![argus.task] = [NoSlot EXCEPT !.worker = w]]
    BY <1>2 DEF ArgusSpawn
  <2>4. [Idle EXCEPT !.pc = "claimed", !.task = argus.task] \in Exec
    BY <2>1 DEF Idle, Exec
  <2>5. [NoSlot EXCEPT !.worker = w] \in Slot
    BY DEF NoSlot, Slot
  <2>6. exec' \in [Executor -> Exec] /\ running' \in [Task -> Slot]
    BY <2>1, <2>3, <2>4, <2>5 DEF Typed
  <2>7. Typed'
    BY <1>2, <2>1, <2>2, <2>6, RestTyped DEF ArgusSpawn, Typed
  <2>8. Focused'
    BY <1>2, <2>1, <2>3, QueueAssumption DEF ArgusSpawn, Typed, Focused, LoopTop, Idle, Executor
  <2> QED BY <2>7, <2>8
<1>3. CASE ArgusPass
  <2>1. argus.task \in Task /\ argus' = LoopTop
    BY <1>3 DEF ArgusPass, Focused
  <2>2. {"pending_jeff_action", "claimed"} \subseteq Status
    BY DEF Status
  <2>3. row' \in [Task -> Row] /\ spent' \in [Event -> Nat]
    BY <1>3, <2>1, <2>2, CasTyped, SentTyped DEF ArgusPass, Typed
  <2> QED BY <1>3, <2>1, <2>3, RestTyped DEF ArgusPass, Typed, Focused, LoopTop
<1>4. CASE ArgusSwept
  <2>1. argus.task \in Task /\ argus' = LoopTop
    BY <1>4 DEF ArgusSwept, Focused
  <2>2. "ready" \in Status
    BY DEF Status
  <2>3. row' \in [Task -> Row] /\ spent' \in [Event -> Nat]
    BY <1>4, <2>1, <2>2, SetTyped, CasTyped, SentTyped DEF ArgusSwept, SweepWrites
  <2> QED BY <1>4, <2>1, <2>3, RestTyped DEF ArgusSwept, Typed, Focused, LoopTop
<1>5. CASE ArgusChargeRead
  <2>1. argus.task \in Task
    BY <1>5 DEF ArgusChargeRead, Focused
  <2>2. row[argus.task].attempts \in Nat
    BY <2>1 DEF Typed, Row
  <2>3. argus' \in Loop /\ argus'.task = argus.task
    BY <1>5, <2>2 DEF ArgusChargeRead, Typed, Loop
  <2>4. spent' \in [Event -> Nat]
    BY <1>5, SpendTyped DEF ArgusChargeRead, Typed, Event
  <2> QED BY <1>5, <2>1, <2>3, <2>4 DEF ArgusChargeRead, Typed, Focused
<1>6. CASE ArgusChargeWrite
  <2>1. argus.task \in Task /\ argus.read \in Nat
    BY <1>6 DEF ArgusChargeWrite, Typed, Focused, Loop
  <2>2. {"pending", "pending_jeff_action"} \subseteq Status
    BY DEF Status
  <2>3. row' \in [Task -> Row] /\ spent' \in [Event -> Nat]
    BY <1>6, <2>1, <2>2, ChargedTyped, SentTyped DEF ArgusChargeWrite
  <2>4. argus' \in Loop /\ argus'.task = argus.task
    BY <1>6 DEF ArgusChargeWrite, Typed, Loop
  <2> QED BY <1>6, <2>1, <2>3, <2>4 DEF ArgusChargeWrite, Typed, Focused
<1>7. CASE ArgusUnlist
  BY <1>7, RestTyped DEF ArgusUnlist, Typed, Focused, LoopTop
<1>8. CASE ArgusCrash
  <2>1. spent' \in [Event -> Nat]
    BY <1>8, SpendTyped DEF ArgusCrash, Event
  <2>2. exec' \in [Executor -> Exec] /\ running' \in [Task -> Slot]
    BY <1>8, RestTyped DEF ArgusCrash, Typed
  <2>3. Focused'
    BY <1>8, QueueAssumption DEF ArgusCrash, Focused, LoopTop, Executor
  <2> QED BY <1>8, <2>1, <2>2, <2>3, RestTyped DEF ArgusCrash, Typed
<1>9. ASSUME NEW t \in Task, ArgusSweep(t)
      PROVE  TypeOK'
  <2>1. PICK pc \in {"reset", "release"} :
          argus' = [LoopTop EXCEPT !.pc = pc, !.task = t]
    BY <1>9 DEF ArgusSweep
  <2>2. argus' \in Loop /\ argus'.task = t
    BY <2>1 DEF LoopTop, Loop, Status
  <2>3. spent' \in [Event -> Nat]
    BY <1>9, SpendTyped
       DEF ArgusSweep, SweepFinds, LooksStuck, GateOpen, DepsLookup, Typed, Event
  <2> QED BY <1>9, <2>2, <2>3 DEF ArgusSweep, Typed, Focused
<1>10. ASSUME NEW t \in Task, ArgusStall(t)
       PROVE  TypeOK'
  <2>1. argus' \in Loop /\ argus'.task = t
    BY <1>10 DEF ArgusStall, LoopTop, Loop, Status
  <2>2. spent' \in [Event -> Nat]
    BY <1>10, SpendTyped DEF ArgusStall, Event
  <2>3. exec' \in [Executor -> Exec]
    BY <1>10, StallKills
  <2>4. Idle.pc = "idle" /\ Poller \in Executor
    BY DEF Idle, Executor
  <2>5. \A e \in Executor : exec'[e] = Idle \/ (exec'[e].pc # "idle" /\ exec'[e].task \in Task)
    BY <1>10, <2>4, StallKills DEF Focused
  <2>6. poller'.pc # "off" => exec'[Poller] = Idle
    BY <1>10, <2>4, StallKills DEF ArgusStall, Focused
  <2>7. Focused'
    BY <1>10, <2>1, <2>5, <2>6 DEF ArgusStall, Focused
  <2> QED BY <1>10, <2>1, <2>2, <2>3, <2>7 DEF ArgusStall, Typed
<1> QED
  BY <1>1, <1>2, <1>3, <1>4, <1>5, <1>6, <1>7, <1>8, <1>9, <1>10 DEF ArgusStep

\* An executor that goes on with its task.
LEMMA GoesOn ==
  ASSUME TypeOK, NEW e \in Executor, exec[e] # Idle, NEW x \in Exec,
         x.pc # "idle", x.task = exec[e].task,
         exec' = [exec EXCEPT ![e] = x], UNCHANGED <<argus, poller>>
  PROVE  exec' \in [Executor -> Exec] /\ Focused'
<1>1. exec' \in [Executor -> Exec]
  BY DEF TypeOK, Typed
<1>2. \A f \in Executor : f # e => exec'[f] = exec[f]
  BY DEF TypeOK, Typed
<1>3. exec'[e] = x /\ exec[e].task \in Task
  BY DEF TypeOK, Typed, Focused
<1>4. \A f \in Executor : exec'[f] = Idle \/ (exec'[f].pc # "idle" /\ exec'[f].task \in Task)
  BY <1>2, <1>3 DEF TypeOK, Focused
<1>5. poller'.pc # "off" => exec'[Poller] = Idle
  BY <1>2 DEF TypeOK, Focused, Executor
<1> QED BY <1>1, <1>4, <1>5 DEF TypeOK, Focused

\* An executor that ends.
LEMMA Ends ==
  ASSUME TypeOK, NEW e \in Executor, exec' = [exec EXCEPT ![e] = Idle],
         UNCHANGED argus, poller' \in {poller, PollerOff}
  PROVE  exec' \in [Executor -> Exec] /\ Focused'
<1>1. exec' \in [Executor -> Exec]
  BY RestTyped DEF TypeOK, Typed
<1>2. \A f \in Executor : exec'[f] \in {exec[f], Idle}
  BY DEF TypeOK, Typed
<1>3. Poller \in Executor
  BY DEF Executor
<1>4. Focused'
  BY <1>2, <1>3 DEF TypeOK, Focused, PollerOff
<1> QED BY <1>1, <1>4

LEMMA ExecTyped ==
  ASSUME TypeOK, ExecStep
  PROVE  TypeOK'
<1>idle. Idle.pc = "idle" /\ Worker \subseteq Executor
  BY DEF Idle, Executor
<1>1. ASSUME NEW w \in Worker, Start(w)
      PROVE  TypeOK'
  <2>1. w \in Executor /\ exec[w] # Idle /\ exec[w].task \in Task /\ exec[w] \in Exec
    BY <1>1, <1>idle DEF Start, TypeOK, Typed, Focused
  <2>2. "in_progress_agent" \in Status
    BY DEF Status
  <2>3. row' \in [Task -> Row] /\ spent' \in [Event -> Nat]
    BY <1>1, <2>1, <2>2, SetTyped, SentTyped DEF Start, TypeOK
  <2> DEFINE x == [exec[w] EXCEPT !.pc = "started"]
  <2>4. x \in Exec /\ x.pc # "idle" /\ x.task = exec[w].task
    BY <2>1 DEF Exec
  <2>5. exec' = [exec EXCEPT ![w] = x]
    BY <1>1 DEF Start
  <2>6. exec' \in [Executor -> Exec] /\ Focused'
    BY <1>1, <2>1, <2>4, <2>5, GoesOn DEF Start
  <2> QED BY <1>1, <2>3, <2>6 DEF Start, TypeOK, Typed
<1>2. ASSUME NEW e \in Executor, Launch(e)
      PROVE  TypeOK'
  <2>1. exec[e] # Idle /\ exec[e].task \in Task /\ exec[e] \in Exec
    BY <1>2, <1>idle DEF Launch, TypeOK, Typed, Focused
  <2> DEFINE x == [exec[e] EXCEPT !.pc = "running"]
  <2>2. x \in Exec /\ x.pc # "idle" /\ x.task = exec[e].task
    BY <2>1 DEF Exec
  <2>3. exec' = [exec EXCEPT ![e] = x]
    BY <1>2 DEF Launch
  <2>4. exec' \in [Executor -> Exec] /\ Focused'
    BY <1>2, <2>1, <2>2, <2>3, GoesOn DEF Launch
  <2>5. running' \in [Task -> Slot]
    BY <1>2, <2>1 DEF Launch, TypeOK, Typed, Slot
  <2> QED BY <1>2, <2>4, <2>5 DEF Launch, TypeOK, Typed
<1>3. ASSUME NEW e \in Executor, Exit(e)
      PROVE  TypeOK'
  <2>1. exec[e] # Idle /\ exec[e] \in Exec
    BY <1>3, <1>idle DEF Exit, TypeOK, Typed
  <2>2. PICK outcome \in {"done", "ask", "error"} :
          exec' = [exec EXCEPT ![e].pc = "exited", ![e].outcome = outcome]
    BY <1>3 DEF Exit
  <2> DEFINE x == [exec[e] EXCEPT !.pc = "exited", !.outcome = outcome]
  <2>3. x \in Exec /\ x.pc # "idle" /\ x.task = exec[e].task
    BY <2>1 DEF Exec
  <2>4. exec' = [exec EXCEPT ![e] = x]
    BY <2>2 DEF TypeOK, Typed
  <2>5. exec' \in [Executor -> Exec] /\ Focused'
    BY <1>3, <2>1, <2>3, <2>4, GoesOn DEF Exit
  <2> QED BY <1>3, <2>5 DEF Exit, TypeOK, Typed
<1>4. ASSUME NEW e \in Executor, Record(e)
      PROVE  TypeOK'
  <2>1. exec[e] # Idle /\ exec[e].task \in Task /\ exec[e] \in Exec
    BY <1>4, <1>idle DEF Record, TypeOK, Typed, Focused
  <2>2. row' \in [Task -> Row] /\ spent' \in [Event -> Nat]
    BY <1>4, <2>1, RecordedTyped, SentTyped DEF Record, TypeOK
  <2>3. PICK x \in { [exec[e] EXCEPT !.pc = "closing"], [exec[e] EXCEPT !.outcome = "error"] } :
          exec' = [exec EXCEPT ![e] = x]
    BY <1>4 DEF Record
  <2>4. x \in Exec /\ x.pc # "idle" /\ x.task = exec[e].task
    BY <1>4, <2>1 DEF Exec, Record
  <2>5. exec' \in [Executor -> Exec] /\ Focused'
    BY <1>4, <2>1, <2>3, <2>4, GoesOn DEF Record
  <2> QED BY <1>4, <2>2, <2>5 DEF Record, TypeOK, Typed
<1>5. ASSUME NEW e \in Executor, FailRead(e)
      PROVE  TypeOK'
  <2>1. exec[e] # Idle /\ exec[e].task \in Task /\ exec[e] \in Exec
    BY <1>5, <1>idle DEF FailRead, TypeOK, Typed, Focused
  <2>2. row[exec[e].task].attempts \in Nat
    BY <2>1 DEF TypeOK, Typed, Row
  <2>3. PICK read \in Nat :
          /\ exec' = [exec EXCEPT ![e].pc = "failing", ![e].read = read]
          /\ spent' = spent \/ Spend("outage")
    BY <1>5, <2>2 DEF FailRead
  <2> DEFINE x == [exec[e] EXCEPT !.pc = "failing", !.read = read]
  <2>4. x \in Exec /\ x.pc # "idle" /\ x.task = exec[e].task
    BY <2>1 DEF Exec
  <2>5. exec' = [exec EXCEPT ![e] = x]
    BY <2>3 DEF TypeOK, Typed
  <2>6. exec' \in [Executor -> Exec] /\ Focused'
    BY <1>5, <2>1, <2>4, <2>5, GoesOn DEF FailRead
  <2>7. spent' \in [Event -> Nat]
    BY <2>3, SpendTyped DEF TypeOK, Typed, Event
  <2> QED BY <1>5, <2>6, <2>7 DEF FailRead, TypeOK, Typed
<1>6. ASSUME NEW e \in Executor, FailWrite(e)
      PROVE  TypeOK'
  <2>1. exec[e] # Idle /\ exec[e].task \in Task /\ exec[e] \in Exec /\ exec[e].read \in Nat
    BY <1>6, <1>idle DEF FailWrite, TypeOK, Typed, Focused, Exec
  <2>2. {"ready", "failed"} \subseteq Status
    BY DEF Status
  <2>3. row' \in [Task -> Row] /\ spent' \in [Event -> Nat]
    BY <1>6, <2>1, <2>2, ChargedTyped, SentTyped DEF FailWrite, TypeOK
  <2> DEFINE x == [exec[e] EXCEPT !.pc = "closing"]
  <2>4. x \in Exec /\ x.pc # "idle" /\ x.task = exec[e].task
    BY <2>1 DEF Exec
  <2>5. exec' = [exec EXCEPT ![e] = x]
    BY <1>6 DEF FailWrite
  <2>6. exec' \in [Executor -> Exec] /\ Focused'
    BY <1>6, <2>1, <2>4, <2>5, GoesOn DEF FailWrite
  <2> QED BY <1>6, <2>3, <2>6 DEF FailWrite, TypeOK, Typed
<1>7. ASSUME NEW e \in Executor, Close(e)
      PROVE  TypeOK'
  <2>1. exec' \in [Executor -> Exec] /\ Focused'
    BY <1>7, Ends DEF Close
  <2>2. running' \in [Task -> Slot]
    BY <1>7, RestTyped DEF Close, TypeOK, Typed
  <2> QED BY <1>7, <2>1, <2>2 DEF Close, TypeOK, Typed
<1> QED BY <1>1, <1>2, <1>3, <1>4, <1>5, <1>6, <1>7 DEF ExecStep

LEMMA PollTyped ==
  ASSUME TypeOK, PollStep
  PROVE  TypeOK'
<1>idle. Idle.pc = "idle" /\ Poller \in Executor
  BY DEF Idle, Executor
<1>off. PollerOff.pc = "off"
  BY DEF PollerOff
<1>1. CASE PollStart
  <2>1. poller' \in PollState /\ poller'.pc = "sweep"
    BY <1>1 DEF PollStart, PollerOff, PollState, Status
  <2>2. spent' \in [Event -> Nat]
    BY <1>1, SpendTyped DEF PollStart, TypeOK, Event
  <2> QED BY <1>1, <2>1, <2>2 DEF PollStart, TypeOK, Typed, Focused
<1>2. CASE PollSwept
  <2>1. poller.task \in Task /\ "ready" \in Status
    BY <1>2 DEF PollSwept, TypeOK, Focused, Status
  <2>2. row' \in [Task -> Row] /\ spent' \in [Event -> Nat]
    BY <1>2, <2>1, SetTyped, CasTyped, SentTyped DEF PollSwept, SweepWrites, TypeOK
  <2>3. poller' \in PollState /\ poller'.pc = "sweep"
    BY <1>2 DEF PollSwept, PollerOff, PollState, Status
  <2>4. exec[Poller] = Idle
    BY <1>2 DEF PollSwept, TypeOK, Focused
  <2> QED BY <1>2, <2>2, <2>3, <2>4 DEF PollSwept, TypeOK, Typed, Focused
<1>3. CASE PollFetch
  <2>1. PICK list \in SUBSET Snapshot : poller' = [PollerOff EXCEPT !.pc = "scan", !.list = list]
    <3> DEFINE due == {t \in Claimable(PollerTakes) : NotBefore[t] <= now}
               entry(t) == [task |-> t, seen |-> row[t].status, finished |-> Finished(t)]
               list == {entry(t) : t \in First(due, ScanLimit)}
    <3>1. \A t \in Task : entry(t) \in Snapshot
      BY DEF TypeOK, Typed, Row, Finished, Snapshot
    <3>2. First(due, ScanLimit) \subseteq Task
      BY DEF First, Claimable
    <3>3. list \in SUBSET Snapshot
      BY <3>1, <3>2
    <3>4. poller' = [PollerOff EXCEPT !.pc = "scan", !.list = list]
      BY <1>3 DEF PollFetch
    <3> QED BY <3>3, <3>4
  <2>2. poller' \in PollState /\ poller'.pc = "scan"
    BY <2>1 DEF PollerOff, PollState, Status
  <2>3. exec[Poller] = Idle
    BY <1>3 DEF PollFetch, TypeOK, Focused
  <2> QED BY <1>3, <2>2, <2>3 DEF PollFetch, TypeOK, Typed, Focused
<1>4. CASE PollJudge
  <2>1. PICK s \in poller.list, move \in Status, pc \in {"scan", "move"} :
          \/ poller' = [poller EXCEPT !.list = @ \ {s}]
          \/ poller' = [poller EXCEPT !.list = @ \ {s}, !.pc = "move", !.task = s.task,
                                      !.seen = s.seen, !.move = move]
    <3>1. {"expired", "pending_jeff_action", "blocked", "claimed"} \subseteq Status
      BY DEF Status
    <3> QED BY <1>4, <3>1 DEF PollJudge
  <2>2. s.task \in Task /\ s.seen \in Status /\ poller.list \ {s} \in SUBSET Snapshot
    BY DEF TypeOK, Typed, PollState, Snapshot
  <2>3. poller' \in PollState /\ (poller'.pc = "scan" \/ poller'.task \in Task)
    <3>1. poller \in PollState /\ poller.pc = "scan"
      BY <1>4 DEF PollJudge, TypeOK, Typed
    <3>2. CASE poller' = [poller EXCEPT !.list = @ \ {s}]
      BY <2>2, <3>1, <3>2 DEF PollState, Snapshot
    <3>3. CASE poller' = [poller EXCEPT !.list = @ \ {s}, !.pc = "move", !.task = s.task,
                                        !.seen = s.seen, !.move = move]
      BY <2>2, <3>1, <3>3 DEF PollState, Snapshot
    <3> QED BY <2>1, <3>2, <3>3
  <2>4. exec[Poller] = Idle
    BY <1>4 DEF PollJudge, TypeOK, Focused
  <2>5. spent' \in [Event -> Nat]
    BY <1>4, SpendTyped DEF PollJudge, DepsLookup, TypeOK, Typed, Event
  <2> QED BY <1>4, <2>3, <2>4, <2>5 DEF PollJudge, TypeOK, Typed, Focused
<1>5. CASE PollClaim
  <2>1. poller.task \in Task /\ "claimed" \in Status
    BY <1>5 DEF PollClaim, TypeOK, Focused, Status
  <2>2. row' \in [Task -> Row]
    BY <1>5, <2>1, SetTyped DEF PollClaim, TypeOK
  <2> DEFINE x == [Idle EXCEPT !.pc = "started", !.task = poller.task]
  <2>3. x \in Exec /\ x.pc # "idle" /\ x.task \in Task
    BY <2>1 DEF Idle, Exec
  <2>4. exec' = [exec EXCEPT ![Poller] = x]
    BY <1>5 DEF PollClaim
  <2>5. exec' \in [Executor -> Exec]
    BY <1>idle, <2>3, <2>4 DEF TypeOK, Typed
  <2>6. \A e \in Executor : exec'[e] \in {exec[e], x}
    BY <2>4 DEF TypeOK, Typed
  <2>7. Focused'
    BY <1>5, <1>off, <2>3, <2>6 DEF PollClaim, TypeOK, Focused
  <2> QED BY <1>5, <2>2, <2>5, <2>7, RestTyped DEF PollClaim, TypeOK, Typed
<1>6. CASE PollPass
  <2>1. poller.task \in Task /\ poller.move \in Status /\ poller.list \in SUBSET Snapshot
    BY <1>6 DEF PollPass, TypeOK, Typed, Focused, PollState
  <2>2. row' \in [Task -> Row] /\ spent' \in [Event -> Nat]
    BY <1>6, <2>1, CasTyped, SentTyped DEF PollPass, TypeOK
  <2> DEFINE next == [PollerOff EXCEPT !.pc = "scan", !.list = poller.list]
  <2>3. poller' \in PollState /\ poller'.pc \in {"off", "scan"}
    <3>1. next \in PollState /\ next.pc = "scan"
      BY <2>1 DEF PollerOff, PollState, Status
    <3>2. poller' \in {next, PollerOff}
      BY <1>6 DEF PollPass
    <3> QED BY <1>off, <3>1, <3>2, RestTyped
  <2>4. exec[Poller] = Idle
    BY <1>6 DEF PollPass, TypeOK, Focused
  <2> QED BY <1>6, <2>2, <2>3, <2>4 DEF PollPass, TypeOK, Typed, Focused
<1>7. CASE PollDone
  BY <1>7, <1>off, RestTyped DEF PollDone, TypeOK, Typed, Focused
<1>8. CASE PollerCrash
  <2>1. spent' \in [Event -> Nat]
    BY <1>8, SpendTyped DEF PollerCrash, TypeOK, Event
  <2>2. exec' \in [Executor -> Exec] /\ Focused'
    BY <1>8, <1>idle, Ends DEF PollerCrash
  <2> QED BY <1>8, <2>1, <2>2, RestTyped DEF PollerCrash, TypeOK, Typed
<1>9. ASSUME NEW t \in Task, PollSweep(t)
      PROVE  TypeOK'
  <2>1. PICK pc \in {"reset", "release"} : poller' = [poller EXCEPT !.pc = pc, !.task = t]
    BY <1>9 DEF PollSweep
  <2>2. poller' \in PollState /\ poller'.task = t
    BY <2>1 DEF TypeOK, Typed, PollState
  <2>3. exec[Poller] = Idle
    BY <1>9 DEF PollSweep, TypeOK, Focused
  <2>4. spent' \in [Event -> Nat]
    BY <1>9, SpendTyped
       DEF PollSweep, SweepFinds, LooksStuck, GateOpen, DepsLookup, TypeOK, Typed, Event
  <2> QED BY <1>9, <2>2, <2>3, <2>4 DEF PollSweep, TypeOK, Typed, Focused
<1> QED
  BY <1>1, <1>2, <1>3, <1>4, <1>5, <1>6, <1>7, <1>8, <1>9 DEF PollStep

\* Sage writes the rows it read.
LEMMA SageTyped ==
  ASSUME TypeOK, SageStep
  PROVE  TypeOK'
<1>seen. \A t \in Task : Seen(t) \in [task : Task, accepted : BOOLEAN]
  BY DEF Seen, TypeOK, Typed, Row
<1>rest. ASSUME NEW s \in sage.list, SageRest(s) PROVE sage' \in SageState
  BY <1>rest, RestTyped DEF SageRest, TypeOK, Typed, SageState
<1>1. CASE SagePreRead
  <2> DEFINE fresh == {t \in First(Claimable({"pending", "ready"}), SageBatch) : ~row[t].evaluated}
  <2>1. sage' \in SageState
    <3>1. fresh \subseteq Task
      BY DEF First, Claimable
    <3>2. {Seen(t) : t \in fresh} \in SUBSET [task : Task, accepted : BOOLEAN]
      BY <1>seen, <3>1
    <3>3. sage' = [pc |-> "pre", list |-> {Seen(t) : t \in fresh}]
      BY <1>1 DEF SagePreRead
    <3> QED BY <3>2, <3>3 DEF SageState
  <2> QED BY <1>1, <2>1 DEF SagePreRead, TypeOK, Typed, Focused
<1>2. CASE SagePostRead
  <2>1. sage' \in SageState
    BY <1>2, <1>seen DEF SagePostRead, SageState
  <2> QED BY <1>2, <2>1 DEF SagePostRead, TypeOK, Typed, Focused
<1>3. CASE SageCrash
  <2>1. spent' \in [Event -> Nat]
    BY <1>3, SpendTyped DEF SageCrash, TypeOK, Event
  <2> QED BY <1>3, <2>1, RestTyped DEF SageCrash, TypeOK, Typed, Focused
<1>4. ASSUME NEW s \in sage.list, SagePreWrite(s)
      PROVE  TypeOK'
  <2>1. s \in [task : Task, accepted : BOOLEAN]
    BY DEF TypeOK, Typed, SageState
  <2>2. Evaluated(s) \in [Task -> Row]
    BY <2>1, EvaluatedTyped DEF TypeOK
  <2>3. row' \in [Task -> Row] /\ spent' \in [Event -> Nat]
    BY <1>4, <2>2, SentTyped DEF SagePreWrite, TypeOK
  <2>4. sage' \in SageState
    BY <1>4, <1>rest, RestTyped DEF SagePreWrite
  <2> QED BY <1>4, <2>3, <2>4 DEF SagePreWrite, TypeOK, Typed, Focused
<1>5. ASSUME NEW s \in sage.list, SagePostWrite(s)
      PROVE  TypeOK'
  <2>1. s.task \in Task /\ row[s.task] \in Row
    BY DEF TypeOK, Typed, SageState
  <2>2. {"completed", "pending_jeff_action"} \subseteq Status
    BY DEF Status
  <2>3. PICK r \in { Set(s.task, "completed"), Set(s.task, "pending_jeff_action"),
                     [row EXCEPT ![s.task].status = "pending_jeff_action",
                                 ![s.task].target = "jeff"] } :
          \/ Acked([r EXCEPT ![s.task].result = TRUE]) /\ SageRest(s)
          \/ Failed([r EXCEPT ![s.task].result = TRUE]) /\ sage' = SageIdle
    BY <1>5 DEF SagePostWrite
  <2>4. [row EXCEPT ![s.task].status = "pending_jeff_action", ![s.task].target = "jeff"]
          \in [Task -> Row]
    BY <2>1, <2>2 DEF TypeOK, Typed, Row
  <2>5. r \in [Task -> Row]
    BY <2>1, <2>2, <2>3, <2>4, SetTyped DEF TypeOK
  <2>6. [r EXCEPT ![s.task].result = TRUE] \in [Task -> Row]
    BY <2>1, <2>5 DEF Row
  <2>7. row' \in [Task -> Row] /\ spent' \in [Event -> Nat]
    BY <2>3, <2>6, SentTyped DEF TypeOK
  <2>8. sage' \in SageState
    BY <2>3, <1>rest, RestTyped
  <2> QED BY <1>5, <2>7, <2>8 DEF SagePostWrite, TypeOK, Typed, Focused
<1> QED BY <1>1, <1>2, <1>3, <1>4, <1>5 DEF SageStep

LEMMA HumanTyped ==
  ASSUME TypeOK, HumanStep
  PROVE  TypeOK'
<1>write. ASSUME NEW r \in [Task -> Row], Human(r) PROVE TypeOK'
  <2>1. spent' \in [Event -> Nat]
    BY <1>write, SpendTyped DEF Human, TypeOK, Event
  <2> QED BY <1>write, <2>1 DEF Human, TypeOK, Typed, Focused
<1>status. {"ready", "completed", "cancelled"} \subseteq Status
  BY DEF Status
<1>1. ASSUME NEW t \in Task,
             JeffReplies(t) \/ IrisSendsBack(t) \/ IrisApproves(t) \/ Cancel(t)
      PROVE  TypeOK'
  <2>1. PICK s \in {"ready", "completed", "cancelled"} : Human(Set(t, s))
    BY <1>1 DEF JeffReplies, IrisSendsBack, IrisApproves, Cancel
  <2> QED BY <1>write, <1>status, <2>1, SetTyped DEF TypeOK
<1>2. ASSUME NEW t \in Task, Reopen(t)
      PROVE  TypeOK'
  <2>1. row[t] \in Row
    BY DEF TypeOK, Typed
  <2>2. [row EXCEPT ![t].status = "ready", ![t].result = FALSE] \in [Task -> Row]
    BY <1>status, <2>1 DEF TypeOK, Typed, Row
  <2> QED BY <1>2, <1>write, <2>2 DEF Reopen
<1>3. ASSUME NEW t \in Task, NEW accept \in BOOLEAN, PremiseDecide(t, accept)
      PROVE  TypeOK'
  <2>1. row[t] \in Row
    BY DEF TypeOK, Typed
  <2>2. [row EXCEPT ![t].ruled = TRUE, ![t].accepted = TRUE, ![t].status = "ready"]
          \in [Task -> Row]
    BY <1>status, <2>1 DEF TypeOK, Typed, Row
  <2>3. [row EXCEPT ![t].ruled = TRUE, ![t].result = TRUE, ![t].status = "cancelled"]
          \in [Task -> Row]
    BY <1>status, <2>1 DEF TypeOK, Typed, Row
  <2> QED BY <1>3, <1>write, <2>2, <2>3 DEF PremiseDecide
<1>4. ASSUME NEW t \in Task, Fire(t)
      PROVE  TypeOK'
  <2>1. row[t] \in Row
    BY DEF TypeOK, Typed
  <2>2. [row EXCEPT ![t].status = "ready", ![t].target = "agent", ![t].result = FALSE,
                    ![t].accepted = FALSE, ![t].evaluated = FALSE] \in [Task -> Row]
    BY <1>status, <2>1 DEF TypeOK, Typed, Row
  <2>3. spent' \in [Event -> Nat]
    BY <1>4, SpendTyped DEF Fire, TypeOK, Event
  <2> QED BY <1>4, <2>2, <2>3 DEF Fire, TypeOK, Typed, Focused
<1>5. CASE Tick
  BY <1>5 DEF Tick, TypeOK, Typed, Focused
<1> QED BY <1>1, <1>2, <1>3, <1>4, <1>5 DEF HumanStep

\* Nobody writes a value of the wrong kind, and whoever is in the middle of
\* something has a row it is about.
THEOREM TypeCorrect == Spec => []TypeOK
<1>1. TypeOK /\ [Next]_vars => TypeOK'
  <2> SUFFICES ASSUME TypeOK, [Next]_vars PROVE TypeOK'
    OBVIOUS
  <2>1. CASE UNCHANGED vars
    BY <2>1 DEF vars, TypeOK, Typed, Focused
  <2> QED BY <2>1, ArgusTyped, ExecTyped, PollTyped, SageTyped, HumanTyped DEF Next
<1> QED BY <1>1, InitTyped, PTL DEF Spec

-----------------------------------------------------------------------------
(* The table of running tasks.                                             *)

\* What a worker's process is while it is on record.
OnRecord == {"running", "exited", "failing", "closing"}

\* Executors that go on with their tasks, and slots that are dropped, disturb
\* nothing.
LEMMA SlotsKept ==
  ASSUME TypeOK, SlotTracksLiveThread,
         \A e \in Worker : /\ exec'[e].task = exec[e].task
                           /\ exec[e].pc # "idle" => exec'[e].pc # "idle"
                           /\ exec[e].pc \in OnRecord => exec'[e].pc \in OnRecord,
         \A t \in Task : running'[t] \in {running[t], NoSlot}
  PROVE  SlotTracksLiveThread'
BY DEF SlotTracksLiveThread, Alive, OnRecord

\* What an executor's own steps do, its end apart.
Advance(e) == Start(e) \/ Launch(e) \/ Exit(e) \/ Record(e) \/ FailRead(e) \/ FailWrite(e)

LEMMA Advances ==
  ASSUME TypeOK, NEW e \in Executor, Advance(e)
  PROVE  /\ \A f \in Executor : f # e => exec'[f] = exec[f]
         /\ exec'[e].task = exec[e].task
         /\ exec[e].pc # "idle" /\ exec'[e].pc # "idle"
         /\ exec[e].pc \in OnRecord => exec'[e].pc \in OnRecord
<1>1. exec[e] \in Exec
  BY DEF TypeOK, Typed
<1>2. \A f \in Executor : f # e => exec'[f] = exec[f]
  BY DEF Advance, Start, Launch, Exit, Record, FailRead, FailWrite, TypeOK, Typed
<1>3. CASE Start(e)
  BY <1>1, <1>2, <1>3 DEF Start, TypeOK, Typed, OnRecord
<1>4. CASE Launch(e)
  BY <1>1, <1>2, <1>4 DEF Launch, TypeOK, Typed, OnRecord
<1>5. CASE Exit(e)
  BY <1>1, <1>2, <1>5 DEF Exit, TypeOK, Typed, OnRecord
<1>6. CASE Record(e)
  <2>1. exec[e].pc = "exited"
    BY <1>6 DEF Record
  <2>2. CASE exec' = [exec EXCEPT ![e].pc = "closing"]
    BY <1>1, <1>2, <2>1, <2>2 DEF TypeOK, Typed, Exec, OnRecord
  <2>3. CASE exec' = [exec EXCEPT ![e].outcome = "error"]
    BY <1>1, <1>2, <2>1, <2>3 DEF TypeOK, Typed, Exec, OnRecord
  <2> QED BY <1>6, <2>2, <2>3 DEF Record
<1>7. CASE FailRead(e)
  BY <1>1, <1>2, <1>7 DEF FailRead, TypeOK, Typed, OnRecord
<1>8. CASE FailWrite(e)
  BY <1>1, <1>2, <1>8 DEF FailWrite, TypeOK, Typed, OnRecord
<1> QED BY <1>3, <1>4, <1>5, <1>6, <1>7, <1>8 DEF Advance

LEMMA SlotsInit == Init => SlotTracksLiveThread
BY DEF Init, SlotTracksLiveThread

LEMMA SlotsArgus ==
  ASSUME TypeOK, SlotTracksLiveThread, ArgusStep
  PROVE  SlotTracksLiveThread'
<1>1. CASE ArgusSpawn
  <2>1. PICK w \in Worker :
          /\ exec[w] = Idle
          /\ exec' = [exec EXCEPT ![w] = [Idle EXCEPT !.pc = "claimed", !.task = argus.task]]
          /\ running' = [running EXCEPT ![argus.task] = [NoSlot EXCEPT !.worker = w]]
    BY <1>1 DEF ArgusSpawn
  <2>2. argus.task \in Task /\ w \in Executor /\ exec[w].pc = "idle"
    BY <1>1, <2>1 DEF ArgusSpawn, TypeOK, Focused, Executor, Idle
  <2>3. /\ \A e \in Worker : e # w => exec'[e] = exec[e]
        /\ exec'[w].pc = "claimed" /\ exec'[w].task = argus.task
    BY <2>1, <2>2 DEF TypeOK, Typed, Executor, Idle
  <2>4. /\ \A t \in Task : t # argus.task => running'[t] = running[t]
        /\ running'[argus.task].worker = w /\ running'[argus.task].proc = NoWorker
    BY <2>1, <2>2 DEF TypeOK, Typed, NoSlot
  <2> QED
    BY <2>2, <2>3, <2>4, QueueAssumption DEF SlotTracksLiveThread, Alive
<1>2. CASE ArgusUnlist \/ ArgusCrash
  <2>1. CASE ArgusUnlist
    BY <1>2, <2>1, SlotsKept DEF ArgusUnlist, TypeOK, Typed
  <2>2. CASE ArgusCrash
    BY <2>2 DEF ArgusCrash, SlotTracksLiveThread
  <2> QED BY <1>2, <2>1, <2>2
<1>3. ASSUME NEW t \in Task, ArgusStall(t)
      PROVE  SlotTracksLiveThread'
  BY <1>3, StallKills, SlotsKept DEF ArgusStall, Executor, OnRecord
<1>4. CASE UNCHANGED <<running, exec>>
  BY <1>4 DEF SlotTracksLiveThread, Alive
<1> QED
  BY <1>1, <1>2, <1>3, <1>4
     DEF ArgusStep, ArgusFetch, ArgusPass, ArgusSwept, ArgusChargeRead, ArgusChargeWrite,
         ArgusSweep

LEMMA SlotsExec ==
  ASSUME TypeOK, SlotTracksLiveThread, ExecStep
  PROVE  SlotTracksLiveThread'
<1>1. ASSUME NEW e \in Executor, Launch(e)
      PROVE  SlotTracksLiveThread'
  <2>1. exec[e].task \in Task /\ exec[e].pc = "started"
    BY <1>1 DEF Launch, TypeOK, Typed, Focused, Idle
  <2>2. /\ \A f \in Executor : f # e => exec'[f] = exec[f]
        /\ exec'[e].pc = "running" /\ exec'[e].task = exec[e].task
    BY <1>1 DEF Launch, TypeOK, Typed, Exec
  <2>3. CASE e \in Worker /\ running[exec[e].task] # NoSlot
    <3>1. running' = [running EXCEPT ![exec[e].task].proc = e]
      BY <1>1, <2>3 DEF Launch
    <3>2. /\ \A t \in Task : t # exec[e].task => running'[t] = running[t]
          /\ running'[exec[e].task].proc = e
          /\ running'[exec[e].task].worker = running[exec[e].task].worker
      BY <2>1, <3>1 DEF TypeOK, Typed, Slot
    <3> QED
      BY <2>1, <2>2, <2>3, <3>2 DEF SlotTracksLiveThread, Alive, Executor
  <2>4. CASE running' = running
    BY <2>1, <2>2, <2>4, SlotsKept DEF Executor, OnRecord
  <2> QED BY <1>1, <2>3, <2>4 DEF Launch
<1>2. ASSUME NEW e \in Executor, Close(e)
      PROVE  SlotTracksLiveThread'
  <2>1. exec[e].task \in Task
    BY <1>2 DEF Close, TypeOK, Typed, Focused, Idle
  <2>2. \A f \in Executor : f # e => exec'[f] = exec[f]
    BY <1>2 DEF Close, TypeOK, Typed
  <2>3. CASE e \in Worker
    <3>1. /\ \A t \in Task : t # exec[e].task => running'[t] = running[t]
          /\ running'[exec[e].task] = NoSlot
      BY <1>2, <2>1, <2>3 DEF Close, TypeOK, Typed
    <3> QED
      BY <2>2, <3>1 DEF SlotTracksLiveThread, Alive, Executor
  <2>4. CASE e \notin Worker
    BY <1>2, <2>2, <2>4 DEF Close, SlotTracksLiveThread, Alive, Executor
  <2> QED BY <2>3, <2>4
<1>3. ASSUME NEW e \in Executor,
             Start(e) \/ Exit(e) \/ Record(e) \/ FailRead(e) \/ FailWrite(e)
      PROVE  SlotTracksLiveThread'
  <2>1. running' = running
    BY <1>3 DEF Start, Exit, Record, FailRead, FailWrite
  <2> QED BY <1>3, <2>1, Advances, SlotsKept DEF Advance, Executor
<1> QED BY <1>1, <1>2, <1>3 DEF ExecStep, Executor

LEMMA SlotsElse ==
  ASSUME TypeOK, SlotTracksLiveThread, PollStep \/ SageStep \/ HumanStep
  PROVE  SlotTracksLiveThread'
<1>1. running' = running
  BY DEF PollStep, PollStart, PollSwept, PollFetch, PollJudge, PollClaim, PollPass, PollDone,
         PollerCrash, PollSweep, SageStep, SagePreRead, SagePostRead, SageCrash, SagePreWrite,
         SagePostWrite, HumanStep, JeffReplies, IrisSendsBack, IrisApproves, Cancel, Reopen,
         PremiseDecide, Fire, Tick, Human
<1>2. exec' = exec \/ \E x \in Exec : exec' = [exec EXCEPT ![Poller] = x]
  <2>1. CASE PollClaim
    <3>1. poller.task \in Task
      BY <2>1 DEF PollClaim, TypeOK, Focused
    <3>2. [Idle EXCEPT !.pc = "started", !.task = poller.task] \in Exec
      BY <3>1 DEF Idle, Exec
    <3> QED BY <2>1, <3>2 DEF PollClaim
  <2>2. CASE PollerCrash
    BY <2>2, RestTyped DEF PollerCrash
  <2>3. CASE ~PollClaim /\ ~PollerCrash
    BY <2>3 DEF PollStep, PollStart, PollSwept, PollFetch, PollJudge, PollPass, PollDone,
         PollSweep, SageStep, SagePreRead, SagePostRead, SageCrash, SagePreWrite,
         SagePostWrite, HumanStep, JeffReplies, IrisSendsBack, IrisApproves, Cancel, Reopen,
         PremiseDecide, Fire, Tick, Human
  <2> QED BY <2>1, <2>2, <2>3
<1>3. \A e \in Worker : exec'[e] = exec[e]
  BY <1>2, QueueAssumption DEF TypeOK, Typed, Executor
<1> QED BY <1>1, <1>3, SlotsKept

\* The dictionary of running tasks never goes stale, whatever the loop and the
\* threads do to it and whenever they do it.
THEOREM SlotsTrackThreads == Spec => []SlotTracksLiveThread
<1>1. TypeOK /\ SlotTracksLiveThread /\ [Next]_vars => SlotTracksLiveThread'
  <2> SUFFICES ASSUME TypeOK, SlotTracksLiveThread, [Next]_vars PROVE SlotTracksLiveThread'
    OBVIOUS
  <2>1. CASE UNCHANGED vars
    BY <2>1 DEF vars, SlotTracksLiveThread, Alive
  <2> QED BY <2>1, SlotsArgus, SlotsExec, SlotsElse DEF Next
<1> QED BY <1>1, SlotsInit, TypeCorrect, PTL DEF Spec

-----------------------------------------------------------------------------
(* The lease.                                                              *)

\* A claim is guarded by a status its claimant may take: this, and that a claim
\* closes the row, is all the lease rests on.
SeenOpen ==
  /\ argus.pc = "claim" => argus.seen \in PollerTakes
  /\ \A s \in poller.list : s.seen \in PollerTakes
  /\ poller.pc = "move" => poller.seen \in PollerTakes

LEMMA SeenOpenInit == Init => SeenOpen
BY DEF Init, SeenOpen, LoopTop, PollerOff

LEMMA SeenOpenArgus ==
  ASSUME TypeOK, SeenOpen, ArgusStep
  PROVE  SeenOpen'
<1>1. poller' = poller
  BY DEF ArgusStep, ArgusFetch, ArgusSpawn, ArgusPass, ArgusSwept, ArgusChargeRead,
         ArgusChargeWrite, ArgusUnlist, ArgusCrash, ArgusSweep, ArgusStall
<1>2. argus'.pc = "claim" => argus'.seen \in PollerTakes
  <2>1. CASE ArgusFetch
    BY <2>1 DEF ArgusFetch, First, Claimable, LoopTop, ArgusTakes, PollerTakes
  <2>2. CASE ~ArgusFetch
    <3>1. CASE argus' = LoopTop
      BY <3>1 DEF LoopTop
    <3>2. CASE ArgusChargeRead \/ ArgusChargeWrite
      BY <3>2 DEF ArgusChargeRead, ArgusChargeWrite, TypeOK, Typed, Loop
    <3>3. ASSUME NEW t \in Task, ArgusSweep(t) \/ ArgusStall(t)
          PROVE  argus'.pc # "claim"
      BY <3>3 DEF ArgusSweep, ArgusStall, LoopTop
    <3> QED
      BY <2>2, <3>1, <3>2, <3>3
         DEF ArgusStep, ArgusSpawn, ArgusPass, ArgusSwept, ArgusUnlist, ArgusCrash
  <2> QED BY <2>1, <2>2
<1> QED BY <1>1, <1>2 DEF SeenOpen

LEMMA SeenOpenPoll ==
  ASSUME TypeOK, SeenOpen, PollStep
  PROVE  SeenOpen'
<1>1. argus' = argus
  BY DEF PollStep, PollStart, PollSwept, PollFetch, PollJudge, PollClaim, PollPass, PollDone,
         PollerCrash, PollSweep
<1> SUFFICES /\ \A s \in poller'.list : s.seen \in PollerTakes
             /\ poller'.pc = "move" => poller'.seen \in PollerTakes
  BY <1>1 DEF SeenOpen
<1>2. CASE PollFetch
  <2> DEFINE due == {t \in Claimable(PollerTakes) : NotBefore[t] <= now}
             entry(t) == [task |-> t, seen |-> row[t].status, finished |-> Finished(t)]
  <2>1. poller' = [PollerOff EXCEPT !.pc = "scan", !.list = {entry(t) : t \in First(due, ScanLimit)}]
    BY <1>2 DEF PollFetch
  <2>2. poller'.pc = "scan" /\ poller'.list = {entry(t) : t \in First(due, ScanLimit)}
    BY <2>1 DEF PollerOff
  <2>3. \A t \in First(due, ScanLimit) : entry(t).seen \in PollerTakes
    BY DEF First, Claimable
  <2> QED BY <2>2, <2>3
<1>3. CASE PollJudge
  <2>1. poller \in PollState /\ poller.pc = "scan"
    BY <1>3 DEF PollJudge, TypeOK, Typed
  <2>2. PICK s \in poller.list, move \in {"expired", "pending_jeff_action", "blocked", "claimed"} :
          \/ poller' = [poller EXCEPT !.list = @ \ {s}]
          \/ poller' = [poller EXCEPT !.list = @ \ {s}, !.pc = "move", !.task = s.task,
                                      !.seen = s.seen, !.move = move]
    BY <1>3 DEF PollJudge
  <2> QED BY <2>1, <2>2 DEF SeenOpen, PollState
<1>4. CASE PollPass
  <2> DEFINE next == [PollerOff EXCEPT !.pc = "scan", !.list = poller.list]
  <2>1. poller' = next \/ poller' = PollerOff
    BY <1>4 DEF PollPass
  <2>2. next.pc = "scan" /\ next.list = poller.list
    BY DEF PollerOff
  <2>3. PollerOff.pc = "off" /\ PollerOff.list = {}
    BY DEF PollerOff
  <2> QED BY <2>1, <2>2, <2>3 DEF SeenOpen
<1>5. ASSUME NEW t \in Task, PollSweep(t)
      PROVE  poller'.list = poller.list /\ poller'.pc # "move"
  BY <1>5 DEF PollSweep, TypeOK, Typed, PollState
<1>6. CASE poller'.list = {} /\ poller'.pc # "move"
  BY <1>6
<1> QED
  BY <1>2, <1>3, <1>4, <1>5, <1>6
     DEF PollStep, PollStart, PollSwept, PollClaim, PollDone, PollerCrash, PollerOff, SeenOpen

LEMMA SeenOpenElse ==
  ASSUME TypeOK, SeenOpen, ExecStep \/ SageStep \/ HumanStep
  PROVE  SeenOpen'
<1>1. UNCHANGED <<argus, poller>>
  BY DEF ExecStep, Start, Launch, Exit, Record, FailRead, FailWrite, Close,
         SageStep, SagePreRead, SagePostRead, SageCrash, SagePreWrite, SagePostWrite,
         HumanStep, JeffReplies, IrisSendsBack, IrisApproves, Cancel, Reopen, PremiseDecide,
         Fire, Tick, Human
<1> QED BY <1>1 DEF SeenOpen

LEMMA SeenOpenCorrect == Spec => []SeenOpen
<1>1. TypeOK /\ SeenOpen /\ [Next]_vars => SeenOpen'
  <2> SUFFICES ASSUME TypeOK, SeenOpen, [Next]_vars PROVE SeenOpen'
    OBVIOUS
  <2>1. CASE UNCHANGED vars
    BY <2>1 DEF vars, SeenOpen
  <2> QED BY <2>1, SeenOpenArgus, SeenOpenPoll, SeenOpenElse DEF Next
<1> QED BY <1>1, SeenOpenInit, TypeCorrect, PTL DEF Spec

\* Steps that hand nothing out and take nothing back.
LEMMA TasksKept ==
  ASSUME TypeOK, Next, ~ArgusSpawn, ~PollClaim, ~ArgusCrash, ~PollerCrash,
         \A e \in Executor : ~Close(e)
  PROVE  \A e \in Executor : exec'[e].task = exec[e].task
<1>1. ASSUME NEW e \in Executor, Advance(e)
      PROVE  \A f \in Executor : exec'[f].task = exec[f].task
  BY <1>1, Advances
<1>2. ASSUME NEW t \in Task, ArgusStall(t)
      PROVE  \A f \in Executor : exec'[f].task = exec[f].task
  BY <1>2, StallKills
<1>3. CASE exec' = exec
  BY <1>3
<1>4. CASE ArgusStep
  BY <1>2, <1>3, <1>4
     DEF ArgusStep, ArgusFetch, ArgusPass, ArgusSwept, ArgusChargeRead, ArgusChargeWrite,
         ArgusUnlist, ArgusSweep
<1>5. CASE ExecStep
  BY <1>1, <1>5 DEF ExecStep, Advance, Executor
<1>6. CASE PollStep \/ SageStep \/ HumanStep
  BY <1>3, <1>6
     DEF PollStep, PollStart, PollSwept, PollFetch, PollJudge, PollPass, PollDone, PollSweep,
         SageStep, SagePreRead, SagePostRead, SageCrash, SagePreWrite, SagePostWrite,
         HumanStep, JeffReplies, IrisSendsBack, IrisApproves, Cancel, Reopen, PremiseDecide,
         Fire, Tick, Human
<1> QED BY <1>4, <1>5, <1>6 DEF Next

OpenRows == {t \in Task : row[t].status \in PollerTakes}
Holders  == [e \in Executor |-> exec[e].task]

\* A claim as the lease sees it.
LEMMA ClaimIsGrant ==
  ASSUME TypeOK, NEW e \in Executor, NEW t \in Task, NEW x \in Exec,
         row[t].status \in PollerTakes, exec[e] = Idle, x.task = t,
         row' = Set(t, "claimed"), exec' = [exec EXCEPT ![e] = x]
  PROVE  Lease!Grant(e, t)
<1>1. Holders[e] = NoTask
  BY DEF Holders, Idle
<1>2. Holders' = [Holders EXCEPT ![e] = t]
  BY DEF Holders, TypeOK, Typed
<1>3. OpenRows' = OpenRows \ {t}
  <2>1. row'[t].status = "claimed" /\ \A u \in Task : u # t => row'[u] = row[u]
    BY DEF TypeOK, Typed, Set, Row
  <2> QED BY <2>1 DEF OpenRows, PollerTakes
<1>4. t \in OpenRows
  BY DEF OpenRows
<1> QED BY <1>1, <1>2, <1>3, <1>4 DEF Lease!Grant, OpenRows, Holders

LEMMA LeaseStep ==
  ASSUME TypeOK, SeenOpen, Next
  PROVE  [Lease!LeaseNext]_(Lease!leaseVars)
<1>1. CASE ArgusSpawn
  <2>1. PICK t \in Task : t = argus.task /\ row[t].status \in PollerTakes
    BY <1>1 DEF ArgusSpawn, TypeOK, Focused, SeenOpen
  <2>2. PICK w \in Worker :
          /\ exec[w] = Idle
          /\ exec' = [exec EXCEPT ![w] = [Idle EXCEPT !.pc = "claimed", !.task = t]]
    BY <1>1, <2>1 DEF ArgusSpawn
  <2>3. PICK x \in Exec : x = [Idle EXCEPT !.pc = "claimed", !.task = t] /\ x.task = t
    <3>1. [Idle EXCEPT !.pc = "claimed", !.task = t] \in Exec
      BY DEF Idle, Exec
    <3>2. [Idle EXCEPT !.pc = "claimed", !.task = t].task = t
      BY DEF Idle
    <3> QED BY <3>1, <3>2
  <2>4. row' = Set(t, "claimed") /\ w \in Executor
    BY <1>1, <2>1 DEF ArgusSpawn, Executor
  <2>5. Lease!Grant(w, t)
    BY <2>1, <2>2, <2>3, <2>4, ClaimIsGrant
  <2> QED BY <2>4, <2>5 DEF Lease!LeaseNext
<1>2. CASE PollClaim
  <2>1. PICK t \in Task :
          t = poller.task /\ row[t].status \in PollerTakes /\ exec[Poller] = Idle
    BY <1>2 DEF PollClaim, TypeOK, Focused, SeenOpen
  <2>2. PICK x \in Exec : x = [Idle EXCEPT !.pc = "started", !.task = t] /\ x.task = t
    <3>1. [Idle EXCEPT !.pc = "started", !.task = t] \in Exec
      BY DEF Idle, Exec
    <3>2. [Idle EXCEPT !.pc = "started", !.task = t].task = t
      BY DEF Idle
    <3> QED BY <3>1, <3>2
  <2>3. /\ row' = Set(t, "claimed") /\ exec' = [exec EXCEPT ![Poller] = x]
        /\ Poller \in Executor
    BY <1>2, <2>1, <2>2 DEF PollClaim, Executor
  <2>4. Lease!Grant(Poller, t)
    BY <2>1, <2>2, <2>3, ClaimIsGrant
  <2> QED BY <2>3, <2>4 DEF Lease!LeaseNext
<1>3. ASSUME NEW gone \in SUBSET Executor, UNCHANGED row,
             exec' = [e \in Executor |-> IF e \in gone THEN Idle ELSE exec[e]]
      PROVE  Lease!LeaseNext
  <2>1. Holders' = [e \in Executor |-> IF e \in gone THEN NoTask ELSE Holders[e]]
    BY <1>3 DEF Holders, Idle
  <2>2. OpenRows' = OpenRows
    BY <1>3 DEF OpenRows
  <2>3. Lease!Drop(gone)
    BY <2>1, <2>2 DEF Lease!Drop, OpenRows, Holders
  <2> QED BY <2>3 DEF Lease!LeaseNext
<1>4. CASE ArgusCrash
  BY <1>3, <1>4 DEF ArgusCrash, Executor
<1>5. ASSUME NEW e \in Executor, exec' = [exec EXCEPT ![e] = Idle], UNCHANGED row
      PROVE  Lease!LeaseNext
  <2>1. exec' = [f \in Executor |-> IF f \in {e} THEN Idle ELSE exec[f]]
    BY <1>5 DEF TypeOK, Typed
  <2> QED BY <1>3, <1>5, <2>1
<1>6. CASE PollerCrash
  BY <1>5, <1>6 DEF PollerCrash, Executor
<1>7. ASSUME NEW e \in Executor, Close(e)
      PROVE  Lease!LeaseNext
  BY <1>5, <1>7 DEF Close
<1>8. CASE /\ ~ArgusSpawn /\ ~PollClaim /\ ~ArgusCrash /\ ~PollerCrash
           /\ \A e \in Executor : ~Close(e)
  <2>1. Holders' = Holders
    BY <1>8, TasksKept DEF Holders
  <2>2. OpenRows' \in SUBSET Task
    BY DEF OpenRows
  <2>3. Lease!Amend
    BY <2>1, <2>2 DEF Lease!Amend, OpenRows, Holders
  <2> QED BY <2>3 DEF Lease!LeaseNext
<1> QED BY <1>1, <1>2, <1>4, <1>6, <1>7, <1>8

\* The queue implements the lease: whatever the daemons and people write in
\* between, a claim takes an open row, closes it, and goes to an executor that
\* has none.
THEOREM QueueIsLease == Spec => HandsOutOpenRows
<1>1. Init => Lease!LeaseInit
  BY DEF Init, Lease!LeaseInit, Idle
<1>2. TypeOK /\ SeenOpen /\ [Next]_vars => [Lease!LeaseNext]_(Lease!leaseVars)
  <2> SUFFICES ASSUME TypeOK, SeenOpen, [Next]_vars
               PROVE  [Lease!LeaseNext]_(Lease!leaseVars)
    OBVIOUS
  <2>1. CASE UNCHANGED vars
    BY <2>1 DEF vars, Lease!leaseVars
  <2> QED BY <2>1, LeaseStep
<1> QED
  BY <1>1, <1>2, TypeCorrect, SeenOpenCorrect, PTL DEF Spec, HandsOutOpenRows, Lease!LeaseSpec

-----------------------------------------------------------------------------
(* The premise gate.                                                       *)

\* Nobody has a gated row in hand before an auditor has ruled on it, and no such
\* row is anywhere but with Jeff.  (Movable is what the update guard asks.)
HeldBack ==
  /\ \A t \in Task : row[t].status # "pending_jeff_action" \/ running[t] # NoSlot => Movable(t)
  /\ argus.task \in Task => Movable(argus.task)
  /\ \A e \in Executor : exec[e].task \in Task => Movable(exec[e].task)
  /\ poller.task \in Task => Movable(poller.task)
  /\ \A s \in poller.list : Movable(s.task)
  /\ \A s \in sage.list : Movable(s.task)

LEMMA HeldBackInit == Init => HeldBack
<1> SUFFICES ASSUME Init PROVE HeldBack
  OBVIOUS
<1>1. \A t \in Task : row[t].status # "pending_jeff_action" => Movable(t)
  <2>1. PICK status \in [Task -> Status] :
          /\ \A t \in Task : status[t] \in Filed[t]
          /\ row = [t \in Task |->
                      [ status |-> status[t], target |-> "agent", result |-> FALSE,
                        accepted |-> FALSE, ruled |-> FALSE, evaluated |-> FALSE,
                        attempts |-> 0 ]]
    BY DEF Init
  <2> QED BY <2>1, FiledAssumption DEF Movable
<1>2. \A t \in Task : running[t] = NoSlot
  BY DEF Init
<1> QED
  BY <1>1, <1>2, QueueAssumption DEF Init, HeldBack, LoopTop, PollerOff, SageIdle, Idle

\* r differs from the table in row u at most, and not in whether it was ruled on.
Touches(u, r) ==
  /\ \A t \in Task : t # u => r[t] = row[t]
  /\ r[u].ruled = row[u].ruled

LEMMA SetTouches ==
  ASSUME Typed, NEW u \in Task, NEW s, NEW seen
  PROVE  Touches(u, Set(u, s)) /\ Touches(u, Cas(u, seen, s))
BY DEF Typed, Row, Set, Cas, Touches

LEMMA ChargedTouches ==
  ASSUME Typed, NEW u \in Task, NEW n, NEW retry, NEW exhausted
  PROVE  Touches(u, Charged(u, n, retry, exhausted))
<1>1. row[u] \in Row
  BY DEF Typed
<1>2. ASSUME NEW m, NEW s
      PROVE  Touches(u, [row EXCEPT ![u].attempts = m, ![u].status = s])
  BY <1>1 DEF Typed, Row, Touches
<1> QED BY <1>2, Zenon DEF Charged

LEMMA RecordedTouches ==
  ASSUME Typed, NEW u \in Task, NEW outcome
  PROVE  Touches(u, Recorded(u, outcome))
<1>1. row[u] \in Row
  BY DEF Typed
<1>2. Touches(u, [row EXCEPT ![u].status = "pending_jeff_action", ![u].result = TRUE])
  BY <1>1 DEF Typed, Row, Touches
<1>3. Touches(u, [row EXCEPT ![u].status = "pending_eval", ![u].result = TRUE, ![u].target = "cowork"])
  BY <1>1 DEF Typed, Row, Touches
<1>4. Touches(u, [row EXCEPT ![u].status = "completed", ![u].result = TRUE])
  BY <1>1 DEF Typed, Row, Touches
<1> QED BY <1>2, <1>3, <1>4 DEF Recorded

LEMMA EvaluatedTouches ==
  ASSUME Typed, NEW s \in [task : Task, accepted : BOOLEAN]
  PROVE  Touches(s.task, Evaluated(s))
<1>1. s.task \in Task /\ row[s.task] \in Row
  BY DEF Typed
<1>2. Touches(s.task, [row EXCEPT ![s.task].evaluated = TRUE, ![s.task].accepted = s.accepted,
                                  ![s.task].status = "pending_jeff_action"])
  BY <1>1 DEF Typed, Row, Touches
<1>3. Touches(s.task, [row EXCEPT ![s.task].evaluated = TRUE, ![s.task].accepted = s.accepted])
  BY <1>1 DEF Typed, Row, Touches
<1> QED BY <1>2, <1>3 DEF Evaluated

\* Everything that was movable stays so, and what has changed is movable.
RowsHeld ==
  \A t \in Task : /\ Movable(t) => Movable(t)'
                  /\ row'[t] # row[t] => Movable(t)'

LEMMA TouchHeld ==
  ASSUME TypeOK, NEW u \in Task, Movable(u), Touches(u, row') \/ row' = row
  PROVE  RowsHeld
BY DEF Touches, RowsHeld, Movable

LEMMA SentHeld ==
  ASSUME TypeOK, NEW u \in Task, Movable(u), NEW r, Touches(u, r),
         Acked(r) \/ Failed(r) \/ Sent(r)
  PROVE  RowsHeld
BY TouchHeld DEF Acked, Failed, Sent

LEMMA SameHeld ==
  ASSUME row' = row
  PROVE  RowsHeld
BY DEF RowsHeld, Movable

LEMMA RowsHeldArgus ==
  ASSUME TypeOK, HeldBack, ArgusStep
  PROVE  RowsHeld
<1>1. CASE ArgusSpawn
  BY <1>1, SetTouches, TouchHeld DEF ArgusSpawn, HeldBack, TypeOK, Focused
<1>2. CASE ArgusPass
  <2>1. argus.task \in Task /\ Movable(argus.task)
    BY <1>2 DEF ArgusPass, HeldBack, TypeOK, Focused
  <2> QED BY <1>2, <2>1, SetTouches, SentHeld, SameHeld DEF ArgusPass, TypeOK
<1>3. CASE ArgusSwept
  <2>1. argus.task \in Task /\ Movable(argus.task)
    BY <1>3 DEF ArgusSwept, HeldBack, TypeOK, Focused
  <2> QED BY <1>3, <2>1, SetTouches, SentHeld DEF ArgusSwept, SweepWrites, TypeOK
<1>4. CASE ArgusChargeWrite
  <2>1. argus.task \in Task /\ Movable(argus.task)
    BY <1>4 DEF ArgusChargeWrite, HeldBack, TypeOK, Focused
  <2> QED BY <1>4, <2>1, ChargedTouches, SentHeld DEF ArgusChargeWrite, TypeOK
<1>5. CASE UNCHANGED row
  BY <1>5, SameHeld
<1> QED
  BY <1>1, <1>2, <1>3, <1>4, <1>5
     DEF ArgusStep, ArgusFetch, ArgusChargeRead, ArgusUnlist, ArgusCrash, ArgusSweep, ArgusStall

LEMMA RowsHeldExec ==
  ASSUME TypeOK, HeldBack, ExecStep
  PROVE  RowsHeld
<1>1. ASSUME NEW e \in Executor, Start(e) \/ Record(e) \/ FailWrite(e)
      PROVE  RowsHeld
  <2>1. exec[e].task \in Task /\ Movable(exec[e].task)
    BY <1>1 DEF Start, Record, FailWrite, HeldBack, TypeOK, Focused, Idle
  <2>2. CASE Start(e)
    BY <2>1, <2>2, SetTouches, SentHeld DEF Start, TypeOK
  <2>3. CASE Record(e)
    BY <2>1, <2>3, RecordedTouches, SentHeld DEF Record, TypeOK
  <2>4. CASE FailWrite(e)
    BY <2>1, <2>4, ChargedTouches, SentHeld DEF FailWrite, TypeOK
  <2> QED BY <1>1, <2>2, <2>3, <2>4
<1>2. CASE UNCHANGED row
  BY <1>2, SameHeld
<1> QED BY <1>1, <1>2 DEF ExecStep, Launch, Exit, FailRead, Close, Executor

LEMMA RowsHeldPoll ==
  ASSUME TypeOK, HeldBack, PollStep
  PROVE  RowsHeld
<1>1. CASE PollSwept \/ PollClaim \/ PollPass
  <2>1. poller.task \in Task /\ Movable(poller.task)
    BY <1>1 DEF PollSwept, PollClaim, PollPass, HeldBack, TypeOK, Focused
  <2>2. CASE PollSwept
    BY <2>1, <2>2, SetTouches, SentHeld DEF PollSwept, SweepWrites, TypeOK
  <2>3. CASE PollClaim
    BY <2>1, <2>3, SetTouches, TouchHeld DEF PollClaim, TypeOK
  <2>4. CASE PollPass
    BY <2>1, <2>4, SetTouches, SentHeld DEF PollPass, TypeOK
  <2> QED BY <1>1, <2>2, <2>3, <2>4
<1>2. CASE UNCHANGED row
  BY <1>2, SameHeld
<1> QED
  BY <1>1, <1>2 DEF PollStep, PollStart, PollFetch, PollJudge, PollDone, PollerCrash, PollSweep

LEMMA RowsHeldSage ==
  ASSUME TypeOK, HeldBack, SageStep
  PROVE  RowsHeld
<1>1. ASSUME NEW s \in sage.list
      PROVE  s \in [task : Task, accepted : BOOLEAN] /\ s.task \in Task /\ Movable(s.task)
  BY DEF HeldBack, TypeOK, Typed, SageState
<1>2. ASSUME NEW s \in sage.list, SagePreWrite(s)
      PROVE  RowsHeld
  BY <1>1, <1>2, EvaluatedTouches, SentHeld DEF SagePreWrite, TypeOK
<1>3. ASSUME NEW s \in sage.list, SagePostWrite(s)
      PROVE  RowsHeld
  <2>1. s.task \in Task /\ Movable(s.task) /\ row[s.task] \in Row
    BY <1>1 DEF TypeOK, Typed
  <2>2. PICK r \in { Set(s.task, "completed"), Set(s.task, "pending_jeff_action"),
                     [row EXCEPT ![s.task].status = "pending_jeff_action",
                                 ![s.task].target = "jeff"] } :
          \/ Acked([r EXCEPT ![s.task].result = TRUE])
          \/ Failed([r EXCEPT ![s.task].result = TRUE])
    BY <1>3 DEF SagePostWrite
  <2>3. Touches(s.task, r) /\ r \in [Task -> Row]
    <3>1. {"completed", "pending_jeff_action"} \subseteq Status
      BY DEF Status
    <3>2. CASE r \in {Set(s.task, "completed"), Set(s.task, "pending_jeff_action")}
      <4>1. PICK x \in Status : r = Set(s.task, x)
        BY <3>1, <3>2
      <4>2. Touches(s.task, Set(s.task, x))
        BY <2>1, SetTouches DEF TypeOK
      <4>3. Set(s.task, x) \in [Task -> Row]
        BY <2>1, SetTyped DEF TypeOK
      <4> QED BY <4>1, <4>2, <4>3
    <3>3. CASE r = [row EXCEPT ![s.task].status = "pending_jeff_action",
                               ![s.task].target = "jeff"]
      <4>1. r \in [Task -> Row]
        BY <2>1, <3>1, <3>3 DEF TypeOK, Typed, Row
      <4>2. Touches(s.task, r)
        BY <2>1, <3>3 DEF Touches, TypeOK, Typed, Row
      <4> QED BY <4>1, <4>2
    <3> QED BY <2>2, <3>2, <3>3
  <2>4. Touches(s.task, [r EXCEPT ![s.task].result = TRUE])
    BY <2>1, <2>3 DEF Touches, Row
  <2> QED BY <2>1, <2>2, <2>4, SentHeld
<1>4. CASE UNCHANGED row
  BY <1>4, SameHeld
<1> QED BY <1>2, <1>3, <1>4 DEF SageStep, SagePreRead, SagePostRead, SageCrash

LEMMA RowsHeldHuman ==
  ASSUME TypeOK, HeldBack, HumanStep
  PROVE  RowsHeld
<1>1. ASSUME NEW t \in Task,
             JeffReplies(t) \/ IrisSendsBack(t) \/ IrisApproves(t) \/ Cancel(t)
      PROVE  RowsHeld
  <2>1. Movable(t)
    BY <1>1 DEF JeffReplies, IrisSendsBack, IrisApproves, Cancel, HeldBack
  <2>2. PICK s : row' = Set(t, s)
    BY <1>1 DEF JeffReplies, IrisSendsBack, IrisApproves, Cancel, Human
  <2> QED BY <2>1, <2>2, SetTouches, TouchHeld DEF TypeOK
<1>2. ASSUME NEW t \in Task, Reopen(t) \/ Fire(t)
      PROVE  RowsHeld
  <2>1. Movable(t) /\ row[t] \in Row
    BY <1>2 DEF Reopen, Fire, TypeOK, Typed
  <2>2. CASE Reopen(t)
    <3>1. row' = [row EXCEPT ![t].status = "ready", ![t].result = FALSE]
      BY <2>2 DEF Reopen, Human
    <3>2. Touches(t, row')
      BY <2>1, <3>1 DEF Touches, TypeOK, Typed, Row
    <3> QED BY <2>1, <3>2, TouchHeld
  <2>3. CASE Fire(t)
    <3>1. row' = [row EXCEPT ![t].status = "ready", ![t].target = "agent", ![t].result = FALSE,
                             ![t].accepted = FALSE, ![t].evaluated = FALSE]
      BY <2>3 DEF Fire
    <3>2. Touches(t, row')
      BY <2>1, <3>1 DEF Touches, TypeOK, Typed, Row
    <3> QED BY <2>1, <3>2, TouchHeld
  <2> QED BY <1>2, <2>2, <2>3
<1>3. ASSUME NEW t \in Task, NEW accept \in BOOLEAN, PremiseDecide(t, accept)
      PROVE  RowsHeld
  <2>1. row[t] \in Row
    BY DEF TypeOK, Typed
  <2>2. (\A u \in Task : u # t => row'[u] = row[u]) /\ row'[t].ruled
    <3>1. CASE accept
      BY <1>3, <2>1, <3>1 DEF PremiseDecide, Human, TypeOK, Typed, Row
    <3>2. CASE ~accept
      BY <1>3, <2>1, <3>2 DEF PremiseDecide, Human, TypeOK, Typed, Row
    <3> QED BY <3>1, <3>2
  <2> QED BY <2>2 DEF RowsHeld, Movable
<1>4. CASE UNCHANGED row
  BY <1>4, SameHeld
<1> QED BY <1>1, <1>2, <1>3, <1>4 DEF HumanStep, Tick

\* Whoever takes up a row finds it movable: it was in hand already, listed in
\* `running`, or fetched or swept with a status other than Jeff's.
Free(t) == t \in Task /\ row[t].status # "pending_jeff_action"

LEMMA FreeIsMovable ==
  ASSUME HeldBack, NEW t, Free(t)
  PROVE  Movable(t)
BY DEF HeldBack, Free

LEMMA SweepIsFree ==
  ASSUME NEW t \in Task, NEW pc, SweepFinds(t, pc)
  PROVE  Free(t)
BY DEF SweepFinds, LooksStuck, GateOpen, InFlight, Free

LEMMA HandsArgus ==
  ASSUME TypeOK, HeldBack, ArgusStep
  PROVE  /\ argus'.task \in {NoTask, argus.task} \/ Movable(argus'.task)
         /\ \A e \in Executor : exec'[e].task \in {NoTask, argus.task, exec[e].task}
         /\ \A t \in Task : running'[t] # NoSlot => t = argus.task \/ running[t] # NoSlot
         /\ UNCHANGED <<poller, sage>>
<1>idle. LoopTop.task = NoTask /\ Idle.task = NoTask
  BY DEF LoopTop, Idle
<1>1. CASE ArgusFetch
  <2>1. PICK t \in Claimable(ArgusTakes) :
          argus' = [LoopTop EXCEPT !.pc = "claim", !.task = t, !.seen = row[t].status,
                                   !.finished = Finished(t)]
    BY <1>1 DEF ArgusFetch, First
  <2>2. argus'.task = t /\ Free(t)
    BY <2>1 DEF LoopTop, Claimable, ArgusTakes, Free
  <2> QED BY <1>1, <2>2, FreeIsMovable DEF ArgusFetch
<1>2. CASE ArgusSpawn
  <2>1. PICK w \in Worker :
          /\ exec' = [exec EXCEPT ![w] = [Idle EXCEPT !.pc = "claimed", !.task = argus.task]]
          /\ running' = [running EXCEPT ![argus.task] = [NoSlot EXCEPT !.worker = w]]
    BY <1>2 DEF ArgusSpawn
  <2>2. \A e \in Executor : exec'[e].task \in {argus.task, exec[e].task}
    BY <2>1 DEF TypeOK, Typed, Idle
  <2>3. \A t \in Task : t # argus.task => running'[t] = running[t]
    BY <2>1 DEF TypeOK, Typed
  <2> QED BY <1>2, <1>idle, <2>2, <2>3 DEF ArgusSpawn
<1>3. CASE ArgusPass \/ ArgusSwept
  BY <1>3, <1>idle DEF ArgusPass, ArgusSwept
<1>4. CASE ArgusChargeRead \/ ArgusChargeWrite
  <2>1. argus'.task = argus.task
    BY <1>4 DEF ArgusChargeRead, ArgusChargeWrite, TypeOK, Typed, Loop
  <2> QED BY <1>4, <2>1 DEF ArgusChargeRead, ArgusChargeWrite
<1>5. CASE ArgusUnlist
  <2>1. \A t \in Task : running'[t] \in {running[t], NoSlot}
    BY <1>5 DEF ArgusUnlist, TypeOK, Typed
  <2> QED BY <1>5, <1>idle, <2>1 DEF ArgusUnlist
<1>6. CASE ArgusCrash
  BY <1>6, <1>idle DEF ArgusCrash
<1>7. ASSUME NEW t \in Task, ArgusSweep(t)
      PROVE  UNCHANGED <<running, exec, poller, sage>> /\ Movable(argus'.task)
  <2>1. PICK pc : SweepFinds(t, pc) /\ argus' = [LoopTop EXCEPT !.pc = pc, !.task = t]
    BY <1>7 DEF ArgusSweep
  <2>2. argus'.task = t
    BY <2>1 DEF LoopTop
  <2> QED BY <1>7, <2>1, <2>2, SweepIsFree, FreeIsMovable DEF ArgusSweep
<1>8. ASSUME NEW t \in Task, ArgusStall(t)
      PROVE  /\ UNCHANGED <<running, poller, sage>> /\ Movable(argus'.task)
             /\ \A e \in Executor : exec'[e].task = exec[e].task
  <2>1. argus'.task = t /\ running[t] # NoSlot
    BY <1>8 DEF ArgusStall, LoopTop
  <2>2. Movable(t)
    BY <2>1 DEF HeldBack
  <2> QED BY <1>8, <2>1, <2>2, StallKills DEF ArgusStall
<1> QED BY <1>1, <1>2, <1>3, <1>4, <1>5, <1>6, <1>7, <1>8 DEF ArgusStep

LEMMA HandsExec ==
  ASSUME TypeOK, HeldBack, ExecStep
  PROVE  /\ \A e \in Executor : exec'[e].task \in {NoTask, exec[e].task}
         /\ \A t \in Task : running'[t] # NoSlot => running[t] # NoSlot
         /\ UNCHANGED <<argus, poller, sage>>
<1>1. ASSUME NEW e \in Executor, Advance(e)
      PROVE  /\ \A f \in Executor : exec'[f].task = exec[f].task
             /\ \A t \in Task : running'[t] # NoSlot => running[t] # NoSlot
             /\ UNCHANGED <<argus, poller, sage>>
  <2>1. \A f \in Executor : exec'[f].task = exec[f].task
    BY <1>1, Advances
  <2>2. \A t \in Task : running'[t] # NoSlot => running[t] # NoSlot
    BY <1>1 DEF Advance, Start, Launch, Exit, Record, FailRead, FailWrite, TypeOK, Typed
  <2> QED
    BY <1>1, <2>1, <2>2 DEF Advance, Start, Launch, Exit, Record, FailRead, FailWrite
<1>2. ASSUME NEW e \in Executor, Close(e)
      PROVE  /\ \A f \in Executor : exec'[f].task \in {NoTask, exec[f].task}
             /\ \A t \in Task : running'[t] # NoSlot => running[t] # NoSlot
             /\ UNCHANGED <<argus, poller, sage>>
  <2>1. \A f \in Executor : exec'[f] \in {exec[f], Idle}
    BY <1>2 DEF Close, TypeOK, Typed
  <2>2. \A t \in Task : running'[t] \in {running[t], NoSlot}
    BY <1>2 DEF Close, TypeOK, Typed
  <2> QED BY <1>2, <2>1, <2>2 DEF Close, Idle
<1> QED BY <1>1, <1>2 DEF ExecStep, Advance, Executor

LEMMA HandsPoll ==
  ASSUME TypeOK, HeldBack, PollStep
  PROVE  /\ poller'.task \in {NoTask, poller.task} \/ Movable(poller'.task)
         /\ \A s \in poller'.list : s \in poller.list \/ Movable(s.task)
         /\ \A e \in Executor : exec'[e].task \in {NoTask, poller.task, exec[e].task}
         /\ UNCHANGED <<running, argus, sage>>
<1>off. PollerOff.task = NoTask /\ PollerOff.list = {}
  BY DEF PollerOff
<1>1. CASE PollStart \/ PollSwept \/ PollDone
  <2>1. poller'.task = NoTask /\ poller'.list = {}
    BY <1>1 DEF PollStart, PollSwept, PollDone, PollerOff
  <2> QED BY <1>1, <2>1 DEF PollStart, PollSwept, PollDone
<1>2. CASE PollFetch
  <2> DEFINE due == {t \in Claimable(PollerTakes) : NotBefore[t] <= now}
             entry(t) == [task |-> t, seen |-> row[t].status, finished |-> Finished(t)]
  <2>1. poller' = [PollerOff EXCEPT !.pc = "scan", !.list = {entry(t) : t \in First(due, ScanLimit)}]
    BY <1>2 DEF PollFetch
  <2>2. poller'.task = NoTask /\ poller'.list = {entry(t) : t \in First(due, ScanLimit)}
    BY <2>1 DEF PollerOff
  <2>3. \A t \in First(due, ScanLimit) : Free(t)
    BY DEF First, Claimable, PollerTakes, Free
  <2>4. \A t \in First(due, ScanLimit) : Movable(entry(t).task)
    BY <2>3, FreeIsMovable
  <2> QED BY <1>2, <2>2, <2>4 DEF PollFetch
<1>3. CASE PollJudge
  <2>1. poller \in PollState
    BY DEF TypeOK, Typed
  <2>2. PICK s \in poller.list, move \in {"expired", "pending_jeff_action", "blocked", "claimed"} :
          \/ poller' = [poller EXCEPT !.list = @ \ {s}]
          \/ poller' = [poller EXCEPT !.list = @ \ {s}, !.pc = "move", !.task = s.task,
                                      !.seen = s.seen, !.move = move]
    BY <1>3 DEF PollJudge
  <2>3. Movable(s.task)
    BY DEF HeldBack
  <2>4. poller'.list \subseteq poller.list /\ poller'.task \in {poller.task, s.task}
    BY ZenonT(60), <2>1, <2>2 DEF PollState
  <2> QED BY <1>3, <2>3, <2>4 DEF PollJudge
<1>4. CASE PollClaim
  <2>1. exec' = [exec EXCEPT ![Poller] = [Idle EXCEPT !.pc = "started", !.task = poller.task]]
    BY <1>4 DEF PollClaim
  <2>2. \A e \in Executor : exec'[e].task \in {poller.task, exec[e].task}
    BY <2>1 DEF TypeOK, Typed, Idle
  <2> QED BY <1>4, <1>off, <2>2 DEF PollClaim
<1>5. CASE PollPass
  <2> DEFINE next == [PollerOff EXCEPT !.pc = "scan", !.list = poller.list]
  <2>1. poller' = next \/ poller' = PollerOff
    BY <1>5 DEF PollPass
  <2>2. next.task = NoTask /\ next.list = poller.list
    BY DEF PollerOff
  <2> QED BY <1>5, <1>off, <2>1, <2>2 DEF PollPass
<1>6. CASE PollerCrash
  <2>1. \A e \in Executor : exec'[e] \in {exec[e], Idle}
    BY <1>6 DEF PollerCrash, TypeOK, Typed
  <2> QED BY <1>6, <1>off, <2>1 DEF PollerCrash, Idle
<1>7. ASSUME NEW t \in Task, PollSweep(t)
      PROVE  /\ Movable(poller'.task) /\ poller'.list = poller.list
             /\ UNCHANGED <<running, argus, exec, sage>>
  <2>1. PICK pc : SweepFinds(t, pc) /\ poller' = [poller EXCEPT !.pc = pc, !.task = t]
    BY <1>7 DEF PollSweep
  <2>2. poller'.task = t /\ poller'.list = poller.list
    BY <2>1 DEF TypeOK, Typed, PollState
  <2> QED BY <1>7, <2>1, <2>2, SweepIsFree, FreeIsMovable DEF PollSweep
<1> QED BY <1>1, <1>2, <1>3, <1>4, <1>5, <1>6, <1>7 DEF PollStep

LEMMA HandsSage ==
  ASSUME TypeOK, HeldBack, SageStep
  PROVE  /\ \A s \in sage'.list : s \in sage.list \/ Movable(s.task)
         /\ UNCHANGED <<running, argus, exec, poller>>
<1>idle. SageIdle.list = {}
  BY DEF SageIdle
<1>rest. ASSUME NEW s \in sage.list, SageRest(s) \/ sage' = SageIdle
         PROVE  sage'.list \subseteq sage.list
  BY <1>rest, <1>idle DEF SageRest, TypeOK, Typed, SageState
<1>1. CASE SagePreRead
  <2> DEFINE fresh == {t \in First(Claimable({"pending", "ready"}), SageBatch) : ~row[t].evaluated}
  <2>1. sage' = [pc |-> "pre", list |-> {Seen(t) : t \in fresh}]
    BY <1>1 DEF SagePreRead
  <2>2. \A t \in fresh : Free(t)
    BY DEF First, Claimable, Free
  <2>3. \A t \in fresh : Movable(Seen(t).task)
    BY <2>2, FreeIsMovable DEF Seen
  <2> QED BY <1>1, <2>1, <2>3 DEF SagePreRead
<1>2. CASE SagePostRead
  <2> DEFINE due == {t \in Task : row[t].status = "pending_eval"}
  <2>1. sage' = [pc |-> "post", list |-> {Seen(t) : t \in due}]
    BY <1>2 DEF SagePostRead
  <2>2. \A t \in due : Free(t)
    BY DEF Free
  <2>3. \A t \in due : Movable(Seen(t).task)
    BY <2>2, FreeIsMovable DEF Seen
  <2> QED BY <1>2, <2>1, <2>3 DEF SagePostRead
<1>3. CASE SageCrash
  BY <1>3, <1>idle DEF SageCrash
<1>4. ASSUME NEW s \in sage.list, SagePreWrite(s) \/ SagePostWrite(s)
      PROVE  sage'.list \subseteq sage.list /\ UNCHANGED <<running, argus, exec, poller>>
  BY <1>4, <1>rest DEF SagePreWrite, SagePostWrite
<1> QED BY <1>1, <1>2, <1>3, <1>4 DEF SageStep

LEMMA HeldBackStep ==
  ASSUME TypeOK, HeldBack, Next
  PROVE  HeldBack'
<1>1. RowsHeld
  BY RowsHeldArgus, RowsHeldExec, RowsHeldPoll, RowsHeldSage, RowsHeldHuman DEF Next
<1>2. CASE ArgusStep
  BY <1>1, <1>2, HandsArgus, QueueAssumption
     DEF HeldBack, RowsHeld, TypeOK, Typed, PollState, SageState, Snapshot
<1>3. CASE ExecStep
  BY <1>1, <1>3, HandsExec, QueueAssumption
     DEF HeldBack, RowsHeld, TypeOK, Typed, PollState, SageState, Snapshot
<1>4. CASE PollStep
  BY <1>1, <1>4, HandsPoll, PollTyped, QueueAssumption
     DEF HeldBack, RowsHeld, TypeOK, Typed, PollState, SageState, Snapshot
<1>5. CASE SageStep
  BY <1>1, <1>5, HandsSage, SageTyped, QueueAssumption
     DEF HeldBack, RowsHeld, TypeOK, Typed, PollState, SageState, Snapshot
<1>6. CASE HumanStep
  <2>1. UNCHANGED <<running, argus, exec, poller, sage>>
    BY <1>6 DEF HumanStep, JeffReplies, IrisSendsBack, IrisApproves, Cancel, Reopen,
                PremiseDecide, Fire, Tick, Human
  <2> QED
    BY <1>1, <2>1 DEF HeldBack, RowsHeld, TypeOK, Typed, PollState, SageState, Snapshot
<1> QED BY <1>2, <1>3, <1>4, <1>5, <1>6 DEF Next

\* The update guard is enough to keep the whole system's hands off a gated row:
\* no daemon holds, lists or moves it until somebody rules.
THEOREM UnruledRowsAreHeld == Spec => []UnruledIsHeld
<1>1. TypeOK /\ HeldBack /\ [Next]_vars => HeldBack'
  <2> SUFFICES ASSUME TypeOK, HeldBack, [Next]_vars PROVE HeldBack'
    OBVIOUS
  <2>1. CASE UNCHANGED vars
    BY <2>1 DEF vars, HeldBack, Movable
  <2> QED BY <2>1, HeldBackStep
<1>2. TypeOK /\ HeldBack => UnruledIsHeld
  BY QueueAssumption DEF HeldBack, Movable, UnruledIsHeld
<1> QED BY <1>1, <1>2, HeldBackInit, TypeCorrect, PTL DEF Spec
=============================================================================
