------------------------- MODULE TaskQueueRunProofs -------------------------
(***************************************************************************)
(* What the queue promises about runs while its daemons keep out of each   *)
(* other's way: one run at a time works on a row, a failed run costs an    *)
(* attempt, and finished work is not run again; each theorem names what    *)
(* must not happen, as a hypothesis about the constants.  And what the     *)
(* poller promises whatever they do: it respects the gates.                *)
(***************************************************************************)
EXTENDS TaskQueueProofs, FiniteSetTheorems

-----------------------------------------------------------------------------
(* One run at a time.                                                      *)

\* What keeps the daemons out of each other's way: no worker is given up while it
\* is at work, no live run is taken for stuck, no answer is lost, nothing is
\* re-armed, ruled on or flagged while it runs; and orphans, which only a crash
\* leaves, have one daemon to sweep them.
Undisturbed ==
  /\ \A k \in {"stall", "sweep", "outage", "fire"} : Budget[k] = 0
  /\ Budget["crash"] = 0 \/ Budget["poll"] = 0
  /\ Gated = {} /\ Risky = {}

\* At work, up to the last write to the row.
AtWork(e) == exec[e].pc \in {"claimed", "started", "running", "exited", "failing"}
Worked(t) == \E e \in Executor : AtWork(e) /\ exec[e].task = t

\* A row nobody can fetch.
Taken(t) == row[t].status \in InFlight \cup {"cancelled"} \/ row[t].target # "agent"

\* The rows whose status a daemon has read in order to claim them.
ArgusHas(t)  == argus.pc = "claim" /\ argus.task = t
PollerHas(t) == (poller.pc = "move" /\ poller.task = t) \/ \E s \in poller.list : s.task = t

Quiet ==
  /\ argus.pc \notin {"charge", "charged", "unlist"}
  /\ poller.pc # "reset"
  /\ poller.pc = "off" => poller.list = {}
  /\ poller.pc = "move" => poller.move \in {"expired", "pending_jeff_action", "blocked", "claimed"}
  /\ Budget["poll"] = 0 => poller.pc = "off"
  /\ Budget["crash"] = 0 => argus.pc # "reset"

\* A row that is worked on cannot be fetched, and a status that was read before is
\* the other daemon's.  Once a run is handed to Sage its row is never fetched again,
\* and one claim of it may still succeed.
WorkIsTaken == \A t \in Task : Worked(t) => Taken(t)
OneAtWork   == \A e, f \in Executor :
                 AtWork(e) /\ AtWork(f) /\ exec[e].task = exec[f].task => e = f
ArgusIsDone == \A w \in Worker, t \in Task : AtWork(w) /\ exec[w].task = t => ~ArgusHas(t)
LastClaim   == \A t \in Task : row[t].target # "agent" =>
                 /\ ~(ArgusHas(t) /\ PollerHas(t))
                 /\ Worked(t) => ~ArgusHas(t) /\ ~PollerHas(t)
HandedOver  == /\ \A t \in Task : row[t].status = "pending_eval" => row[t].target # "agent"
               /\ sage.pc = "post" => \A s \in sage.list : row[s.task].target # "agent"

\* Without crashes every row in flight is worked on; a reset is about one that is not.
Staffed      == Budget["crash"] = 0 => \A t \in Task : row[t].status \in InFlight => Worked(t)
ResetIsAlone == \A t \in Task : argus.pc = "reset" /\ argus.task = t => ~Worked(t) /\ Taken(t)

\* The count a failed run has read is still the row's.
CountIsFresh == \A e \in Executor : exec[e].pc = "failing" => exec[e].read = row[exec[e].task].attempts

Alone ==
  /\ TypeOK /\ SeenOpen /\ Quiet /\ WorkIsTaken /\ OneAtWork /\ ArgusIsDone /\ LastClaim
  /\ HandedOver /\ Staffed /\ ResetIsAlone /\ CountIsFresh

LEMMA AloneInit == Init => Alone
<1> SUFFICES ASSUME Init PROVE Alone
  OBVIOUS
<1>1. TypeOK /\ SeenOpen
  BY InitTyped, SeenOpenInit
<1>2. argus.pc = "loop" /\ poller.pc = "off" /\ poller.list = {} /\ sage.pc = "idle"
  BY DEF Init, LoopTop, PollerOff, SageIdle
<1>3. \A e \in Executor : exec[e].pc = "idle"
  BY DEF Init, Idle
<1>4. (\A e \in Executor : ~AtWork(e) /\ exec[e].pc # "failing") /\ \A t : ~Worked(t)
  BY <1>3 DEF AtWork, Worked
<1>5. \A t \in Task : row[t].target = "agent" /\ row[t].status \notin InFlight \cup {"pending_eval"}
  BY FiledAssumption DEF Init, InFlight
<1> QED
  BY <1>1, <1>2, <1>4, <1>5
     DEF Alone, Quiet, WorkIsTaken, OneAtWork, ArgusIsDone, LastClaim, HandedOver, Staffed,
         ResetIsAlone, CountIsFresh, ArgusHas, Executor

LEMMA Spared ==
  ASSUME Undisturbed, TypeOK, NEW k \in Event, Spend(k)
  PROVE  Budget[k] # 0 /\ k \notin {"stall", "sweep", "outage", "fire"}
<1>1. spent[k] \in Nat /\ spent[k] < Budget[k] /\ Budget[k] \in Nat
  BY QueueAssumption DEF TypeOK, Typed, Spend
<1> QED BY <1>1 DEF Undisturbed

LEMMA Answered ==
  ASSUME Undisturbed, TypeOK, NEW r
  PROVE  ~Failed(r) /\ (Sent(r) => row' = r) /\ (Acked(r) => row' = r)
BY Spared DEF Failed, Sent, Acked, Event

LEMMA AtWorkHasTask ==
  ASSUME TypeOK, NEW e \in Executor, exec[e].pc # "idle" \/ AtWork(e)
  PROVE  exec[e].task \in Task /\ exec[e].pc # "idle"
BY DEF TypeOK, Focused, Idle, AtWork

\* What a write that is not an executor's or a claim's leaves as it was.
Harmless ==
  \A t \in Task :
    /\ Worked(t) /\ Taken(t) => Taken(t)'
    /\ row'[t].target = "agent" <=> row[t].target = "agent"
    /\ row'[t].status \in InFlight => row[t].status \in InFlight
    /\ row'[t].status = "pending_eval" => row[t].status = "pending_eval"
    /\ row'[t].attempts = row[t].attempts

LEMMA SameIsHarmless == row' = row => Harmless
BY DEF Harmless, Taken

\* Steps in which no executor moves.
LEMMA OthersMove ==
  ASSUME Alone, TypeOK', SeenOpen', Quiet', UNCHANGED exec, Harmless,
         \A t \in Task : ArgusHas(t)' => ArgusHas(t) \/ ~Taken(t),
         \A t \in Task : PollerHas(t)' => PollerHas(t) \/ ~Taken(t),
         sage'.pc = "post" => \A s \in sage'.list : row'[s.task].target # "agent",
         \A t \in Task : argus'.pc = "reset" /\ argus'.task = t => ~Worked(t) /\ Taken(t)'
  PROVE  Alone'
<1>1. \A e \in Executor : AtWork(e)' <=> AtWork(e)
  BY DEF AtWork
<1>2. \A t : Worked(t)' <=> Worked(t)
  BY <1>1 DEF Worked
<1>3. \A e \in Executor : exec[e].pc = "failing" => AtWork(e)
  BY DEF AtWork
<1>4. WorkIsTaken'
  BY <1>2 DEF Alone, WorkIsTaken, Harmless
<1>5. OneAtWork'
  BY <1>1 DEF Alone, OneAtWork
<1>6. ArgusIsDone'
  <2> SUFFICES ASSUME NEW w \in Worker, NEW t \in Task, AtWork(w), exec[w].task = t, ArgusHas(t)'
               PROVE FALSE
    BY <1>1 DEF ArgusIsDone, Executor
  <2>1. Worked(t)
    BY DEF Worked, Executor
  <2> QED BY <2>1 DEF Alone, ArgusIsDone, WorkIsTaken
<1>7. LastClaim'
  <2> SUFFICES ASSUME NEW t \in Task, row'[t].target # "agent"
               PROVE  /\ ~(ArgusHas(t)' /\ PollerHas(t)')
                      /\ Worked(t) => ~ArgusHas(t)' /\ ~PollerHas(t)'
    BY <1>2 DEF LastClaim
  <2>1. row[t].target # "agent" /\ Taken(t)
    BY DEF Harmless, Taken
  <2> QED BY <2>1 DEF Alone, LastClaim
<1>8. HandedOver'
  BY DEF Alone, HandedOver, Harmless
<1>9. Staffed'
  BY <1>2 DEF Alone, Staffed, Harmless
<1>10. ResetIsAlone'
  BY <1>2 DEF ResetIsAlone
<1>11. CountIsFresh'
  BY <1>3, AtWorkHasTask DEF Alone, CountIsFresh, Harmless
<1> QED BY <1>4, <1>5, <1>6, <1>7, <1>8, <1>9, <1>10, <1>11 DEF Alone

\* An executor goes on with its row.
LEMMA WorkGoesOn ==
  ASSUME Alone, TypeOK', UNCHANGED <<argus, poller, sage>>, NEW e \in Executor,
         AtWork(e), AtWork(e)', exec'[e].task = exec[e].task,
         \A f \in Executor : f # e => exec'[f] = exec[f],
         row' = row \/ row' = Set(exec[e].task, "in_progress_agent"),
         exec'[e].pc = "failing" => exec'[e].read = row[exec[e].task].attempts
  PROVE  Alone'
<1> DEFINE t == exec[e].task
<1>1. t \in Task /\ \A f \in Executor : (AtWork(f)' <=> AtWork(f)) /\ exec'[f].task = exec[f].task
  <2>1. t \in Task
    BY AtWorkHasTask DEF Alone
  <2>2. \A f \in Executor : f # e => (AtWork(f)' <=> AtWork(f))
    BY DEF AtWork
  <2> QED BY <2>1, <2>2
<1>2. \A u : Worked(u)' <=> Worked(u)
  BY <1>1 DEF Worked
<1>3. \A u \in Task : /\ row'[u].target = row[u].target /\ row'[u].attempts = row[u].attempts
                      /\ u # t => row'[u] = row[u]
                      /\ row'[u] = row[u] \/ row'[u].status = "in_progress_agent"
  BY <1>1 DEF Alone, TypeOK, Typed, Row, Set
<1>4. \A u \in Task : Taken(u) => Taken(u)'
  BY <1>3 DEF Taken, InFlight
<1>5. Worked(t)
  BY DEF Worked
<1> HIDE DEF t
<1>6. WorkIsTaken' /\ OneAtWork' /\ ArgusIsDone'
  <2>1. WorkIsTaken'
    BY <1>2, <1>4 DEF Alone, WorkIsTaken
  <2>2. OneAtWork' /\ ArgusIsDone'
    BY <1>1 DEF Alone, OneAtWork, ArgusIsDone, ArgusHas, Executor
  <2> QED BY <2>1, <2>2
<1>7. LastClaim'
  BY <1>2, <1>3 DEF Alone, LastClaim, ArgusHas, PollerHas
<1>8. HandedOver'
  <2>1. \A s \in sage.list : s.task \in Task
    BY DEF Alone, TypeOK, Typed, SageState
  <2>2. \A u \in Task : row'[u].status = "pending_eval" => row[u].status = "pending_eval"
    BY <1>3
  <2> QED BY <1>3, <2>1, <2>2 DEF Alone, HandedOver
<1>9. Staffed'
  BY <1>2, <1>3, <1>5 DEF Alone, Staffed
<1>10. ResetIsAlone'
  BY <1>2, <1>4 DEF Alone, ResetIsAlone
<1>11. CountIsFresh'
  <2> SUFFICES ASSUME NEW f \in Executor, exec'[f].pc = "failing"
               PROVE  exec'[f].read = row'[exec'[f].task].attempts
    BY DEF CountIsFresh
  <2>1. exec'[f].task = exec[f].task /\ exec[f].task \in Task
    BY <1>1, AtWorkHasTask DEF AtWork, Alone
  <2> QED BY <1>3, <2>1 DEF Alone, CountIsFresh, t
<1>12. SeenOpen' /\ Quiet'
  BY DEF Alone, SeenOpen, Quiet
<1> QED BY <1>6, <1>7, <1>8, <1>9, <1>10, <1>11, <1>12 DEF Alone

\* An executor writes what came of its run.
LEMMA WorkEnds ==
  ASSUME Alone, TypeOK', UNCHANGED <<argus, poller, sage>>, NEW e \in Executor,
         NEW t \in Task, exec[e].task = t, AtWork(e), ~AtWork(e)',
         \A f \in Executor : f # e => exec'[f] = exec[f],
         \A u \in Task : u # t => row'[u] = row[u],
         row'[t].status \notin InFlight,
         row'[t].status = "pending_eval" => row'[t].target # "agent",
         row[t].target # "agent" => row'[t].target # "agent"
  PROVE  Alone'
<1>2. ASSUME NEW f \in Executor, AtWork(f)'
      PROVE  f # e /\ AtWork(f) /\ exec'[f] = exec[f] /\ exec[f].task \in Task \ {t}
  <2>1. f # e /\ AtWork(f) /\ exec'[f] = exec[f]
    BY <1>2 DEF AtWork
  <2> QED BY <2>1, AtWorkHasTask DEF Alone, OneAtWork
<1>3. ~Worked(t)' /\ (\A u : Worked(u)' => Worked(u)) /\ (\A u : u # t /\ Worked(u) => Worked(u)')
  <2>1. ~Worked(t)' /\ (\A u : Worked(u)' => Worked(u))
    BY <1>2 DEF Worked
  <2>2. ASSUME NEW u, u # t, Worked(u) PROVE Worked(u)'
    <3>1. PICK f \in Executor : AtWork(f) /\ exec[f].task = u
      BY <2>2 DEF Worked
    <3>2. f # e /\ exec'[f] = exec[f]
      BY <2>2, <3>1
    <3> QED BY <3>1, <3>2 DEF Worked, AtWork
  <2> QED BY <2>1, <2>2
<1>4. Worked(t)
  BY DEF Worked
<1>5. ~(ArgusHas(t) /\ PollerHas(t))
  <2>1. CASE e \in Worker
    BY <2>1 DEF Alone, ArgusIsDone
  <2>2. CASE e = Poller
    <3>1. exec[Poller] # Idle
      BY <2>2 DEF AtWork, Idle
    <3>2. poller.pc = "off" /\ poller.list = {}
      BY <3>1 DEF Alone, TypeOK, Focused, Quiet
    <3> QED BY <3>2 DEF PollerHas
  <2> QED BY <2>1, <2>2 DEF Executor
<1>6. WorkIsTaken' /\ OneAtWork' /\ ArgusIsDone'
  <2>1. WorkIsTaken'
    BY <1>3 DEF Alone, WorkIsTaken, Taken
  <2>2. OneAtWork'
    BY <1>2 DEF Alone, OneAtWork
  <2>3. ArgusIsDone'
    BY <1>2 DEF Alone, ArgusIsDone, ArgusHas, Executor
  <2> QED BY <2>1, <2>2, <2>3
<1>7. LastClaim'
  <2> SUFFICES ASSUME NEW u \in Task, row'[u].target # "agent"
               PROVE  /\ ~(ArgusHas(u) /\ PollerHas(u))
                      /\ Worked(u)' => ~ArgusHas(u) /\ ~PollerHas(u)
    BY DEF LastClaim, ArgusHas, PollerHas
  <2>1. CASE u = t
    BY <1>3, <1>5, <2>1
  <2>2. CASE u # t
    BY <1>3, <2>2 DEF Alone, LastClaim
  <2> QED BY <2>1, <2>2
<1>8. HandedOver'
  <2>1. \A s \in sage.list : s.task \in Task
    BY DEF Alone, TypeOK, Typed, SageState
  <2> QED BY <2>1 DEF Alone, HandedOver
<1>9. Staffed'
  BY <1>3 DEF Alone, Staffed
<1>10. ResetIsAlone'
  <2>1. argus.pc = "reset" => argus.task # t
    BY <1>4 DEF Alone, ResetIsAlone
  <2> QED BY <1>3, <2>1 DEF Alone, ResetIsAlone, Taken
<1>11. CountIsFresh'
  <2>1. \A f \in Executor : exec'[f].pc = "failing" => AtWork(f)'
    BY DEF AtWork
  <2> QED BY <1>2, <2>1 DEF Alone, CountIsFresh
<1>12. SeenOpen' /\ Quiet'
  BY DEF Alone, SeenOpen, Quiet
<1> QED BY <1>6, <1>7, <1>8, <1>9, <1>10, <1>11, <1>12 DEF Alone

\* Executors end, or a crash ends several of them.
LEMMA WorkersGo ==
  ASSUME Alone, TypeOK', UNCHANGED <<row, sage>>, argus' \in {argus, LoopTop},
         poller' \in {poller, PollerOff}, \A e \in Executor : exec'[e] \in {exec[e], Idle},
         Budget["crash"] # 0 \/ \A e \in Executor : AtWork(e) => exec'[e] = exec[e]
  PROVE  Alone'
<1>1. \A e \in Executor : AtWork(e)' => AtWork(e) /\ exec'[e] = exec[e]
  BY DEF AtWork, Idle
<1>2. \A u : Worked(u)' => Worked(u)
  BY <1>1 DEF Worked
<1>3. argus'.pc # "loop" => argus' = argus
  BY DEF LoopTop
<1>4. /\ SeenOpen' /\ Quiet' /\ \A t : ArgusHas(t)' => ArgusHas(t)
      /\ \A t : PollerHas(t)' => PollerHas(t)
  BY DEF Alone, SeenOpen, Quiet, LoopTop, PollerOff, ArgusHas, PollerHas
<1>5. WorkIsTaken' /\ OneAtWork'
  <2>1. WorkIsTaken'
    BY <1>2 DEF Alone, WorkIsTaken, Taken
  <2>2. OneAtWork'
    BY <1>1 DEF Alone, OneAtWork
  <2> QED BY <2>1, <2>2
<1>6. ArgusIsDone'
  BY <1>1, <1>4 DEF Alone, ArgusIsDone, Executor
<1>7. LastClaim'
  BY <1>2, <1>4 DEF Alone, LastClaim
<1>8. HandedOver'
  BY DEF Alone, HandedOver
<1>9. Staffed'
  <2> SUFFICES ASSUME Budget["crash"] = 0, NEW t \in Task, row[t].status \in InFlight PROVE Worked(t)'
    BY DEF Staffed
  <2>1. PICK e \in Executor : AtWork(e) /\ exec[e].task = t
    BY DEF Alone, Staffed, Worked
  <2>2. exec'[e] = exec[e]
    BY <2>1
  <2> QED BY <2>1, <2>2 DEF Worked, AtWork
<1>10. ResetIsAlone'
  BY <1>2, <1>3 DEF Alone, ResetIsAlone, Taken
<1>11. CountIsFresh'
  <2>1. \A f \in Executor : exec'[f].pc = "failing" => AtWork(f)'
    BY DEF AtWork
  <2> QED BY <1>1, <2>1 DEF Alone, CountIsFresh
<1> QED BY <1>4, <1>5, <1>6, <1>7, <1>8, <1>9, <1>10, <1>11 DEF Alone

\* A row whose status is still the one that was read is worked on by nobody.
LEMMA ClaimedIsFree ==
  ASSUME Alone, NEW t \in Task, row[t].status \in PollerTakes, ArgusHas(t) \/ PollerHas(t)
  PROVE  ~Worked(t)
<1>1. row[t].status \notin InFlight \cup {"cancelled"}
  BY DEF PollerTakes, InFlight
<1> QED BY <1>1 DEF Alone, WorkIsTaken, LastClaim, Taken

LEMMA WorkBegins ==
  ASSUME Undisturbed, Alone, TypeOK', UNCHANGED sage, NEW e \in Executor, NEW t \in Task,
         row[t].status \in PollerTakes, row' = Set(t, "claimed"), exec[e] = Idle,
         AtWork(e)', exec'[e].pc # "failing", exec'[e].task = t,
         \A f \in Executor : f # e => exec'[f] = exec[f],
         \/ e \in Worker /\ ArgusHas(t) /\ argus' = LoopTop /\ poller' = poller
         \/ e = Poller /\ PollerHas(t) /\ poller.pc = "move" /\ poller' = PollerOff /\ argus' = argus
  PROVE  Alone'
<1>1. ~Worked(t)
  BY ClaimedIsFree
<1>2. ~AtWork(e) /\ \A f \in Executor : f # e => (AtWork(f)' <=> AtWork(f))
  BY DEF AtWork, Idle
<1>3. \A u : Worked(u)' <=> Worked(u) \/ u = t
  BY <1>2 DEF Worked
<1>4. \A u \in Task : /\ row'[u].target = row[u].target /\ row'[u].attempts = row[u].attempts
                      /\ u # t => row'[u] = row[u]
                      /\ row'[t].status = "claimed"
  BY DEF Alone, TypeOK, Typed, Row, Set
<1>5. \A u \in Task : Taken(u) => Taken(u)'
  BY <1>4 DEF Taken, InFlight
<1>6. Taken(t)'
  BY <1>4 DEF Taken, InFlight
<1>7. SeenOpen' /\ Quiet'
  BY DEF Alone, SeenOpen, Quiet, LoopTop, PollerOff
<1>8. /\ \A u : ArgusHas(u)' => ArgusHas(u)
      /\ \A u : PollerHas(u)' => PollerHas(u)
      /\ argus' = LoopTop => \A u : ~ArgusHas(u)'
      /\ poller' = PollerOff => \A u : ~PollerHas(u)'
  BY DEF ArgusHas, PollerHas, LoopTop, PollerOff
<1>9. WorkIsTaken'
  BY <1>3, <1>5, <1>6 DEF Alone, WorkIsTaken
<1>10. OneAtWork'
  BY <1>1, <1>2 DEF Alone, OneAtWork, Worked
<1>11. ArgusIsDone'
  <2> SUFFICES ASSUME NEW w \in Worker, NEW u \in Task, AtWork(w)', exec'[w].task = u, ArgusHas(u)'
               PROVE  FALSE
    BY DEF ArgusIsDone
  <2>1. argus' = argus /\ e = Poller
    BY DEF LoopTop, ArgusHas
  <2>2. w \in Executor /\ w # e
    BY <2>1, QueueAssumption DEF Executor
  <2>3. AtWork(w) /\ exec'[w] = exec[w]
    BY <1>2, <2>2
  <2> QED BY <2>1, <2>3 DEF Alone, ArgusIsDone, ArgusHas
<1>12. LastClaim'
  <2> SUFFICES ASSUME NEW u \in Task, row[u].target # "agent"
               PROVE  /\ ~(ArgusHas(u)' /\ PollerHas(u)')
                      /\ Worked(u)' => ~ArgusHas(u)' /\ ~PollerHas(u)'
    BY <1>4 DEF LastClaim
  <2>1. /\ ~(ArgusHas(u) /\ PollerHas(u))
        /\ Worked(u) => ~ArgusHas(u) /\ ~PollerHas(u)
    BY DEF Alone, LastClaim
  <2> QED BY <1>3, <1>8, <2>1
<1>13. HandedOver'
  <2>1. \A s \in sage.list : s.task \in Task
    BY DEF Alone, TypeOK, Typed, SageState
  <2> QED BY <1>4, <2>1 DEF Alone, HandedOver
<1>14. Staffed'
  BY <1>3, <1>4 DEF Alone, Staffed
<1>15. ResetIsAlone'
  <2> SUFFICES ASSUME argus'.pc = "reset" PROVE FALSE
    BY DEF ResetIsAlone
  <2>1. argus.pc = "reset" /\ poller.pc = "move"
    BY DEF LoopTop
  <2> QED BY <2>1 DEF Alone, Quiet, Undisturbed
<1>16. CountIsFresh'
  <2> SUFFICES ASSUME NEW f \in Executor, exec'[f].pc = "failing"
               PROVE  exec'[f].read = row'[exec'[f].task].attempts
    BY DEF CountIsFresh
  <2>1. exec'[f] = exec[f] /\ exec[f].task \in Task
    BY AtWorkHasTask DEF AtWork, Alone
  <2> QED BY <1>4, <2>1 DEF Alone, CountIsFresh
<1> QED BY <1>7, <1>9, <1>10, <1>11, <1>12, <1>13, <1>14, <1>15, <1>16 DEF Alone

\* A write to row u by somebody else than the one who works on it.
HarmlessAt(u) ==
  /\ Worked(u) /\ Taken(u) => Taken(u)'
  /\ row'[u].target = "agent" <=> row[u].target = "agent"
  /\ row'[u].status \in InFlight => row[u].status \in InFlight
  /\ row'[u].status = "pending_eval" => row[u].status = "pending_eval"
  /\ row'[u].attempts = row[u].attempts

LEMMA OneRowHarmless ==
  ASSUME NEW u \in Task, HarmlessAt(u), \A t \in Task : t # u => row'[t] = row[t]
  PROVE  Harmless
<1> SUFFICES ASSUME NEW t \in Task PROVE HarmlessAt(t)
  BY DEF Harmless, HarmlessAt
<1>1. CASE t = u
  BY <1>1
<1>2. CASE t # u
  BY <1>2 DEF HarmlessAt, Taken
<1> QED BY <1>1, <1>2

\* A status is set, of a row nobody works on, or one that says so itself.
LEMMA SetIsHarmless ==
  ASSUME TypeOK, NEW u \in Task, NEW s, s \notin InFlight \cup {"pending_eval"}, row' = Set(u, s),
         ~Worked(u) \/ s = "cancelled" \/ row[u].status \notin InFlight \cup {"cancelled"}
  PROVE  Harmless
<1>1. /\ row'[u].status = s /\ row'[u].target = row[u].target /\ row'[u].attempts = row[u].attempts
      /\ \A t \in Task : t # u => row'[t] = row[t]
  BY DEF TypeOK, Typed, Row, Set
<1>2. HarmlessAt(u)
  BY <1>1 DEF HarmlessAt, Taken, InFlight
<1> QED BY <1>1, <1>2, OneRowHarmless

LEMMA CasIsHarmless ==
  ASSUME TypeOK, NEW u \in Task, NEW seen, seen \in PollerTakes \cup {"waiting"}, NEW s,
         s \notin InFlight \cup {"pending_eval"}, row' = Cas(u, seen, s)
  PROVE  Harmless
<1>1. seen \notin InFlight \cup {"cancelled"}
  BY DEF PollerTakes, InFlight
<1>2. CASE row[u].status = seen
  BY <1>1, <1>2, SetIsHarmless DEF Cas
<1>3. CASE row[u].status # seen
  BY <1>3, SameIsHarmless DEF Cas
<1> QED BY <1>2, <1>3

LEMMA AloneArgus ==
  ASSUME Undisturbed, Alone, ArgusStep
  PROVE  Alone'
<1>typed. TypeOK /\ TypeOK' /\ SeenOpen' /\ Quiet
  BY ArgusTyped, SeenOpenArgus DEF Alone
<1>top. LoopTop.pc = "loop"
  BY DEF LoopTop
<1>still. ASSUME UNCHANGED <<exec, poller, sage>>, Harmless, argus' = LoopTop PROVE Alone'
  <2>1. \A t : ~ArgusHas(t)' /\ (PollerHas(t)' <=> PollerHas(t))
    BY <1>still, <1>top DEF ArgusHas, PollerHas
  <2>2. sage'.pc = "post" => \A s \in sage'.list : row'[s.task].target # "agent"
    BY <1>still DEF Alone, HandedOver, Harmless, TypeOK, Typed, SageState
  <2>3. Quiet'
    BY <1>still, <1>top, <1>typed DEF Quiet
  <2> QED BY <1>still, <1>top, <1>typed, <2>1, <2>2, <2>3, OthersMove
<1>1. CASE ArgusFetch
  <2>1. PICK t \in Task :
          /\ row[t].status \in ArgusTakes /\ row[t].target = "agent"
          /\ argus' = [LoopTop EXCEPT !.pc = "claim", !.task = t, !.seen = row[t].status,
                                      !.finished = Finished(t)]
    BY <1>1 DEF ArgusFetch, First, Claimable
  <2>2. UNCHANGED <<row, exec, poller, sage>> /\ argus'.pc = "claim" /\ argus'.task = t
    BY <1>1, <2>1 DEF ArgusFetch, LoopTop
  <2>3. ~Taken(t)
    BY <2>1 DEF Taken, ArgusTakes, InFlight
  <2>4. \A u : (ArgusHas(u)' => u = t) /\ (PollerHas(u)' <=> PollerHas(u))
    BY <2>2 DEF ArgusHas, PollerHas
  <2>5. Quiet' /\ Harmless
    BY <1>typed, <2>2, SameIsHarmless DEF Quiet
  <2>6. sage'.pc = "post" => \A s \in sage'.list : row'[s.task].target # "agent"
    BY <2>2 DEF Alone, HandedOver
  <2> QED BY <1>typed, <2>2, <2>3, <2>4, <2>5, <2>6, OthersMove
<1>2. CASE ArgusSpawn
  <2>1. PICK t \in Task : t = argus.task
    BY <1>2, <1>typed DEF ArgusSpawn, TypeOK, Focused
  <2>2. PICK w \in Worker :
          /\ exec[w] = Idle
          /\ exec' = [exec EXCEPT ![w] = [Idle EXCEPT !.pc = "claimed", !.task = t]]
    BY <1>2, <2>1 DEF ArgusSpawn
  <2>3. w \in Executor /\ exec'[w] = [Idle EXCEPT !.pc = "claimed", !.task = t]
        /\ \A f \in Executor : f # w => exec'[f] = exec[f]
    BY <1>typed, <2>2 DEF Executor, TypeOK, Typed
  <2>4. exec'[w].pc = "claimed" /\ exec'[w].task = t
    BY <2>3 DEF Idle
  <2>5. row[t].status \in PollerTakes /\ ArgusHas(t) /\ row' = Set(t, "claimed")
        /\ argus' = LoopTop /\ UNCHANGED <<poller, sage>>
    BY <1>2, <2>1 DEF ArgusSpawn, Alone, SeenOpen, ArgusHas
  <2>6. AtWork(w)'
    BY <2>4 DEF AtWork
  <2> QED BY <1>typed, <2>2, <2>3, <2>4, <2>5, <2>6, WorkBegins
<1>3. CASE ArgusPass
  <2>1. argus.pc = "claim" /\ argus.task \in Task /\ argus.seen \in PollerTakes
    BY <1>3, <1>typed DEF ArgusPass, Alone, SeenOpen, TypeOK, Focused
  <2>2. row' = row \/ row' = Cas(argus.task, argus.seen, "pending_jeff_action")
    BY <1>3, <1>typed, Answered DEF ArgusPass
  <2>3. Harmless
    BY <1>typed, <2>1, <2>2, SameIsHarmless, CasIsHarmless DEF InFlight
  <2> QED BY <1>3, <1>still, <2>3 DEF ArgusPass
<1>4. CASE ArgusSwept
  <2>1. argus.task \in Task /\ argus.pc \in {"reset", "release"}
        /\ row' = IF argus.pc = "reset" THEN Set(argus.task, "ready")
                  ELSE Cas(argus.task, "waiting", "ready")
    BY <1>4, <1>typed, Answered DEF ArgusSwept, SweepWrites, TypeOK, Focused
  <2>2. argus.pc = "reset" => ~Worked(argus.task)
    BY <2>1 DEF Alone, ResetIsAlone
  <2>3. Harmless
    <3>1. CASE argus.pc = "reset"
      BY <1>typed, <2>1, <2>2, <3>1, SetIsHarmless DEF InFlight
    <3>2. CASE argus.pc = "release"
      BY <1>typed, <2>1, <3>2, CasIsHarmless DEF InFlight
    <3> QED BY <2>1, <3>1, <3>2
  <2> QED BY <1>4, <1>still, <2>3 DEF ArgusSwept
<1>5. ASSUME NEW t \in Task, ArgusSweep(t) PROVE Alone'
  <2>1. UNCHANGED <<row, exec, poller, sage>> /\ argus.pc = "loop"
    BY <1>5 DEF ArgusSweep
  <2>2. PICK pc \in {"reset", "release"} : SweepFinds(t, pc)
                                           /\ argus' = [LoopTop EXCEPT !.pc = pc, !.task = t]
    BY <1>5 DEF ArgusSweep
  <2>3. argus'.pc = pc /\ argus'.task = t
    BY <2>2 DEF LoopTop
  <2>4. pc = "reset" => row[t].status \in InFlight /\ ~Worked(t)
    <3>1. ~Spend("sweep")
      BY <1>typed, Spared DEF Event
    <3>2. pc = "reset" => row[t].status \in InFlight /\ Orphan(t)
      BY <2>2, <3>1 DEF SweepFinds, LooksStuck
    <3> QED BY <3>2 DEF Orphan, Alive, Worked, AtWork
  <2>5. Quiet'
    BY <1>typed, <2>1, <2>2, <2>3, <2>4 DEF Quiet, Alone, Staffed
  <2>6. \A u : ~ArgusHas(u)' /\ (PollerHas(u)' <=> PollerHas(u))
    BY <2>1, <2>2, <2>3 DEF ArgusHas, PollerHas
  <2>7. \A u \in Task : argus'.pc = "reset" /\ argus'.task = u => ~Worked(u) /\ Taken(u)'
    BY <2>1, <2>3, <2>4 DEF Taken
  <2>8. sage'.pc = "post" => \A s \in sage'.list : row'[s.task].target # "agent"
    BY <2>1 DEF Alone, HandedOver
  <2> QED BY <1>typed, <2>1, <2>5, <2>6, <2>7, <2>8, SameIsHarmless, OthersMove
<1>6. ASSUME NEW t \in Task, ArgusStall(t) PROVE FALSE
  BY <1>6, <1>typed, Spared DEF ArgusStall, Event
<1>7. CASE ArgusChargeRead \/ ArgusChargeWrite \/ ArgusUnlist
  BY <1>7, <1>typed DEF ArgusChargeRead, ArgusChargeWrite, ArgusUnlist, Quiet
<1>8. CASE ArgusCrash
  <2>1. Budget["crash"] # 0
    BY <1>8, <1>typed, Spared DEF ArgusCrash, Event
  <2>2. \A e \in Executor : exec'[e] \in {exec[e], Idle}
    BY <1>8 DEF ArgusCrash
  <2> QED BY <1>8, <1>typed, <2>1, <2>2, WorkersGo DEF ArgusCrash
<1> QED BY <1>1, <1>2, <1>3, <1>4, <1>5, <1>6, <1>7, <1>8 DEF ArgusStep

LEMMA AloneExec ==
  ASSUME Undisturbed, Alone, ExecStep
  PROVE  Alone'
<1>typed. TypeOK /\ TypeOK'
  BY ExecTyped DEF Alone
<1>1. ASSUME NEW e \in Executor, Advance(e), AtWork(e), AtWork(e)',
             row' = row \/ row' = Set(exec[e].task, "in_progress_agent"),
             exec'[e].pc = "failing" => exec'[e].read = row[exec[e].task].attempts
      PROVE  Alone'
  <2>1. UNCHANGED <<argus, poller, sage>>
    BY <1>1 DEF Advance, Start, Launch, Exit, Record, FailRead, FailWrite
  <2> QED BY <1>1, <1>typed, <2>1, Advances, WorkGoesOn
<1>2. ASSUME NEW e \in Executor, Start(e) PROVE Alone'
  <2>1. AtWork(e) /\ row' = Set(exec[e].task, "in_progress_agent")
    BY <1>2, <1>typed, Answered DEF Start, AtWork
  <2>2. exec'[e].pc = "started"
    BY <1>2, <1>typed DEF Start, TypeOK, Typed, Exec
  <2>3. AtWork(e)'
    BY <2>2 DEF AtWork
  <2> QED BY <1>1, <1>2, <2>1, <2>2, <2>3 DEF Advance
<1>3. ASSUME NEW e \in Executor, Launch(e) \/ Exit(e) PROVE Alone'
  <2>1. AtWork(e) /\ row' = row
    BY <1>3 DEF Launch, Exit, AtWork
  <2>2. exec'[e].pc \in {"running", "exited"}
    BY <1>3, <1>typed DEF Launch, Exit, TypeOK, Typed, Exec
  <2>3. AtWork(e)'
    BY <2>2 DEF AtWork
  <2> QED BY <1>1, <1>3, <2>1, <2>2, <2>3 DEF Advance
<1>4. ASSUME NEW e \in Executor, FailRead(e) PROVE Alone'
  <2>1. AtWork(e) /\ row' = row
    BY <1>4 DEF FailRead, AtWork
  <2>2. exec' = [exec EXCEPT ![e].pc = "failing", ![e].read = row[exec[e].task].attempts]
    BY <1>4, <1>typed, Spared DEF FailRead, Event
  <2>3. exec'[e].pc = "failing" /\ exec'[e].read = row[exec[e].task].attempts
    BY <1>typed, <2>2 DEF TypeOK, Typed, Exec
  <2>4. AtWork(e)'
    BY <2>3 DEF AtWork
  <2> QED BY <1>1, <1>4, <2>1, <2>3, <2>4 DEF Advance
<1>5. ASSUME NEW e \in Executor, Record(e) \/ FailWrite(e) PROVE Alone'
  <2>1. AtWork(e) /\ UNCHANGED <<argus, poller, sage>>
    BY <1>5 DEF Record, FailWrite, AtWork
  <2>2. PICK t \in Task : t = exec[e].task
    BY <1>typed, <2>1, AtWorkHasTask
  <2>3. exec'[e].pc = "closing"
    BY <1>5, <1>typed, Answered DEF Record, FailWrite, TypeOK, Typed, Exec
  <2>4. ~AtWork(e)'
    BY <2>3 DEF AtWork
  <2>5. row' = Recorded(t, exec[e].outcome) \/ row' = Charged(t, exec[e].read, "ready", "failed")
    BY <1>5, <1>typed, <2>2, Answered DEF Record, FailWrite
  <2>6. /\ \A u \in Task : u # t => row'[u] = row[u]
        /\ row'[t].status \notin InFlight
        /\ row'[t].status = "pending_eval" => row'[t].target # "agent"
        /\ row[t].target # "agent" => row'[t].target # "agent"
    <3>1. row[t] \in Row
      BY <1>typed DEF TypeOK, Typed
    <3>2. CASE row' = Recorded(t, exec[e].outcome)
      BY <1>typed, <3>1, <3>2 DEF Recorded, TypeOK, Typed, Row, InFlight
    <3>3. ASSUME NEW m, NEW s \in {"ready", "failed"},
                 row' = [row EXCEPT ![t].attempts = m, ![t].status = s]
          PROVE  /\ \A u \in Task : u # t => row'[u] = row[u]
                 /\ row'[t].status = s /\ row'[t].target = row[t].target
      BY <1>typed, <3>1, <3>3 DEF TypeOK, Typed, Row
    <3>4. CASE row' = Charged(t, exec[e].read, "ready", "failed")
      <4>1. PICK m, s : s \in {"ready", "failed"} /\ row' = [row EXCEPT ![t].attempts = m, ![t].status = s]
        BY <3>4 DEF Charged
      <4> QED BY <3>3, <4>1 DEF InFlight
    <3> QED BY <2>5, <3>2, <3>4
  <2>7. \A f \in Executor : f # e => exec'[f] = exec[f]
    BY <1>5, <1>typed, Advances DEF Advance
  <2> QED BY <1>typed, <2>1, <2>2, <2>4, <2>6, <2>7, WorkEnds
<1>6. ASSUME NEW e \in Executor, Close(e) PROVE Alone'
  <2>1. UNCHANGED <<row, argus, poller, sage>> /\ exec[e].pc = "closing"
    BY <1>6 DEF Close
  <2>2. \A f \in Executor : exec'[f] = IF f = e THEN Idle ELSE exec[f]
    BY <1>6, <1>typed DEF Close, TypeOK, Typed
  <2>3. \A f \in Executor : AtWork(f) => exec'[f] = exec[f]
    BY <2>1, <2>2 DEF AtWork
  <2> QED BY <1>typed, <2>1, <2>2, <2>3, WorkersGo
<1> QED BY <1>2, <1>3, <1>4, <1>5, <1>6 DEF ExecStep, Executor

LEMMA AlonePoll ==
  ASSUME Undisturbed, Alone, PollStep
  PROVE  Alone'
<1>typed. TypeOK /\ TypeOK' /\ SeenOpen' /\ Quiet
  BY PollTyped, SeenOpenPoll DEF Alone
<1>off. PollerOff.pc = "off" /\ PollerOff.list = {}
  BY DEF PollerOff
<1>still. ASSUME UNCHANGED <<exec, argus, sage>>, Harmless, Quiet', Budget["poll"] # 0,
                 \A t \in Task : PollerHas(t)' => PollerHas(t) \/ ~Taken(t)
          PROVE  Alone'
  <2>1. \A t : ArgusHas(t)' <=> ArgusHas(t)
    BY <1>still DEF ArgusHas
  <2>2. sage'.pc = "post" => \A s \in sage'.list : row'[s.task].target # "agent"
    BY <1>still DEF Alone, HandedOver, Harmless, TypeOK, Typed, SageState
  <2>3. argus'.pc # "reset"
    BY <1>still, <1>typed DEF Quiet, Undisturbed
  <2> QED BY <1>still, <1>typed, <2>1, <2>2, <2>3, OthersMove
<1>on. poller.pc # "off" => Budget["poll"] # 0
  BY <1>typed DEF Quiet
<1>1. CASE PollStart
  <2>1. UNCHANGED <<row, argus, exec, sage>> /\ poller'.pc = "sweep" /\ poller'.list = {}
    BY <1>1 DEF PollStart, PollerOff
  <2>2. Budget["poll"] # 0
    BY <1>1, <1>typed, Spared DEF PollStart, Event
  <2>3. Quiet' /\ \A t : ~PollerHas(t)'
    BY <1>typed, <2>1, <2>2 DEF Quiet, PollerHas
  <2> QED BY <1>still, <2>1, <2>2, <2>3, SameIsHarmless
<1>2. CASE PollSwept
  <2>1. /\ UNCHANGED <<argus, exec, sage>> /\ poller'.pc = "sweep" /\ poller'.list = {}
        /\ poller.pc = "release" /\ poller.task \in Task
    BY <1>2, <1>typed DEF PollSwept, PollerOff, Quiet, TypeOK, Focused
  <2>2. row' = Cas(poller.task, "waiting", "ready")
    BY <1>2, <1>typed, <2>1, Answered DEF PollSwept, SweepWrites
  <2>3. Harmless
    BY <1>typed, <2>1, <2>2, CasIsHarmless DEF InFlight
  <2>4. Quiet' /\ \A t : ~PollerHas(t)'
    BY <1>typed, <1>on, <2>1 DEF Quiet, PollerHas
  <2> QED BY <1>still, <1>on, <2>1, <2>3, <2>4
<1>3. CASE PollFetch
  <2> DEFINE due == {t \in Claimable(PollerTakes) : NotBefore[t] <= now}
             entry(t) == [task |-> t, seen |-> row[t].status, finished |-> Finished(t)]
  <2>1. poller' = [PollerOff EXCEPT !.pc = "scan", !.list = {entry(t) : t \in First(due, ScanLimit)}]
    BY <1>3 DEF PollFetch
  <2>2. poller'.pc = "scan" /\ poller'.list = {entry(t) : t \in First(due, ScanLimit)}
    BY <2>1 DEF PollerOff
  <2>3. \A t \in First(due, ScanLimit) : ~Taken(t)
    BY DEF First, Claimable, Taken, PollerTakes, InFlight
  <2>4. ASSUME NEW t, PollerHas(t)' PROVE ~Taken(t)
    <3>1. PICK s \in poller'.list : s.task = t
      BY <2>2, <2>4 DEF PollerHas
    <3>2. PICK u \in First(due, ScanLimit) : s = entry(u)
      BY <2>2
    <3>3. s.task = u
      BY <3>2
    <3> QED BY <2>3, <3>1, <3>2, <3>3
  <2>5. UNCHANGED <<row, argus, exec, sage>> /\ Budget["poll"] # 0
    BY <1>3, <1>on DEF PollFetch
  <2>6. Quiet'
    BY <1>typed, <2>2, <2>5 DEF Quiet
  <2> QED BY <1>still, <2>4, <2>5, <2>6, SameIsHarmless
<1>4. CASE PollJudge
  <2>1. poller \in PollState /\ poller.pc = "scan" /\ UNCHANGED <<row, argus, exec, sage>>
    BY <1>4, <1>typed DEF PollJudge, TypeOK, Typed
  <2>2. PICK s \in poller.list, move \in {"expired", "pending_jeff_action", "blocked", "claimed"} :
          \/ poller' = [poller EXCEPT !.list = @ \ {s}]
          \/ poller' = [poller EXCEPT !.list = @ \ {s}, !.pc = "move", !.task = s.task,
                                      !.seen = s.seen, !.move = move]
    BY <1>4 DEF PollJudge
  <2>3. /\ poller'.list \subseteq poller.list /\ poller'.pc \in {"scan", "move"}
        /\ poller'.pc = "move" => poller'.task = s.task /\ poller'.move = move
    <3>1. CASE poller' = [poller EXCEPT !.list = @ \ {s}]
      BY <2>1, <3>1, SMTT(30) DEF PollState
    <3>2. CASE poller' = [poller EXCEPT !.list = @ \ {s}, !.pc = "move", !.task = s.task,
                                        !.seen = s.seen, !.move = move]
      BY <2>1, <3>2, SMTT(30) DEF PollState
    <3> QED BY <2>2, <3>1, <3>2
  <2>4. \A t : PollerHas(t)' => PollerHas(t)
    BY <2>3 DEF PollerHas
  <2>5. Quiet'
    BY <1>typed, <1>on, <2>1, <2>3 DEF Quiet
  <2> QED BY <1>still, <1>on, <2>1, <2>4, <2>5, SameIsHarmless
<1>5. CASE PollClaim
  <2>1. PICK t \in Task : t = poller.task
    BY <1>5, <1>typed DEF PollClaim, TypeOK, Focused
  <2>2. /\ exec' = [exec EXCEPT ![Poller] = [Idle EXCEPT !.pc = "started", !.task = t]]
        /\ exec[Poller] = Idle /\ Poller \in Executor
    BY <1>5, <1>typed, <2>1 DEF PollClaim, Executor, TypeOK, Focused
  <2>3. /\ exec'[Poller] = [Idle EXCEPT !.pc = "started", !.task = t]
        /\ \A f \in Executor : f # Poller => exec'[f] = exec[f]
    BY <1>typed, <2>2 DEF TypeOK, Typed
  <2>4. exec'[Poller].pc = "started" /\ exec'[Poller].task = t
    BY <2>3 DEF Idle
  <2>5. /\ row[t].status \in PollerTakes /\ PollerHas(t) /\ row' = Set(t, "claimed")
        /\ poller.pc = "move" /\ poller' = PollerOff /\ UNCHANGED <<argus, sage>>
    BY <1>5, <2>1 DEF PollClaim, Alone, SeenOpen, PollerHas
  <2>6. AtWork(Poller)'
    BY <2>4 DEF AtWork
  <2> QED BY <1>typed, <2>2, <2>3, <2>4, <2>5, <2>6, WorkBegins
<1>6. CASE PollPass
  <2> DEFINE next == [PollerOff EXCEPT !.pc = "scan", !.list = poller.list]
  <2>1. /\ poller.pc = "move" /\ poller.task \in Task /\ poller.seen \in PollerTakes
        /\ UNCHANGED <<argus, exec, sage>> /\ poller' = next
        /\ row' = Cas(poller.task, poller.seen, poller.move)
        /\ poller.move # "claimed" \/ row[poller.task].status # poller.seen
    BY <1>6, <1>typed, Answered DEF PollPass, Alone, SeenOpen, TypeOK, Focused
  <2>2. next.pc = "scan" /\ next.list = poller.list
    BY DEF PollerOff
  <2>3. Harmless
    <3>1. CASE row[poller.task].status # poller.seen
      BY <2>1, <3>1, SameIsHarmless DEF Cas
    <3>2. CASE poller.move # "claimed"
      <4>1. poller.move \notin InFlight \cup {"pending_eval"}
        BY <1>typed, <2>1, <3>2 DEF Quiet, InFlight
      <4> QED BY <1>typed, <2>1, <4>1, CasIsHarmless
    <3> QED BY <2>1, <3>1, <3>2
  <2>4. Quiet' /\ \A t : PollerHas(t)' => PollerHas(t)
    BY <1>typed, <1>on, <2>1, <2>2 DEF Quiet, PollerHas
  <2> QED BY <1>still, <1>on, <2>1, <2>3, <2>4
<1>7. CASE PollDone
  <2>1. UNCHANGED <<row, argus, exec, sage>> /\ poller' = PollerOff /\ poller.pc = "scan"
    BY <1>7 DEF PollDone
  <2>2. Quiet' /\ \A t : ~PollerHas(t)'
    BY <1>typed, <1>off, <2>1 DEF Quiet, PollerHas
  <2> QED BY <1>still, <1>on, <2>1, <2>2, SameIsHarmless
<1>8. CASE PollerCrash
  <2>1. Budget["crash"] # 0
    BY <1>8, <1>typed, Spared DEF PollerCrash, Event
  <2>2. \A e \in Executor : exec'[e] \in {exec[e], Idle}
    BY <1>8, <1>typed DEF PollerCrash, TypeOK, Typed
  <2> QED BY <1>8, <1>typed, <2>1, <2>2, WorkersGo DEF PollerCrash
<1>9. ASSUME NEW t \in Task, PollSweep(t) PROVE Alone'
  <2>1. UNCHANGED <<row, argus, exec, sage>> /\ poller.pc = "sweep"
    BY <1>9 DEF PollSweep
  <2>2. PICK pc \in {"reset", "release"} : SweepFinds(t, pc)
                                           /\ poller' = [poller EXCEPT !.pc = pc, !.task = t]
    BY <1>9 DEF PollSweep
  <2>3. poller'.pc = pc /\ poller'.list = poller.list
    BY <1>typed, <2>2 DEF TypeOK, Typed, PollState
  <2>4. pc # "reset"
    <3>1. ~Spend("sweep")
      BY <1>typed, Spared DEF Event
    <3>2. pc = "reset" => row[t].status \in InFlight /\ Orphan(t)
      BY <2>2, <3>1 DEF SweepFinds, LooksStuck
    <3>3. pc = "reset" => ~Worked(t)
      BY <3>2 DEF Orphan, Alive, Worked, AtWork
    <3>4. Budget["crash"] = 0
      BY <1>on, <2>1 DEF Undisturbed
    <3> QED BY <3>2, <3>3, <3>4 DEF Alone, Staffed
  <2>5. Quiet' /\ \A u : PollerHas(u)' => PollerHas(u)
    BY <1>typed, <1>on, <2>1, <2>3, <2>4 DEF Quiet, PollerHas
  <2> QED BY <1>still, <1>on, <2>1, <2>5, SameIsHarmless
<1> QED BY <1>1, <1>2, <1>3, <1>4, <1>5, <1>6, <1>7, <1>8, <1>9 DEF PollStep

LEMMA AloneSage ==
  ASSUME Undisturbed, Alone, SageStep
  PROVE  Alone'
<1>typed. TypeOK /\ TypeOK' /\ SeenOpen' /\ Quiet
  BY SageTyped, SeenOpenElse DEF Alone
<1>still. ASSUME UNCHANGED <<exec, argus, poller>>, Harmless, \A t \in Task : Taken(t) => Taken(t)',
                 sage'.pc = "post" => \A s \in sage'.list : row[s.task].target # "agent"
          PROVE  Alone'
  <2>1. \A t : (ArgusHas(t)' <=> ArgusHas(t)) /\ (PollerHas(t)' <=> PollerHas(t))
    BY <1>still DEF ArgusHas, PollerHas
  <2>2. sage'.pc = "post" => \A s \in sage'.list : row'[s.task].target # "agent"
    <3>1. \A s \in sage'.list : s.task \in Task
      BY <1>typed DEF TypeOK, Typed, SageState
    <3> QED BY <1>still, <3>1 DEF Harmless
  <2>3. Quiet'
    BY <1>still, <1>typed DEF Quiet
  <2>4. \A t \in Task : argus'.pc = "reset" /\ argus'.task = t => ~Worked(t) /\ Taken(t)'
    BY <1>still DEF Alone, ResetIsAlone
  <2> QED BY <1>still, <1>typed, <2>1, <2>2, <2>3, <2>4, OthersMove
<1>same. row' = row => Harmless /\ \A t \in Task : Taken(t) => Taken(t)'
  BY SameIsHarmless DEF Taken
<1>rest. ASSUME NEW s \in sage.list, SageRest(s) \/ sage' = SageIdle
         PROVE  sage'.list \subseteq sage.list /\ (sage'.pc = "post" => sage.pc = "post")
  BY <1>rest, <1>typed DEF SageRest, SageIdle, TypeOK, Typed, SageState
<1>1. CASE SagePreRead
  <2>1. sage'.pc = "pre" /\ UNCHANGED <<row, exec, argus, poller>>
    BY <1>1 DEF SagePreRead
  <2> QED BY <1>still, <1>same, <2>1
<1>2. CASE SagePostRead
  <2> DEFINE due == {t \in Task : row[t].status = "pending_eval"}
  <2>1. sage' = [pc |-> "post", list |-> {Seen(t) : t \in due}] /\ UNCHANGED <<row, exec, argus, poller>>
    BY <1>2 DEF SagePostRead
  <2>2. \A t \in due : row[Seen(t).task].target # "agent"
    BY DEF Seen, Alone, HandedOver
  <2>3. \A s \in sage'.list : row[s.task].target # "agent"
    BY <2>1, <2>2
  <2> QED BY <1>still, <1>same, <2>1, <2>3
<1>3. CASE SageCrash
  <2>1. sage'.pc = "idle" /\ UNCHANGED <<row, exec, argus, poller>>
    BY <1>3 DEF SageCrash, SageIdle
  <2> QED BY <1>still, <1>same, <2>1
<1>4. ASSUME NEW s \in sage.list, SagePreWrite(s) PROVE Alone'
  <2>1. /\ UNCHANGED <<exec, argus, poller>> /\ row' = Evaluated(s) /\ s.task \in Task /\ sage.pc = "pre"
        /\ SageRest(s) \/ sage' = SageIdle
    BY <1>4, <1>typed, Answered DEF SagePreWrite, TypeOK, Typed, SageState
  <2>2. row' = [row EXCEPT ![s.task].evaluated = TRUE, ![s.task].accepted = s.accepted]
    BY <2>1 DEF Evaluated, Undisturbed
  <2>3. \A t \in Task : /\ row'[t].status = row[t].status /\ row'[t].target = row[t].target
                        /\ row'[t].attempts = row[t].attempts
    BY <1>typed, <2>1, <2>2 DEF TypeOK, Typed, Row
  <2>4. Harmless /\ \A t \in Task : Taken(t) => Taken(t)'
    BY <2>3 DEF Harmless, Taken
  <2> QED BY <1>still, <1>rest, <2>1, <2>4
<1>5. ASSUME NEW s \in sage.list, SagePostWrite(s) PROVE Alone'
  <2>1. /\ UNCHANGED <<exec, argus, poller>> /\ s.task \in Task /\ sage.pc = "post"
        /\ SageRest(s) \/ sage' = SageIdle
    BY <1>5, <1>typed DEF SagePostWrite, TypeOK, Typed, SageState
  <2>2. row[s.task].target # "agent"
    BY <2>1 DEF Alone, HandedOver
  <2>3. PICK r \in { Set(s.task, "completed"), Set(s.task, "pending_jeff_action"),
                     [row EXCEPT ![s.task].status = "pending_jeff_action", ![s.task].target = "jeff"] } :
          row' = [r EXCEPT ![s.task].result = TRUE]
    BY <1>5, <1>typed, Answered DEF SagePostWrite
  <2>4. /\ \A t \in Task : t # s.task => row'[t] = row[t]
        /\ row'[s.task].target # "agent" /\ row'[s.task].attempts = row[s.task].attempts
        /\ row'[s.task].status \in {"completed", "pending_jeff_action"}
    <3>1. row[s.task] \in Row /\ row \in [Task -> Row]
      BY <1>typed, <2>1 DEF TypeOK, Typed
    <3>2. /\ \A t \in Task : t # s.task => r[t] = row[t]
          /\ r[s.task].target # "agent" /\ r[s.task].attempts = row[s.task].attempts
          /\ r[s.task].status \in {"completed", "pending_jeff_action"}
          /\ r \in [Task -> Row]
      <4>1. CASE r = [row EXCEPT ![s.task].status = "pending_jeff_action", ![s.task].target = "jeff"]
        BY <2>1, <2>2, <3>1, <4>1 DEF Row, Status
      <4>2. ASSUME NEW x \in {"completed", "pending_jeff_action"}, r = Set(s.task, x)
            PROVE  /\ \A t \in Task : t # s.task => r[t] = row[t]
                   /\ r[s.task].target = row[s.task].target /\ r[s.task].attempts = row[s.task].attempts
                   /\ r[s.task].status = x /\ r \in [Task -> Row]
        BY <2>1, <3>1, <4>2 DEF Set, Row, Status
      <4> QED BY <2>2, <2>3, <4>1, <4>2
    <3> QED BY <2>1, <2>3, <3>2 DEF Row
  <2>5. HarmlessAt(s.task) /\ Taken(s.task)'
    BY <2>2, <2>4 DEF HarmlessAt, Taken, InFlight
  <2>6. Harmless /\ \A t \in Task : Taken(t) => Taken(t)'
    BY <2>1, <2>4, <2>5, OneRowHarmless DEF Taken
  <2>7. \A u \in sage.list : row[u.task].target # "agent"
    BY <2>1 DEF Alone, HandedOver
  <2> QED BY <1>still, <1>rest, <2>1, <2>6, <2>7
<1> QED BY <1>1, <1>2, <1>3, <1>4, <1>5 DEF SageStep

LEMMA AloneHuman ==
  ASSUME Undisturbed, Alone, HumanStep
  PROVE  Alone'
<1>typed. TypeOK /\ TypeOK' /\ SeenOpen' /\ Quiet
  BY HumanTyped, SeenOpenElse DEF Alone
<1>same. UNCHANGED <<exec, argus, poller, sage>>
  BY DEF HumanStep, JeffReplies, IrisSendsBack, IrisApproves, Cancel, Reopen, PremiseDecide, Fire,
         Tick, Human
<1>still. ASSUME Harmless, \A t \in Task : Taken(t) => Taken(t)' PROVE Alone'
  <2>1. \A t : (ArgusHas(t)' <=> ArgusHas(t)) /\ (PollerHas(t)' <=> PollerHas(t))
    BY <1>same DEF ArgusHas, PollerHas
  <2>2. sage'.pc = "post" => \A s \in sage'.list : row'[s.task].target # "agent"
    BY <1>same, <1>still, <1>typed DEF Alone, HandedOver, Harmless, TypeOK, Typed, SageState
  <2>3. Quiet'
    BY <1>same, <1>typed DEF Quiet
  <2>4. \A t \in Task : argus'.pc = "reset" /\ argus'.task = t => ~Worked(t) /\ Taken(t)'
    BY <1>still, <1>same DEF Alone, ResetIsAlone
  <2> QED BY <1>still, <1>same, <1>typed, <2>1, <2>2, <2>3, <2>4, OthersMove
<1>write. ASSUME NEW t \in Task, NEW s \in {"ready", "completed", "cancelled"},
                 row'[t].status = s, row'[t].target = row[t].target, row'[t].attempts = row[t].attempts,
                 \A u \in Task : u # t => row'[u] = row[u],
                 s = "cancelled" \/ row[t].status \notin InFlight \cup {"cancelled"}
          PROVE  Alone'
  <2>1. HarmlessAt(t) /\ (Taken(t) => Taken(t)')
    BY <1>write DEF HarmlessAt, Taken, InFlight
  <2>2. \A u \in Task : Taken(u) => Taken(u)'
    BY <1>write, <2>1 DEF Taken
  <2> QED BY <1>write, <1>still, <2>1, <2>2, OneRowHarmless
<1>1. ASSUME NEW t \in Task, JeffReplies(t) \/ IrisSendsBack(t) \/ IrisApproves(t) \/ Cancel(t) PROVE Alone'
  <2>1. PICK s \in {"ready", "completed", "cancelled"} :
          row' = Set(t, s) /\ (s = "cancelled" \/ row[t].status \in {"pending_jeff_action", "pending_eval"})
    BY <1>1 DEF JeffReplies, IrisSendsBack, IrisApproves, Cancel, Human
  <2>2. /\ row'[t].status = s /\ row'[t].target = row[t].target /\ row'[t].attempts = row[t].attempts
        /\ \A u \in Task : u # t => row'[u] = row[u]
    BY <1>typed, <2>1 DEF TypeOK, Typed, Row, Set
  <2> QED BY <1>write, <2>1, <2>2 DEF InFlight
<1>2. ASSUME NEW t \in Task, Reopen(t) PROVE Alone'
  <2>1. /\ row' = [row EXCEPT ![t].status = "ready", ![t].result = FALSE]
        /\ row[t].status \in {"completed", "failed", "pending_jeff_action"}
    BY <1>2 DEF Reopen, Human
  <2>2. /\ row'[t].status = "ready" /\ row'[t].target = row[t].target /\ row'[t].attempts = row[t].attempts
        /\ \A u \in Task : u # t => row'[u] = row[u]
    BY <1>typed, <2>1 DEF TypeOK, Typed, Row
  <2> QED BY <1>write, <2>1, <2>2 DEF InFlight
<1>3. ASSUME NEW t \in Task, NEW accept \in BOOLEAN, PremiseDecide(t, accept) PROVE FALSE
  BY <1>3 DEF PremiseDecide, Undisturbed
<1>4. ASSUME NEW t \in Task, Fire(t) PROVE FALSE
  BY <1>4, <1>typed, Spared DEF Fire, Event
<1>5. CASE Tick
  BY <1>5, <1>still, SameIsHarmless DEF Tick, Taken
<1> QED BY <1>1, <1>2, <1>3, <1>4, <1>5 DEF HumanStep

LEMMA AloneSame ==
  ASSUME Alone, UNCHANGED vars
  PROVE  Alone'
<1>1. SeenOpen' /\ TypeOK'
  BY DEF vars, Alone, SeenOpen, TypeOK, Typed, Focused
<1>2. /\ \A e \in Executor : AtWork(e)' <=> AtWork(e)
      /\ \A t : (Worked(t)' <=> Worked(t)) /\ (Taken(t)' <=> Taken(t))
      /\ \A t : (ArgusHas(t)' <=> ArgusHas(t)) /\ (PollerHas(t)' <=> PollerHas(t))
  BY DEF vars, AtWork, Worked, Taken, ArgusHas, PollerHas
<1>3. Quiet' /\ WorkIsTaken' /\ OneAtWork'
  BY <1>2 DEF vars, Alone, Quiet, WorkIsTaken, OneAtWork
<1>4. ArgusIsDone' /\ LastClaim'
  BY <1>2 DEF vars, Alone, ArgusIsDone, LastClaim, Executor
<1>5. HandedOver' /\ Staffed' /\ ResetIsAlone'
  BY <1>2 DEF vars, Alone, HandedOver, Staffed, ResetIsAlone
<1>6. CountIsFresh'
  BY DEF vars, Alone, CountIsFresh
<1> QED BY <1>1, <1>3, <1>4, <1>5, <1>6 DEF Alone

LEMMA AloneAlways ==
  ASSUME Undisturbed
  PROVE  Spec => []Alone
<1>1. ASSUME Alone, [Next]_vars PROVE Alone'
  BY <1>1, AloneArgus, AloneExec, AlonePoll, AloneSage, AloneHuman, AloneSame DEF Next
<1> QED BY <1>1, AloneInit, PTL DEF Spec

\* Two daemons, any number of threads and people never run a row twice at a time, as
\* long as nobody is taken for dead who is not: the claims' compare-and-set and the
\* sweep's look at who works are enough, although every other write goes by id.
THEOREM OneRun ==
  ASSUME Undisturbed
  PROVE  Spec => []OneRunPerTask
<1>1. Alone => OneRunPerTask
  BY DEF Alone, OneAtWork, OneRunPerTask, AtWork
<1> QED BY <1>1, AloneAlways, PTL

LEMMA LeavesFailing ==
  ASSUME TypeOK, [Next]_vars, NEW e \in Executor, exec[e].pc = "failing", exec'[e].pc = "closing"
  PROVE  FailWrite(e)
<1>1. CASE ArgusStep
  <2>1. ASSUME ArgusSpawn PROVE exec'[e] = exec[e] \/ exec'[e].pc = "claimed"
    BY <2>1 DEF ArgusSpawn, TypeOK, Typed, Idle
  <2>2. ASSUME NEW t \in Task, ArgusStall(t) PROVE exec'[e] = exec[e] \/ exec'[e].pc = "exited"
    BY <2>2, StallKills
  <2>3. ASSUME ArgusCrash PROVE exec'[e] = exec[e] \/ exec'[e].pc = "idle"
    BY <2>3 DEF ArgusCrash, Idle
  <2> QED
    BY <1>1, <2>1, <2>2, <2>3
       DEF ArgusStep, ArgusFetch, ArgusPass, ArgusSwept, ArgusChargeRead, ArgusChargeWrite,
           ArgusUnlist, ArgusSweep
<1>2. CASE PollStep
  <2>1. ASSUME PollClaim \/ PollerCrash PROVE exec'[e] = exec[e] \/ exec'[e].pc \in {"started", "idle"}
    <3>1. CASE PollClaim
      BY <3>1 DEF PollClaim, TypeOK, Typed, Idle
    <3>2. CASE PollerCrash
      BY <3>2 DEF PollerCrash, TypeOK, Typed, Idle
    <3> QED BY <2>1, <3>1, <3>2
  <2> QED
    BY <1>2, <2>1
       DEF PollStep, PollStart, PollSwept, PollFetch, PollJudge, PollPass, PollDone, PollSweep
<1>3. CASE ExecStep
  <2>1. ASSUME NEW f \in Executor, f # e, Advance(f) \/ Close(f) PROVE exec'[e] = exec[e]
    BY <2>1, Advances DEF Close, TypeOK, Typed
  <2>2. ~(Start(e) \/ Launch(e) \/ Exit(e) \/ Record(e) \/ FailRead(e) \/ Close(e))
    BY DEF Start, Launch, Exit, Record, FailRead, Close
  <2> QED BY <1>3, <2>1, <2>2 DEF ExecStep, Advance, Executor
<1>4. CASE SageStep \/ HumanStep \/ UNCHANGED vars
  BY <1>4
     DEF SageStep, SagePreRead, SagePostRead, SageCrash, SagePreWrite, SagePostWrite,
         HumanStep, JeffReplies, IrisSendsBack, IrisApproves, Cancel, Reopen, PremiseDecide,
         Fire, Tick, Human, vars
<1> QED BY <1>1, <1>2, <1>3, <1>4 DEF Next

\* Every failed run costs its row an attempt: the count that was read is the row's
\* when it is written back, since nobody else is at work on it.
THEOREM FailedRunsCost ==
  ASSUME Undisturbed
  PROVE  Spec => FailuresAreCharged
<1> DEFINE Costs == \A e \in Executor : exec[e].pc = "failing" /\ exec'[e].pc = "closing" =>
                      row'[exec[e].task].attempts > row[exec[e].task].attempts
<1>1. ASSUME Alone, [Next]_vars PROVE Costs
  <2> SUFFICES ASSUME NEW e \in Executor, exec[e].pc = "failing", exec'[e].pc = "closing"
               PROVE  row'[exec[e].task].attempts > row[exec[e].task].attempts
    OBVIOUS
  <2>1. PICK t \in Task : t = exec[e].task
    BY <1>1, AtWorkHasTask DEF Alone
  <2>2. TypeOK /\ exec[e].read = row[t].attempts /\ row[t] \in Row /\ row[t].attempts \in Nat
    BY <1>1, <2>1 DEF Alone, CountIsFresh, TypeOK, Typed, Row
  <2>3. row' = Charged(t, row[t].attempts, "ready", "failed")
    BY <1>1, <2>1, <2>2, LeavesFailing, Answered DEF FailWrite, Alone
  <2>4. ASSUME NEW s, row' = [row EXCEPT ![t].attempts = row[t].attempts + 1, ![t].status = s]
        PROVE  row'[t].attempts = row[t].attempts + 1
    BY <2>2, <2>4 DEF TypeOK, Typed, Row
  <2>5. row'[t].attempts = row[t].attempts + 1
    BY <2>3, <2>4 DEF Charged
  <2> QED BY <2>1, <2>2, <2>5
<1> QED BY <1>1, AloneAlways, PTL DEF FailuresAreCharged, Spec

-----------------------------------------------------------------------------
(* Finished work.                                                          *)

\* Only a claim gives an idle executor a row; it keeps that row until it is idle.
LEMMA ExecMoves ==
  ASSUME TypeOK, [Next]_vars, NEW e \in Executor, exec'[e].pc # "idle"
  PROVE  \/ exec[e].pc # "idle" /\ exec'[e].task = exec[e].task
         \/ exec[e].pc = "idle" /\ e \in Worker /\ ArgusSpawn /\ exec'[e].task = argus.task
         \/ exec[e].pc = "idle" /\ e = Poller /\ PollClaim /\ exec'[e].task = poller.task
<1>same. exec'[e] = exec[e] => exec[e].pc # "idle" /\ exec'[e].task = exec[e].task
  OBVIOUS
<1>1. CASE ArgusStep
  <2>1. CASE ArgusSpawn
    <3>1. PICK w \in Worker : exec[w] = Idle /\ exec' = [exec EXCEPT ![w] =
                                [Idle EXCEPT !.pc = "claimed", !.task = argus.task]]
      BY <2>1 DEF ArgusSpawn
    <3>2. CASE e = w
      BY <2>1, <3>1, <3>2 DEF TypeOK, Typed, Idle
    <3>3. CASE e # w
      BY <1>same, <3>1, <3>3 DEF TypeOK, Typed
    <3> QED BY <3>2, <3>3
  <2>2. ASSUME NEW t \in Task, ArgusStall(t) PROVE exec[e].pc # "idle" /\ exec'[e].task = exec[e].task
    BY <2>2, StallKills
  <2>3. CASE ArgusCrash
    BY <1>same, <2>3 DEF ArgusCrash, Idle
  <2> QED
    BY <1>1, <1>same, <2>1, <2>2, <2>3
       DEF ArgusStep, ArgusFetch, ArgusPass, ArgusSwept, ArgusChargeRead, ArgusChargeWrite,
           ArgusUnlist, ArgusSweep
<1>2. CASE PollStep
  <2>1. CASE PollClaim
    <3>1. CASE e = Poller
      BY <2>1, <3>1 DEF PollClaim, TypeOK, Typed, Focused, Idle
    <3>2. CASE e # Poller
      BY <1>same, <2>1, <3>2 DEF PollClaim, TypeOK, Typed
    <3> QED BY <3>1, <3>2
  <2>2. CASE PollerCrash
    <3>1. exec'[e] = exec[e] \/ exec'[e] = Idle
      BY <2>2 DEF PollerCrash, TypeOK, Typed
    <3> QED BY <1>same, <3>1 DEF Idle
  <2> QED
    BY <1>2, <1>same, <2>1, <2>2
       DEF PollStep, PollStart, PollSwept, PollFetch, PollJudge, PollPass, PollDone, PollSweep
<1>3. CASE ExecStep
  <2>1. ASSUME NEW f \in Executor, Advance(f) PROVE exec[e].pc # "idle" /\ exec'[e].task = exec[e].task
    BY <1>same, <2>1, Advances
  <2>2. ASSUME NEW f \in Executor, Close(f) PROVE exec'[e] = exec[e]
    <3>1. exec'[e] = exec[e] \/ exec'[e] = Idle
      BY <2>2 DEF Close, TypeOK, Typed
    <3> QED BY <3>1 DEF Idle
  <2> QED BY <1>3, <1>same, <2>1, <2>2 DEF ExecStep, Advance, Executor
<1>4. CASE SageStep \/ HumanStep \/ UNCHANGED vars
  BY <1>4, <1>same
     DEF SageStep, SagePreRead, SagePostRead, SageCrash, SagePreWrite, SagePostWrite,
         HumanStep, JeffReplies, IrisSendsBack, IrisApproves, Cancel, Reopen, PremiseDecide,
         Fire, Tick, Human, vars
<1> QED BY <1>1, <1>2, <1>3, <1>4 DEF Next

\* Where no person acts, a row with a result is closed, and neither a run nor a
\* reset is about it.
ClosedAt(t) ==
  /\ row[t].result => row[t].status \in {"completed", "pending_eval", "pending_jeff_action"}
  /\ row[t].target # "agent" => row[t].result
  /\ Worked(t) => ~row[t].result
  /\ argus.pc = "reset" /\ argus.task = t => ~row[t].result
ResultCloses == \A t \in Task : ClosedAt(t)

\* A row without a result, written to by a program that stores none.
LEMMA StillOpen ==
  ASSUME ResultCloses, NEW u \in Task,
         ~row[u].result, ~row'[u].result, row'[u].target = row[u].target,
         \A t \in Task : t # u => /\ row'[t] = row[t]
                                  /\ Worked(t)' => Worked(t)
                                  /\ argus'.pc = "reset" /\ argus'.task = t =>
                                       argus.pc = "reset" /\ argus.task = t
  PROVE  ResultCloses'
<1> SUFFICES ASSUME NEW t \in Task PROVE ClosedAt(t)'
  BY DEF ResultCloses
<1>1. CASE t = u
  BY <1>1 DEF ResultCloses, ClosedAt
<1>2. CASE t # u
  BY <1>2 DEF ResultCloses, ClosedAt
<1> QED BY <1>1, <1>2

\* A step that changes nothing a row's result and status depend on.
LEMMA StillClosed ==
  ASSUME ResultCloses,
         \A t \in Task : /\ row'[t].result = row[t].result
                         /\ row'[t].status = row[t].status
                         /\ row'[t].target = row[t].target
                         /\ Worked(t)' => Worked(t)
                         /\ argus'.pc = "reset" /\ argus'.task = t => ~row[t].result
  PROVE  ResultCloses'
BY DEF ResultCloses, ClosedAt

LEMMA SetKeepsResult ==
  ASSUME TypeOK, NEW u \in Task, NEW s, row' = Set(u, s)
  PROVE  /\ row'[u].result = row[u].result /\ row'[u].target = row[u].target
         /\ row'[u].status = s
         /\ \A t \in Task : t # u => row'[t] = row[t]
BY DEF TypeOK, Typed, Row, Set

LEMMA SameWork ==
  ASSUME exec' = exec, argus' = argus \/ argus'.pc # "reset"
  PROVE  \A t \in Task : /\ Worked(t)' => Worked(t)
                         /\ argus'.pc = "reset" /\ argus'.task = t => argus.pc = "reset" /\ argus.task = t
BY DEF Worked, AtWork

LEMMA ClosesArgus ==
  ASSUME Undisturbed, Alone, ResultCloses, ArgusStep
  PROVE  ResultCloses'
<1>typed. TypeOK /\ SeenOpen /\ Quiet
  BY DEF Alone
<1>open. \A t \in Task : row[t].status \in PollerTakes \cup {"waiting"} \cup InFlight => ~row[t].result
  BY DEF ResultCloses, ClosedAt, PollerTakes, InFlight
<1>still. ASSUME row' = row, exec' = exec, argus' = argus \/ argus'.pc # "reset" PROVE ResultCloses'
  BY <1>still, SameWork, StillClosed DEF ResultCloses, ClosedAt
<1>set. ASSUME NEW u \in Task, NEW s, row' = Set(u, s), ~row[u].result, exec' = exec, argus' = LoopTop
        PROVE  ResultCloses'
  <2>1. ~row'[u].result /\ row'[u].target = row[u].target /\ \A t \in Task : t # u => row'[t] = row[t]
    BY <1>typed, <1>set, SetKeepsResult
  <2> QED BY <1>set, <2>1, SameWork, StillOpen DEF LoopTop
<1>1. CASE ArgusSpawn
  <2>1. PICK w \in Worker : exec[w] = Idle /\ exec' = [exec EXCEPT ![w] =
                              [Idle EXCEPT !.pc = "claimed", !.task = argus.task]]
    BY <1>1 DEF ArgusSpawn
  <2>2. /\ argus.task \in Task /\ row' = Set(argus.task, "claimed") /\ argus' = LoopTop
        /\ ~row[argus.task].result
    BY <1>1, <1>typed, <1>open DEF ArgusSpawn, SeenOpen, TypeOK, Focused
  <2>3. \A e \in Executor : AtWork(e)' => e = w \/ (AtWork(e) /\ exec'[e].task = exec[e].task)
    BY <1>typed, <2>1 DEF AtWork, TypeOK, Typed
  <2>4. exec'[w].task = argus.task
    BY <1>typed, <2>1 DEF TypeOK, Typed, Idle, Executor
  <2>5. \A t \in Task : t # argus.task /\ Worked(t)' => Worked(t)
    BY <2>3, <2>4 DEF Worked
  <2>6. ~row'[argus.task].result /\ row'[argus.task].target = row[argus.task].target
        /\ \A t \in Task : t # argus.task => row'[t] = row[t]
    BY <1>typed, <2>2, SetKeepsResult
  <2> QED BY <2>2, <2>5, <2>6, StillOpen DEF LoopTop
<1>2. CASE ArgusPass
  <2>1. /\ argus.task \in Task /\ argus.seen \in PollerTakes /\ exec' = exec /\ argus' = LoopTop
        /\ row' = row \/ row' = Cas(argus.task, argus.seen, "pending_jeff_action")
    BY <1>typed, <1>2, Answered DEF ArgusPass, SeenOpen, TypeOK, Focused
  <2> QED BY <1>open, <1>still, <1>set, <2>1 DEF Cas, LoopTop
<1>3. CASE ArgusSwept
  <2>1. /\ argus.task \in Task /\ argus.pc \in {"reset", "release"} /\ exec' = exec /\ argus' = LoopTop
        /\ row' = IF argus.pc = "reset" THEN Set(argus.task, "ready")
                  ELSE Cas(argus.task, "waiting", "ready")
    BY <1>typed, <1>3, Answered DEF ArgusSwept, SweepWrites, TypeOK, Focused
  <2>2. argus.pc = "reset" => ~row[argus.task].result
    BY <2>1 DEF ResultCloses, ClosedAt
  <2> QED BY <1>open, <1>still, <1>set, <2>1, <2>2 DEF Cas, LoopTop
<1>4. ASSUME NEW u \in Task, ArgusSweep(u) PROVE ResultCloses'
  <2>1. row' = row /\ exec' = exec /\ argus'.task = u
    BY <1>4 DEF ArgusSweep, LoopTop
  <2>2. argus'.pc = "reset" => ~row[u].result
    BY <1>4, <1>open DEF ArgusSweep, LoopTop, SweepFinds, LooksStuck
  <2>3. \A t \in Task : Worked(t)' => Worked(t)
    BY <2>1 DEF Worked, AtWork
  <2> QED BY <2>1, <2>2, <2>3, StillClosed
<1>5. CASE ArgusCrash
  <2>1. row' = row /\ argus'.pc # "reset" /\ \A e \in Executor : exec'[e] \in {exec[e], Idle}
    BY <1>5 DEF ArgusCrash, LoopTop
  <2>2. \A t \in Task : Worked(t)' => Worked(t)
    BY <2>1 DEF Worked, AtWork, Idle
  <2> QED BY <2>1, <2>2, StillClosed
<1>6. \A u \in Task : ~ArgusStall(u)
  BY <1>typed, Spared DEF ArgusStall, Event
<1>7. ~(ArgusChargeRead \/ ArgusChargeWrite \/ ArgusUnlist)
  BY <1>typed DEF ArgusChargeRead, ArgusChargeWrite, ArgusUnlist, Quiet
<1>8. CASE ArgusFetch
  BY <1>8, <1>still DEF ArgusFetch, LoopTop
<1> QED BY <1>1, <1>2, <1>3, <1>4, <1>5, <1>6, <1>7, <1>8 DEF ArgusStep

LEMMA ClosesExec ==
  ASSUME Undisturbed, Alone, ResultCloses, ExecStep
  PROVE  ResultCloses'
<1>typed. TypeOK
  BY DEF Alone
<1>work. ASSUME NEW e \in Executor, AtWork(e)
         PROVE  exec[e].task \in Task /\ ~row[exec[e].task].result
  BY <1>work, <1>typed, AtWorkHasTask DEF ResultCloses, ClosedAt, Worked
<1>still. ASSUME NEW e \in Executor, Advance(e) \/ Close(e)
          PROVE  argus' = argus /\ \A t \in Task : Worked(t)' => Worked(t)
  <2>1. argus' = argus
    BY <1>still DEF Advance, Start, Launch, Exit, Record, FailRead, FailWrite, Close
  <2>2. ASSUME Advance(e), AtWork(e)' PROVE AtWork(e)
    BY <2>2 DEF Advance, Start, Launch, Exit, Record, FailRead, FailWrite, AtWork
  <2>3. Close(e) => ~AtWork(e)'
    BY <1>typed DEF Close, AtWork, Idle, TypeOK, Typed
  <2>4. ASSUME NEW f \in Executor, AtWork(f)' PROVE AtWork(f) /\ exec'[f].task = exec[f].task
    <3>1. CASE f = e
      BY <1>still, <1>typed, <2>2, <2>3, <2>4, <3>1, Advances
    <3>2. CASE f # e
      <4>1. exec'[f] = exec[f]
        BY <1>still, <1>typed, <3>2, Advances DEF Close, TypeOK, Typed
      <4> QED BY <2>4, <4>1 DEF AtWork
    <3> QED BY <3>1, <3>2
  <2> QED BY <2>1, <2>4 DEF Worked
<1>1. ASSUME NEW e \in Executor, Launch(e) \/ Exit(e) \/ FailRead(e) \/ Close(e) PROVE ResultCloses'
  <2>1. row' = row
    BY <1>1 DEF Launch, Exit, FailRead, Close
  <2>2. argus' = argus /\ \A t \in Task : Worked(t)' => Worked(t)
    BY <1>1, <1>still DEF Advance
  <2> QED BY <2>1, <2>2, StillClosed DEF ResultCloses, ClosedAt
<1>2. ASSUME NEW e \in Executor, Start(e) \/ FailWrite(e) PROVE ResultCloses'
  <2>1. AtWork(e) /\ argus' = argus /\ \A t \in Task : Worked(t)' => Worked(t)
    BY <1>2, <1>still DEF Advance, Start, FailWrite, AtWork
  <2>2. PICK u \in Task : u = exec[e].task /\ ~row[u].result
    BY <1>work, <2>1
  <2>3. /\ row'[u].result = row[u].result /\ row'[u].target = row[u].target
        /\ \A t \in Task : t # u => row'[t] = row[t]
    <3>1. CASE row' = Set(u, "in_progress_agent")
      BY <1>typed, <3>1, SetKeepsResult
    <3>2. CASE row' = Charged(u, exec[e].read, "ready", "failed")
      <4>1. ASSUME NEW m, NEW s, row' = [row EXCEPT ![u].attempts = m, ![u].status = s]
            PROVE  /\ row'[u].result = row[u].result /\ row'[u].target = row[u].target
                   /\ \A t \in Task : t # u => row'[t] = row[t]
        BY <1>typed, <4>1 DEF TypeOK, Typed, Row
      <4> QED BY <3>2, <4>1 DEF Charged
    <3> QED BY <1>typed, <1>2, <2>2, <3>1, <3>2, Answered DEF Start, FailWrite
  <2> QED BY <2>1, <2>2, <2>3, StillOpen
<1>3. ASSUME NEW e \in Executor, Record(e) PROVE ResultCloses'
  <2>1. AtWork(e) /\ argus' = argus /\ \A t \in Task : Worked(t)' => Worked(t)
    BY <1>3, <1>still DEF Advance, Record, AtWork
  <2>2. PICK u \in Task : u = exec[e].task /\ row' = Recorded(u, exec[e].outcome)
    BY <1>work, <1>3, <1>typed, <2>1, Answered DEF Record
  <2>3. ~Worked(u)'
    <3>1. exec' = [exec EXCEPT ![e].pc = "closing"]
      BY <1>3, <1>typed, Answered DEF Record
    <3>2. \A f \in Executor : AtWork(f)' => f # e /\ AtWork(f) /\ exec'[f].task = exec[f].task
      BY <1>typed, <3>1 DEF TypeOK, Typed, AtWork, Exec
    <3> QED BY <2>1, <2>2, <3>2 DEF Worked, Alone, OneAtWork
  <2>4. ~(argus.pc = "reset" /\ argus.task = u)
    BY <2>1, <2>2 DEF Alone, ResetIsAlone, Worked
  <2>5. /\ row'[u].result
        /\ row'[u].status \in {"completed", "pending_eval", "pending_jeff_action"}
        /\ \A t \in Task : t # u => row'[t] = row[t]
    <3>1. ASSUME NEW s, row' = [row EXCEPT ![u].status = s, ![u].result = TRUE]
          PROVE  row'[u].result /\ row'[u].status = s /\ \A t \in Task : t # u => row'[t] = row[t]
      BY <1>typed, <3>1 DEF TypeOK, Typed, Row
    <3>2. ASSUME row' = [row EXCEPT ![u].status = "pending_eval", ![u].result = TRUE,
                                    ![u].target = "cowork"]
          PROVE  row'[u].result /\ row'[u].status = "pending_eval"
                 /\ \A t \in Task : t # u => row'[t] = row[t]
      BY <1>typed, <3>2 DEF TypeOK, Typed, Row
    <3> QED BY <2>2, <3>1, <3>2 DEF Recorded
  <2>6. ASSUME NEW t \in Task PROVE ClosedAt(t)'
    <3>1. CASE t = u
      BY <2>1, <2>3, <2>4, <2>5, <3>1 DEF ClosedAt
    <3>2. CASE t # u
      BY <2>1, <2>5, <3>2 DEF ResultCloses, ClosedAt
    <3> QED BY <3>1, <3>2
  <2> QED BY <2>6 DEF ResultCloses
<1> QED BY <1>1, <1>2, <1>3 DEF ExecStep, Executor

LEMMA ClosesPoll ==
  ASSUME Undisturbed, Alone, ResultCloses, PollStep
  PROVE  ResultCloses'
<1>typed. TypeOK /\ SeenOpen /\ Quiet
  BY DEF Alone
<1>open. \A t \in Task : row[t].status \in PollerTakes \cup {"waiting"} => ~row[t].result
  BY DEF ResultCloses, ClosedAt, PollerTakes
<1>still. ASSUME row' = row, exec' = exec, argus' = argus PROVE ResultCloses'
  BY <1>still, SameWork, StillClosed DEF ResultCloses, ClosedAt
<1>cas. ASSUME NEW u \in Task, NEW seen \in PollerTakes \cup {"waiting"}, NEW s, row' = Cas(u, seen, s),
               exec' = exec, argus' = argus
        PROVE  ResultCloses'
  <2>1. CASE row[u].status = seen
    <3>1. ~row[u].result /\ row' = Set(u, s)
      BY <1>open, <1>cas, <2>1 DEF Cas
    <3>2. ~row'[u].result /\ row'[u].target = row[u].target /\ \A t \in Task : t # u => row'[t] = row[t]
      BY <1>typed, <3>1, SetKeepsResult
    <3> QED BY <1>cas, <3>1, <3>2, SameWork, StillOpen
  <2>2. CASE row[u].status # seen
    BY <1>cas, <1>still, <2>2 DEF Cas
  <2> QED BY <2>1, <2>2
<1>1. CASE PollSwept
  <2>1. poller.task \in Task /\ row' = Cas(poller.task, "waiting", "ready")
    BY <1>typed, <1>1, Answered DEF PollSwept, SweepWrites, Quiet, TypeOK, Focused
  <2> QED BY <1>1, <1>cas, <2>1 DEF PollSwept
<1>2. CASE PollClaim
  <2>1. /\ poller.task \in Task /\ row' = Set(poller.task, "claimed") /\ argus' = argus
        /\ ~row[poller.task].result
    BY <1>2, <1>typed, <1>open DEF PollClaim, SeenOpen, TypeOK, Focused
  <2>2. exec' = [exec EXCEPT ![Poller] = [Idle EXCEPT !.pc = "started", !.task = poller.task]]
    BY <1>2 DEF PollClaim
  <2>3. \A e \in Executor : AtWork(e)' => e = Poller \/ (AtWork(e) /\ exec'[e].task = exec[e].task)
    BY <1>typed, <2>2 DEF AtWork, TypeOK, Typed
  <2>4. exec'[Poller].task = poller.task
    BY <1>typed, <2>2 DEF TypeOK, Typed, Idle, Executor
  <2>5. \A t \in Task : t # poller.task /\ Worked(t)' => Worked(t)
    BY <2>3, <2>4 DEF Worked
  <2>6. ~row'[poller.task].result /\ row'[poller.task].target = row[poller.task].target
        /\ \A t \in Task : t # poller.task => row'[t] = row[t]
    BY <1>typed, <2>1, SetKeepsResult
  <2> QED BY <2>1, <2>5, <2>6, StillOpen
<1>3. CASE PollPass
  <2>1. poller.task \in Task /\ poller.seen \in PollerTakes
        /\ row' = Cas(poller.task, poller.seen, poller.move)
    BY <1>typed, <1>3, Answered DEF PollPass, SeenOpen, TypeOK, Focused
  <2> QED BY <1>3, <1>cas, <2>1 DEF PollPass
<1>4. CASE PollerCrash
  <2>1. row' = row /\ argus' = argus /\ \A e \in Executor : exec'[e] \in {exec[e], Idle}
    BY <1>typed, <1>4 DEF PollerCrash, TypeOK, Typed
  <2>2. \A t \in Task : Worked(t)' => Worked(t)
    BY <2>1 DEF Worked, AtWork, Idle
  <2> QED BY <2>1, <2>2, StillClosed DEF ResultCloses, ClosedAt
<1> QED
  BY <1>1, <1>2, <1>3, <1>4, <1>still DEF PollStep, PollStart, PollFetch, PollJudge, PollDone, PollSweep

LEMMA ClosesElse ==
  ASSUME Undisturbed, Budget["human"] = 0, Alone, ResultCloses, SageStep \/ HumanStep \/ UNCHANGED vars
  PROVE  ResultCloses'
<1>typed. TypeOK
  BY DEF Alone
<1>work. exec' = exec /\ argus' = argus
  BY DEF SageStep, SagePreRead, SagePostRead, SageCrash, SagePreWrite, SagePostWrite,
         HumanStep, JeffReplies, IrisSendsBack, IrisApproves, Cancel, Reopen, PremiseDecide,
         Fire, Tick, Human, vars
<1>same. row' = row => ResultCloses'
  BY <1>work, SameWork, StillClosed DEF ResultCloses, ClosedAt
<1>1. ASSUME NEW s \in sage.list, SagePreWrite(s) PROVE ResultCloses'
  <2>1. s.task \in Task /\ row' = [row EXCEPT ![s.task].evaluated = TRUE, ![s.task].accepted = s.accepted]
    BY <1>typed, <1>1, Answered DEF SagePreWrite, Evaluated, Undisturbed, TypeOK, Typed, SageState
  <2>2. \A t \in Task : /\ row'[t].result = row[t].result /\ row'[t].status = row[t].status
                        /\ row'[t].target = row[t].target
    BY <1>typed, <2>1 DEF TypeOK, Typed, Row
  <2> QED BY <1>work, <2>2, SameWork, StillClosed DEF ResultCloses, ClosedAt
<1>2. ASSUME NEW s \in sage.list, SagePostWrite(s) PROVE ResultCloses'
  <2>1. PICK u \in Task : u = s.task /\ row[u].target # "agent" /\ row[u].result
    BY <1>typed, <1>2 DEF SagePostWrite, Alone, HandedOver, TypeOK, Typed, SageState, ResultCloses, ClosedAt
  <2>2. /\ row'[u].result /\ row'[u].status \in {"completed", "pending_jeff_action"}
        /\ \A t \in Task : t # u => row'[t] = row[t]
    <3>1. row[u] \in Row /\ row \in [Task -> Row]
      BY <1>typed DEF TypeOK, Typed
    <3>2. PICK r \in { Set(u, "completed"), Set(u, "pending_jeff_action"),
                       [row EXCEPT ![u].status = "pending_jeff_action", ![u].target = "jeff"] } :
            row' = [r EXCEPT ![u].result = TRUE]
      BY <1>typed, <1>2, <2>1, Answered DEF SagePostWrite
    <3>3. r[u].status \in {"completed", "pending_jeff_action"} /\ DOMAIN r = Task
          /\ \A t \in Task : t # u => r[t] = row[t]
      BY <3>1, <3>2 DEF Row, Set
    <3>4. "status" \in DOMAIN r[u] /\ "result" \in DOMAIN r[u]
      BY <3>1, <3>2 DEF Row, Set
    <3> QED BY <3>2, <3>3, <3>4
  <2>3. ~Worked(u) /\ ~(argus.pc = "reset" /\ argus.task = u)
    BY <2>1 DEF ResultCloses, ClosedAt
  <2>4. ASSUME NEW t \in Task PROVE ClosedAt(t)'
    <3>1. Worked(t)' => Worked(t)
      BY <1>work, SameWork
    <3>2. CASE t = u
      BY <1>work, <2>2, <2>3, <3>1, <3>2 DEF ClosedAt
    <3>3. CASE t # u
      BY <1>work, <2>2, <3>1, <3>3 DEF ResultCloses, ClosedAt
    <3> QED BY <3>2, <3>3
  <2> QED BY <2>4 DEF ResultCloses
<1>3. ~Spend("human") /\ ~Spend("fire")
  BY <1>typed, Spared DEF Event
<1>4. HumanStep => row' = row
  BY <1>3 DEF HumanStep, JeffReplies, IrisSendsBack, IrisApproves, Cancel, Reopen, PremiseDecide,
              Fire, Tick, Human
<1> QED BY <1>1, <1>2, <1>4, <1>same DEF SageStep, SagePreRead, SagePostRead, SageCrash, vars

\* Where Argus alone claims, people may reply and reopen: what the guard was told of
\* the row Argus is about to claim stays true, since nobody is at work on it.
GuardHolds ==
  /\ exec[Poller].pc = "idle"
  /\ \A t \in Task : ~row[t].accepted
  /\ \A s \in sage.list : ~s.accepted
  /\ \A t \in Task : ArgusHas(t) =>
       row[t].target = "agent" /\ (argus.finished \/ t \in Recurring \/ ~row[t].result)

\* What a step that leaves Argus's claim alone keeps of it.
KeepsGuard(t) ==
  /\ ~row'[t].accepted
  /\ ArgusHas(t) => (row'[t].result => row[t].result) /\ row'[t].target = row[t].target

LEMMA GuardStays ==
  ASSUME GuardHolds, argus' = argus \/ argus'.pc # "claim", exec'[Poller].pc = "idle",
         \A t \in Task : KeepsGuard(t), \A s \in sage'.list : ~s.accepted
  PROVE  GuardHolds'
BY DEF GuardHolds, KeepsGuard, ArgusHas

LEMMA GuardStep ==
  ASSUME Undisturbed, Budget["poll"] = 0, Alone, GuardHolds, [Next]_vars
  PROVE  GuardHolds'
<1>typed. TypeOK /\ Quiet /\ poller.pc = "off" /\ row \in [Task -> Row]
  BY DEF Alone, Quiet, TypeOK, Typed
<1>same. row' = row => \A t \in Task : KeepsGuard(t)
  BY DEF GuardHolds, KeepsGuard
<1>idle. exec'[Poller].pc = "idle"
  <2>1. Poller \in Executor /\ Poller \notin Worker
    BY QueueAssumption DEF Executor
  <2>2. ~PollClaim
    BY <1>typed DEF PollClaim
  <2> QED BY <1>typed, <2>1, <2>2, ExecMoves DEF GuardHolds
<1>set. ASSUME NEW u \in Task, NEW s, row' = Set(u, s) PROVE \A t \in Task : KeepsGuard(t)
  <2>1. \A t \in Task : /\ row'[t].accepted = row[t].accepted /\ row'[t].result = row[t].result
                        /\ row'[t].target = row[t].target
    BY <1>typed, <1>set DEF Row, Set
  <2> QED BY <2>1 DEF GuardHolds, KeepsGuard
<1>1. CASE ArgusStep
  <2>sage. sage' = sage
    BY <1>1 DEF ArgusStep, ArgusFetch, ArgusSpawn, ArgusPass, ArgusSwept, ArgusChargeRead,
                ArgusChargeWrite, ArgusUnlist, ArgusCrash, ArgusSweep, ArgusStall
  <2>1. CASE ArgusFetch
    <3>1. PICK t \in Task : /\ row[t].target = "agent"
                            /\ argus' = [LoopTop EXCEPT !.pc = "claim", !.task = t,
                                           !.seen = row[t].status, !.finished = Finished(t)]
      BY <2>1 DEF ArgusFetch, First, Claimable
    <3>2. row' = row /\ argus'.task = t /\ argus'.finished = Finished(t)
      BY <2>1, <3>1 DEF ArgusFetch, LoopTop
    <3>3. Finished(t) \/ t \in Recurring \/ ~row[t].result
      BY DEF Finished, GuardHolds
    <3> QED BY <1>idle, <2>sage, <3>1, <3>2, <3>3 DEF GuardHolds, ArgusHas
  <2>2. CASE ArgusSpawn
    <3>1. argus.task \in Task /\ row' = Set(argus.task, "claimed") /\ argus'.pc # "claim"
      BY <1>typed, <2>2 DEF ArgusSpawn, TypeOK, Focused, LoopTop
    <3> QED BY <1>idle, <1>set, <2>sage, <3>1, GuardStays DEF GuardHolds
  <2>3. CASE ArgusPass \/ ArgusSwept
    <3>1. argus.task \in Task /\ argus'.pc # "claim"
      BY <1>typed, <2>3 DEF ArgusPass, ArgusSwept, TypeOK, Focused, LoopTop
    <3>2. row' = row \/ \E s : row' = Set(argus.task, s)
      BY <1>typed, <2>3, Answered DEF ArgusPass, ArgusSwept, SweepWrites, Cas
    <3> QED BY <1>idle, <1>same, <1>set, <2>sage, <3>1, <3>2, GuardStays DEF GuardHolds
  <2>4. ASSUME NEW t \in Task, ArgusSweep(t) PROVE GuardHolds'
    <3>1. row' = row /\ argus'.pc # "claim"
      BY <2>4 DEF ArgusSweep, LoopTop
    <3> QED BY <1>idle, <1>same, <2>sage, <3>1, GuardStays DEF GuardHolds
  <2>5. CASE ArgusCrash
    BY <1>idle, <1>same, <2>sage, <2>5, GuardStays DEF ArgusCrash, LoopTop, GuardHolds
  <2>6. \A t \in Task : ~ArgusStall(t)
    BY <1>typed, Spared DEF ArgusStall, Event
  <2>7. ~(ArgusChargeRead \/ ArgusChargeWrite \/ ArgusUnlist)
    BY <1>typed DEF ArgusChargeRead, ArgusChargeWrite, ArgusUnlist, Quiet
  <2> QED BY <1>1, <2>1, <2>2, <2>3, <2>4, <2>5, <2>6, <2>7 DEF ArgusStep
<1>2. CASE ExecStep
  <2>0. argus' = argus /\ sage' = sage
    BY <1>2 DEF ExecStep, Start, Launch, Exit, Record, FailRead, FailWrite, Close
  <2>1. ASSUME NEW e \in Executor, Start(e) PROVE \A t \in Task : KeepsGuard(t)
    <3>1. exec[e].task \in Task /\ row' = Set(exec[e].task, "in_progress_agent")
      BY <1>typed, <2>1, Answered, AtWorkHasTask DEF Start, AtWork
    <3> QED BY <1>set, <3>1
  <2>2. ASSUME NEW e \in Executor, FailWrite(e) PROVE \A t \in Task : KeepsGuard(t)
    <3>1. PICK u \in Task : u = exec[e].task
      BY <1>typed, <2>2, AtWorkHasTask DEF FailWrite, AtWork
    <3>2. row' = Charged(u, exec[e].read, "ready", "failed")
      BY <1>typed, <2>2, <3>1, Answered DEF FailWrite
    <3>3. ASSUME NEW m, NEW s, row' = [row EXCEPT ![u].attempts = m, ![u].status = s]
          PROVE  \A t \in Task : /\ row'[t].accepted = row[t].accepted /\ row'[t].result = row[t].result
                                 /\ row'[t].target = row[t].target
      BY <1>typed, <3>3 DEF Row
    <3> QED BY <3>2, <3>3 DEF Charged, GuardHolds, KeepsGuard
  <2>3. ASSUME NEW e \in Executor, Record(e) PROVE \A t \in Task : KeepsGuard(t)
    <3>1. PICK u \in Task : u = exec[e].task
      BY <1>typed, <2>3, AtWorkHasTask DEF Record, AtWork
    <3>2. e \in Worker /\ ~ArgusHas(u)
      BY <2>3, <3>1 DEF Record, GuardHolds, Executor, Alone, ArgusIsDone, AtWork
    <3>3. row' = Recorded(u, exec[e].outcome)
      BY <1>typed, <2>3, <3>1, Answered DEF Record
    <3>4. row'[u].accepted = row[u].accepted /\ \A t \in Task : t # u => row'[t] = row[t]
      <4>1. ASSUME NEW s, row' = [row EXCEPT ![u].status = s, ![u].result = TRUE]
            PROVE  row'[u].accepted = row[u].accepted /\ \A t \in Task : t # u => row'[t] = row[t]
        BY <1>typed, <4>1 DEF Row
      <4>2. ASSUME row' = [row EXCEPT ![u].status = "pending_eval", ![u].result = TRUE,
                                      ![u].target = "cowork"]
            PROVE  row'[u].accepted = row[u].accepted /\ \A t \in Task : t # u => row'[t] = row[t]
        BY <1>typed, <4>2 DEF Row
      <4> QED BY <3>3, <4>1, <4>2 DEF Recorded
    <3> QED BY <3>2, <3>4 DEF GuardHolds, KeepsGuard
  <2>4. \A t \in Task : KeepsGuard(t)
    BY <1>2, <1>same, <2>1, <2>2, <2>3 DEF ExecStep, Executor, Launch, Exit, FailRead, Close
  <2> QED BY <1>idle, <2>0, <2>4, GuardStays DEF GuardHolds
<1>3. CASE PollStep
  <2>1. PollerCrash
    BY <1>3, <1>typed, Spared
       DEF PollStep, PollStart, PollSwept, PollFetch, PollJudge, PollClaim, PollPass, PollDone,
           PollSweep, Event
  <2> QED BY <1>idle, <1>same, <2>1, GuardStays DEF PollerCrash, GuardHolds
<1>4. CASE SageStep
  <2>0. argus' = argus
    BY <1>4 DEF SageStep, SagePreRead, SagePostRead, SageCrash, SagePreWrite, SagePostWrite
  <2>rest. ASSUME NEW s \in sage.list, SageRest(s) PROVE \A r \in sage'.list : ~r.accepted
    BY <1>typed, <2>rest DEF SageRest, SageIdle, GuardHolds, TypeOK, Typed, SageState
  <2>1. ASSUME SagePreRead \/ SagePostRead \/ SageCrash PROVE GuardHolds'
    <3>1. row' = row
      BY <2>1 DEF SagePreRead, SagePostRead, SageCrash
    <3>2. \A s \in sage'.list : ~s.accepted
      <4>1. ASSUME SagePreRead \/ SagePostRead
            PROVE  \E S \in SUBSET Task : sage'.list = {Seen(t) : t \in S}
        <5>1. First(Claimable({"pending", "ready"}), SageBatch) \subseteq Task
          BY DEF First, Claimable
        <5>2. CASE SagePreRead
          <6> DEFINE fresh == {t \in First(Claimable({"pending", "ready"}), SageBatch) : ~row[t].evaluated}
          <6>1. sage'.list = {Seen(t) : t \in fresh}
            BY <5>2 DEF SagePreRead
          <6> QED BY <5>1, <6>1
        <5>3. CASE SagePostRead
          <6> DEFINE due == {t \in Task : row[t].status = "pending_eval"}
          <6>1. sage'.list = {Seen(t) : t \in due}
            BY <5>3 DEF SagePostRead
          <6> QED BY <6>1
        <5> QED BY <4>1, <5>2, <5>3
      <4>2. \A t \in Task : ~Seen(t).accepted
        BY DEF Seen, GuardHolds
      <4>3. SageCrash => sage'.list = {}
        BY DEF SageCrash, SageIdle
      <4> QED BY <2>1, <4>1, <4>2, <4>3
    <3> QED BY <1>idle, <1>same, <2>0, <3>1, <3>2, GuardStays
  <2>2. ASSUME NEW s \in sage.list, SagePreWrite(s) PROVE GuardHolds'
    <3>1. /\ s.task \in Task /\ ~s.accepted /\ SageRest(s)
          /\ row' = [row EXCEPT ![s.task].evaluated = TRUE, ![s.task].accepted = s.accepted]
      BY <1>typed, <2>2, Answered
         DEF SagePreWrite, Evaluated, Undisturbed, TypeOK, Typed, SageState, GuardHolds
    <3>2. \A t \in Task : /\ row'[t].result = row[t].result /\ row'[t].target = row[t].target
                          /\ ~row'[t].accepted
      BY <1>typed, <3>1 DEF Row, GuardHolds
    <3>3. \A t \in Task : KeepsGuard(t)
      BY <3>2 DEF KeepsGuard
    <3> QED BY <1>idle, <2>0, <2>rest, <3>1, <3>3, GuardStays
  <2>3. ASSUME NEW s \in sage.list, SagePostWrite(s) PROVE GuardHolds'
    <3>1. PICK u \in Task : u = s.task /\ row[u].target # "agent"
      BY <1>typed, <2>3 DEF SagePostWrite, Alone, HandedOver, TypeOK, Typed, SageState
    <3>2. PICK r \in { Set(u, "completed"), Set(u, "pending_jeff_action"),
                       [row EXCEPT ![u].status = "pending_jeff_action", ![u].target = "jeff"] } :
            row' = [r EXCEPT ![u].result = TRUE] /\ SageRest(s)
      BY <1>typed, <2>3, <3>1, Answered DEF SagePostWrite
    <3>3. \A t \in Task : /\ row'[t].accepted = row[t].accepted
                          /\ t # u => row'[t] = row[t]
      <4>1. DOMAIN r = Task /\ (\A t \in Task : t # u => r[t] = row[t])
            /\ r[u].accepted = row[u].accepted
        BY <1>typed, <3>2 DEF Row, Set
      <4> QED BY <3>2, <4>1
    <3>4. \A t \in Task : KeepsGuard(t)
      BY <3>1, <3>3 DEF KeepsGuard, GuardHolds
    <3> QED BY <1>idle, <2>0, <2>rest, <3>2, <3>4, GuardStays
  <2> QED BY <1>4, <2>1, <2>2, <2>3 DEF SageStep
<1>5. CASE HumanStep
  <2>0. argus' = argus /\ sage' = sage
    BY <1>5 DEF HumanStep, JeffReplies, IrisSendsBack, IrisApproves, Cancel, Reopen, PremiseDecide,
                Fire, Tick, Human
  <2>1. ASSUME NEW t \in Task, JeffReplies(t) \/ IrisSendsBack(t) \/ IrisApproves(t) \/ Cancel(t)
        PROVE  \A u \in Task : KeepsGuard(u)
    BY <1>set, <2>1 DEF JeffReplies, IrisSendsBack, IrisApproves, Cancel, Human
  <2>2. ASSUME NEW t \in Task, Reopen(t) PROVE \A u \in Task : KeepsGuard(u)
    <3>1. row' = [row EXCEPT ![t].status = "ready", ![t].result = FALSE]
      BY <2>2 DEF Reopen, Human
    <3>2. \A u \in Task : /\ row'[u].accepted = row[u].accepted /\ row'[u].target = row[u].target
                          /\ (row'[u].result => row[u].result)
      BY <1>typed, <3>1 DEF Row
    <3> QED BY <3>2 DEF KeepsGuard, GuardHolds
  <2>3. \A t \in Task, accept \in BOOLEAN : ~PremiseDecide(t, accept)
    BY DEF PremiseDecide, Undisturbed
  <2>4. \A t \in Task : ~Fire(t)
    BY <1>typed, Spared DEF Fire, Event
  <2>5. \A u \in Task : KeepsGuard(u)
    BY <1>5, <1>same, <2>1, <2>2, <2>3, <2>4 DEF HumanStep, Tick
  <2> QED BY <1>idle, <2>0, <2>5, GuardStays DEF GuardHolds
<1>6. CASE UNCHANGED vars
  BY <1>6, <1>idle, <1>same, GuardStays DEF vars, GuardHolds
<1> QED BY <1>1, <1>2, <1>3, <1>4, <1>5, <1>6 DEF Next

\* Work whose result is stored is not run again, provided that the two claimants do
\* not both act next to people: the poller's guard is a look at a list that may have
\* become old before the claim, and then a reply reopens the row.
THEOREM FinishedStays ==
  ASSUME Undisturbed, Budget["human"] = 0 \/ Budget["poll"] = 0
  PROVE  Spec => FinishedIsNotRerun
<1> DEFINE Kept == /\ Budget["human"] = 0 => ResultCloses
                   /\ Budget["poll"] = 0 => GuardHolds
           Fresh == \A e \in Executor : exec[e].pc = "idle" /\ exec'[e].pc # "idle" =>
                      LET t == exec'[e].task IN t \in Recurring \/ row[t].accepted \/ ~row[t].result
<1>1. Init => Kept
  <2> SUFFICES ASSUME Init PROVE Kept
    OBVIOUS
  <2>1. /\ \A e \in Executor : exec[e].pc = "idle"
        /\ sage.list = {} /\ argus.pc = "loop"
    BY DEF Init, Idle, SageIdle, LoopTop
  <2>2. \A t \in Task : row[t].target = "agent" /\ ~row[t].result /\ ~row[t].accepted
    BY DEF Init
  <2>3. ResultCloses
    BY <2>1, <2>2 DEF ResultCloses, ClosedAt
  <2>4. GuardHolds
    BY <2>1, <2>2 DEF GuardHolds, ArgusHas, Executor
  <2> QED BY <2>3, <2>4
<1>2. ASSUME Alone, Kept, [Next]_vars PROVE Kept'
  <2>1. ASSUME ResultCloses, Budget["human"] = 0 PROVE ResultCloses'
    BY <1>2, <2>1, ClosesArgus, ClosesExec, ClosesPoll, ClosesElse DEF Next
  <2> QED BY <1>2, <2>1, GuardStep
<1>3. ASSUME Alone, Kept, [Next]_vars PROVE Fresh
  <2> SUFFICES ASSUME NEW e \in Executor, exec[e].pc = "idle", exec'[e].pc # "idle",
                      NEW t, t = exec'[e].task
               PROVE  t \in Recurring \/ row[t].accepted \/ ~row[t].result
    OBVIOUS
  <2>typed. TypeOK /\ SeenOpen
    BY <1>3 DEF Alone
  <2>1. \/ ArgusSpawn /\ t = argus.task
        \/ PollClaim /\ t = poller.task
    BY <1>3, <2>typed, ExecMoves
  <2>2. t \in Task /\ row[t].status \in PollerTakes
    BY <2>typed, <2>1 DEF ArgusSpawn, PollClaim, SeenOpen, TypeOK, Focused
  <2>3. CASE Budget["human"] = 0
    BY <1>3, <2>2, <2>3 DEF ResultCloses, ClosedAt, PollerTakes
  <2>4. CASE Budget["poll"] = 0
    <3>1. poller.pc = "off"
      BY <1>3, <2>4 DEF Alone, Quiet
    <3>2. ArgusSpawn /\ ArgusHas(t) /\ ~argus.finished
      BY <2>1, <3>1 DEF PollClaim, ArgusSpawn, ArgusHas
    <3> QED BY <1>3, <2>2, <2>4, <3>2 DEF GuardHolds
  <2> QED BY <2>3, <2>4
<1> HIDE DEF Kept
<1> QED BY <1>1, <1>2, <1>3, AloneAlways, PTL DEF FinishedIsNotRerun, Spec

-----------------------------------------------------------------------------
(* Gates.                                                                  *)

\* What the poller has fetched, chosen or claimed was due, and stays so.
DueOnly ==
  /\ \A s \in poller.list : NotBefore[s.task] <= now
  /\ poller.pc = "move" => NotBefore[poller.task] <= now
  /\ exec[Poller].pc # "idle" => NotBefore[exec[Poller].task] <= now

AtDesk == TypeOK /\ SeenOpen /\ DueOnly

LEMMA AtDeskInit == Init => AtDesk
<1> SUFFICES ASSUME Init PROVE AtDesk
  OBVIOUS
<1>1. TypeOK /\ SeenOpen
  BY InitTyped, SeenOpenInit
<1>2. DueOnly
  BY DEF Init, DueOnly, PollerOff, Idle, Executor
<1> QED BY <1>1, <1>2 DEF AtDesk

LEMMA DeskTyped ==
  ASSUME AtDesk, [Next]_vars
  PROVE  TypeOK' /\ SeenOpen'
<1>1. TypeOK /\ SeenOpen
  BY DEF AtDesk
<1>2. CASE UNCHANGED vars
  BY <1>1, <1>2 DEF vars, TypeOK, Typed, Focused, SeenOpen
<1> QED
  BY <1>1, <1>2, ArgusTyped, ExecTyped, PollTyped, SageTyped, HumanTyped,
     SeenOpenArgus, SeenOpenPoll, SeenOpenElse DEF Next

\* The poller's candidates are due when it fetches them.
LEMMA FetchesDue ==
  ASSUME AtDesk, PollStep
  PROVE  /\ \A s \in poller'.list : NotBefore[s.task] <= now
         /\ poller'.pc = "move" => NotBefore[poller'.task] <= now
<1>typed. TypeOK /\ DueOnly /\ poller \in PollState
  BY DEF AtDesk, TypeOK, Typed
<1>1. CASE PollFetch
  <2> DEFINE due == {t \in Claimable(PollerTakes) : NotBefore[t] <= now}
             entry(t) == [task |-> t, seen |-> row[t].status, finished |-> Finished(t)]
  <2>1. poller' = [PollerOff EXCEPT !.pc = "scan", !.list = {entry(t) : t \in First(due, ScanLimit)}]
    BY <1>1 DEF PollFetch
  <2>2. poller'.pc = "scan" /\ poller'.list = {entry(t) : t \in First(due, ScanLimit)}
    BY <2>1 DEF PollerOff
  <2>3. \A t \in First(due, ScanLimit) : NotBefore[t] <= now /\ entry(t).task = t
    BY DEF First
  <2> HIDE DEF entry, due
  <2> QED BY <2>2, <2>3
<1>2. CASE PollJudge
  <2>1. PICK s \in poller.list :
          \/ poller' = [poller EXCEPT !.list = @ \ {s}]
          \/ \E move : poller' = [[poller EXCEPT !.list = @ \ {s}] EXCEPT
                                    !.pc = "move", !.task = s.task, !.seen = s.seen, !.move = move]
    BY <1>2 DEF PollJudge
  <2>2. poller'.list \subseteq poller.list /\ (poller'.pc = poller.pc \/ poller'.task = s.task)
    <3>1. CASE poller' = [poller EXCEPT !.list = @ \ {s}]
      BY <1>typed, <3>1 DEF PollState
    <3>2. ASSUME NEW move,
                 poller' = [[poller EXCEPT !.list = @ \ {s}] EXCEPT
                              !.pc = "move", !.task = s.task, !.seen = s.seen, !.move = move]
          PROVE  poller'.list \subseteq poller.list /\ poller'.task = s.task
      BY <1>typed, <3>2 DEF PollState
    <3> QED BY <2>1, <3>1, <3>2
  <2>3. poller.pc = "scan"
    BY <1>2 DEF PollJudge
  <2> QED BY <1>typed, <2>1, <2>2, <2>3 DEF DueOnly
<1>3. CASE PollPass
  <2>1. poller'.pc \in {"scan", "off"} /\ poller'.list \subseteq poller.list
    <3>1. poller' = PollerOff \/ poller' = [PollerOff EXCEPT !.pc = "scan", !.list = poller.list]
      BY <1>3 DEF PollPass
    <3>2. /\ PollerOff.pc = "off" /\ PollerOff.list = {}
          /\ \A l : LET r == [PollerOff EXCEPT !.pc = "scan", !.list = l]
                   IN  r.pc = "scan" /\ r.list = l
      BY DEF PollerOff
    <3> QED BY <3>1, <3>2
  <2> QED BY <1>typed, <2>1 DEF DueOnly
<1>4. ASSUME NEW t \in Task, PollSweep(t)
      PROVE  poller'.list = poller.list /\ poller'.pc # "move"
  BY <1>typed, <1>4 DEF PollSweep, PollState
<1>5. CASE PollStart \/ PollSwept \/ PollClaim \/ PollDone \/ PollerCrash
  BY <1>5 DEF PollStart, PollSwept, PollClaim, PollDone, PollerCrash, PollerOff
<1> QED BY <1>typed, <1>1, <1>2, <1>3, <1>4, <1>5 DEF PollStep, DueOnly

LEMMA DueStays ==
  ASSUME AtDesk, [Next]_vars
  PROVE  DueOnly'
<1>typed. TypeOK /\ DueOnly /\ Poller \in Executor \ Worker
  BY QueueAssumption DEF AtDesk, Executor
<1>now. now \in Nat /\ now' \in Nat /\ now <= now'
  <2>1. now' = now \/ (Tick /\ now' = now + 1)
    BY DEF Next, ArgusStep, ArgusFetch, ArgusSpawn, ArgusPass, ArgusSwept, ArgusChargeRead,
           ArgusChargeWrite, ArgusUnlist, ArgusCrash, ArgusSweep, ArgusStall,
           ExecStep, Start, Launch, Exit, Record, FailRead, FailWrite, Close,
           PollStep, PollStart, PollSwept, PollFetch, PollJudge, PollClaim, PollPass, PollDone,
           PollerCrash, PollSweep,
           SageStep, SagePreRead, SagePostRead, SageCrash, SagePreWrite, SagePostWrite,
           HumanStep, JeffReplies, IrisSendsBack, IrisApproves, Cancel, Reopen,
           PremiseDecide, Fire, Tick, Human, vars
  <2> QED BY <1>typed, <2>1 DEF TypeOK, Typed
<1>late. \A t \in Task : NotBefore[t] <= now => NotBefore[t] <= now'
  BY <1>now, QueueAssumption
<1>list. /\ \A s \in poller'.list : NotBefore[s.task] <= now
         /\ poller'.pc = "move" => NotBefore[poller'.task] <= now
  <2>1. poller' = poller \/ PollStep
    BY DEF Next, ArgusStep, ArgusFetch, ArgusSpawn, ArgusPass, ArgusSwept, ArgusChargeRead,
           ArgusChargeWrite, ArgusUnlist, ArgusCrash, ArgusSweep, ArgusStall,
           ExecStep, Start, Launch, Exit, Record, FailRead, FailWrite, Close,
           SageStep, SagePreRead, SagePostRead, SageCrash, SagePreWrite, SagePostWrite,
           HumanStep, JeffReplies, IrisSendsBack, IrisApproves, Cancel, Reopen,
           PremiseDecide, Fire, Tick, Human, vars
  <2> QED BY <1>typed, <2>1, FetchesDue DEF DueOnly
<1>exec. exec'[Poller].pc # "idle" => NotBefore[exec'[Poller].task] <= now
  <2> SUFFICES ASSUME exec'[Poller].pc # "idle" PROVE NotBefore[exec'[Poller].task] <= now
    OBVIOUS
  <2>1. PollClaim => poller.pc = "move"
    BY DEF PollClaim
  <2> QED BY <1>typed, <2>1, ExecMoves DEF DueOnly
<1>typed2. TypeOK'
  BY DeskTyped
<1>tasks. /\ \A s \in poller'.list : s.task \in Task
          /\ poller'.pc = "move" => poller'.task \in Task
          /\ exec'[Poller].pc # "idle" => exec'[Poller].task \in Task
  BY <1>typed, <1>typed2 DEF TypeOK, Typed, Focused, PollState, Snapshot, Idle
<1> QED BY <1>late, <1>list, <1>exec, <1>tasks DEF DueOnly

\* What is done stays so, but for people, the producer and the late writes.
LEMMA DoneStays ==
  ASSUME AtDesk, Next, NEW d \in Task, row[d].status = "completed", ~LateWrite(d),
         exec[Poller].pc # "idle" => exec[Poller].task # d, poller.pc # "reset",
         \A k \in {"human", "fire", "outage"} : spent'[k] = spent[k]
  PROVE  row'[d].status = "completed"
<1>typed. TypeOK /\ SeenOpen /\ row \in [Task -> Row] /\ sage \in SageState
  BY DEF AtDesk, TypeOK, Typed
<1>calm. ~Spend("human") /\ ~Spend("fire") /\ ~Spend("outage")
  BY <1>typed DEF Spend, TypeOK, Typed, Event
<1>sent. \A r : (Sent(r) => row' = r) /\ ~Failed(r)
  BY <1>calm DEF Sent, Acked, Failed
<1>else. ASSUME NEW u \in Task, u # d, \A t \in Task : t # u => row'[t] = row[t]
         PROVE  row'[d].status = "completed"
  BY <1>else
<1>cas. ASSUME NEW u \in Task, NEW seen \in PollerTakes \cup {"waiting"}, NEW s, row' = Cas(u, seen, s)
        PROVE  row'[d].status = "completed"
  BY <1>typed, <1>cas DEF Cas, Set, PollerTakes
<1>set. ASSUME NEW u \in Task, NEW s, row' = Set(u, s), u # d
        PROVE  row'[d].status = "completed"
  BY <1>typed, <1>else, <1>set DEF Set
<1>charged. ASSUME NEW u \in Task, u # d, NEW n, NEW s, NEW x, row' = Charged(u, n, s, x)
            PROVE  row'[d].status = "completed"
  <2>1. \A t \in Task : t # u => row'[t] = row[t]
    BY <1>typed, <1>charged DEF Charged
  <2> QED BY <1>else, <1>charged, <2>1
<1>1. CASE ArgusStep
  <2>1. CASE ArgusSwept
    <3>1. argus' = LoopTop /\ argus.pc \in {"reset", "release"} /\ argus.task \in Task
      BY <1>typed, <2>1 DEF ArgusSwept, TypeOK, Focused
    <3>2. CASE argus.pc = "release"
      <4>1. row' = Cas(argus.task, "waiting", "ready")
        BY <1>sent, <2>1, <3>2 DEF ArgusSwept, SweepWrites
      <4> QED BY <1>cas, <3>1, <4>1
    <3>3. CASE argus.pc = "reset"
      <4>1. row' = Set(argus.task, "ready")
        BY <1>sent, <2>1, <3>3 DEF ArgusSwept, SweepWrites
      <4>2. argus.task # d
        BY <3>1, <3>3 DEF LateWrite, LoopTop
      <4> QED BY <1>set, <3>1, <4>1, <4>2
    <3> QED BY <3>1, <3>2, <3>3
  <2>2. CASE ArgusSpawn
    <3>1. /\ argus.task \in Task /\ row[argus.task].status \in PollerTakes
          /\ row' = Set(argus.task, "claimed")
      BY <1>typed, <2>2 DEF ArgusSpawn, SeenOpen, TypeOK, Focused
    <3>2. argus.task # d
      BY <3>1 DEF PollerTakes
    <3> QED BY <1>set, <3>1, <3>2
  <2>3. CASE ArgusPass
    <3>1. /\ argus.task \in Task /\ argus.seen \in PollerTakes
          /\ row' = row \/ \E s : row' = Cas(argus.task, argus.seen, s)
      BY <1>typed, <1>sent, <2>3 DEF ArgusPass, SeenOpen, TypeOK, Focused, Acked
    <3> QED BY <1>cas, <3>1
  <2>4. CASE ArgusChargeWrite
    <3>1. /\ argus.pc = "charged" /\ argus'.pc = "unlist" /\ argus.task \in Task
          /\ \E n, s, x : row' = Charged(argus.task, n, s, x)
      BY <1>typed, <1>sent, <2>4 DEF ArgusChargeWrite, TypeOK, Typed, Focused, Loop
    <3>2. argus.task # d
      BY <3>1 DEF LateWrite
    <3> QED BY <1>charged, <3>1, <3>2
  <2>5. CASE ArgusFetch \/ ArgusCrash \/ ArgusChargeRead \/ ArgusUnlist
             \/ \E t \in Task : ArgusSweep(t) \/ ArgusStall(t)
    BY <2>5 DEF ArgusFetch, ArgusCrash, ArgusChargeRead, ArgusUnlist, ArgusSweep, ArgusStall
  <2> QED BY <1>1, <2>1, <2>2, <2>3, <2>4, <2>5 DEF ArgusStep
<1>2. CASE ExecStep
  <2> DEFINE Writes(e) == (e \in Worker /\ Start(e)) \/ Record(e) \/ FailWrite(e)
  <2>1. ASSUME NEW e \in Executor, Writes(e) PROVE exec[e].task \in Task \ {d}
    <3>1. exec[e].pc # "idle" /\ exec[e].task \in Task /\ exec'[e] # exec[e]
      <4>1. exec[e].pc # "idle" /\ exec'[e].pc # exec[e].pc
        <5>1. /\ exec[e].pc \in {"claimed", "exited", "failing"}
              /\ \E pc \in {"started", "closing"} : exec' = [exec EXCEPT ![e].pc = pc]
          BY <1>sent, <2>1 DEF Start, Record, FailWrite
        <5> QED BY <1>typed, <5>1 DEF TypeOK, Typed, Exec
      <4> QED BY <1>typed, <4>1 DEF TypeOK, Focused, Idle
    <3> QED BY <3>1 DEF LateWrite, Alive, Executor
  <2>2. ASSUME NEW e \in Worker, Start(e) PROVE row' = Set(exec[e].task, "in_progress_agent")
    BY <1>sent, <2>2 DEF Start
  <2>3. ASSUME NEW e \in Executor, Record(e), NEW u \in Task, u = exec[e].task
        PROVE  \A t \in Task : t # u => row'[t] = row[t]
    <3>1. row' = Recorded(u, exec[e].outcome)
      BY <1>sent, <2>3 DEF Record, Acked
    <3> QED BY <1>typed, <3>1 DEF Recorded
  <2>4. ASSUME NEW e \in Executor, FailWrite(e)
        PROVE  row' = Charged(exec[e].task, exec[e].read, "ready", "failed")
    BY <1>sent, <2>4 DEF FailWrite
  <2>5. ASSUME NEW e \in Executor, Launch(e) \/ Exit(e) \/ FailRead(e) \/ Close(e)
        PROVE  row' = row
    BY <2>5 DEF Launch, Exit, FailRead, Close
  <2>6. ASSUME NEW e \in Executor, Writes(e) PROVE row'[d].status = "completed"
    <3>1. PICK u \in Task : u = exec[e].task /\ u # d
      BY <2>1, <2>6
    <3>2. CASE e \in Worker /\ Start(e)
      BY <1>set, <2>2, <3>1, <3>2
    <3>3. CASE Record(e)
      BY <1>else, <2>3, <3>1, <3>3
    <3>4. CASE FailWrite(e)
      BY <1>charged, <2>4, <3>1, <3>4
    <3> QED BY <2>6, <3>2, <3>3, <3>4
  <2> QED BY <1>2, <2>5, <2>6 DEF ExecStep, Executor
<1>3. CASE PollStep
  <2>1. CASE PollSwept
    <3>1. poller.pc = "release" /\ poller.task \in Task
      BY <1>typed, <2>1 DEF PollSwept, TypeOK, Focused
    <3>2. row' = Cas(poller.task, "waiting", "ready")
      BY <1>sent, <2>1, <3>1 DEF PollSwept, SweepWrites
    <3> QED BY <1>cas, <3>1, <3>2
  <2>2. CASE PollClaim
    <3>1. /\ poller.task \in Task /\ row[poller.task].status \in PollerTakes
          /\ row' = Set(poller.task, "claimed")
      BY <1>typed, <2>2 DEF PollClaim, SeenOpen, TypeOK, Focused
    <3>2. poller.task # d
      BY <3>1 DEF PollerTakes
    <3> QED BY <1>set, <3>1, <3>2
  <2>3. CASE PollPass
    <3>1. /\ poller.task \in Task /\ poller.seen \in PollerTakes
          /\ row' = Cas(poller.task, poller.seen, poller.move)
      BY <1>typed, <1>sent, <2>3 DEF PollPass, SeenOpen, TypeOK, Focused, Acked
    <3> QED BY <1>cas, <3>1
  <2> QED
    BY <1>3, <2>1, <2>2, <2>3
       DEF PollStep, PollStart, PollFetch, PollJudge, PollDone, PollerCrash, PollSweep
<1>4. CASE SageStep
  <2>1. ASSUME NEW s \in sage.list, SageRest(s) PROVE s.task # d
    <3>1. sage' = SageIdle \/ sage'.list = sage.list \ {s}
      BY <1>typed, <2>1 DEF SageRest, SageState
    <3> QED BY <3>1 DEF LateWrite, SageIdle
  <2>2. ASSUME NEW s \in sage.list, SagePreWrite(s) PROVE row'[d].status = "completed"
    <3>1. row' = Evaluated(s) /\ SageRest(s) /\ s.task \in Task
      BY <1>typed, <1>sent, <2>2 DEF SagePreWrite, Acked, SageState
    <3>2. \A t \in Task : t # s.task => row'[t] = row[t]
      BY <1>typed, <3>1 DEF Evaluated
    <3> QED BY <1>else, <2>1, <3>1, <3>2
  <2>3. ASSUME NEW s \in sage.list, SagePostWrite(s) PROVE row'[d].status = "completed"
    <3>1. PICK r \in { Set(s.task, "completed"), Set(s.task, "pending_jeff_action"),
                       [row EXCEPT ![s.task].status = "pending_jeff_action", ![s.task].target = "jeff"] } :
            row' = [r EXCEPT ![s.task].result = TRUE] /\ SageRest(s)
      BY <1>sent, <2>3 DEF SagePostWrite, Acked
    <3>2. s.task \in Task /\ \A t \in Task : t # s.task => r[t] = row[t]
      BY <1>typed, <3>1 DEF Set, SageState
    <3>3. \A t \in Task : t # s.task => row'[t] = r[t]
      <4>1. DOMAIN r = Task
        BY <1>typed, <3>1 DEF Set
      <4> QED BY <3>1, <4>1
    <3> QED BY <1>else, <2>1, <3>1, <3>2, <3>3
  <2> QED BY <1>4, <2>2, <2>3 DEF SageStep, SagePreRead, SagePostRead, SageCrash
<1>5. CASE HumanStep
  <2>2. Tick => row' = row
    BY DEF Tick
  <2>3. \A t \in Task : /\ ~JeffReplies(t) /\ ~IrisSendsBack(t) /\ ~IrisApproves(t) /\ ~Cancel(t) /\ ~Reopen(t) /\ ~Fire(t)
                        /\ \A accept \in BOOLEAN : ~PremiseDecide(t, accept)
    BY <1>calm DEF JeffReplies, IrisSendsBack, IrisApproves, Cancel, Reopen, PremiseDecide, Fire, Human
  <2> QED BY <1>5, <2>2, <2>3 DEF HumanStep
<1> QED BY <1>1, <1>2, <1>3, <1>4, <1>5 DEF Next

\* A row that the poller works on, or that it is about to claim.
Picked(t) ==
  \/ <<"move", t, "claimed">> = <<poller.pc, poller.task, poller.move>>
  \/ Alive(Poller) /\ exec[Poller].task = t

LEMMA GateStep ==
  ASSUME AtDesk, AtDesk', Next, NEW t \in Task, t \notin Deps[t],
         AheadOfGates(t)', ~AheadOfGates(t),
         \A k \in {"human", "fire", "outage"} : spent'[k] = spent[k],
         \A d \in Deps[t] : row[d].status = "completed" => ~LateWrite(d)
  PROVE  FALSE
<1>typed. TypeOK /\ Poller \in Executor \ Worker /\ NotBefore[t] \in Nat /\ Deps[t] \subseteq Task
  BY QueueAssumption DEF AtDesk, Executor
<1>calm. ~Spend("outage")
  BY <1>typed DEF Spend, TypeOK, Typed, Event
<1>1. Picked(t)'
  BY DEF AheadOfGates, Picked
<1>2. \/ poller'.pc = "move" /\ poller'.task = t /\ poller'.move = "claimed"
      \/ exec'[Poller].pc # "idle" /\ exec'[Poller].task = t
  BY <1>1 DEF Picked, Alive
<1>3. now' \in Nat /\ NotBefore[t] <= now'
  BY <1>2 DEF AtDesk, DueOnly, TypeOK, Typed
<1>4. PICK d \in Deps[t] : row'[d].status # "completed"
  BY <1>typed, <1>3 DEF AheadOfGates
<1>5. CASE Picked(t)
  <2>1. row[d].status = "completed" /\ d \in Task
    BY <1>typed, <1>5 DEF AheadOfGates, Picked
  <2>2. d # t /\ ~LateWrite(d)
    BY <2>1
  <2>3. /\ poller.pc # "reset"
        /\ exec[Poller].pc # "idle" => exec[Poller].task # d
    <3>1. \/ poller.pc = "move"
          \/ exec[Poller].pc # "idle" /\ exec[Poller].task = t
      BY <1>5 DEF Picked, Alive
    <3> QED BY <1>typed, <2>2, <3>1 DEF TypeOK, Focused, Idle
  <2> QED BY <1>4, <2>1, <2>2, <2>3, DoneStays
<1>6. CASE ~Picked(t)
  <2>1. ~(poller.pc = "move" /\ poller.task = t /\ poller.move = "claimed")
        /\ ~(exec[Poller].pc # "idle" /\ exec[Poller].task = t)
    BY <1>typed, <1>6 DEF Picked, Alive
  <2>2. CASE exec'[Poller].pc # "idle" /\ exec'[Poller].task = t
    <3>1. PollClaim /\ poller.task = t
      BY <1>typed, <2>1, <2>2, ExecMoves
    <3> QED BY <2>1, <3>1 DEF PollClaim
  <2>3. CASE poller'.pc = "move" /\ poller'.task = t /\ poller'.move = "claimed"
    <3>1. PollJudge
      <4>1. poller' # poller
        BY <2>1, <2>3
      <4>2. PollStep
        BY <4>1
           DEF Next, ArgusStep, ArgusFetch, ArgusSpawn, ArgusPass, ArgusSwept, ArgusChargeRead,
               ArgusChargeWrite, ArgusUnlist, ArgusCrash, ArgusSweep, ArgusStall,
               ExecStep, Start, Launch, Exit, Record, FailRead, FailWrite, Close,
               SageStep, SagePreRead, SagePostRead, SageCrash, SagePreWrite, SagePostWrite,
               HumanStep, JeffReplies, IrisSendsBack, IrisApproves, Cancel, Reopen,
               PremiseDecide, Fire, Tick, Human
      <4>3. \A u \in Task : PollSweep(u) => poller'.pc # "move"
        BY <1>typed DEF PollSweep, TypeOK, Typed, PollState
      <4>4. PollPass => poller'.pc \in {"scan", "off"}
        <5>1. PollPass => \/ poller' = PollerOff
                          \/ poller' = [PollerOff EXCEPT !.pc = "scan", !.list = poller.list]
          BY DEF PollPass
        <5>2. /\ PollerOff.pc = "off"
              /\ \A l : [PollerOff EXCEPT !.pc = "scan", !.list = l].pc = "scan"
          BY DEF PollerOff
        <5> QED BY <5>1, <5>2
      <4>5. PollFetch => poller'.pc = "scan"
        BY DEF PollFetch, PollerOff
      <4>6. PollStart \/ PollSwept \/ PollClaim \/ PollDone \/ PollerCrash
              => poller'.pc \in {"sweep", "off"}
        BY DEF PollStart, PollSwept, PollClaim, PollDone, PollerCrash, PollerOff
      <4> QED BY <2>3, <4>2, <4>3, <4>4, <4>5, <4>6 DEF PollStep
    <3>2. row' = row
      BY <3>1 DEF PollJudge
    <3>3. DepsDone(t)
      <4>1. poller \in PollState /\ poller.pc = "scan"
        BY <1>typed, <3>1 DEF PollJudge, TypeOK, Typed
      <4>2. PICK s \in poller.list :
              \/ poller' = [[poller EXCEPT !.list = @ \ {s}] EXCEPT
                              !.pc = "move", !.task = s.task, !.seen = s.seen, !.move = "expired"]
              \/ poller' = [poller EXCEPT !.list = @ \ {s}]
              \/ DepsLookup(s.task) /\ \E move :
                   poller' = [[poller EXCEPT !.list = @ \ {s}] EXCEPT
                              !.pc = "move", !.task = s.task, !.seen = s.seen, !.move = move]
        BY <3>1 DEF PollJudge
      <4>3. DepsLookup(s.task) /\ poller'.task = s.task
        BY <2>3, <4>1, <4>2 DEF PollState
      <4> QED BY <1>calm, <2>3, <4>3 DEF DepsLookup
    <3> QED BY <1>4, <3>2, <3>3 DEF DepsDone
  <2> QED BY <1>2, <2>2, <2>3
<1> QED BY <1>5, <1>6

\* The poller works on no row before it is due and its prerequisites are done,
\* however long ago it fetched the row, whatever Argus, Sage and the workers do
\* meanwhile, and whoever stalls, crashes and sweeps, as long as no row waits for
\* itself.
THEOREM GatesHold ==
  ASSUME \A t \in Task : t \notin Deps[t]
  PROVE  Spec => GatesAreRespected
<1> DEFINE Respects == \A t \in Task :
             (AheadOfGates(t)' /\ ~AheadOfGates(t)) =>
               \/ \E k \in {"human", "fire", "outage"} : spent'[k] # spent[k]
               \/ \E d \in Deps[t] : row[d].status = "completed" /\ LateWrite(d)
<1>1. ASSUME AtDesk, [Next]_vars PROVE AtDesk' /\ (Respects \/ UNCHANGED vars)
  <2>1. AtDesk'
    BY <1>1, DeskTyped, DueStays DEF AtDesk
  <2>2. Next => Respects
    BY <1>1, <2>1, GateStep
  <2> QED BY <1>1, <2>1, <2>2
<1> QED BY <1>1, AtDeskInit, PTL DEF GatesAreRespected, Spec
=============================================================================
