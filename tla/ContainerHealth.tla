---------------------------- MODULE ContainerHealth ----------------------------
(***************************************************************************)
(* container_health_audit.py: every 15 minutes a run asks systemd for the  *)
(* timers that probe containers, then podman for the containers, and       *)
(* reports the containers whose health nobody measures.  Containers come   *)
(* and go at any time, the two questions of a run in between included.     *)
(***************************************************************************)
EXTENDS Naturals

CONSTANTS
  Name,      \* container names
  MaxId,     \* containers created in all (a bound)
  MaxFail    \* questions and messages that may fail (a bound)

VARIABLES
  box,      \* box[n]: the running container of that name
  timers,   \* the containers podman's own timers probe
  named,    \* the names podman-healthcheck@<name>.timer probes
  last,     \* the last container id
  run,      \* the run under way
  seen,     \* the findings in the state file
  told,     \* the findings Discord was last told of
  lost,     \* since told and seen last agreed a message or the file was lost
  fails

vars == <<box, timers, named, last, run, seen, told, lost, fails>>
host == <<box, timers, named>>

NoBox   == [id |-> 0, check |-> "none", status |-> "none", old |-> FALSE]
RunIdle == [pc |-> "idle", timers |-> {}, named |-> {}, found |-> {}]
BoxKind == {"NO_TIMER", "UNHEALTHY", "STUCK_STARTING", "STALE"}
Finding == BoxKind \X Name \cup {"ORPHANED_TIMER"} \X (1..MaxId)

TypeOK ==
  /\ box \in [Name -> [id : 0..MaxId, check : {"none", "image", "command"},
                       status : {"none", "starting", "healthy", "unhealthy"}, old : BOOLEAN]]
  /\ timers \subseteq 1..last /\ named \subseteq Name /\ last \in 0..MaxId
  /\ run.pc \in {"idle", "ask podman", "post", "write"}
  /\ run.timers \subseteq timers \cup 1..last /\ run.named \subseteq Name
  /\ run.found \cup seen \cup told \subseteq Finding
  /\ lost \in BOOLEAN /\ fails \in 0..MaxFail

Init ==
  /\ box = [n \in Name |-> NoBox] /\ timers = {} /\ named = {} /\ last = 0
  /\ run = RunIdle /\ seen = {} /\ told = {} /\ lost = FALSE /\ fails = 0

Fail == fails < MaxFail /\ fails' = fails + 1

-----------------------------------------------------------------------------
(* podman, systemd and people *)

\* A stack is recreated.  A timer of the old container may survive it.
Create(n) ==
  /\ last < MaxId /\ last' = last + 1
  /\ \E check \in {"none", "image", "command"}, keep \in BOOLEAN :
       /\ box' = [box EXCEPT ![n] = [id |-> last + 1, check |-> check, status |-> "starting", old |-> FALSE]]
       /\ timers' = IF keep THEN timers ELSE timers \ {box[n].id}
  /\ UNCHANGED <<named, run, seen, told, lost, fails>>

\* Podman makes the timer a moment later, and only for a check given on the command line.
Schedule(n) ==
  /\ box[n].check = "command" /\ box[n].id \notin timers
  /\ timers' = timers \cup {box[n].id}
  /\ UNCHANGED <<box, named, last, run, seen, told, lost, fails>>

Remove(n) ==
  /\ box[n].id # 0 /\ \E keep \in BOOLEAN : timers' = IF keep THEN timers ELSE timers \ {box[n].id}
  /\ box' = [box EXCEPT ![n] = NoBox]
  /\ UNCHANGED <<named, last, run, seen, told, lost, fails>>

Fallback(n) ==
  /\ n \notin named /\ named' = named \cup {n}
  /\ UNCHANGED <<box, timers, last, run, seen, told, lost, fails>>

Scheduled(n, T, N) == box[n].id \in T \/ n \in N

Probe(n) ==
  /\ box[n].check # "none" /\ Scheduled(n, timers, named)
  /\ \E status \in {"healthy", "unhealthy"} :
       box' = [box EXCEPT ![n].status = status, ![n].old = FALSE]
  /\ UNCHANGED <<timers, named, last, run, seen, told, lost, fails>>

\* The last probe, or the start, is longer ago than the audit allows.
Age(n) ==
  /\ box[n].check # "none" /\ ~box[n].old /\ box' = [box EXCEPT ![n].old = TRUE]
  /\ UNCHANGED <<timers, named, last, run, seen, told, lost, fails>>

Host == \E n \in Name : Create(n) \/ Schedule(n) \/ Remove(n) \/ Fallback(n) \/ Probe(n) \/ Age(n)

-----------------------------------------------------------------------------
(* A run *)

OfBoxByStatus(n, T, N) ==  \* mutant: a container that reads healthy is passed over
  IF box[n].check = "none" \/ box[n].status = "healthy" THEN {}
  ELSE IF ~Scheduled(n, T, N) THEN {<<"NO_TIMER", n>>} ELSE {<<"UNHEALTHY", n>>}

OfBox(n, T, N) ==
  CASE box[n].check = "none"         -> {}
    [] ~Scheduled(n, T, N)           -> {<<"NO_TIMER", n>>}
    [] box[n].status = "unhealthy"   -> {<<"UNHEALTHY", n>>}
    [] ~box[n].old                   -> {}
    [] box[n].status = "starting"    -> {<<"STUCK_STARTING", n>>}
    [] OTHER                         -> {<<"STALE", n>>}

Running == {box[n].id : n \in Name}

Audit(T, N) == (UNION {OfBox(n, T, N) : n \in Name}) \cup {"ORPHANED_TIMER"} \X (T \ Running)

\* systemctl that fails is not told from systemctl that lists no timer.
AskSystemd ==
  /\ run.pc = "idle"
  /\ \/ run' = [RunIdle EXCEPT !.pc = "ask podman", !.timers = timers, !.named = named]
        /\ UNCHANGED fails
     \/ run' = [RunIdle EXCEPT !.pc = "ask podman"] /\ Fail
  /\ UNCHANGED <<box, timers, named, last, seen, told, lost>>

\* podman that fails ends the run.
AskPodman ==
  /\ run.pc = "ask podman"
  /\ \/ LET found == Audit(run.timers, run.named)
        IN run' = [RunIdle EXCEPT !.pc = IF found # seen THEN "post" ELSE "idle",
                                  !.found = IF found # seen THEN found ELSE {}]
        /\ UNCHANGED fails
     \/ run' = RunIdle /\ Fail
  /\ UNCHANGED <<box, timers, named, last, seen, told, lost>>

PostFindings ==  \* mutant: the end of the last finding is not posted
  /\ run.pc = "post" /\ run' = [run EXCEPT !.pc = "write"]
  /\ told' = IF run.found # {} THEN run.found ELSE told
  /\ UNCHANGED <<box, timers, named, last, seen, lost, fails>>

\* A message that fails is printed, and is not tried again.
Post ==
  /\ run.pc = "post" /\ run' = [run EXCEPT !.pc = "write"]
  /\ \/ told' = run.found /\ UNCHANGED <<lost, fails>>
     \/ Fail /\ lost' = TRUE /\ UNCHANGED told
  /\ UNCHANGED <<box, timers, named, last, seen>>

Write ==
  /\ run.pc = "write" /\ run' = RunIdle /\ seen' = run.found /\ lost' = (told # run.found)
  /\ UNCHANGED <<box, timers, named, last, told, fails>>

\* A run is killed; a state file cut short reads as one without findings.
Crash ==
  /\ run.pc # "idle" /\ run' = RunIdle /\ Fail
  /\ \/ run.pc # "write" /\ UNCHANGED <<seen, lost>>
     \/ run.pc = "write" /\ lost' = TRUE /\ seen' \in {seen, {}}
  /\ UNCHANGED <<box, timers, named, last, told>>

Step == AskSystemd \/ AskPodman \/ Post \/ Write
Next == Step \/ Crash \/ Host

Spec == Init /\ [][Next]_vars

\* The timer starts run after run.
FairSpec == Spec /\ WF_vars(Step)

-----------------------------------------------------------------------------
(* Properties *)

Latch == INSTANCE AlertLatch WITH reporting <- run.pc = "write"

\* Nobody measures the health of n, or it is bad.
Unsound(n) ==
  box[n].check # "none" /\ (~Scheduled(n, timers, named) \/ box[n].status = "unhealthy" \/ box[n].old)

ToldIsTrue ==
  /\ \A n \in Name : (\E kind \in BoxKind : <<kind, n>> \in told) <=> Unsound(n)
  /\ {f[2] : f \in {g \in told : g[1] = "ORPHANED_TIMER"}} = timers \ Running

\* Discord hears of every change in what the audit finds and is told nothing
\* twice, but for a message that follows a lost one or a lost state file,
\* although containers change while the audit looks and calls of it fail (main).
TellsChanges == Latch!Spec

\* When the host has come to rest, what Discord was last told is what is so:
\* no frozen container goes unreported, no alarm stands that has been dealt
\* with.  Only a message or a state file that was lost, and that no later
\* report made good, can make it otherwise (audit, main).
EndsTrue == (<>[][UNCHANGED host]_host) => <>[](lost \/ ToldIsTrue)
=============================================================================
