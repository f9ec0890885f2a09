------------------------------ MODULE UnitSource ------------------------------
(***************************************************************************)
(* unit_source_audit.py: after the container audit, the same timer has     *)
(* every systemd user unit, and every file its ExecStart names, compared   *)
(* with the files of that name in the repository.  A run lists the         *)
(* repository once and then takes the units one by one, reading the files  *)
(* as it comes to them, while people commit, install and edit.             *)
(***************************************************************************)
EXTENDS Naturals, FiniteSets

CONSTANTS
  Unit,       \* unit files
  Script,     \* deployed files that units execute
  Execs,      \* Execs[u]: the scripts in the ExecStart of u
  Source,     \* Source[p]: the repository files with the name of p
  MaxEdit,    \* changes people make (a bound)
  MaxFail     \* questions, messages and runs that may fail (a bound)

Deployed == Unit \cup Script
File == UNION {Source[p] : p \in Deployed}

VARIABLES
  repo,      \* repo[f]: the contents of f, 0 where it is gone
  here,      \* here[p]: a link into the repository, or a copy and its contents
  run,       \* the run under way
  seen,      \* the findings in the state file
  told,      \* the findings Discord was last told of
  lost,      \* since told and seen last agreed a message or the file was lost
  edits, fails

vars == <<repo, here, run, seen, told, lost, edits, fails>>
host == <<repo, here>>

RunIdle == [pc |-> "idle", left |-> {}, index |-> {}, checked |-> {}, found |-> {}]
Finding == {"DRIFT", "AMBIGUOUS"} \X Deployed
Link == [kind |-> "link", text |-> 0]
Copy(v) == [kind |-> "copy", text |-> v]

TypeOK ==
  /\ repo \in [File -> 0..(MaxEdit + 1)]
  /\ here \in [Deployed -> {Link} \cup {Copy(v) : v \in 0..(MaxEdit + 1)}]
  /\ run.pc \in {"idle", "check", "post", "write"} /\ run.left \subseteq Unit
  /\ run.index \subseteq File /\ run.checked \subseteq Deployed
  /\ run.found \cup seen \cup told \subseteq Finding
  /\ lost \in BOOLEAN /\ edits \in 0..MaxEdit /\ fails \in 0..MaxFail

Init ==
  /\ repo = [f \in File |-> 1] /\ here = [p \in Deployed |-> Copy(1)]
  /\ run = RunIdle /\ seen = {} /\ told = {} /\ lost = FALSE /\ edits = 0 /\ fails = 0

Fail == fails < MaxFail /\ fails' = fails + 1

-----------------------------------------------------------------------------
(* People *)

\* Contents are numbered by the change that made them.
Change == edits < MaxEdit /\ edits' = edits + 1

Commit(f) ==
  /\ Change /\ \E text \in {0, edits + 2} : repo' = [repo EXCEPT ![f] = text]
  /\ UNCHANGED <<here, run, seen, told, lost, fails>>

Install(p) ==
  /\ Change /\ \E f \in Source[p] : repo[f] # 0 /\ here' = [here EXCEPT ![p] = Copy(repo[f])]
  /\ UNCHANGED <<repo, run, seen, told, lost, fails>>

Symlink(p) ==
  /\ Change /\ here' = [here EXCEPT ![p] = Link]
  /\ UNCHANGED <<repo, run, seen, told, lost, fails>>

Edit(p) ==
  /\ Change /\ here[p].kind = "copy" /\ here' = [here EXCEPT ![p] = Copy(edits + 2)]
  /\ UNCHANGED <<repo, run, seen, told, lost, fails>>

People == (\E f \in File : Commit(f)) \/ (\E p \in Deployed : Install(p) \/ Symlink(p) \/ Edit(p))

-----------------------------------------------------------------------------
(* A run *)

\* The listed files with the name of p that are still there.
There(p) == {f \in Source[p] \cap run.index : repo[f] # 0}

\* One deployed path against the repository.
Check(p) ==
  IF here[p].kind = "link" \/ There(p) = {} \/ here[p].text \in {repo[f] : f \in There(p)} THEN {}
  ELSE {<<IF Cardinality(There(p)) = 1 THEN "DRIFT" ELSE "AMBIGUOUS", p>>}

Start ==
  /\ run.pc = "idle"
  /\ run' = [RunIdle EXCEPT !.pc = "check", !.left = Unit, !.index = {f \in File : repo[f] # 0}]
  /\ UNCHANGED <<repo, here, seen, told, lost, edits, fails>>

\* The targets of u that no unit before it had.
Compare(u, targets) ==
  LET new   == targets \ run.checked
      found == run.found \cup UNION {Check(p) : p \in new}
      left  == run.left \ {u}
  IN run' = IF left # {} THEN [pc |-> "check", left |-> left, index |-> run.index,
                               checked |-> run.checked \cup new, found |-> found]
            ELSE IF found = seen THEN RunIdle
            ELSE [RunIdle EXCEPT !.pc = "post", !.found = found]

AuditUnitFile(u) ==  \* mutant: what the unit executes is not compared
  /\ run.pc = "check" /\ u \in run.left /\ Compare(u, {u})
  /\ UNCHANGED <<repo, here, seen, told, lost, edits, fails>>

\* The unit file and what it executes.  systemctl that does not answer is not
\* told from a unit that executes nothing of the home directory.
AuditUnit(u) ==
  /\ run.pc = "check" /\ u \in run.left
  /\ \/ Compare(u, {u} \cup Execs[u]) /\ UNCHANGED fails
     \/ Compare(u, {u}) /\ Fail
  /\ UNCHANGED <<repo, here, seen, told, lost, edits>>

\* A message that fails is printed, and is not tried again.
Post ==
  /\ run.pc = "post" /\ run' = [run EXCEPT !.pc = "write"]
  /\ \/ told' = run.found /\ UNCHANGED <<lost, fails>>
     \/ Fail /\ lost' = TRUE /\ UNCHANGED told
  /\ UNCHANGED <<repo, here, seen, edits>>

Write ==
  /\ run.pc = "write" /\ run' = RunIdle /\ seen' = run.found /\ lost' = (told # run.found)
  /\ UNCHANGED <<repo, here, told, edits, fails>>

\* A run is killed; a state file cut short reads as one without findings.
Crash ==
  /\ run.pc # "idle" /\ run' = RunIdle /\ Fail
  /\ \/ run.pc # "write" /\ UNCHANGED <<seen, lost>>
     \/ run.pc = "write" /\ lost' = TRUE /\ seen' \in {seen, {}}
  /\ UNCHANGED <<repo, here, told, edits>>

Step == Start \/ (\E u \in Unit : AuditUnit(u)) \/ Post \/ Write
Next == Step \/ Crash \/ People

Spec == Init /\ [][Next]_vars

\* The timer starts run after run.
FairSpec == Spec /\ WF_vars(Step)

-----------------------------------------------------------------------------
(* Properties *)

Latch == INSTANCE AlertLatch WITH reporting <- run.pc = "write"

\* What runs is not what the repository has under that name.
Stale(p) ==
  here[p].kind = "copy" /\ {repo[f] : f \in Source[p]} \ {0, here[p].text} # {}
  /\ here[p].text \notin {repo[f] : f \in Source[p]}

\* Discord hears of every change in what the audit finds and is told nothing
\* twice, but for a message that follows a lost one or a lost state file,
\* although files change between two units of a run (main).
TellsChanges == Latch!Spec

\* When people have stopped, what Discord was last told is what runs stale:
\* a script that drifted behind a systemctl call that failed, was committed
\* after the run had listed the repository, or was repaired between two units
\* that execute it, included (repo_index, exec_paths, audit, main).
EndsTrue ==
  (<>[][UNCHANGED host]_host) => <>[](lost \/ {f[2] : f \in told} = {p \in Deployed : Stale(p)})
=============================================================================
