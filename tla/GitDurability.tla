---------------------------- MODULE GitDurability ----------------------------
(***************************************************************************)
(* git_durability_audit.py: every few hours a run looks for work that only *)
(* this disk holds, tells Discord when the set of findings changes, and    *)
(* files a task for a finding that keeps coming back.  Between runs it     *)
(* keeps a state file; people edit, commit, push, apply migrations and     *)
(* deal with the tasks at any time.                                        *)
(*                                                                         *)
(* Ages are "fresh" or "old": within the grace of their kind, or past it.  *)
(***************************************************************************)
EXTENDS Naturals, FiniteSets

CONSTANTS
  Repo,         \* repositories
  Path,         \* the paths `git status` may list
  Home,         \* Home[p]: the repository of p
  Number,       \* Number[p]: the number of the migration p is, or 0
  Targets,      \* paths an enabled unit executes
  Patience,     \* Patience[kind]: runs after which a finding is escalated
  Budget        \* how many events there may be, by kind (a bound)

Event == {"people", "fail", "away"}
Kind  == {"FETCH_FAILED", "NO_UPSTREAM", "UNPUSHED", "UNTRACKED", "DIRTY",
          "APPLIED_MIGRATION", "EXECUTING_UNCOMMITTED"}
RepoKind == {"FETCH_FAILED", "NO_UPSTREAM", "UNPUSHED"}
Ident == (RepoKind \X Repo) \cup ((Kind \ RepoKind) \X Path)

VARIABLES
  tree,    \* tree[p]: what git status says of p, and how old that is
  ahead,   \* ahead[r]: the oldest commit the remote lacks
  head,    \* the last migration the live schema has
  row,     \* row[i]: task rows filed for i, by what has become of them
  state,   \* the state file
  told,    \* the findings Discord was last told of
  run,     \* the run under way
  spent

vars == <<tree, ahead, head, row, state, told, run, spent>>
work == <<tree, ahead, head>>

Top == Budget["people"]   \* the highest migration number (a bound)
Max(S) == CHOOSE m \in S : \A n \in S : n <= m
Full == Max({Patience[k] : k \in Kind})   \* runs are counted up to here

ASSUME GitAssumption ==
  /\ Home \in [Path -> Repo] /\ Budget \in [Event -> Nat]
  /\ Patience \in [Kind -> Nat \ {0}]

NeverSeen == [runs |-> 0, escalated |-> "no"]
RunIdle   == [pc |-> "idle", left |-> {}, ledger |-> TRUE, units |-> TRUE,
              blind |-> {}, found |-> {}, todo |-> {}, done |-> {}]

Entry == [runs : 0..Full, escalated : {"no", "recent", "old"}]

TypeOK ==
  /\ tree \in [Path -> [code : {"clean", "M", "??", "gone"}, age : {"fresh", "old"}]]
  /\ ahead \in [Repo -> {"level", "fresh", "old", "no branch"}]
  /\ head \in 0..Top
  /\ row \in [Ident -> [open : 0..2, away : 0..2]]
  /\ state \in [Ident -> Entry] /\ told \subseteq Ident
  /\ run.pc \in {"idle", "audit", "alert", "escalate", "file"}
  /\ run.left \cup run.blind \subseteq Repo /\ run.found \subseteq Ident
  /\ run.todo \cup run.done \subseteq run.found
  /\ \A k \in Event : spent[k] <= Budget[k]

Init ==
  /\ tree = [p \in Path |-> [code |-> "clean", age |-> "fresh"]]
  /\ ahead = [r \in Repo |-> "level"]
  /\ head = 0
  /\ row = [i \in Ident |-> [open |-> 0, away |-> 0]]
  /\ state = [i \in Ident |-> NeverSeen] /\ told = {}
  /\ run = RunIdle
  /\ spent = [k \in Event |-> 0]

Spend(k) == spent[k] < Budget[k] /\ spent' = [spent EXCEPT ![k] = @ + 1]

-----------------------------------------------------------------------------
(* What a run finds *)

Bypasses == {"APPLIED_MIGRATION", "EXECUTING_UNCOMMITTED"}

\* Production has run these bytes.  Without the ledger every migration counts
\* as applied; without the units no path counts as executed.
Bypass(p, ledger, units) ==
  {k \in Bypasses :
     IF k = "APPLIED_MIGRATION" THEN Number[p] > 0 /\ (~ledger \/ Number[p] <= head)
     ELSE p \in Targets /\ units}

\* A path that is gone cannot be asked its age and is passed over.
OfPath(p, ledger, units) ==
  IF tree[p].code \in {"clean", "gone"} THEN {}
  ELSE IF Bypass(p, ledger, units) # {} THEN Bypass(p, ledger, units) \X {p}
  ELSE IF tree[p].age = "old" THEN {<<IF tree[p].code = "??" THEN "UNTRACKED" ELSE "DIRTY", p>>}
  ELSE {}

\* A branch the remote does not have cannot be fetched either.
OfBranch(r) ==
  CASE ahead[r] = "no branch" -> {<<"FETCH_FAILED", r>>, <<"NO_UPSTREAM", r>>}
    [] ahead[r] = "old"       -> {<<"UNPUSHED", r>>}
    [] OTHER                  -> {}

AuditRepo(r, ledger, units) ==
  OfBranch(r) \cup UNION {OfPath(p, ledger, units) : p \in {q \in Path : Home[q] = r}}

\* What a run would find with every service there.
Present == UNION {AuditRepo(r, TRUE, TRUE) : r \in Repo}

-----------------------------------------------------------------------------
(* A run *)

\* The ledger and systemd are asked once a run, and may not answer.
Start ==
  /\ run.pc = "idle"
  /\ \E ledger, units \in BOOLEAN :
       /\ run' = [RunIdle EXCEPT !.pc = "audit", !.left = Repo, !.ledger = ledger, !.units = units]
       /\ IF ledger /\ units THEN UNCHANGED spent ELSE Spend("fail")
  /\ UNCHANGED <<tree, ahead, head, row, state, told>>

\* The remote may not answer; git may time out, and then nothing of the repo is found.
Audit(r) ==
  /\ run.pc = "audit" /\ r \in run.left
  /\ LET found == AuditRepo(r, run.ledger, run.units)
         Done(F, blind) ==
           run' = [run EXCEPT !.left = @ \ {r}, !.found = @ \cup F, !.blind = @ \cup blind,
                              !.pc = IF run.left = {r} THEN "alert" ELSE "audit"]
     IN \/ Done(found, {}) /\ UNCHANGED spent
        \/ Done(found \cup {<<"FETCH_FAILED", r>>}, {}) /\ Spend("fail")
        \/ Done({}, {r}) /\ Spend("fail")
  /\ UNCHANGED <<tree, ahead, head, row, state, told>>

Outstanding == {i \in Ident : state[i].runs > 0}

\* A finding is counted while it comes back run after run.
Count(i) == IF state[i].runs < Full THEN state[i].runs + 1 ELSE Full

DueOnce ==  \* mutant: an escalation is not repeated
  {i \in run.found : Count(i) >= Patience[i[1]] /\ state[i].escalated = "no"}

Due == {i \in run.found : Count(i) >= Patience[i[1]] /\ state[i].escalated # "recent"}

AlertOnFindings ==  \* mutant: the end of the last finding is not told
  /\ run.pc = "alert"
  /\ run' = [run EXCEPT !.pc = "escalate", !.todo = Due]
  /\ told' = IF run.found \notin {Outstanding, {}} THEN run.found ELSE told
  /\ UNCHANGED <<tree, ahead, head, row, state, spent>>

\* Discord is told when the set has changed; a message that fails is printed.
Alert ==
  /\ run.pc = "alert"
  /\ run' = [run EXCEPT !.pc = "escalate", !.todo = Due]
  /\ \/ told' = (IF run.found # Outstanding THEN run.found ELSE told)
        /\ UNCHANGED spent
     \/ run.found # Outstanding /\ Spend("fail") /\ UNCHANGED told
  /\ UNCHANGED <<tree, ahead, head, row, state>>

Escalated(i) == run' = [run EXCEPT !.pc = "escalate", !.todo = @ \ {i}, !.done = @ \cup {i}]
NotNow(i)    == run' = [run EXCEPT !.pc = "escalate", !.todo = @ \ {i}]

Current == CHOOSE i \in run.todo : TRUE   \* findings are taken one by one

\* escalate looks for an open row first; one in a status OPEN_TASK_STATUSES
\* leaves out (pending_eval, waiting, ...) is not seen.
Look ==
  /\ run.pc = "escalate" /\ run.todo # {}
  /\ \/ row[Current].open > 0 /\ Escalated(Current) /\ UNCHANGED spent
     \/ row[Current].open = 0 /\ run' = [run EXCEPT !.pc = "file"] /\ UNCHANGED spent
     \/ NotNow(Current) /\ Spend("fail")
  /\ UNCHANGED <<tree, ahead, head, row, state, told>>

\* The row is inserted; a lost answer counts as a failure, to be tried again.
File ==
  /\ run.pc = "file" /\ row[Current].open < 2 \* a bound
  /\ \/ row' = [row EXCEPT ![Current].open = @ + 1] /\ Escalated(Current) /\ UNCHANGED spent
     \/ row' = [row EXCEPT ![Current].open = @ + 1] /\ NotNow(Current) /\ Spend("fail")
     \/ UNCHANGED row /\ NotNow(Current) /\ Spend("fail")
  /\ UNCHANGED <<tree, ahead, head, state, told>>

Save ==
  /\ run.pc = "escalate" /\ run.todo = {}
  /\ state' = [i \in Ident |->
                 IF i \notin run.found THEN NeverSeen
                 ELSE [runs |-> Count(i),
                       escalated |-> IF i \in run.done THEN "recent" ELSE state[i].escalated]]
  /\ run' = RunIdle
  /\ UNCHANGED <<tree, ahead, head, row, told, spent>>

\* The run is killed; the state file stays what the last one left.
\* A run dies; a state file cut short reads as one without findings.
Crash ==
  /\ run.pc # "idle" /\ Spend("fail") /\ run' = RunIdle
  /\ \/ UNCHANGED state
     \/ run.pc = "escalate" /\ run.todo = {} /\ state' = [i \in Ident |-> NeverSeen]
  /\ UNCHANGED <<tree, ahead, head, row, told>>

Step == Start \/ (\E r \in Repo : Audit(r)) \/ Alert \/ Look \/ File \/ Save

-----------------------------------------------------------------------------
(* People, agents and time *)

Edit(p) ==
  /\ Spend("people")
  /\ \E code \in {"M", "??"} :
       /\ tree[p].code \in {"clean", code}
       /\ tree' = [tree EXCEPT ![p] = [code |-> code, age |-> "fresh"]]
  /\ UNCHANGED <<ahead, head, row, state, told, run>>

\* `git add` makes an untracked path a tracked one, and its finding another.
Add(p) ==
  /\ tree[p].code = "??" /\ Spend("people")
  /\ tree' = [tree EXCEPT ![p].code = "M"]
  /\ UNCHANGED <<ahead, head, row, state, told, run>>

Delete(p) ==
  /\ tree[p].code # "gone" /\ Spend("people")
  /\ tree' = [tree EXCEPT ![p].code = "gone"]
  /\ UNCHANGED <<ahead, head, row, state, told, run>>

Commit(p) ==
  /\ tree[p].code # "clean" /\ Spend("people")
  /\ tree' = [tree EXCEPT ![p] = [code |-> "clean", age |-> "fresh"]]
  /\ ahead' = [ahead EXCEPT ![Home[p]] = IF @ = "level" THEN "fresh" ELSE @]
  /\ UNCHANGED <<head, row, state, told, run>>

Push(r) ==
  /\ ahead[r] # "level" /\ Spend("people")
  /\ ahead' = [ahead EXCEPT ![r] = "level"]
  /\ UNCHANGED <<tree, head, row, state, told, run>>

Branch(r) ==
  /\ ahead[r] # "no branch" /\ Spend("people")
  /\ ahead' = [ahead EXCEPT ![r] = "no branch"]
  /\ UNCHANGED <<tree, head, row, state, told, run>>

Apply ==
  /\ head < Top /\ Spend("people") /\ head' = head + 1
  /\ UNCHANGED <<tree, ahead, row, state, told, run>>

\* A row is taken to a status the audit does not ask for, or comes back from it.
Take(i) ==
  /\ row[i].open > 0 /\ row[i].away < 2 /\ Spend("away")
  /\ row' = [row EXCEPT ![i].open = @ - 1, ![i].away = @ + 1]
  /\ UNCHANGED <<tree, ahead, head, state, told, run>>

SendBack(i) ==
  /\ row[i].away > 0 /\ row[i].open < 2 /\ Spend("away")
  /\ row' = [row EXCEPT ![i].away = @ - 1, ![i].open = @ + 1]
  /\ UNCHANGED <<tree, ahead, head, state, told, run>>

\* A row is closed, whether or not the work was done.
Close(i) ==
  /\ row[i].open > 0 /\ Spend("people")
  /\ row' = [row EXCEPT ![i].open = @ - 1]
  /\ UNCHANGED <<tree, ahead, head, state, told, run>>

Ripen ==
  /\ \/ \E p \in Path : tree[p].code \in {"M", "??"} /\ tree[p].age = "fresh"
          /\ tree' = [tree EXCEPT ![p].age = "old"] /\ UNCHANGED ahead
     \/ \E r \in Repo : ahead[r] = "fresh"
          /\ ahead' = [ahead EXCEPT ![r] = "old"] /\ UNCHANGED tree
  /\ UNCHANGED <<head, row, state, told, run, spent>>

Recent == {i \in Ident : state[i].escalated = "recent"}

\* ESCALATE_COOLDOWN_D has gone by for the findings of S.
Cool(S) ==
  /\ S # {}
  /\ state' = [i \in Ident |-> IF i \in S THEN [state[i] EXCEPT !.escalated = "old"] ELSE state[i]]
  /\ UNCHANGED <<tree, ahead, head, row, told, run, spent>>

People ==
  \/ \E p \in Path : Edit(p) \/ Add(p) \/ Delete(p) \/ Commit(p)
  \/ \E r \in Repo : Push(r) \/ Branch(r)
  \/ Apply
  \/ \E i \in Ident : Take(i) \/ SendBack(i) \/ Close(i)

Next == Step \/ Crash \/ People \/ Ripen \/ \E S \in SUBSET Recent : Cool(S)

Spec == Init /\ [][Next]_vars

\* The timer starts run after run, and time passes.
FairSpec == Spec /\ WF_vars(Step) /\ WF_vars(Cool(Recent))

-----------------------------------------------------------------------------
(* Properties *)

\* Work that is a finding and stays one has a row in the queue in the end,
\* whatever a failing ledger, remote or queue does to the count of its runs;
\* and gets another when that row is closed and the work is still there
\* (escalate).
Escalates ==
  (<>[][UNCHANGED work]_work) => <>[](\A i \in Present : row[i].open + row[i].away > 0)

\* Where no message and no run was lost, Discord has heard of exactly what the
\* state file says is outstanding: silence means nothing has changed.
SilenceIsNews == run.pc = "idle" /\ spent["fail"] = 0 => told = Outstanding

=============================================================================
