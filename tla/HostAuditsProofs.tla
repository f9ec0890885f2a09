--------------------------- MODULE HostAuditsProofs ---------------------------
(***************************************************************************)
(* What the auditors tell Discord, for any number of repositories, paths,  *)
(* containers, units and episodes, and of failing calls, killed runs and   *)
(* people.                                                                 *)
(***************************************************************************)
EXTENDS HostAudits, TLAPS

-----------------------------------------------------------------------------
(* Git durability *)

\* A run's record has its fields, so that one of them can be set.
RunTyped ==
  /\ run = [pc |-> run.pc, left |-> run.left, ledger |-> run.ledger, units |-> run.units,
            blind |-> run.blind, found |-> run.found, todo |-> run.todo, done |-> run.done]
  /\ run.found \subseteq Ident

FileTyped == state \in [Ident -> Entry] /\ spent \in [Event -> Nat]

\* Between its message and its state file a run has told what it is about to
\* save; at any other time Discord has heard what the last one saved.
Reporting == run.pc \in {"escalate", "file"}
Telling   == spent["fail"] = 0 => told = IF Reporting THEN run.found ELSE Outstanding

GitIInv == RunTyped /\ FileTyped /\ Telling

LEMMA MaxOfSeven ==
  ASSUME NEW a \in Nat \ {0}, NEW b \in Nat \ {0}, NEW c \in Nat \ {0}, NEW d \in Nat \ {0},
         NEW e \in Nat \ {0}, NEW f \in Nat \ {0}, NEW g \in Nat \ {0}
  PROVE  Max({a, b, c, d, e, f, g}) \in Nat \ {0}
<1> DEFINE S == {a, b, c, d, e, f, g}
<1>1. \E m \in S : \A n \in S : n <= m OBVIOUS
<1>2. Max(S) \in S BY <1>1 DEF Max
<1> QED BY <1>2

\* Every kind of finding is waited for, so runs are counted.
LEMMA FullCounts == Full \in Nat \ {0}
<1> DEFINE P(k) == Patience[k]
<1>1. \A k \in Kind : P(k) \in Nat \ {0} BY GitAssumption
<1>2. {P(k) : k \in Kind} = {P("FETCH_FAILED"), P("NO_UPSTREAM"), P("UNPUSHED"), P("UNTRACKED"),
                             P("DIRTY"), P("APPLIED_MIGRATION"), P("EXECUTING_UNCOMMITTED")}
  BY DEF Kind
<1>3. Max({P(k) : k \in Kind}) \in Nat \ {0} BY <1>1, <1>2, MaxOfSeven DEF Kind
<1> QED BY <1>3 DEF Full

\* An audit finds what can be found.
LEMMA AuditFinds == ASSUME NEW r \in Repo, NEW ledger, NEW units PROVE AuditRepo(r, ledger, units) \subseteq Ident
<1>1. OfBranch(r) \subseteq Ident
  <2>1. \A k \in RepoKind : <<k, r>> \in Ident BY DEF Ident
  <2>2. OfBranch(r) \subseteq {<<"FETCH_FAILED", r>>, <<"NO_UPSTREAM", r>>, <<"UNPUSHED", r>>} BY DEF OfBranch
  <2> QED BY <2>1, <2>2 DEF RepoKind
<1>2. ASSUME NEW p \in Path PROVE OfPath(p, ledger, units) \subseteq Ident
  <2>1. Bypass(p, ledger, units) \subseteq Kind \ RepoKind BY DEF Bypass, Bypasses, Kind, RepoKind
  <2>2. Bypass(p, ledger, units) \X {p} \subseteq Ident BY <2>1 DEF Ident
  <2>3. <<"UNTRACKED", p>> \in Ident /\ <<"DIRTY", p>> \in Ident BY DEF Ident, Kind, RepoKind
  <2> QED BY <2>2, <2>3 DEF OfPath
<1> QED BY <1>1, <1>2 DEF AuditRepo

\* Only what has failed is counted as a failure.
LEMMA Spending ==
  ASSUME FileTyped, NEW k \in Event, Spend(k)
  PROVE  /\ spent' \in [Event -> Nat] /\ spent'[k] # 0
         /\ k # "fail" => spent'["fail"] = spent["fail"]
BY DEF FileTyped, Spend, Event

\* A step that changes neither the file, what was told nor the findings of a
\* run, and does not go in or out of its report, tells nothing new.
LEMMA GitAside ==
  ASSUME GitIInv, UNCHANGED <<state, told>>, RunTyped', spent' \in [Event -> Nat],
         spent'["fail"] = 0 => /\ spent["fail"] = 0 /\ (Reporting' <=> Reporting)
                               /\ Reporting => run'.found = run.found
  PROVE  GitIInv'
<1>1. Outstanding' = Outstanding BY DEF Outstanding
<1>2. Telling' BY <1>1 DEF GitIInv, Telling
<1> QED BY <1>2 DEF GitIInv, FileTyped

LEMMA StartKeeps == ASSUME GitIInv, Start PROVE GitIInv'
<1>1. UNCHANGED <<state, told>> /\ run.pc = "idle" /\ (spent' = spent \/ Spend("fail")) BY DEF Start
<1>2. \E ledger, units \in BOOLEAN :
        run' = [RunIdle EXCEPT !.pc = "audit", !.left = Repo, !.ledger = ledger, !.units = units]
  BY DEF Start
<1>3. RunTyped' /\ ~Reporting' BY <1>2 DEF RunTyped, RunIdle, Reporting
<1> QED BY <1>1, <1>3, Spending, GitAside DEF GitIInv, FileTyped, Reporting, Event

LEMMA AuditKeeps == ASSUME GitIInv, NEW r \in Repo, Audit(r) PROVE GitIInv'
<1> DEFINE F == AuditRepo(r, run.ledger, run.units)
<1>1. UNCHANGED <<state, told>> /\ run.pc = "audit" /\ (spent' = spent \/ Spend("fail")) BY DEF Audit
<1>2. \E G \in {F, F \cup {<<"FETCH_FAILED", r>>}, {}}, blind \in {{}, {r}} :
        run' = [run EXCEPT !.left = @ \ {r}, !.found = @ \cup G, !.blind = @ \cup blind,
                           !.pc = IF run.left = {r} THEN "alert" ELSE "audit"]
  BY DEF Audit
<1>3. F \subseteq Ident /\ <<"FETCH_FAILED", r>> \in Ident BY AuditFinds DEF Ident, RepoKind
<1>4. run'.found \subseteq Ident /\ run'.pc \in {"alert", "audit"}
  BY <1>2, <1>3 DEF GitIInv, RunTyped
<1>5. RunTyped' /\ ~Reporting' BY <1>2, <1>4 DEF GitIInv, RunTyped, Reporting
<1> QED BY <1>1, <1>5, Spending, GitAside DEF GitIInv, FileTyped, Reporting, Event

\* The message: from here to Save, what was found is what was told.
LEMMA AlertKeeps == ASSUME GitIInv, Alert PROVE GitIInv'
<1>1. /\ UNCHANGED state /\ run.pc = "alert" /\ run' = [run EXCEPT !.pc = "escalate", !.todo = Due]
      /\ \/ told' = (IF run.found # Outstanding THEN run.found ELSE told) /\ spent' = spent
         \/ Spend("fail")
  BY DEF Alert
<1>2. RunTyped' /\ Reporting' /\ run'.found = run.found BY <1>1 DEF GitIInv, RunTyped, Reporting
<1>3. FileTyped' BY <1>1, Spending DEF GitIInv, FileTyped, Event
<1>4. spent'["fail"] = 0 => told' = run.found
  BY <1>1, Spending DEF GitIInv, FileTyped, Telling, Reporting, Event
<1> QED BY <1>2, <1>3, <1>4 DEF GitIInv, Telling

LEMMA EscalateKeeps == ASSUME GitIInv, Look \/ File PROVE GitIInv'
<1>1. UNCHANGED <<state, told>> /\ Reporting /\ (spent' = spent \/ Spend("fail")) BY DEF Look, File, Reporting
<1>2. run' = [run EXCEPT !.pc = "file"] \/ Escalated(Current) \/ NotNow(Current) BY DEF Look, File
<1>3. RunTyped' /\ Reporting' /\ run'.found = run.found
  BY <1>2 DEF Escalated, NotNow, GitIInv, RunTyped, Reporting
<1> QED BY <1>1, <1>3, Spending, GitAside DEF GitIInv, FileTyped, Event

\* What is saved is outstanding, and was told.
LEMMA SaveKeeps == ASSUME GitIInv, Save PROVE GitIInv'
<1>1. /\ run.pc = "escalate" /\ run' = RunIdle /\ UNCHANGED <<told, spent>>
      /\ state' = [i \in Ident |->
                     IF i \notin run.found THEN NeverSeen
                     ELSE [runs |-> Count(i),
                           escalated |-> IF i \in run.done THEN "recent" ELSE state[i].escalated]]
  BY DEF Save
<1>2. RunTyped' /\ ~Reporting' BY <1>1 DEF RunTyped, RunIdle, Reporting
<1>3. ASSUME NEW i \in Ident PROVE Count(i) \in 1..Full
  BY <1>3, FullCounts DEF GitIInv, FileTyped, Entry, Count
<1>4. FileTyped'
  <2>1. ASSUME NEW i \in Ident PROVE state'[i] \in Entry
    BY <1>1, <1>3, <2>1, FullCounts DEF GitIInv, FileTyped, Entry, NeverSeen
  <2> QED BY <1>1, <2>1 DEF GitIInv, FileTyped
<1>5. Outstanding' = run.found
  <2>1. ASSUME NEW i \in Ident PROVE state'[i].runs > 0 <=> i \in run.found
    BY <1>1, <1>3, <2>1 DEF NeverSeen
  <2> QED BY <2>1 DEF Outstanding, GitIInv, RunTyped
<1> QED BY <1>1, <1>2, <1>4, <1>5 DEF GitIInv, Telling, Reporting

LEMMA CrashKeeps == ASSUME GitIInv, Crash PROVE GitIInv'
<1>1. RunTyped' BY DEF Crash, RunTyped, RunIdle
<1>2. NeverSeen \in Entry BY FullCounts DEF NeverSeen, Entry
<1>3. FileTyped' BY <1>2, Spending DEF Crash, GitIInv, FileTyped, Event
<1>4. spent'["fail"] # 0 BY Spending DEF Crash, GitIInv, Event
<1> QED BY <1>1, <1>3, <1>4 DEF GitIInv, Telling

\* People move the work and the rows, never the file or the run.
LEMMA PeopleKeep == ASSUME GitIInv, People \/ Ripen PROVE GitIInv'
<1>1. UNCHANGED <<state, told, run>> /\ (spent' = spent \/ Spend("people") \/ Spend("away"))
  BY DEF People, Ripen, Edit, Add, Delete, Commit, Push, Branch, Apply, Take, SendBack, Close
<1>2. RunTyped' /\ (Reporting' <=> Reporting) BY <1>1 DEF GitIInv, RunTyped, Reporting
<1> QED BY <1>1, <1>2, Spending, GitAside DEF GitIInv, FileTyped, Event

\* A cooldown that ends leaves the findings outstanding.
LEMMA CoolKeeps == ASSUME GitIInv, NEW S \in SUBSET Recent, Cool(S) PROVE GitIInv'
<1>1. /\ UNCHANGED <<told, run, spent>>
      /\ state' = [i \in Ident |-> IF i \in S THEN [state[i] EXCEPT !.escalated = "old"] ELSE state[i]]
  BY DEF Cool
<1>2. ASSUME NEW i \in Ident PROVE state'[i] \in Entry /\ state'[i].runs = state[i].runs
  BY <1>1, <1>2 DEF GitIInv, FileTyped, Entry
<1>3. FileTyped' /\ Outstanding' = Outstanding BY <1>1, <1>2 DEF GitIInv, FileTyped, Outstanding
<1> QED BY <1>1, <1>3 DEF GitIInv, RunTyped, Telling, Reporting

\* Where no message and no run of the git audit was lost, Discord has heard of
\* exactly what the state file says is outstanding, however often people edit,
\* commit, push and deal with the rows (audit, alert_on_change).
THEOREM Silence == FairAudits => []SilenceIsNews
<1>1. AuditsInit => GitIInv
  <2> SUFFICES ASSUME Init PROVE GitIInv BY DEF AuditsInit
  <2>1. RunTyped /\ ~Reporting BY DEF Init, RunIdle, RunTyped, Reporting
  <2>2. FileTyped BY FullCounts DEF Init, FileTyped, Entry, NeverSeen
  <2>3. Outstanding = {} BY DEF Init, NeverSeen, Outstanding
  <2> QED BY <2>1, <2>2, <2>3 DEF Init, GitIInv, Telling
<1>2. GitIInv /\ [AuditsNext]_all => GitIInv'
  <2> SUFFICES ASSUME GitIInv, [Next]_vars PROVE GitIInv'
    BY DEF AuditsNext, all, OfGit, OfContainers, OfUnits, OfEpisodes
  <2>1. CASE Next
    BY <2>1, StartKeeps, AuditKeeps, AlertKeeps, EscalateKeeps, SaveKeeps, CrashKeeps, PeopleKeep, CoolKeeps
    DEF Next, Step
  <2>2. CASE UNCHANGED vars
    BY <2>2 DEF vars, GitIInv, RunTyped, FileTyped, Telling, Reporting, Outstanding
  <2> QED BY <2>1, <2>2
<1>3. GitIInv => SilenceIsNews BY DEF GitIInv, Telling, Reporting, SilenceIsNews
<1> QED BY <1>1, <1>2, <1>3, PTL DEF FairAudits

-----------------------------------------------------------------------------
(* The alert latch *)

\* Every auditor deals with its findings alike.  Up to its message Discord has
\* heard what is in the state file, and from there on what is about to go into
\* it; or a message or the file was lost and no later report has made it good.
\* A run that found nothing new ends before it posts.
Latched(pc, found, filed, heard, missed) ==
  /\ pc # "write" => heard = filed \/ missed
  /\ pc = "write" => heard = found \/ missed
  /\ pc \in {"post", "write"} => found # filed

-----------------------------------------------------------------------------
(* The health of containers *)

\* The record of a box has its fields, so that one of them can be set.
BoxTyped ==
  /\ box = [n \in Name |-> box[n]]
  /\ \A n \in Name : box[n] = [id |-> box[n].id, check |-> box[n].check,
                               status |-> box[n].status, old |-> box[n].old]

\* A timer was made for a container that was created.
TimersTyped ==
  /\ last \in 0..MaxId /\ timers \subseteq 1..last
  /\ \A n \in Name : box[n].check = "command" => box[n].id \in 1..last

ContainerRunTyped ==
  /\ cRun = [pc |-> cRun.pc, timers |-> cRun.timers, named |-> cRun.named, found |-> cRun.found]
  /\ cRun.timers \subseteq 1..last /\ cRun.found \cup cSeen \cup cTold \subseteq Container!Finding

ContainerIInv ==
  BoxTyped /\ TimersTyped /\ ContainerRunTyped /\ Latched(cRun.pc, cRun.found, cSeen, cTold, cLost)

LEMMA HostKeeps ==
  ASSUME BoxTyped, TimersTyped, Container!Host
  PROVE  BoxTyped' /\ TimersTyped' /\ last <= last' /\ last' \in 0..MaxId
<1> PICK n \in Name : \/ Container!Create(n) \/ Container!Schedule(n) \/ Container!Remove(n)
                      \/ Container!Fallback(n) \/ Container!Probe(n) \/ Container!Age(n)
  BY DEF Container!Host
<1> DEFINE Same(m) == box'[m].id = box[m].id /\ box'[m].check = box[m].check
<1>1. CASE Container!Create(n)
  <2>1. PICK check \in {"none", "image", "command"} :
          box' = [box EXCEPT ![n] = [id |-> last + 1, check |-> check, status |-> "starting", old |-> FALSE]]
    BY <1>1 DEF Container!Create
  <2>2. last' = last + 1 /\ last < MaxId /\ timers' \subseteq timers BY <1>1 DEF Container!Create
  <2>3. BoxTyped' /\ box'[n].id = last + 1 /\ \A m \in Name \ {n} : Same(m) BY <2>1 DEF BoxTyped
  <2> QED BY <2>2, <2>3, HostAssumption DEF TimersTyped
<1>2. CASE Container!Schedule(n)
  BY <1>2, HostAssumption DEF Container!Schedule, BoxTyped, TimersTyped
<1>3. CASE Container!Remove(n)
  <2>1. box' = [box EXCEPT ![n] = Container!NoBox] /\ last' = last /\ timers' \subseteq timers
    BY <1>3 DEF Container!Remove
  <2>2. BoxTyped' /\ box'[n].check = "none" /\ \A m \in Name \ {n} : Same(m)
    BY <2>1 DEF BoxTyped, Container!NoBox
  <2> QED BY <2>1, <2>2, HostAssumption DEF TimersTyped
<1>4. CASE Container!Fallback(n) BY <1>4, HostAssumption DEF Container!Fallback, BoxTyped, TimersTyped
<1>5. CASE Container!Probe(n)
  <2>1. PICK status, old : box' = [box EXCEPT ![n].status = status, ![n].old = old]
    BY <1>5, Zenon DEF Container!Probe
  <2> DEFINE first == [box EXCEPT ![n].status = status]
  <2>2. box' = [first EXCEPT ![n].old = old] BY <2>1
  <2>3. first = [m \in Name |-> first[m]] /\ first[n].id = box[n].id /\ first[n].check = box[n].check
        /\ (\A m \in Name \ {n} : first[m] = box[m])
        /\ first[n] = [id |-> first[n].id, check |-> first[n].check, status |-> first[n].status, old |-> first[n].old]
    BY DEF BoxTyped
  <2> HIDE DEF first
  <2>4. BoxTyped' /\ (\A m \in Name \ {n} : Same(m)) /\ Same(n) BY <2>2, <2>3 DEF BoxTyped
  <2>5. UNCHANGED <<timers, last>> BY <1>5 DEF Container!Probe
  <2> QED BY <2>4, <2>5, HostAssumption DEF TimersTyped
<1>6. CASE Container!Age(n)
  <2>1. PICK old : box' = [box EXCEPT ![n].old = old] BY <1>6, Zenon DEF Container!Age
  <2>2. BoxTyped' /\ (\A m \in Name \ {n} : Same(m)) /\ Same(n) BY <2>1 DEF BoxTyped
  <2>3. UNCHANGED <<timers, last>> BY <1>6 DEF Container!Age
  <2> QED BY <2>2, <2>3, HostAssumption DEF TimersTyped
<1> QED BY <1>1, <1>2, <1>3, <1>4, <1>5, <1>6

LEMMA ContainerFinds ==
  ASSUME NEW T \in SUBSET (1..MaxId), NEW N PROVE Container!Audit(T, N) \subseteq Container!Finding
<1>1. ASSUME NEW n \in Name PROVE Container!OfBox(n, T, N) \subseteq Container!BoxKind \X Name
  <2>1. Container!OfBox(n, T, N) \subseteq Container!BoxKind \X {n}
    BY DEF Container!OfBox, Container!BoxKind
  <2> QED BY <2>1
<1>2. {"ORPHANED_TIMER"} \X (T \ Container!Running) \subseteq {"ORPHANED_TIMER"} \X (1..MaxId) OBVIOUS
<1> QED BY <1>1, <1>2 DEF Container!Audit, Container!Finding

ContainerTells == [Container!Latch!Next]_Container!Latch!vars

LEMMA ContainerKeeps ==
  ASSUME ContainerIInv, [Container!Next]_Container!vars PROVE ContainerIInv' /\ ContainerTells
<1> USE DEF ContainerIInv, ContainerRunTyped, Latched
<1>1. CASE Container!AskSystemd
  <2>1. UNCHANGED <<box, timers, last, cSeen, cTold, cLost>> /\ cRun.pc = "idle" /\ cRun'.found = {}
        /\ cRun'.pc = "ask podman" /\ cRun'.timers \in {timers, {}}
        /\ cRun' = [pc |-> cRun'.pc, timers |-> cRun'.timers, named |-> cRun'.named, found |-> cRun'.found]
    BY <1>1 DEF Container!AskSystemd, Container!RunIdle
  <2> QED BY <2>1 DEF BoxTyped, TimersTyped, ContainerTells, Container!Latch!vars
<1>2. CASE Container!AskPodman
  <2> DEFINE F == Container!Audit(cRun.timers, cRun.named)
  <2>1. UNCHANGED <<box, timers, last, cSeen, cTold, cLost>> /\ cRun.pc = "ask podman"
        /\ \/ cRun' = Container!RunIdle
           \/ F # cSeen /\ cRun' = [Container!RunIdle EXCEPT !.pc = "post", !.found = F]
    BY <1>2 DEF Container!AskPodman, Container!RunIdle
  <2>2. F \subseteq Container!Finding
    <3>1. cRun.timers \in SUBSET (1..MaxId) BY HostAssumption DEF TimersTyped
    <3> QED BY <3>1, ContainerFinds
  <2>3. cRun' = [pc |-> cRun'.pc, timers |-> cRun'.timers, named |-> cRun'.named, found |-> cRun'.found]
        /\ cRun'.timers = {} /\ cRun'.found \subseteq Container!Finding
        /\ (cRun'.pc = "idle" \/ (cRun'.pc = "post" /\ cRun'.found # cSeen))
    <3>1. CASE cRun' = Container!RunIdle BY <3>1 DEF Container!RunIdle
    <3>2. CASE cRun' # Container!RunIdle
      <4>1. F # cSeen /\ cRun' = [pc |-> "post", timers |-> {}, named |-> {}, found |-> F]
        BY <2>1, <3>2 DEF Container!RunIdle
      <4> HIDE DEF F
      <4> QED BY <2>2, <4>1
    <3> QED BY <3>1, <3>2
  <2> QED BY <2>1, <2>3 DEF BoxTyped, TimersTyped, ContainerTells, Container!Latch!vars
<1>3. CASE Container!Post
  <2>1. UNCHANGED <<box, timers, last, cSeen>> /\ cRun.pc = "post" /\ cRun' = [cRun EXCEPT !.pc = "write"]
        /\ \/ cTold' = cRun.found /\ UNCHANGED cLost
           \/ cLost' = TRUE /\ UNCHANGED cTold
    BY <1>3 DEF Container!Post
  <2> QED BY <2>1 DEF BoxTyped, TimersTyped, ContainerTells, Container!Latch!vars, Container!Latch!Next,
                      Container!Latch!Tell, Container!Latch!Miss
<1>4. CASE Container!Write
  BY <1>4 DEF Container!Write, Container!RunIdle, BoxTyped, TimersTyped, ContainerTells, Container!Latch!vars,
              Container!Latch!Next, Container!Latch!Note
<1>5. CASE Container!Crash
  BY <1>5 DEF Container!Crash, Container!RunIdle, BoxTyped, TimersTyped, ContainerTells, Container!Latch!vars,
              Container!Latch!Next, Container!Latch!Die
<1>6. CASE Container!Host
  <2>1. UNCHANGED <<cRun, cSeen, cTold, cLost>>
    BY <1>6 DEF Container!Host, Container!Create, Container!Schedule, Container!Remove,
                Container!Fallback, Container!Probe, Container!Age
  <2>2. BoxTyped' /\ TimersTyped' /\ last <= last' /\ last' \in 0..MaxId /\ last \in 0..MaxId
    BY <1>6, HostKeeps DEF TimersTyped
  <2>3. cRun.timers \subseteq 1..last' BY <2>2
  <2> QED BY <2>1, <2>2, <2>3 DEF ContainerTells, Container!Latch!vars
<1>7. CASE UNCHANGED Container!vars
  BY <1>7 DEF Container!vars, BoxTyped, TimersTyped, ContainerTells, Container!Latch!vars
<1> QED BY <1>1, <1>2, <1>3, <1>4, <1>5, <1>6, <1>7 DEF Container!Next, Container!Step

-----------------------------------------------------------------------------
(* The source of units *)

UnitRunTyped ==
  /\ uRun = [pc |-> uRun.pc, left |-> uRun.left, index |-> uRun.index, checked |-> uRun.checked,
             found |-> uRun.found]
  /\ uRun.left \subseteq Service /\ uRun.found \cup uSeen \cup uTold \subseteq Unit!Finding

UnitIInv == UnitRunTyped /\ Latched(uRun.pc, uRun.found, uSeen, uTold, uLost)

UnitTells == [Unit!Latch!Next]_Unit!Latch!vars

LEMMA UnitFinds == ASSUME NEW p \in Unit!Deployed PROVE Unit!Check(p) \subseteq Unit!Finding
BY DEF Unit!Check, Unit!Finding

\* A unit is looked at; after the last one the run posts what is new.
LEMMA UnitAuditKeeps ==
  ASSUME UnitIInv, NEW u \in Service, Unit!AuditUnit(u) PROVE UnitIInv' /\ UnitTells
<1>1. /\ UNCHANGED <<uSeen, uTold, uLost>> /\ uRun.pc = "check"
      /\ \E targets \in {{u}, {u} \cup Execs[u]} : Unit!Compare(u, targets)
  BY DEF Unit!AuditUnit
<1> PICK targets \in {{u}, {u} \cup Execs[u]} : Unit!Compare(u, targets) BY <1>1
<1> DEFINE new   == targets \ uRun.checked
           found == uRun.found \cup UNION {Unit!Check(p) : p \in new}
<1>2. targets \subseteq Unit!Deployed BY HostAssumption DEF Unit!Deployed
<1>3. found \subseteq Unit!Finding BY <1>2, UnitFinds DEF UnitIInv, UnitRunTyped
<1>4. \/ uRun' = [pc |-> "check", left |-> uRun.left \ {u}, index |-> uRun.index,
                  checked |-> uRun.checked \cup new, found |-> found]
      \/ uRun' = Unit!RunIdle
      \/ found # uSeen /\ uRun' = [Unit!RunIdle EXCEPT !.pc = "post", !.found = found]
  BY DEF Unit!Compare
<1> HIDE DEF found, new
<1>5. /\ uRun' = [pc |-> uRun'.pc, left |-> uRun'.left, index |-> uRun'.index,
                  checked |-> uRun'.checked, found |-> uRun'.found]
      /\ uRun'.left \subseteq Service /\ uRun'.found \subseteq Unit!Finding
      /\ uRun'.pc \in {"idle", "check"} \/ (uRun'.pc = "post" /\ uRun'.found # uSeen)
  <2>1. CASE \E checked : uRun' = [pc |-> "check", left |-> uRun.left \ {u}, index |-> uRun.index,
                                   checked |-> checked, found |-> found]
    BY <1>3, <2>1 DEF UnitIInv, UnitRunTyped
  <2>2. CASE uRun' = Unit!RunIdle BY <2>2 DEF Unit!RunIdle
  <2>3. CASE found # uSeen /\ uRun' = [Unit!RunIdle EXCEPT !.pc = "post", !.found = found]
    BY <1>3, <2>3 DEF Unit!RunIdle
  <2> QED BY <1>4, <2>1, <2>2, <2>3
<1> QED BY <1>1, <1>5 DEF UnitIInv, UnitRunTyped, Latched, UnitTells, Unit!Latch!vars

LEMMA UnitKeeps == ASSUME UnitIInv, [Unit!Next]_Unit!vars PROVE UnitIInv' /\ UnitTells
<1> USE DEF UnitIInv, UnitRunTyped, Latched
<1>1. CASE Unit!Start
  BY <1>1 DEF Unit!Start, Unit!RunIdle, UnitTells, Unit!Latch!vars
<1>2. CASE \E u \in Service : Unit!AuditUnit(u) BY <1>2, UnitAuditKeeps
<1>3. CASE Unit!Post
  <2>1. UNCHANGED uSeen /\ uRun.pc = "post" /\ uRun' = [uRun EXCEPT !.pc = "write"]
        /\ \/ uTold' = uRun.found /\ UNCHANGED uLost
           \/ uLost' = TRUE /\ UNCHANGED uTold
    BY <1>3 DEF Unit!Post
  <2> QED BY <2>1 DEF UnitTells, Unit!Latch!vars, Unit!Latch!Next, Unit!Latch!Tell, Unit!Latch!Miss
<1>4. CASE Unit!Write
  BY <1>4 DEF Unit!Write, Unit!RunIdle, UnitTells, Unit!Latch!vars, Unit!Latch!Next, Unit!Latch!Note
<1>5. CASE Unit!Crash
  BY <1>5 DEF Unit!Crash, Unit!RunIdle, UnitTells, Unit!Latch!vars, Unit!Latch!Next, Unit!Latch!Die
<1>6. CASE Unit!People \/ UNCHANGED Unit!vars
  <2>1. UNCHANGED <<uRun, uSeen, uTold, uLost>>
    BY <1>6 DEF Unit!People, Unit!Commit, Unit!Install, Unit!Symlink, Unit!Edit, Unit!vars
  <2> QED BY <2>1 DEF UnitTells, Unit!Latch!vars
<1> QED BY <1>1, <1>2, <1>3, <1>4, <1>5, <1>6 DEF Unit!Next, Unit!Step

-----------------------------------------------------------------------------
(* Agent episodes *)

EpisodeRunTyped ==
  /\ eRun = [pc |-> eRun.pc, found |-> eRun.found]
  /\ eRun.found \cup eSeen \cup eTold \subseteq Episode!Finding

EpisodeIInv == EpisodeRunTyped /\ Latched(eRun.pc, eRun.found, eSeen, eTold, eLost)

EpisodeTells == [Episode!Latch!Next]_Episode!Latch!vars

LEMMA EpisodeKeeps == ASSUME EpisodeIInv, [Episode!Next]_Episode!vars PROVE EpisodeIInv' /\ EpisodeTells
<1> USE DEF EpisodeIInv, EpisodeRunTyped, Latched
<1>1. CASE Episode!Reap
  <2>1. UNCHANGED <<eSeen, eTold, eLost>> /\ eRun.pc = "idle"
        /\ \/ eRun' = Episode!RunIdle
           \/ \E F \in {{}, {"REAPED"}} : eRun' = [pc |-> "health", found |-> F]
    BY <1>1, Zenon DEF Episode!Reap
  <2> QED BY <2>1 DEF Episode!RunIdle, Episode!Finding, EpisodeTells, Episode!Latch!vars
<1>2. CASE Episode!Health
  <2>1. UNCHANGED <<eSeen, eTold, eLost>> /\ eRun.pc = "health"
        /\ \/ eRun' = Episode!RunIdle
           \/ \E F \in SUBSET Episode!Finding : F # eSeen /\ eRun' = [pc |-> "post", found |-> F]
    BY <1>2 DEF Episode!Health, Episode!Finding
  <2> QED BY <2>1 DEF Episode!RunIdle, EpisodeTells, Episode!Latch!vars
<1>3. CASE Episode!Post
  <2>1. UNCHANGED eSeen /\ eRun.pc = "post" /\ eRun' = [eRun EXCEPT !.pc = "write"]
        /\ \/ eTold' = eRun.found /\ UNCHANGED eLost
           \/ eLost' = TRUE /\ UNCHANGED eTold
    BY <1>3 DEF Episode!Post
  <2> QED BY <2>1 DEF EpisodeTells, Episode!Latch!vars, Episode!Latch!Next, Episode!Latch!Tell,
                      Episode!Latch!Miss
<1>4. CASE Episode!Write
  BY <1>4 DEF Episode!Write, Episode!RunIdle, EpisodeTells, Episode!Latch!vars, Episode!Latch!Next,
              Episode!Latch!Note
<1>5. CASE Episode!Crash
  BY <1>5 DEF Episode!Crash, Episode!RunIdle, EpisodeTells, Episode!Latch!vars, Episode!Latch!Next,
              Episode!Latch!Die
<1>6. CASE Episode!Agent \/ Episode!Pass \/ UNCHANGED Episode!vars
  <2>1. UNCHANGED <<eRun, eSeen, eTold, eLost>>
    BY <1>6 DEF Episode!Agent, Episode!Start, Episode!End, Episode!Die, Episode!Session,
                Episode!Consult, Episode!ConsultAgain, Episode!SessionEnds, Episode!Pass, Episode!Lapse,
                Episode!Age, Episode!Quieten, Episode!vars
  <2> QED BY <2>1 DEF EpisodeTells, Episode!Latch!vars
<1> QED BY <1>1, <1>2, <1>3, <1>4, <1>5, <1>6 DEF Episode!Next, Episode!Sweep

-----------------------------------------------------------------------------

\* Each of the three auditors tells Discord of every change in what it finds and
\* of nothing else, whatever happens to the host and whichever calls, messages
\* and runs fail: it implements AlertLatch.  It repeats itself only after a
\* message or a state file that was lost, and the next report that comes through
\* and is filed ends that (main of container_health_audit, unit_source_audit and
\* episode_lifecycle_sweep).
THEOREM Tells == FairAudits => TellsChanges
<1> DEFINE IInv == ContainerIInv /\ UnitIInv /\ EpisodeIInv
<1>1. AuditsInit => IInv /\ Container!Latch!Init /\ Unit!Latch!Init /\ Episode!Latch!Init
  <2> SUFFICES ASSUME Container!Init, Unit!Init, Episode!Init
               PROVE  IInv /\ Container!Latch!Init /\ Unit!Latch!Init /\ Episode!Latch!Init
    BY DEF AuditsInit
  <2>1. ContainerIInv /\ Container!Latch!Init
    BY HostAssumption DEF Container!Init, Container!NoBox, Container!RunIdle, Container!Latch!Init,
                          ContainerIInv, BoxTyped, TimersTyped, ContainerRunTyped, Latched
  <2>2. UnitIInv /\ Unit!Latch!Init
    BY DEF Unit!Init, Unit!RunIdle, Unit!Latch!Init, UnitIInv, UnitRunTyped, Latched
  <2>3. EpisodeIInv /\ Episode!Latch!Init
    BY DEF Episode!Init, Episode!RunIdle, Episode!Latch!Init, EpisodeIInv, EpisodeRunTyped, Latched
  <2> QED BY <2>1, <2>2, <2>3
<1>2. IInv /\ [AuditsNext]_all => IInv' /\ ContainerTells /\ UnitTells /\ EpisodeTells
  <2> SUFFICES ASSUME IInv, [AuditsNext]_all
               PROVE  IInv' /\ ContainerTells /\ UnitTells /\ EpisodeTells
    OBVIOUS
  <2>1. [Container!Next]_Container!vars /\ [Unit!Next]_Unit!vars /\ [Episode!Next]_Episode!vars
    BY DEF AuditsNext, all, OfGit, OfContainers, OfUnits, OfEpisodes, ofContainers, ofUnits, ofEpisodes,
           Container!vars, Unit!vars, Episode!vars
  <2> QED BY <2>1, ContainerKeeps, UnitKeeps, EpisodeKeeps
<1> HIDE DEF IInv
<1> QED BY <1>1, <1>2, PTL DEF FairAudits, TellsChanges, Container!TellsChanges, Unit!TellsChanges,
             Episode!TellsChanges, Container!Latch!Spec, Unit!Latch!Spec, Episode!Latch!Spec,
             ContainerTells, UnitTells, EpisodeTells
=============================================================================
