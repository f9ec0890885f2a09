---------------------------- MODULE HostJobsProofs ----------------------------
(***************************************************************************)
(* What the timers' jobs have in their keeping stays, but for the losses   *)
(* their properties name, for any number of backups, entries, months,      *)
(* releases and people's acts, and of failing calls and killed runs.       *)
(***************************************************************************)
EXTENDS HostJobs, TLAPS, WellFoundedInduction

-----------------------------------------------------------------------------
(* Backups *)

BackupTyped ==
  /\ run = [pc |-> run.pc, at |-> run.at] /\ run.at \in 1..Len(Task)
  /\ kept \in [Backup -> SUBSET Int] /\ blank \in [Backup -> SUBSET Int]

\* What is pruned has just been copied.
CopiedFirst == run.pc = "prune" => 0 \in kept[Current] \cup blank[Current]

\* Only what is lenient has blank copies.
BlankIsLenient == \A b \in Backup : blank[b] # {} \/ ill[b] = "reads" => b \in Lenient

BackupIInv == BackupTyped /\ CopiedFirst /\ BlankIsLenient

LEMMA TasksAreBackups == Len(Task) \in Nat \ {0} /\ \A k \in 1..Len(Task) : Task[k] \in Backup
BY BackupsAssumption DEF Backup

LEMMA BackupRunKeeps ==
  ASSUME BackupIInv, Start \/ NotDue \/ NoSource \/ UploadFails \/ RecordSuccess \/ Raise \/ Look \/ File \/ Crash
  PROVE  BackupIInv' /\ CopiesStay
<1>1. UNCHANGED <<kept, blank, ill>> BY DEF Start, NotDue, NoSource, UploadFails, RecordSuccess, Raise, Look, File, Crash
<1>2. \/ NextTask \/ NextLook \/ run' = RunIdle
      \/ \E pc \in {"copy", "raise", "file"} : Goto(pc)
  BY DEF Start, NotDue, NoSource, UploadFails, RecordSuccess, Raise, Look, File, Crash
<1>3. run' = [pc |-> run'.pc, at |-> run'.at] /\ run'.at \in 1..Len(Task) /\ run'.pc # "prune"
  <2>1. CASE NextTask
    <3>1. run' \in {[pc |-> "copy", at |-> run.at + 1], [pc |-> "look", at |-> 1]}
          /\ (run'.at = 1 \/ run.at < Len(Task))
      BY <2>1 DEF NextTask, RunIdle
    <3> QED BY <3>1, TasksAreBackups DEF BackupIInv, BackupTyped
  <2>2. CASE NextLook
    <3>1. run' \in {[pc |-> "look", at |-> run.at + 1], [pc |-> "idle", at |-> 1]}
          /\ (run'.at = 1 \/ run.at < Len(Task))
      BY <2>2 DEF NextLook, RunIdle, BackupIInv, BackupTyped
    <3> QED BY <3>1, TasksAreBackups DEF BackupIInv, BackupTyped
  <2>3. CASE run' = RunIdle BY <2>3, TasksAreBackups DEF RunIdle
  <2>4. CASE \E pc \in {"copy", "raise", "file"} : Goto(pc) BY <2>4 DEF Goto, BackupIInv, BackupTyped
  <2> QED BY <1>2, <2>1, <2>2, <2>3, <2>4
<1> QED BY <1>1, <1>3 DEF BackupIInv, BackupTyped, CopiedFirst, BlankIsLenient, CopiesStay

LEMMA BackupsKeep == ASSUME BackupIInv, [Next]_vars PROVE BackupIInv' /\ CopiesStay
<1> USE DEF BackupIInv, BackupTyped, BlankIsLenient
<1>1. CASE Upload
  <2>1. Current \in Backup BY TasksAreBackups DEF Current
  <2>2. run' = [run EXCEPT !.pc = "prune"] /\ UNCHANGED ill BY <1>1 DEF Upload, Goto
  <2>3. \/ kept' = [kept EXCEPT ![Current] = @ \cup {0}] /\ blank' = [blank EXCEPT ![Current] = @ \ {0}]
        \/ /\ kept' = [kept EXCEPT ![Current] = @ \ {0}] /\ blank' = [blank EXCEPT ![Current] = @ \cup {0}]
           /\ Current \in Lenient
    BY <1>1, <2>1 DEF Upload
  <2>4. Current' = Current /\ BackupTyped' BY <2>1, <2>2, <2>3 DEF Current
  <2>5. BlankIsLenient' BY <2>1, <2>2, <2>3
  <2>6. CopiesStay BY <2>1, <2>3 DEF CopiesStay
  <2> QED BY <2>1, <2>3, <2>4, <2>5, <2>6 DEF CopiedFirst
<1>2. CASE Prune
  <2>1. Current \in Backup /\ Keep[Current] \in Nat BY TasksAreBackups, BackupsAssumption DEF Current
  <2>2. /\ run' = [run EXCEPT !.pc = "record"] /\ UNCHANGED ill
        /\ 0 \in kept[Current] \/ 0 \in blank[Current]
    BY <1>2 DEF Prune, Goto, CopiedFirst
  <2>3. CASE /\ kept' = [kept EXCEPT ![Current] = {age \in @ : age <= Keep[Current]}]
             /\ blank' = [blank EXCEPT ![Current] = {age \in @ : age <= Keep[Current]}]
    <3>1. BackupTyped' BY <2>1, <2>2, <2>3
    <3>2. BlankIsLenient' BY <2>1, <2>2, <2>3
    <3>3. \A b \in Backup : b # Current => kept'[b] = kept[b] BY <2>3
    <3>4. 0 \in kept'[Current] \/ (0 \in blank'[Current] /\ Current \in Lenient) BY <2>1, <2>2, <2>3
    <3>5. CopiesStay BY <3>3, <3>4 DEF CopiesStay
    <3> QED BY <2>2, <3>1, <3>2, <3>5 DEF CopiedFirst
  <2>4. CASE UNCHANGED <<kept, blank>> BY <2>2, <2>4 DEF CopiedFirst, CopiesStay
  <2> QED BY <1>2, <2>3, <2>4 DEF Prune
<1>3. CASE Night
  <2>1. /\ UNCHANGED <<run, ill>> /\ run.pc = "idle"
        /\ kept' = [b \in Backup |-> {Older(age, Keep[b] + 1) : age \in kept[b]}]
        /\ blank' = [b \in Backup |-> {Older(age, Keep[b] + 1) : age \in blank[b]}]
    BY <1>3 DEF Night
  <2>2. ASSUME NEW b \in Backup
        PROVE  /\ kept'[b] \in SUBSET Int /\ (kept[b] # {} => kept'[b] # {})
               /\ blank'[b] \in SUBSET Int /\ (blank'[b] # {} => blank[b] # {})
    BY <2>1, <2>2, BackupsAssumption DEF Older
  <2> QED BY <2>1, <2>2 DEF CopiedFirst, CopiesStay
<1>4. CASE \E b \in Backup : Ail(b)
  <2> PICK b \in Backup : Ail(b) BY <1>4
  <2>1. UNCHANGED <<kept, blank, run>> BY DEF Ail
  <2>2. PICK what \in Ills(b) : ill' = [ill EXCEPT ![b] = what] BY DEF Ail
  <2>3. BlankIsLenient' BY <2>1, <2>2 DEF Ills
  <2> QED BY <2>1, <2>3 DEF CopiedFirst, CopiesStay, Current
<1>5. CASE (\E b \in Backup : Close(b)) \/ UNCHANGED vars
  <2>1. UNCHANGED <<kept, blank, ill, run>> BY <1>5 DEF Close, vars
  <2> QED BY <2>1 DEF CopiedFirst, CopiesStay, Current
<1> QED BY <1>1, <1>2, <1>3, <1>4, <1>5, BackupRunKeeps DEF Next, Step

-----------------------------------------------------------------------------
(* The archive of failed runs *)

ArchiveRunTyped ==
  aRun = [pc |-> aRun.pc, cursor |-> aRun.cursor, last |-> aRun.last, month |-> aRun.month, rows |-> aRun.rows]

\* How often each entry is in a CSV.
Csv == [Archive!Entry -> Nat]

ArchiveTyped ==
  /\ month \in Archive!Month
  /\ live \in [Archive!Month -> Csv] /\ packed \in [Archive!Month -> Csv]

\* A run keeps the month in which it started, and rotates the month before.
RunsInMonth ==
  /\ aState.month \in 0..month
  /\ aRun.pc # "idle" => aRun.month \in 1..month
  /\ aRun.pc \in {"pack", "delete"} => aRun.last \in Archive!Month /\ aRun.last < aRun.month
  /\ aRun.pc = "delete" => live[aRun.last] = packed[aRun.last]

\* A month that was packed is over, for the run under way as well: nothing is
\* written to its CSV any more, and what is left of it is in the archive.
PackedIsOver ==
  \A m \in Archive!Month : packed[m] # Archive!NoCsv =>
    /\ m < month /\ (aRun.pc # "idle" => m < aRun.month)
    /\ live[m] \in {Archive!NoCsv, packed[m]}

ArchiveIInv == ArchiveRunTyped /\ ArchiveTyped /\ RunsInMonth /\ PackedIsOver

FiledStays == \A i \in Archive!Entry : Archive!Filed(i) => Archive!Filed(i)'

LEMMA ArchiveAside ==
  ASSUME ArchiveIInv, UNCHANGED <<live, packed>>, month' \in Archive!Month, month <= month',
         ArchiveRunTyped', RunsInMonth', aRun'.pc # "idle" => (aRun.pc # "idle" /\ aRun'.month = aRun.month) \/ aRun'.month = month
  PROVE  ArchiveIInv' /\ FiledStays
<1>1. FiledStays BY DEF FiledStays, Archive!Filed, Archive!Ids
<1>2. month \in Nat /\ month' \in Nat BY JobsAssumption DEF ArchiveIInv, ArchiveTyped, Archive!Month
<1>3. PackedIsOver' BY <1>2 DEF ArchiveIInv, PackedIsOver, Archive!Month
<1> QED BY <1>1, <1>3 DEF ArchiveIInv, ArchiveTyped

LEMMA ArchiveKeeps == ASSUME ArchiveIInv, [Archive!Next]_Archive!vars PROVE ArchiveIInv' /\ FiledStays
<1> USE DEF ArchiveIInv, ArchiveRunTyped
<1>0. month \in 1..MaxMonth /\ MaxMonth \in Nat /\ Archive!Month = 1..MaxMonth
  BY JobsAssumption DEF ArchiveTyped, Archive!Month
<1>1. CASE Archive!Load
  <2>1. UNCHANGED <<live, packed, month, aState>> /\ aRun.pc = "idle"
        /\ aRun' = [pc |-> IF aState.month \notin {Archive!Fresh, month} THEN "pack" ELSE "fetch",
                    cursor |-> aState.cursor, last |-> aState.month, month |-> month, rows |-> {}]
    BY <1>1 DEF Archive!Load, Archive!RunIdle
  <2>2. RunsInMonth' BY <1>0, <2>1 DEF RunsInMonth, Archive!Fresh
  <2> QED BY <1>0, <2>1, <2>2, ArchiveAside
<1>2. CASE Archive!Pack
  <2>1. UNCHANGED <<live, month, aState>> /\ aRun.pc = "pack" BY <1>2 DEF Archive!Pack
  <2>2. CASE live[aRun.last] = Archive!NoCsv
    <3>1. UNCHANGED packed /\ aRun' = [aRun EXCEPT !.pc = "fetch"] BY <1>2, <2>2 DEF Archive!Pack
    <3>2. RunsInMonth' BY <2>1, <3>1 DEF RunsInMonth
    <3> QED BY <1>0, <2>1, <3>1, <3>2, ArchiveAside
  <2>3. CASE live[aRun.last] # Archive!NoCsv
    <3>1. aRun' = [aRun EXCEPT !.pc = "delete"] /\ packed' = [packed EXCEPT ![aRun.last] = live[aRun.last]]
      BY <1>2, <2>3 DEF Archive!Pack
    <3>2. aRun.last \in Archive!Month /\ aRun.last < aRun.month /\ aRun.month \in 1..month
      BY <2>1 DEF RunsInMonth
    <3>3. packed[aRun.last] \in {Archive!NoCsv, live[aRun.last]}
      BY <2>3, <3>2 DEF PackedIsOver
    <3>4. ArchiveTyped' BY <2>1, <3>1, <3>2 DEF ArchiveTyped
    <3>5. RunsInMonth' BY <2>1, <3>1, <3>2 DEF RunsInMonth, ArchiveTyped
    <3>6. PackedIsOver' BY <1>0, <2>1, <3>1, <3>2 DEF PackedIsOver, ArchiveTyped
    <3>7. ASSUME NEW m \in Archive!Month PROVE packed'[m] = packed[m] \/ packed[m] = Archive!NoCsv
      BY <3>1, <3>2, <3>3 DEF ArchiveTyped
    <3>8. Archive!Ids(Archive!NoCsv) = {} BY DEF Archive!Ids, Archive!NoCsv
    <3>9. FiledStays BY <2>1, <3>7, <3>8 DEF FiledStays, Archive!Filed, Archive!Ids
    <3> QED BY <3>1, <3>4, <3>5, <3>6, <3>9
  <2> QED BY <2>2, <2>3
<1>3. CASE Archive!Delete
  <2>1. UNCHANGED <<packed, month, aState>> /\ aRun.pc = "delete" /\ aRun' = [aRun EXCEPT !.pc = "fetch"]
        /\ live' = [live EXCEPT ![aRun.last] = Archive!NoCsv]
    BY <1>3 DEF Archive!Delete
  <2>2. aRun.last \in Archive!Month /\ live[aRun.last] = packed[aRun.last] BY <2>1 DEF RunsInMonth
  <2>3. Archive!NoCsv \in Csv BY DEF Csv, Archive!NoCsv
  <2>4. ArchiveTyped' BY <2>1, <2>3 DEF ArchiveTyped
  <2>5. RunsInMonth' BY <2>1 DEF RunsInMonth
  <2>6. PackedIsOver' BY <1>0, <2>1, <2>2 DEF PackedIsOver, ArchiveTyped
  <2>7. ASSUME NEW m \in Archive!Month
        PROVE  live'[m] = live[m] \/ live[m] = packed'[m]
    BY <2>1, <2>2 DEF ArchiveTyped
  <2>8. FiledStays BY <2>1, <2>7 DEF FiledStays, Archive!Filed, Archive!Ids
  <2> QED BY <2>1, <2>4, <2>5, <2>6, <2>8
<1>4. CASE Archive!Fetch
  <2>1. UNCHANGED <<live, packed, month, aState>> /\ aRun.pc = "fetch"
        /\ \E pc \in {"write", "save"} : \E cursor, rows :
             aRun' = [aRun EXCEPT !.pc = pc, !.cursor = cursor, !.rows = rows]
    BY <1>4, Zenon DEF Archive!Fetch
  <2>2. RunsInMonth' /\ ArchiveRunTyped' /\ aRun'.month = aRun.month BY <2>1 DEF RunsInMonth
  <2> QED BY <1>0, <2>1, <2>2, ArchiveAside
<1>5. CASE Archive!Write
  <2> DEFINE add(i) == IF i \in aRun.rows THEN 1 ELSE 0
             new    == [i \in Archive!Entry |-> live[aRun.month][i] + add(i)]
  <2>1. UNCHANGED <<packed, month, aState>> /\ aRun.pc = "write"
        /\ aRun' = [aRun EXCEPT !.pc = "save", !.rows = {}]
        /\ live' = [live EXCEPT ![aRun.month] = new]
    BY <1>5 DEF Archive!Write
  <2>2. aRun.month \in Archive!Month BY <1>0, <2>1 DEF RunsInMonth
  <2>3. \A i \in Archive!Entry : live[aRun.month][i] \in Nat BY <2>2 DEF ArchiveTyped, Csv
  <2>4. new \in Csv /\ \A i \in Archive!Entry : live[aRun.month][i] > 0 => new[i] > 0
    BY <2>3 DEF Csv
  <2> HIDE DEF new
  <2>5. ArchiveTyped' BY <2>1, <2>4 DEF ArchiveTyped
  <2>6. RunsInMonth' BY <2>1 DEF RunsInMonth
  <2>7. packed[aRun.month] = Archive!NoCsv BY <1>0, <2>1, <2>2 DEF PackedIsOver
  <2>8. PackedIsOver' BY <1>0, <2>1, <2>2, <2>7 DEF PackedIsOver, ArchiveTyped
  <2>9. ASSUME NEW m \in Archive!Month, NEW i \in Archive!Entry PROVE live[m][i] > 0 => live'[m][i] > 0
    BY <2>1, <2>2, <2>4 DEF ArchiveTyped
  <2>10. FiledStays BY <2>1, <2>9 DEF FiledStays, Archive!Filed, Archive!Ids
  <2> QED BY <2>1, <2>5, <2>6, <2>8, <2>10
<1>6. CASE Archive!Save
  <2>1. UNCHANGED <<live, packed, month>> /\ aRun.pc = "save" /\ aRun' = Archive!RunIdle
        /\ aState'.month = aRun.month
    BY <1>6 DEF Archive!Save
  <2>2. RunsInMonth' /\ ArchiveRunTyped' /\ aRun'.pc = "idle" BY <1>0, <2>1 DEF RunsInMonth, Archive!RunIdle
  <2> QED BY <1>0, <2>1, <2>2, ArchiveAside
<1>7. CASE Archive!Crash
  <2>1. UNCHANGED <<live, packed, month, aState>> /\ aRun' = Archive!RunIdle BY <1>7 DEF Archive!Crash
  <2>2. RunsInMonth' /\ ArchiveRunTyped' /\ aRun'.pc = "idle" BY <1>0, <2>1 DEF RunsInMonth, Archive!RunIdle
  <2> QED BY <1>0, <2>1, <2>2, ArchiveAside
<1>8. CASE Archive!Turn
  <2>1. UNCHANGED <<live, packed, aState, aRun>> /\ month' = month + 1 /\ month < MaxMonth
    BY <1>8 DEF Archive!Turn
  <2>2. RunsInMonth' BY <1>0, <2>1 DEF RunsInMonth
  <2> QED BY <1>0, <2>1, <2>2, ArchiveAside
<1>9. CASE Archive!Allocate \/ Archive!Commit \/ UNCHANGED Archive!vars
  <2>1. UNCHANGED <<live, packed, month, aState, aRun>> BY <1>9 DEF Archive!Allocate, Archive!Commit, Archive!vars
  <2>2. RunsInMonth' BY <2>1 DEF RunsInMonth
  <2> QED BY <1>0, <2>1, <2>2, ArchiveAside
<1> QED BY <1>1, <1>2, <1>3, <1>4, <1>5, <1>6, <1>7, <1>8, <1>9 DEF Archive!Next, Archive!Step

-----------------------------------------------------------------------------
(* Home Assistant's updates *)

UpdateRunTyped ==
  hRun = [pc |-> hRun.pc, todo |-> hRun.todo, applied |-> hRun.applied,
          failed |-> hRun.failed, rebooted |-> hRun.rebooted]

\* The restart for the components has been asked for, or the boot for the system.
LoadTried == ~unloaded \/ "restart" \in hRun.failed
BootTried == "os" \in hRun.applied /\ (~unloaded \/ unbooted)

\* From the restart that is for the components on, they are loaded; they are
\* restarted for, or the host is, before the run reports.
Loads ==
  /\ hRun.pc = "refresh" => hRun.applied = {}
  /\ hRun.pc \in {"apply", "settle", "reboot"} /\ "os" \in hRun.applied => unbooted
  /\ hRun.pc \in {"load", "loading"} => "os" \notin hRun.applied
  /\ hRun.pc = "loading" => LoadTried
  /\ hRun.pc = "reboot" /\ "hacs" \in hRun.applied /\ "os" \notin hRun.applied => LoadTried
  /\ hRun.pc \in {"rebooting", "report"} /\ "hacs" \in hRun.applied => LoadTried \/ BootTried

UpdateIInv == UpdateRunTyped /\ hFaults \in Nat /\ Loads

LEMMA UpdatesKeep == ASSUME UpdateIInv, [Updates!Next]_Updates!vars PROVE UpdateIInv'
<1> USE DEF UpdateIInv, UpdateRunTyped
<1>0. hFaults' \in Nat
  <2>1. CASE UNCHANGED hFaults BY <2>1
  <2>2. CASE Updates!Fault BY <2>2 DEF Updates!Fault
  <2>3. UNCHANGED hFaults \/ Updates!Fault
    BY Zenon DEF Updates!Next, Updates!Step, Updates!Preflight, Updates!FindUpdates, Updates!Apply, Updates!ApplyFails,
       Updates!Settle, Updates!Applied, Updates!RestartCore, Updates!RebootHost, Updates!Rebooted, Updates!Report,
       Updates!Crash, Updates!GoDown, Updates!ComeUp, Updates!Release, Updates!vars
  <2> QED BY <2>1, <2>2, <2>3
<1>1. CASE Updates!Preflight \/ Updates!Crash \/ Updates!Report
  <2>1. UpdateRunTyped' /\ hRun'.pc \in {"refresh", "idle"} /\ (hRun'.pc = "refresh" => hRun'.applied = {})
    BY <1>1 DEF Updates!Preflight, Updates!Crash, Updates!Report, Updates!RunIdle
  <2> QED BY <1>0, <2>1 DEF Loads
<1>2. CASE Updates!FindUpdates
  <2>1. UNCHANGED unbooted /\ hRun.pc = "refresh"
        /\ \/ hRun' = Updates!RunIdle
           \/ \E S : hRun' = [hRun EXCEPT !.pc = "apply", !.todo = S]
    BY <1>2, Zenon DEF Updates!FindUpdates
  <2>2. UpdateRunTyped' /\ hRun'.pc \in {"apply", "idle"} /\ hRun'.applied = {}
    <3>1. CASE hRun' = Updates!RunIdle BY <3>1 DEF Updates!RunIdle
    <3>2. CASE hRun' # Updates!RunIdle
      <4> PICK S : hRun' = [hRun EXCEPT !.pc = "apply", !.todo = S] BY <2>1, <3>2
      <4> QED BY <2>1 DEF Loads
    <3> QED BY <3>1, <3>2
  <2> QED BY <1>0, <2>2 DEF Loads
<1>3. CASE Updates!Apply
  <2> DEFINE k  == Updates!Next1
             pc == IF k \in {"supervisor", "core"} THEN "settle" ELSE "apply"
  <2>1. hRun' = [hRun EXCEPT !.todo = @ \ {k}, !.applied = @ \cup {k}, !.pc = pc]
        /\ unbooted' = (unbooted \/ k = "os") /\ hRun.pc = "apply"
    BY <1>3 DEF Updates!Apply, Updates!Installed
  <2> HIDE DEF k
  <2>2. UpdateRunTyped' /\ hRun'.pc \in {"settle", "apply"} /\ hRun'.applied = hRun.applied \cup {k} BY <2>1
  <2> QED BY <1>0, <2>1, <2>2 DEF Loads
<1>4. CASE Updates!ApplyFails
  <2>1. hRun.pc = "apply" /\ (unbooted => unbooted')
    <3>1. hRun.pc = "apply" /\ (UNCHANGED unbooted \/ Updates!Installed(Updates!Next1))
      BY <1>4, Zenon DEF Updates!ApplyFails
    <3>2. Updates!Installed(Updates!Next1) => (unbooted => unbooted') BY Zenon DEF Updates!Installed
    <3> QED BY <3>1, <3>2
  <2>2. PICK S, f : hRun' = [hRun EXCEPT !.todo = S, !.failed = f] BY <1>4, Zenon DEF Updates!ApplyFails
  <2>3. UpdateRunTyped' /\ hRun'.pc = "apply" /\ hRun'.applied = hRun.applied BY <2>1, <2>2
  <2> QED BY <1>0, <2>1, <2>3 DEF Loads
<1>5. CASE Updates!Settle
  <2>1. UNCHANGED <<unloaded, unbooted>> /\ hRun.pc \in {"settle", "loading"}
        /\ hRun' = [hRun EXCEPT !.pc = IF hRun.pc = "settle" THEN "apply" ELSE "reboot"]
    BY <1>5 DEF Updates!Settle
  <2>2. UpdateRunTyped' /\ hRun'.applied = hRun.applied /\ hRun'.failed = hRun.failed
        /\ hRun'.pc = IF hRun.pc = "settle" THEN "apply" ELSE "reboot"
    BY <2>1
  <2> QED BY <1>0, <2>1, <2>2 DEF Loads, LoadTried
<1>6. CASE Updates!Applied
  <2>1. UNCHANGED unbooted /\ hRun.pc = "apply"
        /\ hRun' = [hRun EXCEPT !.pc = IF "hacs" \in hRun.applied /\ "os" \notin hRun.applied
                                       THEN "load" ELSE "reboot"]
    BY <1>6 DEF Updates!Applied
  <2>2. UpdateRunTyped' /\ hRun'.applied = hRun.applied
        /\ hRun'.pc = IF "hacs" \in hRun.applied /\ "os" \notin hRun.applied THEN "load" ELSE "reboot"
    BY <2>1
  <2> QED BY <1>0, <2>1, <2>2 DEF Loads
<1>7. CASE Updates!RestartCore
  <2>1. hRun.pc = "load"
        /\ \/ hRun' = [hRun EXCEPT !.pc = "loading"] /\ unloaded' = FALSE
           \/ hRun' = [hRun EXCEPT !.pc = "loading", !.failed = @ \cup {"restart"}]
    BY <1>7 DEF Updates!RestartCore
  <2>2. UpdateRunTyped' /\ hRun'.applied = hRun.applied /\ hRun'.pc = "loading" BY <2>1
  <2>3. LoadTried' BY <2>1 DEF LoadTried
  <2> QED BY <1>0, <2>1, <2>2, <2>3 DEF Loads
<1>8. CASE Updates!RebootHost
  <2>1. hRun.pc = "reboot"
        /\ \/ "os" \notin hRun.applied /\ hRun' = [hRun EXCEPT !.pc = "report"] /\ UNCHANGED unloaded
           \/ /\ "os" \in hRun.applied /\ hRun' = [hRun EXCEPT !.pc = "rebooting"]
              /\ unloaded' = FALSE \/ UNCHANGED unbooted
    BY <1>8 DEF Updates!RebootHost
  <2>2. UpdateRunTyped' /\ hRun'.applied = hRun.applied /\ hRun'.failed = hRun.failed
        /\ hRun'.pc \in {"report", "rebooting"}
    BY <2>1
  <2> QED BY <1>0, <2>1, <2>2 DEF Loads, LoadTried, BootTried
<1>9. CASE Updates!Rebooted
  <2>1. UNCHANGED <<unloaded, unbooted>> /\ hRun.pc = "rebooting"
        /\ \E b : hRun' = [hRun EXCEPT !.pc = "report", !.rebooted = b]
    BY <1>9, Zenon DEF Updates!Rebooted
  <2>2. UpdateRunTyped' /\ hRun'.applied = hRun.applied /\ hRun'.failed = hRun.failed /\ hRun'.pc = "report"
    BY <2>1
  <2> QED BY <1>0, <2>1, <2>2 DEF Loads, LoadTried, BootTried
<1>10. CASE Updates!GoDown \/ Updates!ComeUp \/ (\E k \in Updates!Kind : Updates!Release(k)) \/ UNCHANGED Updates!vars
  <2>1. UNCHANGED <<hRun, unloaded, unbooted>>
    BY <1>10 DEF Updates!GoDown, Updates!ComeUp, Updates!Release, Updates!vars
  <2> QED BY <1>0, <2>1 DEF Loads, LoadTried, BootTried
<1> QED BY <1>1, <1>2, <1>3, <1>4, <1>5, <1>6, <1>7, <1>8, <1>9, <1>10 DEF Updates!Next, Updates!Step

\* Whatever fails on the way, a run that lives to report has loaded the components
\* it installed, or calls for attention because the restart for them failed, or
\* was refused the boot of a new operating system (main, 3b; reboot_host).
THEOREM Loaded == FairJobs => LoadedByTheEnd
<1>1. JobsInit => UpdateIInv
  BY DEF JobsInit, Updates!Init, Updates!RunIdle, UpdateIInv, UpdateRunTyped, Loads
<1>2. UpdateIInv /\ [JobsNext]_all => UpdateIInv' /\ [Updates!LoadedOrTold]_Updates!vars
  <2> SUFFICES ASSUME UpdateIInv, [JobsNext]_all PROVE UpdateIInv' /\ Updates!LoadedOrTold OBVIOUS
  <2>1. [Updates!Next]_Updates!vars
    BY DEF JobsNext, all, OfBackups, OfArchive, OfUpdates, OfMemory, OfDigests, ofUpdates, Updates!vars
  <2>2. ASSUME hRun.pc = "report", hRun'.pc = "idle", hFaults' = hFaults, "hacs" \in hRun.applied, unloaded
        PROVE  ("restart" \in hRun.failed /\ verdict' = "attention") \/ ("os" \in hRun.applied /\ unbooted)
    <3>1. CASE Updates!Preflight \/ Updates!FindUpdates \/ Updates!Apply \/ Updates!ApplyFails \/ Updates!Settle
              \/ Updates!Applied \/ Updates!RestartCore \/ Updates!RebootHost \/ Updates!Rebooted
      BY <2>2, <3>1 DEF Updates!Preflight, Updates!FindUpdates, Updates!Apply, Updates!ApplyFails,
         Updates!Settle, Updates!Applied, Updates!RestartCore, Updates!RebootHost, Updates!Rebooted
    <3>2. CASE Updates!Crash
      <4>1. hFaults' = hFaults + 1 BY <3>2 DEF Updates!Crash, Updates!Fault
      <4> QED BY <2>2, <4>1 DEF UpdateIInv
    <3>3. CASE Updates!GoDown \/ Updates!ComeUp \/ (\E k \in Updates!Kind : Updates!Release(k)) \/ UNCHANGED Updates!vars
      BY <2>2, <3>3 DEF Updates!GoDown, Updates!ComeUp, Updates!Release, Updates!vars
    <3>4. CASE Updates!Report
      <4>1. LoadTried \/ BootTried BY <2>2 DEF UpdateIInv, Loads
      <4> QED BY <2>2, <3>4, <4>1 DEF Updates!Report, LoadTried, BootTried
    <3> QED BY <2>1, <3>1, <3>2, <3>3, <3>4 DEF Updates!Next, Updates!Step
  <2> QED BY <2>1, <2>2, UpdatesKeep DEF Updates!LoadedOrTold
<1> QED BY <1>1, <1>2, PTL DEF FairJobs, LoadedByTheEnd, Updates!LoadedByTheEnd

-----------------------------------------------------------------------------
(* The state memory *)

\* A block is in one piece: what follows a BEGIN is the rest of its block.
Whole(text) ==
  \A k \in 1..Len(text) : text[k] = Memory!Begin =>
    k + 2 <= Len(text) /\ text[k + 1] \in 0..MaxTruth /\ text[k + 2] = Memory!End

Text(text) == text \in Seq(Int) /\ Whole(text)

MemoryTyped ==
  /\ memory = [id |-> memory.id, text |-> memory.text, desc |-> memory.desc, vector |-> memory.vector]
  /\ mRun = [pc |-> mRun.pc, truth |-> mRun.truth, row |-> mRun.row]
  /\ truth \in 0..MaxTruth /\ mRun.truth \in 0..MaxTruth

MemoryIInv == MemoryTyped /\ Text(memory.text) /\ Text(mRun.row.text)

LEMMA NatMin == ASSUME NEW S \in SUBSET Nat, S # {} PROVE \E x \in S : \A y \in S : x <= y
<1> DEFINE R == OpToRel(<, Nat)
<1>1. IsWellFoundedOn(R, Nat) BY NatLessThanWellFounded
<1>2. \A x, y \in Nat : x < y => <<x, y>> \in R BY DEF OpToRel
<1> HIDE DEF R
<1>3. PICK x \in S : \A y \in S : ~(<<y, x>> \in R) BY <1>1, WFMin
<1>4. \A y \in S : ~(y < x) BY <1>2, <1>3
<1>5. x \in Nat /\ \A y \in S : y \in Nat OBVIOUS
<1>6. \A y \in S : x <= y BY <1>4, <1>5
<1> QED BY <1>6

LEMMA FirstIs ==
  ASSUME NEW text \in Seq(Int), NEW a, Memory!Is(text, a) # {}
  PROVE  LET k == Memory!Least(Memory!Is(text, a))
         IN  k \in 1..Len(text) /\ text[k] = a /\ \A j \in 1..Len(text) : text[j] = a => k <= j
<1>1. Memory!Is(text, a) = {k \in 1..Len(text) : text[k] = a} BY DEF Memory!Is
<1>2. Memory!Is(text, a) \in SUBSET Nat BY <1>1
<1>3. \E k \in Memory!Is(text, a) : \A j \in Memory!Is(text, a) : k <= j BY <1>2, NatMin
<1> QED BY <1>1, <1>3 DEF Memory!Least

\* Texts that are joined, or begun later, stay whole; so does one cut off
\* before any BEGIN.
LEMMA JoinedIsWhole == ASSUME NEW s, NEW t, Text(s), Text(t) PROVE Text(s \o t)
<1>1. s \o t \in Seq(Int) /\ Len(s \o t) = Len(s) + Len(t) /\ Len(s) \in Nat /\ Len(t) \in Nat BY DEF Text
<1>2. \A k \in 1..Len(s) : (s \o t)[k] = s[k] BY DEF Text
<1>3. \A k \in 1..Len(t) : (s \o t)[Len(s) + k] = t[k] BY DEF Text
<1>4. ASSUME NEW k \in 1..Len(s \o t), (s \o t)[k] = Memory!Begin
      PROVE  /\ k + 2 <= Len(s \o t)
             /\ (s \o t)[k + 1] \in 0..MaxTruth /\ (s \o t)[k + 2] = Memory!End
  <2>1. CASE k <= Len(s)
    <3>1. k \in 1..Len(s) /\ s[k] = Memory!Begin BY <1>1, <1>2, <1>4, <2>1
    <3>2. k + 2 <= Len(s) /\ s[k + 1] \in 0..MaxTruth /\ s[k + 2] = Memory!End BY <3>1 DEF Text, Whole
    <3> QED BY <1>1, <1>2, <3>1, <3>2
  <2>2. CASE k > Len(s)
    <3> DEFINE j == k - Len(s)
    <3>1. j \in 1..Len(t) /\ k = Len(s) + j BY <1>1, <2>2
    <3>2. t[j] = Memory!Begin BY <1>3, <1>4, <3>1
    <3>3. j + 2 <= Len(t) /\ t[j + 1] \in 0..MaxTruth /\ t[j + 2] = Memory!End BY <3>1, <3>2 DEF Text, Whole
    <3>4. (s \o t)[Len(s) + (j + 1)] = t[j + 1] /\ (s \o t)[Len(s) + (j + 2)] = t[j + 2]
      BY SMTT(30), <1>1, <1>3, <3>1, <3>3
    <3> QED BY <1>1, <3>1, <3>3, <3>4
  <2> QED BY SMTT(30), <1>1, <2>1, <2>2
<1> QED BY <1>1, <1>4 DEF Text, Whole

LEMMA TailIsWhole ==
  ASSUME NEW s, Text(s), NEW k \in 1..(Len(s) + 1) PROVE Text(SubSeq(s, k, Len(s)))
BY SMTT(30) DEF Text, Whole

LEMMA HeadIsWhole ==
  ASSUME NEW s, Text(s), NEW k \in 0..Len(s), \A j \in 1..k : s[j] # Memory!Begin
  PROVE  Text(SubSeq(s, 1, k))
BY DEF Text, Whole

LEMMA BlockIsWhole == ASSUME NEW t \in 0..MaxTruth PROVE Text(Memory!Says(t)) /\ Len(Memory!Says(t)) = 3
BY JobsAssumption DEF Text, Whole, Memory!Says, Memory!Begin, Memory!End

\* A splice writes one block over another one, or in front.
LEMMA SpliceKeeps ==
  ASSUME NEW s, Text(s), NEW t \in 0..MaxTruth
  PROVE  LET new == Memory!Splice(s, Memory!Says(t)) IN Text(new) /\ Memory!Kept(s, new)
<1> DEFINE block == Memory!Says(t)
           B == Memory!Least(Memory!Is(s, Memory!Begin))
           E == Memory!Least(Memory!Is(s, Memory!End))
<1>1. s \in Seq(Int) /\ Len(s) \in Nat BY DEF Text
<1>2. Text(block) /\ Len(block) = 3 BY BlockIsWhole
<1>3. CASE Memory!Is(s, Memory!Begin) # {} /\ Memory!Is(s, Memory!End) # {} /\ B < E
  <2> DEFINE new == SubSeq(s, 1, B - 1) \o block \o SubSeq(s, E + 1, Len(s))
  <2>1. /\ B \in 1..Len(s) /\ s[B] = Memory!Begin /\ \A j \in 1..Len(s) : s[j] = Memory!Begin => B <= j
        /\ E \in 1..Len(s) /\ s[E] = Memory!End /\ \A j \in 1..Len(s) : s[j] = Memory!End => E <= j
    BY <1>1, <1>3, FirstIs
  <2> HIDE DEF B, E
  <2>2. B + 2 <= Len(s) /\ s[B + 1] \in 0..MaxTruth /\ s[B + 2] = Memory!End BY <2>1 DEF Text, Whole
  <2>3. E = B + 2
    <3>1. E <= B + 2 BY <1>1, <2>1, <2>2
    <3>2. E # B + 1 BY JobsAssumption, <2>1, <2>2 DEF Memory!End
    <3> QED BY <1>1, <1>3, <2>1, <3>1, <3>2
  <2>4. Text(SubSeq(s, 1, B - 1)) BY SMTT(30), <1>1, <2>1, HeadIsWhole
  <2>5. Text(SubSeq(s, E + 1, Len(s))) BY <1>1, <2>1, TailIsWhole
  <2>6. Text(new) BY <1>2, <2>4, <2>5, JoinedIsWhole
  <2>7. \A k \in ((B - 1) + 1)..E : s[k] \notin Memory!Pieces
    <3>1. (B - 1) + 1 = B /\ B..E = {B, B + 1, B + 2} BY <1>1, <2>1, <2>3
    <3>2. \A k \in B..E : s[k] \in {-1, -2} \cup 0..MaxTruth
      BY <2>1, <2>2, <3>1 DEF Memory!Begin, Memory!End
    <3>3. Memory!Pieces = {-3, -4} BY DEF Memory!Pieces, Memory!Seed, Memory!Hand
    <3> QED BY <3>1, <3>2, <3>3, JobsAssumption
  <2>8. B - 1 \in 0..Len(s) /\ E \in 0..Len(s) /\ B - 1 <= E BY <1>1, <2>1, <2>3
  <2>9. Memory!Kept(s, new) BY <2>7, <2>8 DEF Memory!Kept
  <2> QED BY <1>3, <2>6, <2>9 DEF Memory!Splice, B, E
<1>4. CASE ~(Memory!Is(s, Memory!Begin) # {} /\ Memory!Is(s, Memory!End) # {} /\ B < E)
  <2>1. Memory!Splice(s, block) = block \o s BY <1>4 DEF Memory!Splice
  <2>2. Text(block \o s) BY <1>2, JoinedIsWhole
  <2>3. SubSeq(s, 1, 0) = <<>> /\ SubSeq(s, 0 + 1, Len(s)) = s BY <1>1
  <2>4. <<>> \o block = block BY <1>2 DEF Text
  <2>5. block \o s = SubSeq(s, 1, 0) \o block \o SubSeq(s, 0 + 1, Len(s)) BY <2>3, <2>4
  <2>6. 0 \in 0..Len(s) /\ 0 <= 0 /\ \A k \in (0 + 1)..0 : s[k] \notin Memory!Pieces BY <1>1
  <2>7. Memory!Kept(s, block \o s) BY <2>5, <2>6 DEF Memory!Kept
  <2> QED BY <2>1, <2>2, <2>7
<1> QED BY <1>3, <1>4

LEMMA LeftAloneIsKept == ASSUME NEW s, Text(s) PROVE Memory!Kept(s, s)
<1>1. s \in Seq(Int) /\ Len(s) \in Nat BY DEF Text
<1>2. SubSeq(s, 1, 0) = <<>> /\ SubSeq(s, 0 + 1, Len(s)) = s BY <1>1
<1>3. <<>> \o <<>> = <<>> /\ <<>> \o s = s BY <1>1
<1>4. s = SubSeq(s, 1, 0) \o <<>> \o SubSeq(s, 0 + 1, Len(s)) BY <1>2, <1>3
<1>5. 0 \in 0..Len(s) /\ 0 <= 0 /\ \A k \in (0 + 1)..0 : s[k] \notin Memory!Pieces BY <1>1
<1> QED BY <1>4, <1>5 DEF Memory!Kept

\* People's pieces of prose are whole too, and a marker that is cut away
\* leaves no BEGIN behind it.
LEMMA PeopleKeepWhole ==
  ASSUME NEW s, Text(s)
  PROVE  /\ Text(<<Memory!Hand>> \o s) /\ Text(s \o <<Memory!Hand>>)
         /\ Memory!Is(s, Memory!Begin) # {} =>
              LET k == Memory!Least(Memory!Is(s, Memory!Begin))
              IN  Text(SubSeq(s, 1, k - 1) \o SubSeq(s, k + 1, Len(s)))
<1>1. s \in Seq(Int) /\ Len(s) \in Nat BY DEF Text
<1>2. Text(<<Memory!Hand>>) BY DEF Text, Whole, Memory!Hand, Memory!Begin
<1>3. ASSUME Memory!Is(s, Memory!Begin) # {}
      PROVE  LET k == Memory!Least(Memory!Is(s, Memory!Begin))
             IN  Text(SubSeq(s, 1, k - 1) \o SubSeq(s, k + 1, Len(s)))
  <2> DEFINE k == Memory!Least(Memory!Is(s, Memory!Begin))
  <2>1. k \in 1..Len(s) /\ \A j \in 1..Len(s) : s[j] = Memory!Begin => k <= j BY <1>1, <1>3, FirstIs
  <2> HIDE DEF k
  <2>2. Text(SubSeq(s, 1, k - 1)) BY <1>1, <2>1, HeadIsWhole
  <2>3. Text(SubSeq(s, k + 1, Len(s))) BY <1>1, <2>1, TailIsWhole
  <2>4. Text(SubSeq(s, 1, k - 1) \o SubSeq(s, k + 1, Len(s))) BY <2>2, <2>3, JoinedIsWhole
  <2> QED BY <2>4 DEF k
<1> QED BY <1>2, <1>3, JoinedIsWhole

LEMMA PatchKeeps == ASSUME MemoryIInv, Memory!Patch PROVE MemoryIInv' /\ Memory!ProseStays
<1> DEFINE new == Memory!Splice(mRun.row.text, Memory!Says(mRun.truth))
<1>1. UNCHANGED truth /\ mRun' = Memory!RunIdle BY DEF Memory!Patch
<1>2. Text(new) /\ Memory!Kept(mRun.row.text, new) BY SpliceKeeps DEF MemoryIInv, MemoryTyped
<1>3. \/ memory' = memory
      \/ memory' = [memory EXCEPT !.text = new, !.desc = mRun.truth, !.vector = <<>>]
  BY DEF Memory!Patch, Memory!Change, Memory!New
<1> HIDE DEF new
<1>4. /\ memory' = [id |-> memory'.id, text |-> memory'.text, desc |-> memory'.desc, vector |-> memory'.vector]
      /\ memory' = memory \/ memory'.text = new
  BY <1>3 DEF MemoryIInv, MemoryTyped
<1>5. Text(<<>>) BY DEF Text, Whole
<1>6. MemoryTyped' /\ mRun'.row.text = <<>>
  BY <1>1, <1>4, JobsAssumption DEF MemoryIInv, MemoryTyped, Memory!RunIdle, Memory!NoRow
<1> QED BY <1>2, <1>4, <1>5, <1>6, LeftAloneIsKept DEF MemoryIInv, Memory!ProseStays

LEMMA MemoryKeeps == ASSUME MemoryIInv, [Memory!Next]_Memory!vars PROVE MemoryIInv' /\ Memory!ProseStays
<1> DEFINE Fielded(r) == r = [id |-> r.id, text |-> r.text, desc |-> r.desc, vector |-> r.vector]
           SameText  == UNCHANGED truth /\ memory'.text = memory.text /\ Fielded(memory')
<1>1. Text(<<>>) BY DEF Text, Whole
<1>2. ASSUME SameText, mRun' = mRun \/ (memory' = memory /\ mRun' = Memory!RunIdle)
      PROVE  MemoryIInv' /\ Memory!ProseStays
  <2>1. MemoryTyped' /\ mRun'.row.text \in {mRun.row.text, <<>>}
    BY <1>2, JobsAssumption DEF MemoryIInv, MemoryTyped, Memory!RunIdle, Memory!NoRow
  <2> QED BY <1>1, <1>2, <2>1 DEF MemoryIInv, Memory!ProseStays
<1>3. CASE Memory!ReadTruth
  <2>1. UNCHANGED <<truth, memory>> /\ mRun' = [pc |-> "fetch", truth |-> truth, row |-> Memory!NoRow]
    BY <1>3 DEF Memory!ReadTruth, Memory!RunIdle
  <2>2. MemoryTyped' /\ mRun'.row.text = <<>> BY <2>1 DEF MemoryIInv, MemoryTyped, Memory!NoRow
  <2> QED BY <1>1, <2>1, <2>2 DEF MemoryIInv, Memory!ProseStays
<1>4. CASE Memory!FetchRow
  <2>1. UNCHANGED <<truth, memory>> /\ mRun' = [mRun EXCEPT !.pc = "write", !.row = memory]
    BY <1>4 DEF Memory!FetchRow
  <2>2. MemoryTyped' /\ mRun'.row = memory /\ mRun'.pc = "write" BY <2>1 DEF MemoryIInv, MemoryTyped
  <2> QED BY <2>1, <2>2 DEF MemoryIInv, Memory!ProseStays
<1>5. CASE Memory!Recreate
  <2>1. UNCHANGED truth /\ mRun' = Memory!RunIdle /\ mRun.row.id = 0
        /\ \/ memory' = memory
           \/ memory.id = 0 /\ \E id : memory' = [id |-> id, text |-> Memory!Says(mRun.truth) \o <<Memory!Seed>>,
                                 desc |-> mRun.truth, vector |-> <<>>]
    BY <1>5, Zenon DEF Memory!Recreate
  <2>2. CASE memory' = memory BY <1>2, <2>1, <2>2 DEF MemoryIInv, MemoryTyped
  <2>3. CASE memory' # memory
    <3>1. Fielded(memory') /\ memory'.text = Memory!Says(mRun.truth) \o <<Memory!Seed>> BY <2>1, <2>3
    <3>2. Text(<<Memory!Seed>>) BY DEF Text, Whole, Memory!Seed, Memory!Begin
    <3>3. Text(memory'.text) BY <3>1, <3>2, BlockIsWhole, JoinedIsWhole DEF MemoryIInv, MemoryTyped
    <3>4. MemoryTyped' /\ mRun'.row.text = <<>>
      BY <2>1, <3>1, JobsAssumption DEF MemoryIInv, MemoryTyped, Memory!RunIdle, Memory!NoRow
    <3>5. Memory!ProseStays BY <2>1, <2>3 DEF Memory!ProseStays
    <3> QED BY <1>1, <3>3, <3>4, <3>5 DEF MemoryIInv
  <2> QED BY <2>2, <2>3
<1>6. CASE Memory!Break \/ Memory!Pick \/ Memory!Arrive \/ Memory!Learn
  <2>1. UNCHANGED memory /\ (mRun' = mRun \/ mRun' = Memory!RunIdle) /\ (truth' = truth \/ Memory!Learn)
    BY <1>6 DEF Memory!Break, Memory!Pick, Memory!Arrive, Memory!Learn
  <2>2. CASE truth' = truth BY <1>2, <2>1, <2>2 DEF MemoryIInv, MemoryTyped
  <2>3. CASE Memory!Learn
    <3>1. UNCHANGED <<memory, mRun>> /\ truth' \in 0..MaxTruth
      BY <2>3, JobsAssumption DEF Memory!Learn, MemoryIInv, MemoryTyped
    <3> QED BY <3>1, LeftAloneIsKept DEF MemoryIInv, MemoryTyped, Memory!ProseStays
  <2> QED BY <2>1, <2>2, <2>3
<1>7. CASE Memory!Embed
  <2>1. UNCHANGED <<truth, mRun>> /\ (memory' = memory \/ \E v : memory' = [memory EXCEPT !.vector = v])
    BY <1>7, Zenon DEF Memory!Embed
  <2>2. SameText BY <2>1 DEF MemoryIInv, MemoryTyped
  <2> QED BY <1>2, <2>1, <2>2
<1>8. CASE Memory!Write \/ Memory!Cut
  <2>1. UNCHANGED <<truth, mRun>>
        /\ \E text, v : Text(text) /\ memory' = [memory EXCEPT !.text = text, !.vector = v]
    <3>1. CASE Memory!Write
      <4>1. PICK text \in {<<Memory!Hand>> \o memory.text, memory.text \o <<Memory!Hand>>} :
              memory' = [memory EXCEPT !.text = text, !.vector = <<memory.desc>> \o text]
        BY <3>1, Zenon DEF Memory!Write, Memory!Change
      <4>2. Text(text) BY <4>1, PeopleKeepWhole DEF MemoryIInv
      <4>3. UNCHANGED <<truth, mRun>> BY <3>1 DEF Memory!Write
      <4> QED BY <4>1, <4>2, <4>3
    <3>2. CASE Memory!Cut BY <3>2, PeopleKeepWhole DEF Memory!Cut, Memory!Change, MemoryIInv
    <3> QED BY <1>8, <3>1, <3>2
  <2>2. PICK text, v : Text(text) /\ memory' = [memory EXCEPT !.text = text, !.vector = v] BY <2>1
  <2>3. Fielded(memory') /\ memory'.text = text BY <2>2 DEF MemoryIInv, MemoryTyped
  <2>4. MemoryTyped' BY <2>1, <2>3 DEF MemoryIInv, MemoryTyped
  <2> QED BY <2>1, <2>2, <2>3, <2>4 DEF MemoryIInv, Memory!ProseStays
<1>9. CASE Memory!Forget
  <2>1. UNCHANGED <<truth, mRun>> /\ memory' = Memory!NoRow BY <1>9 DEF Memory!Forget
  <2>2. MemoryTyped' /\ memory'.text = <<>> BY <2>1 DEF MemoryIInv, MemoryTyped, Memory!NoRow
  <2> QED BY <1>1, <2>1, <2>2 DEF MemoryIInv, Memory!ProseStays
<1>10. CASE UNCHANGED Memory!vars
  <2>1. UNCHANGED <<truth, memory, mRun>> BY <1>10 DEF Memory!vars
  <2> QED BY <1>2, <2>1 DEF MemoryIInv, MemoryTyped
<1> QED BY <1>3, <1>4, <1>5, <1>6, <1>7, <1>8, <1>9, <1>10, PatchKeeps DEF Memory!Next, Memory!Refresh

-----------------------------------------------------------------------------

\* Whatever fails in a run or kills it, retention takes the last good copy of a
\* backup only for a newer one, which lacks data only if failed reads count as
\* success (prune); no rotation loses a row of the archive (rotate_month); no
\* refresh writes over the prose it has read (splice).
THEOREM TrustKept == FairJobs => KeptInTrust
<1> DEFINE IInv == BackupIInv /\ ArchiveIInv /\ MemoryIInv
<1>1. JobsInit => IInv
  <2> SUFFICES ASSUME Init, Archive!Init, Memory!Init PROVE IInv BY DEF JobsInit
  <2>1. BackupIInv
    BY TasksAreBackups DEF Init, RunIdle, BackupIInv, BackupTyped, CopiedFirst, BlankIsLenient
  <2>2. ArchiveIInv
    BY JobsAssumption DEF Archive!Init, Archive!RunIdle, Archive!NoCsv, Archive!Fresh, Archive!Month,
       ArchiveIInv, ArchiveRunTyped, ArchiveTyped, Csv, RunsInMonth, PackedIsOver
  <2>3. MemoryIInv
    <3>1. 0 \in 0..MaxTruth BY JobsAssumption
    <3>2. Text(<<Memory!Hand>>) BY DEF Text, Whole, Memory!Hand, Memory!Begin
    <3>3. Text(<<Memory!Hand>> \o Memory!Says(0)) BY <3>1, <3>2, BlockIsWhole, JoinedIsWhole
    <3>4. Text(<<>>) BY DEF Text, Whole
    <3> QED BY <3>1, <3>3, <3>4 DEF Memory!Init, Memory!RunIdle, Memory!NoRow, MemoryIInv, MemoryTyped
  <2> QED BY <2>1, <2>2, <2>3
<1>2. IInv /\ [JobsNext]_all => IInv' /\ [CopiesStay]_vars /\ [FiledStays]_Archive!vars /\ [Memory!ProseStays]_Memory!vars
  <2> SUFFICES ASSUME IInv, [JobsNext]_all PROVE IInv' /\ CopiesStay /\ FiledStays /\ Memory!ProseStays OBVIOUS
  <2>1. [Next]_vars /\ [Archive!Next]_Archive!vars /\ [Memory!Next]_Memory!vars
    BY DEF JobsNext, all, OfBackups, OfArchive, OfUpdates, OfMemory, OfDigests, ofArchive, ofMemory,
           Archive!vars, Memory!vars
  <2> QED BY <2>1, BackupsKeep, ArchiveKeeps, MemoryKeeps
<1> HIDE DEF IInv
<1>3. FairJobs => KeepsACopy BY <1>1, <1>2, PTL DEF FairJobs, KeepsACopy
<1>4. FairJobs => Archive!FiledIsKept BY <1>1, <1>2, PTL DEF FairJobs, Archive!FiledIsKept, FiledStays
<1>5. FairJobs => Memory!ProseIsKept BY <1>1, <1>2, PTL DEF FairJobs, Memory!ProseIsKept
<1> QED BY <1>3, <1>4, <1>5 DEF KeptInTrust
=============================================================================
