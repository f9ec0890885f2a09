---------------------------- MODULE MemoryForget ----------------------------
(***************************************************************************)
(* How memories leave retrieval, come back, and are judged for it:         *)
(*                                                                         *)
(*   lifecycle  memory_lifecycle_pass.py retires cold rows                 *)
(*   scan       contradiction_scan.py supersedes the losers of conflicts   *)
(*   reviewer   forget_review_worker.py asks a model about every row that  *)
(*              went dark, and may have it restored                        *)
(*   linker     episodic_distill.create_link ties rows together            *)
(*   people     and agents, through the memory server's tools and SQL      *)
(*                                                                         *)
(* The triggers and functions of the database run inside the statement     *)
(* that calls them.  A REST call is one atomic step, except sweep_conflicts *)
(* which resolves its conflicts in a subtransaction each.                  *)
(***************************************************************************)
EXTENDS Naturals, Sequences, FiniteSets, Functions

CONSTANTS
  Present, Late,  \* the memories there are at first, and those written later:
                  \* numbers, in the order their contents were written
  Rivals,         \* pairs the scan's similarity test matches, as {a, b}
  Twin,           \* <<older, newer>>: two rows that have the same name
  Cold,           \* rows of the cold tier, never accessed, outside any cluster
  AutoRetire,     \* memory_lifecycle_settings: autoretire_enabled
  AutoRevert,     \* forget_guard_settings: auto_revert_enabled
  RetireLimit,    \* --limit of the lifecycle pass
  ReviewLimit,    \* --limit of the reviewer
  SweepLimit,     \* CONFLICT_SWEEP_LIMIT of the scan
  Budget,         \* Budget[k]: how often k may happen (a bound)
  MaxEvents       \* how many events there may be in all (a bound)

Mem   == Present \cup Late
None  == 0
Pairs == {p \in SUBSET Mem : Cardinality(p) = 2}
Event == {"people", "pass", "link", "fail", "revert"}

ASSUME ForgetAssumption ==
  /\ Mem \subseteq Nat \ {None} /\ IsFiniteSet(Mem)
  /\ Rivals \subseteq SUBSET Mem /\ \A p \in Rivals : Cardinality(p) = 2
  /\ Twin \in Present \X Late /\ Twin[1] < Twin[2]
  /\ Cold \subseteq Mem
  /\ AutoRetire \in BOOLEAN /\ AutoRevert \in BOOLEAN
  /\ RetireLimit \in Nat /\ ReviewLimit \in Nat \ {0} /\ SweepLimit \in Nat \ {0}
  /\ Budget \in [Event -> Nat] /\ MaxEvents \in Nat

VARIABLES
  row,       \* the memories table
  pinned,    \* rows the forget guard protects (lifecycle_pinned, eval gold)
  edge,      \* memory_links, lineage edges left out
  audit,     \* memory_forget_audit
  conflict,  \* memory_conflicts
  filed,     \* their created_at: how many there were before, and one; 0: none
  scan, reviewer, linker,
  spent

vars == <<row, pinned, edge, audit, conflict, filed, scan, reviewer, linker, spent>>

\* closed: valid_to is set, and recall leaves the row out.
Row ==
  [there : BOOLEAN, active : BOOLEAN, retired : BOOLEAN, by : Mem \cup {None}, closed : BOOLEAN]

\* A strong edge carries activation (0.72 or more); a floored one was brought
\* down to 0.05 and remembers its prior_strength; a weak one does not.
Strength == {"none", "strong", "floored", "weak"}
Verdict  == {"approved", "wrong", "uncertain"}
Record ==
  [ of : Mem, op : {"deactivate", "reactivate", "retire", "unretire", "supersede", "delete"},
    old : Row, new : Row,
    status : Verdict \cup {"pending", "reverted", "skipped", "vetoed"} ]

Gone   == [there |-> FALSE, active |-> FALSE, retired |-> FALSE, by |-> None, closed |-> FALSE]
Seed   == [Gone EXCEPT !.there = TRUE, !.active = TRUE]
NoLink == [pc |-> "idle", from |-> None, to |-> None]
Nobody == [pc |-> "idle", todo |-> {}]

TypeOK ==
  /\ row \in [Mem -> Row]
  /\ pinned \subseteq Mem
  /\ edge \in [Mem \X Mem -> Strength]
  /\ audit \in Seq(Record)
  /\ conflict \in [Pairs -> {"none", "value", "stale", "closed"}]
  /\ filed \in [Pairs -> Nat]
  /\ scan.pc \in {"idle", "temporal", "fetch", "sweep"}
  /\ scan.todo \subseteq Pairs
  /\ reviewer.pc \in {"idle", "judge"}
  /\ reviewer.todo \subseteq DOMAIN audit
  /\ linker.pc \in {"idle", "post"}
  /\ \A k \in Event : spent[k] <= Budget[k]

Init ==
  /\ row = [m \in Mem |-> IF m \in Present THEN Seed ELSE Gone]
  /\ pinned = {}
  /\ edge = [e \in Mem \X Mem |-> "none"]
  /\ audit = <<>>
  /\ conflict = [p \in Pairs |-> "none"] /\ filed = [p \in Pairs |-> 0]
  /\ scan = Nobody /\ reviewer = Nobody
  /\ linker = NoLink
  /\ spent = [k \in Event |-> 0]

Spend(k) ==
  /\ spent[k] < Budget[k]
  /\ spent["people"] + spent["pass"] + spent["link"] + spent["fail"] + spent["revert"] < MaxEvents
  /\ spent' = [spent EXCEPT ![k] = @ + 1]

daemons == <<scan, reviewer, linker>>

-----------------------------------------------------------------------------
(* The database: triggers and functions *)

GoesDark(old, new) == (old.active /\ ~new.active) \/ (~old.retired /\ new.retired)

\* guard_memory_forgetting: a protected row may not go dark by an update.
Vetoed(m, new) == m \in pinned /\ GoesDark(row[m], new)

OpOfMutant(old, new) ==  \* mutant: what supersession takes out is not captured
  IF new.there /\ old.active /\ ~new.active /\ new.by # None THEN "none"
  ELSE IF old.active /\ ~new.active THEN "deactivate"
  ELSE IF ~old.active /\ new.active THEN "reactivate" ELSE "none"

\* audit_memory_forgetting: the first of these that applies.
OpOf(old, new) ==
  IF ~new.there THEN "delete"
  ELSE IF old.active # new.active THEN IF old.active THEN "deactivate" ELSE "reactivate"
  ELSE IF old.retired # new.retired THEN IF new.retired THEN "retire" ELSE "unretire"
  ELSE IF old.by # new.by /\ new.by # None THEN "supersede" ELSE "none"

Rec(m, op, new, status) == [of |-> m, op |-> op, old |-> row[m], new |-> new, status |-> status]

\* What the AFTER trigger appends when row m becomes new.
Captured(log, m, new) ==
  LET op == OpOf(row[m], new)
  IN IF op = "none" THEN log
     ELSE Append(log, Rec(m, op, new,
                          IF op \in {"reactivate", "unretire"} THEN "skipped" ELSE "pending"))

\* An UPDATE in veto mode: a refused row keeps its values and is logged.
Put(m, new) == IF Vetoed(m, new) THEN row ELSE [row EXCEPT ![m] = new]
Logged(log, m, new) ==
  IF Vetoed(m, new)
  THEN Append(log, Rec(m, IF ~new.active THEN "deactivate" ELSE "retire", new, "vetoed"))
  ELSE Captured(log, m, new)

\* The unique index on the names of active rows.
Clashes(m, new) ==
  /\ new.active
  /\ \E t \in {Twin[1], Twin[2]} : t # m /\ m \in {Twin[1], Twin[2]} /\ row[t].there /\ row[t].active

FlooredLeft(e, m) == e  \* mutant: the edges of a retired row are left as they are

\* Every inbound edge of m is brought down to 0.05.
Floored(e, m) == [l \in DOMAIN e |-> IF l[2] = m /\ e[l] = "strong" THEN "floored" ELSE e[l]]
Weakened(e, ms) == [l \in DOMAIN e |-> IF l[2] \in ms /\ e[l] = "strong" THEN "weak" ELSE e[l]]

\* The inbound edges of old are copied onto new, where new has none.
Rewired(e, old, new) ==
  [l \in DOMAIN e |->
     IF l[2] = new /\ l[1] # new /\ e[l] = "none" /\ e[<<l[1], old>>] # "none"
     THEN IF e[<<l[1], old>>] = "strong" THEN "strong" ELSE "weak"
     ELSE e[l]]

\* supersede_memory: refused as a whole when the guard vetoes the update.
Loser(old, new) == [row[old] EXCEPT !.active = FALSE, !.by = new, !.closed = TRUE]
Refused(old, new) == Vetoed(old, Loser(old, new))
Supersede(old, new) ==
  /\ row' = [row EXCEPT ![old] = Loser(old, new)]
  /\ audit' = Captured(audit, old, Loser(old, new))
  /\ edge' = Floored(Rewired(edge, old, new), old)

-----------------------------------------------------------------------------
(* People and agents *)

There(m) == row[m].there

\* remember: a new row, where no active row has its name.
Remember(m) ==
  /\ m \in Late /\ ~There(m) /\ ~Clashes(m, Seed)
  /\ Spend("people")
  /\ row' = [row EXCEPT ![m] = Seed]
  /\ UNCHANGED <<pinned, edge, audit, conflict, filed, daemons>>

\* The supersede_memory tool.
ToolSupersede(old, new) ==
  /\ old # new /\ There(old) /\ There(new) /\ ~Refused(old, new)
  /\ Spend("people")
  /\ Supersede(old, new)
  /\ UNCHANGED <<pinned, conflict, filed, daemons>>

\* The forget tool: a DELETE, which the guard does not see.
Forget(m) ==
  /\ There(m)
  /\ Spend("people")
  /\ row' = [row EXCEPT ![m] = Gone]
  /\ audit' = Captured(audit, m, Gone)
  /\ edge' = [l \in DOMAIN edge |-> IF m \in {l[1], l[2]} THEN "none" ELSE edge[l]]
  /\ UNCHANGED <<pinned, conflict, filed, daemons>>

\* unsupersede_memory and unretire_memory; only the former mends the edges.
Unsupersede(m) ==
  LET new == [row[m] EXCEPT !.active = TRUE, !.by = None, !.retired = FALSE]
  IN /\ There(m) /\ (~row[m].active \/ row[m].by # None) /\ ~Clashes(m, new)
     /\ Spend("people")
     /\ row' = [row EXCEPT ![m] = new]
     /\ audit' = Captured(audit, m, new)
     /\ edge' = [l \in DOMAIN edge |->
                   IF l[2] = m /\ edge[l] = "floored" THEN "strong" ELSE edge[l]]
     /\ UNCHANGED <<pinned, conflict, filed, daemons>>

Unretire(m) ==
  LET new == [row[m] EXCEPT !.active = TRUE, !.retired = FALSE]
  IN /\ There(m) /\ row[m].retired /\ ~Clashes(m, new)
     /\ Spend("people")
     /\ row' = [row EXCEPT ![m] = new]
     /\ audit' = Captured(audit, m, new)
     /\ UNCHANGED <<pinned, edge, conflict, filed, daemons>>

\* The monthly consolidation task has its agent set retired_at on superseded rows.
StampRetired(m) ==
  LET new == [row[m] EXCEPT !.retired = TRUE]
  IN /\ There(m) /\ row[m].by # None /\ ~row[m].retired
     /\ Spend("people")
     /\ row' = Put(m, new)
     /\ audit' = Logged(audit, m, new)
     /\ UNCHANGED <<pinned, edge, conflict, filed, daemons>>

Pin(m) ==
  /\ There(m)
  /\ Spend("people")
  /\ pinned' = IF m \in pinned THEN pinned \ {m} ELSE pinned \cup {m}
  /\ UNCHANGED <<row, edge, audit, conflict, filed, daemons>>

People ==
  \E m \in Mem :
    \/ Remember(m) \/ Forget(m) \/ Unsupersede(m) \/ Unretire(m) \/ StampRetired(m) \/ Pin(m)
    \/ \E n \in Mem : ToolSupersede(m, n)

-----------------------------------------------------------------------------
(* The lifecycle pass *)

Candidates == {m \in Cold : row[m].there /\ row[m].active}

\* The first RetireLimit of them, those that the guard will refuse included.
Picked == {m \in Candidates : Cardinality({n \in Candidates : n < m}) < RetireLimit}

\* A pass whose retrieval_gate lets it, and the setting too: one statement,
\* retire_cold_memories, for all; the triggers file the rows, which were active,
\* in any order.  Otherwise the pass is a dry run.
RetireCold ==
  /\ AutoRetire /\ Picked # {}
  /\ Spend("pass")
  /\ LET new(m) == [row[m] EXCEPT !.active = FALSE, !.retired = TRUE]
         done == {m \in Picked : ~Vetoed(m, new(m))}
         entry(m) == Rec(m, "deactivate", new(m), IF m \in done THEN "pending" ELSE "vetoed")
     IN /\ row' = [m \in Mem |-> IF m \in done THEN new(m) ELSE row[m]]
        /\ \E q \in Bijection(1..Cardinality(Picked), Picked) :
             audit' = audit \o [i \in 1..Cardinality(Picked) |-> entry(q[i])]
        /\ edge' = Weakened(edge, done)
  /\ UNCHANGED <<pinned, conflict, filed, daemons>>

-----------------------------------------------------------------------------
(* The contradiction scan: detection, same-name supersession, sweep *)

Valued == {p \in Rivals : \A m \in p : row[m].there /\ row[m].by = None}

\* An unsuperseded row tied to one whose successor was written after it.
Stale ==
  { p \in DOMAIN conflict : \E live \in p : \E dead \in p \ {live} :
      /\ row[live].there /\ row[live].by = None
      /\ row[dead].there /\ row[dead].by > live
      /\ edge[<<live, dead>>] # "none" \/ edge[<<dead, live>>] # "none" }

\* scan_memory_contradictions: a pair is filed once, whatever became of it.
Detect ==
  /\ scan.pc = "idle"
  /\ conflict' = [p \in DOMAIN conflict |->
                    IF conflict[p] # "none" THEN conflict[p]
                    ELSE IF p \in Valued THEN "value"
                    ELSE IF p \in Stale THEN "stale" ELSE "none"]
  /\ filed' = [p \in DOMAIN filed |->
                 IF conflict[p] = conflict'[p] THEN filed[p] ELSE Cardinality({q \in Pairs : filed[q] # 0}) + 1]
  /\ scan' = [scan EXCEPT !.pc = "temporal"]
  /\ UNCHANGED <<row, pinned, edge, audit, reviewer, linker, spent>>

\* detect_temporal_supersession: the newest row of a name supersedes the
\* others; a veto undoes the whole call, and the scan goes on.
Temporal ==
  /\ scan.pc = "temporal"
  /\ LET old == Twin[1]
         new == Twin[2]
         both == \A m \in {old, new} : row[m].there /\ row[m].by = None
     IN IF both /\ ~Refused(old, new)
        THEN /\ Supersede(old, new)
             /\ conflict' = [conflict EXCEPT ![{old, new}] = IF @ = "none" THEN "closed" ELSE @]
        ELSE UNCHANGED <<row, audit, edge, conflict>>
  /\ scan' = [scan EXCEPT !.pc = "fetch"]
  /\ UNCHANGED <<pinned, filed, reviewer, linker, spent>>

Open == {p \in DOMAIN conflict : conflict[p] \in {"value", "stale"}}

\* sweep_conflicts reads the oldest of the open conflicts, up to its limit, those
\* that cannot be settled included ...
Fetch ==
  /\ scan.pc = "fetch"
  /\ \E oldest \in SUBSET Open :
       /\ Cardinality(oldest) <= SweepLimit /\ (oldest = Open \/ Cardinality(oldest) = SweepLimit)
       /\ \A p \in oldest, q \in Open \ oldest : filed[p] <= filed[q]
       /\ scan' = IF oldest = {} THEN Nobody ELSE [pc |-> "sweep", todo |-> oldest]
  /\ UNCHANGED <<row, pinned, edge, audit, conflict, filed, reviewer, linker, spent>>

Close(p) == conflict' = [conflict EXCEPT ![p] = "closed"]

\* supersession_head: the end of the chain, None when it runs in a circle.
ChainEnd(m) ==
  LET next[n \in 0..Cardinality(Mem)] ==
        IF n = 0 THEN m ELSE IF row[next[n - 1]].by = None THEN next[n - 1] ELSE row[next[n - 1]].by
      end == next[Cardinality(Mem)]
  IN IF row[end].by = None THEN end ELSE None

LoserOf(p)  == CHOOSE m \in p : \A n \in p : m <= n
WinnerOf(p) == CHOOSE m \in p : \A n \in p : m >= n

\* A value conflict that the sweep leaves open: its winner has been superseded,
\* or the guard protects its loser.
Held(p) ==
  row[LoserOf(p)].by = None /\ (row[WinnerOf(p)].by # None \/ Refused(LoserOf(p), WinnerOf(p)))

SettleLater(p) ==  \* mutant: the loser is superseded and the conflict stays open
  UNCHANGED <<row, audit, edge, conflict>>

\* A value conflict: the content written later wins, unless the other has
\* been superseded already.
Settle(p) ==
  CASE row[LoserOf(p)].by # None -> Close(p) /\ UNCHANGED <<row, audit, edge>>
    [] Held(p) -> UNCHANGED <<row, audit, edge, conflict>>
    [] OTHER -> Close(p) /\ Supersede(LoserOf(p), WinnerOf(p))

\* A stale citation: the links between the two are mirrored onto the head of
\* the dead one's chain and then brought down to 0.05.
Repair(p) ==
  LET lesser == CHOOSE m \in p : \A n \in p : m <= n
      isDead(m) == row[m].by # None \/ ~row[m].active
      dead == IF isDead(lesser) THEN lesser ELSE CHOOSE m \in p : m # lesser
      live == CHOOSE m \in p : m # dead
      head == IF ChainEnd(dead) = dead THEN None ELSE ChainEnd(dead)
      from(l) == IF l[1] = head /\ l[2] = live THEN edge[<<dead, live>>]
                 ELSE IF l[1] = live /\ l[2] = head THEN edge[<<live, dead>>] ELSE "none"
      mirrored(l) == IF head \notin {None, live} /\ edge[l] = "none" /\ from(l) # "none"
                     THEN IF from(l) = "strong" THEN "strong" ELSE "weak"
                     ELSE edge[l]
  IN /\ Close(p)
     /\ edge' = IF ~isDead(dead) THEN edge
                ELSE [l \in DOMAIN edge |->
                        IF {l[1], l[2]} = p /\ edge[l] = "strong" THEN "weak" ELSE mirrored(l)]
     /\ UNCHANGED <<row, audit>>

\* ... and has resolve_conflict_auto resolve each, as it and its rows are now.
Resolve ==
  /\ scan.pc = "sweep"
  /\ \E p \in scan.todo :
       /\ \A q \in scan.todo : filed[p] <= filed[q]
       /\ \/ /\ conflict[p] \notin {"value", "stale"}
             /\ UNCHANGED <<row, audit, edge, conflict>>
          \/ /\ conflict[p] \in {"value", "stale"} /\ \E m \in p : ~row[m].there
             /\ Close(p) /\ UNCHANGED <<row, audit, edge>>
          \/ conflict[p] = "value" /\ (\A m \in p : row[m].there) /\ Settle(p)
          \/ conflict[p] = "stale" /\ (\A m \in p : row[m].there) /\ Repair(p)
       /\ scan' = IF scan.todo = {p} THEN Nobody ELSE [scan EXCEPT !.todo = @ \ {p}]
  /\ UNCHANGED <<pinned, filed, reviewer, linker, spent>>

Scan == Detect \/ Temporal \/ Fetch \/ Resolve

-----------------------------------------------------------------------------
(* The reviewer *)

Pending == {i \in DOMAIN audit : audit[i].status = "pending"}

Oldest(n) == {i \in Pending : Cardinality({j \in Pending : j < i}) < n}

ReadQueueStuck ==  \* mutant: the queue is not read while anything awaits a retry
  /\ reviewer.pc = "idle" /\ Pending # {} /\ spent["fail"] = 0
  /\ reviewer' = [pc |-> "judge", todo |-> Oldest(ReviewLimit)]
  /\ UNCHANGED <<row, pinned, edge, audit, conflict, filed, scan, linker, spent>>

\* The oldest records of the queue, in one read; they are judged in that order.
ReadQueue ==
  /\ reviewer.pc = "idle" /\ Pending # {}
  /\ reviewer' = [pc |-> "judge", todo |-> Oldest(ReviewLimit)]
  /\ UNCHANGED <<row, pinned, edge, audit, conflict, filed, scan, linker, spent>>

Item == CHOOSE i \in reviewer.todo : \A j \in reviewer.todo : i <= j

NextItem ==
  reviewer' = IF reviewer.todo = {Item} THEN Nobody ELSE [reviewer EXCEPT !.todo = @ \ {Item}]

\* What review_forget_mutation writes to restore the row of record i: the
\* three columns as they were before that mutation, valid_to excepted.
Restored(i) ==
  LET a == audit[i]
  IN [row[a.of] EXCEPT !.active = a.old.active, !.retired = a.old.retired, !.by = a.old.by]

Reverts(i, verdict, sure) ==
  /\ verdict = "wrong" /\ sure /\ AutoRevert
  /\ audit[i].op \in {"deactivate", "retire", "supersede"}
  /\ row[audit[i].of].there

\* The model's answer is recorded by review_forget_mutation; a call that
\* fails, an unusable answer, or a name that is taken leaves the record.
Judge(verdict, sure) ==
  /\ reviewer.pc = "judge"
  /\ LET i == Item
         m == audit[i].of
     IN IF Reverts(i, verdict, sure)
        THEN /\ ~Clashes(m, Restored(i))
             /\ Spend("revert")
             /\ row' = Put(m, Restored(i))
             /\ audit' = [Logged(audit, m, Restored(i)) EXCEPT ![i].status = "reverted"]
        ELSE /\ audit' = [audit EXCEPT ![i].status = verdict]
             /\ UNCHANGED <<row, spent>>
  /\ NextItem
  /\ UNCHANGED <<pinned, edge, conflict, filed, scan, linker>>

\* The row of record i could not be restored: its name is taken.
Blocked(i) == Reverts(i, "wrong", TRUE) /\ Clashes(audit[i].of, Restored(i))

JudgeNothing ==
  /\ reviewer.pc = "judge"
  /\ NextItem
  /\ \/ Blocked(Item) /\ UNCHANGED spent
     \/ Spend("fail")
  /\ UNCHANGED <<row, pinned, edge, audit, conflict, filed, scan, linker>>

Review == ReadQueue \/ JudgeNothing \/ \E v \in Verdict, sure \in BOOLEAN : Judge(v, sure)

-----------------------------------------------------------------------------
(* The linker: link_target_is_live, then the insert *)

CheckTarget(from, to) ==
  /\ linker.pc = "idle" /\ from # to
  /\ row[from].there /\ row[from].active
  /\ row[to].there /\ row[to].active
  /\ Spend("link")
  /\ linker' = [pc |-> "post", from |-> from, to |-> to]
  /\ UNCHANGED <<row, pinned, edge, audit, conflict, filed, scan, reviewer>>

\* A link that is there already, or whose rows are gone, is refused.
PostLink ==
  /\ linker.pc = "post"
  /\ LET l == <<linker.from, linker.to>>
     IN edge' = IF edge[l] = "none" /\ row[linker.from].there /\ row[linker.to].there
                THEN [edge EXCEPT ![l] = "strong"] ELSE edge
  /\ linker' = NoLink
  /\ UNCHANGED <<row, pinned, audit, conflict, filed, scan, reviewer, spent>>

Link == PostLink \/ \E from, to \in Mem : CheckTarget(from, to)

-----------------------------------------------------------------------------

\* A worker dies, or a call of it fails and it gives up; its timer starts it
\* again some day.
Crash ==
  /\ Spend("fail")
  /\ \/ scan # Nobody /\ scan' = Nobody /\ UNCHANGED <<reviewer, linker>>
     \/ reviewer # Nobody /\ reviewer' = Nobody /\ UNCHANGED <<scan, linker>>
     \/ linker # NoLink /\ linker' = NoLink /\ UNCHANGED <<scan, reviewer>>
  /\ UNCHANGED <<row, pinned, edge, audit, conflict, filed>>

Next == People \/ RetireCold \/ Scan \/ Review \/ Link \/ Crash

Spec == Init /\ [][Next]_vars

\* The timers come round: the scan and the reviewer run again and again.
FairSpec == Spec /\ WF_vars(Scan) /\ WF_vars(Review)

-----------------------------------------------------------------------------
(* Properties *)

\* The steps of the reviewer that restore a row.
Reverting ==
  \E i \in DOMAIN audit : audit[i].status = "pending" /\ audit'[i].status = "reverted"

\* The records that tell of row m: that of a refused write and that of a new
\* successor alone leave it where it was.
Telling(m) ==
  {i \in DOMAIN audit : audit[i].of = m /\ audit[i].status # "vetoed" /\ audit[i].op # "supersede"}

\* Whoever takes a row out of retrieval or brings it back, by whatever
\* function, the audit tells: its latest record of a row shows the row as it
\* is, so what is gone can always be found there as it was.  A row that no
\* record is about, or none since it was deleted, is as remember wrote it.
AuditExplains ==
  \A m \in Mem :
    \/ Telling(m) = {} /\ row[m].active = row[m].there /\ ~row[m].retired
    \/ \E last \in Telling(m) :
         /\ \A i \in Telling(m) : i <= last
         /\ IF audit[last].op = "delete"
            THEN row[m].active = row[m].there /\ ~row[m].retired
            ELSE row[m].active = audit[last].new.active /\ row[m].retired = audit[last].new.retired

\* The edges of a row are weak once it has been retired or superseded, those
\* copied on the way included, so retirement leaves nothing that would
\* activate the row.
RetirementCutsEdges ==
  [][\A m \in Mem :
       (row[m].active /\ row'[m].there /\ ~row'[m].active)
         => Reverting \/ \A s \in Mem : edge'[<<s, m>>] # "strong"]_vars

\* Every record is judged in the end although the model fails and the worker
\* dies, unless a record before it or itself cannot be: the restoration of a
\* row whose name is taken fails night after night.
JudgedEventually ==
  \A i \in 1..(Budget["people"] + 2) :
    (i \in Pending) ~> (i \notin Pending \/ \E j \in Pending : j <= i /\ Blocked(j))

\* The conflicts that are held and as old as p, or older.
Before(p) == {q \in Open \ {p} : conflict[q] = "value" /\ filed[q] <= filed[p] /\ Held(q)}

\* "A conflict cannot outlive the scan cycle that found it": what the scan files,
\* its sweep closes (contradiction_scan.py), unless the guard protects the loser
\* or the winner has been superseded; or as many conflicts as the sweep reads are
\* held like that before it.
ConflictsSettle ==
  \A p \in Rivals :
    (conflict[p] = "value") ~> (conflict[p] = "closed" \/ Held(p) \/ Cardinality(Before(p)) >= SweepLimit)
=============================================================================
