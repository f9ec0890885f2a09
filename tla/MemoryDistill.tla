---------------------------- MODULE MemoryDistill ----------------------------
(***************************************************************************)
(* episodic_distill.py: the nightly job (phases 0, 1 and 2) and the weekly *)
(* one (phase 3) gather memories into clusters, write one summary a        *)
(* cluster, and mark the members consolidated, so that they are not taken  *)
(* again.  People edit, tag and retire memories, and delete summaries,     *)
(* while a job is at work; each REST call of a job is a step.              *)
(*                                                                         *)
(* The links from a summary to its members are in MemoryForget.  Time is   *)
(* left out: who is old enough or read often enough is constant; and so is *)
(* a summary that is read so often that phase 1 takes it for a memory.     *)
(***************************************************************************)
EXTENDS Naturals, Sequences, FiniteSets, FiniteSetsExt, Functions

CONSTANTS
  Kind,         \* Kind[m]: "episodic", "project", "feedback" or "reference", for m in
                \* 1..n, numbered in the order of their names and of the fetches
  Label,        \* Label[m]: the name of m with its dates taken out
  Dated,        \* memories with a date in their name
  Blind,        \* memories without an embedding
  Alike,        \* pairs {m, n} as similar as a cluster asks
  Hot,          \* read at least 3 times
  Aged,         \* 7 to 14 days old and read at least twice
  FetchLimit,   \* rows per fetch
  MaxClusters,  \* clusters per phase
  Batch,        \* how many a batch takes where there are no clusters (10)
  ModelReads,   \* how many members of a cluster a model is shown (6)
  TopReads,     \* how many the fallback puts together (3)
  Budget,       \* how many events there may be, by who causes them (a bound)
  MaxEvents     \* how many there may be in all (a bound)

Mem   == DOMAIN Kind
Event == {"people", "fail"}
Job   == {"night", "week"}

ASSUME DistillAssumption ==
  /\ Mem = 1..Len(Kind) /\ DOMAIN Label = Mem
  /\ \A m \in Mem : Kind[m] \in {"episodic", "project", "feedback", "reference"}
  /\ Dated \subseteq Mem /\ Blind \subseteq Mem /\ Hot \subseteq Mem /\ Aged \subseteq Mem
  /\ Alike \subseteq SUBSET Mem
  /\ FetchLimit \in Nat \ {0} /\ MaxClusters \in Nat \ {0} /\ Batch \in Nat \ {0}
  /\ TopReads \in Nat \ {0} /\ ModelReads \in Nat /\ TopReads <= ModelReads
  /\ Budget \in [Event -> Nat] /\ MaxEvents \in Nat

VARIABLES
  version,  \* version[m]: which text memory m has
  tags,     \* tags[m], of "consolidated" and a tag a person sets
  active,   \* the memories that are active
  summary,  \* summary[name]: the texts an active summary of that name is made of, or Absent
  job,      \* job[j]: where a job is
  spent

vars == <<version, tags, active, summary, job, spent>>

Absent == {}
Name   == {"semantic", "ref", "weekly-ref"} \X Range(Label)
Text   == Mem \X (1..(Budget["people"] + 1))

\* seen: the rows as they were fetched; ahead: those fetched for phase 1;
\* todo: the clusters left in this phase; marks: members left to mark.
Idle == [pc |-> "idle", phase |-> 0, seen |-> <<>>, ahead |-> {}, todo |-> <<>>,
         found |-> FALSE, marks |-> {}]

TypeOK ==
  /\ version \in [Mem -> 1..(Budget["people"] + 1)]
  /\ tags \in [Mem -> SUBSET {"consolidated", "kept"}]
  /\ active \subseteq Mem
  /\ summary \in [Name -> SUBSET Text]
  /\ \A j \in Job :
       /\ job[j].pc \in {"idle", "lookup", "write", "mark"}
       /\ job[j].phase \in 0..3
       /\ \A i \in DOMAIN job[j].todo : job[j].todo[i] \subseteq DOMAIN job[j].seen
       /\ job[j].marks \subseteq DOMAIN job[j].seen
  /\ \A k \in Event : spent[k] <= Budget[k]

Init ==
  /\ version = [m \in Mem |-> 1]
  /\ tags = [m \in Mem |-> {}]
  /\ active = Mem
  /\ summary = [n \in Name |-> Absent]
  /\ job = [j \in Job |-> Idle]
  /\ spent = [k \in Event |-> 0]

Spend(k) ==
  /\ spent[k] < Budget[k] /\ spent["people"] + spent["fail"] < MaxEvents
  /\ spent' = [spent EXCEPT ![k] = @ + 1]

-----------------------------------------------------------------------------
(* What a phase takes, and how it groups it *)

Frequent == {"project", "feedback", "reference"}

EligibleAgain(phase) ==  \* mutant: phase 2 takes what phase 1 has done
  {m \in active :
     CASE phase = 0 -> Kind[m] = "episodic" /\ "consolidated" \notin tags[m]
       [] phase = 1 -> Kind[m] \in Frequent /\ m \in Hot /\ "consolidated" \notin tags[m]
       [] OTHER     -> Kind[m] = "project" /\ (phase = 2 => m \in Aged)}

\* Phase 3 leaves out the tag auto-consolidated, which no memory but a summary has.
Eligible(phase) ==
  {m \in active :
     CASE phase = 0 -> Kind[m] = "episodic" /\ "consolidated" \notin tags[m]
       [] phase = 1 -> Kind[m] \in Frequent /\ m \in Hot /\ "consolidated" \notin tags[m]
       [] phase = 2 -> Kind[m] = "project" /\ m \in Aged /\ "consolidated" \notin tags[m]
       [] phase = 3 -> Kind[m] = "project"}

Fetched(phase) ==
  {m \in Eligible(phase) : Cardinality({n \in Eligible(phase) : n < m}) < FetchLimit}

Snapshot(S) == [m \in S |-> [version |-> version[m], tags |-> tags[m]]]

\* cluster_memories: the first memory not yet taken gathers those like it.
Clusters[S \in SUBSET Mem] ==
  IF S = {} THEN <<>>
  ELSE LET m == Min(S)
           c == {m} \cup {n \in S : {m, n} \in Alike}
       IN (IF c = {m} THEN <<>> ELSE <<c>>) \o Clusters[S \ c]

Upto(w, n) == SubSeq(w, 1, IF Len(w) < n THEN Len(w) ELSE n)

WorkClustersOnly(phase, S) ==  \* mutant: what has no cluster is left
  Upto(Clusters[S \ Blind], MaxClusters)

\* S in batches: every Batch-th memory heads one.
Heads(S) == {m \in S : Cardinality({n \in S : n < m}) % Batch = 0}
Batches(S) ==
  [i \in 1..Cardinality(Heads(S)) |-> {m \in S : Cardinality({h \in Heads(S) : h <= m}) = i}]

\* Episodic memories none of which are alike are all taken, in batches.
Work(phase, S) ==
  IF phase = 0 /\ Clusters[S \ Blind] = <<>> THEN Batches(S)
  ELSE Upto(Clusters[S \ Blind], MaxClusters)

Prefix(phase) == CASE phase < 2 -> "semantic" [] phase = 2 -> "ref" [] OTHER -> "weekly-ref"

\* cluster_ref_name: the first name without a date, or the first, undated.
RefName(phase, c) ==
  <<Prefix(phase), Label[Min(IF c \ Dated # {} THEN c \ Dated ELSE c)]>>

-----------------------------------------------------------------------------
(* A job *)

\* The job goes to its next phase or cluster.
Enter(j, phase, seen, ahead, todo) ==
  job' = [job EXCEPT ![j] = [Idle EXCEPT !.pc = "lookup", !.phase = phase, !.seen = seen,
                                         !.ahead = ahead, !.todo = todo]]

\* The night fetches for phases 0 and 1 at once, the week for phase 3.
Start(j) ==
  /\ job[j].pc = "idle"
  /\ IF j = "night"
     THEN Enter(j, 0, Snapshot(Fetched(0) \cup Fetched(1)), Fetched(1), Work(0, Fetched(0)))
     ELSE Enter(j, 3, Snapshot(Fetched(3)), {}, Work(3, Fetched(3)))
  /\ UNCHANGED <<version, tags, active, summary, spent>>

\* Phase 1 works on what was fetched at the start; phase 2 fetches anew.
NextPhase(j) ==
  /\ job[j].pc = "lookup" /\ job[j].todo = <<>>
  /\ CASE job[j].phase = 0 -> Enter(j, 1, job[j].seen, {}, Work(1, job[j].ahead))
       [] job[j].phase = 1 -> Enter(j, 2, Snapshot(Fetched(2)), {}, Work(2, Fetched(2)))
       [] OTHER            -> job' = [job EXCEPT ![j] = Idle]
  /\ UNCHANGED <<version, tags, active, summary, spent>>

Target(j) == RefName(job[j].phase, job[j].todo[1])

\* What of a cluster a summary is made of: a model is shown its first members;
\* where none answers, the most read are put together, whichever they are.
Upon(c, n) == IF Cardinality(c) < n THEN Cardinality(c) ELSE n
Readings(c) ==
  {r \in SUBSET c : \/ r = {m \in c : Cardinality({n \in c : n < m}) < ModelReads}
                    \/ Cardinality(r) = Upon(c, TopReads)}

\* Their texts, as they were fetched.
Texts(j, r) == {<<m, job[j].seen[m].version>> : m \in r}

\* upsert_memory_by_name looks for an active row of the name ...
Lookup(j) ==
  /\ job[j].pc = "lookup" /\ job[j].todo # <<>>
  /\ job' = [job EXCEPT ![j].pc = "write", ![j].found = summary[Target(j)] # Absent]
  /\ UNCHANGED <<version, tags, active, summary, spent>>

Skip(j) == job' = [job EXCEPT ![j].pc = "lookup", ![j].todo = Tail(@), ![j].marks = {}]

WriteAnyway(j) ==  \* mutant: the members are marked although the write failed
  /\ job[j].pc = "write"
  /\ job' = [job EXCEPT ![j].pc = "mark", ![j].marks = job[j].todo[1]]
  /\ \/ \E r \in Readings(job[j].todo[1]) :
          summary' = [summary EXCEPT ![Target(j)] = Texts(j, r)] /\ UNCHANGED spent
     \/ Spend("fail") /\ UNCHANGED summary
  /\ UNCHANGED <<version, tags, active>>

\* ... and patches it by id, which may be gone, or inserts one, which fails
\* when the name has been taken.  A failure leaves the cluster for the next run.
\* All members are to be marked, whichever the summary was made of.
Write(j) ==
  LET old == summary[Target(j)]
  IN /\ job[j].pc = "write"
     /\ \/ /\ job[j].found \/ old = Absent
           /\ IF job[j].found /\ old = Absent THEN UNCHANGED summary
              ELSE \E r \in Readings(job[j].todo[1]) :
                     summary' = [summary EXCEPT ![Target(j)] = Texts(j, r)]
           /\ job' = [job EXCEPT ![j].pc = "mark", ![j].marks = job[j].todo[1]]
           /\ UNCHANGED spent
        \/ ~job[j].found /\ old # Absent /\ Skip(j) /\ UNCHANGED <<summary, spent>>
        \/ Spend("fail") /\ Skip(j) /\ UNCHANGED summary
     /\ UNCHANGED <<version, tags, active>>

\* mark_consolidated writes the tags that were fetched, and one more.
Mark(j) ==
  /\ job[j].pc = "mark"
  /\ IF job[j].marks = {} THEN Skip(j) /\ UNCHANGED <<tags, spent>>
     ELSE LET m == Min(job[j].marks)
          IN /\ job' = [job EXCEPT ![j].marks = @ \ {m}]
             /\ \/ tags' = [tags EXCEPT ![m] = job[j].seen[m].tags \cup {"consolidated"}]
                   /\ UNCHANGED spent
                \/ Spend("fail") /\ UNCHANGED tags
  /\ UNCHANGED <<version, active, summary>>

\* A job dies; its timer starts it anew another day.
Crash(j) ==
  /\ job[j].pc # "idle" /\ Spend("fail")
  /\ job' = [job EXCEPT ![j] = Idle]
  /\ UNCHANGED <<version, tags, active, summary>>

-----------------------------------------------------------------------------
(* People *)

Edit(m) ==
  /\ m \in active /\ Spend("people")
  /\ version' = [version EXCEPT ![m] = @ + 1]
  /\ UNCHANGED <<tags, active, summary, job>>

Keep(m) ==
  /\ m \in active /\ "kept" \notin tags[m] /\ Spend("people")
  /\ tags' = [tags EXCEPT ![m] = @ \cup {"kept"}]
  /\ UNCHANGED <<version, active, summary, job>>

Retire(m) ==
  /\ m \in active /\ Spend("people")
  /\ active' = active \ {m}
  /\ UNCHANGED <<version, tags, summary, job>>

\* A summary is deleted, or one is written by hand under a name a job uses.
Touch(n) ==
  /\ Spend("people")
  /\ summary' = [summary EXCEPT ![n] = IF @ = Absent THEN {<<1, 1>>} ELSE Absent]
  /\ UNCHANGED <<version, tags, active, job>>

People ==
  (\E m \in Mem : Edit(m) \/ Keep(m) \/ Retire(m)) \/ \E n \in Name : Touch(n)

JobStep(j) == Start(j) \/ NextPhase(j) \/ Lookup(j) \/ Write(j) \/ Mark(j)

Next == People \/ \E j \in Job : JobStep(j) \/ Crash(j)

Spec == Init /\ [][Next]_vars

\* The timers start the jobs again and again.
FairSpec == Spec /\ \A j \in Job : WF_vars(JobStep(j))

-----------------------------------------------------------------------------
(* Properties *)

\* The members of the cluster job j is at whose texts, as it fetched them, make
\* up the summary it writes to.
Distilled(j) == {m \in job[j].todo[1] : <<m, job[j].seen[m].version>> \in summary[Target(j)]}

\* A memory is marked, and so left out of every later night, only when its job
\* has written the summary of its cluster, if nobody has deleted or replaced that
\* since: it is made of texts of this cluster, as they were fetched, and of
\* nothing else; the memory's own is one, or the cluster was larger than what a
\* summariser looks at, and as many others as the fallback takes are in it.
MarkedWasWritten ==
  [][\A j \in Job : \A m \in job[j].marks :
       ("consolidated" \in tags'[m] /\ "consolidated" \notin tags[m] /\ spent["people"] = 0)
         => /\ summary[Target(j)] = Texts(j, Distilled(j))
            /\ m \in Distilled(j) \/ Cardinality(Distilled(j)) >= TopReads]_vars

\* Where every call succeeds, the nights put a text into one summary at most,
\* whichever phases the memory falls into: a phase works on what the phases
\* before it have left.
DistilledOnce ==
  spent = [k \in Event |-> 0] =>
    \A m \in Mem :
      Cardinality({n \in Name : n[1] # "weekly-ref" /\ summary[n] # Absent
                                 /\ <<m, version[m]>> \in summary[n]}) <= 1

\* Every episodic memory is consolidated in the end, those like no other
\* included, although calls fail and people edit: old ones that find no
\* cluster do not keep those behind them out of the fetch for ever.
EpisodesDrain ==
  \A m \in Mem : Kind[m] = "episodic" => <>(m \notin active \/ "consolidated" \in tags[m])
=============================================================================
