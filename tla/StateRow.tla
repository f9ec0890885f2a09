-------------------------------- MODULE StateRow --------------------------------
(***************************************************************************)
(* refresh_state_memory.py: every night the marked block of the state      *)
(* memory, and the line recall shows of it, are rendered from the ground   *)
(* truth; the rest of the row is prose that people write.  A row that      *)
(* changed is without a vector until the backfill job of the memory        *)
(* server (index.ts) has made a new one, and that job takes the newest     *)
(* memories without one first.                                             *)
(*                                                                         *)
(* A text is a sequence of the two markers, of what blocks say, which is   *)
(* the ground truth they were rendered from, and of pieces of prose.       *)
(***************************************************************************)
EXTENDS Integers, Sequences

CONSTANTS
  MaxTruth,    \* the ground truth is 0..MaxTruth (a bound)
  Batch,       \* the limit of a backfill
  MaxEdit,     \* acts of people (a bound)
  MaxFail      \* calls that fail (a bound)

VARIABLES
  truth,     \* what memory_state_ground_truth and the disk would say
  row,       \* the active memory of that name
  run,       \* the refresh under way
  newer,     \* the memories made after it that have no vector, newest first
  job,       \* the backfill: the row it is embedding, if it came to it
  edits, fails

vars  == <<truth, row, run, newer, job, edits, fails>>
world == <<truth, edits, fails>>

\* The pieces of a text are numbers: what a block says is one of 0..MaxTruth.
Begin  == -1
End    == -2
Seed   == -3             \* RECREATE_SEED
Hand   == -4             \* what people wrote
Pieces == {Seed, Hand}
NoRow  == [id |-> 0, text |-> <<>>, desc |-> -1, vector |-> <<>>]    \* <<>>: NULL
NoJob == [row |-> NoRow, overtaken |-> FALSE]
RunIdle == [pc |-> "idle", truth |-> 0, row |-> NoRow]

Says(t) == <<Begin, t, End>>    \* render_block
Is(text, a) == {k \in DOMAIN text : text[k] = a}

\* One that is "bad" is refused by the embedding model.
Arrivals == UNION {[1..n -> {"fine", "bad"}] : n \in 1..Batch}

TypeOK ==
  /\ truth \in 0..MaxTruth /\ edits \in 0..MaxEdit /\ fails \in 0..MaxFail
  /\ row.id \in 0..(MaxEdit + 2) /\ row.desc \in -1..truth
  /\ \A k \in DOMAIN row.text : row.text[k] \in {Begin, End} \cup Pieces \cup 0..truth
  /\ row.id # 0 => row.desc # -1 /\ Is(row.text, End) # {}
  /\ run.pc \in {"idle", "fetch", "write"} /\ run.truth \in 0..truth
  /\ job.row.id \in 0..(MaxEdit + 2) /\ job.overtaken \in BOOLEAN
  /\ newer \in Arrivals \cup {<<>>}

Init ==
  /\ truth = 0 /\ edits = 0 /\ fails = 0 /\ newer = <<>> /\ job = NoJob /\ run = RunIdle
  /\ row = [id |-> 1, text |-> <<Hand>> \o Says(0), desc |-> 0, vector |-> <<0, Hand>> \o Says(0)]

Fail == fails < MaxFail /\ fails' = fails + 1

-----------------------------------------------------------------------------
(* The refresh *)

ReadTruth ==
  /\ run.pc = "idle" /\ run' = [RunIdle EXCEPT !.pc = "fetch", !.truth = truth]
  /\ UNCHANGED <<truth, row, newer, job, edits, fails>>

FetchRow ==
  /\ run.pc = "fetch" /\ run' = [run EXCEPT !.pc = "write", !.row = row]
  /\ UNCHANGED <<truth, row, newer, job, edits, fails>>

Least(S) == CHOOSE k \in S : \A j \in S : k <= j

SpliceToEnd(text, block) ==  \* mutant: the block is taken to be the last thing in the row
  IF Is(text, Begin) # {} THEN SubSeq(text, 1, Least(Is(text, Begin)) - 1) \o block
  ELSE block \o text

\* splice: from the first BEGIN to the first END, or else in front.
Splice(text, block) ==
  IF Is(text, Begin) # {} /\ Is(text, End) # {} /\ Least(Is(text, Begin)) < Least(Is(text, End))
  THEN SubSeq(text, 1, Least(Is(text, Begin)) - 1) \o block
         \o SubSeq(text, Least(Is(text, End)) + 1, Len(text))
  ELSE block \o text

New == Splice(run.row.text, Says(run.truth))

\* The line with the time of the rendering is not compared.
Current == New = run.row.text /\ run.row.desc = run.truth

\* The row changes, and a backfill that is embedding it does not know.
Change(new) ==
  /\ row' = new
  /\ job' = [job EXCEPT !.overtaken = @ \/ (job.row.id = row.id /\ row.id # 0)]

PatchKeepsVector ==  \* mutant: the vector of the old text stays
  /\ run.pc = "write" /\ run.row.id # 0 /\ run' = RunIdle
  /\ IF Current \/ row.id # run.row.id THEN UNCHANGED <<row, job>>
     ELSE Change([row EXCEPT !.text = New, !.desc = run.truth])
  /\ UNCHANGED <<truth, newer, edits, fails>>

\* The PATCH names the row by its id, and its vector goes.
Patch ==
  /\ run.pc = "write" /\ run.row.id # 0 /\ run' = RunIdle
  /\ IF Current \/ row.id # run.row.id THEN UNCHANGED <<row, job>>
     ELSE Change([row EXCEPT !.text = New, !.desc = run.truth, !.vector = <<>>])
  /\ UNCHANGED <<truth, newer, edits, fails>>

\* A row that is gone is made again, and is the newest; one that has come back is
\* in the way of it.
Recreate ==
  /\ run.pc = "write" /\ run.row.id = 0 /\ run' = RunIdle
  /\ IF row.id # 0 THEN UNCHANGED <<row, newer>>
     ELSE /\ row' = [id |-> edits + 2, text |-> Says(run.truth) \o <<Seed>>, desc |-> run.truth, vector |-> <<>>]
          /\ newer' = <<>>
  /\ UNCHANGED <<truth, job, edits, fails>>

\* A call fails: nightly_eval.sh goes on without the refresh.
Break == run.pc # "idle" /\ run' = RunIdle /\ Fail /\ UNCHANGED <<truth, row, newer, job, edits>>

Refresh == ReadTruth \/ FetchRow \/ Patch \/ Recreate

-----------------------------------------------------------------------------
(* The backfill job *)

\* The newest rows without a vector, up to the limit, are embedded in order.  The
\* first that cannot be ends the job; rows left out wait for the next.
Pick ==
  /\ job.row.id = 0
  /\ LET most == IF Len(newer) < Batch THEN Len(newer) ELSE Batch
         done == CHOOSE n \in 0..most :
                   /\ \A k \in 1..n : newer[k] = "fine"
                   /\ n < most => newer[n + 1] = "bad"
         bare == row.id # 0 /\ row.vector = <<>>
     IN /\ done > 0 \/ (bare /\ newer = <<>>)
        /\ newer' = SubSeq(newer, done + 1, Len(newer))
        /\ job' = IF bare /\ newer' = <<>> /\ most < Batch THEN [row |-> row, overtaken |-> FALSE] ELSE job
  /\ UNCHANGED <<truth, row, run, edits, fails>>

\* The vector is of the row as it was selected, and goes to the row by its id.
Embed ==
  /\ job.row.id # 0 /\ job' = [job EXCEPT !.row = NoRow]
  /\ \/ /\ row' = IF row.id # job.row.id THEN row
                  ELSE [row EXCEPT !.vector = <<job.row.desc>> \o job.row.text]
        /\ UNCHANGED fails
     \/ UNCHANGED row /\ Fail
  /\ UNCHANGED <<truth, run, newer, edits>>

-----------------------------------------------------------------------------
(* The world *)

Act == edits < MaxEdit /\ edits' = edits + 1

Learn == truth < MaxTruth /\ truth' = truth + 1 /\ UNCHANGED <<row, run, newer, job, edits, fails>>

\* Prose before or after the block, with the row embedded anew.
Write ==
  /\ row.id # 0 /\ Act
  /\ \E text \in {<<Hand>> \o row.text, row.text \o <<Hand>>} :
       Change([row EXCEPT !.text = text, !.vector = <<row.desc>> \o text])
  /\ UNCHANGED <<truth, run, newer, fails>>

\* The first marker is lost.
Cut ==
  /\ row.id # 0 /\ Is(row.text, Begin) # {} /\ Act
  /\ LET k    == Least(Is(row.text, Begin))
         text == SubSeq(row.text, 1, k - 1) \o SubSeq(row.text, k + 1, Len(row.text))
     IN Change([row EXCEPT !.text = text, !.vector = <<row.desc>> \o text])
  /\ UNCHANGED <<truth, run, newer, fails>>

\* Deleted, or retired: names are unique among active rows only.
Forget == row.id # 0 /\ Act /\ row' = NoRow /\ UNCHANGED <<truth, run, newer, job, fails>>

\* Memories are written past the server, without a vector.
Arrive ==
  /\ newer = <<>> /\ Act /\ newer' \in Arrivals
  /\ UNCHANGED <<truth, row, run, job, fails>>

Next == Refresh \/ Break \/ Pick \/ Embed \/ Learn \/ Write \/ Cut \/ Forget \/ Arrive

Spec == Init /\ [][Next]_vars

\* The eval timer starts a refresh every night, the server a backfill every
\* half hour.
FairSpec == Spec /\ WF_vars(Refresh) /\ WF_vars(Pick) /\ WF_vars(Embed)

-----------------------------------------------------------------------------
(* Properties *)

\* new is old with at most one block written over, and at most one in its place.
Kept(old, new) ==
  \E a, b \in 0..Len(old), block \in {<<>>} \cup {Says(t) : t \in 0..MaxTruth} :
    /\ a <= b /\ \A k \in (a + 1)..b : old[k] \notin Pieces
    /\ new = SubSeq(old, 1, a) \o block \o SubSeq(old, b + 1, Len(old))

\* What people wrote before the block and after it, and the refresh has read,
\* stays as it is when the block is refreshed, wherever the markers are.  Only
\* what is written between its read and its PATCH is written over (splice).
ProseStays ==
  (run.pc = "write" /\ run'.pc = "idle" /\ row.id # 0 /\ row' # row) => Kept(run.row.text, row'.text)
ProseIsKept == [][ProseStays]_vars

\* Once nobody learns or writes, the row is there for good, says the truth in its
\* block and in its line, and has the vector of what it says: the refresh repairs
\* a row that was forgotten and does not churn one that is current (main).  A
\* newer memory that cannot be embedded keeps it without a vector, and a backfill
\* that was overtaken leaves it an old one (startEmbeddingBackfillJob).
Embedded ==
  \/ row.vector = <<row.desc>> \o row.text
  \/ row.vector = <<>> /\ Is(newer, "bad") # {}
  \/ row.vector # <<>> /\ job.overtaken
SaysTheTruth ==
  (<>[][UNCHANGED world]_world) =>
    <>[](row.id # 0 /\ row.desc = truth /\ Embedded
         /\ \E k \in 1..Len(row.text) - 2 : SubSeq(row.text, k, k + 2) = Says(truth))
=============================================================================
