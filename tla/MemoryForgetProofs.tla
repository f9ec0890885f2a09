-------------------------- MODULE MemoryForgetProofs --------------------------
(***************************************************************************)
(* The audit of forgetting tells the truth, and retirement cuts a row off, *)
(* for any memories, rivals, settings and limits, and any number of acts,  *)
(* passes, links, failures and reverts.                                    *)
(***************************************************************************)
EXTENDS MemoryForget, TLAPS, FiniteSetTheorems, WellFoundedInduction

-----------------------------------------------------------------------------
(* Logs *)

Op     == {"deactivate", "reactivate", "retire", "unretire", "supersede", "delete"}
Status == Verdict \cup {"pending", "reverted", "skipped", "vetoed"}

\* The records of a log that tell of row m (Telling, of any log).
Of(log, m) ==
  {i \in DOMAIN log : log[i].of = m /\ log[i].status # "vetoed" /\ log[i].op # "supersede"}

Fresh(r) == r.active = r.there /\ ~r.retired

\* The log accounts for row m being r.  A row that a record shows is there: only
\* a deletion takes one away, and it files a record.
Told(log, r, m) ==
  \/ Of(log, m) = {} /\ Fresh(r)
  \/ \E last \in Of(log, m) :
       /\ \A i \in Of(log, m) : i <= last
       /\ IF log[last].op = "delete" THEN Fresh(r)
          ELSE r.there /\ r.active = log[last].new.active /\ r.retired = log[last].new.retired

\* A log that goes on, with statuses changed at most among those of rulings.
GoesOn(log, next) ==
  /\ log \in Seq(Record) /\ next \in Seq(Record) /\ Len(log) <= Len(next)
  /\ \A i \in 1..Len(log) : /\ next[i].of = log[i].of /\ next[i].op = log[i].op /\ next[i].new = log[i].new
                            /\ next[i].status = "vetoed" <=> log[i].status = "vetoed"

\* What is new in the log tells nothing of row m, and it is what it was.
LEMMA StillTold ==
  ASSUME NEW log, NEW next, GoesOn(log, next), NEW m, NEW r, NEW s, Told(log, r, m),
         s.there = r.there, s.active = r.active, s.retired = r.retired,
         \A i \in Of(next, m) : i \in 1..Len(log)
  PROVE  Told(next, s, m)
<1>1. Len(log) \in Nat /\ Len(next) \in Nat /\ DOMAIN log = 1..Len(log) /\ DOMAIN next = 1..Len(next)
  BY DEF GoesOn
<1>2. Of(next, m) = Of(log, m) BY <1>1 DEF GoesOn, Of
<1>3. CASE Of(log, m) = {} BY <1>2, <1>3 DEF Told, Fresh
<1>4. CASE Of(log, m) # {}
  <2>1. PICK last \in Of(log, m) :
          /\ \A i \in Of(log, m) : i <= last
          /\ IF log[last].op = "delete" THEN Fresh(r)
             ELSE r.there /\ r.active = log[last].new.active /\ r.retired = log[last].new.retired
    BY <1>4 DEF Told
  <2>2. next[last].op = log[last].op /\ next[last].new = log[last].new BY <1>1 DEF GoesOn, Of
  <2> QED BY <1>2, <2>1, <2>2 DEF Told, Fresh
<1> QED BY <1>3, <1>4

\* The latest record of row m is new, and shows what it has become.
LEMMA NewlyTold ==
  ASSUME NEW log, NEW next, GoesOn(log, next), NEW m, NEW r, NEW k \in Of(next, m),
         \A i \in Of(next, m) : i <= k,
         IF next[k].op = "delete" THEN Fresh(r) ELSE r.there /\ next[k].new = r
  PROVE  Told(next, r, m)
BY DEF Told

\* A record at the end.
LEMMA Filed ==
  ASSUME NEW log \in Seq(Record), NEW rec \in Record
  PROVE  /\ GoesOn(log, Append(log, rec)) /\ Len(Append(log, rec)) = Len(log) + 1
         /\ Append(log, rec)[Len(log) + 1] = rec
         /\ \A i \in 1..Len(log) : Append(log, rec)[i] = log[i]
         /\ \A m, i : i \in Of(Append(log, rec), m) => i \in 1..Len(log) \/ (i = Len(log) + 1 /\ rec.of = m)
<1> DEFINE next == Append(log, rec)
<1>1. /\ next \in Seq(Record) /\ Len(next) = Len(log) + 1 /\ Len(log) \in Nat
      /\ DOMAIN next = 1..(Len(log) + 1) /\ next[Len(log) + 1] = rec
      /\ \A i \in 1..Len(log) : next[i] = log[i]
  OBVIOUS
<1> HIDE DEF next
<1>2. GoesOn(log, next) BY <1>1 DEF GoesOn
<1>3. \A m, i : i \in Of(next, m) => i \in 1..Len(log) \/ (i = Len(log) + 1 /\ rec.of = m)
  BY <1>1 DEF Of
<1> QED BY <1>1, <1>2, <1>3 DEF next

-----------------------------------------------------------------------------
(* Writes to a row and what the triggers file *)

RowsTyped == row \in [Mem -> Row] /\ audit \in Seq(Record)
Accounted == \A m \in Mem : Told(audit, row[m], m)

\* What the triggers file are records.
LEMMA RecIsRecord ==
  ASSUME RowsTyped, NEW m \in Mem, NEW new \in Row, NEW op \in Op, NEW status \in Status
  PROVE  Rec(m, op, new, status) \in Record
BY DEF RowsTyped, Rec, Record, Op, Status

LEMMA OpIsOp == ASSUME NEW old, NEW new PROVE OpOf(old, new) \in Op \cup {"none"}
BY DEF OpOf, Op

\* A write that the guard lets through.
LEMMA CapturedTells ==
  ASSUME RowsTyped, Accounted, NEW m \in Mem, row[m].there, NEW new \in Row, new.there \/ new = Gone,
         NEW next, next = Captured(audit, m, new)
  PROVE  /\ GoesOn(audit, next) /\ \A i \in 1..Len(audit) : next[i] = audit[i]
         /\ Told(next, new, m) /\ \A n \in Mem \ {m} : Told(next, row[n], n)
<1> DEFINE op == OpOf(row[m], new)
<1>1. row[m] \in Row /\ Told(audit, row[m], m) /\ audit \in Seq(Record) BY DEF RowsTyped, Accounted
<1>2. Len(audit) \in Nat /\ DOMAIN audit = 1..Len(audit) BY <1>1
<1>3. CASE op \in {"none", "supersede"}
  <2>1. new.there /\ row[m].active = new.active /\ row[m].retired = new.retired
    BY <1>1, <1>3 DEF OpOf, Row, Gone
  <2>2. CASE op = "none"
    <3>1. next = audit BY <2>2 DEF Captured
    <3>2. GoesOn(audit, next) BY <1>1, <3>1 DEF GoesOn
    <3>3. \A n : \A i \in Of(next, n) : i \in 1..Len(audit) BY <1>2, <3>1 DEF Of
    <3> QED BY <1>1, <2>1, <3>1, <3>2, <3>3, StillTold DEF Accounted
  <2>3. CASE op = "supersede"
    <3> DEFINE rec == Rec(m, "supersede", new, "pending")
    <3>1. next = Append(audit, rec) BY <2>3 DEF Captured
    <3>2. rec \in Record BY RecIsRecord DEF Op, Status
    <3>3. rec.op = "supersede" BY DEF Rec
    <3> HIDE DEF rec
    <3>4. /\ GoesOn(audit, next) /\ next[Len(audit) + 1] = rec /\ \A i \in 1..Len(audit) : next[i] = audit[i]
          /\ \A n, i : i \in Of(next, n) => i \in 1..Len(audit) \/ i = Len(audit) + 1
      BY <1>1, <3>1, <3>2, Filed
    <3>5. \A n : \A i \in Of(next, n) : i \in 1..Len(audit) BY <3>3, <3>4 DEF Of
    <3> QED BY <1>1, <2>1, <3>4, <3>5, StillTold DEF Accounted
  <2> QED BY <1>3, <2>2, <2>3
<1>4. CASE op \notin {"none", "supersede"}
  <2> DEFINE status == IF op \in {"reactivate", "unretire"} THEN "skipped" ELSE "pending"
             rec == Rec(m, op, new, status)
  <2>1. next = Append(audit, rec) BY <1>4 DEF Captured
  <2>2. op \in Op BY <1>4, OpIsOp
  <2>3. status \in Status /\ status # "vetoed" BY DEF Status
  <2>4. rec \in Record BY <2>2, <2>3, RecIsRecord
  <2>5. rec.of = m /\ rec.op = op /\ rec.new = new /\ rec.status = status BY DEF Rec
  <2>6. op = "delete" <=> ~new.there BY DEF OpOf
  <2>7. new = Gone => Fresh(new) BY DEF Gone, Fresh
  <2> HIDE DEF rec, status, op
  <2>8. /\ GoesOn(audit, next) /\ next[Len(audit) + 1] = rec /\ \A i \in 1..Len(audit) : next[i] = audit[i]
        /\ Len(next) = Len(audit) + 1
        /\ \A n, i : i \in Of(next, n) => i \in 1..Len(audit) \/ (i = Len(audit) + 1 /\ rec.of = n)
    BY <1>1, <2>1, <2>4, Filed
  <2>9. Told(next, new, m)
    <3>1. DOMAIN next = 1..Len(next) BY <2>8 DEF GoesOn
    <3>2. Len(audit) + 1 \in Of(next, m) BY <1>2, <1>4, <2>3, <2>5, <2>8, <3>1 DEF Of
    <3>3. \A i \in Of(next, m) : i <= Len(audit) + 1 BY <1>2, <2>8
    <3>4. IF next[Len(audit) + 1].op = "delete" THEN Fresh(new) ELSE new.there /\ next[Len(audit) + 1].new = new
      BY <2>5, <2>6, <2>7, <2>8
    <3> QED BY <2>8, <3>2, <3>3, <3>4, NewlyTold
  <2>10. ASSUME NEW n \in Mem \ {m} PROVE Told(next, row[n], n)
    <3>1. \A i \in Of(next, n) : i \in 1..Len(audit) BY <2>5, <2>8, <2>10
    <3> QED BY <2>8, <3>1, StillTold DEF Accounted
  <2> QED BY <2>8, <2>9, <2>10
<1> QED BY <1>3, <1>4

\* A write that the guard refuses is filed as well, and leaves the row.
LEMMA VetoTells ==
  ASSUME RowsTyped, Accounted, NEW m \in Mem, NEW new \in Row, NEW op \in Op,
         NEW next, next = Append(audit, Rec(m, op, new, "vetoed"))
  PROVE  /\ GoesOn(audit, next) /\ \A i \in 1..Len(audit) : next[i] = audit[i]
         /\ \A n \in Mem : Told(next, row[n], n)
<1> DEFINE rec == Rec(m, op, new, "vetoed")
<1>1. rec \in Record BY RecIsRecord DEF Status
<1>2. rec.status = "vetoed" BY DEF Rec
<1> HIDE DEF rec
<1>3. /\ GoesOn(audit, next) /\ next[Len(audit) + 1] = rec /\ \A i \in 1..Len(audit) : next[i] = audit[i]
      /\ \A n, i : i \in Of(next, n) => i \in 1..Len(audit) \/ i = Len(audit) + 1
  BY <1>1, Filed DEF RowsTyped, rec
<1>4. \A n : \A i \in Of(next, n) : i \in 1..Len(audit) BY <1>2, <1>3 DEF Of
<1> QED BY <1>3, <1>4, StillTold DEF Accounted

\* An update, whatever the guard makes of it.
LEMMA PutTells ==
  ASSUME RowsTyped, Accounted, NEW m \in Mem, row[m].there, NEW new \in Row, new.there,
         NEW next, next = Logged(audit, m, new)
  PROVE  /\ GoesOn(audit, next) /\ \A i \in 1..Len(audit) : next[i] = audit[i]
         /\ Put(m, new) \in [Mem -> Row] /\ \A n \in Mem : Told(next, Put(m, new)[n], n)
<1>1. CASE Vetoed(m, new)
  <2>1. Put(m, new) = row BY <1>1 DEF Put
  <2>2. PICK op \in Op : next = Append(audit, Rec(m, op, new, "vetoed")) BY <1>1 DEF Logged, Op
  <2> QED BY <2>1, <2>2, VetoTells DEF RowsTyped
<1>2. CASE ~Vetoed(m, new)
  <2>1. Put(m, new) = [row EXCEPT ![m] = new] /\ next = Captured(audit, m, new) BY <1>2 DEF Put, Logged
  <2> QED BY <2>1, CapturedTells DEF RowsTyped
<1> QED BY <1>1, <1>2

\* What is kept: the log accounts for every row.
Accounts(rows, next) ==
  /\ rows \in [Mem -> Row] /\ GoesOn(audit, next)
  /\ \A i \in 1..Len(audit) : next[i] = audit[i]
  /\ \A n \in Mem : Told(next, rows[n], n)

\* supersede_memory, by whomever.
LEMMA SupersedeTells ==
  ASSUME RowsTyped, Accounted, NEW old \in Mem, NEW new \in Mem, row[old].there, Supersede(old, new)
  PROVE  Accounts(row', audit')
<1> DEFINE loser == Loser(old, new)
<1>1. row[old] \in Row BY DEF RowsTyped
<1>2. loser \in Row /\ loser.there
  <2> DEFINE first == [row[old] EXCEPT !.active = FALSE]
             second == [first EXCEPT !.by = new]
  <2>1. first \in Row /\ first.there BY <1>1 DEF Row
  <2>2. second \in Row /\ second.there
    <3> HIDE DEF first
    <3> QED BY <2>1 DEF Row
  <2>3. loser = [second EXCEPT !.closed = TRUE] BY DEF Loser
  <2> HIDE DEF second, loser
  <2> QED BY <2>2, <2>3 DEF Row
<1>3. row' = [row EXCEPT ![old] = loser] /\ audit' = Captured(audit, old, loser) BY DEF Supersede
<1> HIDE DEF loser
<1> QED BY <1>2, <1>3, CapturedTells DEF RowsTyped, Accounts

LEMMA PeopleTell ==
  ASSUME RowsTyped, Accounted, People
  PROVE  Accounts(row', audit')
<1> USE DEF RowsTyped, Accounts
<1>1. GoesOn(audit, audit) BY DEF GoesOn
<1>2. \A n : \A i \in Of(audit, n) : i \in 1..Len(audit) BY DEF Of
<1>3. ASSUME NEW m \in Mem, Remember(m) PROVE Accounts(row', audit')
  <2>1. row' = [row EXCEPT ![m] = Seed] /\ UNCHANGED audit /\ ~row[m].there BY <1>3 DEF Remember, There
  <2>2. Seed \in Row /\ Fresh(Seed) BY DEF Seed, Gone, Row, Fresh
  <2>3. Told(audit, Seed, m) BY <2>1, <2>2 DEF Accounted, Told
  <2> QED BY <1>1, <2>1, <2>2, <2>3 DEF Accounted
<1>4. ASSUME NEW m \in Mem, Forget(m) PROVE Accounts(row', audit')
  <2>1. row' = [row EXCEPT ![m] = Gone] /\ audit' = Captured(audit, m, Gone) /\ row[m].there
    BY <1>4 DEF Forget, There
  <2>2. Gone \in Row BY DEF Gone, Row
  <2> QED BY <2>1, <2>2, CapturedTells
<1>5. ASSUME NEW m \in Mem, NEW new \in Row, new.there, row[m].there,
             row' = [row EXCEPT ![m] = new], audit' = Captured(audit, m, new)
      PROVE  Accounts(row', audit')
  BY <1>5, CapturedTells
<1>6. ASSUME NEW m \in Mem, Unsupersede(m) PROVE Accounts(row', audit')
  <2> DEFINE new == [row[m] EXCEPT !.active = TRUE, !.by = None, !.retired = FALSE]
  <2>1. row[m].there /\ row' = [row EXCEPT ![m] = new] /\ audit' = Captured(audit, m, new)
    BY <1>6 DEF Unsupersede, There
  <2>2. new \in Row /\ new.there
    <3> DEFINE first  == [row[m] EXCEPT !.active = TRUE]
               second == [first EXCEPT !.by = None]
    <3>1. first \in Row /\ first.there BY <2>1 DEF Row
    <3>2. second \in Row /\ second.there
      <4> HIDE DEF first
      <4> QED BY <3>1 DEF Row
    <3>3. new = [second EXCEPT !.retired = FALSE] OBVIOUS
    <3> HIDE DEF second, new
    <3> QED BY <3>2, <3>3 DEF Row
  <2> HIDE DEF new
  <2> QED BY <1>5, <2>1, <2>2
<1>7. ASSUME NEW m \in Mem, Unretire(m) PROVE Accounts(row', audit')
  <2> DEFINE new == [row[m] EXCEPT !.active = TRUE, !.retired = FALSE]
  <2>1. row[m].there /\ row' = [row EXCEPT ![m] = new] /\ audit' = Captured(audit, m, new)
    BY <1>7 DEF Unretire, There
  <2>2. new \in Row /\ new.there
    <3> DEFINE first == [row[m] EXCEPT !.active = TRUE]
    <3>1. first \in Row /\ first.there BY <2>1 DEF Row
    <3>2. new = [first EXCEPT !.retired = FALSE] OBVIOUS
    <3> HIDE DEF first, new
    <3> QED BY <3>1, <3>2 DEF Row
  <2> HIDE DEF new
  <2> QED BY <1>5, <2>1, <2>2
<1>8. ASSUME NEW m \in Mem, StampRetired(m) PROVE Accounts(row', audit')
  <2> DEFINE new == [row[m] EXCEPT !.retired = TRUE]
  <2>1. row[m].there /\ row' = Put(m, new) /\ audit' = Logged(audit, m, new)
    BY <1>8 DEF StampRetired, There
  <2>2. new \in Row /\ new.there BY <2>1 DEF Row
  <2> HIDE DEF new
  <2> QED BY <2>1, <2>2, PutTells
<1>9. ASSUME NEW m \in Mem, Pin(m) PROVE Accounts(row', audit') BY <1>1, <1>9 DEF Pin, Accounted
<1>10. ASSUME NEW m \in Mem, NEW n \in Mem, ToolSupersede(m, n) PROVE Accounts(row', audit')
  BY <1>10, SupersedeTells DEF ToolSupersede, There
<1> QED BY <1>3, <1>4, <1>6, <1>7, <1>8, <1>9, <1>10 DEF People

\* One statement retires the picked rows, those that are protected excepted, and
\* one record of each is filed.
LEMMA RetireTells ==
  ASSUME RowsTyped, Accounted, RetireCold
  PROVE  Accounts(row', audit')
<1> DEFINE new(m)   == [row[m] EXCEPT !.active = FALSE, !.retired = TRUE]
           done     == {m \in Picked : ~Vetoed(m, new(m))}
           entry(m) == Rec(m, "deactivate", new(m), IF m \in done THEN "pending" ELSE "vetoed")
           c        == Cardinality(Picked)
<1>1. Picked \subseteq Mem /\ IsFiniteSet(Picked) /\ c \in Nat
  <2>1. Picked \subseteq Mem BY ForgetAssumption DEF Picked, Candidates
  <2> QED BY <2>1, ForgetAssumption, FS_Subset, FS_CardinalityType
<1>2. ASSUME NEW m \in Picked PROVE new(m) \in Row /\ new(m).there
  <2> DEFINE first == [row[m] EXCEPT !.active = FALSE]
  <2>1. row[m] \in Row /\ row[m].there BY <1>1, <1>2 DEF RowsTyped, Picked, Candidates
  <2>2. first \in Row /\ first.there BY <2>1 DEF Row
  <2>3. new(m) = [first EXCEPT !.retired = TRUE] OBVIOUS
  <2> HIDE DEF first, new
  <2> QED BY <2>2, <2>3 DEF Row
<1>3. PICK q \in Bijection(1..c, Picked) : audit' = audit \o [i \in 1..c |-> entry(q[i])]
  BY DEF RetireCold
<1>4. row' = [m \in Mem |-> IF m \in done THEN new(m) ELSE row[m]] BY DEF RetireCold
<1> HIDE DEF new
<1>5. \A m \in Picked : /\ entry(m) \in Record /\ entry(m).of = m /\ entry(m).op = "deactivate" /\ entry(m).new = new(m)
                        /\ entry(m).status = IF m \in done THEN "pending" ELSE "vetoed"
  <2>1. \A m \in Picked : entry(m) \in Record BY <1>1, <1>2, RecIsRecord DEF Op, Status
  <2> QED BY <2>1 DEF Rec
<1> HIDE DEF entry, done
<1>6. q \in [1..c -> Picked] /\ (\A i, j \in 1..c : i # j => q[i] # q[j]) /\ \A m \in Picked : \E i \in 1..c : q[i] = m
  BY DEF Bijection, Injection, Surjection, IsInjective
<1> HIDE DEF c
<1> DEFINE tail == [i \in 1..c |-> entry(q[i])]
<1>7. tail \in Seq(Record) /\ Len(tail) = c /\ \A i \in 1..c : tail[i] = entry(q[i]) BY <1>1, <1>5, <1>6
<1>8. audit' = audit \o tail BY <1>3
<1> HIDE DEF tail
<1>9. /\ audit' \in Seq(Record) /\ Len(audit) \in Nat /\ Len(audit') = Len(audit) + c /\ DOMAIN audit' = 1..(Len(audit) + c)
      /\ (\A i \in 1..Len(audit) : audit'[i] = audit[i]) /\ \A i \in 1..c : audit'[Len(audit) + i] = entry(q[i])
  BY <1>1, <1>7, <1>8 DEF RowsTyped
<1>10. GoesOn(audit, audit') BY <1>1, <1>9 DEF RowsTyped, GoesOn
<1>11. \A j \in 1..Len(audit') : j \in 1..Len(audit) \/ \E i \in 1..c : j = Len(audit) + i
  <2> SUFFICES ASSUME NEW j \in 1..Len(audit'), j \notin 1..Len(audit) PROVE \E i \in 1..c : j = Len(audit) + i
    OBVIOUS
  <2>1. j - Len(audit) \in 1..c /\ j = Len(audit) + (j - Len(audit)) BY <1>1, <1>9
  <2> QED BY <2>1
<1>12. done \subseteq Picked BY DEF done
<1>13. ASSUME NEW m \in Mem \ done PROVE Told(audit', row'[m], m)
  <2>1. row'[m] = row[m] BY <1>4, <1>13
  <2>2. \A i \in 1..c : Len(audit) + i \notin Of(audit', m) BY <1>5, <1>6, <1>9, <1>13 DEF Of
  <2>3. \A j \in Of(audit', m) : j \in 1..Len(audit) BY ZenonT(60), <1>9, <1>11, <2>2 DEF Of
  <2> QED BY <1>10, <2>1, <2>3, StillTold DEF Accounted
<1>14. ASSUME NEW m \in done PROVE Told(audit', row'[m], m)
  <2>1. row'[m] = new(m) /\ m \in Picked BY <1>1, <1>4, <1>12, <1>14
  <2>2. PICK i \in 1..c : q[i] = m BY <1>6, <2>1
  <2>3. audit'[Len(audit) + i] = entry(m) BY <1>9, <2>2
  <2>4. Len(audit) + i \in Of(audit', m) BY <1>1, <1>5, <1>9, <1>14, <2>1, <2>3 DEF Of
  <2>5. \A j \in Of(audit', m) : j <= Len(audit) + i
    <3> SUFFICES ASSUME NEW j \in Of(audit', m) PROVE j <= Len(audit) + i OBVIOUS
    <3>1. j \in 1..Len(audit') /\ audit'[j].of = m BY <1>9 DEF Of
    <3>2. CASE j \in 1..Len(audit) BY <1>1, <1>9, <3>2
    <3>3. ASSUME NEW k \in 1..c, j = Len(audit) + k PROVE j <= Len(audit) + i
      <4>1. entry(q[k]).of = q[k] /\ audit'[j] = entry(q[k]) BY <1>5, <1>6, <1>9, <3>3
      <4>2. k = i BY <1>6, <2>2, <3>1, <4>1
      <4> QED BY <1>1, <1>9, <3>3, <4>2
    <3> QED BY <1>11, <3>1, <3>2, <3>3
  <2> QED BY <1>2, <1>5, <1>10, <2>1, <2>3, <2>4, <2>5, NewlyTold
<1>15. row' \in [Mem -> Row] BY <1>2, <1>4, <1>12 DEF RowsTyped
<1> QED BY <1>9, <1>10, <1>13, <1>14, <1>15 DEF Accounts

-----------------------------------------------------------------------------
(* Types *)

\* What the reviewer is about to judge is pending still: nobody else rules.
ReviewerTyped ==
  /\ reviewer = [pc |-> reviewer.pc, todo |-> reviewer.todo]
  /\ reviewer.pc \in {"idle", "judge"} /\ reviewer.todo \subseteq Pending
  /\ reviewer.pc = "judge" => reviewer.todo # {}

ScanTyped ==
  /\ scan = [pc |-> scan.pc, todo |-> scan.todo]
  /\ scan.pc \in {"idle", "temporal", "fetch", "sweep"} /\ scan.todo \subseteq Pairs

Conflicts == [Pairs -> {"none", "value", "stale", "closed"}]
Edges     == [Mem \X Mem -> Strength]

Typed ==
  /\ RowsTyped /\ ReviewerTyped /\ ScanTyped
  /\ pinned \subseteq Mem /\ edge \in Edges /\ conflict \in Conflicts
  /\ linker.pc \in {"idle", "post"}
  /\ spent \in [Event -> Nat] /\ \A k \in Event : spent[k] <= Budget[k]

LEMMA SpendCounts ==
  ASSUME Typed, UNCHANGED spent \/ \E k \in Event : Spend(k)
  PROVE  spent' \in [Event -> Nat] /\ \A k \in Event : spent'[k] <= Budget[k]
<1>1. ASSUME NEW k \in Event, Spend(k)
      PROVE  spent' \in [Event -> Nat] /\ \A e \in Event : spent'[e] <= Budget[e]
  <2>1. spent[k] < Budget[k] /\ spent' = [spent EXCEPT ![k] = spent[k] + 1] BY <1>1 DEF Spend
  <2>2. spent[k] \in Nat /\ Budget[k] \in Nat BY ForgetAssumption DEF Typed
  <2>3. /\ spent' \in [Event -> Nat] /\ spent'[k] = spent[k] + 1
        /\ \A e \in Event \ {k} : spent'[e] = spent[e]
    BY <2>1, <2>2 DEF Typed
  <2> QED BY <2>1, <2>2, <2>3 DEF Typed
<1> QED BY <1>1 DEF Typed

LEMMA EveryStepSpends == ASSUME Typed, [Next]_vars PROVE spent' \in [Event -> Nat] /\ \A k \in Event : spent'[k] <= Budget[k]
<1>1. UNCHANGED spent \/ \E k \in Event : Spend(k)
  BY DEF Event, Next, vars, People, Remember, Forget, Unsupersede, Unretire, StampRetired, Pin, ToolSupersede,
         RetireCold, Scan, Detect, Temporal, Fetch, Resolve, Review, ReadQueue, JudgeNothing, Judge,
         Link, CheckTarget, PostLink, Crash
<1> QED BY <1>1, SpendCounts

\* What the database does to the edges; a row that is floored or weakened is cut off.
LEMMA EdgesKeep ==
  ASSUME NEW e \in Edges, NEW m \in Mem, NEW n \in Mem, NEW ms \in SUBSET Mem
  PROVE  /\ Floored(e, m) \in Edges /\ Weakened(e, ms) \in Edges /\ Rewired(e, m, n) \in Edges
         /\ \A s \in Mem : Floored(e, m)[<<s, m>>] # "strong"
         /\ \A s \in Mem : m \in ms => Weakened(e, ms)[<<s, m>>] # "strong"
<1>1. \A l \in Mem \X Mem : <<l[1], m>> \in Mem \X Mem OBVIOUS
<1>2. Rewired(e, m, n) \in Edges BY <1>1 DEF Edges, Rewired, Strength
<1>3. Floored(e, m) \in Edges /\ Weakened(e, ms) \in Edges BY DEF Edges, Floored, Weakened, Strength
<1>4. \A s \in Mem : Floored(e, m)[<<s, m>>] # "strong" BY DEF Edges, Floored
<1>5. \A s \in Mem : m \in ms => Weakened(e, ms)[<<s, m>>] # "strong" BY DEF Edges, Weakened
<1> QED BY <1>2, <1>3, <1>4, <1>5

LEMMA SupersedeCuts ==
  ASSUME edge \in Edges, NEW old \in Mem, NEW new \in Mem, Supersede(old, new)
  PROVE  edge' \in Edges /\ \A s \in Mem : edge'[<<s, old>>] # "strong"
<1>1. edge' = Floored(Rewired(edge, old, new), old) BY DEF Supersede
<1>2. Rewired(edge, old, new) \in Edges BY EdgesKeep
<1> HIDE DEF Rewired
<1> QED BY <1>1, <1>2, EdgesKeep

\* Records that stay as they are stay pending.
LEMMA ReviewerAside ==
  ASSUME Typed, Accounts(row', audit'), UNCHANGED reviewer
  PROVE  ReviewerTyped'
<1>1. DOMAIN audit = 1..Len(audit) /\ DOMAIN audit' = 1..Len(audit')
      /\ Len(audit) \in Nat /\ Len(audit') \in Nat /\ Len(audit) <= Len(audit')
  BY DEF Accounts, GoesOn
<1>2. Pending \subseteq Pending' BY <1>1 DEF Accounts, Pending
<1> QED BY <1>2 DEF Typed, ReviewerTyped

-----------------------------------------------------------------------------
(* The reviewer *)

LEMMA NatMin == ASSUME NEW S \in SUBSET Nat, S # {} PROVE \E x \in S : \A y \in S : x <= y
<1> DEFINE R == OpToRel(<, Nat)
<1>1. IsWellFoundedOn(R, Nat) BY NatLessThanWellFounded
<1>2. \A x, y \in Nat : x < y => <<x, y>> \in R BY DEF OpToRel
<1> HIDE DEF R
<1>3. PICK x \in S : \A y \in S : ~(<<y, x>> \in R) BY <1>1, WFMin
<1>4. \A y \in S : ~(y < x) BY <1>2, <1>3
<1>5. x \in Nat /\ \A y \in S : y \in Nat OBVIOUS
<1>6. \A y \in S : x <= y BY <1>4, <1>5
<1> QED BY <1>6

\* The first of those read is one of them, and pending.
LEMMA ItemIsPending ==
  ASSUME Typed, reviewer.pc = "judge"
  PROVE  Item \in reviewer.todo /\ Item \in Pending
<1>1. reviewer.todo \subseteq Pending /\ reviewer.todo # {} BY DEF Typed, ReviewerTyped
<1>2. reviewer.todo \subseteq Nat BY <1>1 DEF Pending, Typed, RowsTyped
<1>3. \E i \in reviewer.todo : \A j \in reviewer.todo : i <= j BY <1>1, <1>2, NatMin
<1> QED BY <1>1, <1>3 DEF Item

\* A ruling changes the status of a record, and what the log tells of no row.
Ruled(log, i, v) == [log EXCEPT ![i].status = v]
Retold(log, next) == \A m, r : Told(log, r, m) => Told(next, r, m)

LEMMA Rejudged ==
  ASSUME NEW log \in Seq(Record), NEW i \in DOMAIN log, log[i].status # "vetoed",
         NEW v \in Status, v # "vetoed", NEW next, next = Ruled(log, i, v)
  PROVE  /\ next \in Seq(Record) /\ Len(next) = Len(log) /\ \A j \in DOMAIN log : j # i => next[j] = log[j]
         /\ Retold(log, next)
<1> DEFINE rec == [log[i] EXCEPT !.status = v]
<1>1. log[i] \in Record OBVIOUS
<1>2. rec \in Record /\ rec.of = log[i].of /\ rec.op = log[i].op /\ rec.new = log[i].new /\ rec.status = v
  BY <1>1 DEF Record, Status
<1>3. next = [log EXCEPT ![i] = rec] BY DEF Ruled
<1> HIDE DEF rec
<1>4. /\ next \in Seq(Record) /\ Len(next) = Len(log) /\ Len(log) \in Nat
      /\ DOMAIN next = 1..Len(log) /\ DOMAIN log = 1..Len(log)
      /\ next[i] = rec /\ \A j \in DOMAIN log : j # i => next[j] = log[j]
  BY <1>2, <1>3
<1>5. \A j \in DOMAIN log : /\ next[j].of = log[j].of /\ next[j].op = log[j].op /\ next[j].new = log[j].new
                            /\ next[j].status = "vetoed" <=> log[j].status = "vetoed"
  BY <1>2, <1>4
<1>6. GoesOn(log, next) BY <1>4, <1>5 DEF GoesOn
<1>7. \A m : \A j \in Of(next, m) : j \in 1..Len(log) BY <1>4 DEF Of
<1>8. ASSUME NEW m, NEW r, Told(log, r, m) PROVE Told(next, r, m) BY <1>6, <1>7, <1>8, StillTold
<1> QED BY <1>4, <1>8 DEF Retold

\* What is left to judge once the first has been.
LEMMA NextItemTyped ==
  ASSUME Typed, reviewer.pc = "judge", NextItem,
         Pending \ {Item} \subseteq Pending'
  PROVE  ReviewerTyped'
<1>1. Item \in reviewer.todo /\ reviewer.todo \subseteq Pending BY ItemIsPending DEF Typed, ReviewerTyped
<1>2. reviewer = [pc |-> reviewer.pc, todo |-> reviewer.todo] BY DEF Typed, ReviewerTyped
<1>3. CASE reviewer.todo = {Item} BY <1>3 DEF NextItem, Nobody, ReviewerTyped
<1>4. CASE reviewer.todo # {Item}
  <2> DEFINE rest == reviewer.todo \ {Item}
  <2>1. reviewer' = [pc |-> "judge", todo |-> rest] BY <1>2, <1>4 DEF NextItem
  <2>2. rest # {} /\ rest \subseteq Pending' BY <1>1, <1>4
  <2> HIDE DEF rest
  <2> QED BY <2>1, <2>2 DEF ReviewerTyped
<1> QED BY <1>3, <1>4

LEMMA RestoredIsRow ==
  ASSUME RowsTyped, NEW i \in DOMAIN audit, row[audit[i].of].there
  PROVE  Restored(i) \in Row /\ Restored(i).there
<1> DEFINE old    == audit[i].old
           first  == [row[audit[i].of] EXCEPT !.active = old.active]
           second == [first EXCEPT !.retired = old.retired]
           third  == [second EXCEPT !.by = old.by]
<1>0. audit[i] \in Record BY DEF RowsTyped
<1>1. old \in Row /\ audit[i].of \in Mem BY <1>0 DEF Record
<1>2. row[audit[i].of] \in Row BY <1>1 DEF RowsTyped
<1>3. Restored(i) = third BY DEF Restored
<1> HIDE DEF old
<1>4. first \in Row /\ first.there BY <1>1, <1>2 DEF Row
<1> HIDE DEF first
<1>5. second \in Row /\ second.there BY <1>1, <1>4 DEF Row
<1> HIDE DEF second
<1>6. third \in Row /\ third.there BY <1>1, <1>5 DEF Row
<1> QED BY <1>3, <1>6

\* A ruling, with the restoration that may come of it.
LEMMA JudgeTells ==
  ASSUME Typed, Accounted, NEW v \in Verdict, NEW sure \in BOOLEAN, Judge(v, sure)
  PROVE  RowsTyped' /\ Accounted' /\ ReviewerTyped'
<1> DEFINE m == audit[Item].of
<1>1. reviewer.pc = "judge" /\ NextItem BY DEF Judge
<1>2. Item \in DOMAIN audit /\ audit[Item].status = "pending" BY <1>1, ItemIsPending DEF Pending
<1>3. RowsTyped /\ audit \in Seq(Record) /\ m \in Mem
  <2>1. RowsTyped /\ audit \in Seq(Record) BY DEF Typed, RowsTyped
  <2>2. audit[Item] \in Record BY <1>2, <2>1
  <2> QED BY <2>1, <2>2 DEF Record
<1>4. DOMAIN audit = 1..Len(audit) /\ Len(audit) \in Nat BY <1>3
<1>5. CASE Reverts(Item, v, sure)
  <2> DEFINE log == Logged(audit, m, Restored(Item))
  <2>1. row' = Put(m, Restored(Item)) /\ audit' = Ruled(log, Item, "reverted") BY <1>5 DEF Judge, Ruled
  <2>2. row[m].there BY <1>5 DEF Reverts
  <2>3. Restored(Item) \in Row /\ Restored(Item).there BY <1>2, <1>3, <2>2, RestoredIsRow
  <2>4. /\ GoesOn(audit, log) /\ \A i \in 1..Len(audit) : log[i] = audit[i]
        /\ Put(m, Restored(Item)) \in [Mem -> Row] /\ \A n \in Mem : Told(log, Put(m, Restored(Item))[n], n)
    BY <1>3, <2>2, <2>3, PutTells
  <2> HIDE DEF log
  <2>5. /\ log \in Seq(Record) /\ Len(log) \in Nat /\ DOMAIN log = 1..Len(log) /\ Len(audit) <= Len(log)
        /\ Item \in DOMAIN log /\ log[Item].status # "vetoed"
    BY <1>2, <1>4, <2>4 DEF GoesOn
  <2>6. "reverted" \in Status BY DEF Status
  <2>7. /\ audit' \in Seq(Record) /\ Len(audit') = Len(log) /\ \A j \in DOMAIN log : j # Item => audit'[j] = log[j]
        /\ Retold(log, audit')
    BY <2>1, <2>5, <2>6, Rejudged
  <2>8. RowsTyped' /\ Accounted' BY <2>1, <2>4, <2>7 DEF RowsTyped, Accounted, Retold
  <2>9. Pending \ {Item} \subseteq Pending' BY <1>4, <2>4, <2>5, <2>7 DEF Pending
  <2> QED BY <1>1, <2>8, <2>9, NextItemTyped
<1>6. CASE ~Reverts(Item, v, sure)
  <2>1. row' = row /\ audit' = Ruled(audit, Item, v) BY <1>6 DEF Judge, Ruled
  <2>2. v \in Status /\ v # "vetoed" /\ audit[Item].status # "vetoed" BY <1>2 DEF Status, Verdict
  <2>3. /\ audit' \in Seq(Record) /\ Len(audit') = Len(audit) /\ \A j \in DOMAIN audit : j # Item => audit'[j] = audit[j]
        /\ Retold(audit, audit')
    BY <1>2, <1>3, <2>1, <2>2, Rejudged
  <2>4. RowsTyped' /\ Accounted' BY <1>3, <2>1, <2>3 DEF RowsTyped, Accounted, Retold
  <2>5. Pending \ {Item} \subseteq Pending' BY <1>4, <2>3 DEF Pending
  <2> QED BY <1>1, <2>4, <2>5, NextItemTyped
<1> QED BY <1>5, <1>6

LEMMA ReviewTells ==
  ASSUME Typed, Accounted, Review
  PROVE  RowsTyped' /\ Accounted' /\ ReviewerTyped'
<1>1. CASE ReadQueue
  <2>1. UNCHANGED <<row, audit>> BY <1>1 DEF ReadQueue
  <2>2. Pending' = Pending BY <2>1 DEF Pending
  <2>3. Oldest(ReviewLimit) \subseteq Pending BY DEF Oldest
  <2>4. Oldest(ReviewLimit) # {}
    <3>1. Pending # {} /\ Pending \subseteq Nat
      <4>1. Pending # {} BY <1>1 DEF ReadQueue
      <4> QED BY <4>1 DEF Pending, Typed, RowsTyped
    <3>2. PICK i \in Pending : \A j \in Pending : i <= j BY <3>1, NatMin
    <3>3. {j \in Pending : j < i} = {}
      <4>1. \A j \in Pending : j \in Nat /\ i \in Nat /\ i <= j BY <3>1, <3>2
      <4>2. \A j \in Pending : ~(j < i) BY <4>1
      <4> QED BY <4>2
    <3>4. Cardinality({j \in Pending : j < i}) = 0 BY <3>3, FS_EmptySet
    <3> QED BY <3>2, <3>4, ForgetAssumption DEF Oldest
  <2>5. reviewer' = [pc |-> "judge", todo |-> Oldest(ReviewLimit)] BY <1>1 DEF ReadQueue
  <2> HIDE DEF Oldest, Pending
  <2>6. ReviewerTyped' BY <2>2, <2>3, <2>4, <2>5 DEF ReviewerTyped
  <2> QED BY <2>1, <2>6 DEF Typed, RowsTyped, Accounted
<1>2. CASE JudgeNothing
  <2>1. UNCHANGED <<row, audit>> /\ reviewer.pc = "judge" /\ NextItem BY <1>2 DEF JudgeNothing
  <2>2. Pending' = Pending BY <2>1 DEF Pending
  <2>3. ReviewerTyped' BY <2>1, <2>2, NextItemTyped
  <2> QED BY <2>1, <2>3 DEF Typed, RowsTyped, Accounted
<1> QED BY <1>1, <1>2, JudgeTells DEF Review

-----------------------------------------------------------------------------
(* The scan *)

\* The older and the newer of a pair.
LEMMA PairHasEnds ==
  ASSUME NEW p \in Pairs
  PROVE  /\ (CHOOSE m \in p : \A n \in p : m <= n) \in p
         /\ (CHOOSE m \in p : \A n \in p : m >= n) \in p
         /\ p \subseteq Mem
<1>1. p \subseteq Mem /\ Cardinality(p) = 2 BY DEF Pairs
<1>2. p \subseteq Nat /\ IsFiniteSet(p) BY <1>1, ForgetAssumption, FS_Subset
<1>3. p # {} BY <1>1, FS_EmptySet
<1>4. PICK a \in p : \A n \in p : a <= n BY <1>2, <1>3, NatMin
<1>5. PICK b : p \ {a} = {b}
  <2>1. IsFiniteSet(p \ {a}) /\ Cardinality(p \ {a}) = 1 BY <1>1, <1>2, <1>4, FS_RemoveElement
  <2> QED BY <2>1, FS_Singleton
<1>6. p = {a, b} BY <1>4, <1>5
<1>7. \A n \in p : b >= n BY <1>2, <1>4, <1>6
<1> QED BY <1>1, <1>4, <1>6, <1>7

\* What a step leaves alone.
LEMMA Unfiled == ASSUME Typed, Accounted, UNCHANGED <<row, audit>> PROVE Accounts(row', audit')
BY DEF Typed, RowsTyped, Accounted, Accounts, GoesOn

ScanKeeps == Accounts(row', audit') /\ edge' \in Edges /\ conflict' \in Conflicts

LEMMA Superseding ==
  ASSUME Typed, Accounted, NEW old \in Mem, NEW new \in Mem, row[old].there, Supersede(old, new)
  PROVE  Accounts(row', audit') /\ edge' \in Edges
BY SupersedeTells, SupersedeCuts DEF Typed

LEMMA Closing == ASSUME Typed, NEW p \in Pairs, Close(p) PROVE conflict' \in Conflicts
BY DEF Typed, Conflicts, Close

LEMMA SettleKeeps ==
  ASSUME Typed, Accounted, NEW p \in Pairs, \A m \in p : row[m].there, Settle(p)
  PROVE  ScanKeeps
<1> DEFINE loser  == LoserOf(p)
           winner == WinnerOf(p)
<1>1. loser \in p /\ winner \in p /\ p \subseteq Mem BY PairHasEnds DEF LoserOf, WinnerOf
<1>2. \/ UNCHANGED <<row, audit, edge>> /\ (UNCHANGED conflict \/ Close(p))
      \/ Close(p) /\ Supersede(loser, winner)
  <2>1. CASE row[loser].by # None BY <2>1 DEF Settle
  <2>2. CASE Held(p) /\ ~(row[loser].by # None) BY <2>2 DEF Settle
  <2>3. CASE ~(row[loser].by # None) /\ ~Held(p) BY <2>3 DEF Settle
  <2> QED BY <2>1, <2>2, <2>3
<1> HIDE DEF loser, winner
<1>3. CASE UNCHANGED <<row, audit, edge>> /\ (UNCHANGED conflict \/ Close(p))
  BY <1>3, Unfiled, Closing DEF ScanKeeps, Typed
<1>4. CASE Close(p) /\ Supersede(loser, winner) BY <1>1, <1>4, Superseding, Closing DEF ScanKeeps
<1> QED BY <1>2, <1>3, <1>4

LEMMA RepairKeeps ==
  ASSUME Typed, Accounted, NEW p \in Pairs, Repair(p)
  PROVE  ScanKeeps
<1>1. UNCHANGED <<row, audit>> /\ Close(p) BY DEF Repair
<1>2. edge' \in Edges
  <2>1. edge' = edge \/ \E to \in [Mem \X Mem -> Strength] : edge' = to BY DEF Repair, Typed, Edges, Strength
  <2> QED BY <2>1 DEF Typed, Edges
<1> QED BY <1>1, <1>2, Unfiled, Closing DEF ScanKeeps

LEMMA ScanTells ==
  ASSUME Typed, Accounted, Scan
  PROVE  ScanKeeps /\ ScanTyped'
<1>1. DOMAIN conflict = Pairs /\ ScanTyped /\ scan = [pc |-> scan.pc, todo |-> scan.todo]
  BY DEF Typed, Conflicts, ScanTyped
<1>2. CASE Detect
  <2>1. conflict' \in Conflicts BY <1>1, <1>2 DEF Detect, Typed, Conflicts
  <2>2. ScanTyped' BY <1>1, <1>2 DEF Detect, ScanTyped
  <2>3. UNCHANGED <<row, audit, edge>> BY <1>2 DEF Detect
  <2> QED BY <2>1, <2>2, <2>3, Unfiled DEF ScanKeeps, Typed
<1>3. CASE Temporal
  <2>1. ScanTyped' BY <1>1, <1>3 DEF Temporal, ScanTyped
  <2>2. Twin[1] \in Mem /\ Twin[2] \in Mem BY ForgetAssumption DEF Mem
  <2>3. CASE UNCHANGED <<row, audit, edge, conflict>> BY <2>1, <2>3, Unfiled DEF ScanKeeps, Typed
  <2>4. CASE /\ row[Twin[1]].there /\ Supersede(Twin[1], Twin[2])
             /\ conflict' = [conflict EXCEPT ![{Twin[1], Twin[2]}] = IF @ = "none" THEN "closed" ELSE @]
    <3>1. conflict' \in Conflicts BY <2>4 DEF Typed, Conflicts
    <3> QED BY <2>1, <2>2, <2>4, <3>1, Superseding DEF ScanKeeps
  <2> QED BY <1>3, <2>3, <2>4 DEF Temporal
<1>4. CASE Fetch
  <2>1. Open \subseteq Pairs BY <1>1 DEF Open
  <2>2. ScanTyped' BY <1>4, <2>1 DEF Fetch, ScanTyped, Nobody
  <2>3. UNCHANGED <<row, audit, edge, conflict>> BY <1>4 DEF Fetch
  <2> QED BY <2>2, <2>3, Unfiled DEF ScanKeeps, Typed
<1>5. CASE Resolve
  <2>1. PICK p \in scan.todo :
          /\ \/ UNCHANGED <<row, audit, edge, conflict>>
             \/ Close(p) /\ UNCHANGED <<row, audit, edge>>
             \/ (\A m \in p : row[m].there) /\ Settle(p)
             \/ Repair(p)
          /\ scan' = IF scan.todo = {p} THEN Nobody ELSE [scan EXCEPT !.todo = @ \ {p}]
    BY <1>5 DEF Resolve
  <2>2. p \in Pairs BY <1>1 DEF ScanTyped
  <2>3. ScanKeeps
    <3>1. CASE UNCHANGED <<row, audit, edge, conflict>> BY <3>1, Unfiled DEF ScanKeeps, Typed
    <3>2. CASE Close(p) /\ UNCHANGED <<row, audit, edge>> BY <2>2, <3>2, Unfiled, Closing DEF ScanKeeps, Typed
    <3>3. CASE (\A m \in p : row[m].there) /\ Settle(p) BY <2>2, <3>3, SettleKeeps
    <3>4. CASE Repair(p) BY <2>2, <3>4, RepairKeeps
    <3> QED BY <2>1, <3>1, <3>2, <3>3, <3>4
  <2>4. ScanTyped'
    <3>1. CASE scan.todo = {p} BY <2>1, <3>1 DEF Nobody, ScanTyped
    <3>2. CASE scan.todo # {p}
      <4>1. scan' = [pc |-> scan.pc, todo |-> scan.todo \ {p}] BY <1>1, <2>1, <3>2
      <4> QED BY <1>1, <4>1 DEF ScanTyped
    <3> QED BY <3>1, <3>2
  <2> QED BY <2>3, <2>4
<1> QED BY <1>2, <1>3, <1>4, <1>5 DEF Scan

-----------------------------------------------------------------------------
(* The invariant: the types, what the reviewer holds is pending, and the audit *)
(* accounts for every row.                                                 *)

IInv == Typed /\ Accounted

LEMMA Begins == ASSUME Init PROVE IInv
<1> USE DEF Init
<1>1. Seed \in Row /\ Fresh(Seed) /\ Gone \in Row /\ Fresh(Gone) BY DEF Seed, Gone, Row, Fresh
<1>2. row \in [Mem -> Row] /\ audit \in Seq(Record) BY <1>1
<1>3. Accounted BY <1>1 DEF Accounted, Told, Of
<1>4. ReviewerTyped /\ ScanTyped BY DEF ReviewerTyped, ScanTyped, Nobody
<1>5. edge \in Edges /\ conflict \in Conflicts BY DEF Edges, Conflicts, Strength
<1>6. spent \in [Event -> Nat] /\ \A k \in Event : spent[k] <= Budget[k] BY ForgetAssumption
<1> QED BY <1>2, <1>3, <1>4, <1>5, <1>6 DEF IInv, Typed, RowsTyped, NoLink

PeopleKeep ==
  /\ edge' \in Edges /\ pinned' \subseteq Mem /\ UNCHANGED <<conflict, daemons>>

LEMMA PeopleTyped == ASSUME Typed, People PROVE PeopleKeep
<1>1. edge \in Edges /\ pinned \subseteq Mem BY DEF Typed
<1>2. ASSUME NEW m \in Mem, Remember(m) \/ Unretire(m) \/ StampRetired(m) PROVE PeopleKeep
  BY <1>1, <1>2 DEF Remember, Unretire, StampRetired, PeopleKeep
<1>3. ASSUME NEW m \in Mem, Forget(m) PROVE PeopleKeep
  <2>1. edge' \in Edges BY <1>1, <1>3 DEF Forget, Edges, Strength
  <2> QED BY <1>1, <1>3, <2>1 DEF Forget, PeopleKeep
<1>4. ASSUME NEW m \in Mem, Unsupersede(m) PROVE PeopleKeep
  <2>1. edge' \in Edges BY <1>1, <1>4 DEF Unsupersede, Edges, Strength
  <2> QED BY <1>1, <1>4, <2>1 DEF Unsupersede, PeopleKeep
<1>5. ASSUME NEW m \in Mem, Pin(m) PROVE PeopleKeep
  BY <1>1, <1>5 DEF Pin, PeopleKeep
<1>6. ASSUME NEW m \in Mem, NEW n \in Mem, ToolSupersede(m, n) PROVE PeopleKeep
  BY <1>1, <1>6, SupersedeCuts DEF ToolSupersede, PeopleKeep
<1> QED BY <1>2, <1>3, <1>4, <1>5, <1>6 DEF People

LEMMA Continues ==
  ASSUME IInv, [Next]_vars
  PROVE  IInv'
<1> USE DEF IInv
<1>1. spent' \in [Event -> Nat] /\ \A k \in Event : spent'[k] <= Budget[k] BY EveryStepSpends
<1>2. RowsTyped BY DEF Typed
<1>3. ASSUME Accounts(row', audit') PROVE RowsTyped' /\ Accounted'
  BY <1>3 DEF Accounts, GoesOn, RowsTyped, Accounted
<1>4. CASE People
  <2>1. PeopleKeep /\ Accounts(row', audit') BY <1>2, <1>4, PeopleTyped, PeopleTell
  <2>2. UNCHANGED <<conflict, scan, reviewer, linker>> BY <2>1 DEF PeopleKeep, daemons
  <2>3. ReviewerTyped' BY <2>1, <2>2, ReviewerAside
  <2> QED BY <1>1, <1>3, <2>1, <2>2, <2>3 DEF Typed, PeopleKeep, ScanTyped
<1>5. CASE RetireCold
  <2>1. Accounts(row', audit') BY <1>2, <1>5, RetireTells
  <2>2. UNCHANGED <<pinned, conflict, scan, reviewer, linker>> BY <1>5 DEF RetireCold, daemons
  <2>3. \E ms : edge' = Weakened(edge, ms) BY <1>5 DEF RetireCold
  <2>4. edge' \in Edges BY <2>3 DEF Typed, Edges, Weakened, Strength
  <2>5. ReviewerTyped' BY <2>1, <2>2, ReviewerAside
  <2> QED BY <1>1, <1>3, <2>1, <2>2, <2>4, <2>5 DEF Typed, ScanTyped
<1>6. CASE Scan
  <2>1. ScanKeeps /\ ScanTyped' BY <1>6, ScanTells
  <2>2. UNCHANGED <<pinned, reviewer, linker>> BY <1>6 DEF Scan, Detect, Temporal, Fetch, Resolve
  <2>3. ReviewerTyped' BY <2>1, <2>2, ReviewerAside DEF ScanKeeps
  <2> QED BY <1>1, <1>3, <2>1, <2>2, <2>3 DEF Typed, ScanKeeps
<1>7. CASE Review
  <2>1. RowsTyped' /\ Accounted' /\ ReviewerTyped' BY <1>7, ReviewTells
  <2>2. UNCHANGED <<pinned, edge, conflict, scan, linker>> BY <1>7 DEF Review, ReadQueue, JudgeNothing, Judge
  <2> QED BY <1>1, <2>1, <2>2 DEF Typed, ScanTyped
<1>8. CASE Link
  <2>1. UNCHANGED <<row, pinned, audit, conflict, scan, reviewer>> BY <1>8 DEF Link, CheckTarget, PostLink
  <2>2. edge' \in Edges /\ linker'.pc \in {"idle", "post"}
    <3>1. CASE PostLink BY <3>1 DEF PostLink, Typed, Edges, Strength, NoLink
    <3>2. ASSUME NEW from \in Mem, NEW to \in Mem, CheckTarget(from, to) PROVE edge' \in Edges /\ linker'.pc = "post"
      BY <3>2 DEF CheckTarget, Typed
    <3> QED BY <1>8, <3>1, <3>2 DEF Link
  <2>3. Accounts(row', audit') BY <2>1, Unfiled
  <2>4. ReviewerTyped' BY <2>1, <2>3, ReviewerAside
  <2> QED BY <1>1, <1>3, <2>1, <2>2, <2>3, <2>4 DEF Typed, ScanTyped
<1>9. CASE Crash
  <2>1. UNCHANGED <<row, pinned, edge, audit, conflict>> BY <1>9 DEF Crash
  <2>2. linker' = linker \/ linker' = NoLink BY <1>9 DEF Crash
  <2>3. linker'.pc \in {"idle", "post"} BY <2>2 DEF NoLink, Typed
  <2>4. Accounts(row', audit') BY <2>1, Unfiled
  <2>5. ReviewerTyped'
    <3>1. CASE UNCHANGED reviewer BY <2>4, <3>1, ReviewerAside
    <3>2. CASE reviewer' = Nobody BY <3>2 DEF Nobody, ReviewerTyped
    <3> QED BY <1>9, <3>1, <3>2 DEF Crash
  <2>6. ScanTyped'
    <3>1. CASE UNCHANGED scan BY <3>1 DEF Typed, ScanTyped
    <3>2. CASE scan' = Nobody BY <3>2 DEF Nobody, ScanTyped
    <3> QED BY <1>9, <3>1, <3>2 DEF Crash
  <2> QED BY <1>1, <1>3, <2>1, <2>3, <2>4, <2>5, <2>6 DEF Typed
<1>10. CASE UNCHANGED vars
  <2>1. UNCHANGED <<row, pinned, edge, audit, conflict, scan, reviewer, linker>> BY <1>10 DEF vars
  <2>2. Accounts(row', audit') BY <2>1, Unfiled
  <2>3. ReviewerTyped' BY <2>1, <2>2, ReviewerAside
  <2> QED BY <1>1, <1>3, <2>1, <2>2, <2>3 DEF Typed, ScanTyped
<1> QED BY <1>4, <1>5, <1>6, <1>7, <1>8, <1>9, <1>10 DEF Next

THEOREM Inductive == Spec => []IInv
<1>1. Init => IInv BY Begins
<1>2. IInv /\ [Next]_vars => IInv' BY Continues
<1> QED BY <1>1, <1>2, PTL DEF Spec

FiledTyped == filed \in [Pairs -> Nat]

LEMMA FilingTyped == ASSUME FiledTyped, [Next]_vars PROVE FiledTyped'
<1>1. CASE Detect
  <2> DEFINE before == {q \in Pairs : filed[q] # 0}
  <2>1. IsFiniteSet(Pairs)
    <3>1. IsFiniteSet(SUBSET Mem) BY FS_SUBSET, ForgetAssumption
    <3> QED BY <3>1, FS_Subset DEF Pairs
  <2>2. Cardinality(before) \in Nat BY <2>1, FS_Subset, FS_CardinalityType
  <2> HIDE DEF before
  <2>3. filed' = [p \in Pairs |-> IF conflict[p] = conflict'[p] THEN filed[p] ELSE Cardinality(before) + 1]
    BY <1>1 DEF Detect, FiledTyped, before
  <2> QED BY <2>2, <2>3 DEF FiledTyped
<1>2. CASE UNCHANGED filed BY <1>2 DEF FiledTyped
<1>3. Detect \/ UNCHANGED filed
  BY Zenon DEF Next, People, Remember, Forget, Unsupersede, Unretire, StampRetired, Pin, ToolSupersede, RetireCold,
     Scan, Temporal, Fetch, Resolve, Review, ReadQueue, JudgeNothing, Judge, Link, CheckTarget, PostLink,
     Crash, vars
<1> QED BY <1>1, <1>2, <1>3

\* The tables, the queues and what the workers hold have their types; what the
\* reviewer holds are records of the audit.
THEOREM TypeCorrect == Spec => []TypeOK
<1>1. IInv /\ FiledTyped => TypeOK
  BY DEF IInv, Typed, TypeOK, RowsTyped, ReviewerTyped, ScanTyped, Edges, Conflicts, Pending, FiledTyped
<1>2. Init => FiledTyped BY DEF Init, FiledTyped
<1>3. FiledTyped /\ [Next]_vars => FiledTyped' BY FilingTyped
<1> QED BY <1>1, <1>2, <1>3, Inductive, PTL DEF Spec

\* Whatever people, passes, scans and rulings do to a row, in any order and any
\* number of times, the latest record about it says where it is.
THEOREM Explained == Spec => []AuditExplains
<1>1. IInv => AuditExplains
  <2> SUFFICES ASSUME IInv PROVE AuditExplains OBVIOUS
  <2>1. \A m : Telling(m) = Of(audit, m) BY DEF Telling, Of
  <2>2. ASSUME NEW m \in Mem
        PROVE  \/ Telling(m) = {} /\ row[m].active = row[m].there /\ ~row[m].retired
               \/ \E last \in Telling(m) :
                    /\ \A i \in Telling(m) : i <= last
                    /\ IF audit[last].op = "delete"
                       THEN row[m].active = row[m].there /\ ~row[m].retired
                       ELSE row[m].active = audit[last].new.active /\ row[m].retired = audit[last].new.retired
    <3>1. Told(audit, row[m], m) BY DEF IInv, Accounted
    <3> QED BY <2>1, <3>1 DEF Told, Fresh
  <2> QED BY <2>2 DEF AuditExplains
<1> QED BY <1>1, Inductive, PTL

-----------------------------------------------------------------------------
(* What goes dark is cut off *)

\* A row goes dark in this step, and stays there.
Darkens(m) == row[m].active /\ row'[m].there /\ ~row'[m].active
CutOff(m)  == \A s \in Mem : edge'[<<s, m>>] # "strong"

LEMMA SupersedingCuts ==
  ASSUME Typed, NEW old \in Mem, NEW new \in Mem, Supersede(old, new), NEW m \in Mem, Darkens(m)
  PROVE  CutOff(m)
<1>1. m = old
  <2>1. row' = [row EXCEPT ![old] = Loser(old, new)] BY DEF Supersede
  <2> HIDE DEF Loser
  <2>2. m # old => row'[m] = row[m] BY <2>1 DEF Typed, RowsTyped
  <2> QED BY <2>2 DEF Darkens
<1> QED BY <1>1, SupersedeCuts DEF Typed, CutOff

\* A write to one row that leaves it active, or as it is, darkens none.
LEMMA NoneDarkens ==
  ASSUME RowsTyped, NEW r \in Mem, NEW new, row' = row \/ row' = [row EXCEPT ![r] = new],
         new.active \/ new.active = row[r].active \/ ~new.there, NEW m \in Mem
  PROVE  ~Darkens(m)
<1>1. CASE row' = row BY <1>1 DEF Darkens
<1>2. CASE row' = [row EXCEPT ![r] = new]
  <2>1. row'[m] = IF m = r THEN new ELSE row[m] BY <1>2 DEF RowsTyped
  <2> QED BY <2>1 DEF Darkens
<1> QED BY <1>1, <1>2

\* The edges of a row that a tool, the pass or the scan takes out of retrieval
\* carry nothing any more, those that supersession copies to it included.
THEOREM Cut == Spec => RetirementCutsEdges
<1> DEFINE Good == \A m \in Mem : Darkens(m) => Reverting \/ CutOff(m)
<1>1. IInv /\ [Next]_vars => Good
  <2> SUFFICES ASSUME IInv, [Next]_vars, NEW m \in Mem, Darkens(m) PROVE Reverting \/ CutOff(m)
    OBVIOUS
  <2>1. Typed /\ RowsTyped /\ row \in [Mem -> Row] BY DEF IInv, Typed, RowsTyped
  <2>2. row' # row BY DEF Darkens
  <2>3. ASSUME NEW old \in Mem, NEW new \in Mem, Supersede(old, new) PROVE CutOff(m)
    BY <2>1, <2>3, SupersedingCuts
  <2>4. CASE People
    <3>1. ASSUME NEW r \in Mem, Remember(r) PROVE FALSE
      <4>1. row' = [row EXCEPT ![r] = Seed] /\ Seed.active BY <3>1 DEF Remember, Seed, Gone
      <4> QED BY <2>1, <4>1, NoneDarkens
    <3>2. ASSUME NEW r \in Mem, Forget(r) PROVE FALSE
      <4>1. row' = [row EXCEPT ![r] = Gone] /\ ~Gone.there BY <3>2 DEF Forget, Gone
      <4> QED BY <2>1, <4>1, NoneDarkens
    <3>3. ASSUME NEW r \in Mem, Unsupersede(r) \/ Unretire(r) \/ StampRetired(r) PROVE FALSE
      <4>1. row[r] \in Row BY <2>1
      <4>2. \E new : /\ row' = row \/ row' = [row EXCEPT ![r] = new]
                     /\ new.active \/ new.active = row[r].active
        <5>1. CASE Unsupersede(r)
          <6> DEFINE new == [row[r] EXCEPT !.active = TRUE, !.by = None, !.retired = FALSE]
          <6>1. row' = [row EXCEPT ![r] = new] BY <5>1 DEF Unsupersede
          <6>2. new.active BY <4>1 DEF Row
          <6> QED BY <6>1, <6>2
        <5>2. CASE Unretire(r)
          <6> DEFINE new == [row[r] EXCEPT !.active = TRUE, !.retired = FALSE]
          <6>1. row' = [row EXCEPT ![r] = new] BY <5>2 DEF Unretire
          <6>2. new.active BY <4>1 DEF Row
          <6> QED BY <6>1, <6>2
        <5>3. CASE StampRetired(r)
          <6> DEFINE new == [row[r] EXCEPT !.retired = TRUE]
          <6>1. row' = row \/ row' = [row EXCEPT ![r] = new] BY <5>3 DEF StampRetired, Put
          <6>2. new.active = row[r].active BY <4>1 DEF Row
          <6> QED BY <6>1, <6>2
        <5> QED BY <3>3, <5>1, <5>2, <5>3
      <4> QED BY <2>1, <4>2, NoneDarkens
    <3>4. ASSUME NEW r \in Mem, Pin(r) PROVE FALSE BY <2>2, <3>4 DEF Pin
    <3>5. ASSUME NEW r \in Mem, NEW n \in Mem, ToolSupersede(r, n) PROVE CutOff(m)
      BY <2>3, <3>5 DEF ToolSupersede
    <3> QED BY <2>4, <3>1, <3>2, <3>3, <3>4, <3>5 DEF People
  <2>5. CASE RetireCold
    <3>1. PICK done : /\ \A n \in Mem \ done : row'[n] = row[n]
                      /\ edge' = Weakened(edge, done)
      <4> DEFINE new(n) == [row[n] EXCEPT !.active = FALSE, !.retired = TRUE]
                 done   == {n \in Picked : ~Vetoed(n, new(n))}
      <4>1. row' = [n \in Mem |-> IF n \in done THEN new(n) ELSE row[n]] /\ edge' = Weakened(edge, done)
        BY <2>5 DEF RetireCold
      <4> HIDE DEF new, done
      <4>2. \A n \in Mem \ done : row'[n] = row[n] BY <4>1
      <4> QED BY <4>1, <4>2
    <3>2. m \in done BY <3>1 DEF Darkens
    <3> QED BY <2>1, <3>1, <3>2 DEF Typed, Edges, Weakened, CutOff
  <2>6. CASE Scan
    <3>1. CASE Temporal
      <4>1. Supersede(Twin[1], Twin[2]) BY <2>2, <3>1 DEF Temporal
      <4>2. Twin[1] \in Mem /\ Twin[2] \in Mem BY ForgetAssumption DEF Mem
      <4> QED BY <2>3, <4>1, <4>2
    <3>2. CASE Resolve
      <4>1. PICK p \in scan.todo : Settle(p) BY ZenonT(60), <2>2, <3>2 DEF Resolve, Repair
      <4>2. p \in Pairs BY <2>1, <4>1 DEF Typed, ScanTyped
      <4> DEFINE loser  == LoserOf(p)
                 winner == WinnerOf(p)
      <4>3. Supersede(loser, winner) BY <2>2, <4>1 DEF Settle
      <4>4. loser \in Mem /\ winner \in Mem BY <4>2, PairHasEnds DEF LoserOf, WinnerOf
      <4> HIDE DEF loser, winner
      <4> QED BY <2>3, <4>3, <4>4
    <3> QED BY <2>2, <2>6, <3>1, <3>2 DEF Scan, Detect, Fetch
  <2>7. CASE Review
    <3>1. PICK v \in Verdict, sure \in BOOLEAN : Judge(v, sure) BY <2>2, <2>7 DEF Review, ReadQueue, JudgeNothing
    <3>2. Item \in Pending BY <2>1, <3>1, ItemIsPending DEF Judge
    <3> DEFINE r == audit[Item].of
    <3>3. Reverts(Item, v, sure) /\ audit' = Ruled(Logged(audit, r, Restored(Item)), Item, "reverted")
      BY <2>2, <3>1 DEF Judge, Ruled
    <3>4. audit'[Item].status = "reverted"
      <4>1. Item \in DOMAIN audit /\ audit \in Seq(Record) BY <2>1, <3>2 DEF Pending, RowsTyped
      <4>2. audit[Item] \in Record BY <4>1
      <4>3. r \in Mem BY <4>2 DEF Record
      <4>4. Restored(Item) \in Row /\ Restored(Item).there BY <2>1, <3>3, <4>1, RestoredIsRow DEF Reverts
      <4>5. row[r].there BY <3>3 DEF Reverts
      <4> DEFINE log == Logged(audit, r, Restored(Item))
      <4>6. GoesOn(audit, log) /\ \A i \in 1..Len(audit) : log[i] = audit[i]
        BY <2>1, <4>3, <4>4, <4>5, PutTells DEF IInv
      <4>7. audit' = Ruled(log, Item, "reverted") BY <3>3
      <4> HIDE DEF log
      <4>8. Item \in DOMAIN log /\ log \in Seq(Record) BY <4>1, <4>6 DEF GoesOn
      <4>9. log[Item] \in Record BY <4>8
      <4> QED BY <4>7, <4>8, <4>9 DEF Ruled, Record
    <3> QED BY <3>2, <3>4 DEF Pending, Reverting
  <2>8. CASE Link \/ Crash \/ UNCHANGED vars
    BY <2>2, <2>8 DEF Link, CheckTarget, PostLink, Crash, vars
  <2> QED BY <2>4, <2>5, <2>6, <2>7, <2>8 DEF Next
<1>2. Good => \A m \in Mem :
        (row[m].active /\ row'[m].there /\ ~row'[m].active)
          => Reverting \/ \A s \in Mem : edge'[<<s, m>>] # "strong"
  BY DEF Darkens, CutOff
<1> HIDE DEF Good
<1> QED BY <1>1, <1>2, Inductive, PTL DEF Spec, RetirementCutsEdges
=============================================================================
