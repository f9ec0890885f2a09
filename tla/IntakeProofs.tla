---------------------------- MODULE IntakeProofs ----------------------------
(***************************************************************************)
(* The premise gate holds what it parks, for any rows, statuses, callers   *)
(* and auditors; and a goal has one task for each of the two processes     *)
(* that queue goals, for any number of goals, polls, failing calls,        *)
(* crashes and people.                                                     *)
(***************************************************************************)
EXTENDS Intake, TLAPS

-----------------------------------------------------------------------------
(* The premise gate.                                                       *)

\* The triggers yield rows of the table.
LEMMA TriggersAreTyped ==
  ASSUME NEW t \in Task, NEW new \in Written, NEW old, NEW research \in BOOLEAN
  PROVE  /\ Stamped(t, old, Coerced(new)) \in Stored
         /\ Stamped(t, old, ParkedIf(Coerced(new), research)) \in Stored
<1>1. Coerced(new) \in Stored
  BY GateAssumption DEF Coerced, Stored, Written, Row
<1>2. ParkedIf(Coerced(new), research) \in Stored
  BY <1>1, GateAssumption DEF ParkedIf, Stored, Row
<1>3. ASSUME NEW r \in Stored PROVE Stamped(t, old, r) \in Stored
  BY <1>3 DEF Stamped, Stored, Row
<1> QED BY <1>1, <1>2, <1>3

\* What an auditor's two functions do to a row, the trigger included.
LEMMA RulingIsTyped ==
  ASSUME TypeOK, NEW t \in Task, NEW who \in Caller,
         \/ \E accept \in BOOLEAN : PremiseDecide(t, who, accept)
         \/ PremiseAck(t, who)
  PROVE  \E v \in {"accept", "reject"}, new \in Stored : Ruled(t, who, v, new)
<1> DEFINE ready     == [row[t] EXCEPT !.status = "ready", !.hold = FALSE, !.accepted = TRUE]
           cancelled == [row[t] EXCEPT !.status = "cancelled", !.hold = FALSE, !.result = TRUE]
           completed == [row[t] EXCEPT !.status = "completed", !.hold = FALSE, !.accepted = TRUE]
<1>1. row[t] \in Row(Status \cup {"absent"})
  <2>1. Stored \subseteq Row(Status \cup {"absent"})
    BY DEF Stored, Row
  <2>2. Absent \in Row(Status \cup {"absent"})
    BY DEF Absent, Row
  <2> QED BY <2>1, <2>2 DEF TypeOK
<1>2. ready \in Stored /\ cancelled \in Stored /\ completed \in Stored
  <2>1. {"ready", "cancelled", "completed"} \subseteq Status
    BY GateAssumption
  <2>2. ready \in Stored
    BY <1>1, <2>1 DEF Stored, Row
  <2>3. cancelled \in Stored
    BY <1>1, <2>1 DEF Stored, Row
  <2>4. completed \in Stored
    BY <1>1, <2>1 DEF Stored, Row
  <2> QED BY <2>2, <2>3, <2>4
<1>3. CASE \E accept \in BOOLEAN : PremiseDecide(t, who, accept)
  <2>1. PICK accept \in BOOLEAN : PremiseDecide(t, who, accept)
    BY <1>3
  <2>2. CASE accept
    BY <1>2, <2>1, <2>2 DEF PremiseDecide
  <2>3. CASE ~accept
    BY <1>2, <2>1, <2>3 DEF PremiseDecide
  <2> QED BY <2>2, <2>3
<1>4. CASE PremiseAck(t, who)
  BY <1>2, <1>4 DEF PremiseAck
<1> QED BY <1>3, <1>4

\* A step is an insert, an update the guard let through, or a ruling.
LEMMA StepCases ==
  ASSUME TypeOK, [Next]_vars
  PROVE  \/ UNCHANGED vars
         \/ \E t \in Task :
              \/ \E new \in Written, research \in BOOLEAN : Insert(t, new, research)
              \/ \E new \in Written : Update(t, new)
              \/ \E who \in Caller, v \in {"accept", "reject"}, new \in Stored :
                   Ruled(t, who, v, new)
BY RulingIsTyped DEF Next

\* Every column the triggers and functions write keeps its type.
THEOREM TypeCorrect == Spec => []TypeOK
<1>1. Init => TypeOK
  BY DEF Init, TypeOK
<1>2. TypeOK /\ [Next]_vars => TypeOK'
  <2> SUFFICES ASSUME TypeOK, [Next]_vars PROVE TypeOK'
    OBVIOUS
  <2>1. CASE UNCHANGED vars
    BY <2>1 DEF TypeOK, vars
  <2>2. ASSUME NEW t \in Task, NEW new \in Written, NEW research \in BOOLEAN,
               Insert(t, new, research)
        PROVE  TypeOK'
    BY <2>2, TriggersAreTyped DEF TypeOK, Insert
  <2>3. ASSUME NEW t \in Task, NEW new \in Written, Update(t, new) PROVE TypeOK'
    BY <2>3, TriggersAreTyped DEF TypeOK, Update
  <2>4. ASSUME NEW t \in Task, NEW who \in Caller, NEW v \in {"accept", "reject"},
               NEW new \in Stored, Ruled(t, who, v, new)
        PROVE  TypeOK'
    <3>1. Stamped(t, row[t], new) \in Stored
      BY DEF Stamped, Stored, Row
    <3> QED BY <2>4, <3>1 DEF TypeOK, Ruled
  <2> QED BY StepCases, <2>1, <2>2, <2>3, <2>4
<1> QED BY <1>1, <1>2, PTL DEF Spec

\* The inductive invariant.  Losing the tag is the only way an unruled row could
\* become exempt, so the tag is what the induction has to carry.
GateInv == TypeOK /\ UnruledIsTagged

LEMMA GateInvariant == Spec => []GateInv
<1>1. Init => GateInv
  BY DEF Init, GateInv, TypeOK, UnruledIsTagged, Unruled
<1>2. TypeOK /\ TypeOK' /\ UnruledIsTagged /\ [Next]_vars => UnruledIsTagged'
  <2> SUFFICES ASSUME TypeOK, TypeOK', UnruledIsTagged, [Next]_vars,
                      NEW u \in Task, Unruled(u)'
               PROVE  row'[u].hold
    BY DEF UnruledIsTagged
  <2> USE DEF TypeOK, Unruled
  <2>1. CASE UNCHANGED vars
    BY <2>1 DEF vars, UnruledIsTagged
  <2>2. ASSUME NEW t \in Task, NEW new \in Written, NEW research \in BOOLEAN,
               Insert(t, new, research)
        PROVE  row'[u].hold
    <3>1. CASE u # t
      BY <2>2, <3>1 DEF Insert, UnruledIsTagged
    <3>2. CASE u = t
      <4>1. t \notin claims
        BY <2>2, <3>2 DEF Insert, UnruledIsTagged, Absent
      <4> QED BY <2>2, <3>2, <4>1 DEF Insert
    <3> QED BY <3>1, <3>2
  <2>3. ASSUME NEW t \in Task, NEW new \in Written, Update(t, new)
        PROVE  row'[u].hold
    <3>1. CASE u # t
      BY <2>3, <3>1 DEF Update, UnruledIsTagged
    <3>2. CASE u = t
      <4>1. Unruled(t) /\ row[t].hold
        BY <2>3, <3>2 DEF Update, UnruledIsTagged
      <4>2. Coerced(new).hold
        BY <2>3, <4>1 DEF Update, LetThrough, GateStatus, AckOnly
      <4>3. Coerced(new) \in Stored
        BY GateAssumption DEF Coerced, Stored, Written, Row
      <4>4. Stamped(t, row[t], Coerced(new)).hold
        BY <4>2, <4>3 DEF Stamped, Stored, Row
      <4> QED BY <2>3, <3>2, <4>4 DEF Update
    <3> QED BY <3>1, <3>2
  <2>4. ASSUME NEW t \in Task, NEW who \in Caller, NEW v \in {"accept", "reject"},
               NEW new \in Stored, Ruled(t, who, v, new)
        PROVE  row'[u].hold
    BY <2>4 DEF Ruled, UnruledIsTagged
  <2> QED BY StepCases, <2>1, <2>2, <2>3, <2>4
<1> QED BY <1>1, <1>2, TypeCorrect, PTL DEF Spec, GateInv

\* A registered row without a verdict always carries the tag, so the exemption
\* for acknowledged work never applies to it.
THEOREM Tagged == Spec => []UnruledIsTagged
BY GateInvariant, PTL DEF GateInv

-----------------------------------------------------------------------------
(* The gate implements the escrow it promises.                             *)

LEMMA EscrowStep ==
  ASSUME TypeOK, TypeOK', UnruledIsTagged, [Next]_vars
  PROVE  [Escrow!EscrowNext]_(Escrow!escrowVars)
<1> DEFINE ruling == [t \in Task |-> IF verdict[t] = "none" THEN {} ELSE {auditor[t]}]
<1> USE DEF TypeOK, Parked, Unruled
<1>1. CASE UNCHANGED vars
  BY <1>1 DEF vars, Escrow!escrowVars
<1>2. ASSUME NEW t \in Task, UNCHANGED ruling, Parked' = Parked \cup {t}, ruling[t] = {}
      PROVE  Escrow!EscrowNext
  BY <1>2 DEF Escrow!EscrowNext, Escrow!Deposit
<1>3. ASSUME NEW t \in Task, NEW new \in Written, NEW research \in BOOLEAN,
             Insert(t, new, research)
      PROVE  [Escrow!EscrowNext]_(Escrow!escrowVars)
  <2>1. UNCHANGED ruling
    BY <1>3 DEF Insert
  <2>2. t \notin Parked
    BY <1>3 DEF Insert, UnruledIsTagged, Absent
  <2>3. \A u \in Task \ {t} : u \in Parked' <=> u \in Parked
    BY <1>3 DEF Insert
  <2>4. CASE t \in Parked'
    <3>1. Parked' = Parked \cup {t}
      BY <2>3, <2>4
    <3>2. ruling[t] = {}
      BY <2>1, <2>4
    <3> QED BY <1>2, <2>1, <3>1, <3>2
  <2>5. CASE t \notin Parked'
    <3>1. Parked' = Parked
      BY <2>2, <2>3, <2>5
    <3> QED BY <2>1, <3>1 DEF Escrow!escrowVars
  <2> QED BY <2>4, <2>5
<1>4. ASSUME NEW t \in Task, NEW new \in Written, Update(t, new)
      PROVE  [Escrow!EscrowNext]_(Escrow!escrowVars)
  <2>1. UNCHANGED ruling
    BY <1>4 DEF Update
  <2>2. t \in Parked => t \in Parked'
    <3> SUFFICES ASSUME t \in Parked PROVE t \in Parked'
      OBVIOUS
    <3> DEFINE c == Coerced(new)
    <3>1. c \in Stored
      BY GateAssumption DEF Coerced, Stored, Written, Row
    <3>2. c.status = "pending_jeff_action" /\ ~c.archived
      <4>1. row[t].hold
        BY DEF UnruledIsTagged
      <4> QED BY <1>4, <3>1, <4>1 DEF Update, LetThrough, GateStatus, AckOnly, Stored, Row
    <3>3. Stamped(t, row[t], c).status = "pending_jeff_action" /\ ~Stamped(t, row[t], c).archived
      BY <3>1, <3>2 DEF Stamped, Stored, Row, Terminal
    <3> QED BY <1>4, <3>3 DEF Update
  <2>3. \A u \in Task \ {t} : u \in Parked' <=> u \in Parked
    BY <1>4 DEF Update
  <2>4. CASE t \in Parked'
    <3>1. Parked' = Parked \cup {t}
      BY <2>3, <2>4
    <3>2. ruling[t] = {}
      BY <2>1, <2>4
    <3> QED BY <1>2, <2>1, <3>1, <3>2
  <2>5. CASE t \notin Parked'
    <3>1. Parked' = Parked
      BY <2>2, <2>3, <2>5
    <3> QED BY <2>1, <3>1 DEF Escrow!escrowVars
  <2> QED BY <2>4, <2>5
<1>5. ASSUME NEW t \in Task, NEW who \in Caller, NEW v \in {"accept", "reject"},
             NEW new \in Stored, Ruled(t, who, v, new)
      PROVE  Escrow!EscrowNext
  <2>1. ruling' = [ruling EXCEPT ![t] = {who}]
    BY <1>5 DEF Ruled
  <2>2. Parked' = Parked \ {t}
    BY <1>5 DEF Ruled
  <2>3. who \in Exogenous
    BY <1>5 DEF Ruled
  <2> QED BY <2>1, <2>2, <2>3 DEF Escrow!EscrowNext, Escrow!Rule
<1> QED BY StepCases, <1>1, <1>3, <1>4, <1>5

\* The triggers and functions together are an escrow: what the gate has parked
\* and registered leaves only by the ruling of one of the admitted auditors.
THEOREM GateIsEscrow == Spec => ParkedUntilRuled
<1>1. Init => Escrow!EscrowInit
  BY DEF Init, Escrow!EscrowInit, Parked, Unruled
<1>2. GateInv /\ GateInv' /\ [Next]_vars => [Escrow!EscrowNext]_(Escrow!escrowVars)
  BY EscrowStep DEF GateInv
<1> QED BY <1>1, <1>2, GateInvariant, PTL DEF Spec, ParkedUntilRuled, Escrow!EscrowSpec

-----------------------------------------------------------------------------
(* Goals and their tasks.                                                  *)

Queuers == Goals!Queuer

\* The record of a run has its fields, so that one of them can be set.
RunOf(q) == [pc |-> run[q].pc, kind |-> run[q].kind, list |-> run[q].list, next |-> run[q].next]
RunTyped == run = [q \in Queuers |-> RunOf(q)]

RowsTyped == tasks \in [Goals!Goal -> [ready : Nat, eval : Nat, blocked : Nat]] /\ blocks \in Nat

\* A task that a queuer has made up its mind to insert counts already: it inserts
\* one where it saw none, so at most the other's is beside it, and a blocked task
\* that comes back meanwhile is paid for by `blocks`.
Coming(q, g) == IF run[q].pc = "post" /\ run[q].next = g THEN 1 ELSE 0
Fits(g) == Goals!Counted(g) + tasks[g].blocked + Coming("argus", g) + Coming("poller", g) <= 2 + blocks
Room    == \A g \in Goals!Goal : Fits(g) /\ tasks[g].blocked <= blocks

GoalInv == RunTyped /\ RowsTyped /\ Room

LEMMA TwoQueuers == Queuers = {"argus", "poller"}
BY DEF Queuers, Goals!Queuer

LEMMA ComingIsBit == \A q, g : Coming(q, g) \in {0, 1}
BY DEF Coming

\* A run that goes on changes the one run.
LEMMA GoneOn ==
  ASSUME RunTyped, NEW q \in Queuers, NEW pc, NEW kind, NEW list, NEW next, Goals!Go(q, Goals!RunAt(pc, kind, list, next))
  PROVE  RunTyped' /\ run'[q].pc = pc /\ run'[q].next = next /\ \A p \in Queuers \ {q} : run'[p] = run[p]
<1>1. run' = [run EXCEPT ![q] = Goals!RunAt(pc, kind, list, next)] BY DEF Goals!Go
<1>2. run'[q] = [pc |-> pc, kind |-> kind, list |-> list, next |-> next] /\ \A p \in Queuers \ {q} : run'[p] = run[p]
  BY <1>1 DEF RunTyped, Goals!RunAt
<1>3. run' = [p \in Queuers |-> run'[p]] BY <1>1 DEF RunTyped
<1>4. \A p \in Queuers : run'[p] = [pc |-> run'[p].pc, kind |-> run'[p].kind, list |-> run'[p].list, next |-> run'[p].next]
  BY <1>2 DEF RunTyped, RunOf
<1> QED BY <1>2, <1>3, <1>4 DEF RunTyped, RunOf

\* A step that leaves the rows alone and decides on no insertion keeps what
\* fits; most steps of a poll, and those of goals, people and reports, are such.
LEMMA Aside ==
  ASSUME GoalInv, RunTyped', UNCHANGED <<tasks, blocks>>,
         \A q \in Queuers, g \in Goals!Goal : Coming(q, g)' <= Coming(q, g)
  PROVE  GoalInv'
<1>1. RowsTyped' BY DEF GoalInv, RowsTyped
<1>2. ASSUME NEW g \in Goals!Goal PROVE (Fits(g) /\ tasks[g].blocked <= blocks)'
  <2>1. tasks[g] \in [ready : Nat, eval : Nat, blocked : Nat] BY DEF GoalInv, RowsTyped
  <2>2. \A q : Coming(q, g) \in {0, 1} /\ Coming(q, g)' \in {0, 1} BY DEF Coming
  <2>3. Coming("argus", g)' <= Coming("argus", g) /\ Coming("poller", g)' <= Coming("poller", g) BY TwoQueuers
  <2> QED BY <1>2, <2>1, <2>2, <2>3 DEF GoalInv, RowsTyped, Room, Fits, Goals!Counted
<1> QED BY <1>1, <1>2 DEF GoalInv, Room

\* A run that goes on to anything but an insertion.
LEMMA NotPosting ==
  ASSUME GoalInv, UNCHANGED <<tasks, blocks>>, NEW q \in Queuers,
         NEW pc, NEW kind, NEW list, NEW next, Goals!Go(q, Goals!RunAt(pc, kind, list, next)), pc # "post"
  PROVE  GoalInv'
<1>1. RunTyped' /\ run'[q].pc # "post" /\ \A p \in Queuers \ {q} : run'[p] = run[p] BY GoneOn DEF GoalInv
<1>2. ASSUME NEW p \in Queuers, NEW g \in Goals!Goal PROVE Coming(p, g)' <= Coming(p, g)
  <2>1. CASE p = q BY <1>1, <2>1, ComingIsBit DEF Coming
  <2>2. CASE p # q BY <1>1, <2>2 DEF Coming
  <2> QED BY <2>1, <2>2
<1> QED BY <1>1, <1>2, Aside

\* Where a run is that has come to the end of a list, or has a goal to look at.
LEMMA OnwardIsAside ==
  ASSUME GoalInv, UNCHANGED <<tasks, blocks>>, NEW q \in Queuers, NEW kind, NEW list, Goals!Go(q, Goals!Onward(kind, list))
  PROVE  GoalInv'
<1>1. CASE list # {} BY <1>1, NotPosting DEF Goals!Onward
<1>2. CASE list = {} /\ kind = "due" BY <1>2, NotPosting DEF Goals!Onward, Goals!AtCall
<1>3. CASE list = {} /\ kind # "due" BY <1>3, NotPosting DEF Goals!Onward, Goals!RunIdle, Goals!AtCall
<1> QED BY <1>1, <1>2, <1>3

\* What a poll does before and between its insertions.
LEMMA PollAside ==
  ASSUME GoalInv, NEW q \in Queuers,
         Goals!PromoteRead(q) \/ Goals!Promote(q) \/ Goals!Due(q) \/ Goals!Milestones(q) \/ Goals!Patch(q) \/ Goals!Crash(q)
  PROVE  GoalInv'
<1>1. UNCHANGED <<tasks, blocks>>
  BY DEF Goals!PromoteRead, Goals!Promote, Goals!Due, Goals!Milestones, Goals!Patch, Goals!Crash
<1>2. CASE \E pc \in {"due", "milestone", "idle"} : Goals!Go(q, Goals!AtCall(pc)) BY <1>1, <1>2, NotPosting DEF Goals!AtCall
<1>3. CASE \E kind, list : Goals!Go(q, Goals!Onward(kind, list)) BY <1>1, <1>3, OnwardIsAside
<1>4. CASE Goals!PromoteRead(q)
  <2>1. CASE Goals!Go(q, Goals!AtCall("due")) BY <1>2, <2>1
  <2>2. CASE \E n : Goals!Go(q, Goals!RunAt("promote", "due", {}, n)) BY <1>1, <2>2, NotPosting
  <2> QED BY <1>4, <2>1, <2>2 DEF Goals!PromoteRead
<1>5. CASE Goals!Promote(q) BY <1>2, <1>5 DEF Goals!Promote
<1>6. CASE Goals!Due(q) BY <1>2, <1>3, <1>6 DEF Goals!Due, Goals!Through
<1>7. CASE Goals!Milestones(q) BY <1>2, <1>3, <1>7 DEF Goals!Milestones, Goals!Through, Goals!RunIdle
<1>8. CASE Goals!Patch(q) BY <1>2, <1>3, <1>8 DEF Goals!Patch, Goals!RunIdle
<1>9. CASE Goals!Crash(q) BY <1>2, <1>9 DEF Goals!Crash, Goals!RunIdle
<1> QED BY <1>4, <1>5, <1>6, <1>7, <1>8, <1>9

\* A queuer decides on an insertion where it counts no task.
LEMMA LookKeeps == ASSUME GoalInv, NEW q \in Queuers, Goals!Look(q) PROVE GoalInv'
<1> DEFINE h    == Goals!Least(run[q].list)
           left == run[q].list \ {h}
<1>1. UNCHANGED <<tasks, blocks>> BY DEF Goals!Look
<1>2. CASE Goals!Go(q, Goals!Onward(run[q].kind, left)) BY <1>1, <1>2, OnwardIsAside
<1>3. CASE Goals!Go(q, Goals!RunAt("post", run[q].kind, left, h)) /\ ~(Goals!Counted(h) > 0)
  <2>1. RunTyped' /\ run'[q].next = h /\ \A p \in Queuers \ {q} : run'[p] = run[p] BY <1>3, GoneOn DEF GoalInv
  <2>2. RowsTyped' BY <1>1 DEF GoalInv, RowsTyped
  <2>3. ASSUME NEW g \in Goals!Goal PROVE (Fits(g) /\ tasks[g].blocked <= blocks)'
    <3>1. tasks[g] \in [ready : Nat, eval : Nat, blocked : Nat] /\ tasks[g].blocked <= blocks /\ blocks \in Nat /\ Fits(g)
      BY <2>3 DEF GoalInv, RowsTyped, Room
    <3>2. \A p : Coming(p, g) \in {0, 1} /\ Coming(p, g)' \in {0, 1} BY DEF Coming
    <3>3. CASE g = h
      <4>1. Goals!Counted(g) = 0 BY <1>3, <3>1, <3>3 DEF Goals!Counted
      <4> QED BY <1>1, <3>1, <3>2, <4>1 DEF Fits, Goals!Counted
    <3>4. CASE g # h
      <4>1. Coming(q, g)' = 0 BY <2>1, <3>4 DEF Coming
      <4>2. \A p \in Queuers \ {q} : Coming(p, g)' = Coming(p, g) BY <2>1 DEF Coming
      <4>3. \A p \in Queuers : Coming(p, g)' <= Coming(p, g) BY <3>2, <4>1, <4>2
      <4>4. Coming("argus", g)' <= Coming("argus", g) /\ Coming("poller", g)' <= Coming("poller", g) BY <4>3, TwoQueuers
      <4> QED BY <1>1, <3>1, <3>2, <4>4 DEF Fits, Goals!Counted
    <3> QED BY <3>3, <3>4
  <2> QED BY <2>1, <2>2, <2>3 DEF GoalInv, Room
<1> QED BY <1>2, <1>3 DEF Goals!Look

\* What was decided is inserted, or is not.
LEMMA PostKeeps == ASSUME GoalInv, NEW q \in Queuers, Goals!Post(q) PROVE GoalInv'
<1> DEFINE h == run[q].next
<1>1. run[q].pc = "post" /\ blocks' = blocks /\ tasks' \in {tasks, [tasks EXCEPT ![h].ready = @ + 1]} BY DEF Goals!Post
<1>2. RunTyped' /\ run'[q].pc # "post" /\ \A p \in Queuers \ {q} : run'[p] = run[p]
  <2>1. CASE \E kind, list, n : Goals!Go(q, Goals!RunAt("patch", kind, list, n)) BY <2>1, GoneOn DEF GoalInv
  <2>2. CASE \E kind, list : Goals!Go(q, Goals!Onward(kind, list))
    <3>1. \E pc \in {"look", "milestone", "idle"} : \E kind, list, n : Goals!Go(q, Goals!RunAt(pc, kind, list, n))
      BY <2>2 DEF Goals!Onward, Goals!AtCall, Goals!RunIdle
    <3> QED BY <3>1, GoneOn DEF GoalInv
  <2> QED BY <2>1, <2>2 DEF Goals!Post
<1>3. RowsTyped' BY <1>1 DEF GoalInv, RowsTyped
<1>4. ASSUME NEW g \in Goals!Goal PROVE (Fits(g) /\ tasks[g].blocked <= blocks)'
  <2>1. tasks[g] \in [ready : Nat, eval : Nat, blocked : Nat] /\ blocks \in Nat /\ Fits(g) /\ tasks[g].blocked <= blocks
    BY <1>4 DEF GoalInv, RowsTyped, Room
  <2>2. \A p : Coming(p, g) \in {0, 1} /\ Coming(p, g)' \in {0, 1} BY DEF Coming
  <2>3. Coming(q, g)' = 0 /\ \A p \in Queuers \ {q} : Coming(p, g)' = Coming(p, g) BY <1>2 DEF Coming
  <2>4. Coming("argus", g)' + Coming("poller", g)' = Coming("argus", g) + Coming("poller", g) - Coming(q, g)
    BY <2>2, <2>3, TwoQueuers
  <2>5. CASE h = g
    <3>1. Coming(q, g) = 1 BY <1>1, <2>5 DEF Coming
    <3>2. /\ tasks'[g].eval = tasks[g].eval /\ tasks'[g].blocked = tasks[g].blocked
          /\ tasks'[g].ready \in {tasks[g].ready, tasks[g].ready + 1}
      BY <1>1, <1>4, <2>1, <2>5 DEF GoalInv, RowsTyped
    <3> QED BY <1>1, <2>1, <2>2, <2>4, <3>1, <3>2 DEF Fits, Goals!Counted
  <2>6. CASE h # g
    <3>1. tasks'[g] = tasks[g] BY <1>1, <1>4, <2>6 DEF GoalInv, RowsTyped
    <3>2. Coming(q, g) = 0 BY <2>6 DEF Coming
    <3> QED BY <1>1, <2>1, <2>2, <2>4, <3>1, <3>2 DEF Fits, Goals!Counted
  <2> QED BY <2>5, <2>6
<1> QED BY <1>2, <1>3, <1>4 DEF GoalInv, Room

\* Tasks end, are blocked and come back: none is added, and what is blocked is
\* counted in `blocks`.
LEMMA TasksKeep ==
  ASSUME GoalInv, NEW h \in Goals!Goal, Goals!Finish(h) \/ Goals!Approve(h) \/ Goals!Block(h) \/ Goals!Unblock(h)
  PROVE  GoalInv'
<1>1. run' = run BY DEF Goals!Finish, Goals!Approve, Goals!Block, Goals!Unblock
<1>2. tasks[h] \in [ready : Nat, eval : Nat, blocked : Nat] /\ blocks \in Nat BY DEF GoalInv, RowsTyped
<1>3. RunTyped' /\ RowsTyped'
  <2>0. RunTyped' BY <1>1 DEF GoalInv, RunTyped, RunOf
  <2>1. CASE Goals!Finish(h) BY <1>2, <2>0, <2>1 DEF Goals!Finish, GoalInv, RowsTyped
  <2>2. CASE Goals!Approve(h) BY <1>2, <2>0, <2>2 DEF Goals!Approve, GoalInv, RowsTyped
  <2>3. CASE Goals!Block(h) BY <1>2, <2>0, <2>3 DEF Goals!Block, GoalInv, RowsTyped
  <2>4. CASE Goals!Unblock(h) BY <1>2, <2>0, <2>4 DEF Goals!Unblock, GoalInv, RowsTyped
  <2> QED BY <2>1, <2>2, <2>3, <2>4
<1>4. ASSUME NEW g \in Goals!Goal PROVE (Fits(g) /\ tasks[g].blocked <= blocks)'
  <2>1. tasks[g] \in [ready : Nat, eval : Nat, blocked : Nat] /\ Fits(g) /\ tasks[g].blocked <= blocks
    BY <1>4 DEF GoalInv, RowsTyped, Room
  <2>2. \A q : Coming(q, g)' = Coming(q, g) /\ Coming(q, g) \in {0, 1} BY <1>1 DEF Coming
  <2>3. CASE g # h
    <3>1. tasks'[g] = tasks[g] /\ blocks' \in {blocks, blocks + 1}
      BY <1>2, <1>4, <2>3 DEF Goals!Finish, Goals!Approve, Goals!Block, Goals!Unblock, GoalInv, RowsTyped
    <3> QED BY <1>2, <2>1, <2>2, <3>1 DEF Fits, Goals!Counted
  <2>4. CASE g = h
    <3>1. CASE Goals!Finish(h) BY <1>2, <2>1, <2>2, <2>4, <3>1 DEF Goals!Finish, Fits, Goals!Counted, GoalInv, RowsTyped
    <3>2. CASE Goals!Approve(h) BY <1>2, <2>1, <2>2, <2>4, <3>2 DEF Goals!Approve, Fits, Goals!Counted, GoalInv, RowsTyped
    <3>3. CASE Goals!Block(h) BY <1>2, <2>1, <2>2, <2>4, <3>3 DEF Goals!Block, Fits, Goals!Counted, GoalInv, RowsTyped
    <3>4. CASE Goals!Unblock(h) BY <1>2, <2>1, <2>2, <2>4, <3>4 DEF Goals!Unblock, Fits, Goals!Counted, GoalInv, RowsTyped
    <3> QED BY <3>1, <3>2, <3>3, <3>4
  <2> QED BY <2>3, <2>4
<1> QED BY <1>3, <1>4 DEF GoalInv, Room

\* Each behaviour of the two is one of each of them.
LEMMA EachPart == FairIntake => Spec /\ Goals!Spec
<1>1. IntakeInit => Init /\ Goals!Init BY DEF IntakeInit
<1>2. [IntakeNext]_all => [Next]_vars /\ [Goals!Next]_(Goals!vars)
  BY DEF IntakeNext, OfGate, OfGoals, all, ofGoals, Goals!vars
<1> QED BY <1>1, <1>2, PTL DEF FairIntake, Spec, Goals!Spec

\* Whatever the order in which Argus and the poller look and insert, whatever
\* polls that die, calls that fail and people who block and unblock do, a goal has
\* at most one task for each of the two, and one more for each that was ever
\* blocked (_has_recent_pending_task).
THEOREM OneForEachQueuer == FairIntake => []OneTaskForEachQueuer
<1>1. Goals!Init => GoalInv
  <2> SUFFICES ASSUME Goals!Init PROVE GoalInv OBVIOUS
  <2>1. run = [q \in Queuers |-> Goals!RunIdle] BY DEF Goals!Init, Queuers
  <2>2. RunTyped /\ \A q \in Queuers : run[q].pc # "post" BY <2>1 DEF RunTyped, RunOf, Goals!RunIdle, Goals!AtCall, Goals!RunAt
  <2>3. \A g : Coming("argus", g) = 0 /\ Coming("poller", g) = 0 BY <2>2, TwoQueuers DEF Coming
  <2> QED BY <2>2, <2>3 DEF Goals!Init, GoalInv, RowsTyped, Room, Fits, Goals!Counted, Goals!NoRows
<1>2. GoalInv /\ [Goals!Next]_(Goals!vars) => GoalInv'
  <2> SUFFICES ASSUME GoalInv, [Goals!Next]_(Goals!vars) PROVE GoalInv' OBVIOUS
  <2>1. ASSUME NEW q \in Goals!Queuer, Goals!Poll(q) \/ Goals!Crash(q) PROVE GoalInv'
    BY <2>1, PollAside, LookKeeps, PostKeeps DEF Goals!Poll, Queuers
  <2>2. CASE Goals!Reports \/ (\E g \in Goals!Goal : Goals!Reset(g) \/ Goals!Arrive(g) \/ Goals!Cool(g)) \/ UNCHANGED Goals!vars
    <3>1. UNCHANGED <<tasks, blocks, run>>
      BY <2>2 DEF Goals!Reports, Goals!ReportRead, Goals!ReportWrite, Goals!Reset, Goals!Arrive, Goals!Cool, Goals!vars
    <3>2. \A q \in Queuers, g \in Goals!Goal : Coming(q, g)' <= Coming(q, g) BY <3>1, ComingIsBit DEF Coming
    <3>3. RunTyped' BY <3>1 DEF GoalInv, RunTyped, RunOf
    <3> QED BY <3>1, <3>2, <3>3, Aside
  <2>3. CASE Goals!Tasks BY <2>3, TasksKeep DEF Goals!Tasks
  <2> QED BY <2>1, <2>2, <2>3 DEF Goals!Next
<1>3. GoalInv => OneTaskForEachQueuer
  <2> SUFFICES ASSUME GoalInv, NEW g \in Goals!Goal PROVE Goals!Counted(g) + tasks[g].blocked <= 2 + blocks
    BY DEF OneTaskForEachQueuer, Goals!OneTaskForEachQueuer
  <2>1. tasks[g] \in [ready : Nat, eval : Nat, blocked : Nat] /\ blocks \in Nat /\ Fits(g)
    BY DEF GoalInv, RowsTyped, Room
  <2> QED BY <2>1, ComingIsBit DEF Fits, Goals!Counted
<1> QED BY <1>1, <1>2, <1>3, EachPart, PTL DEF Goals!Spec
=============================================================================
