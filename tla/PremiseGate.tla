----------------------------- MODULE PremiseGate -----------------------------
(***************************************************************************)
(* The premise gate of services/memory-mcp-server/migrations: triggers on  *)
(* task_queue that park a research-derived engineering row when it is      *)
(* inserted (130), refuse to let it out before an auditor has ruled on its *)
(* premise (145), and the two functions through which one rules (130 and   *)
(* 145b).  The retired-status trigger (121) and the archive stamp (075)    *)
(* run before and after the guard on every update, in trigger-name order,  *)
(* so they are part of each statement.                                     *)
(*                                                                         *)
(* Who updates a row is left open: any daemon, agent or person may try to  *)
(* write any values to the columns the triggers look at.  A statement is   *)
(* one atomic step; one that raises changes nothing.                       *)
(***************************************************************************)
CONSTANTS
  Task,
  Caller,      \* names an auditor argument may carry
  Exogenous,   \* those premise_verdict_auditor_is_exogenous admits
  NoOne,
  Recurring,   \* rows with recurring = true, which are never archive-stamped
  Status       \* statuses a row may be written with, but the retired one

ASSUME GateAssumption ==
  /\ Exogenous \subseteq Caller
  /\ NoOne \notin Caller
  /\ {"pending", "ready", "backlog", "delegated", "pending_jeff_action",
      "completed", "cancelled"} \subseteq Status
  /\ "review_needed" \notin Status

\* A row: its status and the columns and tags the triggers read.
Row(statuses) ==
  [ status   : statuses,
    hold     : BOOLEAN,    \* tag premise-hold
    accepted : BOOLEAN,    \* tag premise-accepted
    result   : BOOLEAN,    \* result is not blank
    archived : BOOLEAN ]   \* archived_at is not null

Stored  == Row(Status)
Written == Row(Status \cup {"review_needed"})

Absent ==
  [status |-> "absent", hold |-> FALSE, accepted |-> FALSE, result |-> FALSE, archived |-> FALSE]

VARIABLES
  row,      \* task_queue
  claims,   \* premise_audit.claims
  verdict,  \* premise_audit.verdicts: "none", "accept" or "reject"
  auditor   \* and who gave it

vars == <<row, claims, verdict, auditor>>

TypeOK ==
  /\ row \in [Task -> Stored \cup {Absent}]
  /\ claims \in SUBSET Task
  /\ verdict \in [Task -> {"none", "accept", "reject"}]
  /\ auditor \in [Task -> Caller \cup {NoOne}]

Init ==
  /\ row = [t \in Task |-> Absent]
  /\ claims = {}
  /\ verdict = [t \in Task |-> "none"]
  /\ auditor = [t \in Task |-> NoOne]

-----------------------------------------------------------------------------
(* The triggers, as functions of the row before and the row written.       *)

\* trg_aa: review_needed is retired.
Coerced(new) ==
  IF new.status = "review_needed" THEN [new EXCEPT !.status = "pending_jeff_action"] ELSE new

\* trg_ab, before insert: a research-derived engineering row is parked.
Gated(new, research) ==
  /\ research /\ ~new.hold /\ ~new.accepted
  /\ new.status \in {"pending", "ready", "backlog", "delegated"}

ParkedIf(new, research) ==
  IF Gated(new, research)
  THEN [new EXCEPT !.status = "pending_jeff_action", !.hold = TRUE] ELSE new

\* trg_task_queue_archive_on_terminal: a terminal row is stamped, and a stamp
\* the statement itself did not touch is cleared when the row is reopened.
Terminal == {"completed", "cancelled", "archived"}

Stamped(t, old, new) ==
  IF t \in Recurring THEN new
  ELSE [new EXCEPT !.archived =
          \/ new.status \in Terminal
          \/ new.archived /\ ~(old.status \in Terminal /\ old.archived)]

GateStatus(t) == IF t \notin claims THEN "not_gated"
                 ELSE IF verdict[t] = "none" THEN "pending" ELSE verdict[t]

\* Variant: a stored result alone exempts a row.
AckOnlyByResult(old) == old.result

\* trg_ac, before update: what the guard lets through while a verdict is out.
AckOnly(old) == old.result /\ ~old.hold

\* Variant: taking the tag off is not refused.
LetThroughUntagged(t, old, new) ==
  \/ GateStatus(t) # "pending"
  \/ AckOnly(old)
  \/ /\ old.status = "pending_jeff_action" => new.status = old.status
     /\ new.archived => old.archived

LetThrough(t, old, new) ==
  \/ GateStatus(t) # "pending"
  \/ AckOnly(old)
  \/ /\ old.status = "pending_jeff_action" => new.status = old.status
     /\ old.hold => new.hold
     /\ new.archived => old.archived

-----------------------------------------------------------------------------
(* The statements.                                                         *)

\* Insert; trg_zz registers a claim for a row that carries the tag.
Insert(t, new, research) ==
  LET stored == Stamped(t, Absent, ParkedIf(Coerced(new), research)) IN
  /\ row[t] = Absent
  /\ row' = [row EXCEPT ![t] = stored]
  /\ claims' = IF stored.hold THEN claims \cup {t} ELSE claims
  /\ UNCHANGED <<verdict, auditor>>

Update(t, new) ==
  /\ row[t] # Absent
  /\ LetThrough(t, row[t], Coerced(new))
  /\ row' = [row EXCEPT ![t] = Stamped(t, row[t], Coerced(new))]
  /\ UNCHANGED <<claims, verdict, auditor>>

\* The verdict is stored first, so the guard no longer applies to the update;
\* the CHECK on the auditor's name rolls everything back.
Ruled(t, who, v, new) ==
  /\ t \in claims
  /\ who \in Exogenous
  /\ verdict' = [verdict EXCEPT ![t] = v]
  /\ auditor' = [auditor EXCEPT ![t] = who]
  /\ row' = [row EXCEPT ![t] = Stamped(t, row[t], new)]
  /\ UNCHANGED claims

PremiseDecide(t, who, accept) ==
  Ruled(t, who, IF accept THEN "accept" ELSE "reject",
        IF accept
        THEN [row[t] EXCEPT !.status = "ready", !.hold = FALSE, !.accepted = TRUE]
        ELSE [row[t] EXCEPT !.status = "cancelled", !.hold = FALSE, !.result = TRUE])

\* premise_ack closes finished work; a blank result is refused.
PremiseAck(t, who) ==
  /\ row[t].result
  /\ Ruled(t, who, "accept",
           [row[t] EXCEPT !.status = "completed", !.hold = FALSE, !.accepted = TRUE])

Next ==
  \E t \in Task :
    \/ \E new \in Written, research \in BOOLEAN : Insert(t, new, research)
    \/ \E new \in Written : Update(t, new)
    \/ \E who \in Caller, accept \in BOOLEAN : PremiseDecide(t, who, accept)
    \/ \E who \in Caller : PremiseAck(t, who)

Spec == Init /\ [][Next]_vars

-----------------------------------------------------------------------------
(* Properties.                                                             *)

Unruled(t) == t \in claims /\ verdict[t] = "none"

\* A registered row keeps the tag until it is ruled on, so it can never pass for
\* one the gate exempts (AckOnly).
UnruledIsTagged == \A t \in Task : Unruled(t) => row[t].hold

\* What the gate parked stays parked, tagged and in sight of every reader that
\* skips archived rows, until one of the four auditors has ruled on it.
Parked == {t \in Task : Unruled(t) /\ row[t].status = "pending_jeff_action" /\ ~row[t].archived}

Escrow == INSTANCE EscrowGate WITH
            held   <- Parked,
            ruling <- [t \in Task |-> IF verdict[t] = "none" THEN {} ELSE {auditor[t]}]
ParkedUntilRuled == Escrow!EscrowSpec
=============================================================================
