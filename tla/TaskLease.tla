------------------------------ MODULE TaskLease ------------------------------
(***************************************************************************)
(* What the queue owes its claimants, whatever daemons run against it: a   *)
(* row is handed out only while it is open, handing it out closes it, and  *)
(* an executor gets one row at a time.  Everything else that may happen to *)
(* a row (finishing, retrying, parking, a human ruling) can open or close  *)
(* it but hands it to nobody.                                              *)
(***************************************************************************)
CONSTANTS Task, Executor, NoTask

VARIABLES
  open,     \* the rows a claim may take
  holder    \* holder[e] is the row executor e was handed, NoTask if none

leaseVars == <<open, holder>>

LeaseInit ==
  /\ open \in SUBSET Task
  /\ holder = [e \in Executor |-> NoTask]

Grant(e, t) ==
  /\ t \in open
  /\ holder[e] = NoTask
  /\ holder' = [holder EXCEPT ![e] = t]
  /\ open' = open \ {t}

\* One executor ends, or a crash ends several at once.
Drop(gone) ==
  /\ holder' = [e \in Executor |-> IF e \in gone THEN NoTask ELSE holder[e]]
  /\ UNCHANGED open

\* A write that is not a claim.
Amend ==
  /\ open' \in SUBSET Task
  /\ UNCHANGED holder

LeaseNext ==
  \/ \E e \in Executor, t \in Task : Grant(e, t)
  \/ \E gone \in SUBSET Executor : Drop(gone)
  \/ Amend

LeaseSpec == LeaseInit /\ [][LeaseNext]_leaseVars
=============================================================================
