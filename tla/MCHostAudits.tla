---------------------------- MODULE MCHostAudits ----------------------------
(***************************************************************************)
(* The auditors of the host on small instances: git durability over one    *)
(* repository with a migration and a script that a unit executes; one      *)
(* container; two units with one script; two episodes.                     *)
(***************************************************************************)
EXTENDS HostAudits, TLC

HomeOf  == [p \in Path |-> "azlab"]
Numbers == [p \in Path |-> IF p = "sql" THEN 1 ELSE 0]
Waits   == [k \in Kind |-> 2]
Times   == [k \in Event |-> IF k = "people" THEN 2 ELSE 1]

\* Two units execute one script, which has a namesake in the repository; the
\* file of the second unit is of this host alone.
ExecsOf   == [u \in {"poll.service", "argus.service"} |-> {"poll_queue.py"}]
SourcesOf == "poll.service" :> {"task-queue/poll.service"} @@ "argus.service" :> {}
             @@ "poll_queue.py" :> {"task-queue/poll_queue.py", "old/poll_queue.py"}
=============================================================================
