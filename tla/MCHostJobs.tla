------------------------------ MODULE MCHostJobs ------------------------------
(***************************************************************************)
(* The timers' jobs on small instances: two backups, one of them weekly;   *)
(* the archive of failed runs over two months; Home Assistant's updates;   *)
(* the state memory; three months of research notes.                       *)
(***************************************************************************)
EXTENDS HostJobs

Tasks  == <<"supabase", "weekly-full">>
Keeps  == [b \in Backup |-> 1]
Slacks == [b \in Backup |-> IF b \in Weekly THEN 3 ELSE 1]
Times  == [k \in Event |-> IF k = "ill" THEN 2 ELSE 1]
=============================================================================
