--------------------------- MODULE MCFailureArchive ---------------------------
(* Two entries of the daemon, within one month. *)
EXTENDS FailureArchive
=============================================================================
