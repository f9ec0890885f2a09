-------------------------- MODULE HomeAssistantUpdate --------------------------
(***************************************************************************)
(* ha_auto_update.py: every night a run asks each part of Home Assistant   *)
(* for updates, applies them in order of dependency, restarts what has to  *)
(* be restarted, and reports.  The parts are reached over ssh, custom      *)
(* components over the REST API, and any call may fail, before or after it *)
(* has had its effect.                                                     *)
(***************************************************************************)
EXTENDS Naturals, Sequences

CONSTANTS
  MaxRelease,   \* versions released in all (a bound)
  MaxFault      \* calls that fail, runs killed, times the site goes down (a bound)

Order == <<"supervisor", "app", "core", "os", "hacs">>
Kind  == {Order[k] : k \in DOMAIN Order}
Cli   == Kind \ {"hacs"}     \* asked over ssh

VARIABLES
  behind,     \* the kinds that have an update
  unloaded,   \* custom components were installed that Core has not loaded
  unbooted,   \* the operating system was updated and has not booted
  up,         \* both health endpoints answer
  run,        \* the run under way
  verdict,    \* what the last run reported
  released, faults

vars  == <<behind, unloaded, unbooted, up, run, verdict, released, faults>>

RunIdle == [pc |-> "idle", todo |-> {}, applied |-> {}, failed |-> {}, rebooted |-> TRUE]

TypeOK ==
  /\ behind \subseteq Kind /\ unloaded \in BOOLEAN /\ unbooted \in BOOLEAN /\ up \in BOOLEAN
  /\ run.pc \in {"idle", "refresh", "apply", "settle", "load", "loading", "reboot", "rebooting", "report"}
  /\ run.todo \cup run.applied \subseteq Kind /\ run.todo \cap run.applied = {}
  /\ run.failed \subseteq Kind \cup {"restart"} /\ run.rebooted \in BOOLEAN
  /\ verdict \in {"none", "aborted", "noop", "ok", "attention"}
  /\ released \in 0..MaxRelease /\ faults \in 0..MaxFault

Init ==
  /\ behind = {} /\ unloaded = FALSE /\ unbooted = FALSE /\ up = TRUE
  /\ run = RunIdle /\ verdict = "none" /\ released = 0 /\ faults = 0

Fault == faults < MaxFault /\ faults' = faults + 1

-----------------------------------------------------------------------------
(* A run *)

\* The pre-flight check, which waits a little for a site that is down.
Preflight ==
  /\ run.pc = "idle"
  /\ IF up THEN run' = [RunIdle EXCEPT !.pc = "refresh"] /\ UNCHANGED verdict
           ELSE verdict' = "aborted" /\ UNCHANGED run
  /\ UNCHANGED <<behind, unloaded, unbooted, up, released, faults>>

\* find_updates: a part that does not answer has no update, unless no part
\* answers over ssh.
FindUpdates ==
  /\ run.pc = "refresh"
  /\ \E asked \in SUBSET Kind :
       /\ IF asked = Kind THEN UNCHANGED faults ELSE Fault
       /\ run' = (IF asked \cap Cli = {} \/ behind \cap asked = {} THEN RunIdle
                  ELSE [run EXCEPT !.pc = "apply", !.todo = behind \cap asked])
       /\ verdict' = IF asked \cap Cli = {} THEN "aborted"
                     ELSE IF behind \cap asked = {} THEN "noop" ELSE verdict
  /\ UNCHANGED <<behind, unloaded, unbooted, up, released>>

\* The next update in order.
Next1 == Order[CHOOSE k \in DOMAIN Order :
           Order[k] \in run.todo /\ \A j \in DOMAIN Order : Order[j] \in run.todo => k <= j]

\* What installing k does: Core loads components when it restarts.
Installed(k) ==
  /\ behind' = behind \ {k}
  /\ unloaded' = IF k = "hacs" THEN TRUE ELSE IF k = "core" THEN FALSE ELSE unloaded
  /\ unbooted' = (unbooted \/ k = "os")
  /\ \/ UNCHANGED up
     \/ k \in {"supervisor", "core"} /\ up' = FALSE

Apply ==
  /\ run.pc = "apply" /\ run.todo # {} /\ Installed(Next1)
  /\ run' = [run EXCEPT !.todo = @ \ {Next1}, !.applied = @ \cup {Next1},
                        !.pc = IF Next1 \in {"supervisor", "core"} THEN "settle" ELSE "apply"]
  /\ UNCHANGED <<verdict, released, faults>>

\* An update that fails, or that is taken to have failed: after Supervisor or
\* Core the rest is left.
ApplyFails ==
  /\ run.pc = "apply" /\ run.todo # {} /\ Fault
  /\ \/ UNCHANGED <<behind, unloaded, unbooted, up>>
     \/ Installed(Next1)
  /\ run' = [run EXCEPT !.todo = IF Next1 \in {"supervisor", "core"} THEN {} ELSE @ \ {Next1},
                        !.failed = @ \cup {Next1}]
  /\ UNCHANGED <<verdict, released>>

\* wait_for_site after a restart: what comes of it is not looked at.
Settle ==
  /\ run.pc \in {"settle", "loading"}
  /\ run' = [run EXCEPT !.pc = IF @ = "settle" THEN "apply" ELSE "reboot"]
  /\ UNCHANGED <<behind, unloaded, unbooted, up, verdict, released, faults>>

LoadUnlessTried ==  \* mutant: after a failed update nothing is restarted
  /\ run.pc = "apply" /\ run.todo = {}
  /\ run' = [run EXCEPT !.pc = IF "hacs" \in run.applied /\ "os" \notin run.applied /\ run.failed = {}
                               THEN "load" ELSE "reboot"]
  /\ UNCHANGED <<behind, unloaded, unbooted, up, verdict, released, faults>>

\* Components only load on a restart, which the reboot for the operating
\* system includes.
Applied ==
  /\ run.pc = "apply" /\ run.todo = {}
  /\ run' = [run EXCEPT !.pc = IF "hacs" \in run.applied /\ "os" \notin run.applied
                               THEN "load" ELSE "reboot"]
  /\ UNCHANGED <<behind, unloaded, unbooted, up, verdict, released, faults>>

RestartCore ==
  /\ run.pc = "load"
  /\ \/ unloaded' = FALSE /\ up' \in {up, FALSE}
        /\ run' = [run EXCEPT !.pc = "loading"] /\ UNCHANGED faults
     \/ unloaded' \in {unloaded, FALSE} /\ UNCHANGED up
        /\ run' = [run EXCEPT !.pc = "loading", !.failed = @ \cup {"restart"}] /\ Fault
  /\ UNCHANGED <<behind, unbooted, verdict, released>>

\* Only a new operating system is a reason.  The reboot ends the ssh session
\* that asks for it, so a refusal is not told from a reboot.
RebootHost ==
  /\ run.pc = "reboot"
  /\ \/ /\ "os" \notin run.applied /\ run' = [run EXCEPT !.pc = "report"]
        /\ UNCHANGED <<unloaded, unbooted, up, faults>>
     \/ /\ "os" \in run.applied /\ run' = [run EXCEPT !.pc = "rebooting"]
        /\ \/ unloaded' = FALSE /\ unbooted' = FALSE /\ up' \in {up, FALSE} /\ UNCHANGED faults
           \/ UNCHANGED <<unloaded, unbooted, up>> /\ Fault
  /\ UNCHANGED <<behind, verdict, released>>

Rebooted ==
  /\ run.pc = "rebooting" /\ run' = [run EXCEPT !.pc = "report", !.rebooted = up]
  /\ UNCHANGED <<behind, unloaded, unbooted, up, verdict, released, faults>>

Report ==
  /\ run.pc = "report" /\ run' = RunIdle
  /\ verdict' = IF up /\ run.failed = {} /\ run.rebooted THEN "ok" ELSE "attention"
  /\ UNCHANGED <<behind, unloaded, unbooted, up, released, faults>>

Crash ==
  /\ run.pc # "idle" /\ run' = RunIdle /\ Fault
  /\ UNCHANGED <<behind, unloaded, unbooted, up, verdict, released>>

Step ==
  \/ Preflight \/ FindUpdates \/ Apply \/ ApplyFails \/ Settle \/ Applied
  \/ RestartCore \/ RebootHost \/ Rebooted \/ Report

-----------------------------------------------------------------------------
(* Releases and the site *)

Release(k) ==
  /\ released < MaxRelease /\ released' = released + 1 /\ behind' = behind \cup {k}
  /\ UNCHANGED <<unloaded, unbooted, up, run, verdict, faults>>

GoDown ==
  /\ up /\ up' = FALSE /\ Fault
  /\ UNCHANGED <<behind, unloaded, unbooted, run, verdict, released>>

ComeUp ==
  /\ ~up /\ up' = TRUE
  /\ UNCHANGED <<behind, unloaded, unbooted, run, verdict, released, faults>>

Next == Step \/ Crash \/ GoDown \/ ComeUp \/ \E k \in Kind : Release(k)

Spec == Init /\ [][Next]_vars

\* The timer starts a run every night, and the site comes back, if need be by
\* hand.
FairSpec == Spec /\ WF_vars(Step) /\ WF_vars(ComeUp)

-----------------------------------------------------------------------------
(* Properties *)

\* A run that installed components and lives to report has loaded them, whichever
\* of its other updates failed, or its report calls for attention because the
\* restart for them failed (main, 3b).  A host that was asked to boot a new
\* operating system and did not is the one thing it cannot tell.
LoadedOrTold ==
  (run.pc = "report" /\ run'.pc = "idle" /\ faults' = faults /\ "hacs" \in run.applied /\ unloaded) =>
    \/ "restart" \in run.failed /\ verdict' = "attention"
    \/ "os" \in run.applied /\ unbooted
LoadedByTheEnd == [][LoadedOrTold]_vars

=============================================================================
