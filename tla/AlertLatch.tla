------------------------------ MODULE AlertLatch ------------------------------
(***************************************************************************)
(* What the auditors of this host promise of their alerts: Discord hears   *)
(* of a change in the set of findings, and of nothing else.  Every auditor *)
(* keeps the set it last dealt with in a state file, which it writes after *)
(* its message.  A message tells its reader something new, unless the one  *)
(* before it or the file that goes with it was lost; the next report that  *)
(* comes through and is filed makes that good.                             *)
(***************************************************************************)
CONSTANT Finding

VARIABLES
  told,       \* the findings of the last message that came through
  seen,       \* the findings in the state file
  reporting,  \* a message was sent, and the state file is not written yet
  lost        \* since told and seen last agreed a message or the file was lost

vars == <<told, seen, reporting, lost>>

Init == told = {} /\ seen = {} /\ ~reporting /\ lost = FALSE

\* A message that repeats the one before it is a message all the same.
Tell ==
  /\ ~reporting /\ reporting'
  /\ told' \in (SUBSET Finding) \ {seen} /\ (told' # told \/ lost)
  /\ UNCHANGED <<seen, lost>>

Miss == ~reporting /\ reporting' /\ lost' = TRUE /\ UNCHANGED <<told, seen>>

\* What goes into the state file is what was told, or what was lost.
Note ==
  /\ reporting /\ ~reporting'
  /\ seen' \in (SUBSET Finding) \ {seen} /\ (told = seen' \/ lost)
  /\ lost' = (told # seen') /\ UNCHANGED told

\* The state file may be cut short, and then reads as one without findings.
Die ==
  /\ reporting /\ ~reporting'
  /\ lost' = TRUE /\ seen' \in {seen, {}} /\ UNCHANGED told

Next == Tell \/ Miss \/ Note \/ Die

Spec == Init /\ [][Next]_vars
=============================================================================
