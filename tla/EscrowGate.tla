------------------------------ MODULE EscrowGate ------------------------------
(***************************************************************************)
(* What the premise gate promises: a deposited row stays in escrow until   *)
(* somebody entitled to rule on it has ruled.  A ruling may be revised.    *)
(***************************************************************************)
CONSTANTS Task, Exogenous

VARIABLES
  held,    \* rows in escrow
  ruling   \* ruling[t]: {} or the one who ruled on t last

escrowVars == <<held, ruling>>

EscrowInit ==
  /\ held = {}
  /\ ruling = [t \in Task |-> {}]

Deposit(t) ==
  /\ ruling[t] = {}
  /\ held' = held \cup {t}
  /\ UNCHANGED ruling

Rule(t, who) ==
  /\ ruling' = [ruling EXCEPT ![t] = {who}]
  /\ held' = held \ {t}

EscrowNext ==
  \E t \in Task : Deposit(t) \/ \E who \in Exogenous : Rule(t, who)

EscrowSpec == EscrowInit /\ [][EscrowNext]_escrowVars
=============================================================================
