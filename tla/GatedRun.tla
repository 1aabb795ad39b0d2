-------------------------------- MODULE GatedRun --------------------------------
(***************************************************************************)
(* What an autonomous run promises to someone who reads its saved state    *)
(* (GET /swarm/status, agent-core status): it works, it may stop and wait  *)
(* for a decision on one gate, and it ends released or stopped.  Nothing   *)
(* is released before every gate the run requires is settled, a gate waits *)
(* once, only a decision moves a waiting run, and an end is final.  A run  *)
(* that has not ended may be lost with its store.                          *)
(***************************************************************************)
CONSTANTS
  Gates,    \* the kinds of gates
  NoOpen    \* stands for no gate, and is none

VARIABLES
  required,   \* the gates that must be settled before a release
  condition,  \* "working", "waiting", "released", "stopped" or "gone"
  open,       \* the gate that waits for a decision
  settled     \* the gates settled so far

runVars == <<required, condition, open, settled>>

Init ==
  /\ required \in SUBSET Gates
  /\ condition = "working"
  /\ open = NoOpen
  /\ settled = {}

\* The run stops at a gate nobody has decided yet.
Ask ==
  /\ condition = "working"
  /\ \E gate \in Gates \ settled : open' = gate
  /\ condition' = "waiting"
  /\ UNCHANGED <<required, settled>>

\* Without an approver the run settles a gate itself and goes on.
SettleItself ==
  /\ condition = "working"
  /\ \E gate \in Gates \ settled : settled' = settled \cup {gate}
  /\ UNCHANGED <<required, condition, open>>

Approved ==
  /\ condition = "waiting"
  /\ settled' = settled \cup {open}
  /\ open' = NoOpen
  /\ condition' = "working"
  /\ UNCHANGED required

Rejected ==
  /\ condition = "waiting"
  /\ open' = NoOpen
  /\ condition' = "stopped"
  /\ UNCHANGED <<required, settled>>

Release ==
  /\ condition = "working"
  /\ required \subseteq settled
  /\ condition' = "released"
  /\ UNCHANGED <<required, open, settled>>

\* A missing role, a failure or exhausted retries.
Stop ==
  /\ condition = "working"
  /\ condition' = "stopped"
  /\ UNCHANGED <<required, open, settled>>

Lose ==
  /\ condition \in {"working", "waiting"}
  /\ condition' = "gone"
  /\ open' = NoOpen
  /\ settled' = {}
  /\ UNCHANGED required

Next == Ask \/ SettleItself \/ Approved \/ Rejected \/ Release \/ Stop \/ Lose

Spec == Init /\ [][Next]_runVars
================================================================================
