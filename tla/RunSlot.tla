------------------------------- MODULE RunSlot -------------------------------
(***************************************************************************)
(* What the agent manager promises about foreground runs, without saying   *)
(* how: an agent has one slot, a run is admitted only into a free slot, it *)
(* is refused only when the slot is taken, and it keeps the slot until it  *)
(* ends or the agent is closed.  AgentRun implements this specification.   *)
(***************************************************************************)
CONSTANTS Runs,     \* calls of streamAgent / replaceAgentRun
          None      \* no run

VARIABLES slot,     \* the run that holds the agent, or None
          stage,    \* per run: where its call stands
          open      \* the agent is registered

slotVars == <<slot, stage, open>>

Stages == {"asking", "refused", "held", "ended"}

SlotTypeOK == /\ slot \in Runs \cup {None}
              /\ stage \in [Runs -> Stages]
              /\ open \in BOOLEAN

SlotInit == /\ slot = None
            /\ stage = [r \in Runs |-> "asking"]
            /\ open = TRUE

Admit(r) == /\ stage[r] = "asking" /\ open /\ slot = None
            /\ slot' = r
            /\ stage' = [stage EXCEPT ![r] = "held"]
            /\ UNCHANGED open

Refuse(r) == /\ stage[r] = "asking" /\ (slot # None \/ ~open)
             /\ stage' = [stage EXCEPT ![r] = "refused"]
             /\ UNCHANGED <<slot, open>>

Release(r) == /\ stage[r] = "held" /\ (open => slot = r)
              /\ slot' = IF slot = r THEN None ELSE slot
              /\ stage' = [stage EXCEPT ![r] = "ended"]
              /\ UNCHANGED open

Shut == /\ open
        /\ slot' = None
        /\ open' = FALSE
        /\ UNCHANGED stage

SlotNext == Shut \/ \E r \in Runs : Admit(r) \/ Refuse(r) \/ Release(r)

SlotSpec == SlotInit /\ [][SlotNext]_slotVars
=============================================================================
