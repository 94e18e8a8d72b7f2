-------------------------- MODULE LogicalOperation --------------------------
(***************************************************************************)
(* What the recovery contract promises about one logical turn, with no     *)
(* attempt, acknowledgement, timeout or restart of a run in it: the vendor *)
(* does the work at most once, the operation has at most one outcome, and  *)
(* callers are only ever told that one.  HubSupervisor implements it.      *)
(***************************************************************************)
EXTENDS Naturals

CONSTANTS Outcomes, Undecided

VARIABLES
    executions,   \* how often the vendor did the work
    outcome,      \* what the control plane recorded
    told          \* the outcomes callers have been told

vars == <<executions, outcome, told>>

Init == executions = 0 /\ outcome = Undecided /\ told = {}

Execute ==
    /\ executions = 0
    /\ executions' = 1
    /\ UNCHANGED <<outcome, told>>

\* An outcome is recorded once, and may be told to the caller on the spot.
Record ==
    /\ outcome = Undecided
    /\ outcome' \in Outcomes
    /\ told' \in {told, told \cup {outcome'}}
    /\ UNCHANGED executions

Tell ==
    /\ outcome # Undecided
    /\ told' = told \cup {outcome}
    /\ UNCHANGED <<executions, outcome>>

Next == Execute \/ Record \/ Tell

Spec == Init /\ [][Next]_vars
=============================================================================
