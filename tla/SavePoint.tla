---------------------------- MODULE SavePoint ----------------------------
(***************************************************************************)
(* What a client-requested shutdown promises, with the save as one step:   *)
(* mutations are applied and acknowledged until the daemon stops, and it   *)
(* stops only in a state whose session file is exactly what was applied.   *)
(***************************************************************************)
EXTENDS Naturals

CONSTANT Tasks

VARIABLES
    applied,  \* connection -> number of its mutations that took effect
    acked,    \* connection -> number of its mutations acknowledged
    stored,   \* what the session file holds, in the same counts
    stopping  \* the termination signal

pointVars == <<applied, acked, stored, stopping>>

PointInit ==
    /\ applied = [c \in Tasks |-> 0]
    /\ acked = [c \in Tasks |-> 0]
    /\ stored = [c \in Tasks |-> 0]
    /\ stopping = FALSE

Apply(c) ==
    /\ ~ stopping
    /\ applied' = [applied EXCEPT ![c] = @ + 1]
    /\ UNCHANGED <<acked, stored, stopping>>

Acknowledge(c) ==
    /\ acked' = [acked EXCEPT ![c] = applied[c]]
    /\ UNCHANGED <<applied, stored, stopping>>

Save ==
    /\ ~ stopping
    /\ stored' = applied
    /\ UNCHANGED <<applied, acked, stopping>>

Stop ==
    /\ ~ stopping
    /\ stored = applied
    /\ stopping' = TRUE
    /\ UNCHANGED <<applied, acked, stored>>

PointNext == Save \/ Stop \/ \E c \in Tasks : Apply(c) \/ Acknowledge(c)

PointSpec == PointInit /\ [][PointNext]_pointVars
=============================================================================
