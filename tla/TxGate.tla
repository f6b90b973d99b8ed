-------------------------------- MODULE TxGate --------------------------------
(***************************************************************************)
(* What the transmit protection promises, without thresholds, meters or    *)
(* audio: a gate that is opened for one generation at a time together with *)
(* the guard that watches it, that any thread can close at any moment, and *)
(* that stays shut after a trip until the operator acknowledges it.        *)
(*                                                                         *)
(* DigitalTxGuard implements it with everything the guard decides, and     *)
(* DigitalTxLink uses it between the threads that start and stop           *)
(* transmissions.                                                          *)
(***************************************************************************)
EXTENDS Naturals

CONSTANT MaxGeneration  \* bound: generations that are ever issued

VARIABLES
    generation,    \* the open generation, 0 if the gate is shut
    active,        \* the guard watches a transmission
    latched,       \* a trip awaits the operator's acknowledgement
    myGeneration   \* the generation the guard was last given

gate == <<generation, active, latched, myGeneration>>

Init ==
    /\ generation = 0
    /\ active = FALSE
    /\ latched = FALSE
    /\ myGeneration = 0

(* The guard takes a transmission and opens the gate for it.               *)
Open(g) ==
    /\ ~active
    /\ ~latched
    /\ generation' = g
    /\ active' = TRUE
    /\ latched' = FALSE
    /\ myGeneration' = g

(* The guard takes a transmission that was revoked meanwhile.              *)
Pass(g) ==
    /\ ~active
    /\ ~latched
    /\ generation' = 0
    /\ myGeneration' = g
    /\ UNCHANGED <<active, latched>>

(* Any thread shuts the gate; the guard has yet to notice.                 *)
Shut ==
    /\ generation # 0
    /\ generation' = 0
    /\ UNCHANGED <<active, latched, myGeneration>>

(* The guard stops watching.                                               *)
Release ==
    /\ active
    /\ generation' = 0
    /\ active' = FALSE
    /\ UNCHANGED <<latched, myGeneration>>

(* The guard stops the transmission for a fault.                           *)
Trip ==
    /\ active
    /\ generation' = 0
    /\ active' = FALSE
    /\ latched' = TRUE
    /\ UNCHANGED myGeneration

Acknowledge ==
    /\ ~active
    /\ latched' = FALSE
    /\ UNCHANGED <<generation, active, myGeneration>>

Next ==
    \/ \E g \in 1..MaxGeneration : Open(g) \/ Pass(g)
    \/ Shut \/ Release \/ Trip \/ Acknowledge

Spec == Init /\ [][Next]_gate
=============================================================================
