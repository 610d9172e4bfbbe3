---------------------------- MODULE MutationGate ----------------------------
(***************************************************************************)
(* What control/src/operations/operation-engine.ts promises about the      *)
(* mutations of a modem, with none of the machinery that delivers it: at   *)
(* most one mutation or reconciliation is in progress per modem, a         *)
(* mutation gets in only while the modem's reconciliation gate is open,    *)
(* and only a reconciliation that is in progress, and during which the     *)
(* modem did not re-enumerate, opens the gate again.                       *)
(* OperationEngine.tla is shown to implement this specification.           *)
(***************************************************************************)
CONSTANTS Modems, Mutations, Reconciliations

VARIABLES
    inside,    \* per modem, the mutation or reconciliation in progress
    closed,    \* the modems whose reconciliation gate is closed
    outdated   \* the modems that re-enumerated under what is in progress

vars == <<inside, closed, outdated>>

Init ==
    /\ inside = [m \in Modems |-> {}]
    /\ closed = {}
    /\ outdated = {}

\* A mutation gets in: nothing else is in progress and the gate is open.
Admit(m, c) ==
    /\ inside[m] = {}
    /\ m \notin closed
    /\ inside' = [inside EXCEPT ![m] = {c}]
    /\ UNCHANGED <<closed, outdated>>

\* A reconciliation only starts over a closed gate.
StartReconciling(m, c) ==
    /\ inside[m] = {}
    /\ m \in closed
    /\ inside' = [inside EXCEPT ![m] = {c}]
    /\ UNCHANGED <<closed, outdated>>

\* Whatever is in progress ends without opening the gate.
Leave(m) ==
    /\ inside[m] # {}
    /\ inside' = [inside EXCEPT ![m] = {}]
    /\ outdated' = outdated \ {m}
    /\ UNCHANGED closed

\* An outcome nobody knows closes the gate (a read's as well as a mutation's).
Close(m) ==
    /\ closed' = closed \union {m}
    /\ UNCHANGED <<inside, outdated>>

\* The reconciliation in progress succeeds and opens the gate.
Reopen(m) ==
    /\ \E c \in Reconciliations : inside[m] = {c}
    /\ m \notin outdated
    /\ inside' = [inside EXCEPT ![m] = {}]
    /\ closed' = closed \ {m}
    /\ UNCHANGED outdated

\* The modem re-enumerates under what is in progress.
Reenumerate(m) ==
    /\ inside[m] # {}
    /\ outdated' = outdated \union {m}
    /\ UNCHANGED <<inside, closed>>

\* The gate is memory of one process: a restart forgets it.
Restart ==
    /\ inside' = [m \in Modems |-> {}]
    /\ closed' = {}
    /\ outdated' = {}

Next ==
    \/ \E m \in Modems :
        \/ \E c \in Mutations : Admit(m, c)
        \/ \E c \in Reconciliations : StartReconciling(m, c)
        \/ Leave(m)
        \/ Close(m)
        \/ Reopen(m)
        \/ Reenumerate(m)
    \/ Restart

Spec == Init /\ [][Next]_vars
=============================================================================
