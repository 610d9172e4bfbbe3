------------------------------ MODULE Reconcile ------------------------------
(***************************************************************************)
(* Desired-state reconciliation: the pure planner                          *)
(* (control/src/ports/reconcile.ts) under the two callers it is written    *)
(* for.  The bench command (cli/src/commands/apply.ts) plans once from     *)
(* what it observes and knows of no profile; a host keeps what its writes  *)
(* answered and plans again until nothing is left to do.                   *)
(*                                                                         *)
(* A radio preference is a sequence of access technologies; a profile is   *)
(* its APN and its roaming flag.  Credentials, the IP family and the       *)
(* network id take no part in a decision.                                  *)
(***************************************************************************)
EXTENDS Naturals, Sequences, TLC

CONSTANTS
    NoValue,      \* an optional field that is absent
    Policies,     \* policies: [enabled, apn, roaming, radio, simSlot]
    Abilities,    \* what a modem can do: [rats, slots, auto]
    Profiles,     \* bound: profiles NetworkManager may be asked to create
    MaxFaults     \* bound: calls that fail, policies that change

VARIABLES
    caller,     \* "host" or "bench"
    can,        \* the capabilities the planner is given
    policy,     \* the desired state
    held,       \* what NetworkManager holds: the profiles
    link,       \* [conn, state, iface]: what is active, and the interface
    modem,      \* [radio, slot]: what the modem has
    written,    \* the host's record: [conn, apn, roaming, radio]
    ops,        \* what is left of the plan
    receipts,   \* the receipts of the plan
    faults

reconcileVars ==
    <<caller, can, policy, held, link, modem, written, ops, receipts, faults>>

Dimensions == {"connection", "roaming", "radio", "simSlot", "enabled"}
Unplanned == [d \in Dimensions |-> "none"]
Nothing == [conn |-> NoValue, apn |-> NoValue, roaming |-> NoValue, radio |-> NoValue]

ReconcileInit ==
    /\ caller \in {"host", "bench"} /\ can \in Abilities /\ policy \in Policies
    /\ held = [p \in Profiles |-> NoValue]
    /\ link \in [conn : {NoValue}, state : {"disconnected", "unmanaged"}, iface : BOOLEAN]
    /\ modem = [radio |-> NoValue, slot |-> 1]
    /\ written = Nothing
    /\ ops = <<>> /\ receipts = Unplanned /\ faults = 0

-----------------------------------------------------------------------------
(* What the planner is told. *)

\* A host's record, or the bench's: hasProfile is never true there.
Current ==
    [nm |-> link.state, iface |-> link.iface, slot |-> modem.slot]
      @@ IF caller = "host" THEN written ELSE Nothing

Receipt(status) == [status |-> status, ops |-> <<>>]
Pending(op) == [status |-> "pending", ops |-> <<op>>]
Profile(p) == [apn |-> p.apn, roaming |-> p.roaming]

\* Mutated: what is held is home-only, the inverse.
NeedsWriteInverted(now, p) ==
    now.conn = NoValue \/ now.apn # p.apn \/ now.roaming = p.roaming

NeedsWrite(now, p) == now.conn = NoValue \/ Profile(now) # Profile(p)

PlanProfile(now, p) ==
    CASE p.apn = "auto" /\ ~can.auto -> Receipt("unsupported")
      [] ~NeedsWrite(now, p) -> Receipt("applied")
      [] now.conn # NoValue -> Pending(<<"updateGsmProfile", now.conn, Profile(p)>>)
      [] OTHER -> Pending(<<"createGsmProfile", NoValue, Profile(p)>>)

PlanRadio(now, p) ==
    CASE p.radio = <<>> -> Receipt("failed")
      [] Head(p.radio) \notin can.rats -> Receipt("unsupported")
      [] now.radio = p.radio -> Receipt("applied")
      [] OTHER -> Pending(<<"setRadioModes", p.radio>>)

PlanSimSlot(now, p) ==
    CASE p.simSlot = NoValue -> Receipt("applied")
      [] can.slots <= 1 -> Receipt("unsupported")
      [] p.simSlot \notin 1..can.slots -> Receipt("failed")
      [] now.slot = p.simSlot -> Receipt("applied")
      [] OTHER -> Pending(<<"setPrimarySimSlot", p.simSlot>>)

PlanEnabled(now, p) ==
    LET addressable == now.conn # NoValue /\ now.iface
        up == now.nm \in {"activated", "activating"}
    IN CASE p.enabled /\ now.nm = "activated" -> Receipt("applied")
         [] p.enabled /\ now.nm = "failed" -> Receipt("failed")
         [] p.enabled /\ now.nm = "unmanaged" -> Receipt("unsupported")
         [] p.enabled /\ (now.nm = "activating" \/ ~addressable) -> Receipt("pending")
         [] p.enabled -> Pending(<<"activate", now.conn>>)
         [] up /\ addressable -> Pending(<<"deactivate", now.conn>>)
         [] OTHER -> Receipt("applied")

\* The recovery and usage dimensions only acknowledge: they are left out.
PlanReconcile(now, p) ==
    LET profile == PlanProfile(now, p)
        rest == <<PlanRadio(now, p), PlanSimSlot(now, p), PlanEnabled(now, p)>>
    IN [ops |-> profile.ops \o rest[1].ops \o rest[2].ops \o rest[3].ops,
        receipts |-> [connection |-> profile.status, roaming |-> profile.status,
                      radio |-> rest[1].status, simSlot |-> rest[2].status,
                      enabled |-> rest[3].status]]

-----------------------------------------------------------------------------
(* Running the plan. *)

\* One invocation of the bench command, or one more turn of a host.
Plan ==
    /\ ops = <<>>
    /\ caller = "bench" => receipts = Unplanned
    /\ LET plan == PlanReconcile(Current, policy)
       IN ops' = plan.ops /\ receipts' = plan.receipts
    /\ UNCHANGED <<caller, can, policy, held, link, modem, written, faults>>

Op == Head(ops)
Done == ops' = Tail(ops)
Fault == faults < MaxFaults /\ faults' = faults + 1

Noted(conn, profile) ==
    written' = IF caller = "host" THEN profile @@ [written EXCEPT !.conn = conn] ELSE written

\* An nmcli add or modify.  A call that throws ends the run, whether or not
\* NetworkManager did what it was asked.
ApplyProfile ==
    /\ Op[1] \in {"createGsmProfile", "updateGsmProfile"}
    /\ \E p \in Profiles :
          /\ IF Op[2] = NoValue THEN held[p] = NoValue ELSE p = Op[2]
          /\ \/ held' = [held EXCEPT ![p] = Op[3]] /\ Noted(p, Op[3])
                /\ Done /\ UNCHANGED faults
             \/ held' \in {held, [held EXCEPT ![p] = Op[3]]} /\ ops' = <<>>
                /\ Fault /\ UNCHANGED written
    /\ UNCHANGED <<link, modem>>

\* Activation and deactivation answer a receipt; a failed one throws nothing.
ApplyActivation ==
    /\ Op[1] \in {"activate", "deactivate"}
    /\ Done
    /\ \/ /\ link' = IF Op[1] = "activate"
                     THEN [link EXCEPT !.conn = Op[2], !.state = "activating"]
                     ELSE [link EXCEPT !.conn = NoValue, !.state = "disconnected"]
          /\ UNCHANGED faults
       \/ Fault /\ UNCHANGED link
    /\ UNCHANGED <<held, modem, written>>

\* So do the calls to ModemManager.
ApplyModem ==
    /\ Op[1] \in {"setRadioModes", "setPrimarySimSlot"}
    /\ Done
    /\ \/ /\ modem' = IF Op[1] = "setRadioModes" THEN [modem EXCEPT !.radio = Op[2]]
                      ELSE [modem EXCEPT !.slot = Op[2]]
          /\ written' = IF Op[1] = "setRadioModes" /\ caller = "host"
                        THEN [written EXCEPT !.radio = Op[2]] ELSE written
          /\ UNCHANGED faults
       \/ Fault /\ UNCHANGED <<modem, written>>
    /\ UNCHANGED <<held, link>>

ApplyOp ==
    /\ ops # <<>>
    /\ ApplyProfile \/ ApplyActivation \/ ApplyModem
    /\ UNCHANGED <<caller, can, policy, receipts>>

\* NetworkManager ends an activation, or starts one: a profile that exists may
\* autoconnect, and anybody may activate it.
Settle ==
    /\ \/ /\ link.state = "activating"
          /\ link' \in {[link EXCEPT !.state = s] : s \in {"activated", "failed"}}
          /\ UNCHANGED faults
       \/ \E p \in Profiles :
             /\ held[p] # NoValue /\ link.state = "disconnected" /\ link.iface
             /\ link' = [link EXCEPT !.conn = p, !.state = "activating"]
             /\ Fault
       \/ ~link.iface /\ link' = [link EXCEPT !.iface = TRUE] /\ UNCHANGED faults
    /\ UNCHANGED <<caller, can, policy, held, modem, written, ops, receipts>>

\* The operator has a change of mind between two plans.
ChangePolicy ==
    /\ ops = <<>> /\ receipts # Unplanned /\ caller = "host"
    /\ Fault /\ policy' \in Policies \ {policy} /\ receipts' = Unplanned
    /\ UNCHANGED <<caller, can, held, link, modem, written, ops>>

ReconcileNext == Plan \/ ApplyOp \/ Settle \/ ChangePolicy
ReconcileFairness ==
    /\ WF_reconcileVars(Plan) /\ WF_reconcileVars(ApplyOp)
    /\ WF_reconcileVars(Settle)

-----------------------------------------------------------------------------
(* A host that plans again from what its writes answered comes to a plan   *)
(* with nothing in it, and stays there: whatever failed on the way, each   *)
(* dimension is applied, refused with a reason, or in somebody else's      *)
(* hands (control/src/ports/reconcile.ts, "re-applying is idempotent").    *)
PlanSettles ==
    caller = "host" ~> [](ops = <<>> /\ PlanReconcile(Current, policy).ops = <<>>)

=============================================================================
