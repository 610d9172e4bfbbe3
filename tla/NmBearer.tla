------------------------------ MODULE NmBearer ------------------------------
(***************************************************************************)
(* Bearers through NetworkManager: the adapter that keeps what was asked,  *)
(* what was put into force and what is observed apart                      *)
(* (control/src/providers/network-manager/), over the nmcli port           *)
(* (control/src/backend/nmcli-nm-port.ts), whose calls are one or two      *)
(* nmcli commands each, and NetworkManager, which everybody else may use   *)
(* between any two of them.                                                *)
(*                                                                         *)
(* A bearer is a connection on an interface with the settings of its       *)
(* profile, which are one value here; an unbound one has no connection.    *)
(* Receipts and refusals are kept only as far as they leave something.     *)
(***************************************************************************)
EXTENDS Integers, TLC

CONSTANTS
    NoBearer, Connections, Ifnames, Settings,
    Calls,      \* calls of the adapter and of the port
    Readouts,   \* readouts of NetworkManager that may be under way
    MaxEvents   \* what the environment does, over all

ASSUME BearerAssumption == NoBearer \notin Ifnames

VARIABLES
    saved,      \* the profile NetworkManager holds of each connection
    active,     \* the connection active on each interface, with its settings
    device,     \* the state of each interface
    generation, \* of the device tree: an interface went away
    events,     \* calls and changes of the environment so far
    call,       \* where each call is, and what it knows
    slots,      \* desired, applied and observed of each connection
    fence,      \* the generation of the last readout accepted
    readout     \* what each readout under way saw

nmVars == <<saved, active, device, generation>>
adapterVars == <<slots, fence>>
bearerVars == <<nmVars, events, call, adapterVars, readout>>

Bound(c, f, settings) == [conn |-> c, on |-> f, settings |-> settings]
Unbound(f) == [conn |-> NoBearer, on |-> f, settings |-> NoBearer]
Idle == [at |-> "idle"]

\* States of a device that lead up to "up" or down from it.
Transitional == {"coming"}

BearerInit ==
    /\ saved \in [Connections -> Settings \union {NoBearer}]
    /\ active = [f \in Ifnames |-> NoBearer]
    /\ device = [f \in Ifnames |-> "disconnected"]
    /\ generation = 0 /\ events = 0
    /\ call = [k \in Calls |-> Idle]
    /\ slots = [c \in Connections |->
                   [desired |-> NoBearer, applied |-> NoBearer, observed |-> NoBearer]]
    /\ fence = 0
    /\ readout = [r \in Readouts |-> NoBearer]

Slot(c, name, value) == slots' = [slots EXCEPT ![c][name] = value]

-----------------------------------------------------------------------------
(* NetworkManager. *)

\* A connection is active on one interface at a time.
BringUp(c, f, state) ==
    /\ saved[c] # NoBearer /\ device[f] # "absent"
    /\ active' = [g \in Ifnames |->
                    IF g = f THEN [conn |-> c, settings |-> saved[c]]
                    ELSE IF active[g] # NoBearer /\ active[g].conn = c THEN NoBearer
                    ELSE active[g]]
    /\ device' = [g \in Ifnames |->
                    IF g = f THEN state
                    ELSE IF active[g] # NoBearer /\ active[g].conn = c THEN "disconnected"
                    ELSE device[g]]

TakeDown(f, state) ==
    /\ active' = [active EXCEPT ![f] = NoBearer]
    /\ device' = [device EXCEPT ![f] = state]

Counts == events < MaxEvents /\ events' = events + 1

\* A modem goes away and with it its interface; somebody else edits a profile,
\* activates one or loses a bearer.
Changes ==
    /\ Counts
    /\ \/ \E f \in Ifnames :
             /\ device[f] # "absent"
             /\ TakeDown(f, "absent")
             /\ generation' = generation + 1
             /\ UNCHANGED saved
       \/ \E c \in Connections, settings \in Settings \union {NoBearer} :
             /\ saved[c] # settings
             /\ saved' = [saved EXCEPT ![c] = settings]
             /\ UNCHANGED <<active, device, generation>>
       \/ \E c \in Connections, f \in Ifnames :
             BringUp(c, f, "coming") /\ UNCHANGED <<saved, generation>>
       \/ \E f \in Ifnames, state \in {"disconnected", "failed"} :
             /\ active[f] # NoBearer
             /\ TakeDown(f, state)
             /\ UNCHANGED <<saved, generation>>
    /\ UNCHANGED <<call, adapterVars, readout>>

\* An interface comes back, or what was coming up is up.
Settles ==
    \E f \in Ifnames :
        /\ \/ device[f] = "absent" /\ device' = [device EXCEPT ![f] = "disconnected"]
           \/ device[f] = "coming" /\ device' = [device EXCEPT ![f] = "activated"]
        /\ UNCHANGED <<saved, active, generation, events, call, adapterVars, readout>>

-----------------------------------------------------------------------------
(* Saving. *)

At(k, place) == call[k].at = place
Goes(k, record) == call' = [call EXCEPT ![k] = record]
Returns(k) == Goes(k, Idle)

\* saveDesiredProfile and the two flips of Auto-APN: an nmcli add or modify.
Save(k, c, f, settings, then) ==
    /\ At(k, "idle")
    /\ Counts
    /\ \/ /\ saved' = [saved EXCEPT ![c] = settings]
          /\ Goes(k, [at |-> then, conn |-> c, on |-> f, settings |-> settings])
       \/ UNCHANGED <<saved, call>>
    /\ UNCHANGED <<active, device, generation, adapterVars, readout>>

\* The profile is read back; what was asked is recorded, not what was read.
ReadProfileBack(k) ==
    /\ At(k, "reading back")
    /\ IF saved[call[k].conn] = NoBearer THEN UNCHANGED slots
       ELSE Slot(call[k].conn, "desired",
                 Bound(call[k].conn, call[k].on, call[k].settings))
    /\ Returns(k)
    /\ UNCHANGED <<nmVars, events, fence, readout>>

\* A flipped profile is activated again, whatever the answer is called.
Reactivate(k) ==
    /\ At(k, "reactivating")
    /\ \/ BringUp(call[k].conn, call[k].on, "activated")
       \/ UNCHANGED <<active, device>>
    /\ Returns(k)
    /\ UNCHANGED <<saved, generation, events, adapterVars, readout>>

-----------------------------------------------------------------------------
(* Applying. *)

\* Mutated: the interface asked for comes before the one in force.
TargetAsked(slot) ==
    IF slot.desired # NoBearer THEN slot.desired.on
    ELSE IF slot.applied # NoBearer THEN slot.applied.on ELSE NoBearer

\* targetIfname: the interface in force, else the one asked for.
Target(slot) ==
    IF slot.applied # NoBearer THEN slot.applied.on
    ELSE IF slot.desired # NoBearer THEN slot.desired.on ELSE NoBearer

Release(c) ==
    /\ Counts
    /\ Target(slots[c]) # NoBearer
    /\ Slot(c, "desired", Unbound(Target(slots[c])))
    /\ UNCHANGED <<nmVars, call, fence, readout>>

\* applyDesired; its generation is the caller's.
Apply(k, c) ==
    /\ At(k, "idle")
    /\ Counts
    /\ slots[c].desired # NoBearer
    /\ Goes(k, [at |-> IF slots[c].desired.conn = NoBearer THEN "looking" ELSE "reading",
                conn |-> c, on |-> slots[c].desired.on, generation |-> generation])
    /\ UNCHANGED <<nmVars, adapterVars, readout>>

\* The profile as NetworkManager holds it, or none any more.
ReadProfile(k) ==
    /\ At(k, "reading")
    /\ LET c == call[k].conn
       IN  IF saved[c] = NoBearer THEN Returns(k)
           ELSE Goes(k, [at |-> "activating", conn |-> c, on |-> call[k].on,
                         generation |-> call[k].generation, read |-> saved[c]])
    /\ UNCHANGED <<nmVars, events, adapterVars, readout>>

Landing(k, bearer) ==
    Goes(k, [at |-> "landing", conn |-> call[k].conn, bearer |-> bearer,
             generation |-> call[k].generation])

\* nmcli connection up: in force, or refused; an nmcli that gave up waiting is
\* refused too, whatever comes of it.
Activate(k) ==
    /\ At(k, "activating")
    /\ LET c == call[k].conn  f == call[k].on
       IN  \/ BringUp(c, f, "activated") /\ Landing(k, Bound(c, f, call[k].read))
           \/ BringUp(c, f, "coming") /\ Returns(k)
           \/ UNCHANGED <<active, device>> /\ Returns(k)
    /\ UNCHANGED <<saved, generation, events, adapterVars, readout>>

\* Which connection is active on the interface; a listing that failed reads as
\* none, and the call answers that there is nothing to take down.
Look(k) ==
    /\ At(k, "looking")
    /\ LET f == call[k].on
       IN  \/ /\ active[f] # NoBearer /\ active[f].conn = call[k].conn
              /\ Goes(k, [call[k] EXCEPT !.at = "disconnecting"])
           \/ Landing(k, Unbound(f))
    /\ UNCHANGED <<nmVars, events, adapterVars, readout>>

\* nmcli device disconnect, of whatever is active by now.
Disconnect(k) ==
    /\ At(k, "disconnecting")
    /\ LET f == call[k].on
       IN  \/ /\ device[f] # "absent"
              /\ TakeDown(f, "disconnected")
              /\ Landing(k, Unbound(f))
           \/ UNCHANGED <<active, device>> /\ Returns(k)
    /\ UNCHANGED <<saved, generation, events, adapterVars, readout>>

Land(k) ==
    /\ At(k, "landing")
    /\ LET bearer == call[k].bearer
       IN  Slot(call[k].conn, "applied",
                [conn |-> bearer.conn, on |-> bearer.on, settings |-> bearer.settings,
                 generation |-> call[k].generation])
    /\ Returns(k)
    /\ UNCHANGED <<nmVars, events, fence, readout>>

-----------------------------------------------------------------------------
(* Observing. *)

\* A complete readout is taken.
Take(r) ==
    /\ readout[r] = NoBearer
    /\ readout' = [readout EXCEPT ![r] =
                      [generation |-> generation, active |-> active, device |-> device]]
    /\ UNCHANGED <<nmVars, events, call, adapterVars>>

\* classifyApplied.
ClassifyApplied(slot, read) ==
    LET applied == slot.applied
        f == Target(slot)
        now == read.active[f]
    IN  IF applied = NoBearer THEN "unapplied"
        ELSE IF read.device[f] \in {"absent", "failed"} THEN "lost"
        ELSE IF applied.conn = NoBearer THEN (IF now = NoBearer THEN "retained" ELSE "lost")
        ELSE IF now = NoBearer \/ now.conn # applied.conn THEN "lost"
        ELSE IF read.device[f] = "activated" THEN "retained"
        ELSE IF read.device[f] \in Transitional THEN "pending" ELSE "lost"

\* What a readout says of an interface: unavailable where it has none.
Seen(f, read) ==
    IF read.device[f] = "absent" THEN [generation |-> read.generation, bearer |-> NoBearer]
    ELSE [generation |-> read.generation,
          bearer |-> IF read.active[f] = NoBearer THEN Unbound(f)
                     ELSE Bound(read.active[f].conn, f, read.active[f].settings)]

Superseded(read) == read.generation < fence

\* foldObservation: a readout of a generation gone by is refused; desired is
\* never touched, applied is cleared where it is contradicted.
Fold(r) ==
    /\ readout[r] # NoBearer
    /\ IF Superseded(readout[r]) THEN UNCHANGED adapterVars
       ELSE /\ fence' = readout[r].generation
            /\ slots' = [c \in Connections |->
                 IF Target(slots[c]) = NoBearer THEN slots[c]
                 ELSE [slots[c] EXCEPT
                         !.observed = Seen(Target(slots[c]), readout[r]),
                         !.applied = IF ClassifyApplied(slots[c], readout[r]) = "lost"
                                     THEN NoBearer ELSE @]]
    /\ readout' = [readout EXCEPT ![r] = NoBearer]
    /\ UNCHANGED <<nmVars, events, call>>

\* compareSlots: what is missing is not the same as agreeing.
Compare(left, right) ==
    IF left = NoBearer \/ right = NoBearer THEN "indeterminate"
    ELSE IF left = right THEN "aligned" ELSE "diverged"

\* describeStateDivergence: did our write happen, and did it stick.
Divergence(slot) ==
    LET applied == IF slot.applied = NoBearer THEN NoBearer
                   ELSE [conn |-> slot.applied.conn, on |-> slot.applied.on,
                         settings |-> slot.applied.settings]
        observed == IF slot.observed = NoBearer THEN NoBearer ELSE slot.observed.bearer
    IN  <<Compare(slot.desired, applied), Compare(applied, observed)>>

CallStep(k) ==
    \/ ReadProfileBack(k) \/ Reactivate(k)
    \/ ReadProfile(k) \/ Activate(k) \/ Look(k) \/ Disconnect(k) \/ Land(k)

BearerNext ==
    \/ Changes \/ Settles
    \/ \E k \in Calls, c \in Connections, f \in Ifnames, settings \in Settings :
          \E then \in {"reading back", "reactivating"} : Save(k, c, f, settings, then)
    \/ \E k \in Calls, c \in Connections : Apply(k, c)
    \/ \E c \in Connections : Release(c)
    \/ \E k \in Calls : CallStep(k)
    \/ \E r \in Readouts : Take(r) \/ Fold(r)

BearerSpec == BearerInit /\ [][BearerNext]_bearerVars

-----------------------------------------------------------------------------
(* Properties. *)

\* What NetworkManager does for a connection is what is said of it.
InForce(claim) ==
    /\ device[claim.on] \notin {"absent", "failed"}
    /\ IF claim.conn = NoBearer THEN active[claim.on] = NoBearer
       ELSE active[claim.on] # NoBearer /\ active[claim.on].conn = claim.conn

\* A readout that is still true clears the claims that are not in force, and
\* no other: a claim is judged on the interface it is about, whatever has been
\* asked for since (adapter.ts:196-200, observe-fold.ts:85-129).  And what then
\* reads as aligned twice is what was asked, in force on its interface, with
\* the settings asked for (state-separation.ts:74-86).
ExactReadoutsSettle ==
    [][\A r \in Readouts, c \in Connections :
         /\ readout[r] # NoBearer /\ readout'[r] = NoBearer
         /\ readout[r] = [generation |-> generation, active |-> active, device |-> device]
         => /\ slots[c].applied # NoBearer =>
                  (slots'[c].applied # NoBearer <=> InForce(slots[c].applied))
            /\ Divergence(slots'[c]) = <<"aligned", "aligned">> =>
                  /\ slots[c].desired # NoBearer /\ InForce(slots[c].desired)
                  /\ slots[c].desired.conn # NoBearer =>
                       active[slots[c].desired.on].settings = slots[c].desired.settings]_bearerVars
=============================================================================
