---------------------------- MODULE ModemIdentity ----------------------------
(***************************************************************************)
(* Who a modem is, across plugs, swaps and moves: the identity ladder      *)
(* (control/src/backend/identity-ladder.ts), the registry of logical rows  *)
(* above it (identity-registry.ts), the mapping to observed rows           *)
(* (mapping.ts) and the gate of policy binding (control/src/domain/).      *)
(*                                                                         *)
(* An equipment id is a model value; "zeros" is the ambiguous placeholder  *)
(* and "blank" what a modem that reports none is given.  Each rung of the  *)
(* ladder is a fact a modem has or lacks: <<rung, value>>.                 *)
(***************************************************************************)
EXTENDS Naturals, FiniteSets, Sequences, SequencesExt

CONSTANTS
    Units,         \* the modems there are
    Sockets,       \* the ports a modem can be in
    Labelled,      \* the ports a udev rule of ours labels with a slot UID
    Imeis,         \* equipment ids in use, besides "zeros" and "blank"
    Nowhere,
    MaxPlugs       \* bound: plugs

ASSUME IdentityAssumption == Labelled \subseteq Sockets /\ IsFiniteSet(Units)

VARIABLES
    imei,      \* of each modem; two may share one
    reports,   \* the rungs ModemManager has facts for: "physdev", "ports"
    socket,    \* where each modem is
    live,      \* the ModemManager object path of each modem that is plugged
    tty,       \* the number the kernel gave its ports: the lowest that is free
    plugs,     \* paths are numbered by plug and never reused
    rows,      \* the registry: [key, equipment, path], in insertion order
    said,      \* the transition each modem made in the refresh that just ended
    fresh      \* no plug since the rows were last brought up to date

identityVars == <<imei, reports, socket, live, tty, plugs, rows, said, fresh>>

Equipments == Imeis \union {"zeros", "blank"}
Plugged == {m \in Units : socket[m] # Nowhere}

IdentityInit ==
    /\ imei \in [Units -> Equipments]
    /\ reports \in SUBSET {"physdev", "ports"}
    /\ socket = [m \in Units |-> Nowhere]
    /\ live = [m \in Units |-> 0] /\ tty = live /\ plugs = 0
    /\ rows = <<>> /\ said = [m \in Units |-> "nothing"]
    /\ fresh = TRUE

-----------------------------------------------------------------------------
(* The ladder. *)

Grade(id) == IF id \in {"zeros", "blank"} THEN "low" ELSE "high"
Equipment(id) == [value |-> id, confidence |-> Grade(id)]
Demote(equipment) == [equipment EXCEPT !.confidence = "low"]

\* A value seen on more than one modem of the batch is ambiguous.
Duplicated(m, batch) ==
    imei[m] # "blank" /\ \E n \in batch \ {m} : imei[n] = imei[m]

\* The slot of the first rung there is a fact for, or none.
Slot(m) ==
    IF socket[m] \in Labelled THEN <<"slot", socket[m]>>
    ELSE IF "physdev" \in reports THEN <<"physdev", socket[m]>>
    ELSE IF "ports" \in reports THEN <<"sysfs", tty[m]>>
    ELSE Nowhere

StableKey(m) ==
    IF Slot(m) # Nowhere THEN Slot(m)
    ELSE IF imei[m] # "blank" THEN <<"equip", imei[m]>>
    ELSE <<"path", live[m]>>

Resolve(m, batch) ==
    [slot |-> Slot(m), key |-> StableKey(m), path |-> live[m],
     equipment |-> IF Duplicated(m, batch) THEN Demote(Equipment(imei[m]))
                                           ELSE Equipment(imei[m])]

-----------------------------------------------------------------------------
(* Binding a policy. *)

CanBindPolicy(identity) == identity.equipment.confidence # "low"
PolicyBindingKey(identity) == <<identity.slot, identity.equipment.value>>

-----------------------------------------------------------------------------
(* The registry. *)

Value(equipment) == IF equipment.value = "blank" THEN Nowhere ELSE equipment.value
RowAt(key, rs) == {i \in DOMAIN rs : rs[i].key = key}

\* The other rows the equipment has.
Elsewhere(row, rs) ==
    {i \in DOMAIN rs : /\ rs[i].key # row.key
                       /\ Value(rs[i].equipment) # Nowhere
                       /\ Value(rs[i].equipment) = Value(row.equipment)}

Replace(row, rs) == [i \in DOMAIN rs |-> IF rs[i].key = row.key THEN row ELSE rs[i]]

\* Mutated: the row of the slot is kept as it was.
ApplyToNobody(row, rs) == [rows |-> rs, kind |-> "replugged"]

\* A row that is there is updated in place: another modem is in the slot, or
\* the same one came back.
ApplyToExisting(row, rs) ==
    LET before == Value(rs[Min(RowAt(row.key, rs))].equipment)
        after == Value(row.equipment)
    IN [rows |-> Replace(row, rs),
        kind |-> IF Nowhere \notin {before, after} /\ before # after
                 THEN "equipment-swapped-in-slot" ELSE "replugged"]

\* A row that is not there: its equipment was elsewhere, and leaves the first
\* row it has, or is new.
ApplyIdentity(row, rs) ==
    IF RowAt(row.key, rs) # {} THEN ApplyToExisting(row, rs)
    ELSE IF Elsewhere(row, rs) # {}
         THEN [rows |-> Append(RemoveAt(rs, Min(Elsewhere(row, rs))), row),
               kind |-> "equipment-moved"]
         ELSE [rows |-> Append(rs, row), kind |-> "attached"]

-----------------------------------------------------------------------------
Quiet == [m \in Units |-> "nothing"]
Changed == fresh' = FALSE /\ said' = Quiet

Plug ==
    \E m \in Units \ Plugged, s \in Sockets :
        /\ plugs < MaxPlugs /\ \A n \in Units : socket[n] # s
        /\ plugs' = plugs + 1
        /\ socket' = [socket EXCEPT ![m] = s]
        /\ live' = [live EXCEPT ![m] = plugs']
        /\ tty' = [tty EXCEPT ![m] =
                      CHOOSE k \in 1..Cardinality(Units) :
                         /\ k \notin {tty[n] : n \in Plugged}
                         /\ \A j \in 1..(k - 1) : j \in {tty[n] : n \in Plugged}]
        /\ Changed
        /\ UNCHANGED <<imei, reports, rows>>

Unplug ==
    \E m \in Plugged :
        /\ socket' = [socket EXCEPT ![m] = Nowhere]
        /\ live' = [live EXCEPT ![m] = 0] /\ tty' = [tty EXCEPT ![m] = 0]
        /\ Changed
        /\ UNCHANGED <<imei, reports, plugs, rows>>

\* One modem of the tree, resolved against the others and folded in.
TakeIn(before, m) ==
    LET step == ApplyIdentity(Resolve(m, Plugged), before.rows)
    IN [rows |-> step.rows, said |-> [before.said EXCEPT ![m] = step.kind]]

\* An authoritative tree: every modem in it is folded into the registry in the
\* order of the tree, which is any order.  folded[n] is what the first n modems
\* make of it.
Refresh ==
    /\ ~fresh
    /\ \E order \in Bijection(1..Cardinality(Plugged), Plugged) :
         LET folded[n \in 0..Cardinality(Plugged)] ==
                IF n = 0 THEN [rows |-> rows, said |-> Quiet]
                ELSE TakeIn(folded[n - 1], order[n])
             done == folded[Cardinality(Plugged)]
         IN rows' = done.rows /\ said' = done.said
    /\ fresh' = TRUE
    /\ UNCHANGED <<imei, reports, socket, live, tty, plugs>>

IdentityNext == Plug \/ Unplug \/ Refresh

IdentitySpec == IdentityInit /\ [][IdentityNext]_identityVars

-----------------------------------------------------------------------------
(* After every refresh a modem that shares its equipment id with no other  *)
(* has a row, at its key, with its equipment and its live path: no swap,   *)
(* move or replug of the others, in any order, takes it away               *)
(* (control/src/backend/identity-registry.ts, "ONE logical row").  And of  *)
(* the modems of one tree no two can be bound to one policy: a duplicate   *)
(* IMEI that reaches the fourth rung is refused.                           *)
RowsAreTrue ==
    /\ fresh => \A m \in Plugged :
        ~Duplicated(m, Units) /\ imei[m] # "zeros" =>
            \E i \in DOMAIN rows :
               /\ rows[i].key = StableKey(m) /\ rows[i].path = live[m]
               /\ rows[i].equipment = Equipment(imei[m])
    /\ \A m, n \in Plugged :
        LET a == Resolve(m, Plugged)
            b == Resolve(n, Plugged)
        IN m # n /\ CanBindPolicy(a) /\ CanBindPolicy(b)
             => PolicyBindingKey(a) # PolicyBindingKey(b)
=============================================================================
