------------------------------- MODULE SmsInbox -------------------------------
(***************************************************************************)
(* The inbox of one modem: the Messaging adapter, which lists once and     *)
(* then follows signals (control/src/sms/dbus-messaging.ts), and the rows  *)
(* its events fold into (sms/inbox-store.ts, sms/normalize.ts), over a bus *)
(* that drops and reconnects and a modem that may leave a call unanswered. *)
(*                                                                         *)
(* A message is its index; what it says, and the carrier's timestamp, are  *)
(* not modelled: newest is highest.  The modem's storage is the            *)
(* environment: it changes at any moment.                                  *)
(***************************************************************************)
EXTENDS Integers, FiniteSets, FiniteSetsExt

CONSTANTS
    Messages,   \* indices of the messages that may arrive
    Cap         \* messages a pass reads

ASSUME InboxAssumption == Messages \subseteq Int

VARIABLES
    stored,     \* the modem's storage
    rows,       \* the rows of the consumer's store
    up,         \* the bus is connected
    wiring,     \* where the first observe() is: "dead" when it failed
    hears,      \* the signals the transport delivers
    opening,    \* messages whose Added is being read
    pass,       \* the pass over the list that is under way
    arrived,    \* messages that have been seen: an index is used once
    unheard,    \* history: what changed without a signal since the last list
    doubt       \* history: what the last pass, and every signal since, left open

smsVars == <<stored, rows, up, wiring, hears, opening, pass, arrived, unheard, doubt>>

Newest(set) ==
    {m \in set : Cardinality({n \in set : n > m}) < Cap}

\* What a pass still has to read, has read, and (history) did not take in:
\* a message beyond the cap, one whose read failed, one that came or went
\* behind its back.
NoPass == [at |-> "none", todo |-> {}, got |-> {}, missed |-> {}]
Asked == [NoPass EXCEPT !.at = "asked"]

SmsInit ==
    /\ stored = {} /\ rows = {} /\ opening = {} /\ arrived = {}
    /\ up = TRUE
    /\ wiring = "off"
    /\ hears = {}
    /\ pass = NoPass
    /\ unheard = {} /\ doubt = {}

Hears(signal) == up /\ signal \in hears

-----------------------------------------------------------------------------
(* Wiring. *)

\* observe subscribes Added, then Deleted, then lists; a subscription made on
\* a bus that is down waits for the bus.
Wire ==
    /\ \/ /\ wiring = "off"
          /\ wiring' = "added"
          /\ hears' = {"Added"}
          /\ UNCHANGED pass
       \/ /\ wiring = "added"
          /\ wiring' = "wired"
          /\ hears' = {"Added", "Deleted"}
          /\ pass' = IF up THEN Asked ELSE pass
    /\ UNCHANGED <<stored, rows, up, opening, arrived, unheard, doubt>>

-----------------------------------------------------------------------------
(* The modem's storage, and the signals about it. *)

Arrives(m) ==
    /\ m \notin arrived
    /\ arrived' = arrived \union {m}
    /\ stored' = stored \union {m}
    /\ IF Hears("Added") THEN opening' = opening \union {m} /\ UNCHANGED unheard
                         ELSE unheard' = unheard \union {m} /\ UNCHANGED opening
    /\ UNCHANGED <<rows, up, wiring, hears, pass, doubt>>

\* The row goes with the signal.  But when the message's own Added is being
\* read, and the answer and the signal come in one chunk, the signal is
\* dispatched before what awaits the answer: the row is put back.
Leaves(m) ==
    /\ m \in stored
    /\ stored' = stored \ {m}
    /\ pass' = [pass EXCEPT !.missed = @ \union (pass.got \intersect {m})]
    /\ \/ /\ Hears("Deleted")
          /\ rows' = rows \ {m} /\ doubt' = doubt \ {m}
          /\ UNCHANGED <<opening, unheard>>
       \/ /\ Hears("Deleted") /\ m \in opening
          /\ opening' = opening \ {m}
          /\ rows' = rows \union {m} /\ doubt' = doubt \union {m}
          /\ UNCHANGED unheard
       \/ /\ ~Hears("Deleted")
          /\ unheard' = unheard \union {m}
          /\ UNCHANGED <<rows, opening, doubt>>
    /\ UNCHANGED <<up, wiring, hears, arrived>>

\* The read of an Added message: one that vanished is skipped, and so is one
\* whose read failed.  A list answered before it arrived does not have it.
Open(m) ==
    /\ m \in opening
    /\ opening' = opening \ {m}
    /\ LET held == stored \intersect {m}
       IN  /\ \/ rows' = rows \union held /\ UNCHANGED doubt
              \/ doubt' = doubt \union held /\ UNCHANGED rows
           /\ pass' = IF pass.at = "reading"
                      THEN [pass EXCEPT !.missed = @ \union (held \ (pass.todo \union pass.got))]
                      ELSE pass
    /\ UNCHANGED <<stored, up, wiring, hears, arrived, unheard>>

-----------------------------------------------------------------------------
(* A pass over the list. *)

\* Messaging.List, cut to the paths worth reading.
ListAnswers ==
    /\ pass.at = "asked"
    /\ pass' = [at |-> "reading", todo |-> Newest(stored), got |-> {},
                missed |-> stored \ Newest(stored)]
    /\ unheard' = {}
    /\ UNCHANGED <<stored, rows, up, wiring, hears, opening, arrived, doubt>>

\* Nothing is folded, and nothing lists again before the next reconnect.
ListFails ==
    /\ pass.at = "asked"
    /\ pass' = NoPass
    /\ doubt' = doubt \union unheard /\ unheard' = {}
    /\ UNCHANGED <<stored, rows, up, wiring, hears, opening, arrived>>

\* One that vanished, or whose read failed, is left out.
ReadOne ==
    /\ pass.todo # {}
    /\ LET m == Max(pass.todo)
           held == stored \intersect {m}
       IN  \/ pass' = [pass EXCEPT !.todo = @ \ {m}, !.got = @ \union held]
           \/ pass' = [pass EXCEPT !.todo = @ \ {m}, !.missed = @ \union held]
    /\ UNCHANGED <<stored, rows, up, wiring, hears, opening, arrived, unheard, doubt>>

\* Mutated: the list is merged into the rows.
ResyncedMerging(got) == rows \union got

\* The list replaces the rows.
Resynced(got) == got

EndPass ==
    /\ pass.at = "reading" /\ pass.todo = {}
    /\ rows' = Resynced(pass.got)
    /\ doubt' = pass.missed
    /\ pass' = NoPass
    /\ UNCHANGED <<stored, up, wiring, hears, opening, arrived, unheard>>

-----------------------------------------------------------------------------
(* The bus. *)

\* Every call in flight fails: an Added is lost, a list too, a pass ends with
\* what it has, and wiring that was still subscribing is over for good.
BusDrops ==
    /\ up
    /\ up' = FALSE
    /\ opening' = {} /\ unheard' = unheard \union opening
    /\ pass' = IF pass.at = "reading"
               THEN [pass EXCEPT !.todo = {}, !.missed = @ \union pass.todo]
               ELSE NoPass
    /\ wiring' = IF wiring = "added" THEN "dead" ELSE wiring
    /\ UNCHANGED <<stored, rows, hears, arrived, doubt>>

\* The rules are issued again, and an inbox that is wired lists again.  A pass
\* that the drop has cut short waits for nothing, and has ended by then.
BusReturns ==
    /\ ~up /\ pass = NoPass
    /\ up' = TRUE
    /\ pass' = IF wiring = "wired" THEN Asked ELSE pass
    /\ UNCHANGED <<stored, rows, wiring, hears, opening, arrived, unheard, doubt>>

SmsNext ==
    \/ Wire
    \/ \E m \in Messages : Arrives(m) \/ Leaves(m) \/ Open(m)
    \/ ListAnswers \/ ListFails \/ ReadOne \/ EndPass
    \/ BusDrops \/ BusReturns

SmsSpec == SmsInit /\ [][SmsNext]_smsVars

-----------------------------------------------------------------------------
(* Properties. *)

\* Once wired, a store at rest shows what the modem holds, whatever arrived,
\* was deleted or was being read while the bus was away (inbox-store.ts:13-18:
\* merging would keep a message deleted during the outage forever).  It may be
\* wrong, until the next pass, only about a message that the last pass could
\* not take in (beyond the cap, its read failed, it came or went after the
\* list was answered or its read was), about one whose own read failed or was
\* overtaken by its Deleted, and about what changed during an outage if the
\* list after it failed.
InboxConverges ==
    up /\ wiring = "wired" /\ opening = {} /\ pass = NoPass =>
        \A m \in Messages \ doubt : m \in rows <=> m \in stored
=============================================================================
