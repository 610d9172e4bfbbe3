----------------------------- MODULE UssdSession -----------------------------
(***************************************************************************)
(* The USSD dialogue of one modem: the session machine                     *)
(* (control/src/ussd/session.ts), the adapter that drives it on the        *)
(* modem's actor (ussd/mm-ussd.ts) and ModemManager's side of the dialogue *)
(* as its three calls see it (ussd/calls.ts).                              *)
(*                                                                         *)
(* A verb is dispatched, the state ModemManager is left in is read back,   *)
(* and the machine settles.  A dialogue the network keeps open is bounded  *)
(* by a timer whose callback queues a task of its own on the actor.        *)
(*                                                                         *)
(* What a call is answered is not kept, only what it leaves behind.        *)
(***************************************************************************)
EXTENDS ModemActor

CONSTANTS UssdCalls, Expiries

VARIABLES
    session,    \* the stored machine of the modem; no entry is "idle"
    timer,      \* an idle bound is armed
    network,    \* the dialogue as ModemManager and the network hold it
    verb,       \* what each call asks
    upc         \* where each call, and each expiry of the timer, is

ussdVars == <<session, timer, network, verb, upc>>
UssdTasks == UssdCalls \union Expiries

InFlight == {"initiating", "responding"}
OpenStates == InFlight \union {"active", "awaiting-reply", "cancelling"}
NetworkStates == {"idle", "active", "awaiting-reply"}

\* The states an event may land on.  "released", "active" and "awaiting-reply"
\* are the three answers of the network.
LegalIn(event) ==
    CASE event = "initiate" -> {"idle"}
      [] event = "respond" -> {"awaiting-reply"}
      [] event = "cancel" -> InFlight \union {"active", "awaiting-reply"}
      [] event = "cancelled" -> {"cancelling"}
      [] event \in {"active", "awaiting-reply", "released"} -> InFlight
      [] event \in {"timeout", "failed"} -> OpenStates

\* Where it leads; a machine that closes is stored as a fresh one.
LeadsTo(event) ==
    CASE event = "initiate" -> "initiating"
      [] event = "respond" -> "responding"
      [] event = "cancel" -> "cancelling"
      [] event \in {"active", "awaiting-reply"} -> event
      [] event \in {"cancelled", "timeout", "failed", "released"} -> "idle"

Verbs == {"initiate", "respond", "cancel"}

UssdInit ==
    /\ session = "idle"
    /\ timer = FALSE
    /\ network = "idle"
    /\ verb = [c \in UssdCalls |-> "none"]
    /\ upc = [t \in UssdTasks |-> "unused"]

-----------------------------------------------------------------------------
(* What the adapter stores. *)

\* Every stored change clears the timer; the task may arm it again.
Store(event, armed) ==
    /\ session' = LeadsTo(event)
    /\ timer' = armed

\* A settling event the machine refuses leaves it, and its timer, alone.
SettleUssd(event, armed) ==
    IF session \in LegalIn(event)
    THEN Store(event, armed)
    ELSE /\ session' = session
         /\ timer' = (timer \/ armed)

Finish(t) ==
    /\ upc' = [upc EXCEPT ![t] = "done"]
    /\ Settle(t)

GoTo(t, place) ==
    /\ upc' = [upc EXCEPT ![t] = place]
    /\ UNCHANGED queue

-----------------------------------------------------------------------------
(* The verbs. *)

Ask(c, v) ==
    /\ upc[c] = "unused"
    /\ c = CHOOSE x \in UssdCalls : upc[x] = "unused"
    /\ upc' = [upc EXCEPT ![c] = "queued"]
    /\ verb' = [verb EXCEPT ![c] = v]
    /\ Run(c)
    /\ UNCHANGED <<session, timer, network>>

Passes(c) == session \in LegalIn(verb[c])

\* The verb at the head of the chain is put to the machine: a refusal leaves
\* the dialogue as it is and dials nothing.
Gate(c) ==
    /\ AtHead(c) /\ upc[c] = "queued"
    /\ IF Passes(c)
       THEN /\ Store(verb[c], FALSE)
            /\ GoTo(c, "calling")
       ELSE Finish(c) /\ UNCHANGED <<session, timer>>
    /\ UNCHANGED <<network, verb>>

\* ModemManager takes a call, or the call never reaches it.  A dialogue opens
\* where none is, advances where it asked, and closes where there is one.
Taken(v) ==
    CASE v = "initiate" /\ network = "idle" -> NetworkStates
      [] v = "respond" /\ network = "awaiting-reply" -> NetworkStates
      [] v = "cancel" /\ network # "idle" -> {"idle"}
      [] OTHER -> {}

\* The call ends: answered, answered by an error, or timed out after it was
\* taken, its answer lost.
Called(c) ==
    /\ AtHead(c) /\ upc[c] = "calling" /\ c \in UssdCalls
    /\ \/ /\ network' \in Taken(verb[c])
          /\ \/ GoTo(c, "failing") /\ UNCHANGED <<session, timer>>
             \/ /\ verb[c] # "cancel"
                /\ GoTo(c, "reading")
                /\ UNCHANGED <<session, timer>>
             \/ /\ verb[c] = "cancel"
                /\ SettleUssd("cancelled", FALSE)
                /\ Finish(c)
       \/ GoTo(c, "failing") /\ UNCHANGED <<session, timer, network>>
    /\ UNCHANGED verb

\* The dialogue the network keeps open is bounded, whether or not it asked.
Bounded(answer) == answer # "released"

\* The state read back; one that cannot be read counts as released.
ReadBack(c) ==
    /\ AtHead(c) /\ upc[c] = "reading"
    /\ \E answer \in {IF network = "idle" THEN "released" ELSE network, "released"} :
          SettleUssd(answer, Bounded(answer))
    /\ Finish(c)
    /\ UNCHANGED <<network, verb>>

\* The registration has been read to classify the failure.
Fail(c) ==
    /\ AtHead(c) /\ upc[c] = "failing"
    /\ SettleUssd("failed", FALSE)
    /\ Finish(c)
    /\ UNCHANGED <<network, verb>>

-----------------------------------------------------------------------------
(* The idle bound. *)

\* Mutated: the callback closes nothing.
FireAway(e) == timer' = FALSE /\ UNCHANGED <<upc, queue>>

Fire(e) ==
    /\ timer' = FALSE
    /\ upc' = [upc EXCEPT ![e] = "queued"]
    /\ Run(e)

TimerFires(e) ==
    /\ timer
    /\ upc[e] \in {"unused", "done"}
    /\ Fire(e)
    /\ UNCHANGED <<session, network, verb>>

\* The machine closes first; the modem is then asked to cancel.
Expire(e) ==
    /\ AtHead(e) /\ upc[e] = "queued" /\ e \in Expiries
    /\ IF session = "idle"
       THEN Finish(e) /\ UNCHANGED <<session, timer>>
       ELSE SettleUssd("timeout", FALSE) /\ GoTo(e, "calling")
    /\ UNCHANGED <<network, verb>>

\* Whatever becomes of the cancel, it is not looked at.
Released(e) ==
    /\ AtHead(e) /\ upc[e] = "calling" /\ e \in Expiries
    /\ network' \in {network} \union Taken("cancel")
    /\ Finish(e)
    /\ UNCHANGED <<session, timer, verb>>

\* The network ends the dialogue on its own; nobody is told.
NetworkEnds ==
    /\ network # "idle"
    /\ network' = "idle"
    /\ UNCHANGED <<queue, session, timer, verb, upc>>

UssdStep(t) ==
    \/ t \in UssdCalls /\ (Gate(t) \/ Called(t) \/ ReadBack(t) \/ Fail(t))
    \/ t \in Expiries /\ (Expire(t) \/ Released(t))

-----------------------------------------------------------------------------
(* Properties. *)

\* Every dialogue ends, whoever forgets it and whatever reply is lost.
SessionsEnd == session # "idle" ~> session = "idle"

=============================================================================
