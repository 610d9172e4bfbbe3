------------------------- MODULE UsbModeTransition --------------------------
(***************************************************************************)
(* The certified USB-mode transition of one modem                          *)
(* (control/src/backend/usb-mode-transition.ts and the files beside it)    *)
(* over the AT lease with its watchdog (at-lease.ts), the quiesce leases   *)
(* of NmcliNmPort (nmcli-nm-port.ts) and ModemManager's inhibition         *)
(* (mm-mutations/inhibit.ts).                                              *)
(*                                                                         *)
(* One element of Transitions is one call of execute; tpc[t] names the     *)
(* promise it waits for.  Time is not counted: a deadline may pass, and a  *)
(* lease may be past its time to live, whenever the code would look.       *)
(***************************************************************************)
EXTENDS ModemActor

CONSTANTS
    Transitions,  \* calls of UsbModeTransition.execute, all about one modem
    Modes,        \* compositions the modem may enumerate in
    None,
    Plans,        \* how the requests are carried out and proved
    MaxDrops      \* bound: times the modem leaves the bus of its own accord

ASSUME NoneAssumption == None \notin Transitions
ASSUME MaxDropsAssumption == MaxDrops \in Nat

VARIABLES
    tpc,        \* the promise each call waits for
    plan,       \* what the preconditions made of the request
    target,     \* the mode the request asks for
    lease,      \* the transaction's own variable: an inhibit lease is in hand
    outcome,    \* the outcome a call is about to report or has reported
    inhibited,  \* ModemManager: who has the device inhibited
    quiesces,   \* NmcliNmPort.#leases, by the call that took each
    sweeping,   \* expired leases whose reactivation is under way
    linked,     \* the last nmcli command that worked brought the connection up
    present,    \* the modem is on the USB bus
    mode,       \* the composition it enumerated in
    stored,     \* the composition it will enumerate in next
    resetting,  \* it is about to leave the bus
    air,        \* commands that timed out and may yet take effect
    drops,      \* times the modem left the bus of its own accord
    spoilt      \* history: <<t, what>>, a call that takes ("taking") an inhibition
                \* lost its reply, or one that gives something back failed

deviceVars == <<present, mode, stored, resetting, air, drops>>
linkVars == <<quiesces, sweeping, linked>>
transitionVars == <<tpc, plan, target, lease, outcome, inhibited, linkVars,
                    deviceVars, spoilt>>
vars == <<sharedVars, transitionVars>>

\* A plan proved by the catalog's descriptors may need a second, applying,
\* command; one proved by the vendor's own read never does.
Plan == {"catalog", "catalogApply", "runtime"}

ASSUME PlansAssumption == Plans \subseteq Plan

Applies(t) == plan[t] = "catalogApply"

InActor == {"recheck", "hold", "quiesce", "inhibit", "switch", "apply", "watchdog",
            "drop", "uninhibit", "reenumerate", "readback", "activate",
            "catch", "reprobe", "releaseQuiesce", "releaseHold"}

\* From the quiesce on, the modem is being disrupted.
Disrupting == InActor \ {"recheck", "hold", "releaseHold"}

TransitionInit ==
    /\ tpc = [t \in Transitions |-> "idle"]
    /\ plan \in [Transitions -> Plans]
    /\ target \in [Transitions -> Modes]
    /\ lease = [t \in Transitions |-> FALSE]
    /\ outcome = [t \in Transitions |-> "none"]
    /\ inhibited = None
    /\ quiesces = {}
    /\ sweeping = {}
    /\ linked = TRUE
    /\ present = TRUE
    /\ mode \in Modes
    /\ stored = mode
    /\ resetting = FALSE
    /\ air = {}
    /\ drops = 0
    /\ spoilt = {}

Go(t, where) == tpc' = [tpc EXCEPT ![t] = where]

Report(t, what) == outcome' = [outcome EXCEPT ![t] = what]

Spoil(t, what) == spoilt' = spoilt \union {<<t, what>>}

-----------------------------------------------------------------------------
(* Before the actor. *)

\* The call: what the request itself settles is refused on the spot.
Execute(t) ==
    /\ tpc[t] = "idle"
    /\ \/ Go(t, "entry") /\ UNCHANGED outcome
       \/ Go(t, "answered") /\ Report(t, "refused")
    /\ UNCHANGED <<sharedVars, plan, target, lease, inhibited, linkVars,
                   deviceVars, spoilt>>

\* checkTransitionPreconditions at entry: the readiness probe, then canDisrupt.
EntryChecked(t) ==
    /\ tpc[t] = "entry"
    /\ \/ /\ Admits
          /\ Go(t, "queued")
          /\ Run(t)
          /\ UNCHANGED outcome
       \/ \E r \in {"refused", "rejected"} :
             Go(t, "answered") /\ Report(t, r) /\ UNCHANGED queue
    /\ UNCHANGED <<streaming, holds, slipped, plan, target, lease, inhibited,
                   linkVars, deviceVars, spoilt>>

EnterActor(t) ==
    /\ tpc[t] = "queued"
    /\ AtHead(t)
    /\ Go(t, "recheck")
    /\ UNCHANGED <<sharedVars, plan, target, lease, outcome, inhibited,
                   linkVars, deviceVars, spoilt>>

\* The same checks again, on the live inputs.
Rechecked(t) ==
    /\ tpc[t] = "recheck"
    /\ \/ /\ Admits
          /\ Go(t, "hold")
          /\ slipped' = slipped \ {t}
          /\ UNCHANGED <<queue, outcome>>
       \/ /\ \E r \in {"refused", "rejected"} : Report(t, r)
          /\ Go(t, "answered")
          /\ Settle(t)
          /\ UNCHANGED slipped
    /\ UNCHANGED <<streaming, holds, plan, target, lease, inhibited, linkVars,
                   deviceVars, spoilt>>

\* interlock.hold resolved, or rejected.
Held(t) ==
    /\ tpc[t] = "hold"
    /\ \/ /\ holds' = holds \union {t}
          /\ Go(t, "quiesce")
          /\ UNCHANGED <<queue, outcome>>
       \/ /\ Go(t, "answered")
          /\ Report(t, "rejected")
          /\ Settle(t)
          /\ UNCHANGED holds
    /\ UNCHANGED <<streaming, slipped, plan, target, lease, inhibited,
                   linkVars, deviceVars, spoilt>>

-----------------------------------------------------------------------------
(* The ways out of the transaction. *)

\* Mutated: a transaction that fails leaves its inhibition as it is.
UnwindInhibited(t) ==
    /\ Go(t, "reprobe")
    /\ UNCHANGED lease

\* The catch block: forceUninhibit if a lease is in hand, then reprobe.
Unwind(t) ==
    /\ Go(t, IF lease[t] THEN "catch" ELSE "reprobe")
    /\ lease' = [lease EXCEPT ![t] = FALSE]

Fail(t) == Report(t, "failed") /\ Unwind(t)

\* A call of the transaction rejected, with nothing of its own to show for it.
Rejects(t) ==
    /\ Fail(t)
    /\ UNCHANGED <<sharedVars, plan, target, inhibited, linkVars, deviceVars,
                   spoilt>>

-----------------------------------------------------------------------------
(* Quiesce and inhibit. *)

\* NmcliNmPort.acquireQuiesceLease: whether the disconnect worked is not read.
Quiesced(t) ==
    /\ tpc[t] = "quiesce"
    /\ linked' \in {linked, FALSE}
    /\ \/ /\ quiesces' = quiesces \union {t}
          /\ Go(t, "inhibit")
          /\ UNCHANGED <<outcome, spoilt>>
       \* outside the try block: the call rejects and only the hold is released
       \/ /\ Go(t, "releaseHold")
          /\ Report(t, "rejected")
          /\ Spoil(t, "link")
          /\ UNCHANGED quiesces
    /\ UNCHANGED <<sharedVars, plan, target, lease, inhibited, sweeping,
                   deviceVars>>

\* InhibitDevice(uid, true).  ModemManager refuses a device already inhibited.
\* A call whose reply is lost may have inhibited it: the transaction then has no
\* lease in hand, and nothing of it ever tries to give the inhibition back.
Inhibited(t) ==
    /\ tpc[t] = "inhibit"
    /\ \/ /\ inhibited = None
          /\ inhibited' = t
          /\ lease' = [lease EXCEPT ![t] = TRUE]
          /\ Go(t, "switch")
          /\ UNCHANGED <<outcome, spoilt>>
       \/ /\ inhibited = None
          /\ inhibited' = t
          /\ Spoil(t, "taking")
          /\ Fail(t)
       \/ UNCHANGED <<inhibited, spoilt>> /\ Fail(t)
    /\ UNCHANGED <<sharedVars, plan, target, linkVars, deviceVars>>

-----------------------------------------------------------------------------
(* The AT commands. *)

Commands == {"switch", "apply", "readback"}

\* A command takes effect in the modem: the switch writes the composition, and
\* the command that is to apply it makes the modem re-enumerate.
TakesEffect(t, command) ==
    CASE command = "switch" ->
           /\ stored' = target[t]
           /\ resetting' = (resetting \/ ~Applies(t))
      [] command = "apply" -> resetting' = TRUE /\ UNCHANGED stored
      [] OTHER -> UNCHANGED <<stored, resetting>>

NextCommand(t) ==
    IF tpc[t] = "switch" /\ Applies(t) THEN "apply" ELSE "drop"

\* The modem answered: OK and ERROR are the same to the transaction.
CommandAnswered(t) ==
    /\ tpc[t] \in {"switch", "apply"}
    /\ \/ TakesEffect(t, tpc[t])
       \/ UNCHANGED <<stored, resetting>>
    /\ Go(t, NextCommand(t))
    /\ UNCHANGED <<sharedVars, plan, target, lease, outcome, inhibited,
                   linkVars, present, mode, air, drops, spoilt>>

\* The sender rejected before or after the command went out.
CommandRejected(t) ==
    /\ tpc[t] \in Commands
    /\ \/ TakesEffect(t, tpc[t])
       \/ UNCHANGED <<stored, resetting>>
    /\ Fail(t)
    /\ UNCHANGED <<sharedVars, plan, target, inhibited, linkVars, present,
                   mode, air, drops, spoilt>>

\* After onWatchdog the run rejects, and the transaction fails.
AfterWatchdog(t) == Go(t, "reprobe") /\ Report(t, "failed")

\* The watchdog fired: onWatchdog takes the lease and uninhibits.  The command
\* may still take effect.
CommandTimedOut(t) ==
    /\ tpc[t] \in Commands
    /\ air' = air \union ({<<t, tpc[t]>>} \ {<<t, "readback">>})
    /\ lease' = [lease EXCEPT ![t] = FALSE]
    /\ IF lease[t] THEN Go(t, "watchdog") /\ UNCHANGED outcome
                   ELSE AfterWatchdog(t)
    /\ UNCHANGED <<sharedVars, plan, target, inhibited, linkVars, present,
                   mode, stored, resetting, drops, spoilt>>

-----------------------------------------------------------------------------
(* Uninhibiting. *)

\* InhibitDevice(uid, false) answered; an error may follow its effect.
Releases(t) ==
    \/ inhibited' = IF inhibited = t THEN None ELSE inhibited
    \/ inhibited' = inhibited

\* What ModemManager's answer leaves behind, for a call that discards errors.
Uninhibits(t) ==
    \/ inhibited = t /\ inhibited' = None /\ UNCHANGED spoilt
    \/ Releases(t) /\ Spoil(t, "inhibit")

\* The watchdog's uninhibit settled (its error is discarded).
WatchdogUninhibited(t) ==
    /\ tpc[t] = "watchdog"
    /\ Uninhibits(t)
    /\ AfterWatchdog(t)
    /\ UNCHANGED <<sharedVars, plan, target, lease, linkVars, deviceVars>>

\* The planned uninhibit.  The lease was put away before the call, so when the
\* call rejects nobody tries again.
Uninhibited(t) ==
    /\ tpc[t] = "uninhibit"
    /\ \/ /\ inhibited' = None
          /\ inhibited = t
          /\ Go(t, "reenumerate")
          /\ UNCHANGED <<lease, outcome, spoilt>>
       \/ Releases(t) /\ Spoil(t, "inhibit") /\ Fail(t)
    /\ UNCHANGED <<sharedVars, plan, target, linkVars, deviceVars>>

\* forceUninhibit of the catch block (its error is discarded).
ForceUninhibited(t) ==
    /\ tpc[t] = "catch"
    /\ Uninhibits(t)
    /\ Go(t, "reprobe")
    /\ UNCHANGED <<sharedVars, plan, target, lease, outcome, linkVars,
                   deviceVars>>

-----------------------------------------------------------------------------
(* Re-enumeration and proof. *)

\* awaitPortDrop saw no device of the cached UID.
PortDropped(t) ==
    /\ tpc[t] = "drop"
    /\ ~present
    /\ lease' = [lease EXCEPT ![t] = FALSE]
    /\ Go(t, IF lease[t] THEN "uninhibit" ELSE "reenumerate")
    /\ UNCHANGED <<sharedVars, plan, target, outcome, inhibited, linkVars,
                   deviceVars, spoilt>>

\* A deadline passed, or the enumeration rejected.
WaitFailed(t) ==
    /\ tpc[t] \in {"drop", "reenumerate"}
    /\ Rejects(t)

\* Mutated: a transition whose commands were answered is taken for done.
ProvedByAnswer(t) == TRUE

\* The postcondition: the bus shows the composition asked for, or, for a runtime
\* plan, the vendor's read reports it.  Whether that read tells the composition
\* the modem is in or the one it is set to is up to the vendor, and the modem may
\* have left the bus since it answered.
Reports(m) == m \in {mode, stored}

Proved(t) ==
    IF plan[t] = "runtime" THEN Reports(target[t])
    ELSE present /\ mode = target[t]

\* The postcondition holds and the new interface has a name: reactivate.
\* Otherwise return a failure, through the finally block.
Conclude(t) ==
    \/ /\ Proved(t)
       /\ Go(t, "activate")
       /\ UNCHANGED outcome
    \/ Go(t, "releaseQuiesce") /\ Report(t, "failed")

\* awaitDevice found the device of the cached UID; a catalog plan is judged on
\* the snapshot at once, a runtime plan asks the modem.
Reenumerated(t) ==
    /\ tpc[t] = "reenumerate"
    /\ present
    /\ IF plan[t] = "runtime" THEN Go(t, "readback") /\ UNCHANGED outcome
                              ELSE Conclude(t)
    /\ UNCHANGED <<sharedVars, plan, target, lease, inhibited, linkVars,
                   deviceVars, spoilt>>

ReadBack(t) ==
    /\ tpc[t] = "readback"
    /\ Conclude(t)
    /\ UNCHANGED <<sharedVars, plan, target, lease, inhibited, linkVars,
                   deviceVars, spoilt>>

-----------------------------------------------------------------------------
(* Giving everything back. *)

\* nmcli connection up: it may fail, and nobody asks.
BringsUp(t) ==
    \/ present /\ linked' = TRUE /\ UNCHANGED spoilt
    \/ linked' = linked /\ Spoil(t, "link")

\* NetworkManagerPort.activate answered; a failed receipt is a success too.
Activated(t) ==
    /\ tpc[t] = "activate"
    /\ BringsUp(t)
    /\ Report(t, "succeeded")
    /\ Go(t, "releaseHold")
    /\ UNCHANGED <<sharedVars, plan, target, lease, inhibited, quiesces,
                   sweeping, deviceVars>>

ActivateRejected(t) ==
    /\ tpc[t] = "activate"
    /\ linked' \in {linked, TRUE}
    /\ Fail(t)
    /\ UNCHANGED <<sharedVars, plan, target, inhibited, quiesces, sweeping,
                   deviceVars, spoilt>>

Reprobed(t) ==
    /\ tpc[t] = "reprobe"
    /\ Go(t, "releaseQuiesce")
    /\ UNCHANGED <<sharedVars, plan, target, lease, outcome, inhibited,
                   linkVars, deviceVars, spoilt>>

\* Mutated: a lease is released without bringing the connection up.
QuiesceDropped(t) ==
    /\ tpc[t] = "releaseQuiesce"
    /\ quiesces' = quiesces \ {t}
    /\ Go(t, "releaseHold")
    /\ UNCHANGED <<sharedVars, plan, target, lease, outcome, inhibited,
                   sweeping, linked, deviceVars, spoilt>>

\* releaseQuiesceLease: a lease the sweep has taken is left to the sweep.
QuiesceReleased(t) ==
    /\ tpc[t] = "releaseQuiesce"
    /\ quiesces' = quiesces \ {t}
    /\ IF t \in quiesces THEN BringsUp(t) ELSE UNCHANGED <<linked, spoilt>>
    /\ Go(t, "releaseHold")
    /\ UNCHANGED <<sharedVars, plan, target, lease, outcome, inhibited,
                   sweeping, deviceVars>>

\* The last finally block; an error of the release is discarded.
HoldReleased(t) ==
    /\ tpc[t] = "releaseHold"
    /\ \/ holds' = holds \ {t} /\ UNCHANGED spoilt
       \/ holds' = holds /\ Spoil(t, "hold")
    /\ Go(t, "answered")
    /\ Settle(t)
    /\ UNCHANGED <<streaming, slipped, plan, target, lease, outcome, inhibited,
                   linkVars, deviceVars>>

-----------------------------------------------------------------------------
(* The world. *)

\* NmcliNmPort.sweepExpiredLeases takes a lease past its time to live ...
SweepLease(t) ==
    /\ t \in quiesces
    /\ quiesces' = quiesces \ {t}
    /\ sweeping' = sweeping \union {t}
    /\ UNCHANGED <<sharedVars, tpc, plan, target, lease, outcome, inhibited,
                   linked, deviceVars, spoilt>>

\* ... and reactivates its connection.
Swept(t) ==
    /\ t \in sweeping
    /\ sweeping' = sweeping \ {t}
    /\ BringsUp(t)
    /\ UNCHANGED <<sharedVars, tpc, plan, target, lease, outcome, inhibited,
                   quiesces, deviceVars>>

\* A command that timed out takes effect after all.
LateEffect(t) ==
    /\ \E c \in Commands :
          /\ <<t, c>> \in air
          /\ air' = air \ {<<t, c>>}
          /\ TakesEffect(t, c)
    /\ UNCHANGED <<sharedVars, tpc, plan, target, lease, outcome, inhibited,
                   linkVars, present, mode, drops, spoilt>>

LeaveBus ==
    /\ present
    /\ \/ resetting /\ UNCHANGED drops
       \/ drops < MaxDrops /\ drops' = drops + 1
    /\ present' = FALSE
    /\ resetting' = FALSE
    /\ UNCHANGED <<sharedVars, tpc, plan, target, lease, outcome, inhibited,
                   linkVars, mode, stored, air, spoilt>>

ComeBack ==
    /\ ~present
    /\ present' = TRUE
    /\ mode' = stored
    /\ UNCHANGED <<sharedVars, tpc, plan, target, lease, outcome, inhibited,
                   linkVars, stored, resetting, air, drops, spoilt>>

World ==
    \/ \E t \in Transitions : SweepLease(t) \/ Swept(t) \/ LateEffect(t)
    \/ LeaveBus
    \/ ComeBack

\* Calls whose last verdict is taken and whose hold is not.
PastVerdict == {t \in Transitions : tpc[t] = "hold"}

Streams ==
    /\ StartStream(PastVerdict) \/ StopStream
    /\ UNCHANGED transitionVars

\* Everything the code of call t does next.
Step(t) ==
    \/ EntryChecked(t) \/ EnterActor(t) \/ Rechecked(t) \/ Held(t)
    \/ Quiesced(t) \/ Inhibited(t)
    \/ CommandAnswered(t) \/ CommandRejected(t) \/ CommandTimedOut(t)
    \/ WatchdogUninhibited(t) \/ Uninhibited(t) \/ ForceUninhibited(t)
    \/ PortDropped(t) \/ WaitFailed(t) \/ Reenumerated(t) \/ ReadBack(t)
    \/ Activated(t) \/ ActivateRejected(t) \/ Reprobed(t)
    \/ QuiesceReleased(t) \/ HoldReleased(t)

TransitionNext ==
    \/ \E t \in Transitions : Execute(t) \/ Step(t)
    \/ World

Init == SharedInit /\ TransitionInit

Next == TransitionNext \/ Streams

Spec == Init /\ [][Next]_vars

\* A port other than the AT port answers or rejects in the end, and a timer
\* that was armed fires.
FairSpec == Spec /\ \A t \in Transitions : WF_vars(Step(t))

-----------------------------------------------------------------------------
(* Properties. *)

TransitionTypeOK ==
    /\ tpc \in [Transitions -> InActor \union {"idle", "entry", "queued", "answered"}]
    /\ plan \in [Transitions -> Plans]
    /\ target \in [Transitions -> Modes]
    /\ lease \in [Transitions -> BOOLEAN]
    /\ outcome \in [Transitions -> {"none", "refused", "rejected", "failed", "succeeded"}]
    /\ inhibited \in Transitions \union {None}
    /\ quiesces \subseteq Transitions
    /\ sweeping \subseteq Transitions
    /\ linked \in BOOLEAN
    /\ present \in BOOLEAN
    /\ mode \in Modes
    /\ stored \in Modes
    /\ resetting \in BOOLEAN
    /\ air \subseteq Transitions \X Commands
    /\ drops \in 0..MaxDrops
    /\ spoilt \subseteq Transitions \X {"taking", "hold", "inhibit", "link"}

\* Types of the actor's chain, the interlock and the transitions.
TypeOK == SharedTypeOK(Transitions) /\ TransitionTypeOK

\* Two transitions of one modem are never in progress together, whatever the
\* calls of the earlier one answered (modem-actor.ts: two disruptive ops on one
\* modem can never interleave).
OneAtATime ==
    \A t, u \in Transitions : tpc[t] \in InActor /\ tpc[u] \in InActor => t = u

\* A stream that was live when the transition left the queue, or that starts
\* once it holds the interlock, is never disrupted.  What remains is a stream
\* that starts between canDisrupt and hold (usb-mode-transition.ts:117-121).
StreamsAreSafe ==
    \A t \in Transitions : streaming /\ tpc[t] \in Disrupting => t \in slipped

\* A command that changes the modem is out only under the interlock and the
\* inhibition of its own call, also after the watchdog has fired on the command
\* before it.
CommandsUnderLeases ==
    \A t \in Transitions : tpc[t] \in {"switch", "apply"} =>
        t \in holds /\ inhibited = t

\* When a call has answered, on whatever path, the interlock and the
\* inhibition are given back unless the call that gives them back failed, or the
\* inhibition was taken by a call whose reply was lost, which leaves no lease to
\* give back (usb-mode-transition.ts:160) and is a failure.  Only a success
\* leaves its quiesce lease behind (the finally block passes it by).
EverythingGivenBack ==
    \A t \in Transitions : tpc[t] = "answered" =>
        /\ t \in holds => <<t, "hold">> \in spoilt
        /\ inhibited = t =>
              \/ <<t, "inhibit">> \in spoilt
              \/ <<t, "taking">> \in spoilt /\ outcome[t] = "failed"
        /\ t \in quiesces => outcome[t] = "succeeded"

\* With no transition in progress the connection is up again, or an nmcli
\* command failed, or the sweep is about to bring it up.
LinkIsRestored ==
    (\A t \in Transitions : tpc[t] \notin InActor) =>
        linked \/ sweeping # {} \/ \E t \in Transitions : <<t, "link">> \in spoilt

\* The connection is activated for a success only on the proof of its plan, with
\* no command of this call that may still take effect: neither what a command
\* answered nor a watchdog that fired is taken for more than it says.  A plan
\* proved by the catalog finds the modem on the bus in the mode asked for; one
\* proved by the vendor's read only has a modem that reports it, and may not be in
\* it (usb-mode-transition.ts:14-18, usb-mode-transition/outcome.ts).
SuccessIsProved ==
    [][\A t \in Transitions : tpc[t] # "activate" /\ tpc'[t] = "activate" =>
           /\ IF plan[t] = "runtime" THEN target[t] \in {mode, stored}
              ELSE present /\ mode = target[t]
           /\ \A c \in Commands : <<t, c>> \notin air]_vars

\* Every call of execute answers, also when the AT port never does: each wait
\* has its bound, and a failure does not stall the calls behind it.
EveryTransitionAnswers ==
    \A t \in Transitions : tpc[t] = "entry" ~> tpc[t] = "answered"
=============================================================================
