------------------------ MODULE DisruptiveOperations ------------------------
(***************************************************************************)
(* One modem, its USB-mode transitions (UsbModeTransition) and its         *)
(* recovery ladder (RecoveryLadder) together, on the actor and the         *)
(* interlock that both are constructed with.                               *)
(*                                                                         *)
(* The two share no variable but those of ModemActor: what a rung does to  *)
(* the modem is not part of either, so the bus and ModemManager are the    *)
(* transition's as before.                                                 *)
(***************************************************************************)
EXTENDS ModemActor

CONSTANTS
    Transitions, Modes, None, Plans, MaxDrops,
    Runs, Allowed, MaxAttempts, Cooldown, PowerHook, MaxTime

ASSUME CallsAssumption == Transitions \intersect Runs = {}

VARIABLES
    tpc, plan, target, lease, outcome, inhibited, quiesces, sweeping, linked,
    present, mode, stored, resetting, air, drops, spoilt,
    lpc, rung, report, budget, powerQueue, clock, admitted

Transition == INSTANCE UsbModeTransition
Recovery == INSTANCE RecoveryLadder

transitionVars == <<tpc, plan, target, lease, outcome, inhibited, quiesces,
                    sweeping, linked, present, mode, stored, resetting, air,
                    drops, spoilt>>
ladderVars == <<lpc, rung, report, budget, powerQueue, clock, admitted>>
vars == <<sharedVars, transitionVars, ladderVars>>

Init ==
    /\ SharedInit
    /\ Transition!TransitionInit
    /\ Recovery!LadderInit

\* A stream that starts slips past every verdict that is already taken.
Streams ==
    /\ \/ StartStream(Transition!PastVerdict \union Recovery!OnTheirWay)
       \/ StopStream
    /\ UNCHANGED <<transitionVars, ladderVars>>

Next ==
    \/ Transition!TransitionNext /\ UNCHANGED ladderVars
    \/ Recovery!LadderNext /\ UNCHANGED transitionVars
    \/ Streams

Spec == Init /\ [][Next]_vars

FairSpec ==
    /\ Spec
    /\ \A t \in Transitions : WF_vars(Transition!Step(t) /\ UNCHANGED ladderVars)
    /\ \A r \in Runs : WF_vars(Recovery!LadderStep(r) /\ UNCHANGED transitionVars)

-----------------------------------------------------------------------------
(* Properties. *)

\* Calls whose task is the one at work on the modem.
AtWork ==
    {t \in Transitions : tpc[t] \in Transition!InActor}
    \union {r \in Runs : lpc[r] \in Recovery!Working}

\* No rung of the ladder works on the modem while a transition does, nor two
\* of either (modem-actor.ts:3-6: two disruptive ops on one modem can never
\* interleave; recovery-ladder.ts:5-6: every disruptive rung routes through the
\* shared actor).
DisruptionsExclusive == \A a, b \in AtWork : a = b

\* The guarantee both give a live stream survives their composition: neither
\* disrupts one but for what each lets slip.
StreamsAreSafe == Transition!StreamsAreSafe /\ Recovery!StreamsAreSafe

\* The chain of promises is live: a rung behind a transition whose AT port
\* never answers, and a transition behind a rung that rejects, get their turn.
EveryDisruptionEnds ==
    /\ Transition!EveryTransitionAnswers
    /\ Recovery!EveryRunEnds
=============================================================================
