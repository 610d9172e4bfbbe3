---------------------------- MODULE ModemServices ----------------------------
(***************************************************************************)
(* The services of one modem that share its actor: USSD, the SIM's lock    *)
(* and the GNSS switch, as the ModemManager provider constructs them over  *)
(* one ModemActor (control/src/providers/modem-manager/provider.ts).       *)
(*                                                                         *)
(* Events bounds how often the embedder and the network act; what the code *)
(* has begun always runs on.                                               *)
(***************************************************************************)
EXTENDS UssdSession, SimUnlock, GnssLocation

CONSTANT Events

VARIABLE acted  \* events so far

idleVars == <<streaming, holds, slipped>>
vars == <<queue, idleVars, ussdVars, simVars, gnssVars, acted>>

Init ==
    /\ SharedInit
    /\ UssdInit /\ SimInit /\ GnssInit
    /\ acted = 0

Tasks == UssdTasks \union SimCalls \union Toggles

Event ==
    /\ acted < Events
    /\ acted' = acted + 1
    /\ \/ /\ (\E c \in UssdCalls, v \in Verbs : Ask(c, v)) \/ NetworkEnds
          /\ UNCHANGED <<simVars, gnssVars>>
       \/ /\ \E c \in SimCalls, k \in Kinds, right \in BOOLEAN : Unlock(c, k, right)
          /\ UNCHANGED <<ussdVars, gnssVars>>
       \/ /\ \/ \E c \in Toggles, on \in BOOLEAN : Toggle(c, on)
             \/ \E r \in FixReads : ReadSwitch(r)
          /\ UNCHANGED <<ussdVars, simVars>>
    /\ UNCHANGED idleVars

\* A step of the task at work on the actor.
TaskStep(t) ==
    /\ \/ t \in UssdTasks /\ UssdStep(t) /\ UNCHANGED <<simVars, gnssVars>>
       \/ t \in SimCalls /\ SimStep(t) /\ UNCHANGED <<ussdVars, gnssVars>>
       \/ GnssStep(t) /\ UNCHANGED <<ussdVars, simVars>>
    /\ UNCHANGED <<idleVars, acted>>

TimerStep ==
    /\ \E e \in Expiries : TimerFires(e)
    /\ UNCHANGED <<idleVars, simVars, gnssVars, acted>>

\* Beside the actor: a read of the fix lands, time passes, the display ticks.
DisplayStep ==
    /\ (\E r \in FixReads : ReadLands(r)) \/ TimePasses \/ Tick
    /\ UNCHANGED <<idleVars, ussdVars, simVars, acted>>

Next ==
    \/ Event
    \/ \E t \in Tasks : TaskStep(t)
    \/ TimerStep
    \/ DisplayStep

Spec == Init /\ [][Next]_vars

\* Calls are bounded in time (ussd/calls.ts and the transport), timers fire,
\* and the embedder ticks.
Fairness ==
    /\ \A t \in Tasks : WF_vars(TaskStep(t))
    /\ WF_vars(TimerStep)
    /\ WF_vars(TimePasses /\ UNCHANGED <<idleVars, ussdVars, simVars, acted>>)
    /\ WF_vars(Tick /\ UNCHANGED <<idleVars, ussdVars, simVars, acted>>)

FairSpec == Spec /\ Fairness
=============================================================================
