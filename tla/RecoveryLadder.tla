--------------------------- MODULE RecoveryLadder ---------------------------
(***************************************************************************)
(* The recovery ladder of one modem (control/src/backend/                  *)
(* recovery-ladder.ts) with its attempt budget (recovery-budget.ts), on    *)
(* the modem's actor and the embedder's interlock, and the uhubctl power   *)
(* hook (cli/src/uhubctl-power-hook.ts) as its last rung.                  *)
(*                                                                         *)
(* One element of Runs is one call of run; lpc[r] names the promise it     *)
(* waits for and rung[r] the rung it is at.  What a rung does to the modem *)
(* is the embedder's; the ladder sees how it settles.                      *)
(***************************************************************************)
EXTENDS ModemActor

CONSTANTS
    Runs,         \* calls of RecoveryLadder.run, all about one modem
    Allowed,      \* the rungs the configuration lets be disruptive
    MaxAttempts,  \* budget: attempts before the loop-stop
    Cooldown,     \* budget: time two attempts are kept apart
    PowerHook,    \* "none", or a hook on the modem's actor or on its own
    MaxTime       \* bound: the clock

Ladder == <<"nmCycle", "mmCycle", "reset", "powerCycle">>

ASSUME AllowedAssumption == Allowed \subseteq {Ladder[i] : i \in 1..Len(Ladder)}
ASSUME BudgetAssumption == MaxAttempts \in Nat /\ Cooldown \in Nat /\ MaxTime \in Nat
ASSUME PowerHookAssumption == PowerHook \in {"none", "shared", "private"}

VARIABLES
    lpc,         \* the promise each call waits for
    rung,        \* the place in Ladder each call is at
    report,      \* how each call ended
    budget,      \* #states of the modem
    powerQueue,  \* the chain of the hook's own actor
    clock,       \* what a request is stamped with
    admitted     \* history: stamps of the attempts since the budget was last reset

ladderVars == <<lpc, rung, report, budget, powerQueue, clock, admitted>>
vars == <<sharedVars, ladderVars>>

Never == -1

Fresh == [attempts |-> 0, degraded |-> FALSE, last |-> Never]

LadderInit ==
    /\ lpc = [r \in Runs |-> "idle"]
    /\ rung = [r \in Runs |-> 1]
    /\ report = [r \in Runs |-> "none"]
    /\ budget = Fresh
    /\ powerQueue = <<>>
    /\ clock = 0
    /\ admitted = <<>>

LGo(r, where) == lpc' = [lpc EXCEPT ![r] = where]

End(r, how) == LGo(r, "answered") /\ report' = [report EXCEPT ![r] = how]

\* The rungs from the i-th on that the configuration allows; the others are
\* reported skipped.
Ahead(i) == {j \in i..Len(Ladder) : Ladder[j] \in Allowed}

\* The loop over LADDER_ORDER goes on at the i-th rung.
Climb(r, i) ==
    IF Ahead(i) = {} THEN End(r, "exhausted") /\ UNCHANGED rung
    ELSE /\ rung' = [rung EXCEPT ![r] = CHOOSE j \in Ahead(i) : \A k \in Ahead(i) : j <= k]
         /\ LGo(r, "verdict")
         /\ UNCHANGED report

-----------------------------------------------------------------------------
(* Budget. *)

\* Mutated: the last attempt allowed is counted one too late.
SpentLate == budget.attempts > MaxAttempts

Spent == budget.attempts >= MaxAttempts

Cooling == budget.last # Never /\ clock - budget.last < Cooldown

\* beginAttempt proceeds, and the next state is stored in the same turn.
BeginAttempt ==
    /\ budget' = [attempts |-> budget.attempts + 1, degraded |-> FALSE, last |-> clock]
    /\ admitted' = Append(admitted, clock)

\* run: the policy and the attribution, then the budget.
Start(r) ==
    /\ lpc[r] = "idle"
    /\ \/ /\ \E how \in {"disabled", "not-attributed"} : End(r, how)
          /\ UNCHANGED <<rung, budget, admitted>>
       \/ /\ budget.degraded \/ (~Cooling /\ Spent)
          /\ budget' = [budget EXCEPT !.degraded = TRUE]
          /\ End(r, "loop-stop")
          /\ UNCHANGED <<rung, admitted>>
       \/ /\ ~budget.degraded /\ Cooling
          /\ End(r, "cooldown")
          /\ UNCHANGED <<rung, budget, admitted>>
       \/ /\ ~budget.degraded /\ ~Cooling /\ ~Spent
          /\ BeginAttempt
          /\ Climb(r, 1)
    /\ UNCHANGED <<sharedVars, powerQueue, clock>>

\* The operator clears the budget.
Clear ==
    /\ budget' = Fresh
    /\ admitted' = <<>>
    /\ UNCHANGED <<sharedVars, lpc, rung, report, powerQueue, clock>>

-----------------------------------------------------------------------------
(* The rungs. *)

\* Mutated: a rung goes ahead without asking.
LetByDefault(r) == TRUE

\* What the interlock lets through.
Lets(r) == Admits

\* PowerHook.cycle: an unmapped modem or an aborted hook is answered at once,
\* a mapped one goes into the chain of the actor the hook was built with.
Cycle(r) ==
    \/ LGo(r, "unpowered") /\ UNCHANGED <<queue, powerQueue>>
    \/ PowerHook = "shared" /\ Run(r) /\ LGo(r, "powerQueued") /\ UNCHANGED powerQueue
    \/ /\ PowerHook = "private"
       /\ powerQueue' = Append(powerQueue, r)
       /\ LGo(r, "powerQueued")
       /\ UNCHANGED queue

\* canDisrupt answered: the rung goes into the actor's chain, or to the hook.
Verdict(r) ==
    /\ lpc[r] = "verdict"
    /\ Lets(r)
    /\ slipped' = slipped \ {r}
    /\ IF Ladder[rung[r]] = "powerCycle" THEN Cycle(r)
       ELSE Run(r) /\ LGo(r, "queued") /\ UNCHANGED powerQueue
    /\ UNCHANGED <<streaming, holds, rung, report, budget, clock, admitted>>

\* canDisrupt denied, or rejected.
Blocked(r) ==
    /\ lpc[r] = "verdict"
    /\ \/ streaming /\ End(r, "interlock-blocked")
       \/ End(r, "rejected")
    /\ UNCHANGED <<sharedVars, rung, budget, powerQueue, clock, admitted>>

EnterRung(r) ==
    /\ lpc[r] = "queued"
    /\ AtHead(r)
    /\ LGo(r, "working")
    /\ UNCHANGED <<sharedVars, rung, report, budget, powerQueue, clock, admitted>>

\* The hook's actor reached the cycle: the port goes dark.
EnterPower(r) ==
    /\ lpc[r] = "powerQueued"
    /\ IF PowerHook = "private" THEN powerQueue # <<>> /\ Head(powerQueue) = r
                               ELSE AtHead(r)
    /\ LGo(r, "cycling")
    /\ UNCHANGED <<sharedVars, rung, report, budget, powerQueue, clock, admitted>>

\* The call is at work in the hook's own actor.
OnItsOwn(r) == lpc[r] = "cycling" /\ PowerHook = "private"

\* The rung's task settled and its turn is over.
LeaveRung(r) ==
    IF OnItsOwn(r)
    THEN powerQueue' = Tail(powerQueue) /\ UNCHANGED queue
    ELSE Settle(r) /\ UNCHANGED powerQueue

Working == {"working", "cycling"}

\* The rung reports applied, or failed.
RungSettled(r) ==
    /\ lpc[r] \in Working
    /\ LeaveRung(r)
    /\ \/ LGo(r, "probe") /\ UNCHANGED <<rung, report>>
       \/ Climb(r, rung[r] + 1)
    /\ UNCHANGED <<streaming, holds, slipped, budget, clock, admitted>>

\* Mutated: a rung that rejects keeps its place in the chain.
RungRejectedInPlace(r) ==
    /\ lpc[r] \in Working
    /\ End(r, "rejected")
    /\ UNCHANGED <<sharedVars, rung, budget, powerQueue, clock, admitted>>

\* The rung rejects, and so does run.
RungRejected(r) ==
    /\ lpc[r] \in Working
    /\ LeaveRung(r)
    /\ End(r, "rejected")
    /\ UNCHANGED <<streaming, holds, slipped, rung, budget, clock, admitted>>

\* The hook touched nothing: unsupported, or cancelled.
Unpowered(r) ==
    /\ lpc[r] = "unpowered"
    /\ Climb(r, rung[r] + 1)
    /\ UNCHANGED <<sharedVars, budget, powerQueue, clock, admitted>>

\* probeHealthy: a healthy modem resets the budget, whoever else is climbing.
Probed(r) ==
    /\ lpc[r] = "probe"
    /\ \/ /\ budget' = Fresh
          /\ admitted' = <<>>
          /\ End(r, "recovered")
          /\ UNCHANGED rung
       \/ Climb(r, rung[r] + 1) /\ UNCHANGED <<budget, admitted>>
       \/ End(r, "rejected") /\ UNCHANGED <<rung, budget, admitted>>
    /\ UNCHANGED <<sharedVars, powerQueue, clock>>

-----------------------------------------------------------------------------
(* The specification. *)

Tick ==
    /\ clock < MaxTime
    /\ clock' = clock + 1
    /\ UNCHANGED <<sharedVars, lpc, rung, report, budget, powerQueue, admitted>>

\* Everything the code of call r does next.
LadderStep(r) ==
    \/ Verdict(r) \/ Blocked(r) \/ EnterRung(r) \/ EnterPower(r)
    \/ RungSettled(r) \/ RungRejected(r) \/ Unpowered(r) \/ Probed(r)

LadderNext ==
    \/ \E r \in Runs : Start(r) \/ LadderStep(r)
    \/ Clear
    \/ Tick

\* Calls whose last verdict is taken and whose rung has not settled.
OnTheirWay == {r \in Runs : lpc[r] \in {"queued", "powerQueued"} \union Working}

LadderStreams ==
    /\ StartStream(OnTheirWay) \/ StopStream
    /\ UNCHANGED ladderVars

Init == SharedInit /\ LadderInit

Next == LadderNext \/ LadderStreams

Spec == Init /\ [][Next]_vars

\* A rung, a probe and the interlock settle in the end.
FairSpec == Spec /\ \A r \in Runs : WF_vars(LadderStep(r))

-----------------------------------------------------------------------------
(* Properties. *)

LadderTypeOK ==
    /\ lpc \in [Runs -> {"idle", "verdict", "queued", "powerQueued", "unpowered",
                         "probe", "answered"} \union Working]
    /\ rung \in [Runs -> 1..Len(Ladder)]
    /\ report \in [Runs -> {"none", "disabled", "not-attributed", "loop-stop",
                            "cooldown", "interlock-blocked", "rejected",
                            "recovered", "exhausted"}]
    /\ budget \in [attempts : 0..MaxAttempts, degraded : BOOLEAN,
                   last : Nat \union {Never}]
    /\ powerQueue \in Seq(Runs) /\ Distinct(powerQueue)
    /\ clock \in 0..MaxTime
    /\ admitted \in Seq(Nat)

\* Types of the actor's chain, the interlock, the ladder and its budget.
TypeOK == SharedTypeOK(Runs) /\ LadderTypeOK

\* However calls overlap, between two resets of the budget at most MaxAttempts
\* of them climb, each at least a cooldown after the one before.
AttemptsAreBudgeted ==
    /\ Len(admitted) <= MaxAttempts
    /\ \A i \in 1..(Len(admitted) - 1) : admitted[i + 1] - admitted[i] >= Cooldown

\* Two rungs that go through the same actor are never at work together, however
\* the rungs before them ended.
RungsTakeTurns ==
    \A r, s \in Runs :
        lpc[r] \in Working /\ lpc[s] \in Working /\ (OnItsOwn(r) <=> OnItsOwn(s)) => r = s

\* A stream that was live when the interlock was asked for this rung, and has
\* been since, is never disrupted by it.
StreamsAreSafe ==
    \A r \in Runs : streaming /\ lpc[r] \in Working => r \in slipped

\* Every call of run ends, whatever the rungs of the calls before it answered.
EveryRunEnds ==
    \A r \in Runs : lpc[r] = "verdict" ~> lpc[r] = "answered"
=============================================================================
