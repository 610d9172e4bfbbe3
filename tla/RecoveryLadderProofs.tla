------------------------ MODULE RecoveryLadderProofs ------------------------
(***************************************************************************)
(* Theorems about the recovery ladder, for any number of calls, any        *)
(* configuration of rungs, any budget and each kind of power hook.         *)
(***************************************************************************)
EXTENDS RecoveryLadder, TLAPS

-----------------------------------------------------------------------------
(* What appending to and taking from the chain of an actor does.             *)

\* A task that is not in the chain may be appended: the chain still holds
\* every task once.
LEMMA Enqueued ==
    ASSUME NEW S, NEW chain \in Seq(S), NEW t \in S,
           Distinct(chain), ~OnChain(t, chain)
    PROVE  /\ Append(chain, t) \in Seq(S)
           /\ Distinct(Append(chain, t))
           /\ \A u : OnChain(u, Append(chain, t)) <=> OnChain(u, chain) \/ u = t
           /\ Append(chain, t) # <<>>
           /\ chain # <<>> => Head(Append(chain, t)) = Head(chain)
<1> DEFINE longer == Append(chain, t)
<1>1. /\ longer \in Seq(S)
      /\ Len(longer) = Len(chain) + 1
      /\ Len(chain) \in Nat
      /\ \A i \in 1..Len(chain) : longer[i] = chain[i]
      /\ longer[Len(chain) + 1] = t
  OBVIOUS
<1>2. \A u : OnChain(u, longer) <=> OnChain(u, chain) \/ u = t
  BY <1>1 DEF OnChain
<1>3. Distinct(longer)
  BY <1>1 DEF Distinct, OnChain
<1>4. longer # <<>>
  BY <1>1
<1>5. ASSUME chain # <<>> PROVE Head(longer) = Head(chain)
  <2>1. 1 \in 1..Len(chain) /\ Head(chain) = chain[1] /\ Head(longer) = longer[1]
    BY <1>1, <1>4, <1>5
  <2> QED
    BY <1>1, <2>1
<1> QED
  BY <1>1, <1>2, <1>3, <1>4, <1>5

\* The head of the chain leaves: every other task keeps its place in line.
LEMMA Dequeued ==
    ASSUME NEW S, NEW chain \in Seq(S), chain # <<>>, Distinct(chain)
    PROVE  /\ Head(chain) \in S
           /\ Tail(chain) \in Seq(S)
           /\ Distinct(Tail(chain))
           /\ \A u : OnChain(u, Tail(chain)) <=> OnChain(u, chain) /\ u # Head(chain)
<1> DEFINE rest == Tail(chain)
<1>1. /\ rest \in Seq(S)
      /\ Len(chain) \in Nat /\ Len(chain) >= 1
      /\ Len(rest) = Len(chain) - 1
      /\ \A i \in 1..Len(rest) : rest[i] = chain[i + 1]
      /\ Head(chain) = chain[1]
      /\ chain[1] \in S
  OBVIOUS
<1>2. Distinct(rest)
  BY <1>1 DEF Distinct
<1>3. ASSUME NEW u, OnChain(u, rest)
      PROVE  OnChain(u, chain) /\ u # Head(chain)
  <2>1. PICK i \in 1..Len(rest) : rest[i] = u
    BY <1>3 DEF OnChain
  <2>2. i + 1 \in 1..Len(chain) /\ chain[i + 1] = u /\ 1 \in 1..Len(chain)
    BY <1>1, <2>1
  <2>3. chain[1] # u
    BY <2>2 DEF Distinct
  <2> QED
    BY <1>1, <2>2, <2>3 DEF OnChain
<1>4. ASSUME NEW u, OnChain(u, chain), u # Head(chain)
      PROVE  OnChain(u, rest)
  <2>1. PICK i \in 1..Len(chain) : chain[i] = u
    BY <1>4 DEF OnChain
  <2>2. i # 1
    BY <1>1, <1>4, <2>1
  <2>3. i - 1 \in 1..Len(rest) /\ rest[i - 1] = u
    BY <1>1, <2>1, <2>2
  <2> QED
    BY <2>3 DEF OnChain
<1> QED
  BY <1>1, <1>2, <1>3, <1>4

-----------------------------------------------------------------------------
(* Types.  That the chains are sequences without repetitions is part of      *)
(* TypeOK but does not follow from types alone: a call is appended because   *)
(* it is in neither chain, and that depends on what it waits for.            *)

Places == {"idle", "verdict", "queued", "powerQueued", "unpowered", "probe",
           "answered"} \union Working

Types ==
    /\ streaming \in BOOLEAN
    /\ holds \subseteq Runs
    /\ slipped \subseteq Runs
    /\ lpc \in [Runs -> Places]
    /\ rung \in [Runs -> 1..Len(Ladder)]
    /\ report \in [Runs -> {"none", "disabled", "not-attributed", "loop-stop",
                            "cooldown", "interlock-blocked", "rejected",
                            "recovered", "exhausted"}]
    /\ budget \in [attempts : 0..MaxAttempts, degraded : BOOLEAN,
                   last : Nat \union {Never}]
    /\ clock \in 0..MaxTime
    /\ admitted \in Seq(Nat)

\* The loop ends, or asks for a verdict on a rung that is there.
LEMMA ClimbType ==
    ASSUME Types, NEW r \in Runs, NEW i \in 1..(Len(Ladder) + 1), Climb(r, i)
    PROVE  /\ rung' \in [Runs -> 1..Len(Ladder)]
           /\ report' = report \/ report' = [report EXCEPT ![r] = "exhausted"]
           /\ \E p \in {"answered", "verdict"} : lpc' = [lpc EXCEPT ![r] = p]
<1>1. CASE Ahead(i) = {}
  BY <1>1 DEF Climb, End, LGo, Types
<1>2. CASE Ahead(i) # {}
  <2> DEFINE first == CHOOSE j \in Ahead(i) : \A k \in Ahead(i) : j <= k
  <2>1. Len(Ladder) = 4
    BY DEF Ladder
  <2>2. Ahead(i) \subseteq 1..4
    BY <2>1 DEF Ahead
  <2>3. \E j \in Ahead(i) : \A k \in Ahead(i) : j <= k
    BY <1>2, <2>2
  <2>4. first \in 1..Len(Ladder)
    BY <2>1, <2>2, <2>3
  <2> QED
    BY <1>2, <2>4 DEF Climb, LGo, Types
<1> QED
  BY <1>1, <1>2

Reports == {"none", "disabled", "not-attributed", "loop-stop", "cooldown",
            "interlock-blocked", "rejected", "recovered", "exhausted"}

\* What the loop changes keeps its type.
LEMMA ClimbKeepsTypes ==
    ASSUME Types, NEW r \in Runs, NEW i \in 1..(Len(Ladder) + 1), Climb(r, i)
    PROVE  /\ lpc' \in [Runs -> Places]
           /\ rung' \in [Runs -> 1..Len(Ladder)]
           /\ report' \in [Runs -> Reports]
<1>1. PICK p \in {"answered", "verdict"} : lpc' = [lpc EXCEPT ![r] = p]
  BY ClimbType
<1>2. lpc' \in [Runs -> Places]
  BY <1>1 DEF Types, Places
<1>3. report' \in [Runs -> Reports]
  BY ClimbType DEF Types, Reports
<1> QED
  BY <1>2, <1>3, ClimbType

LEMMA NextRung ==
    ASSUME Types, NEW r \in Runs
    PROVE  rung[r] + 1 \in 1..(Len(Ladder) + 1) /\ 1 \in 1..(Len(Ladder) + 1)
<1>1. Len(Ladder) = 4
  BY DEF Ladder
<1>2. rung[r] \in 1..4
  BY <1>1 DEF Types
<1> QED
  BY <1>1, <1>2

LEMMA InitTypes == Init => Types
<1> SUFFICES ASSUME Init PROVE Types
  OBVIOUS
<1>1. 1 \in 1..Len(Ladder)
  BY DEF Ladder
<1>2. rung \in [Runs -> 1..Len(Ladder)]
  BY <1>1 DEF Init, LadderInit
<1>3. budget \in [attempts : 0..MaxAttempts, degraded : BOOLEAN,
                  last : Nat \union {Never}]
  BY BudgetAssumption DEF Init, LadderInit, Fresh
<1>4. admitted \in Seq(Nat)
  BY DEF Init, LadderInit
<1>5. lpc \in [Runs -> Places] /\ clock \in 0..MaxTime
  BY BudgetAssumption DEF Init, LadderInit, Places
<1>6. streaming \in BOOLEAN /\ holds \subseteq Runs /\ slipped \subseteq Runs
  BY DEF Init, SharedInit
<1>7. report \in [Runs -> {"none", "disabled", "not-attributed", "loop-stop",
                          "cooldown", "interlock-blocked", "rejected",
                          "recovered", "exhausted"}]
  BY DEF Init, LadderInit
<1> QED
  BY <1>2, <1>3, <1>4, <1>5, <1>6, <1>7 DEF Types

LEMMA StepTypes == Types /\ [Next]_vars => Types'
<1> SUFFICES ASSUME Types, [Next]_vars PROVE Types'
  OBVIOUS
<1>1. ASSUME NEW r \in Runs, Start(r) PROVE Types'
  <2>1. CASE \E how \in {"disabled", "not-attributed"} :
               End(r, how) /\ UNCHANGED <<rung, budget, admitted>>
    BY <1>1, <2>1 DEF Start, Types, End, LGo, Places, sharedVars
  <2>2. CASE budget' = [budget EXCEPT !.degraded = TRUE] /\ End(r, "loop-stop")
             /\ UNCHANGED <<rung, admitted>>
    BY <1>1, <2>2 DEF Start, Types, End, LGo, Places, sharedVars
  <2>3. CASE End(r, "cooldown") /\ UNCHANGED <<rung, budget, admitted>>
    BY <1>1, <2>3 DEF Start, Types, End, LGo, Places, sharedVars
  <2>4. CASE ~Spent /\ BeginAttempt /\ Climb(r, 1)
    <3>1. budget' \in [attempts : 0..MaxAttempts, degraded : BOOLEAN,
                       last : Nat \union {Never}]
      BY <2>4, BudgetAssumption DEF Types, BeginAttempt, Spent
    <3>2. admitted' \in Seq(Nat)
      BY <2>4, BudgetAssumption DEF Types, BeginAttempt
    <3>3. /\ lpc' \in [Runs -> Places]
          /\ rung' \in [Runs -> 1..Len(Ladder)]
          /\ report' \in [Runs -> Reports]
      BY <2>4, NextRung, ClimbKeepsTypes
    <3>4. UNCHANGED <<streaming, holds, slipped, clock>>
      BY <1>1 DEF Start, sharedVars
    <3> QED
      BY <3>1, <3>2, <3>3, <3>4 DEF Types, Reports
  <2> QED
    BY <1>1, <2>1, <2>2, <2>3, <2>4 DEF Start
<1>2. ASSUME NEW r \in Runs, Verdict(r) PROVE Types'
  <2>1. \E p \in Places : lpc' = [lpc EXCEPT ![r] = p]
    BY <1>2 DEF Verdict, Cycle, LGo, Places
  <2> QED
    BY <1>2, <2>1 DEF Verdict, Types
<1>3. ASSUME NEW r \in Runs, Blocked(r) PROVE Types'
  BY <1>3 DEF Blocked, End, LGo, Types, Places, sharedVars
<1>4. ASSUME NEW r \in Runs, EnterRung(r) \/ EnterPower(r) PROVE Types'
  BY <1>4 DEF EnterRung, EnterPower, LGo, Types, Places, Working, sharedVars
<1>5. ASSUME NEW r \in Runs, RungSettled(r) PROVE Types'
  <2>1. CASE LGo(r, "probe") /\ UNCHANGED <<rung, report>>
    BY <1>5, <2>1 DEF RungSettled, LGo, Types, Places
  <2>2. CASE Climb(r, rung[r] + 1)
    <3>1. /\ lpc' \in [Runs -> Places]
          /\ rung' \in [Runs -> 1..Len(Ladder)]
          /\ report' \in [Runs -> Reports]
      BY <2>2, NextRung, ClimbKeepsTypes
    <3>2. UNCHANGED <<streaming, holds, slipped, budget, clock, admitted>>
      BY <1>5 DEF RungSettled
    <3> QED
      BY <3>1, <3>2 DEF Types, Reports
  <2> QED
    BY <1>5, <2>1, <2>2 DEF RungSettled
<1>6. ASSUME NEW r \in Runs, RungRejected(r) PROVE Types'
  BY <1>6 DEF RungRejected, End, LGo, Types, Places
<1>7. ASSUME NEW r \in Runs, Unpowered(r) PROVE Types'
  <2>1. Climb(r, rung[r] + 1)
    BY <1>7 DEF Unpowered
  <2>2. /\ lpc' \in [Runs -> Places]
        /\ rung' \in [Runs -> 1..Len(Ladder)]
        /\ report' \in [Runs -> Reports]
    BY <2>1, NextRung, ClimbKeepsTypes
  <2>3. UNCHANGED <<streaming, holds, slipped, budget, clock, admitted>>
    BY <1>7 DEF Unpowered, sharedVars
  <2> QED
    BY <2>2, <2>3 DEF Types, Reports
<1>8. ASSUME NEW r \in Runs, Probed(r) PROVE Types'
  <2>1. CASE budget' = Fresh /\ admitted' = <<>> /\ End(r, "recovered")
             /\ UNCHANGED rung
    BY <1>8, <2>1, BudgetAssumption
    DEF Probed, Fresh, End, LGo, Types, Places, sharedVars
  <2>2. CASE Climb(r, rung[r] + 1) /\ UNCHANGED <<budget, admitted>>
    <3>1. /\ lpc' \in [Runs -> Places]
          /\ rung' \in [Runs -> 1..Len(Ladder)]
          /\ report' \in [Runs -> Reports]
      BY <2>2, NextRung, ClimbKeepsTypes
    <3>2. UNCHANGED <<streaming, holds, slipped, budget, clock, admitted>>
      BY <1>8, <2>2 DEF Probed, sharedVars
    <3> QED
      BY <3>1, <3>2 DEF Types, Reports
  <2>3. CASE End(r, "rejected") /\ UNCHANGED <<rung, budget, admitted>>
    BY <1>8, <2>3 DEF Probed, End, LGo, Types, Places, sharedVars
  <2> QED
    BY <1>8, <2>1, <2>2, <2>3 DEF Probed
<1>9. CASE Clear
  BY <1>9, BudgetAssumption DEF Clear, Fresh, Types, sharedVars
<1>10. CASE Tick
  BY <1>10, BudgetAssumption DEF Tick, Types, sharedVars
<1>11. CASE LadderStreams
  BY <1>11 DEF LadderStreams, StartStream, StopStream, OnTheirWay, Types, ladderVars
<1>12. CASE UNCHANGED vars
  BY <1>12 DEF vars, sharedVars, ladderVars, Types
<1> QED
  BY <1>1, <1>2, <1>3, <1>4, <1>5, <1>6, <1>7, <1>8, <1>9, <1>10, <1>11, <1>12
  DEF Next, LadderNext, LadderStep

-----------------------------------------------------------------------------
(* The chains.  A call is on the chain of the modem's actor, or of the hook's *)
(* own, exactly while it waits there or is at work there, so that nobody is   *)
(* appended twice; who is at work is the head.                                *)

OnActor == {"queued", "working"}
           \union (IF PowerHook = "private" THEN {} ELSE {"powerQueued", "cycling"})

OnHook == IF PowerHook = "private" THEN {"powerQueued", "cycling"} ELSE {}

ChainInv ==
    /\ queue \in Seq(Runs) /\ Distinct(queue)
    /\ powerQueue \in Seq(Runs) /\ Distinct(powerQueue)
    /\ \A r \in Runs : OnChain(r, queue) <=> lpc[r] \in OnActor
    /\ \A r \in Runs : OnChain(r, powerQueue) <=> lpc[r] \in OnHook

AtHookHead(r) == powerQueue # <<>> /\ Head(powerQueue) = r

WorkInv ==
    \A r \in Runs : lpc[r] \in Working =>
                    IF OnItsOwn(r) THEN AtHookHead(r) ELSE AtHead(r)

LadderInv == Types /\ ChainInv /\ WorkInv

\* A call that waits for no chain goes on to something that is not a chain.
LEMMA StaysOff ==
    ASSUME LadderInv, NEW r \in Runs, NEW p, lpc' = [lpc EXCEPT ![r] = p],
           lpc[r] \notin OnActor \union OnHook, p \notin OnActor \union OnHook,
           UNCHANGED <<queue, powerQueue>>
    PROVE  ChainInv' /\ WorkInv'
<1>1. /\ lpc'[r] = p
      /\ \A s \in Runs : s # r => lpc'[s] = lpc[s]
  BY DEF LadderInv, Types
<1>2. ChainInv'
  BY <1>1 DEF LadderInv, ChainInv, OnActor, OnHook
<1>3. p \notin Working
  BY DEF OnActor, OnHook, Working
<1>4. WorkInv'
  BY <1>1, <1>3 DEF LadderInv, WorkInv, OnItsOwn, AtHead, AtHookHead
<1> QED
  BY <1>2, <1>4

\* A rung, or the cycle of a shared hook, goes into the chain of the actor.
LEMMA JoinsActor ==
    ASSUME LadderInv, NEW r \in Runs, NEW p, lpc' = [lpc EXCEPT ![r] = p],
           lpc[r] \notin OnActor \union OnHook,
           p \in OnActor, p \notin Working,
           Run(r), UNCHANGED powerQueue
    PROVE  ChainInv' /\ WorkInv'
<1>1. /\ lpc'[r] = p
      /\ \A s \in Runs : s # r => lpc'[s] = lpc[s]
  BY DEF LadderInv, Types
<1>2. queue \in Seq(Runs) /\ Distinct(queue) /\ ~OnChain(r, queue)
  BY DEF LadderInv, ChainInv
<1>3. /\ queue' \in Seq(Runs)
      /\ Distinct(queue')
      /\ \A u : OnChain(u, queue') <=> OnChain(u, queue) \/ u = r
      /\ queue' # <<>>
      /\ queue # <<>> => Head(queue') = Head(queue)
  BY <1>2, Enqueued DEF Run
<1>4. p \notin OnHook
  BY DEF OnActor, OnHook
<1>5. ChainInv'
  BY <1>1, <1>3, <1>4 DEF LadderInv, ChainInv, OnActor, OnHook
<1>6. WorkInv'
  BY <1>1, <1>3 DEF LadderInv, WorkInv, OnItsOwn, AtHead, AtHookHead
<1> QED
  BY <1>5, <1>6

\* The cycle of a private hook goes into the chain of the hook's own actor.
LEMMA JoinsHook ==
    ASSUME LadderInv, NEW r \in Runs, NEW p, lpc' = [lpc EXCEPT ![r] = p],
           lpc[r] \notin OnActor \union OnHook,
           p \in OnHook, p \notin Working,
           powerQueue' = Append(powerQueue, r), UNCHANGED queue
    PROVE  ChainInv' /\ WorkInv'
<1>1. /\ lpc'[r] = p
      /\ \A s \in Runs : s # r => lpc'[s] = lpc[s]
  BY DEF LadderInv, Types
<1>2. powerQueue \in Seq(Runs) /\ Distinct(powerQueue) /\ ~OnChain(r, powerQueue)
  BY DEF LadderInv, ChainInv
<1>3. /\ powerQueue' \in Seq(Runs)
      /\ Distinct(powerQueue')
      /\ \A u : OnChain(u, powerQueue') <=> OnChain(u, powerQueue) \/ u = r
      /\ powerQueue' # <<>>
      /\ powerQueue # <<>> => Head(powerQueue') = Head(powerQueue)
  BY <1>2, Enqueued
<1>4. p \notin OnActor
  BY DEF OnActor, OnHook
<1>5. ChainInv'
  BY <1>1, <1>3, <1>4 DEF LadderInv, ChainInv, OnActor, OnHook
<1>6. WorkInv'
  BY <1>1, <1>3 DEF LadderInv, WorkInv, OnItsOwn, AtHead, AtHookHead
<1> QED
  BY <1>5, <1>6

\* Who is at work leaves its chain for something that is not a chain.
LEMMA LeavesChain ==
    ASSUME LadderInv, NEW r \in Runs, NEW p, lpc' = [lpc EXCEPT ![r] = p],
           lpc[r] \in Working, p \notin OnActor \union OnHook, LeaveRung(r)
    PROVE  ChainInv' /\ WorkInv'
<1>1. /\ lpc'[r] = p
      /\ \A s \in Runs : s # r => lpc'[s] = lpc[s]
  BY DEF LadderInv, Types
<1>2. p \notin Working
  BY DEF OnActor, OnHook, Working
<1>3. CASE OnItsOwn(r)
  <2>1. powerQueue \in Seq(Runs) /\ Distinct(powerQueue) /\ AtHookHead(r)
    BY <1>3 DEF LadderInv, ChainInv, WorkInv
  <2>2. powerQueue' = Tail(powerQueue) /\ queue' = queue
    BY <1>3 DEF LeaveRung
  <2>3. /\ powerQueue' \in Seq(Runs)
        /\ Distinct(powerQueue')
        /\ \A u : OnChain(u, powerQueue') <=> OnChain(u, powerQueue) /\ u # r
    BY <2>1, <2>2, Dequeued DEF AtHookHead
  <2>4. lpc[r] \notin OnActor
    BY <1>3 DEF OnItsOwn, OnActor
  <2>5. ChainInv'
    BY <1>1, <2>2, <2>3, <2>4 DEF LadderInv, ChainInv, OnActor, OnHook
  <2>6. \A s \in Runs : s # r => ~OnItsOwn(s)
    BY <2>1 DEF LadderInv, WorkInv, AtHookHead, OnItsOwn, Working
  <2>7. WorkInv'
    BY <1>1, <1>2, <2>2, <2>6 DEF LadderInv, WorkInv, OnItsOwn, AtHead
  <2> QED
    BY <2>5, <2>7
<1>4. CASE ~OnItsOwn(r)
  <2>1. queue \in Seq(Runs) /\ Distinct(queue) /\ AtHead(r)
    BY <1>4 DEF LadderInv, ChainInv, WorkInv
  <2>2. queue' = Tail(queue) /\ powerQueue' = powerQueue
    BY <1>4 DEF LeaveRung, Settle
  <2>3. /\ queue' \in Seq(Runs)
        /\ Distinct(queue')
        /\ \A u : OnChain(u, queue') <=> OnChain(u, queue) /\ u # r
    BY <2>1, <2>2, Dequeued DEF AtHead
  <2>4. lpc[r] \notin OnHook
    BY <1>4 DEF OnItsOwn, OnHook, Working
  <2>5. ChainInv'
    BY <1>1, <2>2, <2>3, <2>4 DEF LadderInv, ChainInv, OnActor, OnHook
  <2>6. \A s \in Runs : s # r /\ lpc[s] \in Working => OnItsOwn(s)
    BY <2>1 DEF LadderInv, WorkInv, AtHead
  <2>7. WorkInv'
    BY <1>1, <1>2, <2>2, <2>6 DEF LadderInv, WorkInv, OnItsOwn, AtHookHead
  <2> QED
    BY <2>5, <2>7
<1> QED
  BY <1>3, <1>4

\* The loop goes on to a verdict or ends: neither is a chain.
LEMMA ClimbsOff ==
    ASSUME Types, NEW r \in Runs, NEW i \in 1..(Len(Ladder) + 1), Climb(r, i)
    PROVE  \E p : p \notin OnActor \union OnHook /\ lpc' = [lpc EXCEPT ![r] = p]
<1>1. \E p \in {"answered", "verdict"} : lpc' = [lpc EXCEPT ![r] = p]
  BY ClimbType
<1> QED
  BY <1>1 DEF OnActor, OnHook

LEMMA InitChains == Init => ChainInv /\ WorkInv
<1> SUFFICES ASSUME Init PROVE ChainInv /\ WorkInv
  OBVIOUS
<1>1. <<>> \in Seq(Runs) /\ Len(<<>>) = 0
  OBVIOUS
<1>2. Distinct(<<>>) /\ \A r : ~OnChain(r, <<>>)
  BY <1>1 DEF Distinct, OnChain
<1>3. queue = <<>> /\ powerQueue = <<>> /\ \A r \in Runs : lpc[r] = "idle"
  BY DEF Init, SharedInit, LadderInit
<1>4. ChainInv
  BY <1>1, <1>2, <1>3 DEF ChainInv, OnActor, OnHook
<1>5. WorkInv
  BY <1>3 DEF WorkInv, Working
<1> QED
  BY <1>4, <1>5

LEMMA StepChains == LadderInv /\ [Next]_vars => ChainInv' /\ WorkInv'
<1> SUFFICES ASSUME LadderInv, [Next]_vars PROVE ChainInv' /\ WorkInv'
  OBVIOUS
<1> USE DEF LGo
<1>t. Types
  BY DEF LadderInv
<1>a. UNCHANGED <<queue, powerQueue, lpc>> => ChainInv' /\ WorkInv'
  BY DEF LadderInv, ChainInv, WorkInv, OnItsOwn, AtHead, AtHookHead
<1>1. ASSUME NEW r \in Runs, Start(r) PROVE ChainInv' /\ WorkInv'
  <2>1. lpc[r] \notin OnActor \union OnHook /\ UNCHANGED <<queue, powerQueue>>
    BY <1>1 DEF Start, sharedVars, OnActor, OnHook
  <2>2. \E p : p \notin OnActor \union OnHook /\ lpc' = [lpc EXCEPT ![r] = p]
    <3>1. "answered" \notin OnActor \union OnHook
      BY DEF OnActor, OnHook
    <3>2. CASE Climb(r, 1)
      BY <1>t, <3>2, NextRung, ClimbsOff
    <3> QED
      BY <1>1, <3>1, <3>2 DEF Start, End
  <2> QED
    BY <2>1, <2>2, StaysOff
<1>2. ASSUME NEW r \in Runs, Verdict(r) PROVE ChainInv' /\ WorkInv'
  <2>1. lpc[r] \notin OnActor \union OnHook
    BY <1>2 DEF Verdict, OnActor, OnHook
  <2>2. CASE Run(r) /\ lpc' = [lpc EXCEPT ![r] = "queued"] /\ UNCHANGED powerQueue
    <3>1. "queued" \in OnActor /\ "queued" \notin Working
      BY DEF OnActor, Working
    <3> QED
      BY <2>1, <2>2, <3>1, JoinsActor
  <2>3. CASE lpc' = [lpc EXCEPT ![r] = "unpowered"] /\ UNCHANGED <<queue, powerQueue>>
    <3>1. "unpowered" \notin OnActor \union OnHook
      BY DEF OnActor, OnHook
    <3> QED
      BY <2>1, <2>3, <3>1, StaysOff
  <2>4. CASE /\ PowerHook = "shared" /\ Run(r)
             /\ lpc' = [lpc EXCEPT ![r] = "powerQueued"] /\ UNCHANGED powerQueue
    <3>1. "powerQueued" \in OnActor /\ "powerQueued" \notin Working
      BY <2>4 DEF OnActor, Working
    <3> QED
      BY <2>1, <2>4, <3>1, JoinsActor
  <2>5. CASE /\ PowerHook = "private" /\ powerQueue' = Append(powerQueue, r)
             /\ lpc' = [lpc EXCEPT ![r] = "powerQueued"] /\ UNCHANGED queue
    <3>1. "powerQueued" \in OnHook /\ "powerQueued" \notin Working
      BY <2>5 DEF OnHook, Working
    <3> QED
      BY <2>1, <2>5, <3>1, JoinsHook
  <2> QED
    BY <1>2, <2>2, <2>3, <2>4, <2>5 DEF Verdict, Cycle
<1>3. ASSUME NEW r \in Runs, Blocked(r) PROVE ChainInv' /\ WorkInv'
  <2>1. /\ lpc[r] \notin OnActor \union OnHook
        /\ "answered" \notin OnActor \union OnHook
        /\ lpc' = [lpc EXCEPT ![r] = "answered"]
        /\ UNCHANGED <<queue, powerQueue>>
    BY <1>3 DEF Blocked, End, sharedVars, OnActor, OnHook
  <2> QED
    BY <2>1, StaysOff
<1>4. ASSUME NEW r \in Runs, EnterRung(r) PROVE ChainInv' /\ WorkInv'
  <2>1. /\ lpc'[r] = "working" /\ lpc[r] = "queued" /\ AtHead(r)
        /\ \A s \in Runs : s # r => lpc'[s] = lpc[s]
        /\ UNCHANGED <<queue, powerQueue>>
    BY <1>4 DEF EnterRung, sharedVars, LadderInv, Types
  <2>2. ChainInv'
    BY <2>1 DEF LadderInv, ChainInv, OnActor, OnHook
  <2>3. WorkInv'
    BY <2>1 DEF LadderInv, WorkInv, OnItsOwn, AtHead, AtHookHead
  <2> QED
    BY <2>2, <2>3
<1>5. ASSUME NEW r \in Runs, EnterPower(r) PROVE ChainInv' /\ WorkInv'
  <2>1. /\ lpc'[r] = "cycling" /\ lpc[r] = "powerQueued"
        /\ \A s \in Runs : s # r => lpc'[s] = lpc[s]
        /\ UNCHANGED <<queue, powerQueue>>
        /\ IF PowerHook = "private" THEN AtHookHead(r) ELSE AtHead(r)
    BY <1>5 DEF EnterPower, sharedVars, LadderInv, Types, AtHookHead
  <2>2. ChainInv'
    BY <2>1 DEF LadderInv, ChainInv, OnActor, OnHook
  <2>3. WorkInv'
    BY <2>1 DEF LadderInv, WorkInv, OnItsOwn, AtHead, AtHookHead
  <2> QED
    BY <2>2, <2>3
<1>6. ASSUME NEW r \in Runs, RungSettled(r) PROVE ChainInv' /\ WorkInv'
  <2>1. \E p : p \notin OnActor \union OnHook /\ lpc' = [lpc EXCEPT ![r] = p]
    <3>1. "probe" \notin OnActor \union OnHook
      BY DEF OnActor, OnHook
    <3>2. CASE Climb(r, rung[r] + 1)
      BY <1>t, <3>2, NextRung, ClimbsOff
    <3> QED
      BY <1>6, <3>1, <3>2 DEF RungSettled
  <2> QED
    BY <1>6, <2>1, LeavesChain DEF RungSettled
<1>7. ASSUME NEW r \in Runs, RungRejected(r) PROVE ChainInv' /\ WorkInv'
  <2>1. "answered" \notin OnActor \union OnHook
    BY DEF OnActor, OnHook
  <2> QED
    BY <1>7, <2>1, LeavesChain DEF RungRejected, End
<1>8. ASSUME NEW r \in Runs, Unpowered(r) \/ Probed(r) PROVE ChainInv' /\ WorkInv'
  <2>1. lpc[r] \notin OnActor \union OnHook /\ UNCHANGED <<queue, powerQueue>>
    BY <1>8 DEF Unpowered, Probed, sharedVars, OnActor, OnHook
  <2>2. \E p : p \notin OnActor \union OnHook /\ lpc' = [lpc EXCEPT ![r] = p]
    <3>1. "answered" \notin OnActor \union OnHook
      BY DEF OnActor, OnHook
    <3>2. CASE Climb(r, rung[r] + 1)
      BY <1>t, <3>2, NextRung, ClimbsOff
    <3> QED
      BY <1>8, <3>1, <3>2 DEF Unpowered, Probed, End
  <2> QED
    BY <2>1, <2>2, StaysOff
<1>9. CASE Clear \/ Tick \/ LadderStreams \/ UNCHANGED vars
  BY <1>9, <1>a
  DEF Clear, Tick, LadderStreams, StartStream, StopStream, vars, sharedVars, ladderVars
<1> QED
  BY <1>1, <1>2, <1>3, <1>4, <1>5, <1>6, <1>7, <1>8, <1>9
  DEF Next, LadderNext, LadderStep

THEOREM LadderInvHolds == Spec => []LadderInv
<1>1. Init => LadderInv
  BY InitTypes, InitChains DEF LadderInv
<1>2. LadderInv /\ [Next]_vars => LadderInv'
  BY StepTypes, StepChains DEF LadderInv
<1> QED
  BY <1>1, <1>2, PTL DEF Spec

\* The model's variables keep their types: the chains of the actors hold every
\* call at most once, the budget never counts past its limit, and a call's rung
\* is one of the ladder.
THEOREM TypeCorrect == Spec => []TypeOK
<1>1. LadderInv => TypeOK
  BY DEF LadderInv, Types, ChainInv, TypeOK, SharedTypeOK, LadderTypeOK, Places
<1> QED
  BY <1>1, LadderInvHolds, PTL

\* Two rungs that go through the same actor are never at work together: the
\* chain of ModemActor.run starts a task only when the one before has settled,
\* rejected or not.
THEOREM RungsTakeTurnsHolds == Spec => []RungsTakeTurns
<1>1. LadderInv => RungsTakeTurns
  BY DEF LadderInv, WorkInv, RungsTakeTurns, AtHead, AtHookHead
<1> QED
  BY <1>1, LadderInvHolds, PTL

-----------------------------------------------------------------------------
(* The budget.  The history of attempts is what the budget counts: as many,   *)
(* the latest of them stamped in last.                                        *)

BudgetInv ==
    /\ Len(admitted) = budget.attempts
    /\ admitted # <<>> => budget.last = admitted[Len(admitted)]
    /\ \A i \in 1..(Len(admitted) - 1) : admitted[i + 1] - admitted[i] >= Cooldown

LEMMA BudgetStep == Types /\ BudgetInv /\ [Next]_vars => BudgetInv'
<1> SUFFICES ASSUME Types, BudgetInv, [Next]_vars PROVE BudgetInv'
  OBVIOUS
<1>1. CASE UNCHANGED <<budget, admitted>>
  BY <1>1 DEF BudgetInv
<1>2. CASE budget' = Fresh /\ admitted' = <<>>
  BY <1>2 DEF BudgetInv, Fresh
<1>3. CASE UNCHANGED admitted /\ budget' = [budget EXCEPT !.degraded = TRUE]
  BY <1>3 DEF BudgetInv, Types
<1>4. CASE BeginAttempt /\ ~Cooling
  <2> DEFINE n == Len(admitted)
  <2>1. /\ n \in Nat
        /\ clock \in Nat
        /\ admitted' \in Seq(Nat)
        /\ Len(admitted') = n + 1
        /\ \A i \in 1..n : admitted'[i] = admitted[i]
        /\ admitted'[n + 1] = clock
    BY <1>4, BudgetAssumption DEF BeginAttempt, Types
  <2>2. budget'.attempts = budget.attempts + 1 /\ budget'.last = clock
    BY <1>4 DEF BeginAttempt
  <2>3. n > 0 => clock - admitted[n] >= Cooldown
    <3>1. SUFFICES ASSUME n > 0 PROVE clock - admitted[n] >= Cooldown
      OBVIOUS
    <3>2. admitted # <<>> /\ admitted[n] \in Nat
      BY <2>1, <3>1 DEF Types
    <3>3. budget.last = admitted[n] /\ budget.last # Never
      BY <3>2 DEF BudgetInv, Never
    <3>4. ~(clock - budget.last < Cooldown)
      BY <1>4, <3>3 DEF Cooling
    <3> QED
      BY <2>1, <3>2, <3>3, <3>4, BudgetAssumption
  <2>4. \A i \in 1..n : admitted'[i + 1] - admitted'[i] >= Cooldown
    <3>1. TAKE i \in 1..n
    <3>2. CASE i = n
      BY <2>1, <2>3, <3>2
    <3>3. CASE i # n
      <4>1. i \in 1..(n - 1) /\ i + 1 \in 1..n
        BY <2>1, <3>3
      <4>2. admitted'[i + 1] = admitted[i + 1] /\ admitted'[i] = admitted[i]
        BY <2>1, <4>1
      <4>3. admitted[i + 1] - admitted[i] >= Cooldown
        BY <4>1 DEF BudgetInv
      <4> QED
        BY <4>2, <4>3
    <3> QED
      BY <3>2, <3>3
  <2> QED
    BY <2>1, <2>2, <2>4 DEF BudgetInv
<1>5. ASSUME NEW r \in Runs, Start(r) PROVE BudgetInv'
  BY <1>1, <1>3, <1>4, <1>5 DEF Start
<1>6. ASSUME NEW r \in Runs, LadderStep(r) PROVE BudgetInv'
  BY <1>1, <1>2, <1>6
  DEF LadderStep, Verdict, Blocked, EnterRung, EnterPower, RungSettled,
      RungRejected, Unpowered, Probed
<1>7. CASE Clear \/ Tick \/ LadderStreams \/ UNCHANGED vars
  BY <1>1, <1>2, <1>7 DEF Clear, Tick, LadderStreams, vars, ladderVars
<1> QED
  BY <1>5, <1>6, <1>7 DEF Next, LadderNext

\* Between two resets of the budget at most MaxAttempts calls climb, each at
\* least a cooldown after the one before: beginAttempt decides and stores in one
\* turn, so calls that overlap cannot both take the last attempt.
THEOREM AttemptsAreBudgetedHolds == Spec => []AttemptsAreBudgeted
<1>1. Init => BudgetInv
  BY DEF Init, LadderInit, Fresh, BudgetInv
<1>2. LadderInv => Types
  BY DEF LadderInv
<1>3. Types /\ BudgetInv => AttemptsAreBudgeted
  BY BudgetAssumption DEF Types, BudgetInv, AttemptsAreBudgeted
<1> QED
  BY <1>1, <1>2, <1>3, BudgetStep, LadderInvHolds, PTL DEF Spec

-----------------------------------------------------------------------------
(* The interlock.  The invariant covers a rung from its verdict on, through   *)
(* the time it spends in a chain, and not only while it is at work.           *)

SlipInv == \A r \in OnTheirWay : streaming => r \in slipped

LEMMA SlipStep == Types /\ SlipInv /\ [Next]_vars => SlipInv'
<1> SUFFICES ASSUME Types, SlipInv, [Next]_vars PROVE SlipInv'
  OBVIOUS
<1>1. ASSUME UNCHANGED <<streaming, slipped>>, OnTheirWay' \subseteq OnTheirWay
      PROVE  SlipInv'
  BY <1>1 DEF SlipInv
<1>2. ASSUME NEW r \in Runs,
             \E p \in {"verdict", "answered", "probe"} : lpc' = [lpc EXCEPT ![r] = p]
      PROVE  OnTheirWay' \subseteq OnTheirWay
  BY <1>2 DEF OnTheirWay, Working, Types
<1>3. ASSUME NEW r \in Runs, NEW i \in 1..(Len(Ladder) + 1), Climb(r, i)
      PROVE  OnTheirWay' \subseteq OnTheirWay
  BY <1>2, <1>3, ClimbType
<1>4. ASSUME NEW r \in Runs, Start(r) PROVE SlipInv'
  <2>1. OnTheirWay' \subseteq OnTheirWay
    BY <1>2, <1>3, <1>4, NextRung DEF Start, End, LGo
  <2> QED
    BY <1>1, <1>4, <2>1 DEF Start, sharedVars
<1>5. ASSUME NEW r \in Runs, Verdict(r) PROVE SlipInv'
  BY <1>5 DEF Verdict, Lets, Admits, SlipInv
<1>6. ASSUME NEW r \in Runs, Blocked(r) \/ Unpowered(r) \/ Probed(r) PROVE SlipInv'
  <2>1. OnTheirWay' \subseteq OnTheirWay
    BY <1>2, <1>3, <1>6, NextRung DEF Blocked, Unpowered, Probed, End, LGo
  <2> QED
    BY <1>1, <1>6, <2>1 DEF Blocked, Unpowered, Probed, sharedVars
<1>7. ASSUME NEW r \in Runs, EnterRung(r) \/ EnterPower(r) PROVE SlipInv'
  <2>1. OnTheirWay' \subseteq OnTheirWay
    BY <1>7 DEF EnterRung, EnterPower, LGo, OnTheirWay, Working, Types
  <2> QED
    BY <1>1, <1>7, <2>1 DEF EnterRung, EnterPower, sharedVars
<1>8. ASSUME NEW r \in Runs, RungSettled(r) \/ RungRejected(r) PROVE SlipInv'
  <2>1. OnTheirWay' \subseteq OnTheirWay
    BY <1>2, <1>3, <1>8, NextRung DEF RungSettled, RungRejected, End, LGo
  <2> QED
    BY <1>1, <1>8, <2>1 DEF RungSettled, RungRejected
<1>9. CASE LadderStreams
  BY <1>9
  DEF LadderStreams, StartStream, StopStream, ladderVars, SlipInv, OnTheirWay
<1>10. CASE Clear \/ Tick \/ UNCHANGED vars
  BY <1>10 DEF Clear, Tick, vars, sharedVars, ladderVars, SlipInv, OnTheirWay
<1> QED
  BY <1>4, <1>5, <1>6, <1>7, <1>8, <1>9, <1>10 DEF Next, LadderNext, LadderStep

\* A rung that was let through works under a stream only when the stream began
\* after its verdict: a verdict is taken anew for every rung of every call.
THEOREM StreamsAreSafeHolds == Spec => []StreamsAreSafe
<1>1. Init => SlipInv
  BY DEF Init, SharedInit, SlipInv
<1>2. LadderInv => Types
  BY DEF LadderInv
<1>3. SlipInv => StreamsAreSafe
  BY DEF SlipInv, StreamsAreSafe, OnTheirWay
<1> QED
  BY <1>1, <1>2, <1>3, SlipStep, LadderInvHolds, PTL DEF Spec
=============================================================================
