----------------------- MODULE UsbModeTransitionProofs ----------------------
(***************************************************************************)
(* Theorems about the USB-mode transition, for any number of calls, any    *)
(* set of modes and every way a request may be carried out.                *)
(***************************************************************************)
EXTENDS UsbModeTransition, TLAPS

-----------------------------------------------------------------------------
(* What appending to and taking from the chain of an actor does.             *)

\* A task that is not in the chain may be appended: the chain still holds
\* every task once.
LEMMA Enqueued ==
    ASSUME NEW S, NEW chain \in Seq(S), NEW t \in S,
           Distinct(chain), ~OnChain(t, chain)
    PROVE  /\ Append(chain, t) \in Seq(S)
           /\ Distinct(Append(chain, t))
           /\ \A u : OnChain(u, Append(chain, t)) <=> OnChain(u, chain) \/ u = t
           /\ Append(chain, t) # <<>>
           /\ chain # <<>> => Head(Append(chain, t)) = Head(chain)
<1> DEFINE longer == Append(chain, t)
<1>1. /\ longer \in Seq(S)
      /\ Len(longer) = Len(chain) + 1
      /\ Len(chain) \in Nat
      /\ \A i \in 1..Len(chain) : longer[i] = chain[i]
      /\ longer[Len(chain) + 1] = t
  OBVIOUS
<1>2. \A u : OnChain(u, longer) <=> OnChain(u, chain) \/ u = t
  BY <1>1 DEF OnChain
<1>3. Distinct(longer)
  BY <1>1 DEF Distinct, OnChain
<1>4. longer # <<>>
  BY <1>1
<1>5. ASSUME chain # <<>> PROVE Head(longer) = Head(chain)
  <2>1. 1 \in 1..Len(chain) /\ Head(chain) = chain[1] /\ Head(longer) = longer[1]
    BY <1>1, <1>4, <1>5
  <2> QED
    BY <1>1, <2>1
<1> QED
  BY <1>1, <1>2, <1>3, <1>4, <1>5

\* The head of the chain leaves: every other task keeps its place in line.
LEMMA Dequeued ==
    ASSUME NEW S, NEW chain \in Seq(S), chain # <<>>, Distinct(chain)
    PROVE  /\ Head(chain) \in S
           /\ Tail(chain) \in Seq(S)
           /\ Distinct(Tail(chain))
           /\ \A u : OnChain(u, Tail(chain)) <=> OnChain(u, chain) /\ u # Head(chain)
<1> DEFINE rest == Tail(chain)
<1>1. /\ rest \in Seq(S)
      /\ Len(chain) \in Nat /\ Len(chain) >= 1
      /\ Len(rest) = Len(chain) - 1
      /\ \A i \in 1..Len(rest) : rest[i] = chain[i + 1]
      /\ Head(chain) = chain[1]
      /\ chain[1] \in S
  OBVIOUS
<1>2. Distinct(rest)
  BY <1>1 DEF Distinct
<1>3. ASSUME NEW u, OnChain(u, rest)
      PROVE  OnChain(u, chain) /\ u # Head(chain)
  <2>1. PICK i \in 1..Len(rest) : rest[i] = u
    BY <1>3 DEF OnChain
  <2>2. i + 1 \in 1..Len(chain) /\ chain[i + 1] = u /\ 1 \in 1..Len(chain)
    BY <1>1, <2>1
  <2>3. chain[1] # u
    BY <2>2 DEF Distinct
  <2> QED
    BY <1>1, <2>2, <2>3 DEF OnChain
<1>4. ASSUME NEW u, OnChain(u, chain), u # Head(chain)
      PROVE  OnChain(u, rest)
  <2>1. PICK i \in 1..Len(chain) : chain[i] = u
    BY <1>4 DEF OnChain
  <2>2. i # 1
    BY <1>1, <1>4, <2>1
  <2>3. i - 1 \in 1..Len(rest) /\ rest[i - 1] = u
    BY <1>1, <2>1, <2>2
  <2> QED
    BY <2>3 DEF OnChain
<1> QED
  BY <1>1, <1>2, <1>3, <1>4

-----------------------------------------------------------------------------
(* Types, but for the chain of the actor.                                    *)

Types ==
    /\ TransitionTypeOK
    /\ streaming \in BOOLEAN
    /\ holds \subseteq Transitions
    /\ slipped \subseteq Transitions

Places == InActor \union {"idle", "entry", "queued", "answered"}

LEMMA InitTypes == Init => Types
<1> SUFFICES ASSUME Init PROVE Types
  OBVIOUS
<1>1. /\ tpc \in [Transitions -> Places]
      /\ lease \in [Transitions -> BOOLEAN]
      /\ outcome \in [Transitions -> {"none", "refused", "rejected", "failed", "succeeded"}]
  BY DEF Init, TransitionInit, Places
<1>2. drops \in 0..MaxDrops
  BY MaxDropsAssumption DEF Init, TransitionInit
<1>3. /\ quiesces \subseteq Transitions /\ sweeping \subseteq Transitions
      /\ air \subseteq Transitions \X Commands
      /\ spoilt \subseteq Transitions \X {"taking", "hold", "inhibit", "link"}
  BY DEF Init, TransitionInit
<1> QED
  BY <1>1, <1>2, <1>3
  DEF Init, SharedInit, TransitionInit, Types, TransitionTypeOK, Places

LEMMA SpoilType ==
    ASSUME Types, NEW t \in Transitions, NEW what \in {"taking", "hold", "inhibit", "link"},
           Spoil(t, what)
    PROVE  spoilt' \subseteq Transitions \X {"taking", "hold", "inhibit", "link"}
BY DEF Types, TransitionTypeOK, Spoil

LEMMA BringsUpType ==
    ASSUME Types, NEW t \in Transitions, BringsUp(t)
    PROVE  /\ linked' \in BOOLEAN
           /\ spoilt' \subseteq Transitions \X {"taking", "hold", "inhibit", "link"}
BY SpoilType DEF Types, TransitionTypeOK, BringsUp

LEMMA EffectType ==
    ASSUME Types, NEW t \in Transitions, NEW command, TakesEffect(t, command)
    PROVE  stored' \in Modes /\ resetting' \in BOOLEAN
<1>1. CASE command = "switch"
  BY <1>1 DEF TakesEffect, Types, TransitionTypeOK
<1>2. CASE command = "apply"
  BY <1>2 DEF TakesEffect, Types, TransitionTypeOK
<1>3. CASE command \notin {"switch", "apply"}
  BY <1>3 DEF TakesEffect, Types, TransitionTypeOK
<1> QED
  BY <1>1, <1>2, <1>3

LEMMA StepTypes == Types /\ [Next]_vars => Types'
<1> SUFFICES ASSUME Types, [Next]_vars PROVE Types'
  OBVIOUS
<1> USE DEF Types, TransitionTypeOK, Go, Report, InActor
<1>1. ASSUME NEW t \in Transitions,
             Execute(t) \/ EntryChecked(t) \/ EnterActor(t) \/ Rechecked(t) \/ Held(t)
      PROVE  Types'
  <2> USE DEF sharedVars, linkVars, deviceVars
  <2>1. CASE Execute(t)
    BY <2>1 DEF Execute
  <2>2. CASE EntryChecked(t)
    BY <2>2 DEF EntryChecked
  <2>3. CASE EnterActor(t)
    BY <2>3 DEF EnterActor
  <2>4. CASE Rechecked(t)
    BY <2>4 DEF Rechecked
  <2>5. CASE Held(t)
    BY <2>5 DEF Held
  <2> QED
    BY <1>1, <2>1, <2>2, <2>3, <2>4, <2>5
<1>2. ASSUME NEW t \in Transitions,
             Quiesced(t) \/ Inhibited(t) \/ CommandAnswered(t)
             \/ CommandRejected(t) \/ CommandTimedOut(t)
      PROVE  Types'
  <2> USE DEF sharedVars, linkVars, deviceVars
  <2>1. CASE Quiesced(t)
    <3>1. linked' \in BOOLEAN
      BY <2>1 DEF Quiesced
    <3>2. spoilt' \subseteq Transitions \X {"taking", "hold", "inhibit", "link"}
      BY <2>1, SpoilType DEF Quiesced
    <3> QED
      BY <2>1, <3>1, <3>2 DEF Quiesced
  <2>2. CASE Inhibited(t)
    <3>1. spoilt' \subseteq Transitions \X {"taking", "hold", "inhibit", "link"}
      BY <2>2, SpoilType DEF Inhibited
    <3> QED
      BY <2>2, <3>1 DEF Inhibited, Fail, Unwind
  <2>3. CASE CommandAnswered(t)
    <3>1. stored' \in Modes /\ resetting' \in BOOLEAN
      BY <2>3, EffectType DEF CommandAnswered
    <3>2. NextCommand(t) \in {"apply", "drop"}
      BY DEF NextCommand
    <3> QED
      BY <2>3, <3>1, <3>2 DEF CommandAnswered
  <2>4. CASE CommandRejected(t)
    <3>1. stored' \in Modes /\ resetting' \in BOOLEAN
      BY <2>4, EffectType DEF CommandRejected
    <3>2. /\ tpc' \in [Transitions -> Places]
          /\ lease' \in [Transitions -> BOOLEAN]
          /\ outcome' = [outcome EXCEPT ![t] = "failed"]
      BY <2>4 DEF CommandRejected, Fail, Unwind, Places
    <3> QED
      BY <2>4, <3>1, <3>2 DEF CommandRejected, Places
  <2>5. CASE CommandTimedOut(t)
    <3>1. <<t, tpc[t]>> \in Transitions \X Commands
      BY <2>5 DEF CommandTimedOut
    <3> QED
      BY <2>5, <3>1 DEF CommandTimedOut, AfterWatchdog
  <2> QED
    BY <1>2, <2>1, <2>2, <2>3, <2>4, <2>5
<1>3. ASSUME NEW t \in Transitions,
             WatchdogUninhibited(t) \/ Uninhibited(t) \/ ForceUninhibited(t)
             \/ PortDropped(t) \/ WaitFailed(t)
      PROVE  Types'
  <2> USE DEF sharedVars, linkVars, deviceVars
  <2>1. CASE WatchdogUninhibited(t)
    BY <2>1 DEF WatchdogUninhibited, Uninhibits, Releases, Spoil, AfterWatchdog
  <2>2. CASE Uninhibited(t)
    <3>1. spoilt' \subseteq Transitions \X {"taking", "hold", "inhibit", "link"}
      BY <2>2, SpoilType DEF Uninhibited
    <3>2. inhibited' \in Transitions \union {None}
      BY <2>2 DEF Uninhibited, Releases
    <3> QED
      BY <2>2, <3>1, <3>2 DEF Uninhibited, Fail, Unwind
  <2>3. CASE ForceUninhibited(t)
    BY <2>3 DEF ForceUninhibited, Uninhibits, Releases, Spoil
  <2>4. CASE PortDropped(t)
    BY <2>4 DEF PortDropped
  <2>5. CASE WaitFailed(t)
    BY <2>5 DEF WaitFailed, Rejects, Fail, Unwind
  <2> QED
    BY <1>3, <2>1, <2>2, <2>3, <2>4, <2>5
<1>4. ASSUME NEW t \in Transitions,
             Reenumerated(t) \/ ReadBack(t) \/ Activated(t) \/ ActivateRejected(t)
             \/ Reprobed(t) \/ QuiesceReleased(t) \/ HoldReleased(t)
      PROVE  Types'
  <2> USE DEF sharedVars, linkVars, deviceVars
  <2>1. CASE Reenumerated(t)
    BY <2>1 DEF Reenumerated, Conclude
  <2>2. CASE ReadBack(t)
    BY <2>2 DEF ReadBack, Conclude
  <2>3. CASE Activated(t)
    BY <2>3, BringsUpType DEF Activated
  <2>4. CASE ActivateRejected(t)
    BY <2>4 DEF ActivateRejected, Fail, Unwind
  <2>5. CASE Reprobed(t)
    BY <2>5 DEF Reprobed
  <2>6. CASE QuiesceReleased(t)
    <3>1. /\ linked' \in BOOLEAN
          /\ spoilt' \subseteq Transitions \X {"taking", "hold", "inhibit", "link"}
      BY <2>6, BringsUpType DEF QuiesceReleased
    <3> QED
      BY <2>6, <3>1 DEF QuiesceReleased
  <2>7. CASE HoldReleased(t)
    BY <2>7 DEF HoldReleased, Spoil
  <2> QED
    BY <1>4, <2>1, <2>2, <2>3, <2>4, <2>5, <2>6, <2>7
<1>5. CASE World
  <2> USE DEF sharedVars
  <2>1. ASSUME NEW t \in Transitions, SweepLease(t) PROVE Types'
    BY <2>1 DEF SweepLease, deviceVars
  <2>2. ASSUME NEW t \in Transitions, Swept(t) PROVE Types'
    BY <2>2, BringsUpType DEF Swept, deviceVars
  <2>3. ASSUME NEW t \in Transitions, LateEffect(t) PROVE Types'
    BY <2>3 DEF LateEffect, TakesEffect, linkVars
  <2>4. CASE LeaveBus
    <3>1. drops' \in 0..MaxDrops
      BY <2>4, MaxDropsAssumption DEF LeaveBus
    <3> QED
      BY <2>4, <3>1 DEF LeaveBus, linkVars
  <2>5. CASE ComeBack
    BY <2>5 DEF ComeBack, linkVars
  <2> QED
    BY <1>5, <2>1, <2>2, <2>3, <2>4, <2>5 DEF World
<1>6. CASE Streams
  BY <1>6
  DEF Streams, StartStream, StopStream, PastVerdict, transitionVars, linkVars, deviceVars
<1>7. CASE UNCHANGED vars
  BY <1>7 DEF vars, sharedVars, transitionVars, linkVars, deviceVars
<1> QED
  BY <1>1, <1>2, <1>3, <1>4, <1>5, <1>6, <1>7 DEF Next, TransitionNext, Step

-----------------------------------------------------------------------------
(* The chain.  A call is on it from the entry checks until it answers, and    *)
(* whoever is in the actor is its head.                                       *)

OnIt == InActor \union {"queued"}

ChainInv ==
    /\ queue \in Seq(Transitions) /\ Distinct(queue)
    /\ \A t \in Transitions : OnChain(t, queue) <=> tpc[t] \in OnIt
    /\ \A t \in Transitions : tpc[t] \in InActor => AtHead(t)

LEMMA Went ==
    ASSUME Types, NEW t \in Transitions, NEW p, Go(t, p)
    PROVE  tpc'[t] = p /\ \A u \in Transitions : u # t => tpc'[u] = tpc[u]
BY DEF Types, TransitionTypeOK, Go

\* A call that is in the actor goes on in it, or one that is at its head enters.
LEMMA StaysIn ==
    ASSUME Types, ChainInv, NEW t \in Transitions, NEW p \in InActor, Go(t, p),
           tpc[t] \in OnIt, AtHead(t), UNCHANGED queue
    PROVE  ChainInv'
BY Went DEF ChainInv, OnIt, AtHead

LEMMA StaysOff ==
    ASSUME Types, ChainInv, NEW t \in Transitions, NEW p, Go(t, p),
           tpc[t] \notin OnIt, p \notin OnIt, UNCHANGED queue
    PROVE  ChainInv'
BY Went DEF ChainInv, OnIt, AtHead

LEMMA Joins ==
    ASSUME Types, ChainInv, NEW t \in Transitions, Go(t, "queued"), Run(t),
           tpc[t] \notin OnIt
    PROVE  ChainInv'
<1>1. queue \in Seq(Transitions) /\ Distinct(queue) /\ ~OnChain(t, queue)
  BY DEF ChainInv
<1>2. /\ queue' \in Seq(Transitions)
      /\ Distinct(queue')
      /\ \A u : OnChain(u, queue') <=> OnChain(u, queue) \/ u = t
      /\ queue' # <<>>
      /\ queue # <<>> => Head(queue') = Head(queue)
  BY <1>1, Enqueued DEF Run
<1>3. "queued" \in OnIt /\ "queued" \notin InActor
  BY DEF OnIt, InActor
<1> QED
  BY <1>2, <1>3, Went DEF ChainInv, AtHead

LEMMA Leaves ==
    ASSUME Types, ChainInv, NEW t \in Transitions, Go(t, "answered"), Settle(t),
           tpc[t] \in InActor
    PROVE  ChainInv'
<1>1. queue \in Seq(Transitions) /\ Distinct(queue) /\ AtHead(t)
  BY DEF ChainInv
<1>2. /\ queue' \in Seq(Transitions)
      /\ Distinct(queue')
      /\ \A u : OnChain(u, queue') <=> OnChain(u, queue) /\ u # t
  BY <1>1, Dequeued DEF Settle, AtHead
<1>3. "answered" \notin OnIt
  BY DEF OnIt, InActor
<1>4. \A u \in Transitions : u # t => tpc[u] \notin InActor
  BY <1>1 DEF ChainInv, AtHead
<1> QED
  BY <1>2, <1>3, <1>4, Went DEF ChainInv, OnIt

\* Where the steps of a call in the actor lead.
LEMMA InActorStep ==
    ASSUME Types, NEW t \in Transitions, Step(t), tpc[t] \in InActor
    PROVE  \/ (\E p \in InActor : Go(t, p)) /\ UNCHANGED queue
           \/ Go(t, "answered") /\ Settle(t)
<1> USE DEF sharedVars, InActor
<1>1. CASE Rechecked(t) \/ Held(t) \/ HoldReleased(t)
  BY <1>1 DEF Rechecked, Held, HoldReleased
<1>2. CASE Quiesced(t) \/ Inhibited(t)
  BY <1>2 DEF Quiesced, Inhibited, Fail, Unwind
<1>3. CASE CommandAnswered(t) \/ CommandRejected(t) \/ CommandTimedOut(t)
  BY <1>3 DEF CommandAnswered, CommandRejected, CommandTimedOut, NextCommand, Fail,
              Unwind, AfterWatchdog
<1>4. CASE WatchdogUninhibited(t) \/ Uninhibited(t) \/ ForceUninhibited(t)
  BY <1>4 DEF WatchdogUninhibited, Uninhibited, ForceUninhibited, Fail, Unwind,
              AfterWatchdog
<1>5. CASE PortDropped(t) \/ WaitFailed(t) \/ Reenumerated(t) \/ ReadBack(t)
  BY <1>5 DEF PortDropped, WaitFailed, Reenumerated, ReadBack, Rejects, Conclude,
              Fail, Unwind
<1>6. CASE \/ Activated(t) \/ ActivateRejected(t) \/ Reprobed(t)
           \/ QuiesceReleased(t)
  BY <1>6 DEF Activated, ActivateRejected, Reprobed, QuiesceReleased, Fail, Unwind
<1>7. ~EntryChecked(t) /\ ~EnterActor(t)
  BY DEF EntryChecked, EnterActor
<1> QED
  BY <1>1, <1>2, <1>3, <1>4, <1>5, <1>6, <1>7 DEF Step

\* Outside the actor only the entry checks and the entry itself remain.
LEMMA OffActorStep ==
    ASSUME NEW t \in Transitions, Step(t), tpc[t] \notin InActor
    PROVE  EntryChecked(t) \/ EnterActor(t)
BY DEF Step, InActor, Commands, Rechecked, Held, Quiesced, Inhibited,
       CommandAnswered, CommandRejected, CommandTimedOut, WatchdogUninhibited,
       Uninhibited, ForceUninhibited, PortDropped, WaitFailed, Reenumerated,
       ReadBack, Activated, ActivateRejected, Reprobed, QuiesceReleased,
       HoldReleased

\* The world leaves the calls alone; only the sweep touches their leases.
LEMMA WorldStep ==
    ASSUME World \/ Streams \/ UNCHANGED vars
    PROVE  /\ UNCHANGED <<tpc, queue, holds, lease, inhibited, outcome, plan, target>>
           /\ spoilt \subseteq spoilt'
           /\ quiesces' \subseteq quiesces
BY DEF World, SweepLease, Swept, BringsUp, Spoil, LateEffect, LeaveBus, ComeBack,
       Streams, StartStream, StopStream, vars, sharedVars, transitionVars, linkVars

LEMMA StepChain == Types /\ ChainInv /\ [Next]_vars => ChainInv'
<1> SUFFICES ASSUME Types, ChainInv, [Next]_vars PROVE ChainInv'
  OBVIOUS
<1>1. ASSUME NEW t \in Transitions, Execute(t) PROVE ChainInv'
  <2>1. /\ tpc[t] \notin OnIt /\ UNCHANGED queue
        /\ \E p \in {"entry", "answered"} : p \notin OnIt /\ Go(t, p)
    BY <1>1 DEF Execute, OnIt, InActor, sharedVars
  <2> QED
    BY <2>1, StaysOff
<1>2. ASSUME NEW t \in Transitions, Step(t), tpc[t] \in InActor PROVE ChainInv'
  <2>1. CASE (\E p \in InActor : Go(t, p)) /\ UNCHANGED queue
    BY <1>2, <2>1, StaysIn DEF ChainInv, OnIt
  <2>2. CASE Go(t, "answered") /\ Settle(t)
    BY <1>2, <2>2, Leaves
  <2> QED
    BY <1>2, <2>1, <2>2, InActorStep
<1>3. ASSUME NEW t \in Transitions, EntryChecked(t) PROVE ChainInv'
  <2>1. tpc[t] \notin OnIt /\ "answered" \notin OnIt
    BY <1>3 DEF EntryChecked, OnIt, InActor
  <2>2. \/ Go(t, "queued") /\ Run(t)
        \/ Go(t, "answered") /\ UNCHANGED queue
    BY <1>3 DEF EntryChecked
  <2> QED
    BY <2>1, <2>2, Joins, StaysOff
<1>4. ASSUME NEW t \in Transitions, EnterActor(t) PROVE ChainInv'
  <2>1. /\ tpc[t] \in OnIt /\ AtHead(t) /\ UNCHANGED queue
        /\ "recheck" \in InActor /\ Go(t, "recheck")
    BY <1>4 DEF EnterActor, OnIt, InActor, sharedVars
  <2> QED
    BY <2>1, StaysIn
<1>5. CASE World \/ Streams \/ UNCHANGED vars
  BY <1>5, WorldStep DEF ChainInv, AtHead
<1> QED
  BY <1>1, <1>2, <1>3, <1>4, <1>5, OffActorStep DEF Next, TransitionNext

-----------------------------------------------------------------------------
(* The interlock's hold.                                                      *)

UnderHold == Disrupting \union {"releaseHold"}

HoldInv ==
    \A t \in Transitions :
        /\ tpc[t] \in UnderHold => t \in holds
        /\ t \in holds => \/ tpc[t] \in UnderHold
                          \/ tpc[t] = "answered" /\ <<t, "hold">> \in spoilt

\* From the quiesce on a call goes on to what is under the hold too, and no
\* call but the last changes the hold.
LEMMA DisruptingStep ==
    ASSUME Types, NEW t \in Transitions, Step(t), tpc[t] \in Disrupting
    PROVE  /\ \E p \in UnderHold : Go(t, p)
           /\ UNCHANGED <<holds, streaming, slipped>>
           /\ spoilt \subseteq spoilt'
<1> USE DEF sharedVars, UnderHold, Disrupting, InActor
<1>1. CASE Quiesced(t) \/ Inhibited(t)
  BY <1>1 DEF Quiesced, Inhibited, Fail, Unwind, Spoil
<1>2. CASE CommandAnswered(t) \/ CommandRejected(t) \/ CommandTimedOut(t)
  BY <1>2 DEF CommandAnswered, CommandRejected, CommandTimedOut, NextCommand, Fail,
              Unwind, AfterWatchdog
<1>3. CASE WatchdogUninhibited(t) \/ Uninhibited(t) \/ ForceUninhibited(t)
  BY <1>3 DEF WatchdogUninhibited, Uninhibited, ForceUninhibited, Uninhibits, Fail,
              Unwind, AfterWatchdog, Spoil
<1>4. CASE PortDropped(t) \/ WaitFailed(t) \/ Reenumerated(t) \/ ReadBack(t)
  BY <1>4 DEF PortDropped, WaitFailed, Reenumerated, ReadBack, Rejects, Conclude,
              Fail, Unwind
<1>5. CASE \/ Activated(t) \/ ActivateRejected(t) \/ Reprobed(t)
           \/ QuiesceReleased(t)
  BY <1>5 DEF Activated, ActivateRejected, Reprobed, QuiesceReleased, BringsUp,
              Fail, Unwind, Spoil
<1>6. /\ ~EntryChecked(t) /\ ~EnterActor(t) /\ ~Rechecked(t) /\ ~Held(t)
      /\ ~HoldReleased(t)
  BY DEF EntryChecked, EnterActor, Rechecked, Held, HoldReleased
<1> QED
  BY <1>1, <1>2, <1>3, <1>4, <1>5, <1>6 DEF Step

LEMMA OtherStep ==
    ASSUME NEW t \in Transitions, Step(t), tpc[t] \notin Disrupting
    PROVE  EntryChecked(t) \/ EnterActor(t) \/ Rechecked(t) \/ Held(t)
           \/ HoldReleased(t)
BY DEF Step, Disrupting, InActor, Commands, Quiesced, Inhibited,
       CommandAnswered, CommandRejected, CommandTimedOut, WatchdogUninhibited,
       Uninhibited, ForceUninhibited, PortDropped, WaitFailed, Reenumerated,
       ReadBack, Activated, ActivateRejected, Reprobed, QuiesceReleased

\* The hold changes hands only for the call that steps.
LEMMA HoldOfOne ==
    ASSUME HoldInv, NEW t \in Transitions,
           \A u \in Transitions : u # t => tpc'[u] = tpc[u],
           \A u \in Transitions : u # t => (u \in holds' <=> u \in holds),
           spoilt \subseteq spoilt',
           tpc'[t] \in UnderHold => t \in holds',
           t \in holds' => \/ tpc'[t] \in UnderHold
                           \/ tpc'[t] = "answered" /\ <<t, "hold">> \in spoilt'
    PROVE  HoldInv'
<1>1. ASSUME NEW u \in Transitions
      PROVE  /\ tpc'[u] \in UnderHold => u \in holds'
             /\ u \in holds' => \/ tpc'[u] \in UnderHold
                                \/ tpc'[u] = "answered" /\ <<u, "hold">> \in spoilt'
  <2>1. CASE u = t
    BY <2>1
  <2>2. CASE u # t
    BY <2>2 DEF HoldInv
  <2> QED
    BY <2>1, <2>2
<1>2. UnderHold' = UnderHold
  BY DEF UnderHold, Disrupting, InActor
<1> QED
  BY <1>1, <1>2 DEF HoldInv

LEMMA StepHold == Types /\ HoldInv /\ [Next]_vars => HoldInv'
<1> SUFFICES ASSUME Types, HoldInv, [Next]_vars PROVE HoldInv'
  OBVIOUS
<1>a. /\ {"idle", "entry", "queued", "recheck", "hold", "answered"} \intersect UnderHold = {}
      /\ {"quiesce", "releaseHold"} \subseteq UnderHold
      /\ Disrupting \subseteq UnderHold
  BY DEF UnderHold, Disrupting, InActor
<1>1. ASSUME NEW t \in Transitions,
             Execute(t) \/ EntryChecked(t) \/ EnterActor(t) \/ Rechecked(t)
      PROVE  HoldInv'
  <2>1. /\ tpc[t] \in {"idle", "entry", "queued", "recheck"}
        /\ UNCHANGED <<holds, spoilt>>
        /\ \E p \in {"entry", "queued", "recheck", "hold", "answered"} : Go(t, p)
    BY <1>1 DEF Execute, EntryChecked, EnterActor, Rechecked, sharedVars
  <2>2. /\ \A u \in Transitions : u # t => tpc'[u] = tpc[u]
        /\ tpc'[t] \notin UnderHold
    BY <2>1, <1>a, Went
  <2>3. t \notin holds
    BY <2>1, <1>a DEF HoldInv
  <2> QED
    BY <2>1, <2>2, <2>3, HoldOfOne
<1>2. ASSUME NEW t \in Transitions, Held(t) PROVE HoldInv'
  <2>1. /\ tpc[t] = "hold" /\ spoilt' = spoilt
        /\ \/ Go(t, "quiesce") /\ holds' = holds \union {t}
           \/ Go(t, "answered") /\ holds' = holds
    BY <1>2 DEF Held
  <2>2. t \notin holds
    BY <2>1, <1>a DEF HoldInv
  <2>3. CASE Go(t, "quiesce") /\ holds' = holds \union {t}
    <3>1. /\ \A u \in Transitions : u # t => tpc'[u] = tpc[u]
          /\ tpc'[t] = "quiesce" /\ tpc'[t] \in UnderHold
      BY <2>3, <1>a, Went
    <3>2. /\ \A u \in Transitions : u # t => (u \in holds' <=> u \in holds)
          /\ spoilt \subseteq spoilt' /\ t \in holds'
      BY <2>1, <2>3
    <3> QED
      BY <3>1, <3>2, HoldOfOne
  <2>4. CASE Go(t, "answered") /\ holds' = holds
    <3>1. /\ \A u \in Transitions : u # t => tpc'[u] = tpc[u]
          /\ tpc'[t] = "answered" /\ tpc'[t] \notin UnderHold
      BY <2>4, <1>a, Went
    <3>2. /\ \A u \in Transitions : u # t => (u \in holds' <=> u \in holds)
          /\ spoilt \subseteq spoilt' /\ t \notin holds'
      BY <2>1, <2>2, <2>4
    <3> QED
      BY <3>1, <3>2, HoldOfOne
  <2> QED
    BY <2>1, <2>3, <2>4
<1>3. ASSUME NEW t \in Transitions, HoldReleased(t) PROVE HoldInv'
  <2>1. /\ Go(t, "answered")
        /\ \/ holds' = holds \ {t} /\ spoilt' = spoilt
           \/ holds' = holds /\ spoilt' = spoilt \union {<<t, "hold">>}
    BY <1>3 DEF HoldReleased, Spoil
  <2>2. /\ \A u \in Transitions : u # t => tpc'[u] = tpc[u]
        /\ tpc'[t] = "answered" /\ tpc'[t] \notin UnderHold
    BY <2>1, <1>a, Went
  <2>3. /\ \A u \in Transitions : u # t => (u \in holds' <=> u \in holds)
        /\ spoilt \subseteq spoilt'
        /\ t \in holds' => <<t, "hold">> \in spoilt'
    BY <2>1
  <2> QED
    BY <2>2, <2>3, HoldOfOne
<1>4. ASSUME NEW t \in Transitions, Step(t), tpc[t] \in Disrupting PROVE HoldInv'
  <2>1. PICK p \in UnderHold : Go(t, p)
    BY <1>4, DisruptingStep
  <2>2. /\ tpc'[t] \in UnderHold
        /\ \A u \in Transitions : u # t => tpc'[u] = tpc[u]
    BY <2>1, Went
  <2>3. holds' = holds /\ spoilt \subseteq spoilt'
    BY <1>4, DisruptingStep
  <2>4. t \in holds
    BY <1>4, <1>a DEF HoldInv
  <2> QED
    BY <2>2, <2>3, <2>4, HoldOfOne
<1>5. CASE World \/ Streams \/ UNCHANGED vars
  <2>1. UNCHANGED <<tpc, holds>> /\ spoilt \subseteq spoilt'
    BY <1>5, WorldStep
  <2> QED
    BY <2>1 DEF HoldInv, UnderHold, Disrupting, InActor
<1> QED
  BY <1>1, <1>2, <1>3, <1>4, <1>5, OtherStep DEF Next, TransitionNext

-----------------------------------------------------------------------------
(* Streams.  While a call is under the hold none can start; a stream that is  *)
(* live then began between the last verdict and the hold.                     *)

StreamInv ==
    \A t \in Transitions :
        streaming /\ tpc[t] \in UnderHold \union {"hold"} => t \in slipped

LEMMA StepStream == Types /\ HoldInv /\ StreamInv /\ [Next]_vars => StreamInv'
<1> SUFFICES ASSUME Types, HoldInv, StreamInv, [Next]_vars PROVE StreamInv'
  OBVIOUS
<1> USE DEF UnderHold, Disrupting, InActor
<1>1. ASSUME NEW t \in Transitions, Execute(t) \/ EntryChecked(t) \/ EnterActor(t)
      PROVE  StreamInv'
  <2>1. /\ UNCHANGED <<streaming, slipped>>
        /\ \E p \in {"entry", "queued", "recheck", "answered"} : Go(t, p)
    BY <1>1 DEF Execute, EntryChecked, EnterActor, sharedVars
  <2> QED
    BY <2>1, Went DEF StreamInv
<1>2. ASSUME NEW t \in Transitions, Rechecked(t) PROVE StreamInv'
  BY <1>2, Went DEF Rechecked, Admits, StreamInv
<1>3. ASSUME NEW t \in Transitions, Held(t) \/ HoldReleased(t) PROVE StreamInv'
  <2>1. /\ UNCHANGED <<streaming, slipped>>
        /\ tpc[t] = "hold" \/ tpc[t] = "releaseHold"
        /\ \E p \in {"quiesce", "answered"} : Go(t, p)
    BY <1>3 DEF Held, HoldReleased
  <2>2. streaming => t \in slipped
    BY <2>1 DEF StreamInv
  <2> QED
    BY <2>1, <2>2, Went DEF StreamInv
<1>4. ASSUME NEW t \in Transitions, Step(t), tpc[t] \in Disrupting PROVE StreamInv'
  <2>1. PICK p \in UnderHold : Go(t, p)
    BY <1>4, DisruptingStep
  <2>2. UNCHANGED <<streaming, slipped>>
    BY <1>4, DisruptingStep
  <2>3. tpc[t] \in UnderHold
    BY <1>4
  <2> QED
    BY <2>1, <2>2, <2>3, Went DEF StreamInv
<1>5. CASE Streams
  BY <1>5
  DEF Streams, StartStream, StopStream, PastVerdict, transitionVars, HoldInv, StreamInv
<1>6. CASE World \/ UNCHANGED vars
  <2>1. UNCHANGED <<streaming, slipped>>
    BY <1>6 DEF World, SweepLease, Swept, LateEffect, LeaveBus, ComeBack, vars, sharedVars
  <2> QED
    BY <1>6, <2>1, WorldStep DEF StreamInv
<1> QED
  BY <1>1, <1>2, <1>3, <1>4, <1>5, <1>6, OtherStep DEF Next, TransitionNext

-----------------------------------------------------------------------------
(* The inhibition.  Who has it inhibited has the lease in hand, or is in one  *)
(* of the three calls that give it back, or saw such a call fail, or was      *)
(* never told that it has it, and is on its way to a failure.                 *)

Untold(t) == <<t, "taking">> \in spoilt

InhibitInv ==
    \A t \in Transitions :
        /\ lease[t] => inhibited = t /\ tpc[t] \in {"switch", "apply", "drop"}
        /\ tpc[t] \in {"switch", "apply"} => lease[t]
        /\ inhibited = t => \/ lease[t]
                            \/ tpc[t] \in {"watchdog", "uninhibit", "catch"}
                            \/ <<t, "inhibit">> \in spoilt
                            \/ Untold(t)
        /\ Untold(t) => /\ outcome[t] = "failed"
                        /\ tpc[t] \in {"reprobe", "releaseQuiesce", "releaseHold",
                                       "answered"}

\* What the steps of a call do to its inhibition.
LEMMA InhibitStep ==
    ASSUME Types, InhibitInv, NEW t \in Transitions, Execute(t) \/ Step(t)
    PROVE  /\ \A u \in Transitions : u # t => lease'[u] = lease[u]
           /\ \A u \in Transitions : u # t => (inhibited' = u <=> inhibited = u)
           /\ spoilt \subseteq spoilt'
           /\ lease'[t] => inhibited' = t /\ tpc'[t] \in {"switch", "apply", "drop"}
           /\ tpc'[t] \in {"switch", "apply"} => lease'[t]
           /\ inhibited' = t => \/ lease'[t]
                                \/ tpc'[t] \in {"watchdog", "uninhibit", "catch"}
                                \/ <<t, "inhibit">> \in spoilt'
                                \/ Untold(t)'
           /\ Untold(t)' => /\ outcome'[t] = "failed"
                            /\ tpc'[t] \in {"reprobe", "releaseQuiesce",
                                           "releaseHold", "answered"}
           /\ \A u \in Transitions : u # t =>
                  outcome'[u] = outcome[u] /\ (Untold(u)' <=> Untold(u))
<1> USE DEF Go, Types, TransitionTypeOK, Report, Untold
<1>1. CASE Execute(t) \/ EntryChecked(t) \/ EnterActor(t) \/ Rechecked(t) \/ Held(t)
  <2>1. /\ UNCHANGED <<lease, inhibited, spoilt>>
        /\ tpc[t] \in {"idle", "entry", "queued", "recheck", "hold"}
        /\ \E p \in {"entry", "queued", "recheck", "hold", "quiesce", "answered"} :
              tpc' = [tpc EXCEPT ![t] = p]
    BY <1>1 DEF Execute, EntryChecked, EnterActor, Rechecked, Held
  <2>2. \A u \in Transitions : u # t => outcome'[u] = outcome[u]
    BY <1>1 DEF Execute, EntryChecked, EnterActor, Rechecked, Held
  <2> QED
    BY <2>1, <2>2 DEF InhibitInv
<1>2. CASE Quiesced(t) \/ Activated(t) \/ Reprobed(t) \/ QuiesceReleased(t)
           \/ HoldReleased(t) \/ ReadBack(t)
  <2>1. /\ UNCHANGED <<lease, inhibited>> /\ spoilt \subseteq spoilt'
        /\ tpc[t] \in {"quiesce", "activate", "reprobe", "releaseQuiesce",
                       "releaseHold", "readback"}
        /\ \E p \in {"inhibit", "activate", "releaseQuiesce", "releaseHold", "answered"} :
              tpc' = [tpc EXCEPT ![t] = p]
    BY <1>2 DEF Quiesced, Activated, Reprobed, QuiesceReleased, HoldReleased,
                ReadBack, Conclude, BringsUp, Spoil
  <2>2. \A u \in Transitions : u # t => outcome'[u] = outcome[u]
    BY <1>2 DEF Quiesced, Activated, Reprobed, QuiesceReleased, HoldReleased,
                ReadBack, Conclude
  <2>3. spoilt' \subseteq spoilt \union {<<t, "link">>, <<t, "hold">>}
    BY <1>2 DEF Quiesced, Activated, Reprobed, QuiesceReleased, HoldReleased,
                ReadBack, BringsUp, Spoil
  <2>4. tpc[t] \in {"reprobe", "releaseQuiesce", "releaseHold"} =>
           /\ outcome' = outcome
           /\ tpc'[t] \in {"releaseQuiesce", "releaseHold", "answered"}
    BY <1>2 DEF Quiesced, Activated, Reprobed, QuiesceReleased, HoldReleased, ReadBack
  <2>5. \A u \in Transitions : Untold(u)' <=> Untold(u)
    BY <2>1, <2>3
  <2> QED
    BY <2>1, <2>2, <2>4, <2>5 DEF InhibitInv
<1>3. CASE Inhibited(t)
  BY <1>3, NoneAssumption DEF Inhibited, Spoil, Fail, Unwind, InhibitInv
<1>4. CASE CommandAnswered(t)
  BY <1>4 DEF CommandAnswered, NextCommand, InhibitInv
<1>5. CASE CommandRejected(t) \/ ActivateRejected(t) \/ WaitFailed(t)
  <2>1. Unwind(t) /\ UNCHANGED <<inhibited, spoilt>>
    BY <1>5 DEF CommandRejected, ActivateRejected, WaitFailed, Rejects, Fail
  <2>2. tpc[t] \in Commands \union {"activate", "drop", "reenumerate"}
    BY <1>5 DEF CommandRejected, ActivateRejected, WaitFailed
  <2>3. \A u \in Transitions : u # t => outcome'[u] = outcome[u]
    BY <1>5 DEF CommandRejected, ActivateRejected, WaitFailed, Rejects, Fail
  <2> QED
    BY <2>1, <2>2, <2>3 DEF Unwind, Commands, InhibitInv
<1>6. CASE CommandTimedOut(t)
  BY <1>6 DEF CommandTimedOut, AfterWatchdog, Commands, InhibitInv
<1>7. CASE WatchdogUninhibited(t) \/ ForceUninhibited(t)
  <2>1. /\ Uninhibits(t) /\ lease' = lease
        /\ tpc[t] \in {"watchdog", "catch"} /\ tpc' = [tpc EXCEPT ![t] = "reprobe"]
    BY <1>7 DEF WatchdogUninhibited, ForceUninhibited, AfterWatchdog
  <2>2. \A u \in Transitions : u # t => outcome'[u] = outcome[u]
    BY <1>7 DEF WatchdogUninhibited, ForceUninhibited, AfterWatchdog
  <2> QED
    BY <2>1, <2>2, NoneAssumption DEF Uninhibits, Releases, Spoil, InhibitInv
<1>8. CASE Uninhibited(t)
  BY <1>8, NoneAssumption
  DEF Uninhibited, Releases, Spoil, Fail, Unwind, InhibitInv
<1>9. CASE PortDropped(t)
  BY <1>9 DEF PortDropped, InhibitInv
<1>10. CASE Reenumerated(t)
  BY <1>10 DEF Reenumerated, Conclude, InhibitInv
<1> QED
  BY <1>1, <1>2, <1>3, <1>4, <1>5, <1>6, <1>7, <1>8, <1>9, <1>10 DEF Step

\* A call moves itself only.
LEMMA OthersStay ==
    ASSUME Types, NEW t \in Transitions, Execute(t) \/ Step(t)
    PROVE  \A u \in Transitions : u # t => tpc'[u] = tpc[u]
<1>1. \E p : Go(t, p)
  <2>1. CASE Execute(t) \/ EntryChecked(t) \/ EnterActor(t)
    BY <2>1 DEF Execute, EntryChecked, EnterActor
  <2>2. CASE Step(t) /\ tpc[t] \in InActor
    BY <2>2, InActorStep
  <2> QED
    BY <2>1, <2>2, OffActorStep
<1> QED
  BY <1>1, Went

LEMMA StepInhibit == Types /\ InhibitInv /\ [Next]_vars => InhibitInv'
<1> SUFFICES ASSUME Types, InhibitInv, [Next]_vars PROVE InhibitInv'
  OBVIOUS
<1>1. ASSUME NEW t \in Transitions, Execute(t) \/ Step(t) PROVE InhibitInv'
  <2>1. /\ \A u \in Transitions : u # t => tpc'[u] = tpc[u]
        /\ \A u \in Transitions : u # t => lease'[u] = lease[u]
        /\ \A u \in Transitions : u # t => (inhibited' = u <=> inhibited = u)
        /\ spoilt \subseteq spoilt'
        /\ \A u \in Transitions : u # t =>
               outcome'[u] = outcome[u] /\ (Untold(u)' <=> Untold(u))
    BY <1>1, InhibitStep, OthersStay
  <2>2. ASSUME NEW u \in Transitions, u # t
        PROVE  /\ lease'[u] => inhibited' = u /\ tpc'[u] \in {"switch", "apply", "drop"}
               /\ tpc'[u] \in {"switch", "apply"} => lease'[u]
               /\ inhibited' = u => \/ lease'[u]
                                    \/ tpc'[u] \in {"watchdog", "uninhibit", "catch"}
                                    \/ <<u, "inhibit">> \in spoilt'
                                    \/ Untold(u)'
               /\ Untold(u)' => /\ outcome'[u] = "failed"
                                /\ tpc'[u] \in {"reprobe", "releaseQuiesce",
                                               "releaseHold", "answered"}
    BY <2>1, <2>2 DEF InhibitInv
  <2>3. /\ lease'[t] => inhibited' = t /\ tpc'[t] \in {"switch", "apply", "drop"}
        /\ tpc'[t] \in {"switch", "apply"} => lease'[t]
        /\ inhibited' = t => \/ lease'[t]
                             \/ tpc'[t] \in {"watchdog", "uninhibit", "catch"}
                             \/ <<t, "inhibit">> \in spoilt'
                             \/ Untold(t)'
        /\ Untold(t)' => /\ outcome'[t] = "failed"
                         /\ tpc'[t] \in {"reprobe", "releaseQuiesce",
                                        "releaseHold", "answered"}
    BY <1>1, InhibitStep
  <2> QED
    BY <2>2, <2>3 DEF InhibitInv
<1>2. CASE World \/ Streams \/ UNCHANGED vars
  <2>1. \A u \in Transitions : Untold(u)' <=> Untold(u)
    BY <1>2 DEF Untold, World, SweepLease, Swept, BringsUp, Spoil, LateEffect,
                LeaveBus, ComeBack, Streams, vars, transitionVars
  <2> QED
    BY <1>2, <2>1, WorldStep DEF InhibitInv
<1> QED
  BY <1>1, <1>2 DEF Next, TransitionNext

-----------------------------------------------------------------------------
(* The quiesce lease and the connection.  Only a success leaves its lease     *)
(* behind.  A connection that is down has somebody who will bring it up, or a *)
(* command that failed to.                                                    *)

QuiesceInv ==
    \A t \in quiesces : \/ tpc[t] \in Disrupting \ {"quiesce"}
                        \/ /\ tpc[t] \in {"releaseHold", "answered"}
                           /\ outcome[t] = "succeeded"

LinkSpoilt == \E t \in Transitions : <<t, "link">> \in spoilt

LinkInv == \/ linked \/ sweeping # {} \/ LinkSpoilt
           \/ \E t \in quiesces : tpc[t] \in Disrupting

\* What the steps of a call do to its quiesce lease.
LEMMA QuiesceStep ==
    ASSUME Types, QuiesceInv, NEW t \in Transitions, Execute(t) \/ Step(t)
    PROVE  /\ quiesces' \subseteq quiesces \union {t}
           /\ t \in quiesces' => \/ tpc'[t] \in Disrupting \ {"quiesce"}
                                 \/ /\ tpc'[t] \in {"releaseHold", "answered"}
                                    /\ outcome'[t] = "succeeded"
           /\ \A u \in Transitions : u # t => outcome'[u] = outcome[u]
<1> USE DEF Go, Report, Types, TransitionTypeOK, Disrupting, InActor
<1>1. CASE Execute(t) \/ EntryChecked(t) \/ EnterActor(t) \/ Rechecked(t) \/ Held(t)
  <2>1. /\ UNCHANGED quiesces
        /\ tpc[t] \in {"idle", "entry", "queued", "recheck", "hold"}
        /\ \A u \in Transitions : u # t => outcome'[u] = outcome[u]
    BY <1>1 DEF Execute, EntryChecked, EnterActor, Rechecked, Held, linkVars
  <2> QED
    BY <2>1 DEF QuiesceInv
<1>2. CASE Quiesced(t)
  BY <1>2 DEF Quiesced, QuiesceInv
<1>3. CASE \/ Inhibited(t) \/ CommandAnswered(t) \/ CommandRejected(t)
           \/ CommandTimedOut(t) \/ WatchdogUninhibited(t) \/ Uninhibited(t)
           \/ ForceUninhibited(t) \/ PortDropped(t) \/ WaitFailed(t)
  <2>1. /\ UNCHANGED quiesces
        /\ outcome' = outcome \/ outcome' = [outcome EXCEPT ![t] = "failed"]
        /\ \E p \in Disrupting \ {"quiesce"} : tpc' = [tpc EXCEPT ![t] = p]
    BY <1>3
    DEF Inhibited, CommandAnswered, CommandRejected, CommandTimedOut,
        WatchdogUninhibited, Uninhibited, ForceUninhibited, PortDropped, WaitFailed,
        NextCommand, Rejects, Fail, Unwind, AfterWatchdog, linkVars
  <2> QED
    BY <2>1
<1>4. CASE Reenumerated(t) \/ ReadBack(t) \/ ActivateRejected(t) \/ Reprobed(t)
  <2>1. /\ UNCHANGED quiesces
        /\ outcome' = outcome \/ outcome' = [outcome EXCEPT ![t] = "failed"]
        /\ \E p \in Disrupting \ {"quiesce"} : tpc' = [tpc EXCEPT ![t] = p]
    BY <1>4
    DEF Reenumerated, ReadBack, ActivateRejected, Reprobed, Conclude, Fail, Unwind,
        linkVars
  <2> QED
    BY <2>1
<1>5. CASE Activated(t)
  BY <1>5 DEF Activated
<1>6. CASE QuiesceReleased(t)
  BY <1>6 DEF QuiesceReleased
<1>7. CASE HoldReleased(t)
  BY <1>7 DEF HoldReleased, QuiesceInv, linkVars
<1> QED
  BY <1>1, <1>2, <1>3, <1>4, <1>5, <1>6, <1>7 DEF Step

LEMMA StepQuiesce == Types /\ QuiesceInv /\ [Next]_vars => QuiesceInv'
<1> SUFFICES ASSUME Types, QuiesceInv, [Next]_vars PROVE QuiesceInv'
  OBVIOUS
<1>1. quiesces \subseteq Transitions
  BY DEF Types, TransitionTypeOK
<1>2. ASSUME NEW t \in Transitions, Execute(t) \/ Step(t) PROVE QuiesceInv'
  BY <1>1, <1>2, QuiesceStep, OthersStay DEF QuiesceInv
<1>3. CASE World \/ Streams \/ UNCHANGED vars
  BY <1>3, WorldStep DEF QuiesceInv
<1> QED
  BY <1>2, <1>3 DEF Next, TransitionNext

\* A step takes the connection down or a lease away only with a trace of it.
LEMMA LinkStep ==
    ASSUME Types, QuiesceInv, LinkInv, NEW t \in Transitions, Execute(t) \/ Step(t)
    PROVE  LinkInv'
<1> USE DEF Types, TransitionTypeOK
<1>1. ASSUME spoilt \subseteq spoilt', sweeping' = sweeping, linked => linked',
             quiesces \subseteq quiesces',
             tpc[t] \in Disrupting => tpc'[t] \in Disrupting \/ LinkSpoilt' \/ linked'
      PROVE  LinkInv'
  BY <1>1, OthersStay DEF LinkInv, LinkSpoilt
<1>2. CASE BringsUp(t)
  BY <1>2 DEF BringsUp, Spoil, LinkInv, LinkSpoilt
<1>3. CASE Quiesced(t)
  BY <1>3 DEF Quiesced, Go, Spoil, LinkInv, LinkSpoilt, Disrupting, InActor
<1>4. CASE QuiesceReleased(t) /\ t \notin quiesces
  BY <1>4, OthersStay DEF QuiesceReleased, LinkInv, LinkSpoilt
<1>5. CASE Activated(t) \/ (QuiesceReleased(t) /\ t \in quiesces)
  BY <1>2, <1>5 DEF Activated, QuiesceReleased
<1>6. CASE Execute(t) \/ EntryChecked(t) \/ EnterActor(t) \/ Rechecked(t) \/ Held(t)
           \/ HoldReleased(t)
  <2>1. /\ spoilt \subseteq spoilt' /\ UNCHANGED <<quiesces, sweeping, linked>>
        /\ tpc[t] \notin Disrupting
    BY <1>6 DEF Execute, EntryChecked, EnterActor, Rechecked, Held, HoldReleased,
                Spoil, linkVars, Disrupting, InActor
  <2> QED
    BY <1>1, <2>1
<1>7. CASE \/ Inhibited(t) \/ CommandAnswered(t) \/ CommandRejected(t)
           \/ CommandTimedOut(t) \/ WatchdogUninhibited(t) \/ Uninhibited(t)
           \/ ForceUninhibited(t) \/ PortDropped(t) \/ WaitFailed(t)
  <2>1. /\ spoilt \subseteq spoilt' /\ UNCHANGED <<quiesces, sweeping, linked>>
        /\ \E p \in Disrupting : tpc' = [tpc EXCEPT ![t] = p]
    BY <1>7
    DEF Inhibited, CommandAnswered, CommandRejected, CommandTimedOut,
        WatchdogUninhibited, Uninhibited, ForceUninhibited, PortDropped, WaitFailed,
        NextCommand, Rejects, Fail, Unwind, AfterWatchdog, Uninhibits, Spoil, Go,
        linkVars, Disrupting, InActor
  <2> QED
    BY <1>1, <2>1
<1>8. CASE Reenumerated(t) \/ ReadBack(t) \/ ActivateRejected(t) \/ Reprobed(t)
  <2>1. /\ UNCHANGED <<spoilt, quiesces, sweeping>>
        /\ linked => linked'
        /\ \E p \in Disrupting : tpc' = [tpc EXCEPT ![t] = p]
    BY <1>8
    DEF Reenumerated, ReadBack, ActivateRejected, Reprobed, Conclude, Fail, Unwind,
        Go, linkVars, Disrupting, InActor
  <2> QED
    BY <1>1, <2>1
<1> QED
  BY <1>3, <1>4, <1>5, <1>6, <1>7, <1>8 DEF Step

LEMMA StepLink == Types /\ QuiesceInv /\ LinkInv /\ [Next]_vars => LinkInv'
<1> SUFFICES ASSUME Types, QuiesceInv, LinkInv, [Next]_vars PROVE LinkInv'
  OBVIOUS
<1>1. ASSUME NEW t \in Transitions, Execute(t) \/ Step(t) PROVE LinkInv'
  BY <1>1, LinkStep
<1>2. ASSUME NEW t \in Transitions, SweepLease(t) PROVE LinkInv'
  BY <1>2 DEF SweepLease, LinkInv
<1>3. ASSUME NEW t \in Transitions, Swept(t) PROVE LinkInv'
  BY <1>3 DEF Swept, BringsUp, Spoil, LinkInv, LinkSpoilt
<1>4. CASE \/ \E t \in Transitions : LateEffect(t)
           \/ LeaveBus \/ ComeBack \/ Streams \/ UNCHANGED vars
  <2>1. UNCHANGED <<tpc, linkVars, spoilt>>
    BY <1>4 DEF LateEffect, LeaveBus, ComeBack, Streams, vars, transitionVars
  <2> QED
    BY <2>1 DEF linkVars, LinkInv, LinkSpoilt
<1> QED
  BY <1>1, <1>2, <1>3, <1>4 DEF Next, TransitionNext, World

-----------------------------------------------------------------------------
(* Commands that timed out.  Whoever sent one is on the way out of its        *)
(* transaction, and nothing on that way leads to the proof of success.        *)

WayOut == {"watchdog", "reprobe", "releaseQuiesce", "releaseHold", "answered"}

AirInv == \A t \in Transitions, c \in Commands : <<t, c>> \in air => tpc[t] \in WayOut

\* A step that leaves the commands of the air alone, and a call that is not on
\* the way out, or stays on it.
LEMMA AirStays ==
    ASSUME Types, AirInv, NEW t \in Transitions, Execute(t) \/ Step(t),
           air' = air, tpc[t] \in WayOut => tpc'[t] \in WayOut
    PROVE  AirInv'
<1>1. \A u \in Transitions : u # t => tpc'[u] = tpc[u]
  BY OthersStay
<1>2. WayOut' = WayOut /\ Commands' = Commands
  BY DEF WayOut, Commands
<1> QED
  BY <1>1, <1>2 DEF AirInv

LEMMA AirStep ==
    ASSUME Types, AirInv, NEW t \in Transitions, Execute(t) \/ Step(t)
    PROVE  AirInv'
<1> USE DEF Types, TransitionTypeOK, Go
<1>1. CASE CommandTimedOut(t)
  <2>1. /\ air' \subseteq air \union {<<t, tpc[t]>>}
        /\ tpc'[t] \in WayOut
    BY <1>1 DEF CommandTimedOut, AfterWatchdog, WayOut
  <2>2. \A u \in Transitions : u # t => tpc'[u] = tpc[u]
    BY <1>1, OthersStay DEF Step
  <2>3. ASSUME NEW u \in Transitions, NEW c \in Commands, <<u, c>> \in air'
        PROVE  tpc'[u] \in WayOut
    <3>1. CASE u = t
      BY <2>1, <3>1
    <3>2. CASE u # t
      BY <2>1, <2>2, <2>3, <3>2 DEF AirInv
    <3> QED
      BY <3>1, <3>2
  <2>4. WayOut' = WayOut /\ Commands' = Commands
    BY DEF WayOut, Commands
  <2> QED
    BY <2>3, <2>4 DEF AirInv
<1>2. CASE Execute(t) \/ EntryChecked(t) \/ EnterActor(t) \/ Rechecked(t) \/ Held(t)
           \/ Quiesced(t) \/ Inhibited(t)
  <2>1. air' = air /\ tpc[t] \notin WayOut
    BY <1>2 DEF Execute, EntryChecked, EnterActor, Rechecked, Held, Quiesced, Inhibited,
                deviceVars, WayOut
  <2> QED
    BY <2>1, AirStays
<1>3. CASE CommandAnswered(t) \/ CommandRejected(t) \/ Uninhibited(t)
           \/ ForceUninhibited(t) \/ PortDropped(t) \/ WaitFailed(t)
           \/ Reenumerated(t) \/ ReadBack(t) \/ Activated(t) \/ ActivateRejected(t)
  <2>1. air' = air /\ tpc[t] \notin WayOut
    BY <1>3
    DEF CommandAnswered, CommandRejected, Uninhibited, ForceUninhibited, PortDropped,
        WaitFailed, Rejects, Reenumerated, ReadBack, Activated, ActivateRejected,
        Commands, deviceVars, WayOut
  <2> QED
    BY <2>1, AirStays
<1>4. CASE WatchdogUninhibited(t) \/ Reprobed(t) \/ QuiesceReleased(t) \/ HoldReleased(t)
  <2>1. air' = air /\ tpc'[t] \in WayOut
    BY <1>4 DEF WatchdogUninhibited, AfterWatchdog, Reprobed, QuiesceReleased,
                HoldReleased, deviceVars, WayOut
  <2> QED
    BY <2>1, AirStays
<1> QED
  BY <1>1, <1>2, <1>3, <1>4 DEF Step

LEMMA StepAir == Types /\ AirInv /\ [Next]_vars => AirInv'
<1> SUFFICES ASSUME Types, AirInv, [Next]_vars PROVE AirInv'
  OBVIOUS
<1>1. ASSUME NEW t \in Transitions, Execute(t) \/ Step(t) PROVE AirInv'
  BY <1>1, AirStep
<1>2. CASE World \/ Streams \/ UNCHANGED vars
  <2>1. air' \subseteq air
    BY <1>2 DEF World, SweepLease, Swept, LateEffect, LeaveBus, ComeBack, Streams,
                vars, transitionVars, deviceVars
  <2>2. tpc' = tpc
    BY <1>2, WorldStep
  <2> QED
    BY <2>1, <2>2 DEF AirInv, WayOut, Commands
<1> QED
  BY <1>1, <1>2 DEF Next, TransitionNext

-----------------------------------------------------------------------------
(* The theorems.                                                             *)

TransitionInv ==
    /\ Types
    /\ ChainInv
    /\ HoldInv
    /\ StreamInv
    /\ InhibitInv
    /\ QuiesceInv
    /\ LinkInv
    /\ AirInv

LEMMA InitInv == Init => TransitionInv
<1> SUFFICES ASSUME Init PROVE TransitionInv
  OBVIOUS
<1>1. \A t \in Transitions : tpc[t] = "idle" /\ ~lease[t]
  BY DEF Init, TransitionInit
<1>2. ChainInv
  <2>1. <<>> \in Seq(Transitions) /\ Len(<<>>) = 0
    OBVIOUS
  <2>2. Distinct(<<>>) /\ \A t : ~OnChain(t, <<>>)
    BY <2>1 DEF Distinct, OnChain
  <2> QED
    BY <1>1, <2>1, <2>2 DEF Init, SharedInit, ChainInv, OnIt, InActor
<1>3. HoldInv /\ StreamInv
  BY <1>1 DEF Init, SharedInit, HoldInv, StreamInv, UnderHold, Disrupting, InActor
<1>4. InhibitInv
  BY <1>1, NoneAssumption DEF Init, TransitionInit, InhibitInv, Untold
<1>5. QuiesceInv /\ LinkInv /\ AirInv
  BY DEF Init, TransitionInit, QuiesceInv, LinkInv, AirInv
<1> QED
  BY <1>2, <1>3, <1>4, <1>5, InitTypes DEF TransitionInv

THEOREM TransitionInvHolds == Spec => []TransitionInv
<1>1. TransitionInv /\ [Next]_vars => TransitionInv'
  BY StepTypes, StepChain, StepHold, StepStream, StepInhibit, StepQuiesce, StepLink,
     StepAir
  DEF TransitionInv
<1> QED
  BY <1>1, InitInv, PTL DEF Spec

\* The model's variables keep their types: the chain of the actor holds every
\* call at most once, and what the modem, ModemManager and NetworkManager are
\* left with is something they can be in.
THEOREM TypeCorrect == Spec => []TypeOK
<1>1. TransitionInv => TypeOK
  BY DEF TransitionInv, Types, ChainInv, TypeOK, SharedTypeOK
<1> QED
  BY <1>1, TransitionInvHolds, PTL

\* Two transitions of one modem are never in progress together: a task that
\* rejects leaves the chain of ModemActor.run as one that resolves does.
THEOREM OneAtATimeHolds == Spec => []OneAtATime
<1>1. TransitionInv => OneAtATime
  BY DEF TransitionInv, ChainInv, OneAtATime, AtHead
<1> QED
  BY <1>1, TransitionInvHolds, PTL

\* The one stream a transition may disrupt is a stream that began between the
\* canDisrupt and the hold of the same call.
THEOREM StreamsAreSafeHolds == Spec => []StreamsAreSafe
<1>1. TransitionInv => StreamsAreSafe
  BY DEF TransitionInv, StreamInv, StreamsAreSafe, UnderHold
<1> QED
  BY <1>1, TransitionInvHolds, PTL

\* The commands that change the modem go out under the interlock and the
\* inhibition of their own call, also when a watchdog has fired before.
THEOREM CommandsUnderLeasesHolds == Spec => []CommandsUnderLeases
<1>1. TransitionInv => CommandsUnderLeases
  BY DEF TransitionInv, HoldInv, InhibitInv, CommandsUnderLeases, UnderHold,
         Disrupting, InActor
<1> QED
  BY <1>1, TransitionInvHolds, PTL

\* Whatever fails, a call that has answered has given back the interlock, or the
\* very call that gives it back failed; the inhibition too, or it failed because
\* it was never told that it had taken it; and its quiesce lease, unless it
\* succeeded.
THEOREM EverythingGivenBackHolds == Spec => []EverythingGivenBack
<1>1. TransitionInv => EverythingGivenBack
  BY DEF TransitionInv, HoldInv, InhibitInv, Untold, QuiesceInv, EverythingGivenBack,
         UnderHold, Disrupting, InActor
<1> QED
  BY <1>1, TransitionInvHolds, PTL

\* With no transition in progress the connection is up, about to be brought up,
\* or an nmcli command that should have brought it up failed.
THEOREM LinkIsRestoredHolds == Spec => []LinkIsRestored
<1>1. TransitionInv => LinkIsRestored
  <2> SUFFICES ASSUME TransitionInv, \A t \in Transitions : tpc[t] \notin InActor
               PROVE  linked \/ sweeping # {} \/ LinkSpoilt
    BY DEF LinkIsRestored, LinkSpoilt
  <2>1. quiesces \subseteq Transitions
    BY DEF TransitionInv, Types, TransitionTypeOK
  <2>2. ~ \E t \in quiesces : tpc[t] \in Disrupting
    BY <2>1 DEF Disrupting
  <2> QED
    BY <2>2 DEF TransitionInv, LinkInv
<1> QED
  BY <1>1, TransitionInvHolds, PTL

\* Success is claimed only on the proof of its plan: the modem is on the bus in
\* the mode asked for, or, for a runtime plan, reports it; and by a call none of
\* whose commands may still take effect.
THEOREM SuccessIsProvedHolds == Spec => SuccessIsProved
<1> DEFINE Shown(t) == /\ IF plan[t] = "runtime" THEN target[t] \in {mode, stored}
                          ELSE present /\ mode = target[t]
                       /\ \A c \in Commands : <<t, c>> \notin air
           Proof == \A t \in Transitions :
                       tpc[t] # "activate" /\ tpc'[t] = "activate" => Shown(t)
<1>1. TransitionInv /\ [Next]_vars => Proof
  <2> SUFFICES ASSUME TransitionInv, [Next]_vars, NEW t \in Transitions,
                      tpc[t] # "activate", tpc'[t] = "activate"
               PROVE  Shown(t)
    OBVIOUS
  <2> USE DEF TransitionInv, Types, TransitionTypeOK
  <2>1. Execute(t) \/ Step(t)
    BY OthersStay, WorldStep DEF Next, TransitionNext
  <2>2. Reenumerated(t) \/ ReadBack(t)
    BY <2>1
    DEF Step, Go, Execute, EntryChecked, EnterActor, Rechecked, Held, Quiesced,
        Inhibited, CommandAnswered, CommandRejected, CommandTimedOut, NextCommand,
        WatchdogUninhibited, Uninhibited, ForceUninhibited, PortDropped, WaitFailed,
        Activated, ActivateRejected, Reprobed, QuiesceReleased, HoldReleased,
        Rejects, Fail, Unwind, AfterWatchdog
  <2>3. Conclude(t) /\ tpc[t] \in {"reenumerate", "readback"}
    BY <2>2 DEF Reenumerated, ReadBack, Go
  <2>4. Proved(t)
    BY <2>3 DEF Conclude, Go
  <2>5. tpc[t] \notin WayOut
    BY <2>3 DEF WayOut
  <2> QED
    BY <2>4, <2>5 DEF Proved, Reports, AirInv
<1> QED
  BY <1>1, TransitionInvHolds, PTL DEF Spec, SuccessIsProved
=============================================================================
