---------------------- MODULE DisruptiveOperationsProofs ----------------------
(***************************************************************************)
(* Theorems about the transitions and the ladder of one modem together,    *)
(* for any number of calls of each.                                        *)
(***************************************************************************)
EXTENDS DisruptiveOperations, TLAPS

-----------------------------------------------------------------------------
(* What appending to and taking from the chain of an actor does.             *)

\* A task that is not in the chain may be appended: the chain still holds
\* every task once.
LEMMA Enqueued ==
    ASSUME NEW S, NEW chain \in Seq(S), NEW t \in S,
           Distinct(chain), ~OnChain(t, chain)
    PROVE  /\ Append(chain, t) \in Seq(S)
           /\ Distinct(Append(chain, t))
           /\ \A u : OnChain(u, Append(chain, t)) <=> OnChain(u, chain) \/ u = t
           /\ Append(chain, t) # <<>>
           /\ chain # <<>> => Head(Append(chain, t)) = Head(chain)
<1> DEFINE longer == Append(chain, t)
<1>1. /\ longer \in Seq(S)
      /\ Len(longer) = Len(chain) + 1
      /\ Len(chain) \in Nat
      /\ \A i \in 1..Len(chain) : longer[i] = chain[i]
      /\ longer[Len(chain) + 1] = t
  OBVIOUS
<1>2. \A u : OnChain(u, longer) <=> OnChain(u, chain) \/ u = t
  BY <1>1 DEF OnChain
<1>3. Distinct(longer)
  BY <1>1 DEF Distinct, OnChain
<1>4. longer # <<>>
  BY <1>1
<1>5. ASSUME chain # <<>> PROVE Head(longer) = Head(chain)
  <2>1. 1 \in 1..Len(chain) /\ Head(chain) = chain[1] /\ Head(longer) = longer[1]
    BY <1>1, <1>4, <1>5
  <2> QED
    BY <1>1, <2>1
<1> QED
  BY <1>1, <1>2, <1>3, <1>4, <1>5

\* The head of the chain leaves: every other task keeps its place in line.
LEMMA Dequeued ==
    ASSUME NEW S, NEW chain \in Seq(S), chain # <<>>, Distinct(chain)
    PROVE  /\ Head(chain) \in S
           /\ Tail(chain) \in Seq(S)
           /\ Distinct(Tail(chain))
           /\ \A u : OnChain(u, Tail(chain)) <=> OnChain(u, chain) /\ u # Head(chain)
<1> DEFINE rest == Tail(chain)
<1>1. /\ rest \in Seq(S)
      /\ Len(chain) \in Nat /\ Len(chain) >= 1
      /\ Len(rest) = Len(chain) - 1
      /\ \A i \in 1..Len(rest) : rest[i] = chain[i + 1]
      /\ Head(chain) = chain[1]
      /\ chain[1] \in S
  OBVIOUS
<1>2. Distinct(rest)
  BY <1>1 DEF Distinct
<1>3. ASSUME NEW u, OnChain(u, rest)
      PROVE  OnChain(u, chain) /\ u # Head(chain)
  <2>1. PICK i \in 1..Len(rest) : rest[i] = u
    BY <1>3 DEF OnChain
  <2>2. i + 1 \in 1..Len(chain) /\ chain[i + 1] = u /\ 1 \in 1..Len(chain)
    BY <1>1, <2>1
  <2>3. chain[1] # u
    BY <2>2 DEF Distinct
  <2> QED
    BY <1>1, <2>2, <2>3 DEF OnChain
<1>4. ASSUME NEW u, OnChain(u, chain), u # Head(chain)
      PROVE  OnChain(u, rest)
  <2>1. PICK i \in 1..Len(chain) : chain[i] = u
    BY <1>4 DEF OnChain
  <2>2. i # 1
    BY <1>1, <1>4, <2>1
  <2>3. i - 1 \in 1..Len(rest) /\ rest[i - 1] = u
    BY <1>1, <2>1, <2>2
  <2> QED
    BY <2>3 DEF OnChain
<1> QED
  BY <1>1, <1>2, <1>3, <1>4

-----------------------------------------------------------------------------
(* The chain.  A call is on it while it waits for its turn or is at work, and *)
(* who is at work is the head: this is said once for the calls of both.       *)

Calls == Transitions \union Runs

Waiting ==
    {t \in Transitions : tpc[t] = "queued"}
    \union {r \in Runs : lpc[r] \in {"queued", "powerQueued"}}

ActorInv ==
    /\ DOMAIN tpc = Transitions /\ DOMAIN lpc = Runs
    /\ queue \in Seq(Calls) /\ Distinct(queue)
    /\ \A c \in Calls : OnChain(c, queue) <=> c \in Waiting \union AtWork
    /\ \A c \in AtWork : AtHead(c)

\* The four things a step may do to the chain.
Stays ==
    UNCHANGED <<queue, Waiting, AtWork>>

Joins(c) ==
    /\ c \notin Waiting \union AtWork
    /\ Run(c)
    /\ Waiting' = Waiting \union {c} /\ UNCHANGED AtWork

Enters(c) ==
    /\ c \in Waiting /\ AtHead(c)
    /\ Waiting' = Waiting \ {c} /\ AtWork' = AtWork \union {c}
    /\ UNCHANGED queue

Leaves(c) ==
    /\ c \in AtWork \ Waiting
    /\ Settle(c)
    /\ AtWork' = AtWork \ {c} /\ UNCHANGED Waiting

LEMMA ChainKept ==
    ASSUME ActorInv, DOMAIN tpc' = Transitions, DOMAIN lpc' = Runs,
           Stays \/ \E c \in Calls : Joins(c) \/ Enters(c) \/ Leaves(c)
    PROVE  ActorInv'
<1>c. AtWork \subseteq Calls
  BY DEF AtWork, Calls
<1>1. CASE Stays
  BY <1>1 DEF Stays, ActorInv, AtHead
<1>2. ASSUME NEW c \in Calls, Joins(c) PROVE ActorInv'
  <2>1. queue \in Seq(Calls) /\ Distinct(queue) /\ ~OnChain(c, queue)
    BY <1>2 DEF ActorInv, Joins
  <2>2. /\ queue' \in Seq(Calls) /\ Distinct(queue')
        /\ \A u : OnChain(u, queue') <=> OnChain(u, queue) \/ u = c
        /\ queue' # <<>>
        /\ queue # <<>> => Head(queue') = Head(queue)
    BY <1>2, <2>1, Enqueued DEF Joins, Run
  <2>3. \A d \in Calls : OnChain(d, queue') <=> d \in Waiting' \union AtWork'
    BY <1>2, <2>2 DEF ActorInv, Joins
  <2>4. \A d \in AtWork' : queue' # <<>> /\ Head(queue') = d
    BY <1>2, <2>2 DEF ActorInv, Joins, AtHead
  <2> QED
    BY <2>2, <2>3, <2>4 DEF ActorInv, AtHead
<1>3. ASSUME NEW c \in Calls, Enters(c) PROVE ActorInv'
  <2>1. \A d \in Calls : OnChain(d, queue') <=> d \in Waiting' \union AtWork'
    BY <1>3 DEF ActorInv, Enters
  <2>2. \A d \in AtWork' : queue' # <<>> /\ Head(queue') = d
    BY <1>3 DEF ActorInv, Enters, AtHead
  <2> QED
    BY <1>3, <2>1, <2>2 DEF ActorInv, Enters, AtHead
<1>4. ASSUME NEW c \in Calls, Leaves(c) PROVE ActorInv'
  <2>1. queue \in Seq(Calls) /\ Distinct(queue) /\ queue # <<>> /\ Head(queue) = c
    BY <1>4 DEF ActorInv, Leaves, AtHead
  <2>2. /\ queue' \in Seq(Calls) /\ Distinct(queue')
        /\ \A u : OnChain(u, queue') <=> OnChain(u, queue) /\ u # c
    BY <1>4, <2>1, Dequeued DEF Leaves, Settle
  <2>3. \A d \in Calls : OnChain(d, queue') <=> d \in Waiting' \union AtWork'
    BY <1>4, <2>2 DEF ActorInv, Leaves
  <2>4. AtWork' = {}
    BY <1>4, <2>1 DEF ActorInv, Leaves, AtHead
  <2> QED
    BY <2>2, <2>3, <2>4 DEF ActorInv
<1> QED
  BY <1>1, <1>2, <1>3, <1>4

-----------------------------------------------------------------------------
(* The transitions.                                                          *)

LEMMA TransitionGoes ==
    ASSUME DOMAIN tpc = Transitions, NEW t \in Transitions, NEW p,
           tpc' = [tpc EXCEPT ![t] = p], UNCHANGED lpc
    PROVE  /\ DOMAIN tpc' = Transitions
           /\ tpc'[t] = p
           /\ \A u \in Transitions : u # t => tpc'[u] = tpc[u]
           /\ AtWork' = IF p \in Transition!InActor THEN AtWork \union {t}
                                                    ELSE AtWork \ {t}
           /\ Waiting' = IF p = "queued" THEN Waiting \union {t} ELSE Waiting \ {t}
           /\ t \in AtWork <=> tpc[t] \in Transition!InActor
           /\ t \in Waiting <=> tpc[t] = "queued"
<1>1. /\ DOMAIN tpc' = Transitions
      /\ tpc'[t] = p
      /\ \A u \in Transitions : u # t => tpc'[u] = tpc[u]
  OBVIOUS
<1>2. t \notin Runs
  BY CallsAssumption
<1>3. AtWork' = IF p \in Transition!InActor THEN AtWork \union {t} ELSE AtWork \ {t}
  BY <1>1, <1>2 DEF AtWork
<1>4. Waiting' = IF p = "queued" THEN Waiting \union {t} ELSE Waiting \ {t}
  BY <1>1, <1>2 DEF Waiting
<1> QED
  BY <1>1, <1>2, <1>3, <1>4 DEF AtWork, Waiting

\* Where the steps of a call in the actor lead.
LEMMA InActorStep ==
    ASSUME NEW t \in Transitions, Transition!Step(t), tpc[t] \in Transition!InActor
    PROVE  \/ /\ \E p \in Transition!InActor : Transition!Go(t, p)
              /\ UNCHANGED queue
           \/ Transition!Go(t, "answered") /\ Transition!Settle(t)
<1> USE DEF Transition!sharedVars, Transition!InActor, Transition!Fail,
            Transition!Unwind, Transition!AfterWatchdog
<1>1. CASE Transition!Rechecked(t) \/ Transition!Held(t) \/ Transition!HoldReleased(t)
  BY <1>1 DEF Transition!Rechecked, Transition!Held, Transition!HoldReleased
<1>2. CASE Transition!Quiesced(t) \/ Transition!Inhibited(t)
  BY <1>2 DEF Transition!Quiesced, Transition!Inhibited
<1>3. CASE \/ Transition!CommandAnswered(t) \/ Transition!CommandRejected(t)
           \/ Transition!CommandTimedOut(t)
  BY <1>3 DEF Transition!CommandAnswered, Transition!CommandRejected,
              Transition!CommandTimedOut, Transition!NextCommand
<1>4. CASE \/ Transition!WatchdogUninhibited(t) \/ Transition!Uninhibited(t)
           \/ Transition!ForceUninhibited(t)
  BY <1>4 DEF Transition!WatchdogUninhibited, Transition!Uninhibited,
              Transition!ForceUninhibited
<1>5. CASE \/ Transition!PortDropped(t) \/ Transition!WaitFailed(t)
           \/ Transition!Reenumerated(t) \/ Transition!ReadBack(t)
  BY <1>5 DEF Transition!PortDropped, Transition!WaitFailed, Transition!Reenumerated,
              Transition!ReadBack, Transition!Rejects, Transition!Conclude
<1>6. CASE \/ Transition!Activated(t) \/ Transition!ActivateRejected(t)
           \/ Transition!Reprobed(t) \/ Transition!QuiesceReleased(t)
  BY <1>6 DEF Transition!Activated, Transition!ActivateRejected, Transition!Reprobed,
              Transition!QuiesceReleased
<1>7. ~Transition!EntryChecked(t) /\ ~Transition!EnterActor(t)
  BY DEF Transition!EntryChecked, Transition!EnterActor
<1> QED
  BY <1>1, <1>2, <1>3, <1>4, <1>5, <1>6, <1>7 DEF Transition!Step

\* Outside the actor only the entry checks and the entry itself remain.
LEMMA OffActorStep ==
    ASSUME NEW t \in Transitions, Transition!Step(t), tpc[t] \notin Transition!InActor
    PROVE  Transition!EntryChecked(t) \/ Transition!EnterActor(t)
BY DEF Transition!Step, Transition!InActor, Transition!Commands,
       Transition!Rechecked, Transition!Held, Transition!Quiesced,
       Transition!Inhibited, Transition!CommandAnswered,
       Transition!CommandRejected, Transition!CommandTimedOut,
       Transition!WatchdogUninhibited, Transition!Uninhibited,
       Transition!ForceUninhibited, Transition!PortDropped,
       Transition!WaitFailed, Transition!Reenumerated, Transition!ReadBack,
       Transition!Activated, Transition!ActivateRejected, Transition!Reprobed,
       Transition!QuiesceReleased, Transition!HoldReleased

LEMMA TransitionChain ==
    ASSUME ActorInv, Transition!TransitionNext, UNCHANGED ladderVars
    PROVE  ActorInv'
<1>a. DOMAIN tpc = Transitions /\ DOMAIN lpc = Runs
  BY DEF ActorInv
<1>b. UNCHANGED lpc
  BY DEF ladderVars
<1>p. /\ {"idle", "entry", "queued", "answered"} \intersect Transition!InActor = {}
      /\ "recheck" \in Transition!InActor
  BY DEF Transition!InActor
<1>1. ASSUME NEW t \in Transitions, Transition!Execute(t) PROVE ActorInv'
  <2>1. /\ tpc[t] = "idle" /\ UNCHANGED queue
        /\ \E p \in {"entry", "answered"} : tpc' = [tpc EXCEPT ![t] = p]
    BY <1>1 DEF Transition!Execute, Transition!Go, Transition!sharedVars
  <2>2. PICK p \in {"entry", "answered"} : tpc' = [tpc EXCEPT ![t] = p]
    BY <2>1
  <2>3. /\ AtWork' = AtWork \ {t} /\ Waiting' = Waiting \ {t}
        /\ t \notin AtWork /\ t \notin Waiting
        /\ DOMAIN tpc' = Transitions
    BY <1>a, <1>b, <1>p, <2>1, <2>2, TransitionGoes
  <2>4. Stays
    BY <2>1, <2>3 DEF Stays
  <2> QED
    BY <1>a, <1>b, <2>3, <2>4, ChainKept
<1>2. ASSUME NEW t \in Transitions, Transition!EntryChecked(t) PROVE ActorInv'
  <2>1. /\ tpc[t] = "entry"
        /\ \/ Run(t) /\ tpc' = [tpc EXCEPT ![t] = "queued"]
           \/ UNCHANGED queue /\ tpc' = [tpc EXCEPT ![t] = "answered"]
    BY <1>2 DEF Transition!EntryChecked, Transition!Go, Transition!Run, Run
  <2>2. CASE Run(t) /\ tpc' = [tpc EXCEPT ![t] = "queued"]
    <3>1. /\ AtWork' = AtWork \ {t} /\ Waiting' = Waiting \union {t}
          /\ t \notin AtWork /\ t \notin Waiting
          /\ DOMAIN tpc' = Transitions
      BY <1>a, <1>b, <1>p, <2>1, <2>2, TransitionGoes
    <3>2. Joins(t)
      BY <2>2, <3>1 DEF Joins
    <3> QED
      BY <1>a, <1>b, <3>1, <3>2, ChainKept DEF Calls
  <2>3. CASE UNCHANGED queue /\ tpc' = [tpc EXCEPT ![t] = "answered"]
    <3>1. /\ AtWork' = AtWork \ {t} /\ Waiting' = Waiting \ {t}
          /\ t \notin AtWork /\ t \notin Waiting
          /\ DOMAIN tpc' = Transitions
      BY <1>a, <1>b, <1>p, <2>1, <2>3, TransitionGoes
    <3>2. Stays
      BY <2>3, <3>1 DEF Stays
    <3> QED
      BY <1>a, <1>b, <3>1, <3>2, ChainKept
  <2> QED
    BY <2>1, <2>2, <2>3
<1>3. ASSUME NEW t \in Transitions, Transition!EnterActor(t) PROVE ActorInv'
  <2>1. /\ tpc[t] = "queued" /\ AtHead(t) /\ UNCHANGED queue
        /\ tpc' = [tpc EXCEPT ![t] = "recheck"]
    BY <1>3 DEF Transition!EnterActor, Transition!Go, Transition!AtHead, AtHead,
                Transition!sharedVars
  <2>2. /\ AtWork' = AtWork \union {t} /\ Waiting' = Waiting \ {t}
        /\ t \in Waiting /\ DOMAIN tpc' = Transitions
    BY <1>a, <1>b, <1>p, <2>1, TransitionGoes
  <2>3. Enters(t)
    BY <2>1, <2>2 DEF Enters
  <2> QED
    BY <1>a, <1>b, <2>2, <2>3, ChainKept DEF Calls
<1>4. ASSUME NEW t \in Transitions, Transition!Step(t), tpc[t] \in Transition!InActor
      PROVE  ActorInv'
  <2>1. \/ /\ \E p \in Transition!InActor : tpc' = [tpc EXCEPT ![t] = p]
           /\ UNCHANGED queue
        \/ tpc' = [tpc EXCEPT ![t] = "answered"] /\ Settle(t)
    BY <1>4, InActorStep DEF Transition!Go, Transition!Settle, Settle
  <2>2. tpc[t] # "queued" /\ t \in AtWork
    BY <1>4, <1>p DEF AtWork
  <2>3. ASSUME NEW p \in Transition!InActor, tpc' = [tpc EXCEPT ![t] = p],
               UNCHANGED queue
        PROVE  ActorInv'
    <3>1. /\ AtWork' = AtWork \union {t} /\ Waiting' = Waiting \ {t}
          /\ t \notin Waiting /\ DOMAIN tpc' = Transitions
      BY <1>a, <1>b, <1>p, <2>2, <2>3, TransitionGoes
    <3>2. Stays
      BY <2>2, <2>3, <3>1 DEF Stays
    <3> QED
      BY <1>a, <1>b, <3>1, <3>2, ChainKept
  <2>4. CASE tpc' = [tpc EXCEPT ![t] = "answered"] /\ Settle(t)
    <3>1. /\ AtWork' = AtWork \ {t} /\ Waiting' = Waiting \ {t}
          /\ t \notin Waiting /\ DOMAIN tpc' = Transitions
      BY <1>a, <1>b, <1>p, <2>2, <2>4, TransitionGoes
    <3>2. Leaves(t)
      BY <2>2, <2>4, <3>1 DEF Leaves
    <3> QED
      BY <1>a, <1>b, <3>1, <3>2, ChainKept DEF Calls
  <2> QED
    BY <2>1, <2>3, <2>4
<1>5. CASE Transition!World
  <2>1. UNCHANGED <<tpc, queue>>
    BY <1>5 DEF Transition!World, Transition!SweepLease, Transition!Swept,
                Transition!LateEffect, Transition!LeaveBus, Transition!ComeBack,
                Transition!sharedVars
  <2>2. Stays
    BY <1>b, <2>1 DEF Stays, Waiting, AtWork
  <2> QED
    BY <1>a, <1>b, <2>1, <2>2, ChainKept
<1> QED
  BY <1>1, <1>2, <1>3, <1>4, <1>5, OffActorStep DEF Transition!TransitionNext

-----------------------------------------------------------------------------
(* The ladder, with a power hook that was built with the actor of the modem. *)

LEMMA RunGoes ==
    ASSUME DOMAIN lpc = Runs, NEW r \in Runs, NEW p,
           lpc' = [lpc EXCEPT ![r] = p], UNCHANGED tpc
    PROVE  /\ DOMAIN lpc' = Runs
           /\ lpc'[r] = p
           /\ \A s \in Runs : s # r => lpc'[s] = lpc[s]
           /\ AtWork' = IF p \in Recovery!Working THEN AtWork \union {r}
                                                  ELSE AtWork \ {r}
           /\ Waiting' = IF p \in {"queued", "powerQueued"} THEN Waiting \union {r}
                                                            ELSE Waiting \ {r}
           /\ r \in AtWork <=> lpc[r] \in Recovery!Working
           /\ r \in Waiting <=> lpc[r] \in {"queued", "powerQueued"}
<1>1. /\ DOMAIN lpc' = Runs
      /\ lpc'[r] = p
      /\ \A s \in Runs : s # r => lpc'[s] = lpc[s]
  OBVIOUS
<1>2. r \notin Transitions
  BY CallsAssumption
<1>3. AtWork' = IF p \in Recovery!Working THEN AtWork \union {r} ELSE AtWork \ {r}
  BY <1>1, <1>2 DEF AtWork
<1>4. Waiting' = IF p \in {"queued", "powerQueued"} THEN Waiting \union {r}
                                                   ELSE Waiting \ {r}
  BY <1>1, <1>2 DEF Waiting
<1> QED
  BY <1>1, <1>2, <1>3, <1>4 DEF AtWork, Waiting

\* Where a call of the ladder is on no chain.
Elsewhere == {"idle", "verdict", "unpowered", "probe", "answered"}

\* The loop goes on to a verdict or ends.
LEMMA Climbs ==
    ASSUME NEW r \in Runs, NEW i, Recovery!Climb(r, i)
    PROVE  \E p \in Elsewhere : lpc' = [lpc EXCEPT ![r] = p]
BY DEF Recovery!Climb, Recovery!End, Recovery!LGo, Elsewhere

LEMMA LadderChain ==
    ASSUME PowerHook # "private", ActorInv, Recovery!LadderNext,
           UNCHANGED transitionVars
    PROVE  ActorInv'
<1>a. DOMAIN tpc = Transitions /\ DOMAIN lpc = Runs
  BY DEF ActorInv
<1>b. UNCHANGED tpc
  BY DEF transitionVars
<1>p. Elsewhere \intersect ({"queued", "powerQueued"} \union Recovery!Working) = {}
  BY DEF Elsewhere, Recovery!Working
<1> USE DEF Recovery!LGo, Recovery!End
<1>1. ASSUME NEW r \in Runs, lpc[r] \in Elsewhere, UNCHANGED queue,
             NEW p \in Elsewhere, lpc' = [lpc EXCEPT ![r] = p]
      PROVE  ActorInv'
  <2>1. /\ AtWork' = AtWork \ {r} /\ Waiting' = Waiting \ {r}
        /\ r \notin AtWork /\ r \notin Waiting
        /\ DOMAIN lpc' = Runs
    BY <1>a, <1>b, <1>p, <1>1, RunGoes
  <2>2. Stays
    BY <1>1, <2>1 DEF Stays
  <2> QED
    BY <1>a, <1>b, <2>1, <2>2, ChainKept
<1>2. ASSUME NEW r \in Runs,
             \/ Recovery!Start(r) \/ Recovery!Blocked(r) \/ Recovery!Unpowered(r)
             \/ Recovery!Probed(r)
      PROVE  ActorInv'
  <2>1. lpc[r] \in Elsewhere /\ UNCHANGED queue
    BY <1>2 DEF Recovery!Start, Recovery!Blocked, Recovery!Unpowered,
                Recovery!Probed, Recovery!sharedVars, Elsewhere
  <2>2. \/ lpc' = [lpc EXCEPT ![r] = "answered"]
        \/ \E i : Recovery!Climb(r, i)
    BY <1>2 DEF Recovery!Start, Recovery!Blocked, Recovery!Unpowered, Recovery!Probed
  <2>3. \E p \in Elsewhere : lpc' = [lpc EXCEPT ![r] = p]
    BY <2>2, Climbs DEF Elsewhere
  <2> QED
    BY <1>1, <2>1, <2>3
<1>3. ASSUME NEW r \in Runs, Recovery!Verdict(r) PROVE ActorInv'
  <2>1. /\ lpc[r] = "verdict"
        /\ \/ lpc' = [lpc EXCEPT ![r] = "unpowered"] /\ UNCHANGED queue
           \/ /\ \E p \in {"queued", "powerQueued"} : lpc' = [lpc EXCEPT ![r] = p]
              /\ Run(r)
    BY <1>3 DEF Recovery!Verdict, Recovery!Cycle, Recovery!Run, Run
  <2>2. {"queued", "powerQueued"} \intersect Recovery!Working = {}
    BY DEF Recovery!Working
  <2>3. "verdict" \in Elsewhere /\ "unpowered" \in Elsewhere
    BY DEF Elsewhere
  <2>4. ASSUME NEW p \in {"queued", "powerQueued"}, lpc' = [lpc EXCEPT ![r] = p], Run(r)
        PROVE  ActorInv'
    <3>p. p \notin Recovery!Working
      BY <2>2
    <3>1. /\ AtWork' = AtWork \ {r} /\ Waiting' = Waiting \union {r}
          /\ DOMAIN lpc' = Runs
      BY <1>a, <1>b, <2>4, <3>p, RunGoes
    <3>2. r \notin AtWork /\ r \notin Waiting
      BY <2>1, CallsAssumption DEF AtWork, Waiting, Recovery!Working
    <3>3. Joins(r)
      BY <2>4, <3>1, <3>2 DEF Joins
    <3> QED
      BY <1>a, <1>b, <3>1, <3>3, ChainKept DEF Calls
  <2> QED
    BY <1>1, <2>1, <2>3, <2>4
<1>4. ASSUME NEW r \in Runs, Recovery!EnterRung(r) \/ Recovery!EnterPower(r)
      PROVE  ActorInv'
  <2>1. /\ lpc[r] \in {"queued", "powerQueued"} /\ AtHead(r) /\ UNCHANGED queue
        /\ \E p \in Recovery!Working : lpc' = [lpc EXCEPT ![r] = p]
    BY <1>4 DEF Recovery!EnterRung, Recovery!EnterPower, Recovery!AtHead, AtHead,
                Recovery!sharedVars, Recovery!Working
  <2>2. {"queued", "powerQueued"} \intersect Recovery!Working = {}
    BY DEF Recovery!Working
  <2>3. PICK p \in Recovery!Working : lpc' = [lpc EXCEPT ![r] = p]
    BY <2>1
  <2>4. /\ AtWork' = AtWork \union {r} /\ Waiting' = Waiting \ {r}
        /\ r \in Waiting /\ DOMAIN lpc' = Runs
    BY <1>a, <1>b, <2>1, <2>2, <2>3, RunGoes
  <2>5. Enters(r)
    BY <2>1, <2>4 DEF Enters
  <2> QED
    BY <1>a, <1>b, <2>4, <2>5, ChainKept DEF Calls
<1>5. ASSUME NEW r \in Runs, Recovery!RungSettled(r) \/ Recovery!RungRejected(r)
      PROVE  ActorInv'
  <2>1. lpc[r] \in Recovery!Working /\ Settle(r)
    BY <1>5 DEF Recovery!RungSettled, Recovery!RungRejected, Recovery!LeaveRung,
                Recovery!OnItsOwn, Recovery!Settle, Settle
  <2>2. \/ \E p \in {"probe", "answered"} : lpc' = [lpc EXCEPT ![r] = p]
        \/ \E i : Recovery!Climb(r, i)
    BY <1>5 DEF Recovery!RungSettled, Recovery!RungRejected
  <2>3. \E p \in Elsewhere : lpc' = [lpc EXCEPT ![r] = p]
    BY <2>2, Climbs DEF Elsewhere
  <2>4. lpc[r] \notin {"queued", "powerQueued"}
    BY <2>1 DEF Recovery!Working
  <2>5. PICK p \in Elsewhere : lpc' = [lpc EXCEPT ![r] = p]
    BY <2>3
  <2>6. /\ AtWork' = AtWork \ {r} /\ Waiting' = Waiting \ {r}
        /\ DOMAIN lpc' = Runs
    BY <1>a, <1>b, <1>p, <2>5, RunGoes
  <2>7. r \in AtWork /\ r \notin Waiting
    BY <1>a, <1>b, <2>1, <2>4, <2>5, RunGoes
  <2>8. Leaves(r)
    BY <2>1, <2>6, <2>7 DEF Leaves
  <2> QED
    BY <1>a, <1>b, <2>6, <2>8, ChainKept DEF Calls
<1>6. CASE Recovery!Clear \/ Recovery!Tick
  <2>1. UNCHANGED <<lpc, queue>>
    BY <1>6 DEF Recovery!Clear, Recovery!Tick, Recovery!sharedVars
  <2>2. Stays
    BY <1>b, <2>1 DEF Stays, Waiting, AtWork
  <2> QED
    BY <1>a, <1>b, <2>1, <2>2, ChainKept
<1> QED
  BY <1>2, <1>3, <1>4, <1>5, <1>6 DEF Recovery!LadderNext, Recovery!LadderStep

LEMMA InitChain == Init => ActorInv
<1> SUFFICES ASSUME Init PROVE ActorInv
  OBVIOUS
<1>1. <<>> \in Seq(Calls) /\ Len(<<>>) = 0
  OBVIOUS
<1>2. Distinct(<<>>) /\ \A c : ~OnChain(c, <<>>)
  BY <1>1 DEF Distinct, OnChain
<1>3. /\ queue = <<>>
      /\ tpc = [t \in Transitions |-> "idle"] /\ lpc = [r \in Runs |-> "idle"]
  BY DEF Init, SharedInit, Transition!TransitionInit, Recovery!LadderInit
<1>4. Waiting = {} /\ AtWork = {}
  BY <1>3 DEF Waiting, AtWork, Transition!InActor, Recovery!Working
<1> QED
  BY <1>1, <1>2, <1>3, <1>4 DEF ActorInv

LEMMA StepChain ==
    ASSUME PowerHook # "private" PROVE ActorInv /\ [Next]_vars => ActorInv'
<1> SUFFICES ASSUME ActorInv, [Next]_vars PROVE ActorInv'
  OBVIOUS
<1>1. CASE Streams \/ UNCHANGED vars
  <2>1. UNCHANGED <<tpc, lpc, queue>>
    BY <1>1 DEF Streams, StartStream, StopStream, transitionVars, ladderVars, vars,
                sharedVars
  <2>2. Stays
    BY <2>1 DEF Stays, Waiting, AtWork
  <2> QED
    BY <2>1, <2>2, ChainKept DEF ActorInv
<1> QED
  BY <1>1, TransitionChain, LadderChain DEF Next

\* No rung of the ladder works on the modem while a transition does, nor two of
\* either, whatever the tasks before them did: both go through one chain of
\* promises.  A power hook built with an actor of its own does not, and the
\* theorem leaves it out.
THEOREM DisruptionsExclusiveHolds ==
    ASSUME PowerHook # "private" PROVE Spec => []DisruptionsExclusive
<1>1. ActorInv /\ [Next]_vars => ActorInv'
  BY StepChain
<1>2. ActorInv => DisruptionsExclusive
  BY DEF ActorInv, DisruptionsExclusive, AtHead
<1> QED
  BY <1>1, <1>2, InitChain, PTL DEF Spec

-----------------------------------------------------------------------------
(* The live stream.  A stream starts only while nobody holds the interlock,   *)
(* which a transition does from its quiesce on; a rung holds nothing, and is  *)
(* covered from its verdict on, through the time it spends in the chain.      *)

UnderHold == Transition!Disrupting \union {"releaseHold"}

SafeInv ==
    /\ DOMAIN tpc = Transitions /\ DOMAIN lpc = Runs
    /\ \A t \in Transitions : tpc[t] \in UnderHold => t \in holds
    /\ \A t \in Transitions :
          streaming /\ tpc[t] \in UnderHold \union {"hold"} => t \in slipped
    /\ \A r \in Recovery!OnTheirWay : streaming => r \in slipped

\* From the quiesce on a call goes on to what is under the hold too, and the
\* hold and the stream are left alone.
LEMMA DisruptingStep ==
    ASSUME NEW t \in Transitions, Transition!Step(t), tpc[t] \in Transition!Disrupting
    PROVE  /\ \E p \in UnderHold : Transition!Go(t, p)
           /\ UNCHANGED <<holds, streaming, slipped>>
<1> USE DEF Transition!sharedVars, UnderHold, Transition!Disrupting,
            Transition!InActor, Transition!Fail, Transition!Unwind,
            Transition!AfterWatchdog
<1>1. CASE Transition!Quiesced(t) \/ Transition!Inhibited(t)
  BY <1>1 DEF Transition!Quiesced, Transition!Inhibited
<1>2. CASE \/ Transition!CommandAnswered(t) \/ Transition!CommandRejected(t)
           \/ Transition!CommandTimedOut(t)
  BY <1>2 DEF Transition!CommandAnswered, Transition!CommandRejected,
              Transition!CommandTimedOut, Transition!NextCommand
<1>3. CASE \/ Transition!WatchdogUninhibited(t) \/ Transition!Uninhibited(t)
           \/ Transition!ForceUninhibited(t)
  BY <1>3 DEF Transition!WatchdogUninhibited, Transition!Uninhibited,
              Transition!ForceUninhibited
<1>4. CASE \/ Transition!PortDropped(t) \/ Transition!WaitFailed(t)
           \/ Transition!Reenumerated(t) \/ Transition!ReadBack(t)
  BY <1>4 DEF Transition!PortDropped, Transition!WaitFailed, Transition!Reenumerated,
              Transition!ReadBack, Transition!Rejects, Transition!Conclude
<1>5. CASE \/ Transition!Activated(t) \/ Transition!ActivateRejected(t)
           \/ Transition!Reprobed(t) \/ Transition!QuiesceReleased(t)
  BY <1>5 DEF Transition!Activated, Transition!ActivateRejected, Transition!Reprobed,
              Transition!QuiesceReleased
<1>6. /\ ~Transition!EntryChecked(t) /\ ~Transition!EnterActor(t)
      /\ ~Transition!Rechecked(t) /\ ~Transition!Held(t) /\ ~Transition!HoldReleased(t)
  BY DEF Transition!EntryChecked, Transition!EnterActor, Transition!Rechecked,
         Transition!Held, Transition!HoldReleased
<1> QED
  BY <1>1, <1>2, <1>3, <1>4, <1>5, <1>6 DEF Transition!Step

LEMMA OtherStep ==
    ASSUME NEW t \in Transitions, Transition!Step(t),
           tpc[t] \notin Transition!Disrupting
    PROVE  \/ Transition!EntryChecked(t) \/ Transition!EnterActor(t)
           \/ Transition!Rechecked(t) \/ Transition!Held(t)
           \/ Transition!HoldReleased(t)
BY DEF Transition!Step, Transition!Disrupting, Transition!InActor,
       Transition!Commands, Transition!Quiesced,
       Transition!Inhibited, Transition!CommandAnswered,
       Transition!CommandRejected, Transition!CommandTimedOut,
       Transition!WatchdogUninhibited, Transition!Uninhibited,
       Transition!ForceUninhibited, Transition!PortDropped,
       Transition!WaitFailed, Transition!Reenumerated, Transition!ReadBack,
       Transition!Activated, Transition!ActivateRejected, Transition!Reprobed,
       Transition!QuiesceReleased

\* A step of one transition keeps everybody else as safe as they were.
LEMMA SafeForOne ==
    ASSUME SafeInv, NEW t \in Transitions, NEW p, Transition!Go(t, p),
           UNCHANGED <<lpc, streaming>>,
           \A c : c # t => (c \in holds => c \in holds') /\ (c \in slipped => c \in slipped'),
           p \in UnderHold => t \in holds',
           streaming /\ p \in UnderHold \union {"hold"} => t \in slipped'
    PROVE  SafeInv'
<1>1. DOMAIN tpc' = Transitions
      /\ tpc'[t] = p /\ \A u \in Transitions : u # t => tpc'[u] = tpc[u]
  BY DEF SafeInv, Transition!Go
<1>2. UnderHold' = UnderHold
  BY DEF UnderHold, Transition!Disrupting, Transition!InActor
<1>3. \A u \in Transitions : tpc'[u] \in UnderHold => u \in holds'
  BY <1>1 DEF SafeInv
<1>4. \A u \in Transitions :
         streaming' /\ tpc'[u] \in UnderHold \union {"hold"} => u \in slipped'
  BY <1>1 DEF SafeInv
<1>5. \A r \in Recovery!OnTheirWay' : streaming' => r \in slipped'
  BY CallsAssumption DEF SafeInv, Recovery!OnTheirWay
<1> QED
  BY <1>1, <1>2, <1>3, <1>4, <1>5 DEF SafeInv

LEMMA TransitionSafe ==
    ASSUME SafeInv, Transition!TransitionNext, UNCHANGED ladderVars
    PROVE  SafeInv'
<1>b. UNCHANGED lpc
  BY DEF ladderVars
<1>p. /\ {"idle", "entry", "queued", "recheck", "hold", "answered"} \intersect UnderHold = {}
      /\ {"quiesce", "releaseHold"} \subseteq UnderHold
      /\ Transition!Disrupting \subseteq UnderHold
  BY DEF UnderHold, Transition!Disrupting, Transition!InActor
<1>1. ASSUME NEW t \in Transitions,
             \/ Transition!Execute(t) \/ Transition!EntryChecked(t)
             \/ Transition!EnterActor(t)
      PROVE  SafeInv'
  <2>1. /\ UNCHANGED <<streaming, holds, slipped>>
        /\ \E p \in {"entry", "queued", "recheck", "answered"} : Transition!Go(t, p)
    BY <1>1 DEF Transition!Execute, Transition!EntryChecked, Transition!EnterActor,
                Transition!sharedVars
  <2>2. PICK p \in {"entry", "queued", "recheck", "answered"} : Transition!Go(t, p)
    BY <2>1
  <2>3. p \notin UnderHold /\ p # "hold"
    BY <1>p
  <2> QED
    BY <1>b, <2>1, <2>2, <2>3, SafeForOne
<1>2. ASSUME NEW t \in Transitions, Transition!Rechecked(t) PROVE SafeInv'
  <2>1. /\ UNCHANGED <<streaming, holds>>
        /\ slipped' = slipped \ {t} \/ slipped' = slipped
        /\ \/ Transition!Go(t, "hold") /\ ~streaming
           \/ Transition!Go(t, "answered")
    BY <1>2 DEF Transition!Rechecked, Transition!Admits
  <2> QED
    BY <1>b, <1>p, <2>1, SafeForOne
<1>3. ASSUME NEW t \in Transitions, Transition!Held(t) PROVE SafeInv'
  <2>1. /\ UNCHANGED <<streaming, slipped>>
        /\ \/ Transition!Go(t, "quiesce") /\ holds' = holds \union {t}
           \/ Transition!Go(t, "answered") /\ holds' = holds
        /\ streaming => t \in slipped
    BY <1>3 DEF Transition!Held, SafeInv
  <2> QED
    BY <1>b, <1>p, <2>1, SafeForOne
<1>4. ASSUME NEW t \in Transitions, Transition!HoldReleased(t) PROVE SafeInv'
  <2>1. /\ UNCHANGED <<streaming, slipped>>
        /\ Transition!Go(t, "answered")
        /\ holds' = holds \/ holds' = holds \ {t}
    BY <1>4 DEF Transition!HoldReleased
  <2> QED
    BY <1>b, <1>p, <2>1, SafeForOne
<1>5. ASSUME NEW t \in Transitions, Transition!Step(t),
             tpc[t] \in Transition!Disrupting
      PROVE  SafeInv'
  <2>1. PICK p \in UnderHold : Transition!Go(t, p)
    BY <1>5, DisruptingStep
  <2>2. UNCHANGED <<holds, streaming, slipped>>
    BY <1>5, DisruptingStep
  <2>3. t \in holds /\ (streaming => t \in slipped)
    BY <1>5, <1>p DEF SafeInv
  <2> QED
    BY <1>b, <2>1, <2>2, <2>3, SafeForOne
<1>6. CASE Transition!World
  <2>1. UNCHANGED <<tpc, lpc, streaming, holds, slipped>>
    BY <1>6, <1>b
    DEF Transition!World, Transition!SweepLease, Transition!Swept,
        Transition!LateEffect, Transition!LeaveBus, Transition!ComeBack,
        Transition!sharedVars
  <2> QED
    BY <2>1 DEF SafeInv, Recovery!OnTheirWay
<1> QED
  BY <1>1, <1>2, <1>3, <1>4, <1>5, <1>6, OtherStep DEF Transition!TransitionNext

LEMMA LadderSafe ==
    ASSUME SafeInv, Recovery!LadderNext, UNCHANGED transitionVars
    PROVE  SafeInv'
<1>b. UNCHANGED tpc
  BY DEF transitionVars
<1> USE DEF Recovery!LGo, Recovery!End
<1>1. ASSUME UNCHANGED <<streaming, holds, slipped>>, DOMAIN lpc' = Runs,
             Recovery!OnTheirWay' \subseteq Recovery!OnTheirWay
      PROVE  SafeInv'
  BY <1>1, <1>b DEF SafeInv
<1>2. ASSUME NEW r \in Runs, NEW p \in Elsewhere, lpc' = [lpc EXCEPT ![r] = p]
      PROVE  DOMAIN lpc' = Runs /\ Recovery!OnTheirWay' \subseteq Recovery!OnTheirWay
  BY <1>2 DEF SafeInv, Recovery!OnTheirWay, Recovery!Working, Elsewhere
<1>3. ASSUME NEW r \in Runs,
             \/ Recovery!Start(r) \/ Recovery!Blocked(r) \/ Recovery!Unpowered(r)
             \/ Recovery!Probed(r) \/ Recovery!RungSettled(r) \/ Recovery!RungRejected(r)
      PROVE  SafeInv'
  <2>1. UNCHANGED <<streaming, holds, slipped>>
    BY <1>3 DEF Recovery!Start, Recovery!Blocked, Recovery!Unpowered, Recovery!Probed,
                Recovery!RungSettled, Recovery!RungRejected, Recovery!sharedVars
  <2>2. \/ \E p \in {"probe", "answered"} : lpc' = [lpc EXCEPT ![r] = p]
        \/ \E i : Recovery!Climb(r, i)
    BY <1>3 DEF Recovery!Start, Recovery!Blocked, Recovery!Unpowered, Recovery!Probed,
                Recovery!RungSettled, Recovery!RungRejected
  <2>3. \E p \in Elsewhere : lpc' = [lpc EXCEPT ![r] = p]
    BY <2>2, Climbs DEF Elsewhere
  <2> QED
    BY <1>1, <1>2, <2>1, <2>3
<1>4. ASSUME NEW r \in Runs, Recovery!Verdict(r) PROVE SafeInv'
  <2>1. ~streaming /\ ~streaming' /\ UNCHANGED holds
    BY <1>4 DEF Recovery!Verdict, Recovery!Lets, Recovery!Admits
  <2>2. DOMAIN lpc' = DOMAIN lpc
    BY <1>4 DEF Recovery!Verdict, Recovery!Cycle
  <2> QED
    BY <1>b, <2>1, <2>2 DEF SafeInv
<1>5. ASSUME NEW r \in Runs, Recovery!EnterRung(r) \/ Recovery!EnterPower(r)
      PROVE  SafeInv'
  <2>1. UNCHANGED <<streaming, holds, slipped>>
    BY <1>5 DEF Recovery!EnterRung, Recovery!EnterPower, Recovery!sharedVars
  <2>2. /\ lpc[r] \in {"queued", "powerQueued"}
        /\ \E p : lpc' = [lpc EXCEPT ![r] = p]
    BY <1>5 DEF Recovery!EnterRung, Recovery!EnterPower
  <2>3. DOMAIN lpc' = Runs /\ Recovery!OnTheirWay' \subseteq Recovery!OnTheirWay
    BY <2>2 DEF SafeInv, Recovery!OnTheirWay
  <2> QED
    BY <1>1, <2>1, <2>3
<1>6. CASE Recovery!Clear \/ Recovery!Tick
  <2>1. UNCHANGED <<lpc, streaming, holds, slipped>>
    BY <1>6 DEF Recovery!Clear, Recovery!Tick, Recovery!sharedVars
  <2> QED
    BY <1>b, <2>1 DEF SafeInv, Recovery!OnTheirWay
<1> QED
  BY <1>3, <1>4, <1>5, <1>6 DEF Recovery!LadderNext, Recovery!LadderStep

LEMMA StreamsSafe ==
    ASSUME SafeInv, Streams PROVE SafeInv'
<1>1. UNCHANGED <<tpc, lpc, holds>>
  BY DEF Streams, StartStream, StopStream, transitionVars, ladderVars
<1>2. CASE StopStream
  BY <1>1, <1>2 DEF StopStream, SafeInv, Recovery!OnTheirWay
<1>3. CASE StartStream(Transition!PastVerdict \union Recovery!OnTheirWay)
  <2>1. holds = {}
        /\ slipped' = slipped \union Transition!PastVerdict \union Recovery!OnTheirWay
    BY <1>3 DEF StartStream
  <2>2. \A t \in Transitions : tpc[t] \notin UnderHold
    BY <2>1 DEF SafeInv
  <2>3. \A t \in Transitions : tpc[t] = "hold" => t \in slipped'
    BY <2>1 DEF Transition!PastVerdict
  <2>4. Recovery!OnTheirWay' = Recovery!OnTheirWay
    BY <1>1 DEF Recovery!OnTheirWay
  <2> QED
    BY <1>1, <2>1, <2>2, <2>3, <2>4 DEF SafeInv
<1> QED
  BY <1>2, <1>3 DEF Streams

\* The guarantee that a transition and a rung each give a live stream survives
\* their composition, for a power hook of either kind: they share the interlock,
\* and neither lets the other's verdict stand for its own.
THEOREM StreamsAreSafeHolds == Spec => []StreamsAreSafe
<1>1. Init => SafeInv
  BY DEF Init, SharedInit, Transition!TransitionInit, Recovery!LadderInit, SafeInv,
         UnderHold, Transition!Disrupting, Transition!InActor, Recovery!OnTheirWay,
         Recovery!Working
<1>2. SafeInv /\ [Next]_vars => SafeInv'
  <2>1. ASSUME SafeInv, UNCHANGED vars PROVE SafeInv'
    BY <2>1 DEF vars, sharedVars, transitionVars, ladderVars, SafeInv,
                Recovery!OnTheirWay
  <2> QED
    BY <2>1, TransitionSafe, LadderSafe, StreamsSafe DEF Next
<1>3. SafeInv => StreamsAreSafe
  BY DEF SafeInv, StreamsAreSafe, Transition!StreamsAreSafe, Recovery!StreamsAreSafe,
         UnderHold, Recovery!OnTheirWay
<1> QED
  BY <1>1, <1>2, <1>3, PTL DEF Spec
=============================================================================
