----------------------------- MODULE ModemActor -----------------------------
(***************************************************************************)
(* What the disruptive operations of one modem share: the promise chain of *)
(* its actor (control/src/backend/modem-actor.ts, one stable key) and the  *)
(* embedder's streaming interlock (control/src/backend/                    *)
(* lifecycle-interlock.ts and the TransitionInterlock that extends it).    *)
(*                                                                         *)
(* The interlock itself is code of the embedder.  It is taken at its word: *)
(* canDisrupt answers whether no stream is live now, and a held interlock  *)
(* keeps a stream from starting.                                           *)
(***************************************************************************)
EXTENDS Integers, Sequences

VARIABLES
    queue,      \* tasks of the chain that have not settled, oldest first
    streaming,  \* the embedder carries a live stream over the modem
    holds,      \* tasks that hold the interlock
    slipped     \* history: tasks a stream began under, past their last verdict

sharedVars == <<queue, streaming, holds, slipped>>

SharedInit ==
    /\ queue = <<>>
    /\ streaming = FALSE
    /\ holds = {}
    /\ slipped = {}

Distinct(chain) == \A i, j \in 1..Len(chain) : chain[i] = chain[j] => i = j

SharedTypeOK(Tasks) ==
    /\ queue \in Seq(Tasks) /\ Distinct(queue)
    /\ streaming \in BOOLEAN
    /\ holds \subseteq Tasks
    /\ slipped \subseteq Tasks

OnChain(t, chain) == \E i \in 1..Len(chain) : chain[i] = t

\* Mutated: a task starts without waiting for the tasks before it.
AtOnce(t) == OnChain(t, queue)

AtHead(t) == queue # <<>> /\ Head(queue) = t

\* ModemActor.run: the task goes behind every task of the key.
Run(t) == queue' = Append(queue, t)

\* The task's promise settled, either way: then(task, task) starts the next.
Settle(t) == queue' = Tail(queue)

\* What canDisrupt answers.
Admits == ~streaming

\* The embedder starts a stream; past holds the tasks whose verdict is taken.
StartStream(past) ==
    /\ ~streaming
    /\ holds = {}
    /\ streaming' = TRUE
    /\ slipped' = slipped \union past
    /\ UNCHANGED <<queue, holds>>

StopStream ==
    /\ streaming
    /\ streaming' = FALSE
    /\ UNCHANGED <<queue, holds, slipped>>
=============================================================================
