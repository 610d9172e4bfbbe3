--------------------------- MODULE OperationEngine ---------------------------
(***************************************************************************)
(* The descriptor-gated operation engine                                   *)
(* (control/src/operations/operation-engine.ts) on top of the per-modem    *)
(* actor queue (control/src/backend/modem-actor.ts), the admission port    *)
(* and the transaction journal.                                            *)
(*                                                                         *)
(* One call of invoke or reconcile is one element of Calls.  The code is   *)
(* single-threaded: a call runs atomically from one await to the next, so  *)
(* every action is the code between two awaits and pc[c] names the promise *)
(* call c is waiting for.  What a port, an executor or a hook answers is   *)
(* an input of the action that resumes the call.                           *)
(***************************************************************************)
EXTENDS Integers, Sequences

CONSTANTS
    Modems,            \* physical modems
    Invocations,       \* calls of OperationEngine.invoke
    Reconciliations,   \* calls of OperationEngine.reconcile
    ModemOf,           \* the modem each call is about
    Descriptors,       \* the descriptors (with their hooks) callers use
    Answering,         \* the modems whose ports, executors and hooks do answer
    MaxGeneration,     \* bound: re-enumerations of one modem
    MaxCrashes         \* bound: process deaths

Calls == Invocations \union Reconciliations

\* What the engine reads off an execution.  "runnable" says whether
\* descriptorRefusalReason finds nothing to refuse; "rollback" tells a hook
\* that is only supplied from one the descriptor requires.
Descriptor ==
    [impact     : {"read", "mutation"},
     runnable   : BOOLEAN,
     idempotent : BOOLEAN,
     admission  : BOOLEAN,
     journal    : BOOLEAN,
     readback   : BOOLEAN,
     rollback   : {"none", "supplied", "required"}]

\* The replies of an executor or a hook (OperationCompletion).
Replies == {"applied", "refused", "failed", "timedOut", "dropped"}

ASSUME CallsAssumption ==
    /\ Invocations \intersect Reconciliations = {}
    /\ ModemOf \in [Calls -> Modems]
    /\ Answering \subseteq Modems
ASSUME DescriptorsAssumption ==
    /\ Descriptors \subseteq Descriptor
    \* defineOperationDescriptor refuses every other retry class
    /\ \A d \in Descriptors : d.idempotent => d.impact = "read"
ASSUME BoundsAssumption == MaxGeneration \in Nat /\ MaxCrashes \in Nat

VARIABLES
    generation,   \* the port currentGeneration, per modem
    gate,         \* #reconciliationRequired
    queue,        \* per modem, the calls of the actor's promise chain, oldest first
    pc,           \* the promise each call waits for
    desc,         \* the descriptor each invocation carries
    fence,        \* the generation a call snapshot (invoke) or was given (reconcile)
    attempt,      \* executor calls made so far
    result,       \* the outcome a call is about to report or has reported
    leases,       \* invocations that hold a mutation-admission lease
    journal,      \* per invocation, the disposition recovery reads off the disk
    unresolved,   \* history: invocations with a lost reply, not reconciled since
    owed,         \* history: what was uncertain, and journaled, when a process died
    crashes       \* process deaths so far

vars == <<generation, gate, queue, pc, desc, fence, attempt, result, leases,
          journal, unresolved, owed, crashes>>

Waiting == {"queued", "checking", "admitting", "starting", "executing",
            "readingBack", "rollingBack", "completing", "releasing",
            "reconciling"}

IsMutation(c) == c \in Invocations /\ desc[c].impact = "mutation"

\* Mutations and reconciliations go through the actor; reads do not.
Serialized(c) == c \in Reconciliations \/ IsMutation(c)

\* The device has been asked and the engine has not yet written the ending.
Dispatched == {c \in Invocations :
    pc[c] \in {"executing", "readingBack", "rollingBack", "completing"}}

\* Mutated: the call does not wait for the calls before it.
InChain(c) == \E i \in 1..Len(queue[ModemOf[c]]) : queue[ModemOf[c]][i] = c

AtHead(c) == queue[ModemOf[c]] # <<>> /\ Head(queue[ModemOf[c]]) = c

Init ==
    /\ generation = [m \in Modems |-> 0]
    /\ gate = {}
    /\ queue = [m \in Modems |-> <<>>]
    /\ pc = [c \in Calls |-> "idle"]
    /\ desc \in [Invocations -> Descriptors]
    /\ fence = [c \in Calls |-> 0]
    /\ attempt = [c \in Invocations |-> 0]
    /\ result = [c \in Calls |-> "none"]
    /\ leases = {}
    /\ journal = [c \in Invocations |-> "none"]
    /\ unresolved = {}
    /\ owed = {}
    /\ crashes = 0

-----------------------------------------------------------------------------
(* Helpers of the actions. *)

\* Mutated: completions of another device lifetime are not told apart.
ClassifyAnyLifetime(kind, started, current, reply) ==
    IF reply \notin {"timedOut", "dropped"} THEN reply
    ELSE IF kind = "mutation" THEN "unknown" ELSE "failed"

\* What the engine makes of a reply (classifyOperationCompletion): a
\* completion of another device lifetime, or a write nobody answered, is
\* unknown; a read nobody answered is a failure.
Classify(kind, started, current, reply) ==
    IF started # current THEN "unknown"
    ELSE IF reply \notin {"timedOut", "dropped"} THEN reply
    ELSE IF kind = "mutation" THEN "unknown" ELSE "failed"

\* What an observer of the replies knows: nobody can tell what the device did.
\* Only the history variables use it.
ReplyLost(c, kind, reply) ==
    \/ fence[c] # generation[ModemOf[c]]
    \/ kind = "mutation" /\ reply \in {"timedOut", "dropped"}

NoteLost(c, kind, reply) ==
    unresolved' = IF ReplyLost(c, kind, reply) THEN unresolved \union {c}
                  ELSE unresolved

MaxReadAttempts == 2    \* MAX_IDEMPOTENT_READ_ATTEMPTS

CanAutoRetry(d, r) == d.impact = "read" /\ d.idempotent /\ r = "failed"

Await(c, promise) == pc' = [pc EXCEPT ![c] = promise]

\* Mutated: prior.then(task), so that a rejected call stalls the chain.
SettleFulfilledOnly(c, r) ==
    /\ pc' = [pc EXCEPT ![c] = "done"]
    /\ result' = [result EXCEPT ![c] = r]
    /\ queue' = IF AtHead(c) /\ r # "rejected"
                THEN [queue EXCEPT ![ModemOf[c]] = Tail(@)]
                ELSE queue

\* The call answers its caller; if it was running in the actor the chain
\* moves on, whatever the answer: prior.then(task, task).
Settle(c, r) ==
    /\ pc' = [pc EXCEPT ![c] = "done"]
    /\ result' = [result EXCEPT ![c] = r]
    /\ queue' = IF AtHead(c)
                THEN [queue EXCEPT ![ModemOf[c]] = Tail(@)]
                ELSE queue

\* The outcome is known to the engine; an unknown one closes the gate before
\* the completion is journaled.
Conclude(c, r) ==
    /\ Await(c, "completing")
    /\ result' = [result EXCEPT ![c] = r]
    /\ gate' = IF r = "unknown" THEN gate \union {ModemOf[c]} ELSE gate
    /\ UNCHANGED <<generation, queue, desc, fence, attempt, leases, journal,
                   owed, crashes>>

\* Something inside the try block threw: the finally block still releases.
Unwind(c) ==
    /\ Await(c, "releasing")
    /\ result' = [result EXCEPT ![c] = "rejected"]
    /\ UNCHANGED <<generation, gate, queue, desc, fence, attempt, leases, owed,
                   crashes>>

\* Mutated: the gate is not looked at.
RefusedByDescriptor(c) == ~desc[c].runnable

\* #invokeNow answers before its first await: a mutation finds the gate closed,
\* or descriptorRefusalReason finds a reason.
RefusedAtOnce(c) ==
    \/ IsMutation(c) /\ ModemOf[c] \in gate
    \/ ~desc[c].runnable

\* The synchronous head of #invokeNow: snapshot the generation, look at the
\* gate, refuse what the descriptor rules out, then ask for the preconditions.
Enter(c) ==
    /\ fence' = [fence EXCEPT ![c] = generation[ModemOf[c]]]
    /\ \/ RefusedAtOnce(c) /\ Settle(c, "refused")
       \/ ~RefusedAtOnce(c) /\ Await(c, "checking") /\ UNCHANGED <<result, queue>>
    /\ UNCHANGED <<generation, gate, desc, attempt, leases, journal, unresolved,
                   owed, crashes>>

-----------------------------------------------------------------------------
(* OperationEngine.invoke *)

\* A read runs at once, beside whatever the actor is doing.
InvokeRead(c) ==
    /\ c \in Invocations /\ ~IsMutation(c) /\ pc[c] = "idle"
    /\ Enter(c)

\* A mutation joins the modem's chain.
InvokeMutation(c) ==
    /\ IsMutation(c) /\ pc[c] = "idle"
    /\ Await(c, "queued")
    /\ queue' = [queue EXCEPT ![ModemOf[c]] = Append(@, c)]
    /\ UNCHANGED <<generation, gate, desc, fence, attempt, result, leases,
                   journal, unresolved, owed, crashes>>

\* The chain reaches the mutation.
BeginMutation(c) ==
    /\ c \in Invocations /\ pc[c] = "queued" /\ AtHead(c)
    /\ Enter(c)

\* The precondition port answers: go on, refuse, or throw.
Checked(c) ==
    /\ c \in Invocations /\ pc[c] = "checking"
    /\ \/ Await(c, "admitting") /\ UNCHANGED <<result, queue>>
       \/ \E r \in {"refused", "rejected"} : Settle(c, r)
    /\ UNCHANGED <<generation, gate, desc, fence, attempt, leases, journal,
                   unresolved, owed, crashes>>

\* The admission port answers.  Without a requirement nothing is asked; a read
\* is given no port, so a required admission refuses it.
AdmissionAnswered(c) ==
    /\ c \in Invocations /\ pc[c] = "admitting"
    /\ \/ /\ ~desc[c].admission
          /\ Await(c, "starting")
          /\ UNCHANGED <<result, queue, leases>>
       \/ /\ desc[c].admission /\ IsMutation(c)
          /\ Await(c, "starting")
          /\ leases' = leases \union {c}
          /\ UNCHANGED <<result, queue>>
       \/ /\ desc[c].admission
          /\ Settle(c, "refused")
          /\ UNCHANGED leases
       \/ /\ desc[c].admission /\ IsMutation(c)
          /\ Settle(c, "rejected")
          /\ UNCHANGED leases
    /\ UNCHANGED <<generation, gate, desc, fence, attempt, journal, unresolved,
                   owed, crashes>>

\* The started record is on disk (or there is no journal) and the executor is
\* called; a failed append, which may have written the line, calls nothing.
StartRecorded(c) ==
    /\ c \in Invocations /\ pc[c] = "starting"
    /\ \/ /\ Await(c, "executing")
          /\ attempt' = [attempt EXCEPT ![c] = 1]
          /\ journal' = IF desc[c].journal
                        THEN [journal EXCEPT ![c] = "pending"] ELSE journal
          /\ UNCHANGED <<generation, gate, queue, desc, fence, result, leases,
                         owed, crashes>>
       \/ /\ desc[c].journal
          /\ \E d \in {"none", "pending"} : journal' = [journal EXCEPT ![c] = d]
          /\ Unwind(c)
    /\ UNCHANGED unresolved

\* The executor answers: retry a failed idempotent read once, else run the
\* hooks the descriptor asks for; or the executor throws.
Executed(c) ==
    /\ c \in Invocations /\ pc[c] = "executing"
    /\ \/ \E reply \in Replies :
            LET r == Classify(desc[c].impact, fence[c], generation[ModemOf[c]], reply)
                retry == CanAutoRetry(desc[c], r) /\ attempt[c] < MaxReadAttempts
                readback == ~retry /\ r = "applied" /\ desc[c].readback
                rollback == ~retry /\ r = "failed" /\ desc[c].rollback = "required"
                wait(promise, n, res) ==
                    /\ Await(c, promise)
                    /\ attempt' = [attempt EXCEPT ![c] = n]
                    /\ result' = [result EXCEPT ![c] = res]
                    /\ UNCHANGED <<generation, gate, queue, desc, fence, leases,
                                   journal, owed, crashes>>
            IN  /\ NoteLost(c, desc[c].impact, reply)
                /\ \/ retry /\ wait("executing", attempt[c] + 1, "none")
                   \/ readback /\ wait("readingBack", attempt[c], "none")
                   \/ rollback /\ wait("rollingBack", attempt[c], "failed")
                   \/ ~retry /\ ~readback /\ ~rollback /\ Conclude(c, r)
       \/ Unwind(c) /\ UNCHANGED <<journal, unresolved>>

\* The required readback answers.  A readback that cannot be attributed to
\* this device lifetime is unknown; one that failed or does not match rolls
\* back, when there is a hook for it.
ReadBack(c) ==
    /\ c \in Invocations /\ pc[c] = "readingBack"
    /\ \/ \E reply \in Replies, matches \in BOOLEAN :
            LET r == Classify("read", fence[c], generation[ModemOf[c]], reply)
                confirmed == r = "applied" /\ matches
            IN  /\ NoteLost(c, "read", reply)
                /\ \/ confirmed /\ Conclude(c, "applied")
                   \/ r = "unknown" /\ Conclude(c, "unknown")
                   \/ /\ ~confirmed /\ r # "unknown" /\ desc[c].rollback = "none"
                      /\ Conclude(c, "failed")
                   \/ /\ ~confirmed /\ r # "unknown" /\ desc[c].rollback # "none"
                      /\ Await(c, "rollingBack")
                      /\ result' = [result EXCEPT ![c] = "failed"]
                      /\ UNCHANGED <<generation, gate, queue, desc, fence,
                                     attempt, leases, journal, owed, crashes>>
       \/ Unwind(c) /\ UNCHANGED <<journal, unresolved>>

\* The rollback answers or times out; whatever it says, the result stays
\* "failed" and the gate as it was.
RolledBack(c) ==
    /\ c \in Invocations /\ pc[c] = "rollingBack"
    /\ \/ Conclude(c, "failed")
       \/ Unwind(c) /\ UNCHANGED journal
    /\ UNCHANGED unresolved

\* Mutated: every completion counts as resolved.
EndingResolved(r) == "resolved"

\* The disposition recovery gives a completed record (dispositionOf).
Ending(r) == IF r = "unknown" THEN "unknown" ELSE "resolved"

\* The completed record is on disk, or its append failed, with or without
\* having written the line.
CompletionRecorded(c) ==
    /\ c \in Invocations /\ pc[c] = "completing"
    /\ \/ /\ Await(c, "releasing")
          /\ journal' = IF desc[c].journal
                        THEN [journal EXCEPT ![c] = Ending(result[c])] ELSE journal
          /\ UNCHANGED <<generation, gate, queue, desc, fence, attempt, result,
                         leases, owed, crashes>>
       \/ /\ desc[c].journal
          /\ \E d \in {"pending", Ending(result[c])} :
                journal' = [journal EXCEPT ![c] = d]
          /\ Unwind(c)
    /\ UNCHANGED unresolved

\* finally: the lease, if there is one, is released and the call answers.
Released(c) ==
    /\ c \in Invocations /\ pc[c] = "releasing"
    /\ leases' = leases \ {c}
    /\ \/ Settle(c, result[c])
       \/ c \in leases /\ Settle(c, "rejected")
    /\ UNCHANGED <<generation, gate, desc, fence, attempt, journal, unresolved,
                   owed, crashes>>

-----------------------------------------------------------------------------
(* OperationEngine.reconcile *)

\* The caller names the generation it means to reconcile; it may be behind.
InvokeReconcile(c) ==
    /\ c \in Reconciliations /\ pc[c] = "idle"
    /\ \E g \in 0..generation[ModemOf[c]] : fence' = [fence EXCEPT ![c] = g]
    /\ Await(c, "queued")
    /\ queue' = [queue EXCEPT ![ModemOf[c]] = Append(@, c)]
    /\ UNCHANGED <<generation, gate, desc, attempt, result, leases, journal,
                   unresolved, owed, crashes>>

\* Mutated: any lifetime will do.
AnyLifetime(c) == fence[c] <= generation[ModemOf[c]]

\* The reconciliation belongs to the modem's present lifetime.
SameLifetime(c) == fence[c] = generation[ModemOf[c]]

BeginReconcile(c) ==
    LET m == ModemOf[c]
    IN  /\ c \in Reconciliations /\ pc[c] = "queued" /\ AtHead(c)
        /\ \/ m \notin gate /\ Settle(c, "notRequired")
           \/ m \in gate /\ ~SameLifetime(c) /\ Settle(c, "failed")
           \/ /\ m \in gate /\ SameLifetime(c)
              /\ Await(c, "reconciling") /\ UNCHANGED <<result, queue>>
        /\ UNCHANGED <<generation, gate, desc, fence, attempt, leases, journal,
                       unresolved, owed, crashes>>

\* The caller's run answers or throws; the gate opens only when it succeeded
\* within the generation it was asked for.
Reconciled(c) ==
    LET m == ModemOf[c]
    IN  /\ c \in Reconciliations /\ pc[c] = "reconciling"
        /\ \/ /\ SameLifetime(c)
              /\ Settle(c, "reconciled")
              /\ gate' = gate \ {m}
              /\ unresolved' = {i \in unresolved : ModemOf[i] # m}
           \/ /\ \E r \in {"failed", "rejected"} : Settle(c, r)
              /\ UNCHANGED <<gate, unresolved>>
        /\ UNCHANGED <<generation, desc, fence, attempt, leases, journal, owed,
                       crashes>>

-----------------------------------------------------------------------------
(* The environment. *)

\* The modem re-enumerates or its provider is replaced.
Reenumerate(m) ==
    /\ generation[m] < MaxGeneration
    /\ generation' = [generation EXCEPT ![m] = @ + 1]
    /\ UNCHANGED <<gate, queue, pc, desc, fence, attempt, result, leases,
                   journal, unresolved, owed, crashes>>

\* The process dies and is started again: the calls in flight never answer,
\* the chains, the leases and the gate are gone, the journal is on the disk.
Crash ==
    /\ crashes < MaxCrashes
    /\ crashes' = crashes + 1
    /\ pc' = [c \in Calls |-> IF pc[c] \in Waiting THEN "lost" ELSE pc[c]]
    /\ queue' = [m \in Modems |-> <<>>]
    /\ gate' = {}
    /\ leases' = {}
    /\ owed' = owed \union {c \in unresolved \union Dispatched : desc[c].journal}
    /\ unresolved' = {}
    /\ UNCHANGED <<generation, desc, fence, attempt, result, journal>>

\* What a settled promise lets the engine do next for call c.
Resume(c) ==
    \/ BeginMutation(c) \/ Checked(c) \/ AdmissionAnswered(c) \/ StartRecorded(c)
    \/ Executed(c) \/ ReadBack(c) \/ RolledBack(c) \/ CompletionRecorded(c)
    \/ Released(c) \/ BeginReconcile(c) \/ Reconciled(c)

Next ==
    \/ \E c \in Calls :
        InvokeRead(c) \/ InvokeMutation(c) \/ InvokeReconcile(c) \/ Resume(c)
    \/ \E m \in Modems : Reenumerate(m)
    \/ Crash

Spec == Init /\ [][Next]_vars

\* The event loop runs the continuation of every settled promise, and the
\* promises of the ports, executors and hooks of an answering modem settle.
FairSpec ==
    Spec /\ \A c \in Calls : ModemOf[c] \in Answering => WF_vars(Resume(c))

-----------------------------------------------------------------------------
(* Properties *)

Phases == Waiting \union {"idle", "done", "lost"}
Results == {"none", "applied", "refused", "failed", "unknown", "rejected",
            "reconciled", "notRequired"}

\* Every variable has its type (the queues hold calls of their own modem).
TypeOK ==
    /\ generation \in [Modems -> 0..MaxGeneration]
    /\ gate \subseteq Modems
    /\ queue \in [Modems -> Seq(Calls)]
    /\ pc \in [Calls -> Phases]
    /\ desc \in [Invocations -> Descriptors]
    /\ fence \in [Calls -> 0..MaxGeneration]
    /\ attempt \in [Invocations -> 0..2]
    /\ result \in [Calls -> Results]
    /\ leases \subseteq Invocations
    /\ journal \in [Invocations -> {"none", "pending", "unknown", "resolved"}]
    /\ unresolved \subseteq Invocations
    /\ owed \subseteq Invocations
    /\ crashes \in 0..MaxCrashes

\* A mutation or reconciliation between its turn in the chain and its answer.
Running(c) == Serialized(c) /\ pc[c] \in Waiting \ {"queued"}

\* "Writes are single-flight per physical modem" (control/README.md): from its
\* precondition check to the release of its lease a mutation shares its modem
\* with no other mutation and no reconciliation, whatever failed before it.
SingleFlight ==
    \A c, d \in Calls :
        Running(c) /\ Running(d) /\ ModemOf[c] = ModemOf[d] => c = d

\* A lost reply (timed out or dropped write, completion of another device
\* lifetime) keeps the modem's gate closed until a reconciliation succeeds.
LostReplyClosesGate == \A c \in unresolved : ModemOf[c] \in gate

\* #runCompletionHooks: a rollback runs only after a definite failure or a
\* readback mismatch, never after an outcome nobody knows.
NoRollbackAfterLostReply ==
    \A c \in Invocations : pc[c] = "rollingBack" => c \notin unresolved

\* The finally block: a lease is held exactly by a call between its admission
\* and its answer, so that no refusal, throw or failed append leaks one, and no
\* mutation that needs one reaches the device without it.
LeaseDiscipline ==
    /\ \A c \in leases : c \in Dispatched \/ pc[c] \in {"starting", "releasing"}
    /\ \A c \in Dispatched : IsMutation(c) /\ desc[c].admission => c \in leases

\* The journal's reason to exist (journal/entry.ts): whatever is in flight or
\* uncertain now, or was when a process died, is on the disk as pending or
\* unknown, also when an append failed or an executor threw.
JournalKnowsTheUncertain ==
    \A c \in Dispatched \union unresolved \union owed :
        desc[c].journal => journal[c] \in {"pending", "unknown"}

Dispatches(c) == attempt'[c] # attempt[c]

\* A mutation never reaches its executor while the outcome of an earlier
\* mutation of that modem is unknown: the gate is read before two awaits and
\* the actor is what keeps the answer valid.
DispatchRespectsLostWrites ==
    [][\A c \in Invocations : IsMutation(c) /\ Dispatches(c) =>
        ~\E d \in unresolved : IsMutation(d) /\ ModemOf[d] = ModemOf[c]]_vars

\* The chain: every call made on an answering modem is answered (or dies with
\* the process), however the calls queued before it ended, and although another
\* modem's executor never answers.
EveryCallAnswered ==
    \A c \in Calls : ModemOf[c] \in Answering =>
        (pc[c] # "idle" ~> pc[c] \in {"done", "lost"})

\* The engine implements its abstract promise, see MutationGate.tla: what is
\* inside is what runs in the actor, and it is outdated when the modem left the
\* lifetime it began in.
Inside == [m \in Modems |-> {c \in Calls : Running(c) /\ ModemOf[c] = m}]
Outdated == {m \in Modems :
    \E c \in Calls : Running(c) /\ ModemOf[c] = m /\ fence[c] # generation[m]}
Promise == INSTANCE MutationGate
    WITH Mutations <- Invocations, inside <- Inside, closed <- gate,
         outdated <- Outdated
ImplementsMutationGate == Promise!Spec

=============================================================================
