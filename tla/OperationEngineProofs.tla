------------------------ MODULE OperationEngineProofs ------------------------
(***************************************************************************)
(* Proofs about the operation engine, for any number of modems, calls,     *)
(* descriptors, re-enumerations and process deaths.                        *)
(***************************************************************************)
EXTENDS OperationEngine, TLAPS

USE DEF Calls

-----------------------------------------------------------------------------
(* What the helpers of the actions do to the types. *)

LEMMA AwaitType ==
    ASSUME TypeOK, NEW c \in Calls, NEW p \in Phases, Await(c, p)
    PROVE  pc' \in [Calls -> Phases]
BY DEF TypeOK, Await

LEMMA SettleType ==
    ASSUME TypeOK, NEW c \in Calls, NEW r \in Results, Settle(c, r)
    PROVE  /\ pc' \in [Calls -> Phases]
           /\ result' \in [Calls -> Results]
           /\ queue' \in [Modems -> Seq(Calls)]
<1>1. ModemOf[c] \in Modems
  BY CallsAssumption
<1>2. pc' \in [Calls -> Phases] /\ result' \in [Calls -> Results]
  BY DEF TypeOK, Settle, Phases
<1>3. CASE AtHead(c)
  <2>1. queue[ModemOf[c]] \in Seq(Calls) /\ queue[ModemOf[c]] # <<>>
    BY <1>1, <1>3 DEF TypeOK, AtHead
  <2>2. Tail(queue[ModemOf[c]]) \in Seq(Calls)
    BY <2>1
  <2> QED
    BY <1>1, <1>2, <1>3, <2>2 DEF TypeOK, Settle
<1>4. CASE ~AtHead(c)
  BY <1>2, <1>4 DEF TypeOK, Settle
<1> QED
  BY <1>3, <1>4

LEMMA ConcludeType ==
    ASSUME TypeOK, NEW c \in Invocations, NEW r \in Results, Conclude(c, r)
    PROVE  /\ pc' \in [Calls -> Phases]
           /\ result' \in [Calls -> Results]
           /\ gate' \subseteq Modems
           /\ UNCHANGED <<generation, queue, desc, fence, attempt, leases,
                          journal, owed, crashes>>
BY CallsAssumption DEF TypeOK, Conclude, Await, Phases, Waiting

LEMMA UnwindType ==
    ASSUME TypeOK, NEW c \in Invocations, Unwind(c)
    PROVE  /\ pc' \in [Calls -> Phases]
           /\ result' \in [Calls -> Results]
           /\ UNCHANGED <<generation, gate, queue, desc, fence, attempt, leases,
                          owed, crashes>>
BY DEF TypeOK, Unwind, Await, Phases, Waiting, Results

LEMMA ClassifyType ==
    ASSUME NEW k, NEW g, NEW h, NEW reply \in Replies
    PROVE  Classify(k, g, h, reply) \in Results
BY DEF Classify, Replies, Results

LEMMA EnterType ==
    ASSUME TypeOK, NEW c \in Invocations, Enter(c)
    PROVE  TypeOK'
<1>1. ModemOf[c] \in Modems /\ generation[ModemOf[c]] \in 0..MaxGeneration
  BY CallsAssumption DEF TypeOK
<1>2. fence' \in [Calls -> 0..MaxGeneration]
  BY <1>1 DEF TypeOK, Enter
<1>3. CASE Settle(c, "refused")
  BY <1>2, <1>3, SettleType DEF TypeOK, Enter, Results
<1>4. CASE Await(c, "checking") /\ UNCHANGED <<result, queue>>
  BY <1>2, <1>4, AwaitType DEF TypeOK, Enter, Phases, Waiting
<1> QED
  BY <1>3, <1>4 DEF Enter

\* A call joins its modem's chain.
LEMMA AppendType ==
    ASSUME TypeOK, NEW c \in Calls,
           queue' = [queue EXCEPT ![ModemOf[c]] = Append(@, c)]
    PROVE  queue' \in [Modems -> Seq(Calls)]
<1>1. ModemOf[c] \in Modems /\ queue[ModemOf[c]] \in Seq(Calls)
  BY CallsAssumption DEF TypeOK
<1>2. Append(queue[ModemOf[c]], c) \in Seq(Calls)
  BY <1>1
<1> QED
  BY <1>1, <1>2 DEF TypeOK

-----------------------------------------------------------------------------
(* Type correctness, one lemma per action whose step is not obvious. *)

LEMMA CheckedType ==
    ASSUME TypeOK, NEW c \in Calls, Checked(c) PROVE TypeOK'
<1>1. CASE Await(c, "admitting") /\ UNCHANGED <<result, queue>>
  BY <1>1, AwaitType DEF TypeOK, Checked, Phases, Waiting
<1>2. ASSUME NEW r \in {"refused", "rejected"}, Settle(c, r) PROVE TypeOK'
  BY <1>2, SettleType DEF TypeOK, Checked, Results
<1> QED
  BY <1>1, <1>2 DEF Checked

LEMMA AdmissionAnsweredType ==
    ASSUME TypeOK, NEW c \in Calls, AdmissionAnswered(c) PROVE TypeOK'
<1>1. c \in Invocations /\ leases' \subseteq Invocations
  BY DEF TypeOK, AdmissionAnswered
<1>2. CASE Await(c, "starting") /\ UNCHANGED <<result, queue>>
  BY <1>1, <1>2, AwaitType DEF TypeOK, AdmissionAnswered, Phases, Waiting
<1>3. ASSUME NEW r \in {"refused", "rejected"}, Settle(c, r) PROVE TypeOK'
  BY <1>1, <1>3, SettleType DEF TypeOK, AdmissionAnswered, Results
<1> QED
  BY <1>2, <1>3 DEF AdmissionAnswered

LEMMA StartRecordedType ==
    ASSUME TypeOK, NEW c \in Calls, StartRecorded(c) PROVE TypeOK'
<1>1. c \in Invocations
  BY DEF StartRecorded
<1>2. journal' \in [Invocations -> {"none", "pending", "unknown", "resolved"}]
  BY <1>1 DEF TypeOK, StartRecorded
<1>3. CASE Await(c, "executing") /\ attempt' = [attempt EXCEPT ![c] = 1]
           /\ UNCHANGED <<generation, gate, queue, desc, fence, result, leases,
                          owed, crashes>>
  <2>1. pc' \in [Calls -> Phases]
    BY <1>3, AwaitType DEF Phases, Waiting
  <2>2. attempt' \in [Invocations -> 0..2]
    BY <1>1, <1>3 DEF TypeOK
  <2>3. UNCHANGED unresolved
    BY DEF StartRecorded
  <2> QED
    BY <1>2, <1>3, <2>1, <2>2, <2>3 DEF TypeOK
<1>4. CASE Unwind(c)
  BY <1>1, <1>2, <1>4, UnwindType DEF TypeOK, StartRecorded
<1> QED
  BY <1>3, <1>4 DEF StartRecorded

LEMMA ExecutedType ==
    ASSUME TypeOK, NEW c \in Calls, Executed(c) PROVE TypeOK'
<1>1. c \in Invocations
  BY DEF Executed
<1>2. CASE Unwind(c) /\ UNCHANGED <<journal, unresolved>>
  BY <1>1, <1>2, UnwindType DEF TypeOK
<1>3. ASSUME NEW reply \in Replies,
             NoteLost(c, desc[c].impact, reply),
             NEW p \in Phases, NEW n \in 0..2, NEW res \in Results,
             Await(c, p), attempt' = [attempt EXCEPT ![c] = n],
             result' = [result EXCEPT ![c] = res],
             UNCHANGED <<generation, gate, queue, desc, fence, leases, journal,
                         owed, crashes>>
      PROVE  TypeOK'
  <2>1. pc' \in [Calls -> Phases]
    BY <1>3, AwaitType
  <2>2. unresolved' \subseteq Invocations
    BY <1>1, <1>3 DEF NoteLost, TypeOK
  <2> QED
    BY <1>1, <1>3, <2>1, <2>2 DEF TypeOK
<1>4. ASSUME NEW reply \in Replies,
             NoteLost(c, desc[c].impact, reply),
             Conclude(c, Classify(desc[c].impact, fence[c],
                                  generation[ModemOf[c]], reply))
      PROVE  TypeOK'
  <2>1. unresolved' \subseteq Invocations
    BY <1>1, <1>4 DEF NoteLost, TypeOK
  <2> QED
    BY <1>1, <1>4, <2>1, ClassifyType, ConcludeType DEF TypeOK
<1>5. attempt[c] \in 0..2
      /\ (attempt[c] < MaxReadAttempts => attempt[c] + 1 \in 0..2)
  BY <1>1 DEF TypeOK, MaxReadAttempts
<1>6. {"executing", "readingBack", "rollingBack"} \subseteq Phases
      /\ {"none", "failed"} \subseteq Results
  BY DEF Phases, Waiting, Results
<1> QED
  BY <1>2, <1>3, <1>4, <1>5, <1>6 DEF Executed

LEMMA ReadBackType ==
    ASSUME TypeOK, NEW c \in Calls, ReadBack(c) PROVE TypeOK'
<1>1. c \in Invocations
  BY DEF ReadBack
<1>2. CASE Unwind(c) /\ UNCHANGED <<journal, unresolved>>
  BY <1>1, <1>2, UnwindType DEF TypeOK
<1>3. ASSUME NEW reply \in Replies, NoteLost(c, "read", reply)
      PROVE  unresolved' \subseteq Invocations
  BY <1>1, <1>3 DEF NoteLost, TypeOK
<1>4. ASSUME NEW r \in {"applied", "unknown", "failed"}, Conclude(c, r),
             unresolved' \subseteq Invocations
      PROVE  TypeOK'
  BY <1>1, <1>4, ConcludeType DEF TypeOK, Results
<1>5. ASSUME Await(c, "rollingBack"), unresolved' \subseteq Invocations,
             result' = [result EXCEPT ![c] = "failed"],
             UNCHANGED <<generation, gate, queue, desc, fence, attempt, leases,
                         journal, owed, crashes>>
      PROVE  TypeOK'
  <2>1. pc' \in [Calls -> Phases]
    BY <1>5, AwaitType DEF Phases, Waiting
  <2> QED
    BY <1>1, <1>5, <2>1 DEF TypeOK, Results
<1> QED
  BY <1>2, <1>3, <1>4, <1>5 DEF ReadBack

LEMMA RolledBackType ==
    ASSUME TypeOK, NEW c \in Calls, RolledBack(c) PROVE TypeOK'
<1>1. c \in Invocations /\ unresolved' = unresolved
  BY DEF RolledBack, TypeOK
<1>2. CASE Unwind(c) /\ UNCHANGED journal
  BY <1>1, <1>2, UnwindType DEF TypeOK
<1>3. CASE Conclude(c, "failed")
  BY <1>1, <1>3, ConcludeType DEF TypeOK, Results
<1> QED
  BY <1>2, <1>3 DEF RolledBack

LEMMA CompletionRecordedType ==
    ASSUME TypeOK, NEW c \in Calls, CompletionRecorded(c) PROVE TypeOK'
<1>1. c \in Invocations /\ UNCHANGED unresolved
  BY DEF CompletionRecorded
<1>2. journal' \in [Invocations -> {"none", "pending", "unknown", "resolved"}]
  BY <1>1 DEF TypeOK, CompletionRecorded, Ending
<1>3. CASE Await(c, "releasing")
           /\ UNCHANGED <<generation, gate, queue, desc, fence, attempt, result,
                          leases, owed, crashes>>
  BY <1>1, <1>2, <1>3, AwaitType DEF TypeOK, Phases, Waiting
<1>4. CASE Unwind(c)
  BY <1>1, <1>2, <1>4, UnwindType DEF TypeOK
<1> QED
  BY <1>3, <1>4 DEF CompletionRecorded

LEMMA ReleasedType ==
    ASSUME TypeOK, NEW c \in Calls, Released(c) PROVE TypeOK'
<1>1. result[c] \in Results /\ leases' \subseteq Invocations
  BY DEF TypeOK, Released
<1>2. ASSUME NEW r \in Results, Settle(c, r) PROVE TypeOK'
  BY <1>1, <1>2, SettleType DEF TypeOK, Released
<1> QED
  BY <1>1, <1>2 DEF Released, Results

LEMMA BeginReconcileType ==
    ASSUME TypeOK, NEW c \in Calls, BeginReconcile(c) PROVE TypeOK'
<1>1. ASSUME NEW r \in {"notRequired", "failed"}, Settle(c, r) PROVE TypeOK'
  BY <1>1, SettleType DEF TypeOK, BeginReconcile, Results
<1>2. CASE Await(c, "reconciling") /\ UNCHANGED <<result, queue>>
  BY <1>2, AwaitType DEF TypeOK, BeginReconcile, Phases, Waiting
<1> QED
  BY <1>1, <1>2 DEF BeginReconcile

LEMMA ReconciledType ==
    ASSUME TypeOK, NEW c \in Calls, Reconciled(c) PROVE TypeOK'
<1>1. /\ gate' \subseteq Modems
      /\ unresolved' \subseteq Invocations
  BY DEF TypeOK, Reconciled
<1>2. ASSUME NEW r \in {"reconciled", "failed", "rejected"}, Settle(c, r)
      PROVE  TypeOK'
  BY <1>1, <1>2, SettleType DEF TypeOK, Reconciled, Results
<1> QED
  BY <1>2 DEF Reconciled

LEMMA InitType == Init => TypeOK
BY BoundsAssumption DEF Init, TypeOK, Phases, Results

LEMMA StepType == TypeOK /\ [Next]_vars => TypeOK'
<1> SUFFICES ASSUME TypeOK, [Next]_vars PROVE TypeOK'
  OBVIOUS
<1>1. ASSUME NEW c \in Calls, InvokeRead(c) PROVE TypeOK'
  BY <1>1, EnterType DEF InvokeRead
<1>2. ASSUME NEW c \in Calls, InvokeMutation(c) PROVE TypeOK'
  BY <1>2, AwaitType, AppendType DEF TypeOK, InvokeMutation, Phases, Waiting
<1>3. ASSUME NEW c \in Calls, InvokeReconcile(c) PROVE TypeOK'
  <2>1. ModemOf[c] \in Modems /\ generation[ModemOf[c]] \in 0..MaxGeneration
    BY CallsAssumption DEF TypeOK
  <2>2. fence' \in [Calls -> 0..MaxGeneration]
    BY <1>3, <2>1, BoundsAssumption DEF TypeOK, InvokeReconcile
  <2> QED
    BY <1>3, <2>2, AwaitType, AppendType
    DEF TypeOK, InvokeReconcile, Phases, Waiting
<1>4. ASSUME NEW c \in Calls, Resume(c) PROVE TypeOK'
  <2>1. CASE BeginMutation(c)
    BY <2>1, EnterType DEF BeginMutation
  <2> QED
    BY <1>4, <2>1, CheckedType, AdmissionAnsweredType, StartRecordedType,
       ExecutedType, ReadBackType, RolledBackType, CompletionRecordedType,
       ReleasedType, BeginReconcileType, ReconciledType DEF Resume
<1>5. ASSUME NEW m \in Modems, Reenumerate(m) PROVE TypeOK'
  BY <1>5, BoundsAssumption DEF TypeOK, Reenumerate
<1>6. CASE Crash
  <2>1. pc' \in [Calls -> Phases] /\ queue' \in [Modems -> Seq(Calls)]
    BY <1>6 DEF TypeOK, Crash, Phases, Waiting
  <2> QED
    BY <1>6, <2>1, BoundsAssumption DEF TypeOK, Crash, Dispatched
<1>7. CASE UNCHANGED vars
  BY <1>7 DEF TypeOK, vars
<1> QED
  BY <1>1, <1>2, <1>3, <1>4, <1>5, <1>6, <1>7 DEF Next

\* Every variable of the engine keeps its type.
THEOREM TypeCorrect == Spec => []TypeOK
BY InitType, StepType, PTL DEF Spec

-----------------------------------------------------------------------------
(* One call runs at a time: whatever runs in the actor is the head of its    *)
(* chain.  SingleFlight alone is not inductive: a second call of the modem   *)
(* begins because it is at the head, so the first must have been popped.     *)

RunningAtHead == \A c \in Calls : Running(c) => AtHead(c)

\* A step of call c.
CallStep(c) == InvokeRead(c) \/ InvokeMutation(c) \/ InvokeReconcile(c) \/ Resume(c)

\* What a step does to the chain and to pc.
ChainStep(c) ==
    \/ Await(c, "done") /\ queue' = IF AtHead(c)
                                    THEN [queue EXCEPT ![ModemOf[c]] = Tail(@)]
                                    ELSE queue
    \/ Await(c, "queued")
       /\ queue' = [queue EXCEPT ![ModemOf[c]] = Append(@, c)]
    \/ \E p \in Waiting \ {"queued"} :
        /\ Await(c, p)
        /\ queue' = queue
        /\ Running(c) \/ AtHead(c) \/ ~Serialized(c)

LEMMA CallStepIsChainStep ==
    ASSUME TypeOK, NEW c \in Calls, CallStep(c)
    PROVE  ChainStep(c) /\ desc' = desc
<1>1. ASSUME c \in Invocations, Enter(c), AtHead(c) \/ ~Serialized(c)
      PROVE  ChainStep(c) /\ desc' = desc
  BY <1>1 DEF Enter, ChainStep, Settle, Await, Waiting
<1>2. CASE InvokeRead(c)
  BY <1>1, <1>2, CallsAssumption DEF InvokeRead, Serialized
<1>3. CASE InvokeMutation(c)
  BY <1>3 DEF InvokeMutation, ChainStep
<1>4. CASE InvokeReconcile(c)
  BY <1>4 DEF InvokeReconcile, ChainStep
<1>5. CASE BeginMutation(c)
  BY <1>1, <1>5 DEF BeginMutation
<1>6. ASSUME c \in Invocations, pc[c] \in Waiting \ {"queued"}
      PROVE  Running(c) \/ ~Serialized(c)
  BY <1>6 DEF Running
<1>7. CASE Checked(c)
  BY <1>6, <1>7 DEF Checked, ChainStep, Settle, Await, Waiting
<1>8. CASE AdmissionAnswered(c)
  BY <1>6, <1>8 DEF AdmissionAnswered, ChainStep, Settle, Await, Waiting
<1>9. CASE StartRecorded(c)
  BY <1>6, <1>9 DEF StartRecorded, Unwind, ChainStep, Await, Waiting
<1>10. CASE Executed(c)
  BY <1>6, <1>10 DEF Executed, Conclude, Unwind, ChainStep, Await, Waiting
<1>11. CASE ReadBack(c)
  BY <1>6, <1>11 DEF ReadBack, Conclude, Unwind, ChainStep, Await, Waiting
<1>12. CASE RolledBack(c)
  BY <1>6, <1>12 DEF RolledBack, Conclude, Unwind, ChainStep, Await, Waiting
<1>13. CASE CompletionRecorded(c)
  BY <1>6, <1>13 DEF CompletionRecorded, Unwind, ChainStep, Await, Waiting
<1>14. CASE Released(c)
  BY <1>14 DEF Released, ChainStep, Settle, Await
<1>15. CASE BeginReconcile(c)
  BY <1>15 DEF BeginReconcile, ChainStep, Settle, Await, Waiting
<1>16. CASE Reconciled(c)
  BY <1>16 DEF Reconciled, ChainStep, Settle, Await
<1> QED
  BY <1>2, <1>3, <1>4, <1>5, <1>7, <1>8, <1>9, <1>10, <1>11, <1>12, <1>13,
     <1>14, <1>15, <1>16 DEF CallStep, Resume

LEMMA RunningAtHeadStep ==
    TypeOK /\ RunningAtHead /\ [Next]_vars => RunningAtHead'
<1> SUFFICES ASSUME TypeOK, RunningAtHead, [Next]_vars,
                    NEW d \in Calls, Running(d)'
             PROVE  AtHead(d)'
  BY DEF RunningAtHead
<1>1. ModemOf[d] \in Modems /\ queue[ModemOf[d]] \in Seq(Calls)
  BY CallsAssumption DEF TypeOK
<1>2. ASSUME NEW c \in Calls, CallStep(c) PROVE AtHead(d)'
  <2>1. ChainStep(c) /\ desc' = desc
    BY <1>2, CallStepIsChainStep
  <2>2. ModemOf[c] \in Modems /\ queue[ModemOf[c]] \in Seq(Calls)
    BY CallsAssumption DEF TypeOK
  <2>3. pc[d] = pc'[d] \/ c = d
    BY <2>1 DEF ChainStep, Await, TypeOK
  <2>4. c # d => Running(d) /\ AtHead(d)
    BY <2>1, <2>3 DEF RunningAtHead, Running, Serialized, IsMutation
  <2>5. CASE Await(c, "done") /\ queue' = IF AtHead(c)
                                    THEN [queue EXCEPT ![ModemOf[c]] = Tail(@)]
                                    ELSE queue
    <3>1. c # d
      BY <2>5 DEF Await, Running, TypeOK, Waiting
    <3>2. AtHead(c) => ModemOf[c] # ModemOf[d]
      BY <2>4, <3>1 DEF AtHead
    <3> QED
      BY <1>1, <2>2, <2>4, <2>5, <3>1, <3>2 DEF AtHead, TypeOK
  <2>6. CASE Await(c, "queued")
             /\ queue' = [queue EXCEPT ![ModemOf[c]] = Append(@, c)]
    <3>1. c # d
      BY <2>6 DEF Await, Running, TypeOK
    <3>2. queue[ModemOf[d]] # <<>> /\ Head(queue[ModemOf[d]]) = d
      BY <2>4, <3>1 DEF AtHead
    <3>3. Append(queue[ModemOf[d]], c) # <<>>
          /\ Head(Append(queue[ModemOf[d]], c)) = d
      BY <1>1, <3>2
    <3> QED
      BY <1>1, <2>2, <2>6, <3>2, <3>3 DEF AtHead, TypeOK
  <2>7. CASE \E p \in Waiting \ {"queued"} :
                /\ Await(c, p)
                /\ queue' = queue
                /\ Running(c) \/ AtHead(c) \/ ~Serialized(c)
    <3>1. c = d => AtHead(d)
      BY <2>1, <2>7 DEF RunningAtHead, Running, Serialized, IsMutation
    <3> QED
      BY <2>4, <2>7, <3>1 DEF AtHead
  <2> QED
    BY <2>1, <2>5, <2>6, <2>7 DEF ChainStep
<1>3. ASSUME NEW m \in Modems, Reenumerate(m) PROVE AtHead(d)'
  BY <1>3 DEF Reenumerate, RunningAtHead, Running, AtHead, Serialized, IsMutation
<1>4. CASE Crash
  BY <1>4 DEF Crash, Running, TypeOK, Waiting
<1>5. CASE UNCHANGED vars
  BY <1>5 DEF vars, RunningAtHead, Running, AtHead, Serialized, IsMutation
<1> QED
  BY <1>2, <1>3, <1>4, <1>5 DEF Next, CallStep

LEMMA RunningAtHeadGivesSingleFlight == RunningAtHead => SingleFlight
BY DEF RunningAtHead, SingleFlight, AtHead

\* At most one mutation or reconciliation of a modem is between its turn in the
\* actor's chain and its answer.
THEOREM SingleFlightHolds == Spec => []SingleFlight
<1>1. Init => RunningAtHead
  BY DEF Init, RunningAtHead, Running, Waiting
<1> QED
  BY <1>1, TypeCorrect, RunningAtHeadStep, RunningAtHeadGivesSingleFlight, PTL
  DEF Spec

-----------------------------------------------------------------------------
(* The gate.  A reply is lost in one step with the closing of the gate; from *)
(* then on the invocation can only finish, and a mutation that was already   *)
(* past its gate check when the reply was lost cannot exist, by single       *)
(* flight.                                                                   *)

\* An invocation with a lost reply has nothing left to do on the device.
LostIsFinishing ==
    \A c \in unresolved :
        /\ pc[c] \in {"completing", "releasing", "done"}
        /\ pc[c] = "completing" => result[c] = "unknown"

\* Between its gate check and its dispatch, a mutation shares its modem with
\* no mutation whose outcome is unknown.
AdmittedOverOpenGate ==
    \A c, d \in Invocations :
        /\ IsMutation(c) /\ pc[c] \in {"checking", "admitting", "starting"}
        /\ IsMutation(d) /\ d \in unresolved
        => ModemOf[c] # ModemOf[d]

\* A call never carries a generation the modem has not reached.
FenceBehind == \A c \in Calls : fence[c] <= generation[ModemOf[c]]

GateInv ==
    /\ TypeOK
    /\ RunningAtHead
    /\ FenceBehind
    /\ LostReplyClosesGate
    /\ LostIsFinishing
    /\ AdmittedOverOpenGate

\* The two steps that can lose a reply either lose none or conclude "unknown".
LEMMA ReplyStep ==
    ASSUME TypeOK, NEW c \in Calls, Executed(c) \/ ReadBack(c)
    PROVE  /\ c \in Invocations /\ pc[c] \in {"executing", "readingBack"}
           /\ gate \subseteq gate'
           /\ \/ unresolved' = unresolved
              \/ unresolved' = unresolved \union {c} /\ Conclude(c, "unknown")
<1>1. CASE Executed(c)
  <2>1. c \in Invocations /\ pc[c] = "executing"
    BY <1>1 DEF Executed
  <2>2. CASE Unwind(c) /\ UNCHANGED <<journal, unresolved>>
    BY <2>1, <2>2 DEF Unwind
  <2>3. ASSUME NEW reply \in Replies, NoteLost(c, desc[c].impact, reply),
               NEW r, r = Classify(desc[c].impact, fence[c],
                                   generation[ModemOf[c]], reply),
               \/ r \in {"applied", "failed"} /\ gate' = gate
               \/ Conclude(c, r)
        PROVE  /\ gate \subseteq gate'
               /\ \/ unresolved' = unresolved
                  \/ unresolved' = unresolved \union {c} /\ Conclude(c, "unknown")
    <3>1. ReplyLost(c, desc[c].impact, reply) => r = "unknown"
      BY <2>3 DEF ReplyLost, Classify
    <3> QED
      BY <2>3, <3>1 DEF NoteLost, Conclude
  <2> QED
    BY <1>1, <2>1, <2>2, <2>3 DEF Executed, CanAutoRetry
<1>2. CASE ReadBack(c)
  <2>1. c \in Invocations /\ pc[c] = "readingBack"
    BY <1>2 DEF ReadBack
  <2>2. CASE Unwind(c) /\ UNCHANGED <<journal, unresolved>>
    BY <2>1, <2>2 DEF Unwind
  <2>3. ASSUME NEW reply \in Replies, NoteLost(c, "read", reply),
               NEW r, r = Classify("read", fence[c], generation[ModemOf[c]], reply),
               \/ r # "unknown" /\ gate' = gate
               \/ r # "unknown" /\ \E o \in {"applied", "failed"} : Conclude(c, o)
               \/ r = "unknown" /\ Conclude(c, "unknown")
        PROVE  /\ gate \subseteq gate'
               /\ \/ unresolved' = unresolved
                  \/ unresolved' = unresolved \union {c} /\ Conclude(c, "unknown")
    <3>1. ReplyLost(c, "read", reply) => r = "unknown"
      BY <2>3 DEF ReplyLost, Classify
    <3> QED
      BY <2>3, <3>1 DEF NoteLost, Conclude
  <2> QED
    BY <1>2, <2>1, <2>2, <2>3 DEF ReadBack
<1> QED
  BY <1>1, <1>2

\* Every other step of a call leaves the lost replies alone or reconciles them.
LEMMA OtherStep ==
    ASSUME TypeOK, NEW c \in Calls, CallStep(c), ~Executed(c), ~ReadBack(c)
    PROVE  \/ unresolved' = unresolved /\ gate \subseteq gate'
           \/ /\ unresolved' = {i \in unresolved : ModemOf[i] # ModemOf[c]}
              /\ gate' = gate \ {ModemOf[c]}
BY DEF CallStep, Resume, InvokeRead, InvokeMutation, InvokeReconcile,
       BeginMutation, Enter, Checked, AdmissionAnswered, StartRecorded,
       RolledBack, CompletionRecorded, Released, BeginReconcile, Reconciled,
       Unwind, Conclude

LEMMA LostReplyClosesGateStep ==
    ASSUME TypeOK, LostReplyClosesGate, [Next]_vars
    PROVE  LostReplyClosesGate'
<1>1. ASSUME NEW c \in Calls, CallStep(c) PROVE LostReplyClosesGate'
  <2>1. CASE Executed(c) \/ ReadBack(c)
    BY <2>1, ReplyStep DEF LostReplyClosesGate, Conclude
  <2>2. CASE ~Executed(c) /\ ~ReadBack(c)
    BY <1>1, <2>2, OtherStep DEF LostReplyClosesGate
  <2> QED
    BY <2>1, <2>2
<1>2. ASSUME NEW m \in Modems, Reenumerate(m) PROVE LostReplyClosesGate'
  BY <1>2 DEF Reenumerate, LostReplyClosesGate
<1>3. CASE Crash
  BY <1>3 DEF Crash, LostReplyClosesGate
<1>4. CASE UNCHANGED vars
  BY <1>4 DEF vars, LostReplyClosesGate
<1> QED
  BY <1>1, <1>2, <1>3, <1>4 DEF Next, CallStep

\* A step of one call leaves the other calls where they are.
LEMMA OthersStay ==
    ASSUME TypeOK, NEW c \in Calls, CallStep(c), NEW d \in Calls, d # c
    PROVE  pc'[d] = pc[d] /\ result'[d] = result[d]
<1>1. pc'[d] = pc[d]
  BY CallStepIsChainStep DEF ChainStep, Await, TypeOK
<1>2. result \in [Calls -> Results]
  BY DEF TypeOK
<1>3. ASSUME NEW r, Settle(c, r) PROVE result'[d] = result[d]
  BY <1>2, <1>3 DEF Settle
<1>4. ASSUME NEW r, Conclude(c, r) PROVE result'[d] = result[d]
  BY <1>2, <1>4 DEF Conclude
<1>5. ASSUME Unwind(c) PROVE result'[d] = result[d]
  BY <1>2, <1>5 DEF Unwind
<1>6. ASSUME NEW r, result' = [result EXCEPT ![c] = r]
      PROVE  result'[d] = result[d]
  BY <1>2, <1>6
<1>7. CASE InvokeRead(c) \/ InvokeMutation(c) \/ InvokeReconcile(c)
  BY <1>1, <1>3, <1>7 DEF InvokeRead, InvokeMutation, InvokeReconcile, Enter
<1>8. CASE BeginMutation(c) \/ Checked(c) \/ AdmissionAnswered(c)
  BY <1>1, <1>3, <1>8 DEF BeginMutation, Enter, Checked, AdmissionAnswered
<1>9. CASE StartRecorded(c) \/ CompletionRecorded(c)
  BY <1>1, <1>5, <1>9 DEF StartRecorded, CompletionRecorded
<1>10. CASE Executed(c)
  BY <1>1, <1>4, <1>5, <1>6, <1>10 DEF Executed
<1>11. CASE ReadBack(c) \/ RolledBack(c)
  BY <1>1, <1>4, <1>5, <1>6, <1>11 DEF ReadBack, RolledBack
<1>12. CASE Released(c) \/ BeginReconcile(c) \/ Reconciled(c)
  BY <1>1, <1>3, <1>12 DEF Released, BeginReconcile, Reconciled
<1> QED
  BY <1>1, <1>7, <1>8, <1>9, <1>10, <1>11, <1>12 DEF CallStep, Resume

LEMMA LostIsFinishingStep ==
    ASSUME TypeOK, LostIsFinishing, [Next]_vars
    PROVE  LostIsFinishing'
<1>1. ASSUME NEW c \in Calls, CallStep(c), NEW d \in unresolved'
      PROVE  /\ pc'[d] \in {"completing", "releasing", "done"}
             /\ pc'[d] = "completing" => result'[d] = "unknown"
  <2>1. d \in unresolved \/ (d = c /\ Conclude(c, "unknown"))
    BY <1>1, ReplyStep, OtherStep
  <2>2. CASE d = c /\ Conclude(c, "unknown")
    BY <1>1, <2>2 DEF Conclude, Await, TypeOK
  <2>3. CASE d \in unresolved /\ d # c
    BY <1>1, <2>3, OthersStay DEF LostIsFinishing, TypeOK
  <2>4. CASE d \in unresolved /\ d = c
    <3>1. pc[c] \in {"completing", "releasing", "done"} /\ c \in Invocations
      BY <2>4 DEF LostIsFinishing, TypeOK
    <3>2. CompletionRecorded(c) \/ Released(c)
      BY <1>1, <3>1, CallsAssumption
      DEF CallStep, Resume, InvokeRead, InvokeMutation, InvokeReconcile,
          BeginMutation, Checked, AdmissionAnswered, StartRecorded, Executed,
          ReadBack, RolledBack, BeginReconcile, Reconciled
    <3> QED
      BY <2>4, <3>2 DEF CompletionRecorded, Released, Await, Settle, Unwind, TypeOK
  <2> QED
    BY <2>1, <2>2, <2>3, <2>4
<1>2. ASSUME NEW m \in Modems, Reenumerate(m) PROVE LostIsFinishing'
  BY <1>2 DEF Reenumerate, LostIsFinishing
<1>3. CASE Crash
  BY <1>3 DEF Crash, LostIsFinishing
<1>4. CASE UNCHANGED vars
  BY <1>4 DEF vars, LostIsFinishing
<1> QED
  BY <1>1, <1>2, <1>3, <1>4 DEF Next, CallStep, LostIsFinishing

LEMMA AdmittedOverOpenGateStep ==
    ASSUME GateInv, [Next]_vars
    PROVE  AdmittedOverOpenGate'
<1> USE DEF GateInv
<1> SUFFICES ASSUME NEW c \in Invocations, NEW d \in Invocations,
                    IsMutation(c)', pc'[c] \in {"checking", "admitting", "starting"},
                    IsMutation(d)', d \in unresolved'
             PROVE  ModemOf[c] # ModemOf[d]
  BY DEF AdmittedOverOpenGate
<1>1. ASSUME NEW e \in Calls, CallStep(e) PROVE ModemOf[c] # ModemOf[d]
  <2>1. IsMutation(c) /\ IsMutation(d)
    BY <1>1, CallStepIsChainStep DEF IsMutation
  <2>2. d \in unresolved \/ (d = e /\ Conclude(d, "unknown") /\ Running(d))
    BY <1>1, <2>1, ReplyStep, OtherStep DEF Running, Serialized, Waiting
  <2>3. CASE d \in unresolved /\ pc[c] \in {"checking", "admitting", "starting"}
    BY <2>1, <2>3 DEF AdmittedOverOpenGate
  <2>4. CASE d \in unresolved /\ pc[c] \notin {"checking", "admitting", "starting"}
    <3>1. c = e
      BY <1>1, <2>4, OthersStay
    <3>2. InvokeRead(c) \/ BeginMutation(c)
      BY <1>1, <2>4, <3>1, CallsAssumption
      DEF CallStep, Resume, InvokeMutation, InvokeReconcile, Checked,
          AdmissionAnswered, StartRecorded, Executed, ReadBack, RolledBack,
          CompletionRecorded, Released, BeginReconcile, Reconciled, Settle,
          Await, Conclude, Unwind, TypeOK
    <3>3. ModemOf[c] \notin gate
      BY <2>1, <3>2
      DEF InvokeRead, BeginMutation, Enter, RefusedAtOnce, Settle, TypeOK
    <3> QED
      BY <2>4, <3>3 DEF LostReplyClosesGate
  <2>5. CASE d = e /\ Conclude(d, "unknown") /\ Running(d)
    <3>1. c # d /\ pc[c] = pc'[c]
      BY <1>1, <2>5, OthersStay DEF Conclude, Await, TypeOK
    <3>2. Running(c)
      BY <2>1, <3>1 DEF Running, Serialized, Waiting
    <3> QED
      BY <2>5, <3>1, <3>2, RunningAtHeadGivesSingleFlight DEF SingleFlight
  <2> QED
    BY <2>2, <2>3, <2>4, <2>5
<1>2. ASSUME NEW m \in Modems, Reenumerate(m) PROVE ModemOf[c] # ModemOf[d]
  BY <1>2 DEF Reenumerate, AdmittedOverOpenGate, IsMutation
<1>3. CASE Crash
  BY <1>3 DEF Crash
<1>4. CASE UNCHANGED vars
  BY <1>4 DEF vars, AdmittedOverOpenGate, IsMutation
<1> QED
  BY <1>1, <1>2, <1>3, <1>4 DEF Next, CallStep

\* A call takes its generation before it runs, and keeps it.
LEMMA FenceStep ==
    ASSUME TypeOK, NEW c \in Calls, CallStep(c)
    PROVE  /\ generation' = generation
           /\ \/ fence' = fence
              \/ /\ pc[c] \in {"idle", "queued"}
                 /\ \E g \in 0..generation[ModemOf[c]] :
                        fence' = [fence EXCEPT ![c] = g]
<1>1. generation' = generation
  BY DEF CallStep, Resume, InvokeRead, InvokeMutation, InvokeReconcile,
         BeginMutation, Enter, Checked, AdmissionAnswered, StartRecorded,
         Executed, ReadBack, RolledBack, CompletionRecorded, Released,
         BeginReconcile, Reconciled, Unwind, Conclude
<1>2. generation[ModemOf[c]] \in 0..MaxGeneration
  BY CallsAssumption DEF TypeOK
<1>3. generation[ModemOf[c]] \in 0..generation[ModemOf[c]]
  BY <1>2, BoundsAssumption
<1>4. CASE InvokeRead(c) \/ BeginMutation(c)
  BY <1>1, <1>3, <1>4 DEF InvokeRead, BeginMutation, Enter
<1>5. CASE InvokeReconcile(c)
  BY <1>1, <1>5 DEF InvokeReconcile
<1> QED
  BY <1>1, <1>4, <1>5
  DEF CallStep, Resume, InvokeMutation, Checked, AdmissionAnswered,
      StartRecorded, Executed, ReadBack, RolledBack, CompletionRecorded,
      Released, BeginReconcile, Reconciled, Unwind, Conclude

LEMMA FenceBehindStep ==
    ASSUME TypeOK, FenceBehind, [Next]_vars
    PROVE  FenceBehind'
<1>1. /\ ModemOf \in [Calls -> Modems]
      /\ fence \in [Calls -> 0..MaxGeneration]
      /\ generation \in [Modems -> 0..MaxGeneration]
  BY CallsAssumption DEF TypeOK
<1>2. ASSUME NEW c \in Calls, CallStep(c) PROVE FenceBehind'
  BY <1>1, <1>2, FenceStep, BoundsAssumption DEF FenceBehind
<1>3. ASSUME NEW m \in Modems, Reenumerate(m) PROVE FenceBehind'
  BY <1>1, <1>3, BoundsAssumption DEF Reenumerate, FenceBehind
<1>4. CASE Crash
  BY <1>4 DEF Crash, FenceBehind
<1>5. CASE UNCHANGED vars
  BY <1>5 DEF vars, FenceBehind
<1> QED
  BY <1>2, <1>3, <1>4, <1>5 DEF Next, CallStep

LEMMA GateInvHolds == Spec => []GateInv
<1>1. Init => GateInv
  BY InitType, CallsAssumption
  DEF Init, GateInv, RunningAtHead, Running, Waiting, FenceBehind,
      LostReplyClosesGate, LostIsFinishing, AdmittedOverOpenGate
<1>2. GateInv /\ [Next]_vars => GateInv'
  BY StepType, RunningAtHeadStep, FenceBehindStep, LostReplyClosesGateStep,
     LostIsFinishingStep, AdmittedOverOpenGateStep DEF GateInv
<1> QED
  BY <1>1, <1>2, PTL DEF Spec

\* A lost reply keeps the modem's gate closed until a reconciliation succeeds.
THEOREM LostReplyClosesGateHolds == Spec => []LostReplyClosesGate
<1>1. GateInv => LostReplyClosesGate
  BY DEF GateInv
<1> QED
  BY <1>1, GateInvHolds, PTL

\* No rollback runs after an outcome nobody knows.
THEOREM NoRollbackAfterLostReplyHolds == Spec => []NoRollbackAfterLostReply
<1>1. GateInv => NoRollbackAfterLostReply
  BY DEF GateInv, LostIsFinishing, NoRollbackAfterLostReply
<1> QED
  BY <1>1, GateInvHolds, PTL

\* No mutation reaches its executor while the outcome of an earlier mutation
\* of its modem is unknown.
THEOREM DispatchRespectsLostWritesHolds == Spec => DispatchRespectsLostWrites
<1>1. ASSUME GateInv, [Next]_vars, NEW c \in Invocations,
             IsMutation(c), Dispatches(c),
             NEW d \in unresolved, IsMutation(d), ModemOf[d] = ModemOf[c]
      PROVE  FALSE
  <2>1. c \in Calls /\ d \in Invocations
    BY <1>1 DEF GateInv, TypeOK
  <2>2. PICK e \in Calls : CallStep(e)
    BY <1>1 DEF Next, CallStep, Reenumerate, Crash, vars, Dispatches
  <2>3. attempt' # attempt
    BY <1>1 DEF Dispatches
  <2>4. StartRecorded(e) \/ Executed(e)
    BY <2>2, <2>3
    DEF CallStep, Resume, InvokeRead, InvokeMutation, InvokeReconcile,
        BeginMutation, Enter, Checked, AdmissionAnswered, ReadBack, RolledBack,
        CompletionRecorded, Released, BeginReconcile, Reconciled, Conclude, Unwind
  <2>5. \E n : attempt' = [attempt EXCEPT ![e] = n]
    BY <2>3, <2>4 DEF StartRecorded, Executed, Conclude, Unwind
  <2>6. e = c
    BY <1>1, <2>1, <2>5 DEF Dispatches, GateInv, TypeOK
  <2>7. CASE StartRecorded(c)
    BY <1>1, <2>1, <2>7 DEF StartRecorded, GateInv, AdmittedOverOpenGate, IsMutation
  <2>8. CASE Executed(c)
    <3>1. attempt'[c] = attempt[c]
      BY <1>1, <2>8 DEF Executed, CanAutoRetry, Conclude, Unwind, IsMutation, GateInv, TypeOK
    <3> QED
      BY <1>1, <3>1 DEF Dispatches
  <2> QED
    BY <2>4, <2>6, <2>7, <2>8
<1>2. GateInv /\ [Next]_vars =>
        [\A c \in Invocations : IsMutation(c) /\ Dispatches(c) =>
            ~\E d \in unresolved : IsMutation(d) /\ ModemOf[d] = ModemOf[c]]_vars
  BY <1>1
<1> QED
  BY <1>2, GateInvHolds, PTL DEF Spec, DispatchRespectsLostWrites

-----------------------------------------------------------------------------
(* Leases and the journal. *)

\* LeaseDiscipline with the one phase between the grant and the dispatch.
LeaseInv ==
    /\ \A c \in leases : c \in Dispatched \/ pc[c] \in {"starting", "releasing"}
    /\ \A c \in Invocations :
        /\ IsMutation(c) /\ desc[c].admission
        /\ pc[c] = "starting" \/ c \in Dispatched
        => c \in leases

\* JournalKnowsTheUncertain, with what keeps it: a call in flight has its start
\* on the disk, and what was owed at a process death never runs again.
JournalInv ==
    /\ \A c \in Dispatched : desc[c].journal => journal[c] = "pending"
    /\ \A c \in unresolved \union owed :
        desc[c].journal => journal[c] \in {"pending", "unknown"}
    /\ \A c \in owed : pc[c] \in {"lost", "done"}

\* A step of one call touches only its own lease and its own journal records.
LEMMA OthersKeep ==
    ASSUME TypeOK, NEW c \in Calls, CallStep(c), NEW d \in Invocations, d # c
    PROVE  /\ d \in leases' <=> d \in leases
           /\ journal'[d] = journal[d]
<1>1. journal \in [Invocations -> {"none", "pending", "unknown", "resolved"}]
  BY DEF TypeOK
<1>2. ASSUME NEW r, Conclude(c, r) PROVE leases' = leases /\ journal' = journal
  BY <1>2 DEF Conclude
<1>3. ASSUME Unwind(c) PROVE leases' = leases
  BY <1>3 DEF Unwind
<1>4. CASE InvokeRead(c) \/ InvokeMutation(c) \/ InvokeReconcile(c)
           \/ BeginMutation(c) \/ Checked(c)
  BY <1>4 DEF InvokeRead, InvokeMutation, InvokeReconcile, BeginMutation, Enter,
              Checked
<1>5. CASE AdmissionAnswered(c)
  BY <1>5 DEF AdmissionAnswered
<1>6. CASE StartRecorded(c) \/ CompletionRecorded(c)
  BY <1>1, <1>3, <1>6 DEF StartRecorded, CompletionRecorded
<1>7. CASE Executed(c)
  BY <1>2, <1>3, <1>7 DEF Executed
<1>8. CASE ReadBack(c) \/ RolledBack(c)
  BY <1>2, <1>3, <1>8 DEF ReadBack, RolledBack
<1>9. CASE Released(c) \/ BeginReconcile(c) \/ Reconciled(c)
  BY <1>9 DEF Released, BeginReconcile, Reconciled
<1> QED
  BY <1>4, <1>5, <1>6, <1>7, <1>8, <1>9 DEF CallStep, Resume

\* What the step of an invocation does to its own phase, lease and record.
LEMMA OwnLease ==
    ASSUME TypeOK, LeaseInv, NEW c \in Invocations, CallStep(c)
    PROVE  /\ c \in leases' => c \in Dispatched' \/ pc'[c] \in {"starting", "releasing"}
           /\ IsMutation(c) /\ desc[c].admission
              /\ (pc'[c] = "starting" \/ c \in Dispatched')
              => c \in leases'
<1> USE DEF Dispatched
<1>1. pc \in [Calls -> Phases]
  BY DEF TypeOK
<1>2. ASSUME NEW r, Conclude(c, r)
      PROVE  pc'[c] = "completing" /\ leases' = leases
  BY <1>1, <1>2 DEF Conclude, Await
<1>3. ASSUME Unwind(c) PROVE pc'[c] = "releasing" /\ leases' = leases
  BY <1>1, <1>3 DEF Unwind, Await
<1>4. ASSUME NEW r, Settle(c, r) PROVE pc'[c] = "done"
  BY <1>1, <1>4 DEF Settle
<1>5. ASSUME NEW p, Await(c, p) PROVE pc'[c] = p
  BY <1>1, <1>5 DEF Await
<1>6. CASE InvokeRead(c) \/ BeginMutation(c)
  BY <1>4, <1>5, <1>6 DEF LeaseInv, InvokeRead, BeginMutation, Enter
<1>7. CASE InvokeMutation(c) \/ InvokeReconcile(c)
  BY <1>5, <1>7, CallsAssumption DEF LeaseInv, InvokeMutation, InvokeReconcile
<1>8. CASE Checked(c)
  BY <1>4, <1>5, <1>8 DEF LeaseInv, Checked
<1>9. CASE AdmissionAnswered(c)
  BY <1>4, <1>5, <1>9 DEF LeaseInv, AdmissionAnswered
<1>10. CASE StartRecorded(c)
  BY <1>3, <1>5, <1>10 DEF LeaseInv, StartRecorded
<1>11. CASE Executed(c)
  BY <1>2, <1>3, <1>5, <1>11 DEF LeaseInv, Executed
<1>12. CASE ReadBack(c) \/ RolledBack(c)
  BY <1>2, <1>3, <1>5, <1>12 DEF LeaseInv, ReadBack, RolledBack
<1>13. CASE CompletionRecorded(c)
  BY <1>3, <1>5, <1>13 DEF LeaseInv, CompletionRecorded
<1>14. CASE Released(c)
  BY <1>4, <1>14 DEF LeaseInv, Released
<1>15. CASE BeginReconcile(c) \/ Reconciled(c)
  BY <1>15, CallsAssumption DEF BeginReconcile, Reconciled
<1> QED
  BY <1>6, <1>7, <1>8, <1>9, <1>10, <1>11, <1>12, <1>13, <1>14, <1>15
  DEF CallStep, Resume

LEMMA LeaseInvStep == TypeOK /\ LeaseInv /\ [Next]_vars => LeaseInv'
<1> SUFFICES ASSUME TypeOK, LeaseInv, [Next]_vars PROVE LeaseInv'
  OBVIOUS
<1>1. ASSUME NEW c \in Calls, CallStep(c) PROVE LeaseInv'
  <2>1. desc' = desc
    BY <1>1, CallStepIsChainStep
  <2>2. ASSUME NEW d \in Invocations
        PROVE  /\ d \in leases' =>
                    d \in Dispatched' \/ pc'[d] \in {"starting", "releasing"}
               /\ IsMutation(d) /\ desc[d].admission
                  /\ (pc'[d] = "starting" \/ d \in Dispatched')
                  => d \in leases'
    <3>1. CASE d = c
      BY <1>1, <3>1, OwnLease
    <3>2. CASE d # c
      BY <1>1, <3>2, OthersKeep, OthersStay DEF LeaseInv, Dispatched
    <3> QED
      BY <3>1, <3>2
  <2>3. leases' \subseteq Invocations
    BY <1>1, StepType DEF TypeOK, Next, CallStep
  <2> QED
    BY <2>1, <2>2, <2>3 DEF LeaseInv, IsMutation
<1>2. ASSUME NEW m \in Modems, Reenumerate(m) PROVE LeaseInv'
  BY <1>2 DEF Reenumerate, LeaseInv, Dispatched, IsMutation
<1>3. CASE Crash
  BY <1>3 DEF Crash, LeaseInv, Dispatched, Waiting
<1>4. CASE UNCHANGED vars
  BY <1>4 DEF vars, LeaseInv, Dispatched, IsMutation
<1> QED
  BY <1>1, <1>2, <1>3, <1>4 DEF Next, CallStep

\* No refusal, throw or failed append leaks a lease, and no mutation that needs
\* one is on the device without it.
THEOREM LeaseDisciplineHolds == Spec => []LeaseDiscipline
<1>1. Init => LeaseInv
  BY DEF Init, LeaseInv, Dispatched
<1>2. LeaseInv => LeaseDiscipline
  BY DEF LeaseInv, LeaseDiscipline, Dispatched
<1> QED
  BY <1>1, <1>2, LeaseInvStep, TypeCorrect, PTL DEF Spec

\* The record of the call that steps: written before the dispatch, ended only
\* by the completion, which is unknown when the reply was lost.
LEMMA OwnJournal ==
    ASSUME TypeOK, LostIsFinishing, JournalInv,
           NEW c \in Invocations, CallStep(c), desc[c].journal
    PROVE  /\ c \in Dispatched' => journal'[c] = "pending"
           /\ c \in unresolved' \union owed => journal'[c] \in {"pending", "unknown"}
<1> USE DEF Dispatched
<1>1. pc \in [Calls -> Phases]
      /\ journal \in [Invocations -> {"none", "pending", "unknown", "resolved"}]
  BY DEF TypeOK
<1>2. ASSUME NEW r, Conclude(c, r) PROVE pc'[c] = "completing" /\ journal' = journal
  BY <1>1, <1>2 DEF Conclude, Await
<1>3. ASSUME Unwind(c) PROVE pc'[c] = "releasing"
  BY <1>1, <1>3 DEF Unwind, Await
<1>4. ASSUME NEW r, Settle(c, r) PROVE pc'[c] = "done"
  BY <1>1, <1>4 DEF Settle
<1>5. ASSUME NEW p, Await(c, p) PROVE pc'[c] = p
  BY <1>1, <1>5 DEF Await
<1>6. CASE InvokeRead(c) \/ BeginMutation(c)
  BY <1>4, <1>5, <1>6 DEF JournalInv, InvokeRead, BeginMutation, Enter
<1>7. CASE InvokeMutation(c) \/ InvokeReconcile(c)
  BY <1>5, <1>7, CallsAssumption DEF JournalInv, InvokeMutation, InvokeReconcile
<1>8. CASE Checked(c) \/ AdmissionAnswered(c)
  BY <1>4, <1>5, <1>8 DEF JournalInv, Checked, AdmissionAnswered
<1>9. CASE StartRecorded(c)
  <2>1. c \notin unresolved \union owed /\ unresolved' = unresolved
    BY <1>9 DEF JournalInv, LostIsFinishing, StartRecorded
  <2> QED
    BY <1>1, <1>3, <1>5, <1>9, <2>1 DEF StartRecorded
<1>10. CASE Executed(c) \/ ReadBack(c)
  <2>1. journal[c] = "pending" /\ journal' = journal
    BY <1>2, <1>10 DEF JournalInv, Executed, ReadBack
  <2> QED
    BY <2>1
<1>11. CASE RolledBack(c)
  BY <1>2, <1>3, <1>11 DEF JournalInv, RolledBack
<1>12. CASE CompletionRecorded(c)
  <2>1. pc'[c] = "releasing" /\ unresolved' = unresolved
    BY <1>3, <1>5, <1>12 DEF CompletionRecorded
  <2>2. c \notin owed
    BY <1>12 DEF CompletionRecorded, JournalInv
  <2>3. c \in unresolved => result[c] = "unknown"
    BY <1>12 DEF CompletionRecorded, LostIsFinishing
  <2>4. result[c] = "unknown" => journal'[c] \in {"pending", "unknown"}
    BY <1>1, <1>12 DEF CompletionRecorded, Ending
  <2> QED
    BY <2>1, <2>2, <2>3, <2>4
<1>13. CASE Released(c)
  BY <1>4, <1>13 DEF JournalInv, Released
<1>14. CASE BeginReconcile(c) \/ Reconciled(c)
  BY <1>14, CallsAssumption DEF BeginReconcile, Reconciled
<1> QED
  BY <1>6, <1>7, <1>8, <1>9, <1>10, <1>11, <1>12, <1>13, <1>14
  DEF CallStep, Resume

LEMMA JournalInvStep ==
    ASSUME GateInv, JournalInv, [Next]_vars
    PROVE  JournalInv'
<1> USE DEF GateInv
<1>1. ASSUME NEW c \in Calls, CallStep(c) PROVE JournalInv'
  <2>1. desc' = desc /\ owed' = owed
    BY <1>1, CallStepIsChainStep
    DEF CallStep, Resume, InvokeRead, InvokeMutation, InvokeReconcile,
        BeginMutation, Enter, Checked, AdmissionAnswered, StartRecorded,
        Executed, ReadBack, RolledBack, CompletionRecorded, Released,
        BeginReconcile, Reconciled, Unwind, Conclude
  <2>2. unresolved' \subseteq unresolved \union {c}
    BY <1>1, ReplyStep, OtherStep
  <2>3. unresolved' \subseteq Invocations /\ owed \subseteq Invocations
    BY <1>1, StepType DEF TypeOK, Next, CallStep
  <2>4. ASSUME NEW d \in Invocations, desc[d].journal
        PROVE  /\ d \in Dispatched' => journal'[d] = "pending"
               /\ d \in unresolved' \union owed =>
                    journal'[d] \in {"pending", "unknown"}
    <3>1. CASE d = c
      BY <1>1, <2>4, <3>1, OwnJournal
    <3>2. CASE d # c
      BY <1>1, <2>2, <2>4, <3>2, OthersKeep, OthersStay DEF JournalInv, Dispatched
    <3> QED
      BY <3>1, <3>2
  <2>5. ASSUME NEW d \in owed PROVE pc'[d] \in {"lost", "done"}
    <3>1. CASE d = c
      BY <1>1, <2>3, <2>5, <3>1, CallsAssumption
      DEF JournalInv, CallStep, Resume, InvokeRead, InvokeMutation,
          InvokeReconcile, BeginMutation, Checked, AdmissionAnswered,
          StartRecorded, Executed, ReadBack, RolledBack, CompletionRecorded,
          Released, BeginReconcile, Reconciled
    <3>2. CASE d # c
      BY <1>1, <2>3, <2>5, <3>2, OthersStay DEF JournalInv
    <3> QED
      BY <3>1, <3>2
  <2>6. Dispatched' \subseteq Invocations
    BY DEF Dispatched
  <2> QED
    BY <2>1, <2>3, <2>4, <2>5, <2>6 DEF JournalInv
<1>2. ASSUME NEW m \in Modems, Reenumerate(m) PROVE JournalInv'
  BY <1>2 DEF Reenumerate, JournalInv, Dispatched
<1>3. CASE Crash
  <2>1. pc \in [Calls -> Phases] /\ unresolved \subseteq Invocations
        /\ owed \subseteq Invocations
    BY DEF TypeOK
  <2>2. Dispatched' = {} /\ unresolved' = {} /\ desc' = desc /\ journal' = journal
    BY <1>3, <2>1 DEF Crash, Dispatched, Waiting
  <2>3. ASSUME NEW d \in owed'
        PROVE  /\ desc[d].journal => journal[d] \in {"pending", "unknown"}
               /\ pc'[d] \in {"lost", "done"}
    BY <1>3, <2>1, <2>3
    DEF Crash, JournalInv, LostIsFinishing, Dispatched, Waiting
  <2> QED
    BY <2>2, <2>3 DEF JournalInv
<1>4. CASE UNCHANGED vars
  BY <1>4 DEF vars, JournalInv, Dispatched
<1> QED
  BY <1>1, <1>2, <1>3, <1>4 DEF Next, CallStep

\* Whatever is in flight or uncertain, or was when a process died, is on the
\* disk as pending or unknown.
THEOREM JournalKnowsTheUncertainHolds == Spec => []JournalKnowsTheUncertain
<1>1. Init => JournalInv
  BY DEF Init, JournalInv, Dispatched
<1>2. JournalInv => JournalKnowsTheUncertain
  BY DEF JournalInv, JournalKnowsTheUncertain
<1> QED
  BY <1>1, <1>2, JournalInvStep, GateInvHolds, PTL DEF Spec

-----------------------------------------------------------------------------
(* The engine implements MutationGate. *)

LEMMA InitRefines == Init => Promise!Init
<1> SUFFICES ASSUME Init PROVE Promise!Init
  OBVIOUS
<1>1. \A c \in Calls : ~Running(c)
  BY DEF Init, Running, Waiting
<1>2. Inside = [m \in Modems |-> {}] /\ Outdated = {}
  BY <1>1 DEF Inside, Outdated
<1> QED
  BY <1>2 DEF Init, Promise!Init

\* How a step of call c looks to MutationGate, by what it does to c's phase.
LEMMA StepEffect ==
    ASSUME GateInv, NEW c \in Calls, CallStep(c)
    PROVE  \/ gate' = gate /\ (Running(c)' <=> Running(c))
           \/ gate' = gate \union {ModemOf[c]} /\ (Running(c)' <=> Running(c))
           \/ gate' = gate /\ ~Running(c)'
           \/ /\ gate' = gate /\ Running(c)' /\ ~Running(c) /\ AtHead(c)
              /\ \/ c \in Invocations /\ ModemOf[c] \notin gate
                 \/ c \in Reconciliations /\ ModemOf[c] \in gate
           \/ /\ gate' = gate \ {ModemOf[c]} /\ SameLifetime(c)
              /\ c \in Reconciliations /\ Running(c) /\ ~Running(c)'
<1>1. pc \in [Calls -> Phases] /\ desc' = desc
  BY CallStepIsChainStep DEF GateInv, TypeOK
<1>2. ASSUME NEW r, Settle(c, r) PROVE ~Running(c)'
  BY <1>1, <1>2 DEF Settle, Running, Waiting
<1>3. ASSUME NEW p \in Waiting \ {"queued"}, Await(c, p)
      PROVE  Running(c)' <=> Serialized(c)
  BY <1>1, <1>3 DEF Await, Running, Serialized, IsMutation
<1>4. ASSUME pc[c] \in Waiting \ {"queued"} PROVE Running(c) <=> Serialized(c)
  BY <1>4 DEF Running
<1>5. ASSUME NEW r, Conclude(c, r), pc[c] \in Waiting \ {"queued"}
      PROVE  /\ gate' = gate \/ gate' = gate \union {ModemOf[c]}
             /\ Running(c)' <=> Running(c)
  BY <1>3, <1>4, <1>5 DEF Conclude, Waiting
<1>6. ASSUME Unwind(c), pc[c] \in Waiting \ {"queued"}
      PROVE  gate' = gate /\ (Running(c)' <=> Running(c))
  BY <1>3, <1>4, <1>6 DEF Unwind, Waiting
<1>7. pc[c] \in {"idle", "queued"} => ~Running(c)
  BY DEF Running, Waiting
<1>8. CASE InvokeRead(c)
  BY <1>2, <1>3, <1>7, <1>8, CallsAssumption
  DEF InvokeRead, Enter, Waiting, Serialized
<1>9. CASE InvokeMutation(c) \/ InvokeReconcile(c)
  BY <1>1, <1>9 DEF InvokeMutation, InvokeReconcile, Await, Running
<1>10. CASE BeginMutation(c)
  BY <1>2, <1>3, <1>7, <1>10, CallsAssumption
  DEF BeginMutation, Enter, RefusedAtOnce, Waiting, Serialized
<1>11. CASE Checked(c) \/ AdmissionAnswered(c)
  BY <1>2, <1>3, <1>4, <1>11 DEF Checked, AdmissionAnswered, Waiting
<1>12. CASE StartRecorded(c) \/ CompletionRecorded(c)
  BY <1>3, <1>4, <1>6, <1>12 DEF StartRecorded, CompletionRecorded, Waiting
<1>13. CASE Executed(c)
  BY <1>3, <1>4, <1>5, <1>6, <1>13 DEF Executed, Waiting
<1>14. CASE ReadBack(c) \/ RolledBack(c)
  BY <1>3, <1>4, <1>5, <1>6, <1>14 DEF ReadBack, RolledBack, Waiting
<1>15. CASE Released(c)
  BY <1>2, <1>15 DEF Released
<1>16. CASE BeginReconcile(c)
  BY <1>2, <1>3, <1>7, <1>16 DEF BeginReconcile, Waiting, Serialized
<1>17. CASE Reconciled(c)
  BY <1>2, <1>4, <1>17 DEF Reconciled, Waiting, Serialized
<1> QED
  BY <1>8, <1>9, <1>10, <1>11, <1>12, <1>13, <1>14, <1>15, <1>16, <1>17
  DEF CallStep, Resume

\* The calls of other modems, and the others of this one, stay in or out.
LEMMA OthersInside ==
    ASSUME GateInv, NEW c \in Calls, CallStep(c)
    PROVE  /\ Inside \in [Modems -> SUBSET Calls]
           /\ (Running(c)' <=> Running(c)) => Inside' = Inside
           /\ Running(c) /\ ~Running(c)' =>
                Inside[ModemOf[c]] = {c}
                /\ Inside' = [Inside EXCEPT ![ModemOf[c]] = {}]
           /\ ~Running(c) /\ Running(c)' /\ AtHead(c) =>
                Inside[ModemOf[c]] = {}
                /\ Inside' = [Inside EXCEPT ![ModemOf[c]] = {c}]
<1>1. ModemOf \in [Calls -> Modems]
  BY CallsAssumption
<1>2. \A d \in Calls : d # c => (Running(d)' <=> Running(d))
  BY OthersStay, CallStepIsChainStep DEF GateInv, Running, Serialized, IsMutation
<1>3. (Running(c)' <=> Running(c)) => Inside' = Inside
  BY <1>2 DEF Inside
<1>4. ASSUME Running(c), ~Running(c)'
      PROVE  Inside[ModemOf[c]] = {c}
             /\ Inside' = [Inside EXCEPT ![ModemOf[c]] = {}]
  <2>1. \A d \in Calls : Running(d) /\ ModemOf[d] = ModemOf[c] => d = c
    BY <1>4, RunningAtHeadGivesSingleFlight DEF GateInv, SingleFlight
  <2>2. Inside[ModemOf[c]] = {c}
    BY <1>1, <1>4, <2>1 DEF Inside
  <2>3. \A d \in Calls : Running(d)' <=> Running(d) /\ d # c
    BY <1>2, <1>4
  <2>4. {d \in Calls : Running(d)' /\ ModemOf[d] = ModemOf[c]} = {}
    BY <2>1, <2>3
  <2>5. \A m \in Modems : m # ModemOf[c] =>
            {d \in Calls : Running(d)' /\ ModemOf[d] = m}
                = {d \in Calls : Running(d) /\ ModemOf[d] = m}
    BY <2>3
  <2>6. \A m \in Modems :
            Inside'[m] = IF m = ModemOf[c] THEN {} ELSE Inside[m]
    BY <2>4, <2>5 DEF Inside
  <2>7. /\ Inside \in [Modems -> SUBSET Calls]
        /\ Inside' \in [Modems -> SUBSET Calls]
    BY DEF Inside
  <2> QED
    BY <1>1, <2>2, <2>6, <2>7
<1>5. ASSUME ~Running(c), Running(c)', AtHead(c)
      PROVE  Inside[ModemOf[c]] = {}
             /\ Inside' = [Inside EXCEPT ![ModemOf[c]] = {c}]
  <2>1. \A d \in Calls : Running(d) => ModemOf[d] # ModemOf[c]
    BY <1>5 DEF GateInv, RunningAtHead, AtHead
  <2>2. Inside[ModemOf[c]] = {}
    BY <1>1, <2>1 DEF Inside
  <2>3. \A d \in Calls : Running(d)' <=> Running(d) \/ d = c
    BY <1>2, <1>5
  <2>4. {d \in Calls : Running(d)' /\ ModemOf[d] = ModemOf[c]} = {c}
    BY <2>1, <2>3
  <2>5. \A m \in Modems : m # ModemOf[c] =>
            {d \in Calls : Running(d)' /\ ModemOf[d] = m}
                = {d \in Calls : Running(d) /\ ModemOf[d] = m}
    BY <2>3
  <2>6. \A m \in Modems :
            Inside'[m] = IF m = ModemOf[c] THEN {c} ELSE Inside[m]
    BY <2>4, <2>5 DEF Inside
  <2>7. /\ Inside \in [Modems -> SUBSET Calls]
        /\ Inside' \in [Modems -> SUBSET Calls]
    BY DEF Inside
  <2> QED
    BY <1>1, <2>2, <2>6, <2>7
<1> QED
  BY <1>3, <1>4, <1>5 DEF Inside

\* What the same step does to the outdated modems: a call gets in with the
\* present generation and never changes it inside.
LEMMA StepOutdated ==
    ASSUME GateInv, NEW c \in Calls, CallStep(c)
    PROVE  /\ (Running(c)' <=> Running(c)) => Outdated' = Outdated
           /\ Running(c) /\ ~Running(c)' => Outdated' = Outdated \ {ModemOf[c]}
           /\ ~Running(c) /\ Running(c)' => Outdated' = Outdated
<1>1. ModemOf \in [Calls -> Modems] /\ fence \in [Calls -> 0..MaxGeneration]
      /\ pc \in [Calls -> Phases] /\ desc' = desc
  BY CallsAssumption, CallStepIsChainStep DEF GateInv, TypeOK
<1>2. \A d \in Calls : d # c => (Running(d)' <=> Running(d))
  BY OthersStay, CallStepIsChainStep DEF GateInv, Running, Serialized, IsMutation
<1>3. generation' = generation
  BY FenceStep DEF GateInv
<1>4. \/ fence' = fence
      \/ /\ pc[c] \in {"idle", "queued"}
         /\ \E g \in 0..generation[ModemOf[c]] : fence' = [fence EXCEPT ![c] = g]
  BY FenceStep DEF GateInv
<1>5. \A d \in Calls : d # c => fence'[d] = fence[d]
  BY <1>1, <1>4
<1>6. Running(c) => fence' = fence
  BY <1>4 DEF Running, Waiting
<1>7. ASSUME ~Running(c), Running(c)' PROVE fence'[c] = generation[ModemOf[c]]
  <2>1. CASE InvokeRead(c) \/ BeginMutation(c)
    BY <1>1, <2>1 DEF InvokeRead, BeginMutation, Enter
  <2>2. CASE BeginReconcile(c)
    BY <1>1, <1>7, <2>2
    DEF BeginReconcile, SameLifetime, Settle, Running, Waiting
  <2>3. CASE InvokeMutation(c) \/ InvokeReconcile(c)
    BY <1>1, <1>7, <2>3 DEF InvokeMutation, InvokeReconcile, Await, Running
  <2>4. CASE pc[c] \in Waiting \ {"queued"}
    BY <1>1, <1>7, <2>4 DEF Running, Serialized, IsMutation
  <2> QED
    BY <2>1, <2>2, <2>3, <2>4
    DEF CallStep, Resume, Checked, AdmissionAnswered, StartRecorded, Executed,
        ReadBack, RolledBack, CompletionRecorded, Released, Reconciled, Waiting
<1>8. ASSUME Running(c)' <=> Running(c) PROVE Outdated' = Outdated
  BY <1>2, <1>3, <1>5, <1>6, <1>8 DEF Outdated
<1>9. ASSUME Running(c), ~Running(c)' PROVE Outdated' = Outdated \ {ModemOf[c]}
  <2>1. \A d \in Calls : Running(d) /\ ModemOf[d] = ModemOf[c] => d = c
    BY <1>9, RunningAtHeadGivesSingleFlight DEF GateInv, SingleFlight
  <2> QED
    BY <1>2, <1>3, <1>6, <1>9, <2>1 DEF Outdated
<1>10. ASSUME ~Running(c), Running(c)' PROVE Outdated' = Outdated
  BY <1>2, <1>3, <1>5, <1>7, <1>10 DEF Outdated
<1> QED
  BY <1>8, <1>9, <1>10

LEMMA StepRefines ==
    ASSUME GateInv, [Next]_vars
    PROVE  [Promise!Next]_(Promise!vars)
<1> USE DEF Promise!vars
<1>1. ASSUME NEW c \in Calls, CallStep(c)
      PROVE  Promise!Next \/ UNCHANGED <<Inside, gate, Outdated>>
  <2> DEFINE m == ModemOf[c]
  <2>1. m \in Modems
    BY CallsAssumption
  <2>2. CASE gate' = gate /\ (Running(c)' <=> Running(c))
    BY <1>1, <2>2, OthersInside, StepOutdated
  <2>3. CASE gate' = gate \union {m} /\ (Running(c)' <=> Running(c))
    BY <1>1, <2>1, <2>3, OthersInside, StepOutdated
    DEF Promise!Next, Promise!Close
  <2>4. CASE gate' = gate /\ ~Running(c)' /\ Running(c)
    BY <1>1, <2>1, <2>4, OthersInside, StepOutdated
    DEF Promise!Next, Promise!Leave
  <2>5. CASE /\ gate' = gate /\ Running(c)' /\ ~Running(c) /\ AtHead(c)
             /\ \/ c \in Invocations /\ m \notin gate
                \/ c \in Reconciliations /\ m \in gate
    BY <1>1, <2>1, <2>5, OthersInside, StepOutdated
    DEF Promise!Next, Promise!Admit, Promise!StartReconciling
  <2>6. CASE /\ gate' = gate \ {m} /\ SameLifetime(c)
             /\ c \in Reconciliations /\ Running(c) /\ ~Running(c)'
    <3>1. \A d \in Calls : Running(d) /\ ModemOf[d] = m => d = c
      BY <2>6, RunningAtHeadGivesSingleFlight DEF GateInv, SingleFlight
    <3>2. m \notin Outdated
      BY <2>6, <3>1 DEF Outdated, SameLifetime
    <3>3. Inside[m] = {c} /\ Inside' = [Inside EXCEPT ![m] = {}]
      BY <1>1, <2>6, OthersInside
    <3>4. Outdated' = Outdated
      BY <1>1, <2>6, <3>2, StepOutdated
    <3> QED
      BY <2>1, <2>6, <3>2, <3>3, <3>4 DEF Promise!Next, Promise!Reopen
  <2> QED
    BY <1>1, <2>2, <2>3, <2>4, <2>5, <2>6, StepEffect
<1>2. ASSUME NEW m \in Modems, Reenumerate(m)
      PROVE  Promise!Next \/ UNCHANGED <<Inside, gate, Outdated>>
  <2>1. \A c \in Calls : Running(c)' <=> Running(c)
    BY <1>2 DEF Reenumerate, Running, Serialized, IsMutation
  <2>2. Inside' = Inside /\ gate' = gate
    BY <1>2, <2>1 DEF Inside, Reenumerate
  <2>3. \A n \in Modems : n # m => generation'[n] = generation[n]
    BY <1>2 DEF Reenumerate, GateInv, TypeOK
  <2>4. \A n \in Modems : n # m => (n \in Outdated' <=> n \in Outdated)
    BY <1>2, <2>1, <2>3 DEF Outdated, Reenumerate
  <2>5. CASE Inside[m] = {}
    <3>1. \A c \in Calls : Running(c) => ModemOf[c] # m
      BY <2>5 DEF Inside
    <3>2. m \notin Outdated /\ m \notin Outdated'
      BY <2>1, <3>1 DEF Outdated
    <3>3. Outdated' = Outdated
      BY <2>4, <3>2 DEF Outdated
    <3> QED
      BY <2>2, <3>3
  <2>6. CASE Inside[m] # {}
    <3>1. PICK c \in Calls : Running(c) /\ ModemOf[c] = m
      BY <2>6 DEF Inside
    <3>2. /\ generation[m] \in 0..MaxGeneration
          /\ generation'[m] = generation[m] + 1
          /\ fence[c] \in 0..MaxGeneration /\ fence' = fence
      BY <1>2, CallsAssumption DEF Reenumerate, GateInv, TypeOK
    <3>3. m \in Outdated'
      BY <2>1, <3>1, <3>2, BoundsAssumption DEF Outdated, GateInv, FenceBehind
    <3>4. Outdated' = Outdated \union {m}
      BY <2>4, <3>3 DEF Outdated
    <3> QED
      BY <2>2, <2>6, <3>4 DEF Promise!Next, Promise!Reenumerate
  <2> QED
    BY <2>5, <2>6
<1>3. ASSUME Crash PROVE Promise!Next
  <2>1. \A c \in Calls : ~Running(c)'
    BY <1>3 DEF Crash, Running, Waiting, GateInv, TypeOK
  <2>2. Inside' = [m \in Modems |-> {}] /\ Outdated' = {}
    BY <2>1 DEF Inside, Outdated
  <2> QED
    BY <1>3, <2>2 DEF Crash, Promise!Next, Promise!Restart
<1>4. CASE UNCHANGED vars
  BY <1>4 DEF vars, Inside, Outdated, Running, Serialized, IsMutation
<1> QED
  BY <1>1, <1>2, <1>3, <1>4 DEF Next, CallStep

\* Every behaviour of the engine is a behaviour of its abstract promise.
THEOREM EngineImplementsGate == Spec => ImplementsMutationGate
BY InitRefines, StepRefines, GateInvHolds, PTL
DEF Spec, ImplementsMutationGate, Promise!Spec
=============================================================================
