------------------------------ MODULE SimUnlock ------------------------------
(***************************************************************************)
(* Unlocking the SIM of one modem (control/src/backend/sim-unlock.ts, run  *)
(* on the modem's actor by backend/mm-mutations/sim.ts): the lock is read, *)
(* the secret submitted once, and a failure only read back.                *)
(*                                                                         *)
(* The SIM is the environment: a wrong secret costs an attempt, the last   *)
(* wrong PIN asks for the PUK, the last wrong PUK blocks the card.  What a *)
(* call is answered is not kept, only what it costs.                       *)
(***************************************************************************)
EXTENDS ModemActor, FiniteSets

CONSTANTS SimCalls, MaxPins, MaxPuks

ASSUME SimAssumption == MaxPins \in Nat /\ MaxPuks \in Nat

VARIABLES
    lock,       \* what the SIM asks for
    left,       \* attempts left of each secret
    secret,     \* the kind of each call, and whether its secret is right
    spc,        \* where each call is
    sent        \* history: submissions the SIM received from each call

simVars == <<lock, left, secret, spc, sent>>

Kinds == {"pin", "puk"}

SimInit ==
    /\ lock = "pin"
    /\ left = [pin |-> MaxPins, puk |-> MaxPuks]
    /\ secret = [c \in SimCalls |-> [kind |-> "pin", right |-> FALSE]]
    /\ spc = [c \in SimCalls |-> "unused"]
    /\ sent = [c \in SimCalls |-> 0]

Answer(c) ==
    /\ spc' = [spc EXCEPT ![c] = "done"]
    /\ Settle(c)

Unlock(c, kind, right) ==
    /\ spc[c] = "unused"
    /\ c = CHOOSE x \in SimCalls : spc[x] = "unused"
    /\ spc' = [spc EXCEPT ![c] = "queued"]
    /\ secret' = [secret EXCEPT ![c] = [kind |-> kind, right |-> right]]
    /\ Run(c)
    /\ UNCHANGED <<lock, left, sent>>

\* A secret goes only into the lock it opens.
Submits(c) == lock = secret[c].kind

\* The lock is read before anything is submitted: the call ends where it is
\* not one the secret opens, where it cannot be read, and where the modem or
\* its SIM object is gone.
ReadLock(c) ==
    /\ AtHead(c) /\ spc[c] = "queued"
    /\ \/ Answer(c)
       \/ /\ Submits(c)
          /\ spc' = [spc EXCEPT ![c] = "submitting"]
          /\ UNCHANGED queue
    /\ UNCHANGED <<lock, left, secret, sent>>

\* The SIM looks at a secret of a kind it has attempts left for.
Tried(c) ==
    LET k == secret[c].kind IN
    /\ sent' = [sent EXCEPT ![c] = @ + 1]
    /\ IF secret[c].right
       THEN /\ lock' = "none"
            /\ left' = [left EXCEPT !.pin = MaxPins,
                                    !.puk = IF k = "puk" THEN MaxPuks ELSE @]
       ELSE /\ lock' = IF left[k] > 1 THEN lock ELSE "puk"
            /\ left' = [left EXCEPT ![k] = @ - 1]

\* Mutated: a rejected secret is submitted again.
FailedAgain(c) == spc' = [spc EXCEPT ![c] = "queued"] /\ UNCHANGED queue

\* A failure is never submitted again, only read back.
Failed(c) == spc' = [spc EXCEPT ![c] = "classifying"] /\ UNCHANGED queue

\* The submission: looked at and answered, looked at with its answer lost, or
\* never received.
Submit(c) ==
    /\ AtHead(c) /\ spc[c] = "submitting"
    /\ \/ /\ left[secret[c].kind] > 0
          /\ Tried(c)
          /\ \/ secret[c].right /\ Answer(c)
             \/ Failed(c)
       \/ Failed(c) /\ UNCHANGED <<lock, left, sent>>
    /\ UNCHANGED secret

\* The lock is read again, for the answer alone.
Classify(c) ==
    /\ AtHead(c) /\ spc[c] = "classifying"
    /\ Answer(c)
    /\ UNCHANGED <<lock, left, secret, sent>>

SimStep(c) == ReadLock(c) \/ Submit(c) \/ Classify(c)

-----------------------------------------------------------------------------
(* Properties. *)

\* Attempts of the SIM are spent by calls, at most one each, and a call whose
\* secret is right spends none (sim-unlock.ts:3-7: a blind resubmit walks the
\* SIM toward an irreversible lockout).
AttemptsAreSpent ==
    /\ \A c \in SimCalls : sent[c] <= 1
    /\ \A k \in Kinds :
          [pin |-> MaxPins, puk |-> MaxPuks][k] - left[k]
             <= Cardinality({c \in SimCalls : /\ sent[c] = 1
                                              /\ secret[c] = [kind |-> k, right |-> FALSE]})

=============================================================================
