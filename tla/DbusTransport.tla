--------------------------- MODULE DbusTransport ---------------------------
(***************************************************************************)
(* The connection lifecycle of control/src/transport/transport.ts and the  *)
(* match rules of signals.ts: connect, the reconnect loop that re-issues   *)
(* every live match rule before it publishes the fresh bus, and teardown.  *)
(* One caller connects (the observer's start); calls and signals are the   *)
(* business of the module that extends this one.                           *)
(***************************************************************************)
EXTENDS Naturals, FiniteSets

CONSTANTS
  Rules,             \* match rules its users subscribe to, one subscriber each
  MaxFaults,         \* bound on lost connections and failed attempts
  AddMatchSettles    \* library: a pending AddMatch settles when the bus dies

VARIABLES
  state,     \* #state
  closing,   \* #closing
  socket,    \* the one raw connection: "none", "shaking", "open" or "dead"
  effort,    \* what #establish works for: "none", "connect", "loop", or "backoff"
  done,      \* rules the running reissueRules has re-issued
  refs,      \* #matchRuleRefcount's keys
  adding,    \* rules whose first AddMatch is on its way
  matched,   \* rules the daemon holds for the open connection
  faults     \* faults so far

transportVars ==
  <<state, closing, socket, effort, done, refs, adding, matched, faults>>

ASSUME TransportAssumption ==
  /\ MaxFaults \in Nat
  /\ AddMatchSettles \in BOOLEAN

TransportTypeOK ==
  /\ state \in {"idle", "connecting", "connected", "reconnecting", "closed"}
  /\ closing \in BOOLEAN
  /\ socket \in {"none", "shaking", "open", "dead"}
  /\ effort \in {"none", "connect", "loop", "backoff"}
  /\ done \subseteq Rules /\ refs \subseteq Rules
  /\ adding \subseteq Rules /\ matched \subseteq Rules
  /\ faults \in 0..MaxFaults

TransportInit ==
  /\ state = "idle" /\ closing = FALSE
  /\ socket = "none" /\ effort = "none"
  /\ done = {} /\ refs = {} /\ adding = {} /\ matched = {}
  /\ faults = 0

Connected == state = "connected"

(* createBus and the handshake promise of one #establish. *)
StartEstablish(who) ==
  /\ socket' = "shaking" /\ effort' = who
  /\ done' = {} /\ matched' = {} /\ adding' = {}

(* connect(): refused once closed. *)
Connect ==
  /\ state = "idle"
  /\ ~closing
  /\ state' = "connecting"
  /\ StartEstablish("connect")
  /\ UNCHANGED <<closing, refs, faults>>

(* Mutant: the loop gives up after a failed attempt. *)
AbandonForGood ==
  /\ socket' = "none" /\ effort' = "none"
  /\ done' = {} /\ matched' = {} /\ adding' = {}
  /\ UNCHANGED state

(* The catch of #establish: the half-open connection is ended.  The loop   *)
(* sleeps (maxAttempts is 0 by default: it never gives up); a failed       *)
(* connect leaves the state as it was.                                     *)
Abandon ==
  /\ socket' = "none"
  /\ effort' = IF effort = "loop" THEN "backoff" ELSE "none"
  /\ done' = {} /\ matched' = {} /\ adding' = {}
  /\ UNCHANGED state

(* The end of #establish, in the tick of the last answer it waited for:    *)
(* publish, unless disconnect landed meanwhile.                            *)
Publish(held) ==
  IF closing
  THEN Abandon
  ELSE /\ state' = "connected" /\ effort' = "none"
       /\ socket' = "open"
       /\ matched' = held
       /\ done' = {}
       /\ UNCHANGED adding

(* Mutant: the fresh bus is published before its rules are re-issued. *)
ShakenUnissued ==
  /\ socket = "shaking"
  /\ Publish({})
  /\ UNCHANGED <<closing, refs, faults>>

(* The handshake completed: the handlers are attached and the rules follow. *)
Shaken ==
  /\ socket = "shaking"
  /\ IF refs = {}
     THEN Publish({})
     ELSE socket' = "open" /\ UNCHANGED <<state, effort, done, matched, adding>>
  /\ UNCHANGED <<closing, refs, faults>>

(* The handshake errs or its timer fires. *)
ShakeFails ==
  /\ socket = "shaking"
  /\ faults < MaxFaults
  /\ faults' = faults + 1
  /\ Abandon
  /\ UNCHANGED <<closing, refs>>

Reissuing == effort = "loop" /\ socket \in {"open", "dead"}

(* One AddMatch of reissueRules is answered; the iterator is live, so a    *)
(* rule counted meanwhile is issued as well.                               *)
Reissue(r) ==
  /\ Reissuing /\ socket = "open"
  /\ r \in refs \ done
  /\ IF refs \subseteq done \cup {r}
     THEN Publish(matched \cup {r})
     ELSE /\ done' = done \cup {r}
          /\ matched' = matched \cup {r}
          /\ UNCHANGED <<state, socket, effort, adding>>
  /\ UNCHANGED <<closing, refs, faults>>

(* The answer for a rule whose subscriber left meanwhile was the last one. *)
ReissueEnds ==
  /\ Reissuing /\ socket = "open"
  /\ refs \subseteq done
  /\ Publish(matched)
  /\ UNCHANGED <<closing, refs, faults>>

(* The awaited AddMatch of a connection that died: reissueRules rejects if *)
(* the library settles it; the code itself puts no bound on the wait.      *)
ReissueFails ==
  /\ Reissuing /\ socket = "dead"
  /\ AddMatchSettles
  /\ Abandon
  /\ UNCHANGED <<closing, refs, faults>>

(* The backoff timer fires: the loop looks at #closing and tries again. *)
WakeUp ==
  /\ effort = "backoff"
  /\ IF closing
     THEN effort' = "none" /\ UNCHANGED <<socket, done, matched, adding>>
     ELSE StartEstablish("loop")
  /\ UNCHANGED <<state, closing, refs, faults>>

(* #handleDrop of the published bus: calls are rejected and the one loop   *)
(* starts its first attempt at once.  A drop while the loop is             *)
(* establishing is ignored: the attempt itself must notice.                *)
Drop ==
  /\ socket = "open"
  /\ faults < MaxFaults
  /\ faults' = faults + 1
  /\ IF Connected
     THEN state' = "reconnecting" /\ StartEstablish("loop")
     ELSE /\ socket' = "dead"
          /\ matched' = {} /\ adding' = {}
          /\ UNCHANGED <<state, effort, done>>
  /\ UNCHANGED <<closing, refs>>

(* subscribeSignal, first subscriber of a rule: counted at once, added on  *)
(* the wire only when a bus is published.                                  *)
Subscribe(r) ==
  /\ refs' = refs \cup {r}
  /\ adding' = IF Connected THEN adding \cup {r} ELSE adding
  /\ UNCHANGED <<state, closing, socket, effort, done, matched, faults>>

(* The daemon answers the AddMatch of a subscription. *)
Added(r) ==
  /\ r \in adding /\ socket = "open"
  /\ adding' = adding \ {r}
  /\ matched' = matched \cup {r}
  /\ UNCHANGED <<state, closing, socket, effort, done, refs, faults>>

(* unsubscribe of every rule: the rules go, on the wire too if a bus is    *)
(* published.                                                              *)
UnsubscribeAll ==
  /\ refs' = {}
  /\ matched' = IF Connected THEN {} ELSE matched
  /\ adding' = {}
  /\ UNCHANGED <<state, closing, socket, effort, done, faults>>

(* disconnect(): the published bus is closed, a sleeping loop is woken; it *)
(* returns when no loop runs.                                              *)
Disconnect ==
  /\ ~closing
  /\ closing' = TRUE /\ state' = "closed"
  /\ IF Connected
     THEN socket' = "none" /\ matched' = {} /\ adding' = {}
     ELSE UNCHANGED <<socket, matched, adding>>
  /\ effort' = IF effort = "backoff" THEN "none" ELSE effort
  /\ UNCHANGED <<done, refs, faults>>
=============================================================================
