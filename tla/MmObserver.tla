----------------------------- MODULE MmObserver -----------------------------
(***************************************************************************)
(* The epoch-scoped ModemManager observer of backend/observer.ts with its  *)
(* row store and the Signal.Setup manager it drives, over the transport of *)
(* DbusTransport.  The bus daemon and ModemManager are the environment:    *)
(* instances of ModemManager come and go under unique names, modems come   *)
(* and go, calls are answered in order, signals go to matched rules only.  *)
(***************************************************************************)
EXTENDS DbusTransport, Sequences

CONSTANTS
  Modems,
  MaxOwners,    \* bound on the names one bus daemon gives to ModemManager
  MaxChanges    \* bound on modems added or removed

VARIABLES
  owner, names,      \* the instance owning the name (0: none); names given so far
  tree, seen,        \* its modems, now and ever: a path is never used again
  configured,        \* its modems that report their signal
  changes,
  asked, wire,       \* calls under way to the daemon; messages on their way back
  landed,            \* replies dispatched whose continuation has not yet run
  phase,             \* how far start() is, or "stopped"
  priming, duringPrime,         \* #priming, #refreshDuringPrime
  current,                      \* #currentOwner (0: undefined)
  refreshing, queued,           \* #refreshing, #refreshQueued
  rows, healthy,                \* ObservationRowStore
  excused,                      \* history: a call timed out since the last refresh
  applied, cadence,             \* SignalSetupManager.#applied, #cadence
  overtaken,    \* history: the last change of owner came between GetNameOwner's
                \* answer and what awaits it
  former        \* history: what was applied under the names of a daemon before

world == <<owner, names, tree, seen, configured, changes>>
prime == <<priming, duringPrime>>
store == <<rows, healthy, excused>>
signal == <<applied, cadence>>
past == <<overtaken, former>>
vars == <<transportVars, world, asked, wire, landed, phase, prime, current,
          refreshing, queued, store, signal, past>>

ASSUME ObserverAssumption ==
  /\ Rules = {"objects", "owner"}
  /\ MaxOwners \in Nat /\ MaxChanges \in Nat

TypeOK ==
  /\ TransportTypeOK
  /\ owner \in 0..MaxOwners /\ names \in 0..MaxOwners
  /\ tree \subseteq seen /\ seen \subseteq Modems /\ configured \subseteq tree
  /\ changes \in 0..MaxChanges
  /\ phase \in {"new", "connecting", "subscribing", "adopting", "started",
                "failed", "stopped"}
  /\ priming \in BOOLEAN /\ duringPrime \in BOOLEAN
  /\ refreshing \in BOOLEAN /\ queued \in BOOLEAN /\ healthy \in BOOLEAN
  /\ current \in 0..MaxOwners
  /\ rows \in [Modems -> {"absent", "live", "stale"}]
  /\ applied \subseteq (1..MaxOwners) \X Modems
  /\ cadence \in [Modems -> {"unknown", "active", "unsupported"}]
  /\ overtaken \in BOOLEAN /\ former \subseteq applied

Init ==
  /\ TransportInit
  /\ owner = 0 /\ names = 0 /\ changes = 0
  /\ tree = {} /\ seen = {} /\ configured = {}
  /\ asked = <<>> /\ wire = <<>> /\ landed = <<>>
  /\ phase = "new" /\ priming = FALSE /\ duringPrime = FALSE
  /\ current = 0 /\ refreshing = FALSE /\ queued = FALSE
  /\ rows = [m \in Modems |-> "absent"] /\ healthy = FALSE /\ excused = FALSE
  /\ applied = {} /\ cadence = [m \in Modems |-> "unknown"]
  /\ overtaken = FALSE /\ former = {}

Stopped == phase = "stopped"
Listening == phase \in {"subscribing", "adopting", "started", "failed"}

---------------------------------------------------------------------------
(* The row store. *)

(* reconcile and markHealthy: the only removal path. *)
Reconciled(t) == [m \in Modems |-> IF m \in t THEN "live" ELSE "absent"]

(* Mutant: the rows of a lost source are dropped. *)
MarkUnavailableDropping ==
  /\ rows' = [m \in Modems |-> "absent"]
  /\ healthy' = FALSE
  /\ UNCHANGED excused

(* markUnavailable: rows are retained, stale. *)
MarkUnavailable ==
  /\ rows' = [m \in Modems |-> IF rows[m] = "live" THEN "stale" ELSE rows[m]]
  /\ healthy' = FALSE
  /\ UNCHANGED excused

---------------------------------------------------------------------------
(* Calls of the client. *)

QueryOwner(by) == [call |-> "owner", by |-> by]
ReadTree(epoch, by) == [call |-> "tree", epoch |-> epoch, by |-> by]
Setup(m) == [call |-> "setup", modem |-> m]

(* applyForEpoch: once per epoch and modem, whatever becomes of the call. *)
SetupsFor(epoch, t) == {m \in t : <<epoch, m>> \notin applied}
AnyOrder(S) == CHOOSE q \in [1..Cardinality(S) -> S] :
                 \A i, j \in 1..Cardinality(S) : q[i] = q[j] => i = j

(* Mutant: a refresh asked for during another one is forgotten. *)
ScheduleRefreshUnqueued(e) ==
  IF refreshing
  THEN UNCHANGED <<refreshing, queued, asked>>
  ELSE /\ UNCHANGED queued
       /\ refreshing' = Connected
       /\ asked' = IF Connected THEN Append(asked, ReadTree(e, "schedule"))
                   ELSE asked

(* scheduleRefresh for the owner e just adopted or confirmed.  Without a   *)
(* bus the call is refused at once and the rows become unavailable.        *)
ScheduleRefresh(e) ==
  IF refreshing
  THEN queued' = TRUE /\ UNCHANGED <<refreshing, asked>>
  ELSE /\ UNCHANGED queued
       /\ refreshing' = Connected
       /\ asked' = IF Connected THEN Append(asked, ReadTree(e, "schedule"))
                   ELSE asked

---------------------------------------------------------------------------
(* Messages from the bus. *)

(* Messages that were read together are dispatched in one tick, before     *)
(* anything that awaits one of them goes on: see landed.                   *)
Deliverable(kind) == wire # <<>> /\ Head(wire).kind = kind

Adopting == \E i \in 1..Len(landed) : landed[i].call = "owner"

(* onNameOwnerChanged. *)
OnNameOwnerChanged ==
  /\ Deliverable("owner-changed")
  /\ wire' = Tail(wire)
  /\ LET name == Head(wire).name IN
     \/ /\ ~Listening \/ "owner" \notin refs \/ (name = current /\ name # 0)
        /\ overtaken' = (overtaken \/ Adopting)
        /\ UNCHANGED <<current, refreshing, queued, asked, store>>
     \/ /\ Listening /\ "owner" \in refs /\ name = 0
        /\ current' = 0
        /\ MarkUnavailable
        /\ overtaken' = Adopting
        /\ UNCHANGED <<refreshing, queued, asked>>
     \/ /\ Listening /\ "owner" \in refs /\ name \notin {0, current}
        /\ MarkUnavailable
        /\ current' = name
        /\ ScheduleRefresh(name)
        /\ overtaken' = Adopting
  /\ UNCHANGED <<transportVars, world, landed, phase, prime, signal, former>>

(* onObjectSignal: only the current owner's signals count. *)
OnObjectSignal ==
  /\ Deliverable("object-changed")
  /\ wire' = Tail(wire)
  /\ LET mine == Listening /\ "objects" \in refs
                   /\ current # 0 /\ Head(wire).from = current IN
     \/ /\ ~mine
        /\ UNCHANGED <<duringPrime, refreshing, queued, asked, store>>
     \/ /\ mine /\ priming
        /\ duringPrime' = TRUE
        /\ UNCHANGED <<refreshing, queued, asked, store>>
     \/ /\ mine /\ ~priming
        /\ ScheduleRefresh(current)
        /\ IF Connected \/ refreshing THEN UNCHANGED store ELSE MarkUnavailable
        /\ UNCHANGED duringPrime
  /\ UNCHANGED <<transportVars, world, landed, phase, priming, current, signal, past>>

(* A reply settles its call; the awaiting function continues in a later    *)
(* microtask.                                                              *)
OnReply ==
  /\ Deliverable("reply")
  /\ wire' = Tail(wire)
  /\ landed' = Append(landed, Head(wire).answer)
  /\ UNCHANGED <<transportVars, world, asked, phase, prime, current,
                 refreshing, queued, store, signal, past>>

---------------------------------------------------------------------------
(* Continuations. *)

(* start() goes on after its adoption: signals deferred while priming are  *)
(* made up for by one refresh.  busy: a refresh has just been launched.    *)
PrimeEnds(by) == by = "start"
MakesUp(by) == PrimeEnds(by) /\ duringPrime /\ ~Stopped

FinishPrime(by) ==
  /\ priming' = (priming /\ ~PrimeEnds(by))
  /\ duringPrime' = (duringPrime /\ ~PrimeEnds(by))
  /\ phase' = IF PrimeEnds(by) /\ phase = "adopting" THEN "started" ELSE phase

(* adoptCurrentOwner after GetNameOwner: the answer replaces whatever      *)
(* #currentOwner has become since, and a refresh starts unconditionally.   *)
AdoptOwner ==
  /\ landed # <<>> /\ Head(landed).call = "owner"
  /\ landed' = Tail(landed)
  /\ LET r == Head(landed) IN
     \/ /\ r.name = 0
        /\ current' = 0
        /\ MarkUnavailable
        /\ FinishPrime(r.by)
        /\ UNCHANGED <<refreshing, asked>>
     \/ /\ r.name # 0
        /\ current' = r.name
        /\ refreshing' = TRUE
        /\ asked' = Append(asked, ReadTree(r.name, r.by))
        /\ UNCHANGED <<prime, phase, store>>
  /\ UNCHANGED <<transportVars, world, wire, queued, signal, past>>

(* runRefresh after GetManagedObjects: a superseded epoch is discarded; a  *)
(* current one is reconciled and handed to Signal.Setup; finally the       *)
(* queued refresh, and for start the one owed from priming.                *)
RefreshLands ==
  /\ landed # <<>> /\ Head(landed).call = "tree"
  /\ landed' = Tail(landed)
  /\ LET r == Head(landed)
         counts == r.epoch = current /\ ~Stopped
         setups == IF counts /\ r.ok THEN SetupsFor(r.epoch, r.tree) ELSE {}
         again == queued /\ ~Stopped
         launch == current # 0 /\ (again \/ MakesUp(r.by))
     IN
     /\ \/ /\ counts /\ r.ok
           /\ rows' = Reconciled(r.tree) /\ healthy' = TRUE /\ excused' = FALSE
        \/ counts /\ ~r.ok /\ MarkUnavailable
        \/ ~counts /\ UNCHANGED store
     /\ applied' = applied \cup {<<r.epoch, m>> : m \in setups}
     /\ refreshing' = launch
     /\ queued' = \/ queued /\ Stopped
                  \/ current # 0 /\ again /\ MakesUp(r.by)
     /\ asked' = asked \o [i \in 1..Cardinality(setups) |->
                              Setup(AnyOrder(setups)[i])]
                       \o (IF launch THEN <<ReadTree(current, "schedule")>>
                                     ELSE <<>>)
     /\ FinishPrime(r.by)
  /\ UNCHANGED <<transportVars, world, wire, current, cadence, past>>

(* #setupOne after its call: an error is a soft gap. *)
SetupLands ==
  /\ landed # <<>> /\ Head(landed).call = "setup"
  /\ landed' = Tail(landed)
  /\ cadence' = [cadence EXCEPT ![Head(landed).modem] =
                   IF Head(landed).ok THEN "active" ELSE "unsupported"]
  /\ UNCHANGED <<transportVars, world, asked, wire, phase, prime, current,
                 refreshing, queued, store, applied, past>>

---------------------------------------------------------------------------
(* start, stop and the transport's events. *)

Start ==
  /\ phase = "new"
  /\ phase' = "connecting" /\ priming' = TRUE
  /\ Connect
  /\ UNCHANGED <<world, asked, wire, landed, duringPrime, current, refreshing,
                 queued, store, signal, past>>

(* What publishing a bus means to the observer: connect() returned to      *)
(* start, or 'reconnected' adopts the owner afresh.                        *)
Published ==
  /\ phase' = IF effort # "connect" THEN phase
              ELSE IF state' = "connected" THEN "subscribing" ELSE "failed"
  /\ asked' = IF state' = "connected" /\ effort = "loop" /\ Listening
              THEN Append(asked, QueryOwner("reconnect")) ELSE asked
  /\ UNCHANGED <<world, wire, landed, prime, current, refreshing, queued,
                 store, signal, past>>

Handshake == Shaken /\ Published

HandshakeFails == ShakeFails /\ Published

Reissues ==
  /\ \E r \in Rules : Reissue(r)
  /\ Published

ReissueStops ==
  /\ ReissueEnds \/ ReissueFails
  /\ Published

Retry ==
  /\ WakeUp
  /\ UNCHANGED <<world, asked, wire, landed, phase, prime, current,
                 refreshing, queued, store, signal, past>>

(* subscribeAll: one rule after the other. *)
SubscribeNext ==
  /\ phase = "subscribing" /\ adding = {}
  /\ \E r \in Rules \ refs :
       /\ r = "owner" => "objects" \in refs
       /\ Subscribe(r)
  /\ UNCHANGED <<world, asked, wire, landed, phase, prime, current,
                 refreshing, queued, store, signal, past>>

MatchAdded ==
  /\ \E r \in Rules : Added(r)
  /\ UNCHANGED <<world, asked, wire, landed, phase, prime, current,
                 refreshing, queued, store, signal, past>>

(* start() adopts the owner; without a bus the query fails at once. *)
AdoptFirst ==
  /\ phase = "subscribing" /\ refs = Rules /\ adding = {}
  /\ IF Connected
     THEN /\ phase' = "adopting"
          /\ asked' = Append(asked, QueryOwner("start"))
          /\ UNCHANGED <<prime, current, store>>
     ELSE /\ phase' = "started"
          /\ priming' = FALSE /\ duringPrime' = FALSE /\ current' = 0
          /\ MarkUnavailable
          /\ UNCHANGED asked
  /\ UNCHANGED <<transportVars, world, wire, landed, refreshing, queued, signal,
                 past>>

NoInstance == owner' = 0 /\ tree' = {} /\ seen' = {} /\ configured' = {}

SetupsUnderWay ==
  {m \in Modems :
     \/ \E i \in 1..Len(asked) : asked[i] = Setup(m)
     \/ \E i \in 1..Len(wire) : /\ wire[i].kind = "reply"
                                /\ wire[i].answer.call = "setup"
                                /\ wire[i].answer.modem = m}

(* The bus goes away, with it every message under way.  handleDrop rejects *)
(* the calls and 'disconnected' makes the source unavailable; start ends   *)
(* empty-handed if it was adopting and never returns normally if it waited *)
(* for a match rule.  A restarted daemon has lost ModemManager as well, and *)
(* numbers its clients afresh: a name may be given out again.              *)
LoseBus(restart) ==
  /\ landed = <<>>
  /\ Drop
  /\ wire' = <<>> /\ asked' = <<>>
  /\ IF restart
     THEN /\ NoInstance
          /\ names' \in {0, names}
          /\ former' = applied
     ELSE UNCHANGED <<owner, tree, seen, configured, names, former>>
  /\ overtaken' = FALSE
  /\ IF Connected /\ Listening
     THEN /\ current' = 0 /\ MarkUnavailable
          /\ phase' = IF phase = "adopting" THEN "started"
                      ELSE IF adding # {} THEN "failed" ELSE phase
          /\ priming' = (priming /\ phase # "adopting")
          /\ duringPrime' = (duringPrime /\ phase # "adopting")
     ELSE UNCHANGED <<current, store, phase, prime>>
  /\ refreshing' = (refreshing /\ ~Connected)
  /\ queued' = (queued /\ (~Connected \/ Stopped))
  /\ cadence' = [m \in Modems |-> IF m \in SetupsUnderWay THEN "unsupported"
                                  ELSE cadence[m]]
  /\ UNCHANGED <<landed, applied, changes>>

Stop ==
  /\ phase \in {"started", "failed"}
  /\ phase' = "stopped"
  /\ UnsubscribeAll
  /\ UNCHANGED <<world, asked, wire, landed, prime, current, refreshing,
                 queued, store, signal, past>>

(* The owner of the transport closes it. *)
CloseTransport ==
  /\ phase \in {"stopped", "failed"} /\ landed = <<>>
  /\ Disconnect
  /\ asked' = <<>> /\ wire' = <<>> /\ refreshing' = FALSE
  /\ UNCHANGED <<world, landed, phase, prime, current, queued, store, signal, past>>

---------------------------------------------------------------------------
(* The bus daemon and ModemManager. *)

Send(rule, msg) ==
  wire' = IF rule \in matched /\ socket = "open" THEN Append(wire, msg) ELSE wire

OwnerChanged(name) == [kind |-> "owner-changed", name |-> name]

MmStarts ==
  /\ owner = 0 /\ names < MaxOwners
  /\ names' = names + 1 /\ owner' = names + 1
  /\ Send("owner", OwnerChanged(names + 1))
  /\ UNCHANGED <<transportVars, tree, seen, configured, changes, asked, landed,
                 phase, prime, current, refreshing, queued, store, signal, past>>

MmDies ==
  /\ owner # 0
  /\ NoInstance
  /\ Send("owner", OwnerChanged(0))
  /\ UNCHANGED <<transportVars, names, changes, asked, landed, phase, prime,
                 current, refreshing, queued, store, signal, past>>

ModemChanges(m) ==
  /\ owner # 0 /\ changes < MaxChanges
  /\ changes' = changes + 1
  /\ m \in tree \/ m \notin seen
  /\ tree' = IF m \in tree THEN tree \ {m} ELSE tree \cup {m}
  /\ seen' = seen \cup {m}
  /\ configured' = configured \ {m}
  /\ Send("objects", [kind |-> "object-changed", from |-> owner])
  /\ UNCHANGED <<transportVars, owner, names, asked, landed, phase, prime,
                 current, refreshing, queued, store, signal, past>>

Reply(answer) == wire' = Append(wire, [kind |-> "reply", answer |-> answer])

(* Calls are answered in order; one to a name nobody owns errs. *)
Answer ==
  /\ asked # <<>>
  /\ asked' = Tail(asked)
  /\ LET c == Head(asked) IN
     \/ /\ c.call = "owner"
        /\ Reply([call |-> "owner", by |-> c.by, name |-> owner])
        /\ UNCHANGED configured
     \/ /\ c.call = "tree"
        /\ Reply([call |-> "tree", by |-> c.by, epoch |-> c.epoch,
                  from |-> owner, ok |-> owner # 0, tree |-> tree])
        /\ UNCHANGED configured
     \/ /\ c.call = "setup"
        /\ configured' = configured \cup ({c.modem} \cap tree)
        /\ Reply([call |-> "setup", modem |-> c.modem, ok |-> c.modem \in tree])
  /\ UNCHANGED <<transportVars, owner, names, tree, seen, changes, landed, phase,
                 prime, current, refreshing, queued, store, signal, past>>

(* A call's timer fires; its answer would be ignored.  Calls share one     *)
(* bound, so the oldest one under way expires first.                       *)
CallTimesOut ==
  /\ landed = <<>> /\ asked # <<>> /\ Head(asked).call # "setup"
  /\ \A i \in 1..Len(wire) : wire[i].kind # "reply"
  /\ faults < MaxFaults
  /\ faults' = faults + 1
  /\ excused' = TRUE
  /\ LET c == Head(asked) IN
     landed' = Append(landed,
       IF c.call = "owner"
       THEN [call |-> "owner", by |-> c.by, name |-> 0]
       ELSE [call |-> "tree", by |-> c.by, epoch |-> c.epoch, from |-> 0,
             ok |-> FALSE, tree |-> {}])
  /\ asked' = Tail(asked)
  /\ UNCHANGED <<state, closing, socket, effort, done, refs, adding, matched,
                 world, wire, phase, prime, current, refreshing, queued,
                 rows, healthy, signal, past>>

---------------------------------------------------------------------------
Client ==
  \/ OnNameOwnerChanged \/ OnObjectSignal \/ OnReply
  \/ AdoptOwner \/ RefreshLands \/ SetupLands
  \/ Start \/ SubscribeNext \/ AdoptFirst
  \/ Handshake \/ Reissues \/ ReissueStops \/ Retry \/ MatchAdded
  \/ Answer

Environment ==
  \/ \E restart \in BOOLEAN : LoseBus(restart)
  \/ HandshakeFails \/ CallTimesOut
  \/ MmStarts \/ MmDies
  \/ \E m \in Modems : ModemChanges(m)

Next == Client \/ Environment \/ Stop \/ CloseTransport

(* The event loop and a daemon that is up make progress; faults, changes   *)
(* of ModemManager and shutting down need not happen.                      *)
Spec == Init /\ [][Next]_vars /\ WF_vars(Client)

---------------------------------------------------------------------------
(* Safety. *)

(* Nothing is under way between the observer and the bus. *)
Quiet ==
  /\ phase = "started" /\ Connected
  /\ wire = <<>> /\ asked = <<>> /\ landed = <<>>

(* A quiet observer that says its source is healthy shows exactly the      *)
(* modems ModemManager has now; one that does not shows no row as live,    *)
(* and has a reason: nobody owns the name, or a call timed out.  No        *)
(* signal, owner change or answer is lost between overlapping refreshes,   *)
(* adoptions and reconnects (observer.ts).  A modem shown live with an     *)
(* active cadence does report its signal: the instance of ModemManager     *)
(* that exports it now was asked to (signal-setup.ts: survivors are        *)
(* re-applied after every owner change).                                   *)
(*                                                                         *)
(* Two excuses, each for what the code does get wrong: the last change of  *)
(* owner overtook an answer to GetNameOwner, which then puts back an owner *)
(* that is gone (see RemovalIsEpochScoped); and a restarted daemon gave a  *)
(* new instance a name an earlier one had, for which this modem is down as *)
(* set up already (signal-setup.ts:74-114 never forgets an epoch).         *)
HealthyMeansCurrent ==
  Quiet /\ ~overtaken =>
           IF healthy
           THEN /\ owner # 0 /\ current = owner
                /\ \A m \in Modems : rows[m] = IF m \in tree THEN "live" ELSE "absent"
                /\ \A m \in tree :
                      cadence[m] = "active" /\ <<owner, m>> \notin former => m \in configured
           ELSE /\ owner = 0 \/ excused
                /\ \A m \in Modems : rows[m] # "live"

(* What observer.ts says of removals: once started, a row of the observer  *)
(* disappears only in a step that applies a tree served by the very        *)
(* instance the observer follows at that moment (observer.ts:9-15: the     *)
(* false-removal class is dead by construction).  It is not: changes of    *)
(* owner that are read together with the answer to GetNameOwner are        *)
(* dispatched before adoptCurrentOwner goes on, which then follows an      *)
(* owner that is gone and takes its successor's tree for that owner's.     *)
RemovalIsEpochScoped ==
  [][\A m \in Modems :
       rows[m] # "absent" /\ rows'[m] = "absent" /\ phase = "started" =>
         /\ landed # <<>> /\ Head(landed).call = "tree" /\ Head(landed).ok
         /\ Head(landed).from = current
         /\ m \notin Head(landed).tree]_vars

(* What holds of removals: the same, but while the last change of owner is *)
(* one that overtook an answer to GetNameOwner in that way.  However many  *)
(* messages are dispatched together, no other overlap of refreshes, owner  *)
(* changes, reconnects and timeouts removes a row by another one's tree.   *)
RemovedOnlyByOwnEpoch ==
  [][\A m \in Modems :
       rows[m] # "absent" /\ rows'[m] = "absent" /\ phase = "started" /\ ~overtaken =>
         /\ landed # <<>> /\ Head(landed).call = "tree" /\ Head(landed).ok
         /\ Head(landed).from = current
         /\ m \notin Head(landed).tree]_vars

(* While a bus is published every rule whose subscription has returned is  *)
(* held by the daemon, across any number of reconnects (signals.ts).       *)
SubscriptionsSurvive == Connected => refs \ adding \subseteq matched

Settled ==
  \/ Quiet
  \/ phase \in {"failed", "stopped"} /\ ~(closing /\ effort \in {"loop", "backoff"})

(* Unless it is shut down, a started observer comes back to rest after     *)
(* every fault and change: the reconnect loop gets through and every       *)
(* refresh owed is made.  A closed transport is left by its reconnect      *)
(* loop, so disconnect, which awaits it, returns (transport.ts).           *)
ObserverSettles == []<>Settled
=============================================================================
