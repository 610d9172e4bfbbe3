# modem-stack in TLA+

Specifications, model-checking configurations and machine-checked proofs for the control
logic of modem-stack: the TypeScript library in `control/` and the parts of the bench CLI in
`cli/` that act on a modem. Paths below are relative to the repository root.

The library is single-threaded and asynchronous. A call runs without interruption from one
`await` to the next; everything else may happen in between. All modules follow that: an
action is the code between two awaits, a control variable (`pc`, `tpc`, `lpc`, `step`) names
the promise a call waits for, and what a port, a hook, D-Bus or the file system answers is a
nondeterministic input of the action that resumes the call. Answers include rejections and,
where the code has a timer, no answer at all.

## 1. The system

| component | state it keeps | operations | talks to |
|---|---|---|---|
| operation engine (`control/src/operations`, `domain/operation.ts`) | the reconciliation gate `#reconciliationRequired` | `invoke`, `reconcile` | actor, admission port, journal port, generation port, executors and hooks |
| per-modem actor (`backend/modem-actor.ts`) | the tail of one promise chain per stable key | `run`, `runQuiesced` | everything disruptive runs in it |
| mutation admission (`ports/mutation-admission.ts`) | leases of the embedder | `acquire`, `release` | engine |
| composition root, ownership (`safety/`) | one root per process, actor map, lease stack; a `flock` holder child | `actorFor`, `acquireOwnership`, `dispose` | embedder, other processes |
| transaction journal (`journal/`) | the file, `#terminated`, the chain `#tail` | `record`, `append`, `read`, `recover` | engine, file system |
| USB-mode transition (`backend/usb-mode-transition*`, `at-lease.ts`) | leases of one transaction | `execute` | actor, interlock, NetworkManager, ModemManager, AT port, USB bus |
| USB-mode catalog and certification (`usb-mode/`, `backend/device-classifier.ts`, `cli/src/certify/`) | the catalog, a bundle under capture | classify, capture a switch, ingest, look up | transition, USB bus |
| recovery ladder (`backend/recovery-*.ts`) | the budget per modem | `run`, `clear` | actor, interlock, power hook |
| ModemManager observer (`backend/observer*`, `row-store.ts`) | epoch, owner, rows, refresh in progress | `start`, `stop`, signal handlers | D-Bus transport |
| D-Bus transport (`transport/`) | connection, reconnect loop, pending calls, match rules | `connect`, `disconnect`, `callMethod`, `subscribe` | message bus |
| D-Bus wire codec (`transport/codec.ts`, `signature.ts`) | none | value conversion | transport |
| USSD sessions (`ussd/`) | machine per modem, idle timer | `initiate`, `respond`, `cancel`, expiry | actor, ModemManager |
| data usage (`backend/usage/`) | account per slot, dirty flag, file | `sample`, `flush`, policy writes | counters, file system |
| desired-state reconciliation (`ports/reconcile.ts`) | none between passes | `reconcile` | both providers |
| NetworkManager provider (`providers/network-manager/`, `backend/nmcli-nm-port.ts`) | quiesce leases | apply, activate, deactivate, lease, sweep | `nmcli` |
| ModemManager provider (`providers/modem-manager/`) | descriptors of one modem | `observe`, invocations | engine, D-Bus |
| router providers (`providers/huawei-hilink`, `zte-goform`, `ufi-himi`) | login sessions, spent logins, the router lease | evidence, `observe`, reads, writes | HTTP |
| provider matching (`providers/matcher.ts`, `registry.ts`) | registry, cache by signature and generation | `match` | providers |
| physical identity (`domain/*identity*`, `backend/identity-*`) | registry of known modems | resolve, learn | observer |
| SIM unlock (`backend/sim-unlock.ts`) | remembered failures | unlock by PIN or PUK | ModemManager |
| SMS (`sms/`) | inbox rows | `list`, `observe`, resync | ModemManager |
| location (`location/`, `backend/mm-location.ts`) | display state and its age | `enable`, `disable`, `readFix` | actor, ModemManager |
| observations (`observations/`) | none; consumers keep envelopes | normalise an answer, age it | all providers |
| radio, band and capability truth (`radio/`, `band/`, `capability/`) | none | what is offered, encoded, named | ModemManager provider |
| FCC policy (`fcc/`), redaction (`redact.ts`) | a policy file; none | reads, writes; masking | file system |
| command line tools (`cli/`) | hardware-in-the-loop cycle, uhubctl power hook | commands | all of the above |
| packaging and CI | none at run time | build scripts | |

What makes it hard is how few of these may assume anything of the others: a write whose
reply is lost may have happened; the modem changes its identity and its lifetime under a
call; two callers disrupt the same modem; a stream may start at any time; the process may
die with a line half-written; and every one of a dozen steps of a transaction can fail after
the steps before it took something that has to be given back.

## 2. The modules

| module | models | main state |
|---|---|---|
| `MutationGate` | abstract: what the engine promises per modem (at most one inside, none admitted while closed, opened only by a reconciliation) | `inside closed outdated` |
| `OperationEngine` | `invoke` and `reconcile`, with actor, admission, journal calls, retry, readback, rollback, process death; implements `MutationGate` | `generation gate queue pc desc fence attempt result leases journal` |
| `JournalStore` | the journal file to the byte where it matters: leading terminator, torn entry, terminator, probe, failed writes, process death | `lines terminated chain step` |
| `JournalRecovery` | `recover` over what the store reads back | |
| `ModemActor` | what disruptive operations share: one promise chain and the embedder's streaming interlock | `queue streaming holds` |
| `UsbModeTransition` | `execute` from its two admission checks to the last `finally`, the AT watchdog, the quiesce and inhibit leases, the bus | `tpc plan lease inhibited quiesces linked present mode ...` |
| `RecoveryLadder` | `run` and `clear`, the attempt budget, the uhubctl hook as the last rung | `lpc rung budget powerQueue` |
| `DisruptiveOperations` | composes transition and ladder on one `ModemActor` | all of the above |
| `DbusTransport` | the connection, the reconnect loop, match rules and their reference counts | `state closing socket effort refs adding matched` |
| `MmObserver` | over `DbusTransport`: `start` and `stop`, owner epochs, refreshes, signals, rows, the signal setup, the bus daemon and ModemManager | `owner tree wire landed current refreshing queued rows` |
| `UssdSession` | the session reducer, verbs, the idle timer, the network's side of a dialogue | `session timer network upc` |
| `SimUnlock` | unlock by PIN or PUK against a SIM that counts | `lock left secret spc` |
| `GnssLocation` | the GNSS switch, reads of a fix, the display state with its two bounds | `receiver gpc display age` |
| `ModemServices` | composes these three on one `ModemActor` | all of the above |
| `SmsInbox` | list and signals, the resync, rows and the cap of a pass, over a bus that drops and a storage that changes meanwhile | `stored rows wiring hears opening pass` |
| `BillingCycle`, `UsageSampler` | the accounting reducer, passes and saves that overlap, the kernel's counter, process death | `kernel account rate round draft disk` |
| `UsagePolicy` | over `UsageSampler`: policy writes that overlap and the file behind them | `file temporary ppc live` |
| `NmBearer` | desired, applied and observed bearers over `nmcli`, against a NetworkManager others use too | `saved active device slots call readout` |
| `ProviderMatching` | candidates, evidence of three router providers, ranking, the cache, logins and re-enumeration | `router generation signals cache spent held proven` |
| `HilinkOperations` | reads, observations and writes of a HiLink router over one session lease | `line lease place uses cached honoured` |
| `Reconcile` | the desired-state planner and the application of its plan, by the bench and by a host | `policy held link modem ops receipts` |
| `ModemIdentity` | the identity ladder, the registry of rows, what a policy may be bound to, across plugs and swaps | `imei reports live rows` |
| `UsbCertification` | classification, the capture of a switch, ingestion, the catalog it ends in | `usb capture bundle review catalog` |
| `Observations` | what each source makes of an answer, field by field, and how it ages | `source kept now device bus` |
| `MmRadio` | writes of modes, bands, 5G posture and composition with their readback | `rf entry writes` |
| `ServicesProofs` | theorems about `SimUnlock` in `ModemServices`, `SmsInbox`, `UsageSampler` and `UsagePolicy`, `NmBearer` (section 4) | |
| `ProviderMatchingProofs` | theorems about `ProviderMatching`, `UsbCertification`, `Observations`, `MmRadio`, `ModemIdentity` | |
| `JournalStoreProofs` | theorems about `JournalStore` and `JournalRecovery` | |
| other `*Proofs` | theorems about the module they are named for | |
| `MC*` | instances for TLC | |

Operators keep the names of the code where TLA+ allows (`Classify` for
`classifyOperationCompletion`, `CanAutoRetry`, `BeginAttempt`, `ScheduleRefresh`,
`MarkUnavailable`, ...). Actions are named for the answer that resumes the call:
`Inhibited(t)` is everything between the answer of `InhibitDevice` and the next await. An
operator marked *Mutated* stands for a plausible bug beside the definition it replaces;
nothing in a specification uses it.

Composition. `UsbModeTransition` and `RecoveryLadder` extend `ModemActor`, whose variables
`queue`, `streaming`, `holds` and `slipped` they share. `DisruptiveOperations` instantiates
both with the same four variables, interleaves their steps, and lets a stream slip past every
verdict that either has already taken; neither knows the other's variables, so what must hold
of the pair is what the chain and the interlock give. `ModemServices` does the same for USSD,
SIM unlock and GNSS, which the provider builds over one actor. `MmObserver` extends
`DbusTransport` and `UsagePolicy` extends `UsageSampler`: what one awaits is a step of the
other. Parts of the program that share nothing are not composed: four `MC` modules (`MCAttempts`,
`MCModemServices`, `MCDataPlane`, `MCDecisions`) hold several specifications, and a variable
`subject` that never changes says which of them a behaviour explores, so their states add up and
do not multiply.

Histories (variables or fields no guard of the code reads): `unresolved` and `owed` in the
engine; `calls` in the store; `slipped`, `spoilt` in the transition; `admitted` in the ladder;
`excused`, `overtaken` and `former` in the observer; `sent` in the SIM unlock; `unheard` and
`doubt` in the inbox; `ledger`, `tangled` and `dropped` in data usage; `logins` and `accepted` in
the matching; `witnessed` in the certification. Several of them say where the code promises
nothing, so that a promise can be stated for all other histories without looking away: `spoilt`,
that a call which gives something back failed, or that one which takes the inhibition lost its
reply; `excused`, that a read timed out since the last refresh; `overtaken`, that a change of owner
came between an answer to `GetNameOwner` and what awaits it; `former`, which set-ups were applied
under names of a daemon before; `doubt`, which messages a pass could not take in; `tangled`, that
policy calls overlapped and none has run alone since. Where one of them excuses what the code gets
wrong, section 6 says what goes wrong.

### What is abstracted

* Requests are reduced to what the code branches on: a descriptor to seven fields, a plan to
  the three ways it is carried out and proved, a journal entry to its key and phase, a router's
  answer to the kind of each field, an equipment id to a model value.
* A line of the journal is the sequence of what was written on it. Two pieces on one line, or
  a torn one, do not parse; this is the property of the encoding (one JSON object per line, no
  raw newline) that the store relies on.
* Time is a choice: a deadline may pass at any moment. Ticks are counted only where the code
  compares two times: the ladder's cooldown, the bounds of acquisition and fix, the days of a
  billing cycle, the age of an envelope.
* ModemManager, `nmcli`, the AT interpreter, the USB bus, the SIM, the network and the routers
  are external. They may refuse, lose replies after taking effect, take effect late, or do
  nothing, and other clients of theirs act between any two steps. The interlock of the embedder
  is taken at its word.
* The bus and the D-Bus library: replies come in the order of the calls. Messages that were read
  together are dispatched in one tick, before anything that awaits one of them goes on, and a
  restarted bus daemon may give its first names out again. One thing the code takes for granted is
  a constant of the model: `AddMatchSettles`, a pending `AddMatch` is settled when the connection
  dies. The runs have it; no theorem needs it.
* What a USB device shows is its interfaces and the drivers bound so far. A mode is what a unit
  reads as once all of them are (`CompositionAssumption`); before that it may read as another, as
  an ecm-ncm unit does that is known for one by `cdc_ether` only.
* The quiesce lease of `runQuiesced` is the default one, which does nothing.

## 3. What the runs show

| run | instance | properties |
|---|---|---|
| `engine_safety` | 2 invocations over 9 descriptors (every combination of hooks that the code treats differently), 1 reconciliation, 1 re-enumeration, 1 process death | `SingleFlight`, `NoRollbackAfterLostReply`, `JournalKnowsTheUncertain`, `DispatchRespectsLostWrites`, and `ImplementsMutationGate` |
| `engine_liveness` | 2 modems, one of which never answers | `EveryCallAnswered` on the other |
| `journal` | 3 appends about 2 operations, 2 process deaths, 1 fault | `CrashLosesNothing`, `DamageIsBounded`, `ReadsOnlyGrow`, `EveryAppendSettles`; of the recovery: `FoldMeetsDefinition`, `RecoveryIsTrue` |
| `journal_confined` | 4 appends, 1 fault, no death | must fail: section 6 |
| `transition` | 2 transitions, 2 modes, the two longest plans, the modem may leave the bus by itself once | `EverythingGivenBack`, `LinkIsRestored`, `SuccessIsProved` |
| `disruption` | 1 transition and 1 run on one actor, the AT port may be silent | `DisruptionsExclusive`, `StreamsAreSafe`, `EveryDisruptionEnds` |
| `bus` | 1 modem that may be added and removed, 2 faults of the connection, 2 owners of the name, 2 changes | `HealthyMeansCurrent`, `SubscriptionsSurvive`, `RemovedOnlyByOwnEpoch`, `ObserverSettles` |
| `bus_bursts` | 1 modem, 1 fault, 2 owners, 1 change | `RemovalIsEpochScoped` must fail: section 6 |
| `services` | 3 USSD calls and 2 expiries, 2 SIM calls with 2 PINs and 1 PUK, 2 toggles and 2 reads of GNSS, at most 4 events; 3 messages over a cap of 2 | `AttemptsAreSpent`, `SessionsEnd`, `RendersEnd`; `InboxConverges` |
| `dataplane` | 2 connections, 2 interfaces, 1 call and 2 readouts at a time, 3 events; 2 bytes, a month of 2 days, 2 rounds that may overlap, with 1 change beside passes and 2 beside saves; 2 policy writers, 4 changes | `ExactReadoutsSettle`; `UsageIsWitnessed`; `PolicyIsKept` |
| `attempts` | 2 matches and 1 fetch over 2 enumerations, 2 calls; 2 writes, 1 read and 1 observation of a HiLink router; 3 runs of the ladder with 2 attempts, a cooldown of 1 in 2 ticks, 2 rungs, the power hook on its own actor | `OneLoginPerGeneration`, `WritableIsProven`; `WritesEnd`; `AttemptsAreBudgeted` |
| `decisions` | 3 policies, 2 modems' abilities, 2 faults; 3 modems in 3 ports, 3 plugs; 2 devices with qmi, mbim and ecm-ncm, an empty catalog or the shipped one, 3 switches; an envelope of each source; 2 radio writes | `PlanSettles`; `RowsAreTrue`; `CertifiedIsProvable`, `ManagedStaysManaged`; `StaleTellsFirstCause`; `NeverRounded`, `ReadbackIsExact` |

What they say, where the name does not:

* `EverythingGivenBack`: an answered transition has given back the interlock and the inhibition,
  unless the call that gives it back failed or the one that took it lost its reply.
  `SuccessIsProved`: the mode asked for is on the bus, or, for a plan proved by the vendor's own
  read, is what that read reports; and no command of the call is still in the air.
* `HealthyMeansCurrent`: a healthy observer with nothing under way shows the modems of the owner
  there is, with their signal setup. `RemovedOnlyByOwnEpoch`: a row goes only with a tree of the
  instance the observer follows, never by an outage or by the answer of another one. Both but for
  the time in which the last change of owner is one that overtook an answer to `GetNameOwner`; the
  setup also but for a name that was given out again. `RemovalIsEpochScoped` is the same without
  that excuse, as the header of `observer.ts` has it. `SubscriptionsSurvive`: on a connection that
  is up the daemon holds every rule anybody subscribed to.
* `InboxConverges`: with no pass or read under way the rows are the messages stored, but for those
  that came, went or could not be read while the last pass was at work, that it cut off, or whose
  own later read failed.
* `ExactReadoutsSettle`: a readout that is still true clears the claims that are not in force and
  no other. `UsageIsWitnessed`: no byte is counted that was not seen to move, none twice but what a
  pass that was overtaken recounts, and a rate spans the interval of its bytes. `PolicyIsKept`: a
  policy call beside no other saves just what it asks, dropping no field, and leaves in force what
  a restart restores, whatever overlapping or failing calls left behind.
* `FoldMeetsDefinition`: the recovery's one pass over the records is right; `RecoveryIsTrue`: it
  neither forgets what is outstanding nor settles what is not.
* `RowsAreTrue`: after a refresh a modem with an equipment id of its own has a row that tells where
  it is now, and two modems with one id are never bound to one policy.
* `CertifiedIsProvable`: a switch that became part of the catalog was seen on a real device,
  between the modes it names so far as enumerations tell them apart, and units in the mode it leads
  to prove it again. `ManagedStaysManaged`: a device ModemManager can drive is not taken for a
  tether while its drivers bind one by one.

Why these bounds are enough. Two invocations and a reconciliation are what an interleaving on one
modem needs: one to leave an uncertain outcome, one to be stopped by it, one to open the gate; one
re-enumeration separates "this lifetime" from "another one", which is all the code compares. Three
appends are one before, one torn and one after; the second death tears the repair of the first. Two
transitions are one at work and one behind it, and let a command of the first that timed out take
effect under the second; with two modes the switch goes somewhere or stays. Three runs of the ladder
exceed a budget of two; they differ by name only and begin in turn. Two owners and two faults let a
refresh of one epoch end under the next, with an outage before and within it. Three USSD calls are one
that opens, one that answers and one that meets what the expiry left. Two readouts overlap, and three
events are a save, an apply and an interference. Two matches overlap within an enumeration and across
one. Three modems in three ports are a pair of duplicates and a bystander. Three messages are one more
than a pass reads. Two rounds of the sampler are a pass that overtakes another, a save that does, or a
flush beside either; two writers of a policy one that lands in the middle of another. Three switches
are there, back and one by hand. To keep the product small the two kinds of rounds are explored apart:
passes that overlap with no document written, saves that overlap with one pass beside them, policy
calls with no pass; all units of a SKU start in one mode, and one of them is certified. What the
bounds leave out, the theorems of section 4 cover for any number of calls, as far as they go.

Deadlock checking is off everywhere: a finite set of calls is answered and the system stops.

### Fairness

Every liveness property is under weak fairness of the steps of a call: the event loop runs
the continuation of a settled promise. Where the code waits for something it does not bound,
fairness is an assumption on that party and is named: the ports of modems in `Answering`
(engine), the operating system (journal), ports other than the AT port (transition), rungs
and probes (ladder). The AT port is never assumed to answer, only the watchdog to fire; a
device is never assumed to leave or to enter the bus, only the deadline to pass. In `bus` the
client, its timers and the daemon's answers run on; ModemManager need not come back and the
connection need not stay. In `services` the tasks, timers and time are fair; no answer is assumed
beyond the deadline of a call. In `attempts` the steps of a write are; each of its requests has a
timeout. In `decisions` only planning, applying and the link's settling are. Starting calls,
streams, process deaths, late effects, other clients, plugs and the sweep are never fair.

## 4. What is proved

The theorems hold for every value of the constants, under the named assumptions of the
modules: typing of the constants, that two bits or two bands of a modem have two names
(`NamesAssumption`), that there are finitely many modems (`IdentityAssumption`), and that a mode is
what a fully bound unit reads as (`CompositionAssumption`). Only `DisruptionsExclusiveHolds` needs
more and says so in its ASSUME. Each rests on one inductive invariant; TLC checked its parts on
small instances before they were proved.

`OperationEngineProofs`:

* `TypeCorrect`.
* `SingleFlightHolds`. `SingleFlight` is not inductive: a second call begins because it is at
  the head of the chain, so one needs that whatever runs *is* the head (`RunningAtHead`).
* `LostReplyClosesGateHolds`, `NoRollbackAfterLostReplyHolds`,
  `DispatchRespectsLostWritesHolds` from `GateInv`, which adds that a call whose reply is lost
  can only finish (`LostIsFinishing`), that no other mutation of its modem is between its gate
  check and its dispatch (`AdmittedOverOpenGate`), and that a fence is never ahead of the
  modem's lifetime (`FenceBehind`).
* `LeaseDisciplineHolds` from `LeaseInv`, `JournalKnowsTheUncertainHolds` from `JournalInv`:
  from which point to which a lease is held, that a call in flight has its start on the disk,
  and that what was owed at a process death never runs again.
* `EngineImplementsGate`: every step maps to a step of `MutationGate` or a stutter, with the
  invariants above as side conditions.

`JournalStoreProofs`: `TypeCorrect`, `CrashLosesNothingHolds`, `ReadsOnlyGrowHolds` and
`DamageIsBoundedHolds`, from `FileInv`: where the write in progress stands (`InProgress`), and
who pays for what was lost. `MissingInv`: each fault accounts for one append that was fulfilled
and cannot be read, counting the one the open line is about to cost. `DamageInv`: each fault and
each death accounts for one damaged line, counting the line that is damaged as soon as anything
is written on it. Both sums are needed, since a line is condemned one step before it is harmed.

The same module proves what recovery makes of the file. The loops of the store and of the
recovery are recursive functions (`Kept`, and `replayed` in `Recover`), and what they compute is
shown by induction over a set of numbers (`SetInduction`): the set of all `n` up to which the loop
is right holds 0 and the successor of each of its members. `SurvivorsInOrder` says that the records
read back stand in the order of their lines. `FoldMeetsDefinitionHolds` needs nothing else of the
behaviour: after `n` records the table says of each operation what its entries among them tell
(`FoldedUpTo`). `RecoveryIsTrueHolds` also needs that lines are in the order of the calls, which
is `OrderInv`: an append is called once (`CallsInv`), the chain is in the order of the calls
(`ChainInv`), whoever wrote on a line has settled or is at the head of the chain, and of two lines
the earlier is of the earlier call (`WroteInv`). With `FileInv`, which finds every fulfilled append
on a line that parses while no write failed, the last record of an operation is the last of its
appends to be carried out (`LastOfOperation`), and neither side of the verdict can err.

`UsbModeTransitionProofs`, from one inductive invariant `TransitionInv` with a part per resource.
`ChainInv`: a call is on the chain from its admission to its answer, and whoever is in the actor is
its head (`TypeCorrect`, `OneAtATimeHolds`). `HoldInv`: the interlock is held exactly from `hold` to
its release, or the release failed. `StreamInv` extends `StreamsAreSafe` to the wait for the hold,
where the stream that slips through begins (`StreamsAreSafeHolds`). `InhibitInv`: who has the device
inhibited has the lease in hand, is in one of the three calls that give it back, saw such a call fail,
or was never told and is failing (`CommandsUnderLeasesHolds`, `EverythingGivenBackHolds`).
`QuiesceInv` and `LinkInv`: a connection that is down has a lease under a transaction, a sweep, or a
failed command to account for it (`LinkIsRestoredHolds`). `AirInv`: who sent a command that timed out
is on the way out and never comes to the proof of success (`SuccessIsProvedHolds`, an action
property).

`RecoveryLadderProofs`: `TypeCorrect` and `RungsTakeTurnsHolds` from `LadderInv`, which says
which of the two chains a call is on and that who works is the head of its own;
`AttemptsAreBudgetedHolds` from `BudgetInv`, the history of attempts against what the budget
stores; `StreamsAreSafeHolds` from `SlipInv`, the property from the verdict on.

`DisruptiveOperationsProofs`: the composition. `DisruptionsExclusiveHolds` from `ActorInv`: the
chain holds no call twice, a call of either kind is on it from its admission to its answer, and
who works is its head. It needs the power hook to share the actor, or to be absent: with a hook
of its own (the default of the bench) it is false, see section 6. `StreamsAreSafeHolds` from
`SafeInv`, which joins the two parts' conditions: a hold that either takes keeps streams out of
both, and a stream slips past both verdicts at once.

`ProviderMatchingProofs`: `OneLoginPerGenerationHolds` from `LoginInv`: the logins sent in a
generation are one if it is spent and none if it is not, however many sessions wait meanwhile.
`WritableIsProvenHolds` from `WriteInv`: a call reads the capability of HiLink only after a login
of its generation, and every result, also the one in the cache under the signature of its
generation, is vouched for by a login if it is writable.

The same module holds the theorems about what is decided without waiting.
`CertifiedIsProvableHolds` from `CertInv`: what a bundle under capture, a bundle under review and
a record of the catalog have been through, for devices with any number of interfaces and drivers.
It claims the modes of a capture only where no other mode can be mistaken for them (`Unmistaken`),
and a proof by half-bound units only where the mode reads the same throughout (`Steady`).
`ManagedStaysManagedHolds` needs only what classification makes of more drivers.
`StaleTellsFirstCauseHolds` is about single steps. `NeverRoundedHolds` and `ReadbackIsExactHolds`
from `RadioInv`: the value of a write is the encoding of what was asked, and decoding it names
nothing else. The bits of a set of modes decode one by one, since two of them never share a name;
a band asked by number or by name is found under the name it reads back as.
`RowsAreTrueHolds` from `IdentityInv`: modems in a tree differ in socket, path and port name
(`Apart`), hence so do their keys (`KeysApart`), and right after a refresh every modem whose
equipment id is its own has its row. The refresh is a fold over the modems in whatever order
the tree lists them. By induction over how many it has taken in (`ChainKeeps`), each of the unique
ones among them has its row, since a row that is applied displaces only rows with its key or with
its equipment (`ApplyKeeps`). Duplicates may displace each other, which is why the property says
nothing of their rows (section 6).

`ServicesProofs`: `AttemptsAreSpentHolds` from `SimInv`: the attempts that are missing are at most the
wrong secrets submitted, in whatever order calls take their turn in the actor. `InboxConvergesHolds`
from `InboxInv`: but for what is in doubt or was not heard of, the rows hold nothing that is not
stored and lack only what is being opened, and a pass that is reading has read, has still to read, or
has put down as missed, all that is stored. `UsageIsWitnessedHolds` from `UsageInv`: the account in
memory, the document of every save under way, the one at the temporary path and the one on disk are
each witnessed by their ledger (`Sound`), and every counter read by a pass under way is one its
interface had (`RoundInv`); passes and saves overlap in any number. `PolicyIsKeptHolds` from
`PolicyInv`: what a call under way holds while no other has been beside it (`CallInv`), and that
process and file agree unless calls are entangled. `ExactReadoutsSettleHolds` from `BearerInv`:
whatever is active is up or coming up, no readout is of a generation still to come, every claim is
about an interface, and what a call in progress knows (`CallKnows`).

`MmObserverProofs`: `SubscriptionsSurviveHolds` from `RuleInv`: a published bus is open with no
attempt at work, an attempt begins with no rule re-issued, and from then on the daemon holds
those that were answered, so that none is missing when the last one is. `StepIsTransports` says
that no step of the observer moves the transport but by one of the transport's own actions.
`RemovedOnlyByOwnEpochHolds` from `BusInv`, which is about everything under way, in the order in
which the observer will take it up: the continuations that have landed, then the wire (`Ahead`). A
name is in force at a place of it if it is the last that was told before (`InForce`). Behind all of
it the name in force is nobody's or the owner's, unless the observer is about to ask; at the place
of a tree, once `start` has adopted an owner, it is nobody's, that of the instance which served the
tree, or one the tree was not read for (`Sound`). That order is lost where a message is dispatched
before a continuation that landed. A change of owner that is dispatched before a tree's continuation
does no harm, since then the tree was read for another name (`Apart`, from `NamesInv`: names are
known only once given). One that is dispatched before the continuation of `GetNameOwner` sets
`overtaken`; from then on the invariant speaks of the wire only, until the next change of owner.
`BusInv` needs that the rules are on the wire from the adoption on (`ClientInv`, `RuleInv`). It
holds however many messages are dispatched together and for daemons that number names afresh.

Only model-checked: the eight properties under fairness, `EveryCallAnswered`, `EveryAppendSettles`,
`EveryDisruptionEnds`, `ObserverSettles`, `SessionsEnd`, `RendersEnd`, `WritesEnd` and `PlanSettles`
(liveness is out of the prover's reach), and `HealthyMeansCurrent`, whose proof would need all that
`BusInv` says and where every change of a modem has got to. `DamageStaysConfined` and
`RemovalIsEpochScoped` are false. Every other invariant and action property that a passing run checks
is a theorem, and the refinement of `MutationGate` is. `LostReplyClosesGate`, `LeaseDiscipline`,
`OneAtATime`, `CommandsUnderLeases` and `RungsTakeTurns` are theorems and no run repeats them.

## 5. Hazards

`PROJECT.json` lists what is hard to test in this code, each at the line where it bites, and
the properties that look at it. Those without a property say why: they are outside the model (the
composition root, a lock of another process), or the code does not promise anything there, and
section 6 says what it does. A note beside properties says which part of the hazard the code leaves
open, and the properties therefore excuse.

## 6. Where code and documentation disagree

Two runs must fail. `journal_confined`: an append that fails half-way in a process that goes on costs
the next one as well (`journal/store.ts:169`). `bus_bursts`: two changes of owner dispatched in the
tick of an answer to `GetNameOwner` make the observer follow an owner that is gone, and the tree of
its successor removes a row under that name (`backend/observer.ts:143`; `:9-15` says that this
class of removals is dead by construction). The rest were met while modelling. The
models do what the code does; the properties are stated so that they hold of it. Paths are under
`control/src/` unless they say otherwise.

Operations and their gate:

* The reply of a rollback is discarded: one that timed out leaves the gate open
  (`operations/operation-engine.ts:186`; `docs/DOMAIN-CONTRACTS.md:46-49`). The gate is read
  before two awaits, and a read outside the queue may close it meanwhile (`:81`; `:58-60`).
  It is open after a restart whatever the journal says (`:33`; `journal/entry.ts:7-8`).
* Two invocations with one operation id about one modem share a key of the recovery
  (`journal/recovery.ts:103`).
* A radio write whose reply is lost is answered as refused with nothing to reconcile, and so is
  a HiLink write refused after its post (`providers/huawei-hilink/runtime.ts:196-209`;
  `docs/DOMAIN-CONTRACTS.md:45-49`). Inputs are compared by identity (`operation-engine.ts:224`).

What disrupts a modem:

* An inhibition taken by a call whose reply is lost is never given back: the transaction has no
  lease in hand and its catch block nothing to release (`backend/usb-mode-transition.ts:160`).
  A runtime plan proves the value the vendor reports, which need be neither the composition the
  modem is in nor one it still has when the connection is activated
  (`backend/usb-mode-transition/outcome.ts:20-26`).
* The quiesce lease is granted although the disconnect failed, and the sweep ends it under a
  running transaction (`backend/nmcli-nm-port.ts:119`, `:139`).
* The interlock is asked before the wait in the actor queue (`backend/recovery-ladder.ts:204`);
  a run climbs on although another one recovered the modem (`:216`). The power rung does not go
  through the ladder's actor and the hook makes its own by default (`:226`;
  `cli/src/uhubctl-power-hook.ts:246`). A recovery that worked forgets when it was attempted, so
  the cooldown is not kept (`backend/recovery-budget.ts:82`; `:13` says it is).
* A release of a lease that rejects stops the ones behind it (`safety/composition-root.ts:57`,
  `:66`).

ModemManager and its bus:

* What `bus_bursts` shows also leaves the observer at rest following nobody while there is an owner,
  or following one that is gone, until the next change of owner or reconnect.
* A ModemManager restarted with the same object paths keeps its rows' signal setup, and a bus
  daemon that numbers names afresh hides the restart altogether: what was set up under a name is
  never forgotten (`backend/signal-setup.ts:104-114`; `:8-9` has it re-applied after every change of
  owner).
* A start of the provider that failed is remembered for good
  (`providers/modem-manager/provider.ts:161-164`); the epoch of its source is constant, and the key
  remembered for an object path outlives the modem that had the path (`:187`).
* An idle expiry closes a USSD session renewed while the expiry waited (`ussd/mm-ussd.ts:59`,
  `:254`); an `Initiate` that times out leaves the network's dialogue open.
* A PIN accepted with its reply lost is answered as incorrect when the read-back lags, and
  `unlocked` is answered for a SIM that asks for another secret (`backend/sim-unlock.ts`).
* A read of a location that lands after the switch shows a position until its bound
  (`location/fix-state.ts:11-12`). A message whose read fails is missing until the next
  resync; one that is deleted while it is read is put back; a list that overlaps a change of storage
  may end either way; and a list that fails after a reconnect is not tried again
  (`sms/dbus-messaging.ts:124-164`).

Data plane:

* A change made during a save is marked clean (`backend/usage/sampler.ts:9-12`, `:205`); an
  unreadable boot id is one key for all boots (`boot-id.ts:8-10`); a corrupted policy file drops
  every policy. Passes overlap (`sampler.ts:118-136`): one that ends late sets the baseline back,
  and what had moved since is counted again.
* Policy writes are not serialised and share one temporary path
  (`backend/usage/policy-write.ts:156-197`): two that overlap drop each other's fields, which `:56-59`
  says a request never does, or one applies what another's rename has replaced. The saves of the
  sampler share theirs (`store.ts:144-150`). A write torn by another one in the same file is not
  modelled, nor is a load that puts a fresh file where there was none.
* `#activeUuidOn` ignores an exit code; a release verifies and then disconnects; a readout of the
  same generation that is older than a claim clears it (`providers/network-manager/types.ts:217-220`).

Router providers:

* A cached HiLink session is never dropped (`providers/huawei-hilink/runtime.ts:127-134`);
  overlapping matches each log in to it (`providers/contracts.ts:76`).
* ZTE evidence may be of another enumeration than the login (`providers/zte-goform/session.ts:108-117`).
* A UFI is selected by its USB id alone; a logout that arrives late deletes the next session
  (`providers/ufi-himi/provider.ts:181-198`); an observation after a refusal is empty.

Decisions:

* The planner never rewrites credentials that changed, and the bench's receipt says "applied"
  where the readback of the connection differs (`cli/src/commands/apply.ts:27-36`).
* `apply` asks whether a policy may be bound to a row for which no duplicate was ever looked for.
  A swap leaves a stale row; a duplicate equipment id may move another modem's row
  (`backend/identity-registry.ts:91`).
* A unit that is binding its drivers reads as the mode they allow, so the switch of an ecm-ncm unit
  may be captured as one from or to qmi (`backend/device-classifier.ts:412-418`;
  `cli/src/certify/transition-evidence.ts:139-150`).
* `certify` captures the list of devices after the device it matched, accepts another unit in the
  same port, and never sends the command it records.
* A band write does not check that what is asked was offered
  (`providers/modem-manager/generic-operations.ts:239-248`; `band/certification.ts:135-141`); an
  aliased band always reads back as a mismatch (`band/band-names.ts:105-112`); a preference for
  several modes is offered and then refused (`radio/mode-truth.ts:10-14`).
* Provenance names fields that are not the ones read: ZTE's operator name, UFI's product name
  (`observations/provenance.ts:61`). The signal of a snapshot is never recent and is 0 where
  there is none; one field that is no string loses the whole record of a router.

## 7. Plan

Done: the plan of sections 2 to 4. Next, in this order:

1. `CompositionRoot` with the `flock` holder: two processes, dispose beside acquire, a release
   that rejects.
2. The writes of ZTE and UFI over their sessions; the hardware-in-the-loop cycle.
3. An abstract bus (the rows are what the present owner last reported) implemented by
   `MmObserver`.

## 8. Not modelled

* Text and value conversion without state: D-Bus codec, NMEA, page and `mmcli` parsers, the
  reader of a legacy journal, redaction, display names. Where a decision depends on what they
  make of their input the verdict is a choice.
* Static tables: FCC policy, support claims, recovery attribution, the certified catalog except
  for the plans it gives.
* The native D-Bus library, the kernel's file lock and the process that holds it, registration of
  providers at startup, packaging and CI.
* `five-g-preference` is modelled through its exported operations, which nothing in the
  repository calls yet; other raw writes of a desired radio are not.
* Power loss: the journal and the usage store make no claim about it. The models cover the death
  of the process only.
