----------------------------- MODULE UsageSampler -----------------------------
(***************************************************************************)
(* The data usage of one logical slot: the reducer over cumulative byte    *)
(* counters (control/src/backend/usage/accounting.ts), the sampler that    *)
(* feeds it (sampler.ts, sampling.ts), the document that survives a        *)
(* restart (persistence.ts, store.ts), and the kernel, which restarts its  *)
(* counter when the interface is created again and when it boots.          *)
(*                                                                         *)
(* Passes are not serialised, nor are saves: each awaits its read of the   *)
(* counters, and its write, beside the others.  A document is written to   *)
(* one temporary path and renamed over the file, so a save that is cut off *)
(* leaves the document before it.  Bytes and days are small numbers.       *)
(***************************************************************************)
EXTENDS BillingCycle

CONSTANTS
    None, CycleDays, DefaultDay,
    Rounds,              \* calls of sample and flush that may be under way
    PersistInterval,    \* days between two saves
    MaxBytes,           \* bytes the slot moves, over all
    MaxChanges          \* remaps, new interfaces, deaths of the process, policy calls

VARIABLES
    now,        \* the day
    kernel,     \* the boot, the counter, the generation of the mapping, and
                \* what the slot had moved when the interface was created
    moved,      \* bytes the slot moved, over all
    changes,    \* such changes so far
    alive,      \* the process runs
    account,    \* the slot's account, None before it is first seen
    day,        \* the cycle day in force: the override, or what is observed
    rate,       \* when the baseline's counter was read, None when unmeasured
    dirty, savedOn,
    round,       \* where each call is, and what it holds
    draft,      \* the document at the temporary path, None when it is gone
    disk,       \* the document on disk
    ledger      \* history: bytes that are the slot's, and since when

usageVars == <<now, kernel, moved, changes, alive, account, day, rate, dirty,
               savedOn, round, draft, disk, ledger>>

\* Under which key (None in doubt), at what total of bytes, over an interface
\* created at what total, and on which day a counter was last folded in; the
\* furthest total folded in so far; and of the cycle, the bytes seen to move
\* between foldings, and those seen once more.
NoLedger == [bytes |-> 0, again |-> 0, key |-> None, at |-> 0, since |-> 0, most |-> 0, on |-> 0]

Key(generation) == [generation |-> generation, boot |-> kernel.boot]
InitialAccount(start) == [bytes |-> 0, start |-> start, paused |-> FALSE, base |-> None]
Document == [boot |-> kernel.boot, account |-> account, ledger |-> ledger]

\* What a load makes of a file that is absent or cannot be parsed.
Fresh == [boot |-> 1, account |-> None, ledger |-> NoLedger]

Unused == [at |-> "unused"]
Becomes(s, step) == round' = [round EXCEPT ![s] = step]
Writing(document) == [at |-> "writing", document |-> document, on |-> now]

UsageInit ==
    /\ now = 0
    /\ kernel = [boot |-> 1, counter |-> 0, generation |-> 1, since |-> 0]
    /\ moved = 0 /\ changes = 0
    /\ alive = TRUE
    /\ account = None /\ day = DefaultDay /\ rate = None
    /\ dirty = FALSE /\ savedOn = 0
    /\ round = [s \in Rounds |-> Unused]
    /\ draft = None /\ disk = Fresh
    /\ ledger = NoLedger

-----------------------------------------------------------------------------
(* The reducer. *)

\* A later cycle empties the account and keeps the baseline.
RollCycle(prior, start) ==
    IF start > prior.start THEN [prior EXCEPT !.bytes = 0, !.start = start] ELSE prior

\* Mutated: the baseline survives a pause.
ApplySampleUnpaused(prior, input) ==
    LET base == RollCycle(prior, input.start)
        next == [base EXCEPT !.base = [key |-> input.key, last |-> input.current]]
    IN  IF ~input.sure THEN base
        ELSE IF \/ base.base = None
                \/ base.base.key # input.key \/ input.current < base.base.last
             THEN next
             ELSE [next EXCEPT !.bytes = @ + input.current - base.base.last]

\* applySample: a doubtful slot is paused and loses its baseline; a baseline
\* that is missing, under another key or above the counter is set anew; else
\* the difference is the slot's.
ApplySample(prior, input) ==
    LET base == RollCycle(prior, input.start)
        next == [base EXCEPT !.paused = FALSE,
                             !.base = [key |-> input.key, last |-> input.current]]
    IN  IF ~input.sure THEN [base EXCEPT !.paused = TRUE, !.base = None]
        ELSE IF \/ base.paused \/ base.base = None
                \/ base.base.key # input.key \/ input.current < base.base.last
             THEN next
             ELSE [next EXCEPT !.bytes = @ + input.current - base.base.last]

\* measureRate keeps when it sampled; a pass that does not find the interface
\* leaves nothing to measure from.
RateAfter(input) == IF input.present THEN now ELSE None

\* What the history says of the same folding: the bytes between this reading
\* and the one folded before it, if both are sure and under one key.  Where a
\* pass that was overtaken has set the baseline back, the bytes up to the
\* furthest reading are seen again; and where the interface is one that is gone
\* by the reading before, as much as its whole counter may be.
Witnessed(input) ==
    LET rolled == account # None /\ input.start > account.start
        joined == input.sure /\ ledger.key = input.key
        gone == input.since < ledger.since
        new == IF joined /\ ~gone /\ input.place > ledger.most THEN input.place - ledger.most ELSE 0
        seen == IF joined /\ ~gone /\ input.place > ledger.at THEN input.place - ledger.at ELSE 0
    IN  [bytes |-> (IF rolled THEN 0 ELSE ledger.bytes) + new,
         again |-> (IF rolled THEN 0 ELSE ledger.again) + (seen - new)
                      + (IF joined /\ gone THEN input.current ELSE 0),
         key |-> IF input.sure THEN input.key ELSE None,
         at |-> input.place, since |-> input.since,
         most |-> IF input.place > ledger.most THEN input.place ELSE ledger.most,
         on |-> now]

-----------------------------------------------------------------------------
(* A sampling pass. *)

\* A pass is given the observation of the slot, which may be in doubt.
BeginSample(s) ==
    /\ alive /\ round[s] = Unused
    /\ \E sure \in BOOLEAN :
          Becomes(s, [at |-> "reading", sure |-> sure, key |-> Key(kernel.generation)])
    /\ UNCHANGED <<now, kernel, moved, changes, alive, account, day, rate, dirty,
                   savedOn, draft, disk, ledger>>

\* The counters are read, and the interface may be absent from them; or the
\* read fails, and the pass with it.
ReadCounters(s) ==
    /\ round[s].at = "reading"
    /\ \/ \E present \in BOOLEAN :
             Becomes(s, [at |-> "counted", sure |-> round[s].sure, key |-> round[s].key,
                      present |-> present, current |-> kernel.counter,
                      place |-> moved, since |-> kernel.since])
       \/ Becomes(s, Unused)
    /\ UNCHANGED <<now, kernel, moved, changes, alive, account, day, rate, dirty,
                   savedOn, draft, disk, ledger>>

\* What a pass folds in: what it read, into the cycle of the day by then.
Input(s) ==
    [sure |-> round[s].sure, key |-> round[s].key, present |-> round[s].present,
     current |-> round[s].current, place |-> round[s].place, since |-> round[s].since,
     start |-> CycleStart(now, day)]
Prior(start) == IF account = None THEN InitialAccount(start) ELSE account

\* The pass is folded in, and the document written when the last is old.
FinishSample(s) ==
    /\ round[s].at = "counted"
    /\ LET input == Input(s)
       IN  /\ account' = IF input.present THEN ApplySample(Prior(input.start), input)
                         ELSE Prior(input.start)
           /\ rate' = RateAfter(input)
           /\ ledger' = IF input.present THEN Witnessed(input) ELSE ledger
    /\ dirty' = TRUE
    /\ UNCHANGED <<now, kernel, moved, changes, alive, day, savedOn, draft, disk>>
    /\ Becomes(s, IF now - savedOn >= PersistInterval THEN Writing(Document') ELSE Unused)

\* The shutdown hook.
Flush(s) ==
    /\ alive /\ dirty /\ round[s] = Unused
    /\ Becomes(s, Writing(Document))
    /\ UNCHANGED <<now, kernel, moved, changes, alive, account, day, rate, dirty,
                   savedOn, draft, disk, ledger>>

\* The document reaches the temporary path, or the write fails.  Two that are
\* written there at a time may leave what nobody can parse.
WriteDocument(s) ==
    /\ round[s].at = "writing"
    /\ \/ draft' = round[s].document /\ Becomes(s, [round[s] EXCEPT !.at = "renaming"])
       \/ /\ \E r \in Rounds \ {s} : round[r].at \in {"writing", "renaming"}
          /\ draft' = Fresh /\ Becomes(s, [round[s] EXCEPT !.at = "renaming"])
       \/ Becomes(s, Unused) /\ UNCHANGED draft
    /\ UNCHANGED <<now, kernel, moved, changes, alive, account, day, rate, dirty,
                   savedOn, disk, ledger>>

\* Whatever the temporary path holds by then replaces the document, and
\* nothing is dirty any more.  A rename that fails, or finds that another save
\* has renamed the path away, replaces nothing.
RenameDocument(s) ==
    /\ round[s].at = "renaming"
    /\ \/ /\ draft # None
          /\ disk' = draft /\ draft' = None
          /\ dirty' = FALSE /\ savedOn' = round[s].on
       \/ UNCHANGED <<draft, disk, dirty, savedOn>>
    /\ Becomes(s, Unused)
    /\ UNCHANGED <<now, kernel, moved, changes, alive, account, day, rate, ledger>>

\* applyPolicy, as of a day gone by: another start empties the account and
\* keeps the baseline.
ApplyPolicy(cycleDay, at) ==
    LET start == CycleStart(at, cycleDay)
    IN  /\ day' = cycleDay
        /\ \/ /\ account = None
              /\ account' = InitialAccount(start)
              /\ dirty' = TRUE
              /\ UNCHANGED ledger
           \/ /\ account # None /\ account.start = start
              /\ UNCHANGED <<account, dirty, ledger>>
           \/ /\ account # None /\ account.start # start
              /\ account' = [account EXCEPT !.bytes = 0, !.start = start]
              /\ ledger' = [ledger EXCEPT !.bytes = 0, !.again = 0]
              /\ dirty' = TRUE
        /\ UNCHANGED <<now, kernel, moved, changes, alive, rate, savedOn, round,
                       draft, disk>>

-----------------------------------------------------------------------------
(* Restarts. *)

\* A document of another boot keeps its bytes and loses its baseline.
Resumes(document) == document.boot = kernel.boot

Hydrated(document) ==
    IF document.account = None THEN None
    ELSE [document.account EXCEPT
              !.paused = FALSE,
              !.base = IF @ # None /\ Resumes(document)
                       THEN [@ EXCEPT !.key.boot = kernel.boot] ELSE None]

\* The process comes back; cycleDay is what the policy on disk says.
Start(cycleDay) ==
    /\ ~alive
    /\ alive' = TRUE
    /\ account' = Hydrated(disk)
    /\ ledger' = disk.ledger
    /\ day' = cycleDay
    /\ rate' = None /\ dirty' = FALSE /\ savedOn' = now
    /\ UNCHANGED <<now, kernel, moved, changes, round, draft, disk>>

Change == changes < MaxChanges /\ changes' = changes + 1

\* The process dies, alone or with the kernel.
Dies ==
    /\ Change
    /\ alive
    /\ alive' = FALSE
    /\ account' = None /\ rate' = None /\ ledger' = NoLedger
    /\ dirty' = FALSE /\ savedOn' = 0 /\ day' = DefaultDay
    /\ round' = [s \in Rounds |-> Unused]
    /\ \/ UNCHANGED kernel
       \/ kernel' = [kernel EXCEPT !.boot = @ + 1, !.counter = 0, !.since = moved]
    /\ UNCHANGED <<now, moved, draft, disk>>

\* The interface is created again, or the slot is mapped anew.
Rewired ==
    /\ Change
    /\ \/ kernel' = [kernel EXCEPT !.counter = 0, !.since = moved]
       \/ kernel' = [kernel EXCEPT !.generation = @ + 1]
    /\ UNCHANGED <<now, moved, alive, account, day, rate, dirty, savedOn, round,
                   draft, disk, ledger>>

Moves ==
    /\ moved < MaxBytes
    /\ moved' = moved + 1
    /\ kernel' = [kernel EXCEPT !.counter = @ + 1]
    /\ UNCHANGED <<now, changes, alive, account, day, rate, dirty, savedOn, round,
                   draft, disk, ledger>>

DayPasses ==
    /\ now < Horizon
    /\ now' = now + 1
    /\ UNCHANGED <<kernel, moved, changes, alive, account, day, rate, dirty, savedOn,
                   round, draft, disk, ledger>>

UsageStep ==
    \/ \E s \in Rounds : BeginSample(s) \/ ReadCounters(s) \/ FinishSample(s) \/ Flush(s)
                         \/ WriteDocument(s) \/ RenameDocument(s)
    \/ Dies \/ Rewired \/ Moves \/ DayPasses

-----------------------------------------------------------------------------
(* Properties. *)

\* The bytes of a cycle are bytes the slot was seen to move, between two
\* foldings under one key and one boot: none is invented by a remap, a pause, a
\* new interface, a crash, a reboot or a document saved out of turn
\* (accounting.ts:8-20).  None is counted twice either, but where a pass was
\* overtaken: its older counter sets the baseline back, and what had moved
\* since is counted again, no more than that; or, if its interface is gone, no
\* more than that counter.  And a rate is a difference over the interval that
\* difference was observed in: where one can be measured next, its clock
\* started when the baseline was folded in (sampling.ts:13-35).
UsageIsWitnessed ==
    alive /\ account # None =>
        /\ account.bytes <= ledger.bytes + ledger.again
        /\ rate # None /\ account.base # None => rate = ledger.on
=============================================================================
