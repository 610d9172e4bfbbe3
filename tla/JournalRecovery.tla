---------------------------- MODULE JournalRecovery ----------------------------
(***************************************************************************)
(* Replay (control/src/journal/recovery.ts): JournalEngine.recover folds   *)
(* whatever the store reads back, at any moment and in any process, into   *)
(* one record per operation.  An entry names its operation by the key      *)
(* (modem, operation id, generation); an append stands for the time stamp  *)
(* of the entry it was given.                                              *)
(***************************************************************************)
EXTENDS JournalStore, FiniteSetsExt

CONSTANTS
    Keys,      \* operations: what keyOf tells apart
    ModemOf    \* the modem of each operation

Started(k) == [key |-> k, phase |-> "started"]
Completed(k, status) == [key |-> k, phase |-> "completed", status |-> status]

\* The entries JournalEngine.record makes of the two events of the operation
\* engine, with the outcomes recovery tells apart.
JournalEntries ==
    {Started(k) : k \in Keys}
        \union {Completed(k, s) : k \in Keys, s \in {"definite", "unknown-outcome"}}

ASSUME EntriesAssumption == Entries \subseteq JournalEntries
ASSUME ModemAssumption == DOMAIN ModemOf = Keys

\* Mutated: every completion counts as an ending.
DispositionOfAny(status) == "resolved"

\* dispositionOf
DispositionOf(status) ==
    IF status = "unknown-outcome" THEN "unknown-outcome" ELSE "resolved"

\* records.set(k, record)
Put(records, k, record) ==
    [j \in DOMAIN records \union {k} |-> IF j = k THEN record ELSE records[j]]

\* Mutated: a second start of a live operation is taken for a duplicate.
ApplyDeduplicated(records, a) ==
    LET e == entry[a]
        known == e.key \in DOMAIN records
        previous == records[e.key]
    IN  IF e.phase = "started"
        THEN IF known THEN records
             ELSE Put(records, e.key, [disposition |-> "pending", startedAt |-> a,
                                       updatedAt |-> a, attempts |-> 1])
        ELSE Put(records, e.key, [disposition |-> DispositionOf(e.status),
                                  startedAt |-> IF known THEN previous.startedAt ELSE a,
                                  updatedAt |-> a,
                                  attempts |-> IF known THEN previous.attempts ELSE 1])

\* The loop body of reconstructJournalRecovery: the last entry of an operation
\* wins, its first one dates it, and every start counts as an attempt.
Apply(records, a) ==
    LET e == entry[a]
        known == e.key \in DOMAIN records
        previous == records[e.key]
        startedAt == IF known THEN previous.startedAt ELSE a
    IN  Put(records, e.key,
            IF e.phase = "started"
            THEN [disposition |-> "pending", startedAt |-> startedAt, updatedAt |-> a,
                  attempts |-> IF known THEN previous.attempts + 1 ELSE 1]
            ELSE [disposition |-> DispositionOf(e.status), startedAt |-> startedAt,
                  updatedAt |-> a,
                  attempts |-> IF known THEN previous.attempts ELSE 1])

\* The loop: replayed[n] is the table after the first n survivors.
Recover ==
    LET survivors == Survivors
        replayed[n \in 0..Len(survivors)] ==
            IF n = 0 THEN <<>> ELSE Apply(replayed[n - 1], survivors[n])
    IN  replayed[Len(survivors)]

\* summarizeJournalRecords
ReconciliationRequired ==
    {ModemOf[k] : k \in {j \in DOMAIN Recover :
        Recover[j].disposition \in {"pending", "unknown-outcome"}}}

-----------------------------------------------------------------------------
(* Properties *)

\* The fold gives each operation that left an entry one record: dated by its
\* first entry and its last, disposed of by its last, with one attempt per
\* start, a completion whose start is missing counting for one.
FoldMeetsDefinition ==
    LET survivors == Survivors
        of(k) == {i \in 1..Len(survivors) : entry[survivors[i]].key = k}
    IN  /\ DOMAIN Recover = {entry[survivors[i]].key : i \in 1..Len(survivors)}
        /\ \A k \in DOMAIN Recover :
            LET record == Recover[k]
                first == survivors[Min(of(k))]
                last == survivors[Max(of(k))]
                starts == {i \in of(k) : entry[survivors[i]].phase = "started"}
                headless == IF entry[first].phase = "completed" THEN 1 ELSE 0
            IN  /\ record.startedAt = first
                /\ record.updatedAt = last
                /\ record.attempts = headless + Cardinality(starts)
                /\ record.disposition = "pending" <=> entry[last].phase = "started"
                /\ record.disposition = "unknown-outcome"
                    <=> entry[last] = Completed(k, "unknown-outcome")

\* What a caller that appends an operation's start and waits for it may rely
\* on: until the operation's completion is handed to the store, every recovery,
\* in this process or the next, asks to reconcile the operation's modem; and
\* the same after an uncertain completion was fulfilled.
AsksToReconcile ==
    \A i \in 1..Len(calls) :
        LET e == entry[calls[i]]
            later == {calls[j] : j \in i + 1 .. Len(calls)}
        IN  /\ outcome[calls[i]] = "fulfilled"
            /\ \/ e.phase = "started"
               \/ e.phase = "completed" /\ e.status = "unknown-outcome"
            /\ \A a \in later : entry[a] # Completed(e.key, "definite")
            => ModemOf[e.key] \in ReconciliationRequired

\* An operation is never reported as resolved on the strength of an entry
\* nobody handed in: its last fulfilled entry is definite, or a definite one
\* was handed in after it.
ResolvedIsTrue ==
    \A k \in DOMAIN Recover : Recover[k].disposition = "resolved" =>
        \E i \in 1..Len(calls) :
            /\ entry[calls[i]] = Completed(k, "definite")
            /\ \A j \in i + 1 .. Len(calls) :
                entry[calls[j]].key = k => outcome[calls[j]] # "fulfilled"

\* Recovery errs on neither side, whatever processes died, as long as no write
\* failed in a process that went on (recovery.ts, ports/reconcile.ts).
RecoveryIsTrue == faults = 0 => AsksToReconcile /\ ResolvedIsTrue

=============================================================================
