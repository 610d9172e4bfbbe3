----------------------------- MODULE JournalStore -----------------------------
(***************************************************************************)
(* The append-only journal file (control/src/journal/store.ts).            *)
(*                                                                         *)
(* The file is kept the way text.split('\n') shows it: a sequence of       *)
(* lines, the last of which is the one still open, each line the sequence  *)
(* of what was written on it.  What an append writes is an optional        *)
(* leading terminator, the encoded entry, a terminator; a process may die  *)
(* and a write may fail between any two bytes of it, which leaves the      *)
(* encoded entry whole, torn or absent.  Prefixes of an entry, and several *)
(* pieces on one line, are not JSON objects.                               *)
(***************************************************************************)
EXTENDS Integers, Sequences, FiniteSets

CONSTANTS
    Appends,      \* calls of JournalStore.append
    Entries,      \* the entries callers append
    MaxCrashes,   \* bound: process deaths
    MaxFaults     \* bound: failed writes and failed probes

ASSUME FaultsAssumption == MaxCrashes \in Nat /\ MaxFaults \in Nat

VARIABLES
    lines,        \* the file
    terminated,   \* #terminated: "unprobed" (undefined), "yes" or "no"
    chain,        \* #tail: the appends that have not settled, oldest first
    step,         \* what the append at the head of the chain waits for
    entry,        \* the entry each append was given
    outcome,      \* how each append ended
    calls,        \* history: the appends in the order they were called
    crashes,      \* process deaths so far
    faults        \* failed writes and failed probes so far

vars == <<lines, terminated, chain, step, entry, outcome, calls, crashes, faults>>

Piece == [append : Appends, whole : BOOLEAN]

Init ==
    /\ lines = <<(<<>>)>>
    /\ terminated = "unprobed"
    /\ chain = <<>>
    /\ step = "idle"
    /\ entry \in [Appends -> Entries]
    /\ outcome = [a \in Appends |-> "uncalled"]
    /\ calls = <<>>
    /\ crashes = 0
    /\ faults = 0

OpenLine == lines[Len(lines)]
WriteOn(line) == lines' = [lines EXCEPT ![Len(lines)] = line]

-----------------------------------------------------------------------------
(* append *)

\* this.#tail.catch(...).then(...)
Join(a) == Append(chain, a)

CallAppend(a) ==
    /\ outcome[a] = "uncalled"
    /\ outcome' = [outcome EXCEPT ![a] = "pending"]
    /\ calls' = Append(calls, a)
    /\ chain' = Join(a)
    /\ UNCHANGED <<lines, terminated, step, entry, crashes, faults>>

\* Mutated: a rejected append poisons the chain.
SettlePoisoned(how) ==
    /\ outcome' = [outcome EXCEPT ![Head(chain)] = how]
    /\ chain' = IF how = "rejected" THEN chain ELSE Tail(chain)
    /\ step' = IF how = "rejected" THEN "poisoned" ELSE "idle"
    /\ UNCHANGED <<entry, calls, crashes>>

\* The append at the head of the chain settles and the next one runs, however
\* this one ended.
Settle(how) ==
    /\ outcome' = [outcome EXCEPT ![Head(chain)] = how]
    /\ chain' = Tail(chain)
    /\ step' = "idle"
    /\ UNCHANGED <<entry, calls, crashes>>

\* The append goes on to wait for s.
Go(s) == step' = s /\ UNCHANGED <<chain, entry, outcome, calls, crashes>>

\* Mutated: the leading terminator is never written.
FirstByteGlued(t) == "body"

\* The first thing appendFile writes: a terminator, when the file is known not
\* to end in one.
FirstByte(t) == IF t = "no" THEN "leading" ELSE "body"

\* mkdir answers; the first append of the process goes on to probe the file.
DirectoryMade ==
    /\ step = "idle" /\ chain # <<>>
    /\ \/ terminated = "unprobed" /\ Go("probe")
       \/ terminated # "unprobed" /\ Go(FirstByte(terminated))
       \/ Settle("rejected")
    /\ UNCHANGED <<lines, terminated, faults>>

\* #probeTerminated looks at the last byte.  An empty or absent file counts as
\* terminated, and so does a file that could not be opened.
Probed ==
    /\ step = "probe"
    /\ \/ /\ terminated' = IF OpenLine = <<>> THEN "yes" ELSE "no"
          /\ Go(FirstByte(terminated'))
          /\ UNCHANGED faults
       \/ /\ faults < MaxFaults /\ OpenLine # <<>>
          /\ faults' = faults + 1
          /\ terminated' = "yes"
          /\ Go(FirstByte(terminated'))
       \/ Settle("rejected") /\ UNCHANGED <<terminated, faults>>
    /\ UNCHANGED lines

\* appendFile makes progress: the leading terminator, some or all of the
\* entry, the rest of it, the terminator.
Written ==
    LET put(whole) == [append |-> Head(chain), whole |-> whole]
    IN  /\ \/ step = "leading" /\ lines' = Append(lines, <<>>) /\ Go("body")
           \/ /\ step = "body"
              /\ \/ WriteOn(Append(OpenLine, put(FALSE))) /\ Go("rest")
                 \/ WriteOn(Append(OpenLine, put(TRUE))) /\ Go("terminator")
           \/ /\ step = "rest"
              /\ WriteOn([OpenLine EXCEPT ![Len(OpenLine)] = put(TRUE)])
              /\ Go("terminator")
           \/ step = "terminator" /\ lines' = Append(lines, <<>>) /\ Go("chmod")
        /\ UNCHANGED <<terminated, faults>>

\* appendFile rejects with part of the line written (disk full, I/O error).
\* #terminated keeps its value.
WriteFailed ==
    /\ step \in {"leading", "body", "rest", "terminator"}
    /\ faults < MaxFaults
    /\ faults' = faults + 1
    /\ Settle("rejected")
    /\ UNCHANGED <<lines, terminated>>

\* chmod answers.
ModeSet ==
    /\ step = "chmod"
    /\ \/ terminated' = "yes" /\ Settle("fulfilled")
       \/ UNCHANGED terminated /\ Settle("rejected")
    /\ UNCHANGED <<lines, faults>>

-----------------------------------------------------------------------------

\* The process dies and another one opens the same path.
Crash ==
    /\ crashes < MaxCrashes
    /\ crashes' = crashes + 1
    /\ outcome' = [a \in Appends |-> IF outcome[a] = "pending" THEN "lost" ELSE outcome[a]]
    /\ chain' = <<>>
    /\ step' = "idle"
    /\ terminated' = "unprobed"
    /\ UNCHANGED <<lines, entry, calls, faults>>

Progress == DirectoryMade \/ Probed \/ Written \/ ModeSet

Next ==
    \/ \E a \in Appends : CallAppend(a)
    \/ Progress
    \/ WriteFailed
    \/ Crash

Spec == Init /\ [][Next]_vars

\* The operating system answers every call of fs/promises.
FairSpec == Spec /\ WF_vars(Progress)

-----------------------------------------------------------------------------
(* read *)

\* A line that decodes: one whole entry and nothing else.
Decodes(line) == Len(line) = 1 /\ line[1].whole

\* The loop of decodeJournalText: every line is decoded on its own and the
\* survivors are kept in file order; blank lines carry no record, the others are
\* damage.  Kept[n] is what the first n lines leave.
Kept[n \in 0..Len(lines)] ==
    IF n = 0 THEN <<>>
    ELSE IF Decodes(lines[n]) THEN Append(Kept[n - 1], lines[n][1].append)
    ELSE Kept[n - 1]

Survivors == Kept[Len(lines)]
Damage == {i \in 1..Len(lines) : lines[i] # <<>> /\ ~Decodes(lines[i])}

IsRead(a) == \E i \in 1..Len(lines) : lines[i] = <<[append |-> a, whole |-> TRUE]>>

-----------------------------------------------------------------------------
(* Properties *)

Steps == {"idle", "probe", "leading", "body", "rest", "terminator", "chmod"}

\* Every variable has its type.
TypeOK ==
    /\ lines \in Seq(Seq(Piece)) /\ lines # <<>>
    /\ terminated \in {"unprobed", "yes", "no"}
    /\ chain \in Seq(Appends)
    /\ step \in Steps
    /\ entry \in [Appends -> Entries]
    /\ outcome \in [Appends -> {"uncalled", "pending", "fulfilled", "rejected", "lost"}]
    /\ calls \in Seq(Appends)
    /\ crashes \in 0..MaxCrashes
    /\ faults \in 0..MaxFaults

Fulfilled == {a \in Appends : outcome[a] = "fulfilled"}

\* store.ts, property 3: whatever processes died mid-write, before or after, an
\* append that was fulfilled is read back, as long as no write failed in a
\* process that went on.
CrashLosesNothing == faults = 0 => \A a \in Fulfilled : IsRead(a)

\* What one failed write or failed probe can cost beyond the append it hit: at
\* most one fulfilled append, and no more damaged lines than deaths and faults
\* (and one that is being written).
DamageIsBounded ==
    /\ Cardinality({a \in Fulfilled : ~IsRead(a)}) <= faults
    /\ Cardinality(Damage) <= crashes + faults + (IF step = "rest" THEN 1 ELSE 0)

\* store.ts, property 2: a record that could be read once, by a reader in this
\* process or in a later one, is read by every later reader, although a torn
\* write was closed behind it or the file ended without a terminator.
ReadsOnlyGrow ==
    [][faults' = 0 => \A a \in Appends : IsRead(a) => IsRead(a)']_vars

\* Every append call settles, however the appends before it ended.
EveryAppendSettles ==
    \A a \in Appends : outcome[a] = "pending" ~> outcome[a] # "pending"

\* store.ts:24-29 without the restriction to process deaths: "the damage stays
\* confined to the record that actually tore".
DamageStaysConfined == \A a \in Fulfilled : IsRead(a)

=============================================================================
