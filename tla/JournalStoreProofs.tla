-------------------------- MODULE JournalStoreProofs --------------------------
(***************************************************************************)
(* What holds of the journal file for every number of appends, entries,    *)
(* process deaths and faults.  A closed line never changes, so the         *)
(* inductive invariant is about the open one: what it holds at each step   *)
(* of an append, whether an append is about to be lost on it, and whether  *)
(* it is about to be damaged.  Each fault pays for one of the former, each *)
(* fault and each process death for one of the latter.                     *)
(*                                                                         *)
(* What recovery makes of the file rests on two more arguments: the loops  *)
(* of decodeJournalText and reconstructJournalRecovery are followed one    *)
(* line and one survivor at a time, by induction over sets of numbers, and *)
(* the file is in the order of the calls.                                  *)
(***************************************************************************)
EXTENDS JournalRecovery, WellFoundedInduction, SequenceTheorems, FiniteSetTheorems, TLAPS

\* The line an append that was written whole leaves.
Alone(a, whole) == <<[append |-> a, whole |-> whole]>>

\* Something is chained while an append is in progress.
InProgress == step # "idle" => chain # <<>>

\* What the open line holds at each step of the append at the head, while no
\* write or probe that failed has left its trace on it.
OpenLineInv ==
    /\ step \in {"idle", "probe"} /\ terminated = "yes" => OpenLine = <<>>
    /\ step = "body" => OpenLine = <<>>
    /\ step = "rest" => OpenLine = Alone(Head(chain), FALSE)
    /\ step = "terminator" => OpenLine = Alone(Head(chain), TRUE)
    /\ step = "chmod" =>
        /\ OpenLine = <<>>
        /\ Len(lines) > 1
        /\ lines[Len(lines) - 1] = Alone(Head(chain), TRUE)

\* What is so at a step whatever failed before it.
StepInv ==
    /\ step = "probe" => terminated = "unprobed"
    /\ step = "rest" => OpenLine # <<>>
    /\ step = "chmod" => OpenLine = <<>>

\* Fulfilled appends without a closed line of their own.
HasLine(a) == \E i \in 1..Len(lines) - 1 : lines[i] = Alone(a, TRUE)
Missing == {a \in Fulfilled : ~HasLine(a)}

\* A fault is paid for by one of them, or is still to cost one.
MissingInv ==
    /\ IsFiniteSet(Missing)
    /\ Cardinality(Missing) + (IF OpenLineInv THEN 0 ELSE 1) <= faults

Damaged(line) == line # <<>> /\ ~Decodes(line)
ClosedDamage == {i \in 1..Len(lines) - 1 : Damaged(lines[i])}

\* The open line is damaged past repair, or what comes next is glued to it.
Condemned ==
    \/ Damaged(OpenLine) /\ ~(step = "rest" /\ Len(OpenLine) = 1)
    \/ Decodes(OpenLine) /\ (step = "body" \/ (step = "idle" /\ terminated = "yes"))

\* Deaths and faults pay for the damage.
Harm == Cardinality(ClosedDamage)
Paid == crashes + faults

DamageInv == Harm <= Paid /\ (Condemned => Harm < Paid)

FileInv == TypeOK /\ InProgress /\ StepInv /\ MissingInv /\ DamageInv

-----------------------------------------------------------------------------
(* The two ways the file changes. *)

\* Rewriting the open line leaves the closed lines and the length alone.
LEMMA RewriteOpenLine ==
    ASSUME TypeOK, NEW line \in Seq(Piece), WriteOn(line)
    PROVE  /\ lines' \in Seq(Seq(Piece)) /\ lines' # <<>>
           /\ Len(lines') = Len(lines)
           /\ OpenLine' = line
           /\ \A i \in 1..Len(lines) - 1 : lines'[i] = lines[i]
BY DEF TypeOK, WriteOn, OpenLine

\* A terminator closes the open line and opens an empty one.
LEMMA CloseLine ==
    ASSUME TypeOK, lines' = Append(lines, <<>>)
    PROVE  /\ lines' \in Seq(Seq(Piece)) /\ lines' # <<>>
           /\ Len(lines') = Len(lines) + 1
           /\ OpenLine' = <<>>
           /\ \A i \in 1..Len(lines) : lines'[i] = lines[i]
<1>1. lines \in Seq(Seq(Piece)) /\ Len(lines) \in Nat /\ <<>> \in Seq(Piece)
  BY DEF TypeOK
<1>2. /\ Append(lines, <<>>) \in Seq(Seq(Piece))
      /\ Len(Append(lines, <<>>)) = Len(lines) + 1
      /\ \A i \in 1..Len(lines) + 1 :
            Append(lines, <<>>)[i] = IF i <= Len(lines) THEN lines[i] ELSE <<>>
  BY <1>1, AppendProperties
<1>3. lines' # <<>>
  BY <1>1, <1>2
<1> QED
  BY <1>1, <1>2, <1>3 DEF OpenLine

\* Replacing the last element of a sequence.
LEMMA ReplaceLast ==
    ASSUME NEW S, NEW s \in Seq(S), NEW e \in S
    PROVE  [s EXCEPT ![Len(s)] = e] \in Seq(S)
<1>1. s \in [1..Len(s) -> S] /\ Len(s) \in Nat
  BY LenProperties
<1>2. [s EXCEPT ![Len(s)] = e] \in [1..Len(s) -> S]
  BY <1>1
<1> QED
  BY <1>1, <1>2, SeqDef

LEMMA ReplaceOnly ==
    ASSUME NEW x, NEW y
    PROVE  [<<x>> EXCEPT ![1] = y] = <<y>>
<1>1. <<x>> \in Seq({x, y}) /\ <<y>> \in Seq({x, y}) /\ Len(<<x>>) = 1 /\ Len(<<y>>) = 1
  OBVIOUS
<1>2. 1 \in 1..Len(<<x>>)
  BY <1>1
<1>3. /\ [<<x>> EXCEPT ![1] = y] \in Seq({x, y})
      /\ Len([<<x>> EXCEPT ![1] = y]) = Len(<<x>>)
      /\ \A j \in 1..Len(<<x>>) :
            [<<x>> EXCEPT ![1] = y][j] = IF j = 1 THEN y ELSE <<x>>[j]
  BY <1>1, <1>2, ExceptSeq
<1>4. \A j \in 1..1 : [<<x>> EXCEPT ![1] = y][j] = <<y>>[j]
  BY <1>1, <1>3
<1> QED
  BY <1>1, <1>3, <1>4, SeqEqual

\* The file has a line, and its lines are counted.
LEMMA LineCount == TypeOK => Len(lines) \in Nat \ {0}
BY EmptySeq DEF TypeOK

-----------------------------------------------------------------------------
(* Type correctness. *)

LEMMA InitType == Init => TypeOK
BY FaultsAssumption DEF Init, TypeOK, Steps

LEMMA SettleType ==
    ASSUME TypeOK, chain # <<>>, NEW how \in {"fulfilled", "rejected"}, Settle(how)
    PROVE  /\ chain' \in Seq(Appends)
           /\ step' = "idle"
           /\ outcome' \in [Appends ->
                {"uncalled", "pending", "fulfilled", "rejected", "lost"}]
           /\ UNCHANGED <<entry, calls, crashes>>
<1>1. Tail(chain) \in Seq(Appends) /\ Head(chain) \in Appends
  BY HeadTailProperties DEF TypeOK
<1> QED
  BY <1>1 DEF TypeOK, Settle

LEMMA NextType ==
    ASSUME TypeOK, InProgress, [Next]_vars
    PROVE  TypeOK' /\ InProgress'
<1> USE FaultsAssumption
<1>1. ASSUME NEW a \in Appends, CallAppend(a)
      PROVE  TypeOK' /\ InProgress'
  <2>1. /\ Append(chain, a) \in Seq(Appends) /\ Append(calls, a) \in Seq(Appends)
        /\ Len(Append(chain, a)) = Len(chain) + 1 /\ Len(chain) \in Nat
    BY AppendProperties DEF TypeOK
  <2>2. chain' # <<>>
    BY <1>1, <2>1 DEF CallAppend, Join
  <2> QED
    BY <1>1, <2>1, <2>2 DEF CallAppend, Join, TypeOK, InProgress
<1>2. CASE DirectoryMade
  <2>1. CASE Settle("rejected") /\ UNCHANGED <<lines, terminated, faults>>
    BY <1>2, <2>1, SettleType DEF DirectoryMade, TypeOK, InProgress, Steps
  <2>2. CASE /\ \E s \in Steps : Go(s)
             /\ chain # <<>> /\ UNCHANGED <<lines, terminated, faults>>
    BY <2>2 DEF Go, TypeOK, InProgress
  <2> QED
    BY <1>2, <2>1, <2>2 DEF DirectoryMade, FirstByte, Steps
<1>3. CASE Probed
  <2>1. chain # <<>> /\ faults' \in 0..MaxFaults /\ terminated' \in {"unprobed", "yes", "no"}
    BY <1>3 DEF Probed, InProgress, TypeOK
  <2>2. CASE Settle("rejected")
    BY <1>3, <2>1, <2>2, SettleType DEF Probed, TypeOK, InProgress, Steps
  <2>3. CASE \E s \in Steps : Go(s)
    BY <1>3, <2>1, <2>3 DEF Probed, Go, TypeOK, InProgress
  <2> QED
    BY <1>3, <2>2, <2>3 DEF Probed, FirstByte, Steps
<1>4. CASE Written
  <2>1. /\ chain # <<>> /\ Head(chain) \in Appends
        /\ UNCHANGED <<terminated, chain, entry, outcome, calls, crashes, faults>>
        /\ step' \in Steps \ {"idle"}
    BY <1>4 DEF Written, Go, TypeOK, InProgress, Steps
  <2>2. \A w \in BOOLEAN : [append |-> Head(chain), whole |-> w] \in Piece
    BY <2>1 DEF Piece
  <2>3. OpenLine \in Seq(Piece)
    BY DEF OpenLine, TypeOK
  <2>4. lines' \in Seq(Seq(Piece)) /\ lines' # <<>>
    <3>1. CASE lines' = Append(lines, <<>>)
      BY <3>1, CloseLine
    <3>2. CASE \E w \in BOOLEAN :
                WriteOn(Append(OpenLine, [append |-> Head(chain), whole |-> w]))
      <4>1. PICK w \in BOOLEAN :
                WriteOn(Append(OpenLine, [append |-> Head(chain), whole |-> w]))
        BY <3>2
      <4>2. Append(OpenLine, [append |-> Head(chain), whole |-> w]) \in Seq(Piece)
        BY <2>2, <2>3
      <4> QED
        BY <4>1, <4>2, RewriteOpenLine
    <3>3. CASE WriteOn([OpenLine EXCEPT ![Len(OpenLine)] =
                            [append |-> Head(chain), whole |-> TRUE]])
      <4>1. [OpenLine EXCEPT ![Len(OpenLine)] =
                [append |-> Head(chain), whole |-> TRUE]] \in Seq(Piece)
        BY <2>2, <2>3, ReplaceLast
      <4> QED
        BY <3>3, <4>1, RewriteOpenLine
    <3> QED
      BY <1>4, <3>1, <3>2, <3>3 DEF Written
  <2> QED
    BY <2>1, <2>4 DEF TypeOK, InProgress
<1>5. CASE WriteFailed
  <2>1. chain # <<>> /\ faults' \in 0..MaxFaults
    BY <1>5 DEF WriteFailed, InProgress, TypeOK
  <2> QED
    BY <1>5, <2>1, SettleType DEF WriteFailed, TypeOK, InProgress, Steps
<1>6. CASE ModeSet
  <2>1. chain # <<>> /\ terminated' \in {"unprobed", "yes", "no"}
    BY <1>6 DEF ModeSet, InProgress, TypeOK
  <2>2. PICK how \in {"fulfilled", "rejected"} : Settle(how)
    BY <1>6 DEF ModeSet
  <2> QED
    BY <1>6, <2>1, <2>2, SettleType DEF ModeSet, TypeOK, InProgress, Steps
<1>7. CASE Crash
  BY <1>7 DEF Crash, TypeOK, InProgress, Steps
<1>8. CASE UNCHANGED vars
  BY <1>8 DEF vars, TypeOK, InProgress
<1> QED
  BY <1>1, <1>2, <1>3, <1>4, <1>5, <1>6, <1>7, <1>8 DEF Next, Progress

\* Every variable of the store keeps its type, for any appends, entries and
\* bounds.
THEOREM TypeCorrect == Spec => []TypeOK
<1>1. Init => TypeOK /\ InProgress
  BY InitType DEF Init, InProgress
<1>2. TypeOK /\ InProgress /\ [Next]_vars => (TypeOK /\ InProgress)'
  BY NextType
<1> QED
  BY <1>1, <1>2, PTL DEF Spec

-----------------------------------------------------------------------------
(* The steps, as far as the parts of the invariant tell them apart. *)

\* A step of the write: what it does to the file.
LEMMA WrittenCases ==
    ASSUME TypeOK, InProgress, Written
    PROVE  /\ UNCHANGED <<terminated, chain, outcome, crashes, faults>>
           /\ Head(chain) \in Appends
           /\ \/ step = "leading" /\ step' = "body" /\ lines' = Append(lines, <<>>)
              \/ step = "terminator" /\ step' = "chmod" /\ lines' = Append(lines, <<>>)
              \/ /\ step = "body"
                 /\ \E w \in BOOLEAN :
                      /\ Append(OpenLine, [append |-> Head(chain), whole |-> w]) \in Seq(Piece)
                      /\ WriteOn(Append(OpenLine, [append |-> Head(chain), whole |-> w]))
                      /\ step' = IF w THEN "terminator" ELSE "rest"
              \/ /\ step = "rest" /\ step' = "terminator"
                 /\ [OpenLine EXCEPT ![Len(OpenLine)] =
                        [append |-> Head(chain), whole |-> TRUE]] \in Seq(Piece)
                 /\ WriteOn([OpenLine EXCEPT ![Len(OpenLine)] =
                                [append |-> Head(chain), whole |-> TRUE]])
<1>1. /\ UNCHANGED <<terminated, chain, outcome, crashes, faults>> /\ chain # <<>>
      /\ OpenLine \in Seq(Piece)
  BY DEF Written, Go, InProgress, OpenLine, TypeOK
<1>2. Head(chain) \in Appends
  BY <1>1, HeadTailProperties DEF TypeOK
<1>3. \A w \in BOOLEAN : [append |-> Head(chain), whole |-> w] \in Piece
  BY <1>2 DEF Piece
<1>4. \A w \in BOOLEAN :
        Append(OpenLine, [append |-> Head(chain), whole |-> w]) \in Seq(Piece)
  BY <1>1, <1>3
<1>5. [OpenLine EXCEPT ![Len(OpenLine)] =
        [append |-> Head(chain), whole |-> TRUE]] \in Seq(Piece)
  BY <1>1, <1>3, ReplaceLast
<1>6. CASE step = "body"
  BY <1>1, <1>2, <1>4, <1>6 DEF Written, Go
<1>7. CASE step # "body"
  BY <1>1, <1>2, <1>5, <1>7 DEF Written, Go
<1> QED
  BY <1>6, <1>7

\* Only a step of the write touches the file, and no step touches a line that
\* is closed.
LEMMA ClosedLinesStay ==
    ASSUME TypeOK, InProgress, [Next]_vars
    PROVE  /\ Len(lines) \in Nat \ {0} /\ Len(lines') \in Nat \ {0}
           /\ Len(lines) <= Len(lines')
           /\ \A i \in 1..Len(lines) - 1 : lines'[i] = lines[i]
<1>1. Len(lines) \in Nat \ {0}
  BY LineCount
<1>2. CASE Written
  <2>1. CASE lines' = Append(lines, <<>>)
    BY <1>1, <2>1, CloseLine
  <2>2. CASE \E line \in Seq(Piece) : WriteOn(line)
    BY <1>1, <2>2, RewriteOpenLine
  <2> QED
    BY <1>2, <2>1, <2>2, WrittenCases
<1>3. CASE UNCHANGED lines
  BY <1>1, <1>3
<1> QED
  BY <1>2, <1>3
     DEF Next, Progress, vars, CallAppend, DirectoryMade, Probed, WriteFailed,
         ModeSet, Crash

\* A fault is a write or a probe that failed; only the answer of chmod fulfils
\* an append.
LEMMA StepKinds ==
    ASSUME TypeOK, [Next]_vars
    PROVE  /\ faults \in Nat /\ crashes \in Nat
           /\ faults' = faults \/ faults' = faults + 1
           /\ crashes' = crashes \/ crashes' = crashes + 1
           /\ \/ \A a \in Appends : outcome'[a] = "fulfilled" => outcome[a] = "fulfilled"
              \/ ModeSet /\ Settle("fulfilled")
<1>1. faults \in Nat /\ crashes \in Nat
  BY FaultsAssumption DEF TypeOK
<1>2. ASSUME NEW a \in Appends, CallAppend(a)
      PROVE  /\ UNCHANGED <<faults, crashes>>
             /\ \A b \in Appends : outcome'[b] = "fulfilled" => outcome[b] = "fulfilled"
  BY <1>2 DEF CallAppend, TypeOK
<1>3. ASSUME DirectoryMade \/ Probed \/ Written \/ WriteFailed
      PROVE  /\ faults' = faults \/ faults' = faults + 1
             /\ UNCHANGED crashes
             /\ UNCHANGED outcome \/ Settle("rejected")
  BY <1>3 DEF DirectoryMade, Probed, Written, WriteFailed, Go, Settle
<1>4. Settle("rejected") =>
        \A b \in Appends : outcome'[b] = "fulfilled" => outcome[b] = "fulfilled"
  BY DEF Settle, TypeOK
<1>5. CASE ModeSet
  BY <1>1, <1>4, <1>5 DEF ModeSet, Settle
<1>6. CASE Crash
  BY <1>1, <1>6 DEF Crash, TypeOK
<1>7. CASE UNCHANGED vars
  BY <1>1, <1>7 DEF vars
<1> QED
  BY <1>1, <1>2, <1>3, <1>4, <1>5, <1>6, <1>7 DEF Next, Progress

-----------------------------------------------------------------------------
(* What the open line holds. *)

LEMMA OpenLineStep ==
    ASSUME TypeOK, InProgress, OpenLineInv, [Next]_vars, faults' = faults
    PROVE  OpenLineInv'
<1>1. ASSUME NEW a \in Appends, CallAppend(a)
      PROVE  OpenLineInv'
  <2>1. UNCHANGED <<lines, terminated, step>>
    BY <1>1 DEF CallAppend
  <2>2. step # "idle" => Head(chain') = Head(chain)
    BY <1>1 DEF CallAppend, Join, InProgress, TypeOK
  <2>3. step \in {"rest", "terminator", "chmod"} => Head(chain') = Head(chain)
    BY <2>2
  <2> QED
    BY <2>1, <2>3 DEF OpenLineInv, OpenLine, Alone
<1>2. CASE DirectoryMade
  <2>1. terminated \in {"unprobed", "yes", "no"}
    BY DEF TypeOK
  <2>2. /\ OpenLine' = OpenLine /\ terminated' = terminated
        /\ terminated = "yes" => OpenLine = <<>>
        /\ step' \in {"idle", "probe", "leading", "body"}
        /\ step' = "body" => terminated = "yes"
    BY <1>2, <2>1 DEF DirectoryMade, Go, FirstByte, Settle, OpenLineInv, OpenLine
  <2> QED
    BY <2>2 DEF OpenLineInv
<1>3. CASE Probed
  <2>1. faults \in Nat
    BY FaultsAssumption DEF TypeOK
  <2>2. /\ UNCHANGED lines /\ step = "probe"
        /\ step' \in {"idle", "leading", "body"}
        /\ \/ UNCHANGED terminated /\ step' = "idle"
           \/ /\ terminated' = IF OpenLine = <<>> THEN "yes" ELSE "no"
              /\ step' = FirstByte(terminated')
    BY <1>3, <2>1 DEF Probed, Go, FirstByte, Settle
  <2> QED
    BY <2>2 DEF OpenLineInv, OpenLine, FirstByte
<1>4. CASE Written
  <2>1. UNCHANGED chain /\ Head(chain) \in Appends
    BY <1>4, WrittenCases
  <2>2. \A w \in BOOLEAN : Alone(Head(chain), w) \in Seq(Piece)
    BY <2>1 DEF Alone, Piece
  <2>3. CASE step = "leading" /\ lines' = Append(lines, <<>>) /\ step' = "body"
    BY <2>3, CloseLine DEF OpenLineInv
  <2>4. ASSUME NEW w \in BOOLEAN, step = "body",
               WriteOn(Append(OpenLine, [append |-> Head(chain), whole |-> w])),
               step' = IF w THEN "terminator" ELSE "rest"
        PROVE  OpenLineInv'
    <3>1. WriteOn(Alone(Head(chain), w))
      BY <2>4 DEF OpenLineInv, Alone
    <3>2. OpenLine' = Alone(Head(chain), w)
      BY <2>2, <3>1, RewriteOpenLine
    <3> QED
      BY <2>1, <2>4, <3>2 DEF OpenLineInv, Alone
  <2>5. CASE /\ step = "rest" /\ step' = "terminator"
             /\ WriteOn([OpenLine EXCEPT ![Len(OpenLine)] =
                            [append |-> Head(chain), whole |-> TRUE]])
    <3>1. OpenLine = <<[append |-> Head(chain), whole |-> FALSE]>> /\ Len(OpenLine) = 1
      BY <2>5 DEF OpenLineInv, Alone
    <3>2. [OpenLine EXCEPT ![Len(OpenLine)] =
              [append |-> Head(chain), whole |-> TRUE]] = Alone(Head(chain), TRUE)
      BY <3>1, ReplaceOnly DEF Alone
    <3>3. OpenLine' = Alone(Head(chain), TRUE)
      BY <2>2, <2>5, <3>2, RewriteOpenLine
    <3> QED
      BY <2>1, <2>5, <3>3 DEF OpenLineInv, Alone
  <2>6. CASE step = "terminator" /\ lines' = Append(lines, <<>>) /\ step' = "chmod"
    <3>1. lines[Len(lines)] = Alone(Head(chain), TRUE)
      BY <2>6 DEF OpenLineInv, OpenLine
    <3>2. /\ Len(lines') = Len(lines) + 1 /\ OpenLine' = <<>>
          /\ \A i \in 1..Len(lines) : lines'[i] = lines[i]
      BY <2>6, CloseLine
    <3>3. Len(lines') - 1 = Len(lines) /\ Len(lines) \in 1..Len(lines) /\ Len(lines') > 1
      BY <3>2, LineCount
    <3> QED
      BY <2>1, <2>6, <3>1, <3>2, <3>3 DEF OpenLineInv, Alone
  <2> QED
    BY <1>4, <2>3, <2>4, <2>5, <2>6, WrittenCases
<1>5. CASE ModeSet
  BY <1>5 DEF ModeSet, Settle, OpenLineInv, OpenLine
<1>6. CASE Crash
  BY <1>6 DEF Crash, OpenLineInv
<1>7. CASE UNCHANGED vars
  BY <1>7 DEF vars, OpenLineInv, OpenLine, Alone
<1>8. ~WriteFailed
  BY FaultsAssumption DEF WriteFailed, TypeOK
<1> QED
  BY <1>1, <1>2, <1>3, <1>4, <1>5, <1>6, <1>7, <1>8 DEF Next, Progress

LEMMA StepStep ==
    ASSUME TypeOK, InProgress, StepInv, [Next]_vars
    PROVE  StepInv'
<1>1. CASE Written
  <2>1. CASE lines' = Append(lines, <<>>) /\ step' \in {"body", "chmod"}
    BY <2>1, CloseLine DEF StepInv
  <2>2. ASSUME NEW w \in BOOLEAN, step = "body",
               Append(OpenLine, [append |-> Head(chain), whole |-> w]) \in Seq(Piece),
               WriteOn(Append(OpenLine, [append |-> Head(chain), whole |-> w])),
               step' = IF w THEN "terminator" ELSE "rest"
        PROVE  StepInv'
    <3>1. OpenLine' = Append(OpenLine, [append |-> Head(chain), whole |-> w])
      BY <2>2, RewriteOpenLine
    <3>2. Len(OpenLine') # 0
      <4>1. OpenLine \in Seq(Piece) /\ [append |-> Head(chain), whole |-> w] \in Piece
        BY <1>1, WrittenCases DEF OpenLine, TypeOK, Piece
      <4> QED
        BY <3>1, <4>1, AppendProperties
    <3> QED
      BY <2>2, <3>2 DEF StepInv
  <2>3. CASE step = "rest" /\ step' = "terminator"
    BY <2>3 DEF StepInv
  <2> QED
    BY <1>1, <2>1, <2>2, <2>3, WrittenCases
<1>2. CASE UNCHANGED <<lines, terminated, step>>
  BY <1>2 DEF StepInv, OpenLine
<1>3. CASE DirectoryMade
  BY <1>3 DEF DirectoryMade, Go, Settle, FirstByte, StepInv
<1>4. CASE Probed
  BY <1>4 DEF Probed, Go, Settle, FirstByte, StepInv
<1>5. CASE step' = "idle"
  BY <1>5 DEF StepInv
<1> QED
  BY <1>1, <1>2, <1>3, <1>4, <1>5
     DEF Next, Progress, vars, CallAppend, WriteFailed, ModeSet, Crash, Settle

-----------------------------------------------------------------------------
(* What faults and process deaths cost. *)

\* An append that has a line keeps it.
LEMMA LineKept ==
    ASSUME TypeOK, InProgress, [Next]_vars, NEW a, HasLine(a)
    PROVE  HasLine(a)'
<1>1. PICK i \in 1..Len(lines) - 1 : lines[i] = Alone(a, TRUE)
  BY DEF HasLine
<1>2. /\ Len(lines) \in Nat /\ Len(lines') \in Nat /\ Len(lines) <= Len(lines')
      /\ \A j \in 1..Len(lines) - 1 : lines'[j] = lines[j]
  BY ClosedLinesStay
<1>3. \E j \in 1..Len(lines') - 1 : lines'[j] = Alone(a, TRUE)
  <2>1. i \in 1..Len(lines') - 1
    BY <1>1, <1>2
  <2>2. lines'[i] = Alone(a, TRUE)
    BY <1>1, <1>2
  <2> QED
    BY <2>1, <2>2
<1> QED
  BY <1>3 DEF HasLine, Alone

LEMMA MissingStep ==
    ASSUME TypeOK, InProgress, StepInv, MissingInv, [Next]_vars
    PROVE  MissingInv'
<1> DEFINE debt == IF OpenLineInv THEN 0 ELSE 1
<1>1. /\ faults \in Nat /\ faults' \in Nat
      /\ IsFiniteSet(Missing) /\ Cardinality(Missing) \in Nat
      /\ Cardinality(Missing) + debt <= faults
  BY StepKinds, FS_CardinalityType DEF MissingInv
<1>2. CASE \A a \in Appends : outcome'[a] = "fulfilled" => outcome[a] = "fulfilled"
  <2>1. Missing' \subseteq Missing
    BY <1>2, LineKept DEF Missing, Fulfilled
  <2>2. IsFiniteSet(Missing') /\ Cardinality(Missing') <= Cardinality(Missing)
        /\ Cardinality(Missing') \in Nat
    BY <1>1, <2>1, FS_Subset, FS_CardinalityType
  <2>3. CASE faults' = faults
    <3>1. OpenLineInv => OpenLineInv'
      BY <2>3, OpenLineStep
    <3> QED
      BY <1>1, <2>2, <2>3, <3>1 DEF MissingInv
  <2>4. CASE faults' = faults + 1
    BY <1>1, <2>2, <2>4 DEF MissingInv
  <2> QED
    BY <2>3, <2>4, StepKinds
<1>3. CASE ModeSet /\ Settle("fulfilled")
  <2>1. /\ step = "chmod" /\ step' = "idle" /\ UNCHANGED <<lines, faults>>
        /\ OpenLine = <<>>
        /\ \A a \in Appends :
              outcome'[a] = "fulfilled" => outcome[a] = "fulfilled" \/ a = Head(chain)
    BY <1>3 DEF ModeSet, Settle, StepInv, TypeOK
  <2>2. OpenLineInv'
    BY <2>1 DEF OpenLineInv, OpenLine
  <2>3. Missing' \subseteq Missing \cup {Head(chain)}
    BY <2>1, LineKept DEF Missing, Fulfilled
  <2>4. CASE OpenLineInv
    <3>1. HasLine(Head(chain))
      <4>1. lines[Len(lines) - 1] = Alone(Head(chain), TRUE) /\ Len(lines) > 1
        BY <2>1, <2>4 DEF OpenLineInv
      <4>2. Len(lines) - 1 \in 1..Len(lines) - 1
        BY <4>1, LineCount
      <4> QED
        BY <4>1, <4>2 DEF HasLine
    <3>2. Missing' \subseteq Missing
      <4> SUFFICES ASSUME NEW a \in Missing'
                   PROVE  a \in Missing
        OBVIOUS
      <4>1. a \in Appends /\ outcome'[a] = "fulfilled" /\ ~HasLine(a)'
        BY DEF Missing, Fulfilled
      <4>2. ~HasLine(a)
        BY <4>1, LineKept
      <4>3. a # Head(chain)
        BY <3>1, <4>2
      <4> QED
        BY <2>1, <4>1, <4>2, <4>3 DEF Missing, Fulfilled
    <3>3. IsFiniteSet(Missing') /\ Cardinality(Missing') <= Cardinality(Missing)
          /\ Cardinality(Missing') \in Nat
      BY <1>1, <3>2, FS_Subset, FS_CardinalityType
    <3> QED
      BY <1>1, <2>1, <2>2, <2>4, <3>3 DEF MissingInv
  <2>5. CASE ~OpenLineInv
    <3>1. /\ IsFiniteSet(Missing \cup {Head(chain)})
          /\ Cardinality(Missing \cup {Head(chain)}) <= Cardinality(Missing) + 1
          /\ Cardinality(Missing \cup {Head(chain)}) \in Nat
      <4>1. /\ IsFiniteSet(Missing \cup {Head(chain)})
            /\ Cardinality(Missing \cup {Head(chain)}) =
                 IF Head(chain) \in Missing THEN Cardinality(Missing) ELSE Cardinality(Missing) + 1
        BY <1>1, FS_AddElement
      <4> QED
        BY <1>1, <4>1
    <3>2. /\ IsFiniteSet(Missing') /\ Cardinality(Missing') \in Nat
          /\ Cardinality(Missing') <= Cardinality(Missing \cup {Head(chain)})
      BY <2>3, <3>1, FS_Subset, FS_CardinalityType
    <3> QED
      BY <1>1, <2>1, <2>2, <2>5, <3>1, <3>2 DEF MissingInv
  <2> QED
    BY <2>4, <2>5
<1> QED
  BY <1>2, <1>3, StepKinds

LEMMA AddOne ==
    ASSUME NEW S, IsFiniteSet(S), NEW x
    PROVE  Cardinality(S \cup {x}) \in Nat /\ Cardinality(S \cup {x}) <= Cardinality(S) + 1
<1>1. Cardinality(S \cup {x}) = IF x \in S THEN Cardinality(S) ELSE Cardinality(S) + 1
  BY FS_AddElement
<1>2. Cardinality(S) \in Nat
  BY FS_CardinalityType
<1> QED
  BY <1>1, <1>2

LEMMA ClosedDamageFinite ==
    ASSUME TypeOK
    PROVE  IsFiniteSet(ClosedDamage) /\ Harm \in Nat
<1>1. ClosedDamage \subseteq 1..Len(lines) - 1 /\ IsFiniteSet(1..Len(lines) - 1)
  BY LineCount, FS_Interval DEF ClosedDamage
<1> QED
  BY <1>1, FS_Subset, FS_CardinalityType DEF Harm

\* The open line is all that a step may damage, and it was condemned before it
\* is closed.
LEMMA DamageStep ==
    ASSUME TypeOK, InProgress, StepInv, DamageInv, [Next]_vars
    PROVE  DamageInv'
<1>1. /\ Len(lines) \in Nat \ {0} /\ Len(lines') \in Nat \ {0}
      /\ Len(lines) <= Len(lines')
      /\ \A i \in 1..Len(lines) - 1 : lines'[i] = lines[i]
  BY ClosedLinesStay
<1>2. Paid \in Nat /\ Paid' \in Nat /\ Paid <= Paid'
  BY StepKinds DEF Paid
<1>3. Harm \in Nat /\ Harm <= Paid /\ (Condemned => Harm < Paid)
  BY ClosedDamageFinite DEF DamageInv
<1>4. ASSUME Len(lines') = Len(lines)
      PROVE  Harm' \in Nat /\ Harm' <= Harm
  <2>1. ClosedDamage' = ClosedDamage
    BY <1>1, <1>4 DEF ClosedDamage, Damaged, Decodes
  <2> QED
    BY <1>3, <2>1 DEF Harm
<1>5. ASSUME Len(lines') = Len(lines), Condemned' => Condemned
      PROVE  DamageInv'
  <2>1. Harm' \in Nat /\ Harm' <= Harm
    BY <1>4, <1>5
  <2>2. Harm' <= Paid'
    BY <1>2, <1>3, <2>1
  <2>3. CASE Condemned
    <3>1. Harm < Paid
      BY <1>3, <2>3
    <3>2. Harm' < Paid'
      BY <1>2, <1>3, <2>1, <3>1
    <3> QED
      BY <2>2, <3>2 DEF DamageInv
  <2>4. CASE ~Condemned
    BY <1>5, <2>2, <2>4 DEF DamageInv
  <2> QED
    BY <2>3, <2>4
<1>6. ASSUME Len(lines') = Len(lines), Paid + 1 <= Paid'
      PROVE  DamageInv'
  <2>1. Harm' \in Nat /\ Harm' <= Harm
    BY <1>4, <1>6
  <2>2. Harm' < Paid' /\ Harm' <= Paid'
    BY <1>2, <1>3, <1>6, <2>1
  <2> QED
    BY <2>2 DEF DamageInv
<1>7. ASSUME lines' = Append(lines, <<>>), step \in {"leading", "terminator"}
      PROVE  DamageInv'
  <2>1. /\ Len(lines') = Len(lines) + 1 /\ OpenLine' = <<>>
        /\ \A i \in 1..Len(lines) : lines'[i] = lines[i]
    BY <1>7, CloseLine
  <2>2. ~Condemned'
    BY <2>1 DEF Condemned, Damaged, Decodes
  <2>3. ClosedDamage' = {i \in 1..Len(lines) : Damaged(lines[i])}
    BY <1>1, <2>1 DEF ClosedDamage, Damaged, Decodes
  <2>4. ClosedDamage' = ClosedDamage \cup (IF Damaged(OpenLine) THEN {Len(lines)} ELSE {})
    <3>1. 1..Len(lines) = (1..Len(lines) - 1) \cup {Len(lines)}
      BY <1>1
    <3> QED
      BY <2>3, <3>1 DEF ClosedDamage, OpenLine
  <2>5. Harm' <= Paid'
    <3>1. CASE Damaged(OpenLine)
      <4>1. Harm < Paid
        BY <1>3, <1>7, <3>1 DEF Condemned
      <4>2. ClosedDamage' = ClosedDamage \cup {Len(lines)}
        BY <2>4, <3>1
      <4>3. Harm' \in Nat /\ Harm' <= Harm + 1
        BY <4>2, ClosedDamageFinite, AddOne DEF Harm
      <4> QED
        BY <1>2, <1>3, <4>1, <4>3
    <3>2. CASE ~Damaged(OpenLine)
      <4>1. ClosedDamage' = ClosedDamage
        BY <2>4, <3>2
      <4>2. Harm' \in Nat /\ Harm' <= Harm
        BY <1>3, <4>1 DEF Harm
      <4> QED
        BY <1>2, <1>3, <4>2
    <3> QED
      BY <3>1, <3>2
  <2> QED
    BY <2>2, <2>5 DEF DamageInv
<1>8. CASE Written
  <2>1. OpenLine \in Seq(Piece) /\ Len(OpenLine) \in Nat
    BY <1>1 DEF OpenLine, TypeOK
  <2>2. ASSUME NEW w \in BOOLEAN, step = "body",
               Append(OpenLine, [append |-> Head(chain), whole |-> w]) \in Seq(Piece),
               WriteOn(Append(OpenLine, [append |-> Head(chain), whole |-> w])),
               step' = IF w THEN "terminator" ELSE "rest"
        PROVE  DamageInv'
    <3>1. /\ Len(lines') = Len(lines)
          /\ OpenLine' = Append(OpenLine, [append |-> Head(chain), whole |-> w])
      BY <2>2, RewriteOpenLine
    <3>2. CASE OpenLine = <<>>
      <4>1. Len(OpenLine') = 1 /\ OpenLine'[1].whole = w
        BY <3>1, <3>2
      <4>2. ~Condemned'
        BY <2>2, <4>1 DEF Condemned, Damaged, Decodes
      <4> QED
        BY <1>5, <3>1, <4>2
    <3>3. CASE OpenLine # <<>>
      <4>1. Condemned
        BY <2>2, <3>3 DEF Condemned, Damaged
      <4> QED
        BY <1>5, <3>1, <4>1
    <3> QED
      BY <3>2, <3>3
  <2>3. ASSUME step = "rest", step' = "terminator",
               [OpenLine EXCEPT ![Len(OpenLine)] =
                  [append |-> Head(chain), whole |-> TRUE]] \in Seq(Piece),
               WriteOn([OpenLine EXCEPT ![Len(OpenLine)] =
                            [append |-> Head(chain), whole |-> TRUE]])
        PROVE  DamageInv'
    <3>1. /\ Len(lines') = Len(lines)
          /\ OpenLine' = [OpenLine EXCEPT ![Len(OpenLine)] =
                            [append |-> Head(chain), whole |-> TRUE]]
      BY <2>3, RewriteOpenLine
    <3>2. CASE Len(OpenLine) = 1
      <4>1. Len(OpenLine') = 1 /\ OpenLine'[1].whole = TRUE
        BY <2>1, <3>1, <3>2
      <4>2. ~Condemned'
        BY <2>3, <4>1 DEF Condemned, Damaged, Decodes
      <4> QED
        BY <1>5, <3>1, <4>2
    <3>3. CASE Len(OpenLine) # 1
      <4>1. Condemned
        BY <2>3, <3>3 DEF Condemned, Damaged, Decodes, StepInv
      <4> QED
        BY <1>5, <3>1, <4>1
    <3> QED
      BY <3>2, <3>3
  <2> QED
    BY <1>7, <1>8, <2>2, <2>3, WrittenCases
<1>9. CASE WriteFailed \/ Crash
  <2>1. UNCHANGED lines /\ Paid + 1 <= Paid'
    BY <1>9, StepKinds DEF WriteFailed, Crash, Settle, Paid
  <2> QED
    BY <1>6, <2>1
<1>10. CASE Probed
  <2>1. UNCHANGED <<lines, crashes>> /\ OpenLine' = OpenLine
    BY <1>10 DEF Probed, Go, Settle, OpenLine
  <2>2. CASE faults' = faults + 1
    <3>1. Paid + 1 <= Paid'
      BY <2>1, <2>2, StepKinds DEF Paid
    <3> QED
      BY <1>6, <2>1, <3>1
  <2>3. CASE UNCHANGED faults
    <3>1. Condemned' => Condemned
      BY <1>10, <2>1, <2>3, StepKinds
         DEF Probed, Go, Settle, FirstByte, Condemned, Damaged, Decodes, StepInv
    <3> QED
      BY <1>5, <2>1, <3>1
  <2> QED
    BY <2>2, <2>3, StepKinds
<1>11. CASE DirectoryMade
  <2>1. UNCHANGED <<lines, terminated>> /\ OpenLine' = OpenLine
    BY <1>11 DEF DirectoryMade, OpenLine
  <2>2. /\ step = "idle" /\ step' \in {"idle", "probe", "leading", "body"}
        /\ step' = "body" => terminated = "yes"
    BY <1>11 DEF DirectoryMade, Go, Settle, FirstByte, TypeOK
  <2>3. Condemned' => Condemned
    BY <2>1, <2>2 DEF Condemned, Damaged, Decodes
  <2> QED
    BY <1>5, <2>1, <2>3
<1>12. CASE ModeSet
  <2>1. UNCHANGED lines /\ OpenLine' = <<>>
    BY <1>12 DEF ModeSet, StepInv, OpenLine
  <2>2. ~Condemned'
    BY <2>1 DEF Condemned, Damaged, Decodes
  <2> QED
    BY <1>5, <2>1, <2>2
<1>13. CASE UNCHANGED <<lines, terminated, step>>
  <2>1. Condemned' => Condemned
    BY <1>13 DEF Condemned, Damaged, Decodes, OpenLine
  <2> QED
    BY <1>5, <1>13, <2>1
<1> QED
  BY <1>8, <1>9, <1>10, <1>11, <1>12, <1>13 DEF Next, Progress, vars, CallAppend

-----------------------------------------------------------------------------
(* The invariant. *)

LEMMA InitFile == Init => FileInv
<1> SUFFICES ASSUME Init
             PROVE  FileInv
  OBVIOUS
<1>1. TypeOK /\ InProgress
  BY InitType DEF Init, InProgress
<1>2. OpenLine = <<>> /\ step = "idle" /\ faults = 0 /\ crashes = 0
  BY DEF Init, OpenLine
<1>3. StepInv /\ OpenLineInv /\ ~Condemned
  BY <1>2 DEF StepInv, OpenLineInv, Condemned, Damaged, Decodes
<1>4. Missing = {} /\ ClosedDamage = {}
  BY DEF Init, Missing, Fulfilled, ClosedDamage
<1> QED
  BY <1>1, <1>2, <1>3, <1>4, FS_EmptySet DEF FileInv, MissingInv, DamageInv, Harm, Paid

LEMMA NextFile == FileInv /\ [Next]_vars => FileInv'
BY NextType, StepStep, MissingStep, DamageStep DEF FileInv

LEMMA FileInvariant == Spec => []FileInv
BY InitFile, NextFile, PTL DEF Spec

\* Without a fault nothing is missing and nothing is owed.
LEMMA FaultFree ==
    ASSUME FileInv, faults = 0
    PROVE  OpenLineInv /\ Missing = {}
<1>1. IsFiniteSet(Missing) /\ Cardinality(Missing) \in Nat
  BY FS_CardinalityType DEF FileInv, MissingInv
<1>2. OpenLineInv /\ Cardinality(Missing) = 0
  BY <1>1 DEF FileInv, MissingInv
<1> QED
  BY <1>1, <1>2, FS_EmptySet

-----------------------------------------------------------------------------
(* The promises of the store. *)

LEMMA LineIsRead == \A a : TypeOK /\ HasLine(a) => IsRead(a)
<1> SUFFICES ASSUME NEW a, TypeOK, HasLine(a)
             PROVE  IsRead(a)
  OBVIOUS
<1>1. PICK i \in 1..Len(lines) - 1 : lines[i] = Alone(a, TRUE)
  BY DEF HasLine
<1>2. i \in 1..Len(lines)
  BY <1>1, LineCount
<1> QED
  BY <1>1, <1>2 DEF IsRead, Alone

\* However many processes die in the middle of a write, every fulfilled append
\* is read back.
THEOREM CrashLosesNothingHolds == Spec => []CrashLosesNothing
<1>1. FileInv => CrashLosesNothing
  BY FaultFree, LineIsRead DEF FileInv, CrashLosesNothing, Missing, Fulfilled
<1> QED
  BY <1>1, FileInvariant, PTL

\* Each fault costs at most one fulfilled append, and each fault and each
\* process death damages at most one line.
THEOREM DamageIsBoundedHolds == Spec => []DamageIsBounded
<1>1. FileInv => DamageIsBounded
  <2> SUFFICES ASSUME FileInv
               PROVE  DamageIsBounded
    OBVIOUS
  <2>1. /\ TypeOK /\ Len(lines) \in Nat \ {0} /\ faults \in Nat /\ crashes \in Nat
    BY LineCount, FaultsAssumption DEF FileInv, TypeOK
  <2>2. Cardinality({a \in Fulfilled : ~IsRead(a)}) <= faults
    <3>1. {a \in Fulfilled : ~IsRead(a)} \subseteq Missing
      BY <2>1, LineIsRead DEF Missing
    <3>2. IsFiniteSet(Missing) /\ Cardinality(Missing) \in Nat
          /\ Cardinality(Missing) <= faults
      BY <2>1, FS_CardinalityType DEF FileInv, MissingInv
    <3>3. /\ Cardinality({a \in Fulfilled : ~IsRead(a)}) \in Nat
          /\ Cardinality({a \in Fulfilled : ~IsRead(a)}) <= Cardinality(Missing)
      BY <3>1, <3>2, FS_Subset, FS_CardinalityType
    <3> QED
      BY <2>1, <3>2, <3>3
  <2>3. Cardinality(Damage) <= crashes + faults + (IF step = "rest" THEN 1 ELSE 0)
    <3>1. Damage = ClosedDamage \cup (IF Damaged(OpenLine) THEN {Len(lines)} ELSE {})
      <4>1. 1..Len(lines) = (1..Len(lines) - 1) \cup {Len(lines)}
        BY <2>1
      <4> QED
        BY <4>1 DEF Damage, ClosedDamage, Damaged, OpenLine
    <3>2. /\ Harm \in Nat /\ Paid \in Nat /\ Harm <= Paid /\ (Condemned => Harm < Paid)
          /\ IsFiniteSet(ClosedDamage)
      BY <2>1, ClosedDamageFinite DEF FileInv, DamageInv, Paid
    <3>3. CASE Damaged(OpenLine)
      <4>1. Harm < Paid \/ step = "rest"
        BY <3>2, <3>3 DEF Condemned
      <4>2. Cardinality(Damage) \in Nat /\ Cardinality(Damage) <= Harm + 1
        <5>1. Damage = ClosedDamage \cup {Len(lines)}
          BY <3>1, <3>3
        <5> QED
          BY <3>2, <5>1, AddOne DEF Harm
      <4>3. Cardinality(Damage) <= Paid + (IF step = "rest" THEN 1 ELSE 0)
        BY <3>2, <4>1, <4>2
      <4> QED
        BY <4>3 DEF Paid
    <3>4. CASE ~Damaged(OpenLine)
      <4>1. Cardinality(Damage) \in Nat /\ Cardinality(Damage) <= Harm
        BY <3>1, <3>2, <3>4 DEF Harm
      <4>2. Cardinality(Damage) <= Paid + (IF step = "rest" THEN 1 ELSE 0)
        BY <3>2, <4>1
      <4> QED
        BY <4>2 DEF Paid
    <3> QED
      BY <3>3, <3>4
  <2> QED
    BY <2>2, <2>3 DEF DamageIsBounded
<1> QED
  BY <1>1, FileInvariant, PTL

\* A record that could be read once is never lost to a reader again.
THEOREM ReadsOnlyGrowHolds == Spec => ReadsOnlyGrow
<1>1. FileInv /\ [Next]_vars =>
        [faults' = 0 => \A a \in Appends : IsRead(a) => IsRead(a)']_vars
  <2> SUFFICES ASSUME FileInv, [Next]_vars, faults' = 0, NEW a \in Appends, IsRead(a)
               PROVE  IsRead(a)'
    OBVIOUS
  <2>1. TypeOK /\ OpenLineInv /\ InProgress
    <3>1. TypeOK /\ InProgress /\ faults = 0
      BY StepKinds DEF FileInv
    <3> QED
      BY <3>1, FaultFree
  <2>2. PICK i \in 1..Len(lines) : lines[i] = Alone(a, TRUE)
    BY DEF IsRead, Alone
  <2>3. CASE UNCHANGED lines
    BY <2>2, <2>3 DEF IsRead, Alone
  <2>4. CASE lines' = Append(lines, <<>>)
    <3>1. /\ Len(lines') = Len(lines) + 1
          /\ \A j \in 1..Len(lines) : lines'[j] = lines[j]
      BY <2>1, <2>4, CloseLine
    <3>2. i \in 1..Len(lines')
      <4>1. Len(lines) \in Nat
        BY <2>1, LineCount
      <4> QED
        BY <2>2, <3>1, <4>1
    <3>3. lines'[i] = Alone(a, TRUE)
      BY <2>2, <3>1
    <3> QED
      BY <3>2, <3>3 DEF IsRead, Alone
  <2>5. CASE step \in {"body", "rest"} /\ \E line \in Seq(Piece) : WriteOn(line)
    <3>1. i # Len(lines)
      <4>1. OpenLine # Alone(a, TRUE)
        <5>1. CASE OpenLine = <<>>
          BY <5>1 DEF Alone
        <5>2. CASE OpenLine = Alone(Head(chain), FALSE)
          <6>1. OpenLine[1].whole = FALSE /\ Alone(a, TRUE)[1].whole = TRUE
            BY <5>2 DEF Alone
          <6> QED
            BY <6>1
        <5> QED
          BY <2>1, <2>5, <5>1, <5>2 DEF OpenLineInv
      <4> QED
        BY <2>2, <4>1 DEF OpenLine
    <3>2. PICK line \in Seq(Piece) : WriteOn(line)
      BY <2>5
    <3>3. i \in 1..Len(lines') /\ lines'[i] = Alone(a, TRUE)
      <4>1. i \in 1..Len(lines) - 1
        BY <2>1, <2>2, <3>1 DEF TypeOK
      <4> QED
        BY <2>1, <2>2, <3>2, <4>1, RewriteOpenLine
    <3> QED
      BY <3>3 DEF IsRead, Alone
  <2>6. Written => \/ lines' = Append(lines, <<>>)
                   \/ step \in {"body", "rest"} /\ \E line \in Seq(Piece) : WriteOn(line)
    <3> SUFFICES ASSUME Written, lines' # Append(lines, <<>>)
                 PROVE  step \in {"body", "rest"} /\ \E line \in Seq(Piece) : WriteOn(line)
      OBVIOUS
    <3>1. Head(chain) \in Appends /\ OpenLine \in Seq(Piece) /\ step \in {"body", "rest"}
      BY <2>1 DEF Written, TypeOK, InProgress, OpenLine
    <3>2. \A w \in BOOLEAN : [append |-> Head(chain), whole |-> w] \in Piece
      BY <3>1 DEF Piece
    <3>3. \A w \in BOOLEAN :
            Append(OpenLine, [append |-> Head(chain), whole |-> w]) \in Seq(Piece)
      BY <3>1, <3>2
    <3>4. [OpenLine EXCEPT ![Len(OpenLine)] =
                [append |-> Head(chain), whole |-> TRUE]] \in Seq(Piece)
      BY <3>1, <3>2, ReplaceLast
    <3> QED
      BY <3>1, <3>3, <3>4 DEF Written
  <2> QED
    BY <2>3, <2>4, <2>5, <2>6
       DEF Next, Progress, vars, CallAppend, DirectoryMade, Probed, WriteFailed,
           ModeSet, Crash
<1> QED
  BY <1>1, FileInvariant, PTL DEF Spec, ReadsOnlyGrow

-----------------------------------------------------------------------------
(* Induction over the natural numbers, as a fact about sets of them. *)

LessThan == {pair \in Nat \X Nat : pair[1] < pair[2]}

\* A set of numbers that has 0 and, with each number, the next has them all.
LEMMA SetInduction ==
    ASSUME NEW T, 0 \in T, \A n \in Nat : n \in T => n + 1 \in T
    PROVE  \A n \in Nat : n \in T
<1>1. IsWellFoundedOn(LessThan, Nat)
  BY NatLessThanWellFounded DEF OpToRel, LessThan
<1>2. SUFFICES ASSUME Nat \ T # {}
               PROVE  FALSE
  OBVIOUS
<1>3. PICK least \in Nat \ T : \A n \in Nat \ T : ~ (<<n, least>> \in LessThan)
  <2>1. Nat \ T \subseteq Nat
    OBVIOUS
  <2> QED
    BY <1>1, <1>2, <2>1, WFMin
<1>4. least \in Nat /\ least # 0 /\ least - 1 \in Nat
  BY <1>3
<1>5. <<least - 1, least>> \in LessThan
  BY <1>4 DEF LessThan
<1>6. least - 1 \in T
  BY <1>3, <1>4, <1>5
<1>7. (least - 1) + 1 \in T
  BY <1>4, <1>6
<1>8. (least - 1) + 1 = least
  BY <1>4
<1> QED
  BY <1>3, <1>7, <1>8

-----------------------------------------------------------------------------
(* What is read, line by line. *)

KeptNext(kept, line) ==
    IF Decodes(line) THEN Append(kept, line[1].append) ELSE kept

\* The loop is defined on the lines before any line n.
LEMMA KeptUpTo ==
    ASSUME NEW n \in Nat
    PROVE  \E f : f = [m \in 0..n |-> IF m = 0 THEN <<>>
                                      ELSE IF Decodes(lines[m])
                                      THEN Append(f[m - 1], lines[m][1].append)
                                      ELSE f[m - 1]]
<1> DEFINE Upto(k, f) == f = [m \in 0..k |-> IF m = 0 THEN <<>>
                                      ELSE IF Decodes(lines[m])
                                      THEN Append(f[m - 1], lines[m][1].append)
                                      ELSE f[m - 1]]
           T == {k \in Nat : \E f : Upto(k, f)}
<1>1. 0 \in T
  <2>1. Upto(0, [m \in 0..0 |-> <<>>])
    OBVIOUS
  <2> QED
    BY <2>1
<1>2. ASSUME NEW k \in Nat, k \in T
      PROVE  k + 1 \in T
  <2>1. PICK f : Upto(k, f)
    BY <1>2
  <2> DEFINE g == [m \in 0..k + 1 |-> IF m = k + 1 THEN KeptNext(f[k], lines[k + 1]) ELSE f[m]]
  <2>2. \A m \in 0..k + 1 : m # 0 => g[m - 1] = f[m - 1]
    OBVIOUS
  <2>3. \A m \in 0..k : f[m] = IF m = 0 THEN <<>> ELSE KeptNext(f[m - 1], lines[m])
    BY <2>1 DEF KeptNext
  <2>4. \A m \in 0..k + 1 : g[m] = IF m = 0 THEN <<>> ELSE KeptNext(g[m - 1], lines[m])
    <3>1. CASE k + 1 = 0
      BY <3>1
    <3> QED
      BY <2>2, <2>3
  <2>5. g = [m \in 0..k + 1 |-> IF m = 0 THEN <<>> ELSE KeptNext(g[m - 1], lines[m])]
    <3> HIDE DEF KeptNext
    <3>1. g = [m \in 0..k + 1 |-> g[m]]
      OBVIOUS
    <3> HIDE DEF g
    <3> QED
      BY <2>4, <3>1
  <2>6. Upto(k + 1, g)
    <3> HIDE DEF g
    <3> QED
      BY <2>5 DEF KeptNext
  <2>7. k + 1 \in Nat
    OBVIOUS
  <2> HIDE DEF Upto, g
  <2> QED
    BY <2>6, <2>7
<1>3. n \in T
  BY <1>1, <1>2, SetInduction
<1> QED
  BY <1>3

LEMMA KeptRule ==
    ASSUME TypeOK
    PROVE  /\ Kept[0] = <<>>
           /\ \A n \in 1..Len(lines) : Kept[n] = KeptNext(Kept[n - 1], lines[n])
<1>1. Len(lines) \in Nat
  BY LineCount
<1>2. Kept = [m \in 0..Len(lines) |-> IF m = 0 THEN <<>>
                                      ELSE IF Decodes(lines[m])
                                      THEN Append(Kept[m - 1], lines[m][1].append)
                                      ELSE Kept[m - 1]]
  BY <1>1, KeptUpTo DEF Kept
<1>3. \A m \in 0..Len(lines) :
        Kept[m] = IF m = 0 THEN <<>> ELSE KeptNext(Kept[m - 1], lines[m])
  BY <1>2 DEF KeptNext
<1>4. Kept[0] = <<>>
  BY <1>1, <1>3
<1>5. ASSUME NEW n \in 1..Len(lines)
      PROVE  Kept[n] = KeptNext(Kept[n - 1], lines[n])
  <2>1. n \in 0..Len(lines) /\ n # 0
    BY <1>1
  <2> QED
    BY <1>3, <2>1
<1> QED
  BY <1>4, <1>5

\* The survivors of the first n lines, with the line each one is on.
Places(n, at) ==
    /\ Kept[n] \in Seq(Appends)
    /\ at \in [1..Len(Kept[n]) -> 1..n]
    /\ \A p \in 1..Len(Kept[n]) :
        Decodes(lines[at[p]]) /\ lines[at[p]][1].append = Kept[n][p]
    /\ \A p, q \in 1..Len(Kept[n]) : p < q => at[p] < at[q]
    /\ \A i \in 1..n : Decodes(lines[i]) => \E p \in 1..Len(Kept[n]) : at[p] = i

\* One more line.
LEMMA PlacesNext ==
    ASSUME TypeOK, NEW n \in Nat, n + 1 <= Len(lines), NEW at, Places(n, at)
    PROVE  \E then : Places(n + 1, then)
<1> DEFINE kept == Kept[n]
           line == lines[n + 1]
<1>1. /\ Len(lines) \in Nat /\ n + 1 \in 1..Len(lines) /\ (n + 1) - 1 = n
      /\ kept \in Seq(Appends) /\ Len(kept) \in Nat
  BY LineCount DEF Places
<1>2. Kept[n + 1] = KeptNext(kept, line)
  BY <1>1, KeptRule
<1>3. CASE ~Decodes(line)
  <2>1. Kept[n + 1] = kept
    BY <1>2, <1>3 DEF KeptNext
  <2>2. at \in [1..Len(kept) -> 1..n + 1]
    BY <1>1 DEF Places
  <2>3. \A i \in 1..n + 1 : Decodes(lines[i]) => i \in 1..n
    BY <1>3
  <2>4. Places(n + 1, at)
    BY <2>1, <2>2, <2>3 DEF Places
  <2> QED
    BY <2>4
<1>4. CASE Decodes(line)
  <2>1. Kept[n + 1] = Append(kept, line[1].append)
    BY <1>2, <1>4 DEF KeptNext
  <2>2. line[1].append \in Appends
    <3>1. line \in Seq(Piece) /\ Len(line) = 1
      BY <1>1, <1>4 DEF TypeOK, Decodes
    <3>2. line[1] \in Piece
      BY <3>1
    <3> QED
      BY <3>2 DEF Piece
  <2>3. /\ Kept[n + 1] \in Seq(Appends)
        /\ Len(Kept[n + 1]) = Len(kept) + 1
        /\ \A p \in 1..Len(kept) : Kept[n + 1][p] = kept[p]
        /\ Kept[n + 1][Len(kept) + 1] = line[1].append
    <3> HIDE DEF kept, line
    <3> QED
      BY <1>1, <2>1, <2>2, AppendProperties
  <2> DEFINE then == [p \in 1..Len(kept) + 1 |-> IF p = Len(kept) + 1 THEN n + 1 ELSE at[p]]
  <2>4. /\ \A p \in 1..Len(kept) : then[p] = at[p] /\ at[p] \in 1..n
        /\ then[Len(kept) + 1] = n + 1
        /\ \A p \in 1..Len(kept) + 1 : p \in 1..Len(kept) \/ p = Len(kept) + 1
    BY <1>1 DEF Places
  <2>5. then \in [1..Len(kept) + 1 -> 1..n + 1]
    <3>1. then = [p \in 1..Len(kept) + 1 |-> then[p]]
      OBVIOUS
    <3> HIDE DEF then
    <3>2. ASSUME NEW p \in 1..Len(kept) + 1
          PROVE  then[p] \in 1..n + 1
      <4>1. CASE p \in 1..Len(kept)
        BY <2>4, <4>1
      <4>2. CASE p = Len(kept) + 1
        BY <2>4, <4>2
      <4> QED
        BY <2>4, <4>1, <4>2
    <3> QED
      BY <3>1, <3>2
  <2> HIDE DEF then
  <2>6. \A p \in 1..Len(kept) + 1 :
            Decodes(lines[then[p]]) /\ lines[then[p]][1].append = Kept[n + 1][p]
    BY <1>4, <2>3, <2>4 DEF Places
  <2>7. \A p, q \in 1..Len(kept) + 1 : p < q => then[p] < then[q]
    <3> SUFFICES ASSUME NEW p \in 1..Len(kept) + 1, NEW q \in 1..Len(kept) + 1, p < q
                 PROVE  then[p] < then[q]
      OBVIOUS
    <3>1. p \in 1..Len(kept) /\ then[p] = at[p] /\ at[p] \in 1..n
      BY <1>1, <2>4
    <3>2. CASE q = Len(kept) + 1
      BY <2>4, <3>1, <3>2
    <3>3. CASE q \in 1..Len(kept)
      BY <2>4, <3>1, <3>3 DEF Places
    <3> QED
      BY <2>4, <3>2, <3>3
  <2>8. ASSUME NEW i \in 1..n + 1, Decodes(lines[i])
        PROVE  \E p \in 1..Len(kept) + 1 : then[p] = i
    <3>1. CASE i = n + 1
      BY <1>1, <2>4, <3>1
    <3>2. CASE i \in 1..n
      <4>1. PICK p \in 1..Len(kept) : at[p] = i
        BY <2>8, <3>2 DEF Places
      <4>2. p \in 1..Len(kept) + 1
        BY <1>1
      <4> QED
        BY <2>4, <4>1, <4>2
    <3> QED
      BY <3>1, <3>2
  <2>9. Places(n + 1, then)
    <3> HIDE DEF kept
    <3> QED
      BY <2>3, <2>5, <2>6, <2>7, <2>8 DEF Places
  <2> QED
    BY <2>9
<1> QED
  BY <1>3, <1>4

\* The survivors are the appends of the lines that decode, in file order.
LEMMA SurvivorsInOrder ==
    ASSUME TypeOK
    PROVE  \E at : Places(Len(lines), at)
<1> DEFINE T == {n \in Nat : n <= Len(lines) => \E at : Places(n, at)}
<1>1. 0 \in T
  <2>1. Places(0, <<>>)
    <3>1. Kept[0] = <<>>
      BY KeptRule
    <3> QED
      BY <3>1 DEF Places
  <2> QED
    BY <2>1
<1>2. ASSUME NEW n \in Nat, n \in T
      PROVE  n + 1 \in T
  <2>1. ASSUME n + 1 <= Len(lines)
        PROVE  \E at : Places(n + 1, at)
    <3>1. n <= Len(lines)
      BY <2>1, LineCount
    <3>2. PICK at : Places(n, at)
      BY <1>2, <3>1
    <3> QED
      BY <2>1, <3>2, PlacesNext
  <2> QED
    BY <2>1
<1>3. Len(lines) \in Nat
  BY LineCount
<1>4. Len(lines) \in T
  <2> HIDE DEF T
  <2> QED
    BY <1>1, <1>2, <1>3, SetInduction
<1> QED
  BY <1>3, <1>4

-----------------------------------------------------------------------------
(* Replay, survivor by survivor. *)

Folded[n \in 0..Len(Survivors)] ==
    IF n = 0 THEN <<>> ELSE Apply(Folded[n - 1], Survivors[n])

LEMMA RecoverIsFolded == Recover = Folded[Len(Survivors)]
BY DEF Recover, Folded

\* The loop is defined on the survivors before any survivor n.
LEMMA FoldedUpTo ==
    ASSUME NEW n \in Nat
    PROVE  \E f : f = [m \in 0..n |-> IF m = 0 THEN <<>>
                                      ELSE Apply(f[m - 1], Survivors[m])]
<1> DEFINE Upto(k, f) == f = [m \in 0..k |-> IF m = 0 THEN <<>>
                                      ELSE Apply(f[m - 1], Survivors[m])]
           T == {k \in Nat : \E f : Upto(k, f)}
<1>1. 0 \in T
  <2>1. Upto(0, [m \in 0..0 |-> <<>>])
    OBVIOUS
  <2> QED
    BY <2>1
<1>2. ASSUME NEW k \in Nat, k \in T
      PROVE  k + 1 \in T
  <2>1. PICK f : Upto(k, f)
    BY <1>2
  <2> DEFINE g == [m \in 0..k + 1 |->
                      IF m = k + 1 THEN Apply(f[k], Survivors[k + 1]) ELSE f[m]]
  <2>2. \A m \in 0..k + 1 : m # 0 => g[m - 1] = f[m - 1]
    OBVIOUS
  <2>3. \A m \in 0..k : f[m] = IF m = 0 THEN <<>> ELSE Apply(f[m - 1], Survivors[m])
    BY <2>1
  <2>4. \A m \in 0..k + 1 : g[m] = IF m = 0 THEN <<>> ELSE Apply(g[m - 1], Survivors[m])
    BY <2>2, <2>3
  <2>5. g = [m \in 0..k + 1 |-> g[m]]
    OBVIOUS
  <2> HIDE DEF g
  <2>6. Upto(k + 1, g)
    BY <2>4, <2>5
  <2>7. k + 1 \in Nat
    OBVIOUS
  <2> HIDE DEF Upto
  <2> QED
    BY <2>6, <2>7
<1>3. n \in T
  BY <1>1, <1>2, SetInduction
<1> QED
  BY <1>3

LEMMA SurvivorsType == TypeOK => Survivors \in Seq(Appends) /\ Len(Survivors) \in Nat
BY SurvivorsInOrder DEF Places, Survivors

LEMMA FoldedRule ==
    ASSUME TypeOK
    PROVE  /\ Folded[0] = <<>>
           /\ \A n \in 1..Len(Survivors) :
                Folded[n] = Apply(Folded[n - 1], Survivors[n])
<1>1. Len(Survivors) \in Nat
  BY SurvivorsType
<1>2. Folded = [m \in 0..Len(Survivors) |->
                    IF m = 0 THEN <<>> ELSE Apply(Folded[m - 1], Survivors[m])]
  BY <1>1, FoldedUpTo DEF Folded
<1>3. \A m \in 0..Len(Survivors) :
        Folded[m] = IF m = 0 THEN <<>> ELSE Apply(Folded[m - 1], Survivors[m])
  BY <1>2
<1>4. Folded[0] = <<>>
  BY <1>1, <1>3
<1>5. ASSUME NEW n \in 1..Len(Survivors)
      PROVE  Folded[n] = Apply(Folded[n - 1], Survivors[n])
  <2>1. n \in 0..Len(Survivors) /\ n # 0
    BY <1>1
  <2> QED
    BY <1>3, <2>1
<1> QED
  BY <1>4, <1>5

\* An append stands for one of the entries JournalEngine.record makes.
LEMMA EntryShape ==
    ASSUME TypeOK, NEW a \in Appends
    PROVE  /\ entry[a].key \in Keys
           /\ \/ entry[a].phase = "started"
              \/ /\ entry[a].phase = "completed"
                 /\ entry[a].status \in {"definite", "unknown-outcome"}
                 /\ entry[a] = Completed(entry[a].key, entry[a].status)
<1>1. entry[a] \in JournalEntries
  BY EntriesAssumption DEF TypeOK
<1> QED
  BY <1>1 DEF JournalEntries, Started, Completed

\* The record an entry leaves of its operation.
Record(records, a) ==
    LET e == entry[a]
        known == e.key \in DOMAIN records
        previous == records[e.key]
    IN  [disposition |-> IF e.phase = "started" THEN "pending" ELSE DispositionOf(e.status),
         startedAt |-> IF known THEN previous.startedAt ELSE a,
         updatedAt |-> a,
         attempts |-> IF known THEN previous.attempts + (IF e.phase = "started" THEN 1 ELSE 0)
                      ELSE 1]

LEMMA ApplyRule ==
    ASSUME NEW records, NEW a,
           entry[a].key \in DOMAIN records => records[entry[a].key].attempts \in Nat
    PROVE  /\ DOMAIN Apply(records, a) = DOMAIN records \cup {entry[a].key}
           /\ Apply(records, a)[entry[a].key] = Record(records, a)
           /\ \A k \in DOMAIN records \ {entry[a].key} :
                Apply(records, a)[k] = records[k]
<1> DEFINE new == IF entry[a].phase = "started"
                  THEN [disposition |-> "pending",
                        startedAt |-> IF entry[a].key \in DOMAIN records
                                      THEN records[entry[a].key].startedAt ELSE a,
                        updatedAt |-> a,
                        attempts |-> IF entry[a].key \in DOMAIN records
                                     THEN records[entry[a].key].attempts + 1 ELSE 1]
                  ELSE [disposition |-> DispositionOf(entry[a].status),
                        startedAt |-> IF entry[a].key \in DOMAIN records
                                      THEN records[entry[a].key].startedAt ELSE a,
                        updatedAt |-> a,
                        attempts |-> IF entry[a].key \in DOMAIN records
                                     THEN records[entry[a].key].attempts ELSE 1]
<1>1. new = Record(records, a)
  BY DEF Record
<1>2. Apply(records, a) = Put(records, entry[a].key, new)
  BY DEF Apply
<1> HIDE DEF new
<1> QED
  BY <1>1, <1>2 DEF Put

\* The survivors of an operation among the first n, and its starts.
Mine(n, k) == {i \in 1..n : entry[Survivors[i]].key = k}
Starts(n, k) == {i \in Mine(n, k) : entry[Survivors[i]].phase = "started"}
Headless(i) == IF entry[Survivors[i]].phase = "completed" THEN 1 ELSE 0
Disposition(e) == IF e.phase = "started" THEN "pending" ELSE DispositionOf(e.status)

\* A record tells of the first and the last of them, and of how many starts.
Tells(n, k, record, first, last) ==
    /\ first \in Mine(n, k) /\ last \in Mine(n, k)
    /\ \A i \in Mine(n, k) : first <= i /\ i <= last
    /\ record.startedAt = Survivors[first]
    /\ record.updatedAt = Survivors[last]
    /\ record.disposition = Disposition(entry[Survivors[last]])
    /\ record.attempts = Headless(first) + Cardinality(Starts(n, k))

FoldedInv(n) ==
    /\ DOMAIN Folded[n] = {entry[Survivors[i]].key : i \in 1..n}
    /\ \A k \in DOMAIN Folded[n] : \E first, last : Tells(n, k, Folded[n][k], first, last)

LEMMA StartsCounted ==
    ASSUME NEW n \in Nat, NEW k
    PROVE  IsFiniteSet(Starts(n, k)) /\ Cardinality(Starts(n, k)) \in Nat
<1>1. IsFiniteSet(1..n)
  BY FS_Interval
<1>2. Starts(n, k) \subseteq 1..n
  BY DEF Starts, Mine
<1> QED
  BY <1>1, <1>2, FS_Subset, FS_CardinalityType

\* One more survivor: what it adds to the operations it does not belong to, and
\* to its own.
LEMMA OneMore ==
    ASSUME NEW n \in Nat, NEW k
    PROVE  /\ entry[Survivors[n + 1]].key # k =>
                Mine(n + 1, k) = Mine(n, k) /\ Starts(n + 1, k) = Starts(n, k)
           /\ entry[Survivors[n + 1]].key = k =>
                /\ Mine(n + 1, k) = Mine(n, k) \cup {n + 1}
                /\ Cardinality(Starts(n + 1, k)) = Cardinality(Starts(n, k))
                      + (IF entry[Survivors[n + 1]].phase = "started" THEN 1 ELSE 0)
<1>1. 1..n + 1 = (1..n) \cup {n + 1} /\ n + 1 \notin 1..n
  OBVIOUS
<1>2. CASE entry[Survivors[n + 1]].key # k
  BY <1>1, <1>2 DEF Mine, Starts
<1>3. CASE entry[Survivors[n + 1]].key = k
  <2>1. Mine(n + 1, k) = Mine(n, k) \cup {n + 1}
    BY <1>1, <1>3 DEF Mine
  <2>2. n + 1 \notin Starts(n, k)
    BY <1>1 DEF Starts, Mine
  <2>3. IsFiniteSet(Starts(n, k)) /\ Cardinality(Starts(n, k)) \in Nat
    BY StartsCounted
  <2>4. CASE entry[Survivors[n + 1]].phase = "started"
    <3>1. Starts(n + 1, k) = Starts(n, k) \cup {n + 1}
      BY <2>1, <2>4 DEF Starts
    <3>2. Cardinality(Starts(n + 1, k)) = Cardinality(Starts(n, k)) + 1
      BY <2>2, <2>3, <3>1, FS_AddElement
    <3> QED
      BY <1>3, <2>1, <2>4, <3>2
  <2>5. CASE entry[Survivors[n + 1]].phase # "started"
    <3>1. Starts(n + 1, k) = Starts(n, k)
      BY <2>1, <2>5 DEF Starts
    <3> QED
      BY <1>3, <2>1, <2>3, <2>5, <3>1
  <2> QED
    BY <2>4, <2>5
<1> QED
  BY <1>2, <1>3

\* The record of an operation after one more survivor.
LEMMA FoldedStep ==
    ASSUME TypeOK, NEW n \in Nat, n + 1 <= Len(Survivors), FoldedInv(n)
    PROVE  FoldedInv(n + 1)
<1> DEFINE a == Survivors[n + 1]
           key == entry[a].key
           before == Folded[n]
           after == Folded[n + 1]
<1>1. /\ n + 1 \in 1..Len(Survivors) /\ (n + 1) - 1 = n /\ a \in Appends
      /\ 1..n + 1 = (1..n) \cup {n + 1} /\ \A i \in 1..n : i <= n + 1 /\ i # n + 1
  BY SurvivorsType
<1>2. after = Apply(before, a)
  BY <1>1, FoldedRule
<1>3. \A k \in DOMAIN before : before[k].attempts \in Nat
  <2> SUFFICES ASSUME NEW k \in DOMAIN before
               PROVE  before[k].attempts \in Nat
    OBVIOUS
  <2>1. PICK first, last : Tells(n, k, before[k], first, last)
    BY DEF FoldedInv
  <2> QED
    BY <2>1, StartsCounted DEF Tells, Headless
<1>4. /\ DOMAIN after = DOMAIN before \cup {key}
      /\ after[key] = Record(before, a)
      /\ \A k \in DOMAIN before \ {key} : after[k] = before[k]
  <2> HIDE DEF a, before, after
  <2> QED
    BY <1>2, <1>3, ApplyRule DEF key
<1>5. DOMAIN after = {entry[Survivors[i]].key : i \in 1..n + 1}
  BY <1>1, <1>4 DEF FoldedInv
<1>6. ASSUME NEW k \in DOMAIN after, k # key
      PROVE  \E first, last : Tells(n + 1, k, after[k], first, last)
  <2>1. k \in DOMAIN before /\ after[k] = before[k]
    BY <1>4, <1>6
  <2>2. PICK first, last : Tells(n, k, before[k], first, last)
    BY <2>1 DEF FoldedInv
  <2>3. Mine(n + 1, k) = Mine(n, k) /\ Starts(n + 1, k) = Starts(n, k)
    BY <1>6, OneMore
  <2> HIDE DEF before, after
  <2>4. Tells(n + 1, k, after[k], first, last)
    BY <2>1, <2>2, <2>3 DEF Tells
  <2> QED
    BY <2>4
<1>7. \E first, last : Tells(n + 1, key, after[key], first, last)
  <2>1. /\ Mine(n + 1, key) = Mine(n, key) \cup {n + 1}
        /\ Cardinality(Starts(n + 1, key)) = Cardinality(Starts(n, key))
              + (IF entry[a].phase = "started" THEN 1 ELSE 0)
        /\ Cardinality(Starts(n, key)) \in Nat
    BY OneMore, StartsCounted
  <2>2. \A i \in Mine(n, key) : i <= n + 1
    BY <1>1 DEF Mine
  <2>3. entry[a].phase \in {"started", "completed"}
    BY <1>1, EntryShape
  <2>4. /\ after[key].disposition = Disposition(entry[a])
        /\ after[key].updatedAt = a
        /\ after[key].startedAt = IF key \in DOMAIN before THEN before[key].startedAt ELSE a
        /\ after[key].attempts =
              IF key \in DOMAIN before
              THEN before[key].attempts + (IF entry[a].phase = "started" THEN 1 ELSE 0)
              ELSE 1
    <3> HIDE DEF a, before, after
    <3> QED
      BY <1>4 DEF Record, Disposition, key
  <2>5. CASE key \in DOMAIN before
    <3>1. PICK first, last : Tells(n, key, before[key], first, last)
      BY <2>5 DEF FoldedInv
    <3>2. first \in Mine(n + 1, key) /\ n + 1 \in Mine(n + 1, key) /\ first <= n + 1
      BY <2>1, <2>2, <3>1 DEF Tells
    <3>3. \A i \in Mine(n + 1, key) : first <= i /\ i <= n + 1
      BY <2>1, <2>2, <3>1, <3>2 DEF Tells
    <3>4. after[key].startedAt = Survivors[first]
      BY <2>4, <2>5, <3>1 DEF Tells
    <3>5. after[key].attempts = Headless(first) + Cardinality(Starts(n + 1, key))
      <4>1. before[key].attempts = Headless(first) + Cardinality(Starts(n, key))
        BY <3>1 DEF Tells
      <4>2. Headless(first) \in Nat
        BY DEF Headless
      <4> HIDE DEF a, key, before, after
      <4> QED
        BY <2>1, <2>4, <2>5, <4>1, <4>2
    <3>6. Tells(n + 1, key, after[key], first, n + 1)
      <4> HIDE DEF key, before, after
      <4> QED
        BY <2>4, <3>2, <3>3, <3>4, <3>5 DEF Tells
    <3> QED
      BY <3>6
  <2>6. CASE key \notin DOMAIN before
    <3>1. Mine(n, key) = {} /\ Starts(n, key) = {}
      BY <2>6 DEF FoldedInv, Mine, Starts
    <3>2. Mine(n + 1, key) = {n + 1}
      BY <2>1, <3>1
    <3>3. Cardinality(Starts(n, key)) = 0
      BY <3>1, FS_EmptySet
    <3>4. after[key].attempts = Headless(n + 1) + Cardinality(Starts(n + 1, key))
      <4>1. CASE entry[a].phase = "started"
        BY <2>1, <2>4, <2>6, <3>3, <4>1 DEF Headless
      <4>2. CASE entry[a].phase = "completed"
        BY <2>1, <2>4, <2>6, <3>3, <4>2 DEF Headless
      <4> QED
        BY <2>3, <4>1, <4>2
    <3>5. Tells(n + 1, key, after[key], n + 1, n + 1)
      <4> HIDE DEF key, before, after
      <4> QED
        BY <2>4, <2>6, <3>2, <3>4 DEF Tells
    <3> QED
      BY <3>5
  <2> QED
    BY <2>5, <2>6
<1> QED
  BY <1>5, <1>6, <1>7 DEF FoldedInv

LEMMA FoldedAll ==
    ASSUME TypeOK
    PROVE  FoldedInv(Len(Survivors))
<1> DEFINE T == {n \in Nat : n <= Len(Survivors) => FoldedInv(n)}
<1>1. 0 \in T
  <2>1. DOMAIN Folded[0] = {}
    BY FoldedRule
  <2>2. FoldedInv(0)
    BY <2>1 DEF FoldedInv
  <2> QED
    BY <2>2
<1>2. Len(Survivors) \in Nat
  BY SurvivorsType
<1>3. ASSUME NEW n \in Nat, n \in T
      PROVE  n + 1 \in T
  <2>1. ASSUME n + 1 <= Len(Survivors)
        PROVE  FoldedInv(n + 1)
    <3>1. n <= Len(Survivors)
      BY <1>2, <2>1
    <3>2. FoldedInv(n)
      BY <1>3, <3>1
    <3> QED
      BY <2>1, <3>2, FoldedStep
  <2> QED
    BY <2>1
<1>4. Len(Survivors) \in T
  <2> HIDE DEF T
  <2> QED
    BY <1>1, <1>2, <1>3, SetInduction
<1> QED
  BY <1>2, <1>4

\* What replay makes of an operation.
LEMMA RecoverTells ==
    ASSUME TypeOK
    PROVE  /\ DOMAIN Recover = {entry[Survivors[i]].key : i \in 1..Len(Survivors)}
           /\ \A k \in DOMAIN Recover :
                \E first, last : Tells(Len(Survivors), k, Recover[k], first, last)
BY FoldedAll, RecoverIsFolded DEF FoldedInv

LEMMA LeastIs ==
    ASSUME NEW T, T \subseteq Int, NEW x \in T, \A y \in T : x <= y
    PROVE  Min(T) = x
<1>1. \E z \in T : \A y \in T : z <= y
  OBVIOUS
<1>2. Min(T) \in T /\ \A y \in T : Min(T) <= y
  BY <1>1, Zenon DEF Min
<1>3. Min(T) \in Int /\ x \in Int
  BY <1>2
<1> QED
  BY <1>2, <1>3

LEMMA GreatestIs ==
    ASSUME NEW T, T \subseteq Int, NEW x \in T, \A y \in T : y <= x
    PROVE  Max(T) = x
<1>1. \E z \in T : \A y \in T : z >= y
  OBVIOUS
<1>2. Max(T) \in T /\ \A y \in T : Max(T) >= y
  BY <1>1, Zenon DEF Max
<1>3. Max(T) \in Int /\ x \in Int
  BY <1>2
<1> QED
  BY <1>2, <1>3

LEMMA FoldIsMet == TypeOK => FoldMeetsDefinition
<1> SUFFICES ASSUME TypeOK
             PROVE  FoldMeetsDefinition
  OBVIOUS
<1> DEFINE N == Len(Survivors)
<1>1. N \in Nat /\ Survivors \in Seq(Appends)
  BY SurvivorsType
<1>2. ASSUME NEW k \in DOMAIN Recover
      PROVE  /\ Recover[k].startedAt = Survivors[Min(Mine(N, k))]
             /\ Recover[k].updatedAt = Survivors[Max(Mine(N, k))]
             /\ Recover[k].attempts =
                  (IF entry[Survivors[Min(Mine(N, k))]].phase = "completed" THEN 1 ELSE 0)
                    + Cardinality(Starts(N, k))
             /\ Recover[k].disposition = "pending"
                  <=> entry[Survivors[Max(Mine(N, k))]].phase = "started"
             /\ Recover[k].disposition = "unknown-outcome"
                  <=> entry[Survivors[Max(Mine(N, k))]] = Completed(k, "unknown-outcome")
  <2>1. PICK first, last : Tells(N, k, Recover[k], first, last)
    BY <1>2, RecoverTells
  <2>2. Mine(N, k) \subseteq Int
    BY DEF Mine
  <2>3. Min(Mine(N, k)) = first /\ Max(Mine(N, k)) = last
    BY <2>1, <2>2, LeastIs, GreatestIs DEF Tells
  <2>4. Survivors[last] \in Appends /\ entry[Survivors[last]].key = k
    BY <1>1, <2>1 DEF Tells, Mine
  <2>5. /\ Recover[k].disposition = "pending" <=> entry[Survivors[last]].phase = "started"
        /\ Recover[k].disposition = "unknown-outcome"
             <=> entry[Survivors[last]] = Completed(k, "unknown-outcome")
    <3>1. Recover[k].disposition = Disposition(entry[Survivors[last]])
      BY <2>1 DEF Tells
    <3> QED
      BY <2>4, <3>1, EntryShape DEF Disposition, DispositionOf, Completed
  <2> QED
    BY <2>1, <2>3, <2>5 DEF Tells, Headless
<1>3. DOMAIN Recover = {entry[Survivors[i]].key : i \in 1..N}
  BY RecoverTells
<1> QED
  BY <1>2, <1>3 DEF FoldMeetsDefinition, Mine, Starts

-----------------------------------------------------------------------------
(* The order of calls, of the chain and of the file. *)

\* Calls are made once, and one before another.
Called(a) == \E i \in 1..Len(calls) : calls[i] = a
Before(a, b) == \E i, j \in 1..Len(calls) : i < j /\ calls[i] = a /\ calls[j] = b

CallsInv ==
    /\ \A i, j \in 1..Len(calls) : calls[i] = calls[j] => i = j
    /\ \A a \in Appends : outcome[a] # "uncalled" <=> Called(a)

\* The chain is in the order of the calls.
Queued(a) == \E i \in 1..Len(chain) : chain[i] = a
Ahead(a, b) == \E i, j \in 1..Len(chain) : i < j /\ chain[i] = a /\ chain[j] = b

ChainInv ==
    /\ \A a \in Appends : Queued(a) => Called(a)
    /\ \A a, b \in Appends : Ahead(a, b) => Before(a, b)

\* The appends that wrote on a line, and the line of the one at the head.
Wrote(i) == {lines[i][x].append : x \in 1..Len(lines[i])}
InHand(i) ==
    \/ step \in {"rest", "terminator"} /\ i = Len(lines)
    \/ step = "chmod" /\ i = Len(lines) - 1
Settled(a) == \A b \in Appends : Queued(b) => Before(a, b)

\* So is the file: whoever wrote was called, before whoever wrote on a later
\* line, and before everyone in the chain except the head's own line.
WroteInv ==
    /\ \A i \in 1..Len(lines) : \A a \in Wrote(i) :
        Called(a) /\ (Settled(a) \/ (InHand(i) /\ a = Head(chain)))
    /\ \A i, j \in 1..Len(lines) : i < j =>
        \A a \in Wrote(i), b \in Wrote(j) : Before(a, b)

OrderInv == CallsInv /\ ChainInv /\ WroteInv

LEMMA InitOrder == Init => OrderInv
<1> SUFFICES ASSUME Init
             PROVE  OrderInv
  OBVIOUS
<1>1. calls = <<>> /\ chain = <<>> /\ lines = <<(<<>>)>>
  BY DEF Init
<1>2. Len(calls) = 0 /\ Len(chain) = 0 /\ Len(lines) = 1 /\ Len(lines[1]) = 0
  BY <1>1
<1>3. CallsInv /\ ChainInv
  BY <1>2 DEF Init, CallsInv, ChainInv, Called, Queued, Ahead
<1>4. \A i \in 1..Len(lines) : Wrote(i) = {}
  BY <1>2 DEF Wrote
<1> QED
  BY <1>2, <1>3, <1>4 DEF OrderInv, WroteInv

\* A call comes after the earlier ones, and no call is undone.
LEMMA CallsGrow ==
    ASSUME TypeOK, [Next]_vars
    PROVE  /\ \A a : Called(a) => Called(a)'
           /\ \A a, b : Before(a, b) => Before(a, b)'
<1>1. Len(calls) \in Nat /\ calls \in Seq(Appends)
  BY DEF TypeOK
<1>2. ASSUME NEW a \in Appends, calls' = Append(calls, a)
      PROVE  Len(calls') = Len(calls) + 1 /\ \A i \in 1..Len(calls) : calls'[i] = calls[i]
  BY <1>1, <1>2, AppendProperties
<1>3. UNCHANGED calls \/ \E a \in Appends : calls' = Append(calls, a)
  BY DEF Next, Progress, vars, CallAppend, DirectoryMade, Probed, Written, WriteFailed,
         ModeSet, Crash, Settle, Go
<1>4. Len(calls') \in Nat /\ Len(calls) <= Len(calls')
      /\ \A i \in 1..Len(calls) : calls'[i] = calls[i]
  BY <1>1, <1>2, <1>3
<1>5. \A i \in 1..Len(calls) : i \in 1..Len(calls')
  BY <1>1, <1>4
<1> QED
  BY <1>4, <1>5 DEF Called, Before

LEMMA NewCall ==
    ASSUME TypeOK, OrderInv, NEW a \in Appends, CallAppend(a)
    PROVE  Called(a)' /\ \A b : Called(b) => Before(b, a)'
<1>1. /\ Len(calls) \in Nat /\ Len(calls') = Len(calls) + 1 /\ calls'[Len(calls) + 1] = a
      /\ \A i \in 1..Len(calls) : calls'[i] = calls[i]
  BY AppendProperties DEF TypeOK, CallAppend
<1>2. \A i \in 1..Len(calls) : i \in 1..Len(calls') /\ i < Len(calls')
  BY <1>1
<1>3. Len(calls') \in 1..Len(calls')
  BY <1>1
<1> QED
  BY <1>1, <1>2, <1>3 DEF Called, Before

LEMMA CallOrder ==
    ASSUME TypeOK, InProgress, OrderInv, NEW a \in Appends, CallAppend(a)
    PROVE  OrderInv'
<1>1. /\ UNCHANGED <<lines, step>> /\ outcome[a] = "uncalled"
      /\ outcome' = [outcome EXCEPT ![a] = "pending"]
      /\ calls' = Append(calls, a) /\ chain' = Append(chain, a)
  BY DEF CallAppend, Join
<1>2. /\ \A b : Called(b) => Called(b)' /\ Before(b, a)'
      /\ \A b, c : Before(b, c) => Before(b, c)'
      /\ Called(a)'
  <2>1. [Next]_vars
    BY DEF Next
  <2> QED
    BY <2>1, CallsGrow, NewCall
<1>3. /\ Len(calls) \in Nat /\ Len(calls') = Len(calls) + 1 /\ calls'[Len(calls) + 1] = a
      /\ \A i \in 1..Len(calls) : calls'[i] = calls[i]
      /\ Len(chain) \in Nat /\ Len(chain') = Len(chain) + 1 /\ chain'[Len(chain) + 1] = a
      /\ \A i \in 1..Len(chain) : chain'[i] = chain[i]
  BY <1>1, AppendProperties DEF TypeOK
<1>4. ~Called(a)
  BY <1>1 DEF OrderInv, CallsInv
<1>5. CallsInv'
  <2>1. ASSUME NEW i \in 1..Len(calls'), NEW j \in 1..Len(calls'), calls'[i] = calls'[j]
        PROVE  i = j
    <3>1. \A n \in 1..Len(calls) : calls'[n] # a
      BY <1>3, <1>4 DEF Called
    <3>2. i \in 1..Len(calls) \/ i = Len(calls) + 1
      BY <1>3
    <3>3. j \in 1..Len(calls) \/ j = Len(calls) + 1
      BY <1>3
    <3> QED
      BY <1>3, <2>1, <3>1, <3>2, <3>3 DEF OrderInv, CallsInv
  <2>2. ASSUME NEW b \in Appends
        PROVE  outcome'[b] # "uncalled" <=> Called(b)'
    <3>1. CASE b = a
      BY <1>1, <1>2, <3>1 DEF TypeOK
    <3>2. CASE b # a
      <4>1. outcome'[b] = outcome[b]
        BY <1>1, <3>2 DEF TypeOK
      <4>2. Called(b)' => Called(b)
        BY <1>3, <3>2 DEF Called
      <4> QED
        BY <1>2, <4>1, <4>2 DEF OrderInv, CallsInv
    <3> QED
      BY <3>1, <3>2
  <2> QED
    BY <2>1, <2>2 DEF CallsInv
<1>6. /\ \A b : Queued(b)' => Queued(b) \/ b = a
      /\ \A b, c : Ahead(b, c)' => Ahead(b, c) \/ (Queued(b) /\ c = a)
  <2>1. \A i \in 1..Len(chain') : i \in 1..Len(chain) \/ i = Len(chain) + 1
    BY <1>3
  <2>2. \A i, j \in 1..Len(chain') : i < j => i \in 1..Len(chain)
    BY <1>3
  <2> QED
    BY <1>3, <2>1, <2>2 DEF Queued, Ahead
<1>7. ChainInv'
  BY <1>2, <1>6 DEF OrderInv, ChainInv
<1>8. \A b : Called(b) /\ Settled(b) => Settled(b)'
  BY <1>2, <1>6 DEF Settled
<1>9. chain # <<>> => Head(chain') = Head(chain)
  BY <1>1 DEF TypeOK
<1>10. \A i : Wrote(i)' = Wrote(i) /\ (InHand(i)' <=> InHand(i)) /\ (InHand(i) => chain # <<>>)
  BY <1>1 DEF Wrote, InHand, InProgress
<1>11. WroteInv'
  <2>1. ASSUME NEW i \in 1..Len(lines'), NEW b \in Wrote(i)'
        PROVE  Called(b)' /\ (Settled(b)' \/ (InHand(i)' /\ b = Head(chain')))
    <3>1. i \in 1..Len(lines) /\ b \in Wrote(i)
      BY <1>1, <1>10, <2>1
    <3> QED
      BY <1>2, <1>8, <1>9, <1>10, <3>1 DEF OrderInv, WroteInv
  <2>2. ASSUME NEW i \in 1..Len(lines'), NEW j \in 1..Len(lines'), i < j,
               NEW b \in Wrote(i)', NEW c \in Wrote(j)'
        PROVE  Before(b, c)'
    <3>1. i \in 1..Len(lines) /\ j \in 1..Len(lines) /\ b \in Wrote(i) /\ c \in Wrote(j)
      BY <1>1, <1>10, <2>2
    <3> QED
      BY <1>2, <2>2, <3>1 DEF OrderInv, WroteInv
  <2> QED
    BY <2>1, <2>2 DEF WroteInv
<1> QED
  BY <1>5, <1>7, <1>11 DEF OrderInv

\* The head settles and the others move up.
LEMMA MoveUp ==
    ASSUME TypeOK, chain # <<>>, chain' = Tail(chain)
    PROVE  /\ \A a : Queued(a)' => Queued(a) /\ Ahead(Head(chain), a)
           /\ \A a, b : Ahead(a, b)' => Ahead(a, b)
           /\ Queued(Head(chain)) /\ Head(chain) \in Appends
<1>1. /\ Len(chain) \in Nat /\ Len(chain) >= 1 /\ Len(chain') = Len(chain) - 1
      /\ \A i \in 1..Len(chain') : chain'[i] = chain[i + 1]
      /\ Head(chain) = chain[1] /\ Head(chain) \in Appends
  BY EmptySeq, HeadTailProperties DEF TypeOK
<1>2. \A i \in 1..Len(chain') : i + 1 \in 1..Len(chain) /\ 1 < i + 1
  BY <1>1
<1>3. 1 \in 1..Len(chain)
  BY <1>1
<1>4. \A a : Queued(a)' => Queued(a) /\ Ahead(Head(chain), a)
  BY <1>1, <1>2, <1>3 DEF Queued, Ahead
<1>5. ASSUME NEW a, NEW b, Ahead(a, b)'
      PROVE  Ahead(a, b)
  <2>1. PICK i, j \in 1..Len(chain') : i < j /\ chain'[i] = a /\ chain'[j] = b
    BY <1>5 DEF Ahead
  <2>2. i + 1 < j + 1 /\ chain[i + 1] = a /\ chain[j + 1] = b
    BY <1>1, <2>1
  <2> QED
    BY <1>2, <2>2 DEF Ahead
<1> QED
  BY <1>1, <1>3, <1>4, <1>5 DEF Queued

LEMMA SettleOrder ==
    ASSUME TypeOK, OrderInv, chain # <<>>, NEW how \in {"fulfilled", "rejected"},
           Settle(how), UNCHANGED lines
    PROVE  OrderInv'
<1>1. /\ outcome' = [outcome EXCEPT ![Head(chain)] = how]
      /\ chain' = Tail(chain) /\ step' = "idle" /\ UNCHANGED <<calls, lines>>
  BY DEF Settle
<1>2. /\ \A a : Queued(a)' => Queued(a) /\ Ahead(Head(chain), a)
      /\ \A a, b : Ahead(a, b)' => Ahead(a, b)
      /\ Queued(Head(chain)) /\ Head(chain) \in Appends
  BY <1>1, MoveUp
<1>3. /\ \A a : Called(a)' <=> Called(a)
      /\ \A a, b : Before(a, b)' <=> Before(a, b)
      /\ \A i : Wrote(i)' = Wrote(i) /\ ~InHand(i)'
  BY <1>1 DEF Called, Before, Wrote, InHand
<1>4. \A a \in Appends : outcome'[a] # "uncalled" <=> outcome[a] # "uncalled"
  <2>1. outcome[Head(chain)] # "uncalled"
    BY <1>2 DEF OrderInv, CallsInv, ChainInv
  <2> QED
    BY <1>1, <2>1 DEF TypeOK
<1>5. CallsInv'
  BY <1>1, <1>3, <1>4 DEF OrderInv, CallsInv
<1>6. ChainInv'
  BY <1>2, <1>3 DEF OrderInv, ChainInv
<1>7. \A a : Settled(a) \/ a = Head(chain) => Settled(a)'
  BY <1>2, <1>3 DEF Settled, OrderInv, ChainInv
<1>8. WroteInv'
  BY <1>1, <1>3, <1>7 DEF OrderInv, WroteInv
<1> QED
  BY <1>5, <1>6, <1>8 DEF OrderInv

\* Nothing of the order changes but what the head may be writing.
LEMMA GoOrder ==
    ASSUME OrderInv, UNCHANGED <<lines, chain, calls, outcome>>,
           \A i : InHand(i) => InHand(i)'
    PROVE  OrderInv'
<1>1. /\ \A a : (Called(a)' <=> Called(a)) /\ (Queued(a)' <=> Queued(a))
      /\ \A a, b : (Before(a, b)' <=> Before(a, b)) /\ (Ahead(a, b)' <=> Ahead(a, b))
      /\ \A i : Wrote(i)' = Wrote(i)
  BY DEF Called, Before, Queued, Ahead, Wrote
<1>2. \A a : Settled(a)' <=> Settled(a)
  BY <1>1 DEF Settled
<1>3. CallsInv' /\ ChainInv'
  BY <1>1 DEF OrderInv, CallsInv, ChainInv
<1>4. WroteInv'
  BY <1>1, <1>2 DEF OrderInv, WroteInv
<1> QED
  BY <1>3, <1>4 DEF OrderInv

LEMMA WrittenOrder ==
    ASSUME TypeOK, InProgress, OrderInv, Written
    PROVE  OrderInv'
<1>1. /\ UNCHANGED <<chain, outcome, calls>> /\ Head(chain) \in Appends
      /\ chain # <<>> /\ Len(lines) \in Nat \ {0}
  BY WrittenCases, LineCount DEF Written, Go, InProgress
<1>2. /\ \A a : (Called(a)' <=> Called(a)) /\ (Queued(a)' <=> Queued(a))
      /\ \A a, b : (Before(a, b)' <=> Before(a, b)) /\ (Ahead(a, b)' <=> Ahead(a, b))
  BY <1>1 DEF Called, Before, Queued, Ahead
<1>3. CallsInv' /\ ChainInv'
  BY <1>1, <1>2 DEF OrderInv, CallsInv, ChainInv
<1>4. \A a : Settled(a)' <=> Settled(a)
  BY <1>2 DEF Settled
<1>5. Called(Head(chain)) /\ Queued(Head(chain))
  <2>1. 1 \in 1..Len(chain) /\ Head(chain) = chain[1]
    BY <1>1, EmptySeq, HeadTailProperties DEF TypeOK
  <2> QED
    BY <1>1, <2>1 DEF Queued, OrderInv, ChainInv
<1>6. ASSUME lines' = Append(lines, <<>>),
             \/ step = "leading" /\ step' = "body"
             \/ step = "terminator" /\ step' = "chmod"
      PROVE  WroteInv'
  <2>1. /\ Len(lines') = Len(lines) + 1 /\ lines'[Len(lines) + 1] = <<>>
        /\ \A i \in 1..Len(lines) : lines'[i] = lines[i]
    BY <1>6, CloseLine DEF OpenLine
  <2>2. /\ \A i \in 1..Len(lines) : Wrote(i)' = Wrote(i)
        /\ \A i : i = Len(lines) + 1 => Wrote(i)' = {}
        /\ \A i \in 1..Len(lines') : i \in 1..Len(lines) \/ i = Len(lines) + 1
    <3>1. \A i \in 1..Len(lines) : Wrote(i)' = Wrote(i)
      BY <2>1 DEF Wrote
    <3>2. Len(lines'[Len(lines) + 1]) = 0
      BY <2>1
    <3>3. ASSUME NEW i, i = Len(lines) + 1
          PROVE  Wrote(i)' = {}
      BY <3>2, <3>3 DEF Wrote
    <3> QED
      BY <1>1, <2>1, <3>1, <3>3
  <2>3. \A i \in 1..Len(lines) : InHand(i) => InHand(i)'
    BY <1>1, <1>6, <2>1 DEF InHand
  <2>4. ASSUME NEW i \in 1..Len(lines'), NEW a \in Wrote(i)'
        PROVE  Called(a)' /\ (Settled(a)' \/ (InHand(i)' /\ a = Head(chain')))
    <3>1. i \in 1..Len(lines) /\ a \in Wrote(i)
      BY <2>2, <2>4
    <3>2. Called(a) /\ (Settled(a) \/ (InHand(i) /\ a = Head(chain)))
      BY <3>1 DEF OrderInv, WroteInv
    <3> QED
      BY <1>1, <1>2, <1>4, <2>3, <3>1, <3>2
  <2>5. ASSUME NEW i \in 1..Len(lines'), NEW j \in 1..Len(lines'), i < j,
               NEW a \in Wrote(i)', NEW b \in Wrote(j)'
        PROVE  Before(a, b)'
    <3>1. i \in 1..Len(lines) /\ a \in Wrote(i) /\ j \in 1..Len(lines) /\ b \in Wrote(j)
      BY <2>2, <2>5
    <3> QED
      BY <1>2, <2>5, <3>1 DEF OrderInv, WroteInv
  <2> QED
    BY <2>4, <2>5 DEF WroteInv
<1>7. ASSUME step \in {"body", "rest"}, step' \in {"rest", "terminator"},
             Len(lines') = Len(lines),
             \A i \in 1..Len(lines) - 1 : lines'[i] = lines[i],
             Wrote(Len(lines))' \subseteq Wrote(Len(lines)) \cup {Head(chain)}
      PROVE  WroteInv'
  <2>1. /\ \A i \in 1..Len(lines) : i \in 1..Len(lines) - 1 \/ i = Len(lines)
        /\ \A i \in 1..Len(lines) - 1 : Wrote(i)' = Wrote(i) /\ ~InHand(i)
        /\ \A i : i = Len(lines) => InHand(i)'
    BY <1>1, <1>7 DEF Wrote, InHand
  <2>2. \A i \in 1..Len(lines) - 1 : \A a \in Wrote(i) : Settled(a) /\ Before(a, Head(chain))
    <3>1. \A i \in 1..Len(lines) - 1 : \A a \in Wrote(i) : Settled(a)
      BY <1>1, <2>1 DEF OrderInv, WroteInv
    <3> QED
      BY <1>1, <1>5, <3>1 DEF Settled
  <2>3. ASSUME NEW i \in 1..Len(lines'), NEW a \in Wrote(i)'
        PROVE  Called(a)' /\ (Settled(a)' \/ (InHand(i)' /\ a = Head(chain')))
    <3>1. CASE i \in 1..Len(lines) - 1
      BY <1>1, <1>2, <1>4, <2>1, <2>2, <2>3, <3>1 DEF OrderInv, WroteInv
    <3>2. CASE i = Len(lines)
      <4>1. CASE a = Head(chain)
        <5>1. InHand(i)'
          BY <2>1, <3>2
        <5> QED
          BY <1>1, <1>2, <1>5, <4>1, <5>1
      <4>2. CASE a \in Wrote(i)
        <5>1. i \in 1..Len(lines) /\ InHand(i)'
          BY <1>1, <2>1, <3>2
        <5>2. Called(a) /\ (Settled(a) \/ a = Head(chain))
          BY <4>2, <5>1 DEF OrderInv, WroteInv
        <5> QED
          BY <1>1, <1>2, <1>4, <5>1, <5>2
      <4> QED
        BY <1>7, <2>3, <3>2, <4>1, <4>2
    <3> QED
      BY <1>7, <2>1, <2>3, <3>1, <3>2
  <2>4. ASSUME NEW i \in 1..Len(lines'), NEW j \in 1..Len(lines'), i < j,
               NEW a \in Wrote(i)', NEW b \in Wrote(j)'
        PROVE  Before(a, b)'
    <3>1. i \in 1..Len(lines) - 1 /\ a \in Wrote(i) /\ i \in 1..Len(lines)
          /\ j \in 1..Len(lines)
      BY <1>1, <1>7, <2>1, <2>4
    <3>2. CASE b \in Wrote(j)
      BY <1>2, <2>4, <3>1, <3>2 DEF OrderInv, WroteInv
    <3>3. CASE b = Head(chain)
      BY <1>2, <2>2, <3>1, <3>3
    <3>4. b \in Wrote(j) \/ b = Head(chain)
      BY <1>7, <2>1, <2>4, <3>1
    <3> QED
      BY <3>2, <3>3, <3>4
  <2> QED
    BY <2>3, <2>4 DEF WroteInv
<1>8. OpenLine \in Seq(Piece) /\ Len(OpenLine) \in Nat /\ OpenLine = lines[Len(lines)]
  BY <1>1 DEF TypeOK, OpenLine
<1>9. ASSUME NEW w \in BOOLEAN, step = "body",
             Append(OpenLine, [append |-> Head(chain), whole |-> w]) \in Seq(Piece),
             WriteOn(Append(OpenLine, [append |-> Head(chain), whole |-> w])),
             step' = IF w THEN "terminator" ELSE "rest"
      PROVE  WroteInv'
  <2>1. /\ Len(lines') = Len(lines)
        /\ \A i \in 1..Len(lines) - 1 : lines'[i] = lines[i]
        /\ lines'[Len(lines)] = Append(OpenLine, [append |-> Head(chain), whole |-> w])
    BY <1>9, RewriteOpenLine DEF OpenLine
  <2>2. Wrote(Len(lines))' \subseteq Wrote(Len(lines)) \cup {Head(chain)}
    BY <1>8, <2>1 DEF Wrote
  <2> QED
    BY <1>7, <1>9, <2>1, <2>2
<1>10. ASSUME step = "rest", step' = "terminator",
              [OpenLine EXCEPT ![Len(OpenLine)] =
                 [append |-> Head(chain), whole |-> TRUE]] \in Seq(Piece),
              WriteOn([OpenLine EXCEPT ![Len(OpenLine)] =
                           [append |-> Head(chain), whole |-> TRUE]])
       PROVE  WroteInv'
  <2>1. /\ Len(lines') = Len(lines)
        /\ \A i \in 1..Len(lines) - 1 : lines'[i] = lines[i]
        /\ lines'[Len(lines)] = [OpenLine EXCEPT ![Len(OpenLine)] =
                                    [append |-> Head(chain), whole |-> TRUE]]
    BY <1>10, RewriteOpenLine DEF OpenLine
  <2>2. Wrote(Len(lines))' \subseteq Wrote(Len(lines)) \cup {Head(chain)}
    BY <1>8, <2>1 DEF Wrote
  <2> QED
    BY <1>7, <1>10, <2>1, <2>2
<1>11. WroteInv'
  BY <1>6, <1>9, <1>10, WrittenCases
<1> QED
  BY <1>3, <1>11 DEF OrderInv

LEMMA CrashOrder ==
    ASSUME TypeOK, OrderInv, Crash
    PROVE  OrderInv'
<1>1. /\ UNCHANGED <<lines, calls>> /\ chain' = <<>>
      /\ \A a \in Appends : outcome'[a] # "uncalled" <=> outcome[a] # "uncalled"
  BY DEF Crash, TypeOK
<1>2. /\ \A a : (Called(a)' <=> Called(a)) /\ ~Queued(a)'
      /\ \A a, b : (Before(a, b)' <=> Before(a, b)) /\ ~Ahead(a, b)'
      /\ \A i : Wrote(i)' = Wrote(i)
  BY <1>1 DEF Called, Before, Queued, Ahead, Wrote
<1>3. \A a : Settled(a)'
  BY <1>2 DEF Settled
<1>4. CallsInv' /\ ChainInv'
  BY <1>1, <1>2 DEF OrderInv, CallsInv, ChainInv
<1>5. WroteInv'
  BY <1>1, <1>2, <1>3 DEF OrderInv, WroteInv
<1> QED
  BY <1>4, <1>5 DEF OrderInv

LEMMA NextOrder ==
    ASSUME TypeOK, InProgress, OrderInv, [Next]_vars
    PROVE  OrderInv'
<1>1. ASSUME NEW a \in Appends, CallAppend(a)
      PROVE  OrderInv'
  BY <1>1, CallOrder
<1>2. CASE DirectoryMade \/ Probed
  <2>1. UNCHANGED lines /\ \A i : ~InHand(i)
    BY <1>2 DEF DirectoryMade, Probed, InHand
  <2>2. chain # <<>>
    BY <1>2 DEF DirectoryMade, Probed, InProgress
  <2>3. Settle("rejected") \/ UNCHANGED <<chain, calls, outcome>>
    BY <1>2 DEF DirectoryMade, Probed, Go
  <2> QED
    BY <2>1, <2>2, <2>3, SettleOrder, GoOrder
<1>3. CASE Written
  BY <1>3, WrittenOrder
<1>4. CASE WriteFailed \/ ModeSet
  <2>1. UNCHANGED lines /\ chain # <<>>
    BY <1>4 DEF WriteFailed, ModeSet, InProgress
  <2>2. Settle("rejected") \/ Settle("fulfilled")
    BY <1>4 DEF WriteFailed, ModeSet
  <2> QED
    BY <2>1, <2>2, SettleOrder
<1>5. CASE Crash
  BY <1>5, CrashOrder
<1>6. CASE UNCHANGED vars
  <2>1. \A i : InHand(i) => InHand(i)'
    BY <1>6 DEF vars, InHand
  <2> QED
    BY <1>6, <2>1, GoOrder DEF vars
<1> QED
  BY <1>1, <1>2, <1>3, <1>4, <1>5, <1>6 DEF Next, Progress

-----------------------------------------------------------------------------
(* What recovery reports. *)

LEMMA BeforeIsEarlier ==
    ASSUME TypeOK, CallsInv, NEW i \in 1..Len(calls), NEW j \in 1..Len(calls),
           Before(calls[i], calls[j])
    PROVE  i < j
BY DEF CallsInv, Before

\* The survivors are in the order of the calls, and whatever is read is one.
LEMMA ReadInOrder ==
    ASSUME TypeOK, OrderInv
    PROVE  /\ \A p \in 1..Len(Survivors) : Survivors[p] \in Appends /\ Called(Survivors[p])
           /\ \A p, q \in 1..Len(Survivors) : p < q => Before(Survivors[p], Survivors[q])
           /\ \A a \in Appends : IsRead(a) => \E p \in 1..Len(Survivors) : Survivors[p] = a
<1>1. PICK at : Places(Len(lines), at)
  BY SurvivorsInOrder
<1>2. Len(Survivors) \in Nat /\ Survivors \in Seq(Appends)
  BY SurvivorsType
<1>3. \A p \in 1..Len(Survivors) :
        /\ at[p] \in 1..Len(lines)
        /\ Len(lines[at[p]]) = 1
        /\ lines[at[p]][1].append = Survivors[p]
  BY <1>1 DEF Places, Survivors, Decodes
<1>4. \A p \in 1..Len(Survivors) : Survivors[p] \in Wrote(at[p])
  BY <1>3 DEF Wrote
<1>5. \A p \in 1..Len(Survivors) : Called(Survivors[p])
  BY <1>3, <1>4 DEF OrderInv, WroteInv
<1>6. ASSUME NEW p \in 1..Len(Survivors), NEW q \in 1..Len(Survivors), p < q
      PROVE  Before(Survivors[p], Survivors[q])
  <2>1. at[p] < at[q]
    BY <1>1, <1>6 DEF Places, Survivors
  <2> QED
    BY <1>3, <1>4, <2>1 DEF OrderInv, WroteInv
<1>7. ASSUME NEW a \in Appends, IsRead(a)
      PROVE  \E p \in 1..Len(Survivors) : Survivors[p] = a
  <2>1. PICK i \in 1..Len(lines) : lines[i] = <<[append |-> a, whole |-> TRUE]>>
    BY <1>7 DEF IsRead
  <2>2. Decodes(lines[i]) /\ lines[i][1].append = a
    BY <2>1 DEF Decodes
  <2>3. PICK p \in 1..Len(Survivors) : at[p] = i
    BY <1>1, <2>2 DEF Places, Survivors
  <2> QED
    BY <1>3, <2>2, <2>3
<1> QED
  BY <1>2, <1>5, <1>6, <1>7

\* The last survivor of an operation: what recovery reports of it, and that no
\* survivor of the operation was called after it.
LEMMA LastOfOperation ==
    ASSUME TypeOK, OrderInv, NEW k \in DOMAIN Recover
    PROVE  \E a \in Appends :
              /\ Called(a) /\ entry[a].key = k
              /\ Recover[k].disposition = Disposition(entry[a])
              /\ \A b \in Appends : IsRead(b) /\ entry[b].key = k => b = a \/ Before(b, a)
<1> DEFINE N == Len(Survivors)
<1>1. PICK first, last : Tells(N, k, Recover[k], first, last)
  BY RecoverTells
<1>2. /\ last \in 1..N /\ entry[Survivors[last]].key = k
      /\ \A i \in 1..N : entry[Survivors[i]].key = k => i <= last
      /\ Recover[k].disposition = Disposition(entry[Survivors[last]])
  BY <1>1 DEF Tells, Mine
<1>3. Survivors[last] \in Appends /\ Called(Survivors[last])
  BY <1>2, ReadInOrder
<1>4. ASSUME NEW b \in Appends, IsRead(b), entry[b].key = k
      PROVE  b = Survivors[last] \/ Before(b, Survivors[last])
  <2>1. PICK p \in 1..N : Survivors[p] = b
    BY <1>4, ReadInOrder
  <2>2. p = last \/ p < last
    BY <1>2, <1>4, <2>1
  <2> QED
    BY <1>2, <2>1, <2>2, ReadInOrder
<1> QED
  BY <1>2, <1>3, <1>4

\* Whatever is read belongs to an operation that recovery reports.
LEMMA ReadIsReported ==
    ASSUME TypeOK, OrderInv, NEW a \in Appends, IsRead(a)
    PROVE  entry[a].key \in DOMAIN Recover
<1>1. PICK p \in 1..Len(Survivors) : Survivors[p] = a
  BY ReadInOrder
<1> QED
  BY <1>1, RecoverTells

LEMMA AsksTruly ==
    ASSUME TypeOK, OrderInv, \A a \in Fulfilled : IsRead(a)
    PROVE  AsksToReconcile
<1> SUFFICES ASSUME NEW i \in 1..Len(calls), outcome[calls[i]] = "fulfilled",
                    \/ entry[calls[i]].phase = "started"
                    \/ /\ entry[calls[i]].phase = "completed"
                       /\ entry[calls[i]].status = "unknown-outcome",
                    \A a \in {calls[j] : j \in i + 1 .. Len(calls)} :
                        entry[a] # Completed(entry[calls[i]].key, "definite")
             PROVE  ModemOf[entry[calls[i]].key] \in ReconciliationRequired
  BY DEF AsksToReconcile
<1> DEFINE k == entry[calls[i]].key
<1>1. calls[i] \in Appends /\ Len(calls) \in Nat /\ IsRead(calls[i])
  BY DEF TypeOK, Fulfilled
<1>2. k \in DOMAIN Recover
  BY <1>1, ReadIsReported
<1>3. PICK a \in Appends :
          /\ Called(a) /\ entry[a].key = k
          /\ Recover[k].disposition = Disposition(entry[a])
          /\ \A b \in Appends : IsRead(b) /\ entry[b].key = k => b = a \/ Before(b, a)
  BY <1>2, LastOfOperation
<1>4. calls[i] = a \/ Before(calls[i], a)
  BY <1>1, <1>3
<1>5. entry[a] # Completed(k, "definite")
  <2>1. CASE calls[i] = a
    BY <2>1 DEF Completed
  <2>2. CASE Before(calls[i], a)
    <3>1. PICK j \in 1..Len(calls) : calls[j] = a
      BY <1>3 DEF Called
    <3>2. i < j
      BY <2>2, <3>1, BeforeIsEarlier DEF OrderInv
    <3>3. j \in i + 1 .. Len(calls)
      BY <1>1, <3>2
    <3> QED
      BY <3>1, <3>3
  <2> QED
    BY <1>4, <2>1, <2>2
<1>6. Disposition(entry[a]) \in {"pending", "unknown-outcome"}
  BY <1>3, <1>5, EntryShape DEF Disposition, DispositionOf
<1> QED
  BY <1>2, <1>3, <1>6 DEF ReconciliationRequired

LEMMA ResolvedTruly ==
    ASSUME TypeOK, OrderInv, \A a \in Fulfilled : IsRead(a)
    PROVE  ResolvedIsTrue
<1> SUFFICES ASSUME NEW k \in DOMAIN Recover, Recover[k].disposition = "resolved"
             PROVE  \E i \in 1..Len(calls) :
                      /\ entry[calls[i]] = Completed(k, "definite")
                      /\ \A j \in i + 1 .. Len(calls) :
                          entry[calls[j]].key = k => outcome[calls[j]] # "fulfilled"
  BY DEF ResolvedIsTrue
<1>1. PICK a \in Appends :
          /\ Called(a) /\ entry[a].key = k
          /\ Recover[k].disposition = Disposition(entry[a])
          /\ \A b \in Appends : IsRead(b) /\ entry[b].key = k => b = a \/ Before(b, a)
  BY LastOfOperation
<1>2. entry[a] = Completed(k, "definite")
  BY <1>1, EntryShape DEF Disposition, DispositionOf
<1>3. PICK i \in 1..Len(calls) : calls[i] = a
  BY <1>1 DEF Called
<1>4. ASSUME NEW j \in i + 1 .. Len(calls), entry[calls[j]].key = k,
             outcome[calls[j]] = "fulfilled"
      PROVE  FALSE
  <2>1. j \in 1..Len(calls) /\ i < j
    BY <1>3 DEF TypeOK
  <2>2. calls[j] \in Appends /\ IsRead(calls[j])
    BY <1>4, <2>1 DEF TypeOK, Fulfilled
  <2>3. CASE calls[j] = calls[i]
    BY <1>3, <2>1, <2>3 DEF OrderInv, CallsInv
  <2>4. CASE Before(calls[j], calls[i])
    <3>1. j < i
      BY <1>3, <2>1, <2>4, BeforeIsEarlier DEF OrderInv
    <3> QED
      BY <1>3, <2>1, <3>1
  <2> QED
    BY <1>1, <1>3, <1>4, <2>2, <2>3, <2>4
<1> QED
  BY <1>2, <1>3, <1>4

\* Whatever the file holds, replay gives each operation that left an entry one
\* record, dated by its first entry and its last, disposed of by its last, with
\* one attempt per start: reconstructJournalRecovery, for any number of appends,
\* operations and entries.
THEOREM FoldMeetsDefinitionHolds == Spec => []FoldMeetsDefinition
BY TypeCorrect, FoldIsMet, PTL

LEMMA OrderInvariant == Spec => []OrderInv
<1>1. Init => OrderInv
  BY InitOrder
<1>2. OrderInv /\ FileInv /\ [Next]_vars => OrderInv'
  BY NextOrder DEF FileInv
<1> QED
  BY <1>1, <1>2, FileInvariant, PTL DEF Spec

\* Whatever processes died, as long as no write failed in one that went on,
\* recovery asks to reconcile whatever is outstanding, and reports nothing as
\* resolved on the strength of an entry nobody handed in.
THEOREM RecoveryIsTrueHolds == Spec => []RecoveryIsTrue
<1>1. TypeOK /\ OrderInv /\ CrashLosesNothing => RecoveryIsTrue
  BY AsksTruly, ResolvedTruly DEF CrashLosesNothing, RecoveryIsTrue
<1> QED
  BY <1>1, TypeCorrect, OrderInvariant, CrashLosesNothingHolds, PTL

=============================================================================
