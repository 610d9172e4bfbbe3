------------------------- MODULE MCOperationEngine --------------------------
(***************************************************************************)
(* Instances of OperationEngine for TLC.                                   *)
(***************************************************************************)
EXTENDS OperationEngine, TLC

CONSTANTS m1, m2, i1, i2, i3, r1

OneModem == [c \in Calls |-> m1]
TwoModems == [c \in Calls |-> IF c = i3 THEN m2 ELSE m1]

Base == [impact |-> "mutation", runnable |-> TRUE, idempotent |-> FALSE,
         admission |-> FALSE, journal |-> FALSE, readback |-> FALSE,
         rollback |-> "none"]

\* A write under every hook, a write with none, an unjournaled read the engine
\* may retry.
FullWrite == [Base EXCEPT !.admission = TRUE, !.journal = TRUE,
                          !.readback = TRUE, !.rollback = "required"]
PlainWrite == Base
IdempotentRead == [Base EXCEPT !.impact = "read", !.idempotent = TRUE]

\* What the other branches of the engine look at.
JournaledWrite == [Base EXCEPT !.journal = TRUE, !.rollback = "required"]
ReadbackWrite == [Base EXCEPT !.readback = TRUE]
SuppliedRollback == [Base EXCEPT !.readback = TRUE, !.rollback = "supplied"]
UnrunnableWrite == [Base EXCEPT !.runnable = FALSE]
AdmittedRead == [Base EXCEPT !.impact = "read", !.admission = TRUE]
JournaledRead == [Base EXCEPT !.impact = "read", !.journal = TRUE,
                              !.readback = TRUE]

LiveDescriptors == {FullWrite}
AllDescriptors == {FullWrite, PlainWrite, IdempotentRead, JournaledWrite,
                   ReadbackWrite, SuppliedRollback, UnrunnableWrite,
                   AdmittedRead, JournaledRead}

Symmetry == Permutations(Invocations)
=============================================================================
