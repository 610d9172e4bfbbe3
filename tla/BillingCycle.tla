----------------------------- MODULE BillingCycle -----------------------------
(***************************************************************************)
(* Billing cycles (control/src/backend/usage/billing-cycle.ts) over a      *)
(* calendar of months of any lengths: a cycle begins on a day of the month,*)
(* or on the last day of a month too short for it.  Time is in days from   *)
(* the first day of the first month.                                       *)
(***************************************************************************)
EXTENDS Integers, Sequences, TLC

CONSTANT MonthLengths

ASSUME MonthLengthsAssumption ==
    MonthLengths \in Seq(Nat \ {0}) /\ MonthLengths # <<>>

\* The day a month begins on.
Begins[month \in 1..(Len(MonthLengths) + 1)] ==
    IF month = 1 THEN 0 ELSE Begins[month - 1] + MonthLengths[month - 1]

Horizon == Begins[Len(MonthLengths) + 1] - 1

MonthOf(day) ==
    CHOOSE month \in 1..Len(MonthLengths) :
        Begins[month] <= day /\ day < Begins[month] + MonthLengths[month]

ClampCycleDay(cycleDay, month) ==
    LET floor == IF cycleDay < 1 THEN 1 ELSE cycleDay
    IN  IF floor < MonthLengths[month] THEN floor ELSE MonthLengths[month]

BoundaryFor(cycleDay, month) == Begins[month] + ClampCycleDay(cycleDay, month) - 1

\* The boundary of this month, or of the one before while it is still ahead.
\* Before the first month there is one as long as the first.
CycleStart(now, cycleDay) ==
    LET month == MonthOf(now)
    IN  IF now >= BoundaryFor(cycleDay, month) THEN BoundaryFor(cycleDay, month)
        ELSE IF month > 1 THEN BoundaryFor(cycleDay, month - 1)
        ELSE ClampCycleDay(cycleDay, 1) - 1 - MonthLengths[1]

=============================================================================
