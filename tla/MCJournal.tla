------------------------------ MODULE MCJournal ------------------------------
(***************************************************************************)
(* Instances of JournalStore and JournalRecovery for TLC.                  *)
(***************************************************************************)
EXTENDS JournalRecovery, TLC

CONSTANTS a1, a2, a3, a4, k1, k2, m1

OneModem == [k \in Keys |-> m1]

\* Everything that can be said of one operation, and the start of another one
\* of the same modem.
MCEntries == {Started(k1), Completed(k1, "definite"),
              Completed(k1, "unknown-outcome"), Started(k2)}

\* For the questions about the file alone the entries are all alike.
OneEntry == {Started(k1)}

Symmetry == Permutations(Appends)
=============================================================================
