----------------------------- MODULE MCDataPlane -----------------------------
(***************************************************************************)
(* Instances of NmBearer and UsagePolicy for TLC: the bearers of a modem   *)
(* and the bytes counted over them.  They share no variable, so a          *)
(* behaviour explores one of them; and of the second it explores passes    *)
(* that overlap beside calls that do not, or calls that overlap beside no  *)
(* pass.                                                                   *)
(***************************************************************************)
EXTENDS NmBearer, UsagePolicy, FiniteSets, TLC

CONSTANTS
    New, Other, Kept,
    PassChanges, SaveChanges    \* bounds: changes beside passes, beside saves

VARIABLE subject

mcVars == <<bearerVars, slotVars, subject>>

ShortMonths == <<2>>
Symmetry == Permutations(Rounds)

\* One connection is new, the other one has been saved by somebody.
MCInit ==
    /\ BearerInit /\ UsagePolicyInit
    /\ saved = (New :> NoBearer @@ Other :> Kept)
    /\ subject \in {"bearers", "passes", "saves", "policy"}

OneSetter == CHOOSE c \in Setters : TRUE
CallsAt(stages) == {s \in Rounds : round[s].at \in stages}
Sampled == {"reading", "counted"}

\* Passes overlap, and none gets its document written; the slot is mapped anew,
\* the interface created anew, the cycle moved.
PassesMove ==
    /\ alive' /\ changes' <= PassChanges
    /\ Busy' \subseteq {OneSetter}
    /\ \A c \in Busy' : wish'[c] = [day |-> CHOOSE n \in CycleDays : TRUE, threshold |-> Leave]
    /\ \A s \in Rounds :
          /\ round[s] = Unused => round'[s].at # "writing"
          /\ round'[s].at # "renaming"
          /\ round[s].at = "reading" => round'[s] # Unused
    /\ CallsAt({"writing"}) # {} => CallsAt({"writing"})' # CallsAt({"writing"})

\* Saves and flushes overlap, one pass is beside them, which finds its interface
\* and has no doubt of it; the process dies.
SavesMove ==
    /\ changes' <= SaveChanges
    /\ Busy' = {}
    /\ changes' # changes => ~alive'
    /\ Cardinality(CallsAt(Sampled)') <= 1
    /\ \A s \in Rounds :
          /\ round'[s].at \in Sampled => round'[s].sure
          /\ round'[s].at = "counted" => round'[s].present

\* Calls overlap, fail, and die with the process.
PolicyMove == UNCHANGED <<round, moved, kernel>>

MCNext ==
    /\ \/ subject = "bearers" /\ BearerNext /\ UNCHANGED slotVars
       \/ subject = "passes" /\ UsagePolicyNext /\ PassesMove /\ UNCHANGED bearerVars
       \/ subject = "saves" /\ UsagePolicyNext /\ SavesMove /\ UNCHANGED bearerVars
       \/ subject = "policy" /\ UsagePolicyNext /\ PolicyMove /\ UNCHANGED bearerVars
    /\ UNCHANGED subject

MCSpec == MCInit /\ [][MCNext]_mcVars
=============================================================================
