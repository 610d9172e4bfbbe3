----------------------------- MODULE UsagePolicy -----------------------------
(***************************************************************************)
(* The operator's usage policy of the slot: calls of setUsagePolicy        *)
(* (control/src/backend/usage/policy-write.ts) over the policy file        *)
(* (policy-store.ts), which apply what they saved to the running sampler.  *)
(*                                                                         *)
(* A request leaves each of the two fields alone, clears it or sets it.    *)
(* Calls are not serialised: each loads, merges, writes to one temporary   *)
(* path and renames it over the target beside the others.                  *)
(***************************************************************************)
EXTENDS UsageSampler

CONSTANTS Setters, Thresholds, Leave

VARIABLES
    file,       \* the policy on disk
    temporary,  \* what the temporary path holds, None when it is gone
    ppc,        \* where each call is
    wish,       \* what each call asks
    merged,     \* what each call is writing
    live,       \* the threshold in force in the sampler
    tangled,    \* history: calls overlapped, and none has run alone since
    dropped     \* history: a call that ran alone did not save what it asked

policyVars == <<file, temporary, ppc, wish, merged, live, tangled, dropped>>
slotVars == <<usageVars, policyVars>>

NoPolicy == [day |-> None, threshold |-> None]
Requests == [day : CycleDays \union {None, Leave}, threshold : Thresholds \union {None, Leave}]

PolicyInit ==
    /\ file = NoPolicy
    /\ temporary = None
    /\ ppc = [c \in Setters |-> "idle"]
    /\ wish = [c \in Setters |-> None]
    /\ merged = [c \in Setters |-> None]
    /\ live = None
    /\ tangled = FALSE /\ dropped = FALSE

UsagePolicyInit == UsageInit /\ PolicyInit

Busy == {c \in Setters : ppc[c] # "idle"}
DayOf(policy) == IF policy.day = None THEN DefaultDay ELSE policy.day

\* Mutated: a field the request leaves alone is cleared.
MergeForgetting(current, request) ==
    [f \in {"day", "threshold"} |-> IF request[f] = Leave THEN None ELSE request[f]]

\* mergePolicy: a field the request leaves alone keeps its value.
MergePolicy(current, request) ==
    [f \in {"day", "threshold"} |-> IF request[f] = Leave THEN current[f] ELSE request[f]]

ToPlace(c, place) == ppc' = [ppc EXCEPT ![c] = place]

\* A call returns, with or without having saved.
Ends(c) ==
    /\ ToPlace(c, "idle")
    /\ wish' = [wish EXCEPT ![c] = None]
    /\ merged' = [merged EXCEPT ![c] = None]

\* A request that passed validation (what does not is rejected before it reads
\* anything): the file is loaded and the request folded onto it.
AskPolicy(c, request) ==
    /\ Change
    /\ alive
    /\ ppc[c] = "idle"
    /\ wish' = [wish EXCEPT ![c] = request]
    /\ merged' = [b \in Setters |->
                     IF b = c THEN [policy |-> MergePolicy(file, request), at |-> now,
                                    alone |-> Busy = {}]
                     ELSE IF b \in Busy THEN [merged[b] EXCEPT !.alone = FALSE] ELSE None]
    /\ tangled' = (tangled \/ Busy # {})
    /\ ToPlace(c, "writing")
    /\ UNCHANGED <<now, kernel, moved, alive, account, day, rate, dirty, savedOn,
                   round, draft, disk, ledger>>
    /\ UNCHANGED <<file, temporary, live, dropped>>

\* Mutated: the sampler follows a policy that was not saved.
FailsApplied(c) ==
    /\ Ends(c)
    /\ live' = merged[c].policy.threshold
    /\ UNCHANGED usageVars

\* Only what was saved is applied.
Fails(c) ==
    /\ Ends(c)
    /\ UNCHANGED <<live, usageVars>>

\* The merged policy reaches the temporary path, or the write fails.  Two that
\* are written there at a time may leave what nobody can parse, and a load
\* takes for no policy.
WriteTemporary(c) ==
    /\ ppc[c] = "writing"
    /\ \/ /\ \/ temporary' = merged[c].policy
             \/ Busy # {c} /\ temporary' = NoPolicy
          /\ ToPlace(c, "renaming")
          /\ UNCHANGED <<usageVars, wish, merged, live>>
       \/ Fails(c) /\ UNCHANGED temporary
    /\ UNCHANGED <<file, tangled, dropped>>

\* Every field is as it was asked, and the others as they were.
Saved(before, request, after) ==
    \A f \in {"day", "threshold"} :
        IF request[f] = Leave THEN after[f] = before[f] ELSE after[f] = request[f]

\* Whatever the temporary path holds by then replaces the file, and in the same
\* turn the running sampler follows the policy of this call.  A rename that
\* fails, or finds that another call has renamed the path away, fails the call.
Rename(c) ==
    /\ ppc[c] = "renaming"
    /\ \/ /\ temporary # None
          /\ Ends(c)
          /\ file' = temporary
          /\ temporary' = None
          /\ live' = merged[c].policy.threshold
          /\ ApplyPolicy(DayOf(merged[c].policy), merged[c].at)
          /\ tangled' = (tangled /\ ~merged[c].alone)
          /\ dropped' = (dropped \/ (merged[c].alone /\ ~Saved(file, wish[c], temporary)))
       \/ Fails(c) /\ UNCHANGED <<file, temporary, tangled, dropped>>

\* A restart reads the policy back; calls under way died with the process.
Restart ==
    /\ Start(DayOf(file))
    /\ live' = file.threshold
    /\ tangled' = FALSE
    /\ UNCHANGED <<file, temporary, ppc, wish, merged, dropped>>

\* A step of the sampler or its environment; death takes the calls with it.
Sampling ==
    /\ UsageStep
    /\ IF alive' THEN UNCHANGED <<ppc, wish, merged, live>>
       ELSE /\ ppc' = [c \in Setters |-> "idle"]
            /\ wish' = [c \in Setters |-> None]
            /\ merged' = [c \in Setters |-> None]
            /\ live' = None
    /\ UNCHANGED <<file, temporary, tangled, dropped>>

UsagePolicyNext ==
    \/ Sampling
    \/ \E c \in Setters, request \in Requests : AskPolicy(c, request)
    \/ \E c \in Setters : WriteTemporary(c) \/ Rename(c)
    \/ Restart

UsagePolicySpec == UsagePolicyInit /\ [][UsagePolicyNext]_slotVars

-----------------------------------------------------------------------------
(* Properties. *)

\* A call beside no other saves what it asks, drops no field it never mentioned
\* (policy-write.ts:56-59), and leaves the running process in agreement with
\* what a restart would restore (policy-write.ts:133-137, load, validate,
\* persist, apply), whatever calls that overlapped, failed or died with their
\* process have left behind.  Calls that overlap do not keep this: they save
\* over one another, and one may apply what another's rename has replaced; the
\* process may then disagree with its file until a call runs alone or the
\* process restarts.
PolicyIsKept ==
    /\ alive /\ ~tangled => live = file.threshold /\ day = DayOf(file)
    /\ ~dropped
=============================================================================
