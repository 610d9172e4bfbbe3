--------------------------- MODULE ProviderMatching ---------------------------
(***************************************************************************)
(* Provider matching over the three router providers: the registry and the *)
(* generation-scoped matcher (control/src/providers/matcher.ts), with the  *)
(* probes, logins and capability readers of Huawei HiLink, ZTE goform and  *)
(* UFI/HIMI that it awaits.                                                *)
(*                                                                         *)
(* Every matcher, probe and reader of these providers is worth "strong",   *)
(* so a candidate is its number of strong signals and every candidate that *)
(* is ranked is "supported".  The evidence ledger is left out: nothing is  *)
(* decided from it.                                                        *)
(***************************************************************************)
EXTENDS Naturals, FiniteSets

CONSTANTS
    Matches,       \* calls of match()
    Fetches,       \* calls of observe() or of a read on the selected UFI
    Requests,      \* what an observer knows: [transport, usb, firmware]
    MaxGeneration, \* bound: enumerations of the modem
    MaxCalls,      \* bound: calls in all
    None

VARIABLES
    router,     \* the device: which API answers, whether our login is good
    generation, \* of the physical modem
    at,         \* where each call is
    step,       \* what its UFI session awaits
    asks,       \* the request of each call, with the generation it was made at
    signals,    \* the strong signals of each call, by candidate
    top,        \* the candidate a call has ranked first
    result,     \* what each call answered
    cache,      \* the last result, with the signature it was stored under
    spent, held,\* UFI: generations whose login is spent; those with a session
    proven,     \* ZTE: the profile the evidence of a generation selected
    logins,     \* history: UFI logins of each generation
    accepted    \* history: <<provider, generation>> of the logins accepted

matchVars == <<router, generation, at, step, asks, signals, top, result, cache,
               spent, held, proven, logins, accepted>>

Calls == Matches \union Fetches
Generations == 1..MaxGeneration
Routers ==
    {r \in [api : {"hilink", "zte", "ufi", "other"}, ld : BOOLEAN, good : BOOLEAN] :
        (r.ld => r.api = "zte") /\ (r.good => r.api # "other")}

\* Candidates are <<provider, profile>>.
Hilink(firmware) == <<"hilink", firmware>>
Zte(profile) == <<"zte", profile>>
Himi == <<"ufi", "himi">>
HilinkFirmware == {"type-3", "type-4"}
Candidates ==
    {Hilink(f) : f \in HilinkFirmware}
      \union {Zte(p) : p \in {"legacy", "ld", "unknown"}} \union {Himi}

Unresolved == [provider |-> None, writable |-> FALSE]

MatchInit ==
    /\ router \in Routers
    /\ generation = 1
    /\ at = [c \in Calls |-> "unused"]
    /\ step = [c \in Calls |-> "none"]
    /\ asks = [c \in Calls |-> None]
    /\ signals = [m \in Matches |-> [c \in Candidates |-> 0]]
    /\ top = [m \in Matches |-> Himi]
    /\ result = [m \in Matches |-> Unresolved]
    /\ cache = [signature |-> None, result |-> Unresolved]
    /\ spent = {} /\ held = {}
    /\ proven = [g \in Generations |-> None]
    /\ logins = [g \in Generations |-> 0]
    /\ accepted = {}

Unused(c, calls) ==
    /\ at[c] = "unused"
    /\ c = CHOOSE x \in calls : at[x] = "unused"
    /\ Cardinality({x \in Calls : at[x] # "unused"}) < MaxCalls

-----------------------------------------------------------------------------
(* The matcher. *)

\* Mutated: a re-enumerated modem keeps its selection.
SignatureOfFacts(r) == [r EXCEPT !.generation = 0]

Signature(r) == r

\* What a request proves of each provider before anything is dialled.
HilinkFacts(r) == {Hilink(f) : f \in HilinkFirmware \intersect {r.firmware}}
ZteFacts(r) == IF r.firmware = "mf79u" THEN {Zte("legacy"), Zte("ld")} ELSE {}
UfiFacts(r) == IF r.usb = "himi" THEN {Himi} ELSE {}

Ranked(m) == {c \in Candidates : signals[m][c] > 0}

First(m) == {c \in Ranked(m) : \A d \in Ranked(m) : signals[m][d] <= signals[m][c]}

\* What a call has added up goes with it.
Forget(m) ==
    /\ signals' = [signals EXCEPT ![m] = [c \in Candidates |-> 0]]
    /\ top' = [top EXCEPT ![m] = Himi]

Answer(m, r) ==
    /\ Forget(m)
    /\ result' = [result EXCEPT ![m] = r]
    /\ cache' = [signature |-> Signature(asks[m]), result |-> r]
    /\ at' = [at EXCEPT ![m] = "done"]

Go(m, place) ==
    /\ at' = [at EXCEPT ![m] = place]
    /\ UNCHANGED <<result, cache>>

Hears(m, cs) ==
    signals' = [signals EXCEPT ![m] =
                  [c \in Candidates |-> @[c] + (IF c \in cs THEN 1 ELSE 0)]]

\* A cached result is answered for its own signature only; a transport no
\* provider is eligible for is not evaluated further.
Match(m, r) ==
    LET asked == [transport |-> r.transport, usb |-> r.usb,
                  firmware |-> r.firmware, generation |-> generation] IN
    /\ Unused(m, Matches)
    /\ asks' = [asks EXCEPT ![m] = asked]
    /\ IF cache.signature = Signature(asked)
       THEN /\ result' = [result EXCEPT ![m] = cache.result]
            /\ at' = [at EXCEPT ![m] = "done"]
            /\ UNCHANGED <<signals, cache>>
       ELSE IF r.transport = "network"
       THEN Hears(m, HilinkFacts(r) \union ZteFacts(r) \union UfiFacts(r))
            /\ Go(m, "hilink-probe")
       ELSE Go(m, "rank") /\ UNCHANGED signals
    /\ UNCHANGED <<router, generation, step, top, spent, held, proven, 
                   logins, accepted>>

\* The device answers a request, or it does not.
Answers(api) == {FALSE} \union {router.api = api}

ProbeHilink(m) ==
    /\ at[m] = "hilink-probe"
    /\ \E matches \in Answers("hilink") :
          Hears(m, {Hilink(f) : f \in {g \in HilinkFirmware :
                                        matches /\ asks[m].firmware = g}})
    /\ Go(m, "zte-probe")
    /\ UNCHANGED <<router, generation, step, asks, top, spent, held, proven, 
                   logins, accepted>>

\* The profile goform's own answer selects; the firmware is the request's when
\* the device names none.
Evidenced(r) ==
    CASE r.firmware = "mf79u" /\ router.ld -> "ld"
      [] r.firmware = "mf79u" /\ ~router.ld -> "legacy"
      [] OTHER -> "unknown"

\* The last evidence read for a generation replaces what it held.
ProbeZte(m) ==
    /\ at[m] = "zte-probe"
    /\ \E matches \in Answers("zte") :
          IF matches
          THEN /\ Hears(m, {Zte(Evidenced(asks[m]))})
               /\ proven' = [proven EXCEPT ![asks[m].generation] = Evidenced(asks[m])]
          ELSE UNCHANGED <<signals, proven>>
    /\ Go(m, "ufi-probe")
    /\ UNCHANGED <<router, generation, step, asks, top, spent, held, logins,
                   accepted>>

\* A USB id that is not a HIMI id denies the probe, none does not.
UfiDenied(m) ==
    /\ at[m] = "ufi-probe"
    /\ asks[m].usb = "other"
    /\ Go(m, "rank")
    /\ UNCHANGED <<router, generation, step, asks, signals, top, spent, held, proven,
                   logins, accepted>>

\* Nothing is awaited between the last probe and the first request of the
\* profile ranked first.
Rank(m) ==
    /\ at[m] = "rank"
    /\ IF Cardinality(First(m)) # 1
       THEN Answer(m, Unresolved)
       ELSE /\ top' = [top EXCEPT ![m] = CHOOSE c \in First(m) : TRUE]
            /\ Go(m, IF First(m) = {Himi} THEN "ufi-capability" ELSE "authenticate")
            /\ UNCHANGED signals
    /\ UNCHANGED <<router, generation, step, asks, spent, held, proven,
                   logins, accepted>>

Matched(m, granted) == granted

\* The evidence in hand, read again where there is none.
EvidenceFor(m) ==
    LET g == asks[m].generation IN
    IF proven[g] # None THEN {proven[g]}
    ELSE {None} \union IF router.api = "zte" THEN {Evidenced(asks[m])} ELSE {}

Authenticated(m, granted) ==
    IF Matched(m, granted)
    THEN Go(m, "capability") /\ UNCHANGED <<signals, top>>
    ELSE Answer(m, Unresolved)

\* The one login of an evaluation: sent or not, and what it brings.
LogsIn(m, sent) ==
    LET p == top[m][1]
        granted == sent /\ router.good IN
    /\ accepted' =
          accepted \union IF granted THEN {<<p, asks[m].generation>>} ELSE {}
    /\ Authenticated(m, granted)
    /\ UNCHANGED <<router, generation, step, asks, spent, held, logins>>

\* A device whose password type is not the profile's is sent no login.
HilinkAuthenticate(m) ==
    /\ at[m] = "authenticate" /\ top[m][1] = "hilink"
    /\ \E sent \in Answers("hilink") : LogsIn(m, sent)
    /\ UNCHANGED proven

\* Nor is one that reports a lock, or whose evidence selects another profile.
ZteAuthenticate(m) ==
    LET g == asks[m].generation IN
    /\ at[m] = "authenticate" /\ top[m][1] = "zte" /\ top[m] # Zte("unknown")
    /\ \E seen \in EvidenceFor(m), sent \in Answers("zte") :
          /\ sent => seen = top[m][2]
          /\ proven' = [proven EXCEPT ![g] = seen]
          /\ LogsIn(m, sent)

\* A goform profile nobody knows is read without a login.
ZteReadOnly(m) ==
    /\ at[m] = "authenticate" /\ top[m] = Zte("unknown")
    /\ Authenticated(m, TRUE)
    /\ UNCHANGED <<router, generation, step, asks, spent, held, proven, 
                   logins, accepted>>

\* The readers add to what is supported already; only HiLink has writes.
Capability(m) ==
    /\ at[m] = "capability"
    /\ Answer(m, [provider |-> top[m], writable |-> top[m][1] = "hilink"])
    /\ UNCHANGED <<router, generation, step, asks, spent, held, proven,
                   logins, accepted>>

-----------------------------------------------------------------------------
(* UFI sessions: one login for each modem and generation. *)

Starts == {"ufi-probe", "ufi-capability", "ufi-fetch"}
After(place) ==
    IF place = "ufi-probe" THEN "rank"
    ELSE IF place = "ufi-capability" THEN "capability" ELSE "done"

Await(c, what) ==
    /\ step' = [step EXCEPT ![c] = what]
    /\ UNCHANGED <<at, result, cache>>

Leave(c) ==
    /\ step' = [step EXCEPT ![c] = "none"]
    /\ Go(c, After(at[c]))

\* A call that reads the selected UFI, of the generation it was told of.
Fetch(f) ==
    /\ Unused(f, Fetches)
    /\ at' = [at EXCEPT ![f] = "ufi-fetch"]
    /\ asks' = [asks EXCEPT ![f] = [generation |-> generation]]
    /\ UNCHANGED <<router, generation, step, signals, top, result, cache, spent,
                   held, proven, logins, accepted>>

\* Mutated: a login that brought no session is made again.
MayLogInAgain(g) == TRUE

MayLogIn(g) == g \notin spent

\* A session in hand is used; a generation whose login is spent gets no other.
UfiSession(c) ==
    LET g == asks[c].generation IN
    /\ at[c] \in Starts /\ step[c] = "none"
    /\ at[c] = "ufi-probe" => asks[c].usb # "other"
    /\ IF g \in held
       THEN Await(c, "read") /\ UNCHANGED <<spent, logins>>
       ELSE IF MayLogIn(g)
       THEN /\ Await(c, "login")
            /\ spent' = spent \union {g}
            /\ logins' = [logins EXCEPT ![g] = @ + 1]
       ELSE Leave(c) /\ UNCHANGED <<spent, logins>>
    /\ UNCHANGED <<router, generation, asks, signals, top, held, proven,
                   accepted>>

UfiLogin(c) ==
    LET g == asks[c].generation IN
    /\ step[c] = "login"
    /\ \/ /\ router.api = "ufi" /\ router.good
          /\ held' = held \union {g}
          /\ accepted' = accepted \union {<<"ufi", g>>}
          /\ Await(c, "read")
       \/ Leave(c) /\ UNCHANGED <<held, accepted>>
    /\ UNCHANGED <<router, generation, asks, signals, top, spent, proven,
                   logins>>

\* The bodies arrive, are unreadable, or one of them says the session is gone
\* and it is dropped.
UfiRead(c) ==
    /\ step[c] = "read"
    /\ Leave(c)
    /\ \/ /\ IF at[c] = "ufi-probe" THEN Hears(c, {Himi}) ELSE UNCHANGED signals
          /\ UNCHANGED held
       \/ held' = held \ {asks[c].generation} /\ UNCHANGED signals
       \/ UNCHANGED <<held, signals>>
    /\ UNCHANGED <<router, generation, asks, top, spent, proven, logins,
                   accepted>>

\* A request of the transport is rejected: so is the match, or the read, that
\* made it.  Nothing is stored; a login that was sent stays spent.
Throws(c) ==
    /\ at[c] \notin {"unused", "rank", "done"}
    /\ at[c] \in Starts => step[c] # "none"
    /\ at' = [at EXCEPT ![c] = "done"]
    /\ step' = [step EXCEPT ![c] = "none"]
    /\ IF c \in Matches THEN Forget(c) ELSE UNCHANGED <<signals, top>>
    /\ UNCHANGED <<router, generation, asks, result, cache, spent, held, proven, logins, accepted>>

\* External: the modem leaves and comes back.
Reenumerate ==
    /\ generation < MaxGeneration
    /\ generation' = generation + 1
    /\ UNCHANGED <<router, at, step, asks, signals, top, result, cache, spent, held,
                   proven, logins, accepted>>

MatchNext ==
    \/ \E m \in Matches : \/ \E r \in Requests : Match(m, r)
                          \/ ProbeHilink(m) \/ ProbeZte(m) \/ UfiDenied(m)
                          \/ Rank(m) \/ HilinkAuthenticate(m) \/ ZteAuthenticate(m)
                          \/ ZteReadOnly(m) \/ Capability(m)
    \/ \E f \in Fetches : Fetch(f)
    \/ \E c \in Calls : UfiSession(c) \/ UfiLogin(c) \/ UfiRead(c) \/ Throws(c)
    \/ Reenumerate

MatchSpec == MatchInit /\ [][MatchNext]_matchVars

-----------------------------------------------------------------------------
(* Properties. *)

\* A UFI is sent our credentials at most once for each enumeration, whatever
\* matches, observations and reads overlap and however the first one ended.
OneLoginPerGeneration == \A g \in Generations : logins[g] <= 1

\* A match is answered as writable only where a login to that provider was
\* accepted in the generation the match was asked for, by the device that is
\* there: neither a cached result nor colliding evidence stands in for it.
WritableIsProven ==
    \A m \in Matches :
       result[m].writable =>
           /\ <<result[m].provider[1], asks[m].generation>> \in accepted
           /\ router.api = result[m].provider[1]

=============================================================================
