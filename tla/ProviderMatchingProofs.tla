------------------------ MODULE ProviderMatchingProofs ------------------------
(***************************************************************************)
(* Theorems about provider matching, for any number of calls, any requests *)
(* and any number of enumerations of the modem; and about what the         *)
(* controller decides of it: physical identities for any finite number of  *)
(* units and ports, certified USB switches, the age of observations, and   *)
(* radio writes.                                                           *)
(***************************************************************************)
EXTENDS ProviderMatching, UsbCertification, Observations, MmRadio, ModemIdentity,
        WellFoundedInduction, SequenceTheorems, FiniteSetTheorems, TLAPS

-----------------------------------------------------------------------------
(* One login of a generation.  The runtime marks the login as spent in the   *)
(* turn that sends it, so the history counts what is marked.                 *)

LoginInv ==
    /\ DOMAIN logins = Generations
    /\ \A g \in Generations : logins[g] = IF g \in spent THEN 1 ELSE 0

LEMMA LoginStep == LoginInv /\ [MatchNext]_matchVars => LoginInv'
<1> SUFFICES ASSUME LoginInv, [MatchNext]_matchVars PROVE LoginInv'
  OBVIOUS
<1>1. ASSUME UNCHANGED <<spent, logins>> PROVE LoginInv'
  BY <1>1 DEF LoginInv
<1>2. ASSUME NEW m \in Matches, NEW r \in Requests, Match(m, r) PROVE LoginInv'
  BY <1>1, <1>2 DEF Match
<1>3. ASSUME NEW m \in Matches, ProbeHilink(m) \/ ProbeZte(m) \/ UfiDenied(m) \/ Rank(m)
      PROVE  LoginInv'
  BY <1>1, <1>3 DEF ProbeHilink, ProbeZte, UfiDenied, Rank
<1>4. ASSUME NEW m \in Matches,
             HilinkAuthenticate(m) \/ ZteAuthenticate(m) \/ ZteReadOnly(m) \/ Capability(m)
      PROVE  LoginInv'
  BY <1>1, <1>4
  DEF HilinkAuthenticate, ZteAuthenticate, LogsIn, ZteReadOnly, Capability
<1>5. ASSUME NEW f \in Fetches, Fetch(f) PROVE LoginInv'
  BY <1>1, <1>5 DEF Fetch
<1>6. ASSUME NEW c \in Calls, UfiSession(c) PROVE LoginInv'
  <2> DEFINE g == asks[c].generation
  <2>1. CASE UNCHANGED <<spent, logins>>
    BY <1>1, <2>1
  <2>2. CASE /\ g \notin spent
             /\ spent' = spent \union {g}
             /\ logins' = [logins EXCEPT ![g] = @ + 1]
    BY <2>2 DEF LoginInv
  <2> QED
    BY <1>6, <2>1, <2>2 DEF UfiSession, MayLogIn
<1>7. ASSUME NEW c \in Calls, UfiLogin(c) \/ UfiRead(c) \/ Throws(c) PROVE LoginInv'
  BY <1>1, <1>7 DEF UfiLogin, UfiRead, Throws
<1>8. CASE Reenumerate \/ UNCHANGED matchVars
  BY <1>1, <1>8 DEF Reenumerate, matchVars
<1> QED
  BY <1>2, <1>3, <1>4, <1>5, <1>6, <1>7, <1>8 DEF MatchNext

\* A UFI is sent our credentials at most once for each enumeration, for any
\* number of matches and reads that overlap: the mark is set before the login
\* is awaited (session.ts:58), and nothing takes it back.
THEOREM OneLoginPerGenerationHolds == MatchSpec => []OneLoginPerGeneration
<1>1. MatchInit => LoginInv
  BY DEF MatchInit, LoginInv
<1>2. LoginInv => OneLoginPerGeneration
  BY DEF LoginInv, OneLoginPerGeneration
<1> QED
  BY <1>1, <1>2, LoginStep, PTL DEF MatchSpec

-----------------------------------------------------------------------------
(* Where the calls are.  A UFI session awaits something only in the places   *)
(* that ask for one, and not where the USB id denies the probe.              *)

Places == {"unused", "hilink-probe", "zte-probe", "ufi-probe", "rank",
           "ufi-capability", "authenticate", "capability", "ufi-fetch", "done"}

Results == [provider : Candidates \union {None}, writable : BOOLEAN]

Denied(c) == at[c] = "ufi-probe" /\ asks[c].usb = "other"

Types ==
    /\ at \in [Calls -> Places]
    /\ step \in [Calls -> {"none", "login", "read"}]
    /\ top \in [Matches -> Candidates]
    /\ result \in [Matches -> Results]
    /\ cache.result \in Results
    /\ DOMAIN asks = Calls
    /\ \A c \in Calls : step[c] # "none" => at[c] \in Starts /\ ~Denied(c)

\* What stays as it is keeps its type.
LEMMA TypesStay ==
    ASSUME Types, UNCHANGED <<at, step, asks, top, result, cache>>
    PROVE  Types'
BY DEF Types, Denied

\* A match goes on to a place that follows it, and answers nothing.
LEMMA TypesGo ==
    ASSUME Types, NEW m \in Calls, NEW place \in Places, Go(m, place),
           step[m] = "none", UNCHANGED <<step, asks>>,
           top' \in [Matches -> Candidates]
    PROVE  Types'
BY DEF Types, Denied, Go

\* A match is answered.
LEMMA TypesAnswer ==
    ASSUME Types, NEW m \in Matches, NEW r \in Results, Answer(m, r),
           step[m] = "none", UNCHANGED <<step, asks>>
    PROVE  Types'
<1>1. Himi \in Candidates
  BY DEF Candidates
<1>2. at' = [at EXCEPT ![m] = "done"] /\ at' \in [Calls -> Places]
  BY DEF Answer, Types, Places
<1>3. top' \in [Matches -> Candidates]
  BY <1>1 DEF Answer, Forget, Types
<1>4. result' \in [Matches -> Results] /\ cache'.result \in Results
  BY DEF Answer, Types
<1>5. \A c \in Calls : step'[c] # "none" => at'[c] \in Starts /\ ~Denied(c)'
  BY <1>2 DEF Types, Denied
<1> QED
  BY <1>2, <1>3, <1>4, <1>5 DEF Types

\* The session a call awaited is over.
LEMMA TypesLeave ==
    ASSUME Types, NEW c \in Calls, Leave(c), UNCHANGED <<top, asks>>
    PROVE  Types'
<1>1. After(at[c]) \in Places
  BY DEF After, Places
<1>2. at' \in [Calls -> Places] /\ at' = [at EXCEPT ![c] = After(at[c])]
  BY <1>1 DEF Leave, Go, Types
<1>3. step' \in [Calls -> {"none", "login", "read"}] /\ step' = [step EXCEPT ![c] = "none"]
  BY DEF Leave, Types
<1>4. UNCHANGED <<result, cache>>
  BY DEF Leave, Go
<1> QED
  BY <1>2, <1>3, <1>4 DEF Types, Denied

LEMMA TypesAwait ==
    ASSUME Types, NEW c \in Calls, at[c] \in Starts, ~Denied(c), NEW what \in {"login", "read"},
           Await(c, what), UNCHANGED <<top, asks>>
    PROVE  Types'
BY DEF Types, Denied, Await

LEMMA InitTypes == MatchInit => Types
<1> SUFFICES ASSUME MatchInit PROVE Types
  OBVIOUS
<1>1. Himi \in Candidates
  BY DEF Candidates
<1>2. Unresolved \in Results
  BY DEF Unresolved, Results
<1> QED
  BY <1>1, <1>2 DEF MatchInit, Types, Places

\* The candidate ranked first is one of them.
LEMMA FirstIsCandidate ==
    ASSUME NEW m \in Matches, Cardinality(First(m)) = 1
    PROVE  (CHOOSE c \in First(m) : TRUE) \in Candidates
<1>1. First(m) # {}
  BY FS_EmptySet
<1>2. First(m) \subseteq Candidates
  BY DEF First, Ranked
<1> QED
  BY <1>1, <1>2

LEMMA StepTypes == Types /\ [MatchNext]_matchVars => Types'
<1> SUFFICES ASSUME Types, [MatchNext]_matchVars PROVE Types'
  OBVIOUS
<1>m. Matches \subseteq Calls /\ Fetches \subseteq Calls
  BY DEF Calls
<1>p. /\ {"hilink-probe", "zte-probe", "ufi-probe", "rank", "ufi-capability",
          "authenticate", "capability", "ufi-fetch", "done"} \subseteq Places
      /\ Unresolved \in Results
  BY DEF Places, Results, Unresolved
<1>s. \A c \in Calls : at[c] \notin Starts => step[c] = "none"
  BY DEF Types
<1>1. ASSUME NEW m \in Matches, NEW r \in Requests, Match(m, r) PROVE Types'
  <2>1. m \in Calls /\ at[m] = "unused" /\ step' = step /\ top' = top
    BY <1>1, <1>m DEF Match, Unused
  <2>2. step[m] = "none" /\ DOMAIN asks' = Calls
        /\ \A c \in Calls : c # m => asks'[c] = asks[c]
    BY <1>1, <1>s, <2>1 DEF Match, Starts, Types
  <2>3. at' \in [Calls -> Places] /\ \E p \in Places : at' = [at EXCEPT ![m] = p]
    BY <1>1, <1>p DEF Match, Go, Types
  <2>4. result' \in [Matches -> Results] /\ cache' = cache
    BY <1>1 DEF Match, Go, Types
  <2> QED
    BY <2>1, <2>2, <2>3, <2>4 DEF Types, Denied
<1>2. ASSUME NEW m \in Matches, ProbeHilink(m) PROVE Types'
  BY <1>2, <1>m, <1>p, <1>s, TypesGo DEF ProbeHilink, Starts, Types
<1>3. ASSUME NEW m \in Matches, ProbeZte(m) PROVE Types'
  BY <1>3, <1>m, <1>p, <1>s, TypesGo DEF ProbeZte, Starts, Types
<1>4. ASSUME NEW m \in Matches, UfiDenied(m) PROVE Types'
  <2>1. m \in Calls /\ step[m] = "none" /\ top \in [Matches -> Candidates]
    BY <1>4, <1>m DEF UfiDenied, Types, Denied
  <2> QED
    BY <1>4, <1>p, <2>1, TypesGo DEF UfiDenied
<1>5. ASSUME NEW m \in Matches, Rank(m) PROVE Types'
  <2>1. m \in Calls /\ step[m] = "none" /\ UNCHANGED <<step, asks>>
    BY <1>5, <1>m, <1>s DEF Rank, Starts
  <2>2. CASE Answer(m, Unresolved)
    BY <1>p, <2>1, <2>2, TypesAnswer
  <2>3. CASE /\ Cardinality(First(m)) = 1
             /\ top' = [top EXCEPT ![m] = CHOOSE c \in First(m) : TRUE]
             /\ \E place \in {"ufi-capability", "authenticate"} : Go(m, place)
    <3>1. top' \in [Matches -> Candidates]
      BY <2>3, FirstIsCandidate DEF Types
    <3> QED
      BY <1>p, <2>1, <2>3, <3>1, TypesGo
  <2> QED
    BY <1>5, <2>2, <2>3 DEF Rank
<1>6. ASSUME NEW m \in Matches, NEW granted, Authenticated(m, granted),
             at[m] = "authenticate", UNCHANGED <<step, asks>>
      PROVE  Types'
  <2>1. m \in Calls /\ step[m] = "none" /\ top \in [Matches -> Candidates]
    BY <1>6, <1>m, <1>s DEF Starts, Types
  <2>2. CASE Go(m, "capability") /\ UNCHANGED <<signals, top>>
    BY <1>6, <1>p, <2>1, <2>2, TypesGo
  <2>3. CASE Answer(m, Unresolved)
    BY <1>6, <1>p, <2>1, <2>3, TypesAnswer
  <2> QED
    BY <1>6, <2>2, <2>3 DEF Authenticated
<1>7. ASSUME NEW m \in Matches,
             HilinkAuthenticate(m) \/ ZteAuthenticate(m) \/ ZteReadOnly(m)
      PROVE  Types'
  BY <1>6, <1>7 DEF HilinkAuthenticate, ZteAuthenticate, ZteReadOnly, LogsIn
<1>8. ASSUME NEW m \in Matches, Capability(m) PROVE Types'
  <2>1. m \in Calls /\ step[m] = "none"
    BY <1>8, <1>m, <1>s DEF Capability, Starts
  <2>2. [provider |-> top[m], writable |-> top[m][1] = "hilink"] \in Results
    BY DEF Types, Results
  <2> QED
    BY <1>8, <2>1, <2>2, TypesAnswer DEF Capability
<1>9. ASSUME NEW f \in Fetches, Fetch(f) PROVE Types'
  <2>1. f \in Calls /\ step[f] = "none"
    BY <1>9, <1>m, <1>s DEF Fetch, Unused, Starts
  <2>2. at' = [at EXCEPT ![f] = "ufi-fetch"] /\ at' \in [Calls -> Places]
    BY <1>9, <1>p DEF Fetch, Types
  <2>3. DOMAIN asks' = Calls /\ \A c \in Calls : c # f => asks'[c] = asks[c]
    BY <1>9 DEF Fetch, Types
  <2> QED
    BY <1>9, <2>1, <2>2, <2>3 DEF Fetch, Types, Denied
<1>10. ASSUME NEW c \in Calls, UfiSession(c) PROVE Types'
  <2>1. at[c] \in Starts /\ ~Denied(c) /\ UNCHANGED <<top, asks>>
    BY <1>10 DEF UfiSession, Denied
  <2>2. (\E what \in {"login", "read"} : Await(c, what)) \/ Leave(c)
    BY <1>10 DEF UfiSession
  <2> QED
    BY <2>1, <2>2, TypesAwait, TypesLeave
<1>11. ASSUME NEW c \in Calls, UfiLogin(c) PROVE Types'
  <2>1. at[c] \in Starts /\ ~Denied(c) /\ UNCHANGED <<top, asks>>
    BY <1>11 DEF UfiLogin, Types
  <2>2. Await(c, "read") \/ Leave(c)
    BY <1>11 DEF UfiLogin
  <2> QED
    BY <2>1, <2>2, TypesAwait, TypesLeave
<1>12. ASSUME NEW c \in Calls, UfiRead(c) PROVE Types'
  BY <1>12, TypesLeave DEF UfiRead
<1>13. ASSUME NEW c \in Calls, Throws(c) PROVE Types'
  <2>1. Himi \in Candidates
    BY DEF Candidates
  <2>2. top' \in [Matches -> Candidates]
    BY <1>13, <2>1 DEF Throws, Forget, Types
  <2>3. /\ at' = [at EXCEPT ![c] = "done"]
        /\ step' = [step EXCEPT ![c] = "none"]
        /\ UNCHANGED <<asks, result, cache>>
    BY <1>13 DEF Throws
  <2> QED
    BY <1>p, <2>2, <2>3 DEF Types, Denied
<1>14. CASE Reenumerate \/ UNCHANGED matchVars
  BY <1>14, TypesStay DEF Reenumerate, matchVars
<1> QED
  BY <1>1, <1>2, <1>3, <1>4, <1>5, <1>7, <1>8, <1>9, <1>10, <1>11, <1>12, <1>13, <1>14
  DEF MatchNext

-----------------------------------------------------------------------------
(* Who may write.  A match that is about to read capabilities of a HiLink    *)
(* router has logged in to it in the generation it was asked for, and so had *)
(* whoever left the cached result.                                           *)

LoggedIn(provider, g) == <<provider, g>> \in accepted /\ router.api = provider

Vouched(r, g) == r.writable => LoggedIn(r.provider[1], g)

WriteInv ==
    /\ \A m \in Matches : at[m] = "ufi-capability" => top[m] = Himi
    /\ \A m \in Matches :
          at[m] = "capability" /\ top[m][1] = "hilink" =>
              LoggedIn("hilink", asks[m].generation)
    /\ \A m \in Matches :
          /\ result[m].writable => at[m] = "done"
          /\ Vouched(result[m], asks[m].generation)
    /\ Vouched(cache.result, cache.signature.generation)

\* Logins are never taken back, and the device stays what it is.
LEMMA StaysLoggedIn ==
    ASSUME accepted \subseteq accepted', router' = router,
           NEW p, NEW g, LoggedIn(p, g)
    PROVE  LoggedIn(p, g)'
BY DEF LoggedIn

\* A call goes on, and answers nothing; a match that goes on to its
\* capabilities has logged in where it has to.
LEMMA WriteGo ==
    ASSUME Types, WriteInv, NEW c \in Calls, NEW place,
           Go(c, place), at[c] # "done",
           accepted \subseteq accepted', UNCHANGED <<router, asks>>,
           \A m \in Matches : m # c => top'[m] = top[m],
           c \in Matches /\ place = "ufi-capability" => top'[c] = Himi,
           c \in Matches /\ place = "capability" /\ top'[c][1] = "hilink" =>
              LoggedIn("hilink", asks[c].generation)'
    PROVE  WriteInv'
<1>1. at'[c] = place /\ \A d \in Calls : d # c => at'[d] = at[d]
  BY DEF Go, Types
<1>2. Matches \subseteq Calls
  BY DEF Calls
<1>3. \A m \in Matches : at'[m] = "ufi-capability" => top'[m] = Himi
  BY <1>1, <1>2 DEF WriteInv
<1>4. \A m \in Matches :
         at'[m] = "capability" /\ top'[m][1] = "hilink" =>
            LoggedIn("hilink", asks[m].generation)'
  BY <1>1, <1>2, StaysLoggedIn DEF WriteInv
<1>5. \A m \in Matches : result[m].writable => m # c
  BY DEF WriteInv
<1>6. UNCHANGED <<result, cache>>
  BY DEF Go
<1>7. \A m \in Matches :
         /\ result'[m].writable => at'[m] = "done"
         /\ Vouched(result[m], asks[m].generation)'
  BY <1>1, <1>2, <1>5, <1>6, StaysLoggedIn DEF WriteInv, Vouched
<1>8. Vouched(cache.result, cache.signature.generation)'
  BY <1>6, StaysLoggedIn DEF WriteInv, Vouched
<1> QED
  BY <1>3, <1>4, <1>7, <1>8 DEF WriteInv

\* A match is answered, with something its own generation vouches for.
LEMMA WriteAnswer ==
    ASSUME Types, WriteInv, NEW m \in Matches, NEW r, Answer(m, r),
           accepted \subseteq accepted', UNCHANGED <<router, asks>>,
           Vouched(r, asks[m].generation)'
    PROVE  WriteInv'
<1>1. at'[m] = "done" /\ \A n \in Matches : n # m => at'[n] = at[n]
  BY DEF Answer, Types, Calls
<1>2. \A n \in Matches : n # m => top'[n] = top[n]
  BY DEF Answer, Forget, Types
<1>3. result'[m] = r /\ \A n \in Matches : n # m => result'[n] = result[n]
  BY DEF Answer, Types
<1>4. cache'.result = r /\ cache'.signature.generation = asks[m].generation
  BY DEF Answer, Signature
<1>5. \A n \in Matches :
         /\ at'[n] = "ufi-capability" => top'[n] = Himi
         /\ at'[n] = "capability" /\ top'[n][1] = "hilink" =>
               LoggedIn("hilink", asks[n].generation)'
  BY <1>1, <1>2, StaysLoggedIn DEF WriteInv
<1>6. \A n \in Matches :
         /\ result'[n].writable => at'[n] = "done"
         /\ Vouched(result[n], asks[n].generation)'
  BY <1>1, <1>3, StaysLoggedIn DEF WriteInv, Vouched
<1>7. Vouched(cache.result, cache.signature.generation)'
  BY <1>4 DEF Vouched, LoggedIn
<1> QED
  BY <1>5, <1>6, <1>7 DEF WriteInv

\* Nothing that is answered as unresolved is writable.
LEMMA UnresolvedVouched == \A g : Vouched(Unresolved, g) /\ Vouched(Unresolved, g)'
BY DEF Vouched, Unresolved

LEMMA WriteStep == Types /\ WriteInv /\ [MatchNext]_matchVars => WriteInv'
<1> SUFFICES ASSUME Types, WriteInv, [MatchNext]_matchVars PROVE WriteInv'
  OBVIOUS
<1>m. Matches \subseteq Calls /\ Fetches \subseteq Calls
  BY DEF Calls
<1>1. ASSUME NEW m \in Matches, NEW r \in Requests, Match(m, r) PROVE WriteInv'
  <2> DEFINE g == asks'[m].generation
  <2>1. at[m] = "unused" /\ UNCHANGED <<router, accepted, top, cache>>
    BY <1>1 DEF Match, Go, Unused
  <2>2. \A n \in Matches : n # m => /\ asks'[n] = asks[n]
                                    /\ at'[n] = at[n]
                                    /\ result'[n] = result[n]
    BY <1>1, <1>m DEF Match, Go, Types
  <2>3. at'[m] \in {"hilink-probe", "rank", "done"}
    BY <1>1, <1>m DEF Match, Go, Types
  <2>4. CASE at'[m] = "done" /\ result'[m] = cache.result
             /\ cache.signature = asks'[m]
    <3>1. Vouched(result[m], asks[m].generation)'
      BY <2>1, <2>4 DEF WriteInv, Vouched, LoggedIn
    <3> QED
      BY <2>1, <2>2, <2>4, <3>1 DEF WriteInv, Vouched, LoggedIn
  <2>5. CASE result'[m] = result[m]
    <3>1. ~result'[m].writable
      BY <2>1, <2>5 DEF WriteInv
    <3> QED
      BY <2>1, <2>2, <2>3, <3>1 DEF WriteInv, Vouched, LoggedIn
  <2>6. \/ at'[m] = "done" /\ result'[m] = cache.result /\ cache.signature = asks'[m]
        \/ result'[m] = result[m]
    BY <1>1, <1>m DEF Match, Go, Signature, Types
  <2> QED
    BY <2>4, <2>5, <2>6
<1>2. ASSUME NEW m \in Matches, ProbeHilink(m) \/ ProbeZte(m) \/ UfiDenied(m)
      PROVE  WriteInv'
  BY <1>2, <1>m, WriteGo DEF ProbeHilink, ProbeZte, UfiDenied
<1>3. ASSUME NEW m \in Matches, Rank(m) PROVE WriteInv'
  <2>1. CASE Answer(m, Unresolved)
    BY <1>3, <2>1, WriteAnswer, UnresolvedVouched DEF Rank
  <2>2. CASE /\ top' = [top EXCEPT ![m] = CHOOSE c \in First(m) : TRUE]
             /\ Go(m, IF First(m) = {Himi} THEN "ufi-capability" ELSE "authenticate")
    <3>1. First(m) = {Himi} => top'[m] = Himi
      BY <2>2 DEF Types
    <3>2. \A n \in Matches : n # m => top'[n] = top[n]
      BY <2>2 DEF Types
    <3>3. at[m] # "done" /\ UNCHANGED <<router, asks, accepted>>
      BY <1>3 DEF Rank
    <3> QED
      BY <1>m, <2>2, <3>1, <3>2, <3>3, WriteGo
  <2> QED
    BY <1>3, <2>1, <2>2 DEF Rank
<1>4. ASSUME NEW m \in Matches, NEW granted, Authenticated(m, granted),
             at[m] = "authenticate", accepted \subseteq accepted',
             UNCHANGED <<router, asks>>,
             granted /\ top[m][1] = "hilink" =>
                LoggedIn("hilink", asks[m].generation)'
      PROVE  WriteInv'
  <2>1. CASE granted
    BY <1>4, <1>m, <2>1, WriteGo DEF Authenticated, Matched
  <2>2. CASE ~granted
    BY <1>4, <2>2, WriteAnswer, UnresolvedVouched DEF Authenticated, Matched
  <2> QED
    BY <2>1, <2>2
<1>5. ASSUME NEW m \in Matches, HilinkAuthenticate(m) PROVE WriteInv'
  <2>1. PICK sent \in Answers("hilink") : LogsIn(m, sent)
    BY <1>5 DEF HilinkAuthenticate
  <2>2. sent => router.api = "hilink"
    BY DEF Answers
  <2>3. sent /\ router.good => <<"hilink", asks[m].generation>> \in accepted'
    BY <1>5, <2>1 DEF HilinkAuthenticate, LogsIn
  <2>4. /\ Authenticated(m, sent /\ router.good)
        /\ accepted \subseteq accepted' /\ UNCHANGED <<router, asks>>
    BY <2>1 DEF LogsIn
  <2> QED
    BY <1>4, <1>5, <2>2, <2>3, <2>4 DEF HilinkAuthenticate, LoggedIn
<1>6. ASSUME NEW m \in Matches, ZteAuthenticate(m) PROVE WriteInv'
  <2>1. PICK sent \in Answers("zte") : LogsIn(m, sent)
    BY <1>6 DEF ZteAuthenticate
  <2>2. /\ Authenticated(m, sent /\ router.good)
        /\ accepted \subseteq accepted' /\ UNCHANGED <<router, asks>>
    BY <2>1 DEF LogsIn
  <2> QED
    BY <1>4, <1>6, <2>2 DEF ZteAuthenticate
<1>7. ASSUME NEW m \in Matches, ZteReadOnly(m) PROVE WriteInv'
  <2>1. top[m][1] = "zte"
    BY <1>7 DEF ZteReadOnly, Zte
  <2> QED
    BY <1>4, <1>7, <2>1 DEF ZteReadOnly
<1>8. ASSUME NEW m \in Matches, Capability(m) PROVE WriteInv'
  <2>1. PICK r : r = [provider |-> top[m], writable |-> top[m][1] = "hilink"]
    OBVIOUS
  <2>2. at[m] = "capability" /\ Answer(m, r) /\ UNCHANGED <<router, asks, accepted>>
    BY <1>8, <2>1 DEF Capability
  <2>3. r.provider = top[m] /\ (r.writable => top[m][1] = "hilink")
    BY <2>1
  <2>4. r.writable => LoggedIn(r.provider[1], asks[m].generation)
    BY <2>2, <2>3 DEF WriteInv
  <2>5. Vouched(r, asks[m].generation)'
    BY <2>2, <2>4 DEF Vouched, LoggedIn
  <2> QED
    BY <2>2, <2>5, WriteAnswer
<1>9. ASSUME NEW f \in Fetches, Fetch(f) PROVE WriteInv'
  <2>1. at[f] = "unused" /\ UNCHANGED <<router, accepted, top, result, cache>>
    BY <1>9 DEF Fetch, Unused
  <2>2. at' = [at EXCEPT ![f] = "ufi-fetch"]
        /\ \A c \in Calls : c # f => asks'[c] = asks[c]
    BY <1>9 DEF Fetch, Types
  <2>3. \A m \in Matches : result[m].writable => m # f
    BY <2>1 DEF WriteInv
  <2>4. at'[f] = "ufi-fetch" /\ \A c \in Calls : c # f => at'[c] = at[c]
    BY <1>m, <2>2 DEF Types
  <2> QED
    BY <1>m, <2>1, <2>2, <2>3, <2>4 DEF WriteInv, Vouched, LoggedIn
<1>10. ASSUME NEW c \in Calls, at[c] \in Starts, Leave(c),
              accepted \subseteq accepted', UNCHANGED <<router, asks, top>>
       PROVE  WriteInv'
  <2>1. at[c] # "done" /\ Go(c, After(at[c]))
    BY <1>10 DEF Leave, Starts
  <2>2. After(at[c]) # "ufi-capability"
    BY DEF After
  <2>3. c \in Matches /\ After(at[c]) = "capability" => top[c] = Himi
    BY DEF After, WriteInv
  <2>4. Himi[1] # "hilink"
    BY DEF Himi
  <2> QED
    BY <1>10, <2>1, <2>2, <2>3, <2>4, WriteGo
<1>11. ASSUME accepted \subseteq accepted',
              UNCHANGED <<router, asks, at, top, result, cache>>
       PROVE  WriteInv'
  BY <1>11, StaysLoggedIn DEF WriteInv, Vouched
<1>12. ASSUME NEW c \in Calls, UfiSession(c) \/ UfiLogin(c) \/ UfiRead(c)
       PROVE  WriteInv'
  <2>1. at[c] \in Starts /\ accepted \subseteq accepted' /\ UNCHANGED <<router, asks, top>>
    BY <1>12 DEF UfiSession, UfiLogin, UfiRead, Types
  <2>2. Leave(c) \/ UNCHANGED <<at, result, cache>>
    BY <1>12 DEF UfiSession, UfiLogin, UfiRead, Await
  <2> QED
    BY <1>10, <1>11, <2>1, <2>2
<1>13. ASSUME NEW c \in Calls, Throws(c) PROVE WriteInv'
  <2>1. /\ at[c] # "done" /\ at' = [at EXCEPT ![c] = "done"]
        /\ UNCHANGED <<router, asks, result, cache, accepted>>
    BY <1>13 DEF Throws
  <2>2. \A m \in Matches : m # c => top'[m] = top[m]
    BY <1>13 DEF Throws, Forget, Types
  <2> QED
    BY <2>1, <2>2, WriteGo DEF Go
<1>14. CASE Reenumerate \/ UNCHANGED matchVars
  BY <1>11, <1>14 DEF Reenumerate, matchVars
<1> QED
  BY <1>1, <1>2, <1>3, <1>5, <1>6, <1>7, <1>8, <1>9, <1>12, <1>13, <1>14 DEF MatchNext

\* A match is answered as writable only where a login to that provider was
\* accepted in the generation the match was asked for, by the device that is
\* there: the signature of the cache holds the generation, so a result never
\* passes from one enumeration to the next.
THEOREM WritableIsProvenHolds == MatchSpec => []WritableIsProven
<1>1. MatchInit => Types /\ WriteInv
  BY InitTypes DEF MatchInit, WriteInv, Vouched, Unresolved, Calls
<1>2. WriteInv => WritableIsProven
  BY DEF WriteInv, WritableIsProven, Vouched, LoggedIn
<1> QED
  BY <1>1, <1>2, StepTypes, WriteStep, PTL DEF MatchSpec

-----------------------------------------------------------------------------
(* What a USB device is, and the certified switches.                         *)

UsbTypes ==
    usb \in [Devices -> [here : BOOLEAN, mode : DOMAIN Composition, bound : Nat]]

KindsOf(m) == {Composition[m][n].kind : n \in DOMAIN Composition[m]}

\* A capture knows what it read of the device; w is what the device was in.
ReadBefore(c, w) == w[1] \in DOMAIN Composition /\ ReadsAs(w[1], c.from)
ReadAfter(c, w) ==
    w[2] \in DOMAIN Composition /\ ReadsAs(w[2], c.to) /\ c.after = KindsOf(w[2])

\* A transition that was seen to happen on a real device.
Evident(t) ==
    \E w \in witnessed :
        /\ w[1] \in DOMAIN Composition /\ ReadsAs(w[1], t.from)
        /\ w[2] \in DOMAIN Composition /\ ReadsAs(w[2], t.to)
        /\ t.expected = KindsOf(w[2])

CaptureFields == {"at", "device", "from", "to", "synthetic", "after", "listed", "was"}

CaptureInv(c) ==
    /\ DOMAIN c = CaptureFields
    /\ c.device \in Devices
    /\ c.was = <<c.was[1], c.was[2]>>
    /\ ReadBefore(c, c.was)
    /\ c.at \in {"drop", "return"} => c.to # "none"
    /\ c.at = "returned" => ReadAfter(c, c.was)

CertInv ==
    /\ UsbTypes
    /\ \A t \in catalog : t.evidence => Evident(t)
    /\ capture # Idle => CaptureInv(capture)
    /\ bundle # NoBundle /\ bundle.to # "none" =>
          \/ bundle.synthetic
          \/ /\ bundle.was \in witnessed
             /\ ReadBefore(bundle, bundle.was) /\ ReadAfter(bundle, bundle.was)
    /\ review # NoBundle => \A e \in review.entry : \A t \in e.transitions : Evident(t)

LEMMA SeqElements ==
    ASSUME NEW S, NEW s \in Seq(S), NEW n \in DOMAIN s
    PROVE  s[n] \in S /\ n \in Nat
OBVIOUS

\* What is read of an interface before its driver is bound: its kind.
LEMMA FacesKinds ==
    ASSUME NEW m \in DOMAIN Composition, NEW bound
    PROVE  /\ DOMAIN Faces(m, bound) = DOMAIN Composition[m]
           /\ \A n \in DOMAIN Faces(m, bound) :
                 Faces(m, bound)[n].kind = Composition[m][n].kind
           /\ DescriptorsOf(Faces(m, bound)) = KindsOf(m)
<1> DEFINE faces == Composition[m]
<1>1. faces \in Seq([kind : STRING, driver : STRING])
  BY CompositionAssumption
<1>2. \A n \in DOMAIN faces : faces[n] \in [kind : STRING, driver : STRING]
  BY <1>1, SeqElements
<1>3. Faces(m, bound) = [n \in DOMAIN faces |->
                            IF n <= bound THEN faces[n]
                            ELSE [faces[n] EXCEPT !.driver = "none"]]
  BY DEF Faces
<1> HIDE DEF faces
<1>4. /\ DOMAIN Faces(m, bound) = DOMAIN faces
      /\ \A n \in DOMAIN faces : Faces(m, bound)[n].kind = faces[n].kind
  BY <1>2, <1>3
<1> QED BY <1>4 DEF faces, DescriptorsOf, KindsOf

\* With all drivers bound a unit reads as the mode it is in.
LEMMA BoundReads ==
    ASSUME NEW m \in DOMAIN Composition
    PROVE  DetectUsbMode(Faces(m, Len(Composition[m]))) = m
<1> DEFINE faces == Composition[m]
<1>1. faces \in Seq([kind : STRING, driver : STRING])
  BY CompositionAssumption
<1>2. Faces(m, Len(faces)) = [n \in DOMAIN faces |->
                                IF n <= Len(faces) THEN faces[n]
                                ELSE [faces[n] EXCEPT !.driver = "none"]]
  BY DEF Faces
<1> HIDE DEF faces
<1>3. DOMAIN faces = 1..Len(faces) /\ faces = [n \in 1..Len(faces) |-> faces[n]]
  BY <1>1
<1>4. Faces(m, Len(faces)) = faces
  BY <1>2, <1>3
<1> QED BY <1>4, CompositionAssumption DEF faces

\* No more drivers bind than there are interfaces, as far as can be read: what
\* is read of a unit is what is read with some number of them bound.
LEMMA UnitReads ==
    ASSUME UsbTypes, NEW d \in Devices
    PROVE  ReadsAs(usb[d].mode, DetectUsbMode(Enumerated(d)))
<1> DEFINE m == usb[d].mode
           b == usb[d].bound
           faces == Composition[m]
<1>1. m \in DOMAIN Composition /\ b \in Nat
  BY DEF UsbTypes
<1>2. faces \in Seq([kind : STRING, driver : STRING])
  BY <1>1, CompositionAssumption
<1>3. Len(faces) \in Nat /\ DOMAIN faces = 1..Len(faces)
  BY <1>2
<1>4. CASE b <= Len(faces)
  BY <1>1, <1>3, <1>4 DEF ReadsAs, Enumerated
<1>5. CASE b > Len(faces)
  <2>1. \A n \in DOMAIN faces : n <= b /\ n <= Len(faces)
    BY <1>1, <1>3, <1>5
  <2>2. Faces(m, b) = Faces(m, Len(faces))
    BY <2>1 DEF Faces
  <2>3. Len(faces) \in 0..Len(faces)
    BY <1>3
  <2> QED BY <2>2, <2>3 DEF ReadsAs, Enumerated
<1> QED BY <1>1, <1>3, <1>4, <1>5

\* The verdict is one of the modes, or none.
LEMMA ModeIsCanonical ==
    ASSUME NEW faces
    PROVE  DetectUsbMode(faces) \in CanonicalModes \union {"none"}
<1>1. DetectUsbMode(faces) \in {"mbim", "rndis", "ecm-ncm", "router-ethernet", "qmi", "none"}
  BY Zenon DEF DetectUsbMode
<1> QED BY <1>1 DEF CanonicalModes, MmModes

LEMMA ManagedHasControl ==
    ASSUME NEW faces
    PROVE  ClassifyDevice(faces) = "mm-managed" <=> \E n \in DOMAIN faces : IsControl(faces[n])
<1>1. ClassifyDevice(faces) = "mm-managed" <=> Some(faces, IsControl)
  BY Zenon DEF ClassifyDevice
<1> QED BY <1>1 DEF Some

LEMMA UsbTypesKept ==
    ASSUME UsbTypes, UsbNext, capture # Idle => capture.device \in Devices
    PROVE  UsbTypes'
<1> DEFINE Unit == [here : BOOLEAN, mode : DOMAIN Composition, bound : Nat]
<1>1. ASSUME NEW d \in Devices, NEW unit \in Unit, usb' = [usb EXCEPT ![d] = unit]
      PROVE  UsbTypes'
  BY <1>1 DEF UsbTypes
<1>2. ASSUME NEW d \in Devices, NEW mode \in DOMAIN Composition, Comes(d, mode)
      PROVE  UsbTypes'
  BY <1>1, <1>2 DEF Comes
<1>3. ASSUME NEW d \in Devices, Goes(d)
      PROVE  UsbTypes'
  <2>1. [usb[d] EXCEPT !.here = FALSE] \in Unit
    BY DEF UsbTypes
  <2>2. [usb[d] EXCEPT !.here = FALSE, !.bound = 0] \in Unit
    BY <2>1
  <2>3. usb' = [usb EXCEPT ![d] = [usb[d] EXCEPT !.here = FALSE, !.bound = 0]]
    BY <1>3, Zenon DEF Goes
  <2> HIDE DEF Unit
  <2> QED BY <1>1, <2>2, <2>3
<1>4. CASE Replug
  BY <1>2, <1>3, <1>4 DEF Replug, UsbTypes
<1>5. CASE BindDriver
  <2>1. PICK d \in Devices : usb' = [usb EXCEPT ![d].bound = usb[d].bound + 1]
    BY <1>5, Zenon DEF BindDriver, Present
  <2>2. [usb[d] EXCEPT !.bound = usb[d].bound + 1] \in Unit
    BY DEF UsbTypes
  <2>3. usb' = [usb EXCEPT ![d] = [usb[d] EXCEPT !.bound = usb[d].bound + 1]]
    BY <2>1, Zenon
  <2> HIDE DEF Unit
  <2> QED BY <1>1, <2>2, <2>3
<1>6. CASE SendCommand
  <2>1. capture.device \in Devices
    BY <1>6 DEF SendCommand, Idle
  <2>2. CASE UNCHANGED World
    BY <2>2 DEF World, UsbTypes
  <2>3. CASE /\ capture.to \in DOMAIN Composition
             /\ usb' = [usb EXCEPT ![capture.device] =
                           [here |-> FALSE, mode |-> capture.to, bound |-> 0]]
    BY <1>1, <2>1, <2>3
  <2> QED BY <1>6, <2>2, <2>3 DEF SendCommand
<1>7. CASE ComesBack
  <2>1. capture.device \in Devices
    BY <1>7 DEF ComesBack, Idle
  <2> QED BY <1>2, <1>7, <2>1 DEF ComesBack, Enumerates, UsbTypes
<1>8. CASE UNCHANGED usb
  BY <1>8 DEF UsbTypes
<1> QED BY <1>4, <1>5, <1>6, <1>7, <1>8
    DEF UsbNext, Certify, MatchDevice, CaptureBase, SeesDrop, SeesReturn, TimesOut, WriteBundle,
        Ingest, Promote, World

\* What was evident stays so, and what is read of a mode never changes.
LEMMA EvidenceStays ==
    ASSUME witnessed \subseteq witnessed'
    PROVE  \A t : Evident(t) => Evident(t)'
BY DEF Evident, ReadsAs, Faces, DetectUsbMode, Some, KindsOf

\* What the catalog and the papers say stays right while nothing is written.
LEMMA CaptureGoesOn ==
    ASSUME CertInv, UsbTypes', UNCHANGED <<bundle, review, catalog, witnessed>>,
           capture' # Idle => CaptureInv(capture')
    PROVE  CertInv'
<1>1. \A t : Evident(t) => Evident(t)'
  BY EvidenceStays
<1>2. CaptureInv(capture)' = CaptureInv(capture')
  BY DEF CaptureInv, ReadBefore, ReadAfter, ReadsAs, Faces, DetectUsbMode, Some, KindsOf
<1>3. /\ ReadBefore(bundle, bundle.was)' = ReadBefore(bundle, bundle.was)
      /\ ReadAfter(bundle, bundle.was)' = ReadAfter(bundle, bundle.was)
  BY DEF ReadBefore, ReadAfter, ReadsAs, Faces, DetectUsbMode, Some, KindsOf
<1> QED BY <1>1, <1>2, <1>3 DEF CertInv

LEMMA CertKept ==
    ASSUME CertInv, [UsbNext]_usbVars
    PROVE  CertInv'
<1>0. CASE UNCHANGED usbVars
  <2>1. UsbTypes' /\ UNCHANGED <<capture, bundle, review, catalog, witnessed>>
    BY <1>0 DEF usbVars, CertInv, UsbTypes
  <2> QED BY <2>1, CaptureGoesOn DEF CertInv
<1>t. UsbNext => UsbTypes'
  BY UsbTypesKept DEF CertInv, CaptureInv
<1>1. CASE Replug \/ BindDriver \/ ComesBack
  BY <1>1, <1>t, CaptureGoesOn
  DEF Replug, BindDriver, ComesBack, Enumerates, Papers, CertInv, UsbNext, Certify
<1>2. CASE MatchDevice
  <2>1. PICK d \in Present, to \in MmModes \union {"none"}, synthetic \in BOOLEAN :
           capture' = [at |-> "matched", device |-> d,
                       from |-> DetectUsbMode(Enumerated(d)), to |-> to,
                       synthetic |-> synthetic, after |-> {}, listed |-> {},
                       was |-> <<usb[d].mode, usb[d].mode>>]
    BY <1>2, Zenon DEF MatchDevice
  <2> DEFINE from == DetectUsbMode(Enumerated(d))
  <2>2. d \in Devices /\ usb[d].mode \in DOMAIN Composition /\ ReadsAs(usb[d].mode, from)
    BY UnitReads DEF Present, CertInv, UsbTypes
  <2> HIDE DEF from
  <2>3. /\ DOMAIN capture' = CaptureFields /\ capture'.device = d /\ capture'.at = "matched"
        /\ capture'.from = from /\ capture'.was = <<usb[d].mode, usb[d].mode>>
    BY <2>1 DEF CaptureFields, from
  <2>4. CaptureInv(capture')
    BY <2>2, <2>3 DEF CaptureInv, ReadBefore
  <2> QED BY <1>2, <1>t, <2>4, CaptureGoesOn DEF MatchDevice, UsbNext, Certify
<1>3. CASE CaptureBase \/ SendCommand \/ SeesDrop
  <2>1. /\ capture # Idle
        /\ \/ /\ capture' = [capture EXCEPT !.at = "base", !.listed = ParseUsbDevices]
           \/ /\ capture' = [capture EXCEPT !.at = "drop"] /\ capture.to # "none"
           \/ /\ capture' = [capture EXCEPT !.at = "return"] /\ capture.to # "none"
    BY <1>3 DEF CaptureBase, SendCommand, SeesDrop, CertInv, CaptureInv, Idle
  <2>2. /\ DOMAIN capture' = CaptureFields /\ capture'.at \in {"base", "drop", "return"}
        /\ capture'.at # "base" => capture'.to # "none"
        /\ capture'.device = capture.device /\ capture'.from = capture.from
        /\ capture'.to = capture.to /\ capture'.was = capture.was
    BY <2>1 DEF CertInv, CaptureInv, CaptureFields
  <2>3. UNCHANGED <<bundle, review, catalog, witnessed>> /\ UsbTypes'
    BY <1>3, <1>t DEF CaptureBase, SendCommand, SeesDrop, UsbNext, Certify
  <2>4. CaptureInv(capture')
    BY <2>1, <2>2 DEF CertInv, CaptureInv, ReadBefore
  <2> QED BY <2>3, <2>4, CaptureGoesOn
<1>4. CASE SeesReturn
  <2> DEFINE mode == usb[capture.device].mode
  <2>1. capture # Idle /\ Returned(capture.device) /\ CaptureInv(capture)
    BY <1>4 DEF SeesReturn, Idle, CertInv
  <2>2. /\ DOMAIN capture' = CaptureFields /\ capture'.at = "returned"
        /\ capture'.after = DescriptorsOf(Enumerated(capture.device))
        /\ capture'.device = capture.device /\ capture'.from = capture.from
        /\ capture'.to = capture.to /\ capture'.was = <<capture.was[1], mode>>
    BY <1>4, <2>1 DEF SeesReturn, CaptureInv, CaptureFields
  <2>3. capture.device \in Devices /\ mode \in DOMAIN Composition
    BY <2>1 DEF CaptureInv, CertInv, UsbTypes
  <2>4. ReadsAs(mode, capture.to)
    BY <2>1, <2>3, UnitReads DEF Returned, CertInv
  <2>5. DescriptorsOf(Enumerated(capture.device)) = KindsOf(mode)
    BY <2>3, FacesKinds DEF Enumerated
  <2> HIDE DEF mode
  <2>6. CaptureInv(capture')
    BY <2>1, <2>2, <2>3, <2>4, <2>5 DEF CaptureInv, ReadBefore, ReadAfter
  <2>7. UNCHANGED <<bundle, review, catalog, witnessed>> /\ UsbTypes'
    BY <1>4, <1>t DEF SeesReturn, UsbNext, Certify
  <2> QED BY <2>6, <2>7, CaptureGoesOn
<1>5. CASE TimesOut
  BY <1>5, <1>t, CaptureGoesOn DEF TimesOut, UsbNext, Certify
<1>6. CASE WriteBundle
  <2>1. capture # Idle /\ bundle' = [capture EXCEPT !.at = "written"] /\ CaptureInv(capture)
    BY <1>6 DEF WriteBundle, CertInv
  <2>2. /\ bundle'.from = capture.from /\ bundle'.to = capture.to
        /\ bundle'.after = capture.after /\ bundle'.synthetic = capture.synthetic
        /\ bundle'.was = capture.was
    BY <2>1 DEF CaptureInv, CaptureFields
  <2>3. witnessed' = IF capture.to = "none" \/ capture.synthetic THEN witnessed
                     ELSE witnessed \union {capture.was}
    BY <1>6 DEF WriteBundle
  <2>4. ASSUME capture.to # "none"
        PROVE  ReadBefore(capture, capture.was) /\ ReadAfter(capture, capture.was)
    <3>1. capture.at = "returned"
      BY <1>6, <2>4 DEF WriteBundle
    <3> QED BY <2>1, <3>1 DEF CaptureInv
  <2>5. bundle'.to # "none" =>
           \/ bundle'.synthetic
           \/ /\ bundle'.was \in witnessed'
              /\ ReadBefore(bundle', bundle'.was) /\ ReadAfter(bundle', bundle'.was)
    BY <2>2, <2>3, <2>4 DEF ReadBefore, ReadAfter
  <2>6. capture' = Idle /\ review' = NoBundle /\ UNCHANGED <<usb, catalog>>
    BY <1>6 DEF WriteBundle, World
  <2>7. \A t : Evident(t) => Evident(t)'
    BY <2>3, EvidenceStays
  <2>8. /\ ReadBefore(bundle, bundle.was)' = ReadBefore(bundle', bundle'.was)
        /\ ReadAfter(bundle, bundle.was)' = ReadAfter(bundle', bundle'.was)
    BY DEF ReadBefore, ReadAfter, ReadsAs, Faces, DetectUsbMode, Some, KindsOf
  <2> QED BY <2>5, <2>6, <2>7, <2>8 DEF CertInv, UsbTypes
<1>7. CASE Ingest
  <2>1. PICK claim \in CanonicalModes :
           review' = [entry |-> BuildEntry(bundle, claim), fixture |-> BuildFixture(bundle)]
    BY <1>7 DEF Ingest
  <2>2. UNCHANGED <<usb, capture, bundle, catalog, witnessed>> /\ bundle # NoBundle
    BY <1>7 DEF Ingest, World
  <2>3. ASSUME NEW e \in BuildEntry(bundle, claim), NEW t \in e.transitions
        PROVE  Evident(t)
    <3>1. e = Candidate(bundle, claim) /\ ~bundle.synthetic
      BY <2>3 DEF BuildEntry
    <3>2. /\ bundle.to # "none"
          /\ t = [from |-> bundle.from, to |-> bundle.to, expected |-> bundle.after,
                  evidence |-> TRUE]
      BY <2>3, <3>1 DEF Candidate
    <3>3. /\ bundle.was \in witnessed
          /\ ReadBefore(bundle, bundle.was) /\ ReadAfter(bundle, bundle.was)
      BY <2>2, <3>1, <3>2 DEF CertInv
    <3> QED BY <3>2, <3>3 DEF Evident, ReadBefore, ReadAfter
  <2>4. review'.entry = BuildEntry(bundle, claim)
    BY <2>1
  <2>5. \A t : Evident(t) => Evident(t)'
    BY <2>2, EvidenceStays
  <2>6. \A e \in review'.entry : \A t \in e.transitions : Evident(t)'
    BY <2>3, <2>4, <2>5
  <2>7. /\ CaptureInv(capture)' = CaptureInv(capture)
        /\ ReadBefore(bundle, bundle.was)' = ReadBefore(bundle, bundle.was)
        /\ ReadAfter(bundle, bundle.was)' = ReadAfter(bundle, bundle.was)
    BY <2>2 DEF CaptureInv, ReadBefore, ReadAfter, ReadsAs, Faces, DetectUsbMode, Some, KindsOf
  <2> QED BY <2>2, <2>5, <2>6, <2>7 DEF CertInv, UsbTypes
<1>8. CASE Promote
  <2>1. PICK e \in review.entry : catalog' = e.transitions
    BY <1>8 DEF Promote
  <2>2. /\ review # NoBundle /\ bundle' = NoBundle /\ review' = NoBundle
        /\ UNCHANGED <<usb, capture, witnessed>>
    BY <1>8 DEF Promote, World
  <2>3. \A t : Evident(t) => Evident(t)'
    BY <2>2, EvidenceStays
  <2>4. CaptureInv(capture)' = CaptureInv(capture)
    BY <2>2 DEF CaptureInv, ReadBefore, ReadAfter, ReadsAs, Faces, DetectUsbMode, Some, KindsOf
  <2> QED BY <2>1, <2>2, <2>3, <2>4 DEF CertInv, UsbTypes
<1> QED BY <1>0, <1>1, <1>2, <1>3, <1>4, <1>5, <1>6, <1>7, <1>8 DEF UsbNext, Certify

LEMMA UsbTypesStart ==
    ASSUME UsbInit
    PROVE  UsbTypes
<1> DEFINE Fitted(m) == [here |-> TRUE, mode |-> m, bound |-> Len(Composition[m])]
           Unit == [here : BOOLEAN, mode : DOMAIN Composition, bound : Nat]
<1>1. \A m \in DOMAIN Composition : Len(Composition[m]) \in Nat
  BY CompositionAssumption
<1>2. \A m \in DOMAIN Composition : Fitted(m) \in Unit
  BY <1>1
<1>3. usb \in [Devices -> {Fitted(m) : m \in DOMAIN Composition}]
  BY DEF UsbInit
<1> HIDE DEF Fitted, Unit
<1>4. usb \in [Devices -> Unit]
  BY <1>2, <1>3
<1> QED BY <1>4 DEF UsbTypes, Unit

\* A transition with evidence behind it was seen on a real device, between the
\* very modes it names as far as enumerations tell them apart; and if no other
\* mode is mistaken for the one it leads to, every unit in that mode proves it
\* again: for any compositions, devices, switches, captures and reviews
\* (cli/src/certify/, usb-mode/ingestion.ts).
THEOREM CertifiedIsProvableHolds == UsbSpec => []CertifiedIsProvable
<1>1. UsbInit => CertInv
  <2> SUFFICES ASSUME UsbInit PROVE CertInv
    OBVIOUS
  <2>1. UsbTypes
    BY UsbTypesStart
  <2>2. \A t \in catalog : t.evidence = FALSE
    BY DEF UsbInit, Shipped
  <2> QED BY <2>1, <2>2 DEF UsbInit, CertInv
<1>2. CertInv /\ [UsbNext]_usbVars => CertInv'
  BY CertKept
<1>3. CertInv => CertifiedIsProvable
  <2> SUFFICES ASSUME CertInv, NEW t \in catalog, t.evidence
               PROVE  /\ \E w \in witnessed :
                            /\ Unmistaken(t.from) => w[1] = t.from
                            /\ Unmistaken(t.to) => w[2] = t.to
                      /\ Unmistaken(t.to) =>
                            \A d \in Present :
                               /\ usb[d].mode = t.to
                               /\ Steady(t.to) \/ usb[d].bound = Len(Composition[t.to])
                               => Proves(d, t)
    BY DEF CertifiedIsProvable
  <2>1. PICK w \in witnessed :
           /\ w[1] \in DOMAIN Composition /\ ReadsAs(w[1], t.from)
           /\ w[2] \in DOMAIN Composition /\ ReadsAs(w[2], t.to)
           /\ t.expected = KindsOf(w[2])
    BY DEF CertInv, Evident
  <2>2. /\ Unmistaken(t.from) => w[1] = t.from
        /\ Unmistaken(t.to) => w[2] = t.to
    BY <2>1 DEF Unmistaken
  <2>3. ASSUME Unmistaken(t.to), NEW d \in Present, usb[d].mode = t.to,
               Steady(t.to) \/ usb[d].bound = Len(Composition[t.to])
        PROVE  Proves(d, t)
    <3>1. d \in Devices /\ t.to \in DOMAIN Composition /\ UsbTypes
      BY <2>3 DEF Present, CertInv, UsbTypes
    <3>2. t.expected = KindsOf(t.to)
      BY <2>1, <2>2, <2>3
    <3>3. DescriptorsOf(Enumerated(d)) = KindsOf(t.to)
      BY <2>3, <3>1, FacesKinds DEF Enumerated
    <3>4. DetectUsbMode(Enumerated(d)) = t.to
      <4>1. CASE usb[d].bound = Len(Composition[t.to])
        BY <2>3, <3>1, <4>1, BoundReads DEF Enumerated
      <4>2. CASE Steady(t.to)
        <5>1. ReadsAs(t.to, DetectUsbMode(Enumerated(d)))
          BY <2>3, <3>1, UnitReads
        <5>2. DetectUsbMode(Enumerated(d)) \in CanonicalModes \union {"none"}
          BY ModeIsCanonical
        <5> QED BY <4>2, <5>1, <5>2 DEF Steady
      <4> QED BY <2>3, <4>1, <4>2
    <3> QED BY <3>2, <3>3, <3>4 DEF Proves, DescriptorsMatch
  <2> QED BY <2>2, <2>3
<1> QED BY <1>1, <1>2, <1>3, PTL DEF UsbSpec

\* More is read of a unit as its drivers bind, and nothing that was goes away.
FacesOf(unit) == Faces(unit.mode, unit.bound)

LEMMA ControlsStay ==
    ASSUME NEW unit \in [here : BOOLEAN, mode : DOMAIN Composition, bound : Nat],
           NEW later \in [here : BOOLEAN, mode : DOMAIN Composition, bound : Nat],
           later.mode = unit.mode, later.bound = unit.bound + 1,
           ClassifyDevice(FacesOf(unit)) = "mm-managed"
    PROVE  ClassifyDevice(FacesOf(later)) = "mm-managed"
<1> DEFINE faces == Composition[unit.mode]
<1>1. faces \in Seq([kind : STRING, driver : STRING])
  BY CompositionAssumption
<1>2. \A n \in DOMAIN faces : faces[n] \in [kind : STRING, driver : STRING] /\ n \in Nat
  BY <1>1, SeqElements
<1>3. /\ FacesOf(unit) = [n \in DOMAIN faces |-> IF n <= unit.bound THEN faces[n]
                                                ELSE [faces[n] EXCEPT !.driver = "none"]]
      /\ FacesOf(later) = [n \in DOMAIN faces |-> IF n <= later.bound THEN faces[n]
                                                 ELSE [faces[n] EXCEPT !.driver = "none"]]
  BY DEF FacesOf, Faces
<1> HIDE DEF faces
<1>4. PICK n \in DOMAIN FacesOf(unit) : IsControl(FacesOf(unit)[n])
  BY ManagedHasControl
<1>5. n \in DOMAIN faces /\ n \in DOMAIN FacesOf(later)
  BY <1>3, <1>4
<1>6. FacesOf(later)[n] = FacesOf(unit)[n] \/ FacesOf(later)[n] = faces[n]
  BY <1>2, <1>3, <1>5
<1>7. FacesOf(unit)[n] = faces[n] \/ FacesOf(unit)[n] = [faces[n] EXCEPT !.driver = "none"]
  BY <1>3, <1>5
<1>8. IsControl(FacesOf(later)[n])
  <2>1. CASE FacesOf(unit)[n] = faces[n]
    BY <1>4, <1>6, <2>1
  <2>2. CASE FacesOf(unit)[n] = [faces[n] EXCEPT !.driver = "none"]
    <3>1. FacesOf(unit)[n].kind = faces[n].kind /\ FacesOf(unit)[n].driver = "none"
      BY <1>2, <1>5, <2>2
    <3>2. IsControl(faces[n])
      BY <1>4, <3>1 DEF IsControl, IsMbimControl, IsQmiControl, IsAtControl
    <3> QED BY <1>4, <1>6, <3>2
  <2> QED BY <1>7, <2>1, <2>2
<1> QED BY <1>5, <1>8, ManagedHasControl

Captured ==
    capture # Idle => DOMAIN capture = CaptureFields /\ capture.device \in Devices

LEMMA CapturedKept ==
    ASSUME Captured, UsbNext
    PROVE  Captured'
<1>1. CASE MatchDevice
  BY <1>1 DEF MatchDevice, Captured, CaptureFields, Present
<1>2. CASE CaptureBase \/ SendCommand \/ SeesDrop \/ SeesReturn
  <2>1. /\ capture # Idle
        /\ \/ capture' = [capture EXCEPT !.at = "base", !.listed = ParseUsbDevices]
           \/ \E wait \in {"drop", "return"} : capture' = [capture EXCEPT !.at = wait]
           \/ capture' = [capture EXCEPT !.at = "returned",
                                         !.after = DescriptorsOf(Enumerated(capture.device)),
                                         !.was = <<capture.was[1], usb[capture.device].mode>>]
    BY <1>2 DEF CaptureBase, SendCommand, SeesDrop, SeesReturn, Idle
  <2>2. DOMAIN capture = CaptureFields /\ capture.device \in Devices
    BY <2>1 DEF Captured
  <2>3. DOMAIN capture' = CaptureFields /\ capture'.device = capture.device
    BY <2>1, <2>2 DEF CaptureFields
  <2> QED BY <2>2, <2>3 DEF Captured
<1>3. CASE TimesOut \/ WriteBundle
  BY <1>3 DEF TimesOut, WriteBundle, Captured
<1>4. CASE UNCHANGED capture
  BY <1>4 DEF Captured
<1> QED BY <1>1, <1>2, <1>3, <1>4
        DEF UsbNext, Certify, Replug, BindDriver, ComesBack, Enumerates, Ingest, Promote, Papers

\* As drivers bind, what is managed stays managed, for any composition of any
\* number of interfaces (device-classifier.ts).
THEOREM ManagedStaysManagedHolds == UsbSpec => ManagedStaysManaged
<1> DEFINE Kept == \A d \in Present :
                     (BindDriver /\ ClassifyDevice(Enumerated(d)) = "mm-managed")
                        => ClassifyDevice(Enumerated(d))' = "mm-managed"
<1>1. UsbInit => UsbTypes /\ Captured
  BY UsbTypesStart DEF UsbInit, Captured
<1>2. UsbTypes /\ Captured /\ [UsbNext]_usbVars => UsbTypes' /\ Captured'
  BY UsbTypesKept, CapturedKept DEF usbVars, Captured, UsbTypes
<1>3. UsbTypes /\ [UsbNext]_usbVars => [Kept]_usbVars
  <2> SUFFICES ASSUME UsbTypes, BindDriver, NEW d \in Present,
                      ClassifyDevice(Enumerated(d)) = "mm-managed"
               PROVE  ClassifyDevice(Enumerated(d))' = "mm-managed"
    OBVIOUS
  <2>1. d \in Devices /\ Enumerated(d) = FacesOf(usb[d]) /\ Enumerated(d)' = FacesOf(usb'[d])
    BY DEF Present, Enumerated, FacesOf
  <2>2. PICK e \in Devices : usb' = [usb EXCEPT ![e].bound = usb[e].bound + 1]
    BY Zenon DEF BindDriver, Present
  <2>3. CASE e = d
    <3>1. usb'[d] = [usb[d] EXCEPT !.bound = usb[d].bound + 1]
      BY <2>1, <2>2, <2>3 DEF UsbTypes
    <3>2. /\ usb[d] \in [here : BOOLEAN, mode : DOMAIN Composition, bound : Nat]
          /\ usb'[d] \in [here : BOOLEAN, mode : DOMAIN Composition, bound : Nat]
          /\ usb'[d].mode = usb[d].mode /\ usb'[d].bound = usb[d].bound + 1
      BY <2>1, <3>1 DEF UsbTypes
    <3>3. ClassifyDevice(FacesOf(usb'[d])) = "mm-managed"
      BY <2>1, <3>2, ControlsStay
    <3> QED BY <2>1, <3>3
  <2>4. CASE e # d
    <3>1. usb'[d] = usb[d]
      BY <2>1, <2>2, <2>4 DEF UsbTypes
    <3>2. FacesOf(usb'[d]) = FacesOf(usb[d])
      BY <3>1
    <3> QED BY <2>1, <3>2
  <2> QED BY <2>3, <2>4
<1>4. ManagedStaysManaged <=> [][Kept]_usbVars
  BY DEF ManagedStaysManaged
<1> HIDE DEF Kept
<1> QED BY <1>1, <1>2, <1>3, <1>4, PTL DEF UsbSpec

-----------------------------------------------------------------------------
(* What was observed, as it ages.                                            *)

\* Only a read says anything but that an envelope is stale, and it says when.
LEMMA ReadIsDated ==
    ASSUME NEW value, NEW freshness, freshness.state # "stale", kept' = Envelope(freshness, value)
    PROVE  kept'.freshness.state # "stale" /\ kept'.at = now /\ kept'.gen = device.gen
BY DEF Envelope

\* Whatever happens to the clock, the device and its source, and for any time
\* to live, a stale envelope and an absent one stay as they are until the
\* source is read again (freshness.ts).
THEOREM StaleTellsFirstCauseHolds == ObservationSpec => StaleTellsFirstCause
<1> DEFINE Kept == kept # Nobody /\ kept.freshness.state # "fresh" /\ kept' # kept
                     => kept'.freshness.state # "stale" /\ kept'.at = now /\ kept'.gen = device.gen
<1>1. [ObservationNext]_observationVars => [Kept]_observationVars
  <2> SUFFICES ASSUME ObservationNext, kept.freshness.state # "fresh", kept' # kept
               PROVE  kept'.freshness.state # "stale" /\ kept'.at = now /\ kept'.gen = device.gen
    OBVIOUS
  <2>1. ~Evaluate
    BY DEF Evaluate, EvaluateFreshness
  <2>2. \/ \E reason : kept' = UnavailableObservation(reason)
        \/ \E value : kept' = FreshObservation(value)
    BY <2>1, Zenon
    DEF ObservationNext, ObserveModemManager, ObserveRouter, SetClock, ChangeDevice, ChangeBus
  <2> QED BY <2>2, ReadIsDated DEF UnavailableObservation, FreshObservation
<1>2. StaleTellsFirstCause <=> [][Kept]_observationVars
  BY DEF StaleTellsFirstCause
<1> HIDE DEF Kept
<1> QED BY <1>1, <1>2, PTL DEF ObservationSpec

-----------------------------------------------------------------------------
(* Radio writes: what is sent, and what is read back.                        *)

Pairs == [allowed : SUBSET Bits, preferred : SUBSET Bits]

\* The names of a mask give back the mask.
LEMMA ModeRoundTrip ==
    ASSUME NEW mask \in SUBSET Bits
    PROVE  UNION {ModeBits(n) : n \in ModeNames(mask)} = mask
<1>1. \A b \in Bits : ModeBits(ModeName(b)) = {b}
  BY NamesAssumption DEF ModeBits
<1>2. CASE mask = Bits
  <2>1. ModeNames(mask) = {"any"} /\ ModeBits("any") = Bits
    BY <1>2 DEF ModeNames, ModeBits
  <2> QED BY <1>2, <2>1
<1>3. CASE mask # Bits
  <2>1. ModeNames(mask) = {ModeName(b) : b \in mask}
    BY <1>3 DEF ModeNames
  <2> QED BY <1>1, <2>1
<1> QED BY <1>2, <1>3

\* No two pairs of masks are shown alike.
LEMMA SelectionIsExact ==
    ASSUME NEW p \in Pairs, NEW q \in Pairs, SelectionOf(p) = SelectionOf(q)
    PROVE  p = q
<1>1. ModeNames(p.allowed) = ModeNames(q.allowed) /\ ModeNames(p.preferred) = ModeNames(q.preferred)
  BY DEF SelectionOf
<1>2. p.allowed = q.allowed /\ p.preferred = q.preferred
  BY <1>1, ModeRoundTrip DEF Pairs
<1> QED BY <1>2 DEF Pairs

LEMMA SelectionIsSent ==
    ASSUME NEW pair \in Pairs
    PROVE  LET encoded == EncodeModeSelection(SelectionOf(pair))
           IN  [allowed |-> encoded.allowed, preferred |-> encoded.preferred] = pair
<1> DEFINE encoded == EncodeModeSelection(SelectionOf(pair))
<1>1. encoded.allowed = pair.allowed /\ encoded.preferred = pair.preferred
  BY ModeRoundTrip DEF EncodeModeSelection, SelectionOf, Pairs
<1> HIDE DEF encoded
<1>2. [allowed |-> encoded.allowed, preferred |-> encoded.preferred] = pair
  BY <1>1 DEF Pairs
<1> QED BY <1>2 DEF encoded

\* What each posture is read from.
LEMMA PostureRead ==
    ASSUME NEW pair
    PROVE  LET rats == pair.allowed \cap RatBits
           IN  /\ ReadPosture(pair) = "5g-off" <=> rats # {} /\ NrBit \notin rats
               /\ ReadPosture(pair) = "5g-only" <=> rats = {NrBit}
               /\ ReadPosture(pair) = "prefer-5g" <=>
                     NrBit \in rats /\ rats # {NrBit} /\ pair.preferred = {NrBit}
               /\ ReadPosture(pair) = "prefer-4g" <=>
                     NrBit \in rats /\ rats # {NrBit} /\ pair.preferred = {LteBit}
<1>1. {NrBit} # {LteBit}
  BY DEF NrBit, LteBit
<1> QED BY <1>1 DEF ReadPosture

\* A posture that is offered is a pair that reads back as that posture, and it
\* prefers nothing that it does not allow.
LEMMA PostureIsSent ==
    ASSUME NEW rats \in SUBSET RatBits, NEW p \in OfferedPostures(rats)
    PROVE  LET sent == PostureToRadio(p, rats)
           IN  /\ sent \in Pairs /\ sent.preferred \subseteq sent.allowed
               /\ ReadPosture(sent) = p
               /\ \A modes \in Pairs : ReadPosture(modes) = p =>
                     /\ (NrBit \in modes.allowed) = (NrBit \in sent.allowed)
                     /\ p \in {"prefer-5g", "prefer-4g"} => modes.preferred = sent.preferred
<1>1. RatBits \subseteq Bits /\ RatBits = {1, 2, 3, 4}
  BY RadioAssumption DEF RatBits
<1>2. /\ NrBit \in rats
      /\ p \in Postures
      /\ p # "5g-only" => rats # {NrBit}
      /\ p = "prefer-4g" => LteBit \in rats
  <2>0. FiveGEvidence(rats) # "present" => rats # {NrBit}
    BY DEF FiveGEvidence
  <2>1. FiveGEvidence(rats) # "present" => OfferedPostures(rats) = {}
    BY <2>0, Zenon DEF OfferedPostures
  <2>2. FiveGEvidence(rats) = "present"
    BY <2>1
  <2>3. NrBit \in rats
    BY <2>2 DEF FiveGEvidence
  <2>4. CASE rats = {NrBit}
    <3>1. OfferedPostures(rats) = {"5g-only"}
      BY <2>2, <2>4, Zenon DEF OfferedPostures
    <3> QED BY <2>3, <3>1 DEF Postures
  <2>5. CASE rats # {NrBit}
    <3>1. OfferedPostures(rats) = {q \in Postures : q = "prefer-4g" => LteBit \in rats}
      BY <2>2, <2>5, Zenon DEF OfferedPostures
    <3> QED BY <2>3, <2>5, <3>1
  <2> QED BY <2>4, <2>5
<1>3. rats # {NrBit} => Best(rats \ {NrBit}) \in rats \ {NrBit}
  <2> SUFFICES ASSUME rats # {NrBit} PROVE Best(rats \ {NrBit}) \in rats \ {NrBit}
    OBVIOUS
  <2>1. \E b \in rats \ {NrBit} : \A c \in rats \ {NrBit} : c <= b
    <3>1. rats \ {NrBit} \subseteq {1, 2, 3} /\ rats \ {NrBit} # {}
      BY <1>1, <1>2 DEF NrBit
    <3>2. CASE 3 \in rats
      BY <3>1, <3>2 DEF NrBit
    <3>3. CASE 3 \notin rats /\ 2 \in rats
      BY <3>1, <3>3 DEF NrBit
    <3>4. CASE 3 \notin rats /\ 2 \notin rats
      BY <3>1, <3>4 DEF NrBit
    <3> QED BY <3>2, <3>3, <3>4
  <2> QED BY <2>1 DEF Best
<1> DEFINE sent == PostureToRadio(p, rats)
<1>m. NrBit \in RatBits /\ LteBit \in RatBits
  BY <1>1 DEF NrBit, LteBit
<1>4. CASE p = "5g-only"
  <2>1. sent = [allowed |-> {NrBit}, preferred |-> {NrBit}]
    BY <1>4, Zenon DEF PostureToRadio
  <2> HIDE DEF sent
  <2>2. sent.allowed = {NrBit} /\ sent.preferred = {NrBit} /\ sent.allowed \cap RatBits = sent.allowed
    BY <1>m, <2>1
  <2>3. sent \in Pairs /\ sent.preferred \subseteq sent.allowed
    BY <1>1, <1>2, <1>3, <1>m, <1>4, <2>1 DEF Pairs
  <2>4. ReadPosture(sent) = p
    BY <1>2, <1>3, <1>4, <2>2, PostureRead
  <2>5. \A modes \in Pairs : ReadPosture(modes) = p =>
           /\ (NrBit \in modes.allowed) = (NrBit \in sent.allowed)
           /\ p \in {"prefer-5g", "prefer-4g"} => modes.preferred = sent.preferred
    BY <1>2, <1>m, <1>4, <2>2, PostureRead
  <2> QED BY <2>3, <2>4, <2>5 DEF sent
<1>5. CASE p = "prefer-5g"
  <2>1. sent = [allowed |-> rats, preferred |-> {NrBit}]
    BY <1>5, Zenon DEF PostureToRadio
  <2> HIDE DEF sent
  <2>2. sent.allowed = rats /\ sent.preferred = {NrBit} /\ sent.allowed \cap RatBits = sent.allowed
    BY <1>m, <2>1
  <2>3. sent \in Pairs /\ sent.preferred \subseteq sent.allowed
    BY <1>1, <1>2, <1>3, <1>m, <1>5, <2>1 DEF Pairs
  <2>4. ReadPosture(sent) = p
    BY <1>2, <1>3, <1>5, <2>2, PostureRead
  <2>5. \A modes \in Pairs : ReadPosture(modes) = p =>
           /\ (NrBit \in modes.allowed) = (NrBit \in sent.allowed)
           /\ p \in {"prefer-5g", "prefer-4g"} => modes.preferred = sent.preferred
    BY <1>2, <1>m, <1>5, <2>2, PostureRead
  <2> QED BY <2>3, <2>4, <2>5 DEF sent
<1>6. CASE p = "prefer-4g"
  <2>1. sent = [allowed |-> rats, preferred |-> {LteBit}]
    BY <1>6, Zenon DEF PostureToRadio
  <2> HIDE DEF sent
  <2>2. sent.allowed = rats /\ sent.preferred = {LteBit} /\ sent.allowed \cap RatBits = sent.allowed
    BY <1>m, <2>1
  <2>3. sent \in Pairs /\ sent.preferred \subseteq sent.allowed
    BY <1>1, <1>2, <1>3, <1>m, <1>6, <2>1 DEF Pairs
  <2>4. ReadPosture(sent) = p
    BY <1>2, <1>3, <1>6, <2>2, PostureRead
  <2>5. \A modes \in Pairs : ReadPosture(modes) = p =>
           /\ (NrBit \in modes.allowed) = (NrBit \in sent.allowed)
           /\ p \in {"prefer-5g", "prefer-4g"} => modes.preferred = sent.preferred
    BY <1>2, <1>m, <1>6, <2>2, PostureRead
  <2> QED BY <2>3, <2>4, <2>5 DEF sent
<1>7. CASE p = "5g-off"
  <2>1. sent = [allowed |-> rats \ {NrBit}, preferred |-> {Best(rats \ {NrBit})}]
    BY <1>7, Zenon DEF PostureToRadio
  <2> HIDE DEF sent
  <2>2. sent.allowed = rats \ {NrBit} /\ sent.preferred = {Best(rats \ {NrBit})} /\ sent.allowed \cap RatBits = sent.allowed
    BY <1>m, <2>1
  <2>3. sent \in Pairs /\ sent.preferred \subseteq sent.allowed
    BY <1>1, <1>2, <1>3, <1>m, <1>7, <2>1 DEF Pairs
  <2>4. ReadPosture(sent) = p
    BY <1>2, <1>3, <1>7, <2>2, PostureRead
  <2>5. \A modes \in Pairs : ReadPosture(modes) = p =>
           /\ (NrBit \in modes.allowed) = (NrBit \in sent.allowed)
           /\ p \in {"prefer-5g", "prefer-4g"} => modes.preferred = sent.preferred
    BY <1>2, <1>m, <1>7, <2>2, PostureRead
  <2> QED BY <2>3, <2>4, <2>5 DEF sent
<1> HIDE DEF sent
<1> QED BY <1>2, <1>4, <1>5, <1>6, <1>7 DEF Postures, sent

\* The bands that are shown give back the bands, but for the unknown one.
LEMMA TwoBandNames == BandName(0) = "unknown" /\ BandName(AnyBand) = "any"
<1>1. AnyBand = 256 /\ AnyBand # 0 /\ AnyBand \notin 1..20 /\ AnyBand \notin 31..101
      /\ AnyBand \notin 128..147 /\ AnyBand \notin 301..561
      /\ 0 \notin 1..20 /\ 0 \notin 31..101 /\ 0 \notin 128..147 /\ 0 \notin 301..561
  BY DEF AnyBand
<1> QED BY <1>1, Zenon DEF BandName

LEMMA BandRoundTrip ==
    ASSUME NEW bands \in SUBSET BandValues
    PROVE  /\ UNION {BandValue(n) : n \in DecodeBandList(bands)} = bands \ {0}
           /\ DecodeBandList(bands) = DecodeBandList(bands \ {0})
<1>1. \A v \in bands : BandValue(BandName(v)) = {v}
  BY NamesAssumption DEF BandValue
<1>2. DecodeBandList(bands) = {BandName(v) : v \in bands \ {0}}
  BY TwoBandNames, NamesAssumption DEF DecodeBandList
<1>3. DecodeBandList(bands \ {0}) = {BandName(v) : v \in bands \ {0}}
  BY TwoBandNames, NamesAssumption DEF DecodeBandList
<1> QED BY <1>1, <1>2, <1>3

\* Two readings of bands against what was asked: held as values, told as names.
BandsHeld(sent, support, bands) ==
    \/ bands \ {0} = sent
    \/ sent = {AnyBand} /\ bands \ {0} = support \ {0}
BandsTold(ask, support, bands) ==
    BandReadbackMatches(ask, DecodeBandList(support), DecodeBandList(bands))

\* What a list of names is sent as.
SentFor(ask) == UNION {BandValue(n) : n \in ask}

LEMMA BandsReadBack ==
    \A ask, support, bands :
        support \in SUBSET BandValues /\ bands \in SUBSET BandValues =>
           /\ BandsTold(ask, support, bands) => BandsHeld(SentFor(ask), support, bands)
           /\ BandsHeld(SentFor(ask), support, bands) /\ ask = DecodeBandList(SentFor(ask))
                 => BandsTold(ask, support, bands)
<1> SUFFICES ASSUME NEW ask, NEW support \in SUBSET BandValues, NEW bands \in SUBSET BandValues
             PROVE  /\ BandsTold(ask, support, bands) => BandsHeld(SentFor(ask), support, bands)
                    /\ BandsHeld(SentFor(ask), support, bands) /\ ask = DecodeBandList(SentFor(ask))
                          => BandsTold(ask, support, bands)
  OBVIOUS
<1> DEFINE sent == SentFor(ask)
<1> USE DEF SentFor
<1>1. AnyBand \in BandValues
  BY RadioAssumption DEF AnyBand
<1>2. BandValue("any") = {AnyBand}
  BY <1>1, TwoBandNames, NamesAssumption DEF BandValue
<1>3. DecodeBandList({AnyBand}) = {"any"}
  BY TwoBandNames DEF DecodeBandList
<1>4. DecodeBandList(bands) = DecodeBandList(support) => bands \ {0} = support \ {0}
  BY BandRoundTrip
<1>5. bands \ {0} = support \ {0} => DecodeBandList(bands) = DecodeBandList(support)
  BY BandRoundTrip
<1>6. ask = DecodeBandList(bands) => bands \ {0} = sent
  BY BandRoundTrip
<1>7. ask = {"any"} => sent = {AnyBand}
  BY <1>2
<1>8. bands \ {0} = sent /\ ask = DecodeBandList(sent) => ask = DecodeBandList(bands)
  BY BandRoundTrip
<1>9. sent = {AnyBand} /\ ask = DecodeBandList(sent) => ask = {"any"}
  BY <1>3
<1> QED BY <1>4, <1>5, <1>6, <1>7, <1>8, <1>9 DEF BandReadbackMatches, BandsTold, BandsHeld

RfFields == {"exports", "catalog", "modes", "support", "bands", "listing", "comp"}
WriteFields == {"stage", "kind", "ask", "seen", "sent", "res"}

RfInv ==
    /\ DOMAIN rf = RfFields
    /\ rf.catalog \subseteq Pairs /\ rf.modes \in Pairs
    /\ rf.support \subseteq BandValues /\ rf.bands \subseteq BandValues

\* A write that is under way has a target that the modem offers, and what a
\* modem offers does not change: only what it holds does.
SoundWrite(write, exports, catalog1, listing) ==
    /\ write.res = "none" /\ write.kind \in Kinds
    /\ write.stage \in {"calling", "called"} => write.kind # "composition"
    /\ write.kind = "modes" =>
          /\ "CurrentModes" \in exports /\ write.sent \in catalog1
          /\ write.ask = SelectionOf(write.sent)
    /\ write.kind = "radio" =>
          /\ "CurrentModes" \in exports /\ write.ask \in OfferedPostures(Rats(catalog1))
          /\ write.sent = PostureToRadio(write.ask, Rats(catalog1))
    /\ write.kind = "bands" =>
          /\ \A n \in write.ask : BandValue(n) # {}
          /\ write.sent = UNION {BandValue(n) : n \in write.ask}
    /\ write.kind = "composition" => {write.sent, write.seen} \subseteq Range(listing)

RadioInv ==
    /\ RfInv
    /\ DOMAIN writes = Writes
    /\ \A w \in Writes :
          /\ DOMAIN writes[w] = WriteFields
          /\ writes[w].stage # "idle" => SoundWrite(writes[w], rf.exports, rf.catalog, rf.listing)

\* What passes the checks of an operation is sent as it was asked.
LEMMA TargetIsSound ==
    ASSUME RfInv, NEW kind \in Kinds, NEW ask, Target(kind, ask, rf).ok,
           NEW write, DOMAIN write = WriteFields, write.stage = "queued", write.kind = kind,
           write.ask = ask, write.seen = (IF kind = "composition" THEN rf.comp ELSE 0),
           write.sent = Target(kind, ask, rf).value, write.res = "none"
    PROVE  SoundWrite(write, rf.exports, rf.catalog, rf.listing)
<1>1. CASE kind = "modes"
  <2> DEFINE encoded == EncodeModeSelection(ask)
             target == [ok |-> /\ "CurrentModes" \in rf.exports
                               /\ MatchAdvertised(rf.catalog, ask)
                               /\ encoded.ok /\ encoded.allowed # {},
                        value |-> [allowed |-> encoded.allowed, preferred |-> encoded.preferred]]
  <2>1. Target(kind, ask, rf) = target
    BY <1>1, Zenon DEF Target
  <2>2. "CurrentModes" \in rf.exports /\ MatchAdvertised(rf.catalog, ask)
    BY <2>1
  <2>3. write.sent = [allowed |-> encoded.allowed, preferred |-> encoded.preferred]
    BY <2>1
  <2>4. PICK pair \in rf.catalog : SelectionOf(pair) = ask
    BY <2>2 DEF MatchAdvertised
  <2>5. write.sent = pair
    <3>1. pair \in Pairs
      BY <2>4 DEF RfInv
    <3>2. write.sent = [allowed |-> EncodeModeSelection(SelectionOf(pair)).allowed,
                        preferred |-> EncodeModeSelection(SelectionOf(pair)).preferred]
      BY <2>3, <2>4
    <3> QED BY <3>1, <3>2, SelectionIsSent
  <2> QED BY <1>1, <2>2, <2>4, <2>5 DEF SoundWrite
<1>2. CASE kind = "radio"
  <2>1. Target(kind, ask, rf) =
           IF ask \in OfferedPostures(Rats(rf.catalog))
           THEN [ok |-> "CurrentModes" \in rf.exports,
                 value |-> PostureToRadio(ask, Rats(rf.catalog))]
           ELSE NotOffered
    BY <1>2, Zenon DEF Target
  <2>2. ask \in OfferedPostures(Rats(rf.catalog))
    BY <2>1 DEF NotOffered
  <2> DEFINE exported == "CurrentModes" \in rf.exports
  <2>3. Target(kind, ask, rf) = [ok |-> exported, value |-> PostureToRadio(ask, Rats(rf.catalog))]
    BY <2>1, <2>2, Zenon
  <2> HIDE DEF exported
  <2>4. Target(kind, ask, rf).ok = exported /\ write.sent = PostureToRadio(ask, Rats(rf.catalog))
    BY <2>3
  <2>5. exported
    BY <2>4
  <2> QED BY <1>2, <2>2, <2>4, <2>5 DEF SoundWrite, exported
<1>3. CASE kind = "bands"
  <2> DEFINE encoded == EncodeBandList(ask)
             target == [ok |-> /\ "SupportedBands" \in rf.exports
                               /\ OfferableBands(DecodeBandList(rf.support)) # {}
                               /\ ask # {} /\ encoded.ok,
                        value |-> encoded.values]
  <2>1. Target(kind, ask, rf) = target
    BY <1>3, Zenon DEF Target
  <2>2. encoded.ok /\ write.sent = encoded.values
    BY <2>1
  <2> QED BY <1>3, <2>2 DEF SoundWrite, EncodeBandList
<1>4. CASE kind = "composition"
  <2> DEFINE offered == ask \in OfferableCompositions(rf.listing, rf.comp)
  <2>1. Target(kind, ask, rf) = [ok |-> offered, value |-> ask]
    BY <1>4, Zenon DEF Target
  <2> HIDE DEF offered
  <2>2. Target(kind, ask, rf).ok = offered /\ write.sent = ask
    BY <2>1
  <2>3. offered
    BY <2>2
  <2>4. {ask, rf.comp} \subseteq Range(rf.listing)
    BY <2>3 DEF offered, OfferableCompositions, ReturnPathProven, Range
  <2> QED BY <1>4, <2>2, <2>4 DEF SoundWrite
<1> QED BY <1>1, <1>2, <1>3, <1>4 DEF Kinds

\* Nothing that a step does to the modem changes what it offers.
LEMMA OfferStays ==
    ASSUME RfInv, NEW modes \in Pairs, NEW bands \in SUBSET BandValues, NEW comp,
           \/ rf' = rf
           \/ rf' = [rf EXCEPT !.modes = modes]
           \/ rf' = [rf EXCEPT !.bands = bands]
           \/ rf' = [rf EXCEPT !.comp = comp]
    PROVE  RfInv' /\ rf'.exports = rf.exports /\ rf'.catalog = rf.catalog /\ rf'.listing = rf.listing
BY DEF RfInv, RfFields, Pairs

LEMMA SentIsTyped ==
    ASSUME RfInv, NEW write, SoundWrite(write, rf.exports, rf.catalog, rf.listing)
    PROVE  /\ write.kind \in {"modes", "radio"} => write.sent \in Pairs
           /\ write.kind = "bands" => write.sent \subseteq BandValues
<1>1. write.kind = "modes" => write.sent \in Pairs
  BY DEF SoundWrite, RfInv
<1>2. write.kind = "radio" => write.sent \in Pairs
  <2>1. Rats(rf.catalog) \in SUBSET RatBits
    BY DEF Rats
  <2> QED BY <2>1, PostureIsSent DEF SoundWrite
<1>3. write.kind = "bands" => write.sent \subseteq BandValues
  BY DEF SoundWrite, BandValue
<1> QED BY <1>1, <1>2, <1>3

\* A write that has ended, beside a modem that offers what it did.
LEMMA WriteEnds ==
    ASSUME RadioInv, NEW w \in Writes, NEW res, Answered(w, res), RfInv',
           rf'.exports = rf.exports, rf'.catalog = rf.catalog, rf'.listing = rf.listing
    PROVE  RadioInv'
<1> DEFINE ended == [UnusedWrite EXCEPT !.res = res]
<1>1. DOMAIN ended = WriteFields /\ ended.stage = "idle"
  BY DEF UnusedWrite, WriteFields
<1>2. writes' = [writes EXCEPT ![w] = ended]
  BY DEF Answered
<1> HIDE DEF ended
<1> QED BY <1>1, <1>2 DEF RadioInv

\* A write that goes on to another stage.
LEMMA WriteGoesOn ==
    ASSUME RadioInv, NEW w \in Writes, NEW stage \in {"calling", "called"},
           writes[w].stage # "idle", writes[w].kind # "composition",
           writes' = [writes EXCEPT ![w].stage = stage], RfInv',
           rf'.exports = rf.exports, rf'.catalog = rf.catalog, rf'.listing = rf.listing
    PROVE  RadioInv'
<1>1. writes'[w] = [writes[w] EXCEPT !.stage = stage] /\ DOMAIN writes' = Writes
      /\ \A v \in Writes \ {w} : writes'[v] = writes[v]
  BY DEF RadioInv
<1>2. /\ DOMAIN writes'[w] = WriteFields /\ writes'[w].kind = writes[w].kind
      /\ writes'[w].ask = writes[w].ask /\ writes'[w].seen = writes[w].seen
      /\ writes'[w].sent = writes[w].sent /\ writes'[w].res = writes[w].res
  BY <1>1 DEF RadioInv, WriteFields
<1>3. SoundWrite(writes'[w], rf.exports, rf.catalog, rf.listing)
  BY <1>2 DEF RadioInv, SoundWrite
<1> QED BY <1>1, <1>2, <1>3 DEF RadioInv

\* What a modem may make of a call, and what anyone else makes of it.
LEMMA TakenKeepsOffer ==
    ASSUME RfInv, NEW write, SoundWrite(write, rf.exports, rf.catalog, rf.listing),
           write.kind # "composition", rf' \in Taken(write.kind, write.sent) \cup {rf}
    PROVE  RfInv' /\ rf'.exports = rf.exports /\ rf'.catalog = rf.catalog /\ rf'.listing = rf.listing
<1>0. {} \in SUBSET BandValues /\ rf.modes \in Pairs
  BY DEF RfInv
<1>1. CASE rf' = rf
  BY <1>0, <1>1, OfferStays
<1>2. CASE rf' \in Taken(write.kind, write.sent) /\ write.kind \in {"modes", "radio"}
  <2>1. Taken(write.kind, write.sent) =
           {[rf EXCEPT !.modes = pair] : pair \in {write.sent} \cup rf.catalog}
    BY <1>2, Zenon DEF Taken
  <2>2. PICK pair \in {write.sent} \cup rf.catalog : rf' = [rf EXCEPT !.modes = pair]
    BY <1>2, <2>1
  <2>3. pair \in Pairs
    BY <1>2, <2>2, SentIsTyped DEF RfInv
  <2> QED BY <1>0, <2>2, <2>3, OfferStays
<1>3. CASE rf' \in Taken(write.kind, write.sent) /\ write.kind = "bands"
  <2> DEFINE other == IF AnyBand \in write.sent THEN {} ELSE {{v} : v \in rf.support}
  <2>1. Taken(write.kind, write.sent) =
           {[rf EXCEPT !.bands = b] : b \in {write.sent, rf.support} \cup other}
    BY <1>3, Zenon DEF Taken
  <2>2. PICK b \in {write.sent, rf.support} \cup other : rf' = [rf EXCEPT !.bands = b]
    BY <1>3, <2>1
  <2>3. b \in SUBSET BandValues
    BY <1>3, <2>2, SentIsTyped DEF RfInv
  <2> QED BY <1>0, <2>2, <2>3, OfferStays
<1> QED BY <1>1, <1>2, <1>3 DEF SoundWrite, Kinds

LEMMA RadioKept ==
    ASSUME RadioInv, [RadioNext]_radioVars
    PROVE  RadioInv'
<1>0. /\ RfInv /\ rf.modes \in Pairs /\ {} \in SUBSET BandValues
      /\ rf' = rf => RfInv' /\ rf'.exports = rf.exports /\ rf'.catalog = rf.catalog
                     /\ rf'.listing = rf.listing
  BY DEF RadioInv, RfInv
<1>1. CASE UNCHANGED radioVars
  BY <1>1 DEF radioVars, RadioInv, RfInv
<1>2. ASSUME NEW w \in Writes, StartWrite(w)
      PROVE  RadioInv'
  <2>1. rf' = rf
    BY <1>2 DEF StartWrite
  <2>2. PICK kind \in Kinds : \E ask \in Asks(kind) :
           IF Target(kind, ask, rf).ok
           THEN writes' = [writes EXCEPT ![w] =
                      [stage |-> "queued", kind |-> kind, ask |-> ask,
                       seen |-> IF kind = "composition" THEN rf.comp ELSE 0,
                       sent |-> Target(kind, ask, rf).value, res |-> "none"]]
           ELSE Answered(w, "refused")
    BY <1>2, Zenon DEF StartWrite
  <2>3. PICK ask \in Asks(kind) :
           IF Target(kind, ask, rf).ok
           THEN writes' = [writes EXCEPT ![w] =
                      [stage |-> "queued", kind |-> kind, ask |-> ask,
                       seen |-> IF kind = "composition" THEN rf.comp ELSE 0,
                       sent |-> Target(kind, ask, rf).value, res |-> "none"]]
           ELSE Answered(w, "refused")
    BY <2>2
  <2>4. CASE Answered(w, "refused")
    BY <1>0, <2>1, <2>4, WriteEnds
  <2>5. CASE Target(kind, ask, rf).ok
    <3> DEFINE seen == IF kind = "composition" THEN rf.comp ELSE 0
               write == [stage |-> "queued", kind |-> kind, ask |-> ask, seen |-> seen,
                         sent |-> Target(kind, ask, rf).value, res |-> "none"]
    <3>1. writes' = [writes EXCEPT ![w] = write]
      BY <2>3, <2>5, Zenon
    <3> HIDE DEF seen
    <3>2. /\ DOMAIN write = WriteFields /\ write.stage = "queued" /\ write.kind = kind
          /\ write.ask = ask /\ write.seen = seen /\ write.res = "none"
          /\ write.sent = Target(kind, ask, rf).value
      BY DEF WriteFields
    <3> HIDE DEF write
    <3>3. SoundWrite(write, rf.exports, rf.catalog, rf.listing)
      BY <1>0, <2>5, <3>2, TargetIsSound DEF seen
    <3> QED BY <1>0, <2>1, <3>1, <3>2, <3>3 DEF RadioInv
  <2> QED BY <2>3, <2>4, <2>5
<1>3. ASSUME NEW w \in Writes, RefuseWrite(w)
      PROVE  RadioInv'
  BY <1>0, <1>3, WriteEnds DEF RefuseWrite
<1>4. ASSUME NEW w \in Writes, SendWrite(w)
      PROVE  RadioInv'
  BY <1>0, <1>4, WriteGoesOn DEF SendWrite
<1>5. ASSUME NEW w \in Writes, AnswerWrite(w)
      PROVE  RadioInv'
  <2>1. /\ SoundWrite(writes[w], rf.exports, rf.catalog, rf.listing)
        /\ writes[w].kind # "composition" /\ writes[w].stage = "calling"
    BY <1>5 DEF AnswerWrite, RadioInv, SoundWrite
  <2>2. RfInv' /\ rf'.exports = rf.exports /\ rf'.catalog = rf.catalog /\ rf'.listing = rf.listing
    BY <1>0, <1>5, <2>1, TakenKeepsOffer DEF AnswerWrite
  <2>3. CASE writes' = [writes EXCEPT ![w].stage = "called"]
    BY <2>1, <2>2, <2>3, WriteGoesOn
  <2>4. CASE Answered(w, "refused")
    BY <2>2, <2>4, WriteEnds
  <2> QED BY <1>5, <2>3, <2>4 DEF AnswerWrite
<1>6. ASSUME NEW w \in Writes, ConcludeWrite(w)
      PROVE  RadioInv'
  <2>1. rf' = rf /\ \E res : Answered(w, res)
    BY <1>6 DEF ConcludeWrite
  <2> QED BY <1>0, <2>1, WriteEnds
<1>7. ASSUME NEW w \in Writes, SwitchComposition(w)
      PROVE  RadioInv'
  <2>1. /\ rf' = rf \/ rf' = [rf EXCEPT !.comp = writes[w].sent]
        /\ \E res : Answered(w, res)
    BY <1>7 DEF SwitchComposition
  <2> QED BY <1>0, <2>1, OfferStays, WriteEnds
<1>8. CASE ChangeRadio
  <2>1. RfInv' /\ rf'.exports = rf.exports /\ rf'.catalog = rf.catalog /\ rf'.listing = rf.listing
    <3>1. CASE \E pair \in rf.catalog : rf' = [rf EXCEPT !.modes = pair]
      BY <1>0, <3>1, OfferStays DEF RfInv
    <3>2. CASE \E b \in {{v} : v \in rf.support} \cup {rf.support, {AnyBand}} :
                  rf' = [rf EXCEPT !.bands = b]
      <4>1. {{v} : v \in rf.support} \cup {rf.support, {AnyBand}} \subseteq SUBSET BandValues
        BY <1>0, RadioAssumption DEF RfInv, AnyBand
      <4> QED BY <1>0, <3>2, <4>1, OfferStays
    <3>3. CASE \E c \in Compositions : rf' = [rf EXCEPT !.comp = c]
      BY <1>0, <3>3, OfferStays
    <3> QED BY <1>8, <3>1, <3>2, <3>3 DEF ChangeRadio
  <2> QED BY <1>8, <2>1 DEF ChangeRadio, RadioInv
<1> QED BY <1>1, <1>2, <1>3, <1>4, <1>5, <1>6, <1>7, <1>8 DEF RadioNext

LEMMA RadioStarts == RadioInit => RadioInv
<1> SUFFICES ASSUME RadioInit PROVE RadioInv
  OBVIOUS
<1>1. PICK catalog1 \in Catalogs, support \in BandSupports, listing \in Listings,
           comp \in Compositions, exports \in SUBSET {"CurrentModes", "SupportedBands"} :
        \E modes \in catalog1 :
           rf = [exports |-> exports, catalog |-> catalog1, modes |-> modes,
                 support |-> support, bands |-> support, listing |-> listing, comp |-> comp]
  BY DEF RadioInit
<1>2. PICK modes \in catalog1 :
         rf = [exports |-> exports, catalog |-> catalog1, modes |-> modes,
               support |-> support, bands |-> support, listing |-> listing, comp |-> comp]
  BY <1>1
<1>3. RfInv
  BY <1>2, RadioAssumption DEF RfInv, RfFields, Pairs
<1>4. writes = [w \in Writes |-> UnusedWrite]
  BY DEF RadioInit
<1> QED BY <1>3, <1>4 DEF RadioInv, UnusedWrite, WriteFields

\* What goes to the modem is never rounded, for any catalog of combinations,
\* any bands, any number of writes and whatever the modem does meanwhile
\* (generic-operations.ts, band-names.ts).
THEOREM NeverRoundedHolds == RadioSpec => []NeverRounded
<1>1. RadioInv => NeverRounded
  <2> SUFFICES ASSUME RadioInv, NEW w \in Writes, writes[w].stage # "idle"
               PROVE  CASE writes[w].kind = "modes" -> writes[w].sent \in rf.catalog
                        [] writes[w].kind = "radio" ->
                             writes[w].sent.preferred \subseteq writes[w].sent.allowed
                        [] writes[w].kind = "bands" ->
                             LET spelt(v) == {BandName(v), "band-" \o ToString(v)}
                             IN  /\ \A n \in writes[w].ask :
                                       \E v \in writes[w].sent : n \in spelt(v)
                                 /\ \A v \in writes[w].sent :
                                       \E n \in writes[w].ask : n \in spelt(v)
                        [] OTHER -> {writes[w].sent, writes[w].seen} \subseteq Range(rf.listing)
    BY Zenon DEF NeverRounded
  <2> DEFINE write == writes[w]
             asked == write.ask
             sent == write.sent
             spelt(v) == {BandName(v), "band-" \o ToString(v)}
  <2>1. SoundWrite(write, rf.exports, rf.catalog, rf.listing)
    BY DEF RadioInv
  <2>2. write.kind = "modes" => sent \in rf.catalog
    BY <2>1 DEF SoundWrite
  <2>3. write.kind = "radio" => sent.preferred \subseteq sent.allowed
    <3>1. Rats(rf.catalog) \in SUBSET RatBits
      BY DEF Rats
    <3> QED BY <2>1, <3>1, PostureIsSent DEF SoundWrite
  <2>4. write.kind = "bands" => /\ \A n \in asked : \E v \in sent : n \in spelt(v)
                                /\ \A v \in sent : \E n \in asked : n \in spelt(v)
    <3>1. \A n : \A v \in BandValue(n) : n \in spelt(v)
      BY DEF BandValue
    <3> HIDE DEF spelt
    <3> QED BY <2>1, <3>1 DEF SoundWrite
  <2>5. write.kind = "composition" => {sent, write.seen} \subseteq Range(rf.listing)
    BY <2>1 DEF SoundWrite
  <2>6. write.kind \in {"modes", "radio", "bands", "composition"}
    BY <2>1 DEF SoundWrite, Kinds
  <2> QED BY <2>2, <2>3, <2>4, <2>5, <2>6, Zenon
<1> QED BY <1>1, RadioStarts, RadioKept, PTL DEF RadioSpec

\* A write that was called is answered as applied or as not taken only by its
\* own reading of the modem.
LEMMA OnlyConcluded ==
    ASSUME RadioInv, RadioNext, NEW w \in Writes, writes[w].stage = "called",
           writes'[w].res \in {"applied", "mismatch"}
    PROVE  /\ rf' = rf
           /\ Answered(w, IF ReadbackMatches(writes[w].kind, writes[w].ask)
                          THEN "applied" ELSE "mismatch")
<1>1. writes[w].res = "none" /\ writes'[w] # writes[w] /\ writes' # writes
  BY DEF RadioInv, SoundWrite
<1>2. PICK v \in Writes :
         StartWrite(v) \/ RefuseWrite(v) \/ SendWrite(v) \/ AnswerWrite(v) \/ ConcludeWrite(v)
           \/ SwitchComposition(v)
  BY <1>1 DEF RadioNext, ChangeRadio
<1>3. \E write : writes' = [writes EXCEPT ![v] = write]
  BY <1>2, Zenon DEF StartWrite, RefuseWrite, SendWrite, AnswerWrite, ConcludeWrite,
     SwitchComposition, Answered
<1>4. v = w
  BY <1>1, <1>3 DEF RadioInv
<1>5. ConcludeWrite(w)
  BY <1>2, <1>4 DEF StartWrite, RefuseWrite, SendWrite, AnswerWrite, SwitchComposition
<1>6. ~Answered(w, "refused")
  BY DEF Answered, UnusedWrite, RadioInv
<1> QED BY <1>5, <1>6, Zenon DEF ConcludeWrite

\* The reading of each kind, compared with what is held.
LEMMA ReadbackHolds ==
    ASSUME RadioInv, NEW w \in Writes, writes[w].stage = "called"
    PROVE  /\ ReadbackMatches(writes[w].kind, writes[w].ask) => Holds(w)
           /\ HoldsExactly(w) => ReadbackMatches(writes[w].kind, writes[w].ask)
<1> DEFINE kind == writes[w].kind
           ask == writes[w].ask
           sent == writes[w].sent
<1>1. SoundWrite(writes[w], rf.exports, rf.catalog, rf.listing) /\ RfInv
  BY DEF RadioInv
<1>2. kind \in {"modes", "radio", "bands"}
  BY <1>1 DEF SoundWrite, Kinds
<1>3. CASE kind = "modes"
  <2>1. ReadbackMatches(kind, ask) = ("CurrentModes" \in rf.exports /\ SelectionOf(rf.modes) = ask)
    BY <1>3, Zenon DEF ReadbackMatches
  <2>2. Holds(w) = (rf.modes = sent)
    BY <1>3, Zenon DEF Holds
  <2>3. "CurrentModes" \in rf.exports /\ ask = SelectionOf(sent) /\ sent \in Pairs /\ rf.modes \in Pairs
    BY <1>1, <1>3, SentIsTyped DEF SoundWrite, RfInv
  <2>4. SelectionOf(rf.modes) = ask <=> rf.modes = sent
    BY <2>3, SelectionIsExact
  <2>5. HoldsExactly(w) => Holds(w)
    BY DEF HoldsExactly
  <2> HIDE DEF kind, ask, sent
  <2> QED BY <2>1, <2>2, <2>3, <2>4, <2>5 DEF kind, ask
<1>4. CASE kind = "radio"
  <2>1. ReadbackMatches(kind, ask) = ("CurrentModes" \in rf.exports /\ ReadPosture(rf.modes) = ask)
    BY <1>4, Zenon DEF ReadbackMatches
  <2>2. Holds(w) = (/\ (NrBit \in rf.modes.allowed) = (NrBit \in sent.allowed)
                    /\ ask \in {"prefer-5g", "prefer-4g"} => rf.modes.preferred = sent.preferred)
    BY <1>4, Zenon DEF Holds
  <2>3. /\ "CurrentModes" \in rf.exports /\ rf.modes \in Pairs
        /\ ask \in OfferedPostures(Rats(rf.catalog))
        /\ sent = PostureToRadio(ask, Rats(rf.catalog))
    BY <1>1, <1>4 DEF SoundWrite, RfInv
  <2>4. Rats(rf.catalog) \in SUBSET RatBits
    BY DEF Rats
  <2>5. /\ ReadPosture(sent) = ask
        /\ ReadPosture(rf.modes) = ask =>
              /\ (NrBit \in rf.modes.allowed) = (NrBit \in sent.allowed)
              /\ ask \in {"prefer-5g", "prefer-4g"} => rf.modes.preferred = sent.preferred
    BY <2>3, <2>4, PostureIsSent
  <2>6. HoldsExactly(w) => rf.modes = sent
    BY <1>4 DEF HoldsExactly
  <2> HIDE DEF kind, ask, sent
  <2>7. ReadbackMatches(kind, ask) => Holds(w)
    BY <2>1, <2>2, <2>5, Zenon
  <2>8. HoldsExactly(w) => ReadbackMatches(kind, ask)
    BY <2>1, <2>3, <2>5, <2>6
  <2> QED BY <2>7, <2>8 DEF kind, ask
<1>5. CASE kind = "bands"
  <2>1. ReadbackMatches(kind, ask) = BandsTold(ask, rf.support, rf.bands)
    BY <1>5, Zenon DEF ReadbackMatches, BandsTold
  <2>2. Holds(w) = BandsHeld(sent, rf.support, rf.bands)
    BY <1>5, Zenon DEF Holds, BandsHeld
  <2>3. /\ sent = SentFor(ask)
        /\ rf.support \in SUBSET BandValues /\ rf.bands \in SUBSET BandValues
    BY <1>1, <1>5 DEF SoundWrite, RfInv, SentFor
  <2>4. HoldsExactly(w) => Holds(w) /\ ask = DecodeBandList(sent)
    BY <1>5 DEF HoldsExactly
  <2> HIDE DEF kind, ask, sent
  <2>5. /\ BandsTold(ask, rf.support, rf.bands) => BandsHeld(sent, rf.support, rf.bands)
        /\ BandsHeld(sent, rf.support, rf.bands) /\ ask = DecodeBandList(sent)
              => BandsTold(ask, rf.support, rf.bands)
    BY <2>3, BandsReadBack, Zenon
  <2>6. ReadbackMatches(kind, ask) => Holds(w)
    BY <2>1, <2>2, <2>5, Zenon
  <2>7. HoldsExactly(w) => ReadbackMatches(kind, ask)
    BY <2>1, <2>2, <2>4, <2>5, Zenon
  <2> QED BY <2>6, <2>7 DEF kind, ask
<1> QED BY <1>2, <1>3, <1>4, <1>5

\* A write is answered as applied only by a modem that holds what was sent, and
\* as not taken only by one that does not, for any catalog, any bands and any
\* number of writes and of other clients (generic-operations.ts,
\* five-g-preference.ts).
THEOREM ReadbackIsExactHolds == RadioSpec => ReadbackIsExact
<1> DEFINE Exact == \A w \in Writes :
                       writes[w].stage = "called" =>
                          /\ writes'[w].res = "applied" => Holds(w)
                          /\ writes'[w].res = "mismatch" => ~HoldsExactly(w)
<1>1. RadioInv /\ [RadioNext]_radioVars => [Exact]_radioVars
  <2> SUFFICES ASSUME RadioInv, RadioNext, NEW w \in Writes, writes[w].stage = "called",
                      writes'[w].res \in {"applied", "mismatch"}
               PROVE  /\ writes'[w].res = "applied" => Holds(w)
                      /\ writes'[w].res = "mismatch" => ~HoldsExactly(w)
    OBVIOUS
  <2> DEFINE matches == ReadbackMatches(writes[w].kind, writes[w].ask)
             res == IF matches THEN "applied" ELSE "mismatch"
  <2>1. Answered(w, res)
    BY OnlyConcluded
  <2>2. res = "applied" <=> matches
    OBVIOUS
  <2> HIDE DEF res
  <2>3. writes'[w].res = res
    BY <2>1 DEF Answered, UnusedWrite, RadioInv
  <2>4. res = "mismatch" => ~matches
    BY DEF res
  <2> QED BY <2>2, <2>3, <2>4, ReadbackHolds
<1>2. ReadbackIsExact <=> [][Exact]_radioVars
  BY DEF ReadbackIsExact
<1> HIDE DEF Exact
<1> QED BY <1>1, <1>2, RadioStarts, RadioKept, PTL DEF RadioSpec

-----------------------------------------------------------------------------
(* Who a modem is.  Induction over the natural numbers, as a fact about sets *)
(* of them.                                                                  *)

LessThan == {pair \in Nat \X Nat : pair[1] < pair[2]}

\* A set of numbers that is not empty has a least one.
LEMMA LeastNumber ==
    ASSUME NEW T, T \subseteq Nat, T # {}
    PROVE  \E least \in T : \A n \in T : least <= n
<1>1. IsWellFoundedOn(LessThan, Nat)
  BY NatLessThanWellFounded DEF OpToRel, LessThan
<1>2. PICK least \in T : \A n \in T : ~ (<<n, least>> \in LessThan)
  BY <1>1, WFMin
<1>3. least \in Nat /\ \A n \in T : n \in Nat
  OBVIOUS
<1>4. \A n \in T : ~ (n < least)
  BY <1>2, <1>3 DEF LessThan
<1> QED
  BY <1>3, <1>4

\* A set of numbers that has 0 and, with each number, the next has them all.
LEMMA SetInduction ==
    ASSUME NEW T, 0 \in T, \A n \in Nat : n \in T => n + 1 \in T
    PROVE  \A n \in Nat : n \in T
<1> SUFFICES ASSUME Nat \ T # {}
             PROVE  FALSE
  OBVIOUS
<1>1. PICK least \in Nat \ T : \A n \in Nat \ T : least <= n
  <2>1. Nat \ T \subseteq Nat
    OBVIOUS
  <2> QED
    BY <2>1, LeastNumber
<1>2. least \in Nat /\ least # 0 /\ least - 1 \in Nat
  BY <1>1
<1>3. least - 1 \in T
  BY <1>1, <1>2
<1>4. (least - 1) + 1 \in T /\ (least - 1) + 1 = least
  BY <1>2, <1>3
<1> QED
  BY <1>1, <1>4

-----------------------------------------------------------------------------
(* Where the modems are: no two share a port, a path or a tty number.        *)

Slots == ({"slot", "physdev"} \X Sockets) \cup ({"sysfs"} \X Nat) \cup {Nowhere}
RowKeys == Slots \cup ({"equip"} \X Equipments) \cup ({"path"} \X Nat)
Rows == [slot : Slots, key : RowKeys, path : Nat,
         equipment : [value : Equipments, confidence : {"low", "high"}]]

IdentityTypes ==
    /\ imei \in [Units -> Equipments]
    /\ socket \in [Units -> Sockets \cup {Nowhere}]
    /\ live \in [Units -> Nat] /\ tty \in [Units -> Nat] /\ plugs \in Nat
    /\ rows \in Seq(Rows)

Apart ==
    /\ \A m \in Plugged : live[m] <= plugs
    /\ \A m, n \in Plugged :
        m # n => socket[m] # socket[n] /\ live[m] # live[n] /\ tty[m] # tty[n]

LEMMA PluggedFinite ==
    /\ Plugged \subseteq Units /\ IsFiniteSet(Plugged)
    /\ Cardinality(Plugged) \in Nat /\ Cardinality(Units) \in Nat
<1>1. Plugged \subseteq Units
  BY DEF Plugged
<1> QED
  BY <1>1, IdentityAssumption, FS_Subset, FS_CardinalityType

\* There is a number that no modem has, and a lowest one.
LEMMA FreeNumber ==
    ASSUME NEW m \in Units \ Plugged
    PROVE  \E k \in 1..Cardinality(Units) :
              /\ k \notin {tty[n] : n \in Plugged}
              /\ \A j \in 1..(k - 1) : j \in {tty[n] : n \in Plugged}
<1> DEFINE taken == {tty[n] : n \in Plugged}
           free == {k \in 1..Cardinality(Units) : k \notin taken}
<1>1. IsFiniteSet(taken) /\ Cardinality(taken) <= Cardinality(Plugged)
  <2> DEFINE f == [n \in Plugged |-> tty[n]]
  <2>1. f \in Surjection(Plugged, taken)
    BY DEF Surjection
  <2> QED
    BY <2>1, PluggedFinite, FS_Surjection
<1>2. Cardinality(Plugged) < Cardinality(Units)
  <2>1. Plugged \subseteq Units \ {m}
    BY PluggedFinite
  <2>2. /\ IsFiniteSet(Units \ {m})
        /\ Cardinality(Units \ {m}) = Cardinality(Units) - 1
    BY IdentityAssumption, FS_RemoveElement
  <2>3. Cardinality(Plugged) <= Cardinality(Units \ {m})
    BY <2>1, <2>2, FS_Subset
  <2> QED
    BY <2>2, <2>3, PluggedFinite
<1>3. free # {}
  <2> SUFFICES ASSUME 1..Cardinality(Units) \subseteq taken
               PROVE  FALSE
    OBVIOUS
  <2>1. Cardinality(1..Cardinality(Units)) = Cardinality(Units)
    BY PluggedFinite, FS_Interval
  <2>2. Cardinality(1..Cardinality(Units)) <= Cardinality(taken)
    BY <1>1, FS_Subset
  <2>3. Cardinality(taken) \in Nat
    BY <1>1, FS_CardinalityType
  <2> QED
    BY <1>1, <1>2, <2>1, <2>2, <2>3, PluggedFinite
<1>4. free \subseteq Nat
  OBVIOUS
<1>5. PICK k \in free : \A j \in free : k <= j
  <2> HIDE DEF free
  <2> QED
    BY <1>3, <1>4, LeastNumber
<1>6. k \in 1..Cardinality(Units) /\ k \notin taken
  BY <1>5
<1>7. ASSUME NEW j \in 1..(k - 1)
      PROVE  j \in taken
  <2>1. j \in 1..Cardinality(Units) /\ ~ (k <= j)
    BY <1>6, PluggedFinite
  <2> QED
    BY <1>5, <2>1
<1> QED
  BY <1>6, <1>7

LEMMA InitApart == IdentityInit => IdentityTypes /\ Apart
<1> SUFFICES ASSUME IdentityInit
             PROVE  IdentityTypes /\ Apart
  OBVIOUS
<1>1. Plugged = {}
  BY DEF IdentityInit, Plugged
<1> QED
  BY <1>1 DEF IdentityInit, IdentityTypes, Apart

LEMMA PlugApart ==
    ASSUME IdentityTypes, Apart, Plug
    PROVE  IdentityTypes' /\ Apart'
<1>1. PICK m \in Units \ Plugged, s \in Sockets :
        /\ plugs < MaxPlugs /\ \A n \in Units : socket[n] # s
        /\ plugs' = plugs + 1
        /\ socket' = [socket EXCEPT ![m] = s]
        /\ live' = [live EXCEPT ![m] = plugs']
        /\ tty' = [tty EXCEPT ![m] =
                      CHOOSE k \in 1..Cardinality(Units) :
                         /\ k \notin {tty[n] : n \in Plugged}
                         /\ \A j \in 1..(k - 1) : j \in {tty[n] : n \in Plugged}]
        /\ UNCHANGED <<imei, reports, rows>>
  BY DEF Plug
<1> DEFINE number == CHOOSE k \in 1..Cardinality(Units) :
                         /\ k \notin {tty[n] : n \in Plugged}
                         /\ \A j \in 1..(k - 1) : j \in {tty[n] : n \in Plugged}
<1>2. number \in Nat /\ \A n \in Plugged : number # tty[n]
  <2>1. /\ number \in 1..Cardinality(Units)
        /\ number \notin {tty[n] : n \in Plugged}
    BY FreeNumber, <1>1
  <2> HIDE DEF number
  <2> QED
    BY <2>1
<1>3. tty' = [tty EXCEPT ![m] = number]
  BY <1>1
<1> HIDE DEF number
<1>4. IdentityTypes'
  <2>1. plugs' \in Nat /\ live' \in [Units -> Nat]
    BY <1>1 DEF IdentityTypes
  <2>2. socket' \in [Units -> Sockets \cup {Nowhere}]
    BY <1>1 DEF IdentityTypes
  <2>3. tty' \in [Units -> Nat]
    BY <1>2, <1>3 DEF IdentityTypes
  <2>4. imei' \in [Units -> Equipments] /\ rows' \in Seq(Rows)
    BY <1>1 DEF IdentityTypes
  <2> QED
    BY <2>1, <2>2, <2>3, <2>4 DEF IdentityTypes
<1>5. \A n \in Plugged' : n \in Units /\ (n = m \/ n \in Plugged)
  BY <1>1 DEF Plugged, IdentityTypes
<1>6. \A n \in Plugged : /\ n # m /\ n \in Units
                         /\ socket'[n] = socket[n] /\ live'[n] = live[n] /\ tty'[n] = tty[n]
                         /\ socket[n] # s /\ live[n] <= plugs /\ tty[n] # number
  BY <1>1, <1>2, <1>3 DEF Plugged, IdentityTypes, Apart
<1>7. socket'[m] = s /\ live'[m] = plugs + 1 /\ tty'[m] = number
  BY <1>1, <1>3 DEF IdentityTypes
<1>8. \A n \in Plugged : live[n] \in Nat /\ live[n] < plugs + 1 /\ live[n] <= plugs + 1
  BY <1>6 DEF IdentityTypes
<1>9. \A n \in Plugged' : live'[n] <= plugs'
  BY <1>1, <1>5, <1>6, <1>7, <1>8 DEF IdentityTypes
<1>10. ASSUME NEW n \in Plugged', NEW o \in Plugged', n # o
       PROVE  socket'[n] # socket'[o] /\ live'[n] # live'[o] /\ tty'[n] # tty'[o]
  <2>1. CASE n = m
    BY <1>5, <1>6, <1>7, <1>8, <1>10, <2>1
  <2>2. CASE o = m
    BY <1>5, <1>6, <1>7, <1>8, <1>10, <2>2
  <2>3. CASE n \in Plugged /\ o \in Plugged
    BY <1>6, <1>10, <2>3 DEF Apart
  <2> QED
    BY <1>5, <1>10, <2>1, <2>2, <2>3
<1> QED
  BY <1>4, <1>9, <1>10 DEF Apart

LEMMA UnplugApart ==
    ASSUME IdentityTypes, Apart, Unplug
    PROVE  IdentityTypes' /\ Apart'
<1>1. PICK m \in Plugged :
        /\ socket' = [socket EXCEPT ![m] = Nowhere]
        /\ live' = [live EXCEPT ![m] = 0] /\ tty' = [tty EXCEPT ![m] = 0]
        /\ UNCHANGED <<imei, reports, plugs, rows>>
  BY DEF Unplug
<1>2. m \in Units
  BY DEF Plugged
<1>3. IdentityTypes'
  BY <1>1, <1>2 DEF IdentityTypes
<1>4. \A n \in Plugged' : /\ n \in Plugged
                          /\ socket'[n] = socket[n] /\ live'[n] = live[n] /\ tty'[n] = tty[n]
  BY <1>1, <1>2 DEF Plugged, IdentityTypes
<1> QED
  BY <1>1, <1>3, <1>4 DEF Apart

-----------------------------------------------------------------------------
(* One row applied.  It is there afterwards, and so is every row that has    *)
(* another key and no equipment in common with it.                           *)

LEMMA RemoveAtKeeps ==
    ASSUME NEW S, NEW s \in Seq(S), NEW i \in 1..Len(s)
    PROVE  /\ RemoveAt(s, i) \in Seq(S)
           /\ \A j \in 1..Len(s) :
                j # i => \E k \in 1..Len(RemoveAt(s, i)) : RemoveAt(s, i)[k] = s[j]
<1> DEFINE before == SubSeq(s, 1, i - 1)
           after == SubSeq(s, i + 1, Len(s))
<1>1. Len(s) \in Nat /\ i \in Int /\ \A j \in 1..Len(s) : s[j] \in S
  OBVIOUS
<1>2. /\ before \in Seq(S) /\ Len(before) = i - 1
      /\ \A j \in 1..i - 1 : before[j] = s[j]
  <2>1. \A j \in 1..i - 1 : s[j] \in S
    BY <1>1
  <2>2. /\ before \in Seq(S) /\ Len(before) = IF 1 <= i - 1 THEN (i - 1) - 1 + 1 ELSE 0
        /\ \A j \in 1..(i - 1) - 1 + 1 : before[j] = s[1 + j - 1]
    BY <1>1, <2>1, SubSeqProperties
  <2> HIDE DEF before
  <2> QED
    BY <1>1, <2>2
<1>3. /\ after \in Seq(S) /\ Len(after) = Len(s) - i
      /\ \A j \in 1..Len(s) - i : after[j] = s[i + j]
  <2>1. \A j \in i + 1 .. Len(s) : s[j] \in S
    BY <1>1
  <2>2. /\ after \in Seq(S)
        /\ Len(after) = IF i + 1 <= Len(s) THEN Len(s) - (i + 1) + 1 ELSE 0
        /\ \A j \in 1..Len(s) - (i + 1) + 1 : after[j] = s[(i + 1) + j - 1]
    BY <1>1, <2>1, SubSeqProperties
  <2> HIDE DEF after
  <2>3. \A j \in 1..Len(s) - i : (i + 1) + j - 1 = i + j
    BY <1>1
  <2> QED
    BY <1>1, <2>2, <2>3
<1>4. RemoveAt(s, i) = before \o after
  BY DEF RemoveAt
<1> HIDE DEF before, after
<1>5. /\ RemoveAt(s, i) \in Seq(S)
      /\ Len(RemoveAt(s, i)) = Len(s) - 1
      /\ \A j \in 1..Len(s) - 1 :
            RemoveAt(s, i)[j] = IF j <= i - 1 THEN before[j] ELSE after[j - (i - 1)]
  <2>1. Len(before) + Len(after) = Len(s) - 1
    BY <1>1, <1>2, <1>3
  <2>2. /\ before \o after \in Seq(S)
        /\ Len(before \o after) = Len(before) + Len(after)
        /\ \A j \in 1..Len(before) + Len(after) :
              (before \o after)[j] =
                  IF j <= Len(before) THEN before[j] ELSE after[j - Len(before)]
    BY <1>2, <1>3, ConcatProperties
  <2> QED
    BY <1>2, <1>3, <1>4, <2>1, <2>2
<1>6. ASSUME NEW j \in 1..Len(s), j < i
      PROVE  j \in 1..Len(RemoveAt(s, i)) /\ RemoveAt(s, i)[j] = s[j]
  BY <1>1, <1>2, <1>5, <1>6
<1>7. ASSUME NEW j \in 1..Len(s), j > i
      PROVE  j - 1 \in 1..Len(RemoveAt(s, i)) /\ RemoveAt(s, i)[j - 1] = s[j]
  <2>1. /\ j - 1 \in 1..Len(s) - 1 /\ ~ (j - 1 <= i - 1)
        /\ (j - 1) - (i - 1) = j - i /\ j - i \in 1..Len(s) - i /\ i + (j - i) = j
    BY <1>1, <1>7
  <2> QED
    BY <1>3, <1>5, <2>1
<1>8. ASSUME NEW j \in 1..Len(s), j # i
      PROVE  \E k \in 1..Len(RemoveAt(s, i)) : RemoveAt(s, i)[k] = s[j]
  <2>1. j < i \/ j > i
    BY <1>1, <1>8
  <2>2. CASE j < i
    BY <1>6, <2>2
  <2>3. CASE j > i
    BY <1>7, <2>3
  <2> QED
    BY <2>1, <2>2, <2>3
<1> QED
  BY <1>5, <1>8

Shares(row, other) ==
    Value(other.equipment) # Nowhere /\ Value(other.equipment) = Value(row.equipment)

\* What is in rs stays in after, but for what the row replaces or takes away.
Keeps(row, rs, after) ==
    /\ after \in Seq(Rows)
    /\ \E i \in DOMAIN after : after[i] = row
    /\ \A i \in DOMAIN rs : rs[i].key # row.key /\ ~Shares(row, rs[i]) =>
        \E j \in DOMAIN after : after[j] = rs[i]

LEMMA ApplyKeeps ==
    ASSUME NEW rs \in Seq(Rows), NEW row \in Rows
    PROVE  Keeps(row, rs, ApplyIdentity(row, rs).rows)
<1>1. Len(rs) \in Nat /\ DOMAIN rs = 1..Len(rs) /\ \A i \in 1..Len(rs) : rs[i] \in Rows
  OBVIOUS
<1>2. CASE RowAt(row.key, rs) # {}
  <2> DEFINE after == Replace(row, rs)
  <2>1. ApplyIdentity(row, rs).rows = after
    BY <1>2 DEF ApplyIdentity, ApplyToExisting
  <2>2. /\ after = [i \in 1..Len(rs) |-> IF rs[i].key = row.key THEN row ELSE rs[i]]
        /\ after \in [1..Len(rs) -> Rows]
    BY <1>1 DEF Replace
  <2>3. after \in Seq(Rows) /\ DOMAIN after = 1..Len(rs)
    BY <1>1, <2>2, SeqDef
  <2>4. \E i \in 1..Len(rs) : after[i] = row
    BY <1>1, <1>2, <2>2 DEF RowAt
  <2>5. \A i \in 1..Len(rs) : rs[i].key # row.key => after[i] = rs[i]
    BY <2>2
  <2> HIDE DEF after
  <2> QED
    BY <1>1, <2>1, <2>3, <2>4, <2>5 DEF Keeps
<1>3. ASSUME NEW left \in Seq(Rows),
             ApplyIdentity(row, rs).rows = Append(left, row),
             \A i \in DOMAIN rs : ~Shares(row, rs[i]) =>
                \E j \in 1..Len(left) : left[j] = rs[i]
      PROVE  Keeps(row, rs, ApplyIdentity(row, rs).rows)
  <2> DEFINE after == ApplyIdentity(row, rs).rows
  <2>1. /\ after \in Seq(Rows) /\ Len(left) \in Nat /\ Len(after) = Len(left) + 1
        /\ DOMAIN after = 1..Len(left) + 1
        /\ after[Len(left) + 1] = row
        /\ \A j \in 1..Len(left) : after[j] = left[j]
    BY <1>3, AppendProperties
  <2> HIDE DEF after
  <2>2. \A j \in 1..Len(left) : j \in DOMAIN after /\ after[j] = left[j]
    BY <2>1
  <2>3. \E i \in DOMAIN after : after[i] = row
    BY <2>1
  <2>4. Keeps(row, rs, after)
    BY <1>3, <2>1, <2>2, <2>3 DEF Keeps
  <2> QED
    BY <2>4 DEF after
<1>4. CASE RowAt(row.key, rs) = {} /\ Elsewhere(row, rs) # {}
  <2> DEFINE first == Min(Elsewhere(row, rs))
             left == RemoveAt(rs, first)
  <2>1. Elsewhere(row, rs) \subseteq Nat
    BY <1>1 DEF Elsewhere
  <2>2. \E i \in Elsewhere(row, rs) : \A j \in Elsewhere(row, rs) : i <= j
    BY <1>4, <2>1, LeastNumber
  <2>3. first \in Elsewhere(row, rs)
    BY <2>2, Zenon DEF Min
  <2>4. first \in 1..Len(rs) /\ Shares(row, rs[first])
    BY <1>1, <2>3 DEF Elsewhere, Shares
  <2>5. /\ left \in Seq(Rows)
        /\ \A j \in 1..Len(rs) : j # first => \E k \in 1..Len(left) : left[k] = rs[j]
    BY <2>4, RemoveAtKeeps
  <2>6. ApplyIdentity(row, rs).rows = Append(left, row)
    BY <1>4 DEF ApplyIdentity
  <2> HIDE DEF first, left
  <2> QED
    BY <1>1, <1>3, <2>4, <2>5, <2>6
<1>5. CASE RowAt(row.key, rs) = {} /\ Elsewhere(row, rs) = {}
  <2>1. ApplyIdentity(row, rs).rows = Append(rs, row)
    BY <1>5 DEF ApplyIdentity
  <2> QED
    BY <1>1, <1>3, <2>1
<1> QED
  BY <1>2, <1>4, <1>5

-----------------------------------------------------------------------------
(* A modem that shares its equipment id with no other.                       *)

Unique(m) == ~Duplicated(m, Units) /\ imei[m] # "zeros"
Owns(m, rs) ==
    \E i \in DOMAIN rs : /\ rs[i].key = StableKey(m) /\ rs[i].path = live[m]
                         /\ rs[i].equipment = Equipment(imei[m])

LEMMA ResolveType ==
    ASSUME IdentityTypes, NEW m \in Plugged
    PROVE  Resolve(m, Plugged) \in Rows
<1>1. m \in Units /\ socket[m] \in Sockets /\ live[m] \in Nat /\ tty[m] \in Nat
      /\ imei[m] \in Equipments
  BY DEF IdentityTypes, Plugged
<1>2. Slot(m) \in Slots
  BY <1>1 DEF Slot, Slots
<1>3. StableKey(m) \in RowKeys
  BY <1>1, <1>2 DEF StableKey, RowKeys
<1>4. /\ Equipment(imei[m]) \in [value : Equipments, confidence : {"low", "high"}]
      /\ Demote(Equipment(imei[m])) \in [value : Equipments, confidence : {"low", "high"}]
  BY <1>1 DEF Equipment, Demote, Grade
<1> QED
  BY <1>1, <1>2, <1>3, <1>4 DEF Resolve, Rows

LEMMA ResolveUnique ==
    ASSUME NEW m \in Plugged, Unique(m)
    PROVE  /\ Resolve(m, Plugged).key = StableKey(m)
           /\ Resolve(m, Plugged).path = live[m]
           /\ Resolve(m, Plugged).equipment = Equipment(imei[m])
<1>1. ~Duplicated(m, Plugged)
  BY DEF Unique, Duplicated, Plugged
<1> QED
  BY <1>1 DEF Resolve

\* Its key is its own.
LEMMA KeysApart ==
    ASSUME IdentityTypes, Apart, NEW m \in Plugged, NEW n \in Plugged, m # n, Unique(m)
    PROVE  StableKey(m) # StableKey(n)
<1>1. socket[m] # socket[n] /\ live[m] # live[n] /\ tty[m] # tty[n]
  BY DEF Apart
<1>2. imei[m] # "blank" => imei[n] # imei[m]
  BY DEF Unique, Duplicated, Plugged
<1> QED
  BY <1>1, <1>2 DEF StableKey, Slot

\* No row of its equipment is taken for another modem's.
LEMMA EquipmentApart ==
    ASSUME IdentityTypes, NEW m \in Plugged, NEW n \in Plugged, m # n, Unique(m),
           NEW other, other.equipment = Equipment(imei[m])
    PROVE  ~Shares(Resolve(n, Plugged), other)
<1>1. imei[m] # "blank" => imei[n] # imei[m]
  BY DEF Unique, Duplicated, Plugged
<1>2. Resolve(n, Plugged).equipment.value = imei[n]
  BY DEF Resolve, Equipment, Demote
<1>3. other.equipment.value = imei[m]
  BY DEF Equipment
<1> QED
  BY <1>1, <1>2, <1>3 DEF Shares, Value

LEMMA OwnRow ==
    ASSUME NEW m \in Plugged, Unique(m), NEW rs \in Seq(Rows), IdentityTypes
    PROVE  Owns(m, ApplyIdentity(Resolve(m, Plugged), rs).rows)
<1> DEFINE row == Resolve(m, Plugged)
           after == ApplyIdentity(row, rs).rows
<1>1. Keeps(row, rs, after)
  BY ApplyKeeps, ResolveType
<1>2. /\ row.key = StableKey(m) /\ row.path = live[m]
      /\ row.equipment = Equipment(imei[m])
  BY ResolveUnique
<1> HIDE DEF row, after
<1>3. Owns(m, after)
  BY <1>1, <1>2 DEF Keeps, Owns
<1> QED
  BY <1>3 DEF row, after

LEMMA OtherRow ==
    ASSUME IdentityTypes, Apart, NEW m \in Plugged, NEW n \in Plugged, m # n, Unique(m),
           NEW rs \in Seq(Rows), Owns(m, rs)
    PROVE  Owns(m, ApplyIdentity(Resolve(n, Plugged), rs).rows)
<1> DEFINE row == Resolve(n, Plugged)
           after == ApplyIdentity(row, rs).rows
<1>1. PICK i \in DOMAIN rs :
        /\ rs[i].key = StableKey(m) /\ rs[i].path = live[m]
        /\ rs[i].equipment = Equipment(imei[m])
  BY DEF Owns
<1>2. Keeps(row, rs, after)
  BY ApplyKeeps, ResolveType
<1>3. row.key = StableKey(n)
  BY DEF Resolve
<1>4. rs[i].key # row.key
  BY <1>1, <1>3, KeysApart
<1>5. ~Shares(row, rs[i])
  BY <1>1, EquipmentApart
<1> HIDE DEF row, after
<1>6. \E j \in DOMAIN after : after[j] = rs[i]
  BY <1>2, <1>4, <1>5 DEF Keeps
<1>7. Owns(m, after)
  BY <1>1, <1>6 DEF Owns
<1> QED
  BY <1>7 DEF row, after

-----------------------------------------------------------------------------
(* A tree folded into the registry, modem by modem.                          *)

\* The loop is defined on the modems before any modem n.
LEMMA TreeUpTo ==
    ASSUME NEW order, NEW n \in Nat
    PROVE  \E f : f = [k \in 0..n |-> IF k = 0 THEN [rows |-> rows, said |-> Quiet]
                                      ELSE TakeIn(f[k - 1], order[k])]
<1> DEFINE Zero == [rows |-> rows, said |-> Quiet]
           Upto(k, f) == f = [j \in 0..k |-> IF j = 0 THEN Zero ELSE TakeIn(f[j - 1], order[j])]
           T == {k \in Nat : \E f : Upto(k, f)}
<1> HIDE DEF Zero
<1>1. 0 \in T
  <2>1. Upto(0, [j \in 0..0 |-> Zero])
    OBVIOUS
  <2> QED
    BY <2>1
<1>2. ASSUME NEW k \in Nat, k \in T
      PROVE  k + 1 \in T
  <2>1. PICK f : Upto(k, f)
    BY <1>2
  <2> DEFINE g == [j \in 0..k + 1 |->
                      IF j = k + 1 THEN TakeIn(f[k], order[k + 1]) ELSE f[j]]
  <2>2. \A j \in 0..k + 1 : j # 0 => g[j - 1] = f[j - 1]
    OBVIOUS
  <2>3. \A j \in 0..k : f[j] = IF j = 0 THEN Zero ELSE TakeIn(f[j - 1], order[j])
    BY <2>1
  <2>4. \A j \in 0..k + 1 : g[j] = IF j = 0 THEN Zero ELSE TakeIn(g[j - 1], order[j])
    BY <2>2, <2>3
  <2>5. g = [j \in 0..k + 1 |-> g[j]]
    OBVIOUS
  <2> HIDE DEF g
  <2>6. Upto(k + 1, g)
    BY <2>4, <2>5
  <2>7. k + 1 \in Nat
    OBVIOUS
  <2> HIDE DEF Upto
  <2> QED
    BY <2>6, <2>7
<1>3. n \in T
  <2> HIDE DEF T
  <2> QED
    BY <1>1, <1>2, SetInduction
<1> QED
  BY <1>3 DEF Zero

\* What a refresh makes of the rows, in the order it takes the modems.
Chain(order, rs) ==
    /\ rs[0] = rows
    /\ \A n \in 1..Cardinality(Plugged) :
        rs[n] = ApplyIdentity(Resolve(order[n], Plugged), rs[n - 1]).rows

LEMMA RefreshIsChain ==
    ASSUME Refresh
    PROVE  \E order \in Bijection(1..Cardinality(Plugged), Plugged) :
              \E rs : Chain(order, rs) /\ rows' = rs[Cardinality(Plugged)]
<1> DEFINE N == Cardinality(Plugged)
           Folded(order) ==
             CHOOSE f : f = [k \in 0..N |-> IF k = 0 THEN [rows |-> rows, said |-> Quiet]
                                            ELSE TakeIn(f[k - 1], order[k])]
<1>1. PICK order \in Bijection(1..N, Plugged) : rows' = Folded(order)[N].rows
  BY DEF Refresh
<1> DEFINE f == Folded(order)
<1>2. f = [k \in 0..N |-> IF k = 0 THEN [rows |-> rows, said |-> Quiet]
                          ELSE TakeIn(f[k - 1], order[k])]
  <2>1. N \in Nat
    BY PluggedFinite
  <2> QED
    BY <2>1, TreeUpTo
<1>3. rows' = f[N].rows
  BY <1>1
<1> HIDE DEF f
<1> DEFINE rs == [k \in 0..N |-> f[k].rows]
<1>4. N \in Nat
  BY PluggedFinite
<1>5. rs[0] = rows
  BY <1>2, <1>4
<1>6. ASSUME NEW n \in 1..N
      PROVE  rs[n] = ApplyIdentity(Resolve(order[n], Plugged), rs[n - 1]).rows
  <2>1. n \in 0..N /\ n # 0 /\ n - 1 \in 0..N
    BY <1>4
  <2>2. f[n].rows = ApplyIdentity(Resolve(order[n], Plugged), f[n - 1].rows).rows
    BY <1>2, <2>1 DEF TakeIn
  <2> QED
    BY <2>1, <2>2
<1>7. Chain(order, rs)
  BY <1>5, <1>6 DEF Chain
<1>8. rows' = rs[N]
  BY <1>3, <1>4
<1> QED
  BY <1>1, <1>7, <1>8

\* After n modems, the unique ones among them have their rows.
LEMMA ChainKeeps ==
    ASSUME IdentityTypes, Apart,
           NEW order \in Bijection(1..Cardinality(Plugged), Plugged), NEW rs, Chain(order, rs)
    PROVE  /\ rs[Cardinality(Plugged)] \in Seq(Rows)
           /\ \A m \in Plugged : Unique(m) => Owns(m, rs[Cardinality(Plugged)])
<1> DEFINE N == Cardinality(Plugged)
           Good(n) == /\ rs[n] \in Seq(Rows)
                      /\ \A p \in 1..n : Unique(order[p]) => Owns(order[p], rs[n])
           T == {n \in Nat : n <= N => Good(n)}
<1>1. /\ N \in Nat
      /\ \A p \in 1..N : order[p] \in Plugged
      /\ \A p, q \in 1..N : order[p] = order[q] => p = q
      /\ \A m \in Plugged : \E p \in 1..N : order[p] = m
  BY PluggedFinite DEF Bijection, Injection, Surjection, IsInjective
<1>2. 0 \in T
  <2>1. Good(0)
    BY DEF Chain, IdentityTypes
  <2> QED
    BY <2>1
<1>3. ASSUME NEW n \in Nat, n \in T
      PROVE  n + 1 \in T
  <2>1. ASSUME n + 1 <= N
        PROVE  Good(n + 1)
    <3>1. n + 1 \in 1..N /\ n <= N /\ (n + 1) - 1 = n
      BY <1>1, <2>1
    <3>2. Good(n)
      BY <1>3, <3>1
    <3> DEFINE u == order[n + 1]
    <3>3. u \in Plugged /\ rs[n + 1] = ApplyIdentity(Resolve(u, Plugged), rs[n]).rows
      BY <1>1, <3>1 DEF Chain
    <3>4. rs[n + 1] \in Seq(Rows)
      <4>1. Keeps(Resolve(u, Plugged), rs[n], rs[n + 1])
        BY <3>2, <3>3, ResolveType, ApplyKeeps
      <4> QED
        BY <4>1 DEF Keeps
    <3>5. ASSUME NEW p \in 1..n + 1, Unique(order[p])
          PROVE  Owns(order[p], rs[n + 1])
      <4>1. CASE p = n + 1
        BY <3>2, <3>3, <3>5, <4>1, OwnRow
      <4>2. CASE p # n + 1
        <5>1. p \in 1..n /\ p \in 1..N
          BY <1>1, <3>1, <3>5, <4>2
        <5>2. order[p] \in Plugged /\ order[p] # u
          BY <1>1, <3>1, <4>2, <5>1
        <5>3. Owns(order[p], rs[n])
          BY <3>2, <3>5, <5>1
        <5> QED
          BY <3>2, <3>3, <3>5, <5>2, <5>3, OtherRow
      <4> QED
        BY <4>1, <4>2
    <3> QED
      BY <3>4, <3>5
  <2> HIDE DEF Good
  <2> QED
    BY <2>1
<1>4. N \in T
  <2> HIDE DEF T
  <2> QED
    BY <1>1, <1>2, <1>3, SetInduction
<1>5. Good(N)
  BY <1>1, <1>4
<1> HIDE DEF N
<1> QED
  BY <1>1, <1>5 DEF N

IdentityInv ==
    /\ IdentityTypes /\ Apart
    /\ fresh => \A m \in Plugged : Unique(m) => Owns(m, rows)

LEMMA RefreshKeeps ==
    ASSUME IdentityInv, Refresh
    PROVE  IdentityInv'
<1>1. UNCHANGED <<imei, reports, socket, live, tty, plugs>>
  BY DEF Refresh
<1>2. PICK order \in Bijection(1..Cardinality(Plugged), Plugged) :
          \E rs : Chain(order, rs) /\ rows' = rs[Cardinality(Plugged)]
  BY RefreshIsChain
<1>3. rows' \in Seq(Rows) /\ \A m \in Plugged : Unique(m) => Owns(m, rows')
  <2>1. PICK rs : Chain(order, rs) /\ rows' = rs[Cardinality(Plugged)]
    BY <1>2
  <2> QED
    BY <2>1, ChainKeeps DEF IdentityInv
<1>4. Plugged' = Plugged
  BY <1>1 DEF Plugged
<1>5. IdentityTypes' /\ Apart'
  BY <1>1, <1>3, <1>4 DEF IdentityInv, IdentityTypes, Apart
<1>6. ASSUME NEW m \in Plugged, Unique(m)'
      PROVE  Owns(m, rows)'
  <2>1. Unique(m)
    BY <1>1, <1>6 DEF Unique, Duplicated
  <2>2. StableKey(m)' = StableKey(m)
    BY <1>1 DEF StableKey, Slot
  <2>3. Owns(m, rows')
    BY <1>3, <2>1
  <2> QED
    BY <1>1, <2>2, <2>3 DEF Owns
<1> QED
  BY <1>4, <1>5, <1>6 DEF IdentityInv

LEMMA IdentityKept == IdentityInv /\ [IdentityNext]_identityVars => IdentityInv'
<1> SUFFICES ASSUME IdentityInv, [IdentityNext]_identityVars
             PROVE  IdentityInv'
  OBVIOUS
<1>1. CASE Plug \/ Unplug
  <2>1. ~fresh'
    BY <1>1 DEF Plug, Unplug, Changed
  <2>2. IdentityTypes' /\ Apart'
    BY <1>1, PlugApart, UnplugApart DEF IdentityInv
  <2> QED
    BY <2>1, <2>2 DEF IdentityInv
<1>2. CASE Refresh
  BY <1>2, RefreshKeeps
<1>3. CASE UNCHANGED identityVars
  <2>1. UNCHANGED <<imei, reports, socket, live, tty, plugs, rows, fresh>>
    BY <1>3 DEF identityVars
  <2>2. Plugged' = Plugged
    BY <2>1 DEF Plugged
  <2>3. IdentityTypes' /\ Apart'
    BY <2>1, <2>2 DEF IdentityInv, IdentityTypes, Apart
  <2>4. \A m : (Unique(m)' <=> Unique(m)) /\ (Owns(m, rows)' <=> Owns(m, rows))
    BY <2>1 DEF Unique, Duplicated, Owns, StableKey, Slot
  <2> QED
    BY <2>1, <2>2, <2>3, <2>4 DEF IdentityInv
<1> QED
  BY <1>1, <1>2, <1>3 DEF IdentityNext

\* Two modems that may be bound have different equipment ids.
LEMMA BindingsApart ==
    ASSUME NEW m \in Plugged, NEW n \in Plugged, m # n,
           CanBindPolicy(Resolve(m, Plugged)), CanBindPolicy(Resolve(n, Plugged))
    PROVE  PolicyBindingKey(Resolve(m, Plugged)) # PolicyBindingKey(Resolve(n, Plugged))
<1>1. ~Duplicated(m, Plugged) /\ Grade(imei[m]) # "low"
  BY DEF CanBindPolicy, Resolve, Equipment, Demote
<1>2. imei[m] # "blank"
  BY <1>1 DEF Grade
<1>3. imei[m] # imei[n]
  BY <1>1, <1>2 DEF Duplicated
<1>4. /\ Resolve(m, Plugged).equipment.value = imei[m]
      /\ Resolve(n, Plugged).equipment.value = imei[n]
  BY DEF Resolve, Equipment, Demote
<1> QED
  BY <1>3, <1>4 DEF PolicyBindingKey

\* After every refresh a modem that shares its equipment id with no other has a
\* row at its key, with its equipment and its live path, in whatever order the
\* tree lists the modems; and no two of a tree can be bound to one policy.
THEOREM RowsAreTrueHolds == IdentitySpec => []RowsAreTrue
<1>1. IdentityInit => IdentityInv
  <2> SUFFICES ASSUME IdentityInit
               PROVE  IdentityInv
    OBVIOUS
  <2>1. Plugged = {}
    BY DEF IdentityInit, Plugged
  <2> QED
    BY <2>1, InitApart DEF IdentityInv
<1>2. IdentityInv => RowsAreTrue
  <2> SUFFICES ASSUME IdentityInv
               PROVE  RowsAreTrue
    OBVIOUS
  <2>1. fresh => \A m \in Plugged :
          ~Duplicated(m, Units) /\ imei[m] # "zeros" =>
              \E i \in DOMAIN rows :
                 /\ rows[i].key = StableKey(m) /\ rows[i].path = live[m]
                 /\ rows[i].equipment = Equipment(imei[m])
    BY DEF IdentityInv, Unique, Owns
  <2> QED
    BY <2>1, BindingsApart DEF RowsAreTrue
<1> QED
  BY <1>1, <1>2, IdentityKept, PTL DEF IdentitySpec

=============================================================================
