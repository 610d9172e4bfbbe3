--------------------------- MODULE HilinkOperations ---------------------------
(***************************************************************************)
(* The operations of a selected Huawei HiLink router                       *)
(* (control/src/providers/huawei-hilink/runtime.ts and session.ts): reads, *)
(* observations, and the mode and data writes that queue behind one        *)
(* another, own the router session, log in, check the capability, post,    *)
(* and log in again to read back.                                          *)
(*                                                                         *)
(* The device honours its last session only, and may drop it.  Paths,      *)
(* documents and tokens are left out.                                      *)
(***************************************************************************)
EXTENDS Naturals, Sequences, SequencesExt

CONSTANTS
    Writes, Reads, Observes,  \* calls, of one generation
    Values, Offered           \* settings, and those the device lists

ASSUME OfferedAssumption == Offered \subseteq Values

VARIABLES
    line,     \* the writes of this modem, in the order they queued
    lease,    \* who owns the router session; the embedder may
    place,    \* where each call is
    asked,    \* the value of each write
    uses,     \* the session a call has in hand; 0 is none
    answer,   \* what each call ended with
    cached,   \* the session observations share; 0 is none
    honoured, \* the session the device honours; 0 is none
    issued,   \* sessions issued so far
    setting   \* the device's setting

hilinkVars ==
    <<line, lease, place, asked, uses, answer, cached, honoured, issued, setting>>

Operations == Writes \union Reads \union Observes
HilinkInit ==
    /\ line = <<>>
    /\ lease \in {"nobody", "embedder"}
    /\ place = [o \in Operations |-> "unused"]
    /\ asked \in [Writes -> Values]
    /\ uses = [o \in Operations |-> 0]
    /\ answer = [o \in Operations |-> "none"]
    /\ cached = 0 /\ honoured = 0 /\ issued = 0
    /\ setting \in Values

-----------------------------------------------------------------------------
(* Sessions, and how a call ends. *)

EndIn(o, what) ==
    /\ uses' = [uses EXCEPT ![o] = 0]
    /\ place' = [place EXCEPT ![o] = "done"]
    /\ answer' = [answer EXCEPT ![o] = what]

\* What a write has concluded is answered after its lease is given back.
Conclude(w, what) ==
    /\ place' = [place EXCEPT ![w] = "releasing"]
    /\ uses' = [uses EXCEPT ![w] = 0]
    /\ answer' = [answer EXCEPT ![w] = what]

\* A login of the device: refused, or a session that ends the one before it.
LogIn(o, next) ==
    \/ /\ honoured' = issued + 1 /\ issued' = issued + 1
       /\ uses' = [uses EXCEPT ![o] = issued + 1]
       /\ place' = [place EXCEPT ![o] = next]
       /\ UNCHANGED answer
    \/ /\ \E why \in {"auth-expired", "http-failure"} :
             IF o \in Writes THEN Conclude(o, why) ELSE EndIn(o, why)
       /\ UNCHANGED <<honoured, issued>>

Honoured(o) == uses[o] # 0 /\ uses[o] = honoured

\* External: the session runs out.
Expire ==
    /\ honoured # 0
    /\ honoured' = 0
    /\ UNCHANGED <<line, lease, place, asked, uses, answer, cached, issued, setting>>

-----------------------------------------------------------------------------
(* Writes. *)

Write(w) ==
    /\ place[w] = "unused"
    /\ place' = [place EXCEPT ![w] = "queued"]
    /\ line' = Append(line, w)
    /\ UNCHANGED <<lease, asked, uses, answer, cached, honoured, issued, setting>>

Turn(w) == Head(line) = w

\* The lease is asked for when the writes before it have ended.
Acquire(w) ==
    /\ place[w] = "queued" /\ Turn(w)
    /\ IF lease = "nobody"
       THEN /\ lease' = w
            /\ place' = [place EXCEPT ![w] = "login"]
            /\ UNCHANGED <<uses, answer, line>>
       ELSE /\ EndIn(w, "busy")
            /\ line' = Remove(line, w)
            /\ UNCHANGED lease
    /\ UNCHANGED <<asked, cached, honoured, issued, setting>>

\* Mutated: a refusal leaves without the lease.
ReleasesIfApplied(w) == answer[w] = "applied"

Releases(w) == TRUE

Release(w) ==
    /\ place[w] = "releasing"
    /\ place' = [place EXCEPT ![w] = "done"]
    /\ lease' = IF Releases(w) THEN "nobody" ELSE lease
    /\ line' = Remove(line, w)
    /\ UNCHANGED <<asked, uses, answer, cached, honoured, issued, setting>>

WriteLogIn(w) ==
    /\ place[w] = "login"
    /\ LogIn(w, "capability")
    /\ UNCHANGED <<line, lease, asked, cached, setting>>

\* The capability is read afresh; a value the device does not offer is refused.
CheckCapability(w) ==
    /\ place[w] = "capability"
    /\ IF ~Honoured(w) THEN Conclude(w, "auth-expired")
       ELSE \/ Conclude(w, "capability-unavailable")
            \/ /\ asked[w] \in Offered
               /\ place' = [place EXCEPT ![w] = "post"]
               /\ UNCHANGED <<uses, answer>>
    /\ UNCHANGED <<line, lease, asked, cached, honoured, issued, setting>>

Post(w) ==
    /\ place[w] = "post"
    /\ IF ~Honoured(w) THEN Conclude(w, "auth-expired") /\ UNCHANGED setting
       ELSE \/ Conclude(w, "http-failure") /\ setting' \in {setting, asked[w]}
            \/ /\ setting' \in {setting, asked[w]}
               /\ place' = [place EXCEPT ![w] = "relogin"]
               /\ UNCHANGED <<uses, answer>>
    /\ UNCHANGED <<line, lease, asked, cached, honoured, issued>>

WriteLogInAgain(w) ==
    /\ place[w] = "relogin"
    /\ LogIn(w, "readback")
    /\ UNCHANGED <<line, lease, asked, cached, setting>>

Readback(w) == IF setting = asked[w] THEN "applied" ELSE "not-applied"

ReadBack(w) ==
    /\ place[w] = "readback"
    /\ Conclude(w, IF Honoured(w) THEN Readback(w) ELSE "auth-expired")
    /\ UNCHANGED <<line, lease, asked, cached, honoured, issued, setting>>

\* The transport rejects a request: the write is rejected and its lease and its
\* turn are given back all the same.
WriteThrows(w) ==
    /\ place[w] \in {"login", "capability", "post", "relogin", "readback"}
    /\ Conclude(w, "rejected")
    /\ setting' \in {setting} \union (IF place[w] = "post" /\ Honoured(w)
                                      THEN {asked[w]} ELSE {})
    /\ UNCHANGED <<line, lease, asked, cached, honoured, issued>>

-----------------------------------------------------------------------------
(* Reads and observations, which wait for nobody. *)

\* A read logs in for itself; an observation uses the session observations
\* share, which is kept as long as the generation lasts.
Ask(o) ==
    /\ o \in Reads \union Observes
    /\ place[o] = "unused"
    /\ LET known == o \in Observes /\ cached # 0 IN
       /\ place' = [place EXCEPT ![o] = IF known THEN "get" ELSE "login"]
       /\ uses' = [uses EXCEPT ![o] = IF known THEN cached ELSE 0]
    /\ UNCHANGED <<line, lease, asked, answer, cached, honoured, issued, setting>>

ReadLogIn(o) ==
    /\ o \in Reads \union Observes /\ place[o] = "login"
    /\ LogIn(o, "get")
    /\ cached' = IF o \in Observes /\ issued' # issued THEN issued' ELSE cached
    /\ UNCHANGED <<line, lease, asked, setting>>

\* The device answers, or answers that the session is gone: an observation is
\* built from that all the same.
Get(o) ==
    /\ place[o] = "get"
    /\ \/ EndIn(o, IF Honoured(o) THEN "applied" ELSE "auth-expired")
       \/ EndIn(o, IF o \in Observes THEN "auth-expired" ELSE "http-failure")
    /\ UNCHANGED <<line, lease, asked, cached, honoured, issued, setting>>

\* External: the embedder gives the router session back.
EmbedderReleases ==
    /\ lease = "embedder"
    /\ lease' = "nobody"
    /\ UNCHANGED <<line, place, asked, uses, answer, cached, honoured, issued, setting>>

WriteStep(w) ==
    \/ Acquire(w) \/ WriteLogIn(w) \/ CheckCapability(w) \/ Post(w)
    \/ WriteLogInAgain(w) \/ ReadBack(w) \/ WriteThrows(w) \/ Release(w)

HilinkNext ==
    \/ \E w \in Writes : Write(w) \/ WriteStep(w)
    \/ \E o \in Reads \union Observes : Ask(o) \/ ReadLogIn(o) \/ Get(o)
    \/ Expire \/ EmbedderReleases

\* A request of the transport ends, answered or not.
HilinkFairness == \A w \in Writes : WF_hilinkVars(WriteStep(w))

-----------------------------------------------------------------------------
(* Properties. *)

\* Every write that is asked for ends, and the router session is then free.
WritesEnd ==
    \A w \in Writes : place[w] = "queued" ~> place[w] = "done" /\ lease # w
=============================================================================
