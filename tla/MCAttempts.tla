------------------------------ MODULE MCAttempts ------------------------------
(***************************************************************************)
(* Instances of ProviderMatching, HilinkOperations and RecoveryLadder for  *)
(* TLC: devices that allow few attempts, or one caller at a time.  They    *)
(* share no variable, so a behaviour explores one of them.                 *)
(***************************************************************************)
EXTENDS ProviderMatching, HilinkOperations, RecoveryLadder

VARIABLE subject

mcVars == <<matchVars, hilinkVars, vars, subject>>

\* What may be known of a modem on the network, and one that is not there.
NetworkRequests ==
    [transport : {"network"}, usb : {"none", "himi", "other"},
     firmware : {"none", "type-3", "mf79u"}]
      \union {[transport |-> "usb", usb |-> "himi", firmware |-> "none"]}

MCInit ==
    /\ MatchInit /\ HilinkInit /\ Init
    /\ subject \in {"matching", "operations", "ladder"}
    /\ subject # "operations" =>
         lease = "nobody" /\ setting \in Offered /\ \A w \in Writes : asked[w] = setting
    /\ subject # "matching" => router = CHOOSE r \in Routers : TRUE

\* The calls of the ladder differ by their names only: they begin in turn.
LadderMove ==
    /\ Next
    /\ \A r, s \in Runs : r < s /\ lpc'[s] # "idle" => lpc'[r] # "idle"

MCNext ==
    /\ \/ subject = "matching" /\ MatchNext /\ UNCHANGED <<hilinkVars, vars>>
       \/ subject = "operations" /\ HilinkNext /\ UNCHANGED <<matchVars, vars>>
       \/ subject = "ladder" /\ LadderMove /\ UNCHANGED <<matchVars, hilinkVars>>
    /\ UNCHANGED subject

MCSpec == MCInit /\ [][MCNext]_mcVars /\ HilinkFairness
=============================================================================
