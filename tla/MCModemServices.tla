--------------------------- MODULE MCModemServices ---------------------------
(***************************************************************************)
(* Instances of ModemServices and SmsInbox for TLC.  The inbox shares no   *)
(* variable with the services, so a behaviour explores one of them.        *)
(***************************************************************************)
EXTENDS ModemServices, SmsInbox

VARIABLE subject

mcVars == <<vars, smsVars, subject>>

MCInit == Init /\ SmsInit /\ subject \in {"services", "inbox"}

MCNext ==
    /\ \/ subject = "services" /\ Next /\ UNCHANGED smsVars
       \/ subject = "inbox" /\ SmsNext /\ UNCHANGED vars
    /\ UNCHANGED subject

MCSpec == MCInit /\ [][MCNext]_mcVars /\ Fairness
=============================================================================
