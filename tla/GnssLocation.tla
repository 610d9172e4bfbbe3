----------------------------- MODULE GnssLocation -----------------------------
(***************************************************************************)
(* The GNSS receiver of one modem: its switch, read and set on the modem's *)
(* actor (control/src/backend/mm-location.ts), the reads of a fix, which   *)
(* are not on it, and the display state both feed                          *)
(* (control/src/location/fix-state.ts through                              *)
(* control/src/providers/modem-manager/module-operations.ts).              *)
(***************************************************************************)
EXTENDS ModemActor

CONSTANTS
    Toggles,        \* calls of enable and disable
    FixReads,       \* calls of readFix
    AcquireBound,   \* how long acquisition may run
    FixBound        \* how long a fix stays current

VARIABLES
    receiver,   \* the modem's GNSS sources are on
    gpc,        \* where each call is
    seen,       \* what each read saw of the switch
    display,    \* the display state
    age         \* since the display state was entered or its fix observed

gnssVars == <<receiver, gpc, seen, display, age>>

Longest == IF AcquireBound > FixBound THEN AcquireBound ELSE FixBound
GnssInit ==
    /\ receiver = FALSE
    /\ gpc = [c \in Toggles \union FixReads |-> "unused"]
    /\ seen = [r \in FixReads |-> FALSE]
    /\ display = "off"
    /\ age = 0

Place(c, place) == gpc' = [gpc EXCEPT ![c] = place]

-----------------------------------------------------------------------------
(* The display state machine: every exit from "fix" drops the fix. *)

\* Mutated: only acquisition is bounded.
DueAcquisition == display = "acquiring" /\ age >= AcquireBound

Due ==
    \/ display = "acquiring" /\ age >= AcquireBound
    \/ display = "fix" /\ age >= FixBound

\* expireIfDue.
ExpireIfDue == IF Due THEN display' = "no-fix" /\ age' = 0
                      ELSE UNCHANGED <<display, age>>

Show(state) == display' = state /\ age' = 0

\* advanceGnssFixState of a read.
ShowRead(read) ==
    CASE read = "fix" -> Show("fix")
      [] read = "no-fix" /\ display = "acquiring" -> ExpireIfDue
      [] read = "no-fix" /\ display # "acquiring" -> Show("no-fix")
      [] read = "disabled" -> Show("off")
      [] read = "failed" -> Show("unavailable")

\* advanceGnssFixState of a switch: enabling keeps a fix that is held.
ShowSwitch(on) ==
    IF on /\ display = "fix" THEN UNCHANGED <<display, age>>
    ELSE Show(IF on THEN "acquiring" ELSE "off")

-----------------------------------------------------------------------------
(* The switch. *)

Toggle(c, on) ==
    /\ gpc[c] = "unused"
    /\ c = CHOOSE x \in Toggles : gpc[x] = "unused"
    /\ Place(c, IF on THEN "enable" ELSE "disable")
    /\ Run(c)
    /\ UNCHANGED <<receiver, seen, display, age>>

\* The sources are read first: unreadable, or none to enable, ends the call.
ReadSources(c) ==
    /\ AtHead(c) /\ gpc[c] \in {"enable", "disable"}
    /\ \/ Place(c, "done") /\ Settle(c)
       \/ Place(c, IF gpc[c] = "enable" THEN "turnOn" ELSE "turnOff")
          /\ UNCHANGED queue
    /\ UNCHANGED <<receiver, seen, display, age>>

\* Location.Setup; the display follows a call that was answered.
SetSources(c) ==
    /\ AtHead(c) /\ gpc[c] \in {"turnOn", "turnOff"}
    /\ \/ /\ receiver' = (gpc[c] = "turnOn")
          /\ ShowSwitch(receiver') \/ UNCHANGED <<display, age>>
       \/ UNCHANGED <<receiver, display, age>>
    /\ Place(c, "done")
    /\ Settle(c)
    /\ UNCHANGED seen

-----------------------------------------------------------------------------
(* A read of the fix, beside the actor. *)

\* The switch is read, unless the modem cannot be.
ReadSwitch(r) ==
    /\ gpc[r] = "unused"
    /\ seen' = [seen EXCEPT ![r] = receiver]
    /\ Place(r, "reading")
    /\ UNCHANGED <<queue, receiver, display, age>>

\* GetLocation answers for a receiver that was seen on; what it answers was
\* true when the modem took the call.
ReadLands(r) ==
    /\ gpc[r] = "reading"
    /\ \E read \in {"failed"} \union
                   (IF seen[r] THEN {"fix", "no-fix"} ELSE {"disabled"}) :
          ShowRead(read)
    /\ Place(r, "done")
    /\ UNCHANGED <<queue, receiver, seen>>

TimePasses ==
    /\ display \in {"acquiring", "fix"}
    /\ age < Longest
    /\ age' = age + 1
    /\ UNCHANGED <<queue, receiver, gpc, seen, display>>

\* The embedder ticks the display.
Tick ==
    /\ ExpireIfDue
    /\ UNCHANGED <<queue, receiver, gpc, seen>>

GnssStep(t) == t \in Toggles /\ (ReadSources(t) \/ SetSources(t))

-----------------------------------------------------------------------------
(* Properties. *)

\* A spinner ends, and so does a position the modem no longer reports, also
\* one whose read landed after the switch was thrown (fix-state.ts:3-13).
RendersEnd ==
    /\ display = "acquiring" ~> display # "acquiring"
    /\ display = "fix" /\ ~receiver ~> display # "fix" \/ receiver

=============================================================================
