----------------------------- MODULE MCDecisions -----------------------------
(***************************************************************************)
(* Instances for TLC of the modules that decide: what they decide about    *)
(* changes under them, but they share no variable, so a behaviour explores *)
(* one of them.                                                            *)
(***************************************************************************)
EXTENDS Reconcile, ModemIdentity, UsbCertification, Observations, MmRadio

VARIABLE subject

mcVars == <<reconcileVars, identityVars, usbVars, observationVars, radioVars, subject>>

\* Policies that differ where the planner looks, over a modem with two slots
\* and one that can do little.
SmallPolicies ==
    {[enabled |-> TRUE, apn |-> "auto", roaming |-> FALSE, radio |-> <<"lte">>, simSlot |-> 2],
     [enabled |-> TRUE, apn |-> "web", roaming |-> TRUE, radio |-> <<"nr", "lte">>, simSlot |-> NoValue],
     [enabled |-> FALSE, apn |-> "web", roaming |-> FALSE, radio |-> <<"nr">>, simSlot |-> 3]}
SmallAbilities ==
    {[rats |-> {"lte", "nr"}, slots |-> 2, auto |-> TRUE],
     [rats |-> {"lte"}, slots |-> 1, auto |-> FALSE]}

\* Three modems, up to renaming: a pair with one IMEI, none, or too many.
Fleets ==
    {<<"i1", "i1", "i2">>, <<"i1", "i2", "blank">>, <<"zeros", "zeros", "i1">>,
     <<"i1", "i1", "i1">>, <<"blank", "blank", "i1">>}

\* A modem of one SKU: with QMI, with MBIM, and as a tether with an AT port,
\* known for a tether by its driver only.
SmallComposition ==
    "qmi" :> <<[kind |-> "vendor", driver |-> "option"],
               [kind |-> "vendor", driver |-> "qmi_wwan"]>>
      @@ "mbim" :> <<[kind |-> "mbim", driver |-> "cdc_mbim"],
                     [kind |-> "acm", driver |-> "cdc_acm"]>>
      @@ "ecm-ncm" :> <<[kind |-> "vendor", driver |-> "option"],
                        [kind |-> "vendor", driver |-> "cdc_ether"]>>

\* A modem that states no preference at all, one with everything said about
\* its 5G, and one with a bit nobody named, a joined preference and ANY.
SmallCatalogs ==
    {{[allowed |-> {2, 3, 4}, preferred |-> {}]},
     {[allowed |-> {3, 4}, preferred |-> {3}], [allowed |-> {3, 4}, preferred |-> {4}],
      [allowed |-> {3, 4}, preferred |-> {}], [allowed |-> {3}, preferred |-> {}],
      [allowed |-> {4}, preferred |-> {}]},
     {[allowed |-> {2, 3, 5}, preferred |-> {5}], [allowed |-> {2, 3}, preferred |-> {2, 3}],
      [allowed |-> 0..5, preferred |-> {}]}}
OneMode == [allowed |-> {2, 3, 4}, preferred |-> {}]
OneCatalog == {OneMode}
SmallBandValues == {0, 5, 33, 37, 256, 999}
SmallBandSupports == {{5, 33, 999}, {0, 33, 37}, {33}}
SmallBandAsks ==
    {{"any"}, {}, {"eutran-3"}, {"utran-1", "eutran-3"}, {"band-999", "eutran-3"},
     {"eutran-3", "nr-3"}, {"any", "eutran-3"}, {"eutran-3", "eutran-7"}, {"band-33"}}
SmallProvenBands == {{}, {"eutran-3"}, {"eutran-7"}}
SmallListings == {<<1, 2, 3>>, <<1, 1, 2>>, <<>>}

\* Only writes of what a behaviour explores.
RadioKinds ==
    "modes" :> {"modes", "radio"} @@ "bands" :> {"bands"} @@ "composition" :> {"composition"}

Subjects == {"reconcile", "identity", "usb", "observations"} \cup DOMAIN RadioKinds

FirstUnit == CHOOSE d \in Devices : TRUE

\* What a behaviour does not explore starts in one state.
MCInit ==
    /\ subject \in Subjects
    /\ IF subject = "reconcile" THEN TRUE
       ELSE /\ caller = "bench"
            /\ policy = CHOOSE p \in SmallPolicies : TRUE
            /\ can = CHOOSE a \in SmallAbilities : TRUE
    /\ imei \in IF subject = "identity" THEN Fleets ELSE {<<"blank", "blank", "blank">>}
    /\ source \in IF subject = "observations" THEN Sources ELSE {"zte-goform"}
    /\ entry \in IF subject = "bands" THEN SmallProvenBands \cup {Uncertified} ELSE {Uncertified}
    /\ IF subject \in DOMAIN RadioKinds THEN TRUE
       ELSE rf = [exports |-> {}, catalog |-> OneCatalog, modes |-> OneMode, support |-> {33},
                  bands |-> {33}, listing |-> <<>>, comp |-> 1]
    /\ ReconcileInit /\ IdentityInit /\ UsbInit /\ ObservationInit /\ RadioInit
    /\ subject # "reconcile" => link.state = "unmanaged" /\ link.iface
    /\ subject # "identity" => reports = {}
    /\ Cardinality({usb[d] : d \in Devices}) = 1
    /\ catalog = {} => \A d \in Devices : usb[d].mode = "qmi"
    /\ subject # "usb" => catalog = {} /\ \A d \in Devices : usb[d].mode = "qmi"
    /\ subject # "modes" => rf.modes = OneMode
    /\ subject \in {"modes", "composition"} => rf.support = {33}
    /\ subject # "composition" => rf.listing = <<>> /\ rf.comp = 1
    /\ subject = "composition" => rf.exports = {}

\* A clock, a device or a bus treats every answer alike: they change under the
\* plainest ones only, and any other answer comes before or after a plain one.
PlainAnswers == UNION {{AnswerOf(s, Usual(s)), AnswerOf(s, Bare(s))} : s \in Sources}
Plain(e) == Valued(e) => e.value \in PlainAnswers
ObservationMove ==
    /\ ObservationNext
    /\ Plain(kept) \/ Plain(kept')

\* The units start alike: one of them is certified, the other is plugged beside
\* it.  A capture of no switch is made with an empty catalog, where there is no
\* other, and one of a switch with the shipped one.
UsbMove ==
    /\ UsbNext
    /\ capture' # Idle => /\ capture'.device = FirstUnit
                         /\ (capture'.to = "none" => Shipped \cap catalog = {})

RadioMove ==
    /\ RadioNext
    /\ \A w \in Writes : writes'[w].stage # "idle" => writes'[w].kind \in RadioKinds[subject]
    /\ CASE subject = "modes" -> rf' = [rf EXCEPT !.modes = rf'.modes]
         [] subject = "bands" -> rf' = [rf EXCEPT !.bands = rf'.bands]
         [] OTHER -> rf' = [rf EXCEPT !.comp = rf'.comp]

MCNext ==
    /\ \/ subject = "reconcile" /\ ReconcileNext /\ UNCHANGED <<identityVars, usbVars, observationVars, radioVars>>
       \/ subject = "identity" /\ IdentityNext /\ UNCHANGED <<reconcileVars, usbVars, observationVars, radioVars>>
       \/ subject = "usb" /\ UsbMove /\ UNCHANGED <<reconcileVars, identityVars, observationVars, radioVars>>
       \/ subject = "observations" /\ ObservationMove
            /\ UNCHANGED <<reconcileVars, identityVars, usbVars, radioVars>>
       \/ subject \in DOMAIN RadioKinds /\ RadioMove
            /\ UNCHANGED <<reconcileVars, identityVars, usbVars, observationVars>>
    /\ UNCHANGED subject

MCSpec == MCInit /\ [][MCNext]_mcVars /\ ReconcileFairness
=============================================================================
