---------------------------- MODULE Observations ----------------------------
(***************************************************************************)
(* What a provider's answer becomes (observations/): every normalised      *)
(* metric is known or says why not, names the provider's own fields it     *)
(* came from, and ages without being replaced by anything but a new read.  *)
(*                                                                         *)
(* A payload gives each field of its source a kind: what arrived there, as *)
(* far as the decoders tell things apart.  "absent" did not arrive,        *)
(* "blank" is empty, "text" is no number, "zero" is 0, "odd" a number that *)
(* stands for nothing, "dash" a vendor's placeholder, "nested" a value     *)
(* that is no string or number, "good" what the decoder hopes for.  The    *)
(* values behind a kind are left out.                                      *)
(***************************************************************************)
EXTENDS Integers, Sequences, FiniteSets, SequencesExt

CONSTANTS
    Ttl,        \* how long a reading is shown as fresh
    MaxNow,     \* bound on the clock
    Nobody      \* no envelope is kept

ASSUME ObservationBounds == Ttl \in Nat /\ MaxNow \in Nat

VARIABLES
    source,     \* the provider family observed
    kept,       \* the envelope a consumer retains, or Nobody
    now,        \* the consumer's clock
    device,     \* [gen, epoch, healthy]: the generation of the device, the
                \* epoch of its source as the consumer counts it, and whether
                \* the source is healthy
    bus         \* [up, plugged, begun]: the bus, the modem on it, and what the
                \* only start of the ModemManager provider became

observationVars == <<source, kept, now, device, bus>>

-----------------------------------------------------------------------------
(* Fields and metrics.                                                     *)

Ladder ==
    [dbm  |-> <<"Lte.rssi", "Umts.rssi", "Gsm.rssi", "Evdo.rssi", "Cdma.rssi">>,
     rsrp |-> <<"Nr5g.rsrp", "Lte.rsrp">>,
     rsrq |-> <<"Nr5g.rsrq", "Lte.rsrq">>,
     snr  |-> <<"Nr5g.snr", "Lte.snr">>,
     sinr |-> <<"Evdo.sinr">>]
FlatField == [dbm |-> "rssi", rsrp |-> "rsrp", rsrq |-> "rsrq", snr |-> "snr", sinr |-> "sinr"]

SignalMetrics == DOMAIN Ladder
LadderFields == UNION {Range(Ladder[m]) : m \in SignalMetrics}
FlatFields == {FlatField[m] : m \in SignalMetrics}
NameFields == {"Model", "Manufacturer", "Revision"}
MaskFields == {"AccessTechnologies", "CurrentModes"}

\* The fields of a source, each with the kinds it may arrive as.  A body is a
\* field of its own: its kind says whether it was read, and as what.
Wire(s) ==
    CASE s = "modemmanager" ->
          [f \in {"Modem3gpp", "Sim", "Signal", "Location"} |-> {"absent", "good"}]
          @@ [f \in NameFields \cup {"EquipmentIdentifier", "OperatorName", "OperatorCode"} |->
                   {"absent", "blank", "good"}]
          @@ [f \in {"State", "UnlockRequired", "SimType", "EsimStatus"} |->
                  {"absent", "text", "zero", "odd", "good"}]
          @@ [f \in {"RegistrationState"} |-> {"absent", "odd", "good"}]
          @@ [f \in MaskFields |-> {"absent", "text", "zero", "odd", "good"}]
          @@ [f \in {"SignalQuality"} |-> {"absent", "text", "zero", "good"}]
          @@ [f \in LadderFields \cup FlatFields |-> {"absent", "text", "good"}]
          @@ [f \in {"SimPath", "SimSlots"} |-> {"absent", "blank", "good"}]
          @@ [f \in {"StateFailedReason"} |-> {"absent", "odd", "good"}]
          @@ [f \in {"3gpp-lac-ci"} |-> {"absent", "text", "zero", "good"}]
      [] s = "huawei-hilink" ->
          [f \in {"status.code", "signal.code"} |-> {"absent", "auth", "refused"}]
          @@ [f \in {"net-mode-list"} |-> {"auth", "refused", "blank", "text", "odd", "good"}]
          @@ [f \in {"SignalIcon", "maxsignal", "rssi", "rsrp", "rsrq", "sinr", "NetworkMode"} |->
                  {"absent", "blank", "text", "good"}]
          @@ [f \in {"SimStatus"} |-> {"absent", "good"}]
      [] s = "zte-goform" ->
          [f \in {"goform"} |-> {"blank", "text", "good"}]
          @@ [f \in {"signalbar", "rssi", "lte_rsrp", "lte_rsrq", "lte_snr", "network_type",
                     "network_provider_fullname", "network_provider", "provider", "cell_id"} |->
                  {"absent", "blank", "dash", "text", "nested", "good"}]
          @@ [f \in {"simcard_state"} |-> {"absent", "nested", "good"}]
      [] OTHER ->
          [f \in {"sysinfo", "overview", "status", "produce-info"} |->
                  {"blank", "text", "out", "nested", "good"}]
          @@ [f \in {"sysinfo.SIGNAL", "overview.SIGNAL", "signalStrength"} |->
                  {"absent", "blank", "text", "good"}]
          @@ [f \in {"cellid", "productname", "ProductName"} |-> {"absent", "dash", "text", "good"}]
          @@ [f \in {"simstate"} |-> {"absent", "good"}]

\* The body a field travels in; a field not named here is in a body that is
\* always read.
BodyOf(s, f) ==
    CASE s = "modemmanager" /\ f \in {"RegistrationState", "OperatorName", "OperatorCode"} -> "Modem3gpp"
      [] s = "modemmanager" /\ f \in {"SimType", "EsimStatus"} -> "Sim"
      [] s = "modemmanager" /\ f \in LadderFields \cup FlatFields -> "Signal"
      [] s = "modemmanager" /\ f = "3gpp-lac-ci" -> "Location"
      [] s = "zte-goform" -> "goform"
      [] s = "ufi-himiapi" /\ f \in {"sysinfo.SIGNAL", "cellid", "simstate"} -> "sysinfo"
      [] s = "ufi-himiapi" /\ f = "overview.SIGNAL" -> "overview"
      [] s = "ufi-himiapi" /\ f = "signalStrength" -> "status"
      [] s = "ufi-himiapi" /\ f \in {"productname", "ProductName"} -> "produce-info"
      [] OTHER -> f
Bodies == {"Modem3gpp", "Sim", "Signal", "Location", "net-mode-list", "goform",
           "sysinfo", "overview", "status", "produce-info"}

\* A field reached the record every metric is read from: a body that could be
\* read carried it.
HasRawField(s, p, f) ==
    /\ p[f] # "absent"
    /\ BodyOf(s, f) \in Bodies => p[BodyOf(s, f)] \in {"good", "nested"}

\* The payloads of a source: everything said, or as little as can be, and one
\* field otherwise.
Usual(s) == [f \in DOMAIN Wire(s) |-> "good"]
Bare(s) == [f \in DOMAIN Wire(s) |->
               IF "absent" \in Wire(s)[f] /\ f \notin Bodies THEN "absent" ELSE "good"]
Payloads(s) ==
    UNION {{[p EXCEPT ![f] = k] : p \in {Usual(s), Bare(s)}, k \in Wire(s)[f]} :
              f \in DOMAIN Wire(s)}

-----------------------------------------------------------------------------
(* Metrics: known, or unknown for a reason; always with the fields named.  *)

Known(from) == [is |-> "known", from |-> from]
Unknown(reason, from) == [is |-> reason, from |-> from]
Unsupported == Unknown("unsupported", {})
NotReported == Unknown("not-reported", {})

Metrics ==
    {"label", "displayName", "modemState", "registration", "accessTechnologies",
     "modeLabel", "operatorName", "operatorCode", "quality", "qualityRecent",
     "bars", "maxBars", "presence", "lockRequired", "kind", "esimStatus",
     "cellId", "tac"} \cup SignalMetrics

Missing(p, b) == IF p[b] = "absent" THEN "not-observed" ELSE "not-reported"

\* A string: present and empty is still no reading.
Named(s, p, f) ==
    IF HasRawField(s, p, f) /\ p[f] # "blank" THEN Known({f}) ELSE Unknown("not-reported", {f})

\* A code out of a vocabulary: what the decoder cannot place is malformed.
Decoded(s, p, f, missing) ==
    IF ~HasRawField(s, p, f) THEN Unknown(missing, {f})
    ELSE IF p[f] = "good" THEN Known({f}) ELSE Unknown("malformed", {f})

\* A mask of bits: 0 is the modem saying that it does not know.
Masked(s, p, f) ==
    IF ~HasRawField(s, p, f) \/ p[f] \in {"text", "zero"} THEN Unknown("not-reported", {f})
    ELSE IF p[f] = "good" THEN Known({f}) ELSE Unknown("malformed", {f})

\* The first technology to carry the measurement says it, newest first; a flat
\* spelling answers when none does.
Extended(s, p, m) ==
    LET carrying == SelectSeq(Ladder[m], LAMBDA f : HasRawField(s, p, f))
        rung == IF carrying # <<>> THEN carrying[1] ELSE FlatField[m]
    IN  IF ~HasRawField(s, p, rung) THEN Unknown(Missing(p, "Signal"), {rung})
        ELSE IF p[rung] = "good" THEN Known({rung}) ELSE Unknown("malformed", {rung})

\* Only an object path proves a SIM, and only the modem's own word its absence.
Presence(s, p) ==
    LET facts == {"SimPath", "SimSlots", "StateFailedReason"}
    IN  IF \E f \in facts : HasRawField(s, p, f) /\ p[f] = "good" THEN Known(facts)
        ELSE Unknown("not-reported", facts)

\* One string says both the cell and its tracking area ("zero": with no area).
Cell(s, p, m) ==
    LET f == "3gpp-lac-ci"
    IN  CASE ~HasRawField(s, p, f) -> Unknown(Missing(p, "Location"), {f})
          [] p[f] = "text" -> Unknown("malformed", {f})
          [] p[f] = "zero" /\ m = "tac" -> Unknown("not-reported", {f})
          [] OTHER -> Known({f})

NormalizeModemManager(s, p) ==
    [m \in Metrics |->
        CASE m \in {"label", "displayName"} ->
               LET from == NameFields \cup (IF m = "label" THEN {} ELSE {"EquipmentIdentifier"})
               IN  IF \E f \in NameFields : Named(s, p, f).is = "known"
                   THEN Known(from) ELSE Unknown("not-reported", from)
          [] m = "modemState" -> Decoded(s, p, "State", "not-reported")
          [] m = "registration" -> Decoded(s, p, "RegistrationState", "not-reported")
          [] m = "accessTechnologies" -> Masked(s, p, "AccessTechnologies")
          [] m = "modeLabel" -> Masked(s, p, "CurrentModes")
          [] m = "operatorName" -> Named(s, p, "OperatorName")
          [] m = "operatorCode" -> Named(s, p, "OperatorCode")
          [] m = "quality" ->
               IF HasRawField(s, p, "SignalQuality") /\ p["SignalQuality"] # "text"
               THEN Known({"SignalQuality"}) ELSE Unknown("not-reported", {"SignalQuality"})
          [] m = "qualityRecent" ->
               IF p["SignalQuality"] = "good"
               THEN Known({"SignalQuality"}) ELSE Unknown("not-reported", {"SignalQuality"})
          [] m \in {"bars", "maxBars"} -> Unsupported
          [] m \in SignalMetrics -> Extended(s, p, m)
          [] m = "presence" -> Presence(s, p)
          [] m = "lockRequired" -> Decoded(s, p, "UnlockRequired", "not-reported")
          [] m = "kind" -> Decoded(s, p, "SimType", Missing(p, "Sim"))
          [] m = "esimStatus" -> Decoded(s, p, "EsimStatus", Missing(p, "Sim"))
          [] OTHER -> Cell(s, p, m)]

-----------------------------------------------------------------------------
(* The routers' pages.                                                     *)

\* A number as the pages spell it.
Numeric(s, p, f) ==
    CASE ~HasRawField(s, p, f) \/ p[f] = "blank" -> Unknown("not-reported", {f})
      [] p[f] = "good" -> Known({f})
      [] OTHER -> Unknown("malformed", {f})

\* A detail the vendor states: neither blank nor one of its placeholders.
Stated(s, p, f) == HasRawField(s, p, f) /\ p[f] \notin {"blank", "dash"}

\* What every router has in common: no modem stack behind it, so nothing of
\* one to report, and a SIM code that nobody decodes.
RouterShared(m) ==
    IF m \in {"modemState", "registration", "accessTechnologies", "quality",
              "qualityRecent", "lockRequired", "kind", "esimStatus"}
    THEN Unsupported ELSE NotReported

HilinkModeLabel(s, p) ==
    LET f == "NetworkMode"
        why == CASE p["net-mode-list"] = "auth" -> "auth-expired"
                 [] p["net-mode-list"] = "refused" -> "refused"
                 [] p["net-mode-list"] = "blank" -> "unreachable"
                 [] p["net-mode-list"] = "text" -> "malformed"
                 [] OTHER -> "not-reported"
    IN  IF p["net-mode-list"] = "good" /\ HasRawField(s, p, f) /\ p[f] # "blank"
        THEN Known({f}) ELSE Unknown(why, {f})

NormalizeHilink(s, p) ==
    LET page(code, f) == IF p[code] = "auth" THEN Unknown("auth-expired", {f}) ELSE Numeric(s, p, f)
    IN  [m \in Metrics |->
            CASE m = "bars" -> page("status.code", "SignalIcon")
              [] m = "maxBars" -> page("status.code", "maxsignal")
              [] m = "dbm" -> page("signal.code", "rssi")
              [] m \in {"rsrp", "rsrq", "sinr"} -> page("signal.code", m)
              [] m = "snr" -> Unsupported
              [] m = "modeLabel" -> HilinkModeLabel(s, p)
              [] OTHER -> RouterShared(m)]

\* One value that is no string or number and the strict parser has no record
\* of the whole body, while the lenient one keeps every field of it.
NormalizeZte(s, p) ==
    LET record == p["goform"] = "good" /\ \A f \in DOMAIN p : p[f] # "nested"
        metric(f) == IF record THEN Numeric(s, p, f) ELSE Unknown("malformed", {f})
        detail(f) == record /\ Stated(s, p, f)
        says == {"network_provider_fullname", "network_provider", "provider"}
    IN  [m \in Metrics |->
            CASE m = "bars" -> metric("signalbar")
              [] m = "maxBars" -> IF metric("signalbar").is = "known" THEN Known({}) ELSE NotReported
              [] m = "dbm" -> metric("rssi")
              [] m = "rsrp" -> metric("lte_rsrp")
              [] m = "rsrq" -> metric("lte_rsrq")
              [] m = "snr" -> metric("lte_snr")
              [] m = "sinr" -> Unsupported
              [] m = "modeLabel" ->
                   IF detail("network_type") THEN Known({"network_type"})
                   ELSE Unknown(IF p["goform"] = "good" THEN "not-reported" ELSE "malformed",
                                {"network_type"})
              [] m = "operatorName" ->
                   IF \E f \in says : detail(f) THEN Known({"network_provider_fullname"}) ELSE NotReported
              [] m = "cellId" -> IF detail("cell_id") THEN Known({"cell_id"}) ELSE NotReported
              [] OTHER -> RouterShared(m)]

NormalizeUfi(s, p) ==
    LET parsed(f) == p[BodyOf(s, f)] = "good" /\ HasRawField(s, p, f)
        pages == {"sysinfo", "overview", "status"}
        levels == <<"sysinfo.SIGNAL", "overview.SIGNAL", "signalStrength">>
        carrying == SelectSeq(levels, parsed)
        products == SelectSeq(<<"productname", "ProductName">>,
                              LAMBDA f : parsed(f) /\ Stated(s, p, f))
    IN  [m \in Metrics |->
            CASE m \in {"label", "displayName"} ->
                   CASE products = <<>> -> NotReported
                     [] p[products[1]] = "text" -> Unknown("not-reported", {"productname"})
                     [] OTHER -> Known({"productname"})
              [] m \in {"bars", "maxBars", "rsrp", "rsrq", "snr", "sinr"} -> Unsupported
              [] m = "dbm" ->
                   CASE \A b \in pages : p[b] = "out" -> Unknown("auth-expired", Range(levels))
                     [] \A b \in pages : p[b] # "good" -> Unknown("malformed", Range(levels))
                     [] carrying = <<>> -> Unknown("not-reported", Range(levels))
                     [] OTHER -> [Numeric(s, p, carrying[1]) EXCEPT !.from = Range(levels)]
              [] m = "cellId" ->
                   IF parsed("cellid") /\ Stated(s, p, "cellid") THEN Known({"cellid"}) ELSE NotReported
              [] OTHER -> RouterShared(m)]

Normalize(s, p) ==
    CASE s = "modemmanager" -> NormalizeModemManager(s, p)
      [] s = "huawei-hilink" -> NormalizeHilink(s, p)
      [] s = "zte-goform" -> NormalizeZte(s, p)
      [] OTHER -> NormalizeUfi(s, p)

\* What a source may answer: the metrics, the fields retained, those of them a
\* metric claims, and the fields a note complains about.
AnswerOf(s, p) ==
    LET metrics == Normalize(s, p)
        raw == {f \in DOMAIN p \ Bodies : HasRawField(s, p, f)}
        claimed == UNION {metrics[m].from : m \in Metrics}
        malformed == UNION {metrics[m].from : m \in {n \in Metrics : metrics[n].is = "malformed"}}
    IN  [metrics |-> metrics,
         consumed |-> claimed \cap raw,
         unmapped |-> raw \ claimed,
         notes |-> IF s = "modemmanager" THEN malformed
                   ELSE {f \in {"status.code", "signal.code"} \cap raw : p[f] = "auth"}
                          \cup {b \in Bodies \cap DOMAIN p : p[b] \in {"text", "out"}}]

Sources == {"modemmanager", "huawei-hilink", "zte-goform", "ufi-himiapi"}
AnswersOf(s) == {AnswerOf(s, p) : p \in Payloads(s)}

\* All there is to answer, once and for all.
ModemManagerAnswers == AnswersOf("modemmanager")
HilinkAnswers == AnswersOf("huawei-hilink")
ZteAnswers == AnswersOf("zte-goform")
UfiAnswers == AnswersOf("ufi-himiapi")
RouterAnswers ==
    CASE source = "huawei-hilink" -> HilinkAnswers
      [] source = "zte-goform" -> ZteAnswers
      [] OTHER -> UfiAnswers

-----------------------------------------------------------------------------
(* Envelopes and how they age.                                             *)

\* Every provider stamps one epoch on all it ever reads.
SourceEpoch == 1

Envelope(freshness, value) ==
    [gen |-> device.gen, epoch |-> SourceEpoch, at |-> now, freshness |-> freshness, value |-> value]
FreshObservation(value) == Envelope([state |-> "fresh"], value)
UnavailableObservation(reason) ==
    Envelope([state |-> "unavailable", since |-> now, reason |-> reason], Nobody)

Valued(e) == e # Nobody /\ e.value # Nobody

\* A clock that went back makes nothing older.
Age(e) == IF now > e.at THEN now - e.at ELSE 0

StaleReason(e) ==
    CASE e.gen # device.gen \/ e.epoch # device.epoch -> "source-epoch-superseded"
      [] ~device.healthy -> "source-degraded"
      [] Age(e) > Ttl -> "ttl-expired"
      [] OTHER -> "none"

\* Mutated: an evaluation looks at every envelope anew.
EvaluateAnew(e) ==
    IF StaleReason(e) = "none" THEN e
    ELSE [e EXCEPT !.freshness = [state |-> "stale", reason |-> StaleReason(e), since |-> now]]
EvaluateFreshness(e) ==
    IF e.freshness.state # "fresh" \/ StaleReason(e) = "none" THEN e
    ELSE [e EXCEPT !.freshness =
             [state |-> "stale", reason |-> StaleReason(e),
              since |-> IF StaleReason(e) = "ttl-expired" THEN e.at + Ttl ELSE now]]

-----------------------------------------------------------------------------
(* The provider, the consumer and what changes around them.                *)

ObservationInit ==
    /\ source \in Sources
    /\ kept = Nobody /\ now = 0
    /\ device = [gen |-> 1, epoch |-> 1, healthy |-> TRUE]
    /\ bus = [up |-> TRUE, plugged |-> TRUE, begun |-> "no"]

\* ModemManager: the first read starts the backend, and what came of that is
\* what every later read finds.
ObserveModemManager ==
    /\ source = "modemmanager"
    /\ LET begun == IF bus.begun # "no" THEN bus.begun ELSE IF bus.up THEN "started" ELSE "failed"
       IN  /\ bus' = [bus EXCEPT !.begun = begun]
           /\ \/ /\ begun = "failed" \/ ~bus.up
                 /\ kept' = UnavailableObservation("provider-unavailable")
              \/ /\ begun = "started" /\ bus.up /\ ~bus.plugged
                 /\ kept' = UnavailableObservation("device-absent")
              \/ /\ begun = "started" /\ bus.up /\ bus.plugged
                 /\ \E a \in ModemManagerAnswers : kept' = FreshObservation(a)
    /\ UNCHANGED <<source, now, device>>

\* A router that answers; without a session or a page there is no observation
\* and the consumer keeps what it has.
ObserveRouter ==
    /\ source # "modemmanager"
    /\ \E a \in RouterAnswers : kept' = FreshObservation(a)
    /\ UNCHANGED <<source, now, device, bus>>

Evaluate ==
    /\ kept # Nobody
    /\ kept' = EvaluateFreshness(kept)
    /\ UNCHANGED <<source, now, device, bus>>

\* The clock moves, either way.
SetClock ==
    /\ now' \in 0..MaxNow \ {now}
    /\ UNCHANGED <<source, kept, device, bus>>

\* The device comes back as a new generation, its source as a new epoch, or
\* the source degrades and heals.
ChangeDevice ==
    /\ \/ device.gen = 1 /\ device' = [device EXCEPT !.gen = 2]
       \/ device.epoch = 1 /\ device' = [device EXCEPT !.epoch = 2]
       \/ device' = [device EXCEPT !.healthy = ~@]
    /\ UNCHANGED <<source, kept, now, bus>>

ChangeBus ==
    /\ source = "modemmanager"
    /\ \/ bus' = [bus EXCEPT !.up = ~@]
       \/ bus' = [bus EXCEPT !.plugged = ~@]
    /\ UNCHANGED <<source, kept, now, device>>

ObservationNext ==
    ObserveModemManager \/ ObserveRouter \/ Evaluate \/ SetClock \/ ChangeDevice \/ ChangeBus

ObservationSpec == ObservationInit /\ [][ObservationNext]_observationVars

-----------------------------------------------------------------------------
(* Properties.                                                             *)

\* Staleness keeps the value and tells its first cause: whatever happens to
\* clock, device and source, a stale envelope and an absent one stay as they
\* are until the source is read again, at a later reading's own time
\* (freshness.ts:5-13).
StaleTellsFirstCause ==
    [][kept # Nobody /\ kept.freshness.state # "fresh" /\ kept' # kept
         => kept'.freshness.state # "stale" /\ kept'.at = now /\ kept'.gen = device.gen]_observationVars

=============================================================================
