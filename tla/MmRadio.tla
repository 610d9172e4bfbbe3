------------------------------ MODULE MmRadio ------------------------------
(***************************************************************************)
(* The radio writes of the ModemManager provider: mode combinations, 5G    *)
(* postures, band locks and the runtime USB composition.  A write reads    *)
(* the modem, refuses what the modem does not offer, sends one call and    *)
(* asks the modem again, because an accepted call proves nothing.          *)
(*                                                                         *)
(* A mask of modes is the set of its bits' positions; the modem's own      *)
(* firmware, other clients of ModemManager and other writes of this        *)
(* package act between any two steps.                                      *)
(***************************************************************************)
EXTENDS Integers, Sequences, FiniteSets, TLC, Functions

CONSTANTS
    Writes,         \* calls of the provider's write operations
    Bits,           \* positions of the mode bits a modem may use; all are ANY
    Catalogs,       \* sets of [allowed, preferred] a modem may advertise
    BandValues,     \* MMModemBand values met
    BandSupports,   \* sets of them a modem may support
    BandAsks,       \* sets of band names a caller may ask for
    ProvenBands,    \* what a band catalog entry may prove; {} proves everything
    Uncertified,    \* no entry of the band catalog is about the modem
    Listings,       \* sequences of compositions a modem may enumerate
    Compositions    \* compositions a modem may be in

ASSUME RadioAssumption ==
    /\ {1, 2, 3, 4} \subseteq Bits /\ Bits \subseteq Nat
    /\ Catalogs \subseteq SUBSET [allowed : SUBSET Bits, preferred : SUBSET Bits]
    /\ {256} \subseteq BandValues /\ BandValues \subseteq Nat
    /\ BandSupports \subseteq SUBSET BandValues

VARIABLES
    rf,         \* the modem: what it says, offers and holds
    entry,      \* its entry in the band catalog: names proved, or Uncertified
    writes      \* per call: where it is, what was asked, the composition seen,
                \* what is sent and what was answered

radioVars == <<rf, entry, writes>>

-----------------------------------------------------------------------------
(* Modes: positions of bits and their names.                               *)

NamedBits == <<"cs", "2g", "3g", "4g", "5g">>
NrBit == 4
LteBit == 3
RatBits == 1..4

ModeName(b) ==
    IF b < Len(NamedBits) THEN NamedBits[b + 1] ELSE "mode-bit-" \o ToString(2 ^ b)
ModeNames(mask) == IF mask = Bits THEN {"any"} ELSE {ModeName(b) : b \in mask}

\* Mutated: a modem that states no preference is shown to prefer its best mode.
SelectionOfBest(pair) ==
    [allowed |-> ModeNames(pair.allowed),
     preferred |-> IF pair.preferred # {} \/ NrBit \notin pair.allowed
                   THEN ModeNames(pair.preferred) ELSE {"5g"}]

\* A selection is what an operator reads and asks for: the names allowed, and
\* the one preferred, {} for "none".  Several preferred bits make one joined
\* name, here a set of more than one.
SelectionOf(pair) ==
    [allowed |-> ModeNames(pair.allowed), preferred |-> ModeNames(pair.preferred)]

ModeBits(n) == IF n = "any" THEN Bits ELSE {b \in Bits : ModeName(b) = n}
Placeable(names) == \A n \in names : ModeBits(n) # {}

\* No mask of a name that cannot be placed; a joined preference is no name.
\* Mutated: what cannot be placed is left out of the mask.
EncodeModePlaceable(selection) ==
    [ok |-> TRUE,
     allowed |-> UNION {ModeBits(n) : n \in selection.allowed},
     preferred |-> IF Cardinality(selection.preferred) > 1 THEN {}
                   ELSE UNION {ModeBits(n) : n \in selection.preferred}]
EncodeModeSelection(selection) ==
    [ok |-> /\ Placeable(selection.allowed \cup selection.preferred)
            /\ Cardinality(selection.preferred) <= 1,
     allowed |-> UNION {ModeBits(n) : n \in selection.allowed},
     preferred |-> UNION {ModeBits(n) : n \in selection.preferred}]

MatchAdvertised(catalog, selection) == \E pair \in catalog : SelectionOf(pair) = selection

-----------------------------------------------------------------------------
(* The 5G postures, each a pair of an allowed set and a preferred mode.    *)

Postures == {"5g-only", "prefer-5g", "prefer-4g", "5g-off"}

\* The radio technologies of a catalog; none is an unread catalog as well.
Rats(catalog) == (UNION {pair.allowed : pair \in catalog}) \cap RatBits

FiveGEvidence(rats) ==
    IF rats = {} THEN "unknown" ELSE IF NrBit \in rats THEN "present" ELSE "absent"

OfferedPostures(rats) ==
    CASE FiveGEvidence(rats) # "present" -> {}
      [] rats = {NrBit} -> {"5g-only"}
      [] OTHER -> {p \in Postures : p = "prefer-4g" => LteBit \in rats}

Best(rats) == CHOOSE b \in rats : \A c \in rats : c <= b

PostureToRadio(p, rats) ==
    CASE p = "5g-only" -> [allowed |-> {NrBit}, preferred |-> {NrBit}]
      [] p = "prefer-5g" -> [allowed |-> rats, preferred |-> {NrBit}]
      [] p = "prefer-4g" -> [allowed |-> rats, preferred |-> {LteBit}]
      [] OTHER -> [allowed |-> rats \ {NrBit}, preferred |-> {Best(rats \ {NrBit})}]

\* "unnamed" for modes no posture describes, never the nearest one.
ReadPosture(pair) ==
    LET rats == pair.allowed \cap RatBits
    IN  IF rats = {} THEN "unnamed"
        ELSE IF NrBit \notin rats THEN "5g-off"
        ELSE IF rats = {NrBit} THEN "5g-only"
        ELSE IF pair.preferred = {NrBit} THEN "prefer-5g"
        ELSE IF pair.preferred = {LteBit} THEN "prefer-4g" ELSE "unnamed"

-----------------------------------------------------------------------------
(* Bands: values and names.                                                *)

AnyBand == 256
Irregular ==
    <<"egsm", "dcs", "pcs", "g850", "utran-1", "utran-3", "utran-4", "utran-6", "utran-5",
      "utran-8", "utran-9", "utran-2", "utran-7", "g450", "g480", "g750", "g380", "g410",
      "g710", "g810">>

BandName(v) ==
    CASE v = AnyBand -> "any"
      [] v = 0 -> "unknown"
      [] v \in 1..20 -> Irregular[v]
      [] v \in 31..101 -> "eutran-" \o ToString(v - 30)
      [] v \in 128..147 -> "cdma-bc" \o ToString(v - 128)
      [] v \in 301..561 -> "ngran-" \o ToString(v - 300)
      [] OTHER -> "band-" \o ToString(v)

\* Every name is of one bit, or of one band.
ASSUME NamesAssumption ==
    /\ \A a, b \in Bits : ModeName(a) = ModeName(b) => a = b
    /\ \A b \in Bits : ModeName(b) # "any"
    /\ \A u, v \in BandValues \cup {0} : BandName(u) = BandName(v) => u = v

\* A name the tables do not know is a number spelt out, or nothing.
BandValue(n) ==
    LET known == {v \in BandValues : BandName(v) = n}
    IN  IF known # {} THEN known ELSE {v \in BandValues : n = "band-" \o ToString(v)}

DecodeBandList(values) == {BandName(v) : v \in values} \ {"unknown"}

\* One name that cannot be placed and the whole request is refused.
EncodeBandList(names) ==
    [ok |-> \A n \in names : BandValue(n) # {}, values |-> UNION {BandValue(n) : n \in names}]

OfferableBands(supported) ==
    CASE entry = Uncertified -> {}
      [] entry = {} -> supported
      [] OTHER -> supported \cap entry

\* A lock is exactly what was asked for; it is released when nothing is locked.
BandReadbackMatches(names, supported, current) ==
    \/ names = current
    \/ names = {"any"} /\ current = supported

-----------------------------------------------------------------------------
(* The composition a modem enumerates at run time.                         *)

\* Nothing is offered unless the device lists each composition once and the
\* one it is in among them: that is the way back.
ReturnPathProven(listing, comp) ==
    /\ listing # <<>> /\ \A i, j \in DOMAIN listing : listing[i] = listing[j] => i = j
    /\ \E i \in DOMAIN listing : listing[i] = comp

OfferableCompositions(listing, comp) ==
    IF ReturnPathProven(listing, comp)
    THEN {listing[i] : i \in DOMAIN listing} \ {comp} ELSE {}

-----------------------------------------------------------------------------
(* What a write does after its reading of the modem.                       *)

NotOffered == [ok |-> FALSE]

\* What is sent for what was asked of a modem that reads as r, if anything is.
Target(kind, ask, r) ==
    CASE kind = "modes" ->
           LET encoded == EncodeModeSelection(ask)
           IN  [ok |-> /\ "CurrentModes" \in r.exports
                       /\ MatchAdvertised(r.catalog, ask)
                       /\ encoded.ok /\ encoded.allowed # {},
                value |-> [allowed |-> encoded.allowed, preferred |-> encoded.preferred]]
      [] kind = "radio" ->
           IF ask \in OfferedPostures(Rats(r.catalog))
           THEN [ok |-> "CurrentModes" \in r.exports,
                 value |-> PostureToRadio(ask, Rats(r.catalog))]
           ELSE NotOffered
      [] kind = "bands" ->
           LET encoded == EncodeBandList(ask)
           IN  [ok |-> /\ "SupportedBands" \in r.exports
                       /\ OfferableBands(DecodeBandList(r.support)) # {}
                       /\ ask # {} /\ encoded.ok,
                value |-> encoded.values]
      [] OTHER ->
           [ok |-> ask \in OfferableCompositions(r.listing, r.comp), value |-> ask]

\* Whether a modem that reads as rf confirms a write.  A posture is confirmed
\* by the consumer, out of the reading that the radio write answers with.
ReadbackMatches(kind, ask) ==
    CASE kind = "modes" -> "CurrentModes" \in rf.exports /\ SelectionOf(rf.modes) = ask
      [] kind = "radio" -> "CurrentModes" \in rf.exports /\ ReadPosture(rf.modes) = ask
      [] OTHER -> BandReadbackMatches(ask, DecodeBandList(rf.support), DecodeBandList(rf.bands))

Asks(kind) ==
    CASE kind = "modes" -> {SelectionOf(pair) : pair \in UNION Catalogs}
      [] kind = "radio" -> Postures
      [] kind = "bands" -> BandAsks
      [] OTHER -> Compositions
Kinds == {"modes", "radio", "bands", "composition"}

UnusedWrite == [stage |-> "idle", kind |-> "none", ask |-> {}, seen |-> 0, sent |-> {}, res |-> "none"]
Answered(w, res) == writes' = [writes EXCEPT ![w] = [UnusedWrite EXCEPT !.res = res]]

-----------------------------------------------------------------------------
(* Actions.                                                                *)

RadioInit ==
    /\ \E catalog \in Catalogs, support \in BandSupports, listing \in Listings, comp \in Compositions,
          exports \in SUBSET {"CurrentModes", "SupportedBands"} :
          \E modes \in catalog :
              rf = [exports |-> exports, catalog |-> catalog, modes |-> modes,
                    support |-> support, bands |-> support, listing |-> listing, comp |-> comp]
    /\ entry \in ProvenBands \cup {Uncertified}
    /\ writes = [w \in Writes |-> UnusedWrite]

\* The write reads the modem and is refused, or waits for the modem's actor.
StartWrite(w) ==
    /\ writes[w].stage = "idle"
    /\ \E kind \in Kinds : \E ask \in Asks(kind) :
          LET target == Target(kind, ask, rf)
          IN  IF target.ok
              THEN writes' = [writes EXCEPT ![w] =
                      [stage |-> "queued", kind |-> kind, ask |-> ask,
                       seen |-> IF kind = "composition" THEN rf.comp ELSE 0, sent |-> target.value, res |-> "none"]]
              ELSE Answered(w, "refused")
    /\ UNCHANGED <<rf, entry>>

\* The modem cannot be read, or the composition may not be provisioned now.
RefuseWrite(w) ==
    /\ writes[w].stage = "idle"
    /\ Answered(w, "refused")
    /\ UNCHANGED <<rf, entry>>

\* The actor sends one call at a time.
SendWrite(w) ==
    /\ writes[w].stage = "queued" /\ writes[w].kind # "composition"
    /\ \A v \in Writes : writes[v].stage # "calling"
    /\ writes' = [writes EXCEPT ![w].stage = "calling"]
    /\ UNCHANGED <<rf, entry>>

\* What a modem may make of a call: what was asked, something else it can do,
\* or nothing.
Taken(kind, value) ==
    CASE kind \in {"modes", "radio"} -> {[rf EXCEPT !.modes = pair] : pair \in {value} \cup rf.catalog}
      [] OTHER ->
           {[rf EXCEPT !.bands = b] :
               b \in {value, rf.support} \cup (IF AnyBand \in value THEN {} ELSE {{v} : v \in rf.support})}

\* The modem acts, or does not, and its answer comes back or is an error: a
\* refusal, a timeout, a lost connection.
AnswerWrite(w) ==
    /\ writes[w].stage = "calling"
    /\ rf' \in Taken(writes[w].kind, writes[w].sent) \cup {rf}
    /\ \/ writes' = [writes EXCEPT ![w].stage = "called"]
       \/ Answered(w, "refused")
    /\ UNCHANGED entry

\* The modem is asked again and its answer compared with the request.
ConcludeWrite(w) ==
    /\ writes[w].stage = "called"
    /\ \/ Answered(w, IF ReadbackMatches(writes[w].kind, writes[w].ask) THEN "applied" ELSE "mismatch")
       \/ Answered(w, "refused")
    /\ UNCHANGED <<rf, entry>>

\* A composition is switched by a whole transition, which reads the modem back
\* itself: one that succeeded is answered as applied without another reading,
\* one that failed may have left the modem in either composition.
SwitchComposition(w) ==
    /\ writes[w].stage = "queued" /\ writes[w].kind = "composition"
    /\ \/ rf' = [rf EXCEPT !.comp = writes[w].sent] /\ Answered(w, "applied")
       \/ rf' = rf /\ Answered(w, "refused")
       \/ rf' \in {rf, [rf EXCEPT !.comp = writes[w].sent]} /\ Answered(w, "failed")
    /\ UNCHANGED entry

\* Another client, the firmware or a probe of the modem changes what it holds.
ChangeRadio ==
    /\ \/ \E pair \in rf.catalog : rf' = [rf EXCEPT !.modes = pair]
       \/ \E b \in {{v} : v \in rf.support} \cup {rf.support, {AnyBand}} : rf' = [rf EXCEPT !.bands = b]
       \/ \E c \in Compositions : rf' = [rf EXCEPT !.comp = c]
    /\ UNCHANGED <<entry, writes>>

RadioNext ==
    \/ \E w \in Writes :
          StartWrite(w) \/ RefuseWrite(w) \/ SendWrite(w) \/ AnswerWrite(w) \/ ConcludeWrite(w)
            \/ SwitchComposition(w)
    \/ ChangeRadio

RadioSpec == RadioInit /\ [][RadioNext]_radioVars

-----------------------------------------------------------------------------
(* Properties.                                                             *)

\* What goes to the modem is never rounded: the pair sent is one the modem
\* advertised, to the bit, a lock is of the bands asked for, all of them and no
\* other, each by its name or by its number, and a composition is one that the modem enumerates together with the one it was
\* in when the write asked: there is a way back
\* (generic-operations.ts:195-200, band-names.ts:142-145).
NeverRounded ==
    \A w \in Writes :
        writes[w].stage # "idle" =>
            LET sent == writes[w].sent
            IN  CASE writes[w].kind = "modes" -> sent \in rf.catalog
                  [] writes[w].kind = "radio" -> sent.preferred \subseteq sent.allowed
                  [] writes[w].kind = "bands" ->
                       LET spelt(v) == {BandName(v), "band-" \o ToString(v)}
                       IN  /\ \A n \in writes[w].ask : \E v \in sent : n \in spelt(v)
                           /\ \A v \in sent : \E n \in writes[w].ask : n \in spelt(v)
                  [] OTHER -> {sent, writes[w].seen} \subseteq Range(rf.listing)

\* Whether the modem holds what a write sent it; 0 is a band it does not know.
Holds(w) ==
    LET sent == writes[w].sent
    IN  CASE writes[w].kind = "modes" -> rf.modes = sent
          [] writes[w].kind = "radio" ->
               /\ (NrBit \in rf.modes.allowed) = (NrBit \in sent.allowed)
               /\ writes[w].ask \in {"prefer-5g", "prefer-4g"} => rf.modes.preferred = sent.preferred
          [] OTHER -> \/ rf.bands \ {0} = sent
                      \/ sent = {AnyBand} /\ rf.bands \ {0} = rf.support \ {0}

\* What must not be called a mismatch: every bit is held, and a band was asked
\* for by the name it reads back as.
HoldsExactly(w) ==
    /\ Holds(w)
    /\ writes[w].kind = "radio" => rf.modes = writes[w].sent
    /\ writes[w].kind = "bands" => writes[w].ask = DecodeBandList(writes[w].sent)

\* Whatever the firmware made of the call and whoever wrote meanwhile, a write
\* is answered as applied only by a modem that holds what was sent, and as not
\* taken only by one that does not: names lose no bit on the way out and back
\* (generic-operations.ts:209-216, five-g-preference.ts:206-219).
ReadbackIsExact ==
    [][\A w \in Writes :
          writes[w].stage = "called" =>
              /\ writes'[w].res = "applied" => Holds(w)
              /\ writes'[w].res = "mismatch" => ~HoldsExactly(w)]_radioVars
=============================================================================
