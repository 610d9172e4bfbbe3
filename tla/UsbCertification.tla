--------------------------- MODULE UsbCertification ---------------------------
(***************************************************************************)
(* From a USB device to a certified mode switch: enumeration and           *)
(* classification (control/src/backend/usb-enumerator.ts and               *)
(* device-classifier.ts), the capture of a switch as it happens            *)
(* (cli/src/certify/), the ingestion of the bundle into a catalog entry    *)
(* that a person reviews, and the catalog that the switch is allowed and   *)
(* proven by afterwards (control/src/usb-mode/).                           *)
(*                                                                         *)
(* An interface is its class triple, by the name of what it is ("zerocd"   *)
(* is mass storage with a mode-switch trigger), and its driver.  All       *)
(* devices here have one VID:PID, model and firmware.                      *)
(***************************************************************************)
EXTENDS Naturals, Sequences, FiniteSets

CONSTANTS
    Devices,      \* units of one SKU, each on a physical port of its own
    Composition,  \* for each mode the interfaces, each [kind, driver]
    NoBundle,
    MaxSwitches   \* bound: plugs, unplugs and mode switches

MmModes == {"qmi", "mbim", "ecm-ncm"}
CanonicalModes == MmModes \union {"rndis", "router-ethernet"}

VARIABLES
    usb,       \* [here, mode, bound] of each device: drivers bind one by one
    switches,
    capture,   \* the certify command: [at, device, from, to, ...]
    bundle,    \* the last bundle it wrote
    review,    \* the entry and the fixture proposed from it, if any
    catalog,   \* the permitted transitions: [from, to, expected, evidence]
    witnessed  \* history: <<f, g>>, a capture that is not synthetic began with its
               \* device really in mode f and ended with it really in mode g

usbVars == <<usb, switches, capture, bundle, review, catalog, witnessed>>

-----------------------------------------------------------------------------
(* What an enumeration of a device shows. *)

\* A driver that is not bound yet is absent from udev's database.
Faces(mode, bound) ==
    [n \in DOMAIN Composition[mode] |->
        IF n <= bound THEN Composition[mode][n]
        ELSE [Composition[mode][n] EXCEPT !.driver = "none"]]
Enumerated(d) == Faces(usb[d].mode, usb[d].bound)
Present == {d \in Devices : usb[d].here}

Some(faces, Test(_)) == \E n \in DOMAIN faces : Test(faces[n])

IsMbimControl(i) == i.kind = "mbim"
IsQmiControl(i) == i.kind = "vendor" /\ i.driver = "qmi_wwan"
IsAtControl(i) == i.kind = "acm" \/ (i.kind = "vendor" /\ i.driver = "option")
IsControl(i) == IsMbimControl(i) \/ IsQmiControl(i) \/ IsAtControl(i)
IsRndis(i) == i.kind = "rndis" \/ i.driver = "rndis_host"
IsEcmNcmData(i) == i.kind = "ecm" \/ i.driver = "cdc_ether"
IsTether(i) == IsRndis(i) \/ IsEcmNcmData(i)
IsMassStorage(i) == i.kind \in {"storage", "zerocd"} \/ i.driver = "usb-storage"
IsModeswitchCandidate(faces) == \E n \in DOMAIN faces : faces[n].kind = "zerocd"
IsVendorSpecific(i) == i.kind = "vendor"

\* Mutated: a tether is looked for first.
ClassifyTetherFirst(faces) ==
    CASE Some(faces, IsTether) -> "router-mode"
      [] ~Some(faces, IsTether) /\ Some(faces, IsControl) -> "mm-managed"
      [] OTHER -> "unmanaged"

\* A control port decides; a tether without one is a router; an installer
\* waits for its mode switch; nothing else is guessed.
ClassifyDevice(faces) ==
    CASE Some(faces, IsControl) -> "mm-managed"
      [] Some(faces, IsTether) /\ ~Some(faces, IsControl) -> "router-mode"
      [] Some(faces, IsMassStorage) /\ IsModeswitchCandidate(faces)
           /\ ~Some(faces, IsControl) /\ ~Some(faces, IsTether) -> "pending-modeswitch"
      [] OTHER -> "unmanaged"

DetectUsbMode(faces) ==
    CASE Some(faces, IsMbimControl) -> "mbim"
      [] ~Some(faces, IsMbimControl) /\ Some(faces, IsRndis) -> "rndis"
      [] ~Some(faces, IsMbimControl) /\ ~Some(faces, IsRndis) /\ Some(faces, IsEcmNcmData) ->
           IF Some(faces, LAMBDA i : IsAtControl(i) \/ IsVendorSpecific(i))
           THEN "ecm-ncm" ELSE "router-ethernet"
      [] ~Some(faces, IsMbimControl) /\ ~Some(faces, IsTether)
           /\ Some(faces, IsVendorSpecific) -> "qmi"
      [] OTHER -> "none"

\* The triples; the device class is 0 in every enumeration.
DescriptorsOf(faces) == {faces[n].kind : n \in DOMAIN faces}
DescriptorsMatch(faces, expected) == expected \subseteq DescriptorsOf(faces)

\* A mode is what a unit reads as once all its drivers are bound.
ASSUME CompositionAssumption ==
    /\ DOMAIN Composition \subseteq CanonicalModes
    /\ Composition \in [DOMAIN Composition -> Seq([kind : STRING, driver : STRING])]
    /\ \A m \in DOMAIN Composition : DetectUsbMode(Composition[m]) = m

FindTransition(from, to) == {t \in catalog : t.from = from /\ t.to = to}

-----------------------------------------------------------------------------
(* The devices. *)

Idle == [at |-> "idle"]

\* The shipped catalog, certified-catalog.json: nothing in it has evidence.
Shipped ==
    {[from |-> "qmi", to |-> "mbim", expected |-> {"mbim", "data"}, evidence |-> FALSE],
     [from |-> "mbim", to |-> "qmi", expected |-> {"vendor"}, evidence |-> FALSE],
     [from |-> "qmi", to |-> "ecm-ncm", expected |-> {"ecm", "vendor"}, evidence |-> FALSE],
     [from |-> "ecm-ncm", to |-> "qmi", expected |-> {"vendor"}, evidence |-> FALSE]}

UsbInit ==
    /\ usb \in [Devices -> {[here |-> TRUE, mode |-> m, bound |-> Len(Composition[m])] :
                              m \in DOMAIN Composition}]
    /\ switches = 0
    /\ capture = Idle /\ bundle = NoBundle
    /\ review = NoBundle
    \* A switch is captured only if the catalog permits it already: the first
    \* entry of a SKU is written by hand.
    /\ catalog \in {{}, Shipped}
    /\ witnessed = {}

Comes(d, mode) == usb' = [usb EXCEPT ![d] = [here |-> TRUE, mode |-> mode, bound |-> 0]]
Goes(d) == usb' = [usb EXCEPT ![d] = [@ EXCEPT !.here = FALSE, !.bound = 0]]
World == <<usb, switches>>
Papers == <<capture, bundle, review, catalog, witnessed>>

\* Somebody unplugs a device, or it comes back as it was.
Replug ==
    \E d \in Devices :
        /\ switches < MaxSwitches /\ switches' = switches + 1
        /\ IF usb[d].here THEN Goes(d) ELSE Comes(d, usb[d].mode)
        /\ UNCHANGED Papers

BindDriver ==
    \E d \in Present :
        /\ usb[d].bound < Len(Composition[usb[d].mode])
        /\ usb' = [usb EXCEPT ![d].bound = @ + 1]
        /\ UNCHANGED <<switches, Papers>>

-----------------------------------------------------------------------------
(* certify, with or without --transition. *)

\* The device of the slot and, for a transition, the entry that permits it.
MatchDevice ==
    \E d \in Present, to \in MmModes \union {"none"}, synthetic \in BOOLEAN :
        LET from == DetectUsbMode(Enumerated(d))
            base == [at |-> "matched", device |-> d, from |-> from, to |-> to,
                     synthetic |-> synthetic, after |-> {}, listed |-> {},
                     was |-> <<usb[d].mode, usb[d].mode>>]
        IN /\ capture = Idle
           /\ to # "none" => from \in MmModes /\ FindTransition(from, to) # {}
           /\ capture' = base
           /\ UNCHANGED <<World, bundle, review, catalog, witnessed>>

\* The text of usb-devices is of the devices that are there by then.
ParseUsbDevices == Present

CaptureBase ==
    /\ capture.at = "matched"
    /\ capture' = [capture EXCEPT !.at = "base", !.listed = ParseUsbDevices]
    /\ UNCHANGED <<World, bundle, review, catalog, witnessed>>

\* The AT command of the catalog.  The device drops and comes back composed
\* as it was told, or does not care.
SendCommand ==
    /\ capture.at = "base" /\ capture.to # "none"
    /\ usb[capture.device].here
    /\ \/ /\ switches < MaxSwitches /\ switches' = switches + 1
          /\ capture.to \in DOMAIN Composition
          /\ usb' = [usb EXCEPT ![capture.device] =
                        [here |-> FALSE, mode |-> capture.to, bound |-> 0]]
       \/ UNCHANGED World
    /\ \E at \in {"drop", "return"} : capture' = [capture EXCEPT !.at = at]
    /\ UNCHANGED <<bundle, review, catalog, witnessed>>

Enumerates == Comes(capture.device, usb[capture.device].mode) /\ UNCHANGED <<switches, Papers>>

ComesBack == capture.at \in {"drop", "return"} /\ ~usb[capture.device].here /\ Enumerates

\* The two polls, each until it sees what it waits for or times out.
SeesDrop ==
    /\ capture.at = "drop" /\ ~usb[capture.device].here
    /\ capture' = [capture EXCEPT !.at = "return"]
    /\ UNCHANGED <<World, bundle, review, catalog, witnessed>>

\* Mutated: whatever it comes back as.
ReturnedAtAll(d) == usb[d].here

Returned(d) == usb[d].here /\ DetectUsbMode(Enumerated(d)) = capture.to

SeesReturn ==
    /\ capture.at = "return" /\ Returned(capture.device)
    /\ capture' = [capture EXCEPT !.at = "returned",
                                  !.after = DescriptorsOf(Enumerated(capture.device)),
                                  !.was = <<@[1], usb[capture.device].mode>>]
    /\ UNCHANGED <<World, bundle, review, catalog, witnessed>>

TimesOut ==
    /\ capture.at \in {"drop", "return"}
    /\ capture' = Idle
    /\ UNCHANGED <<World, bundle, review, catalog, witnessed>>

WriteBundle ==
    /\ capture # Idle
    /\ capture.at = (IF capture.to = "none" THEN "base" ELSE "returned")
    /\ bundle' = [capture EXCEPT !.at = "written"]
    /\ witnessed' = IF capture.to = "none" \/ capture.synthetic THEN witnessed
                    ELSE witnessed \union {capture.was}
    /\ capture' = Idle /\ review' = NoBundle
    /\ UNCHANGED <<World, catalog>>

Certify ==
    MatchDevice \/ CaptureBase \/ SendCommand \/ ComesBack \/ SeesDrop \/ SeesReturn
      \/ TimesOut \/ WriteBundle

-----------------------------------------------------------------------------
(* Ingestion, review, and the switch itself. *)

Candidate(b, claim) ==
    [mode |-> claim,
     transitions |-> IF b.to = "none" THEN {}
                     ELSE {[from |-> b.from, to |-> b.to, expected |-> b.after,
                            evidence |-> TRUE]}]

\* The entry schema: modes of ModemManager only, and a change of mode.
SchemaAdmits(e) ==
    /\ e.transitions # {} => e.mode \in MmModes
    /\ \A t \in e.transitions : {t.from, t.to} \subseteq MmModes /\ t.from # t.to

\* The candidate entries: none of a bundle that is synthetic or contradicts
\* the mode its reviewer claims.
BuildEntry(b, claim) ==
    {e \in {Candidate(b, claim)} :
        ~b.synthetic /\ (b.to # "none" => b.from = claim) /\ SchemaAdmits(e)}

\* A fixture has the properties of the matched device and the descriptors of
\* the one device of the text with its VID:PID, whoever made the bundle.
SelectUniqueDevice(listed) == IF Cardinality(listed) = 1 THEN listed ELSE {}
BuildFixture(b) ==
    {[properties |-> b.device, descriptors |-> d] : d \in SelectUniqueDevice(b.listed)}

Ingest ==
    \E claim \in CanonicalModes :
        /\ bundle # NoBundle
        /\ review' = [entry |-> BuildEntry(bundle, claim), fixture |-> BuildFixture(bundle)]
        /\ UNCHANGED <<World, capture, bundle, catalog, witnessed>>

\* A person commits the entry that the review proposes, and the bundle is
\* done with.
Promote ==
    /\ review # NoBundle
    /\ \E e \in review.entry : catalog' = e.transitions
    /\ bundle' = NoBundle /\ review' = NoBundle
    /\ UNCHANGED <<World, capture, witnessed>>

UsbNext == Replug \/ BindDriver \/ Certify \/ Ingest \/ Promote

UsbSpec == UsbInit /\ [][UsbNext]_usbVars

-----------------------------------------------------------------------------
(* Whether an enumeration can tell a mode apart depends on the SKU: a       *)
(* composition known by a driver only reads as another until that driver    *)
(* is bound (ecm-ncm as qmi, until cdc_ether is).                           *)

ReadsAs(m, mode) ==
    \E bound \in 0..Len(Composition[m]) : DetectUsbMode(Faces(m, bound)) = mode
Unmistaken(mode) == \A m \in DOMAIN Composition : ReadsAs(m, mode) => m = mode
Steady(mode) == \A other \in CanonicalModes \union {"none"} :
                    ReadsAs(mode, other) => other = mode

Proves(d, t) ==
    /\ DetectUsbMode(Enumerated(d)) = t.to
    /\ DescriptorsMatch(Enumerated(d), t.expected)

(* A transition with evidence behind it was captured on a device that is    *)
(* real, which came back in the very mode the transition leads to, from the *)
(* one it starts from, as far as enumerations tell these modes apart.  The  *)
(* descriptors written down for it are then ones that every unit in that    *)
(* mode shows, so it proves the switch again: as soon as it is enumerated   *)
(* if the mode reads the same whatever driver is to bind, and with all of   *)
(* them bound in any case.  A mode that others are mistaken for gives no    *)
(* such proof (cli/src/certify/transition-evidence.ts:139-150).             *)
CertifiedIsProvable ==
    \A t \in catalog : t.evidence =>
        /\ \E w \in witnessed :
              /\ Unmistaken(t.from) => w[1] = t.from
              /\ Unmistaken(t.to) => w[2] = t.to
        /\ Unmistaken(t.to) =>
              \A d \in Present :
                 /\ usb[d].mode = t.to
                 /\ Steady(t.to) \/ usb[d].bound = Len(Composition[t.to])
                 => Proves(d, t)

(* As drivers bind, what is managed stays managed: only the verdict on a   *)
(* device without a control port may still change                          *)
(* (control/src/backend/device-classifier.ts, the honesty rule).           *)
ManagedStaysManaged ==
    [][\A d \in Present : (BindDriver /\ ClassifyDevice(Enumerated(d)) = "mm-managed")
          => ClassifyDevice(Enumerated(d))' = "mm-managed"]_usbVars
=============================================================================
