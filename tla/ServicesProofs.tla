---------------------------- MODULE ServicesProofs ----------------------------
(***************************************************************************)
(* Theorems about the services of one modem: the SIM's attempts, the inbox,*)
(* and the usage of its slot, for any number of calls, messages and days.  *)
(***************************************************************************)
EXTENDS ModemServices, SmsInbox, UsagePolicy, NmBearer, FiniteSetTheorems, TLAPS

-----------------------------------------------------------------------------
(* The attempts of the SIM.                                                  *)

Most == [pin |-> MaxPins, puk |-> MaxPuks]
Wasted(k) == {c \in SimCalls : sent[c] = 1 /\ secret[c] = [kind |-> k, right |-> FALSE]}

\* A call that has not come to its submission has sent nothing, and every
\* attempt that is missing was spent by a call whose secret was wrong.
SimInv ==
    /\ secret \in [SimCalls -> [kind : Kinds, right : BOOLEAN]]
    /\ spc \in [SimCalls -> {"unused", "queued", "submitting", "classifying", "done"}]
    /\ sent \in [SimCalls -> {0, 1}]
    /\ left \in [Kinds -> Nat]
    /\ \A c \in SimCalls : spc[c] \in {"unused", "queued", "submitting"} => sent[c] = 0
    /\ \A k \in Kinds : IsFiniteSet(Wasted(k)) /\ Most[k] - left[k] <= Cardinality(Wasted(k))

\* The two steps that tell what an attempt cost: a right secret is not wasted
\* and costs nothing, a wrong one is wasted and costs one.
LEMMA RightSecretCostsNothing ==
    ASSUME SimInv, NEW c \in SimCalls, sent[c] = 0, secret[c].right, Tried(c),
           UNCHANGED secret
    PROVE  /\ left' \in [Kinds -> Nat]
           /\ \A k \in Kinds : /\ Wasted(k)' = Wasted(k)
                               /\ Most[k] - left'[k] <= Cardinality(Wasted(k))
<1>1. sent' = [sent EXCEPT ![c] = 1]
  BY DEF Tried, SimInv
<1>2. \A k \in Kinds : Wasted(k)' = Wasted(k)
  BY <1>1 DEF Wasted, SimInv
<1> DEFINE puks == IF secret[c].kind = "puk" THEN MaxPuks ELSE left.puk
<1>3. left' = [left EXCEPT !.pin = MaxPins, !.puk = puks]
  BY Zenon DEF Tried
<1>31. puks = MaxPuks \/ puks = left["puk"]
  OBVIOUS
<1> HIDE DEF puks
<1>4. left' \in [Kinds -> Nat]
  <2>1. left \in [{"pin", "puk"} -> Nat] /\ puks \in Nat
    BY <1>31, SimAssumption DEF SimInv, Kinds
  <2>2. [left EXCEPT !.pin = MaxPins] \in [{"pin", "puk"} -> Nat]
    BY <2>1, SimAssumption
  <2> QED BY <1>3, <2>1, <2>2 DEF Kinds
<1>5. \A k \in Kinds : Cardinality(Wasted(k)) \in Nat
  BY FS_CardinalityType DEF SimInv
<1>6. \A k \in Kinds : left'[k] = Most[k] \/ left'[k] = left[k]
  <2>1. left'["pin"] = MaxPins /\ left'["puk"] = puks
    BY <1>3 DEF SimInv, Kinds
  <2> QED BY <1>31, <2>1 DEF Kinds, Most
<1>7. \A k \in Kinds : Most[k] \in Nat
  BY SimAssumption DEF Most, Kinds
<1> QED BY <1>2, <1>4, <1>5, <1>6, <1>7 DEF SimInv

LEMMA WrongSecretCostsOne ==
    ASSUME SimInv, NEW c \in SimCalls, sent[c] = 0, ~secret[c].right,
           left[secret[c].kind] > 0, Tried(c), UNCHANGED secret
    PROVE  /\ left' \in [Kinds -> Nat]
           /\ \A k \in Kinds : /\ IsFiniteSet(Wasted(k)')
                               /\ Most[k] - left'[k] <= Cardinality(Wasted(k)')
<1> DEFINE kind == secret[c].kind
<1>1. kind \in Kinds /\ secret[c] = [kind |-> kind, right |-> FALSE]
  BY DEF SimInv
<1>2. sent' = [sent EXCEPT ![c] = 1]
  BY DEF Tried, SimInv
<1>3. left' = [left EXCEPT ![kind] = left[kind] - 1]
  BY DEF Tried
<1>4. left' \in [Kinds -> Nat]
  BY <1>1, <1>3 DEF SimInv
<1>5. Wasted(kind)' = Wasted(kind) \cup {c} /\ c \notin Wasted(kind)
  <2>1. sent'[c] = 1 /\ \A d \in SimCalls : d # c => sent'[d] = sent[d]
    BY <1>2 DEF SimInv
  <2>2. \A d \in SimCalls : d \in Wasted(kind)' <=> d \in Wasted(kind) \/ d = c
    BY <1>1, <2>1 DEF Wasted
  <2>3. c \notin Wasted(kind)
    BY DEF Wasted
  <2> QED BY <2>2, <2>3 DEF Wasted
<1>6. \A k \in Kinds \ {kind} : Wasted(k)' = Wasted(k)
  BY <1>1, <1>2 DEF Wasted, SimInv
<1>7. IsFiniteSet(Wasted(kind)')
      /\ Cardinality(Wasted(kind)') = Cardinality(Wasted(kind)) + 1
      /\ Cardinality(Wasted(kind)) \in Nat
  BY <1>1, <1>5, FS_AddElement, FS_CardinalityType DEF SimInv
<1>8. Most[kind] \in Nat /\ left[kind] \in Nat /\ left'[kind] = left[kind] - 1
  BY <1>1, <1>3, SimAssumption DEF Most, Kinds, SimInv
<1>9. Most[kind] - left'[kind] <= Cardinality(Wasted(kind)')
  BY <1>1, <1>7, <1>8 DEF SimInv
<1>10. \A k \in Kinds \ {kind} : left'[k] = left[k]
  BY <1>1, <1>3 DEF SimInv
<1> QED BY <1>4, <1>6, <1>7, <1>9, <1>10 DEF SimInv

\* A step that sends nothing and gives no secret to a call that was used.
LEMMA NothingSent ==
    ASSUME SimInv, UNCHANGED <<left, sent>>,
           secret' \in [SimCalls -> [kind : Kinds, right : BOOLEAN]],
           spc' \in [SimCalls -> {"unused", "queued", "submitting", "classifying", "done"}],
           \A c \in SimCalls : sent[c] = 0 \/ secret'[c] = secret[c],
           \A c \in SimCalls : spc'[c] \in {"unused", "queued", "submitting"} => sent[c] = 0
    PROVE  SimInv'
<1>1. \A k \in Kinds : Wasted(k)' = Wasted(k)
  BY DEF Wasted, SimInv
<1> QED BY <1>1 DEF SimInv

LEMMA SubmitKeepsSim ==
    ASSUME SimInv, NEW c \in SimCalls, Submit(c)
    PROVE  SimInv'
<1>1. sent[c] = 0 /\ UNCHANGED secret
  BY DEF Submit, SimInv
<1>2. /\ spc' \in [SimCalls -> {"unused", "queued", "submitting", "classifying", "done"}]
      /\ \A d \in SimCalls : d # c => spc'[d] = spc[d]
      /\ spc'[c] \in {"classifying", "done"}
  BY DEF Submit, Failed, Answer, SimInv
<1>3. CASE left[secret[c].kind] > 0 /\ Tried(c)
  <2>1. sent' = [sent EXCEPT ![c] = 1]
    BY <1>1, <1>3 DEF Tried, SimInv
  <2>2. /\ sent' \in [SimCalls -> {0, 1}]
        /\ \A d \in SimCalls : spc'[d] \in {"unused", "queued", "submitting"} => sent'[d] = 0
    BY <1>2, <2>1 DEF SimInv
  <2>3. /\ left' \in [Kinds -> Nat]
        /\ \A k \in Kinds : /\ IsFiniteSet(Wasted(k)')
                            /\ Most[k] - left'[k] <= Cardinality(Wasted(k)')
    <3>1. CASE secret[c].right
      <4>1. \A k \in Kinds : IsFiniteSet(Wasted(k))
        BY DEF SimInv
      <4>2. /\ left' \in [Kinds -> Nat]
            /\ \A k \in Kinds : /\ Wasted(k)' = Wasted(k)
                                /\ Most[k] - left'[k] <= Cardinality(Wasted(k))
        BY <1>1, <1>3, <3>1, RightSecretCostsNothing
      <4> QED BY <4>1, <4>2
    <3>2. CASE ~secret[c].right
      BY <1>1, <1>3, <3>2, WrongSecretCostsOne
    <3> QED BY <3>1, <3>2
  <2>4. Most' = Most
    BY DEF Most
  <2> QED BY <1>1, <1>2, <2>2, <2>3, <2>4 DEF SimInv
<1>4. CASE UNCHANGED <<lock, left, sent>>
  BY <1>1, <1>2, <1>4, NothingSent DEF SimInv
<1> QED BY <1>3, <1>4 DEF Submit

LEMMA SimKept ==
    ASSUME SimInv, [Next]_vars
    PROVE  SimInv'
<1>1. CASE UNCHANGED simVars
  BY <1>1, NothingSent DEF simVars, SimInv
<1>2. ASSUME NEW c \in SimCalls, NEW kind \in Kinds, NEW right \in BOOLEAN,
             Unlock(c, kind, right)
      PROVE  SimInv'
  <2>1. sent[c] = 0
    BY <1>2 DEF Unlock, SimInv
  <2>2. /\ secret' = [secret EXCEPT ![c] = [kind |-> kind, right |-> right]]
        /\ spc' = [spc EXCEPT ![c] = "queued"]
        /\ UNCHANGED <<left, sent>>
    BY <1>2 DEF Unlock
  <2> QED BY <2>1, <2>2, NothingSent DEF SimInv
<1>3. ASSUME NEW c \in SimCalls, ReadLock(c) \/ Classify(c)
      PROVE  SimInv'
  <2>1. /\ spc' \in [SimCalls -> {"unused", "queued", "submitting", "classifying", "done"}]
        /\ \A d \in SimCalls : d # c => spc'[d] = spc[d]
        /\ spc'[c] = "done" \/ (spc[c] = "queued" /\ spc'[c] = "submitting")
        /\ UNCHANGED <<secret, left, sent>>
    BY <1>3 DEF ReadLock, Classify, Answer, SimInv
  <2> QED BY <2>1, NothingSent DEF SimInv
<1>4. CASE Event
  BY <1>1, <1>2, <1>4 DEF Event, Kinds
<1>5. ASSUME NEW t, TaskStep(t)
      PROVE  SimInv'
  BY <1>1, <1>3, <1>5, SubmitKeepsSim DEF TaskStep, SimStep
<1>6. CASE TimerStep \/ DisplayStep \/ UNCHANGED vars
  BY <1>1, <1>6 DEF TimerStep, DisplayStep, vars, simVars
<1> QED BY <1>4, <1>5, <1>6 DEF Next

\* A secret is submitted at most once by each call, and every attempt of the
\* SIM that is gone was spent by a call with a wrong secret, for any number of
\* unlocks among the other tasks of the modem (sim-unlock.ts).
THEOREM AttemptsAreSpentHolds == Spec => []AttemptsAreSpent
<1>1. Init => SimInv
  <2> SUFFICES ASSUME Init PROVE SimInv
    OBVIOUS
  <2>1. /\ left = Most /\ left \in [Kinds -> Nat]
        /\ secret \in [SimCalls -> [kind : Kinds, right : BOOLEAN]]
        /\ spc = [c \in SimCalls |-> "unused"]
        /\ sent = [c \in SimCalls |-> 0]
    BY SimAssumption DEF Init, SimInit, Most, Kinds
  <2>2. \A k \in Kinds : Wasted(k) = {}
    BY <2>1 DEF Wasted
  <2>3. \A k \in Kinds : IsFiniteSet(Wasted(k)) /\ Cardinality(Wasted(k)) = 0
    BY <2>2, FS_EmptySet
  <2>4. \A k \in Kinds : Most[k] - left[k] <= 0
    BY <2>1, SimAssumption DEF Most, Kinds
  <2> QED BY <2>1, <2>3, <2>4 DEF SimInv
<1>2. SimInv /\ [Next]_vars => SimInv'
  BY SimKept
<1>3. SimInv => AttemptsAreSpent
  <2> SUFFICES ASSUME SimInv PROVE AttemptsAreSpent
    OBVIOUS
  <2>1. \A k \in Kinds : Most[k] - left[k]
          <= Cardinality({c \in SimCalls : sent[c] = 1 /\ secret[c] = [kind |-> k, right |-> FALSE]})
    BY DEF SimInv, Wasted
  <2>2. \A c \in SimCalls : sent[c] <= 1
    BY DEF SimInv
  <2> QED BY <2>1, <2>2 DEF AttemptsAreSpent, Most
<1> QED BY <1>1, <1>2, <1>3, PTL DEF Spec

-----------------------------------------------------------------------------
(* The inbox.                                                                *)

PassType == [at : {"none", "asked", "reading"}, todo : SUBSET Messages,
             got : SUBSET Messages, missed : SUBSET Messages]

InboxTypes ==
    /\ stored \subseteq arrived /\ arrived \subseteq Messages
    /\ opening \subseteq Messages /\ unheard \subseteq Messages
    /\ up \in BOOLEAN
    /\ wiring \in {"off", "added", "wired", "dead"}
    /\ pass \in PassType
    /\ wiring # "wired" => pass.at = "none"
    /\ wiring = "wired" => hears = {"Added", "Deleted"}
    /\ pass.at # "reading" => pass.todo = {} /\ pass.got = {} /\ pass.missed = {}

\* But for what is in doubt or was not heard of, the rows have nothing that is
\* not stored, and lack only what is being opened; and so will they when the
\* pass that is reading has ended.
InboxInv ==
    /\ InboxTypes
    /\ up /\ wiring = "wired" /\ pass.at # "asked" => unheard = {}
    /\ pass.at # "reading" =>
          /\ rows \subseteq stored \union doubt \union unheard
          /\ stored \subseteq rows \union opening \union doubt \union unheard
    /\ pass.at = "reading" =>
          /\ pass.got \subseteq stored \union pass.missed
          /\ stored \subseteq pass.got \union pass.todo \union opening
                              \union pass.missed \union unheard

LEMMA InboxKept ==
    ASSUME InboxInv, [SmsNext]_smsVars
    PROVE  InboxInv'
<1>0. /\ NoPass \in PassType /\ Asked \in PassType
      /\ NoPass.at = "none" /\ Asked.at = "asked"
      /\ \A p \in {NoPass, Asked} : p.todo = {} /\ p.got = {} /\ p.missed = {}
  BY DEF NoPass, Asked, PassType
<1> USE DEF InboxTypes
<1>1. CASE Wire
  <2>1. CASE wiring = "off"
    BY <1>1, <2>1 DEF Wire, InboxInv
  <2>2. CASE wiring = "added"
    <3>1. /\ UNCHANGED <<stored, rows, up, opening, arrived, unheard, doubt>>
          /\ wiring' = "wired" /\ hears' = {"Added", "Deleted"}
          /\ pass' = IF up THEN Asked ELSE pass
      BY <1>1, <2>2 DEF Wire
    <3> QED BY <1>0, <2>2, <3>1 DEF InboxInv
  <2> QED BY <1>1, <2>1, <2>2 DEF Wire
<1>2. ASSUME NEW m \in Messages, Arrives(m)
      PROVE  InboxInv'
  BY <1>2 DEF Arrives, Hears, InboxInv
<1>3. ASSUME NEW m \in Messages, Leaves(m)
      PROVE  InboxInv'
  <2>1. /\ stored' = stored \ {m}
        /\ pass' = [pass EXCEPT !.missed = pass.missed \union (pass.got \intersect {m})]
        /\ UNCHANGED <<up, wiring, hears, arrived>>
    BY <1>3 DEF Leaves
  <2>2. /\ pass' \in PassType /\ pass'.at = pass.at /\ pass'.todo = pass.todo
        /\ pass'.got = pass.got
        /\ pass'.missed = pass.missed \union (pass.got \intersect {m})
    BY <2>1 DEF InboxInv, PassType
  <2>3. pass.at # "reading" => pass'.missed = {}
    BY <2>1 DEF InboxInv, PassType
  <2>4. CASE /\ Hears("Deleted")
             /\ rows' = rows \ {m} /\ doubt' = doubt \ {m}
             /\ UNCHANGED <<opening, unheard>>
    BY <2>1, <2>2, <2>3, <2>4 DEF InboxInv
  <2>5. CASE /\ Hears("Deleted") /\ m \in opening
             /\ opening' = opening \ {m}
             /\ rows' = rows \union {m} /\ doubt' = doubt \union {m}
             /\ UNCHANGED unheard
    BY <2>1, <2>2, <2>3, <2>5 DEF InboxInv
  <2>6. CASE /\ ~Hears("Deleted")
             /\ unheard' = unheard \union {m}
             /\ UNCHANGED <<rows, opening, doubt>>
    BY <2>1, <2>2, <2>3, <2>6 DEF InboxInv, Hears
  <2> QED BY <1>3, <2>4, <2>5, <2>6 DEF Leaves
<1>4. ASSUME NEW m \in Messages, Open(m)
      PROVE  InboxInv'
  <2> DEFINE held == stored \intersect {m}
             kept == pass.missed \union (held \ (pass.todo \union pass.got))
  <2>1. /\ opening' = opening \ {m}
        /\ \/ rows' = rows \union held /\ doubt' = doubt
           \/ doubt' = doubt \union held /\ rows' = rows
        /\ pass' = IF pass.at = "reading" THEN [pass EXCEPT !.missed = kept] ELSE pass
        /\ UNCHANGED <<stored, up, wiring, hears, arrived, unheard>>
    BY <1>4 DEF Open
  <2>2. kept \subseteq Messages
    BY DEF InboxInv, PassType
  <2>3. /\ pass' \in PassType /\ pass'.at = pass.at /\ pass'.todo = pass.todo
        /\ pass'.got = pass.got
        /\ pass.at = "reading" => pass'.missed = kept
        /\ pass.at # "reading" => pass' = pass
    BY <2>1, <2>2 DEF InboxInv, PassType
  <2> QED BY <2>1, <2>3 DEF InboxInv
<1>5. CASE ListAnswers
  <2>1. /\ pass' = [at |-> "reading", todo |-> Newest(stored), got |-> {},
                    missed |-> stored \ Newest(stored)]
        /\ unheard' = {} /\ pass.at = "asked"
        /\ UNCHANGED <<stored, rows, up, wiring, hears, opening, arrived, doubt>>
    BY <1>5 DEF ListAnswers
  <2>2. Newest(stored) \subseteq stored
    BY DEF Newest
  <2>3. /\ pass' \in PassType /\ pass'.at = "reading" /\ pass'.todo = Newest(stored)
        /\ pass'.got = {} /\ pass'.missed = stored \ Newest(stored)
    BY <2>1, <2>2 DEF InboxInv, PassType
  <2> QED BY <2>1, <2>2, <2>3 DEF InboxInv
<1>6. CASE ListFails
  BY <1>0, <1>6 DEF ListFails, InboxInv
<1>7. CASE ReadOne
  <2> DEFINE m == Max(pass.todo)
  <2>1. /\ UNCHANGED <<stored, rows, up, wiring, hears, opening, arrived, unheard, doubt>>
        /\ pass.todo # {}
        /\ \/ pass' = [pass EXCEPT !.todo = pass.todo \ {m},
                                   !.got = pass.got \union (stored \intersect {m})]
           \/ pass' = [pass EXCEPT !.todo = pass.todo \ {m},
                                   !.missed = pass.missed \union (stored \intersect {m})]
    BY <1>7 DEF ReadOne
  <2>2. pass.at = "reading"
    BY <2>1 DEF InboxInv
  <2> HIDE DEF m
  <2>3. stored \intersect {m} \subseteq Messages
    BY DEF InboxInv
  <2>4. CASE pass' = [pass EXCEPT !.todo = pass.todo \ {m},
                                  !.got = pass.got \union (stored \intersect {m})]
    <3>1. /\ pass' \in PassType /\ pass'.at = pass.at /\ pass'.todo = pass.todo \ {m}
          /\ pass'.got = pass.got \union (stored \intersect {m})
          /\ pass'.missed = pass.missed
      BY <2>3, <2>4 DEF InboxInv, PassType
    <3> QED BY <2>1, <2>2, <3>1 DEF InboxInv
  <2>5. CASE pass' = [pass EXCEPT !.todo = pass.todo \ {m},
                                  !.missed = pass.missed \union (stored \intersect {m})]
    <3>1. /\ pass' \in PassType /\ pass'.at = pass.at /\ pass'.todo = pass.todo \ {m}
          /\ pass'.got = pass.got
          /\ pass'.missed = pass.missed \union (stored \intersect {m})
      BY <2>3, <2>5 DEF InboxInv, PassType
    <3> QED BY <2>1, <2>2, <3>1 DEF InboxInv
  <2> QED BY <2>1, <2>4, <2>5
<1>8. CASE EndPass
  <2>1. /\ rows' = pass.got /\ doubt' = pass.missed /\ pass' = NoPass
        /\ pass.at = "reading" /\ pass.todo = {}
        /\ UNCHANGED <<stored, up, wiring, hears, opening, arrived, unheard>>
    BY <1>8 DEF EndPass, Resynced
  <2> QED BY <1>0, <2>1 DEF InboxInv
<1>9. CASE BusDrops
  <2>1. /\ up' = FALSE /\ opening' = {} /\ unheard' = unheard \union opening
        /\ wiring' \in {wiring, "dead"} /\ (wiring' # wiring => wiring = "added")
        /\ UNCHANGED <<stored, rows, hears, arrived, doubt>>
    BY <1>9 DEF BusDrops
  <2>2. CASE pass.at = "reading"
    <3>1. pass' = [pass EXCEPT !.todo = {}, !.missed = pass.missed \union pass.todo]
      BY <1>9, <2>2 DEF BusDrops
    <3>2. /\ pass' \in PassType /\ pass'.at = "reading" /\ pass'.todo = {}
          /\ pass'.got = pass.got /\ pass'.missed = pass.missed \union pass.todo
      BY <2>2, <3>1 DEF InboxInv, PassType
    <3> QED BY <2>1, <2>2, <3>2 DEF InboxInv
  <2>3. CASE pass.at # "reading"
    <3>1. pass' = NoPass
      BY <1>9, <2>3 DEF BusDrops
    <3> QED BY <1>0, <2>1, <2>3, <3>1 DEF InboxInv
  <2> QED BY <2>2, <2>3
<1>10. CASE BusReturns
  <2>1. /\ up' = TRUE /\ pass = NoPass /\ pass' = IF wiring = "wired" THEN Asked ELSE pass
        /\ UNCHANGED <<stored, rows, wiring, hears, opening, arrived, unheard, doubt>>
    BY <1>10 DEF BusReturns
  <2> QED BY <1>0, <2>1 DEF InboxInv
<1>11. CASE UNCHANGED smsVars
  BY <1>11 DEF smsVars, InboxInv
<1> QED BY <1>1, <1>2, <1>3, <1>4, <1>5, <1>6, <1>7, <1>8, <1>9, <1>10, <1>11 DEF SmsNext

\* At rest, the inbox shows what the modem holds but for the messages that are
\* named as in doubt, for any messages and any cap, whatever happened to the
\* storage, the signals, the reads and the bus (dbus-messaging.ts,
\* inbox-store.ts).
THEOREM InboxConvergesHolds == SmsSpec => []InboxConverges
<1>1. SmsInit => InboxInv
  BY DEF SmsInit, InboxInv, InboxTypes, NoPass, PassType
<1>2. InboxInv /\ [SmsNext]_smsVars => InboxInv'
  BY InboxKept
<1>3. InboxInv => InboxConverges
  <2> SUFFICES ASSUME InboxInv, up, wiring = "wired", opening = {}, pass = NoPass,
                      NEW m \in Messages \ doubt
               PROVE  m \in rows <=> m \in stored
    BY DEF InboxConverges
  <2>1. pass.at = "none"
    BY DEF NoPass
  <2> QED BY <2>1 DEF InboxInv
<1> QED BY <1>1, <1>2, <1>3, PTL DEF SmsSpec

-----------------------------------------------------------------------------
(* The usage of the slot.                                                    *)

AccountFields == {"bytes", "start", "paused", "base"}
LedgerFields == {"bytes", "again", "key", "at", "since", "most", "on"}
KernelType == [boot : Nat, counter : Nat, generation : Nat, since : Nat]
RoundKey(key, boot) == key = [generation |-> key.generation, boot |-> boot]

\* What an account and its ledger say under a boot: every byte has a witness, or
\* is one that may be counted again, and the baseline is what the counter was
\* when it was last folded in.
Grounded(base, led, boot) ==
    /\ DOMAIN base = {"key", "last"}
    /\ RoundKey(base.key, boot)
    /\ base.key = led.key /\ base.last = led.at - led.since

Sound(acc, led, boot) ==
    /\ DOMAIN led = LedgerFields
    /\ led.bytes \in Nat /\ led.again \in Nat
    /\ led.since \in Nat /\ led.at \in Nat /\ led.most \in Nat
    /\ led.since <= led.at /\ led.at <= led.most
    /\ acc # None =>
         /\ DOMAIN acc = AccountFields
         /\ acc.bytes \in Int /\ acc.bytes <= led.bytes + led.again
         /\ acc.base # None => Grounded(acc.base, led, boot)

SoundDocument(doc) == Sound(doc.account, doc.ledger, doc.boot)

\* A pass was given a key of this boot, and what it has counted is what moved
\* since its interface was created.
RoundInv(r, boot) ==
    /\ r.at \in {"reading", "counted"} =>
          r.sure \in BOOLEAN /\ RoundKey(r.key, boot)
    /\ r.at = "counted" =>
          /\ r.present \in BOOLEAN
          /\ r.place \in Nat /\ r.since \in Nat /\ r.since <= r.place
          /\ r.current = r.place - r.since
    /\ r.at \in {"writing", "renaming"} =>
          DOMAIN r = {"at", "document", "on"} /\ SoundDocument(r.document)

\* And so are whatever is being saved, and was.
UsageInv ==
    /\ kernel \in KernelType /\ moved \in Nat
    /\ kernel.since <= moved /\ kernel.counter = moved - kernel.since
    /\ Sound(account, ledger, kernel.boot)
    /\ draft # None => SoundDocument(draft)
    /\ SoundDocument(disk)
    /\ DOMAIN round = Rounds
    /\ \A s \in Rounds : RoundInv(round[s], kernel.boot)
    /\ account # None /\ rate # None /\ account.base # None => rate = ledger.on

LEMMA RoundSteps ==
    ASSUME UsageInv, NEW s \in Rounds, NEW step, Becomes(s, step),
           RoundInv(step, kernel.boot)
    PROVE  DOMAIN round' = Rounds /\ \A r \in Rounds : RoundInv(round'[r], kernel.boot)
<1>1. DOMAIN round = Rounds /\ \A r \in Rounds : RoundInv(round[r], kernel.boot)
  BY DEF UsageInv
<1>2. round' = [round EXCEPT ![s] = step]
  BY DEF Becomes
<1>3. \A r \in Rounds : round'[r] = step \/ round'[r] = round[r]
  BY <1>1, <1>2
<1> QED BY <1>1, <1>2, <1>3

\* A cycle begins: whatever the account had, the ledger gives up as well.
LEMMA RolledAccount ==
    ASSUME NEW acc, DOMAIN acc = AccountFields, acc.bytes \in Int, NEW start
    PROVE  /\ DOMAIN RollCycle(acc, start) = AccountFields
           /\ RollCycle(acc, start).base = acc.base
           /\ RollCycle(acc, start).paused = acc.paused
           /\ RollCycle(acc, start).bytes = (IF start > acc.start THEN 0 ELSE acc.bytes)
BY DEF RollCycle, AccountFields

\* What the reducer makes of an account at rest, at rest or not.
LEMMA ReducedAccount ==
    ASSUME NEW acc, DOMAIN acc = AccountFields, acc.bytes \in Int, NEW input,
           acc.base # None => acc.base.last \in Nat,
           input.sure \in BOOLEAN, input.current \in Nat
    PROVE  LET base == RollCycle(acc, input.start)
               after == ApplySample(acc, input)
           IN  /\ DOMAIN after = AccountFields
               /\ ~input.sure => after.base = None /\ after.bytes = base.bytes
               /\ input.sure => after.base = [key |-> input.key, last |-> input.current]
               /\ \/ after.bytes = base.bytes
                  \/ /\ input.sure /\ acc.base # None /\ acc.base.key = input.key
                     /\ after.bytes = base.bytes + input.current - acc.base.last
<1> DEFINE base == RollCycle(acc, input.start)
<1>1. /\ DOMAIN base = AccountFields /\ base.base = acc.base /\ base.bytes \in Int
  BY RolledAccount
<1> HIDE DEF base
<1>2. CASE ~input.sure
  <2>1. ApplySample(acc, input) = [base EXCEPT !.paused = TRUE, !.base = None]
    BY <1>2 DEF ApplySample, base
  <2> QED BY <1>1, <1>2, <2>1 DEF AccountFields, base
<1>3. CASE input.sure
  <2> DEFINE fresh == base.paused \/ base.base = None
                        \/ base.base.key # input.key \/ input.current < base.base.last
             next == [base EXCEPT !.paused = FALSE,
                                  !.base = [key |-> input.key, last |-> input.current]]
             sum == next.bytes + input.current - base.base.last
  <2>1. ApplySample(acc, input) = IF fresh THEN next ELSE [next EXCEPT !.bytes = sum]
    BY <1>3 DEF ApplySample, base
  <2>2. /\ DOMAIN next = AccountFields /\ next.bytes = base.bytes
        /\ next.base = [key |-> input.key, last |-> input.current]
    BY <1>1 DEF AccountFields
  <2>3. ~fresh => acc.base # None /\ acc.base.key = input.key
    BY <1>1
  <2>4. sum = base.bytes + input.current - acc.base.last
    BY <1>1, <2>2
  <2> HIDE DEF fresh, next, sum
  <2>5. CASE fresh
    BY <1>3, <2>1, <2>2, <2>5 DEF base
  <2>6. CASE ~fresh
    BY <1>3, <2>1, <2>2, <2>3, <2>4, <2>6 DEF base, AccountFields
  <2> QED BY <2>5, <2>6
<1> QED BY <1>2, <1>3

\* What the reducer adds for a pass that finds the interface, the ledger has: the
\* bytes between the two readings, those that an overtaken pass sees again, or
\* the whole counter of an interface that is gone.
LEMMA SampledIsWitnessed ==
    ASSUME UsageInv, NEW input, input.sure \in BOOLEAN, RoundKey(input.key, kernel.boot),
           input.place \in Nat, input.since \in Nat, input.since <= input.place,
           input.current = input.place - input.since
    PROVE  /\ Sound(ApplySample(Prior(input.start), input), Witnessed(input), kernel.boot)
           /\ Witnessed(input).on = now
<1> DEFINE prior == Prior(input.start)
           rolled == account # None /\ input.start > account.start
           bytes == IF rolled THEN 0 ELSE ledger.bytes
           again == IF rolled THEN 0 ELSE ledger.again
           joined == input.sure /\ ledger.key = input.key
           gone == input.since < ledger.since
           new == IF joined /\ ~gone /\ input.place > ledger.most
                  THEN input.place - ledger.most ELSE 0
           met == IF joined /\ ~gone /\ input.place > ledger.at
                  THEN input.place - ledger.at ELSE 0
           whole == IF joined /\ gone THEN input.current ELSE 0
           base == RollCycle(prior, input.start)
           after == ApplySample(prior, input)
           led == Witnessed(input)
<1>1. /\ ledger.bytes \in Nat /\ ledger.again \in Nat /\ ledger.at \in Nat
      /\ ledger.since \in Nat /\ ledger.most \in Nat
      /\ ledger.since <= ledger.at /\ ledger.at <= ledger.most
  BY DEF UsageInv, Sound
<1>2. /\ DOMAIN prior = AccountFields /\ prior.bytes \in Int
      /\ prior.base # None =>
           /\ prior.base.last = ledger.at - ledger.since /\ prior.base.key = ledger.key
  <2>1. CASE account = None
    BY <2>1 DEF Prior, InitialAccount, AccountFields
  <2>2. CASE account # None
    BY <2>2 DEF Prior, UsageInv, Sound, Grounded
  <2> QED BY <2>1, <2>2
<1>3. /\ bytes \in Nat /\ again \in Nat
      /\ base.bytes \in Int /\ base.bytes <= bytes + again
  <2>1. CASE account = None
    <3>1. prior.bytes = 0
      BY <2>1 DEF Prior, InitialAccount
    <3>2. base.bytes = 0
      BY <1>2, <3>1, RolledAccount
    <3> QED BY <1>1, <2>1, <3>2
  <2>2. CASE account # None
    <3>1. prior = account /\ account.bytes <= ledger.bytes + ledger.again
      BY <2>2 DEF Prior, UsageInv, Sound
    <3>2. base.bytes = IF input.start > account.start THEN 0 ELSE account.bytes
      BY <1>2, <3>1, RolledAccount
    <3> QED BY <1>1, <1>2, <2>2, <3>1, <3>2
  <2> QED BY <2>1, <2>2
<1>4. led = [bytes |-> bytes + new, again |-> again + (met - new) + whole,
             key |-> IF input.sure THEN input.key ELSE None,
             at |-> input.place, since |-> input.since,
             most |-> IF input.place > ledger.most THEN input.place ELSE ledger.most,
             on |-> now]
  BY DEF Witnessed
<1>5. /\ DOMAIN after = AccountFields
      /\ ~input.sure => after.base = None /\ after.bytes = base.bytes
      /\ input.sure => after.base = [key |-> input.key, last |-> input.current]
      /\ \/ after.bytes = base.bytes
         \/ /\ input.sure /\ prior.base # None /\ prior.base.key = input.key
            /\ after.bytes = base.bytes + input.current - prior.base.last
  BY <1>1, <1>2, ReducedAccount
<1>6. /\ new \in Nat /\ met \in Nat /\ whole \in Nat /\ new <= met
      /\ joined /\ ~gone => input.place - ledger.at <= met
      /\ joined /\ gone => whole = input.current
  BY <1>1
<1>7. (joined /\ ~gone => ledger.since <= input.since) /\ (gone => input.since < ledger.since)
  BY <1>1
<1> HIDE DEF prior, bytes, again, new, met, whole, base, after, led, gone
<1>8. /\ DOMAIN led = LedgerFields /\ led.at = input.place /\ led.since = input.since
      /\ led.on = now /\ led.bytes = bytes + new /\ led.again = again + (met - new) + whole
      /\ led.most \in Nat /\ input.place <= led.most
      /\ input.sure => led.key = input.key
  BY <1>1, <1>4 DEF LedgerFields
<1>9. led.bytes \in Nat /\ led.again \in Nat
  BY <1>3, <1>6, <1>8
<1>10. after.bytes \in Int /\ after.bytes <= led.bytes + led.again
  <2>1. CASE after.bytes = base.bytes
    BY <1>3, <1>6, <1>8, <2>1
  <2>2. CASE /\ input.sure /\ prior.base # None /\ prior.base.key = input.key
             /\ after.bytes = base.bytes + input.current - prior.base.last
    <3>1. joined /\ after.bytes = base.bytes + input.current - (ledger.at - ledger.since)
      BY <1>2, <2>2
    <3>2. input.current - (ledger.at - ledger.since) <= met + whole
      <4>1. CASE gone
        BY <1>1, <1>6, <3>1, <4>1
      <4>2. CASE ~gone
        BY <1>1, <1>6, <1>7, <3>1, <4>2
      <4> QED BY <4>1, <4>2
    <3> QED BY <1>1, <1>3, <1>6, <1>8, <3>1, <3>2
  <2> QED BY <1>5, <2>1, <2>2
<1>11. after.base # None => Grounded(after.base, led, kernel.boot)
  BY <1>5, <1>8 DEF Grounded
<1> QED BY <1>5, <1>8, <1>9, <1>10, <1>11 DEF Sound, after, led, prior

\* A counter that starts again.
LEMMA CounterRestarts ==
    ASSUME NEW k \in KernelType, NEW m \in Nat
    PROVE  LET n == [k EXCEPT !.counter = 0, !.since = m]
           IN  /\ n \in KernelType /\ n.boot = k.boot /\ n.since = m /\ n.counter = 0
<1>1. [k EXCEPT !.counter = 0] \in KernelType /\ [k EXCEPT !.counter = 0].boot = k.boot
      /\ [k EXCEPT !.counter = 0].counter = 0
  BY DEF KernelType
<1>2. \A j \in KernelType : /\ [j EXCEPT !.since = m] \in KernelType
                            /\ [j EXCEPT !.since = m].boot = j.boot
                            /\ [j EXCEPT !.since = m].counter = j.counter
                            /\ [j EXCEPT !.since = m].since = m
  BY DEF KernelType
<1> QED BY <1>1, <1>2

\* What the kernel does while it is up.
LEMMA WorldKeepsUsage ==
    ASSUME UsageInv, UNCHANGED <<account, ledger, draft, disk, round, rate>>,
           kernel' \in KernelType, moved' \in Nat, kernel'.boot = kernel.boot,
           kernel'.since <= moved', kernel'.counter = moved' - kernel'.since
    PROVE  UsageInv'
BY DEF UsageInv, SoundDocument

LEMMA SampleKeepsUsage ==
    ASSUME UsageInv, NEW s \in Rounds, FinishSample(s)
    PROVE  UsageInv'
<1> DEFINE input == Input(s)
           prior == Prior(input.start)
<1>1. /\ round[s].at = "counted" /\ UNCHANGED <<now, kernel, moved, disk, draft>>
      /\ account' = IF input.present THEN ApplySample(prior, input) ELSE prior
      /\ rate' = RateAfter(input)
      /\ ledger' = IF input.present THEN Witnessed(input) ELSE ledger
      /\ \E step \in {Writing(Document'), Unused} : Becomes(s, step)
  BY Zenon DEF FinishSample
<1>2. /\ input.sure \in BOOLEAN /\ RoundKey(input.key, kernel.boot)
      /\ input.present \in BOOLEAN
      /\ input.place \in Nat /\ input.since \in Nat /\ input.since <= input.place
      /\ input.current = input.place - input.since
  <2>1. RoundInv(round[s], kernel.boot)
    BY DEF UsageInv
  <2> QED BY <1>1, <2>1 DEF RoundInv, Input
<1> HIDE DEF input
<1>3. /\ Sound(account', ledger', kernel.boot)
      /\ account' # None /\ rate' # None /\ account'.base # None => rate' = ledger'.on
  <2>1. CASE input.present
    <3>1. account' = ApplySample(prior, input) /\ ledger' = Witnessed(input) /\ rate' = now
      BY <1>1, <2>1 DEF RateAfter
    <3> QED BY <1>2, <3>1, SampledIsWitnessed
  <2>2. CASE ~input.present
    <3>1. account' = prior /\ rate' = None /\ ledger' = ledger
      BY <1>1, <2>2 DEF RateAfter
    <3>2. CASE account = None
      BY <3>1, <3>2 DEF Prior, UsageInv, Sound, InitialAccount, AccountFields
    <3>3. CASE account # None
      BY <3>1, <3>3 DEF Prior, UsageInv
    <3> QED BY <3>1, <3>2, <3>3
  <2> QED BY <1>2, <2>1, <2>2
<1>4. Document' = [boot |-> kernel.boot, account |-> account', ledger |-> ledger']
  BY <1>1 DEF Document
<1>5. RoundInv(Writing(Document'), kernel.boot)
  <2>1. SoundDocument(Document')
    BY <1>3, <1>4 DEF SoundDocument
  <2> QED BY <2>1 DEF RoundInv, Writing
<1>6. RoundInv(Unused, kernel.boot)
  BY DEF RoundInv, Unused
<1>7. DOMAIN round' = Rounds /\ \A r \in Rounds : RoundInv(round'[r], kernel.boot)
  BY <1>1, <1>5, <1>6, RoundSteps
<1> QED BY <1>1, <1>3, <1>7 DEF UsageInv, SoundDocument

\* The policy applied: another cycle empties both, and nothing else changes.
LEMMA PolicyKeepsUsage ==
    ASSUME UsageInv, NEW cycleDay, NEW at, ApplyPolicy(cycleDay, at)
    PROVE  UsageInv'
<1> DEFINE start == CycleStart(at, cycleDay)
<1>1. UNCHANGED <<kernel, moved, rate, round, draft, disk>>
  BY DEF ApplyPolicy
<1>2. \/ account = None /\ account' = InitialAccount(start) /\ UNCHANGED ledger
      \/ UNCHANGED <<account, ledger>>
      \/ /\ account # None
         /\ account' = [account EXCEPT !.bytes = 0, !.start = start]
         /\ ledger' = [ledger EXCEPT !.bytes = 0, !.again = 0]
  BY DEF ApplyPolicy
<1> HIDE DEF start
<1>3. /\ Sound(account', ledger', kernel.boot)
      /\ account' # None /\ rate' # None /\ account'.base # None => rate' = ledger'.on
  <2>1. CASE account = None /\ account' = InitialAccount(start) /\ UNCHANGED ledger
    BY <1>1, <2>1 DEF UsageInv, Sound, InitialAccount, AccountFields
  <2>2. CASE UNCHANGED <<account, ledger>>
    BY <1>1, <2>2 DEF UsageInv
  <2>3. CASE /\ account # None
             /\ account' = [account EXCEPT !.bytes = 0, !.start = start]
             /\ ledger' = [ledger EXCEPT !.bytes = 0, !.again = 0]
    <3>1. /\ DOMAIN account' = AccountFields /\ account'.bytes = 0
          /\ account'.base = account.base
      BY <2>3 DEF UsageInv, Sound, AccountFields
    <3>2. DOMAIN ledger = LedgerFields
      BY DEF UsageInv, Sound
    <3>3. /\ DOMAIN ledger' = LedgerFields /\ ledger'.bytes = 0 /\ ledger'.again = 0
          /\ ledger'.at = ledger.at /\ ledger'.since = ledger.since
          /\ ledger'.most = ledger.most /\ ledger'.key = ledger.key /\ ledger'.on = ledger.on
      BY <2>3, <3>2 DEF LedgerFields
    <3> QED BY <1>1, <2>3, <3>1, <3>3 DEF UsageInv, Sound, Grounded
  <2> QED BY <1>2, <2>1, <2>2, <2>3
<1> QED BY <1>1, <1>3 DEF UsageInv, SoundDocument

\* A restart: a document of this boot keeps its baseline, any other loses it.
LEMMA StartKeepsUsage ==
    ASSUME UsageInv, NEW cycleDay, Start(cycleDay)
    PROVE  UsageInv'
<1>1. /\ account' = Hydrated(disk) /\ ledger' = disk.ledger /\ rate' = None
      /\ UNCHANGED <<kernel, moved, round, draft, disk>>
  BY DEF Start
<1>2. Sound(disk.account, disk.ledger, disk.boot)
  BY DEF UsageInv, SoundDocument
<1>3. Sound(account', ledger', kernel.boot)
  <2>1. CASE disk.account = None
    BY <1>1, <1>2, <2>1 DEF Hydrated, Sound
  <2>2. CASE disk.account # None
    <3> DEFINE was == disk.account.base
               base == IF was # None /\ disk.boot = kernel.boot
                       THEN [was EXCEPT !.key.boot = kernel.boot] ELSE None
    <3>1. account' = [disk.account EXCEPT !.paused = FALSE, !.base = base]
      BY <1>1, <2>2, Zenon DEF Hydrated, Resumes
    <3>2. base # None => Grounded(base, disk.ledger, kernel.boot)
      <4> SUFFICES ASSUME was # None, disk.boot = kernel.boot
                   PROVE  Grounded(base, disk.ledger, kernel.boot)
        OBVIOUS
      <4>1. Grounded(was, disk.ledger, kernel.boot)
        BY <1>2, <2>2 DEF Sound
      <4>2. base = [was EXCEPT !.key = [was.key EXCEPT !.boot = kernel.boot]]
        OBVIOUS
      <4>3. [was.key EXCEPT !.boot = kernel.boot] = was.key
        BY <4>1 DEF Grounded, RoundKey
      <4>4. DOMAIN base = {"key", "last"} /\ base.key = was.key /\ base.last = was.last
        BY <4>1, <4>2, <4>3 DEF Grounded
      <4> QED BY <4>1, <4>4 DEF Grounded
    <3> HIDE DEF base
    <3>3. /\ DOMAIN account' = AccountFields /\ account'.base = base
          /\ account'.bytes = disk.account.bytes
      BY <1>2, <2>2, <3>1 DEF Sound, AccountFields
    <3> QED BY <1>1, <1>2, <2>2, <3>2, <3>3 DEF Sound
  <2> QED BY <2>1, <2>2
<1> QED BY <1>1, <1>3 DEF UsageInv, SoundDocument

LEMMA DeathKeepsUsage ==
    ASSUME UsageInv, Dies
    PROVE  UsageInv'
<1>1. /\ account' = None /\ ledger' = NoLedger
      /\ round' = [s \in Rounds |-> Unused] /\ UNCHANGED <<moved, disk, draft>>
      /\ \/ UNCHANGED kernel
         \/ kernel' = [kernel EXCEPT !.boot = kernel.boot + 1, !.counter = 0, !.since = moved]
  BY DEF Dies
<1>2. /\ kernel' \in KernelType /\ moved \in Nat
      /\ kernel'.since <= moved /\ kernel'.counter = moved - kernel'.since
  <2>1. kernel \in KernelType /\ moved \in Nat
        /\ kernel.since <= moved /\ kernel.counter = moved - kernel.since
    BY DEF UsageInv
  <2>2. CASE UNCHANGED kernel
    BY <1>1, <2>1, <2>2
  <2>3. CASE kernel' = [kernel EXCEPT !.boot = kernel.boot + 1, !.counter = 0, !.since = moved]
    <3> DEFINE booted == [kernel EXCEPT !.boot = kernel.boot + 1]
    <3>1. booted \in KernelType
      BY <2>1 DEF KernelType
    <3>2. kernel' = [booted EXCEPT !.counter = 0, !.since = moved]
      BY <2>3, Zenon
    <3> DEFINE again == [booted EXCEPT !.counter = 0, !.since = moved]
    <3>3. again \in KernelType /\ again.since = moved /\ again.counter = 0
      BY <2>1, <3>1, CounterRestarts
    <3> HIDE DEF booted, again
    <3> QED BY <2>1, <3>2, <3>3 DEF again
  <2> QED BY <1>1, <2>2, <2>3
<1>3. Sound(None, NoLedger, kernel'.boot)
  BY DEF Sound, NoLedger, LedgerFields
<1>4. RoundInv(Unused, kernel'.boot)
  BY DEF RoundInv, Unused
<1> QED BY <1>1, <1>2, <1>3, <1>4 DEF UsageInv, SoundDocument

LEMMA SaveKeepsUsage ==
    ASSUME UsageInv, NEW s \in Rounds, WriteDocument(s) \/ RenameDocument(s)
    PROVE  UsageInv'
<1> DEFINE document == round[s].document
           step == [round[s] EXCEPT !.at = "renaming"]
<1>1. round[s].at \in {"writing", "renaming"}
      /\ UNCHANGED <<kernel, moved, account, ledger, rate>>
  BY DEF WriteDocument, RenameDocument
<1>2. DOMAIN round[s] = {"at", "document", "on"} /\ SoundDocument(document)
  BY <1>1 DEF UsageInv, RoundInv
<1>3. /\ \/ draft' \in {document, Fresh, draft, None}
      /\ disk' = disk \/ (draft # None /\ disk' = draft)
      /\ Becomes(s, step) \/ Becomes(s, Unused)
  BY DEF WriteDocument, RenameDocument
<1>4. SoundDocument(Fresh)
  BY DEF SoundDocument, Fresh, Sound, NoLedger, LedgerFields
<1>5. RoundInv(Unused, kernel.boot)
  BY DEF RoundInv, Unused
<1>6. RoundInv(step, kernel.boot)
  <2>1. step.at = "renaming" /\ step.document = document /\ DOMAIN step = DOMAIN round[s]
    BY <1>2
  <2> QED BY <1>2, <2>1 DEF RoundInv
<1>7. DOMAIN round' = Rounds /\ \A r \in Rounds : RoundInv(round'[r], kernel.boot)
  BY <1>3, <1>5, <1>6, RoundSteps
<1>8. (draft' # None => SoundDocument(draft')) /\ SoundDocument(disk')
  BY <1>2, <1>3, <1>4 DEF UsageInv
<1> QED BY <1>1, <1>7, <1>8 DEF UsageInv, SoundDocument

LEMMA SamplingKeepsUsage ==
    ASSUME UsageInv, UsageStep
    PROVE  UsageInv'
<1>1. ASSUME NEW s \in Rounds, BeginSample(s)
      PROVE  UsageInv'
  <2>1. PICK sure \in BOOLEAN :
           Becomes(s, [at |-> "reading", sure |-> sure, key |-> Key(kernel.generation)])
    BY <1>1 DEF BeginSample
  <2>2. RoundInv([at |-> "reading", sure |-> sure, key |-> Key(kernel.generation)], kernel.boot)
    BY DEF RoundInv, RoundKey, Key
  <2>3. UNCHANGED <<kernel, moved, account, rate, draft, disk, ledger>>
    BY <1>1 DEF BeginSample
  <2> QED BY <2>1, <2>2, <2>3, RoundSteps DEF UsageInv, SoundDocument
<1>2. ASSUME NEW s \in Rounds, ReadCounters(s)
      PROVE  UsageInv'
  <2> DEFINE step(present) == [at |-> "counted", sure |-> round[s].sure, key |-> round[s].key,
                               present |-> present, current |-> kernel.counter,
                               place |-> moved, since |-> kernel.since]
  <2>1. /\ round[s].at = "reading"
        /\ Becomes(s, Unused) \/ \E present \in BOOLEAN : Becomes(s, step(present))
        /\ UNCHANGED <<kernel, moved, account, rate, draft, disk, ledger>>
    BY <1>2 DEF ReadCounters
  <2>2. round[s].sure \in BOOLEAN /\ RoundKey(round[s].key, kernel.boot)
    BY <2>1 DEF UsageInv, RoundInv
  <2>3. \A present \in BOOLEAN : RoundInv(step(present), kernel.boot)
    BY <2>2 DEF UsageInv, RoundInv, KernelType
  <2>4. RoundInv(Unused, kernel.boot)
    BY DEF RoundInv, Unused
  <2> HIDE DEF step
  <2>5. DOMAIN round' = Rounds /\ \A r \in Rounds : RoundInv(round'[r], kernel.boot)
    BY <2>1, <2>3, <2>4, RoundSteps
  <2> QED BY <2>1, <2>5 DEF UsageInv, SoundDocument
<1>3. ASSUME NEW s \in Rounds, Flush(s)
      PROVE  UsageInv'
  <2>1. /\ Becomes(s, Writing(Document))
        /\ UNCHANGED <<kernel, moved, account, rate, draft, disk, ledger>>
    BY <1>3 DEF Flush
  <2>2. SoundDocument(Document)
    BY DEF UsageInv, SoundDocument, Document
  <2>3. RoundInv(Writing(Document), kernel.boot)
    BY <2>2 DEF RoundInv, Writing
  <2> QED BY <2>1, <2>3, RoundSteps DEF UsageInv, SoundDocument
<1>4. CASE Rewired
  <2>1. kernel \in KernelType /\ moved \in Nat
        /\ kernel.since <= moved /\ kernel.counter = moved - kernel.since
    BY DEF UsageInv
  <2>2. UNCHANGED <<moved, account, rate, round, draft, disk, ledger>>
    BY <1>4 DEF Rewired
  <2>3. CASE kernel' = [kernel EXCEPT !.counter = 0, !.since = moved]
    <3> DEFINE again == [kernel EXCEPT !.counter = 0, !.since = moved]
    <3>1. /\ again \in KernelType /\ again.boot = kernel.boot
          /\ again.since = moved /\ again.counter = 0
      BY <2>1, CounterRestarts
    <3> HIDE DEF again
    <3>2. kernel' = again
      BY <2>3 DEF again
    <3> QED BY <2>1, <2>2, <3>1, <3>2, WorldKeepsUsage
  <2>4. CASE kernel' = [kernel EXCEPT !.generation = kernel.generation + 1]
    <3>1. /\ kernel' \in KernelType /\ kernel'.boot = kernel.boot
          /\ kernel'.since = kernel.since /\ kernel'.counter = kernel.counter
      BY <2>1, <2>4 DEF KernelType
    <3> QED BY <2>1, <2>2, <3>1, WorldKeepsUsage
  <2> QED BY <1>4, <2>3, <2>4 DEF Rewired
<1>5. CASE Moves
  BY <1>5, WorldKeepsUsage DEF Moves, UsageInv, KernelType
<1>6. CASE DayPasses
  BY <1>6, WorldKeepsUsage DEF DayPasses, UsageInv
<1> QED BY <1>1, <1>2, <1>3, <1>4, <1>5, <1>6, SampleKeepsUsage, SaveKeepsUsage,
           DeathKeepsUsage DEF UsageStep

\* Every byte of the account was seen to move between two foldings of the slot
\* under one key and one boot, or is one that a pass which was overtaken has
\* counted again, and a rate is measured from the folding its baseline is of:
\* for any calendar, any number of passes and saves that overlap, of remaps, new
\* interfaces, crashes, reboots and policy calls (accounting.ts, sampling.ts,
\* store.ts).
THEOREM UsageIsWitnessedHolds == UsagePolicySpec => []UsageIsWitnessed
<1>1. UsagePolicyInit => UsageInv
  <2> SUFFICES ASSUME UsagePolicyInit PROVE UsageInv
    OBVIOUS
  <2>1. /\ kernel = [boot |-> 1, counter |-> 0, generation |-> 1, since |-> 0]
        /\ moved = 0 /\ account = None /\ ledger = NoLedger /\ disk = Fresh /\ draft = None
        /\ round = [s \in Rounds |-> Unused]
    BY DEF UsagePolicyInit, UsageInit
  <2>2. RoundInv(Unused, kernel.boot)
    BY DEF RoundInv, Unused
  <2> QED BY <2>1, <2>2 DEF UsageInv, Sound, SoundDocument, Fresh, NoLedger, LedgerFields, KernelType
<1>2. UsageInv /\ [UsagePolicyNext]_slotVars => UsageInv'
  <2> SUFFICES ASSUME UsageInv, [UsagePolicyNext]_slotVars PROVE UsageInv'
    OBVIOUS
  <2>1. CASE UNCHANGED usageVars
    BY <2>1, WorldKeepsUsage DEF usageVars, UsageInv
  <2>2. ASSUME NEW c \in Setters, NEW request \in Requests, AskPolicy(c, request)
        PROVE  UsageInv'
    BY <2>2, WorldKeepsUsage DEF AskPolicy, UsageInv
  <2>3. ASSUME NEW c \in Setters, WriteTemporary(c)
        PROVE  UsageInv'
    BY <2>1, <2>3 DEF WriteTemporary, Fails
  <2>4. ASSUME NEW c \in Setters, Rename(c)
        PROVE  UsageInv'
    BY <2>1, <2>4, PolicyKeepsUsage DEF Rename, Fails
  <2>5. CASE Restart
    BY <2>5, StartKeepsUsage DEF Restart
  <2>6. CASE Sampling
    BY <2>6, SamplingKeepsUsage DEF Sampling
  <2>7. CASE UNCHANGED slotVars
    BY <2>1, <2>7 DEF slotVars
  <2> QED BY <2>2, <2>3, <2>4, <2>5, <2>6, <2>7 DEF UsagePolicyNext
<1>3. UsageInv => UsageIsWitnessed
  BY DEF UsageInv, Sound, UsageIsWitnessed
<1> QED BY <1>1, <1>2, <1>3, PTL DEF UsagePolicySpec

-----------------------------------------------------------------------------
(* The policy of the slot.                                                   *)

\* A call that is alone is the only one, what it writes is its request folded
\* onto the file as it is now, and nobody else has touched the temporary path
\* since it wrote there.  Any other call is known to have overlapped.
CallInv(c) ==
    /\ DOMAIN merged[c] = {"policy", "at", "alone"} /\ merged[c].alone \in BOOLEAN
    /\ merged[c].alone =>
          /\ Busy = {c}
          /\ merged[c].policy = MergePolicy(file, wish[c])
          /\ ppc[c] = "renaming" => temporary = merged[c].policy
    /\ ~merged[c].alone => tangled

PolicyInv ==
    /\ ppc \in [Setters -> {"idle", "writing", "renaming"}]
    /\ DOMAIN wish = Setters /\ DOMAIN merged = Setters
    /\ ~alive => Busy = {}
    /\ \A c \in Busy : CallInv(c)
    /\ alive /\ ~tangled => live = file.threshold /\ day = DayOf(file)
    /\ tangled \in BOOLEAN
    /\ ~dropped

LEMMA SamplingKeepsDay ==
    ASSUME UsageStep
    PROVE  (UNCHANGED <<alive, day>>) \/ ~alive'
BY DEF UsageStep, BeginSample, ReadCounters, FinishSample, Flush, WriteDocument,
       RenameDocument, Dies, Rewired, Moves, DayPasses

\* A call that returns without having saved leaves the others as they were.
LEMMA FailureKeepsPolicy ==
    ASSUME PolicyInv, NEW c \in Setters, ppc[c] # "idle", Fails(c),
           UNCHANGED <<file, tangled, dropped>>,
           temporary' = temporary
    PROVE  PolicyInv'
<1>1. /\ ppc' = [ppc EXCEPT ![c] = "idle"]
      /\ wish' = [wish EXCEPT ![c] = None] /\ merged' = [merged EXCEPT ![c] = None]
      /\ UNCHANGED <<live, alive, day>>
  BY DEF Fails, Ends, ToPlace, usageVars
<1>2. Busy' = Busy \ {c}
  BY <1>1 DEF PolicyInv, Busy
<1>3. \A d \in Busy' : CallInv(d)'
  <2> SUFFICES ASSUME NEW d \in Busy' PROVE CallInv(d)'
    OBVIOUS
  <2>1. d \in Busy /\ d # c /\ d \in Setters /\ c \in Busy
    BY <1>2 DEF Busy
  <2>2. ppc'[d] = ppc[d] /\ wish'[d] = wish[d] /\ merged'[d] = merged[d]
    BY <1>1, <2>1 DEF PolicyInv
  <2>3. CallInv(d)
    BY <2>1 DEF PolicyInv
  <2>4. ~merged[d].alone /\ tangled
    BY <2>1, <2>3 DEF CallInv
  <2> QED BY <2>2, <2>3, <2>4 DEF CallInv
<1> QED BY <1>1, <1>2, <1>3 DEF PolicyInv, DayOf

LEMMA RenameKeepsPolicy ==
    ASSUME PolicyInv, NEW c \in Setters, Rename(c)
    PROVE  PolicyInv'
<1>1. /\ ppc[c] = "renaming" /\ c \in Busy /\ ppc[c] # "idle"
      /\ CallInv(c)
  BY DEF Rename, Busy, PolicyInv
<1>2. CASE temporary # None /\ Ends(c) /\ file' = temporary /\ temporary' = None
           /\ live' = merged[c].policy.threshold
           /\ ApplyPolicy(DayOf(merged[c].policy), merged[c].at)
           /\ tangled' = (tangled /\ ~merged[c].alone)
           /\ dropped' = (dropped \/ (merged[c].alone /\ ~Saved(file, wish[c], temporary)))
  <2>1. /\ ppc' = [ppc EXCEPT ![c] = "idle"]
        /\ wish' = [wish EXCEPT ![c] = None] /\ merged' = [merged EXCEPT ![c] = None]
    BY <1>2 DEF Ends, ToPlace
  <2>2. day' = DayOf(merged[c].policy) /\ alive' = alive
    BY <1>2 DEF ApplyPolicy
  <2>3. Busy' = Busy \ {c}
    BY <2>1 DEF PolicyInv, Busy
  <2>4. /\ ppc' \in [Setters -> {"idle", "writing", "renaming"}]
        /\ DOMAIN wish' = Setters /\ DOMAIN merged' = Setters
        /\ ~alive' => Busy' = {}
    BY <2>1, <2>2, <2>3 DEF PolicyInv
  <2>5. CASE merged[c].alone
    <3>1. /\ Busy = {c} /\ temporary = merged[c].policy
          /\ temporary = MergePolicy(file, wish[c])
      BY <1>1, <2>5 DEF CallInv
    <3>2. Saved(file, wish[c], temporary)
      BY <3>1 DEF Saved, MergePolicy
    <3>3. ~dropped' /\ tangled' \in BOOLEAN
      BY <1>2, <3>2 DEF PolicyInv
    <3>4. Busy' = {}
      BY <2>3, <3>1
    <3>5. live' = file'.threshold /\ day' = DayOf(file')
      BY <1>2, <2>2, <3>1
    <3> QED BY <2>4, <3>3, <3>4, <3>5 DEF PolicyInv
  <2>6. CASE ~merged[c].alone
    <3>1. tangled /\ tangled' /\ ~dropped' /\ tangled' \in BOOLEAN
      BY <1>1, <1>2, <2>6 DEF CallInv, PolicyInv
    <3>2. \A d \in Busy' : CallInv(d)'
      <4> SUFFICES ASSUME NEW d \in Busy' PROVE CallInv(d)'
        OBVIOUS
      <4>1. d \in Busy /\ d # c /\ d \in Setters
        BY <2>3 DEF Busy
      <4>2. merged'[d] = merged[d]
        BY <2>1, <4>1 DEF PolicyInv
      <4>3. CallInv(d)
        BY <4>1 DEF PolicyInv
      <4>4. ~merged[d].alone
        BY <1>1, <4>1, <4>3 DEF CallInv
      <4> QED BY <3>1, <4>2, <4>3, <4>4 DEF CallInv
    <3> QED BY <2>4, <3>1, <3>2 DEF PolicyInv
  <2> QED BY <2>5, <2>6
<1>3. CASE Fails(c) /\ UNCHANGED <<file, temporary, tangled, dropped>>
  BY <1>1, <1>3, FailureKeepsPolicy
<1> QED BY <1>2, <1>3 DEF Rename

LEMMA AskKeepsPolicy ==
    ASSUME PolicyInv, NEW c \in Setters, NEW request, AskPolicy(c, request)
    PROVE  PolicyInv'
<1> DEFINE alone == Busy = {}
           record == [policy |-> MergePolicy(file, request), at |-> now, alone |-> alone]
<1>1. /\ alive /\ ppc[c] = "idle" /\ tangled' = (tangled \/ Busy # {})
      /\ ppc' = [ppc EXCEPT ![c] = "writing"] /\ wish' = [wish EXCEPT ![c] = request]
      /\ merged' = [b \in Setters |-> IF b = c THEN record
                                      ELSE IF b \in Busy THEN [merged[b] EXCEPT !.alone = FALSE]
                                      ELSE None]
      /\ UNCHANGED <<file, temporary, live, dropped, alive, day>>
  BY DEF AskPolicy, ToPlace
<1>2. Busy' = Busy \union {c} /\ c \notin Busy
  BY <1>1 DEF PolicyInv, Busy
<1>3. /\ DOMAIN record = {"policy", "at", "alone"} /\ record.alone = alone
      /\ record.policy = MergePolicy(file, request) /\ alone \in BOOLEAN
  OBVIOUS
<1> HIDE DEF record
<1>4. CallInv(c)'
  <2>1. merged'[c] = record /\ wish'[c] = request /\ ppc'[c] = "writing"
    BY <1>1 DEF PolicyInv
  <2>2. MergePolicy(file, request) = MergePolicy(file', wish'[c])
    BY <1>1, <2>1
  <2>3. alone => Busy' = {c}
    BY <1>2
  <2>4. ~alone => tangled'
    BY <1>1
  <2> QED BY <1>1, <1>3, <2>1, <2>2, <2>3, <2>4 DEF CallInv
<1>5. \A d \in Busy : CallInv(d)'
  <2> SUFFICES ASSUME NEW d \in Busy PROVE CallInv(d)'
    OBVIOUS
  <2>1. d \in Setters /\ d # c /\ CallInv(d) /\ tangled'
    BY <1>1, <1>2 DEF PolicyInv, Busy
  <2>2. merged'[d] = [merged[d] EXCEPT !.alone = FALSE]
    BY <1>1, <2>1
  <2>3. DOMAIN merged[d] = {"policy", "at", "alone"}
    BY <2>1 DEF CallInv
  <2>4. DOMAIN merged'[d] = {"policy", "at", "alone"} /\ merged'[d].alone = FALSE
    BY <2>2, <2>3
  <2> QED BY <2>1, <2>4 DEF CallInv
<1>6. \A d \in Busy' : CallInv(d)'
  BY <1>2, <1>4, <1>5
<1>7. alive' /\ ~tangled' => live' = file'.threshold /\ day' = DayOf(file')
  BY <1>1 DEF PolicyInv, DayOf
<1> QED BY <1>1, <1>6, <1>7 DEF PolicyInv

LEMMA WriteKeepsPolicy ==
    ASSUME PolicyInv, NEW c \in Setters, WriteTemporary(c)
    PROVE  PolicyInv'
<1>1. ppc[c] = "writing" /\ UNCHANGED <<file, tangled, dropped>>
  BY DEF WriteTemporary
<1>2. CASE Fails(c) /\ UNCHANGED temporary
  BY <1>1, <1>2, FailureKeepsPolicy
<1>3. CASE /\ temporary' = merged[c].policy \/ (Busy # {c} /\ temporary' = NoPolicy)
           /\ ToPlace(c, "renaming")
           /\ UNCHANGED <<usageVars, wish, merged, live>>
  <2>1. /\ ppc' = [ppc EXCEPT ![c] = "renaming"] /\ UNCHANGED <<alive, day>>
    BY <1>3 DEF ToPlace, usageVars
  <2>2. Busy' = Busy /\ c \in Busy
    BY <1>1, <2>1 DEF PolicyInv, Busy
  <2>3. \A d \in Busy : CallInv(d)'
    <3> SUFFICES ASSUME NEW d \in Busy PROVE CallInv(d)'
      OBVIOUS
    <3>1. CallInv(d) /\ merged'[d] = merged[d] /\ wish'[d] = wish[d]
      BY <1>3 DEF PolicyInv
    <3>2. MergePolicy(file, wish[d]) = MergePolicy(file', wish'[d])
      BY <1>1, <3>1
    <3>3. merged[d].alone => d = c /\ Busy = {c}
      BY <2>2, <3>1 DEF CallInv
    <3>4. merged[d].alone => temporary' = merged'[d].policy
      BY <1>3, <3>1, <3>3
    <3> QED BY <1>1, <2>2, <3>1, <3>2, <3>4 DEF CallInv
  <2>4. alive' /\ ~tangled' => live' = file'.threshold /\ day' = DayOf(file')
    BY <1>1, <1>3, <2>1 DEF PolicyInv, DayOf
  <2> QED BY <1>1, <1>3, <2>1, <2>2, <2>3, <2>4 DEF PolicyInv
<1> QED BY <1>2, <1>3 DEF WriteTemporary

\* Nothing but the sampler moves.
LEMMA RestKeepsPolicy ==
    ASSUME PolicyInv, UNCHANGED <<policyVars, alive, day>>
    PROVE  PolicyInv'
<1>1. UNCHANGED <<file, temporary, ppc, wish, merged, live, tangled, dropped>>
  BY DEF policyVars
<1>2. Busy' = Busy
  BY <1>1 DEF Busy
<1>3. \A c \in Busy : CallInv(c)'
  BY <1>1, <1>2 DEF PolicyInv, CallInv, MergePolicy
<1> QED BY <1>1, <1>2, <1>3 DEF PolicyInv, DayOf

LEMMA PolicyKept ==
    ASSUME PolicyInv, [UsagePolicyNext]_slotVars
    PROVE  PolicyInv'
<1>1. ASSUME NEW c \in Setters, NEW request \in Requests, AskPolicy(c, request)
      PROVE  PolicyInv'
  BY <1>1, AskKeepsPolicy
<1>2. ASSUME NEW c \in Setters, WriteTemporary(c)
      PROVE  PolicyInv'
  BY <1>2, WriteKeepsPolicy
<1>3. ASSUME NEW c \in Setters, Rename(c)
      PROVE  PolicyInv'
  BY <1>3, RenameKeepsPolicy
<1>4. CASE Restart
  <2>1. /\ live' = file.threshold /\ day' = DayOf(file) /\ tangled' = FALSE /\ ~alive
        /\ UNCHANGED <<file, temporary, ppc, wish, merged, dropped>>
    BY <1>4 DEF Restart, Start
  <2>2. Busy' = {}
    BY <2>1 DEF PolicyInv, Busy
  <2>3. DayOf(file) = DayOf(file')
    BY <2>1
  <2> QED BY <2>1, <2>2, <2>3 DEF PolicyInv
<1>5. CASE Sampling
  <2>1. UNCHANGED <<file, temporary, tangled, dropped>> /\ UsageStep
    BY <1>5 DEF Sampling
  <2>2. CASE alive'
    <3>1. UNCHANGED <<ppc, wish, merged, live, alive, day>>
      BY <1>5, <2>1, <2>2, SamplingKeepsDay DEF Sampling
    <3> QED BY <2>1, <3>1, RestKeepsPolicy DEF policyVars
  <2>3. CASE ~alive'
    <3>1. /\ ppc' = [c \in Setters |-> "idle"]
          /\ wish' = [c \in Setters |-> None] /\ merged' = [c \in Setters |-> None]
      BY <1>5, <2>3 DEF Sampling
    <3>2. Busy' = {}
      BY <3>1 DEF Busy
    <3> QED BY <2>1, <2>3, <3>1, <3>2 DEF PolicyInv
  <2> QED BY <2>2, <2>3
<1>6. CASE UNCHANGED slotVars
  <2>1. UNCHANGED policyVars /\ UNCHANGED usageVars
    BY <1>6 DEF slotVars
  <2>2. UNCHANGED <<alive, day>>
    BY <2>1 DEF usageVars
  <2> QED BY <2>1, <2>2, RestKeepsPolicy
<1> QED BY <1>1, <1>2, <1>3, <1>4, <1>5, <1>6 DEF UsagePolicyNext

\* A call beside no other saves just what it asks, and where none has overlapped
\* another since the last such call the running sampler has the policy a
\* restart would restore: for any number of calls, however they overlap before
\* and after, fail, or die with their process (policy-write.ts).
THEOREM PolicyIsKeptHolds == UsagePolicySpec => []PolicyIsKept
<1>1. UsagePolicyInit => PolicyInv
  <2> SUFFICES ASSUME UsagePolicyInit PROVE PolicyInv
    OBVIOUS
  <2>1. /\ file = NoPolicy /\ live = None /\ alive = TRUE /\ day = DefaultDay
        /\ ppc = [c \in Setters |-> "idle"] /\ wish = [c \in Setters |-> None]
        /\ merged = [c \in Setters |-> None] /\ tangled = FALSE /\ dropped = FALSE
    BY DEF UsagePolicyInit, UsageInit, PolicyInit
  <2>2. Busy = {}
    BY <2>1 DEF Busy
  <2> QED BY <2>1, <2>2 DEF PolicyInv, NoPolicy, DayOf
<1>2. PolicyInv /\ [UsagePolicyNext]_slotVars => PolicyInv'
  BY PolicyKept
<1>3. PolicyInv => PolicyIsKept
  BY DEF PolicyInv, PolicyIsKept
<1> QED BY <1>1, <1>2, <1>3, PTL DEF UsagePolicySpec

-----------------------------------------------------------------------------
(* The bearers.                                                              *)

SlotFields == {"desired", "applied", "observed"}

\* A call that works on a connection knows it, and its interface.
CallKnows ==
    \A k \in Calls :
        /\ call[k].at # "idle" => call[k].conn \in Connections
        /\ call[k].at \notin {"idle", "landing"} => call[k].on \in Ifnames
        /\ call[k].at = "looking" => DOMAIN call[k] = {"at", "conn", "on", "generation"}
        /\ call[k].at = "landing" => call[k].bearer.on \in Ifnames

\* Whatever is active is up or coming up, no readout is of a generation still
\* to come, and every claim is about an interface.
BearerInv ==
    /\ generation \in Nat /\ fence \in Nat /\ fence <= generation
    /\ DOMAIN device = Ifnames /\ DOMAIN active = Ifnames
    /\ \A f \in Ifnames : active[f] # NoBearer => device[f] \in {"activated", "coming"}
    /\ DOMAIN readout = Readouts
    /\ \A r \in Readouts : readout[r] # NoBearer =>
          readout[r].generation \in Nat /\ readout[r].generation <= generation
    /\ DOMAIN call = Calls
    /\ CallKnows
    /\ DOMAIN slots = Connections
    /\ \A c \in Connections :
          /\ DOMAIN slots[c] = SlotFields
          /\ slots[c].desired # NoBearer => slots[c].desired.on \in Ifnames
          /\ slots[c].applied # NoBearer => slots[c].applied.on \in Ifnames

\* The slots as a readout leaves them: desired is never touched.
LEMMA FoldedSlot ==
    ASSUME BearerInv, NEW read, NEW c \in Connections,
           slots' = [d \in Connections |->
                       IF Target(slots[d]) = NoBearer THEN slots[d]
                       ELSE [slots[d] EXCEPT
                               !.observed = Seen(Target(slots[d]), read),
                               !.applied = IF ClassifyApplied(slots[d], read) = "lost"
                                           THEN NoBearer ELSE @]]
    PROVE  /\ DOMAIN slots'[c] = SlotFields
           /\ slots'[c].desired = slots[c].desired
           /\ slots'[c].applied \in {slots[c].applied, NoBearer}
           /\ Target(slots[c]) # NoBearer =>
                /\ slots'[c].observed = Seen(Target(slots[c]), read)
                /\ slots'[c].applied = IF ClassifyApplied(slots[c], read) = "lost"
                                       THEN NoBearer ELSE slots[c].applied
<1>1. CASE Target(slots[c]) = NoBearer
  <2>1. slots'[c] = slots[c]
    BY <1>1
  <2> QED BY <1>1, <2>1 DEF BearerInv
<1>2. CASE Target(slots[c]) # NoBearer
  <2> DEFINE seen1 == Seen(Target(slots[c]), read)
             kept1 == IF ClassifyApplied(slots[c], read) = "lost"
                      THEN NoBearer ELSE slots[c].applied
  <2>1. slots'[c] = [slots[c] EXCEPT !.observed = seen1, !.applied = kept1]
    BY <1>2, Zenon
  <2> HIDE DEF seen1, kept1
  <2>2. /\ DOMAIN slots'[c] = SlotFields /\ slots'[c].desired = slots[c].desired
        /\ slots'[c].observed = seen1 /\ slots'[c].applied = kept1
    BY <2>1 DEF BearerInv, SlotFields
  <2> QED BY <2>2 DEF seen1, kept1
<1> QED BY <1>1, <1>2

LEMMA SlotIsSet ==
    ASSUME BearerInv, NEW c \in Connections, NEW name \in SlotFields, NEW value,
           Slot(c, name, value)
    PROVE  /\ DOMAIN slots' = Connections
           /\ slots'[c][name] = value
           /\ DOMAIN slots'[c] = SlotFields
           /\ \A other \in SlotFields \ {name} : slots'[c][other] = slots[c][other]
           /\ \A d \in Connections \ {c} : slots'[d] = slots[d]
BY DEF Slot, BearerInv

\* A slot of which one part is now about an interface, or empty.
LEMMA SlotKeepsBearers ==
    ASSUME BearerInv, NEW c \in Connections, NEW name \in {"desired", "applied"}, NEW value,
           value.on \in Ifnames, Slot(c, name, value), UNCHANGED <<nmVars, fence, readout>>,
           DOMAIN call' = Calls, CallKnows'
    PROVE  BearerInv'
<1>1. /\ DOMAIN slots' = Connections /\ slots'[c][name] = value
      /\ DOMAIN slots'[c] = SlotFields
      /\ \A other \in SlotFields \ {name} : slots'[c][other] = slots[c][other]
      /\ \A d \in Connections \ {c} : slots'[d] = slots[d]
  BY SlotIsSet DEF SlotFields
<1>2. \A d \in Connections :
          /\ DOMAIN slots'[d] = SlotFields
          /\ slots'[d].desired # NoBearer => slots'[d].desired.on \in Ifnames
          /\ slots'[d].applied # NoBearer => slots'[d].applied.on \in Ifnames
  <2> SUFFICES ASSUME NEW d \in Connections
               PROVE  /\ DOMAIN slots'[d] = SlotFields
                      /\ slots'[d].desired # NoBearer => slots'[d].desired.on \in Ifnames
                      /\ slots'[d].applied # NoBearer => slots'[d].applied.on \in Ifnames
    OBVIOUS
  <2>1. CASE d # c
    BY <1>1, <2>1 DEF BearerInv
  <2>2. CASE d = c
    BY <1>1, <2>2 DEF BearerInv, SlotFields
  <2> QED BY <2>1, <2>2
<1> QED BY <1>1, <1>2 DEF BearerInv, nmVars

\* What a call does to NetworkManager, and where it goes, while the slots stay.
LEMMA WorldKeepsBearers ==
    ASSUME BearerInv, UNCHANGED <<generation, adapterVars, readout>>,
           DOMAIN device' = Ifnames, DOMAIN active' = Ifnames,
           \A f \in Ifnames : active'[f] # NoBearer => device'[f] \in {"activated", "coming"},
           DOMAIN call' = Calls, CallKnows'
    PROVE  BearerInv'
BY DEF BearerInv, adapterVars

LEMMA BroughtUp ==
    ASSUME BearerInv, NEW c, NEW f \in Ifnames, NEW state \in {"activated", "coming"},
           BringUp(c, f, state)
    PROVE  /\ DOMAIN device' = Ifnames /\ DOMAIN active' = Ifnames
           /\ \A g \in Ifnames : active'[g] # NoBearer => device'[g] \in {"activated", "coming"}
BY DEF BringUp, BearerInv

LEMMA TakenDown ==
    ASSUME BearerInv, NEW f \in Ifnames, NEW state, TakeDown(f, state)
    PROVE  /\ DOMAIN device' = Ifnames /\ DOMAIN active' = Ifnames
           /\ \A g \in Ifnames : active'[g] # NoBearer => device'[g] \in {"activated", "coming"}
BY DEF TakeDown, BearerInv

\* A call that goes on knowing what it works on, and the others as they were.
LEMMA CallGoes ==
    ASSUME BearerInv, NEW k \in Calls, NEW record, Goes(k, record),
           record.at # "idle" => record.conn \in Connections,
           record.at \notin {"idle", "landing"} => record.on \in Ifnames,
           record.at = "looking" => DOMAIN record = {"at", "conn", "on", "generation"},
           record.at = "landing" => record.bearer.on \in Ifnames
    PROVE  DOMAIN call' = Calls /\ CallKnows'
<1>1. DOMAIN call' = Calls /\ call'[k] = record /\ \A j \in Calls \ {k} : call'[j] = call[j]
  BY DEF Goes, BearerInv
<1> QED BY <1>1 DEF BearerInv, CallKnows

LEMMA CallReturns ==
    ASSUME BearerInv, NEW k \in Calls, Returns(k)
    PROVE  DOMAIN call' = Calls /\ CallKnows'
<1>1. Goes(k, Idle) /\ Idle.at = "idle"
  BY DEF Returns, Idle
<1> QED BY <1>1, CallGoes

LEMMA CallLands ==
    ASSUME BearerInv, NEW k \in Calls, NEW bearer, Landing(k, bearer), ~At(k, "idle"),
           bearer.on \in Ifnames
    PROVE  DOMAIN call' = Calls /\ CallKnows'
<1> DEFINE record == [at |-> "landing", conn |-> call[k].conn, bearer |-> bearer,
                      generation |-> call[k].generation]
<1>1. Goes(k, record)
  BY DEF Landing
<1>2. record.at = "landing" /\ record.conn \in Connections /\ record.bearer = bearer
  BY DEF At, BearerInv, CallKnows
<1> HIDE DEF record
<1> QED BY <1>1, <1>2, CallGoes

LEMMA CallKeepsBearers ==
    ASSUME BearerInv, NEW k \in Calls, CallStep(k)
    PROVE  BearerInv'
<1>1. CASE ReadProfileBack(k)
  <2>1. call[k].conn \in Connections /\ call[k].on \in Ifnames
    BY <1>1 DEF ReadProfileBack, At, BearerInv, CallKnows
  <2>2. DOMAIN call' = Calls /\ CallKnows'
    BY <1>1, CallReturns DEF ReadProfileBack
  <2>3. CASE UNCHANGED slots
    BY <1>1, <2>2, <2>3, WorldKeepsBearers DEF ReadProfileBack, nmVars, adapterVars, BearerInv
  <2>4. CASE Slot(call[k].conn, "desired", Bound(call[k].conn, call[k].on, call[k].settings))
    <3>1. Bound(call[k].conn, call[k].on, call[k].settings).on \in Ifnames
      BY <2>1 DEF Bound
    <3> QED BY <1>1, <2>1, <2>2, <2>4, <3>1, SlotKeepsBearers DEF ReadProfileBack
  <2> QED BY <1>1, <2>3, <2>4 DEF ReadProfileBack
<1>2. CASE Reactivate(k)
  <2>1. call[k].on \in Ifnames
    BY <1>2 DEF Reactivate, At, BearerInv, CallKnows
  <2>2. DOMAIN call' = Calls /\ CallKnows'
    BY <1>2, CallReturns DEF Reactivate
  <2>3. /\ DOMAIN device' = Ifnames /\ DOMAIN active' = Ifnames
        /\ \A g \in Ifnames : active'[g] # NoBearer => device'[g] \in {"activated", "coming"}
    BY <1>2, <2>1, BroughtUp DEF Reactivate, BearerInv
  <2> QED BY <1>2, <2>2, <2>3, WorldKeepsBearers DEF Reactivate
<1>3. CASE ReadProfile(k)
  <2> DEFINE record == [at |-> "activating", conn |-> call[k].conn, on |-> call[k].on,
                        generation |-> call[k].generation, read |-> saved[call[k].conn]]
  <2>1. Returns(k) \/ Goes(k, record)
    BY <1>3 DEF ReadProfile
  <2>2. /\ record.at = "activating" /\ record.conn \in Connections /\ record.on \in Ifnames
    BY <1>3 DEF ReadProfile, At, BearerInv, CallKnows
  <2> HIDE DEF record
  <2>3. DOMAIN call' = Calls /\ CallKnows'
    BY <2>1, <2>2, CallGoes, CallReturns
  <2> QED BY <1>3, <2>3, WorldKeepsBearers DEF ReadProfile, nmVars, BearerInv
<1>4. CASE Activate(k)
  <2> DEFINE bearer == Bound(call[k].conn, call[k].on, call[k].read)
  <2>1. call[k].on \in Ifnames /\ ~At(k, "idle") /\ bearer.on = call[k].on
    BY <1>4 DEF Activate, At, BearerInv, CallKnows, Bound
  <2>2. Landing(k, bearer) \/ Returns(k)
    BY <1>4 DEF Activate
  <2> HIDE DEF bearer
  <2>3. DOMAIN call' = Calls /\ CallKnows'
    BY <2>1, <2>2, CallLands, CallReturns
  <2>4. /\ DOMAIN device' = Ifnames /\ DOMAIN active' = Ifnames
        /\ \A g \in Ifnames : active'[g] # NoBearer => device'[g] \in {"activated", "coming"}
    BY <1>4, <2>1, BroughtUp DEF Activate, BearerInv
  <2> QED BY <1>4, <2>3, <2>4, WorldKeepsBearers DEF Activate
<1>5. CASE Look(k)
  <2> DEFINE record == [call[k] EXCEPT !.at = "disconnecting"]
  <2>1. /\ DOMAIN call[k] = {"at", "conn", "on", "generation"} /\ ~At(k, "idle")
        /\ call[k].on \in Ifnames /\ call[k].conn \in Connections
    BY <1>5 DEF Look, At, BearerInv, CallKnows
  <2>2. /\ record.at = "disconnecting" /\ record.conn \in Connections /\ record.on \in Ifnames
    BY <2>1
  <2>3. Goes(k, record) \/ Landing(k, Unbound(call[k].on))
    BY <1>5 DEF Look
  <2>4. Unbound(call[k].on).on \in Ifnames
    BY <2>1 DEF Unbound
  <2> HIDE DEF record
  <2>5. DOMAIN call' = Calls /\ CallKnows'
    BY <2>1, <2>2, <2>3, <2>4, CallGoes, CallLands
  <2> QED BY <1>5, <2>5, WorldKeepsBearers DEF Look, nmVars, BearerInv
<1>6. CASE Disconnect(k)
  <2>1. call[k].on \in Ifnames /\ ~At(k, "idle") /\ Unbound(call[k].on).on = call[k].on
    BY <1>6 DEF Disconnect, At, BearerInv, CallKnows, Unbound
  <2>2. Landing(k, Unbound(call[k].on)) \/ Returns(k)
    BY <1>6 DEF Disconnect
  <2>3. DOMAIN call' = Calls /\ CallKnows'
    BY <2>1, <2>2, CallLands, CallReturns
  <2>4. /\ DOMAIN device' = Ifnames /\ DOMAIN active' = Ifnames
        /\ \A g \in Ifnames : active'[g] # NoBearer => device'[g] \in {"activated", "coming"}
    BY <1>6, <2>1, TakenDown DEF Disconnect, BearerInv
  <2> QED BY <1>6, <2>3, <2>4, WorldKeepsBearers DEF Disconnect
<1>7. CASE Land(k)
  <2> DEFINE landed == [conn |-> call[k].bearer.conn, on |-> call[k].bearer.on,
                        settings |-> call[k].bearer.settings,
                        generation |-> call[k].generation]
  <2>1. call[k].conn \in Connections /\ landed.on \in Ifnames
    BY <1>7 DEF Land, At, BearerInv, CallKnows
  <2>2. DOMAIN call' = Calls /\ CallKnows'
    BY <1>7, CallReturns DEF Land
  <2>3. Slot(call[k].conn, "applied", landed)
    BY <1>7 DEF Land
  <2> HIDE DEF landed
  <2> QED BY <1>7, <2>1, <2>2, <2>3, SlotKeepsBearers DEF Land
<1> QED BY <1>1, <1>2, <1>3, <1>4, <1>5, <1>6, <1>7 DEF CallStep

LEMMA BearersKept ==
    ASSUME BearerInv, [BearerNext]_bearerVars
    PROVE  BearerInv'
<1>0. CASE UNCHANGED bearerVars
  BY <1>0 DEF bearerVars, nmVars, adapterVars, BearerInv, CallKnows
<1>1. CASE Changes
  <2>1. UNCHANGED <<call, adapterVars, readout>> /\ DOMAIN call' = Calls /\ CallKnows'
    BY <1>1 DEF Changes, BearerInv, CallKnows
  <2>2. CASE \E f \in Ifnames : TakeDown(f, "absent") /\ generation' = generation + 1
    <3>1. /\ DOMAIN device' = Ifnames /\ DOMAIN active' = Ifnames
          /\ \A g \in Ifnames : active'[g] # NoBearer => device'[g] \in {"activated", "coming"}
      BY <2>2, TakenDown
    <3> QED BY <2>1, <2>2, <3>1 DEF BearerInv, adapterVars
  <2>3. CASE UNCHANGED <<active, device, generation>>
    BY <2>1, <2>3, WorldKeepsBearers DEF BearerInv
  <2>4. CASE \E c \in Connections, f \in Ifnames :
               BringUp(c, f, "coming") /\ UNCHANGED <<saved, generation>>
    BY <2>1, <2>4, BroughtUp, WorldKeepsBearers
  <2>5. CASE \E f \in Ifnames, state \in {"disconnected", "failed"} :
               TakeDown(f, state) /\ UNCHANGED <<saved, generation>>
    BY <2>1, <2>5, TakenDown, WorldKeepsBearers
  <2> QED BY <1>1, <2>2, <2>3, <2>4, <2>5 DEF Changes
<1>2. CASE Settles
  <2>1. PICK f \in Ifnames :
          \/ device[f] = "absent" /\ device' = [device EXCEPT ![f] = "disconnected"]
          \/ device[f] = "coming" /\ device' = [device EXCEPT ![f] = "activated"]
    BY <1>2 DEF Settles
  <2>2. UNCHANGED <<active, generation, call, adapterVars, readout>>
    BY <1>2 DEF Settles
  <2> QED BY <2>1, <2>2 DEF BearerInv, CallKnows, adapterVars
<1>3. ASSUME NEW k \in Calls, NEW c \in Connections, NEW f \in Ifnames, NEW settings \in Settings,
             NEW then \in {"reading back", "reactivating"}, Save(k, c, f, settings, then)
      PROVE  BearerInv'
  <2> DEFINE record == [at |-> then, conn |-> c, on |-> f, settings |-> settings]
  <2>1. record.at = then /\ record.conn = c /\ record.on = f
    OBVIOUS
  <2>2. Goes(k, record) \/ UNCHANGED call
    BY <1>3 DEF Save
  <2> HIDE DEF record
  <2>3. DOMAIN call' = Calls /\ CallKnows'
    BY <2>1, <2>2, CallGoes DEF BearerInv, CallKnows
  <2> QED BY <1>3, <2>3, WorldKeepsBearers DEF Save, BearerInv
<1>4. ASSUME NEW k \in Calls, NEW c \in Connections, Apply(k, c)
      PROVE  BearerInv'
  <2> DEFINE place == IF slots[c].desired.conn = NoBearer THEN "looking" ELSE "reading"
             record == [at |-> place, conn |-> c, on |-> slots[c].desired.on,
                        generation |-> generation]
  <2>1. slots[c].desired.on \in Ifnames /\ Goes(k, record)
    BY <1>4 DEF Apply, BearerInv
  <2>2. place \in {"looking", "reading"}
    OBVIOUS
  <2> HIDE DEF place
  <2>3. /\ record.at \in {"looking", "reading"} /\ record.conn = c /\ record.on \in Ifnames
        /\ DOMAIN record = {"at", "conn", "on", "generation"}
    BY <2>1, <2>2
  <2> HIDE DEF record
  <2>4. DOMAIN call' = Calls /\ CallKnows'
    BY <2>1, <2>3, CallGoes
  <2> QED BY <1>4, <2>4, WorldKeepsBearers DEF Apply, nmVars, BearerInv
<1>5. ASSUME NEW c \in Connections, Release(c)
      PROVE  BearerInv'
  <2>1. Target(slots[c]) \in Ifnames
    BY <1>5 DEF Release, Target, BearerInv
  <2>2. Unbound(Target(slots[c])).on \in Ifnames
    BY <2>1 DEF Unbound
  <2>3. DOMAIN call' = Calls /\ CallKnows'
    BY <1>5 DEF Release, BearerInv, CallKnows
  <2> QED BY <1>5, <2>2, <2>3, SlotKeepsBearers DEF Release
<1>6. ASSUME NEW k \in Calls, CallStep(k)
      PROVE  BearerInv'
  BY <1>6, CallKeepsBearers
<1>7. ASSUME NEW r \in Readouts, Take(r)
      PROVE  BearerInv'
  <2> DEFINE read == [generation |-> generation, active |-> active, device |-> device]
  <2>1. readout' = [readout EXCEPT ![r] = read] /\ read.generation = generation
    BY <1>7 DEF Take
  <2> HIDE DEF read
  <2>2. UNCHANGED <<generation, active, device, call, slots, fence>>
    BY <1>7 DEF Take, nmVars, adapterVars
  <2> QED BY <2>1, <2>2 DEF BearerInv, CallKnows
<1>8. ASSUME NEW r \in Readouts, Fold(r)
      PROVE  BearerInv'
  <2>1. /\ readout' = [readout EXCEPT ![r] = NoBearer]
        /\ UNCHANGED <<generation, active, device, call>>
    BY <1>8 DEF Fold, nmVars
  <2>2. CASE UNCHANGED adapterVars
    BY <2>1, <2>2 DEF BearerInv, CallKnows, adapterVars
  <2>3. CASE /\ fence' = readout[r].generation
             /\ slots' = [d \in Connections |->
                   IF Target(slots[d]) = NoBearer THEN slots[d]
                   ELSE [slots[d] EXCEPT
                           !.observed = Seen(Target(slots[d]), readout[r]),
                           !.applied = IF ClassifyApplied(slots[d], readout[r]) = "lost"
                                       THEN NoBearer ELSE @]]
    <3>1. \A c \in Connections : /\ DOMAIN slots'[c] = SlotFields
                                 /\ slots'[c].desired = slots[c].desired
                                 /\ slots'[c].applied \in {slots[c].applied, NoBearer}
      BY <2>3, FoldedSlot
    <3>2. DOMAIN slots' = Connections
      BY <2>3
    <3>3. fence' \in Nat /\ fence' <= generation'
      BY <1>8, <2>1, <2>3 DEF Fold, BearerInv
    <3> QED BY <2>1, <3>1, <3>2, <3>3 DEF BearerInv, CallKnows
  <2> QED BY <1>8, <2>2, <2>3 DEF Fold
<1> QED BY <1>0, <1>1, <1>2, <1>3, <1>4, <1>5, <1>6, <1>7, <1>8 DEF BearerNext

\* A readout leaves only by being folded.
LEMMA ReadoutsAreFolded ==
    ASSUME BearerInv, BearerNext, NEW r \in Readouts,
           readout[r] # NoBearer, readout'[r] = NoBearer
    PROVE  Fold(r)
<1>1. readout' # readout
  OBVIOUS
<1>2. ~\E s \in Readouts : Take(s)
  <2> SUFFICES ASSUME NEW s \in Readouts, Take(s) PROVE FALSE
    OBVIOUS
  <2>1. r # s /\ readout'[r] = readout[r]
    BY DEF Take, BearerInv
  <2> QED BY <2>1
<1>3. PICK s \in Readouts : Fold(s)
  BY <1>1, <1>2 DEF BearerNext, Changes, Settles, Save, Apply, Release, CallStep,
     ReadProfileBack, Reactivate, ReadProfile, Activate, Look, Disconnect, Land
<1>4. s = r
  BY <1>3 DEF Fold, BearerInv
<1> QED BY <1>3, <1>4

\* Where a readout is of NetworkManager as it is, a claim is called lost exactly
\* when it is not in force.
LEMMA LostIsNotInForce ==
    ASSUME BearerInv, NEW c \in Connections, NEW read, slots[c].applied # NoBearer,
           read.active = active, read.device = device
    PROVE  ClassifyApplied(slots[c], read) = "lost" <=> ~InForce(slots[c].applied)
<1> DEFINE claim == slots[c].applied
<1>1. Target(slots[c]) = claim.on /\ claim.on \in Ifnames
  BY DEF Target, BearerInv
<1>2. active[claim.on] # NoBearer => device[claim.on] \in {"activated", "coming"}
  BY <1>1 DEF BearerInv
<1>3. CASE device[claim.on] \in {"absent", "failed"}
  BY <1>1, <1>3 DEF ClassifyApplied, InForce
<1>4. CASE device[claim.on] \notin {"absent", "failed"} /\ claim.conn = NoBearer
  BY <1>1, <1>4 DEF ClassifyApplied, InForce
<1>5. CASE device[claim.on] \notin {"absent", "failed"} /\ claim.conn # NoBearer
  BY <1>1, <1>2, <1>5 DEF ClassifyApplied, InForce, Transitional
<1> QED BY <1>3, <1>4, <1>5

\* What agrees twice: the claim is what was asked, and what is seen is the claim.
LEMMA AlignedTwice ==
    ASSUME NEW slot, Divergence(slot) = <<"aligned", "aligned">>
    PROVE  /\ slot.desired # NoBearer /\ slot.applied # NoBearer /\ slot.observed # NoBearer
           /\ slot.desired = [conn |-> slot.applied.conn, on |-> slot.applied.on,
                              settings |-> slot.applied.settings]
           /\ slot.desired = slot.observed.bearer
<1> DEFINE applied == IF slot.applied = NoBearer THEN NoBearer
                      ELSE [conn |-> slot.applied.conn, on |-> slot.applied.on,
                            settings |-> slot.applied.settings]
           observed == IF slot.observed = NoBearer THEN NoBearer ELSE slot.observed.bearer
<1>1. Compare(slot.desired, applied) = "aligned" /\ Compare(applied, observed) = "aligned"
  BY DEF Divergence
<1>2. /\ slot.desired # NoBearer /\ slot.desired = applied
      /\ applied # NoBearer /\ observed # NoBearer /\ applied = observed
  BY <1>1 DEF Compare
<1> QED BY <1>2

\* The step that folds a readout that is still true.
LEMMA ExactFoldSettles ==
    ASSUME BearerInv, NEW r \in Readouts, NEW c \in Connections, readout[r] # NoBearer, Fold(r),
           readout[r] = [generation |-> generation, active |-> active, device |-> device]
    PROVE  /\ slots[c].applied # NoBearer =>
                (slots'[c].applied # NoBearer <=> InForce(slots[c].applied))
           /\ Divergence(slots'[c]) = <<"aligned", "aligned">> =>
                /\ slots[c].desired # NoBearer /\ InForce(slots[c].desired)
                /\ slots[c].desired.conn # NoBearer =>
                     active[slots[c].desired.on].settings = slots[c].desired.settings
<1> DEFINE claim == slots[c].applied
           read == readout[r]
<1>1. read.generation = generation /\ read.active = active /\ read.device = device
  OBVIOUS
<1>2. slots' = [d \in Connections |->
                   IF Target(slots[d]) = NoBearer THEN slots[d]
                   ELSE [slots[d] EXCEPT
                           !.observed = Seen(Target(slots[d]), read),
                           !.applied = IF ClassifyApplied(slots[d], read) = "lost"
                                       THEN NoBearer ELSE @]]
  <2>1. ~Superseded(read)
    BY <1>1 DEF Superseded, BearerInv
  <2> QED BY <2>1 DEF Fold
<1>3. /\ slots'[c].desired = slots[c].desired
      /\ slots'[c].applied \in {claim, NoBearer}
      /\ Target(slots[c]) # NoBearer =>
           /\ slots'[c].observed = Seen(Target(slots[c]), read)
           /\ slots'[c].applied = IF ClassifyApplied(slots[c], read) = "lost"
                                  THEN NoBearer ELSE claim
  BY <1>2, FoldedSlot
<1>4. claim # NoBearer => Target(slots[c]) = claim.on /\ claim.on \in Ifnames
                          /\ Target(slots[c]) # NoBearer
  BY BearerAssumption DEF Target, BearerInv
<1>5. claim # NoBearer => (slots'[c].applied # NoBearer <=> InForce(claim))
  BY <1>1, <1>3, <1>4, LostIsNotInForce
<1>6. ASSUME Divergence(slots'[c]) = <<"aligned", "aligned">>
      PROVE  /\ slots[c].desired # NoBearer /\ InForce(slots[c].desired)
             /\ slots[c].desired.conn # NoBearer =>
                  active[slots[c].desired.on].settings = slots[c].desired.settings
  <2> DEFINE asked == slots[c].desired
  <2>1. /\ asked # NoBearer /\ slots'[c].applied # NoBearer
        /\ asked = [conn |-> slots'[c].applied.conn, on |-> slots'[c].applied.on,
                    settings |-> slots'[c].applied.settings]
        /\ asked = slots'[c].observed.bearer
    BY <1>3, <1>6, AlignedTwice
  <2>2. claim # NoBearer /\ InForce(claim) /\ asked.conn = claim.conn /\ asked.on = claim.on
    BY <1>3, <1>5, <2>1
  <2>3. InForce(asked)
    BY <2>2 DEF InForce
  <2>4. asked = Seen(claim.on, read).bearer
    BY <1>3, <1>4, <2>1, <2>2
  <2>5. ASSUME asked.conn # NoBearer
        PROVE  active[asked.on].settings = asked.settings
    <3>1. active[asked.on] # NoBearer /\ device[asked.on] # "absent"
      BY <2>3, <2>5 DEF InForce
    <3>2. asked = Bound(active[asked.on].conn, asked.on, active[asked.on].settings)
      BY <1>1, <2>2, <2>4, <3>1 DEF Seen
    <3> QED BY <3>2 DEF Bound
  <2> QED BY <2>1, <2>3, <2>5
<1> QED BY <1>5, <1>6

\* A readout that is still true clears the claims that are not in force and no
\* other, and what reads as aligned twice is what was asked, in force: for any
\* number of calls, readouts and interfaces, whoever else uses NetworkManager
\* (observe-fold.ts, adapter.ts, state-separation.ts).
THEOREM ExactReadoutsSettleHolds == BearerSpec => ExactReadoutsSettle
<1>1. BearerInit => BearerInv
  BY DEF BearerInit, BearerInv, CallKnows, Idle, SlotFields
<1>2. BearerInv /\ [BearerNext]_bearerVars => BearerInv'
  BY BearersKept
<1> DEFINE Settled ==
      \A r \in Readouts, c \in Connections :
         /\ readout[r] # NoBearer /\ readout'[r] = NoBearer
         /\ readout[r] = [generation |-> generation, active |-> active, device |-> device]
         => /\ slots[c].applied # NoBearer =>
                  (slots'[c].applied # NoBearer <=> InForce(slots[c].applied))
            /\ Divergence(slots'[c]) = <<"aligned", "aligned">> =>
                  /\ slots[c].desired # NoBearer /\ InForce(slots[c].desired)
                  /\ slots[c].desired.conn # NoBearer =>
                       active[slots[c].desired.on].settings = slots[c].desired.settings
<1>3. BearerInv /\ [BearerNext]_bearerVars => [Settled]_bearerVars
  BY ReadoutsAreFolded, ExactFoldSettles
<1>4. ExactReadoutsSettle <=> [][Settled]_bearerVars
  BY DEF ExactReadoutsSettle
<1> HIDE DEF Settled
<1> QED BY <1>1, <1>2, <1>3, <1>4, PTL DEF BearerSpec
=============================================================================
