-------------------------- MODULE MmObserverProofs --------------------------
(***************************************************************************)
(* Two results about the observer and the bus under it, for any rules,     *)
(* modems, faults and owners.  A match rule somebody subscribed to         *)
(* outlives the connection it was added on: whatever the observer does, it *)
(* moves the transport by one of its own actions or not at all.  A row is  *)
(* removed only by the instance of ModemManager that is followed, unless   *)
(* the last change of owner overtook an answer that was being awaited:     *)
(* this is about what is under way on the bus, and in which order.         *)
(***************************************************************************)
EXTENDS MmObserver, FiniteSetTheorems, SequenceTheorems, TLAPS

\* A published bus is one no attempt works at any more, and the daemon holds
\* every rule whose subscription has returned.  An attempt begins with no rule
\* re-issued, and the daemon holds those that were answered since: when the
\* last one is, there is nothing left to add.
RuleInv ==
    /\ Connected => /\ socket = "open" /\ effort = "none" /\ done = {}
                    /\ refs \ adding \subseteq matched
    /\ socket = "shaking" => done = {}
    /\ socket = "open" => done \subseteq matched

\* What a step of the observer does to the transport.
TransportStep ==
    \/ Connect \/ Shaken \/ ShakeFails \/ ReissueEnds \/ ReissueFails \/ WakeUp
    \/ \E r \in Rules : Reissue(r) \/ Subscribe(r) \/ Added(r)
    \/ Drop \/ UnsubscribeAll \/ Disconnect

\* A call that times out is counted as a fault, and the connection is kept.
TransportKept == UNCHANGED <<state, closing, socket, effort, done, refs, adding, matched>>

LEMMA StepIsTransports ==
    ASSUME [Next]_vars
    PROVE  TransportStep \/ TransportKept
<1> USE DEF TransportStep, TransportKept, transportVars
<1>1. CASE Start \/ Handshake \/ HandshakeFails \/ Reissues \/ ReissueStops \/ Retry
  BY <1>1 DEF Start, Handshake, HandshakeFails, Reissues, ReissueStops, Retry
<1>2. CASE SubscribeNext \/ MatchAdded \/ Stop \/ CloseTransport
  BY <1>2 DEF SubscribeNext, MatchAdded, Stop, CloseTransport
<1>3. CASE \E restart \in BOOLEAN : LoseBus(restart)
  BY <1>3 DEF LoseBus
<1>4. CASE OnNameOwnerChanged \/ OnObjectSignal \/ OnReply
  BY <1>4 DEF OnNameOwnerChanged, OnObjectSignal, OnReply
<1>5. CASE AdoptOwner \/ RefreshLands \/ SetupLands \/ AdoptFirst \/ Answer
  BY <1>5 DEF AdoptOwner, RefreshLands, SetupLands, AdoptFirst, Answer
<1>6. CASE CallTimesOut \/ MmStarts \/ MmDies \/ \E m \in Modems : ModemChanges(m)
  BY <1>6 DEF CallTimesOut, MmStarts, MmDies, ModemChanges
<1>7. CASE UNCHANGED vars
  BY <1>7 DEF vars
<1> QED BY <1>1, <1>2, <1>3, <1>4, <1>5, <1>6, <1>7 DEF Next, Client, Environment

\* An attempt that is given up, or begun, is no published bus.
LEMMA AbandonKeepsRules ==
    ASSUME RuleInv, ~Connected, Abandon
    PROVE  RuleInv'
BY DEF RuleInv, Connected, Abandon

\* The bus an attempt publishes has every rule there is.
LEMMA PublishKeepsRules ==
    ASSUME NEW held, RuleInv, ~Connected, refs \subseteq held, Publish(held), refs' = refs
    PROVE  RuleInv'
<1>1. CASE closing
  BY <1>1, AbandonKeepsRules DEF Publish
<1>2. CASE ~closing
  BY <1>2 DEF Publish, RuleInv, Connected
<1> QED BY <1>1, <1>2

LEMMA RulesKept ==
    ASSUME RuleInv, TransportStep \/ TransportKept
    PROVE  RuleInv'
<1>1. CASE Connect
  BY <1>1 DEF Connect, StartEstablish, RuleInv, Connected
<1>2. CASE Shaken
  <2>1. ~Connected
    BY <1>2 DEF Shaken, RuleInv
  <2>2. CASE refs = {}
    BY <1>2, <2>1, <2>2, PublishKeepsRules DEF Shaken
  <2>3. CASE refs # {}
    BY <1>2, <2>1, <2>3 DEF Shaken, RuleInv, Connected
  <2> QED BY <2>2, <2>3
<1>3. CASE ShakeFails
  BY <1>3, AbandonKeepsRules DEF ShakeFails, RuleInv
<1>4. CASE \E r \in Rules : Reissue(r)
  <2> PICK r \in Rules : Reissue(r)
    BY <1>4
  <2>1. ~Connected /\ done \subseteq matched
    BY DEF Reissue, Reissuing, RuleInv
  <2>2. CASE refs \subseteq done \cup {r}
    BY <2>1, <2>2, PublishKeepsRules DEF Reissue
  <2>3. CASE ~(refs \subseteq done \cup {r})
    BY <2>1, <2>3 DEF Reissue, RuleInv, Connected
  <2> QED BY <2>2, <2>3
<1>5. CASE ReissueEnds
  BY <1>5, PublishKeepsRules DEF ReissueEnds, Reissuing, RuleInv
<1>6. CASE ReissueFails
  BY <1>6, AbandonKeepsRules DEF ReissueFails, Reissuing, RuleInv
<1>7. CASE WakeUp
  BY <1>7 DEF WakeUp, StartEstablish, RuleInv, Connected
<1>8. CASE Drop
  BY <1>8 DEF Drop, StartEstablish, RuleInv, Connected
<1>9. CASE \E r \in Rules : Subscribe(r) \/ Added(r)
  BY <1>9 DEF Subscribe, Added, RuleInv, Connected
<1>10. CASE UnsubscribeAll \/ Disconnect
  BY <1>10 DEF UnsubscribeAll, Disconnect, RuleInv, Connected
<1>11. CASE TransportKept
  BY <1>11 DEF TransportKept, RuleInv, Connected
<1> QED BY <1>1, <1>2, <1>3, <1>4, <1>5, <1>6, <1>7, <1>8, <1>9, <1>10, <1>11
        DEF TransportStep

\* While a bus is published the daemon holds every rule whose subscription has
\* returned, across any number of drops, failed attempts and reconnects
\* (transport.ts #establish, signals.ts reissueRules).
THEOREM SubscriptionsSurviveHolds == Spec => []SubscriptionsSurvive
<1>1. Init => RuleInv
  BY DEF Init, TransportInit, RuleInv, Connected
<1>2. RuleInv /\ [Next]_vars => RuleInv'
  BY StepIsTransports, RulesKept
<1>3. RuleInv => SubscriptionsSurvive
  BY DEF RuleInv, SubscriptionsSurvive
<1> QED BY <1>1, <1>2, <1>3, PTL DEF Spec

-----------------------------------------------------------------------------
(* What is under way between the observer and its bus.                       *)

SomeModems == {t \in SUBSET Modems : IsFiniteSet(t)}
Epochs == Nat \ {0}
Askers == {"start", "reconnect", "schedule"}
Calls == [call : {"owner"}, by : Askers] \cup [call : {"tree"}, epoch : Epochs, by : Askers]
           \cup [call : {"setup"}, modem : Modems]
Answers == [call : {"owner"}, by : Askers, name : Nat]
             \cup [call : {"tree"}, by : Askers, epoch : Epochs, from : Nat, ok : BOOLEAN,
                   tree : SomeModems]
             \cup [call : {"setup"}, modem : Modems, ok : BOOLEAN]
Messages == [kind : {"owner-changed"}, name : Nat] \cup [kind : {"object-changed"}, from : Nat]
              \cup [kind : {"reply"}, answer : Answers]

BusTypes ==
    /\ asked \in Seq(Calls) /\ wire \in Seq(Messages) /\ landed \in Seq(Answers)
    /\ owner \in Nat /\ names \in Nat /\ current \in Nat /\ tree \in SomeModems
    /\ overtaken \in BOOLEAN

\* Nothing but signals is under way before a bus is published.
Offline ==
    ~Connected => /\ asked = <<>> /\ landed = <<>>
                  /\ \A i \in 1..Len(wire) : wire[i].kind # "reply"

Active == phase \in {"adopting", "started"}

\* Where the observer is tells what the transport has, and is at.
ClientInv ==
    /\ phase \in {"new", "connecting", "subscribing", "adopting", "started", "failed", "stopped"}
    /\ effort = "connect" => phase = "connecting"
    /\ socket = "shaking" => effort \in {"connect", "loop"}
    /\ effort = "backoff" => socket = "none"
    /\ closing => phase \in {"failed", "stopped"}
    /\ phase \in {"new", "connecting"} => refs = {}
    /\ phase # "stopped" => matched \subseteq refs /\ adding \subseteq refs
    /\ Active => refs = Rules /\ adding = {}
    /\ phase = "adopting" => Connected

\* What tells the observer who owns the name, and the name in force at place i
\* of a queue, if base is the one at its front.
Tells(msg) == msg.kind = "owner-changed" \/ (msg.kind = "reply" /\ msg.answer.call = "owner")
NameTold(msg) == IF msg.kind = "owner-changed" THEN msg.name ELSE msg.answer.name

InForce(w, base, i, name) ==
    \/ name = base /\ \A j \in 1..(i - 1) : ~Tells(w[j])
    \/ \E j \in 1..(i - 1) : /\ Tells(w[j]) /\ NameTold(w[j]) = name
                             /\ \A k \in (j + 1)..(i - 1) : ~Tells(w[k])

\* The last it is told is nobody, or the owner.
Fresh(w, base, o) == \A name : InForce(w, base, Len(w) + 1, name) => name \in {0, o}

\* The adoption of start() and the refresh it awaits.
IsStart(c) == c.call \in {"owner", "tree"} /\ c.by = "start"
StartsAt(w, j) == w[j].kind = "reply" /\ IsStart(w[j].answer)
ReadsTree(w, i) == w[i].kind = "reply" /\ w[i].answer.call = "tree" /\ w[i].answer.ok

\* A tree that is read where its owner is followed is that owner's: whatever
\* comes before it says who served it.  A call that is still to be served finds
\* the observer told of the owner, or about to ask.  Before start() has adopted
\* an owner, with its rules on the wire (on), there is no such promise.
Sound(q, w, c, o, on) ==
    /\ Fresh(w, c, o) \/ \E i \in 1..Len(q) : q[i].call = "owner"
    /\ \A i \in 1..Len(q) :
          /\ q[i].call = "tree"
          /\ \/ on
             \/ \E j \in 1..Len(w) : StartsAt(w, j)
             \/ \E j \in 1..(i - 1) : IsStart(q[j])
          => Fresh(w, c, o) \/ \E j \in 1..(i - 1) : q[j].call = "owner"
    /\ \A i \in 1..Len(w) :
          /\ ReadsTree(w, i)
          /\ on \/ \E j \in 1..(i - 1) : StartsAt(w, j)
          => \A name : InForce(w, c, i, name) =>
                name \in {0, w[i].answer.from} \/ name # w[i].answer.epoch

\* What the observer has still to take up, in the order it will, and whom it
\* follows before.  A change of owner that overtook GetNameOwner's answer leaves
\* nothing to rely on but what comes behind both.
AsReply(a) == [kind |-> "reply", answer |-> a]
Answered(l) == [i \in 1..Len(l) |-> AsReply(l[i])]
Ahead == IF overtaken THEN wire ELSE Answered(landed) \o wire
Base == IF overtaken THEN 0 ELSE current
StartLanded == \E i \in 1..Len(landed) : IsStart(landed[i])
Promised == phase = "started" \/ (overtaken /\ StartLanded)

\* A change of owner on the wire was sent to a rule that is still there, so
\* that every change after it is there as well.
Signalled ==
    phase \notin {"failed", "stopped"} /\ (\E i \in 1..Len(wire) : wire[i].kind = "owner-changed") =>
        /\ "owner" \in matched /\ socket = "open"
        /\ \A name : InForce(wire, 0, Len(wire) + 1, name) => name = owner

\* start() asks once.
StartsOnce ==
    phase \in {"new", "connecting", "subscribing"} =>
        /\ ~StartLanded
        /\ \A i \in 1..Len(asked) : ~IsStart(asked[i])
        /\ \A i \in 1..Len(wire) : ~StartsAt(wire, i)

\* No name is known before its daemon gave it, and no tree is read for a name
\* whose owner is still to be heard of.
KnownAnswer(a, n, c) ==
    /\ a.call = "owner" => a.name <= n
    /\ a.call = "tree" => a.epoch <= n /\ c <= n
KnownCall(call, n, c) == call.call = "tree" => call.epoch <= n /\ c <= n
KnownMessage(msg, n, c) ==
    /\ msg.kind = "owner-changed" => msg.name <= n
    /\ msg.kind = "object-changed" => msg.from <= n
    /\ msg.kind = "reply" => KnownAnswer(msg.answer, n, c)

Known(q, w, l, c, o, n) ==
    /\ o <= n
    /\ \A i \in 1..Len(q) : KnownCall(q[i], n, c)
    /\ \A i \in 1..Len(w) : KnownMessage(w[i], n, c)
    /\ \A i \in 1..Len(l) : KnownAnswer(l[i], n, c)

Apart(w, l) ==
    \A i \in 1..Len(w) : w[i].kind = "owner-changed" /\ w[i].name # 0 =>
        /\ \A j \in 1..(i - 1) : ReadsTree(w, j) => w[j].answer.epoch # w[i].name
        /\ \A j \in 1..Len(l) : l[j].call = "tree" /\ l[j].ok => l[j].epoch # w[i].name

NamesInv == Known(asked, wire, landed, current, owner, names) /\ Apart(wire, landed)

BusInv ==
    /\ BusTypes /\ Offline /\ Signalled /\ StartsOnce /\ NamesInv
    /\ Active /\ Connected => Sound(asked, Ahead, Base, owner, Promised)


-----------------------------------------------------------------------------
(* The name in force, as a queue grows and is consumed.                      *)

LEMMA Appended ==
    \A w \in Seq(Messages), msg \in Messages :
        /\ Append(w, msg) \in Seq(Messages) /\ Len(Append(w, msg)) = Len(w) + 1 /\ Len(w) \in Nat
        /\ \A j \in 1..Len(w) : Append(w, msg)[j] = w[j]
        /\ Append(w, msg)[Len(w) + 1] = msg
OBVIOUS

LEMMA Consumed ==
    \A w \in Seq(Messages) : w # <<>> =>
        /\ Tail(w) \in Seq(Messages) /\ Len(Tail(w)) = Len(w) - 1 /\ Len(w) \in Nat \ {0}
        /\ Head(w) = w[1] /\ Head(w) \in Messages
        /\ \A j \in 1..(Len(w) - 1) : Tail(w)[j] = w[j + 1]
OBVIOUS

\* What is in force at a place does not depend on what comes after it; at the
\* end it is what the last message tells, or what was in force before it.
LEMMA InForceAppended ==
    \A base, name : \A w \in Seq(Messages), msg \in Messages :
        /\ \A i \in 1..(Len(w) + 1) :
              InForce(Append(w, msg), base, i, name) <=> InForce(w, base, i, name)
        /\ Tells(msg) => (InForce(Append(w, msg), base, Len(w) + 2, name) => name = NameTold(msg))
        /\ ~Tells(msg) => (InForce(Append(w, msg), base, Len(w) + 2, name)
                              => InForce(w, base, Len(w) + 1, name))
<1> SUFFICES ASSUME NEW w \in Seq(Messages), NEW msg \in Messages, NEW base, NEW name
             PROVE  /\ \A i \in 1..(Len(w) + 1) :
                          InForce(Append(w, msg), base, i, name) <=> InForce(w, base, i, name)
                    /\ Tells(msg) => (InForce(Append(w, msg), base, Len(w) + 2, name)
                                         => name = NameTold(msg))
                    /\ ~Tells(msg) => (InForce(Append(w, msg), base, Len(w) + 2, name)
                                          => InForce(w, base, Len(w) + 1, name))
  OBVIOUS
<1> DEFINE v == Append(w, msg)
<1>1. /\ Len(w) \in Nat /\ \A j \in 1..Len(w) : v[j] = w[j]
      /\ v[Len(w) + 1] = msg
  BY Appended
<1> HIDE DEF v
<1>2. ASSUME NEW i \in 1..(Len(w) + 1)
      PROVE  InForce(v, base, i, name) <=> InForce(w, base, i, name)
  BY <1>1 DEF InForce
<1>3. ASSUME Tells(msg), InForce(v, base, Len(w) + 2, name)
      PROVE  name = NameTold(msg)
  BY <1>1, <1>3 DEF InForce
<1>4. ASSUME ~Tells(msg), InForce(v, base, Len(w) + 2, name)
      PROVE  InForce(w, base, Len(w) + 1, name)
  BY <1>1, <1>4 DEF InForce
<1> QED BY <1>2, <1>3, <1>4 DEF v

\* What the first message tells is in force behind it.
LEMMA InForceConsumed ==
    \A base, after, name : \A w \in Seq(Messages) :
        w # <<>> /\ after = (IF Tells(Head(w)) THEN NameTold(Head(w)) ELSE base) =>
           \A i \in 1..Len(w) : InForce(Tail(w), after, i, name) <=> InForce(w, base, i + 1, name)
<1> SUFFICES ASSUME NEW w \in Seq(Messages), NEW base, NEW after, NEW name, w # <<>>,
                    after = (IF Tells(Head(w)) THEN NameTold(Head(w)) ELSE base),
                    NEW i \in 1..Len(w)
             PROVE  InForce(Tail(w), after, i, name) <=> InForce(w, base, i + 1, name)
  OBVIOUS
<1> DEFINE v == Tail(w)
<1>1. /\ Len(w) \in Nat \ {0} /\ Head(w) = w[1]
      /\ \A j \in 1..(Len(w) - 1) : v[j] = w[j + 1]
  BY Consumed
<1> HIDE DEF v
<1>2. ASSUME InForce(v, after, i, name)
      PROVE  InForce(w, base, i + 1, name)
  <2>1. CASE name = after /\ \A j \in 1..(i - 1) : ~Tells(v[j])
    <3>1. \A k \in 2..i : ~Tells(w[k])
      <4> TAKE k \in 2..i
      <4>1. k - 1 \in 1..(i - 1) /\ v[k - 1] = w[k]
        BY <1>1
      <4> QED BY <2>1, <4>1
    <3>2. CASE Tells(w[1])
      BY <1>1, <2>1, <3>1, <3>2 DEF InForce
    <3>3. CASE ~Tells(w[1])
      BY <1>1, <2>1, <3>1, <3>3 DEF InForce
    <3> QED BY <3>2, <3>3
  <2>2. CASE \E j \in 1..(i - 1) : /\ Tells(v[j]) /\ NameTold(v[j]) = name
                                   /\ \A k \in (j + 1)..(i - 1) : ~Tells(v[k])
    <3> PICK j \in 1..(i - 1) : /\ Tells(v[j]) /\ NameTold(v[j]) = name
                                /\ \A k \in (j + 1)..(i - 1) : ~Tells(v[k])
      BY <2>2
    <3>1. v[j] = w[j + 1] /\ j + 1 \in 1..i
      BY <1>1
    <3>2. \A k \in (j + 2)..i : ~Tells(w[k])
      <4> TAKE k \in (j + 2)..i
      <4>1. k - 1 \in (j + 1)..(i - 1) /\ v[k - 1] = w[k]
        BY <1>1
      <4> QED BY <4>1
    <3> QED BY <3>1, <3>2 DEF InForce
  <2> QED BY <1>2, <2>1, <2>2 DEF InForce
<1>3. ASSUME InForce(w, base, i + 1, name)
      PROVE  InForce(v, after, i, name)
  <2>1. CASE name = base /\ \A j \in 1..i : ~Tells(w[j])
    BY <1>1, <2>1 DEF InForce
  <2>2. CASE \E j \in 1..i : /\ Tells(w[j]) /\ NameTold(w[j]) = name
                             /\ \A k \in (j + 1)..i : ~Tells(w[k])
    <3> PICK j \in 1..i : /\ Tells(w[j]) /\ NameTold(w[j]) = name
                          /\ \A k \in (j + 1)..i : ~Tells(w[k])
      BY <2>2
    <3>1. \A k \in j..(i - 1) : ~Tells(v[k])
      <4> TAKE k \in j..(i - 1)
      <4>1. k + 1 \in (j + 1)..i /\ v[k] = w[k + 1]
        BY <1>1
      <4> QED BY <4>1
    <3>2. CASE j = 1
      BY <1>1, <3>1, <3>2 DEF InForce
    <3>3. CASE j # 1
      <4>1. j - 1 \in 1..(i - 1) /\ v[j - 1] = w[j]
        BY <1>1, <3>3
      <4> QED BY <3>1, <4>1 DEF InForce
    <3> QED BY <3>2, <3>3
  <2> QED BY <1>3, <2>1, <2>2 DEF InForce
<1> QED BY <1>2, <1>3 DEF v

-----------------------------------------------------------------------------
(* Queues that are joined.                                                   *)

LEMMA Joined ==
    \A p, t \in Seq(Messages) :
        /\ p \o t \in Seq(Messages) /\ Len(p \o t) = Len(p) + Len(t)
        /\ Len(p) \in Nat /\ Len(t) \in Nat
        /\ \A i \in 1..Len(p) : (p \o t)[i] = p[i]
        /\ \A i \in 1..Len(t) : (p \o t)[Len(p) + i] = t[i]
OBVIOUS

LEMMA AnsweredElements ==
    \A l \in Seq(Answers) :
        /\ Answered(l) \in Seq(Messages) /\ Len(Answered(l)) = Len(l) /\ Len(l) \in Nat
        /\ \A i \in 1..Len(l) : /\ Answered(l)[i] = AsReply(l[i])
                                /\ l[i] \in Answers
<1> SUFFICES ASSUME NEW l \in Seq(Answers)
             PROVE  /\ Answered(l) \in Seq(Messages) /\ Len(Answered(l)) = Len(l) /\ Len(l) \in Nat
                    /\ \A i \in 1..Len(l) : /\ Answered(l)[i] = AsReply(l[i])
                                            /\ l[i] \in Answers
  OBVIOUS
<1>1. Len(l) \in Nat /\ \A i \in 1..Len(l) : l[i] \in Answers
  OBVIOUS
<1> DEFINE n == Len(l)
           f[i \in 1..n] == AsReply(l[i])
<1>2. \A i \in 1..n : AsReply(l[i]) \in Messages
  BY <1>1 DEF Messages, AsReply
<1>3. f \in [1..n -> Messages] /\ \A i \in 1..n : f[i] = AsReply(l[i])
  BY <1>2
<1>4. f = Answered(l)
  BY DEF Answered
<1> HIDE DEF f
<1>5. f \in Seq(Messages) /\ Len(f) = n
  BY <1>1, <1>3
<1> QED BY <1>1, <1>3, <1>4, <1>5

\* A message behind what is joined is behind its second part.
LEMMA JoinedAppended ==
    \A p, t \in Seq(Messages), msg \in Messages : Append(p \o t, msg) = p \o Append(t, msg)
<1> SUFFICES ASSUME NEW p \in Seq(Messages), NEW t \in Seq(Messages), NEW msg \in Messages
             PROVE  Append(p \o t, msg) = p \o Append(t, msg)
  OBVIOUS
<1>1. Append(p \o t, msg) \in Seq(Messages) /\ p \o Append(t, msg) \in Seq(Messages)
  OBVIOUS
<1>2. Len(Append(p \o t, msg)) = Len(p \o Append(t, msg))
  OBVIOUS
<1>3. \A i \in 1..Len(Append(p \o t, msg)) : Append(p \o t, msg)[i] = (p \o Append(t, msg))[i]
  OBVIOUS
<1> QED BY <1>1, <1>2, <1>3, SeqEqual

\* The first of what is joined is the first of its first part.
LEMMA JoinedTaken ==
    \A p, t \in Seq(Messages) : p # <<>> =>
        p \o t # <<>> /\ Head(p \o t) = Head(p) /\ Tail(p \o t) = Tail(p) \o t
<1> SUFFICES ASSUME NEW p \in Seq(Messages), NEW t \in Seq(Messages), p # <<>>
             PROVE  p \o t # <<>> /\ Head(p \o t) = Head(p) /\ Tail(p \o t) = Tail(p) \o t
  OBVIOUS
<1> DEFINE u == p \o t
           q == Tail(p)
           v == q \o t
<1>1. /\ q \in Seq(Messages) /\ Len(q) = Len(p) - 1 /\ Len(p) \in Nat \ {0} /\ Head(p) = p[1]
      /\ \A j \in 1..(Len(p) - 1) : q[j] = p[j + 1]
  BY Consumed
<1>2. /\ u \in Seq(Messages) /\ Len(u) = Len(p) + Len(t) /\ Len(t) \in Nat
      /\ \A i \in 1..Len(p) : u[i] = p[i]
      /\ \A i \in 1..Len(t) : u[Len(p) + i] = t[i]
  BY Joined
<1> HIDE DEF q
<1>3. /\ v \in Seq(Messages) /\ Len(v) = Len(q) + Len(t)
      /\ \A i \in 1..Len(q) : v[i] = q[i]
      /\ \A i \in 1..Len(t) : v[Len(q) + i] = t[i]
  BY <1>1, Joined
<1> HIDE DEF u, v
<1>4. u # <<>> /\ Head(u) = p[1]
  BY <1>1, <1>2
<1>5. /\ Tail(u) \in Seq(Messages) /\ Len(Tail(u)) = Len(u) - 1
      /\ \A j \in 1..(Len(u) - 1) : Tail(u)[j] = u[j + 1]
  BY <1>2, <1>4, Consumed
<1>6. ASSUME NEW i \in 1..Len(v)
      PROVE  Tail(u)[i] = v[i]
  <2>1. Tail(u)[i] = u[i + 1]
    BY <1>1, <1>2, <1>3, <1>5
  <2>2. CASE i \in 1..Len(q)
    BY <1>1, <1>2, <1>3, <2>1, <2>2
  <2>3. CASE i \notin 1..Len(q)
    <3> DEFINE k == i - Len(q)
    <3>1. k \in 1..Len(t) /\ i = Len(q) + k /\ i + 1 = Len(p) + k
      BY <1>1, <1>2, <1>3, <2>3
    <3> HIDE DEF k
    <3>2. v[i] = t[k]
      BY <1>3, <3>1
    <3>3. u[i + 1] = t[k]
      BY <1>2, <3>1
    <3> QED BY <2>1, <3>2, <3>3
  <2> QED BY <2>2, <2>3
<1>7. Len(Tail(u)) = Len(v)
  BY <1>1, <1>2, <1>3, <1>5
<1>8. Tail(u) = v
  BY <1>3, <1>5, <1>6, <1>7, SeqEqual
<1> QED BY <1>1, <1>4, <1>8 DEF u, v, q

\* The first answer of those that landed is the first thing to be taken up.
LEMMA AnsweredFirst ==
    \A l \in Seq(Answers), w \in Seq(Messages) : l # <<>> =>
        /\ Answered(l) \o w # <<>>
        /\ Head(Answered(l) \o w) = AsReply(Head(l))
        /\ Tail(Answered(l) \o w) = Answered(Tail(l)) \o w
        /\ Tail(l) \in Seq(Answers) /\ Head(l) \in Answers
<1> SUFFICES ASSUME NEW l \in Seq(Answers), NEW w \in Seq(Messages), l # <<>>
             PROVE  /\ Answered(l) \o w # <<>>
                    /\ Head(Answered(l) \o w) = AsReply(Head(l))
                    /\ Tail(Answered(l) \o w) = Answered(Tail(l)) \o w
                    /\ Tail(l) \in Seq(Answers) /\ Head(l) \in Answers
  OBVIOUS
<1> DEFINE a == Answered(l)
           b == Answered(Tail(l))
<1>1. /\ Tail(l) \in Seq(Answers) /\ Len(Tail(l)) = Len(l) - 1 /\ Len(l) \in Nat \ {0}
      /\ Head(l) = l[1] /\ Head(l) \in Answers
      /\ \A j \in 1..(Len(l) - 1) : Tail(l)[j] = l[j + 1]
  OBVIOUS
<1>2. /\ a \in Seq(Messages) /\ Len(a) = Len(l)
      /\ \A i \in 1..Len(l) : a[i] = AsReply(l[i])
  BY AnsweredElements
<1>3. /\ b \in Seq(Messages) /\ Len(b) = Len(l) - 1
      /\ \A i \in 1..(Len(l) - 1) : b[i] = AsReply(Tail(l)[i])
  BY <1>1, AnsweredElements
<1> HIDE DEF a, b
<1>4. /\ a # <<>> /\ Head(a) = a[1] /\ Tail(a) \in Seq(Messages) /\ Len(Tail(a)) = Len(a) - 1
      /\ \A j \in 1..(Len(a) - 1) : Tail(a)[j] = a[j + 1]
  BY <1>1, <1>2, Consumed
<1>5. ASSUME NEW i \in 1..Len(b)
      PROVE  Tail(a)[i] = b[i]
  <2>1. i \in 1..(Len(l) - 1) /\ i + 1 \in 1..Len(l)
    BY <1>1, <1>3
  <2>2. b[i] = AsReply(l[i + 1]) /\ a[i + 1] = AsReply(l[i + 1])
    BY <1>1, <1>2, <1>3, <2>1
  <2>3. Tail(a)[i] = a[i + 1]
    BY <1>2, <1>4, <2>1
  <2> QED BY <2>2, <2>3
<1>6. Tail(a) = b
  BY <1>2, <1>3, <1>4, <1>5, SeqEqual
<1>7. a \o w # <<>> /\ Head(a \o w) = Head(a) /\ Tail(a \o w) = Tail(a) \o w
  BY <1>2, <1>4, JoinedTaken
<1>8. Head(a) = AsReply(Head(l))
  <2>1. 1 \in 1..Len(l)
    BY <1>1
  <2>2. a[1] = AsReply(l[1])
    BY <1>2, <2>1
  <2> QED BY <1>1, <1>4, <2>2
<1> QED BY <1>1, <1>6, <1>7, <1>8 DEF a, b

\* A reply that lands keeps its place.
LEMMA AnsweredNext ==
    \A l \in Seq(Answers), w \in Seq(Messages) : w # <<>> /\ Head(w).kind = "reply" =>
        /\ Append(l, Head(w).answer) \in Seq(Answers)
        /\ Answered(Append(l, Head(w).answer)) \o Tail(w) = Answered(l) \o w
<1> SUFFICES ASSUME NEW l \in Seq(Answers), NEW w \in Seq(Messages), w # <<>>, Head(w).kind = "reply"
             PROVE  /\ Append(l, Head(w).answer) \in Seq(Answers)
                    /\ Answered(Append(l, Head(w).answer)) \o Tail(w) = Answered(l) \o w
  OBVIOUS
<1> DEFINE r == Head(w).answer
           a == Answered(l)
           b == Answered(Append(l, r))
           v == Tail(w)
<1>1. /\ Len(w) \in Nat \ {0} /\ Len(v) = Len(w) - 1 /\ Head(w) = w[1] /\ v \in Seq(Messages)
      /\ \A j \in 1..(Len(w) - 1) : v[j] = w[j + 1]
  BY Consumed
<1>2. r \in Answers /\ w[1] = AsReply(r)
  BY <1>1, Consumed DEF Messages, AsReply
<1> HIDE DEF r, v
<1>3. /\ Append(l, r) \in Seq(Answers) /\ Len(Append(l, r)) = Len(l) + 1 /\ Len(l) \in Nat
      /\ \A j \in 1..Len(l) : Append(l, r)[j] = l[j]
      /\ Append(l, r)[Len(l) + 1] = r
  BY <1>2
<1>4. /\ a \in Seq(Messages) /\ Len(a) = Len(l) /\ b \in Seq(Messages) /\ Len(b) = Len(l) + 1
      /\ b[Len(l) + 1] = w[1]
      /\ \A i \in 1..Len(l) : b[i] = a[i]
  <2>1. a \in Seq(Messages) /\ Len(a) = Len(l) /\ \A i \in 1..Len(l) : a[i] = AsReply(l[i])
    BY AnsweredElements
  <2> DEFINE m == Append(l, r)
  <2>2. m \in Seq(Answers) /\ b = Answered(m)
    BY <1>3
  <2>3. Len(m) = Len(l) + 1 /\ m[Len(l) + 1] = r /\ \A j \in 1..Len(l) : m[j] = l[j]
    BY <1>3
  <2> HIDE DEF m, a, b
  <2>4. b \in Seq(Messages) /\ Len(b) = Len(m) /\ \A i \in 1..Len(m) : b[i] = AsReply(m[i])
    BY <2>2, AnsweredElements
  <2>5. b[Len(l) + 1] = w[1]
    <3>1. Len(l) + 1 \in 1..Len(m)
      BY <1>3, <2>3
    <3>2. b[Len(l) + 1] = AsReply(m[Len(l) + 1])
      BY <2>4, <3>1
    <3> QED BY <1>2, <2>3, <3>2
  <2>6. ASSUME NEW i \in 1..Len(l)
        PROVE  b[i] = a[i]
    <3>1. i \in 1..Len(m) /\ m[i] = l[i]
      BY <1>3, <2>3
    <3>2. b[i] = AsReply(m[i])
      BY <2>4, <3>1
    <3> QED BY <2>1, <3>1, <3>2
  <2> QED BY <2>1, <2>3, <2>4, <2>5, <2>6
<1> HIDE DEF a, b
<1>5. /\ b \o v \in Seq(Messages) /\ Len(b \o v) = Len(b) + Len(v)
      /\ \A i \in 1..Len(b) : (b \o v)[i] = b[i]
      /\ \A i \in 1..Len(v) : (b \o v)[Len(b) + i] = v[i]
  BY <1>1, <1>4, Joined
<1>6. /\ a \o w \in Seq(Messages) /\ Len(a \o w) = Len(a) + Len(w)
      /\ \A i \in 1..Len(a) : (a \o w)[i] = a[i]
      /\ \A i \in 1..Len(w) : (a \o w)[Len(a) + i] = w[i]
  BY <1>4, Joined
<1>7. b \o v = a \o w
  <2> DEFINE x == b \o v
             y == a \o w
  <2> HIDE DEF x, y
  <2>1. Len(x) = Len(y) /\ x \in Seq(Messages) /\ y \in Seq(Messages)
    BY <1>1, <1>3, <1>4, <1>5, <1>6 DEF x, y
  <2>2. ASSUME NEW i \in 1..Len(x)
        PROVE  x[i] = y[i]
    <3>1. CASE i \in 1..Len(l)
      BY <1>3, <1>4, <1>5, <1>6, <3>1 DEF x, y
    <3>2. CASE i = Len(l) + 1
      <4>1. x[i] = w[1]
        <5>1. i \in 1..Len(b) /\ b[i] = w[1]
          BY <1>3, <1>4, <3>2
        <5> QED BY <1>5, <5>1 DEF x
      <4>2. y[i] = w[1]
        <5>1. 1 \in 1..Len(w) /\ i = Len(a) + 1
          BY <1>1, <1>4, <3>2
        <5> QED BY <1>6, <5>1 DEF y
      <4> QED BY <4>1, <4>2
    <3>3. CASE i \in 1..Len(x) /\ i > Len(l) + 1
      <4> DEFINE k == i - (Len(l) + 1)
      <4>1. k \in 1..Len(v) /\ i = Len(b) + k /\ i = Len(a) + (k + 1) /\ k + 1 \in 1..Len(w)
        BY <1>1, <1>3, <1>4, <1>5, <3>3 DEF x
      <4> HIDE DEF k
      <4>2. x[i] = v[k] /\ y[i] = w[k + 1] /\ v[k] = w[k + 1]
        BY <1>1, <1>5, <1>6, <4>1 DEF x, y
      <4> QED BY <4>2
    <3> QED BY <1>3, <2>2, <3>1, <3>2, <3>3
  <2> QED BY <2>1, <2>2, SeqEqual DEF x, y
<1> QED BY <1>3, <1>7 DEF a, b, r, v

-----------------------------------------------------------------------------

-----------------------------------------------------------------------------
(* Soundness, as calls are asked and served, and messages taken up.          *)

LEMMA AskedElements ==
    \A q \in Seq(Calls) : q # <<>> =>
        /\ Tail(q) \in Seq(Calls) /\ Len(Tail(q)) = Len(q) - 1 /\ Len(q) \in Nat \ {0}
        /\ Head(q) = q[1] /\ Head(q) \in Calls
        /\ \A j \in 1..(Len(q) - 1) : Tail(q)[j] = q[j + 1]
OBVIOUS

\* Whatever is asked behind what is under way.
LEMMA SoundAsking ==
    \A w, c, o, on : \A q, e \in Seq(Calls) :
        Sound(q, w, c, o, on) => Sound(q \o e, w, c, o, on)
<1> SUFFICES ASSUME NEW w, NEW c, NEW o, NEW on, NEW q \in Seq(Calls), NEW e \in Seq(Calls),
                    Sound(q, w, c, o, on)
             PROVE  Sound(q \o e, w, c, o, on)
  OBVIOUS
<1> DEFINE v == q \o e
           fresh == Fresh(w, c, o)
<1>1. /\ Len(v) \in Nat /\ Len(q) \in Nat /\ Len(q) <= Len(v)
      /\ \A i \in 1..Len(q) : v[i] = q[i]
  OBVIOUS
<1> HIDE DEF v, fresh
<1>2. fresh \/ \E i \in 1..Len(q) : q[i].call = "owner"
  BY DEF Sound, fresh
<1>3. fresh \/ \E i \in 1..Len(v) : v[i].call = "owner"
  BY <1>1, <1>2
<1>4. ASSUME NEW i \in 1..Len(v), v[i].call = "tree",
             \/ on
             \/ \E j \in 1..Len(w) : StartsAt(w, j)
             \/ \E j \in 1..(i - 1) : IsStart(v[j])
      PROVE  fresh \/ \E j \in 1..(i - 1) : v[j].call = "owner"
  <2>1. CASE i \in 1..Len(q)
    <3>1. \A j \in 1..(i - 1) : v[j] = q[j]
      BY <1>1, <2>1
    <3> QED BY <1>1, <1>4, <2>1, <3>1 DEF Sound, fresh
  <2>2. CASE i > Len(q)
    BY <1>1, <1>2, <2>2
  <2> QED BY <1>1, <2>1, <2>2
<1>5. ASSUME NEW i \in 1..Len(w), ReadsTree(w, i), on \/ \E j \in 1..(i - 1) : StartsAt(w, j),
             NEW name, InForce(w, c, i, name)
      PROVE  name \in {0, w[i].answer.from} \/ name # w[i].answer.epoch
  BY <1>5 DEF Sound
<1> QED BY <1>3, <1>4, <1>5 DEF Sound, v, fresh

\* One queue for another, if every tree that is read in the one, and what is
\* told last in it, is so in the other.
Holds(v, d, i, off, w, c, k, on) ==
    /\ w[k] = v[i]
    /\ off \/ (\E j \in 1..(i - 1) : StartsAt(v, j)) => on \/ \E j \in 1..(k - 1) : StartsAt(w, j)
    /\ \A name : InForce(v, d, i, name) =>
          name = 0 \/ name # v[i].answer.epoch \/ InForce(w, c, k, name)

Mapped(v, d, off, w, c, on) ==
    /\ \A name : InForce(v, d, Len(v) + 1, name) => name = 0 \/ InForce(w, c, Len(w) + 1, name)
    /\ off \/ (\E j \in 1..Len(v) : StartsAt(v, j)) => on \/ \E j \in 1..Len(w) : StartsAt(w, j)
    /\ \A i \in 1..Len(v) : ReadsTree(v, i) =>
          \/ \E k \in 1..Len(w) : Holds(v, d, i, off, w, c, k, on)
          \/ \A name : InForce(v, d, i, name) => name = 0 \/ name # v[i].answer.epoch

LEMMA SoundMapped ==
    ASSUME NEW q, NEW c, NEW d, NEW o, NEW on, NEW off, NEW w, NEW v,
           Sound(q, w, c, o, on), Mapped(v, d, off, w, c, on)
    PROVE  Sound(q, v, d, o, off)
<1>1. Fresh(w, c, o) => Fresh(v, d, o)
  BY DEF Fresh, Mapped
<1>2. Fresh(v, d, o) \/ \E i \in 1..Len(q) : q[i].call = "owner"
  BY <1>1 DEF Sound
<1>3. ASSUME NEW i \in 1..Len(q), q[i].call = "tree",
             \/ off
             \/ \E j \in 1..Len(v) : StartsAt(v, j)
             \/ \E j \in 1..(i - 1) : IsStart(q[j])
      PROVE  Fresh(v, d, o) \/ \E j \in 1..(i - 1) : q[j].call = "owner"
  <2>1. \/ on
        \/ \E j \in 1..Len(w) : StartsAt(w, j)
        \/ \E j \in 1..(i - 1) : IsStart(q[j])
    BY <1>3 DEF Mapped
  <2>2. Fresh(w, c, o) \/ \E j \in 1..(i - 1) : q[j].call = "owner"
    BY <1>3, <2>1 DEF Sound
  <2> QED BY <1>1, <2>2
<1>4. ASSUME NEW i \in 1..Len(v), ReadsTree(v, i), off \/ \E j \in 1..(i - 1) : StartsAt(v, j),
             NEW name, InForce(v, d, i, name)
      PROVE  name \in {0, v[i].answer.from} \/ name # v[i].answer.epoch
  <2>1. CASE \A n : InForce(v, d, i, n) => n = 0 \/ n # v[i].answer.epoch
    BY <1>4, <2>1
  <2>2. CASE \E k \in 1..Len(w) : Holds(v, d, i, off, w, c, k, on)
    <3>1. PICK k \in 1..Len(w) : Holds(v, d, i, off, w, c, k, on)
      BY <2>2
    <3>2. w[k] = v[i] /\ ReadsTree(w, k)
      BY <1>4, <3>1 DEF Holds, ReadsTree
    <3>3. on \/ \E j \in 1..(k - 1) : StartsAt(w, j)
      BY <1>4, <3>1 DEF Holds
    <3>4. name = 0 \/ name # v[i].answer.epoch \/ InForce(w, c, k, name)
      BY <1>4, <3>1 DEF Holds
    <3>5. \A n : InForce(w, c, k, n) => n \in {0, w[k].answer.from} \/ n # w[k].answer.epoch
      BY <3>2, <3>3 DEF Sound
    <3> QED BY <3>2, <3>4, <3>5
  <2> QED BY <1>4, <2>1, <2>2 DEF Mapped
<1> QED BY <1>2, <1>3, <1>4 DEF Sound

\* Less is promised where nobody is followed, and where start() has not come as
\* far.
LEMMA SoundForgets ==
    \A q, c, d, o, on, off : \A w \in Seq(Messages) :
        Sound(q, w, c, o, on) /\ d \in {0, c} /\ (off => on) => Sound(q, w, d, o, off)
<1> SUFFICES ASSUME NEW q, NEW c, NEW d, NEW o, NEW on, NEW off, NEW w \in Seq(Messages),
                    Sound(q, w, c, o, on), d \in {0, c}, off => on
             PROVE  Sound(q, w, d, o, off)
  OBVIOUS
<1>1. \A i, name : InForce(w, d, i, name) => name = 0 \/ InForce(w, c, i, name)
  BY DEF InForce
<1>2. \A i \in 1..Len(w) : Holds(w, d, i, off, w, c, i, on)
  BY <1>1 DEF Holds
<1>3. Mapped(w, d, off, w, c, on)
  BY <1>1, <1>2 DEF Mapped
<1> QED BY <1>3, SoundMapped

\* The first message is taken up, and what it tells followed.
LEMMA SoundHeard ==
    \A q, c, o, on, off, after : \A w \in Seq(Messages) :
        /\ Sound(q, w, c, o, on) /\ w # <<>>
        /\ after = (IF Tells(Head(w)) THEN NameTold(Head(w)) ELSE c)
        /\ off => on \/ StartsAt(w, 1)
        => Sound(q, Tail(w), after, o, off)
<1> SUFFICES ASSUME NEW q, NEW c, NEW o, NEW on, NEW off, NEW after, NEW w \in Seq(Messages),
                    Sound(q, w, c, o, on), w # <<>>,
                    after = (IF Tells(Head(w)) THEN NameTold(Head(w)) ELSE c),
                    off => on \/ StartsAt(w, 1)
             PROVE  Sound(q, Tail(w), after, o, off)
  OBVIOUS
<1> DEFINE v == Tail(w)
<1>1. /\ Len(w) \in Nat \ {0} /\ Len(v) = Len(w) - 1 /\ Head(w) = w[1] /\ v \in Seq(Messages)
      /\ \A j \in 1..(Len(w) - 1) : v[j] = w[j + 1]
  BY Consumed
<1>2. \A name : \A i \in 1..Len(w) : InForce(v, after, i, name) <=> InForce(w, c, i + 1, name)
  BY InForceConsumed
<1> HIDE DEF v
<1>3. \A name : InForce(v, after, Len(v) + 1, name) => InForce(w, c, Len(w) + 1, name)
  BY <1>1, <1>2
<1>4. \A j \in 1..Len(v) : v[j] = w[j + 1] /\ j + 1 \in 1..Len(w) /\ (StartsAt(v, j) <=> StartsAt(w, j + 1))
  BY <1>1 DEF StartsAt
<1>5. off \/ (\E j \in 1..Len(v) : StartsAt(v, j)) => on \/ \E j \in 1..Len(w) : StartsAt(w, j)
  <2>1. 1 \in 1..Len(w)
    BY <1>1
  <2> QED BY <1>4, <2>1
<1>6. ASSUME NEW i \in 1..Len(v)
      PROVE  \E k \in 1..Len(w) : Holds(v, after, i, off, w, c, k, on)
  <2>1. i + 1 \in 1..Len(w) /\ w[i + 1] = v[i] /\ (i + 1) - 1 = i /\ i \in 1..Len(w)
    BY <1>1, <1>4
  <2>2. off \/ (\E j \in 1..(i - 1) : StartsAt(v, j)) => on \/ \E j \in 1..i : StartsAt(w, j)
    <3>1. 1 \in 1..i
      BY <1>1
    <3>2. \A j \in 1..(i - 1) : j \in 1..Len(v) /\ j + 1 \in 1..i
      BY <1>1
    <3> QED BY <1>4, <3>1, <3>2
  <2>3. \A name : InForce(v, after, i, name) => InForce(w, c, i + 1, name)
    BY <1>2, <2>1
  <2>4. Holds(v, after, i, off, w, c, i + 1, on)
    BY <2>1, <2>2, <2>3 DEF Holds
  <2> QED BY <2>1, <2>4
<1>7. Mapped(v, after, off, w, c, on)
  BY <1>3, <1>5, <1>6 DEF Mapped
<1>8. Sound(q, v, after, o, off)
  BY <1>7, SoundMapped
<1> QED BY <1>8 DEF v

\* The name in force in queues that are joined.
LEMMA InForceJoined ==
    \A base : \A p, t \in Seq(Messages) :
        /\ \A name : \A i \in 1..(Len(p) + 1) : InForce(p \o t, base, i, name) <=> InForce(p, base, i, name)
        /\ \A name, d : \A i \in 1..(Len(t) + 1) :
              /\ InForce(t, 0, i, name) => name = 0 \/ InForce(p \o t, base, Len(p) + i, name)
              /\ (\A n : InForce(p, base, Len(p) + 1, n) => n = d) /\ InForce(p \o t, base, Len(p) + i, name)
                    => InForce(t, d, i, name)
<1> SUFFICES ASSUME NEW base, NEW p \in Seq(Messages), NEW t \in Seq(Messages)
             PROVE  /\ \A name : \A i \in 1..(Len(p) + 1) :
                          InForce(p \o t, base, i, name) <=> InForce(p, base, i, name)
                    /\ \A name, d : \A i \in 1..(Len(t) + 1) :
                          /\ InForce(t, 0, i, name) => name = 0 \/ InForce(p \o t, base, Len(p) + i, name)
                          /\ (\A n : InForce(p, base, Len(p) + 1, n) => n = d)
                                /\ InForce(p \o t, base, Len(p) + i, name) => InForce(t, d, i, name)
  OBVIOUS
<1> DEFINE u == p \o t
<1>1. /\ u \in Seq(Messages) /\ Len(u) = Len(p) + Len(t) /\ Len(p) \in Nat /\ Len(t) \in Nat
      /\ \A i \in 1..Len(p) : u[i] = p[i]
      /\ \A i \in 1..Len(t) : u[Len(p) + i] = t[i]
  BY Joined
<1> HIDE DEF u
<1>2. ASSUME NEW name, NEW i \in 1..(Len(p) + 1)
      PROVE  InForce(u, base, i, name) <=> InForce(p, base, i, name)
  <2>1. \A j \in 1..(i - 1) : u[j] = p[j]
    BY <1>1
  <2>2. \A j \in 1..(i - 1) : \A k \in (j + 1)..(i - 1) : k \in 1..(i - 1)
    BY <1>1
  <2> QED BY <2>1, <2>2 DEF InForce
<1>3. ASSUME NEW name, NEW i \in 1..(Len(t) + 1), InForce(t, 0, i, name), name # 0
      PROVE  InForce(u, base, Len(p) + i, name)
  <2>1. PICK j \in 1..(i - 1) : /\ Tells(t[j]) /\ NameTold(t[j]) = name
                                /\ \A k \in (j + 1)..(i - 1) : ~Tells(t[k])
    BY <1>3 DEF InForce
  <2>2. Len(p) + j \in 1..((Len(p) + i) - 1) /\ u[Len(p) + j] = t[j]
    BY <1>1
  <2>3. ASSUME NEW k \in ((Len(p) + j) + 1)..((Len(p) + i) - 1)
        PROVE  ~Tells(u[k])
    <3>1. k - Len(p) \in (j + 1)..(i - 1) /\ k - Len(p) \in 1..Len(t) /\ Len(p) + (k - Len(p)) = k
      BY <1>1
    <3> QED BY <1>1, <2>1, <3>1
  <2> QED BY <2>1, <2>2, <2>3 DEF InForce
<1>4. ASSUME NEW name, NEW d, NEW i \in 1..(Len(t) + 1), \A n : InForce(p, base, Len(p) + 1, n) => n = d,
             InForce(u, base, Len(p) + i, name)
      PROVE  InForce(t, d, i, name)
  <2> DEFINE e == (Len(p) + i) - 1
  <2>1. e \in Nat /\ e = Len(p) + (i - 1) /\ e <= Len(u)
    BY <1>1
  <2>2. \A k \in 1..(i - 1) : u[Len(p) + k] = t[k] /\ Len(p) + k \in 1..e
    BY <1>1
  <2>3. CASE \A k \in 1..(i - 1) : ~Tells(t[k])
    <3>1. \A k \in (Len(p) + 1)..e : ~Tells(u[k])
      <4> TAKE k \in (Len(p) + 1)..e
      <4>1. k - Len(p) \in 1..(i - 1) /\ Len(p) + (k - Len(p)) = k
        BY <1>1
      <4> QED BY <2>2, <2>3, <4>1
    <3>2. CASE name = base /\ \A j \in 1..e : ~Tells(u[j])
      <4>1. \A j \in 1..Len(p) : j \in 1..e /\ u[j] = p[j]
        BY <1>1
      <4>2. \A j \in 1..((Len(p) + 1) - 1) : ~Tells(p[j])
        BY <1>1, <3>2, <4>1
      <4>3. InForce(p, base, Len(p) + 1, name)
        BY <3>2, <4>2 DEF InForce
      <4> QED BY <1>4, <2>3, <4>3 DEF InForce
    <3>3. CASE \E j \in 1..e : /\ Tells(u[j]) /\ NameTold(u[j]) = name
                               /\ \A k \in (j + 1)..e : ~Tells(u[k])
      <4> PICK j \in 1..e : /\ Tells(u[j]) /\ NameTold(u[j]) = name
                            /\ \A k \in (j + 1)..e : ~Tells(u[k])
        BY <3>3
      <4>1. j \in 1..Len(p) /\ u[j] = p[j]
        BY <1>1, <2>1, <3>1
      <4>2. \A k \in (j + 1)..((Len(p) + 1) - 1) : k \in (j + 1)..e /\ u[k] = p[k]
        BY <1>1, <2>1
      <4>3. j \in 1..((Len(p) + 1) - 1)
        BY <1>1, <4>1
      <4>4. InForce(p, base, Len(p) + 1, name)
        BY <4>1, <4>2, <4>3 DEF InForce
      <4> QED BY <1>4, <2>3, <4>4 DEF InForce
    <3> QED BY <1>4, <3>2, <3>3 DEF InForce
  <2>4. CASE \E k \in 1..(i - 1) : Tells(t[k])
    <3> PICK x \in 1..(i - 1) : Tells(t[x])
      BY <2>4
    <3>1. Tells(u[Len(p) + x]) /\ Len(p) + x \in 1..e
      BY <2>2
    <3>2. PICK j \in 1..e : /\ Tells(u[j]) /\ NameTold(u[j]) = name
                            /\ \A k \in (j + 1)..e : ~Tells(u[k])
      BY <1>4, <3>1 DEF InForce
    <3>3. Len(p) + x <= j
      BY <1>1, <2>1, <3>1, <3>2
    <3>4. j - Len(p) \in 1..(i - 1) /\ Len(p) + (j - Len(p)) = j
      BY <1>1, <2>1, <3>2, <3>3
    <3>5. t[j - Len(p)] = u[j]
      BY <2>2, <3>4
    <3>6. \A k \in ((j - Len(p)) + 1)..(i - 1) : ~Tells(t[k])
      <4> TAKE k \in ((j - Len(p)) + 1)..(i - 1)
      <4>1. k \in 1..(i - 1) /\ Len(p) + k \in (j + 1)..e
        BY <1>1, <2>1, <3>4
      <4> QED BY <2>2, <3>2, <4>1
    <3> QED BY <3>2, <3>4, <3>5, <3>6 DEF InForce
  <2> QED BY <2>3, <2>4
<1> QED BY <1>2, <1>3, <1>4 DEF u

Starts(p) == \E j \in 1..Len(p) : StartsAt(p, j)

\* What is first is forgotten: nobody is followed behind it, and start() may
\* have come to its end there.
LEMMA SoundDropped ==
    \A q, c, o, on : \A p, t \in Seq(Messages) :
        Sound(q, p \o t, c, o, on) => Sound(q, t, 0, o, on \/ Starts(p))
<1> SUFFICES ASSUME NEW q, NEW c, NEW o, NEW on, NEW p \in Seq(Messages), NEW t \in Seq(Messages),
                    Sound(q, p \o t, c, o, on)
             PROVE  Sound(q, t, 0, o, on \/ Starts(p))
  OBVIOUS
<1> DEFINE u == p \o t
           off == on \/ Starts(p)
<1>1. /\ u \in Seq(Messages) /\ Len(u) = Len(p) + Len(t) /\ Len(p) \in Nat /\ Len(t) \in Nat
      /\ \A i \in 1..Len(p) : u[i] = p[i]
      /\ \A i \in 1..Len(t) : u[Len(p) + i] = t[i]
  BY Joined
<1>2. \A name : \A i \in 1..(Len(t) + 1) : InForce(t, 0, i, name) =>
         name = 0 \/ InForce(u, c, Len(p) + i, name)
  BY InForceJoined
<1> HIDE DEF u
<1>3. \A name : InForce(t, 0, Len(t) + 1, name) => name = 0 \/ InForce(u, c, Len(u) + 1, name)
  <2>1. Len(p) + (Len(t) + 1) = Len(u) + 1 /\ Len(t) + 1 \in 1..(Len(t) + 1)
    BY <1>1
  <2> QED BY <1>2, <2>1
<1>4. /\ \A i \in 1..Len(p) : StartsAt(u, i) <=> StartsAt(p, i)
      /\ \A i \in 1..Len(t) : StartsAt(u, Len(p) + i) <=> StartsAt(t, i)
  BY <1>1 DEF StartsAt
<1>5. off \/ (\E j \in 1..Len(t) : StartsAt(t, j)) => on \/ \E j \in 1..Len(u) : StartsAt(u, j)
  <2>1. ASSUME NEW j \in 1..Len(p), StartsAt(p, j)
        PROVE  j \in 1..Len(u) /\ StartsAt(u, j)
    BY <1>1, <1>4, <2>1
  <2>2. ASSUME NEW j \in 1..Len(t), StartsAt(t, j)
        PROVE  Len(p) + j \in 1..Len(u) /\ StartsAt(u, Len(p) + j)
    BY <1>1, <1>4, <2>2
  <2> QED BY <2>1, <2>2 DEF Starts
<1>6. ASSUME NEW i \in 1..Len(t)
      PROVE  \E k \in 1..Len(u) : Holds(t, 0, i, off, u, c, k, on)
  <2> DEFINE k == Len(p) + i
  <2>1. k \in 1..Len(u) /\ u[k] = t[i] /\ i \in 1..(Len(t) + 1)
    BY <1>1
  <2>2. \A name : InForce(t, 0, i, name) => name = 0 \/ InForce(u, c, k, name)
    BY <1>2, <2>1
  <2>3. ASSUME NEW j \in 1..Len(p), StartsAt(p, j)
        PROVE  j \in 1..(k - 1) /\ StartsAt(u, j)
    BY <1>1, <1>4, <2>3
  <2>4. ASSUME NEW j \in 1..(i - 1), StartsAt(t, j)
        PROVE  Len(p) + j \in 1..(k - 1) /\ StartsAt(u, Len(p) + j)
    BY <1>1, <1>4, <2>4
  <2> HIDE DEF k
  <2>5. off \/ (\E j \in 1..(i - 1) : StartsAt(t, j)) => on \/ \E j \in 1..(k - 1) : StartsAt(u, j)
    BY <2>3, <2>4 DEF Starts
  <2>6. Holds(t, 0, i, off, u, c, k, on)
    BY <2>1, <2>2, <2>5 DEF Holds
  <2> QED BY <2>1, <2>6
<1>7. Mapped(t, 0, off, u, c, on)
  BY <1>3, <1>5, <1>6 DEF Mapped
<1> HIDE DEF off
<1>8. Sound(q, t, 0, o, off)
  BY <1>7, SoundMapped DEF u
<1> QED BY <1>8 DEF off

\* What has no tree of the name in force is put before.
LEMMA SoundPrepended ==
    \A q, b, d, o, on, off : \A p, t \in Seq(Messages) :
        /\ Sound(q, t, d, o, on) /\ (off \/ Starts(p) => on)
        /\ \A n : InForce(p, b, Len(p) + 1, n) => n = d
        /\ \A i \in 1..Len(p) : ReadsTree(p, i) =>
              \A n : InForce(p, b, i, n) => n = 0 \/ n # p[i].answer.epoch
        => Sound(q, p \o t, b, o, off)
<1> SUFFICES ASSUME NEW q, NEW b, NEW d, NEW o, NEW on, NEW off,
                    NEW p \in Seq(Messages), NEW t \in Seq(Messages),
                    Sound(q, t, d, o, on), off \/ Starts(p) => on,
                    \A n : InForce(p, b, Len(p) + 1, n) => n = d,
                    \A i \in 1..Len(p) : ReadsTree(p, i) =>
                       \A n : InForce(p, b, i, n) => n = 0 \/ n # p[i].answer.epoch
             PROVE  Sound(q, p \o t, b, o, off)
  OBVIOUS
<1> DEFINE u == p \o t
<1>1. /\ u \in Seq(Messages) /\ Len(u) = Len(p) + Len(t) /\ Len(p) \in Nat /\ Len(t) \in Nat
      /\ \A i \in 1..Len(p) : u[i] = p[i]
      /\ \A i \in 1..Len(t) : u[Len(p) + i] = t[i]
  BY Joined
<1>2. \A name : \A i \in 1..(Len(t) + 1) : InForce(u, b, Len(p) + i, name) => InForce(t, d, i, name)
  BY InForceJoined
<1>3. \A name : \A i \in 1..(Len(p) + 1) : InForce(u, b, i, name) => InForce(p, b, i, name)
  BY InForceJoined
<1> HIDE DEF u
<1>4. \A name : InForce(u, b, Len(u) + 1, name) => InForce(t, d, Len(t) + 1, name)
  <2>1. Len(p) + (Len(t) + 1) = Len(u) + 1 /\ Len(t) + 1 \in 1..(Len(t) + 1)
    BY <1>1
  <2> QED BY <1>2, <2>1
<1>5. /\ \A i \in 1..Len(p) : StartsAt(u, i) <=> StartsAt(p, i)
      /\ \A i \in 1..Len(t) : StartsAt(u, Len(p) + i) <=> StartsAt(t, i)
  BY <1>1 DEF StartsAt
<1>6. ASSUME NEW n \in Nat, NEW j \in 1..n, n <= Len(u), StartsAt(u, j), ~on
      PROVE  \E k \in 1..(n - Len(p)) : StartsAt(t, k)
  <2>1. j \notin 1..Len(p)
    BY <1>1, <1>5, <1>6 DEF Starts
  <2>2. j - Len(p) \in 1..(n - Len(p)) /\ j - Len(p) \in 1..Len(t) /\ Len(p) + (j - Len(p)) = j
    BY <1>1, <1>6, <2>1
  <2>3. StartsAt(t, j - Len(p))
    <3> DEFINE k == j - Len(p)
    <3>1. k \in 1..Len(t) /\ Len(p) + k = j
      BY <2>2
    <3> HIDE DEF k
    <3>2. StartsAt(u, Len(p) + k) <=> StartsAt(t, k)
      BY <1>5, <3>1
    <3> QED BY <1>6, <3>1, <3>2 DEF k
  <2> QED BY <2>2, <2>3
<1>7. off \/ (\E j \in 1..Len(u) : StartsAt(u, j)) => on \/ \E j \in 1..Len(t) : StartsAt(t, j)
  <2>1. Len(u) \in Nat /\ Len(u) - Len(p) = Len(t)
    BY <1>1
  <2> QED BY <1>6, <2>1
<1>8. ASSUME NEW i \in 1..Len(u), ReadsTree(u, i)
      PROVE  \/ \E k \in 1..Len(t) : Holds(u, b, i, off, t, d, k, on)
             \/ \A n : InForce(u, b, i, n) => n = 0 \/ n # u[i].answer.epoch
  <2>1. CASE i \in 1..Len(p)
    <3>1. ReadsTree(p, i) /\ u[i] = p[i] /\ i \in 1..(Len(p) + 1)
      BY <1>1, <1>8, <2>1 DEF ReadsTree
    <3> QED BY <1>3, <2>1, <3>1
  <2>2. CASE i \notin 1..Len(p)
    <3> DEFINE k == i - Len(p)
    <3>1. k \in 1..Len(t) /\ k \in 1..(Len(t) + 1) /\ Len(p) + k = i /\ i - 1 \in Nat /\ i - 1 <= Len(u)
          /\ (i - 1) - Len(p) = k - 1
      BY <1>1, <2>2
    <3> HIDE DEF k
    <3>2. t[k] = u[i] /\ \A n : InForce(u, b, i, n) => InForce(t, d, k, n)
      BY <1>1, <1>2, <3>1
    <3>3. off \/ (\E j \in 1..(i - 1) : StartsAt(u, j)) => on \/ \E j \in 1..(k - 1) : StartsAt(t, j)
      BY <1>6, <3>1
    <3>4. Holds(u, b, i, off, t, d, k, on)
      BY <3>2, <3>3 DEF Holds
    <3> QED BY <3>1, <3>4
  <2> QED BY <2>1, <2>2
<1>9. Mapped(u, b, off, t, d, on)
  BY <1>4, <1>7, <1>8 DEF Mapped
<1>10. Sound(q, u, b, o, off)
  BY <1>9, SoundMapped
<1> QED BY <1>10 DEF u

\* A signal of modems tells nothing of who owns the name.
LEMMA SoundSkipped ==
    \A q, c, o, on : \A p, w \in Seq(Messages) :
        Sound(q, p \o w, c, o, on) /\ w # <<>> /\ Head(w).kind = "object-changed"
           => Sound(q, p \o Tail(w), c, o, on)
<1> SUFFICES ASSUME NEW q, NEW c, NEW o, NEW on, NEW p \in Seq(Messages), NEW w \in Seq(Messages),
                    Sound(q, p \o w, c, o, on), w # <<>>, Head(w).kind = "object-changed"
             PROVE  Sound(q, p \o Tail(w), c, o, on)
  OBVIOUS
<1> DEFINE x == Tail(w)
           u == p \o w
           v == p \o x
           n == Len(p)
           s(i) == IF i <= n THEN i ELSE i + 1
<1>1. /\ Len(w) \in Nat \ {0} /\ Len(x) = Len(w) - 1 /\ Head(w) = w[1] /\ x \in Seq(Messages)
      /\ \A j \in 1..(Len(w) - 1) : x[j] = w[j + 1]
  BY Consumed
<1>2. /\ u \in Seq(Messages) /\ Len(u) = n + Len(w) /\ n \in Nat
      /\ \A i \in 1..n : u[i] = p[i]
      /\ \A i \in 1..Len(w) : u[n + i] = w[i]
  BY Joined
<1> HIDE DEF x
<1>3. /\ v \in Seq(Messages) /\ Len(v) = n + Len(x)
      /\ \A i \in 1..n : v[i] = p[i]
      /\ \A i \in 1..Len(x) : v[n + i] = x[i]
  BY <1>1, Joined
<1> HIDE DEF u, v, n
<1>4. u[n + 1].kind = "object-changed" /\ n + 1 \in 1..Len(u) /\ Len(u) = Len(v) + 1 /\ n <= Len(v)
      /\ Len(v) \in Nat
  <2>1. 1 \in 1..Len(w)
    BY <1>1
  <2> QED BY <1>1, <1>2, <1>3, <2>1
<1>5. ASSUME NEW i \in 1..Len(v)
      PROVE  s(i) \in 1..Len(u) /\ v[i] = u[s(i)]
  <2>1. CASE i <= n
    BY <1>2, <1>3, <1>4, <2>1
  <2>2. CASE i > n
    <3> DEFINE k == i - n
    <3>1. k \in 1..Len(x) /\ k + 1 \in 1..Len(w) /\ n + k = i /\ n + (k + 1) = i + 1 /\ k \in 1..(Len(w) - 1)
      BY <1>1, <1>2, <1>3, <2>2
    <3> HIDE DEF k
    <3>2. v[i] = x[k] /\ x[k] = w[k + 1] /\ u[i + 1] = w[k + 1]
      BY <1>1, <1>2, <1>3, <3>1
    <3> QED BY <1>2, <1>4, <2>2, <3>2
  <2> QED BY <1>2, <2>1, <2>2
<1>6. ~Tells(u[n + 1]) /\ ~StartsAt(u, n + 1)
  BY <1>4 DEF Tells, StartsAt
<1>7. ASSUME NEW i \in 1..(Len(v) + 1), NEW name, InForce(v, c, i, name)
      PROVE  InForce(u, c, s(i), name)
  <2>1. \A j \in 1..(s(i) - 1) : j # n + 1 => \E k \in 1..(i - 1) : j = s(k)
    <3> TAKE j \in 1..(s(i) - 1)
    <3>1. CASE j <= n
      <4>1. j \in 1..(i - 1) /\ s(j) = j
        BY <1>2, <3>1
      <4> QED BY <4>1
    <3>2. CASE j > n + 1
      <4>1. j - 1 \in 1..(i - 1) /\ s(j - 1) = j
        BY <1>2, <3>2
      <4> QED BY <4>1
    <3> QED BY <1>2, <3>1, <3>2
  <2>2. \A k \in 1..(i - 1) : k \in 1..Len(v) /\ s(k) \in 1..(s(i) - 1)
    BY <1>2, <1>4
  <2>3. CASE name = c /\ \A j \in 1..(i - 1) : ~Tells(v[j])
    <3>1. \A j \in 1..(s(i) - 1) : ~Tells(u[j])
      <4> TAKE j \in 1..(s(i) - 1)
      <4>1. CASE j = n + 1
        BY <1>6, <4>1
      <4>2. CASE j # n + 1
        <5>1. PICK k \in 1..(i - 1) : j = s(k)
          BY <2>1, <4>2
        <5> QED BY <1>5, <2>2, <2>3, <5>1
      <4> QED BY <4>1, <4>2
    <3> QED BY <2>3, <3>1 DEF InForce
  <2>4. CASE \E j \in 1..(i - 1) : /\ Tells(v[j]) /\ NameTold(v[j]) = name
                                   /\ \A k \in (j + 1)..(i - 1) : ~Tells(v[k])
    <3> PICK j \in 1..(i - 1) : /\ Tells(v[j]) /\ NameTold(v[j]) = name
                                /\ \A k \in (j + 1)..(i - 1) : ~Tells(v[k])
      BY <2>4
    <3>1. s(j) \in 1..(s(i) - 1) /\ Tells(u[s(j)]) /\ NameTold(u[s(j)]) = name
      BY <1>5, <2>2
    <3>2. \A k \in (s(j) + 1)..(s(i) - 1) : ~Tells(u[k])
      <4> TAKE k \in (s(j) + 1)..(s(i) - 1)
      <4>1. CASE k = n + 1
        BY <1>6, <4>1
      <4>2. CASE k # n + 1
        <5>1. k \in 1..(s(i) - 1)
          BY <1>2, <3>1
        <5>2. PICK m \in 1..(i - 1) : k = s(m)
          BY <2>1, <4>2, <5>1
        <5>3. m \in (j + 1)..(i - 1)
          BY <1>2, <5>2
        <5> QED BY <1>5, <2>2, <5>2, <5>3
      <4> QED BY <4>1, <4>2
    <3> QED BY <3>1, <3>2 DEF InForce
  <2> QED BY <1>7, <2>3, <2>4 DEF InForce
<1>8. \A name : InForce(v, c, Len(v) + 1, name) => InForce(u, c, Len(u) + 1, name)
  <2>1. s(Len(v) + 1) = Len(u) + 1 /\ Len(v) + 1 \in 1..(Len(v) + 1)
    BY <1>2, <1>4
  <2> QED BY <1>7, <2>1
<1>9. \A j \in 1..Len(v) : StartsAt(v, j) <=> StartsAt(u, s(j))
  BY <1>5 DEF StartsAt
<1>10. (\E j \in 1..Len(v) : StartsAt(v, j)) => \E j \in 1..Len(u) : StartsAt(u, j)
  <2> HIDE DEF s
  <2> QED BY <1>5, <1>9
<1>11. ASSUME NEW i \in 1..Len(v)
       PROVE  \E k \in 1..Len(u) : Holds(v, c, i, on, u, c, k, on)
  <2>1. s(i) \in 1..Len(u) /\ v[i] = u[s(i)] /\ i \in 1..(Len(v) + 1)
    BY <1>4, <1>5
  <2>2. \A j \in 1..(i - 1) : j \in 1..Len(v) /\ s(j) \in 1..(s(i) - 1)
    BY <1>2, <1>4
  <2> HIDE DEF s
  <2>3. (\E j \in 1..(i - 1) : StartsAt(v, j)) => \E j \in 1..(s(i) - 1) : StartsAt(u, j)
    BY <1>9, <2>2
  <2>4. \A name : InForce(v, c, i, name) => InForce(u, c, s(i), name)
    BY <1>7, <2>1
  <2>5. Holds(v, c, i, on, u, c, s(i), on)
    BY <2>1, <2>3, <2>4 DEF Holds
  <2> QED BY <2>1, <2>5
<1>12. Mapped(v, c, on, u, c, on)
  BY <1>8, <1>10, <1>11 DEF Mapped
<1>13. Sound(q, v, c, o, on)
  BY <1>12, SoundMapped DEF u
<1> QED BY <1>13 DEF v, x

\* A signal sent: of another owner, or of modems of the one there is.
LEMMA SoundSent ==
    \A q, c, o, on, now : \A w \in Seq(Messages), msg \in Messages :
        /\ Sound(q, w, c, o, on) /\ msg.kind # "reply"
        /\ IF Tells(msg) THEN NameTold(msg) = now ELSE now = o
        => Sound(q, Append(w, msg), c, now, on)
<1> SUFFICES ASSUME NEW q, NEW c, NEW o, NEW on, NEW now,
                    NEW w \in Seq(Messages), NEW msg \in Messages,
                    Sound(q, w, c, o, on), msg.kind # "reply",
                    IF Tells(msg) THEN NameTold(msg) = now ELSE now = o
             PROVE  Sound(q, Append(w, msg), c, now, on)
  OBVIOUS
<1> DEFINE v == Append(w, msg)
<1>1. /\ Len(w) \in Nat /\ Len(v) = Len(w) + 1 /\ \A j \in 1..Len(w) : v[j] = w[j]
      /\ v[Len(w) + 1] = msg
  BY Appended
<1>2. \A name : \A i \in 1..(Len(w) + 1) : InForce(v, c, i, name) <=> InForce(w, c, i, name)
  BY InForceAppended
<1>3. Tells(msg) => \A name : InForce(v, c, Len(w) + 2, name) => name = now
  BY InForceAppended
<1>4. ~Tells(msg) => \A name : InForce(v, c, Len(w) + 2, name) => InForce(w, c, Len(w) + 1, name)
  BY InForceAppended
<1> HIDE DEF v
<1>5. Len(v) + 1 = Len(w) + 2
  BY <1>1
<1>6. Fresh(w, c, o) => Fresh(v, c, now)
  BY <1>3, <1>4, <1>5 DEF Fresh
<1>7. \A j \in 1..Len(v) : /\ StartsAt(v, j) => j \in 1..Len(w) /\ StartsAt(w, j)
                           /\ ReadsTree(v, j) => j \in 1..Len(w) /\ ReadsTree(w, j) /\ v[j] = w[j]
  BY <1>1 DEF StartsAt, ReadsTree
<1>8. Fresh(v, c, now) \/ \E i \in 1..Len(q) : q[i].call = "owner"
  BY <1>6 DEF Sound
<1>9. ASSUME NEW i \in 1..Len(q), q[i].call = "tree",
             \/ on
             \/ \E j \in 1..Len(v) : StartsAt(v, j)
             \/ \E j \in 1..(i - 1) : IsStart(q[j])
      PROVE  Fresh(v, c, now) \/ \E j \in 1..(i - 1) : q[j].call = "owner"
  BY <1>6, <1>7, <1>9 DEF Sound
<1>10. ASSUME NEW i \in 1..Len(v), ReadsTree(v, i),
              on \/ \E j \in 1..(i - 1) : StartsAt(v, j),
              NEW name, InForce(v, c, i, name)
       PROVE  name \in {0, v[i].answer.from} \/ name # v[i].answer.epoch
  <2>1. i \in 1..Len(w) /\ ReadsTree(w, i) /\ v[i] = w[i] /\ InForce(w, c, i, name)
    BY <1>1, <1>2, <1>7, <1>10
  <2>2. on \/ \E j \in 1..(i - 1) : StartsAt(w, j)
    BY <1>1, <1>7, <1>10, <2>1
  <2> QED BY <2>1, <2>2 DEF Sound
<1>11. Sound(q, v, c, now, on)
  BY <1>8, <1>9, <1>10 DEF Sound
<1> QED BY <1>11 DEF v

\* The oldest call is served: by the owner there is, whom the observer follows
\* by then or asks for before.
LEMMA SoundServed ==
    \A c, o, on : \A q \in Seq(Calls), w \in Seq(Messages), a \in Answers :
        /\ Sound(q, w, c, o, on) /\ q # <<>> /\ a.call = Head(q).call
        /\ a.call = "owner" => a.name = o /\ a.by = Head(q).by
        /\ a.call = "tree" => a.from = o /\ a.by = Head(q).by
        => Sound(Tail(q), Append(w, AsReply(a)), c, o, on)
<1> SUFFICES ASSUME NEW c, NEW o, NEW on, NEW q \in Seq(Calls), NEW w \in Seq(Messages),
                    NEW a \in Answers,
                    Sound(q, w, c, o, on), q # <<>>, a.call = Head(q).call,
                    a.call = "owner" => a.name = o /\ a.by = Head(q).by,
                    a.call = "tree" => a.from = o /\ a.by = Head(q).by
             PROVE  Sound(Tail(q), Append(w, AsReply(a)), c, o, on)
  OBVIOUS
<1> DEFINE msg == AsReply(a)
           v == Append(w, msg)
           p == Tail(q)
<1>1. msg \in Messages /\ msg.kind = "reply" /\ msg.answer = a
  BY DEF Messages, AsReply
<1> HIDE DEF msg
<1>2. /\ Len(w) \in Nat /\ Len(v) = Len(w) + 1 /\ \A j \in 1..Len(w) : v[j] = w[j]
      /\ v[Len(w) + 1] = msg
  BY <1>1, Appended
<1>3. /\ Len(q) \in Nat \ {0} /\ Len(p) = Len(q) - 1 /\ Head(q) = q[1]
      /\ \A j \in 1..(Len(q) - 1) : p[j] = q[j + 1]
  BY AskedElements
<1>4. \A name : \A i \in 1..(Len(w) + 1) : InForce(v, c, i, name) <=> InForce(w, c, i, name)
  BY <1>1, InForceAppended
<1>5. Tells(msg) => \A name : InForce(v, c, Len(w) + 2, name) => name = NameTold(msg)
  <2> SUFFICES ASSUME Tells(msg), NEW name, InForce(v, c, Len(w) + 2, name)
               PROVE  name = NameTold(msg)
    OBVIOUS
  <2> QED BY <1>1, InForceAppended
<1>6. ~Tells(msg) => \A name : InForce(v, c, Len(w) + 2, name) => InForce(w, c, Len(w) + 1, name)
  BY <1>1, InForceAppended
<1>7. Tells(msg) <=> a.call = "owner"
  BY <1>1 DEF Tells
<1>8. Tells(msg) => NameTold(msg) = o
  BY <1>1, <1>7 DEF NameTold
<1> HIDE DEF v, p
<1>9. Len(v) + 1 = Len(w) + 2
  BY <1>2
<1>10. Fresh(w, c, o) => Fresh(v, c, o)
  BY <1>5, <1>6, <1>8, <1>9 DEF Fresh
<1>11. a.call = "owner" => Fresh(v, c, o)
  BY <1>5, <1>7, <1>8, <1>9 DEF Fresh
<1>12. /\ \A j \in 1..Len(w) : /\ StartsAt(v, j) <=> StartsAt(w, j)
                               /\ ReadsTree(v, j) <=> ReadsTree(w, j)
       /\ StartsAt(v, Len(w) + 1) <=> IsStart(a)
       /\ IsStart(a) => IsStart(q[1])
       /\ ReadsTree(v, Len(w) + 1) => a.call = "tree"
  BY <1>1, <1>2, <1>3 DEF StartsAt, ReadsTree, IsStart
<1>13. Fresh(v, c, o) \/ \E i \in 1..Len(p) : p[i].call = "owner"
  <2>1. CASE Fresh(w, c, o)
    BY <1>10, <2>1
  <2>2. CASE q[1].call = "owner"
    BY <1>3, <1>11, <2>2
  <2>3. CASE \E i \in 2..Len(q) : q[i].call = "owner"
    <3> PICK i \in 2..Len(q) : q[i].call = "owner"
      BY <2>3
    <3>1. i - 1 \in 1..Len(p) /\ p[i - 1] = q[i]
      BY <1>3
    <3> QED BY <3>1
  <2>4. Fresh(w, c, o) \/ \E i \in 1..Len(q) : q[i].call = "owner"
    BY DEF Sound
  <2> QED BY <1>3, <2>1, <2>2, <2>3, <2>4
<1>14. ASSUME NEW i \in 1..Len(p), p[i].call = "tree",
              \/ on
              \/ \E j \in 1..Len(v) : StartsAt(v, j)
              \/ \E j \in 1..(i - 1) : IsStart(p[j])
       PROVE  Fresh(v, c, o) \/ \E j \in 1..(i - 1) : p[j].call = "owner"
  <2>1. i + 1 \in 1..Len(q) /\ q[i + 1].call = "tree"
    BY <1>3, <1>14
  <2>2. ASSUME NEW j \in 1..(i - 1), IsStart(p[j])
        PROVE  \E k \in 1..i : IsStart(q[k])
    <3>1. j + 1 \in 1..i /\ p[j] = q[j + 1]
      BY <1>3
    <3> QED BY <2>2, <3>1
  <2>3. ASSUME NEW j \in 1..Len(v), StartsAt(v, j)
        PROVE  (\E k \in 1..Len(w) : StartsAt(w, k)) \/ \E k \in 1..i : IsStart(q[k])
    BY <1>2, <1>12, <2>3
  <2>4. \/ on
        \/ \E j \in 1..Len(w) : StartsAt(w, j)
        \/ \E j \in 1..((i + 1) - 1) : IsStart(q[j])
    <3>1. (i + 1) - 1 = i
      BY <1>3
    <3> QED BY <1>14, <2>2, <2>3, <3>1
  <2>5. Fresh(w, c, o) \/ \E j \in 1..((i + 1) - 1) : q[j].call = "owner"
    BY <2>1, <2>4 DEF Sound
  <2>6. ASSUME NEW j \in 1..i, q[j].call = "owner"
        PROVE  Fresh(v, c, o) \/ \E k \in 1..(i - 1) : p[k].call = "owner"
    <3>1. CASE j = 1
      BY <1>3, <1>11, <2>6, <3>1
    <3>2. CASE j # 1
      <4>1. j - 1 \in 1..(i - 1) /\ p[j - 1] = q[j]
        BY <1>3, <3>2
      <4> QED BY <2>6, <4>1
    <3> QED BY <3>1, <3>2
  <2> QED BY <1>10, <2>5, <2>6
<1>15. ASSUME NEW i \in 1..Len(v), ReadsTree(v, i),
              on \/ \E j \in 1..(i - 1) : StartsAt(v, j),
              NEW name, InForce(v, c, i, name)
       PROVE  name \in {0, v[i].answer.from} \/ name # v[i].answer.epoch
  <2>1. InForce(w, c, i, name)
    BY <1>2, <1>4, <1>15
  <2>2. on \/ \E j \in 1..(i - 1) : StartsAt(w, j)
    BY <1>2, <1>12, <1>15
  <2>3. CASE i \in 1..Len(w)
    BY <1>2, <1>12, <1>15, <2>1, <2>2, <2>3 DEF Sound
  <2>4. CASE i = Len(w) + 1
    <3>1. q[1].call = "tree" /\ v[i].answer.from = o
      BY <1>1, <1>2, <1>3, <1>12, <1>15, <2>4
    <3>2. on \/ \E j \in 1..Len(w) : StartsAt(w, j)
      BY <1>2, <2>2, <2>4
    <3>3. 1 \in 1..Len(q) /\ ~(\E j \in 1..(1 - 1) : q[j].call = "owner")
      BY <1>3
    <3>4. Fresh(w, c, o)
      BY <3>1, <3>2, <3>3 DEF Sound
    <3> QED BY <2>1, <2>4, <3>1, <3>4 DEF Fresh
  <2> QED BY <1>2, <2>3, <2>4
<1>16. Sound(p, v, c, o, on)
  BY <1>13, <1>14, <1>15 DEF Sound
<1> QED BY <1>16 DEF p, v, msg


\* The oldest call expires: it tells of nobody, unless signals tell more.
LEMMA SoundExpired ==
    ASSUME NEW c, NEW d, NEW o, NEW on,
           NEW q \in Seq(Calls), NEW w \in Seq(Messages), NEW a \in Answers,
           Sound(q, w, c, o, on), q # <<>>, a.call = Head(q).call, a.call # "setup",
           \A i \in 1..Len(w) : w[i].kind # "reply",
           (\E i \in 1..Len(w) : Tells(w[i])) => Fresh(w, c, o),
           a.by = Head(q).by, d = IF a.call = "owner" THEN 0 ELSE c
    PROVE  Sound(Tail(q), w, d, o, on \/ IsStart(a))
<1> DEFINE p == Tail(q)
<1>1. /\ Len(q) \in Nat \ {0} /\ Len(p) = Len(q) - 1 /\ Head(q) = q[1]
      /\ \A j \in 1..(Len(q) - 1) : p[j] = q[j + 1]
  BY AskedElements
<1>2. IsStart(a) <=> IsStart(q[1])
  BY <1>1 DEF IsStart
<1> HIDE DEF p
<1>3. Len(w) \in Nat
  OBVIOUS
<1>4. Fresh(w, c, o) => Fresh(w, d, o)
  BY <1>3 DEF Fresh, InForce
<1>5. a.call = "owner" => Fresh(w, d, o)
  <2>1. CASE \E i \in 1..Len(w) : Tells(w[i])
    BY <1>4, <2>1
  <2>2. CASE ~\E i \in 1..Len(w) : Tells(w[i])
    BY <1>3, <2>2 DEF Fresh, InForce
  <2> QED BY <2>1, <2>2
<1>6. Fresh(w, d, o) \/ \E i \in 1..Len(p) : p[i].call = "owner"
  <2>1. CASE Fresh(w, c, o)
    BY <1>4, <2>1
  <2>2. CASE q[1].call = "owner"
    BY <1>1, <1>5, <2>2
  <2>3. CASE \E i \in 2..Len(q) : q[i].call = "owner"
    <3> PICK i \in 2..Len(q) : q[i].call = "owner"
      BY <2>3
    <3>1. i - 1 \in 1..Len(p) /\ p[i - 1] = q[i]
      BY <1>1
    <3> QED BY <3>1
  <2>4. Fresh(w, c, o) \/ \E i \in 1..Len(q) : q[i].call = "owner"
    BY DEF Sound
  <2> QED BY <1>1, <2>1, <2>2, <2>3, <2>4
<1>7. \A i \in 1..Len(w) : ~StartsAt(w, i) /\ ~ReadsTree(w, i)
  BY DEF StartsAt, ReadsTree
<1>8. ASSUME NEW i \in 1..Len(p), p[i].call = "tree",
             on \/ IsStart(a) \/ \E j \in 1..(i - 1) : IsStart(p[j])
      PROVE  Fresh(w, d, o) \/ \E j \in 1..(i - 1) : p[j].call = "owner"
  <2>1. i + 1 \in 1..Len(q) /\ q[i + 1].call = "tree"
    BY <1>1, <1>8
  <2>2. on \/ \E j \in 1..((i + 1) - 1) : IsStart(q[j])
    BY <1>1, <1>2, <1>8
  <2>3. Fresh(w, c, o) \/ \E j \in 1..((i + 1) - 1) : q[j].call = "owner"
    BY <2>1, <2>2 DEF Sound
  <2>4. ASSUME NEW j \in 1..i, q[j].call = "owner"
        PROVE  Fresh(w, d, o) \/ \E k \in 1..(i - 1) : p[k].call = "owner"
    <3>1. CASE j = 1
      BY <1>1, <1>5, <2>4, <3>1
    <3>2. CASE j # 1
      <4>1. j - 1 \in 1..(i - 1) /\ p[j - 1] = q[j]
        BY <1>1, <3>2
      <4> QED BY <2>4, <4>1
    <3> QED BY <3>1, <3>2
  <2> QED BY <1>4, <2>3, <2>4
<1>9. Sound(p, w, d, o, on \/ IsStart(a))
  BY <1>6, <1>7, <1>8 DEF Sound
<1> QED BY <1>9 DEF p

\* start() asks where nothing of its own is under way, and a reconnect where
\* nothing is.
LEMMA SoundFirst ==
    \A w, c, o : \A q \in Seq(Calls), ask \in Calls :
        /\ \A i \in 1..Len(q) : ~IsStart(q[i])
        /\ \A i \in 1..Len(w) : ~StartsAt(w, i)
        /\ ask.call = "owner"
        => Sound(Append(q, ask), w, c, o, FALSE)
<1> SUFFICES ASSUME NEW w, NEW c, NEW o, NEW q \in Seq(Calls), NEW ask \in Calls,
                    \A i \in 1..Len(q) : ~IsStart(q[i]),
                    \A i \in 1..Len(w) : ~StartsAt(w, i), ask.call = "owner"
             PROVE  Sound(Append(q, ask), w, c, o, FALSE)
  OBVIOUS
<1> DEFINE v == Append(q, ask)
<1>1. /\ Len(q) \in Nat /\ Len(v) = Len(q) + 1 /\ v[Len(q) + 1] = ask
      /\ \A i \in 1..Len(q) : v[i] = q[i]
  OBVIOUS
<1> HIDE DEF v
<1>2. \E i \in 1..Len(v) : v[i].call = "owner"
  BY <1>1
<1>3. \A i \in 1..Len(v) : ~\E j \in 1..(i - 1) : IsStart(v[j])
  BY <1>1
<1>4. \A i \in 1..Len(w) : ~\E j \in 1..(i - 1) : StartsAt(w, j)
  <2> TAKE i \in 1..Len(w)
  <2> SUFFICES ASSUME NEW j \in 1..(i - 1) PROVE ~StartsAt(w, j)
    OBVIOUS
  <2> QED BY j \in 1..Len(w)
<1> QED BY <1>2, <1>3, <1>4 DEF Sound, v

\* Asked of a fresh connection, before anything has come back.
LEMMA SoundAfresh ==
    \A w, c, o, on : \A ask \in Calls :
        ask.call = "owner" /\ (\A i \in 1..Len(w) : w[i].kind # "reply")
           => Sound(<<ask>>, w, c, o, on)
<1> SUFFICES ASSUME NEW w, NEW c, NEW o, NEW on, NEW ask \in Calls, ask.call = "owner",
                    \A i \in 1..Len(w) : w[i].kind # "reply"
             PROVE  Sound(<<ask>>, w, c, o, on)
  OBVIOUS
<1>1. 1 \in 1..Len(<<ask>>) /\ <<ask>>[1] = ask /\ \A i \in 1..Len(<<ask>>) : <<ask>>[i] = ask
  OBVIOUS
<1>2. \E i \in 1..Len(<<ask>>) : <<ask>>[i].call = "owner"
  BY <1>1
<1>3. \A i \in 1..Len(<<ask>>) : <<ask>>[i].call # "tree"
  BY <1>1
<1>4. \A i \in 1..Len(w) : ~ReadsTree(w, i)
  BY DEF ReadsTree
<1> QED BY <1>2, <1>3, <1>4 DEF Sound

(* Where the observer is, and its transport.                                 *)

\* The transport stands still, and start() may come to its end.
LEMMA ClientStill ==
    ASSUME ClientInv, UNCHANGED <<state, closing, socket, effort, refs, adding, matched>>,
           phase' = phase \/ (phase = "adopting" /\ phase' = "started")
    PROVE  ClientInv'
BY DEF ClientInv, Active, Connected

\* Every answer and every message leave the transport as it is.
LEMMA StandsStill ==
    ASSUME \/ OnNameOwnerChanged \/ OnObjectSignal \/ OnReply
           \/ AdoptOwner \/ RefreshLands \/ SetupLands \/ Answer \/ CallTimesOut
           \/ MmStarts \/ MmDies \/ \E m \in Modems : ModemChanges(m)
    PROVE  /\ UNCHANGED <<state, closing, socket, effort, refs, adding, matched>>
           /\ phase' = phase \/ (phase = "adopting" /\ phase' = "started")
<1> USE DEF transportVars
<1>1. CASE OnNameOwnerChanged \/ OnObjectSignal \/ OnReply
  BY <1>1 DEF OnNameOwnerChanged, OnObjectSignal, OnReply
<1>2. CASE AdoptOwner \/ RefreshLands \/ SetupLands
  BY <1>2 DEF AdoptOwner, RefreshLands, SetupLands, FinishPrime
<1>3. CASE Answer \/ CallTimesOut
  BY <1>3 DEF Answer, CallTimesOut
<1>4. CASE MmStarts \/ MmDies \/ \E m \in Modems : ModemChanges(m)
  BY <1>4 DEF MmStarts, MmDies, ModemChanges
<1> QED BY <1>1, <1>2, <1>3, <1>4

LEMMA ClientKept ==
    ASSUME ClientInv, RuleInv, [Next]_vars
    PROVE  ClientInv'
<1> USE DEF ClientInv, Active, Connected
<1>1. CASE \/ OnNameOwnerChanged \/ OnObjectSignal \/ OnReply
           \/ AdoptOwner \/ RefreshLands \/ SetupLands \/ Answer \/ CallTimesOut
           \/ MmStarts \/ MmDies \/ \E m \in Modems : ModemChanges(m)
  BY <1>1, StandsStill, ClientStill
<1>2. CASE Start
  BY <1>2 DEF Start, Connect, StartEstablish
<1>3. CASE SubscribeNext
  BY <1>3 DEF SubscribeNext, Subscribe
<1>4. CASE AdoptFirst
  BY <1>4 DEF AdoptFirst, transportVars
<1>5. CASE Handshake \/ Reissues \/ ReissueStops
  <2>1. ~Connected
    BY <1>5 DEF Handshake, Reissues, ReissueStops, Shaken, Reissue, ReissueEnds, ReissueFails,
          Reissuing, RuleInv
  <2>2. CASE Handshake
    <3>1. \/ refs = {} /\ Publish({}) /\ UNCHANGED <<closing, refs>>
          \/ refs # {} /\ socket' = "open" /\ UNCHANGED <<state, effort, matched, adding, closing, refs>>
      BY <2>2 DEF Handshake, Shaken
    <3>2. CASE refs = {} /\ Publish({})
      BY <2>1, <2>2, <3>1, <3>2, ObserverAssumption DEF Handshake, Shaken, Published, Publish, Abandon
    <3>3. CASE refs # {} /\ socket' = "open" /\ UNCHANGED <<state, effort, matched, adding>>
      <4>1. effort = "loop"
        BY <2>2, <3>3 DEF Handshake, Shaken
      <4>2. phase' = phase /\ UNCHANGED <<closing, refs>>
        BY <2>2, <3>1, <3>3, <4>1 DEF Handshake, Published
      <4> QED BY <2>1, <3>3, <4>1, <4>2
    <3> QED BY <3>1, <3>2, <3>3
  <2>3. CASE Reissues
    <3> PICK r \in Rules : Reissue(r)
      BY <2>3 DEF Reissues
    <3>1. effort = "loop" /\ r \in refs /\ phase' = phase /\ UNCHANGED <<closing, refs>>
      BY <2>3 DEF Reissues, Reissue, Reissuing, Published
    <3>2. \/ Publish(matched \cup {r})
          \/ matched' = matched \cup {r} /\ UNCHANGED <<state, socket, effort, adding>>
      BY DEF Reissue
    <3>3. CASE Publish(matched \cup {r})
      BY <2>1, <3>1, <3>3 DEF Publish, Abandon
    <3>4. CASE matched' = matched \cup {r} /\ UNCHANGED <<state, socket, effort, adding>>
      BY <2>1, <3>1, <3>4
    <3> QED BY <3>2, <3>3, <3>4
  <2>4. CASE ReissueStops
    <3>1. effort = "loop" /\ phase' = phase /\ UNCHANGED <<closing, refs>>
      BY <2>4 DEF ReissueStops, ReissueEnds, ReissueFails, Reissuing, Published
    <3>2. Publish(matched) \/ Abandon
      BY <2>4 DEF ReissueStops, ReissueEnds, ReissueFails
    <3> QED BY <2>1, <3>1, <3>2 DEF Publish, Abandon
  <2> QED BY <1>5, <2>2, <2>3, <2>4
<1>6. CASE HandshakeFails
  BY <1>6 DEF HandshakeFails, ShakeFails, Abandon, Published, RuleInv
<1>7. CASE Retry
  BY <1>7 DEF Retry, WakeUp, StartEstablish, RuleInv
<1>8. CASE MatchAdded
  BY <1>8 DEF MatchAdded, Added
<1>9. CASE \E restart \in BOOLEAN : LoseBus(restart)
  <2>1. Drop /\ phase' = (IF Connected /\ Listening
                          THEN IF phase = "adopting" THEN "started"
                               ELSE IF adding # {} THEN "failed" ELSE phase
                          ELSE phase)
    BY <1>9 DEF LoseBus
  <2> QED BY <2>1 DEF Drop, StartEstablish, Listening, RuleInv
<1>10. CASE Stop
  BY <1>10 DEF Stop, UnsubscribeAll
<1>11. CASE CloseTransport
  BY <1>11 DEF CloseTransport, Disconnect
<1>12. CASE UNCHANGED vars
  BY <1>12 DEF vars, transportVars
<1> QED BY <1>1, <1>2, <1>3, <1>4, <1>5, <1>6, <1>7, <1>8, <1>9, <1>10, <1>11, <1>12
        DEF Next, Client, Environment

-----------------------------------------------------------------------------
(* What is under way, step by step.                                          *)

\* What is asked behind the calls that are under way.
AskedMore(e) ==
    /\ e \in Seq(Calls) /\ asked' = asked \o e
    /\ ~Connected => e = <<>>

LEMMA AskedNothing ==
    ASSUME BusTypes, asked' = asked
    PROVE  AskedMore(<<>>)
BY DEF BusTypes, AskedMore

LEMMA AskedOne ==
    ASSUME BusTypes, NEW ask \in Calls, asked' = Append(asked, ask), Connected
    PROVE  AskedMore(<<ask>>)
BY DEF BusTypes, AskedMore

LEMMA MoreElements ==
    ASSUME BusTypes, NEW e, AskedMore(e)
    PROVE  /\ asked' \in Seq(Calls)
           /\ \A i \in 1..Len(asked') : (\E j \in 1..Len(asked) : asked'[i] = asked[j])
                                           \/ (\E j \in 1..Len(e) : asked'[i] = e[j])
           /\ e = <<>> => asked' = asked
<1>1. asked \in Seq(Calls) /\ e \in Seq(Calls) /\ asked' = asked \o e
  BY DEF BusTypes, AskedMore
<1>2. /\ Len(asked') = Len(asked) + Len(e) /\ asked' \in Seq(Calls)
      /\ \A i \in 1..Len(asked') : asked'[i] = IF i <= Len(asked) THEN asked[i] ELSE e[i - Len(asked)]
  BY <1>1
<1>3. ASSUME NEW i \in 1..Len(asked'), i > Len(asked)
      PROVE  i - Len(asked) \in 1..Len(e)
  BY <1>1, <1>2, <1>3
<1>4. e = <<>> => asked' = asked
  BY <1>1
<1> QED BY <1>1, <1>2, <1>3, <1>4

\* Names that are known stay known, whoever is followed.
LEMMA StillKnown ==
    ASSUME NEW q1 \in Seq(Calls), NEW w1 \in Seq(Messages), NEW l1 \in Seq(Answers),
           NEW q2 \in Seq(Calls), NEW w2 \in Seq(Messages), NEW l2 \in Seq(Answers),
           NEW c1, NEW c2, NEW o1, NEW o2, NEW n1 \in Nat, NEW n2 \in Nat,
           Known(q1, w1, l1, c1, o1, n1), n1 <= n2, o2 <= n2, c2 \in Nat, c1 \in Nat,
           c2 = c1 \/ c2 <= n2,
           \A i \in 1..Len(q2) : KnownCall(q2[i], n2, c2) \/ \E j \in 1..Len(q1) : q2[i] = q1[j],
           \A i \in 1..Len(w2) : KnownMessage(w2[i], n2, c2) \/ \E j \in 1..Len(w1) : w2[i] = w1[j],
           \A i \in 1..Len(l2) : KnownAnswer(l2[i], n2, c2)
               \/ (\E j \in 1..Len(l1) : l2[i] = l1[j])
               \/ (\E j \in 1..Len(w1) : w1[j].kind = "reply" /\ l2[i] = w1[j].answer)
    PROVE  Known(q2, w2, l2, c2, o2, n2)
<1>1. ASSUME NEW x \in Calls, KnownCall(x, n1, c1)
      PROVE  KnownCall(x, n2, c2)
  BY <1>1 DEF KnownCall, Calls, Epochs
<1>2. ASSUME NEW x \in Answers, KnownAnswer(x, n1, c1)
      PROVE  KnownAnswer(x, n2, c2)
  BY <1>2 DEF KnownAnswer, Answers, Epochs
<1>3. ASSUME NEW x \in Messages, KnownMessage(x, n1, c1)
      PROVE  KnownMessage(x, n2, c2)
  BY <1>2, <1>3 DEF KnownMessage, Messages
<1>4. \A i \in 1..Len(q1) : q1[i] \in Calls /\ KnownCall(q1[i], n1, c1)
  BY DEF Known
<1>5. \A i \in 1..Len(w1) : w1[i] \in Messages /\ KnownMessage(w1[i], n1, c1)
  BY DEF Known
<1>6. \A i \in 1..Len(l1) : l1[i] \in Answers /\ KnownAnswer(l1[i], n1, c1)
  BY DEF Known
<1>7. \A i \in 1..Len(w1) : w1[i].kind = "reply" =>
         w1[i].answer \in Answers /\ KnownAnswer(w1[i].answer, n1, c1)
  BY <1>5 DEF KnownMessage, Messages
<1>8. \A i \in 1..Len(q2) : KnownCall(q2[i], n2, c2)
  BY <1>1, <1>4
<1>9. \A i \in 1..Len(w2) : KnownMessage(w2[i], n2, c2)
  BY <1>3, <1>5
<1>10. \A i \in 1..Len(l2) : KnownAnswer(l2[i], n2, c2)
  BY <1>2, <1>6, <1>7
<1> QED BY <1>8, <1>9, <1>10 DEF Known

\* A new owner's trees come behind its signal, as messages are taken up, land
\* and are followed by others.
LEMMA StillApart ==
    \A w \in Seq(Messages), l \in Seq(Answers) : Apart(w, l) =>
        /\ w # <<>> => Apart(Tail(w), l)
        /\ w # <<>> /\ Head(w).kind = "reply" => Apart(Tail(w), Append(l, Head(w).answer))
        /\ l # <<>> => Apart(w, Tail(l))
        /\ \A a \in Answers : ~(a.call = "tree" /\ a.ok) => Apart(w, Append(l, a))
<1> SUFFICES ASSUME NEW w \in Seq(Messages), NEW l \in Seq(Answers), Apart(w, l)
             PROVE  /\ w # <<>> => Apart(Tail(w), l)
                    /\ w # <<>> /\ Head(w).kind = "reply" => Apart(Tail(w), Append(l, Head(w).answer))
                    /\ l # <<>> => Apart(w, Tail(l))
                    /\ \A a \in Answers : ~(a.call = "tree" /\ a.ok) => Apart(w, Append(l, a))
  OBVIOUS
<1>1. ASSUME w # <<>>
      PROVE  /\ Apart(Tail(w), l)
             /\ Head(w).kind = "reply" => Apart(Tail(w), Append(l, Head(w).answer))
  <2> DEFINE v == Tail(w)
             m == Append(l, Head(w).answer)
  <2>1. /\ Len(w) \in Nat \ {0} /\ Len(v) = Len(w) - 1 /\ Head(w) = w[1] /\ v \in Seq(Messages)
        /\ \A j \in 1..(Len(w) - 1) : v[j] = w[j + 1]
    BY <1>1, Consumed
  <2>2. Head(w).kind = "reply" =>
           /\ Len(l) \in Nat /\ Len(m) = Len(l) + 1 /\ m[Len(l) + 1] = w[1].answer
           /\ \A j \in 1..Len(l) : m[j] = l[j]
    <3> SUFFICES ASSUME Head(w).kind = "reply"
                 PROVE  /\ Len(l) \in Nat /\ Len(m) = Len(l) + 1 /\ m[Len(l) + 1] = w[1].answer
                        /\ \A j \in 1..Len(l) : m[j] = l[j]
      OBVIOUS
    <3>1. Head(w).answer \in Answers /\ Head(w) = w[1]
      BY <1>1, Consumed DEF Messages
    <3> QED BY <3>1
  <2> HIDE DEF v, m
  <2>3. ASSUME NEW i \in 1..Len(v), v[i].kind = "owner-changed", v[i].name # 0
        PROVE  /\ \A j \in 1..(i - 1) : ReadsTree(v, j) => v[j].answer.epoch # v[i].name
               /\ \A j \in 1..Len(l) : l[j].call = "tree" /\ l[j].ok => l[j].epoch # v[i].name
               /\ ReadsTree(w, 1) => w[1].answer.epoch # v[i].name
    <3>1. i + 1 \in 1..Len(w) /\ w[i + 1] = v[i]
      BY <2>1
    <3>2. \A j \in 1..i : ReadsTree(w, j) => w[j].answer.epoch # v[i].name
      <4>1. \A j \in 1..((i + 1) - 1) : ReadsTree(w, j) => w[j].answer.epoch # w[i + 1].name
        BY <2>3, <3>1 DEF Apart
      <4>2. (i + 1) - 1 = i
        BY <2>1
      <4> QED BY <3>1, <4>1, <4>2
    <3>3. \A j \in 1..Len(l) : l[j].call = "tree" /\ l[j].ok => l[j].epoch # v[i].name
      BY <2>3, <3>1 DEF Apart
    <3>4. \A j \in 1..(i - 1) : j + 1 \in 1..i /\ v[j] = w[j + 1] /\ (ReadsTree(v, j) => ReadsTree(w, j + 1))
      BY <2>1 DEF ReadsTree
    <3>5. 1 \in 1..i
      BY <2>1
    <3> QED BY <3>2, <3>3, <3>4, <3>5
  <2>4. Apart(v, l)
    BY <2>3 DEF Apart
  <2>5. ASSUME Head(w).kind = "reply"
        PROVE  Apart(v, m)
    <3>1. ASSUME NEW i \in 1..Len(v), v[i].kind = "owner-changed", v[i].name # 0,
                 NEW j \in 1..Len(m), m[j].call = "tree", m[j].ok
          PROVE  m[j].epoch # v[i].name
      <4>1. CASE j \in 1..Len(l)
        BY <2>2, <2>3, <2>5, <3>1, <4>1
      <4>2. CASE j = Len(l) + 1
        BY <2>1, <2>2, <2>3, <2>5, <3>1, <4>2 DEF ReadsTree
      <4> QED BY <2>2, <2>5, <3>1, <4>1, <4>2
    <3> QED BY <2>3, <3>1 DEF Apart
  <2> QED BY <2>4, <2>5 DEF v, m
<1>2. ASSUME l # <<>>
      PROVE  Apart(w, Tail(l))
  <2>1. Len(l) \in Nat /\ Len(Tail(l)) = Len(l) - 1 /\ \A j \in 1..(Len(l) - 1) : Tail(l)[j] = l[j + 1]
    BY <1>2
  <2>2. \A j \in 1..Len(Tail(l)) : j + 1 \in 1..Len(l) /\ Tail(l)[j] = l[j + 1]
    BY <2>1
  <2> QED BY <2>2 DEF Apart
<1>3. ASSUME NEW a \in Answers, ~(a.call = "tree" /\ a.ok)
      PROVE  Apart(w, Append(l, a))
  <2> DEFINE m == Append(l, a)
  <2>1. Len(l) \in Nat /\ Len(m) = Len(l) + 1 /\ m[Len(l) + 1] = a /\ \A j \in 1..Len(l) : m[j] = l[j]
    OBVIOUS
  <2> HIDE DEF m
  <2>2. \A j \in 1..Len(m) : m[j].call = "tree" /\ m[j].ok => j \in 1..Len(l) /\ m[j] = l[j]
    BY <1>3, <2>1
  <2>3. Apart(w, m)
    BY <2>2 DEF Apart
  <2> QED BY <2>3 DEF m
<1> QED BY <1>1, <1>2, <1>3

\* So they do when a message is sent, if an owner's that is named is new.
LEMMA ApartSent ==
    \A w \in Seq(Messages), l \in Seq(Answers), msg \in Messages :
        /\ Apart(w, l)
        /\ msg.kind = "owner-changed" /\ msg.name # 0 =>
              /\ \A j \in 1..Len(w) : ReadsTree(w, j) => w[j].answer.epoch # msg.name
              /\ \A j \in 1..Len(l) : l[j].call = "tree" /\ l[j].ok => l[j].epoch # msg.name
        => Apart(Append(w, msg), l)
<1> SUFFICES ASSUME NEW w \in Seq(Messages), NEW l \in Seq(Answers), NEW msg \in Messages, Apart(w, l),
                    msg.kind = "owner-changed" /\ msg.name # 0 =>
                      /\ \A j \in 1..Len(w) : ReadsTree(w, j) => w[j].answer.epoch # msg.name
                      /\ \A j \in 1..Len(l) : l[j].call = "tree" /\ l[j].ok => l[j].epoch # msg.name
             PROVE  Apart(Append(w, msg), l)
  OBVIOUS
<1> DEFINE v == Append(w, msg)
<1>1. /\ Len(w) \in Nat /\ Len(v) = Len(w) + 1 /\ \A j \in 1..Len(w) : v[j] = w[j]
      /\ v[Len(w) + 1] = msg
  BY Appended
<1> HIDE DEF v
<1>2. ASSUME NEW i \in 1..Len(v), v[i].kind = "owner-changed", v[i].name # 0
      PROVE  /\ \A j \in 1..(i - 1) : ReadsTree(v, j) => v[j].answer.epoch # v[i].name
             /\ \A j \in 1..Len(l) : l[j].call = "tree" /\ l[j].ok => l[j].epoch # v[i].name
  <2>1. \A j \in 1..(i - 1) : j \in 1..Len(w) /\ v[j] = w[j] /\ (ReadsTree(v, j) => ReadsTree(w, j))
    BY <1>1 DEF ReadsTree
  <2>2. CASE i \in 1..Len(w)
    BY <1>1, <1>2, <2>1, <2>2 DEF Apart
  <2>3. CASE i = Len(w) + 1
    BY <1>1, <1>2, <2>1, <2>3
  <2> QED BY <1>1, <2>2, <2>3
<1>3. Apart(v, l)
  BY <1>2 DEF Apart
<1> QED BY <1>3 DEF v

\* A message is taken up, as far as it does not matter which.
Takes(l) ==
    /\ wire # <<>> /\ wire' = Tail(wire)
    /\ IF Head(wire).kind = "reply" THEN l = Append(landed, Head(wire).answer) ELSE l = landed
    /\ landed' = l
    /\ UNCHANGED <<owner, names, tree, phase, state, socket, matched>>
    /\ current' \in Nat /\ overtaken' \in BOOLEAN
    /\ current' = current \/ current' <= names

LEMMA MessageTaken ==
    ASSUME BusInv, NEW l, Takes(l), NEW e, AskedMore(e),
           \A i \in 1..Len(e) : ~IsStart(e[i]) /\ KnownCall(e[i], names, current')
    PROVE  BusTypes' /\ Offline' /\ Signalled' /\ StartsOnce' /\ NamesInv'
<1> USE DEF BusInv
<1>1. /\ wire \in Seq(Messages) /\ Len(wire) \in Nat \ {0} /\ Len(wire') = Len(wire) - 1
      /\ wire' \in Seq(Messages) /\ Head(wire) = wire[1] /\ Head(wire) \in Messages
      /\ \A j \in 1..(Len(wire) - 1) : wire'[j] = wire[j + 1]
  BY Consumed DEF BusTypes, Takes
<1>2. /\ asked' \in Seq(Calls)
      /\ \A i \in 1..Len(asked') : (\E j \in 1..Len(asked) : asked'[i] = asked[j])
                                      \/ (\E j \in 1..Len(e) : asked'[i] = e[j])
      /\ e = <<>> => asked' = asked
  BY MoreElements
<1>3. \A j \in 1..Len(wire') : /\ j + 1 \in 1..Len(wire) /\ wire'[j] = wire[j + 1]
                               /\ \E k \in 1..Len(wire) : wire'[j] = wire[k]
  BY <1>1
<1>4. Signalled'
  <2> SUFFICES ASSUME phase \notin {"failed", "stopped"},
                      NEW i \in 1..Len(wire'), wire'[i].kind = "owner-changed"
               PROVE  /\ "owner" \in matched /\ socket = "open"
                      /\ \A name : InForce(wire', 0, Len(wire') + 1, name) => name = owner
    BY DEF Signalled, Takes
  <2>1. /\ "owner" \in matched /\ socket = "open"
        /\ \A name : InForce(wire, 0, Len(wire) + 1, name) => name = owner
    BY <1>3 DEF Signalled
  <2> DEFINE after == IF Tells(Head(wire)) THEN NameTold(Head(wire)) ELSE 0
  <2>2. \A name : \A k \in 1..Len(wire) : InForce(wire', after, k, name)
                                             <=> InForce(wire, 0, k + 1, name)
    BY <1>1, InForceConsumed DEF Takes
  <2> HIDE DEF after
  <2>3. Len(wire') + 1 = Len(wire) /\ Len(wire) \in 1..Len(wire) /\ Len(wire') \in Nat
    BY <1>1
  <2>4. ASSUME NEW name, InForce(wire', 0, Len(wire), name)
        PROVE  InForce(wire', after, Len(wire), name)
    <3>1. i \in 1..(Len(wire) - 1) /\ Tells(wire'[i])
      BY <2>3 DEF Tells
    <3> QED BY <2>4, <3>1 DEF InForce
  <2>5. \A name : InForce(wire', after, Len(wire), name) => InForce(wire, 0, Len(wire) + 1, name)
    BY <2>2, <2>3
  <2> QED BY <2>1, <2>3, <2>4, <2>5
<1>5. CASE Head(wire).kind = "reply"
  <2> DEFINE a == Head(wire).answer
  <2>1. a \in Answers /\ landed \in Seq(Answers) /\ landed' = Append(landed, a)
    BY <1>1, <1>5 DEF Messages, BusTypes, Takes
  <2> HIDE DEF a
  <2>2. /\ landed' \in Seq(Answers) /\ Len(landed') = Len(landed) + 1 /\ landed'[Len(landed) + 1] = a
        /\ Len(landed) \in Nat /\ \A j \in 1..Len(landed) : landed'[j] = landed[j]
    BY <2>1
  <2>3. BusTypes'
    BY <1>1, <1>2, <2>2 DEF BusTypes, Takes
  <2>4. Connected
    BY <1>1, <1>5 DEF Offline
  <2>5. Offline'
    BY <2>4 DEF Offline, Connected, Takes
  <2>6. \A i \in 1..Len(landed') : (\E j \in 1..Len(landed) : landed'[i] = landed[j]) \/ landed'[i] = a
    BY <2>2
  <2>7. StartsOnce'
    <3> SUFFICES ASSUME phase \in {"new", "connecting", "subscribing"} PROVE StartsOnce'
      BY DEF StartsOnce, Takes
    <3>1. /\ ~StartLanded /\ \A i \in 1..Len(asked) : ~IsStart(asked[i])
          /\ \A i \in 1..Len(wire) : ~StartsAt(wire, i)
      BY DEF StartsOnce
    <3>2. ~IsStart(a)
      BY <1>1, <1>5, <3>1 DEF StartsAt, a
    <3>3. ~StartLanded'
      BY <2>6, <3>1, <3>2 DEF StartLanded
    <3>4. \A i \in 1..Len(asked') : ~IsStart(asked'[i])
      BY <1>2, <3>1
    <3>5. \A i \in 1..Len(wire') : ~StartsAt(wire', i)
      BY <1>3, <3>1 DEF StartsAt
    <3> QED BY <3>3, <3>4, <3>5 DEF StartsOnce
  <2>8. Known(asked', wire', landed', current', owner', names')
    <3>1. \A i \in 1..Len(asked') : KnownCall(asked'[i], names, current')
                                       \/ \E j \in 1..Len(asked) : asked'[i] = asked[j]
      BY <1>2
    <3>2. \A i \in 1..Len(landed') : (\E j \in 1..Len(landed) : landed'[i] = landed[j])
             \/ (\E j \in 1..Len(wire) : wire[j].kind = "reply" /\ landed'[i] = wire[j].answer)
      BY <1>1, <1>5, <2>6 DEF a
    <3>3. /\ asked \in Seq(Calls) /\ landed \in Seq(Answers) /\ names \in Nat /\ current \in Nat
          /\ Known(asked, wire, landed, current, owner, names) /\ owner <= names /\ current' \in Nat
          /\ current' = current \/ current' <= names
          /\ owner' = owner /\ names' = names /\ names <= names
      BY DEF BusTypes, Takes, NamesInv, Known
    <3>4. \A i \in 1..Len(wire') : \E k \in 1..Len(wire) : wire'[i] = wire[k]
      BY <1>3
    <3>5. asked' \in Seq(Calls) /\ wire' \in Seq(Messages) /\ landed' \in Seq(Answers)
      BY <1>1, <1>2, <2>2
    <3>6. Known(asked', wire', landed', current', owner, names)
      BY <1>1, <3>1, <3>2, <3>3, <3>4, <3>5, StillKnown
    <3> QED BY <3>3, <3>6
  <2>9. Apart(wire', landed')
    BY <1>1, <1>5, <2>1, StillApart DEF NamesInv, Takes, a
  <2> QED BY <1>4, <2>3, <2>5, <2>7, <2>8, <2>9 DEF NamesInv
<1>6. CASE Head(wire).kind # "reply"
  <2>1. landed' = landed /\ landed \in Seq(Answers)
    BY <1>6 DEF BusTypes, Takes
  <2>2. BusTypes'
    BY <1>1, <1>2, <2>1 DEF BusTypes, Takes
  <2>3. Offline'
    BY <1>2, <1>3, <2>1 DEF Offline, Connected, Takes, AskedMore
  <2>4. StartsOnce'
    <3> SUFFICES ASSUME phase \in {"new", "connecting", "subscribing"} PROVE StartsOnce'
      BY DEF StartsOnce, Takes
    <3>1. /\ ~StartLanded /\ \A i \in 1..Len(asked) : ~IsStart(asked[i])
          /\ \A i \in 1..Len(wire) : ~StartsAt(wire, i)
      BY DEF StartsOnce
    <3>2. ~StartLanded'
      BY <2>1, <3>1 DEF StartLanded
    <3>3. \A i \in 1..Len(asked') : ~IsStart(asked'[i])
      BY <1>2, <3>1
    <3>4. \A i \in 1..Len(wire') : ~StartsAt(wire', i)
      BY <1>3, <3>1 DEF StartsAt
    <3> QED BY <3>2, <3>3, <3>4 DEF StartsOnce
  <2>5. Known(asked', wire', landed', current', owner', names')
    <3>1. \A i \in 1..Len(asked') : KnownCall(asked'[i], names, current')
                                       \/ \E j \in 1..Len(asked) : asked'[i] = asked[j]
      BY <1>2
    <3>2. /\ asked \in Seq(Calls) /\ names \in Nat /\ current \in Nat
          /\ Known(asked, wire, landed, current, owner, names) /\ owner <= names /\ current' \in Nat
          /\ current' = current \/ current' <= names
          /\ owner' = owner /\ names' = names
      BY DEF BusTypes, Takes, NamesInv, Known
    <3>3. \A i \in 1..Len(landed) : \E j \in 1..Len(landed) : landed[i] = landed[j]
      OBVIOUS
    <3>4. \A i \in 1..Len(wire') : \E k \in 1..Len(wire) : wire'[i] = wire[k]
      BY <1>3
    <3>5. names <= names
      BY <3>2
    <3>6. Known(asked', wire', landed, current', owner, names)
      BY <1>1, <1>2, <2>1, <3>1, <3>2, <3>3, <3>4, <3>5, StillKnown
    <3> QED BY <2>1, <3>2, <3>6
  <2>6. Apart(wire', landed')
    BY <1>1, <2>1, StillApart DEF NamesInv, Takes
  <2> QED BY <1>4, <2>2, <2>3, <2>4, <2>5, <2>6 DEF NamesInv
<1> QED BY <1>5, <1>6

\* A refresh is asked for by nobody's start(), of a name that is known.
LEMMA Scheduled ==
    ASSUME BusTypes, NEW n \in Epochs, n <= names, ScheduleRefresh(n)
    PROVE  \E e : AskedMore(e) /\ \A i \in 1..Len(e) : ~IsStart(e[i]) /\ KnownCall(e[i], names, n)
<1> DEFINE ask == ReadTree(n, "schedule")
<1>1. ask \in Calls /\ ~IsStart(ask) /\ KnownCall(ask, names, n)
  BY DEF ReadTree, Calls, Askers, IsStart, KnownCall
<1>2. asked' = asked \/ (Connected /\ asked' = Append(asked, ask))
  <2>1. CASE refreshing
    BY <2>1 DEF ScheduleRefresh
  <2>2. CASE ~refreshing
    BY <2>2 DEF ScheduleRefresh
  <2> QED BY <2>1, <2>2
<1> HIDE DEF ask
<1>3. CASE asked' = asked
  <2>1. AskedMore(<<>>)
    BY <1>3, AskedNothing
  <2>2. Len(<<>>) = 0
    OBVIOUS
  <2> QED BY <2>1, <2>2
<1>4. CASE Connected /\ asked' = Append(asked, ask)
  <2>1. AskedMore(<<ask>>)
    BY <1>1, <1>4, AskedOne
  <2>2. \A i \in 1..Len(<<ask>>) : ~IsStart(<<ask>>[i]) /\ KnownCall(<<ask>>[i], names, n)
    BY <1>1
  <2> QED BY <2>1, <2>2
<1> QED BY <1>2, <1>3, <1>4

\* What comes behind the answers that landed is sound without them.
LEMMA BehindLanded ==
    ASSUME BusInv, Active, Connected
    PROVE  /\ Sound(asked, wire, 0, owner, phase = "started" \/ StartLanded)
           /\ Answered(landed) \in Seq(Messages)
           /\ Starts(Answered(landed)) <=> StartLanded
<1> DEFINE l == Answered(landed)
<1>1. wire \in Seq(Messages) /\ landed \in Seq(Answers)
  BY DEF BusInv, BusTypes
<1>2. /\ l \in Seq(Messages) /\ Len(l) = Len(landed) /\ Len(landed) \in Nat
      /\ \A i \in 1..Len(landed) : l[i] = AsReply(landed[i])
  BY <1>1, AnsweredElements
<1> HIDE DEF l
<1>3. \A a : AsReply(a).kind = "reply" /\ AsReply(a).answer = a
  BY DEF AsReply
<1>4. Starts(l) <=> StartLanded
  BY <1>2, <1>3 DEF Starts, StartLanded, StartsAt
<1>5. Sound(asked, Ahead, Base, owner, Promised)
  BY DEF BusInv
<1>6. CASE overtaken
  <2>1. Ahead = wire /\ Base = 0 /\ (Promised <=> phase = "started" \/ StartLanded)
    BY <1>6 DEF Ahead, Base, Promised
  <2>2. Sound(asked, wire, 0, owner, Promised)
    BY <1>5, <2>1
  <2>3. Sound(asked, wire, 0, owner, phase = "started" \/ StartLanded)
    BY <1>1, <2>1, <2>2, SoundForgets
  <2> QED BY <1>2, <1>4, <2>3 DEF l
<1>7. CASE ~overtaken
  <2>1. Ahead = l \o wire /\ Base = current /\ (Promised <=> phase = "started")
    BY <1>7 DEF Ahead, Base, Promised, l
  <2>2. Sound(asked, l \o wire, current, owner, Promised)
    BY <1>5, <2>1
  <2>3. Sound(asked, wire, 0, owner, Promised \/ Starts(l))
    BY <1>1, <1>2, <2>2, SoundDropped
  <2>4. phase = "started" \/ StartLanded => Promised \/ Starts(l)
    BY <1>4, <2>1
  <2>5. Sound(asked, wire, 0, owner, phase = "started" \/ StartLanded)
    BY <1>1, <2>3, <2>4, SoundForgets
  <2> QED BY <1>2, <1>4, <2>5 DEF l
<1> QED BY <1>6, <1>7

LEMMA OwnerChangeKeeps ==
    ASSUME BusInv, ClientInv, OnNameOwnerChanged
    PROVE  BusInv'
<1> DEFINE msg == Head(wire)
           n == msg.name
<1>1. /\ wire # <<>> /\ wire' = Tail(wire) /\ msg.kind = "owner-changed"
      /\ UNCHANGED <<landed, owner, names, tree, phase, state, socket, matched>>
      /\ \/ /\ ~Listening \/ "owner" \notin refs \/ (n = current /\ n # 0)
            /\ UNCHANGED <<current, asked>> /\ overtaken' = (overtaken \/ Adopting)
         \/ n = 0 /\ current' = 0 /\ asked' = asked /\ overtaken' = Adopting
         \/ n # 0 /\ current' = n /\ ScheduleRefresh(n) /\ overtaken' = Adopting
  BY DEF OnNameOwnerChanged, Deliverable, world, transportVars
<1>2. wire \in Seq(Messages) /\ msg \in Messages /\ msg = wire[1] /\ 1 \in 1..Len(wire)
      /\ landed \in Seq(Answers) /\ names \in Nat /\ current \in Nat /\ overtaken \in BOOLEAN
  BY <1>1, Consumed DEF BusInv, BusTypes
<1>3. n \in Nat /\ Tells(msg) /\ NameTold(msg) = n
  BY <1>1, <1>2 DEF Messages, Tells, NameTold
<1>4. n <= names
  <2>1. KnownMessage(wire[1], names, current)
    BY <1>2 DEF BusInv, NamesInv, Known
  <2> QED BY <1>1, <1>2, <2>1 DEF KnownMessage
<1>5. phase \notin {"failed", "stopped"} => Listening /\ "owner" \in refs
  BY <1>1, <1>2 DEF BusInv, Signalled, ClientInv, Listening, BusTypes
<1> HIDE DEF msg, n
<1>6. phase \notin {"failed", "stopped"} => current' = n
  BY <1>1, <1>5
<1>7. Takes(landed)
  BY <1>1, <1>2, <1>3, <1>4 DEF Takes, msg, Adopting
<1>8. PICK e : AskedMore(e) /\ \A i \in 1..Len(e) : ~IsStart(e[i]) /\ KnownCall(e[i], names, current')
  <2>1. CASE asked' = asked
    <3>1. AskedMore(<<>>) /\ Len(<<>>) = 0
      BY <2>1, AskedNothing DEF BusInv
    <3> QED BY <3>1
  <2>2. CASE n # 0 /\ current' = n /\ ScheduleRefresh(n)
    BY <1>3, <1>4, <2>2, Scheduled DEF BusInv, Epochs
  <2> QED BY <1>1, <2>1, <2>2
<1>9. BusTypes' /\ Offline' /\ Signalled' /\ StartsOnce' /\ NamesInv'
  BY <1>7, <1>8, MessageTaken
<1>10. ASSUME Active, Connected
       PROVE  Sound(asked', Ahead', Base', owner', Promised')
  <2> DEFINE l == Answered(landed)
             on == phase = "started" \/ StartLanded
  <2>1. Sound(asked, wire, 0, owner, on) /\ l \in Seq(Messages) /\ (Starts(l) <=> StartLanded)
    BY <1>10, BehindLanded
  <2>2. /\ Len(l) = Len(landed) /\ Len(landed) \in Nat
        /\ \A i \in 1..Len(landed) : l[i] = AsReply(landed[i])
    BY <1>2, AnsweredElements
  <2> HIDE DEF on
  <2>3. Sound(asked, wire', n, owner, on)
    BY <1>1, <1>2, <1>3, <2>1, SoundHeard DEF msg
  <2>4. Sound(asked', wire', n, owner, on) /\ wire' \in Seq(Messages) /\ current' = n
    <3>1. Sound(asked \o e, wire', n, owner, on)
      BY <1>8, <2>3, SoundAsking DEF BusInv, BusTypes, AskedMore
    <3> QED BY <1>6, <1>8, <1>9, <1>10, <3>1 DEF AskedMore, BusTypes, Active
  <2>5. CASE overtaken'
    <3>1. Ahead' = wire' /\ Base' = 0 /\ owner' = owner /\ (Promised' => on)
      BY <1>1, <2>5 DEF Ahead, Base, Promised, StartLanded, on
    <3> QED BY <2>4, <3>1, SoundForgets
  <2>6. CASE ~overtaken'
    <3>a. landed' = landed /\ phase' = phase /\ owner' = owner
      BY <1>1
    <3>b. Ahead' = l \o wire'
      BY <3>a, <2>6 DEF Ahead
    <3>c. Base' = n
      BY <2>4, <2>6 DEF Base
    <3>d. Promised' => on
      BY <3>a, <2>6 DEF Promised, on
    <3>e. ~Adopting
      BY <1>1, <2>6, Zenon
    <3>1. Ahead' = l \o wire' /\ Base' = n /\ owner' = owner /\ (Promised' => on) /\ ~Adopting
      BY <3>a, <3>b, <3>c, <3>d, <3>e
    <3> HIDE DEF l
    <3>2. \A a : AsReply(a).kind = "reply" /\ AsReply(a).answer = a
      BY DEF AsReply
    <3>3. \A i \in 1..Len(l) : ~Tells(l[i])
      BY <2>2, <3>1, <3>2 DEF Adopting, Tells
    <3>4. \A i \in 1..(Len(l) + 1) : \A x : InForce(l, n, i, x) => x = n
      BY <2>2, <3>3 DEF InForce
    <3>5. \A i \in 1..Len(l) : ReadsTree(l, i) => n = 0 \/ n # l[i].answer.epoch
      <4>1. Apart(wire, landed)
        BY DEF BusInv, NamesInv
      <4>2. \A j \in 1..Len(landed) : landed[j].call = "tree" /\ landed[j].ok => n = 0 \/ landed[j].epoch # n
        BY <1>1, <1>2, <4>1 DEF Apart, n, msg
      <4> QED BY <2>2, <3>2, <4>2 DEF ReadsTree
    <3>6. Promised' \/ Starts(l) => on
      BY <2>1, <3>1 DEF on
    <3>7. \A x : InForce(l, n, Len(l) + 1, x) => x = n
      <4>1. Len(l) + 1 \in 1..(Len(l) + 1)
        BY <2>2
      <4> QED BY <3>4, <4>1
    <3>8. \A i \in 1..Len(l) : ReadsTree(l, i) => \A x : InForce(l, n, i, x) => x = 0 \/ x # l[i].answer.epoch
      <4>1. \A i \in 1..Len(l) : i \in 1..(Len(l) + 1)
        BY <2>2
      <4> QED BY <3>4, <3>5, <4>1
    <3>9. Sound(asked', l \o wire', n, owner, Promised')
      BY <2>1, <2>4, <3>6, <3>7, <3>8, SoundPrepended
    <3> QED BY <3>1, <3>9
  <2> QED BY <2>5, <2>6
<1> QED BY <1>1, <1>9, <1>10 DEF BusInv, Active, Connected

LEMMA ObjectSignalKeeps ==
    ASSUME BusInv, OnObjectSignal
    PROVE  BusInv'
<1>1. /\ wire # <<>> /\ wire' = Tail(wire) /\ Head(wire).kind = "object-changed"
      /\ UNCHANGED <<landed, owner, names, tree, phase, state, socket, matched, current, overtaken>>
      /\ \/ asked' = asked
         \/ current # 0 /\ Head(wire).from = current /\ ScheduleRefresh(current)
  BY DEF OnObjectSignal, Deliverable, world, transportVars, past
<1>2. wire \in Seq(Messages) /\ Head(wire) = wire[1] /\ 1 \in 1..Len(wire)
      /\ landed \in Seq(Answers) /\ names \in Nat /\ current \in Nat /\ overtaken \in BOOLEAN
  BY <1>1, Consumed DEF BusInv, BusTypes
<1>3. Head(wire).from <= names
  <2>1. KnownMessage(wire[1], names, current)
    BY <1>2 DEF BusInv, NamesInv, Known
  <2> QED BY <1>1, <1>2, <2>1 DEF KnownMessage
<1>4. Takes(landed)
  BY <1>1, <1>2 DEF Takes
<1>5. PICK e : AskedMore(e) /\ \A i \in 1..Len(e) : ~IsStart(e[i]) /\ KnownCall(e[i], names, current)
  <2>1. CASE asked' = asked
    <3>1. AskedMore(<<>>) /\ Len(<<>>) = 0
      BY <2>1, AskedNothing DEF BusInv
    <3> QED BY <3>1
  <2>2. CASE current # 0 /\ Head(wire).from = current /\ ScheduleRefresh(current)
    BY <1>2, <1>3, <2>2, Scheduled DEF BusInv, Epochs
  <2> QED BY <1>1, <2>1, <2>2
<1>6. BusTypes' /\ Offline' /\ Signalled' /\ StartsOnce' /\ NamesInv'
  BY <1>1, <1>4, <1>5, MessageTaken
<1>7. ASSUME Active, Connected
      PROVE  Sound(asked', Ahead', Base', owner', Promised')
  <2> DEFINE l == Answered(landed)
  <2>1. Sound(asked, Ahead, Base, owner, Promised) /\ l \in Seq(Messages)
    BY <1>7, BehindLanded DEF BusInv
  <2>2. Base' = Base /\ (Promised' <=> Promised) /\ owner' = owner
    BY <1>1 DEF Base, Promised, StartLanded
  <2>3. Sound(asked, Ahead', Base, owner, Promised)
    <3>1. CASE overtaken
      <4>1. Ahead = wire /\ Ahead' = Tail(wire) /\ ~Tells(Head(wire))
        BY <1>1, <3>1 DEF Ahead, Tells
      <4> QED BY <1>1, <1>2, <2>1, <4>1, SoundHeard
    <3>2. CASE ~overtaken
      <4>1. Ahead = l \o wire /\ Ahead' = l \o Tail(wire)
        BY <1>1, <3>2 DEF Ahead
      <4> HIDE DEF l
      <4> QED BY <1>1, <1>2, <2>1, <4>1, SoundSkipped
    <3> QED BY <3>1, <3>2
  <2>4. Sound(asked \o e, Ahead', Base, owner, Promised)
    BY <1>5, <2>3, SoundAsking DEF BusInv, BusTypes, AskedMore
  <2>5. Promised' = Promised
    BY <1>1 DEF Promised, StartLanded
  <2> QED BY <1>5, <2>2, <2>4, <2>5 DEF AskedMore
<1> QED BY <1>1, <1>6, <1>7 DEF BusInv, Active, Connected

LEMMA ReplyKeeps ==
    ASSUME BusInv, OnReply
    PROVE  BusInv'
<1> DEFINE a == Head(wire).answer
<1>1. /\ wire # <<>> /\ wire' = Tail(wire) /\ Head(wire).kind = "reply" /\ landed' = Append(landed, a)
      /\ UNCHANGED <<asked, owner, names, tree, phase, state, socket, matched, current, overtaken>>
  BY DEF OnReply, Deliverable, world, transportVars, past
<1>2. wire \in Seq(Messages) /\ Head(wire) = wire[1] /\ 1 \in 1..Len(wire)
      /\ landed \in Seq(Answers) /\ current \in Nat /\ overtaken \in BOOLEAN /\ Head(wire) \in Messages
  BY <1>1, Consumed DEF BusInv, BusTypes
<1>3. Takes(Append(landed, a))
  BY <1>1, <1>2 DEF Takes
<1>4. AskedMore(<<>>) /\ Len(<<>>) = 0
  BY <1>1, AskedNothing DEF BusInv
<1>5. BusTypes' /\ Offline' /\ Signalled' /\ StartsOnce' /\ NamesInv'
  BY <1>3, <1>4, MessageTaken
<1>6. ASSUME Active, Connected
      PROVE  Sound(asked', Ahead', Base', owner', Promised')
  <2>1. Sound(asked, Ahead, Base, owner, Promised)
    BY <1>6 DEF BusInv
  <2>2. CASE ~overtaken
    <3>1. Answered(Append(landed, a)) \o Tail(wire) = Answered(landed) \o wire
      BY <1>1, <1>2, AnsweredNext
    <3>2. Ahead' = Ahead /\ Base' = Base /\ (Promised' = Promised) /\ owner' = owner /\ asked' = asked
      BY <1>1, <2>2, <3>1 DEF Ahead, Base, Promised
    <3> QED BY <2>1, <3>2
  <2>3. CASE overtaken
    <3>1. Ahead = wire /\ Ahead' = Tail(wire) /\ Base = 0 /\ Base' = 0 /\ owner' = owner /\ asked' = asked
      BY <1>1, <2>3 DEF Ahead, Base
    <3>2. a \in Answers
      BY <1>1, <1>2 DEF Messages
    <3>3. StartLanded' => StartLanded \/ IsStart(a)
      <4> HIDE DEF a
      <4>1. /\ Len(landed') = Len(landed) + 1 /\ landed'[Len(landed) + 1] = a /\ Len(landed) \in Nat
            /\ \A j \in 1..Len(landed) : landed'[j] = landed[j]
        BY <1>1, <1>2, <3>2
      <4> QED BY <4>1 DEF StartLanded
    <3>4. Promised' => Promised \/ StartsAt(wire, 1)
      BY <1>1, <1>2, <2>3, <3>3 DEF Promised, StartsAt
    <3> DEFINE after == IF Tells(Head(wire)) THEN NameTold(Head(wire)) ELSE 0
    <3>5. Sound(asked, Tail(wire), after, owner, Promised')
      BY <1>1, <1>2, <2>1, <3>1, <3>4, SoundHeard
    <3> HIDE DEF after
    <3>6. Sound(asked, Tail(wire), 0, owner, Promised')
      BY <1>1, <1>2, <3>5, Consumed, SoundForgets
    <3> QED BY <3>1, <3>6
  <2> QED BY <2>2, <2>3
<1> QED BY <1>1, <1>5, <1>6 DEF BusInv, Active, Connected

\* An answer that landed is taken up, and what it gives rise to asked.
LEMMA AnswerTaken ==
    ASSUME BusInv, NEW r, landed # <<>>, r = Head(landed), landed' = Tail(landed),
           UNCHANGED <<wire, owner, names, tree, state, socket, matched, overtaken>>,
           current' = (IF r.call = "owner" THEN r.name ELSE current),
           phase' = phase \/ (IsStart(r) /\ phase = "adopting" /\ phase' = "started"),
           NEW e, AskedMore(e),
           \A i \in 1..Len(e) : (IsStart(e[i]) => IsStart(r)) /\ KnownCall(e[i], names, current')
    PROVE  BusInv'
<1> USE DEF BusInv
<1>1. /\ asked \in Seq(Calls) /\ asked' \in Seq(Calls)
      /\ \A i \in 1..Len(asked') : (\E j \in 1..Len(asked) : asked'[i] = asked[j])
                                      \/ (\E j \in 1..Len(e) : asked'[i] = e[j])
  BY MoreElements DEF BusTypes
<1>2. /\ landed \in Seq(Answers) /\ Len(landed) \in Nat \ {0} /\ r = landed[1] /\ r \in Answers
      /\ landed' \in Seq(Answers) /\ Len(landed') = Len(landed) - 1
      /\ \A j \in 1..(Len(landed) - 1) : landed'[j] = landed[j + 1]
  BY DEF BusTypes
<1>3. \A j \in 1..Len(landed') : j + 1 \in 1..Len(landed) /\ landed'[j] = landed[j + 1]
  BY <1>2
<1>4. KnownAnswer(r, names, current)
  BY <1>2 DEF NamesInv, Known
<1>5. current' \in Nat /\ (current' = current \/ current' <= names)
  BY <1>2, <1>4 DEF BusTypes, Answers, KnownAnswer
<1>6. BusTypes'
  BY <1>1, <1>2, <1>5 DEF BusTypes
<1>7. Connected /\ Connected'
  BY DEF Offline, Connected
<1>8. Offline'
  BY <1>7 DEF Offline
<1>9. Signalled'
  BY DEF Signalled
<1>10. StartsOnce'
  <2> SUFFICES ASSUME phase' \in {"new", "connecting", "subscribing"} PROVE StartsOnce'
    BY DEF StartsOnce
  <2>1. phase' = phase
    OBVIOUS
  <2>2. /\ ~StartLanded /\ \A i \in 1..Len(asked) : ~IsStart(asked[i])
        /\ \A i \in 1..Len(wire) : ~StartsAt(wire, i)
    BY <2>1 DEF StartsOnce
  <2>3. ~IsStart(r)
    BY <1>2, <2>2 DEF StartLanded
  <2>4. ~StartLanded'
    BY <1>3, <2>2 DEF StartLanded
  <2>5. \A i \in 1..Len(asked') : ~IsStart(asked'[i])
    BY <1>1, <2>2, <2>3
  <2> QED BY <2>2, <2>4, <2>5 DEF StartsOnce
<1>11. NamesInv'
  <2>1. \A i \in 1..Len(asked') : KnownCall(asked'[i], names, current')
                                     \/ \E j \in 1..Len(asked) : asked'[i] = asked[j]
    BY <1>1
  <2>2. /\ names \in Nat /\ current \in Nat /\ wire \in Seq(Messages)
        /\ Known(asked, wire, landed, current, owner, names) /\ owner <= names /\ names <= names
    BY DEF BusTypes, NamesInv, Known
  <2>3. \A i \in 1..Len(wire) : \E j \in 1..Len(wire) : wire[i] = wire[j]
    OBVIOUS
  <2>4. \A i \in 1..Len(landed') : \E j \in 1..Len(landed) : landed'[i] = landed[j]
    BY <1>3
  <2>5. Known(asked', wire, landed', current', owner, names)
    <3>1. asked \in Seq(Calls) /\ asked' \in Seq(Calls) /\ landed \in Seq(Answers) /\ landed' \in Seq(Answers)
      BY <1>1, <1>2
    <3>2. ASSUME NEW c \in Nat, c = current \/ c <= names,
                 \A i \in 1..Len(asked') : KnownCall(asked'[i], names, c)
                                            \/ \E j \in 1..Len(asked) : asked'[i] = asked[j]
          PROVE  Known(asked', wire, landed', c, owner, names)
      BY <2>2, <2>3, <2>4, <3>1, <3>2, StillKnown
    <3> QED BY <1>5, <2>1, <3>2
  <2>6. Apart(wire, landed')
    BY <1>2, <2>2, StillApart DEF NamesInv
  <2> QED BY <2>5, <2>6 DEF NamesInv
<1>12. ASSUME Active'
       PROVE  Sound(asked', Ahead', Base', owner', Promised')
  <2>1. Sound(asked, Ahead, Base, owner, Promised)
    BY <1>7, <1>12 DEF Active
  <2>2. wire \in Seq(Messages) /\ Ahead \in Seq(Messages) /\ (overtaken \in BOOLEAN)
    <3>1. wire \in Seq(Messages) /\ (overtaken \in BOOLEAN)
      BY DEF BusTypes
    <3>2. Answered(landed) \in Seq(Messages)
      BY <1>2, AnsweredElements
    <3>3. Answered(landed) \o wire \in Seq(Messages)
      BY <3>1, <3>2, Joined
    <3> QED BY <3>1, <3>3 DEF Ahead
  <2>3. Sound(asked, Ahead', Base', owner, Promised')
    <3>1. CASE overtaken
      <4>1. Ahead' = Ahead /\ Base' = 0 /\ Base = 0
        BY <3>1 DEF Ahead, Base
      <4>2. StartLanded' \/ IsStart(r) => StartLanded
        BY <1>2, <1>3 DEF StartLanded
      <4>3. Promised' => Promised
        BY <3>1, <4>2 DEF Promised
      <4> QED BY <2>1, <2>2, <4>1, <4>3, SoundForgets
    <3>2. CASE ~overtaken
      <4>1. /\ Answered(landed) \o wire # <<>>
            /\ Head(Answered(landed) \o wire) = AsReply(r)
            /\ Tail(Answered(landed) \o wire) = Answered(Tail(landed)) \o wire
        BY <1>2, <2>2, AnsweredFirst
      <4>2. Ahead = Answered(landed) \o wire /\ Ahead' = Answered(Tail(landed)) \o wire
        BY <3>2 DEF Ahead
      <4>3. Ahead # <<>> /\ Head(Ahead) = AsReply(r) /\ Ahead' = Tail(Ahead)
        BY <4>1, <4>2
      <4>4. AsReply(r).kind = "reply" /\ AsReply(r).answer = r
        BY DEF AsReply
      <4>5. Head(Ahead) = Ahead[1]
        BY <2>2, <4>3
      <4>6. Base = current /\ Base' = current'
        BY <3>2 DEF Base
      <4>7. current' = (IF Tells(Head(Ahead)) THEN NameTold(Head(Ahead)) ELSE Base)
        BY <4>3, <4>4, <4>6 DEF Tells, NameTold
      <4>8. Promised' => Promised \/ StartsAt(Ahead, 1)
        BY <3>2, <4>3, <4>4, <4>5 DEF Promised, StartsAt
      <4>9. Sound(asked, Tail(Ahead), current', owner, Promised')
        BY <2>1, <2>2, <4>3, <4>7, <4>8, SoundHeard
      <4> QED BY <4>3, <4>6, <4>9
    <3> QED BY <2>2, <3>1, <3>2
  <2>4. Sound(asked \o e, Ahead', Base', owner, Promised')
    BY <1>1, <2>3, SoundAsking DEF AskedMore
  <2> QED BY <2>4 DEF AskedMore
<1> QED BY <1>6, <1>8, <1>9, <1>10, <1>11, <1>12

LEMMA AdoptionKeeps ==
    ASSUME BusInv, AdoptOwner
    PROVE  BusInv'
<1> DEFINE r == Head(landed)
<1>1. /\ landed # <<>> /\ r.call = "owner" /\ landed' = Tail(landed)
      /\ UNCHANGED <<wire, owner, names, tree, state, socket, matched, overtaken>>
      /\ current' = r.name
      /\ \/ asked' = asked /\ FinishPrime(r.by)
         \/ /\ r.name # 0 /\ phase' = phase
            /\ asked' = Append(asked, ReadTree(r.name, r.by))
  BY DEF AdoptOwner, world, transportVars, past
<1>2. r \in Answers /\ KnownAnswer(r, names, current)
  BY <1>1 DEF BusInv, BusTypes, NamesInv, Known
<1>3. r.by \in Askers /\ r.name \in Nat /\ r.name <= names
  BY <1>1, <1>2 DEF Answers, KnownAnswer
<1>4. Connected
  BY <1>1 DEF BusInv, Offline
<1> HIDE DEF r
<1>5. phase' = phase \/ (IsStart(r) /\ phase = "adopting" /\ phase' = "started")
  BY <1>1 DEF FinishPrime, PrimeEnds, IsStart
<1>6. \E e : AskedMore(e) /\ \A i \in 1..Len(e) : (IsStart(e[i]) => IsStart(r)) /\ KnownCall(e[i], names, current')
  <2>1. CASE asked' = asked
    <3>1. AskedMore(<<>>) /\ Len(<<>>) = 0
      BY <2>1, AskedNothing DEF BusInv
    <3> QED BY <3>1
  <2>2. CASE r.name # 0 /\ asked' = Append(asked, ReadTree(r.name, r.by))
    <3> DEFINE ask == ReadTree(r.name, r.by)
    <3>1. ask \in Calls /\ (IsStart(ask) => IsStart(r)) /\ KnownCall(ask, names, current')
      BY <1>1, <1>3, <2>2 DEF ReadTree, Calls, Epochs, IsStart, KnownCall
    <3>2. asked' = Append(asked, ask)
      BY <2>2
    <3> HIDE DEF ask
    <3>3. AskedMore(<<ask>>)
      BY <1>4, <3>1, <3>2, AskedOne DEF BusInv
    <3>4. \A i \in 1..Len(<<ask>>) : (IsStart(<<ask>>[i]) => IsStart(r)) /\ KnownCall(<<ask>>[i], names, current')
      BY <3>1
    <3> QED BY <3>3, <3>4
  <2> QED BY <1>1, <2>1, <2>2
<1> QED BY <1>1, <1>5, <1>6, AnswerTaken DEF r

\* One call for each modem of a finite set, and nothing else.
LEMMA SetupsAsked ==
    \A S \in SomeModems :
        LET e == [i \in 1..Cardinality(S) |-> Setup(AnyOrder(S)[i])] IN
        e \in Seq(Calls) /\ \A i \in 1..Len(e) : e[i].call = "setup"
<1> SUFFICES ASSUME NEW S \in SomeModems
             PROVE  LET e == [i \in 1..Cardinality(S) |-> Setup(AnyOrder(S)[i])] IN
                    e \in Seq(Calls) /\ \A i \in 1..Len(e) : e[i].call = "setup"
  OBVIOUS
<1> DEFINE n == Cardinality(S)
<1>1. IsFiniteSet(S) /\ S \subseteq Modems
  BY DEF SomeModems
<1>2. n \in Nat /\ ExistsBijection(1..n, S)
  BY <1>1, FS_CardinalityType
<1> HIDE DEF n
<1>3. \E q \in [1..n -> S] : \A i, j \in 1..n : q[i] = q[j] => i = j
  BY <1>2 DEF ExistsBijection, Bijection, Injection, IsInjective
<1>4. AnyOrder(S) \in [1..n -> S]
  BY <1>3 DEF AnyOrder, n
<1>5. \A i \in 1..n : Setup(AnyOrder(S)[i]) \in Calls /\ Setup(AnyOrder(S)[i]).call = "setup"
  BY <1>1, <1>4 DEF Setup, Calls
<1> DEFINE f[i \in 1..n] == Setup(AnyOrder(S)[i])
<1>6. f \in [1..n -> Calls] /\ \A i \in 1..n : f[i].call = "setup"
  BY <1>5
<1> HIDE DEF f
<1>7. f \in Seq(Calls) /\ \A i \in 1..Len(f) : f[i].call = "setup"
  BY <1>2, <1>6
<1> QED BY <1>7 DEF f, n

LEMMA RefreshKeeps ==
    ASSUME BusInv, RefreshLands
    PROVE  BusInv'
<1> DEFINE r == Head(landed)
           setups == IF r.epoch = current /\ ~Stopped /\ r.ok THEN SetupsFor(r.epoch, r.tree) ELSE {}
           launch == current # 0 /\ ((queued /\ ~Stopped) \/ MakesUp(r.by))
           first == [i \in 1..Cardinality(setups) |-> Setup(AnyOrder(setups)[i])]
           last == IF launch THEN <<ReadTree(current, "schedule")>> ELSE <<>>
           Harmless(ask) == ~IsStart(ask) /\ KnownCall(ask, names, current)
<1>1. /\ landed # <<>> /\ r.call = "tree" /\ landed' = Tail(landed)
      /\ UNCHANGED <<wire, owner, names, tree, state, socket, matched, current, overtaken>>
      /\ asked' = asked \o first \o last
      /\ FinishPrime(r.by)
  BY DEF RefreshLands, world, transportVars, past
<1>2. r \in Answers /\ KnownAnswer(r, names, current)
  BY <1>1 DEF BusInv, BusTypes, NamesInv, Known
<1>3. r.tree \in SomeModems /\ current <= names
  BY <1>1, <1>2 DEF Answers, KnownAnswer
<1>4. setups \in SomeModems
  <2>1. setups \subseteq r.tree
    BY DEF SetupsFor
  <2> HIDE DEF setups
  <2> QED BY <1>3, <2>1, FS_Subset DEF SomeModems
<1>5. first \in Seq(Calls) /\ \A i \in 1..Len(first) : Harmless(first[i])
  <2> HIDE DEF setups
  <2>1. first \in Seq(Calls) /\ \A i \in 1..Len(first) : first[i].call = "setup"
    BY <1>4, SetupsAsked
  <2>2. \A x : x.call = "setup" => Harmless(x)
    BY DEF IsStart, KnownCall
  <2> HIDE DEF first, Harmless
  <2> QED BY <2>1, <2>2
<1>6. last \in Seq(Calls) /\ \A i \in 1..Len(last) : Harmless(last[i])
  <2>1. CASE launch
    <3> DEFINE ask == ReadTree(current, "schedule")
    <3>1. ask \in Calls /\ Harmless(ask)
      BY <1>3, <2>1 DEF ReadTree, Calls, Epochs, Askers, IsStart, KnownCall, BusInv, BusTypes
    <3>2. last = <<ask>>
      BY <2>1
    <3> HIDE DEF ask, last, Harmless
    <3> QED BY <3>1, <3>2
  <2>2. CASE ~launch
    <3>1. last = <<>>
      BY <2>2
    <3> HIDE DEF last
    <3> QED BY <3>1
  <2> QED BY <2>1, <2>2
<1>7. Connected
  BY <1>1 DEF BusInv, Offline
<1>8. phase' = phase \/ (IsStart(r) /\ phase = "adopting" /\ phase' = "started")
  BY <1>1 DEF FinishPrime, PrimeEnds, IsStart
<1>9. current' = IF r.call = "owner" THEN r.name ELSE current
  BY <1>1
<1> HIDE DEF r, first, last, Harmless
<1>10. /\ AskedMore(first \o last)
       /\ \A i \in 1..Len(first \o last) : Harmless((first \o last)[i])
  <2>1. asked \in Seq(Calls)
    BY DEF BusInv, BusTypes
  <2>2. first \o last \in Seq(Calls) /\ asked' = asked \o (first \o last)
    BY <1>1, <1>5, <1>6, <2>1
  <2>3. \A i \in 1..Len(first \o last) : Harmless((first \o last)[i])
    <3> TAKE i \in 1..Len(first \o last)
    <3>1. CASE i \in 1..Len(first)
      BY <1>5, <1>6, <3>1
    <3>2. CASE i \notin 1..Len(first)
      <4>1. i - Len(first) \in 1..Len(last) /\ (first \o last)[i] = last[i - Len(first)]
        BY <1>5, <1>6, <3>2
      <4> QED BY <1>6, <4>1
    <3> QED BY <3>1, <3>2
  <2> QED BY <1>7, <2>2, <2>3 DEF AskedMore
<1> DEFINE e == first \o last
<1>11. /\ AskedMore(e) /\ current' = current
       /\ \A i \in 1..Len(e) : (IsStart(e[i]) => IsStart(r)) /\ KnownCall(e[i], names, current')
  BY <1>1, <1>10 DEF Harmless
<1> HIDE DEF e
<1> QED BY <1>1, <1>8, <1>9, <1>11, AnswerTaken DEF r

LEMMA SetupKeeps ==
    ASSUME BusInv, SetupLands
    PROVE  BusInv'
<1>1. /\ landed # <<>> /\ Head(landed).call = "setup" /\ landed' = Tail(landed) /\ asked' = asked
      /\ UNCHANGED <<wire, owner, names, tree, state, socket, matched, current, phase, overtaken>>
  BY DEF SetupLands, world, transportVars, past
<1>2. AskedMore(<<>>) /\ Len(<<>>) = 0
  BY <1>1, AskedNothing DEF BusInv
<1> QED BY <1>1, <1>2, AnswerTaken

\* The answer to the oldest call is the instance's that owns the name.
LEMMA AnswerGiven ==
    ASSUME BusTypes, Answer
    PROVE  \E a \in Answers :
              /\ a.call = Head(asked).call
              /\ wire' = Append(wire, AsReply(a))
              /\ a.call = "owner" => a.name = owner /\ a.by = Head(asked).by
              /\ a.call = "tree" => /\ a.from = owner /\ a.by = Head(asked).by /\ a.epoch = Head(asked).epoch
                                    /\ a.tree = tree /\ (a.ok <=> owner # 0)
              /\ IF a.call = "setup"
                 THEN a.modem = Head(asked).modem /\ configured' = configured \cup ({a.modem} \cap tree)
                 ELSE configured' = configured
<1> DEFINE c == Head(asked)
<1>1. asked # <<>> /\ c \in Calls
  BY AskedElements DEF Answer, BusTypes
<1>2. CASE c.call = "owner"
  <2> DEFINE a == [call |-> "owner", by |-> c.by, name |-> owner]
  <2>1. wire' = Append(wire, AsReply(a)) /\ configured' = configured
    BY <1>2 DEF Answer, Reply, AsReply
  <2>2. a \in Answers /\ a.call = "owner" /\ a.name = owner /\ a.by = c.by
    BY <1>1, <1>2 DEF Answers, Calls, BusTypes
  <2> HIDE DEF a
  <2> QED BY <1>2, <2>1, <2>2
<1>3. CASE c.call = "tree"
  <2> DEFINE a == [call |-> "tree", by |-> c.by, epoch |-> c.epoch,
                   from |-> owner, ok |-> owner # 0, tree |-> tree]
  <2>1. wire' = Append(wire, AsReply(a)) /\ configured' = configured
    BY <1>3 DEF Answer, Reply, AsReply
  <2>2. a \in Answers /\ a.call = "tree" /\ a.from = owner /\ a.by = c.by
        /\ a.epoch = c.epoch /\ a.tree = tree
    BY <1>1, <1>3 DEF Answers, Calls, BusTypes
  <2>3. a.ok <=> owner # 0
    OBVIOUS
  <2> HIDE DEF a
  <2> QED BY <1>3, <2>1, <2>2, <2>3
<1>4. CASE c.call = "setup"
  <2> DEFINE a == [call |-> "setup", modem |-> c.modem, ok |-> c.modem \in tree]
  <2>1. wire' = Append(wire, AsReply(a))
        /\ configured' = configured \cup ({c.modem} \cap tree)
    BY <1>4 DEF Answer, Reply, AsReply
  <2>2. a \in Answers /\ a.call = "setup" /\ a.modem = c.modem
    BY <1>1, <1>4 DEF Answers, Calls
  <2> HIDE DEF a
  <2> QED BY <1>4, <2>1, <2>2
<1> QED BY <1>1, <1>2, <1>3, <1>4 DEF Calls

LEMMA AnswerKeeps ==
    ASSUME BusInv, Answer
    PROVE  BusInv'
<1> USE DEF BusInv
<1> DEFINE c == Head(asked)
<1>1. /\ asked # <<>> /\ asked' = Tail(asked)
      /\ UNCHANGED <<landed, owner, names, tree, state, socket, matched, phase, current, overtaken>>
  BY DEF Answer, transportVars, past
<1>2. /\ asked \in Seq(Calls) /\ asked' \in Seq(Calls) /\ Len(asked) \in Nat \ {0}
      /\ Len(asked') = Len(asked) - 1 /\ c = asked[1] /\ c \in Calls
      /\ \A j \in 1..(Len(asked) - 1) : asked'[j] = asked[j + 1]
  BY <1>1, AskedElements DEF BusTypes
<1>3. PICK a \in Answers :
         /\ a.call = c.call
         /\ a.call = "owner" => a.name = owner /\ a.by = c.by
         /\ a.call = "tree" => a.from = owner /\ a.by = c.by /\ a.epoch = c.epoch
         /\ wire' = Append(wire, AsReply(a))
  BY AnswerGiven
<1>4. /\ names \in Nat /\ current \in Nat /\ owner <= names /\ names <= names
      /\ Known(asked, wire, landed, current, owner, names) /\ KnownCall(c, names, current)
  BY <1>2 DEF BusTypes, NamesInv, Known
<1> HIDE DEF c
<1> DEFINE msg == AsReply(a)
<1>5. msg \in Messages /\ msg.kind = "reply" /\ msg.answer = a /\ wire' = Append(wire, msg)
  BY <1>3 DEF Messages, AsReply
<1> HIDE DEF msg
<1>6. /\ wire \in Seq(Messages) /\ wire' \in Seq(Messages) /\ Len(wire) \in Nat
      /\ Len(wire') = Len(wire) + 1 /\ wire'[Len(wire) + 1] = msg
      /\ \A j \in 1..Len(wire) : wire'[j] = wire[j]
  BY <1>5, Appended DEF BusTypes
<1>7. BusTypes'
  BY <1>1, <1>2, <1>6 DEF BusTypes
<1>8. Connected
  BY <1>1 DEF Offline
<1>9. Offline'
  BY <1>1, <1>8 DEF Offline, Connected
<1>10. Signalled'
  <2> SUFFICES ASSUME phase \notin {"failed", "stopped"},
                      NEW i \in 1..Len(wire'), wire'[i].kind = "owner-changed"
               PROVE  /\ "owner" \in matched /\ socket = "open"
                      /\ \A name : InForce(wire', 0, Len(wire') + 1, name) => name = owner
    BY <1>1 DEF Signalled
  <2>1. /\ "owner" \in matched /\ socket = "open"
        /\ \A name : InForce(wire, 0, Len(wire) + 1, name) => name = owner
    BY <1>5, <1>6 DEF Signalled
  <2>2. Len(wire') + 1 = Len(wire) + 2
    BY <1>6
  <2>3. CASE Tells(msg)
    <3>1. NameTold(msg) = owner
      BY <1>3, <1>5, <2>3 DEF Tells, NameTold
    <3> QED BY <1>5, <1>6, <2>1, <2>2, <2>3, <3>1, InForceAppended
  <2>4. CASE ~Tells(msg)
    BY <1>5, <1>6, <2>1, <2>2, <2>4, InForceAppended
  <2> QED BY <2>3, <2>4
<1>11. StartsOnce'
  <2> SUFFICES ASSUME phase \in {"new", "connecting", "subscribing"} PROVE StartsOnce'
    BY <1>1 DEF StartsOnce
  <2>1. /\ ~StartLanded /\ \A i \in 1..Len(asked) : ~IsStart(asked[i])
        /\ \A i \in 1..Len(wire) : ~StartsAt(wire, i)
    BY DEF StartsOnce
  <2>2. ~IsStart(a)
    BY <1>2, <1>3, <2>1 DEF IsStart
  <2>3. \A i \in 1..Len(wire') : ~StartsAt(wire', i)
    BY <1>5, <1>6, <2>1, <2>2 DEF StartsAt
  <2>4. \A i \in 1..Len(asked') : ~IsStart(asked'[i])
    BY <1>2, <2>1
  <2>5. ~StartLanded'
    BY <1>1, <2>1 DEF StartLanded
  <2> QED BY <2>3, <2>4, <2>5 DEF StartsOnce
<1>12. NamesInv'
  <2>1. KnownMessage(msg, names, current)
    BY <1>3, <1>4, <1>5 DEF KnownMessage, KnownAnswer, KnownCall
  <2>2. \A i \in 1..Len(asked') : \E j \in 1..Len(asked) : asked'[i] = asked[j]
    <3>1. \A i \in 1..Len(asked') : i + 1 \in 1..Len(asked) /\ asked'[i] = asked[i + 1]
      BY <1>2
    <3> QED BY <3>1
  <2>3. \A i \in 1..Len(wire') : KnownMessage(wire'[i], names, current)
                                    \/ \E j \in 1..Len(wire) : wire'[i] = wire[j]
    BY <1>6, <2>1
  <2>4. \A i \in 1..Len(landed) : \E j \in 1..Len(landed) : landed[i] = landed[j]
    OBVIOUS
  <2>5. landed \in Seq(Answers)
    BY DEF BusTypes
  <2>6. Known(asked', wire', landed, current, owner, names)
    BY <1>2, <1>4, <1>6, <2>2, <2>3, <2>4, <2>5, StillKnown
  <2>7. Apart(wire', landed)
    BY <1>5, <1>6, <2>5, ApartSent DEF NamesInv
  <2> QED BY <1>1, <2>6, <2>7 DEF NamesInv
<1>13. ASSUME Active
       PROVE  Sound(asked', Ahead', Base', owner', Promised')
  <2>1. Sound(asked, Ahead, Base, owner, Promised)
    BY <1>8, <1>13
  <2>2. landed \in Seq(Answers) /\ (overtaken \in BOOLEAN)
    BY DEF BusTypes
  <2>3. Ahead \in Seq(Messages) /\ Ahead' = Append(Ahead, msg)
    <3>1. CASE overtaken
      BY <1>1, <1>5, <1>6, <3>1 DEF Ahead
    <3>2. CASE ~overtaken
      <4>1. Answered(landed) \in Seq(Messages)
        BY <2>2, AnsweredElements
      <4>2. Append(Answered(landed) \o wire, msg) = Answered(landed) \o Append(wire, msg)
        BY <1>5, <1>6, <4>1, JoinedAppended
      <4>3. Answered(landed) \o wire \in Seq(Messages)
        BY <1>6, <4>1, Joined
      <4> QED BY <1>1, <1>5, <3>2, <4>2, <4>3 DEF Ahead
    <3> QED BY <3>1, <3>2
  <2>4. Base' = Base /\ owner' = owner
    BY <1>1 DEF Base
  <2>5. Promised' = Promised
    BY <1>1 DEF Promised, StartLanded
  <2>6. Sound(Tail(asked), Append(Ahead, msg), Base, owner, Promised)
    BY <1>1, <1>2, <1>3, <2>1, <2>3, SoundServed DEF c, msg
  <2> QED BY <1>1, <2>3, <2>4, <2>5, <2>6
<1> QED BY <1>1, <1>7, <1>9, <1>10, <1>11, <1>12, <1>13 DEF Active, Connected

LEMMA ExpiryKeeps ==
    ASSUME BusInv, CallTimesOut
    PROVE  BusInv'
<1> USE DEF BusInv
<1> DEFINE c == Head(asked)
<1>1. /\ landed = <<>> /\ asked # <<>> /\ asked' = Tail(asked) /\ c.call # "setup"
      /\ \A i \in 1..Len(wire) : wire[i].kind # "reply"
      /\ UNCHANGED <<wire, owner, names, tree, state, socket, matched, phase, current, overtaken>>
      /\ landed' = Append(landed,
           IF c.call = "owner"
           THEN [call |-> "owner", by |-> c.by, name |-> 0]
           ELSE [call |-> "tree", by |-> c.by, epoch |-> c.epoch, from |-> 0,
                 ok |-> FALSE, tree |-> {}])
  BY DEF CallTimesOut, world, past
<1>2. /\ asked \in Seq(Calls) /\ asked' \in Seq(Calls) /\ Len(asked) \in Nat \ {0}
      /\ Len(asked') = Len(asked) - 1 /\ c = asked[1] /\ c \in Calls
      /\ \A j \in 1..(Len(asked) - 1) : asked'[j] = asked[j + 1]
  BY <1>1, AskedElements DEF BusTypes
<1>3. \E a \in Answers :
         /\ a.call = c.call /\ a.call # "setup" /\ a.by = c.by
         /\ a.call = "owner" => a.name = 0
         /\ a.call = "tree" => ~a.ok /\ a.epoch = c.epoch
         /\ landed' = <<a>>
  <2>1. CASE c.call = "owner"
    <3> DEFINE a == [call |-> "owner", by |-> c.by, name |-> 0]
    <3>1. landed' = <<a>>
      BY <1>1, <2>1
    <3>2. a \in Answers /\ a.call = "owner" /\ a.name = 0 /\ a.by = c.by
      BY <1>2, <2>1 DEF Answers, Calls
    <3> HIDE DEF a, c
    <3> QED BY <2>1, <3>1, <3>2
  <2>2. CASE c.call = "tree"
    <3> DEFINE a == [call |-> "tree", by |-> c.by, epoch |-> c.epoch, from |-> 0,
                     ok |-> FALSE, tree |-> {}]
    <3>1. landed' = <<a>>
      BY <1>1, <2>2
    <3>2. {} \in SomeModems
      BY FS_EmptySet DEF SomeModems
    <3>3. a \in Answers /\ a.call = "tree" /\ ~a.ok /\ a.by = c.by /\ a.epoch = c.epoch
      BY <1>2, <2>2, <3>2 DEF Answers, Calls
    <3> HIDE DEF a, c
    <3> QED BY <2>2, <3>1, <3>3
  <2> QED BY <1>1, <1>2, <2>1, <2>2 DEF Calls
<1>4. PICK a \in Answers :
         /\ a.call = c.call /\ a.call # "setup" /\ a.by = c.by
         /\ a.call = "owner" => a.name = 0
         /\ a.call = "tree" => ~a.ok /\ a.epoch = c.epoch
         /\ landed' = <<a>>
  BY <1>3
<1>5. /\ names \in Nat /\ current \in Nat /\ owner <= names /\ names <= names
      /\ Known(asked, wire, landed, current, owner, names) /\ KnownCall(c, names, current)
  BY <1>2 DEF BusTypes, NamesInv, Known
<1> HIDE DEF c
<1>6. landed' \in Seq(Answers) /\ Len(landed') = 1 /\ landed'[1] = a
  BY <1>4
<1>7. BusTypes'
  BY <1>1, <1>2, <1>6 DEF BusTypes
<1>8. Connected
  BY <1>1 DEF Offline
<1>9. Offline'
  BY <1>1, <1>8 DEF Offline, Connected
<1>10. Signalled'
  BY <1>1 DEF Signalled
<1>11. StartsOnce'
  <2> SUFFICES ASSUME phase \in {"new", "connecting", "subscribing"} PROVE StartsOnce'
    BY <1>1 DEF StartsOnce
  <2>1. /\ \A i \in 1..Len(asked) : ~IsStart(asked[i])
        /\ \A i \in 1..Len(wire) : ~StartsAt(wire, i)
    BY DEF StartsOnce
  <2>2. ~StartLanded'
    BY <1>2, <1>4, <1>6, <2>1 DEF IsStart, StartLanded
  <2>3. \A i \in 1..Len(asked') : ~IsStart(asked'[i])
    BY <1>2, <2>1
  <2> QED BY <1>1, <2>1, <2>2, <2>3 DEF StartsOnce
<1>12. NamesInv'
  <2>1. KnownAnswer(a, names, current)
    BY <1>4, <1>5 DEF KnownAnswer, KnownCall
  <2>2. \A i \in 1..Len(asked') : \E j \in 1..Len(asked) : asked'[i] = asked[j]
    <3>1. \A i \in 1..Len(asked') : i + 1 \in 1..Len(asked) /\ asked'[i] = asked[i + 1]
      BY <1>2
    <3> QED BY <3>1
  <2>3. \A i \in 1..Len(wire) : \E j \in 1..Len(wire) : wire[i] = wire[j]
    OBVIOUS
  <2>4. \A i \in 1..Len(landed') : KnownAnswer(landed'[i], names, current)
    BY <1>6, <2>1
  <2>5. landed \in Seq(Answers) /\ wire \in Seq(Messages)
    BY DEF BusTypes
  <2>6. Known(asked', wire, landed', current, owner, names)
    BY <1>2, <1>5, <1>6, <2>2, <2>3, <2>4, <2>5, StillKnown
  <2>7. Append(landed, a) = landed'
    BY <1>1, <1>4
  <2>8. Apart(wire, Append(landed, a))
    BY <1>4, <2>5, StillApart DEF NamesInv
  <2> QED BY <1>1, <2>6, <2>7, <2>8 DEF NamesInv
<1>13. ASSUME Active
       PROVE  Sound(asked', Ahead', Base', owner', Promised')
  <2> DEFINE l == Answered(landed')
             d == IF a.call = "owner" THEN 0 ELSE Base
  <2>1. Sound(asked, Ahead, Base, owner, Promised)
    BY <1>8, <1>13
  <2>2. wire \in Seq(Messages) /\ (overtaken \in BOOLEAN) /\ Len(wire) \in Nat
    BY DEF BusTypes
  <2>3. l \in Seq(Messages) /\ Len(l) = 1 /\ l[1] = AsReply(a)
    BY <1>6, AnsweredElements
  <2>4. AsReply(a).kind = "reply" /\ AsReply(a).answer = a
    BY DEF AsReply
  <2> HIDE DEF l
  <2>5. Ahead = wire
    <3>1. Answered(landed) \o wire = wire
      <4>1. Answered(landed) \in Seq(Messages) /\ Len(Answered(landed)) = 0
        BY <1>1, AnsweredElements DEF BusTypes
      <4>2. Answered(landed) = <<>>
        BY <4>1
      <4> QED BY <2>2, <4>2
    <3> QED BY <3>1 DEF Ahead
  <2>6. (\E i \in 1..Len(wire) : Tells(wire[i])) => Fresh(wire, Base, owner)
    <3> SUFFICES ASSUME NEW i \in 1..Len(wire), Tells(wire[i]) PROVE Fresh(wire, Base, owner)
      OBVIOUS
    <3>1. wire[i].kind = "owner-changed"
      BY <1>1 DEF Tells
    <3>2. \A name : InForce(wire, 0, Len(wire) + 1, name) => name = owner
      BY <1>13, <3>1 DEF Signalled, Active
    <3>3. \A name : InForce(wire, Base, Len(wire) + 1, name) => InForce(wire, 0, Len(wire) + 1, name)
      BY <2>2 DEF InForce
    <3> QED BY <3>2, <3>3 DEF Fresh
  <2>7. Sound(Tail(asked), wire, d, owner, Promised \/ IsStart(a))
    <3>1. Sound(asked, wire, Base, owner, Promised)
      BY <2>1, <2>5
    <3>2. a.call = Head(asked).call /\ a.by = Head(asked).by /\ a.call # "setup"
      BY <1>4 DEF c
    <3> QED BY <1>1, <1>2, <2>2, <2>6, <3>1, <3>2, SoundExpired
  <2>8. Starts(l) <=> IsStart(a)
    BY <2>3, <2>4 DEF Starts, StartsAt
  <2>9. StartLanded' <=> IsStart(a)
    BY <1>6 DEF StartLanded
  <2>10. ~StartLanded
    BY <1>1 DEF StartLanded
  <2>11. CASE overtaken
    <3>1. Ahead' = wire /\ Base' = 0 /\ Base = 0 /\ owner' = owner
      BY <1>1, <2>11 DEF Ahead, Base
    <3>2. d = 0
      BY <3>1
    <3>3. Promised' => Promised \/ IsStart(a)
      BY <1>1, <2>9, <2>11 DEF Promised
    <3>4. Sound(Tail(asked), wire, 0, owner, Promised \/ IsStart(a))
      BY <2>7, <3>2
    <3>5. Sound(Tail(asked), wire, 0, owner, Promised')
      BY <2>2, <3>3, <3>4, SoundForgets
    <3> QED BY <1>1, <3>1, <3>5
  <2>12. CASE ~overtaken
    <3>1. Ahead' = l \o wire /\ Base' = Base /\ owner' = owner
      BY <1>1, <2>12 DEF Ahead, Base, l
    <3>2. Promised' = Promised
      BY <1>1, <2>12 DEF Promised
    <3>3. \A n : InForce(l, Base, Len(l) + 1, n) => n = d
      <4>1. \A n : InForce(l, Base, Len(l) + 1, n) => IF Tells(l[1]) THEN n = NameTold(l[1]) ELSE n = Base
        BY <2>3 DEF InForce
      <4>2. IF a.call = "owner" THEN Tells(l[1]) /\ NameTold(l[1]) = 0 ELSE ~Tells(l[1])
        BY <1>4, <2>3, <2>4 DEF Tells, NameTold
      <4> QED BY <4>1, <4>2
    <3>4. \A i \in 1..Len(l) : ~ReadsTree(l, i)
      BY <1>4, <2>3, <2>4 DEF ReadsTree
    <3> HIDE DEF d
    <3>5. Sound(Tail(asked), l \o wire, Base, owner, Promised')
      BY <2>2, <2>3, <2>7, <2>8, <3>2, <3>3, <3>4, SoundPrepended
    <3> QED BY <1>1, <3>1, <3>5
  <2> QED BY <2>2, <2>11, <2>12
<1> QED BY <1>1, <1>7, <1>9, <1>10, <1>11, <1>12, <1>13 DEF Active, Connected

\* The environment changes, and says so to the rule that wants to know.
LEMMA SentKeeps ==
    ASSUME BusInv, ClientInv, RuleInv, NEW msg \in Messages, msg.kind # "reply",
           Send(IF Tells(msg) THEN "owner" ELSE "objects", msg),
           owner' = (IF Tells(msg) THEN NameTold(msg) ELSE owner),
           owner' \in Nat, names' \in Nat, tree' \in SomeModems,
           names <= names', owner' <= names', KnownMessage(msg, names', current),
           Tells(msg) => NameTold(msg) = 0 \/ NameTold(msg) > names,
           UNCHANGED <<transportVars, asked, landed, phase, current, overtaken>>
    PROVE  BusInv'
<1> USE DEF BusInv
<1>1. UNCHANGED <<state, closing, socket, effort, refs, adding, matched>>
  BY DEF transportVars
<1>2. wire \in Seq(Messages) /\ Len(wire) \in Nat /\ landed \in Seq(Answers) /\ asked \in Seq(Calls)
      /\ names \in Nat /\ current \in Nat /\ (overtaken \in BOOLEAN)
  BY DEF BusTypes
<1>3. \/ /\ wire' = Append(wire, msg) /\ socket = "open"
         /\ Tells(msg) => "owner" \in matched
      \/ /\ wire' = wire
         /\ socket # "open" \/ (IF Tells(msg) THEN "owner" ELSE "objects") \notin matched
  BY DEF Send
<1>4. Known(asked, wire, landed, current, owner, names) /\ Apart(wire, landed)
  BY DEF NamesInv
<1>5. CASE wire' = Append(wire, msg) /\ socket = "open" /\ (Tells(msg) => "owner" \in matched)
  <2>1. /\ wire' \in Seq(Messages) /\ Len(wire') = Len(wire) + 1 /\ wire'[Len(wire) + 1] = msg
        /\ \A j \in 1..Len(wire) : wire'[j] = wire[j]
    BY <1>2, <1>5, Appended
  <2>2. BusTypes'
    BY <2>1 DEF BusTypes
  <2>3. Offline'
    BY <1>1, <1>2, <2>1 DEF Offline, Connected
  <2>4. Signalled'
    <3> SUFFICES ASSUME phase \notin {"failed", "stopped"},
                        NEW i \in 1..Len(wire'), wire'[i].kind = "owner-changed"
                 PROVE  /\ "owner" \in matched /\ socket = "open"
                        /\ \A name : InForce(wire', 0, Len(wire') + 1, name) => name = owner'
      BY <1>1 DEF Signalled
    <3>1. Len(wire') + 1 = Len(wire) + 2
      BY <1>2, <2>1
    <3>2. CASE Tells(msg)
      BY <1>2, <1>5, <3>1, <3>2, InForceAppended
    <3>3. CASE ~Tells(msg)
      <4>1. i \in 1..Len(wire) /\ wire[i].kind = "owner-changed"
        BY <1>2, <2>1, <3>3 DEF Tells
      <4>2. /\ "owner" \in matched /\ socket = "open"
            /\ \A name : InForce(wire, 0, Len(wire) + 1, name) => name = owner
        BY <4>1 DEF Signalled
      <4> QED BY <1>2, <1>5, <3>1, <3>3, <4>2, InForceAppended
    <3> QED BY <3>2, <3>3
  <2>5. StartsOnce'
    <3> SUFFICES ASSUME phase \in {"new", "connecting", "subscribing"} PROVE StartsOnce'
      BY DEF StartsOnce
    <3>1. ~StartLanded' /\ \A i \in 1..Len(asked') : ~IsStart(asked'[i])
      BY DEF StartsOnce, StartLanded
    <3>2. \A i \in 1..Len(wire') : ~StartsAt(wire', i)
      BY <1>2, <2>1 DEF StartsOnce, StartsAt
    <3> QED BY <3>1, <3>2 DEF StartsOnce
  <2>6. Known(asked, wire', landed, current, owner', names')
    <3>1. \A i \in 1..Len(asked) : \E j \in 1..Len(asked) : asked[i] = asked[j]
      OBVIOUS
    <3>2. \A i \in 1..Len(landed) : \E j \in 1..Len(landed) : landed[i] = landed[j]
      OBVIOUS
    <3>3. \A i \in 1..Len(wire') : KnownMessage(wire'[i], names', current)
                                      \/ \E j \in 1..Len(wire) : wire'[i] = wire[j]
      BY <1>2, <2>1
    <3> QED BY <1>2, <1>4, <2>1, <3>1, <3>2, <3>3, StillKnown
  <2>7. Apart(wire', landed)
    <3> SUFFICES ASSUME msg.kind = "owner-changed", msg.name # 0
                 PROVE  /\ \A j \in 1..Len(wire) : ReadsTree(wire, j) => wire[j].answer.epoch # msg.name
                        /\ \A j \in 1..Len(landed) : landed[j].call = "tree" /\ landed[j].ok
                                                       => landed[j].epoch # msg.name
      BY <1>2, <1>4, <1>5, ApartSent
    <3>1. msg.name > names /\ msg.name \in Nat
      BY DEF Tells, NameTold, Messages
    <3>2. \A a \in Answers : a.call = "tree" /\ KnownAnswer(a, names, current) => a.epoch # msg.name
      BY <1>2, <3>1 DEF KnownAnswer, Answers, Epochs
    <3>3. \A j \in 1..Len(wire) : wire[j] \in Messages /\ KnownMessage(wire[j], names, current)
      BY <1>2, <1>4 DEF Known
    <3>4. \A j \in 1..Len(wire) : wire[j].kind = "reply" =>
             wire[j].answer \in Answers /\ KnownAnswer(wire[j].answer, names, current)
      BY <3>3 DEF KnownMessage, Messages
    <3>5. \A j \in 1..Len(landed) : landed[j] \in Answers /\ KnownAnswer(landed[j], names, current)
      BY <1>2, <1>4 DEF Known
    <3> QED BY <3>2, <3>4, <3>5 DEF ReadsTree
  <2>8. NamesInv'
    BY <2>6, <2>7 DEF NamesInv
  <2>9. ASSUME Active, Connected
        PROVE  Sound(asked', Ahead', Base', owner', Promised')
    <3>1. Sound(asked, Ahead, Base, owner, Promised)
      BY <2>9
    <3>2. Ahead \in Seq(Messages) /\ Ahead' = Append(Ahead, msg)
      <4>1. CASE overtaken
        BY <1>2, <1>5, <4>1 DEF Ahead
      <4>2. CASE ~overtaken
        <5>1. Answered(landed) \in Seq(Messages)
          BY <1>2, AnsweredElements
        <5>2. Append(Answered(landed) \o wire, msg) = Answered(landed) \o Append(wire, msg)
          BY <1>2, <5>1, JoinedAppended
        <5>3. Answered(landed) \o wire \in Seq(Messages)
          BY <1>2, <5>1, Joined
        <5> QED BY <1>5, <4>2, <5>2, <5>3 DEF Ahead
      <4> QED BY <4>1, <4>2
    <3>3. Base' = Base
      BY DEF Base
    <3>4. Promised' = Promised
      BY DEF Promised, StartLanded
    <3>5. IF Tells(msg) THEN NameTold(msg) = owner' ELSE owner' = owner
      OBVIOUS
    <3>6. Sound(asked, Append(Ahead, msg), Base, owner', Promised)
      BY <3>1, <3>2, <3>5, SoundSent
    <3> QED BY <3>2, <3>3, <3>4, <3>6
  <2> QED BY <1>1, <2>2, <2>3, <2>4, <2>5, <2>8, <2>9 DEF Active, Connected
<1>6. CASE wire' = wire
           /\ (socket # "open" \/ (IF Tells(msg) THEN "owner" ELSE "objects") \notin matched)
  <2>1. ~(Active /\ Connected)
    <3> SUFFICES ASSUME Active, Connected PROVE FALSE
      OBVIOUS
    <3>1. socket = "open" /\ refs = Rules /\ adding = {} /\ refs \ adding \subseteq matched
      BY DEF ClientInv, RuleInv
    <3> QED BY <1>6, <3>1, ObserverAssumption
  <2>2. BusTypes' /\ Offline'
    BY <1>1, <1>6 DEF BusTypes, Offline, Connected
  <2>3. StartsOnce'
    BY <1>6 DEF StartsOnce, StartLanded
  <2>4. Signalled'
    <3> SUFFICES ASSUME phase \notin {"failed", "stopped"},
                        NEW i \in 1..Len(wire), wire[i].kind = "owner-changed"
                 PROVE  /\ "owner" \in matched /\ socket = "open"
                        /\ \A name : InForce(wire, 0, Len(wire) + 1, name) => name = owner'
      BY <1>1, <1>6 DEF Signalled
    <3>1. /\ "owner" \in matched /\ socket = "open"
          /\ \A name : InForce(wire, 0, Len(wire) + 1, name) => name = owner
      BY DEF Signalled
    <3>2. ~Tells(msg)
      BY <1>6, <3>1
    <3> QED BY <3>1, <3>2
  <2>5. NamesInv'
    <3>1. \A i \in 1..Len(asked) : \E j \in 1..Len(asked) : asked[i] = asked[j]
      OBVIOUS
    <3>2. \A i \in 1..Len(landed) : \E j \in 1..Len(landed) : landed[i] = landed[j]
      OBVIOUS
    <3>3. \A i \in 1..Len(wire) : \E j \in 1..Len(wire) : wire[i] = wire[j]
      OBVIOUS
    <3>4. Known(asked, wire, landed, current, owner', names')
      BY <1>2, <1>4, <3>1, <3>2, <3>3, StillKnown
    <3> QED BY <1>4, <1>6, <3>4 DEF NamesInv
  <2> QED BY <1>1, <2>1, <2>2, <2>3, <2>4, <2>5 DEF Active, Connected
<1> QED BY <1>3, <1>5, <1>6

LEMMA WorldKeeps ==
    ASSUME BusInv, ClientInv, RuleInv,
           MmStarts \/ MmDies \/ \E m \in Modems : ModemChanges(m)
    PROVE  BusInv'
<1> USE DEF BusInv, BusTypes
<1>0. owner \in Nat /\ names \in Nat /\ owner <= names
  BY DEF NamesInv, Known
<1>1. CASE MmStarts
  <2> DEFINE msg == OwnerChanged(names + 1)
  <2>1. msg \in Messages /\ msg.kind = "owner-changed" /\ msg.name = names + 1
    BY DEF OwnerChanged, Messages
  <2>2. /\ Send("owner", msg) /\ owner' = names + 1 /\ names' = names + 1
        /\ UNCHANGED <<transportVars, tree, asked, landed, phase, current, overtaken>>
    BY <1>1 DEF MmStarts, past
  <2> HIDE DEF msg
  <2>3. Tells(msg) /\ NameTold(msg) = names + 1
    BY <2>1 DEF Tells, NameTold
  <2>4. KnownMessage(msg, names', current)
    BY <1>0, <2>1, <2>2 DEF KnownMessage
  <2>5. owner' \in Nat /\ names' \in Nat /\ names <= names' /\ owner' <= names' /\ names + 1 > names
    BY <1>0, <2>2
  <2>6. tree' \in SomeModems
    BY <2>2
  <2> QED BY <2>1, <2>2, <2>3, <2>4, <2>5, <2>6, SentKeeps
<1>2. CASE MmDies
  <2> DEFINE msg == OwnerChanged(0)
  <2>1. msg \in Messages /\ msg.kind = "owner-changed" /\ msg.name = 0
    BY DEF OwnerChanged, Messages
  <2>2. /\ Send("owner", msg) /\ owner' = 0 /\ names' = names /\ tree' = {}
        /\ UNCHANGED <<transportVars, asked, landed, phase, current, overtaken>>
    BY <1>2 DEF MmDies, NoInstance, past
  <2>3. {} \in SomeModems
    BY FS_EmptySet DEF SomeModems
  <2> HIDE DEF msg
  <2>4. Tells(msg) /\ NameTold(msg) = 0
    BY <2>1 DEF Tells, NameTold
  <2>5. KnownMessage(msg, names', current)
    BY <1>0, <2>1, <2>2 DEF KnownMessage
  <2>6. owner' \in Nat /\ names' \in Nat /\ names <= names' /\ owner' <= names'
    BY <1>0, <2>2
  <2> QED BY <2>1, <2>2, <2>3, <2>4, <2>5, <2>6, SentKeeps
<1>3. CASE \E m \in Modems : ModemChanges(m)
  <2> PICK m \in Modems : ModemChanges(m)
    BY <1>3
  <2> DEFINE msg == [kind |-> "object-changed", from |-> owner]
  <2>1. msg \in Messages /\ msg.kind = "object-changed" /\ msg.from = owner
    BY DEF Messages
  <2>2. /\ Send("objects", msg) /\ owner' = owner /\ names' = names
        /\ tree' = tree \ {m} \/ tree' = tree \cup {m}
        /\ UNCHANGED <<transportVars, asked, landed, phase, current, overtaken>>
    BY DEF ModemChanges, past
  <2>3. tree' \in SomeModems
    BY <2>2, FS_AddElement, FS_RemoveElement DEF SomeModems
  <2> HIDE DEF msg
  <2>4. ~Tells(msg)
    BY <2>1 DEF Tells
  <2>5. KnownMessage(msg, names', current)
    BY <1>0, <2>1, <2>2 DEF KnownMessage
  <2>6. owner' \in Nat /\ names' \in Nat /\ names <= names' /\ owner' <= names'
    BY <1>0, <2>2
  <2> QED BY <2>1, <2>2, <2>3, <2>4, <2>5, <2>6, SentKeeps
<1> QED BY <1>1, <1>2, <1>3

\* The connection changes, and nothing that is under way on it.
LEMMA QueuesStill ==
    ASSUME BusInv, UNCHANGED <<asked, wire, landed, owner, names, tree, current, overtaken>>,
           phase' = phase \/ (phase = "new" /\ phase' = "connecting") \/ phase' = "stopped",
           Connected' <=> Connected,
           phase' \notin {"failed", "stopped"} /\ "owner" \in matched /\ socket = "open" =>
               "owner" \in matched' /\ socket' = "open"
    PROVE  BusInv'
<1> USE DEF BusInv
<1>1. BusTypes' /\ Offline'
  BY DEF BusTypes, Offline
<1>2. StartsOnce'
  BY DEF StartsOnce, StartLanded
<1>3. Signalled'
  BY DEF Signalled
<1>4. NamesInv'
  BY DEF NamesInv
<1>5. Active' => phase' = phase
  BY DEF Active
<1>6. ASSUME Active', Connected'
      PROVE  Sound(asked', Ahead', Base', owner', Promised')
  <2>1. Sound(asked, Ahead, Base, owner, Promised)
    BY <1>5, <1>6 DEF Active
  <2>2. Ahead' = Ahead /\ Base' = Base
    BY DEF Ahead, Base
  <2>3. Promised' = Promised
    BY <1>5, <1>6 DEF Promised, StartLanded
  <2> QED BY <2>1, <2>2, <2>3
<1> QED BY <1>1, <1>2, <1>3, <1>4, <1>6

LEMMA ConnectionKeeps ==
    ASSUME BusInv, ClientInv, RuleInv, Start \/ SubscribeNext \/ MatchAdded \/ Retry \/ Stop
    PROVE  BusInv'
<1> USE DEF past
<1>1. CASE Start
  BY <1>1, QueuesStill DEF Start, world, Connect, StartEstablish, Connected, ClientInv
<1>2. CASE SubscribeNext
  BY <1>2, QueuesStill DEF SubscribeNext, world, Subscribe, Connected
<1>3. CASE MatchAdded
  BY <1>3, QueuesStill DEF MatchAdded, world, Added, Connected
<1>4. CASE Retry
  <2>1. socket # "open"
    BY <1>4 DEF Retry, WakeUp, ClientInv
  <2> QED BY <1>4, <2>1, QueuesStill DEF Retry, world, WakeUp, Connected
<1>5. CASE Stop
  BY <1>5, QueuesStill DEF Stop, world, UnsubscribeAll, Connected
<1> QED BY <1>1, <1>2, <1>3, <1>4, <1>5

LEMMA FirstAdoptionKeeps ==
    ASSUME BusInv, AdoptFirst
    PROVE  BusInv'
<1> USE DEF BusInv
<1>1. /\ phase = "subscribing" /\ phase' \in {"adopting", "started"}
      /\ UNCHANGED <<state, socket, matched, owner, names, tree, wire, landed, overtaken>>
  BY DEF AdoptFirst, transportVars, world, past
<1>2. /\ ~StartLanded /\ \A i \in 1..Len(asked) : ~IsStart(asked[i])
      /\ \A i \in 1..Len(wire) : ~StartsAt(wire, i)
  BY <1>1 DEF StartsOnce
<1>3. StartsOnce'
  BY <1>1 DEF StartsOnce
<1>4. Signalled'
  BY <1>1 DEF Signalled
<1>5. /\ asked \in Seq(Calls) /\ wire \in Seq(Messages) /\ landed \in Seq(Answers)
      /\ names \in Nat /\ current \in Nat /\ (overtaken \in BOOLEAN)
      /\ Known(asked, wire, landed, current, owner, names) /\ Apart(wire, landed) /\ owner <= names
      /\ names <= names
  BY DEF BusTypes, NamesInv, Known
<1>6. /\ \A i \in 1..Len(wire) : \E j \in 1..Len(wire) : wire[i] = wire[j]
      /\ \A i \in 1..Len(landed) : \E j \in 1..Len(landed) : landed[i] = landed[j]
  OBVIOUS
<1>7. CASE Connected
  <2> DEFINE ask == QueryOwner("start")
  <2>1. phase' = "adopting" /\ asked' = Append(asked, ask) /\ current' = current
    BY <1>7 DEF AdoptFirst
  <2>2. ask \in Calls /\ ask.call = "owner" /\ KnownCall(ask, names, current)
    BY DEF QueryOwner, Calls, Askers, KnownCall
  <2> HIDE DEF ask
  <2>3. BusTypes' /\ Offline'
    BY <1>1, <1>7, <2>1, <2>2 DEF BusTypes, Offline, Connected
  <2>4. NamesInv'
    <3>1. asked' \in Seq(Calls) /\ \A i \in 1..Len(asked') : KnownCall(asked'[i], names, current)
                                          \/ \E j \in 1..Len(asked) : asked'[i] = asked[j]
      BY <1>5, <2>1, <2>2
    <3>2. Known(asked', wire, landed, current, owner, names)
      BY <1>5, <1>6, <3>1, StillKnown
    <3> QED BY <1>1, <1>5, <2>1, <3>2 DEF NamesInv
  <2>5. Sound(asked', Ahead', Base', owner', Promised')
    <3>1. Ahead' = Ahead
      BY <1>1 DEF Ahead
    <3>2. Promised' = FALSE
      BY <1>1, <1>2, <2>1 DEF Promised, StartLanded
    <3>3. \A i \in 1..Len(Ahead) : ~StartsAt(Ahead, i)
      <4>1. CASE overtaken
        BY <1>2, <4>1 DEF Ahead
      <4>2. CASE ~overtaken
        <5> DEFINE l == Answered(landed)
        <5>1. /\ l \in Seq(Messages) /\ Len(l) = Len(landed) /\ Len(landed) \in Nat
              /\ \A i \in 1..Len(landed) : l[i] = AsReply(landed[i])
          BY <1>5, AnsweredElements
        <5>2. Ahead = l \o wire
          BY <4>2 DEF Ahead
        <5> HIDE DEF l
        <5>3. \A i \in 1..Len(l) : ~IsStart(l[i].answer)
          <6>1. \A a : AsReply(a).answer = a
            BY DEF AsReply
          <6>2. \A i \in 1..Len(landed) : ~IsStart(landed[i])
            BY <1>2 DEF StartLanded
          <6> QED BY <5>1, <6>1, <6>2
        <5>4. /\ Len(l \o wire) = Len(l) + Len(wire) /\ Len(wire) \in Nat
              /\ \A i \in 1..Len(l) : (l \o wire)[i] = l[i]
              /\ \A i \in 1..Len(wire) : (l \o wire)[Len(l) + i] = wire[i]
          BY <1>5, <5>1, Joined
        <5>5. ASSUME NEW i \in 1..Len(l \o wire), i \notin 1..Len(l)
              PROVE  ~StartsAt(l \o wire, i)
          <6>1. i - Len(l) \in 1..Len(wire) /\ Len(l) + (i - Len(l)) = i
            BY <5>1, <5>4, <5>5
          <6>2. (l \o wire)[i] = wire[i - Len(l)]
            BY <5>4, <6>1
          <6> QED BY <1>2, <6>1, <6>2 DEF StartsAt
        <5>6. ASSUME NEW i \in 1..Len(l)
              PROVE  ~StartsAt(l \o wire, i)
          BY <5>3, <5>4, <5>6 DEF StartsAt
        <5> QED BY <5>2, <5>5, <5>6
      <4> QED BY <1>5, <4>1, <4>2
    <3>4. Sound(Append(asked, ask), Ahead, Base', owner', FALSE)
      BY <1>2, <1>5, <2>2, <3>3, SoundFirst
    <3> QED BY <2>1, <3>1, <3>2, <3>4
  <2> QED BY <1>3, <1>4, <2>3, <2>4, <2>5
<1>8. CASE ~Connected
  <2>1. current' = 0 /\ asked' = asked
    BY <1>8 DEF AdoptFirst
  <2>2. BusTypes' /\ Offline'
    BY <1>1, <1>8, <2>1 DEF BusTypes, Offline, Connected
  <2>3. NamesInv'
    <3>1. \A i \in 1..Len(asked) : \E j \in 1..Len(asked) : asked[i] = asked[j]
      OBVIOUS
    <3>2. 0 \in Nat /\ 0 <= names
      BY <1>5
    <3>3. Known(asked, wire, landed, 0, owner, names)
      BY <1>5, <1>6, <3>1, <3>2, StillKnown
    <3> QED BY <1>1, <1>5, <2>1, <3>3 DEF NamesInv
  <2> QED BY <1>1, <1>3, <1>4, <1>8, <2>2, <2>3 DEF Connected
<1> QED BY <1>7, <1>8

\* A bus is published, or the attempt to is given up or goes on.
LEMMA PublishingKeeps ==
    ASSUME BusInv, ClientInv, RuleInv, Handshake \/ Reissues \/ ReissueStops \/ HandshakeFails
    PROVE  BusInv'
<1> USE DEF BusInv
<1>1. Published /\ effort \in {"connect", "loop"} /\ ~Connected
  BY DEF Handshake, Reissues, ReissueStops, HandshakeFails, Shaken, ShakeFails, Reissue, ReissueEnds,
         ReissueFails, Reissuing, RuleInv, ClientInv
<1>2. /\ UNCHANGED <<wire, landed, owner, names, tree, current, overtaken>>
      /\ phase' = IF effort # "connect" THEN phase
                  ELSE IF state' = "connected" THEN "subscribing" ELSE "failed"
      /\ asked' = IF state' = "connected" /\ effort = "loop" /\ Listening
                  THEN Append(asked, QueryOwner("reconnect")) ELSE asked
  BY <1>1 DEF Published, world, past
<1>3. asked = <<>> /\ landed = <<>> /\ \A i \in 1..Len(wire) : wire[i].kind # "reply"
  BY <1>1 DEF Offline
<1> DEFINE ask == QueryOwner("reconnect")
<1>4. ask \in Calls /\ ask.call = "owner" /\ ~IsStart(ask) /\ KnownCall(ask, names, current)
  BY DEF QueryOwner, Calls, Askers, IsStart, KnownCall
<1>5. asked' = <<>> \/ (Connected' /\ asked' = <<ask>>)
  BY <1>2, <1>3 DEF Connected
<1>6. Active' => phase' = phase /\ effort = "loop" /\ Listening
  BY <1>1, <1>2 DEF Active, Listening
<1>7. Active' /\ Connected' => asked' = <<ask>>
  BY <1>2, <1>3, <1>6 DEF Connected
<1> HIDE DEF ask
<1>8. asked' \in Seq(Calls) /\ \A i \in 1..Len(asked') : ~IsStart(asked'[i]) /\ KnownCall(asked'[i], names, current)
  <2>1. <<>> \in Seq(Calls) /\ \A i \in 1..Len(<<>>) : ~IsStart(<<>>[i]) /\ KnownCall(<<>>[i], names, current)
    OBVIOUS
  <2>2. <<ask>> \in Seq(Calls) /\ \A i \in 1..Len(<<ask>>) : ~IsStart(<<ask>>[i]) /\ KnownCall(<<ask>>[i], names, current)
    BY <1>4
  <2> QED BY <1>5, <2>1, <2>2, Zenon
<1>9. BusTypes' /\ Offline'
  BY <1>2, <1>3, <1>5, <1>8 DEF BusTypes, Offline, Connected
<1>10. StartsOnce'
  BY <1>2, <1>3, <1>8 DEF StartsOnce, StartLanded, StartsAt
<1>11. Signalled'
  <2> SUFFICES ASSUME phase' \notin {"failed", "stopped"},
                      NEW i \in 1..Len(wire), wire[i].kind = "owner-changed"
               PROVE  Signalled'
    BY <1>2 DEF Signalled
  <2>1. phase \notin {"failed", "stopped"}
    BY <1>2 DEF ClientInv
  <2>2. /\ "owner" \in matched /\ socket = "open"
        /\ \A name : InForce(wire, 0, Len(wire) + 1, name) => name = owner
    BY <2>1 DEF Signalled
  <2>3. ~closing
    BY <2>1 DEF ClientInv
  <2>4. "owner" \in matched' /\ socket' = "open"
    BY <2>2, <2>3 DEF Handshake, Reissues, ReissueStops, HandshakeFails, Shaken, ShakeFails, Reissue,
          ReissueEnds, ReissueFails, Publish
  <2> QED BY <1>2, <2>2, <2>4 DEF Signalled
<1>12. NamesInv'
  <2>1. /\ wire \in Seq(Messages) /\ landed \in Seq(Answers) /\ asked \in Seq(Calls)
        /\ names \in Nat /\ current \in Nat
        /\ Known(asked, wire, landed, current, owner, names) /\ Apart(wire, landed) /\ owner <= names
        /\ names <= names
    BY DEF BusTypes, NamesInv, Known
  <2>2. \A i \in 1..Len(wire) : \E j \in 1..Len(wire) : wire[i] = wire[j]
    OBVIOUS
  <2>3. \A i \in 1..Len(landed) : \E j \in 1..Len(landed) : landed[i] = landed[j]
    OBVIOUS
  <2>4. Known(asked', wire, landed, current, owner, names)
    BY <1>8, <2>1, <2>2, <2>3, StillKnown
  <2> QED BY <1>2, <2>1, <2>4 DEF NamesInv
<1>13. ASSUME Active', Connected'
       PROVE  Sound(asked', Ahead', Base', owner', Promised')
  <2>1. Ahead' = wire
    <3>1. Answered(landed) \in Seq(Messages) /\ Len(Answered(landed)) = 0
      BY <1>3, AnsweredElements DEF BusTypes
    <3>2. Answered(landed) \o wire = wire
      BY <3>1 DEF BusTypes
    <3> QED BY <1>2, <3>2 DEF Ahead
  <2>2. Sound(<<ask>>, wire, Base', owner', Promised')
    BY <1>3, <1>4, SoundAfresh
  <2> QED BY <1>7, <1>13, <2>1, <2>2
<1> QED BY <1>9, <1>10, <1>11, <1>12, <1>13

\* Nothing is under way on a bus that is gone.
LEMMA LossKeeps ==
    ASSUME BusInv, (\E restart \in BOOLEAN : LoseBus(restart)) \/ CloseTransport
    PROVE  BusInv'
<1> USE DEF BusInv
<1>1. {} \in SomeModems
  BY FS_EmptySet DEF SomeModems
<1>2. /\ asked' = <<>> /\ wire' = <<>> /\ landed = <<>> /\ landed' = <<>>
      /\ (owner' = 0 /\ names' \in {0, names}) \/ (owner' = owner /\ names' = names)
      /\ tree' \in {{}, tree} /\ current' \in {0, current} /\ overtaken' \in {FALSE, overtaken}
  BY DEF LoseBus, CloseTransport, NoInstance, world, past
<1>3. ~Connected'
  BY DEF LoseBus, CloseTransport, Drop, Disconnect, Connected
<1>4. owner \in Nat /\ names \in Nat /\ current \in Nat /\ owner <= names /\ (overtaken \in BOOLEAN)
  BY DEF BusTypes, NamesInv, Known
<1>5. BusTypes' /\ Offline'
  <2>1. asked' \in Seq(Calls) /\ wire' \in Seq(Messages)
    BY <1>2
  <2>2. owner' \in Nat /\ names' \in Nat /\ current' \in Nat
    BY <1>2, <1>4
  <2>3. overtaken' \in BOOLEAN
    BY <1>2, <1>4, Zenon
  <2>4. tree' \in SomeModems
    BY <1>1, <1>2 DEF BusTypes
  <2> QED BY <1>2, <2>1, <2>2, <2>3, <2>4 DEF BusTypes, Offline
<1>6. Signalled' /\ StartsOnce'
  BY <1>2 DEF Signalled, StartsOnce, StartLanded
<1>7. NamesInv'
  BY <1>2, <1>4 DEF NamesInv, Known, Apart
<1> QED BY <1>3, <1>5, <1>6, <1>7

\* Nothing is under way at first.
LEMMA InitInOrder ==
    ASSUME Init
    PROVE  RuleInv /\ ClientInv /\ BusInv
<1> USE DEF Init, TransportInit
<1>1. RuleInv /\ ClientInv
  BY DEF RuleInv, ClientInv, Active, Connected
<1>2. {} \in SomeModems
  BY FS_EmptySet DEF SomeModems
<1>3. asked \in Seq(Calls) /\ wire \in Seq(Messages) /\ landed \in Seq(Answers)
  OBVIOUS
<1>4. BusTypes
  BY <1>2, <1>3 DEF BusTypes
<1>5. Offline /\ Signalled /\ StartsOnce
  BY DEF Offline, Signalled, StartsOnce, StartLanded
<1>6. NamesInv
  BY DEF NamesInv, Known, Apart
<1> QED BY <1>1, <1>4, <1>5, <1>6 DEF BusInv, Active

LEMMA BusKept ==
    ASSUME BusInv, ClientInv, RuleInv, [Next]_vars
    PROVE  BusInv'
<1>1. CASE UNCHANGED vars
  BY <1>1, QueuesStill DEF vars, transportVars, world, past, Connected
<1> QED BY <1>1, OwnerChangeKeeps, ObjectSignalKeeps, ReplyKeeps, AdoptionKeeps, RefreshKeeps,
           SetupKeeps, AnswerKeeps, ExpiryKeeps, WorldKeeps, ConnectionKeeps, FirstAdoptionKeeps,
           PublishingKeeps, LossKeeps
        DEF Next, Client, Environment

-----------------------------------------------------------------------------
(* What removes a row.                                                       *)

\* Rows go only where a tree lands that was read for the owner followed.
LEMMA Removing ==
    ASSUME [Next]_vars, NEW m \in Modems, rows[m] # "absent", rows'[m] = "absent"
    PROVE  /\ landed # <<>> /\ Head(landed).call = "tree" /\ Head(landed).ok
           /\ Head(landed).epoch = current
           /\ m \notin Head(landed).tree
<1>1. UNCHANGED rows \/ MarkUnavailable => rows'[m] # "absent"
  BY DEF MarkUnavailable
<1>2. CASE OnNameOwnerChanged \/ OnObjectSignal \/ OnReply
  BY <1>1, <1>2 DEF OnNameOwnerChanged, OnObjectSignal, OnReply, store
<1>3. CASE AdoptOwner \/ SetupLands
  BY <1>1, <1>3 DEF AdoptOwner, SetupLands, store
<1>4. CASE RefreshLands
  <2> DEFINE r == Head(landed)
             counts == r.epoch = current /\ ~Stopped
  <2>1. /\ landed # <<>> /\ r.call = "tree"
        /\ \/ counts /\ r.ok /\ rows' = Reconciled(r.tree)
           \/ MarkUnavailable
           \/ UNCHANGED rows
    BY <1>4 DEF RefreshLands, store
  <2>2. counts /\ r.ok /\ rows' = Reconciled(r.tree)
    BY <1>1, <2>1
  <2>3. m \notin r.tree
    BY <2>2 DEF Reconciled
  <2> QED BY <2>1, <2>2, <2>3
<1>5. CASE \/ Start \/ SubscribeNext \/ AdoptFirst \/ Retry \/ MatchAdded \/ Answer
           \/ Stop \/ CloseTransport
  BY <1>1, <1>5 DEF Start, SubscribeNext, AdoptFirst, Retry, MatchAdded, Answer, Stop, CloseTransport, store
<1>6. CASE Handshake \/ Reissues \/ ReissueStops \/ HandshakeFails
  BY <1>1, <1>6 DEF Handshake, Reissues, ReissueStops, HandshakeFails, Published, store
<1>7. CASE \/ \E restart \in BOOLEAN : LoseBus(restart)
           \/ CallTimesOut \/ MmStarts \/ MmDies \/ \E x \in Modems : ModemChanges(x)
  BY <1>1, <1>7 DEF LoseBus, CallTimesOut, MmStarts, MmDies, ModemChanges, store
<1>8. CASE UNCHANGED vars
  BY <1>1, <1>8 DEF vars, store
<1> QED BY <1>2, <1>3, <1>4, <1>5, <1>6, <1>7, <1>8 DEF Next, Client, Environment

\* Once started, a row of the observer disappears only in a step that applies a
\* tree served by the very instance the observer follows at that moment, unless
\* the last change of owner overtook an answer to GetNameOwner (observer.ts:
\* reconcile is the only removal path, and every refresh carries the owner it
\* was asked of).  What makes it so is that the bus is in order, however many
\* messages are dispatched before what awaits the first of them goes on: the
\* observer is told of every owner before anything another one answers.
THEOREM RemovedOnlyByOwnEpochHolds == Spec => RemovedOnlyByOwnEpoch
<1> DEFINE Inv == RuleInv /\ ClientInv /\ BusInv
           Removals == \A m \in Modems :
                         rows[m] # "absent" /\ rows'[m] = "absent" /\ phase = "started" /\ ~overtaken =>
                           /\ landed # <<>> /\ Head(landed).call = "tree" /\ Head(landed).ok
                           /\ Head(landed).from = current
                           /\ m \notin Head(landed).tree
<1>1. Init => Inv
  BY InitInOrder
<1>2. Inv /\ [Next]_vars => Inv'
  BY StepIsTransports, RulesKept, ClientKept, BusKept
<1>3. Inv /\ [Next]_vars => Removals
  <2> SUFFICES ASSUME Inv, [Next]_vars, NEW m \in Modems,
                      rows[m] # "absent", rows'[m] = "absent", phase = "started", ~overtaken
               PROVE  /\ landed # <<>> /\ Head(landed).call = "tree" /\ Head(landed).ok
                      /\ Head(landed).from = current
                      /\ m \notin Head(landed).tree
    OBVIOUS
  <2>1. /\ landed # <<>> /\ Head(landed).call = "tree" /\ Head(landed).ok
        /\ Head(landed).epoch = current
        /\ m \notin Head(landed).tree
    BY Removing
  <2>2. landed \in Seq(Answers) /\ wire \in Seq(Messages) /\ Head(landed) \in Answers
    BY <2>1 DEF BusInv, BusTypes
  <2>3. current # 0
    BY <2>1, <2>2 DEF Answers, Epochs
  <2>4. Sound(asked, Ahead, current, owner, TRUE)
    <3>1. Connected /\ Active
      BY <2>1 DEF BusInv, Offline, Active
    <3>2. Base = current /\ Promised = TRUE
      BY DEF Base, Promised
    <3> QED BY <3>1, <3>2 DEF BusInv
  <2>5. Ahead # <<>> /\ Ahead \in Seq(Messages) /\ Head(Ahead) = AsReply(Head(landed))
    <3>1. Answered(landed) \in Seq(Messages)
      BY <2>2, AnsweredElements
    <3> QED BY <2>1, <2>2, <3>1, AnsweredFirst, Joined DEF Ahead
  <2>6. 1 \in 1..Len(Ahead) /\ Ahead[1] = AsReply(Head(landed))
    BY <2>5, Consumed
  <2>7. ReadsTree(Ahead, 1) /\ Ahead[1].answer = Head(landed)
    BY <2>1, <2>6 DEF ReadsTree, AsReply
  <2>8. InForce(Ahead, current, 1, current)
    BY DEF InForce
  <2>9. current \in {0, Head(landed).from} \/ current # Head(landed).epoch
    BY <2>4, <2>6, <2>7, <2>8 DEF Sound
  <2> QED BY <2>1, <2>3, <2>9
<1> HIDE DEF Inv, Removals
<1>4. Spec => [][Removals]_vars
  BY <1>1, <1>2, <1>3, PTL DEF Spec
<1> QED BY <1>4 DEF RemovedOnlyByOwnEpoch, Removals
=============================================================================
