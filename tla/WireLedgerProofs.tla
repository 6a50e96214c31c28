--------------------------- MODULE WireLedgerProofs ---------------------------
(***************************************************************************)
(* The bracket of METRICS.md 7.2, for bodies of every length and any order *)
(* of losses, late arrivals and interrupts.  It is not inductive as it     *)
(* stands: that a request which arrives may be added to what was received  *)
(* needs room for everything that is still on the wire.                    *)
(***************************************************************************)
EXTENDS WireLedger, TLAPS

\* What a request still adds to the received, or to the delivered bytes.
Carried(r) == IF r.at = "sent" THEN r.size ELSE 0
Awaited(r) == IF r.at = "received" THEN r.size ELSE 0

\* What was received and what is on the wire was all counted before it left.
RoomForTheWire ==
    received + Carried(request["main"]) + Carried(request["dispatcher"])
             + Carried(adrift["main"]) + Carried(adrift["dispatcher"]) <= attempted

\* An answer is counted after the request it answers was received.
RoomForAnswers ==
    delivered + Awaited(request["main"]) + Awaited(request["dispatcher"]) <= received

\* Headers never run ahead of the ledger: before the attempt is counted, they
\* declare no more than it holds; afterwards, no more than it holds without the request.
HeadersAreOld(r) ==
    /\ r.declares.delivered <= delivered
    /\ r.at = "headed" => r.declares.attempted <= attempted
    /\ r.at = "sent" => r.declares.attempted + r.size <= attempted

WireInv ==
    /\ WireTypeOK /\ RoomForTheWire /\ RoomForAnswers
    /\ \A s \in Sender : HeadersAreOld(request[s]) /\ HeadersAreOld(adrift[s])

-----------------------------------------------------------------------------
(* The invariant starts and is kept *)

\* An empty ledger satisfies the invariant.
LEMMA WireInitial == WireInit => WireInv
<1>1. NoRequest \in Request
  BY DEF NoRequest, Request
<1> QED
  BY <1>1 DEF WireInit, WireInv, WireTypeOK, RoomForTheWire, RoomForAnswers, Carried,
              Awaited, HeadersAreOld, NoRequest, Sender

\* Each step of a sender keeps the types.
LEMMA WireTypeStep ==
    ASSUME WireTypeOK, NEW s \in Sender, WireStep(s)
    PROVE  WireTypeOK'
<1> USE DEF WireTypeOK, Request
<1>0. NoRequest \in Request /\ NoRequest.at = "idle"
  BY DEF NoRequest
<1>1. ASSUME NEW n \in Sizes, Prepare(s, n) PROVE WireTypeOK'
  <2>1. n \in Nat
    BY WireAssumption
  <2> QED
    BY <1>1, <2>1 DEF Prepare
<1>2. CASE RecordAttempt(s)
  BY <1>2 DEF RecordAttempt
<1>3. CASE Receive(s)
  BY <1>3 DEF Receive
<1>4. CASE RecordDelivery(s)
  BY <1>4, <1>0 DEF RecordDelivery
<1>5. CASE GiveUp(s)
  BY <1>5, <1>0 DEF GiveUp
<1>6. CASE ReceiveAdrift(s)
  BY <1>6, <1>0 DEF ReceiveAdrift
<1> QED
  BY <1>1, <1>2, <1>3, <1>4, <1>5, <1>6 DEF WireStep

\* Each step of a sender keeps the room on both sides of what was received.
LEMMA RoomStep ==
    ASSUME WireTypeOK, RoomForTheWire, RoomForAnswers, NEW s \in Sender, WireStep(s)
    PROVE  RoomForTheWire' /\ RoomForAnswers'
<1> USE DEF WireTypeOK, Request, RoomForTheWire, RoomForAnswers, Carried, Awaited, Sender
<1>0. NoRequest.at = "idle"
  BY DEF NoRequest
<1>1. ASSUME NEW n \in Sizes, Prepare(s, n) PROVE RoomForTheWire' /\ RoomForAnswers'
  BY <1>1, WireAssumption DEF Prepare
<1>2. CASE RecordAttempt(s)
  BY <1>2 DEF RecordAttempt
<1>3. CASE Receive(s)
  BY <1>3 DEF Receive
<1>4. CASE RecordDelivery(s)
  BY <1>4, <1>0 DEF RecordDelivery
<1>5. CASE GiveUp(s)
  BY <1>5, <1>0 DEF GiveUp
<1>6. CASE ReceiveAdrift(s)
  BY <1>6, <1>0 DEF ReceiveAdrift
<1> QED
  BY <1>1, <1>2, <1>3, <1>4, <1>5, <1>6 DEF WireStep

\* Each step of a sender keeps all headers behind the ledger, which only grows.
LEMMA HeadersStep ==
    ASSUME WireTypeOK, NEW s \in Sender, WireStep(s),
           \A x \in Sender : HeadersAreOld(request[x]) /\ HeadersAreOld(adrift[x])
    PROVE  (\A x \in Sender : HeadersAreOld(request[x]) /\ HeadersAreOld(adrift[x]))'
<1> USE DEF WireTypeOK, Request, HeadersAreOld
<1>0. /\ NoRequest.at = "idle" /\ NoRequest.declares.delivered = 0
  BY DEF NoRequest
<1>1. ASSUME NEW n \in Sizes, Prepare(s, n)
      PROVE  (\A x \in Sender : HeadersAreOld(request[x]) /\ HeadersAreOld(adrift[x]))'
  BY <1>1, WireAssumption DEF Prepare
<1>2. CASE RecordAttempt(s)
  BY <1>2 DEF RecordAttempt
<1>3. CASE Receive(s)
  BY <1>3 DEF Receive
<1>4. CASE RecordDelivery(s)
  BY <1>4, <1>0 DEF RecordDelivery
<1>5. CASE GiveUp(s)
  BY <1>5, <1>0 DEF GiveUp
<1>6. CASE ReceiveAdrift(s)
  BY <1>6, <1>0 DEF ReceiveAdrift
<1> QED
  BY <1>1, <1>2, <1>3, <1>4, <1>5, <1>6 DEF WireStep

\* Each step of a sender keeps the invariant.
LEMMA WireInvStep ==
    ASSUME WireInv, NEW s \in Sender, WireStep(s)
    PROVE  WireInv'
BY WireTypeStep, RoomStep, HeadersStep DEF WireInv

\* A step that leaves the ledger alone keeps the invariant.
LEMMA WireInvStutter ==
    ASSUME WireInv, UNCHANGED wireVars
    PROVE  WireInv'
BY DEF WireInv, WireTypeOK, RoomForTheWire, RoomForAnswers, HeadersAreOld, Carried,
       Awaited, wireVars

\* The invariant says what METRICS.md says.
LEMMA WireInvImplies ==
    WireInv => WireBracket /\ DeclaredWasReceived /\ ExcessWasCounted
<1> SUFFICES ASSUME WireInv
             PROVE  WireBracket /\ DeclaredWasReceived /\ ExcessWasCounted
  OBVIOUS
<1> USE DEF WireInv, WireTypeOK, Request, RoomForTheWire, RoomForAnswers, Carried,
            Awaited, Sender
<1>1. WireBracket
  BY DEF WireBracket
<1>2. DeclaredWasReceived
  BY <1>1 DEF WireBracket, DeclaredWasReceived, OnTheWire, HeadersAreOld
<1>3. ASSUME NEW r \in OnTheWire, r.at = "sent"
      PROVE  received + r.size <= attempted
  BY <1>3 DEF OnTheWire
<1>4. ASSUME NEW r \in OnTheWire, r.at = "sent"
      PROVE  r.declares.attempted + r.size <= attempted
  BY <1>4 DEF OnTheWire, HeadersAreOld
<1> QED
  BY <1>1, <1>2, <1>3, <1>4 DEF ExcessWasCounted

-----------------------------------------------------------------------------

\* Two threads that send in any order, over any network, keep the bracket: the
\* live counters, the declared lower bound, and the declared upper bound.
THEOREM Bracket ==
    WireSpec => [](WireTypeOK /\ WireBracket /\ DeclaredWasReceived /\ ExcessWasCounted)
<1>1. ASSUME WireInv, [WireNext]_wireVars PROVE WireInv'
  BY <1>1, WireInvStep, WireInvStutter DEF WireNext
<1>2. WireInv => WireTypeOK
  BY DEF WireInv
<1> QED
  BY WireInitial, WireInvImplies, <1>1, <1>2, PTL DEF WireSpec
===============================================================================
