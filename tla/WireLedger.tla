------------------------------- MODULE WireLedger -------------------------------
(***************************************************************************)
(* The wire ledger of one incarnation of the agent: what it counts of each *)
(* request, what the request declares in its headers, and what the server  *)
(* counts on its side.  post_request takes a snapshot for the headers,     *)
(* then counts the attempt, then sends; it counts the delivery when any    *)
(* answer came back.  The two threads that send interleave between these   *)
(* steps; the ledger's lock makes each of them atomic.  The reconciliation *)
(* compares totals, so the channels are left out.                          *)
(*                                                                         *)
(* The network may lose a request, and may deliver it after its sender     *)
(* gave up: at most one request per thread outlives its sender (bound of   *)
(* the model).                                                             *)
(***************************************************************************)
EXTENDS Integers

CONSTANTS Sizes   \* lengths a serialized body may have

ASSUME WireAssumption == Sizes \subseteq Nat \ {0}

VARIABLES
    attempted,   \* bytes handed to the transport
    delivered,   \* bytes some answer came back for
    request,     \* the request each thread is working on
    adrift,      \* the request of each thread still on the network after it gave up
    received     \* bytes the server has received from this incarnation

wireVars == <<attempted, delivered, request, adrift, received>>

Sender == {"main", "dispatcher"}

NoRequest == [at |-> "idle", size |-> 0, declares |-> [attempted |-> 0, delivered |-> 0]]

WireInit ==
    /\ attempted = 0 /\ delivered = 0 /\ received = 0
    /\ request = [s \in Sender |-> NoRequest] /\ adrift = [s \in Sender |-> NoRequest]

\* Mutant: the headers include the request that carries them.
PrepareCounted(s, n) ==
    /\ request[s].at = "idle"
    /\ request' = [request EXCEPT ![s] =
           [at |-> "headed", size |-> n,
            declares |-> [attempted |-> attempted + n, delivered |-> delivered]]]
    /\ UNCHANGED <<attempted, delivered, adrift, received>>

\* post_request up to the headers: the body is serialized, and they carry the
\* snapshot, which excludes the request itself.
Prepare(s, n) ==
    /\ request[s].at = "idle"
    /\ request' = [request EXCEPT ![s] =
           [at |-> "headed", size |-> n,
            declares |-> [attempted |-> attempted, delivered |-> delivered]]]
    /\ UNCHANGED <<attempted, delivered, adrift, received>>

\* Mutant: the attempt is not counted before sending.
RecordNothing(s) ==
    /\ request[s].at = "headed"
    /\ request' = [request EXCEPT ![s].at = "sent"]
    /\ UNCHANGED <<attempted, delivered, adrift, received>>

\* record_attempt, and client.post puts the body on the wire.
RecordAttempt(s) ==
    /\ request[s].at = "headed"
    /\ attempted' = attempted + request[s].size
    /\ request' = [request EXCEPT ![s].at = "sent"]
    /\ UNCHANGED <<delivered, adrift, received>>

\* The request reaches the server, which counts it before it looks at it.
Receive(s) ==
    /\ request[s].at = "sent"
    /\ received' = received + request[s].size
    /\ request' = [request EXCEPT ![s].at = "received"]
    /\ UNCHANGED <<attempted, delivered, adrift>>

\* Any answer, 401 and 422 included: record_delivery comes before handle_response.
RecordDelivery(s) ==
    /\ request[s].at = "received"
    /\ delivered' = delivered + request[s].size
    /\ request' = [request EXCEPT ![s] = NoRequest]
    /\ UNCHANGED <<attempted, adrift, received>>

\* Mutant: the delivery is recorded with the attempt, answered or not.
GiveUpDelivered(s) ==
    /\ request[s].at # "idle"
    /\ adrift' = IF request[s].at = "sent" THEN [adrift EXCEPT ![s] = request[s]] ELSE adrift
    /\ request' = [request EXCEPT ![s] = NoRequest]
    /\ delivered' = delivered + request[s].size
    /\ UNCHANGED <<attempted, received>>

\* Timeout, a connection that broke, or an interrupt: the caller goes on without an
\* answer.  A body that was sent may still be under way.
GiveUp(s) ==
    /\ request[s].at # "idle"
    /\ adrift' = IF request[s].at = "sent" THEN [adrift EXCEPT ![s] = request[s]] ELSE adrift
    /\ request' = [request EXCEPT ![s] = NoRequest]
    /\ UNCHANGED <<attempted, delivered, received>>

\* A request nobody waits for any more arrives after all.
ReceiveAdrift(s) ==
    /\ adrift[s].at = "sent"
    /\ received' = received + adrift[s].size
    /\ adrift' = [adrift EXCEPT ![s] = NoRequest]
    /\ UNCHANGED <<attempted, delivered, request>>

WireStep(s) ==
    \/ \E n \in Sizes : Prepare(s, n)
    \/ RecordAttempt(s) \/ Receive(s) \/ RecordDelivery(s) \/ GiveUp(s)
    \/ ReceiveAdrift(s)

WireNext == \E s \in Sender : WireStep(s)

WireSpec == WireInit /\ [][WireNext]_wireVars

-----------------------------------------------------------------------------
Request ==
    [at : {"idle", "headed", "sent", "received"}, size : Nat,
     declares : [attempted : Nat, delivered : Nat]]

WireTypeOK ==
    /\ attempted \in Nat /\ delivered \in Nat
    /\ request \in [Sender -> Request] /\ adrift \in [Sender -> Request]
    /\ \A s \in Sender : adrift[s].at \in {"idle", "sent"}
    /\ received \in Nat

\* METRICS.md 7.2, on the live counters: whatever is lost, late or interrupted,
\* what the agent knows to be delivered was received, and what was received had
\* been counted before it left.
WireBracket ==
    /\ delivered <= received
    /\ received <= attempted

OnTheWire == {request[s] : s \in Sender} \cup {adrift[s] : s \in Sender}

\* The lower bound of 7.2 on the declared figures: in whatever order requests
\* arrive, the server has by then received what their headers declare delivered.
DeclaredWasReceived ==
    \A r \in OnTheWire : r.declares.delivered <= received

\* The upper bound: when a request arrives, what the server has received beyond
\* its declared total (and the request itself) was counted by the agent after the
\* headers were made.
ExcessWasCounted ==
    \A r \in OnTheWire : r.at = "sent" =>
        /\ r.declares.attempted + r.size <= attempted
        /\ received + r.size <= attempted
===============================================================================
