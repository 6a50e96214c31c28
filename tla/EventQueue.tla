------------------------------- MODULE EventQueue -------------------------------
(***************************************************************************)
(* What spool, hasher and dispatcher promise together, without connection, *)
(* transactions, rows and batches: an at-least-once queue, a set of events *)
(* on the disk.  A payload whose enqueue raised may be on it all the same; *)
(* one whose enqueue returned is, and what leaves the disk is settled.     *)
(* Failed statements, failed commits, open transactions and restarts are   *)
(* no steps of this queue.                                                 *)
(***************************************************************************)

CONSTANT Event

VARIABLES
    offered,    \* payloads enqueue was called with
    accepted,   \* those whose enqueue returned
    stored,     \* events on the disk
    delivered,  \* events the server has seen
    givenUp     \* events it refused for good, and events that were evicted

queue == <<offered, accepted, stored, delivered, givenUp>>

Init ==
    /\ offered = {} /\ accepted = {} /\ stored = {}
    /\ delivered = {} /\ givenUp = {}

\* A commit.  Nothing is on the disk that was not offered, and nothing leaves it but
\* what is settled by then.
Write ==
    /\ stored' \cup givenUp' \subseteq offered'
    /\ givenUp \subseteq givenUp'
    /\ stored \ stored' \subseteq delivered \cup givenUp'

\* enqueue returned, or raised;
Put(e) ==
    /\ offered' = offered \cup {e} /\ accepted' = accepted \cup {e}
    /\ Write /\ e \in stored' \cup givenUp'
    /\ UNCHANGED delivered

Attempt(e) ==
    /\ offered' = offered \cup {e}
    /\ UNCHANGED <<accepted, stored, delivered, givenUp>>

\* a commit of the dispatcher, a copy that reached the server, a fatal answer.
Clean == Write /\ UNCHANGED <<offered, accepted, delivered>>

Deliver(e) ==
    /\ e \in offered
    /\ delivered' = delivered \cup {e}
    /\ UNCHANGED <<offered, accepted, stored, givenUp>>

Reject(e) ==
    /\ e \in offered
    /\ givenUp' = givenUp \cup {e}
    /\ UNCHANGED <<offered, accepted, stored, delivered>>

Next ==
    \/ Clean
    \/ \E e \in Event : Put(e) \/ Attempt(e) \/ Deliver(e) \/ Reject(e)

Spec == Init /\ [][Next]_queue
===============================================================================
