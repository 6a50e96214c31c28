----------------------------- MODULE EventDelivery -----------------------------
(***************************************************************************)
(* From the event callback to the server: EventSpool (SQLite, one shared   *)
(* connection under a lock), the hasher thread that enqueues and the       *)
(* EventDispatcher thread that sends the oldest rows one by one.           *)
(*                                                                         *)
(* Every method of the spool is one critical section that writes and       *)
(* commits.  When sqlite3 raises, the method raises EventSpoolError and    *)
(* leaves the connection as it is: the statements that succeeded stay in   *)
(* the open transaction, visible to the next caller and committed by the   *)
(* next commit, unless SQLite rolled the transaction back on its own (full *)
(* disk, I/O error).  A process that ends loses what is not committed.     *)
(*                                                                         *)
(* Backoff, alarms and credentials do not touch the spool; every answer    *)
(* that keeps a row (401, 403, 404, 409, 5xx, no connection) is one        *)
(* refusal here.                                                           *)
(***************************************************************************)
EXTENDS Integers, SequencesExt

CONSTANTS
    Event,            \* payloads, each with its client_event_id
    MaxEvents,        \* EventSpool.max_events
    BatchSize,        \* EventDispatcher.batch_size
    MaxEmitAttempts,  \* FileHasher.max_emit_attempts
    RollsBack,        \* whether SQLite may give up an open transaction on its own
    MaxFaults         \* bound of the model: failed statements and commits,
                      \* lost answers and crashes

ASSUME DeliveryAssumption ==
    /\ {MaxEvents, BatchSize, MaxEmitAttempts} \subseteq Nat \ {0}
    /\ MaxFaults \in Nat /\ RollsBack \in BOOLEAN

VARIABLES
    disk,       \* the last committed state of the database
    conn,       \* what the shared connection sees, open transaction included
    attempts,   \* failed deliveries of a payload to the spool, by the hasher
    accepted,   \* history: payloads whose enqueue returned
    batch,      \* the rows the dispatcher peeked and has not finished with
    phase,      \* where the dispatcher is with the first of them
    copies,     \* history: times the server processed the event
    rejected,   \* history: events answered with a fatal 4xx
    faults      \* history: faults so far

producer == <<attempts, accepted>>
server == <<copies, rejected>>
vars == <<disk, conn, producer, batch, phase, server, faults>>

\* A database: the rows by id, the last id AUTOINCREMENT gave out, and, as a
\* history, the events whose row the eviction deleted.
EmptyDatabase == [rows |-> <<>>, lastId |-> 0, evicted |-> {}]

EventsOf(rows) == {r.event : r \in ToSet(rows)}

Init ==
    /\ disk = EmptyDatabase /\ conn = EmptyDatabase
    /\ attempts = [e \in Event |-> 0] /\ accepted = {}
    /\ batch = <<>> /\ phase = "idle"
    /\ copies = [e \in Event |-> 0] /\ rejected = {}
    /\ faults = 0

Fault == faults < MaxFaults /\ faults' = faults + 1

-----------------------------------------------------------------------------
(* EventSpool *)

Insert(db, e) ==
    [db EXCEPT !.rows = Append(@, [id |-> db.lastId + 1, event |-> e]),
               !.lastId = @ + 1]

\* _evict_oldest_if_full_locked
EvictOldestIfFull(db) ==
    LET overflow == Len(db.rows) - MaxEvents
    IN  IF overflow <= 0 THEN db
        ELSE [db EXCEPT !.rows = SubSeq(@, overflow + 1, Len(@)),
                        !.evicted = @ \cup EventsOf(SubSeq(db.rows, 1, overflow))]

\* id is the primary key: at most one row has it.
Delete(db, id) ==
    IF \E i \in DOMAIN db.rows : db.rows[i].id = id
    THEN [db EXCEPT !.rows = RemoveAt(@, CHOOSE i \in DOMAIN @ : @[i].id = id)]
    ELSE db

\* Mutant: a method that does not wait for its commit.
WriteOnly(db) == conn' = db /\ UNCHANGED <<disk, faults>>

\* A method that went through ...
Commit(db) == conn' = db /\ disk' = db /\ UNCHANGED faults

\* ... and one that raised EventSpoolError: the transaction stays open after some
\* of its statements, or SQLite rolled it back.
Raise(partial) ==
    /\ Fault
    /\ conn' \in partial \cup (IF RollsBack THEN {disk} ELSE {})
    /\ UNCHANGED disk

-----------------------------------------------------------------------------
(* The hasher: _emit, the event callback and enqueue *)

Offered(e) == e \notin accepted /\ attempts[e] < MaxEmitAttempts

\* Mutant: enqueue without eviction.
EnqueueUnbounded(e) ==
    /\ Commit(Insert(conn, e))
    /\ accepted' = accepted \cup {e}
    /\ UNCHANGED attempts

Enqueue(e) ==
    /\ Commit(EvictOldestIfFull(Insert(conn, e)))
    /\ accepted' = accepted \cup {e}
    /\ UNCHANGED attempts

EnqueueRaises(e) ==
    /\ Raise({conn, Insert(conn, e), EvictOldestIfFull(Insert(conn, e))})
    /\ attempts' = [attempts EXCEPT ![e] = @ + 1]
    /\ UNCHANGED accepted

Emit(e) ==
    /\ Offered(e)
    /\ Enqueue(e) \/ EnqueueRaises(e)
    /\ UNCHANGED <<batch, phase, server>>

-----------------------------------------------------------------------------
(* EventDispatcher *)

PeekBatch ==
    /\ phase = "idle" /\ conn.rows # <<>>
    /\ batch' = SubSeq(conn.rows, 1, IF Len(conn.rows) < BatchSize
                                     THEN Len(conn.rows) ELSE BatchSize)
    /\ phase' = "send"
    /\ UNCHANGED <<disk, conn, producer, server, faults>>

Received == copies' = [copies EXCEPT ![Head(batch).event] = @ + 1]

\* send_event on the first row of the batch, and the exception handlers.
Send(answer) ==
    /\ phase = "send"
    /\ phase' = answer
    /\ UNCHANGED <<disk, conn, producer, batch>>

SendSucceeds == Send("sent") /\ Received /\ UNCHANGED <<rejected, faults>>

\* The server processed the event and its answer did not arrive.
SendLosesAnswer == Send("failed") /\ Received /\ Fault /\ UNCHANGED rejected

SendFails == Send("failed") /\ UNCHANGED <<server, faults>>

SendIsFatal ==
    /\ Send("rejected")
    /\ rejected' = rejected \cup {Head(batch).event}
    /\ UNCHANGED <<copies, faults>>

Finish == batch' = <<>> /\ phase' = "idle"

Proceed ==
    /\ batch' = Tail(batch)
    /\ phase' = IF Len(batch) = 1 THEN "idle" ELSE "send"

\* Mutants: a delivered row is kept; a fatally rejected one is kept and ends the batch.
MarkSentKeepsRow ==
    /\ phase \in {"sent", "rejected"}
    /\ Commit(conn) /\ Proceed
    /\ UNCHANGED <<producer, server>>

MarkSentUnlessRejected ==
    /\ \/ phase = "sent" /\ Commit(Delete(conn, Head(batch).id)) /\ Proceed
       \/ phase = "rejected" /\ Commit(conn) /\ Finish
    /\ UNCHANGED <<producer, server>>

\* The row is deleted and the batch goes on; an EventSpoolError ends the batch.
MarkSent ==
    /\ phase \in {"sent", "rejected"}
    /\ \/ Commit(Delete(conn, Head(batch).id)) /\ Proceed
       \/ Raise({conn, Delete(conn, Head(batch).id)}) /\ Finish
    /\ UNCHANGED <<producer, server>>

\* Mutant: the batch goes on after a failure.
RecordAttemptAndProceed ==
    /\ phase = "failed"
    /\ \/ Commit(conn) /\ Proceed
       \/ Raise({conn}) /\ Finish
    /\ UNCHANGED <<producer, server>>

\* Mutant: a refused event is given up at once.
RecordAttemptDropsRow ==
    /\ phase = "failed"
    /\ Commit(Delete(conn, Head(batch).id)) \/ Raise({conn})
    /\ Finish
    /\ UNCHANGED <<producer, server>>

\* The row stays, the batch ends.
RecordAttempt ==
    /\ phase = "failed"
    /\ Commit(conn) \/ Raise({conn})
    /\ Finish
    /\ UNCHANGED <<producer, server>>

-----------------------------------------------------------------------------
\* The process dies or shuts down, and starts again with what was committed.
\* Payloads the hasher kept for another attempt are gone.
Restart ==
    /\ Fault
    /\ conn' = disk
    /\ attempts' = [e \in Event |-> IF attempts[e] > 0 THEN MaxEmitAttempts ELSE 0]
    /\ Finish
    /\ UNCHANGED <<disk, accepted, server>>

DispatcherStep ==
    \/ PeekBatch
    \/ SendSucceeds \/ SendLosesAnswer \/ SendFails \/ SendIsFatal
    \/ MarkSent \/ RecordAttempt

Next ==
    \/ \E e \in Event : Emit(e)
    \/ DispatcherStep
    \/ Restart

Spec == Init /\ [][Next]_vars

\* The dispatcher keeps running, and a server that is asked again and again
\* about an event takes it or refuses it for good some time.
Fairness == WF_vars(DispatcherStep) /\ SF_vars(SendSucceeds \/ SendIsFatal)

FairSpec == Spec /\ Fairness

-----------------------------------------------------------------------------
Row == [id : Nat, event : Event]
Database == [rows : Seq(Row), lastId : Nat, evicted : SUBSET Event]

\* A failed enqueue may leave one row too many until the next one succeeds.
TypeOK ==
    /\ disk \in Database /\ conn \in Database
    /\ attempts \in [Event -> 0..MaxEmitAttempts] /\ accepted \subseteq Event
    /\ batch \in Seq(Row) /\ phase \in {"idle", "send", "sent", "rejected", "failed"}
    /\ copies \in [Event -> Nat] /\ rejected \subseteq Event
    /\ faults \in 0..MaxFaults
    /\ batch = <<>> <=> phase = "idle"
    /\ Len(conn.rows) <= MaxEvents + faults

\* Delivered, refused for good, or evicted with a warning.
Settled(e) == copies[e] > 0 \/ e \in rejected \/ e \in disk.evicted

\* At-least-once (docstring of event_spool): once enqueue returned, the event is on
\* disk until the server has it, whatever fails, crashes or overflows meanwhile.
AcceptedIsNotLost == \A e \in accepted : e \in EventsOf(disk.rows) \/ Settled(e)

\* What at-least-once costs: each copy the server sees beyond the first is the
\* work of a fault of its own, however crashes, lost answers, failed commits and
\* repeated enqueues of one payload meet.
Duplicates == UNION {{e} \X (2..copies[e]) : e \in Event}

DuplicatesHaveACause == Cardinality(Duplicates) <= faults

\* The order of the queue is kept (_dispatch_batch): when the server sees an event
\* for the first time, it has seen every older row that is still there.
OldestFirst ==
    [][\A e \in Event :
          copies[e] = 0 /\ copies'[e] = 1 =>
              \A r \in ToSet(conn.rows) :
                  r.id < Head(batch).id => copies[r.event] > 0]_vars

\* An accepted event leaves the spool: no row blocks the ones behind it.
EveryEventIsSettled == \A e \in Event : e \in accepted ~> Settled(e)

\* What leaves the disk is settled, accepted or not, and nothing is on it or reaches
\* the server that was not offered: spool, hasher and dispatcher are an at-least-once
\* queue, whose steps no failed commit, open transaction or restart shows in.
Queue == INSTANCE EventQueue WITH
    offered <- accepted \cup {e \in Event : attempts[e] > 0},
    stored <- EventsOf(disk.rows),
    delivered <- {e \in Event : copies[e] > 0},
    givenUp <- rejected \cup disk.evicted
QueueKept == Queue!Spec
===============================================================================
