------------------------------ MODULE FilePipeline ------------------------------
(***************************************************************************)
(* From a watchdog observation to the spool: the four threads of           *)
(* FileMonitor and the lists that join them.                               *)
(*                                                                         *)
(*   observer  -> SettleTracker.observe       (pending, ready)             *)
(*   releaser  -> due / flush, then submit    (released, queue, degraded)  *)
(*   hasher    -> process_once / drain        (taken, batch, retry)        *)
(*   main      -> FileMonitor.stop and join, stage by stage                *)
(*                                                                         *)
(* Time is left out: due() may release any entries of the tracker, and the *)
(* hashing deadline may pass at any moment.  SettleTracker.tla has the     *)
(* clock and shows which entries are released when.  Each action is one    *)
(* critical section or one call of the event callback; the lists a thread  *)
(* keeps to itself change together with the shared one it works on.        *)
(***************************************************************************)
EXTENDS OrderedDict, FiniteSets

CONSTANTS
    Path,                \* normalised paths
    MaxPendingFiles,     \* SettleTracker.max_pending_files
    MaxQueueDepth,       \* FileHasher.max_queue_depth
    MaxReintroductions,  \* FileHasher.max_reintroductions
    MaxEmitAttempts,     \* FileHasher.max_emit_attempts
    MaxObservations      \* bound of the model: observations watchdog delivers

ASSUME PipelineAssumption ==
    /\ MaxPendingFiles \in Nat \ {0} /\ MaxQueueDepth \in Nat \ {0}
    /\ MaxEmitAttempts \in Nat \ {0}
    /\ MaxReintroductions \in Nat /\ MaxObservations \in Nat

VARIABLES
    seen,      \* history: observations so far; their ids are 1..seen
    pending,   \* SettleTracker._pending
    ready,     \* SettleTracker._ready
    released,  \* what due() or flush() returned and is not yet submitted
    queue,     \* FileHasher._queue
    degraded,  \* FileHasher._degraded
    taken,     \* the entry the hasher is reading, a list of length 0 or 1
    batch,     \* the payloads the hasher is emitting one by one
    retry,     \* FileHasher._retry
    spooled,   \* history: observations whose event the callback accepted
    dropped,   \* history: observations whose event was given up with an ERROR
    overran,   \* history: a join gave up on its thread, the budget was spent
    observer, releaser, hasher, main    \* where each thread is

tracker == <<pending, ready>>
hashing == <<taken, batch, retry, spooled, dropped>>
threads == <<observer, releaser, hasher, main, overran>>
vars == <<seen, tracker, released, queue, degraded, hashing, threads>>

\* A PendingFile: obs stands for observation_count; cycles is a history field,
\* the number of failed double checks an observation of obs went through.
PendingFile(p, obs, count, cycles) ==
    [path |-> p, obs |-> obs, reintroduction_count |-> count, cycles |-> cycles]

\* _build: an event about the observations of an entry, and its attempts so far.
Payload(e, attempts) == [obs |-> e.obs, attempts |-> attempts]
Payloads(list, attempts) == [i \in DOMAIN list |-> Payload(list[i], attempts)]

\* The attempt count that leaves one chance.
LastChance == MaxEmitAttempts - 1

\* The stop events, set by main on its way through join.
ReleaserStopped == main \in {"releaser", "hasher", "clean", "stalled"}

\* Mutant: the hasher is told to stop together with the releaser.
HasherStoppedEarly == main \in {"releaser", "hasher", "clean", "stalled"}
HasherStopped == main \in {"hasher", "clean", "stalled"}

Init ==
    /\ seen = 0 /\ pending = <<>> /\ ready = <<>> /\ released = <<>>
    /\ queue = <<>> /\ degraded = <<>>
    /\ taken = <<>> /\ batch = <<>> /\ retry = <<>>
    /\ spooled = {} /\ dropped = {}
    /\ observer = "alive" /\ releaser = "loop" /\ hasher = "idle"
    /\ main = "running" /\ overran = FALSE

-----------------------------------------------------------------------------
(* SettleTracker, without its clock *)

InsertPending(d) ==
    /\ pending' = Kept(d, MaxPendingFiles)
    /\ ready' = ready \o Evicted(d, MaxPendingFiles)

\* observe, on the watchdog thread.
Observe(p) ==
    /\ observer = "alive" /\ seen < MaxObservations
    /\ seen' = seen + 1
    /\ \/ /\ p \in Keys(pending)
          /\ pending' = [pending EXCEPT ![Position(pending, p)].obs = @ \cup {seen + 1}]
          /\ UNCHANGED ready
       \/ /\ p \notin Keys(pending)
          /\ InsertPending(Append(pending, PendingFile(p, {seen + 1}, 0, 0)))
    /\ UNCHANGED <<released, queue, degraded, hashing, threads>>

ObserverExit ==
    /\ observer = "alive" /\ main # "running"
    /\ observer' = "dead"
    /\ UNCHANGED <<seen, tracker, released, queue, degraded, hashing,
                   releaser, hasher, main, overran>>

\* Mutant: the round is not counted.
ReintroducedUncounted(e) ==
    LET known == e.path \in Keys(pending)
        other == Lookup(pending, e.path)
    IN  PendingFile(e.path,
            e.obs \cup (IF known THEN other.obs ELSE {}),
            e.reintroduction_count,
            1 + IF known /\ other.cycles > e.cycles THEN other.cycles ELSE e.cycles)

\* What reintroduce puts back: the entry, with what arrived while it was read.
Reintroduced(e) ==
    LET known == e.path \in Keys(pending)
        other == Lookup(pending, e.path)
    IN  PendingFile(e.path,
            e.obs \cup (IF known THEN other.obs ELSE {}),
            e.reintroduction_count + 1,
            1 + IF known /\ other.cycles > e.cycles THEN other.cycles ELSE e.cycles)

-----------------------------------------------------------------------------
(* SettleReleaser *)

\* Mutant: due() forgets to clear _ready.
ReleaseDueKeepsReady ==
    /\ releaser = "loop" /\ ~ReleaserStopped /\ released = <<>>
    /\ \E s \in Splits(Len(pending)) :
          /\ released' = ready \o Select(pending, s[1])
          /\ pending' = Select(pending, s[2])
    /\ released' # <<>>
    /\ UNCHANGED <<seen, ready, queue, degraded, hashing, threads>>

\* release_due_once calls due(): what is in _ready and the ripe entries of
\* _pending, in their order, become the list the pass then submits.
ReleaseDue ==
    /\ releaser = "loop" /\ ~ReleaserStopped /\ released = <<>>
    /\ \E s \in Splits(Len(pending)) :
          /\ released' = ready \o Select(pending, s[1])
          /\ pending' = Select(pending, s[2])
    /\ released' # <<>>
    /\ ready' = <<>>
    /\ UNCHANGED <<seen, queue, degraded, hashing, threads>>

\* drain_for_shutdown calls flush(): everything is released.
Flush ==
    /\ releaser = "loop" /\ ReleaserStopped /\ released = <<>>
    /\ released' = ready \o pending
    /\ pending' = <<>> /\ ready' = <<>>
    /\ releaser' = "drain"
    /\ UNCHANGED <<seen, queue, degraded, hashing, observer, hasher, main, overran>>

\* Mutants: the arrival that does not fit is dropped; one too many fits.
SubmitOrForget(e) ==
    /\ queue' = IF Len(queue) >= MaxQueueDepth THEN queue ELSE Append(queue, e)
    /\ UNCHANGED degraded

SubmitOneOver(e) ==
    IF Len(queue) > MaxQueueDepth
    THEN degraded' = Append(degraded, e) /\ UNCHANGED queue
    ELSE queue' = Append(queue, e) /\ UNCHANGED degraded

\* FileHasher.submit: an arrival that does not fit is reported without a hash.
SubmitTo(e) ==
    IF Len(queue) >= MaxQueueDepth
    THEN degraded' = Append(degraded, e) /\ UNCHANGED queue
    ELSE queue' = Append(queue, e) /\ UNCHANGED degraded

Submit ==
    /\ released # <<>>
    /\ SubmitTo(Head(released))
    /\ released' = Tail(released)
    /\ UNCHANGED <<seen, tracker, hashing, threads>>

ReleaserExit ==
    /\ releaser = "drain" /\ released = <<>>
    /\ releaser' = "dead"
    /\ UNCHANGED <<seen, tracker, released, queue, degraded, hashing,
                   observer, hasher, main, overran>>

-----------------------------------------------------------------------------
(* FileHasher *)

\* Mutant: the failed attempt is not counted.
EmitUncounted(p) ==
    \/ spooled' = spooled \cup p.obs /\ UNCHANGED <<dropped, retry>>
    \/ retry' = Append(retry, p) /\ UNCHANGED <<spooled, dropped>>

\* _emit: the callback accepts the event, or raises; a payload that failed
\* max_emit_attempts times is given up with an ERROR in the log.
Emit(p) ==
    \/ spooled' = spooled \cup p.obs /\ UNCHANGED <<dropped, retry>>
    \/ /\ p.attempts + 1 >= MaxEmitAttempts
       /\ dropped' = dropped \cup p.obs
       /\ UNCHANGED <<spooled, retry>>
    \/ /\ p.attempts + 1 < MaxEmitAttempts
       /\ retry' = Append(retry, [p EXCEPT !.attempts = @ + 1])
       /\ UNCHANGED <<spooled, dropped>>

\* One payload of the list under way in _flush_retries, _flush_degraded or at
\* the end of drain_for_shutdown.
EmitNext ==
    /\ batch # <<>>
    /\ Emit(Head(batch))
    /\ batch' = Tail(batch)
    /\ UNCHANGED <<seen, tracker, released, queue, degraded, taken, threads>>

\* The hasher finished one list and takes the next one.
NextBatch(from, list, to) ==
    /\ hasher = from /\ batch = <<>>
    /\ batch' = list
    /\ hasher' = to
    /\ UNCHANGED <<seen, tracker, released, taken, spooled, dropped,
                   observer, releaser, main, overran>>

\* Mutant: the loop does not look at its stop event.
ProcessRetriesAlways ==
    /\ NextBatch("idle", retry, "retries")
    /\ retry' = <<>>
    /\ UNCHANGED <<queue, degraded>>

\* process_once: retries, then degraded entries, then one file from the queue.
ProcessRetries ==
    /\ ~HasherStopped
    /\ NextBatch("idle", retry, "retries")
    /\ retry' = <<>>
    /\ UNCHANGED <<queue, degraded>>

ProcessDegraded ==
    /\ NextBatch("retries", Payloads(degraded, 0), "degraded")
    /\ degraded' = <<>>
    /\ UNCHANGED <<queue, retry>>

TakeNext(from, to) ==
    /\ hasher = from /\ batch = <<>> /\ queue # <<>>
    /\ taken' = <<Head(queue)>> /\ queue' = Tail(queue)
    /\ hasher' = to
    /\ UNCHANGED <<seen, tracker, released, degraded, batch, retry, spooled, dropped,
                   observer, releaser, main, overran>>

NothingToHash ==
    /\ hasher = "degraded" /\ batch = <<>> /\ queue = <<>>
    /\ hasher' = "idle"
    /\ UNCHANGED <<seen, tracker, released, queue, degraded, hashing,
                   observer, releaser, main, overran>>

\* _process emits the entry whatever the outcome of hash_file was, unless the
\* file changed and may still be put back.
ReportTaken ==
    /\ \/ hasher = "hash" /\ hasher' = "idle" /\ Emit(Payload(taken[1], 0))
       \/ hasher = "last_hash" /\ hasher' = "drain" /\ Emit(Payload(taken[1], LastChance))
    /\ taken' = <<>>
    /\ UNCHANGED <<seen, tracker, released, queue, degraded, batch,
                   observer, releaser, main, overran>>

\* The file changed under the hasher: tracker.reintroduce, out of process_once.
PutBack ==
    /\ hasher = "hash" /\ taken[1].reintroduction_count < MaxReintroductions
    /\ InsertPending(Append(Discard(pending, taken[1].path), Reintroduced(taken[1])))
    /\ taken' = <<>> /\ hasher' = "idle"
    /\ UNCHANGED <<seen, released, queue, degraded, batch, retry, spooled, dropped,
                   observer, releaser, main, overran>>

\* drain_for_shutdown, after run left its loop: hash until the queue is empty or
\* the deadline passed, then degraded entries, retries and the rest of the queue,
\* each with one chance left.
BeginDrain ==
    /\ hasher = "idle" /\ HasherStopped
    /\ hasher' = "drain"
    /\ UNCHANGED <<seen, tracker, released, queue, degraded, hashing,
                   observer, releaser, main, overran>>

DrainDegraded ==
    /\ NextBatch("drain", Payloads(degraded, LastChance), "drain_degraded")
    /\ degraded' = <<>>
    /\ UNCHANGED <<queue, retry>>

DrainRetries ==
    /\ NextBatch("drain_degraded", Payloads(retry, LastChance), "drain_retries")
    /\ retry' = <<>>
    /\ UNCHANGED <<queue, degraded>>

DrainQueue ==
    /\ NextBatch("drain_retries", Payloads(queue, LastChance), "drain_queue")
    /\ queue' = <<>>
    /\ UNCHANGED <<degraded, retry>>

HasherExit ==
    /\ NextBatch("drain_queue", <<>>, "dead")
    /\ UNCHANGED <<queue, degraded, retry>>

-----------------------------------------------------------------------------
(* FileMonitor.stop and join *)

Advance(from, to) ==
    /\ main = from
    /\ main' = to
    /\ UNCHANGED <<seen, tracker, released, queue, degraded, hashing,
                   observer, releaser, hasher>>

Stop == Advance("running", "observer") /\ UNCHANGED overran

\* thread.join(timeout=remaining()) returns: the thread ended, or time is up.
Joined(thread) == overran' = (overran \/ thread # "dead")

JoinObserver == Advance("observer", "releaser") /\ Joined(observer)

JoinReleaser == Advance("releaser", "hasher") /\ Joined(releaser)

AllDead == observer = "dead" /\ releaser = "dead" /\ hasher = "dead"

JoinHasher ==
    /\ Advance("hasher", IF AllDead THEN "clean" ELSE "stalled")
    /\ Joined(hasher)

Terminated ==
    /\ main \in {"clean", "stalled"} /\ AllDead
    /\ UNCHANGED vars

ObserverStep == (\E p \in Path : Observe(p)) \/ ObserverExit
ReleaserStep == ReleaseDue \/ Flush \/ Submit \/ ReleaserExit
HasherStep ==
    \/ EmitNext \/ ProcessRetries \/ ProcessDegraded
    \/ TakeNext("degraded", "hash") \/ NothingToHash \/ ReportTaken \/ PutBack
    \/ BeginDrain \/ TakeNext("drain", "last_hash")
    \/ DrainDegraded \/ DrainRetries \/ DrainQueue \/ HasherExit
MainStep == Stop \/ JoinObserver \/ JoinReleaser \/ JoinHasher

Next == ObserverStep \/ ReleaserStep \/ HasherStep \/ MainStep \/ Terminated

Spec == Init /\ [][Next]_vars

\* Every thread keeps running; nobody has to stop the agent.  A pass of the
\* releaser takes any path whose window passed the ceiling, so a path that
\* keeps waiting is released by some later pass.
Fairness ==
    /\ WF_vars(ObserverExit)
    /\ WF_vars(ReleaserStep)
    /\ \A p \in Path : SF_vars(ReleaseDue /\ p \in Keys(pending) /\ p \notin Keys(pending)')
    /\ WF_vars(HasherStep)
    /\ WF_vars(JoinObserver \/ JoinReleaser \/ JoinHasher)

FairSpec == Spec /\ Fairness

-----------------------------------------------------------------------------
Entry ==
    [path : Path, obs : SUBSET Nat, reintroduction_count : 0..MaxReintroductions,
     cycles : Nat]
Event == [obs : SUBSET Nat, attempts : 0..LastChance]

TypeOK ==
    /\ seen \in Nat /\ spooled \subseteq Nat /\ dropped \subseteq Nat
    /\ pending \in Seq(Entry) /\ ready \in Seq(Entry) /\ released \in Seq(Entry)
    /\ queue \in Seq(Entry) /\ degraded \in Seq(Entry) /\ taken \in Seq(Entry)
    /\ batch \in Seq(Event) /\ retry \in Seq(Event)
    /\ overran \in BOOLEAN
    /\ observer \in {"alive", "dead"} /\ releaser \in {"loop", "drain", "dead"}
    /\ hasher \in {"idle", "retries", "degraded", "hash", "drain", "last_hash",
                   "drain_degraded", "drain_retries", "drain_queue", "dead"}
    /\ main \in {"running", "observer", "releaser", "hasher", "clean", "stalled"}
    /\ Len(queue) <= MaxQueueDepth /\ Len(pending) <= MaxPendingFiles
    /\ Len(taken) <= 1 /\ (taken # <<>> <=> hasher \in {"hash", "last_hash"})

InTracker == Obs(pending) \cup Obs(ready)
InFlight ==
    Obs(released) \cup Obs(queue) \cup Obs(degraded) \cup Obs(taken)
      \cup Obs(batch) \cup Obs(retry)

\* Whatever the interleaving, the pressure on a list or the failures of the
\* callback: an observation is somewhere in the pipeline, or in the spool, or its
\* loss was written to the log as an ERROR (file_hasher.py, SettleTracker docs).
NothingVanishes == 1..seen = InTracker \cup InFlight \cup spooled \cup dropped

\* When join says that all stages ended and it waited for each of them, every list
\* between them is empty, and what is left in the tracker was put there by the
\* hasher alone: the order of the joins loses no entry the releaser handed over.
CleanJoinEmptiesTheLists ==
    main = "clean" /\ ~overran =>
        /\ InFlight = {}
        /\ \A e \in ToSet(pending) \cup ToSet(ready) : e.reintroduction_count > 0

\* The join docstring's claim about its order, in full: every observation was
\* reported or given up with an ERROR.
CleanJoinLosesNothing == main = "clean" /\ ~overran => 1..seen = spooled \cup dropped

\* What reintroduction_count is for (docstring of reintroduce): no observation
\* is sent around between tracker and hasher more often than the bound allows.
ReintroductionsAreBounded ==
    \A e \in ToSet(pending) \cup ToSet(released) \cup ToSet(queue) :
        e.cycles <= MaxReintroductions

\* What the code does keep of that: the count an absorbed entry loses was counted for
\* other observations, so an entry has gone round at most max_reintroductions times
\* for each observation it stands for, and none circulates for ever.
RoundsArePaidFor ==
    \A e \in ToSet(pending) \cup ToSet(ready) \cup ToSet(released)
               \cup ToSet(queue) \cup ToSet(degraded) \cup ToSet(taken) :
        e.cycles <= MaxReintroductions * Cardinality(e.obs)

\* While nobody stops the agent every observation leaves the pipeline: it is
\* reported, or its event was refused max_emit_attempts times.
EveryObservationIsSettled ==
    \A o \in 1..MaxObservations :
        o <= seen ~> (o \in spooled \cup dropped \/ main # "running")

\* Once asked to stop, join returns and all stages end, within its budget or not.
StopEnds == main = "observer" ~> main \in {"clean", "stalled"} /\ AllDead

\* Every observation is settled once: the events the callback accepts are about
\* pairwise different observations, and never about one given up before.
Ledger == INSTANCE EventLedger WITH seen <- seen, spooled <- spooled, dropped <- dropped
SettledOnce == Ledger!Spec
===============================================================================
