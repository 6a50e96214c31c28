----------------------------- MODULE SettleTracker -----------------------------
(***************************************************************************)
(* services/settle_tracker.py: files that watchdog reported wait here      *)
(* until they are quiet.  Three threads call it: the watchdog observer     *)
(* (observe), the releaser (due, flush) and the hasher (reintroduce).      *)
(* Every method but flush reads the clock BEFORE it takes the lock, so a   *)
(* call has two steps here, the clock read (Enter...) and the critical     *)
(* section, and other threads run between the two.                         *)
(*                                                                         *)
(* event_type and occurred_at travel with first_seen from the observation  *)
(* that opened the entry; nothing here depends on them and they are left   *)
(* out.  The path is normalised: one member of Path is one dictionary key. *)
(***************************************************************************)
EXTENDS OrderedDict

CONSTANTS
    Path,                \* normalised paths, the keys of _pending
    QuietSeconds,        \* quiet_seconds
    MaxWaitSeconds,      \* max_wait_seconds
    MaxPendingFiles,     \* max_pending_files
    MaxReintroductions,  \* max_reintroductions, the hasher's bound on retries
    PollSeconds,         \* longest time between two passes of the releaser
    StallBound,          \* longest time a thread spends on its way to the lock
    MaxTime,             \* bound of the model: last instant of the clock
    MaxObservations      \* bound of the model: calls of observe

ASSUME TrackerAssumption ==
    /\ {QuietSeconds, MaxWaitSeconds, MaxPendingFiles} \subseteq Nat \ {0}
    /\ {MaxReintroductions, StallBound, MaxTime, MaxObservations} \subseteq Nat
    /\ PollSeconds \in Nat \ {0}
    /\ QuietSeconds <= MaxWaitSeconds

VARIABLES
    clock,     \* time.monotonic()
    pending,   \* _pending, as OrderedDict
    ready,     \* _ready
    held,      \* entries due() or flush() returned, on their way to a report
    call,      \* per thread: the call that read the clock and waits for _lock
    draining,  \* watchdog was joined and the releaser left its loop
    lastDue,   \* clock reading of the last pass of the releaser
    seen,      \* history: number of observations; their ids are 1..seen
    evidence,  \* history: latest clock reading that showed the path changing
    reported   \* history: ids of the observations the hasher emitted

vars ==
    <<clock, pending, ready, held, call, draining, lastDue, seen, evidence, reported>>

Thread == {"observer", "releaser", "hasher"}
Idle == [op |-> "none"]
Reason == {"waiting", "quiet", "ceiling", "capacity", "shutdown"}

\* PendingFile: obs is the set of observations the entry stands for, whose
\* cardinality is observation_count; "quiet" is forced_reason None on release.
PendingFile(path, now, obs) ==
    [path |-> path, first_seen |-> now, last_seen |-> now,
     settling_since |-> now, obs |-> obs, reintroduction_count |-> 0,
     reason |-> "waiting"]

Released(e, why) == [e EXCEPT !.reason = why]

Latest(s, t) == IF s < t THEN t ELSE s

Init ==
    /\ clock = 0 /\ lastDue = 0
    /\ pending = <<>> /\ ready = <<>> /\ held = {}
    /\ call = [t \in Thread |-> Idle] /\ draining = FALSE
    /\ seen = 0 /\ reported = {}
    /\ evidence = [p \in Path |-> -1]

-----------------------------------------------------------------------------
\* Mutants: no capacity at all; the eviction of EventDebouncer, which drops.
NoCapacity(d) == pending' = d /\ ready' = ready
EvictOverCapacity(d) ==
    /\ pending' = Kept(d, MaxPendingFiles)
    /\ ready' = ready

\* _force_release_over_capacity: what it evicts goes to _ready.
ForceReleaseOverCapacity(d) ==
    /\ pending' = Kept(d, MaxPendingFiles)
    /\ ready' = ready \o [i \in DOMAIN Evicted(d, MaxPendingFiles) |->
                             Released(Evicted(d, MaxPendingFiles)[i], "capacity")]

\* A thread calls a method: it reads the clock, then queues for the lock.
Enter(t, c) ==
    /\ call[t] = Idle
    /\ call' = [call EXCEPT ![t] = c]
    /\ UNCHANGED <<clock, pending, ready, held, draining, lastDue, seen, evidence,
                   reported>>

Leave(t) == call' = [call EXCEPT ![t] = Idle]

EnterObserve(p) ==
    /\ ~draining
    /\ seen < MaxObservations
    /\ Enter("observer", [op |-> "observe", now |-> clock, path |-> p])

\* Mutant: the new observation is counted and does not restart the quiet period.
ObserveKnownKeepsLastSeen(c) ==
    LET e == Lookup(pending, c.path) IN
    pending' = [pending EXCEPT ![Position(pending, c.path)] =
                    [e EXCEPT !.obs = @ \cup {seen + 1}]]

\* The critical section of observe, for a path that already waits ...
ObserveKnown(c) ==
    LET e == Lookup(pending, c.path) IN
    pending' = [pending EXCEPT ![Position(pending, c.path)] =
                    [e EXCEPT !.last_seen = c.now, !.obs = @ \cup {seen + 1}]]

\* ... and for a path that does not: a new entry at the tail.
ObserveNew(c) ==
    ForceReleaseOverCapacity(
        Append(pending, PendingFile(c.path, c.now, {seen + 1})))

Observe ==
    LET c == call["observer"] IN
    /\ c.op = "observe"
    /\ \/ c.path \in Keys(pending) /\ ObserveKnown(c) /\ UNCHANGED ready
       \/ c.path \notin Keys(pending) /\ ObserveNew(c)
    /\ seen' = seen + 1
    /\ evidence' = [evidence EXCEPT ![c.path] = Latest(@, c.now)]
    /\ Leave("observer")
    /\ UNCHANGED <<clock, held, draining, lastDue, reported>>

-----------------------------------------------------------------------------
EnterDue ==
    /\ ~draining
    /\ Enter("releaser", [op |-> "due", now |-> clock])

SettledNaturally(e, now) == now - e.last_seen >= QuietSeconds

\* Mutant: the ceiling measured from the last change, which never comes.
HitCeilingSinceLastSeen(e, now) == now - e.last_seen >= MaxWaitSeconds
HitCeiling(e, now) == now - e.settling_since >= MaxWaitSeconds

DueReason(e, now) == IF SettledNaturally(e, now) THEN "quiet" ELSE "ceiling"

Ripe(now) ==
    {i \in DOMAIN pending : SettledNaturally(pending[i], now) \/ HitCeiling(pending[i], now)}

\* due: everything in _ready and every ripe entry leaves the tracker.
Due ==
    LET now == call["releaser"].now IN
    /\ call["releaser"].op = "due"
    /\ \E s \in Splits(Len(pending)) :
          /\ Range(s[1]) = Ripe(now)
          /\ pending' = Select(pending, s[2])
    /\ held' = held \cup ToSet(ready)
                    \cup {Released(pending[i], DueReason(pending[i], now)) : i \in Ripe(now)}
    /\ ready' = <<>>
    /\ lastDue' = now
    /\ Leave("releaser")
    /\ UNCHANGED <<clock, draining, seen, evidence, reported>>

\* flush: everything leaves the tracker.  Its clock reading is used for
\* released_at alone.
Flush ==
    /\ ~draining
    /\ call["releaser"] = Idle /\ call["observer"] = Idle
    /\ held' = held \cup ToSet(ready)
                    \cup {Released(e, "shutdown") : e \in ToSet(pending)}
    /\ pending' = <<>> /\ ready' = <<>>
    /\ draining' = TRUE
    /\ UNCHANGED <<clock, call, lastDue, seen, evidence, reported>>

-----------------------------------------------------------------------------
\* The hasher found the file changed while it read it; entries of a path are
\* hashed one after the other.
EnterReintroduce(e) ==
    /\ e.reintroduction_count < MaxReintroductions
    /\ Enter("hasher", [op |-> "reintroduce", now |-> clock, entry |-> e])

\* observation_count adds what was observed while the hasher read.
Absorbed(e) == IF e.path \in Keys(pending) THEN Lookup(pending, e.path).obs ELSE {}

\* Mutant: the window is not restarted, as before settling_since existed.
ReintroducedInOldWindow(e, now) ==
    [PendingFile(e.path, e.first_seen, e.obs \cup Absorbed(e))
        EXCEPT !.last_seen = now, !.reintroduction_count = e.reintroduction_count + 1]

Reintroduced(e, now) ==
    [PendingFile(e.path, e.first_seen, e.obs \cup Absorbed(e))
        EXCEPT !.last_seen = now, !.settling_since = now,
               !.reintroduction_count = e.reintroduction_count + 1]

Reintroduce ==
    LET c == call["hasher"] IN
    /\ c.op = "reintroduce"
    /\ ForceReleaseOverCapacity(
          Append(Discard(pending, c.entry.path), Reintroduced(c.entry, c.now)))
    /\ held' = held \ {c.entry}
    /\ evidence' = [evidence EXCEPT ![c.entry.path] = Latest(@, c.now)]
    /\ Leave("hasher")
    /\ UNCHANGED <<clock, draining, lastDue, seen, reported>>

\* The file was stable, or out of retries: its event is built and emitted.
Report(e) ==
    /\ call["hasher"] = Idle
    /\ held' = held \ {e}
    /\ reported' = reported \cup e.obs
    /\ UNCHANGED <<clock, pending, ready, call, draining, lastDue, seen, evidence>>

\* Time passes while the releaser keeps its cadence and no caller is stalled
\* longer than StallBound in front of a lock whose holders do constant work.
Tick ==
    /\ clock < MaxTime
    /\ draining \/ clock - lastDue < PollSeconds
    /\ \A t \in Thread : call[t] # Idle => clock - call[t].now < StallBound
    /\ clock' = clock + 1
    /\ UNCHANGED <<pending, ready, held, call, draining, lastDue, seen, evidence,
                   reported>>

Next ==
    \/ \E p \in Path : EnterObserve(p)
    \/ Observe
    \/ EnterDue
    \/ Due
    \/ Flush
    \/ \E e \in held : EnterReintroduce(e) \/ Report(e)
    \/ Reintroduce
    \/ Tick

Spec == Init /\ [][Next]_vars

-----------------------------------------------------------------------------
Entry ==
    [path : Path, first_seen : 0..MaxTime,
     last_seen : 0..MaxTime, settling_since : 0..MaxTime,
     obs : (SUBSET (1..MaxObservations)) \ {{}},
     reintroduction_count : 0..MaxReintroductions, reason : Reason]

OnePerPath(d) == \A i, j \in DOMAIN d : d[i].path = d[j].path => i = j

ObserverCall == {Idle} \cup [op : {"observe"}, now : 0..clock, path : Path]
ReleaserCall == {Idle} \cup [op : {"due"}, now : 0..clock]
Retriable == {e \in held : e.reintroduction_count < MaxReintroductions}
HasherCall == {Idle} \cup [op : {"reintroduce"}, now : 0..clock, entry : Retriable]

\* Types, and the two bounds on memory: one entry per path and at most
\* max_pending_files of them outside the critical sections.
TypeOK ==
    /\ clock \in 0..MaxTime /\ lastDue \in 0..clock /\ draining \in BOOLEAN
    /\ pending \in Seq(Entry) /\ ready \in Seq(Entry) /\ held \subseteq Entry
    /\ DOMAIN call = Thread /\ call["observer"] \in ObserverCall
    /\ call["releaser"] \in ReleaserCall /\ call["hasher"] \in HasherCall
    /\ seen \in 0..MaxObservations /\ reported \subseteq 1..MaxObservations
    /\ call["observer"] # Idle => seen < MaxObservations
    /\ OnePerPath(pending)
    /\ Len(pending) <= MaxPendingFiles

Entries == ToSet(pending) \cup ToSet(ready) \cup held

\* Pressure on memory and retries turn into early or late reports, never into
\* silence (docstring of _force_release_over_capacity), and no observation is
\* counted twice (docstring of reintroduce): every observation is carried by
\* exactly one entry until it is reported.
ObservationConservation ==
    /\ 1..seen = reported \cup UNION {e.obs : e \in Entries}
    /\ \A e, f \in Entries : e # f => e.obs \cap f.obs = {}
    /\ \A e \in Entries : e.obs \cap reported = {}

\* The releaser's promise that every entry leaves in at most max_wait_seconds
\* (SettleReleaser): a file that never stops changing is held back no longer
\* than the ceiling and one polling period.
CeilingBoundsTheWait ==
    ~draining =>
        \A i \in DOMAIN pending :
            clock - pending[i].settling_since < MaxWaitSeconds + PollSeconds

\* An entry released as quiet really was: the last evidence that its file was
\* changing, whichever thread found it, is QuietSeconds old.  StallBound is the
\* price of reading the clock before taking the lock: a stalled caller writes
\* an older last_seen over a younger one.
QuietMeansQuiet ==
    [][\A e \in held' \ held :
          e.reason = "quiet" => clock - evidence[e.path] >= QuietSeconds - StallBound]_vars

\* Entries are in the order in which their windows opened (comment at _pending),
\* up to the same stall: so under pressure the entry that waited longest goes.
OldestWindowFirst ==
    \A i, j \in DOMAIN pending :
        i < j => pending[i].settling_since <= pending[j].settling_since + StallBound
===============================================================================
