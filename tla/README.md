# A TLA+ model of the EDR agent

This directory specifies the agent of this repository (`agent.py`, `services/`) in
TLA+: what its components promise, how their threads interleave, what survives
failures, and which of its documented promises the code keeps. TLC checks small
instances; TLAPS proves the central invariants for every size.

Contents: [inventory](#the-system) · [modules](#the-modules) ·
[runs](#the-runs) · [fairness](#fairness) · [proofs](#what-is-proved) ·
[findings](#what-the-checks-found) · [limits](#what-is-not-modelled) ·
[plan](#plan).

## The system

The agent watches directories, waits until each changed file is quiet, hashes it, and
delivers one event about it to a server, at least once.

```
 watchdog ──observe──▶ SettleTracker ──due/flush──▶ SettleReleaser ──submit──▶ FileHasher
 (observer thread)      pending, ready              (own thread)     queue,     (own thread)
                             ▲                                       degraded       │
                             └───────────────── reintroduce ─────────────────────── ┤
                                                                                    │ callback
 server ◀──send_event── EventDispatcher ◀──peek/mark_sent── EventSpool ◀──enqueue───┘
                        (own thread)                        (SQLite)
 main thread: register, heartbeat loop, shutdown      recovery thread: directory coverage
```

| Component | State | Operations | Shared with | What is hard | What makes it correct |
|---|---|---|---|---|---|
| `SettleTracker` | ordered dict of waiting files, list of forced-out ones | `observe`, `due`, `flush`, `reintroduce` | observer, releaser, hasher threads | clock read before the lock; eviction under pressure; an entry put back meets a newer one | nothing is lost or counted twice; quiet means quiet; the ceiling bounds the wait; oldest window goes first |
| `SettleReleaser` | stop flag | pass, final drain | tracker, hasher | must stop after the observer and before the hasher | hands over everything |
| `FileHasher` | queue, degraded list, retries, deadline | `submit`, pass, drain, `reintroduce` | releaser, tracker, callback | bounded queue, bounded retries, a deadline in the middle of work | every entry ends as one event or one ERROR line |
| `FileMonitor` | threads, started flag | `stop`, `join` with one budget | all of the above | order of the stages; a budget that runs out | a clean join lost nothing |
| directory coverage | watches, identities, lost set, latch | recovery pass, coverage query | recovery, heartbeat, main threads | loss between two heartbeats, a latch consumed by a query | every loss reaches the server |
| `EventSpool` | SQLite rows, open transaction | `enqueue`, `peek_batch`, `mark_sent`, `record_attempt`, `close` | hasher and dispatcher, one connection | commits that fail halfway, crashes, eviction under the dispatcher | deleted only when sent, refused for good, or evicted |
| `EventDispatcher` | batch under way, backoff | send, react to each answer | spool, credentials | lost answers, a row that never succeeds | order kept, at least once, never stuck |
| `AgentCredentials` | key and secret, in memory and on disk | load, refresh, adopt, consume | heartbeat and dispatcher threads | writes that fail, files older than memory, crashes | the agent keeps a way to authenticate again; repairs on disk are picked up |
| `WireLedger`, `transport` | byte and message counters | record attempt / delivery, snapshot | all senders | snapshot and send are not atomic; late arrivals | delivered <= received <= attempted, live and as declared |
| agent identity | name, identity file and its temporary sibling | resolve, derive, freeze | the key, which the server issues for the name | crashes while freezing, renames, unreadable files | agent and key do not part |
| agent lifecycle | main's place, stop event, registration, threads it started | start, register, heartbeat loop, shutdown | everything | which error or answer ends what; when the spool may be closed; a lock without a timeout | no outage and no refusal ends it, and it obeys a stop |
| backoff | consecutive failures, per loop | record failure, record success | the three loops | a power that overflows | the count starts anew with each success |
| alarms, configuration, payload | small, sequential | | | | |

`PROJECT.json` lists them with their status, and every place where this code is hard
to test under "hazards".

## The modules

`OrderedDict` is the `collections.OrderedDict` of the tracker as a sequence of records:
lookup, removal, what an eviction takes and leaves, and the ways to split the dictionary
in released and kept entries.

**`SettleTracker`** is `services/settle_tracker.py` with its clock. Each method that uses
the time it read has two steps, `Enter...` (the clock is read) and the critical section,
because the code reads `self._clock()` before it takes `self._lock`; other threads run in
between. A thread's call is at most `StallBound` ticks on its way to the lock.
`held` holds what the releaser took out and the hasher has not reported, `evidence` is
the last instant any thread saw the path change (history), `reported` the
observations already reported (history). `obs` is the set of observation ids an entry
stands for; `observation_count` is its cardinality, so a double count would show as an
overlap. The variables `pending`, `ready` are the code's `_pending`, `_ready`.

**`FilePipeline`** is the whole way from an observation to the spool: observer, releaser,
hasher and main thread with a program counter each, and every list between them. It
leaves out the clock (any entry may be released by any pass, the deadline may pass at
any moment), so what it shows holds for all timings. One action is one critical section
or one call of the event callback:

| Action | Code |
|---|---|
| `Observe` | `SettleTracker.observe`, from the watchdog handler |
| `ReleaseDue`, `Flush`, `Submit` | `release_due_once`, `drain_for_shutdown` of the releaser, one `submit` per entry |
| `ProcessRetries`, `ProcessDegraded`, `TakeNext("degraded", ..)`, `NothingToHash` | `process_once` in its order |
| `EmitNext`, `ReportTaken` | one `_emit`: the callback accepts, or raises and the payload is kept or given up |
| `PutBack` | `_process` when the file changed: `tracker.reintroduce` |
| `BeginDrain`, `TakeNext("drain", ..)`, `DrainDegraded/Retries/Queue`, `HasherExit` | `FileHasher.drain_for_shutdown` |
| `Stop`, `JoinObserver`, `JoinReleaser`, `JoinHasher` | `FileMonitor.stop` and `join`, a stage each; a join whose budget is spent sets `overran` |

`cycles` of an entry is a history field: how many failed double checks the observation
with the most of them went through. **`EventLedger`** is the abstract specification of the pipeline: an
observation arrives and is settled at most once, by one event that reached the spool or was
given up. `FilePipeline` implements it (`SettledOnce`).

**`EventDelivery`** starts where the pipeline ends: `EventSpool`, the hasher's callback,
the dispatcher and the server. `disk` is what SQLite committed, `conn` what the one shared
connection sees with its open transaction, `faults` counts failed statements and commits,
lost answers and crashes and is bounded by `MaxFaults`. A method that fails leaves
its partial statements in `conn`, exactly as the code does, which raises
`EventSpoolError` and never rolls back; with `RollsBack = TRUE` SQLite may also give the
transaction up on its own. `batch` and `phase` are the local state of `_dispatch_batch`.
**`EventQueue`** is the abstract specification: a set of events on the disk, without connection, transactions,
ids and batches; what leaves it is settled, and a payload whose `enqueue` raised may be on it all the same. `EventDelivery`
implements it (`QueueKept`), unless `RollsBack`.

**`DirectoryCoverage`** is the part of `FileMonitor` that keeps the configured directories
under the observer, with the file system and watchdog around it. A directory has an
identity (`at` maps paths to identities); deleting, making, moving away and moving
back are steps of the environment, and an emitter dies only when the directory it
watches is gone, as watchdog's does: one that was moved is still watched, elsewhere.

| Action | Code |
|---|---|
| `BeginPass` | `recover_directories_once` up to the loop: `lost_directories`, the latch, unschedule, `unwatched_directories` |
| `SkipDirectory`, `ScheduleDirectory`, `ReadIdentity`, `EndPass` | one directory of the loop: it is not there, or `schedule` raises `OSError` although it is; or it is scheduled, and the file system may change before the identity read |
| `Assess` | `assess_monitoring` of a heartbeat: `covers_all_directories`, which empties the latch |
| `Deliver`, `HeartbeatFails` | the answer to that heartbeat |
| `Stop`, `StopObserver` | `stop`: `_recovery_stop` under the lock, then the observer |

`counted`, `unassessed` and `unheard` are history: which present losses were noticed, and which of
those no assessment, or no answered heartbeat, has carried yet.

**`AgentCredentials`** is the key and the enrollment secret, each in memory and in a
file, with the main thread (registration, heartbeats) and the dispatcher (events) that
share them. The lock protects the assignments only, so every file operation is a
step of its own: `refresh_from_disk` reads the two files before it takes the lock,
`adopt_agent_key` and `consume_enrollment_secret` touch the disk after they released it.

| Action | Code |
|---|---|
| `PresentKey`, `PresentSecret` | the two properties `register_agent_with_retry` reads for `build_auth_headers` |
| `RegisterEnrolls`, `RegisterAccepted`, `RegisterRefused`, `RegisterFails` | the answers: a new key (which may get lost), the old one is good, 401/403, anything else |
| `Adopt`, `WriteKey`, `ForgetSecret`, `OverwriteSecret`, `UnlinkSecret` | `_adopt_issued_credentials`: `adopt_agent_key`, then `consume_enrollment_secret` if the key was stored |
| `Send`, `SendAccepted`, `SendRefused`, `SendFails` | a heartbeat or an event; only main acts on a call to register again |
| `ReadKeyFile`, `ReadSecretFile`, `EndReload` | `refresh_from_disk` after a refusal, in either thread |
| `Restart`, `RevokeKey`, `ProvisionSecret` | the process, the operator |

Keys are numbers in the order they were issued; the server accepts the last one or, after
a revocation, none. A secret file is absent, good, or wiped: overwritten with NUL bytes
and not yet unlinked, which `_read_secret_file` takes for a secret, since
`strip` leaves NUL alone. What the server answers to a valid key next to such a secret is
not known from this code, so both answers are possible. `reused` is history: a key was
issued for a secret whose file was gone. The module is small enough to be checked without an `MC` module.

**`WireLedger`** is the ledger of bytes of one incarnation, with both threads that send, the
network and the server's count. `request` is what each thread is working on, `adrift` a request that its
sender gave up and the network still carries (one per thread).

| Action | Code |
|---|---|
| `Prepare` | `post_request` up to the headers: the snapshot they declare |
| `RecordAttempt` | `record_attempt`, then the body is on the wire |
| `Receive`, `ReceiveAdrift` | the server gets the body, in time or after its sender gave up |
| `RecordDelivery` | any answer at all: `record_delivery` comes before `handle_response` |
| `GiveUp` | timeout, broken connection or interrupt at any point of the request |

**`AgentIdentity`** is `resolve_agent_id` with each file operation as a step. A name is a host part and a
core, 0 for this machine's fingerprint and a new number for each random draw. `mishap` (the file was
lost, not readable or not writable) and `renamed` are history.

| Action | Code |
|---|---|
| `TakeConfigured`, `TakeFrozen`, `Derive` | the three sources, in their order; a file that cannot be read is taken for absent |
| `WriteTemporary`, `Replace`, `FreezeFails` | `_freeze_agent_id`: temporary file, `os.replace`, and its `OSError` branch |
| `Enroll` | the server issues the key for the name in the request |
| `Forget`, `Rename`, `LoseIdentityFile` | the process ends; what may happen to the machine between two runs |

**`AgentLifecycle`** composes both with `run_agent`, from the start of the process to its end and again. `main` is
the place of the main thread; `dispatcher`, `monitor` and `spool` what it started; `healthy` and `known`
the server. While the server is healthy it accepts what fits the key. While it is not, a request gets lost, is refused in
every way the code tells apart, or is accepted though it had no effect; and with `JunkAnswers`, what answers in its place may
send JSON the code does not expect (a list where a dict should be, an interval no wait can take, JSON nested too deep for the decoder),
which raises what no handler of the loops names. `bearable` says whether the interval the last answer asks for can be waited for.

| Action | Code |
|---|---|
| `StartProcess`, `StartFails`, `Resolve`, `OpenSpool`, `StartDispatcher`, `StartMonitor` | `run_agent` up to the registration, each with its failure |
| `CheckHealth`, `Registered`, `RegisterRefused`, `RegisterRejected`, `RetryWaited`, `StopRegistering` | `register_agent_with_retry`, at startup and out of the heartbeat loop |
| `RegisterJunk`, `BeatJunk`, `BeatUnbearable`, `DispatchJunk` | the answers nobody expects: `AttributeError`, `RecursionError` and `OverflowError` leave the loop, and main goes to its finally block, or the dispatcher thread dies |
| `Announce` | the startup event of an agent without a spool |
| `Beat`, `BeatAccepted`, `BeatUnknown`, `BeatFailed`, `BeatRejected`, `BeatWaited`, `StopBeating` | `heartbeat_loop` and its except branches |
| `StopMonitor`, `JoinMonitor`, `JoinDispatcher`, `CloseSpool`, `SayGoodbye`, `EndProcess` | the finally block of `run_agent` |
| `RequestShutdown`, `Interrupt`, `Kill` | SIGTERM; Ctrl+C in the body; the end without a finally, or Ctrl+C in it |
| `Dispatch`, `Dispatched`, `DispatchFailed`, `DispatchUnrecorded`, `DispatcherMovesOn` | `EventDispatcher.run` with its waits |
| `RecoveryBegins`, `RecoveryEnds` | a pass of the recovery thread, which holds `_coverage_lock`: `Beat` and `StopMonitor` wait for it |
| `Transfer`, `LateArrival` | the steps of the requests under way |

`Leave` is every way out of the body: it sets `cause` (history) and ends the loops with their
counters. `monitor = "orphan"` are the threads of a monitor whose `start` was broken off by an exception that is not
`FileMonitorError`: `run_agent` never gets the object, so nobody stops or joins them.
**`AgentService`** is the abstract specification: down, starting, collecting, stopping, and back, with
a justification for every end but a kill. `run_agent` implements it (`ServiceKept`). What justifies an end is that a stop was
requested, a payload refused for good, or the start failed, which are the code's own reasons; and an answer that nobody expects, which
is not, but which the code does not survive (see below).

`MC*` modules fix the sets for TLC. `*Proofs` modules hold the theorems. Definitions
marked "Mutant" are not part of a specification: each is a plausible bug that the
property named for it in `PROJECT.json` must catch.

## The runs

| Run | Bounds | Shows |
|---|---|---|
| `tracker` | 3 paths, room for 2, quiet = ceiling = 2 ticks, stall 1, 5 instants, 3 observations, 1 reintroduction | `ObservationConservation`, `CeilingBoundsTheWait`, `OldestWindowFirst`, `QuietMeansQuiet` |
| `pipeline` | 2 paths, room for 1 in tracker and in queue, 1 reintroduction, 2 delivery attempts, 2 observations | `NothingVanishes`, `CleanJoinEmptiesTheLists`, `RoundsArePaidFor`, refinement of `EventLedger` (`SettledOnce`), `EveryObservationIsSettled`, `StopEnds` |
| `pipeline_shutdown`, `pipeline_reintroduction` | the same with 3 observations | two promises of the code that it does not keep, see below |
| `delivery` | 3 events, room for 2, batches of 2, 2 attempts, 2 faults | `AcceptedIsNotLost`, `DuplicatesHaveACause`, `OldestFirst`, refinement of `EventQueue` (`QueueKept`), `EveryEventIsSettled` |
| `delivery_rollback` | the same, `RollsBack = TRUE` | a third one |
| `coverage` | 2 directories, 5 changes of the file system | `ActiveHidesNoLoss`, `ActiveMeansWatched`, `NothingStartsAfterStop`, `MissingDirectoryReturns` |
| `coverage_news` | the same | a fourth one |
| `credentials` | 3 keys, 2 faults (failed file operation, lost answer, crash), 2 repairs | `RecoverableUnlessReused`, `SecretIsPickedUp`, `KeyIsPickedUp` |
| `credentials_reuse` | the same | a fifth one |
| `lifecycle` | three setups: 1 start with 2 requests followed by the ledger; 3 starts with a fingerprint, and 2 without, on a machine without a place for the spool | `ClosedSpoolIsUnused`, `CadenceRecovers`, the bracket (`WireBracket`, `DeclaredWasReceived`, `ExcessWasCounted`), `KeepsItsName`, refinement of `AgentService` (`ServiceKept`), `StopIsObeyed`, `HealthyServerServes` |
| `lifecycle_overflow` | 1 start, largest exponent 2, 4 failures counted | a sixth one |

Why these bounds are enough. In the tracker a quiet period and a ceiling of two ticks let a
file that is touched at every tick meet the ceiling first, three paths in a room for two
make every order of eviction possible, and three observations let one path be
observed again while it is being read. In the pipeline a capacity of one makes both limits
overflow at once, and two observations are two entries of one path, or one of each. Three observations
of two paths, with the liveness properties, were checked too (three minutes); the safety
invariants are proved for every bound. In the delivery, two faults are enough for every pair "a transaction is left
open, then something else goes wrong"; three were checked too. In all of them the limits are small multiples of what
they bound, so every branch of the code is taken; TLC reports no action that never fires. In the coverage five changes let
a directory be replaced, and replaced again while the pass that recovers it is under way, and the
other one be lost meanwhile. Three keys let an agent that is enrolled be enrolled
again, twice; two faults are a lost answer and then a failed write, or a failed write and
then a crash; two repairs are a revocation and the secret that heals it. The two liveness
properties say nothing once the last key is issued. In the lifecycle a request more or a start more adds
no new pair of steps: two followed requests are one of each thread, or one of main that is given up
and arrives during the next; a second start meets the files, the key and the server's memory the
first one left, and with a fingerprint a third one meets what the second made of a mishap. Those starts have no spool,
and so neither dispatcher nor monitor, which end with the process and leave nothing to the next. One count
in `FailuresTracked` tells a heartbeat loop that failed from one that did not. The ledger, the
invariants of the composition and its refinement are proved for every size of all of these.

`lifecycle` counts fewer failures than the largest exponent, 1023, so that no delay overflows;
`lifecycle_overflow` makes the exponent small and counts past it, with answers that the code expects
(`JunkAnswers = FALSE`), so that it is the count that ends the agent. A server that changes its mind at any
moment stands for every sequence of failures up to there.

`coverage` sets `MayReturn = FALSE`: a directory that was moved away and whose loss was
noticed does not come back by itself. With `TRUE`, `ActiveHidesNoLoss` fails: the
directory is watched again without a recovery, so it stays in
`_reported_lost_directories`, and its next loss does not enter the latch. The hazard is
listed; the window is a directory moved away, noticed by a heartbeat, moved back before the next recovery
pass, and lost again. `ActiveMeansWatched` leaves out one case for the same reason, which
is true of the code: a directory replaced between `observer.schedule` and the read of its
identity is taken for watched until its emitter dies.

`QuietMeansQuiet` and `OldestWindowFirst` are stated with the slack `StallBound`. With
no slack at all both are false, for the reason named above: a caller that stalls
between its clock reading and the lock writes an older time over a younger one. The comment
at `_pending` (settle_tracker.py:152) and the docstring of `reintroduce` state them
without the slack; the run shows that the stall is the only price.

`CHECK_DEADLOCK FALSE` in `tracker`, `delivery*`, `coverage*` and `credentials_reuse`: there the clock, the
observations, the events or the changes end because they are bounded, and an agent that was
stopped does nothing more (in `credentials_reuse` nothing can stop; `credentials`, the same
model, checks it). The pipeline runs check deadlock, with `Terminated` as the one legal end; in the
lifecycle the server can always change.

## Fairness

`FilePipeline!Fairness`: weak fairness of each thread's steps, for the operating
system schedules threads that can run, and for main only once a stop was requested: nobody
is obliged to stop the agent. Strong fairness of "a pass releases path p" stands for the
clock, which this module leaves out: the ceiling releases every entry after
`max_wait_seconds`, as `CeilingBoundsTheWait` shows on the module with the clock. No
fairness is asked of the callback (it may fail for ever: payloads are then given up) or
of a file becoming stable (reintroductions are bounded, and observations are finite).

`EventDelivery!Fairness`: weak fairness of the dispatcher, and strong fairness of
"the server takes the event or refuses it for good": a server that is never reachable
settles nothing, and the docstring of `EventDispatcher` promises delivery only
then. Nothing is assumed of the hasher, of faults or of restarts.

`DirectoryCoverage!FairSpec`: weak fairness of the recovery thread, which loops on a
timer until `_recovery_stop` and takes a lock that others release; of watchdog noticing that a watched
directory is gone; of a heartbeat being answered or failing, for requests have a
timeout; and of `stop` going on to the observer. Strong fairness of scheduling each directory: a pass may fail to schedule one
that is there, but not every pass for ever. No line of the code makes it succeed, so `MissingDirectoryReturns` says that
the passes try often enough and in the right place; a directory whose permission is never given stays unwatched, and
without this assumption TLC finds the property violated. That a pass ends asks of the file system that `stat` and `schedule`
return. Nobody is obliged to stop, nor to make a directory.

`AgentCredentials!FairSpec`: weak fairness of the main thread, which never leaves its two
loops; strong fairness of "a registration gets an answer" and "a heartbeat gets an
answer", for a server that never answers repairs nothing. Nothing is
assumed of the dispatcher, of faults or of the operator.

`AgentLifecycle!FairSpec`: weak fairness of the main thread, whose requests, joins and timed waits end by their timeouts or when
the stop event is set. The coverage lock is the one thing it waits for without a timeout (file_monitor.py:675 and, in a
heartbeat, 846): a recovery pass holds it while it calls `isdir`, `schedule` and `stat`. Hence weak fairness of
`RecoveryEnds`, which asks of the file system that these calls return, and strong fairness of `Beat` and `StopMonitor`: the recovery
thread gives the lock back after each pass and does not ask for it before `recovery_poll_seconds` are over, so a
thread that waits for it gets it in one of these pauses. A pass that hangs for ever, on a network share that is gone for instance, keeps
main from its heartbeats and from its end; `StopIsObeyed` and `HealthyServerServes` do not speak of that case. SQLite calls and
the locks of spool, credentials, ledger and tracker, which are held over no call that waits, are taken to return as well.
Nothing is assumed of the dispatcher, nor of the end of the monitor's other threads, which main joins with a timeout; and nothing of
the server: `HealthyServerServes` speaks of runs in which it stays healthy from some point on.

## What is proved

`OrderedDictProofs` holds the lemmas about sequences of entries: which observations
a list stands for after an append, a cut, a removal, an eviction, a split; that these keep
the entries of a list apart (`Apart`: no two stand for the same observation); and that what they
leave is in the order it was (`Subsequence`).

`SettleTrackerProofs` proves, for any paths, limits, stall, and length of the clock:

* `TypeCorrect`: `Spec => []TypeOK`, with one entry per path and the bound `max_pending_files`.
* `ObservationsAreConserved`: `Spec => []ObservationConservation`. The invariant `ConservationInv` speaks of lists, where the
  property speaks of the set of entries: inside each list, between the lists, and against what
  was reported, no observation occurs twice (`CarriedOnce`). Only so does removing an entry remove its observations.
* `OldestWindowGoesFirst`, `WaitIsBounded`, `QuietIsQuiet`: one invariant, `TimeInv`, for the three.
  `Cadence` is what the releaser's loop and the stall give; `WindowOrder` is the order of the dictionary;
  `Timely` says that an entry is up to date with the evidence but for one stall. A caller that writes an old time is as late
  as its stall, which is where the slack comes from. For the ceiling, `OpenWindows` adds that the last
  pass left no entry whose ceiling had passed. A caller that read the clock before that pass and inserts after
  it would break this if it stalled for longer than the ceiling: hence the hypothesis
  `StallBound < MaxWaitSeconds`, a thread late by less than the sixty seconds of the default.

`FilePipelineProofs` proves, for every set of paths and all limits that satisfy
`PipelineAssumption`:

* `TypeCorrect`: `Spec => []TypeOK`, with the bounds of both capacities and the fact that
  the hasher holds an entry exactly while it is in one of its two reading states.
* `NothingVanishesAlways`: `Spec => []NothingVanishes`. The inductive invariant is
  `TypeOK /\ NothingVanishes` itself: each step either leaves the union of all lists as it
  was, or adds the one new observation to it. One lemma per step, which rests on the lemma about the list operation
  the step performs.
* `CleanJoin`: `Spec => []CleanJoinEmptiesTheLists`. It is not inductive: that the lists are
  empty at the end depends on the order in which they were emptied. `JoinInv` adds
  `JoinOrder` (while nothing overran, a stage that main has joined is dead and the later ones are not
  yet told to stop), `ReleaserDone` (a drained releaser leaves `released` empty and only
  put-back entries in the tracker) and `HasherDone` (which lists each phase of the drain
  has emptied, and that every payload left has its last chance, so none comes back to
  `retry`).
* `EverythingIsSettledOnce`: `Spec => SettledOnce`, the refinement of `EventLedger`. A step may settle an observation only
  if it was not settled, so `SettleInv` adds `NoneTwice`: the lists of all stages, what the
  hasher has in hand, and the settled ones are pairwise disjoint. Every lemma of a step gives both, what it keeps disjoint and the step of the ledger.
  `TheLedgerSettlesOnce` says what that refinement is worth: from `SettledOnce` alone, no observation is both reported and given up.
* `RoundsArePaid`: `Spec => []RoundsArePaidFor`, what is left of the promise that finding 2 refutes. An entry has failed the double
  check at most `max_reintroductions` times *for each observation it stands for*, so none circulates for ever. `PaidEntry` is the
  inductive form, `cycles <= MaxReintroductions * (|obs| - 1) + reintroduction_count`: an absorbed entry loses its count, and its
  observations bring as much. That its observations are different ones, which the sum needs, is `NoneTwice` from the
  refinement. Every lemma about lists is stated for lists over any set, so `PaidEntry` goes through all of them.

`EventDeliveryProofs` proves, for every set of events and all limits that satisfy
`DeliveryAssumption`:

* `TypeCorrect`: `Spec => []TypeOK`, with or without rollbacks. `TypeInv` adds what makes it
  inductive: the bound holds of the committed rows too (a restart makes them the
  connection's), and in both views ids are unique and none is above the last one given out.
* `AtLeastOnce`: `~RollsBack => Spec => []AcceptedIsNotLost`. `AcceptedIsNotLost` speaks of the
  disk, but a commit replaces the disk by the connection's view, so `LossInv` asks the
  same of both (`Holds`). That `mark_sent` deletes nothing else needs
  `BatchIsCurrent`: a row of the batch has an id that was given out, and no other event has it. New
  rows keep it because their ids are larger than any id so far (`Follows`, the lemma about what
  `enqueue` may do); a rollback breaks it, which is finding 3. `Told`: by the time
  of `mark_sent` the server has processed or refused the event.
* `OrderIsKept`: `~RollsBack => (Spec => OldestFirst)`. `OrderInv`: rows and batch are in the order of their ids, and
  the batch is the front of the queue (`BatchIsFront`) although the hasher inserts and evicts meanwhile. A rollback brings
  rows back that an uncommitted eviction had taken out, older than those being sent: TLC finds `OldestFirst` violated with
  `RollsBack = TRUE`, so the hypothesis is needed here as well. That ids grow along the rows (`Sorted`) holds in any case.
* `DuplicatesArePaidFor`: `Spec => []DuplicatesHaveACause`, rollbacks included. A fault does not make a duplicate at once: it leaves
  behind something that may become one. `CopyInv` counts all of it against the faults: the duplicates so far; the rows, in either view
  or in the batch, whose event the server has already or for which an older row stands (`Useless`); and the payloads whose `enqueue`
  failed, which may come again (`Retried`). `Paid` says that these sets together have no more elements than `faults`, and one more
  while a delivered row waits to be marked (`Owed`); each lemma of a step shows that an element that appears replaces one that
  goes, or comes with a fault. `FreshIsNew` keeps the first attempt of a payload free of charge.
* `ImplementsTheQueue`: `~RollsBack => (Spec => QueueKept)`, the refinement of `EventQueue`. A commit is one step of the queue, whatever it
  makes durable at once: `Keeps` says what the next commit may take off the disk (settled events only), and `GivenUpIsKnown`
  that everything in it was offered. With `RollsBack = TRUE` TLC finds it violated, for the reason of finding 3.
  `TheQueueIsAtLeastOnce`: from `QueueKept` alone follows `AcceptedIsNotLost`, so the queue is an abstraction that keeps the promise.

`AgentCredentialsProofs` proves, for any number of keys, faults and repairs:

* `TypeCorrect`: `Spec => []TypeOK`.
* `RecoverableAlways`: `Spec => []RecoverableUnlessReused`. Alone it is not inductive: that
  consuming the secret is safe depends on what happened to the key before. `IssuedKeyIsCarried`
  (from the answer to the write main carries the key the server accepts) and
  `StoredKeyIsAccepted` (from the write to the end of `consume` the file holds it) fill the gap. Both
  hold because only main obtains keys and writes files; the dispatcher, whose reloads
  disturb memory, cannot touch them (`DispatcherIsSafe`).

`DirectoryCoverageProofs` proves, for any finite set of directories and any number of changes:

* `TypeCorrect`: `Spec => []TypeOK`. What makes it inductive is `PassInv`: what a pass still has to do is
  listed as unwatched, once, and one directory is scheduled at a time.
* `StopIsFinal`: `Spec => []NothingStartsAfterStop`, from `StopOrder` (no pass is busy once stop was called).
* `NoLossIsHidden`: `MayReturn = FALSE => (Spec => ActiveHidesNoLoss)`. `LatchInv`: a known loss was counted, and what no
  assessment has seen is in the latch. A directory that comes back by itself is known and not
  counted, which is the case the hypothesis excludes.
* `ActiveIsWatched`: `Spec => ActiveMeansWatched`, from the agreement of the maps.

`WireLedgerProofs` proves `Bracket` for bodies of any length. The bracket itself is not
inductive: a request that arrives needs room for everything that is still on the wire
(`RoomForTheWire`), an answer needs its request to be received before (`RoomForAnswers`), and headers are never
ahead of the ledger they were copied from (`HeadersAreOld`).

`AgentLifecycleProofs` proves, for any machines, starts, requests and counts:

* `TypeCorrect`, and `AgentBracket`: every step of the agent is a step of a sender, leaves the ledger
  alone, or ends the process and the ledger (`LedgerFollows`), so the ledger's invariant carries over. So do the two halves of
  METRICS.md 7.2 as the server sees them, `DeclaredLowerBound` and `DeclaredUpperBound`, on the headers of every request
  that is on the wire in any of the agent's threads.
* `SpoolClosing`: `Spec => []ClosedSpoolIsUnused`, from `ShutdownOrder`: what each join found out stays
  true until the process ends.
* `CadenceAlwaysRecovers`: `Spec => []CadenceRecovers`.
* `NameIsKept`: `Spec => []KeepsItsName`. `NameInv` has a part for each source of the name: a
  configured one rules, a derived one is stable without a rename, and without a mishap a
  key exists only for the name in the file (`FrozenNameRules`).
* `ServiceIsKept`: `CountsFitAFloat => (Spec => ServiceKept)`, the refinement of `AgentService`.
  `WayOfMain` lists the ways a step may take main and what it owes for it; each is a step of the service. Answers that nobody
  expects are among the reasons it allows.
* `NamedReasonsOnly`: without such answers (`~JunkAnswers`) that reason never occurs, so the reasons the code names are all.
* `OnlyTheDocumentedWaysOut`: `CountsFitAFloat /\ ~JunkAnswers => (Spec => OnlyWayOut)`, the docstring of
  `register_agent_with_retry`. Both hypotheses are needed: `lifecycle_overflow` violates the formula without the first, and without
  the second TLC finds `RegisterJunk` after a few steps.

The assumptions used are the ones named in the modules. Every invariant, action property and refinement that a passing run
checks is the statement of a theorem, some under a hypothesis named above. Only model-checked are the liveness
properties: temporal properties under fairness, like ENABLED, are out of the prover's reach.

## What the checks found

1. **A changed file can be lost at shutdown** (`pipeline_shutdown`). `process_once` puts a
   file that changed while it was read back into the tracker (file_hasher.py:510). If the
   releaser has already flushed, nobody empties the tracker again: `join` returns
   `True` and the file is neither reported nor logged. The docstring of `join`
   promises "ordinea care nu pierde evenimente" (file_monitor.py:681); `_process` itself notes that at
   shutdown nobody is left to resume the wait (file_hasher.py:499), but only the drain acts
   on it.
2. **The bound on reintroductions can be passed** (`pipeline_reintroduction`).
   `reintroduce` keeps the count of the entry it puts back and forgets that of the
   entry it absorbs (settle_tracker.py:327). With two entries of one path in flight, the
   observations of the absorbed one start again from a smaller count, against
   settle_tracker.py:294. What remains is `RoundsArePaidFor`: no entry goes round more often than `max_reintroductions` times for each
   observation it stands for.
3. **An event can be deleted that was never sent** (`delivery_rollback`). After a failed
   statement or commit the transaction stays open and its rows are visible to the
   dispatcher. If SQLite then gives the transaction up, the id of the row that is being sent is
   given to the next event and `mark_sent` deletes that one, against
   event_spool.py:17. Without such a rollback `AcceptedIsNotLost` holds: an open
   transaction is only an early view of rows that the next commit makes durable.

4. **A loss can go unreported** (`coverage_news`). `covers_all_directories` empties
   the latch when it answers (file_monitor.py:851), not when the server has the answer. If that
   heartbeat fails and the directory is recovered before the next one, the server only
   hears "active". The docstring of the query promises that a loss reaches the server
   however short it is. What does hold is `ActiveHidesNoLoss`: no loss is skipped by the
   assessments.

5. **A consumed secret can come back** (`credentials_reuse`). `refresh_from_disk` reads the
   files before it takes the lock (agent_credentials.py:163). If the dispatcher has read the
   secret and main consumes it before the dispatcher merges, memory holds the secret
   again. The next re-registration presents it, the server issues a new key and drops the old one, and
   until the new one is on disk, which may fail, the disk holds no way back. The docstring of
   `_adopt_issued_credentials` calls this order "singura care ține agentul recuperabil"
   (agent.py:465), AUTH.md:64 says that a re-registration has no secret any more. With no such reuse
   the agent is always recoverable, which is proved.

6. **A long outage ends the agent** (`lifecycle_overflow`). `compute_backoff_delay` computes
   `multiplier ** consecutive_failures` before it caps the delay (backoff.py:129): the 1025th failure in a row is
   an `OverflowError` inside an except clause, which leaves `register_agent_with_retry` or the heartbeat
   loop and stops the agent, against agent.py:515. At the cap of 60 s that takes some 17
   hours. In the dispatcher it ends the thread, against the comment at agent.py:244.

7. **An answer can end the agent.** `parse_json_response` passes on any JSON (transport.py:195). A list or `null` in answer to a
   registration raises `AttributeError` at agent.py:610, in answer to a heartbeat, or as its directive, at agent.py:808-809; an
   interval such as `1e300` passes `_is_usable_heartbeat_interval` and makes `stop_event.wait` raise `OverflowError` (agent.py:861), a
   whole number beyond the floats already `float` above it; JSON nested deeper than the decoder goes raises
   `RecursionError`, which is no `ValueError`, in answer to any request. None of these is a `TransportError`, so each goes to the
   `except Exception` of `run_agent` (agent.py:1128) and stops the agent, monitor and spool with it, against the docstring at
   agent.py:515; agent.py:695 itself calls this channel an untrusted input. The dispatcher
   looks at no answer, so only the last one reaches it, and ends its thread: the fairness of the dispatcher
   that `EventDelivery` assumes is that of a thread that lives. `lifecycle` takes all these steps (`JunkAnswers = TRUE`) and shows that
   the agent still goes through its finally block as it should; `ServiceKept` names the reason.

More that the models show of the code as it is, without a run of its own:

* The declared totals may lag by more than METRICS.md §7.3 tolerates ("3 messages in flight"): the headers of
  a heartbeat that stalls are as old as everything the dispatcher sent meanwhile. The lower bound never breaks
  (`DeclaredWasReceived`).
* If spooling the startup event fails, the finally block joins a dispatcher that was never started;
  `join` raises `RuntimeError` out of `run_agent`, and the shutdown event is not sent (`dispatcher = "unstarted"`).
* An exception inside `FileMonitor.start` other than `FileMonitorError`, Ctrl+C included, leaves threads that
  nobody stops, and the spool is closed under them (`monitor = "orphan"`, the exception in `ClosedSpoolIsUnused`).
* A file that cannot be read for a moment makes `resolve_agent_id` derive a name and freeze it over the old
  one. On a machine without a fingerprint a failed write gives a new random name at each start; once
  enrolled, the key fits none of them, where the log speaks of a duplicate registration only.
* The shutdown event is sent only by an agent that registered, and may overtake spooled events.

Two more things the credentials model shows, of the code as it is. A reload adopts any key
it reads. If an issued key could not be written and lives in memory only, the refusal of one
dispatcher request that still carried the old key makes `refresh_from_disk` put the older
key of the file in its place, though its docstring gives the protection of the memory-only
key as its reason (agent_credentials.py:149). And in the heartbeat loop a provisioned secret has no effect until
the server asks for a registration or the agent restarts: heartbeats present the key
alone. `SecretIsPickedUp` is therefore stated for an agent that registers.

What an overrun can strand: `join` counts a stage as stopped if it is dead when all joins
have returned, even if it ended only after its own join gave up. Its entries may
have reached a stage that had drained already. `CleanJoinEmptiesTheLists` is therefore
stated for joins in which no stage overran (`~overran`).

## What is not modelled

Paths, hashes, timestamps, wording and the content of payloads; the double stat of `hash_file`
(its outcome is a free choice in `FilePipeline`: stable, changed, or unreadable); exceptions inside a pass of
the releaser or hasher other than those of
the callback; corrupt rows in the spool, which no code path writes; loss of committed
transactions in a power failure (`synchronous=NORMAL`), which belongs to SQLite; the length of delays, the
cadence the server dictates, and the alarms of `auth_alarm`, which decide on log lines only; the channels of the
wire ledger, whose reconciliation compares totals. So is what a key is made of: an `agent_key` in an answer that no HTTP header
can carry is adopted all the same (`agent_credentials.py` checks what it reads from files only), and the next request would raise
`UnicodeEncodeError`; the models know keys that are good or not. The payload builder, the configuration and the system
information are pure or run once, and unit tests reach them.

## Plan

Done: the seven specifications above, three abstract ones, and the proofs listed. Left, the most useful first:

1. `HashFile`: what the double stat of `hash_file` detects of a writer that runs at the same time (the same size and
   mtime after a write, a rename between stat and open), and whether the last content of a file is reported in the end
   when it is composed with the tracker.
2. The pipeline and the delivery as one system: `EventLedger` hands its events to `EventQueue`, whose `Put` is the callback of the
   hasher. Both abstractions are there and proved to be kept; their composition would state end to end that an observation is
   logged as dropped, or reaches the server, or is evicted.
