----------------------------- MODULE AgentLifecycle -----------------------------
(***************************************************************************)
(* run_agent: the main thread from the start of the process to its end,    *)
(* with the dispatcher and the file monitor it starts and stops.  Every    *)
(* POST of main and of the dispatcher goes through the wire ledger; every  *)
(* start resolves the agent's name.                                        *)
(*                                                                         *)
(* The server is healthy or not, and changes at any time.  While it is     *)
(* healthy it accepts what fits the key.  While it is not, a request may   *)
(* get lost, be refused in every way the code tells apart, be accepted     *)
(* though it had no effect, and, if JunkAnswers, be answered with JSON the *)
(* code does not expect and no handler catches.  No key is ever false.     *)
(*                                                                         *)
(* The process may be asked to stop, interrupted, or killed.  Timed waits  *)
(* end at any time; the coverage lock of the monitor has no timeout, and   *)
(* main waits for it as long as a recovery pass holds it.                  *)
(***************************************************************************)
EXTENDS WireLedger, AgentIdentity, FiniteSets

CONSTANTS
    MaxExponent,      \* largest n with multiplier ** n a float: 1023 in the code
    JunkAnswers,      \* whether an unhealthy server may answer what no handler expects
    FailuresTracked,  \* bounds of the model: consecutive failures told apart, per loop
    Setups            \* machines, each with the bounds of the model for its runs:
                      \* requests the ledger follows, starts of the process,
                      \* whether the machine has a place for the spool

\* The loops that count failures for their delay, each with its own controller.
Loop == {"registration", "heartbeat", "dispatcher"}

ASSUME LifecycleAssumption ==
    /\ MaxExponent \in Nat /\ JunkAnswers \in BOOLEAN
    /\ FailuresTracked \in [Loop -> Nat]
    /\ Setups \subseteq [machine : Machine, requests : Nat, starts : Nat, storage : BOOLEAN]

VARIABLES
    main,        \* where the main thread is
    stop_event,  \* the event all loops look at
    registered,  \* register_agent_with_retry returned True in run_agent
    producers_stopped,  \* finally: nobody was found alive who uses the spool
    cause,       \* history: why main leaves the body of run_agent
    retries,     \* consecutive failures of the registration under way
    failures,    \* consecutive failures of the heartbeat loop
    dispatcher,  \* the dispatcher thread
    bearable,    \* stop_event.wait can take the interval the last answer asks for
    undelivered, \* consecutive failures of the dispatcher
    monitor,     \* the file monitor's threads; "recovering": one holds _coverage_lock
    spool,       \* the event spool's connection
    healthy,     \* the server answers, and accepts what fits
    known,       \* the server has this agent in its store
    budget

control == <<main, stop_event, registered, producers_stopped, cause>>
loops == <<retries, failures, bearable>>
backoff == <<loops, undelivered>>
resources == <<dispatcher, monitor, spool>>
server == <<healthy, known>>
vars == <<wireVars, identityVars, control, backoff, resources, server, budget>>

Process ==   \* the state of a process that does not run
    /\ main = "down" /\ stop_event = FALSE /\ registered = FALSE
    /\ producers_stopped = TRUE /\ cause = "none"
    /\ retries = 0 /\ failures = 0 /\ bearable = TRUE /\ undelivered = 0
    /\ dispatcher = "none" /\ monitor = "none" /\ spool = "none"

Init ==
    /\ WireInit /\ Process
    /\ \E setup \in Setups :
        /\ IdentityInit(setup.machine)
        /\ budget = [requests |-> setup.requests, starts |-> setup.starts,
                     storage |-> setup.storage]
    /\ healthy \in BOOLEAN /\ known = FALSE

Start == {"identity", "spool", "enqueue", "monitor"}
Registration == {"register", "registering", "retry", "announce", "announcing"}
Heartbeat == {"heartbeat", "beating", "delay", "interval"}
Body == Start \cup Registration \cup Heartbeat
Finally == {"stop", "join_monitor", "join_dispatcher", "close", "goodbye", "farewell"}

Go(from, to) == main = from /\ main' = to

\* Leaving the body of run_agent for its finally block; the loops and their counters
\* end with it.
Leave(why) ==
    /\ main' = "stop" /\ cause' = why
    /\ retries' = 0 /\ failures' = 0 /\ bearable' = TRUE

-----------------------------------------------------------------------------
(* One POST of a thread.  The ledger follows the first budget.requests of a run. *)

Begin(s) ==
    IF budget.requests > 0
    THEN /\ \E n \in Sizes : Prepare(s, n)
         /\ budget' = [budget EXCEPT !.requests = @ - 1]
    ELSE UNCHANGED <<wireVars, budget>>

Followed(s) == request[s].at # "idle"

\* post_request returns with an answer of the server, or raises without one.
Answered(s) == IF Followed(s) THEN RecordDelivery(s) ELSE UNCHANGED wireVars
Unanswered(s) ==
    IF Followed(s)
    THEN request[s].at \in {"sent", "received"} /\ GiveUp(s)
    ELSE UNCHANGED wireVars

Failed(s) == ~healthy /\ (Answered(s) \/ Unanswered(s))

Transfer(s) ==
    /\ RecordAttempt(s) \/ Receive(s)
    /\ UNCHANGED <<identityVars, control, backoff, resources, server, budget>>

LateArrival ==
    /\ \E s \in Sender : ReceiveAdrift(s)
    /\ UNCHANGED <<identityVars, control, backoff, resources, server, budget>>

\* An answer that raises what no except clause of the loops names: JSON nested too
\* deep for the decoder (RecursionError), a list or null where the code calls get or
\* keys (AttributeError).
JunkAnswered(s) == JunkAnswers /\ ~healthy /\ Answered(s)

\* The intervals a heartbeat's answer may ask for: positive, but perhaps larger than a
\* wait can take (OverflowError).
Intervals == IF JunkAnswers /\ ~healthy THEN BOOLEAN ELSE {TRUE}

\* HeartbeatBackoffController.record_failure raises OverflowError when the power
\* does not fit a float, before the delay is capped.
Overflows(consecutive) == consecutive > MaxExponent
OneMore(consecutive, loop) ==
    IF consecutive < FailuresTracked[loop] THEN consecutive + 1 ELSE consecutive

-----------------------------------------------------------------------------
(* The start of run_agent *)

StartProcess ==
    /\ Go("down", "identity")
    /\ budget.starts > 0 /\ budget' = [budget EXCEPT !.starts = @ - 1]
    /\ UNCHANGED <<wireVars, identityVars, stop_event, registered, producers_stopped, cause,
                   backoff, resources, server>>

\* load_config, collect_system_info or what follows them raises.
StartFails ==
    /\ main = "identity" /\ resolving = "start" /\ Leave("failed_start")
    /\ UNCHANGED <<wireVars, identityVars, stop_event, registered, producers_stopped,
                   undelivered, resources, server, budget>>

Resolve ==
    /\ main = "identity" /\ ResolveStep
    /\ main' = IF resolving' = "done" THEN "spool" ELSE "identity"
    /\ UNCHANGED <<wireVars, stop_event, registered, producers_stopped, cause, backoff, resources, server,
                   budget>>

\* Without a spool the agent goes on, without monitor and dispatcher; but the OSError
\* of a directory that cannot be made is no EventSpoolError.
OpenSpool ==
    /\ main = "spool"
    /\ \/ budget.storage /\ main' = "enqueue" /\ spool' = "open" /\ UNCHANGED <<cause, loops>>
       \/ main' = "register" /\ UNCHANGED <<spool, cause, loops>>
       \/ Leave("failed_start") /\ UNCHANGED spool
    /\ UNCHANGED <<wireVars, identityVars, stop_event, registered, producers_stopped,
                   undelivered, dispatcher, monitor, server, budget>>

\* The startup event is spooled, then the dispatcher starts; EventSpoolError ends it.
StartDispatcher ==
    /\ main = "enqueue"
    /\ \/ main' = "monitor" /\ dispatcher' = "looping" /\ UNCHANGED <<cause, loops>>
       \/ Leave("failed_start") /\ dispatcher' = "unstarted"
    /\ UNCHANGED <<wireVars, identityVars, stop_event, registered, producers_stopped,
                   undelivered, monitor, spool, server, budget>>

\* start_file_monitoring: FileMonitorError leaves the agent without a monitor, any
\* other exception ends it, and those threads that were started go on as orphans:
\* run_agent never learns of the monitor they belong to.
StartMonitor ==
    /\ main = "monitor"
    /\ \/ main' = "register" /\ monitor' = "running" /\ UNCHANGED <<cause, loops>>
       \/ main' = "register" /\ UNCHANGED <<monitor, cause, loops>>
       \/ Leave("failed_start") /\ monitor' \in {"none", "orphan"}
    /\ UNCHANGED <<wireVars, identityVars, stop_event, registered, producers_stopped,
                   undelivered, dispatcher, spool, server, budget>>

-----------------------------------------------------------------------------
(* register_agent_with_retry.  When it returns False run_agent skips the heartbeats, and
   heartbeat_loop breaks or returns. *)

\* What an except branch of the loop does: count the failure, wait for the delay.
RetryLater ==
    IF Overflows(retries)
    THEN Leave("overflow")
    ELSE /\ main' = "retry" /\ retries' = OneMore(retries, "registration")
         /\ UNCHANGED <<cause, failures, bearable>>

StopRegistering ==
    /\ main = "register" /\ stop_event
    /\ Leave("stopped")
    /\ UNCHANGED <<wireVars, identityVars, stop_event, registered, producers_stopped,
                   undelivered, resources, server, budget>>

\* check_server_health, which is no POST, and then the registration is sent.
CheckHealth ==
    /\ main = "register" /\ ~stop_event
    /\ \/ main' = "registering" /\ Begin("main")
          /\ UNCHANGED <<cause, loops>>
       \/ ~healthy /\ RetryLater /\ UNCHANGED <<wireVars, budget>>
       \/ ~healthy /\ Leave("fatal") /\ UNCHANGED <<wireVars, budget>>
       \/ JunkAnswers /\ ~healthy /\ Leave("junk") /\ UNCHANGED <<wireVars, budget>>
    /\ UNCHANGED <<identityVars, stop_event, registered, producers_stopped, undelivered,
                   resources, server>>

\* Where an accepted registration leads: at startup to the heartbeats, without a spool
\* by way of the startup event; in the heartbeat loop to its wait.
AfterRegistration ==
    IF registered THEN "interval" ELSE IF spool = "none" THEN "announce" ELSE "heartbeat"

\* The server takes the agent in, with the key it has or with a new one; or something
\* in its place says so.
TakenIn ==
    /\ Answered("main")
    /\ \/ NameFitsKey /\ known' = TRUE /\ Enroll
       \/ ~healthy /\ UNCHANGED <<known, identityVars>>

\* Mutant: the re-registration leaves the failures of the heartbeat loop standing.
RegisterStillDegraded ==
    /\ Go("registering", AfterRegistration) /\ TakenIn
    /\ registered' = TRUE
    /\ retries' = 0
    /\ UNCHANGED <<stop_event, producers_stopped, cause, failures, bearable, undelivered,
                   resources, healthy, budget>>

\* Accepted.  In the heartbeat loop both ways to re-register end in
\* backoff.record_success and the wait for the interval.
Registered ==
    /\ Go("registering", AfterRegistration) /\ TakenIn
    /\ registered' = TRUE
    /\ retries' = 0 /\ failures' = 0
    /\ UNCHANGED <<stop_event, producers_stopped, cause, bearable, undelivered, resources,
                   healthy, budget>>

\* Mutant: a refused key ends the loop, as a payload refused for good does.
RegisterRefusedFatally ==
    /\ main = "registering"
    /\ Failed("main") \/ (~NameFitsKey /\ Answered("main"))
    /\ Leave("refused")
    /\ UNCHANGED <<identityVars, stop_event, registered, producers_stopped, undelivered,
                   resources, server, budget>>

\* 401, 403 and 409, whose alarms change no state here, 404, 5xx, no answer.
RegisterRefused ==
    /\ main = "registering"
    /\ Failed("main") \/ (~NameFitsKey /\ Answered("main"))
    /\ RetryLater
    /\ UNCHANGED <<identityVars, stop_event, registered, producers_stopped, undelivered,
                   resources, server, budget>>

\* An answer of which the loop cannot make anything, at startup and in the heartbeat
\* loop: the exception leaves run_agent's try, and nobody tries again.
RegisterJunk ==
    /\ main \in {"registering", "announcing"} /\ JunkAnswered("main")
    /\ Leave("junk")
    /\ UNCHANGED <<identityVars, stop_event, registered, producers_stopped, undelivered,
                   resources, server, budget>>

\* FatalTransportError: the payload will never be accepted.
RegisterRejected ==
    /\ main = "registering" /\ ~healthy /\ Answered("main")
    /\ Leave("fatal")
    /\ UNCHANGED <<identityVars, stop_event, registered, producers_stopped, undelivered,
                   resources, server, budget>>

RetryWaited ==
    /\ Go("retry", "register")
    /\ UNCHANGED <<wireVars, identityVars, stop_event, registered, producers_stopped, cause,
                   backoff, resources, server, budget>>

\* Without a spool the startup event is sent directly, once, whatever comes back.
Announce ==
    /\ \/ Go("announce", "announcing") /\ Begin("main")
       \/ /\ Go("announcing", "heartbeat")
          /\ Answered("main") \/ Failed("main")
          /\ UNCHANGED budget
    /\ UNCHANGED <<identityVars, stop_event, registered, producers_stopped, cause, backoff,
                   resources, server>>

-----------------------------------------------------------------------------
(* heartbeat_loop *)

StopBeating ==
    /\ main = "heartbeat" /\ stop_event
    /\ Leave("stopped")
    /\ UNCHANGED <<wireVars, identityVars, stop_event, registered, producers_stopped,
                   undelivered, resources, server, budget>>

\* covers_all_directories, asked while all threads live, waits for a recovery pass.
Beat ==
    /\ Go("heartbeat", "beating") /\ ~stop_event
    /\ monitor # "recovering" \/ dispatcher = "dead"
    /\ Begin("main")
    /\ UNCHANGED <<identityVars, stop_event, registered, producers_stopped, cause, backoff,
                   resources, server>>

BeatAccepted ==
    /\ Go("beating", "interval") /\ ((NameFitsKey /\ known) \/ ~healthy)
    /\ Answered("main")
    /\ failures' = 0 /\ bearable' \in Intervals
    /\ UNCHANGED <<identityVars, stop_event, registered, producers_stopped, cause, retries,
                   undelivered, resources, server, budget>>

\* Mutant: the directive is taken for an accepted heartbeat.
BeatTakenAsAccepted ==
    /\ Go("beating", "interval") /\ (~known \/ ~healthy)
    /\ Answered("main")
    /\ retries' = 0 /\ failures' = 0 /\ bearable' = TRUE
    /\ UNCHANGED <<identityVars, stop_event, registered, producers_stopped, cause,
                   undelivered, resources, server, budget>>

\* The directive "reregister" of a server that does not know the agent, or a 404.  The
\* answer with the directive also asks for the interval after the registration.
BeatUnknown ==
    /\ Go("beating", "register") /\ (~known \/ ~healthy)
    /\ Answered("main")
    /\ retries' = 0 /\ bearable' \in Intervals
    /\ UNCHANGED <<identityVars, stop_event, registered, producers_stopped, cause, failures,
                   undelivered, resources, server, budget>>

\* 401 and 403, and every other failure that is not fatal.
BeatFailed ==
    /\ main = "beating"
    /\ Failed("main") \/ (~NameFitsKey /\ Answered("main"))
    /\ IF Overflows(failures)
       THEN Leave("overflow")
       ELSE /\ main' = "delay" /\ failures' = OneMore(failures, "heartbeat")
            /\ UNCHANGED <<cause, retries, bearable>>
    /\ UNCHANGED <<identityVars, stop_event, registered, producers_stopped, undelivered,
                   resources, server, budget>>

BeatRejected ==
    /\ main = "beating" /\ ~healthy /\ Answered("main")
    /\ Leave("fatal")
    /\ UNCHANGED <<identityVars, stop_event, registered, producers_stopped, undelivered,
                   resources, server, budget>>

\* No object, a directive that is none, or nothing the decoder gets to the end of.
BeatJunk ==
    /\ main = "beating" /\ JunkAnswered("main")
    /\ Leave("junk")
    /\ UNCHANGED <<identityVars, stop_event, registered, producers_stopped, undelivered,
                   resources, server, budget>>

\* stop_event.wait ends by its timeout, or at once when the event is set, whatever the
\* timeout is then.
BeatWaited ==
    /\ Go("delay", "heartbeat") \/ (Go("interval", "heartbeat") /\ (bearable \/ stop_event))
    /\ bearable' = TRUE
    /\ UNCHANGED <<wireVars, identityVars, stop_event, registered, producers_stopped, cause,
                   retries, failures, undelivered, resources, server, budget>>

\* Otherwise it raises OverflowError when the timeout is more than it can count.
BeatUnbearable ==
    /\ main = "interval" /\ ~bearable /\ ~stop_event
    /\ Leave("junk")
    /\ UNCHANGED <<wireVars, identityVars, stop_event, registered, producers_stopped,
                   undelivered, resources, server, budget>>

-----------------------------------------------------------------------------
(* The finally block of run_agent *)

\* stop waits for the recovery pass under way, without a timeout.
StopMonitor ==
    /\ Go("stop", "join_monitor") /\ monitor # "recovering"
    /\ stop_event' = TRUE /\ cause' = "none"
    /\ monitor' = IF monitor = "running" THEN "draining" ELSE monitor
    /\ UNCHANGED <<wireVars, identityVars, registered, producers_stopped, backoff,
                   dispatcher, spool, server, budget>>

\* Mutant: the answer of join is not looked at.
JoinMonitorBlindly ==
    /\ Go("join_monitor", "join_dispatcher")
    /\ UNCHANGED <<wireVars, identityVars, stop_event, registered, producers_stopped, cause,
                   backoff, resources, server, budget>>

\* join(timeout=5) returns, with all threads of the monitor ended or not.
JoinMonitor ==
    /\ Go("join_monitor", "join_dispatcher")
    /\ producers_stopped' = (monitor \in {"none", "orphan", "dead"})
    /\ UNCHANGED <<wireVars, identityVars, stop_event, registered, cause, backoff,
                   resources, server, budget>>

\* Mutant: the dispatcher is joined without a timeout.
JoinDispatcherForEver ==
    /\ Go("join_dispatcher", "close") /\ dispatcher \in {"none", "dead"}
    /\ UNCHANGED <<wireVars, identityVars, stop_event, registered, producers_stopped, cause,
                   backoff, resources, server, budget>>

\* join(timeout=5) of the dispatcher, which cannot be had before it was started.
JoinDispatcher ==
    /\ Go("join_dispatcher", "close") /\ dispatcher # "unstarted"
    /\ producers_stopped' = (producers_stopped /\ dispatcher \in {"none", "dead"})
    /\ UNCHANGED <<wireVars, identityVars, stop_event, registered, cause, backoff,
                   resources, server, budget>>

\* The spool is closed only when nobody uses it any more.
CloseSpool ==
    /\ Go("close", "goodbye")
    /\ spool' = IF spool = "open" /\ producers_stopped THEN "closed" ELSE spool
    /\ UNCHANGED <<wireVars, identityVars, stop_event, registered, producers_stopped, cause,
                   backoff, dispatcher, monitor, server, budget>>

SayGoodbye ==
    /\ Go("goodbye", "farewell") /\ registered
    /\ Begin("main")
    /\ UNCHANGED <<identityVars, stop_event, registered, producers_stopped, cause, backoff,
                   resources, server>>

\* The process is gone, and its threads (daemons) and its ledger with it.
Halt ==
    /\ main' = "down" /\ stop_event' = FALSE /\ registered' = FALSE
    /\ producers_stopped' = TRUE /\ cause' = "none"
    /\ retries' = 0 /\ failures' = 0 /\ bearable' = TRUE /\ undelivered' = 0
    /\ dispatcher' = "none" /\ monitor' = "none" /\ spool' = "none"
    /\ Forget
    /\ attempted' = 0 /\ delivered' = 0 /\ received' = 0
    /\ request' = [s \in Sender |-> NoRequest] /\ adrift' = [s \in Sender |-> NoRequest]
    /\ UNCHANGED <<server, budget>>

CanAnswer(s) == Followed(s) => request[s].at = "received"
CanFail(s) == ~healthy /\ (Followed(s) => request[s].at # "headed")

\* run_agent returns; join on a dispatcher that was never started raises instead.
EndProcess ==
    /\ \/ main = "goodbye" /\ ~registered
       \/ main = "farewell" /\ (CanAnswer("main") \/ CanFail("main"))
       \/ main = "join_dispatcher" /\ dispatcher = "unstarted"
    /\ Halt

-----------------------------------------------------------------------------
(* Signals, and the other threads *)

\* SIGTERM.
RequestShutdown ==
    /\ main # "down" /\ ~stop_event /\ stop_event' = TRUE
    /\ UNCHANGED <<wireVars, identityVars, main, registered, producers_stopped, cause,
                   backoff, resources, server, budget>>

\* Ctrl+C in the body of run_agent, wherever main is: also between what starts a
\* thread and what would wait for it.
Interrupt ==
    /\ main \in Body /\ Leave("stopped") /\ stop_event' = TRUE
    /\ IF Followed("main") THEN GiveUp("main") ELSE UNCHANGED wireVars
    /\ dispatcher' \in IF main = "enqueue" THEN {"none", "unstarted", "looping"} ELSE {dispatcher}
    /\ monitor' \in IF main = "monitor" THEN {"none", "orphan"} ELSE {monitor}
    /\ UNCHANGED <<identityVars, registered, producers_stopped, undelivered, spool,
                   server, budget>>

\* The process is killed, or Ctrl+C meets the finally block.
Kill == main # "down" /\ Halt

DispatcherGoes(from, to) == dispatcher = from /\ dispatcher' = to

Dispatch ==
    /\ DispatcherGoes("looping", "sending") /\ ~stop_event
    /\ Begin("dispatcher")
    /\ UNCHANGED <<identityVars, control, backoff, monitor, spool, server>>

\* Delivered, or refused for good and dropped.
Dispatched ==
    /\ DispatcherGoes("sending", "looping")
    /\ Answered("dispatcher")
    /\ \/ NameFitsKey /\ known /\ undelivered' = 0
       \/ ~healthy /\ undelivered' \in {0, undelivered}
    /\ UNCHANGED <<identityVars, control, loops, monitor, spool, server, budget>>

\* Any other outcome; an overflow of the delay ends the thread.
DispatchFailed ==
    /\ dispatcher = "sending"
    /\ Failed("dispatcher") \/ (~(NameFitsKey /\ known) /\ Answered("dispatcher"))
    /\ IF Overflows(undelivered)
       THEN dispatcher' = "dead" /\ UNCHANGED undelivered
       ELSE dispatcher' = "waiting" /\ undelivered' = OneMore(undelivered, "dispatcher")
    /\ UNCHANGED <<identityVars, control, loops, monitor, spool, server, budget>>

\* What send_event returns is only logged, so it takes JSON the decoder cannot finish.
DispatchJunk ==
    /\ DispatcherGoes("sending", "dead")
    /\ JunkAnswered("dispatcher")
    /\ UNCHANGED <<identityVars, control, backoff, monitor, spool, server, budget>>

\* EventSpoolError: run catches it, and waits without counting a failure.
DispatchUnrecorded ==
    /\ DispatcherGoes("sending", "waiting")
    /\ Answered("dispatcher") \/ Failed("dispatcher")
    /\ UNCHANGED <<identityVars, control, backoff, monitor, spool, server, budget>>

DispatcherMovesOn ==
    /\ DispatcherGoes("waiting", "looping") \/ (stop_event /\ DispatcherGoes("looping", "dead"))
    /\ UNCHANGED <<wireVars, identityVars, control, backoff, monitor, spool, server, budget>>

\* A pass of the recovery thread, from under the coverage lock to its end: the calls
\* of the file system and of watchdog in it have no timeout.
RecoveryBegins ==
    /\ monitor = "running" /\ monitor' = "recovering"
    /\ UNCHANGED <<wireVars, identityVars, control, backoff, dispatcher, spool, server, budget>>

RecoveryEnds ==
    /\ monitor = "recovering" /\ monitor' = "running"
    /\ UNCHANGED <<wireVars, identityVars, control, backoff, dispatcher, spool, server, budget>>

\* The last thread of the monitor ends, within join's budget or not.
MonitorEnds ==
    /\ monitor = "draining" /\ monitor' = "dead"
    /\ UNCHANGED <<wireVars, identityVars, control, backoff, dispatcher, spool, server, budget>>

-----------------------------------------------------------------------------
(* The server and the machine *)

\* It may forget the agents it knew (its store is volatile), and may have taken in
\* a registration whose answer got lost.
ServerChanges ==
    /\ healthy' = ~healthy /\ known' \in BOOLEAN
    /\ UNCHANGED <<wireVars, identityVars, control, backoff, resources, budget>>

\* What happens to the machine matters to a later start only, and before the agent
\* left anything on it this would be another machine: it happens between two runs.
MachineChanges ==
    /\ main = "down" /\ budget.starts > 0
    /\ identityFile # Nobody \/ keyOwner # Nobody
    /\ Rename \/ LoseIdentityFile
    /\ UNCHANGED <<wireVars, control, backoff, resources, server, budget>>

-----------------------------------------------------------------------------
StartStep ==
    /\ main \in Start
    /\ StartFails \/ Resolve \/ OpenSpool \/ StartDispatcher \/ StartMonitor

RegistrationStep ==
    /\ main \in Registration
    /\ \/ StopRegistering \/ CheckHealth \/ Registered \/ RegisterRefused \/ RegisterRejected
       \/ RegisterJunk \/ RetryWaited \/ Announce

HeartbeatStep ==
    /\ main \in Heartbeat
    /\ \/ StopBeating \/ Beat \/ BeatAccepted \/ BeatUnknown \/ BeatFailed \/ BeatRejected
       \/ BeatJunk \/ BeatWaited \/ BeatUnbearable

FinallyStep ==
    /\ main \in Finally
    /\ StopMonitor \/ JoinMonitor \/ JoinDispatcher \/ CloseSpool \/ SayGoodbye \/ EndProcess

MainStep == StartStep \/ RegistrationStep \/ HeartbeatStep \/ FinallyStep \/ Transfer("main")

DispatcherStep ==
    \/ Dispatch \/ Dispatched \/ DispatchFailed \/ DispatchJunk \/ DispatchUnrecorded
    \/ DispatcherMovesOn \/ Transfer("dispatcher")

Next ==
    \/ StartProcess \/ MainStep \/ DispatcherStep
    \/ RecoveryBegins \/ RecoveryEnds \/ MonitorEnds
    \/ RequestShutdown \/ Interrupt \/ Kill
    \/ LateArrival \/ ServerChanges \/ MachineChanges

Spec == Init /\ [][Next]_vars

\* The main thread keeps running: its requests, joins and timed waits end by
\* themselves.  A recovery pass ends, which asks of the file system that its calls
\* return; and main gets the lock in one of the pauses the recovery thread makes
\* between two passes, recovery_poll_seconds in which it does not hold it.
FairSpec ==
    /\ Spec
    /\ WF_vars(MainStep) /\ WF_vars(RecoveryEnds)
    /\ SF_vars(Beat) /\ SF_vars(StopMonitor)

-----------------------------------------------------------------------------
TypeOK ==
    /\ WireTypeOK /\ IdentityTypeOK
    /\ main \in {"down"} \cup Body \cup Finally
    /\ {stop_event, registered, producers_stopped, bearable, healthy, known} \subseteq BOOLEAN
    /\ cause \in {"none", "stopped", "fatal", "failed_start", "junk", "overflow"}
    /\ retries \in 0..FailuresTracked["registration"]
    /\ failures \in 0..FailuresTracked["heartbeat"]
    /\ undelivered \in 0..FailuresTracked["dispatcher"]
    /\ dispatcher \in {"none", "unstarted", "looping", "sending", "waiting", "dead"}
    /\ monitor \in {"none", "running", "recovering", "orphan", "draining", "dead"}
    /\ spool \in {"none", "open", "closed"}
    /\ budget \in [requests : Nat, starts : Nat, storage : BOOLEAN]
    /\ (main = "stop" <=> cause # "none")

\* agent.py closes the spool only when no thread uses it: the one that could still
\* enqueue or send would get ProgrammingError for everything it has left.  Threads
\* of a monitor whose start was broken off are the exception: nobody knows of them.
ClosedSpoolIsUnused ==
    spool = "closed" =>
        /\ monitor \in {"none", "orphan", "dead"}
        /\ dispatcher \in {"none", "dead"}

\* Whichever way the heartbeat loop got back in touch with the server, the answer
\* to a heartbeat or one of the two ways to re-register, its cadence is normal.
CadenceRecovers == main = "interval" => failures = 0

Phase ==
    CASE main = "down" -> "down"
      [] main \in Start -> "starting"
      [] main \in Finally -> "stopping"
      [] OTHER -> "collecting"

\* The first three are the code's own reasons.  The fourth is none it knows of, but what
\* it does: an answer with JSON that nobody expects ends the agent.
Justified ==
    main # "down" /\ (stop_event \/ cause \in {"stopped", "fatal", "failed_start", "junk"})

\* run_agent implements the abstract service: a server that is away or refuses, a lost
\* registration, a spool or a monitor that cannot be had do not end it, however long
\* and in whatever order they come.  Not implied, and not true: that an answer cannot.
Service == INSTANCE AgentService WITH phase <- Phase, justified <- Justified
ServiceKept == Service!Spec

\* register_agent_with_retry, docstring: the only ways out of its loop are a
\* payload rejected for good and a requested stop.
OnlyWayOut ==
    [][(main \in {"register", "registering", "retry"} /\ main' = "stop")
           => (stop_event' \/ cause' = "fatal")]_vars

\* Asked to stop, the agent ends, whatever the server and the dispatcher do and however
\* long the monitor drains, as long as no recovery pass holds the coverage lock for ever.
StopIsObeyed == stop_event ~> main = "down"

\* Once the server stays healthy, an agent that runs gets registered and known
\* there, unless its name does not fit its key; as long as no recovery pass holds the
\* coverage lock for ever, for the heartbeat asks for it.
HealthyServerServes ==
    <>[]healthy => []<>(main = "down" \/ ~NameFitsKey \/ (registered /\ known))
===============================================================================
