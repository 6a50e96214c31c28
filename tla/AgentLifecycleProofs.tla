------------------------- MODULE AgentLifecycleProofs -------------------------
(***************************************************************************)
(* Proofs about the composed agent: its types and the wire bracket, who    *)
(* may use the spool when it is closed, the cadence after an outage, the   *)
(* name, and that run_agent implements AgentService.  They hold for any    *)
(* machines, any number of starts and followed requests, and any counts of *)
(* failures; those about the ways out ask that the counts fit a float, two *)
(* of them also that every answer is one the code expects.                 *)
(***************************************************************************)
EXTENDS AgentLifecycle, WireLedgerProofs

(* The wire ledger inside the agent *)

\* What any step of the agent is for the ledger.
LedgerStep ==
    \/ \E s \in Sender : WireStep(s)
    \/ UNCHANGED wireVars
    \/ /\ attempted' = 0 /\ delivered' = 0 /\ received' = 0
       /\ request' = [s \in Sender |-> NoRequest] /\ adrift' = [s \in Sender |-> NoRequest]

\* A POST is followed by the ledger or leaves it alone.
LEMMA PostSteps ==
    ASSUME NEW s \in Sender
    PROVE  /\ Begin(s) => LedgerStep
           /\ Answered(s) => LedgerStep
           /\ Failed(s) => LedgerStep
           /\ JunkAnswered(s) => LedgerStep
BY DEF Begin, Answered, Unanswered, Failed, JunkAnswered, LedgerStep, WireStep

LEMMA TransferSteps ==
    ASSUME NEW s \in Sender, Transfer(s)
    PROVE  LedgerStep
BY DEF Transfer, LedgerStep, WireStep

LEMMA MainLedger == MainStep => LedgerStep
<1> SUFFICES ASSUME MainStep PROVE LedgerStep
  OBVIOUS
<1>0. "main" \in Sender
  BY DEF Sender
<1>1. CASE StartStep
  BY <1>1 DEF StartStep, StartFails, Resolve, OpenSpool, StartDispatcher, StartMonitor, LedgerStep
<1>2. CASE RegistrationStep
  <2>1. CASE StopRegistering \/ RetryWaited
    BY <2>1 DEF StopRegistering, RetryWaited, LedgerStep
  <2>2. CASE CheckHealth
    BY <2>2, <1>0, PostSteps DEF CheckHealth, LedgerStep
  <2>3. CASE Registered \/ RegisterRefused \/ RegisterRejected \/ RegisterJunk
    BY <2>3, <1>0, PostSteps
       DEF Registered, TakenIn, RegisterRefused, RegisterRejected, RegisterJunk
  <2>4. CASE Announce
    BY <2>4, <1>0, PostSteps DEF Announce
  <2> QED
    BY <1>2, <2>1, <2>2, <2>3, <2>4 DEF RegistrationStep
<1>3. CASE HeartbeatStep
  <2>1. CASE StopBeating \/ BeatWaited \/ BeatUnbearable
    BY <2>1 DEF StopBeating, BeatWaited, BeatUnbearable, LedgerStep
  <2>2. CASE Beat \/ BeatAccepted \/ BeatUnknown \/ BeatFailed \/ BeatRejected \/ BeatJunk
    BY <2>2, <1>0, PostSteps
       DEF Beat, BeatAccepted, BeatUnknown, BeatFailed, BeatRejected, BeatJunk
  <2> QED
    BY <1>3, <2>1, <2>2 DEF HeartbeatStep
<1>4. CASE FinallyStep
  <2>1. CASE StopMonitor \/ JoinMonitor \/ JoinDispatcher \/ CloseSpool
    BY <2>1 DEF StopMonitor, JoinMonitor, JoinDispatcher, CloseSpool, LedgerStep
  <2>2. CASE SayGoodbye
    BY <2>2, <1>0, PostSteps DEF SayGoodbye
  <2>3. CASE EndProcess
    BY <2>3 DEF EndProcess, Halt, LedgerStep
  <2> QED
    BY <1>4, <2>1, <2>2, <2>3 DEF FinallyStep
<1>5. CASE Transfer("main")
  BY <1>5, <1>0, TransferSteps
<1> QED
  BY <1>1, <1>2, <1>3, <1>4, <1>5 DEF MainStep

LEMMA DispatcherLedger == DispatcherStep => LedgerStep
<1> SUFFICES ASSUME DispatcherStep PROVE LedgerStep
  OBVIOUS
<1>0. "dispatcher" \in Sender
  BY DEF Sender
<1>1. CASE Dispatch \/ Dispatched \/ DispatchFailed \/ DispatchJunk \/ DispatchUnrecorded
  BY <1>0, <1>1, PostSteps
     DEF Dispatch, Dispatched, DispatchFailed, DispatchJunk, DispatchUnrecorded
<1>2. CASE DispatcherMovesOn
  BY <1>2 DEF DispatcherMovesOn, LedgerStep
<1>3. CASE Transfer("dispatcher")
  BY <1>0, <1>3, TransferSteps
<1> QED
  BY <1>1, <1>2, <1>3 DEF DispatcherStep

\* Every step of the agent is a step of a sender, leaves the ledger alone, or ends
\* the process and its ledger.
LEMMA LedgerFollows ==
    ASSUME [Next]_vars
    PROVE  LedgerStep
<1>1. CASE MainStep
  BY <1>1, MainLedger
<1>2. CASE DispatcherStep
  BY <1>2, DispatcherLedger
<1>3. CASE StartProcess \/ RecoveryBegins \/ RecoveryEnds \/ MonitorEnds \/ RequestShutdown
             \/ ServerChanges \/ MachineChanges
  BY <1>3 DEF StartProcess, RecoveryBegins, RecoveryEnds, MonitorEnds, RequestShutdown,
              ServerChanges, MachineChanges, LedgerStep
<1>4. CASE Interrupt
  <2>1. "main" \in Sender
    BY DEF Sender
  <2> QED
    BY <1>4, <2>1 DEF Interrupt, LedgerStep, WireStep
<1>5. CASE Kill
  BY <1>5 DEF Kill, Halt, LedgerStep
<1>6. CASE LateArrival
  BY <1>6 DEF LateArrival, LedgerStep, WireStep
<1>7. CASE UNCHANGED vars
  BY <1>7 DEF vars, LedgerStep
<1> QED
  BY <1>1, <1>2, <1>3, <1>4, <1>5, <1>6, <1>7 DEF Next

\* The ledger's invariant survives every step of the agent.
LEMMA WireInvKept ==
    ASSUME WireInv, [Next]_vars
    PROVE  WireInv'
<1>1. LedgerStep
  BY LedgerFollows
<1>2. CASE \E s \in Sender : WireStep(s)
  BY <1>2, WireInvStep
<1>3. CASE UNCHANGED wireVars
  BY <1>3, WireInvStutter
<1>4. CASE /\ attempted' = 0 /\ delivered' = 0 /\ received' = 0
           /\ request' = [s \in Sender |-> NoRequest]
           /\ adrift' = [s \in Sender |-> NoRequest]
  <2>1. NoRequest \in Request
    BY DEF NoRequest, Request
  <2> QED
    BY <1>4, <2>1 DEF WireInv, WireTypeOK, RoomForTheWire, RoomForAnswers, Carried, Awaited,
                      HeadersAreOld, NoRequest, Sender
<1> QED
  BY <1>1, <1>2, <1>3, <1>4 DEF LedgerStep

\* The ledger's invariant holds for the whole agent, through every registration,
\* heartbeat, event, interrupt and restart, not only for two senders on their own.
LEMMA WireInvAlways == Spec => []WireInv
<1>1. Init => WireInv
  BY WireInitial DEF Init
<1>2. WireInv /\ [Next]_vars => WireInv'
  BY WireInvKept
<1> QED
  BY <1>1, <1>2, PTL DEF Spec

\* The bracket of METRICS.md 7.2 on the live counters: what the agent knows to be
\* delivered was received, what was received had been counted before it left.
THEOREM AgentBracket == Spec => []WireBracket
BY WireInvAlways, WireInvImplies, PTL

\* The lower bound of METRICS.md 7.2 on the figures a request declares, whichever
\* requests the agent has under way or gave up on, and in whatever order they arrive.
THEOREM DeclaredLowerBound == Spec => []DeclaredWasReceived
BY WireInvAlways, WireInvImplies, PTL

\* The upper bound of METRICS.md 7.2: the excess over a declared total was counted
\* by the agent after the headers were made, through interrupts and restarts.
THEOREM DeclaredUpperBound == Spec => []ExcessWasCounted
BY WireInvAlways, WireInvImplies, PTL

-----------------------------------------------------------------------------
(* Types *)

\* The steps that touch the name, with what they know of main.
NameStep ==
    \/ main = "identity" /\ ResolveStep
       /\ main' = IF resolving' = "done" THEN "spool" ELSE "identity"
    \/ main = "registering" /\ Enroll /\ main' \in {"announce", "heartbeat", "interval"}
    \/ Forget /\ main' = "down"
    \/ main = "down" /\ main' = "down" /\ (Rename \/ LoseIdentityFile)
    \/ UNCHANGED identityVars
       /\ main' \in {main, "stop"} \cup Finally
                      \cup (IF main = "down" THEN {"identity"} ELSE {})
                      \cup (IF main \in Body \ {"identity"} THEN Body \ {"identity"} ELSE {})

\* Every step of the agent resolves the name at the start, enrolls it, forgets it at
\* the end, happens to the machine in between, or leaves it alone.
LEMMA NameFollows ==
    ASSUME [Next]_vars
    PROVE  NameStep
<1> USE DEF NameStep, Body, Start, Registration, Heartbeat, Finally, Go, Leave
<1>1. CASE StartProcess
  BY <1>1 DEF StartProcess
<1>2. CASE StartStep
  BY <1>2 DEF StartStep, StartFails, Resolve, OpenSpool, StartDispatcher, StartMonitor
<1>3. CASE RegistrationStep
  <2>1. CASE StopRegistering \/ CheckHealth \/ RegisterRefused \/ RetryWaited
    BY <2>1 DEF StopRegistering, CheckHealth, RegisterRefused, RetryWaited, RetryLater
  <2>2. CASE Registered
    BY <2>2 DEF Registered, TakenIn, AfterRegistration
  <2>3. CASE RegisterRejected \/ RegisterJunk \/ Announce
    BY <2>3 DEF RegisterRejected, RegisterJunk, Announce
  <2> QED
    BY <1>3, <2>1, <2>2, <2>3 DEF RegistrationStep
<1>4. CASE HeartbeatStep
  BY <1>4 DEF HeartbeatStep, StopBeating, Beat, BeatAccepted, BeatUnknown, BeatFailed,
              BeatRejected, BeatJunk, BeatWaited, BeatUnbearable
<1>5. CASE FinallyStep
  BY <1>5 DEF FinallyStep, StopMonitor, JoinMonitor, JoinDispatcher, CloseSpool, SayGoodbye,
              EndProcess, Halt
<1>6. CASE \E s \in Sender : Transfer(s)
  BY <1>6 DEF Transfer, control
<1>7. CASE DispatcherStep
  BY <1>6, <1>7 DEF DispatcherStep, Dispatch, Dispatched, DispatchFailed, DispatchJunk,
                    DispatchUnrecorded, DispatcherMovesOn, control, Sender
<1>8. CASE RecoveryBegins \/ RecoveryEnds \/ MonitorEnds \/ RequestShutdown \/ Interrupt
             \/ LateArrival \/ ServerChanges
  BY <1>8 DEF RecoveryBegins, RecoveryEnds, MonitorEnds, RequestShutdown, Interrupt,
              LateArrival, ServerChanges, control
<1>9. CASE Kill \/ MachineChanges
  BY <1>9 DEF Kill, Halt, MachineChanges, control
<1>10. CASE UNCHANGED vars
  BY <1>10 DEF vars, control
<1> QED
  BY <1>1, <1>2, <1>3, <1>4, <1>5, <1>6, <1>7, <1>8, <1>9, <1>10 DEF Next, MainStep, Sender

\* Whatever happens to the name, it stays a name.
LEMMA IdentityTypes ==
    ASSUME IdentityTypeOK, NameStep
    PROVE  IdentityTypeOK'
<1> USE DEF IdentityTypeOK, Name, machine, Nobody, Truncated
<1>1. CASE TakeConfigured \/ TakeFrozen
  BY <1>1 DEF TakeConfigured, TakeFrozen
<1>2. CASE Derive
  BY <1>2 DEF Derive
<1>3. CASE WriteTemporary \/ Replace \/ FreezeFails
  BY <1>3 DEF WriteTemporary, Replace, FreezeFails
<1>4. CASE Enroll \/ Forget
  BY <1>4 DEF Enroll, Forget
<1>5. CASE Rename \/ LoseIdentityFile
  BY <1>5 DEF Rename, LoseIdentityFile
<1>6. CASE UNCHANGED identityVars
  BY <1>6 DEF identityVars
<1> QED
  BY <1>1, <1>2, <1>3, <1>4, <1>5, <1>6 DEF NameStep, ResolveStep

\* The types of everything but the ledger and the name.
ControlTypeOK ==
    /\ main \in {"down"} \cup Body \cup Finally
    /\ {stop_event, registered, producers_stopped, bearable, healthy, known} \subseteq BOOLEAN
    /\ cause \in {"none", "stopped", "fatal", "failed_start", "junk", "overflow"}
    /\ retries \in 0..FailuresTracked["registration"]
    /\ failures \in 0..FailuresTracked["heartbeat"]
    /\ undelivered \in 0..FailuresTracked["dispatcher"]
    /\ dispatcher \in {"none", "unstarted", "looping", "sending", "waiting", "dead"}
    /\ monitor \in {"none", "running", "recovering", "orphan", "draining", "dead"}
    /\ spool \in {"none", "open", "closed"}
    /\ budget \in [requests : Nat, starts : Nat, storage : BOOLEAN]
    /\ (main = "stop" <=> cause # "none")

\* A failure more is still in the bounds of its loop.
LEMMA OneMoreTypes ==
    ASSUME NEW l \in Loop, NEW n \in 0..FailuresTracked[l]
    PROVE  OneMore(n, l) \in 0..FailuresTracked[l]
<1>1. FailuresTracked[l] \in Nat
  BY LifecycleAssumption
<1> QED
  BY <1>1 DEF OneMore

LEMMA BoundsAreNaturals ==
    /\ "registration" \in Loop /\ "heartbeat" \in Loop /\ "dispatcher" \in Loop
    /\ \A l \in Loop : FailuresTracked[l] \in Nat /\ 0 \in 0..FailuresTracked[l]
BY LifecycleAssumption DEF Loop

\* A POST takes at most one request from the budget.
LEMMA BeginTypes ==
    ASSUME ControlTypeOK, NEW s \in Sender, Begin(s)
    PROVE  budget' \in [requests : Nat, starts : Nat, storage : BOOLEAN]
BY DEF ControlTypeOK, Begin

LEMMA RetryLaterTypes ==
    ASSUME ControlTypeOK, main \in {"register", "registering"}, RetryLater
    PROVE  /\ retries' \in 0..FailuresTracked["registration"]
           /\ failures' \in 0..FailuresTracked["heartbeat"]
           /\ bearable' \in BOOLEAN
           /\ \/ main' = "retry" /\ cause' = "none"
              \/ main' = "stop" /\ cause' = "overflow"
<1> USE DEF ControlTypeOK, RetryLater, Leave
<1>1. cause = "none"
  OBVIOUS
<1>2. OneMore(retries, "registration") \in 0..FailuresTracked["registration"]
  BY BoundsAreNaturals, OneMoreTypes
<1> QED
  BY <1>1, <1>2, BoundsAreNaturals

LEMMA StartTypes ==
    ASSUME ControlTypeOK, StartStep
    PROVE  ControlTypeOK'
<1> USE BoundsAreNaturals DEF ControlTypeOK, Start, Body, Finally, Registration, Heartbeat, Leave, Go, server
<1>1. CASE StartFails
  BY <1>1 DEF StartFails, resources
<1>2. CASE Resolve
  BY <1>2 DEF Resolve, backoff, loops, resources
<1>3. CASE OpenSpool
  BY <1>3, ZenonT(60) DEF OpenSpool, loops
<1>4. CASE StartDispatcher
  BY <1>4 DEF StartDispatcher, loops
<1>5. CASE StartMonitor
  BY <1>5, ZenonT(60) DEF StartMonitor, loops
<1> QED
  BY <1>1, <1>2, <1>3, <1>4, <1>5 DEF StartStep

LEMMA RegistrationTypes ==
    ASSUME ControlTypeOK, RegistrationStep
    PROVE  ControlTypeOK'
<1>0. "main" \in Sender
  BY DEF Sender
<1> USE BoundsAreNaturals DEF ControlTypeOK, Start, Body, Finally, Registration, Heartbeat, Go,
                               server, resources, backoff, loops
<1>1. CASE StopRegistering
  BY <1>1 DEF StopRegistering, Leave
<1>2. CASE CheckHealth
  <2>1. CASE main' = "registering" /\ Begin("main") /\ UNCHANGED <<cause, loops>>
    <3>1. budget' \in [requests : Nat, starts : Nat, storage : BOOLEAN]
      BY <1>0, <2>1, BeginTypes
    <3> QED
      BY <1>2, <2>1, <3>1 DEF CheckHealth
  <2>2. CASE RetryLater /\ UNCHANGED <<wireVars, budget>>
    <3>1. main = "register"
      BY <1>2 DEF CheckHealth
    <3>2. /\ retries' \in 0..FailuresTracked["registration"]
          /\ failures' \in 0..FailuresTracked["heartbeat"]
          /\ bearable' \in BOOLEAN
          /\ \/ main' = "retry" /\ cause' = "none"
             \/ main' = "stop" /\ cause' = "overflow"
      BY <2>2, <3>1, RetryLaterTypes
    <3> QED
      BY <1>2, <2>2, <3>2 DEF CheckHealth
  <2>3. CASE (Leave("fatal") \/ Leave("junk")) /\ UNCHANGED <<wireVars, budget>>
    BY <1>2, <2>3, ZenonT(60) DEF CheckHealth, Leave
  <2> QED
    BY <1>2, <2>1, <2>2, <2>3 DEF CheckHealth
<1>3. CASE Registered
  BY <1>3 DEF Registered, TakenIn, AfterRegistration
<1>4. CASE RegisterRefused
  <2>1. main = "registering" /\ RetryLater
    BY <1>4 DEF RegisterRefused
  <2>2. /\ retries' \in 0..FailuresTracked["registration"]
        /\ failures' \in 0..FailuresTracked["heartbeat"]
        /\ bearable' \in BOOLEAN
        /\ \/ main' = "retry" /\ cause' = "none"
           \/ main' = "stop" /\ cause' = "overflow"
    BY <2>1, RetryLaterTypes
  <2> QED
    BY <1>4, <2>2 DEF RegisterRefused
<1>5. CASE RegisterRejected \/ RegisterJunk
  BY <1>5, ZenonT(60) DEF RegisterRejected, RegisterJunk, Leave
<1>6. CASE RetryWaited
  BY <1>6 DEF RetryWaited
<1>7. CASE Announce
  <2>1. budget' \in [requests : Nat, starts : Nat, storage : BOOLEAN]
    BY <1>0, <1>7, BeginTypes DEF Announce
  <2> QED
    BY <1>7, <2>1 DEF Announce
<1> QED
  BY <1>1, <1>2, <1>3, <1>4, <1>5, <1>6, <1>7 DEF RegistrationStep

LEMMA HeartbeatTypes ==
    ASSUME ControlTypeOK, HeartbeatStep
    PROVE  ControlTypeOK'
<1>0. "main" \in Sender
  BY DEF Sender
<1> USE BoundsAreNaturals DEF ControlTypeOK, Start, Body, Finally, Registration, Heartbeat, Go,
                               server, resources, backoff, loops
<1>1. CASE StopBeating
  BY <1>1 DEF StopBeating, Leave
<1>2. CASE Beat
  <2>1. budget' \in [requests : Nat, starts : Nat, storage : BOOLEAN]
    BY <1>0, <1>2, BeginTypes DEF Beat
  <2> QED
    BY <1>2, <2>1 DEF Beat
<1>3. CASE BeatAccepted
  BY <1>3 DEF BeatAccepted, Intervals
<1>4. CASE BeatUnknown
  BY <1>4 DEF BeatUnknown, Intervals
<1>5. CASE BeatFailed
  <2>1. OneMore(failures, "heartbeat") \in 0..FailuresTracked["heartbeat"]
    BY BoundsAreNaturals, OneMoreTypes
  <2> QED
    BY <1>5, <2>1 DEF BeatFailed, Leave
<1>6. CASE BeatRejected \/ BeatJunk \/ BeatUnbearable
  BY <1>6, ZenonT(60) DEF BeatRejected, BeatJunk, BeatUnbearable, Leave
<1>7. CASE BeatWaited
  BY <1>7 DEF BeatWaited
<1> QED
  BY <1>1, <1>2, <1>3, <1>4, <1>5, <1>6, <1>7 DEF HeartbeatStep

LEMMA HaltTypes ==
    ASSUME ControlTypeOK, Halt
    PROVE  ControlTypeOK'
BY BoundsAreNaturals DEF ControlTypeOK, Halt, server

LEMMA FinallyTypes ==
    ASSUME ControlTypeOK, FinallyStep
    PROVE  ControlTypeOK'
<1>0. "main" \in Sender
  BY DEF Sender
<1> USE DEF ControlTypeOK, Start, Body, Finally, Registration, Heartbeat, Go,
                               server, resources, backoff, loops
<1>1. CASE StopMonitor
  BY <1>1 DEF StopMonitor
<1>2. CASE JoinMonitor
  BY <1>2 DEF JoinMonitor
<1>3. CASE JoinDispatcher
  BY <1>3 DEF JoinDispatcher
<1>4. CASE CloseSpool
  BY <1>4 DEF CloseSpool
<1>5. CASE SayGoodbye
  <2>1. budget' \in [requests : Nat, starts : Nat, storage : BOOLEAN]
    BY <1>0, <1>5, BeginTypes DEF SayGoodbye
  <2> QED
    BY <1>5, <2>1 DEF SayGoodbye
<1>6. CASE EndProcess
  BY <1>6, HaltTypes DEF EndProcess
<1> QED
  BY <1>1, <1>2, <1>3, <1>4, <1>5, <1>6 DEF FinallyStep

LEMMA DispatcherTypes ==
    ASSUME ControlTypeOK, DispatcherStep
    PROVE  ControlTypeOK'
<1>0. "dispatcher" \in Sender
  BY DEF Sender
<1> USE BoundsAreNaturals DEF ControlTypeOK, DispatcherGoes, server, control, backoff, loops
<1>1. CASE Dispatch
  <2>1. budget' \in [requests : Nat, starts : Nat, storage : BOOLEAN]
    BY <1>0, <1>1, BeginTypes DEF Dispatch
  <2> QED
    BY <1>1, <2>1 DEF Dispatch
<1>2. CASE Dispatched
  BY <1>2 DEF Dispatched
<1>3. CASE DispatchFailed
  <2>1. OneMore(undelivered, "dispatcher") \in 0..FailuresTracked["dispatcher"]
    BY BoundsAreNaturals, OneMoreTypes
  <2> QED
    BY <1>3, <2>1 DEF DispatchFailed
<1>4. CASE DispatchJunk \/ DispatchUnrecorded
  BY <1>4 DEF DispatchJunk, DispatchUnrecorded
<1>5. CASE DispatcherMovesOn
  BY <1>5 DEF DispatcherMovesOn
<1>6. CASE Transfer("dispatcher")
  BY <1>6 DEF Transfer, resources
<1> QED
  BY <1>1, <1>2, <1>3, <1>4, <1>5, <1>6 DEF DispatcherStep

\* Every step of the agent keeps the types of its control state.
LEMMA ControlTypes ==
    ASSUME ControlTypeOK, [Next]_vars
    PROVE  ControlTypeOK'
<1>1. CASE StartProcess
  BY <1>1 DEF StartProcess, ControlTypeOK, Go, Body, Start, Finally, backoff, loops, resources,
              server
<1>2. CASE MainStep
  <2>1. CASE Transfer("main")
    BY <2>1 DEF Transfer, ControlTypeOK, control, backoff, loops, resources, server
  <2> QED
    BY <1>2, <2>1, StartTypes, RegistrationTypes, HeartbeatTypes, FinallyTypes DEF MainStep
<1>3. CASE DispatcherStep
  BY <1>3, DispatcherTypes
<1>4. CASE RecoveryBegins \/ RecoveryEnds \/ MonitorEnds \/ RequestShutdown \/ LateArrival
  BY <1>4, ZenonT(60)
     DEF RecoveryBegins, RecoveryEnds, MonitorEnds, RequestShutdown, LateArrival,
         ControlTypeOK, control, backoff, loops, resources, server
<1>5. CASE Interrupt
  BY <1>5, BoundsAreNaturals DEF Interrupt, ControlTypeOK, Leave, Body, Start, Registration,
                                 Heartbeat, Finally, server
<1>6. CASE Kill
  BY <1>6, HaltTypes DEF Kill
<1>7. CASE ServerChanges \/ MachineChanges
  BY <1>7, ZenonT(60)
     DEF ServerChanges, MachineChanges, ControlTypeOK, control, backoff, loops, resources, server
<1>8. CASE UNCHANGED vars
  BY <1>8 DEF vars, ControlTypeOK, control, backoff, loops, resources, server
<1> QED
  BY <1>1, <1>2, <1>3, <1>4, <1>5, <1>6, <1>7, <1>8 DEF Next

\* TypeOK is the types of the ledger, of the name, and of the rest.
LEMMA TypesTogether == TypeOK <=> WireTypeOK /\ IdentityTypeOK /\ ControlTypeOK
BY DEF TypeOK, ControlTypeOK

LEMMA InitialTypes == Init => IdentityTypeOK /\ ControlTypeOK
<1> SUFFICES ASSUME Init PROVE IdentityTypeOK /\ ControlTypeOK
  OBVIOUS
<1>1. PICK setup \in Setups :
        /\ IdentityInit(setup.machine)
        /\ budget = [requests |-> setup.requests, starts |-> setup.starts,
                     storage |-> setup.storage]
  BY DEF Init
<1>2. setup.machine \in Machine /\ setup.requests \in Nat /\ setup.starts \in Nat
      /\ setup.storage \in BOOLEAN
  BY LifecycleAssumption
<1>3. IdentityTypeOK
  BY <1>1, <1>2 DEF IdentityInit, IdentityTypeOK, Machine, Name
<1>4. budget \in [requests : Nat, starts : Nat, storage : BOOLEAN]
  BY <1>1, <1>2
<1>5. /\ main = "down" /\ cause = "none" /\ {stop_event, registered} = {FALSE}
      /\ producers_stopped = TRUE
      /\ retries = 0 /\ failures = 0 /\ bearable = TRUE /\ undelivered = 0
      /\ dispatcher = "none" /\ monitor = "none" /\ spool = "none"
      /\ healthy \in BOOLEAN /\ known = FALSE
  BY DEF Init, Process
<1>6. ControlTypeOK
  BY <1>4, <1>5, BoundsAreNaturals DEF ControlTypeOK
<1> QED
  BY <1>3, <1>6

\* Types of the whole agent: no counter passes its bound, main leaves its body with a
\* cause and only then, no file holds half a name.
THEOREM TypeCorrect == Spec => []TypeOK
<1> DEFINE Inv == WireInv /\ IdentityTypeOK /\ ControlTypeOK
<1>1. Init => Inv
  BY WireInitial, InitialTypes DEF Init
<1>2. Inv /\ [Next]_vars => Inv'
  BY WireInvKept, NameFollows, IdentityTypes, ControlTypes
<1>3. Inv => TypeOK
  BY TypesTogether DEF WireInv
<1> QED
  BY <1>1, <1>2, <1>3, PTL DEF Spec

-----------------------------------------------------------------------------
(* The spool and the cadence *)

\* What the end of the process has found out before it closes the spool.
ShutdownOrder ==
    /\ spool = "closed" => main \in {"goodbye", "farewell"} /\ producers_stopped
    /\ main \in {"join_dispatcher", "close", "goodbye", "farewell"} /\ producers_stopped
           => monitor \in {"none", "orphan", "dead"}
    /\ main \in {"close", "goodbye", "farewell"} /\ producers_stopped
           => dispatcher \in {"none", "dead"}

LEMMA ShutdownOrderMain ==
    ASSUME ShutdownOrder, CadenceRecovers, MainStep
    PROVE  ShutdownOrder' /\ CadenceRecovers'
<1> USE DEF ShutdownOrder, CadenceRecovers, Go, Leave
<1>1. CASE StartStep
  BY <1>1 DEF StartStep, Start, StartFails, Resolve, OpenSpool, StartDispatcher, StartMonitor,
              resources, backoff, loops
<1>2. CASE RegistrationStep
  BY <1>2 DEF RegistrationStep, Registration, StopRegistering, CheckHealth, RetryLater,
              Registered, TakenIn, AfterRegistration, RegisterRefused, RegisterRejected,
              RegisterJunk, RetryWaited, Announce, resources,
              backoff, loops
<1>3. CASE HeartbeatStep
  BY <1>3 DEF HeartbeatStep, Heartbeat, StopBeating, Beat, BeatAccepted, BeatUnknown,
              BeatFailed, BeatRejected, BeatJunk, BeatWaited, BeatUnbearable, resources,
              backoff, loops
<1>4. CASE FinallyStep
  <2>1. CASE StopMonitor
    BY <2>1 DEF StopMonitor
  <2>2. CASE JoinMonitor
    BY <2>2 DEF JoinMonitor, resources
  <2>3. CASE JoinDispatcher
    BY <2>3 DEF JoinDispatcher, resources
  <2>4. CASE CloseSpool
    BY <2>4 DEF CloseSpool
  <2>5. CASE SayGoodbye
    BY <2>5 DEF SayGoodbye, resources
  <2>6. CASE EndProcess
    BY <2>6 DEF EndProcess, Halt
  <2> QED
    BY <1>4, <2>1, <2>2, <2>3, <2>4, <2>5, <2>6 DEF FinallyStep
<1>5. CASE Transfer("main")
  BY <1>5 DEF Transfer, control, resources, backoff, loops
<1> QED
  BY <1>1, <1>2, <1>3, <1>4, <1>5 DEF MainStep

LEMMA ShutdownOrderOthers ==
    ASSUME ShutdownOrder, CadenceRecovers, ControlTypeOK, [Next]_vars, ~MainStep
    PROVE  ShutdownOrder' /\ CadenceRecovers'
<1> USE DEF ShutdownOrder, CadenceRecovers
<1>1. CASE StartProcess
  BY <1>1 DEF StartProcess, Go, resources, backoff, loops
<1>2. CASE DispatcherStep
  BY <1>2 DEF DispatcherStep, Dispatch, Dispatched, DispatchFailed, DispatchJunk,
              DispatchUnrecorded, DispatcherMovesOn, DispatcherGoes, Transfer, control,
              resources, backoff, loops
<1>3. CASE RecoveryBegins \/ RecoveryEnds \/ MonitorEnds \/ RequestShutdown \/ LateArrival
  BY <1>3 DEF RecoveryBegins, RecoveryEnds, MonitorEnds, RequestShutdown, LateArrival, control,
              resources, backoff, loops
<1>4. CASE Interrupt
  BY <1>4 DEF Interrupt, Leave, Body, Start, Registration, Heartbeat
<1>5. CASE Kill
  BY <1>5 DEF Kill, Halt
<1>6. CASE ServerChanges \/ MachineChanges
  BY <1>6 DEF ServerChanges, MachineChanges, control, resources, backoff, loops
<1>7. CASE UNCHANGED vars
  BY <1>7 DEF vars, control, resources, backoff, loops
<1> QED
  BY <1>1, <1>2, <1>3, <1>4, <1>5, <1>6, <1>7 DEF Next

\* Both hold in every state the agent reaches.
LEMMA ShutdownInvariant == Spec => [](ShutdownOrder /\ CadenceRecovers)
<1> DEFINE Inv == ControlTypeOK /\ ShutdownOrder /\ CadenceRecovers
<1>1. Init => Inv
  <2>1. Init => ShutdownOrder /\ CadenceRecovers
    BY DEF Init, Process, ShutdownOrder, CadenceRecovers
  <2> QED
    BY <2>1, InitialTypes
<1>2. Inv /\ [Next]_vars => Inv'
  BY ControlTypes, ShutdownOrderMain, ShutdownOrderOthers
<1> QED
  BY <1>1, <1>2, PTL DEF Spec

\* The spool is closed under nobody who is known to run_agent, at whatever point
\* the start failed, the body was interrupted, or a join ran out of time.
THEOREM SpoolClosing == Spec => []ClosedSpoolIsUnused
<1>1. ShutdownOrder => ClosedSpoolIsUnused
  BY DEF ShutdownOrder, ClosedSpoolIsUnused
<1> QED
  BY <1>1, ShutdownInvariant, PTL

\* Whichever way the heartbeat loop gets back in touch with the server, its cadence is
\* normal from there.
THEOREM CadenceAlwaysRecovers == Spec => []CadenceRecovers
BY ShutdownInvariant, PTL

-----------------------------------------------------------------------------
(* The name *)

\* Where main can be while the name is known: it is resolved before anything is sent.
NameIsInPlace ==
    /\ main \in {"down"} \cup Body \cup Finally
    /\ main = "down" => resolving = "start"
    /\ main \in Body \ {"identity"} => resolving = "done"

\* With agent_id in config.json no other name is ever used.
ConfiguredNameRules ==
    configured # Nobody =>
        /\ resolving \in {"start", "done"}
        /\ keyOwner \in {Nobody, configured}
        /\ resolving = "done" => agentId = configured

\* On a machine with a fingerprint that was never renamed, only one name can be derived.
DerivedNameIsStable ==
    configured = Nobody /\ fingerprinted /\ ~renamed =>
        /\ identityFile \in {Nobody, [host |-> hostname, core |-> 0]}
        /\ keyOwner \in {Nobody, [host |-> hostname, core |-> 0]}
        /\ resolving # "start" => agentId = [host |-> hostname, core |-> 0]

\* As long as nothing happened to the file, the key was issued for the name in it, and a
\* name is only derived while no key exists.
FrozenNameRules ==
    configured = Nobody /\ ~mishap =>
        /\ keyOwner \in {Nobody, identityFile}
        /\ resolving \in {"freeze", "replace"} => identityFile = Nobody
        /\ resolving = "done" => agentId = identityFile

NameInv == NameIsInPlace /\ ConfiguredNameRules /\ DerivedNameIsStable /\ FrozenNameRules

\* The four parts are kept by every step that concerns the name.
LEMMA NameInvKept ==
    ASSUME NameInv, IdentityTypeOK, NameStep
    PROVE  NameInv'
<1> USE DEF NameInv, NameIsInPlace, ConfiguredNameRules, DerivedNameIsStable, FrozenNameRules,
            Body, Start, Registration, Heartbeat, Finally, IdentityTypeOK
<1>1. CASE main = "identity" /\ ResolveStep
           /\ main' = IF resolving' = "done" THEN "spool" ELSE "identity"
  <2>1. CASE TakeConfigured
    BY <1>1, <2>1 DEF TakeConfigured, machine
  <2>2. CASE TakeFrozen
    BY <1>1, <2>2 DEF TakeFrozen, machine
  <2>3. CASE Derive
    BY <1>1, <2>3 DEF Derive, machine
  <2>4. CASE WriteTemporary
    BY <1>1, <2>4 DEF WriteTemporary, machine
  <2>5. CASE Replace
    BY <1>1, <2>5 DEF Replace, machine
  <2>6. CASE FreezeFails
    BY <1>1, <2>6 DEF FreezeFails, machine
  <2> QED
    BY <1>1, <2>1, <2>2, <2>3, <2>4, <2>5, <2>6 DEF ResolveStep
<1>2. CASE main = "registering" /\ Enroll /\ main' \in {"announce", "heartbeat", "interval"}
  BY <1>2 DEF Enroll, machine
<1>3. CASE Forget /\ main' = "down"
  BY <1>3 DEF Forget, machine
<1>4. CASE main = "down" /\ main' = "down" /\ (Rename \/ LoseIdentityFile)
  BY <1>4 DEF Rename, LoseIdentityFile, machine
<1>5. CASE UNCHANGED identityVars
           /\ main' \in {main, "stop"} \cup Finally
                          \cup (IF main = "down" THEN {"identity"} ELSE {})
                          \cup (IF main \in Body \ {"identity"} THEN Body \ {"identity"} ELSE {})
  BY <1>5 DEF identityVars
<1> QED
  BY <1>1, <1>2, <1>3, <1>4, <1>5 DEF NameStep

\* A rename alone never parts the agent from its key, nor does a lost or unwritable
\* identity file alone on a machine with a fingerprint, whenever the process dies.
THEOREM NameIsKept == Spec => []KeepsItsName
<1> DEFINE Inv == IdentityTypeOK /\ NameInv
<1>1. Init => Inv
  <2> SUFFICES ASSUME Init PROVE Inv
    OBVIOUS
  <2>1. PICK setup \in Setups : IdentityInit(setup.machine)
    BY DEF Init
  <2>2. main = "down"
    BY DEF Init, Process
  <2>3. NameInv
    BY <2>1, <2>2 DEF IdentityInit, NameInv, NameIsInPlace, ConfiguredNameRules,
                      DerivedNameIsStable, FrozenNameRules, Body, Start, Registration, Heartbeat
  <2> QED
    BY <2>3, InitialTypes
<1>2. Inv /\ [Next]_vars => Inv'
  BY NameFollows, IdentityTypes, NameInvKept
<1>3. Inv => KeepsItsName
  BY DEF NameInv, ConfiguredNameRules, DerivedNameIsStable, FrozenNameRules, KeepsItsName,
         NameFitsKey, IdentityTypeOK
<1> QED
  BY <1>1, <1>2, <1>3, PTL DEF Spec

-----------------------------------------------------------------------------
(* run_agent implements AgentService *)

\* No loop of the main thread counts more failures than the power of its delay allows.
CountsFitAFloat ==
    FailuresTracked["registration"] <= MaxExponent /\ FailuresTracked["heartbeat"] <= MaxExponent

\* A process that does not run keeps nothing.
DownIsClean == main = "down" => stop_event = FALSE

\* Where main is, seen by those who rely on the agent.
LEMMA PhaseOfMain ==
    ASSUME main \in {"down"} \cup Body \cup Finally
    PROVE  /\ Phase = "down" <=> main = "down"
           /\ Phase = "starting" <=> main \in Start
           /\ Phase = "stopping" <=> main \in Finally
           /\ Phase = "collecting" <=> main \in Registration \cup Heartbeat
           /\ Phase \in {"down", "starting", "collecting", "stopping"}
BY DEF Phase, Body, Start, Registration, Heartbeat, Finally

LEMMA PhaseOfMainNext ==
    ASSUME (main \in {"down"} \cup Body \cup Finally)'
    PROVE  /\ Phase' = "down" <=> main' = "down"
           /\ Phase' = "starting" <=> main' \in Start
           /\ Phase' = "stopping" <=> main' \in Finally
           /\ Phase' = "collecting" <=> main' \in Registration \cup Heartbeat
           /\ Phase' \in {"down", "starting", "collecting", "stopping"}
BY DEF Phase, Body, Start, Registration, Heartbeat, Finally

\* Where a step of the agent may take main, and at what price.
WayOfMain ==
    \/ main = "down" /\ main' = "identity" /\ UNCHANGED <<stop_event, cause>>
    \/ main \in Start /\ main' \in Start \cup Registration /\ UNCHANGED <<stop_event, cause>>
    \/ /\ main \in Registration \cup Heartbeat /\ main' \in Registration \cup Heartbeat
       /\ UNCHANGED <<stop_event, cause>>
    \/ /\ main \in Body /\ main' = "stop" /\ stop_event' \in {stop_event, TRUE}
       /\ cause' \in {"stopped", "fatal", "failed_start", "junk"}
    \/ main = "stop" /\ main' \in Finally \ {"stop"} /\ stop_event' = TRUE
    \/ /\ main \in Finally \ {"stop"} /\ main' \in Finally \ {"stop"}
       /\ UNCHANGED <<stop_event, cause>>
    \/ main # "down" /\ main' = "down" /\ stop_event' = FALSE
    \/ main # "down" /\ UNCHANGED <<main, cause>> /\ stop_event' = TRUE
    \/ UNCHANGED <<main, stop_event, cause>>

\* Every step of the agent goes one of these ways, if no count overflows.
LEMMA MainsWay ==
    ASSUME CountsFitAFloat, ControlTypeOK, [Next]_vars
    PROVE  WayOfMain
<1> USE DEF Body, Start, Registration, Heartbeat, Finally, Go, Leave
<1>0. ~Overflows(retries) /\ ~Overflows(failures)
  BY BoundsAreNaturals, LifecycleAssumption DEF CountsFitAFloat, ControlTypeOK, Overflows
<1>1. CASE StartProcess
  BY <1>1 DEF StartProcess, WayOfMain
<1>2. CASE StartStep
  BY <1>2 DEF StartStep, StartFails, Resolve, OpenSpool, StartDispatcher, StartMonitor,
              WayOfMain
<1>3. CASE RegistrationStep
  <2>1. CASE StopRegistering \/ CheckHealth \/ RegisterRefused
    BY <1>0, <2>1 DEF StopRegistering, CheckHealth, RegisterRefused, RetryLater, WayOfMain
  <2>2. CASE Registered
    BY <2>2 DEF Registered, TakenIn, AfterRegistration, WayOfMain
  <2>3. CASE RegisterRejected \/ RegisterJunk \/ RetryWaited \/ Announce
    BY <2>3 DEF RegisterRejected, RegisterJunk, RetryWaited, Announce, WayOfMain
  <2> QED
    BY <1>3, <2>1, <2>2, <2>3 DEF RegistrationStep
<1>4. CASE HeartbeatStep
  BY <1>0, <1>4 DEF HeartbeatStep, StopBeating, Beat, BeatAccepted, BeatUnknown, BeatFailed,
                    BeatRejected, BeatJunk, BeatWaited, BeatUnbearable, WayOfMain
<1>5. CASE FinallyStep
  BY <1>5 DEF FinallyStep, StopMonitor, JoinMonitor, JoinDispatcher, CloseSpool, SayGoodbye,
              EndProcess, Halt, WayOfMain
<1>6. CASE \E s \in Sender : Transfer(s)
  BY <1>6 DEF Transfer, control, WayOfMain
<1>7. CASE DispatcherStep
  BY <1>6, <1>7 DEF DispatcherStep, Dispatch, Dispatched, DispatchFailed, DispatchJunk,
                    DispatchUnrecorded, DispatcherMovesOn, control, Sender, WayOfMain
<1>8. CASE RecoveryBegins \/ RecoveryEnds \/ MonitorEnds \/ RequestShutdown \/ Interrupt
             \/ LateArrival \/ ServerChanges
  BY <1>8 DEF RecoveryBegins, RecoveryEnds, MonitorEnds, RequestShutdown, Interrupt,
              LateArrival, ServerChanges, control, WayOfMain
<1>9. CASE Kill \/ MachineChanges
  BY <1>9 DEF Kill, Halt, MachineChanges, control, WayOfMain
<1>10. CASE UNCHANGED vars
  BY <1>10 DEF vars, control, WayOfMain
<1> QED
  BY <1>1, <1>2, <1>3, <1>4, <1>5, <1>6, <1>7, <1>8, <1>9, <1>10 DEF Next, MainStep, Sender

\* Each of these ways is a step of the service, or none.
LEMMA WaysAreServed ==
    ASSUME ControlTypeOK, ControlTypeOK', DownIsClean, WayOfMain
    PROVE  [Service!Next]_(Service!service)
<1>0. /\ main \in {"down"} \cup Body \cup Finally
      /\ (main \in {"down"} \cup Body \cup Finally)'
      /\ stop_event \in BOOLEAN /\ stop_event' \in BOOLEAN
      /\ (main = "stop" <=> cause # "none") /\ (main' = "stop" <=> cause' # "none")
  BY DEF ControlTypeOK
<1> USE <1>0, PhaseOfMain, PhaseOfMainNext
    DEF Body, Start, Registration, Heartbeat, Finally, Service!Next, Service!service
<1>1. CASE main = "down" /\ main' = "identity" /\ UNCHANGED <<stop_event, cause>>
  BY <1>1 DEF DownIsClean, Justified, Service!Start
<1>2. CASE main \in Start /\ main' \in Start \cup Registration /\ UNCHANGED <<stop_event, cause>>
  BY <1>2 DEF Justified, Service!Collect
<1>3. CASE /\ main \in Registration \cup Heartbeat /\ main' \in Registration \cup Heartbeat
           /\ UNCHANGED <<stop_event, cause>>
  BY <1>3 DEF Justified
<1>4. CASE /\ main \in Body /\ main' = "stop" /\ stop_event' \in {stop_event, TRUE}
           /\ cause' \in {"stopped", "fatal", "failed_start", "junk"}
  BY <1>4 DEF Justified, Service!Stop
<1>5. CASE main = "stop" /\ main' \in Finally \ {"stop"} /\ stop_event' = TRUE
  BY <1>5 DEF Justified, Service!Justify
<1>6. CASE /\ main \in Finally \ {"stop"} /\ main' \in Finally \ {"stop"}
           /\ UNCHANGED <<stop_event, cause>>
  BY <1>6 DEF Justified
<1>7. CASE main # "down" /\ main' = "down" /\ stop_event' = FALSE
  BY <1>7 DEF Justified, Service!End
<1>8. CASE main # "down" /\ UNCHANGED <<main, cause>> /\ stop_event' = TRUE
  BY <1>8 DEF Justified, Service!Justify
<1>9. CASE UNCHANGED <<main, stop_event, cause>>
  BY <1>9 DEF Justified
<1> QED
  BY <1>1, <1>2, <1>3, <1>4, <1>5, <1>6, <1>7, <1>8, <1>9, ZenonT(60) DEF WayOfMain

\* The agent starts as the service does, and nothing that runs is left behind.
LEMMA ServiceStarts == Init => Service!Init /\ DownIsClean
<1> SUFFICES ASSUME Init PROVE Service!Init /\ DownIsClean
  OBVIOUS
<1>1. main = "down" /\ stop_event = FALSE
  BY DEF Init, Process
<1>2. Phase = "down"
  BY <1>1, PhaseOfMain
<1> QED
  BY <1>1, <1>2 DEF Service!Init, Justified, DownIsClean

\* run_agent implements the service: an unreachable or refusing server, a lost
\* registration, a spool or a monitor that cannot be had do not end it.  It ends when it
\* is asked to, for a payload refused for good, by a failed start, or by an answer of
\* which the code cannot make anything; never because of how often something failed.
THEOREM ServiceIsKept ==
    ASSUME CountsFitAFloat
    PROVE  Spec => ServiceKept
<1> DEFINE Inv == ControlTypeOK /\ DownIsClean
<1>1. Init => Service!Init /\ Inv
  BY ServiceStarts, InitialTypes
<1>2. Inv /\ [Next]_vars => Inv' /\ [Service!Next]_(Service!service)
  <2> SUFFICES ASSUME Inv, [Next]_vars PROVE Inv' /\ [Service!Next]_(Service!service)
    OBVIOUS
  <2>1. ControlTypeOK' /\ WayOfMain
    BY ControlTypes, MainsWay
  <2>2. DownIsClean'
    BY <2>1 DEF WayOfMain, DownIsClean, Body, Start, Registration, Heartbeat, Finally
  <2> QED
    BY <2>1, <2>2, WaysAreServed
<1> QED
  BY <1>1, <1>2, PTL DEF Spec, ServiceKept, Service!Spec

\* Main is not ended by an answer, and waits for no interval that a wait cannot take.
AnswersEndNothing == cause # "junk" /\ bearable

LEMMA AnswersEndNothingKept ==
    ASSUME ~JunkAnswers, AnswersEndNothing, [Next]_vars
    PROVE  AnswersEndNothing'
<1> USE DEF AnswersEndNothing, Leave, control, backoff, loops
<1>1. CASE StartProcess
  BY <1>1 DEF StartProcess
<1>2. CASE StartStep
  BY <1>2 DEF StartStep, StartFails, Resolve, OpenSpool, StartDispatcher, StartMonitor
<1>3. CASE RegistrationStep
  BY <1>3 DEF RegistrationStep, StopRegistering, CheckHealth, RetryLater, Registered,
              RegisterRefused, RegisterRejected, RegisterJunk, JunkAnswered, RetryWaited,
              Announce
<1>4. CASE HeartbeatStep
  BY <1>4 DEF HeartbeatStep, StopBeating, Beat, BeatAccepted, BeatUnknown, Intervals,
              BeatFailed, BeatRejected, BeatJunk, JunkAnswered, BeatWaited, BeatUnbearable
<1>5. CASE FinallyStep
  BY <1>5 DEF FinallyStep, StopMonitor, JoinMonitor, JoinDispatcher, CloseSpool, SayGoodbye,
              EndProcess, Halt
<1>6. CASE \E s \in Sender : Transfer(s)
  BY <1>6 DEF Transfer
<1>7. CASE DispatcherStep
  BY <1>6, <1>7 DEF DispatcherStep, Dispatch, Dispatched, DispatchFailed, DispatchJunk,
                    DispatchUnrecorded, DispatcherMovesOn, Sender
<1>8. CASE RecoveryBegins \/ RecoveryEnds \/ MonitorEnds \/ RequestShutdown \/ Interrupt
             \/ LateArrival \/ ServerChanges
  BY <1>8 DEF RecoveryBegins, RecoveryEnds, MonitorEnds, RequestShutdown, Interrupt,
              LateArrival, ServerChanges
<1>9. CASE Kill \/ MachineChanges
  BY <1>9 DEF Kill, Halt, MachineChanges
<1>10. CASE UNCHANGED vars
  BY <1>10 DEF vars
<1> QED
  BY <1>1, <1>2, <1>3, <1>4, <1>5, <1>6, <1>7, <1>8, <1>9, <1>10 DEF Next, MainStep, Sender

\* The reasons the code names are the only ones when besides the counts that fit a float
\* no answer is one that it does not expect: main then leaves its body as asked to, for a
\* payload refused for good, or by a failed start.
THEOREM NamedReasonsOnly ==
    ASSUME CountsFitAFloat, ~JunkAnswers
    PROVE  Spec => ServiceKept /\ [](cause # "junk")
<1>1. Init => AnswersEndNothing
  BY DEF Init, Process, AnswersEndNothing
<1>2. AnswersEndNothing /\ [Next]_vars => AnswersEndNothing'
  BY AnswersEndNothingKept
<1>3. AnswersEndNothing => cause # "junk"
  BY DEF AnswersEndNothing
<1> QED
  BY <1>1, <1>2, <1>3, ServiceIsKept, PTL DEF Spec

\* The docstring of register_agent_with_retry is right when the counts fit a float and no
\* answer is one the code does not expect: then only a requested stop, or a payload
\* rejected for good, takes main out of its loop.  Neither hypothesis can be left out.
THEOREM OnlyTheDocumentedWaysOut ==
    ASSUME CountsFitAFloat, ~JunkAnswers
    PROVE  Spec => OnlyWayOut
<1> DEFINE Inv == ControlTypeOK
<1>1. Init => Inv
  BY InitialTypes
<1>2. Inv /\ [Next]_vars => Inv'
  BY ControlTypes
<1>3. Inv /\ [Next]_vars =>
        [(main \in {"register", "registering", "retry"} /\ main' = "stop")
           => (stop_event' \/ cause' = "fatal")]_vars
  <2> SUFFICES ASSUME Inv, Next, main \in {"register", "registering", "retry"}, main' = "stop"
               PROVE  stop_event' \/ cause' = "fatal"
    OBVIOUS
  <2> USE DEF Go, Leave
  <2>0. ~Overflows(retries)
    BY BoundsAreNaturals, LifecycleAssumption DEF CountsFitAFloat, ControlTypeOK, Overflows
  <2>1. CASE RegistrationStep
    BY <2>0, <2>1 DEF RegistrationStep, StopRegistering, CheckHealth, Registered,
           AfterRegistration, RegisterRefused, RegisterRejected, RegisterJunk, JunkAnswered,
           RetryLater, RetryWaited, Announce, control
  <2>2. CASE ~RegistrationStep
    BY <2>2 DEF Next, MainStep, StartProcess, StartStep, Start, HeartbeatStep, Heartbeat,
           FinallyStep, Finally, Transfer, DispatcherStep, Dispatch, Dispatched, DispatchFailed,
           DispatchJunk, DispatchUnrecorded, DispatcherMovesOn, RecoveryBegins, RecoveryEnds,
           MonitorEnds, RequestShutdown, Interrupt, Kill, Halt, LateArrival, ServerChanges, MachineChanges, control
  <2> QED
    BY <2>1, <2>2
<1> QED
  BY <1>1, <1>2, <1>3, PTL DEF Spec, OnlyWayOut
===============================================================================
