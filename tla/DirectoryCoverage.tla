--------------------------- MODULE DirectoryCoverage ---------------------------
(***************************************************************************)
(* Which configured directories FileMonitor watches, and what the server   *)
(* hears about it.  Directories are deleted, made and moved at any moment; *)
(* the recovery thread takes lost ones from under the observer and         *)
(* schedules them again; the heartbeat asks covers_all_directories, which  *)
(* consumes the latch of unreported losses; the main thread, which is the  *)
(* heartbeat's, stops it all.                                              *)
(*                                                                         *)
(* A recovery pass holds _coverage_lock from its stop check to its end.  It *)
(* touches the file system to schedule a directory and again to read its   *)
(* identity; the file system changes in between.  The stats of one call of *)
(* lost_directories are one step.  Identities are not used twice: an inode *)
(* number given out again hides a deletion only until its emitter dies.    *)
(***************************************************************************)
EXTENDS Naturals, SequencesExt, FiniteSetsExt

CONSTANTS
    Directory,      \* monitored_directories, existing or not
    MayReturn,      \* whether one moved away may come back after its loss was noticed
    MaxChanges      \* bound of the model: changes of the file system

ASSUME CoverageAssumption ==
    IsFiniteSet(Directory) /\ MayReturn \in BOOLEAN /\ MaxChanges \in Nat

VARIABLES
    at,          \* the identity of the directory at each path, or Nothing
    away,        \* identities of the directories that were moved away
    made,        \* number of directories made so far; their identities are 1..made
    changes,     \* number of changes of the file system so far
    emitter,     \* _emitter_for_directory: what an emitter watches, if it lives
    identity,    \* _identity_for_directory
    unwatched,   \* unwatched_directories
    known,       \* _reported_lost_directories
    latch,       \* _unreported_losses
    pass,        \* the recovery pass, which holds _coverage_lock while it is busy
    stopping,    \* _recovery_stop
    observer,    \* the watchdog observer: "running" or "stopped"
    heartbeat,   \* the heartbeat in flight
    counted,     \* history: directories whose present loss was noticed
    unassessed,  \* history: losses noticed since an assessment last saw any
    unheard      \* history: losses the server was not told of

disk == <<at, away, made, changes>>
watches == <<emitter, identity, unwatched>>
history == <<counted, unassessed, unheard>>
losses == <<known, latch, history>>
threads == <<pass, stopping, observer, heartbeat>>
vars == <<disk, watches, losses, threads>>

Nothing == 0
Idle == [busy |-> FALSE, todo |-> <<>>, scheduled |-> {}]
Silent == [state |-> "none", news |-> {}]
Alive(i) == [inode |-> i, alive |-> TRUE]

\* start: every directory that exists is scheduled; at least one does.
Init ==
    /\ \E found \in SUBSET Directory \ {{}} :
          LET list == SetToSeq(found)
          IN  /\ at = [d \in Directory |->
                          IF d \in found THEN CHOOSE i \in DOMAIN list : list[i] = d
                          ELSE Nothing]
              /\ made = Len(list)
              /\ emitter = [d \in found |-> Alive(at[d])]
              /\ identity = [d \in found |-> at[d]]
              /\ unwatched = SetToSeq(Directory \ found)
    /\ away = {} /\ changes = 0
    /\ known = {} /\ latch = {} /\ counted = {} /\ unassessed = {} /\ unheard = {}
    /\ pass = Idle /\ stopping = FALSE /\ observer = "running" /\ heartbeat = Silent

-----------------------------------------------------------------------------
(* The file system and watchdog *)

Change(d, i) ==
    /\ changes < MaxChanges
    /\ changes' = changes + 1
    /\ at' = [at EXCEPT ![d] = i]
    /\ UNCHANGED <<watches, known, latch, unassessed, unheard, threads>>

DeleteDirectory(d) ==
    /\ at[d] # Nothing
    /\ Change(d, Nothing)
    /\ UNCHANGED <<away, made, counted>>

MakeDirectory(d) ==
    /\ at[d] = Nothing
    /\ Change(d, made + 1)
    /\ made' = made + 1
    /\ UNCHANGED <<away, counted>>

MoveAway(d) ==
    /\ at[d] # Nothing
    /\ Change(d, Nothing)
    /\ away' = away \cup {at[d]}
    /\ UNCHANGED <<made, counted>>

\* The directory that is watched is at its path again: its loss is over.
MoveBack(d) ==
    /\ at[d] = Nothing /\ (MayReturn \/ d \notin known)
    /\ \E i \in away :
          /\ Change(d, i)
          /\ away' = away \ {i}
          /\ counted' = IF d \in DOMAIN emitter /\ emitter[d] = Alive(i)
                        THEN counted \ {d} ELSE counted
    /\ UNCHANGED made

\* watchdog stops the emitter of a directory that was deleted; one that was moved
\* is watched where it went.
EmitterStops(d) ==
    /\ d \in DOMAIN emitter /\ emitter[d].alive
    /\ emitter[d].inode \notin away \cup Range(at)
    /\ emitter' = [emitter EXCEPT ![d].alive = FALSE]
    /\ UNCHANGED <<disk, identity, unwatched, losses, threads>>

Environment ==
    \E d \in Directory :
        DeleteDirectory(d) \/ MakeDirectory(d) \/ MoveAway(d) \/ MoveBack(d)
          \/ EmitterStops(d)

-----------------------------------------------------------------------------
(* lost_directories *)

\* Mutant: a directory is lost when its path holds none.
LostPaths == {d \in DOMAIN emitter : ~emitter[d].alive \/ at[d] = Nothing}

Lost == {d \in DOMAIN emitter : ~emitter[d].alive \/ at[d] # identity[d]}

\* The first time a loss is noticed it enters the latch.
Latched == latch \cup (Lost \ known)
Notice ==
    /\ known' = known \cup Lost
    /\ counted' = counted \cup Lost

News == Lost \ counted

-----------------------------------------------------------------------------
(* recover_directories_once *)

Without(f, s) == [d \in DOMAIN f \ s |-> f[d]]

\* list.remove: the first place of d, which is its only one.
Place(list, d) == CHOOSE i \in DOMAIN list : list[i] = d
Unlist(list, d) == RemoveAt(list, Place(list, d))

\* The lost directories go from under the observer into unwatched_directories.
BeginPassWith(todo) ==
    /\ ~pass.busy /\ ~stopping
    /\ Notice
    /\ latch' = Latched
    /\ unassessed' = unassessed \cup News
    /\ unheard' = unheard \cup News
    /\ unwatched' = unwatched \o SetToSeq(Lost)
    /\ pass' = [busy |-> TRUE, todo |-> todo, scheduled |-> {}]
    /\ UNCHANGED <<disk, stopping, observer, heartbeat>>

Unschedule == emitter' = Without(emitter, Lost) /\ identity' = Without(identity, Lost)

\* Mutants: only what was lost just now is scheduled again; the lost directories
\* are not taken from under the observer.
BeginPassForgetting == BeginPassWith(SetToSeq(Lost)) /\ Unschedule
BeginPassStillWatching ==
    BeginPassWith(unwatched \o SetToSeq(Lost)) /\ UNCHANGED <<emitter, identity>>

BeginPass == BeginPassWith(unwatched \o SetToSeq(Lost)) /\ Unschedule

\* os.path.isdir says no, or observer.schedule raises OSError: also for a directory
\* that is there, out of watches or without the permission.  The next pass tries again.
SkipDirectory ==
    /\ pass.busy /\ pass.scheduled = {} /\ pass.todo # <<>>
    /\ pass' = [pass EXCEPT !.todo = Tail(@)]
    /\ UNCHANGED <<disk, watches, losses, stopping, observer, heartbeat>>

\* observer.schedule: a new emitter watches what is at the path now ...
ScheduleDirectory(d) ==
    /\ pass.busy /\ pass.scheduled = {} /\ pass.todo # <<>> /\ d = Head(pass.todo)
    /\ at[d] # Nothing
    /\ pass' = [pass EXCEPT !.todo = Tail(@), !.scheduled = {d}]
    /\ emitter' = [e \in DOMAIN emitter \cup {d} |->
                      IF e = d THEN Alive(at[d]) ELSE emitter[e]]
    /\ UNCHANGED <<disk, identity, unwatched, losses, stopping, observer, heartbeat>>

\* Mutant: recovering a directory clears the latch as well as the known losses.
RecoverAndForget(d) ==
    /\ known' = known \ {d} /\ latch' = latch \ {d}
    /\ counted' = counted \ {d}
    /\ UNCHANGED <<unassessed, unheard>>

Recover(d) ==
    /\ known' = known \ {d}
    /\ counted' = counted \ {d}
    /\ UNCHANGED <<latch, unassessed, unheard>>

\* ... and its identity is what is at the path when it is read.
ReadIdentity ==
    \E d \in pass.scheduled :
        /\ identity' = [e \in DOMAIN identity \cup {d} |->
                           IF e = d THEN at[d] ELSE identity[e]]
        /\ unwatched' = Unlist(unwatched, d)
        /\ Recover(d)
        /\ pass' = [pass EXCEPT !.scheduled = {}]
        /\ UNCHANGED <<disk, emitter, stopping, observer, heartbeat>>

EndPass ==
    /\ pass.busy /\ pass.scheduled = {} /\ pass.todo = <<>>
    /\ pass' = Idle
    /\ UNCHANGED <<disk, watches, losses, stopping, observer, heartbeat>>

RecoveryStep ==
    \/ BeginPass \/ SkipDirectory \/ ReadIdentity \/ EndPass
    \/ \E d \in Directory : ScheduleDirectory(d)

-----------------------------------------------------------------------------
(* The main thread: heartbeats, then stop *)

\* assess_monitoring on a living pipeline: covers_all_directories.
Assess ==
    LET complete == Lost = {} /\ unwatched = <<>> /\ Latched = {} IN
    /\ ~pass.busy /\ ~stopping /\ heartbeat = Silent
    /\ Notice
    /\ latch' = {}
    /\ unassessed' = IF complete THEN unassessed \cup News ELSE {}
    /\ unheard' = unheard \cup News
    /\ heartbeat' = [state |-> IF complete THEN "active" ELSE "partial",
                     news |-> unheard']
    /\ UNCHANGED <<disk, watches, pass, stopping, observer>>

Deliver ==
    /\ heartbeat # Silent
    /\ heartbeat' = Silent
    /\ unheard' = IF heartbeat.state = "partial" THEN unheard \ heartbeat.news ELSE unheard
    /\ UNCHANGED <<disk, watches, known, latch, counted, unassessed, pass, stopping,
                   observer>>

\* send_heartbeat raised; the next heartbeat assesses anew.
HeartbeatFails ==
    /\ heartbeat # Silent
    /\ heartbeat' = Silent
    /\ UNCHANGED <<disk, watches, losses, pass, stopping, observer>>

\* Mutant: stop does not wait for the pass under way.
StopWithoutLock ==
    /\ ~stopping /\ heartbeat = Silent
    /\ stopping' = TRUE
    /\ UNCHANGED <<disk, watches, losses, pass, observer, heartbeat>>

\* stop: the recovery thread under the lock, then the observer, which stops
\* the emitters it has.
Stop ==
    /\ ~stopping /\ heartbeat = Silent /\ ~pass.busy
    /\ stopping' = TRUE
    /\ UNCHANGED <<disk, watches, losses, pass, observer, heartbeat>>

StopObserver ==
    /\ stopping /\ observer = "running"
    /\ observer' = "stopped"
    /\ emitter' = [d \in DOMAIN emitter |-> [emitter[d] EXCEPT !.alive = FALSE]]
    /\ UNCHANGED <<disk, identity, unwatched, losses, pass, stopping, heartbeat>>

Next ==
    \/ Environment
    \/ RecoveryStep
    \/ Assess \/ Deliver \/ HeartbeatFails
    \/ Stop \/ StopObserver

Spec == Init /\ [][Next]_vars

\* The recovery thread keeps running, gets the lock, and gets answers of the file
\* system; watchdog notices deletions; main answers or fails each heartbeat, and need
\* not stop.  observer.schedule may fail, but not every time for ever: nothing in the
\* code makes it succeed, and a directory without permission stays unwatched.
FairSpec ==
    /\ Spec
    /\ WF_vars(RecoveryStep)
    /\ \A d \in Directory : SF_vars(ScheduleDirectory(d))
    /\ \A d \in Directory : WF_vars(EmitterStops(d))
    /\ WF_vars(Deliver \/ HeartbeatFails) /\ WF_vars(StopObserver)

-----------------------------------------------------------------------------
\* Types, and the two maps of a directory agree: outside a pass it is watched or
\* listed as unwatched, not both, and listed once.
TypeOK ==
    /\ made \in Nat /\ changes \in 0..MaxChanges
    /\ at \in [Directory -> 0..made] /\ away \subseteq 1..made
    /\ DOMAIN emitter \subseteq Directory
    /\ \A d \in DOMAIN emitter : emitter[d] \in [inode : 1..made, alive : BOOLEAN]
    /\ \A d \in DOMAIN identity : identity[d] \in 0..made
    /\ DOMAIN identity = DOMAIN emitter \ pass.scheduled
    /\ unwatched \in Seq(Directory) /\ IsInjective(unwatched)
    /\ ToSet(unwatched) = (Directory \ DOMAIN emitter) \cup pass.scheduled
    /\ pass \in [busy : BOOLEAN, todo : Seq(Directory), scheduled : SUBSET Directory]
    /\ {known, latch, counted, unassessed, unheard} \subseteq SUBSET Directory
    /\ heartbeat \in [state : {"none", "active", "partial"}, news : SUBSET Directory]
    /\ stopping \in BOOLEAN /\ observer \in {"running", "stopped"}

\* However short a loss is, and whoever noticed it: a heartbeat says "active" only
\* when every loss noticed before was in an assessment (the latch).
ActiveHidesNoLoss ==
    [][heartbeat = Silent /\ heartbeat'.state = "active" => unassessed' = {}]_vars

\* "Any loss reaches the server, however short" (covers_all_directories): the
\* server is not told "active" before it was told of the losses noticed until then.
EveryLossIsHeard ==
    [][Deliver /\ heartbeat.state = "active" => heartbeat.news = {}]_vars

\* After stop no pass starts an emitter on the observer that is stopping.
NothingStartsAfterStop ==
    observer = "stopped" => \A d \in DOMAIN emitter : ~emitter[d].alive

\* "Each configured directory is under the observer now" (covers_all_directories):
\* at an assessment that says "active" each path holds the directory its emitter
\* watches, moved and replaced ones included.  Not covered, and true of the code: a
\* directory replaced between schedule and the identity read is taken for watched.
ActiveMeansWatched ==
    [][heartbeat = Silent /\ heartbeat'.state = "active" =>
          \A d \in Directory :
              /\ d \in DOMAIN emitter
              /\ at[d] = emitter[d].inode \/ identity[d] # emitter[d].inode]_vars

\* A configured directory that exists and is not watched comes back under the
\* observer, or disappears again, or the agent stops; however often scheduling it
\* fails, as long as it does not fail for ever.
MissingDirectoryReturns ==
    \A d \in Directory :
        d \in ToSet(unwatched) ~> (d \notin ToSet(unwatched) \/ at[d] = Nothing \/ stopping)
===============================================================================
