---------------------------- MODULE AgentCredentials ----------------------------
(***************************************************************************)
(* The agent's two credentials: the enrollment secret, which buys a key    *)
(* once, and the key, which every request presents.  Both live in memory   *)
(* (shared by the main and the dispatcher thread, under a lock) and in a   *)
(* file each.  Main registers and then sends heartbeats; the dispatcher    *)
(* sends events; each reloads the files after a refusal.                   *)
(*                                                                         *)
(* A method takes the lock for its assignments only: refresh_from_disk     *)
(* reads the two files before, adopt_agent_key and consume_enrollment_     *)
(* secret touch the disk after.  Each file operation is a step of its own. *)
(*                                                                         *)
(* The server is known from how the agent uses it: it keeps one key per    *)
(* agent, looks at the secret first, issues a key for it, and otherwise    *)
(* accepts the key it keeps.  Backoff, alarms and answers that change no   *)
(* credential (409, 5xx, no connection) are failures here, and an answer   *)
(* that ends the agent (422) is a Restart.                                 *)
(***************************************************************************)
EXTENDS Naturals

CONSTANTS
    MaxKeys,     \* bound of the model: keys the server issues
    MaxFaults,   \* bound of the model: failed file operations, lost answers, crashes
    MaxRepairs   \* bound of the model: what the operator does

ASSUME CredentialsAssumption == {MaxKeys, MaxFaults, MaxRepairs} \subseteq Nat

VARIABLES
    keyFile,     \* what the file agent_key holds
    secretFile,  \* what the file enrollment_secret holds
    memKey,      \* _agent_key
    memSecret,   \* _enrollment_secret
    pc,          \* where each thread is
    carried,     \* the key a thread carries: read to present it, or issued
    offered,     \* the secret main presents
    found,       \* what a reload has read
    serverKey,   \* the key the server accepts
    issued,      \* number of keys issued so far; they are 1..issued
    reused,      \* history: a key was issued for a secret that is not on disk any more
    faults, repairs

files == <<keyFile, secretFile>>
memory == <<memKey, memSecret>>
server == <<serverKey, issued, reused>>
threads == <<pc, carried, offered, found>>
vars == <<files, memory, threads, server, faults, repairs>>

None == 0
Key == 1..MaxKeys

\* A secret: none, the one the server knows, or what consume leaves behind when it
\* ends between overwriting and unlink: NUL bytes, which pass for a secret.
Secret == "secret"
Absent == "absent"
Wiped == "wiped"

Thread == {"main", "dispatcher"}
Nothing == [key |-> None, secret |-> Absent, resume |-> "idle"]

Goto(t, where) == pc' = [pc EXCEPT ![t] = where]

Loop(t) == IF t = "dispatcher" THEN "idle" ELSE "heartbeat"

Init ==
    /\ issued \in 0..(IF MaxKeys = 0 THEN 0 ELSE 1) /\ serverKey = issued
    /\ keyFile = serverKey
    /\ secretFile \in (IF issued = 0 THEN {Absent, Secret} ELSE {Absent})
    /\ memKey = keyFile /\ memSecret = secretFile
    /\ pc = [t \in Thread |-> IF t = "main" THEN "register" ELSE "idle"]
    /\ carried = [t \in Thread |-> None] /\ found = [t \in Thread |-> Nothing]
    /\ offered = Absent /\ reused = FALSE /\ faults = 0 /\ repairs = 0

Fault == faults < MaxFaults /\ faults' = faults + 1
NoFault == UNCHANGED faults

-----------------------------------------------------------------------------
(* refresh_from_disk, after a refusal *)

StartReload(t, resume) ==
    /\ Goto(t, "reload_key")
    /\ found' = [found EXCEPT ![t] = [Nothing EXCEPT !.resume = resume]]

\* A file that cannot be read is taken for one that is not there.
ReadKeyFile(t) ==
    /\ pc[t] = "reload_key"
    /\ \/ found' = [found EXCEPT ![t].key = keyFile] /\ NoFault
       \/ UNCHANGED found /\ Fault
    /\ Goto(t, "reload_secret")
    /\ UNCHANGED <<files, memory, carried, offered, server, repairs>>

ReadSecretFile(t) ==
    /\ pc[t] = "reload_secret"
    /\ \/ found' = [found EXCEPT ![t].secret = secretFile] /\ NoFault
       \/ UNCHANGED found /\ Fault
    /\ Goto(t, "merge")
    /\ UNCHANGED <<files, memory, carried, offered, server, repairs>>

\* "Adopt, not synchronise": what the files hold replaces memory, absence does not.
Merge(t) ==
    /\ memKey' = IF found[t].key # None THEN found[t].key ELSE memKey
    /\ memSecret' = IF found[t].secret # Absent THEN found[t].secret ELSE memSecret

EndReload(t) ==
    /\ pc[t] = "merge"
    /\ Merge(t)
    /\ found' = [found EXCEPT ![t] = Nothing]
    /\ Goto(t, found[t].resume)
    /\ UNCHANGED <<files, carried, offered, server, faults, repairs>>

Reload(t) == ReadKeyFile(t) \/ ReadSecretFile(t) \/ EndReload(t)

-----------------------------------------------------------------------------
(* register_agent_with_retry *)

\* The key and the secret of the moment, each read under the lock, one after the
\* other. Both are sent when there are both.
PresentKey ==
    /\ pc["main"] = "register"
    /\ carried' = [carried EXCEPT !["main"] = memKey]
    /\ Goto("main", "present")
    /\ UNCHANGED <<files, memory, offered, found, server, faults, repairs>>

PresentSecret ==
    /\ pc["main"] = "present"
    /\ offered' = memSecret
    /\ Goto("main", "registering")
    /\ UNCHANGED <<files, memory, carried, found, server, faults, repairs>>

Registering ==
    /\ pc["main"] = "registering"
    /\ offered' = Absent
    /\ UNCHANGED <<files, memory, repairs>>

\* The server knows the secret and issues a key; the answer may get lost.
RegisterEnrolls ==
    /\ Registering
    /\ offered = Secret /\ issued < MaxKeys
    /\ issued' = issued + 1 /\ serverKey' = issued'
    /\ reused' = (reused \/ secretFile # Secret)
    /\ \/ NoFault /\ Goto("main", "adopt") /\ carried' = [carried EXCEPT !["main"] = issued']
       \/ Fault /\ Goto("main", "register") /\ UNCHANGED carried
    /\ UNCHANGED found

KeyAccepted(t) == carried[t] = serverKey /\ serverKey # None

RegisterAccepted ==
    /\ Registering
    /\ offered # Secret /\ KeyAccepted("main")
    /\ Goto("main", "heartbeat")
    /\ UNCHANGED <<carried, found, server, faults>>

\* Mutant: the refusal is retried without reading the files again.
RegisterRefusedForGood ==
    /\ Registering
    /\ offered # Secret /\ (offered = Wiped \/ ~KeyAccepted("main"))
    /\ Goto("main", "register")
    /\ UNCHANGED <<carried, found, server, faults>>

\* 401 or 403: retried with what the files hold now. What the server says of a
\* valid key next to an unknown secret is not known.
RegisterRefused ==
    /\ Registering
    /\ offered # Secret /\ (offered = Wiped \/ ~KeyAccepted("main"))
    /\ StartReload("main", "register")
    /\ UNCHANGED <<carried, server, faults>>

RegisterFails ==
    /\ Registering
    /\ Goto("main", "register")
    /\ UNCHANGED <<carried, found, server, faults>>

RegisterAnswered == RegisterEnrolls \/ RegisterAccepted \/ RegisterRefused

-----------------------------------------------------------------------------
(* _adopt_issued_credentials: adopt_agent_key, then consume_enrollment_secret *)

Adopt ==
    /\ pc["main"] = "adopt"
    /\ memKey' = carried["main"]
    /\ Goto("main", "write_key")
    /\ UNCHANGED <<files, memSecret, carried, offered, found, server, faults, repairs>>

\* Mutants: the secret is consumed whether or not the key reached the disk; the key
\* is written in place, and what a failure leaves behind is no key.
WriteKeyAndConsume ==
    /\ pc["main"] = "write_key"
    /\ \/ keyFile' = carried["main"] /\ NoFault
       \/ UNCHANGED keyFile /\ Fault
    /\ Goto("main", "consume")
    /\ UNCHANGED <<secretFile, memory, carried, offered, found, server, repairs>>

WriteKeyInPlace ==
    /\ pc["main"] = "write_key"
    /\ \/ keyFile' = carried["main"] /\ NoFault /\ Goto("main", "consume")
       \/ keyFile' = MaxKeys + 1 /\ Fault /\ Goto("main", "heartbeat")
    /\ UNCHANGED <<secretFile, memory, carried, offered, found, server, repairs>>

\* A temporary file is moved over agent_key, or agent_key stays as it is and the
\* secret is kept.
WriteKey ==
    /\ pc["main"] = "write_key"
    /\ \/ keyFile' = carried["main"] /\ NoFault /\ Goto("main", "consume")
       \/ UNCHANGED keyFile /\ Fault /\ Goto("main", "heartbeat")
    /\ UNCHANGED <<secretFile, memory, carried, offered, found, server, repairs>>

ForgetSecret ==
    /\ pc["main"] = "consume"
    /\ memSecret' = Absent
    /\ Goto("main", IF secretFile = Absent THEN "heartbeat" ELSE "overwrite_secret")
    /\ UNCHANGED <<files, memKey, carried, offered, found, server, faults, repairs>>

OverwriteSecret ==
    /\ pc["main"] = "overwrite_secret"
    /\ \/ secretFile' = Wiped /\ NoFault /\ Goto("main", "unlink_secret")
       \/ UNCHANGED secretFile /\ Fault /\ Goto("main", "heartbeat")
    /\ UNCHANGED <<keyFile, memory, carried, offered, found, server, repairs>>

UnlinkSecret ==
    /\ pc["main"] = "unlink_secret"
    /\ \/ secretFile' = Absent /\ NoFault
       \/ UNCHANGED secretFile /\ Fault
    /\ Goto("main", "heartbeat")
    /\ UNCHANGED <<keyFile, memory, carried, offered, found, server, repairs>>

AdoptIssued == Adopt \/ WriteKey \/ ForgetSecret \/ OverwriteSecret \/ UnlinkSecret

-----------------------------------------------------------------------------
(* heartbeat_loop and EventDispatcher: a request with the key of the moment *)

Send(t) ==
    /\ pc[t] = Loop(t)
    /\ carried' = [carried EXCEPT ![t] = memKey]
    /\ Goto(t, "sending")
    /\ UNCHANGED <<files, memory, offered, found, server, faults, repairs>>

Sending(t) ==
    pc[t] = "sending" /\ UNCHANGED <<files, memory, carried, offered, server, faults, repairs>>

\* Mutant: the heartbeat loop leaves reading the files to the dispatcher.
SendRefusedUnread(t) ==
    /\ Sending(t) /\ ~KeyAccepted(t)
    /\ IF t = "main" THEN Goto(t, Loop(t)) /\ UNCHANGED found ELSE StartReload(t, Loop(t))

SendRefused(t) == Sending(t) /\ ~KeyAccepted(t) /\ StartReload(t, Loop(t))

\* Main may be told to register again; the dispatcher leaves that to main.
SendAccepted(t) ==
    /\ Sending(t) /\ KeyAccepted(t)
    /\ Goto(t, Loop(t)) \/ (t = "main" /\ Goto(t, "register"))
    /\ UNCHANGED found

SendFails(t) == Sending(t) /\ Goto(t, Loop(t)) /\ UNCHANGED found

SendAnswered(t) == SendRefused(t) \/ SendAccepted(t)

-----------------------------------------------------------------------------
(* Restarts and the operator *)

\* The process ends anywhere and starts again with load(), which may fail to read.
Restart ==
    /\ Fault
    /\ memKey' \in {keyFile, None} /\ memSecret' \in {secretFile, Absent}
    /\ pc' = [t \in Thread |-> IF t = "main" THEN "register" ELSE "idle"]
    /\ carried' = [t \in Thread |-> None] /\ found' = [t \in Thread |-> Nothing]
    /\ offered' = Absent
    /\ UNCHANGED <<files, server, repairs>>

Repair == repairs < MaxRepairs /\ repairs' = repairs + 1

\* AUTH.md, section 7 and "Recuperare" in section 3.
RevokeKey ==
    /\ Repair /\ serverKey # None
    /\ serverKey' = None
    /\ UNCHANGED <<files, memory, threads, issued, reused, faults>>

ProvisionSecret ==
    /\ Repair /\ secretFile' = Secret
    /\ UNCHANGED <<keyFile, memory, threads, server, faults>>

Environment == Restart \/ RevokeKey \/ ProvisionSecret

MainStep ==
    \/ Reload("main")
    \/ PresentKey \/ PresentSecret \/ RegisterAnswered \/ RegisterFails \/ AdoptIssued
    \/ Send("main") \/ SendAnswered("main") \/ SendFails("main")

DispatcherStep ==
    \/ Reload("dispatcher")
    \/ Send("dispatcher") \/ SendAnswered("dispatcher") \/ SendFails("dispatcher")

Next == MainStep \/ DispatcherStep \/ Environment

Spec == Init /\ [][Next]_vars

\* Main's loop goes on, and a server that is asked again and again answers some
\* time. The dispatcher has something to send, or not.
FairSpec ==
    /\ Spec
    /\ WF_vars(MainStep)
    /\ SF_vars(RegisterAnswered) /\ SF_vars(SendAnswered("main"))

-----------------------------------------------------------------------------
Place == {"register", "present", "registering", "adopt", "write_key", "consume",
          "overwrite_secret", "unlink_secret", "heartbeat", "idle", "sending",
          "reload_key", "reload_secret", "merge"}

TypeOK ==
    /\ keyFile \in Key \cup {None} /\ secretFile \in {Absent, Secret, Wiped}
    /\ memKey \in Key \cup {None} /\ memSecret \in {Absent, Secret, Wiped}
    /\ pc \in [Thread -> Place]
    /\ carried \in [Thread -> Key \cup {None}] /\ offered \in {Absent, Secret, Wiped}
    /\ found \in [Thread -> [key : Key \cup {None}, secret : {Absent, Secret, Wiped},
                           resume : {"register", "heartbeat", "idle"}]]
    /\ issued \in 0..MaxKeys /\ serverKey \in {None, issued} /\ reused \in BOOLEAN
    /\ faults \in 0..MaxFaults /\ repairs \in 0..MaxRepairs

\* "The distinction that keeps the agent recoverable" (_adopt_issued_credentials):
\* whatever fails and wherever the process ends, the disk holds the key the server
\* accepts or a secret that buys one, until the operator revokes the key.
AlwaysRecoverable == serverKey # None => keyFile = serverKey \/ secretFile = Secret

\* What holds: the agent can only become mute by presenting a secret whose file is
\* consumed, which a reload put back into memory.
RecoverableUnlessReused == reused \/ AlwaysRecoverable

\* A secret that stays on disk gets a registering agent registered, also when it is
\* put there after the agent started: it goes only once the key it bought is stored.
SecretIsPickedUp ==
    pc["main"] = "register" /\ secretFile = Secret
       ~> pc["main"] = "heartbeat" \/ secretFile # Secret \/ issued = MaxKeys

\* After a refusal each channel finds the key on disk: a stale key in memory does
\* not stay when the file has the right one. (Here and above: until the model has no
\* key left to issue.)
KeyIsPickedUp ==
    keyFile = serverKey /\ serverKey # None
       ~> memKey = serverKey \/ keyFile # serverKey \/ issued = MaxKeys
===============================================================================
