------------------------- MODULE AgentCredentialsProofs -------------------------
(***************************************************************************)
(* Proofs about AgentCredentials, for any number of keys, faults and       *)
(* repairs: its types, and that only a reused secret can cost the agent    *)
(* its way back.                                                           *)
(*                                                                         *)
(* The argument of the second: main is the only one to obtain a key and to *)
(* touch the files, so from the answer to the write it carries the key the *)
(* server accepts (IssuedKeyIsCarried), and from the write to the end of   *)
(* consume the file holds it (StoredKeyIsAccepted); consume may therefore  *)
(* do what it likes with the secret.  The issue itself is covered by the   *)
(* secret file, which a first use still finds.                             *)
(***************************************************************************)
EXTENDS AgentCredentials, TLAPS

IssuedKeyIsCarried ==
    pc["main"] \in {"adopt", "write_key"} => carried["main"] = serverKey \/ serverKey = None

StoredKeyIsAccepted ==
    pc["main"] \in {"consume", "overwrite_secret", "unlink_secret"}
        => keyFile = serverKey \/ serverKey = None

-----------------------------------------------------------------------------
(* Types *)

\* Mistakes of type show at the keys (a key that was never issued), at what a reload
\* resumes to, and at the number of keys.
LEMMA InitTypes == Init => TypeOK
<1>1. MaxKeys \in Nat /\ MaxFaults \in Nat /\ MaxRepairs \in Nat
  BY CredentialsAssumption
<1>2. SUFFICES ASSUME Init PROVE TypeOK
  OBVIOUS
<1>3. issued \in 0..MaxKeys /\ issued \in 0..1 /\ serverKey = issued
  BY <1>1, <1>2 DEF Init
<1>4. serverKey \in {None, issued} /\ keyFile \in Key \cup {None} /\ memKey \in Key \cup {None}
  BY <1>1, <1>2, <1>3 DEF Init, Key, None
<1>5. secretFile \in {Absent, Secret, Wiped} /\ memSecret \in {Absent, Secret, Wiped}
  BY <1>2 DEF Init
<1>6. /\ pc \in [Thread -> Place]
      /\ carried \in [Thread -> Key \cup {None}]
  BY <1>2 DEF Init, Thread, Place
<1>7. /\ found \in [Thread -> [key : Key \cup {None}, secret : {Absent, Secret, Wiped},
                             resume : {"register", "heartbeat", "idle"}]]
      /\ offered \in {Absent, Secret, Wiped}
  BY <1>2 DEF Init, Nothing
<1>8. faults \in 0..MaxFaults /\ repairs \in 0..MaxRepairs
  BY <1>1, <1>2 DEF Init
<1>9. reused \in BOOLEAN
  BY <1>2 DEF Init
<1> QED
  BY <1>3, <1>4, <1>5, <1>6, <1>7, <1>8, <1>9 DEF TypeOK

LEMMA ThreadTypes ==
  /\ "main" \in Thread /\ "dispatcher" \in Thread
  /\ \A t \in Thread : Loop(t) \in Place /\ Loop(t) \in {"heartbeat", "idle"}
BY DEF Loop, Place, Thread

\* A reload starts from the way back it is given, and takes keys from the files only.
LEMMA ReloadTypes ==
  ASSUME TypeOK, NEW t \in Thread, Reload(t)
  PROVE  TypeOK'
<1> USE DEF TypeOK, Goto, Place, Fault, NoFault, files, memory, server
<1>1. MaxFaults \in Nat
  BY CredentialsAssumption
<1>2. CASE ReadKeyFile(t)
  BY <1>1, <1>2 DEF ReadKeyFile
<1>3. CASE ReadSecretFile(t)
  BY <1>1, <1>3 DEF ReadSecretFile
<1>4. CASE EndReload(t)
  <2>1. /\ found[t].key \in Key \cup {None} /\ found[t].secret \in {Absent, Secret, Wiped}
        /\ found[t].resume \in Place
    BY DEF TypeOK
  <2>2. memKey' \in Key \cup {None} /\ memSecret' \in {Absent, Secret, Wiped}
    BY <1>4, <2>1 DEF EndReload, Merge
  <2>3. pc' \in [Thread -> Place]
    BY <1>4, <2>1 DEF EndReload
  <2>4. found' \in [Thread -> [key : Key \cup {None}, secret : {Absent, Secret, Wiped},
                             resume : {"register", "heartbeat", "idle"}]]
    BY <1>4 DEF EndReload, Nothing
  <2> QED
    BY <1>4, <2>2, <2>3, <2>4 DEF EndReload
<1> QED
  BY <1>2, <1>3, <1>4 DEF Reload

LEMMA StartReloadTypes ==
  ASSUME TypeOK, NEW t \in Thread,
         NEW resume \in {"register", "heartbeat", "idle"}, StartReload(t, resume)
  PROVE  pc' \in [Thread -> Place] /\ found' \in [Thread -> [key : Key \cup {None},
            secret : {Absent, Secret, Wiped}, resume : {"register", "heartbeat", "idle"}]]
BY DEF TypeOK, StartReload, Goto, Place, Nothing

LEMMA RegisterTypes ==
  ASSUME TypeOK, PresentKey \/ PresentSecret \/ RegisterAnswered \/ RegisterFails
  PROVE  TypeOK'
<1> USE DEF TypeOK, Goto, Place, Fault, NoFault, files, memory, server
<1>1. MaxFaults \in Nat /\ MaxKeys \in Nat
  BY CredentialsAssumption
<1>2. CASE PresentKey
  BY <1>2, ThreadTypes DEF PresentKey
<1>3. CASE PresentSecret
  BY <1>3, ThreadTypes DEF PresentSecret
<1>4. CASE RegisterEnrolls
  BY <1>1, <1>4, ThreadTypes DEF RegisterEnrolls, Registering, Key, None
<1>5. CASE RegisterAccepted
  BY <1>5, ThreadTypes DEF RegisterAccepted, Registering
<1>6. CASE RegisterRefused
  BY <1>6, ThreadTypes, StartReloadTypes DEF RegisterRefused, Registering
<1>7. CASE RegisterFails
  BY <1>7, ThreadTypes DEF RegisterFails, Registering
<1> QED
  BY <1>2, <1>3, <1>4, <1>5, <1>6, <1>7 DEF RegisterAnswered

LEMMA AdoptTypes ==
  ASSUME TypeOK, AdoptIssued
  PROVE  TypeOK'
<1> USE ThreadTypes DEF TypeOK, Goto, Place, Fault, NoFault, files, memory, server
<1>1. MaxFaults \in Nat
  BY CredentialsAssumption
<1>2. CASE Adopt
  BY <1>2 DEF Adopt
<1>3. CASE WriteKey
  BY <1>1, <1>3 DEF WriteKey
<1>4. CASE ForgetSecret
  BY <1>4 DEF ForgetSecret
<1>5. CASE OverwriteSecret
  BY <1>1, <1>5 DEF OverwriteSecret
<1>6. CASE UnlinkSecret
  BY <1>1, <1>6 DEF UnlinkSecret
<1> QED
  BY <1>2, <1>3, <1>4, <1>5, <1>6 DEF AdoptIssued

LEMMA SendTypes ==
  ASSUME TypeOK, NEW t \in Thread, Send(t) \/ SendAnswered(t) \/ SendFails(t)
  PROVE  TypeOK'
<1> USE ThreadTypes DEF TypeOK, Goto, files, memory, server
<1>1. CASE Send(t)
  BY <1>1 DEF Send, Place
<1>2. CASE SendRefused(t)
  BY <1>2, StartReloadTypes DEF SendRefused, Sending
<1>3. CASE SendAccepted(t)
  BY <1>3 DEF SendAccepted, Sending, Place
<1>4. CASE SendFails(t)
  BY <1>4 DEF SendFails, Sending
<1> QED
  BY <1>1, <1>2, <1>3, <1>4 DEF SendAnswered

LEMMA EnvironmentTypes ==
  ASSUME TypeOK, Environment
  PROVE  TypeOK'
<1> USE DEF TypeOK, Fault, Repair, files, memory, server, threads
<1>1. MaxFaults \in Nat /\ MaxRepairs \in Nat
  BY CredentialsAssumption
<1>2. CASE Restart
  BY <1>1, <1>2 DEF Restart, Nothing, Thread, Place
<1>3. CASE RevokeKey
  BY <1>1, <1>3 DEF RevokeKey
<1>4. CASE ProvisionSecret
  BY <1>1, <1>4 DEF ProvisionSecret
<1> QED
  BY <1>2, <1>3, <1>4 DEF Environment

LEMMA NextTypes == TypeOK /\ [Next]_vars => TypeOK'
<1> SUFFICES ASSUME TypeOK, [Next]_vars PROVE TypeOK'
  OBVIOUS
<1>1. CASE MainStep
  BY <1>1, ThreadTypes, ReloadTypes, RegisterTypes, AdoptTypes, SendTypes DEF MainStep
<1>2. CASE DispatcherStep
  BY <1>2, ThreadTypes, ReloadTypes, SendTypes DEF DispatcherStep
<1>3. CASE Environment
  BY <1>3, EnvironmentTypes
<1>4. CASE UNCHANGED vars
  BY <1>4 DEF TypeOK, vars, files, memory, server, threads
<1> QED
  BY <1>1, <1>2, <1>3, <1>4 DEF Next

\* Keys, secrets and threads have their types whatever the operator, the file system
\* and the answers do; in particular no file ever holds half a key.
THEOREM TypeCorrect == Spec => []TypeOK
<1> QED
  BY InitTypes, NextTypes, PTL DEF Spec

-----------------------------------------------------------------------------
(* The way back *)

\* The part of the argument main's actions and the operator can disturb.
Recoverable == IssuedKeyIsCarried /\ StoredKeyIsAccepted /\ RecoverableUnlessReused

\* A thread that only moves on, into none of the states of adoption, disturbs nothing
\* of it as long as the files, the server and what main carries there stay.
LEMMA ElsewhereIsSafe ==
  ASSUME TypeOK, Recoverable, UNCHANGED <<files, server>>,
         pc'["main"] \notin {"adopt", "write_key", "consume", "overwrite_secret", "unlink_secret"}
  PROVE  Recoverable'
BY DEF Recoverable, IssuedKeyIsCarried, StoredKeyIsAccepted, RecoverableUnlessReused,
       AlwaysRecoverable, files, server

\* The dispatcher leaves main where it is.
LEMMA DispatcherIsSafe ==
  ASSUME TypeOK, Recoverable, UNCHANGED <<files, server>>,
         pc'["main"] = pc["main"], carried'["main"] = carried["main"]
  PROVE  Recoverable'
BY DEF Recoverable, IssuedKeyIsCarried, StoredKeyIsAccepted, RecoverableUnlessReused,
       AlwaysRecoverable, files, server

LEMMA ReloadIsSafe ==
  ASSUME TypeOK, Recoverable, NEW t \in Thread, Reload(t)
  PROVE  Recoverable'
<1>1. UNCHANGED <<files, server, carried>>
  BY DEF Reload, ReadKeyFile, ReadSecretFile, EndReload
<1>2. pc' = [pc EXCEPT ![t] = pc'[t]]
      /\ pc'[t] \in {"reload_secret", "merge", "register", "heartbeat", "idle"}
  BY DEF TypeOK, Reload, ReadKeyFile, ReadSecretFile, EndReload, Goto
<1>3. CASE t = "main"
  BY <1>1, <1>2, <1>3, ElsewhereIsSafe
<1>4. CASE t # "main"
  <2>1. pc'["main"] = pc["main"]
    BY <1>2, <1>4, ThreadTypes DEF TypeOK
  <2> QED
    BY <1>1, <2>1, DispatcherIsSafe
<1> QED
  BY <1>3, <1>4

LEMMA SendIsSafe ==
  ASSUME TypeOK, Recoverable, NEW t \in Thread, Send(t) \/ SendAnswered(t) \/ SendFails(t)
  PROVE  Recoverable'
<1>1. UNCHANGED <<files, server>>
  BY DEF Send, SendAnswered, SendRefused, SendAccepted, SendFails, Sending
<1>2. pc' = [pc EXCEPT ![t] = pc'[t]]
      /\ pc'[t] \in {"sending", "reload_key", "register", "heartbeat", "idle"}
  BY ThreadTypes DEF TypeOK, Send, SendAnswered, SendRefused, SendAccepted, SendFails, Goto, StartReload
<1>3. carried' = [carried EXCEPT ![t] = carried'[t]]
  BY DEF TypeOK, Send, SendAnswered, SendRefused, SendAccepted, SendFails, Sending
<1>4. CASE t = "main"
  BY <1>1, <1>2, <1>4, ElsewhereIsSafe
<1>5. CASE t # "main"
  <2>1. pc'["main"] = pc["main"] /\ carried'["main"] = carried["main"]
    BY <1>2, <1>3, <1>5, ThreadTypes DEF TypeOK
  <2> QED
    BY <1>1, <2>1, DispatcherIsSafe
<1> QED
  BY <1>4, <1>5

\* The only step that issues a key either finds the secret on disk or is a reuse.
LEMMA RegisterIsSafe ==
  ASSUME TypeOK, Recoverable, PresentKey \/ PresentSecret \/ RegisterAnswered \/ RegisterFails
  PROVE  Recoverable'
<1>1. CASE RegisterEnrolls
  <2>1. carried'["main"] = serverKey' \/ pc'["main"] = "register"
    BY <1>1, ThreadTypes DEF RegisterEnrolls, Goto, TypeOK
  <2>2. pc'["main"] \in {"adopt", "register"}
    BY <1>1, ThreadTypes DEF RegisterEnrolls, Goto, TypeOK
  <2>3. reused' \/ secretFile' = Secret
    BY <1>1 DEF RegisterEnrolls, Registering, files
  <2> QED
    BY <2>1, <2>2, <2>3 DEF Recoverable, IssuedKeyIsCarried, StoredKeyIsAccepted,
                            RecoverableUnlessReused, AlwaysRecoverable
<1>2. CASE PresentKey \/ PresentSecret \/ RegisterAccepted \/ RegisterRefused \/ RegisterFails
  <2>1. UNCHANGED <<files, server>>
    BY <1>2 DEF PresentKey, PresentSecret, RegisterAccepted, RegisterRefused, RegisterFails, Registering
  <2>2. pc'["main"] \in {"present", "registering", "heartbeat", "reload_key", "register"}
    BY <1>2, ThreadTypes DEF PresentKey, PresentSecret, RegisterAccepted, RegisterRefused,
                             RegisterFails, Goto, StartReload, TypeOK
  <2> QED
    BY <2>1, <2>2, ElsewhereIsSafe
<1> QED
  BY <1>1, <1>2 DEF RegisterAnswered

\* The secret goes only when the key file holds the accepted key.
LEMMA AdoptIsSafe ==
  ASSUME TypeOK, Recoverable, AdoptIssued
  PROVE  Recoverable'
<1> USE ThreadTypes DEF Recoverable, IssuedKeyIsCarried, StoredKeyIsAccepted,
                        RecoverableUnlessReused, AlwaysRecoverable, TypeOK, Goto, files, server
<1>1. CASE Adopt
  BY <1>1 DEF Adopt
<1>2. CASE WriteKey
  BY <1>2 DEF WriteKey
<1>3. CASE ForgetSecret
  BY <1>3 DEF ForgetSecret
<1>4. CASE OverwriteSecret
  BY <1>4 DEF OverwriteSecret
<1>5. CASE UnlinkSecret
  BY <1>5 DEF UnlinkSecret
<1> QED
  BY <1>1, <1>2, <1>3, <1>4, <1>5 DEF AdoptIssued

LEMMA EnvironmentIsSafe ==
  ASSUME TypeOK, Recoverable, Environment
  PROVE  Recoverable'
<1> USE DEF Recoverable, IssuedKeyIsCarried, StoredKeyIsAccepted, RecoverableUnlessReused,
            AlwaysRecoverable, files, server, threads
<1>1. CASE Restart
  <2>1. UNCHANGED <<files, server>> /\ pc'["main"] = "register"
    BY <1>1, ThreadTypes DEF Restart
  <2> QED
    BY <2>1, ElsewhereIsSafe
<1>2. CASE RevokeKey
  BY <1>2 DEF RevokeKey
<1>3. CASE ProvisionSecret
  BY <1>3 DEF ProvisionSecret
<1> QED
  BY <1>1, <1>2, <1>3 DEF Environment

\* Whatever fails, wherever the process ends and however the reload of one thread
\* meets the adoption of the other: unless a secret was presented whose file was
\* consumed, the disk holds the key the server accepts or a secret that buys one.
THEOREM RecoverableAlways == Spec => []RecoverableUnlessReused
<1>1. Init => TypeOK /\ Recoverable
  BY InitTypes DEF Init, Recoverable, IssuedKeyIsCarried, StoredKeyIsAccepted,
                   RecoverableUnlessReused, AlwaysRecoverable, Thread
<1>2. TypeOK /\ Recoverable /\ [Next]_vars => (TypeOK /\ Recoverable)'
  <2> SUFFICES ASSUME TypeOK, Recoverable, [Next]_vars PROVE (TypeOK /\ Recoverable)'
    OBVIOUS
  <2>1. TypeOK'
    BY NextTypes
  <2>2. CASE MainStep
    BY <2>2, <2>1, ThreadTypes, ReloadIsSafe, RegisterIsSafe, AdoptIsSafe, SendIsSafe DEF MainStep
  <2>3. CASE DispatcherStep
    BY <2>3, <2>1, ThreadTypes, ReloadIsSafe, SendIsSafe DEF DispatcherStep
  <2>4. CASE Environment
    BY <2>4, <2>1, EnvironmentIsSafe
  <2>5. CASE UNCHANGED vars
    BY <2>5, <2>1, DispatcherIsSafe DEF vars, threads
  <2> QED
    BY <2>2, <2>3, <2>4, <2>5 DEF Next
<1>3. TypeOK /\ Recoverable => RecoverableUnlessReused
  BY DEF Recoverable
<1> QED
  BY <1>1, <1>2, <1>3, PTL DEF Spec
================================================================================
