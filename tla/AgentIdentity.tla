------------------------------ MODULE AgentIdentity ------------------------------
(***************************************************************************)
(* The name an agent goes by: agent_id, derived once from the host name    *)
(* and the machine's fingerprint and frozen in a file, so that renaming    *)
(* the machine does not part the agent from the key that was issued for    *)
(* its name.  The steps are those of resolve_agent_id at a start; between  *)
(* them the process may die, and the file system may refuse to read or     *)
(* write.                                                                  *)
(*                                                                         *)
(* A name is a host part and a core; core 0 stands for the fingerprint of  *)
(* this machine, any other for a random one.                               *)
(***************************************************************************)
EXTENDS Naturals

CONSTANTS Hostnames   \* names the machine may be given

VARIABLES
    hostname,       \* the machine's name
    fingerprinted,  \* the machine has a stable identifier
    configured,     \* agent_id in config.json
    identityFile,   \* what the identity file holds
    temporary,      \* what its .tmp sibling holds
    resolving,      \* how far resolve_agent_id is
    agentId,        \* the name found so far
    keyOwner,       \* the name the server issued the stored key for
    drawn,          \* random cores drawn so far
    mishap,         \* history: the file was lost, not readable or not writable
    renamed         \* history: the machine was renamed

identityVars == <<hostname, fingerprinted, configured, identityFile, temporary,
                  resolving, agentId, keyOwner, drawn, mishap, renamed>>
machine == <<hostname, fingerprinted, configured, renamed>>

Nobody == [host |-> "nobody", core |-> 0]
Truncated == [host |-> "truncated", core |-> 0]
Chosen == [host |-> "chosen", core |-> 0]

\* A machine the agent was installed on.
Machine == [hostname : Hostnames, fingerprinted : BOOLEAN, configured : {Nobody, Chosen}]

IdentityInit(m) ==
    /\ hostname = m.hostname /\ fingerprinted = m.fingerprinted /\ configured = m.configured
    /\ identityFile = Nobody /\ temporary = Nobody
    /\ resolving = "start" /\ agentId = Nobody /\ keyOwner = Nobody
    /\ drawn = 0 /\ mishap = FALSE /\ renamed = FALSE

\* agent_id in config.json wins; the file is neither read nor written.
TakeConfigured ==
    /\ resolving = "start" /\ configured # Nobody
    /\ agentId' = configured /\ resolving' = "done"
    /\ UNCHANGED <<machine, identityFile, temporary, keyOwner, drawn, mishap>>

TakeFrozen ==
    /\ resolving = "start" /\ configured = Nobody /\ identityFile # Nobody
    /\ agentId' = identityFile /\ resolving' = "done"
    /\ UNCHANGED <<machine, identityFile, temporary, keyOwner, drawn, mishap>>

\* Mutant: the name is derived anew at every start and never frozen.
DeriveOnly ==
    /\ resolving = "start" /\ configured = Nobody
    /\ mishap' = (mishap \/ identityFile # Nobody)
    /\ drawn' = IF fingerprinted THEN drawn ELSE drawn + 1
    /\ agentId' = [host |-> hostname, core |-> IF fingerprinted THEN 0 ELSE drawn + 1]
    /\ resolving' = "done"
    /\ UNCHANGED <<machine, identityFile, temporary, keyOwner>>

\* derive_agent_id, after no file was found, or one that could not be read.
Derive ==
    /\ resolving = "start" /\ configured = Nobody
    /\ mishap' = (mishap \/ identityFile # Nobody)
    /\ drawn' = IF fingerprinted THEN drawn ELSE drawn + 1
    /\ agentId' = [host |-> hostname, core |-> IF fingerprinted THEN 0 ELSE drawn + 1]
    /\ resolving' = "freeze"
    /\ UNCHANGED <<machine, identityFile, temporary, keyOwner>>

\* Mutant: the name is written over the identity file itself.
WriteInPlace ==
    /\ resolving = "freeze"
    /\ identityFile' = Truncated /\ resolving' = "replace"
    /\ UNCHANGED <<machine, temporary, agentId, keyOwner, drawn, mishap>>

\* _freeze_agent_id: the name goes to a temporary file, which for a while holds a
\* part of it, and then replaces the identity file in one step.
WriteTemporary ==
    /\ resolving = "freeze"
    /\ temporary' = Truncated /\ resolving' = "replace"
    /\ UNCHANGED <<machine, identityFile, agentId, keyOwner, drawn, mishap>>

Replace ==
    /\ resolving = "replace"
    /\ identityFile' = agentId /\ temporary' = Nobody /\ resolving' = "done"
    /\ UNCHANGED <<machine, agentId, keyOwner, drawn, mishap>>

\* Writing failed: the name holds for this run only.  What was written of the
\* temporary file is removed, if that works.
FreezeFails ==
    /\ resolving \in {"freeze", "replace"}
    /\ temporary' \in {Nobody, temporary} /\ mishap' = TRUE /\ resolving' = "done"
    /\ UNCHANGED <<machine, identityFile, agentId, keyOwner, drawn>>

ResolveStep ==
    TakeConfigured \/ TakeFrozen \/ Derive \/ WriteTemporary \/ Replace \/ FreezeFails

\* The process ended; the files stay.
Forget ==
    /\ resolving' = "start" /\ agentId' = Nobody
    /\ UNCHANGED <<machine, identityFile, temporary, keyOwner, drawn, mishap>>

\* The server issues a key for the name the enrollment request carries.
Enroll ==
    /\ keyOwner' = IF keyOwner = Nobody THEN agentId ELSE keyOwner
    /\ UNCHANGED <<machine, identityFile, temporary, resolving, agentId, drawn, mishap>>

Rename ==
    /\ hostname' \in Hostnames \ {hostname} /\ renamed' = TRUE
    /\ UNCHANGED <<fingerprinted, configured, identityFile, temporary, resolving,
                   agentId, keyOwner, drawn, mishap>>

LoseIdentityFile ==
    /\ identityFile # Nobody /\ identityFile' = Nobody /\ mishap' = TRUE
    /\ UNCHANGED <<machine, temporary, resolving, agentId, keyOwner, drawn>>

-----------------------------------------------------------------------------
Name == [host : Hostnames, core : Nat] \cup {Nobody, Chosen}

IdentityTypeOK ==
    /\ hostname \in Hostnames /\ configured \in {Nobody, Chosen}
    /\ {fingerprinted, mishap, renamed} \subseteq BOOLEAN
    /\ identityFile \in Name /\ temporary \in {Nobody, Truncated}
    /\ agentId \in Name /\ keyOwner \in Name
    /\ resolving \in {"start", "freeze", "replace", "done"}
    /\ drawn \in Nat

\* The server refuses for good a key that was issued for another name (403), and
\* the secret that could buy a new one is consumed.
NameFitsKey == keyOwner \in {Nobody, agentId}

\* What freezing is for (module docstring): a rename alone never parts the agent
\* from its key, nor does a lost or unwritable identity file alone on a machine
\* with a fingerprint.  It takes both, or a machine without one.
KeepsItsName ==
    resolving = "done" /\ ~NameFitsKey => mishap /\ (renamed \/ ~fingerprinted)
===============================================================================
