------------------------------- MODULE SyncKeys -------------------------------
(***************************************************************************)
(* End-to-end encrypted sync: how the devices of one account come to its   *)
(* account key.  The first device founds a key and keeps it in an envelope *)
(* of its own; another device is approved by one that has the key, or      *)
(* recovers it with the account's recovery code.  The service sees         *)
(* envelopes only: a key stands for whatever it is that one opens.         *)
(*                                                                         *)
(* Nothing here is a transaction of several statements.  An UPDATE that    *)
(* joins other rows reads them when it starts, waits for the row it        *)
(* changes, and then looks again at that row and at no other: its start    *)
(* and its end are two steps.                                              *)
(***************************************************************************)
EXTENDS Integers, FiniteSets, FiniteSetsExt

CONSTANTS
  SyncDevices,   \* devices of the account, registered and active
  AccountKeys,   \* keys the clients make up: each founding has a new one
  Codes,         \* recovery codes the clients make up, by their hash
  SyncRequests,  \* handlers that may run at the same time
  MaxStored      \* bound: how often a code has been stored when the last one is sent

NoAccountKey == "no account key"
NoRecovery == [row |-> 0]
ASSUME AccountKeysAssumption == NoAccountKey \notin AccountKeys

VARIABLES
  cloud,        \* the account is active and has paid access
  syncDevice,   \* pressay_device, as far as sync goes
  recovery,     \* account_recovery_code; "row" is the row a rotation updates
  recoveryRows, \* how many rows there have been
  syncRequest,  \* the handlers
  made,         \* the keys that clients have made up
  stored,       \* how many times each code was stored
  opened        \* how many recoveries each code was answered for

answers == <<stored, opened>>
syncKeysVars ==
  <<cloud, syncDevice, recovery, recoveryRows, syncRequest, made, answers>>

-----------------------------------------------------------------------------
(* Types *)

Envelopes == AccountKeys \cup {NoAccountKey}
RecoveryRow == [code : Codes, key : AccountKeys, row : Nat]
SyncIdle == [op |-> "idle"]
SyncRequest ==
  [op : {"enrol"}, device : SyncDevices, key : Envelopes, first : BOOLEAN]
    \cup [op : {"approve"}, device : SyncDevices, key : AccountKeys]
    \cup [op : {"configure"}, code : Codes, key : AccountKeys]
    \cup [op : {"delete"}]
    \cup [op : {"recover"}, device : SyncDevices, seen : RecoveryRow]
    \cup {SyncIdle}

SyncKeysTypeOK ==
  /\ cloud \in BOOLEAN
  /\ syncDevice \in [SyncDevices ->
       [revoked : BOOLEAN, published : BOOLEAN, envelope : Envelopes]]
  /\ recovery \in RecoveryRow \cup {NoRecovery}
  /\ recoveryRows \in Nat
  /\ syncRequest \in [SyncRequests -> SyncRequest]
  /\ made \in SUBSET AccountKeys
  /\ stored \in [Codes -> Nat]
  /\ opened \in [Codes -> Nat]

SyncKeysInit ==
  /\ cloud = TRUE
  /\ syncDevice = [d \in SyncDevices |->
       [revoked |-> FALSE, published |-> FALSE, envelope |-> NoAccountKey]]
  /\ recovery = NoRecovery
  /\ recoveryRows = 0
  /\ syncRequest = [r \in SyncRequests |-> SyncIdle]
  /\ made = {}
  /\ stored = [c \in Codes |-> 0]
  /\ opened = [c \in Codes |-> 0]

HasKey(d) == syncDevice[d].envelope # NoAccountKey

\* Faulty variant of Approved: any device that is registered is let in.
ApprovedIfActive(d) == cloud /\ ~syncDevice[d].revoked

\* approved_at is set with the envelope; what assertApprovedSyncDevice asks for.
Approved(d) == cloud /\ HasKey(d) /\ ~syncDevice[d].revoked

SyncStarts(r, what) ==
  /\ syncRequest[r] = SyncIdle
  /\ syncRequest' = [syncRequest EXCEPT ![r] = what]

Running(r, op) == syncRequest[r].op = op

SyncEnds(r) == syncRequest' = [syncRequest EXCEPT ![r] = SyncIdle]

\* Faulty variant of Fits: an envelope is replaced, whatever it holds.
FitsAnyway(d, k) == syncDevice[d].published /\ ~syncDevice[d].revoked

\* A published key that is not approved yet, or that has this very envelope.
Fits(d, k) ==
  /\ syncDevice[d].published
  /\ ~syncDevice[d].revoked
  /\ syncDevice[d].envelope \in {NoAccountKey, k}

-----------------------------------------------------------------------------
(* Enrolment and approval *)

\* The statement counts the approved devices when it starts.  A client that wants
\* to be the first sends the envelope of a new key.
BeginEnrol(r, d, k) ==
  /\ cloud
  /\ ~syncDevice[d].revoked
  /\ k \in (AccountKeys \ made) \cup {NoAccountKey}
  /\ SyncStarts(r, [op |-> "enrol", device |-> d, key |-> k,
       first |-> \A e \in SyncDevices : HasKey(e) => syncDevice[e].revoked])
  /\ made' = made \cup ({k} \ {NoAccountKey})
  /\ UNCHANGED <<cloud, syncDevice, recovery, recoveryRows, answers>>

\* It writes for the first device if it was the first then; a first device without
\* an envelope is refused.
Enrol(r) ==
  LET s == syncRequest[r]
  IN  /\ Running(r, "enrol")
      /\ syncDevice' =
           IF s.first
             THEN IF s.key = NoAccountKey THEN syncDevice
                  ELSE [syncDevice EXCEPT ![s.device].published = TRUE,
                                          ![s.device].envelope = s.key]
             ELSE [syncDevice EXCEPT ![s.device].published = TRUE]
      /\ SyncEnds(r)
      /\ UNCHANGED <<cloud, recovery, recoveryRows, made, answers>>

\* The approver sends the key of its envelope in one for the other device.
BeginApprove(r, d, approver) ==
  /\ Approved(approver)
  /\ Fits(d, syncDevice[approver].envelope)
  /\ SyncStarts(r, [op |-> "approve", device |-> d, key |-> syncDevice[approver].envelope])
  /\ UNCHANGED <<cloud, syncDevice, recovery, recoveryRows, made, answers>>

Receives(d, k) ==
  syncDevice' = IF Fits(d, k) THEN [syncDevice EXCEPT ![d].envelope = k] ELSE syncDevice

Approve(r) ==
  /\ Running(r, "approve")
  /\ Receives(syncRequest[r].device, syncRequest[r].key)
  /\ SyncEnds(r)
  /\ UNCHANGED <<cloud, recovery, recoveryRows, made, answers>>

-----------------------------------------------------------------------------
(* Recovery *)

Storings == MapThenSumSet(LAMBDA c : stored[c], Codes)

\* assertApprovedSyncDevice, then a statement that checks nothing more: a code may be
\* one that was stored before, when a client repeats its request.
BeginConfigure(r, d, c) ==
  /\ Approved(d)
  /\ Storings < MaxStored
  /\ SyncStarts(r, [op |-> "configure", code |-> c, key |-> syncDevice[d].envelope])
  /\ UNCHANGED <<cloud, syncDevice, recovery, recoveryRows, made, answers>>

Configure(r) ==
  /\ Running(r, "configure")
  /\ recoveryRows' = IF recovery = NoRecovery THEN recoveryRows + 1 ELSE recoveryRows
  /\ recovery' = [code |-> syncRequest[r].code, key |-> syncRequest[r].key,
                  row |-> recoveryRows']
  /\ stored' = [stored EXCEPT ![syncRequest[r].code] = @ + 1]
  /\ SyncEnds(r)
  /\ UNCHANGED <<cloud, syncDevice, made, opened>>

BeginDelete(r, d) ==
  /\ Approved(d)
  /\ SyncStarts(r, [op |-> "delete"])
  /\ UNCHANGED <<cloud, syncDevice, recovery, recoveryRows, made, answers>>

DeleteRecovery(r) ==
  /\ Running(r, "delete")
  /\ recovery' = NoRecovery
  /\ SyncEnds(r)
  /\ UNCHANGED <<cloud, syncDevice, recoveryRows, made, answers>>

\* beginSyncRecovery: the device publishes its key, whoever knows the code.
BeginRecovery(d) ==
  /\ cloud
  /\ recovery # NoRecovery
  /\ ~syncDevice[d].revoked
  /\ syncDevice' = [syncDevice EXCEPT ![d].published = TRUE]
  /\ UNCHANGED <<cloud, recovery, recoveryRows, syncRequest, made, answers>>

\* completeSyncRecovery compares the code when it starts ...
BeginComplete(r, d) ==
  /\ cloud
  /\ recovery # NoRecovery
  /\ Fits(d, recovery.key)
  /\ SyncStarts(r, [op |-> "recover", device |-> d, seen |-> recovery])
  /\ UNCHANGED <<cloud, syncDevice, recovery, recoveryRows, made, answers>>

\* Faulty variant of StillThere: the code was right when it was compared.
WasThere(seen) == TRUE

StillThere(seen) == recovery # NoRecovery /\ recovery.row = seen.row

\* ... and deletes the row it saw, as it is by then: also with another code.  It
\* is answered by what it deleted; its device is approved in any case.
CompleteRecovery(r) ==
  LET s == syncRequest[r]
  IN  /\ Running(r, "recover")
      /\ Receives(s.device, s.seen.key)
      /\ IF Fits(s.device, s.seen.key) /\ StillThere(s.seen)
           THEN /\ recovery' = NoRecovery
                /\ opened' = [opened EXCEPT ![s.seen.code] = @ + 1]
           ELSE UNCHANGED <<recovery, opened>>
      /\ SyncEnds(r)
      /\ UNCHANGED <<cloud, recoveryRows, made, stored>>

-----------------------------------------------------------------------------
(* Around it *)

\* A statement that fails, a function that is killed.
SyncFails(r) ==
  /\ syncRequest[r] # SyncIdle
  /\ SyncEnds(r)
  /\ UNCHANGED <<cloud, syncDevice, recovery, recoveryRows, made, answers>>

\* revokeDevice and restoreOwnDevice touch revoked_at alone: an approval stays.
RevokeOrRestore(d) ==
  /\ syncDevice' = [syncDevice EXCEPT ![d].revoked = ~@]
  /\ UNCHANGED <<cloud, recovery, recoveryRows, syncRequest, made, answers>>

AccessChanges ==
  /\ cloud' = ~cloud
  /\ UNCHANGED <<syncDevice, recovery, recoveryRows, syncRequest, made, answers>>

SyncKeysStep(r) ==
  \/ \E d \in SyncDevices, k \in Envelopes : BeginEnrol(r, d, k)
  \/ Enrol(r)
  \/ \E d, e \in SyncDevices : BeginApprove(r, d, e)
  \/ Approve(r)
  \/ \E d \in SyncDevices, c \in Codes : BeginConfigure(r, d, c)
  \/ Configure(r)
  \/ \E d \in SyncDevices : BeginDelete(r, d) \/ BeginComplete(r, d)
  \/ DeleteRecovery(r)
  \/ CompleteRecovery(r)
  \/ SyncFails(r)

SyncKeysNext ==
  \/ \E r \in SyncRequests : SyncKeysStep(r)
  \/ \E d \in SyncDevices : BeginRecovery(d) \/ RevokeOrRestore(d)
  \/ AccessChanges

SyncKeysSpec == SyncKeysInit /\ [][SyncKeysNext]_syncKeysVars

-----------------------------------------------------------------------------
(* Properties *)

\* completeSyncRecovery: each time a code is stored it is answered for one recovery at
\* most, however many devices present it at once, whatever rotates or removes it
\* meanwhile and however often its storing is repeated.
CodeOpensOnce == \A c \in Codes : opened[c] <= stored[c]

\* A device that has an envelope keeps the key in it: approvals, recoveries and
\* retries never give it another.  Only an enrolment of its own that started before
\* any device was approved can (enrollSyncDevice).
KeepsItsKey ==
  \A d \in SyncDevices :
    (HasKey(d) /\ syncDevice'[d].envelope # syncDevice[d].envelope)
      => \E r \in SyncRequests :
           /\ Running(r, "enrol") /\ syncRequest[r].device = d /\ syncRequest[r].first
           /\ syncRequest'[r] = SyncIdle
EnvelopesKept == [][KeepsItsKey]_syncKeysVars

=============================================================================
