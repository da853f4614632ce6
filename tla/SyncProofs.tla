--------------------------------- MODULE SyncProofs ---------------------------------
(***************************************************************************)
(* Proofs of SyncKeys and SyncLog, for any number of devices, keys, codes, *)
(* handlers, writers and readers at once: how the devices of an account    *)
(* come to its key, what a reader of the log may miss and what it is told. *)
(*                                                                         *)
(* The log rests on its lock: sequence numbers are drawn before it is      *)
(* taken, so that a reader only misses what was in flight when it read     *)
(* (SyncLogInv).                                                           *)
(***************************************************************************)
EXTENDS SyncKeys, SyncLog, FiniteSetTheorems, WellFoundedInduction, TLAPS

-----------------------------------------------------------------------------
(* KEYS                                                                    *)

(* Types *)

LEMMA NoRecoveryIsNoRow == NoRecovery \notin RecoveryRow
<1>1. ASSUME NEW x \in RecoveryRow PROVE "code" \in DOMAIN x
  BY <1>1 DEF RecoveryRow
<1>2. "code" \notin DOMAIN NoRecovery
  BY DEF NoRecovery
<1>3. QED
  BY <1>1, <1>2

\* The request of a handler has what its operation needs.
LEMMA RequestRecord ==
  ASSUME SyncKeysTypeOK, NEW r \in SyncRequests
  PROVE  LET s == syncRequest[r]
         IN  /\ Running(r, "enrol") => s.device \in SyncDevices /\ s.key \in Envelopes
             /\ Running(r, "approve") => s.device \in SyncDevices /\ s.key \in AccountKeys
             /\ Running(r, "configure") => s.code \in Codes /\ s.key \in AccountKeys
             /\ Running(r, "recover") => s.device \in SyncDevices /\ s.seen \in RecoveryRow
<1> DEFINE s == syncRequest[r]
<1>1. s \in SyncRequest
  BY DEF SyncKeysTypeOK
<1> HIDE DEF s
<1>2. /\ s.op = "enrol" => s.device \in SyncDevices /\ s.key \in Envelopes
      /\ s.op = "approve" => s.device \in SyncDevices /\ s.key \in AccountKeys
      /\ s.op = "configure" => s.code \in Codes /\ s.key \in AccountKeys
      /\ s.op = "recover" => s.device \in SyncDevices /\ s.seen \in RecoveryRow
  BY <1>1 DEF SyncRequest, SyncIdle
<1>3. QED
  BY <1>2 DEF s, Running

LEMMA StartsType ==
  ASSUME SyncKeysTypeOK, NEW r \in SyncRequests, NEW what \in SyncRequest, SyncStarts(r, what)
  PROVE  syncRequest' \in [SyncRequests -> SyncRequest]
  BY DEF SyncKeysTypeOK, SyncStarts

LEMMA EndsType ==
  ASSUME SyncKeysTypeOK, NEW r \in SyncRequests, SyncEnds(r)
  PROVE  syncRequest' \in [SyncRequests -> SyncRequest]
  BY DEF SyncKeysTypeOK, SyncEnds, SyncRequest

SyncDevice == [revoked : BOOLEAN, published : BOOLEAN, envelope : Envelopes]

LEMMA ReceivesType ==
  ASSUME SyncKeysTypeOK, NEW d \in SyncDevices, NEW k \in AccountKeys, Receives(d, k)
  PROVE  syncDevice' \in [SyncDevices -> SyncDevice]
  BY DEF SyncKeysTypeOK, Receives, Envelopes, SyncDevice

\* A device that may approve has a key in its envelope.
LEMMA ApprovedHasKey ==
  ASSUME SyncKeysTypeOK, NEW d \in SyncDevices, Approved(d)
  PROVE  syncDevice[d].envelope \in AccountKeys
  BY DEF SyncKeysTypeOK, Approved, HasKey, Envelopes

LEMMA SyncKeysTypeStep == SyncKeysTypeOK /\ [SyncKeysNext]_syncKeysVars => SyncKeysTypeOK'
<1> SUFFICES ASSUME SyncKeysTypeOK, [SyncKeysNext]_syncKeysVars PROVE SyncKeysTypeOK'
  OBVIOUS
<1> USE DEF answers
<1>t. /\ cloud \in BOOLEAN /\ syncDevice \in [SyncDevices -> SyncDevice]
      /\ recovery \in RecoveryRow \cup {NoRecovery} /\ recoveryRows \in Nat
      /\ made \in SUBSET AccountKeys
      /\ stored \in [Codes -> Nat] /\ opened \in [Codes -> Nat]
  BY DEF SyncKeysTypeOK, SyncDevice
<1>q. SUFFICES /\ cloud' \in BOOLEAN /\ syncDevice' \in [SyncDevices -> SyncDevice]
               /\ recovery' \in RecoveryRow \cup {NoRecovery} /\ recoveryRows' \in Nat
               /\ made' \in SUBSET AccountKeys
               /\ stored' \in [Codes -> Nat] /\ opened' \in [Codes -> Nat]
               /\ syncRequest' \in [SyncRequests -> SyncRequest]
  BY DEF SyncKeysTypeOK, SyncDevice
<1> DEFINE Typed == /\ cloud' \in BOOLEAN /\ syncDevice' \in [SyncDevices -> SyncDevice]
                    /\ recovery' \in RecoveryRow \cup {NoRecovery} /\ recoveryRows' \in Nat
                    /\ made' \in SUBSET AccountKeys
               /\ stored' \in [Codes -> Nat] /\ opened' \in [Codes -> Nat]
                    /\ syncRequest' \in [SyncRequests -> SyncRequest]
<1>1. ASSUME NEW r \in SyncRequests, NEW d \in SyncDevices, NEW k \in Envelopes,
             BeginEnrol(r, d, k)
      PROVE  Typed
  <2> DEFINE first == \A e \in SyncDevices : HasKey(e) => syncDevice[e].revoked
             what == [op |-> "enrol", device |-> d, key |-> k, first |-> first]
  <2>1. what \in SyncRequest
    <3>1. first \in BOOLEAN
      OBVIOUS
    <3> HIDE DEF first
    <3>2. QED
      BY <3>1 DEF SyncRequest
  <2>2. SyncStarts(r, what)
    BY <1>1 DEF BeginEnrol
  <2> HIDE DEF what
  <2>3. k \in AccountKeys \cup {NoAccountKey}
    BY DEF Envelopes
  <2>4. QED
    BY <1>1, <1>t, <2>1, <2>2, <2>3, StartsType DEF BeginEnrol
<1>2. ASSUME NEW r \in SyncRequests, Enrol(r) PROVE Typed
  <2>1. syncRequest[r].device \in SyncDevices /\ syncRequest[r].key \in Envelopes
    BY <1>2, RequestRecord DEF Enrol
  <2>2. syncDevice' \in [SyncDevices -> SyncDevice]
    BY <1>2, <1>t, <2>1 DEF Enrol, SyncDevice
  <2>3. QED
    BY <1>2, <1>t, <2>2, EndsType DEF Enrol
<1>3. ASSUME NEW r \in SyncRequests, NEW d \in SyncDevices, NEW e \in SyncDevices,
             BeginApprove(r, d, e)
      PROVE  Typed
  <2> DEFINE what == [op |-> "approve", device |-> d, key |-> syncDevice[e].envelope]
  <2>1. what \in SyncRequest /\ SyncStarts(r, what)
    BY <1>3, ApprovedHasKey DEF BeginApprove, SyncRequest
  <2>2. QED
    BY <1>3, <1>t, <2>1, StartsType DEF BeginApprove
<1>4. ASSUME NEW r \in SyncRequests, Approve(r) PROVE Typed
  <2>1. syncRequest[r].device \in SyncDevices /\ syncRequest[r].key \in AccountKeys
    BY <1>4, RequestRecord DEF Approve
  <2>2. QED
    BY <1>4, <1>t, <2>1, ReceivesType, EndsType DEF Approve
<1>5. ASSUME NEW r \in SyncRequests, NEW d \in SyncDevices, NEW c \in Codes,
             BeginConfigure(r, d, c)
      PROVE  Typed
  <2> DEFINE what == [op |-> "configure", code |-> c, key |-> syncDevice[d].envelope]
  <2>1. what \in SyncRequest /\ SyncStarts(r, what)
    BY <1>5, ApprovedHasKey DEF BeginConfigure, SyncRequest
  <2>2. QED
    BY <1>5, <1>t, <2>1, StartsType DEF BeginConfigure
<1>6. ASSUME NEW r \in SyncRequests, Configure(r) PROVE Typed
  <2>1. syncRequest[r].code \in Codes /\ syncRequest[r].key \in AccountKeys
    BY <1>6, RequestRecord DEF Configure
  <2>2. recoveryRows' \in Nat
    BY <1>6, <1>t DEF Configure
  <2>3. recovery' \in RecoveryRow
    BY <1>6, <2>1, <2>2 DEF Configure, RecoveryRow
  <2>4. stored' \in [Codes -> Nat]
    BY <1>6, <1>t, <2>1 DEF Configure
  <2>5. QED
    BY <1>6, <1>t, <2>2, <2>3, <2>4, EndsType DEF Configure
<1>7. ASSUME NEW r \in SyncRequests, NEW d \in SyncDevices, BeginDelete(r, d) PROVE Typed
  BY <1>7, <1>t, StartsType DEF BeginDelete, SyncRequest
<1>8. ASSUME NEW r \in SyncRequests, DeleteRecovery(r) PROVE Typed
  BY <1>8, <1>t, EndsType DEF DeleteRecovery
<1>9. ASSUME NEW r \in SyncRequests, NEW d \in SyncDevices, BeginComplete(r, d) PROVE Typed
  <2> DEFINE what == [op |-> "recover", device |-> d, seen |-> recovery]
  <2>1. what \in SyncRequest /\ SyncStarts(r, what)
    BY <1>9, <1>t DEF BeginComplete, SyncRequest
  <2>2. QED
    BY <1>9, <1>t, <2>1, StartsType DEF BeginComplete
<1>10. ASSUME NEW r \in SyncRequests, CompleteRecovery(r) PROVE Typed
  <2>1. syncRequest[r].device \in SyncDevices /\ syncRequest[r].seen \in RecoveryRow
    BY <1>10, RequestRecord DEF CompleteRecovery
  <2>2. syncRequest[r].seen.key \in AccountKeys /\ syncRequest[r].seen.code \in Codes
    BY <2>1 DEF RecoveryRow
  <2>3. syncDevice' \in [SyncDevices -> SyncDevice]
    BY <1>10, <2>1, <2>2, ReceivesType DEF CompleteRecovery
  <2>4. recovery' \in RecoveryRow \cup {NoRecovery} /\ opened' \in [Codes -> Nat]
    BY <1>10, <1>t, <2>2 DEF CompleteRecovery
  <2>5. QED
    BY <1>10, <1>t, <2>3, <2>4, EndsType DEF CompleteRecovery
<1>11. ASSUME NEW r \in SyncRequests, SyncFails(r) PROVE Typed
  BY <1>11, <1>t, EndsType DEF SyncFails
<1>12. ASSUME NEW d \in SyncDevices, BeginRecovery(d) \/ RevokeOrRestore(d) PROVE Typed
  <2>1. syncDevice' \in [SyncDevices -> SyncDevice]
    <3>1. CASE BeginRecovery(d)
      BY <3>1, <1>t DEF BeginRecovery, SyncDevice
    <3>2. CASE RevokeOrRestore(d)
      BY <3>2, <1>t DEF RevokeOrRestore, SyncDevice
    <3>3. QED
      BY <1>12, <3>1, <3>2
  <2>2. QED
    BY <1>12, <1>t, <2>1 DEF BeginRecovery, RevokeOrRestore, SyncKeysTypeOK
<1>13. CASE AccessChanges
  BY <1>13, <1>t DEF AccessChanges, SyncKeysTypeOK
<1>14. CASE UNCHANGED syncKeysVars
  BY <1>14, <1>t DEF syncKeysVars, SyncKeysTypeOK
<1>15. QED
  BY <1>1, <1>2, <1>3, <1>4, <1>5, <1>6, <1>7, <1>8, <1>9, <1>10, <1>11, <1>12, <1>13, <1>14
  DEF SyncKeysNext, SyncKeysStep

LEMMA SyncKeysTypeInit == SyncKeysInit => SyncKeysTypeOK
  BY DEF SyncKeysInit, SyncKeysTypeOK, SyncRequest, Envelopes

\* Every variable of the account's keys stays in its type.
THEOREM SyncKeysTypeCorrect == SyncKeysSpec => []SyncKeysTypeOK
  BY SyncKeysTypeInit, SyncKeysTypeStep, PTL DEF SyncKeysSpec

-----------------------------------------------------------------------------
(* What the handlers know *)

Recovering(r) == Running(r, "recover")

\* A row that is deleted is not seen again: each new one has a number of its own.
RowsInOrder ==
  /\ recovery # NoRecovery => recovery.row = recoveryRows
  /\ \A r \in SyncRequests : Recovering(r) => syncRequest[r].seen.row <= recoveryRows

\* A code that the row has, or had when somebody compared it, may still be answered.
MayOpen(c) ==
  /\ recovery # NoRecovery
  /\ \/ recovery.code = c
     \/ \E r \in SyncRequests : /\ Recovering(r) /\ syncRequest[r].seen.code = c
                                /\ StillThere(syncRequest[r].seen)

\* Such a code has been stored once more than it was answered.
StoredForOneMore == \A c \in Codes : MayOpen(c) => opened[c] < stored[c]

SyncKeysInv == SyncKeysTypeOK /\ RowsInOrder /\ StoredForOneMore /\ CodeOpensOnce

LEMMA SyncKeysInvInit == SyncKeysInit => SyncKeysInv
  BY SyncKeysTypeInit
  DEF SyncKeysInit, SyncKeysInv, RowsInOrder, StoredForOneMore, MayOpen, CodeOpensOnce,
      Recovering, Running, SyncIdle

Rest == RowsInOrder /\ StoredForOneMore /\ CodeOpensOnce

\* A step that leaves the row alone, and nobody knows anything new after it.
LEMMA NothingLearned ==
  ASSUME SyncKeysInv, UNCHANGED <<recovery, recoveryRows, answers>>,
         \A r \in SyncRequests : Recovering(r)' => syncRequest'[r] = syncRequest[r]
  PROVE  Rest'
<1>1. \A r \in SyncRequests :
        Recovering(r)' => Recovering(r) /\ syncRequest'[r] = syncRequest[r]
  BY DEF Recovering, Running
<1>2. RowsInOrder'
  BY <1>1 DEF SyncKeysInv, RowsInOrder
<1>3. \A c \in Codes : MayOpen(c)' => MayOpen(c)
  BY <1>1 DEF MayOpen, StillThere
<1>4. StoredForOneMore' /\ CodeOpensOnce'
  BY <1>3 DEF SyncKeysInv, StoredForOneMore, CodeOpensOnce, answers
<1>5. QED
  BY <1>2, <1>4 DEF Rest

\* A handler that starts or ends changes its own request only.
LEMMA OwnRequest ==
  ASSUME SyncKeysTypeOK, NEW r \in SyncRequests, NEW what,
         SyncStarts(r, what) \/ (SyncEnds(r) /\ what = SyncIdle)
  PROVE  /\ syncRequest'[r] = what
         /\ \A q \in SyncRequests : q # r => syncRequest'[q] = syncRequest[q]
  BY DEF SyncStarts, SyncEnds, SyncKeysTypeOK

LEMMA AfterItEnds ==
  ASSUME SyncKeysTypeOK, NEW r \in SyncRequests, SyncEnds(r)
  PROVE  \A q \in SyncRequests :
           Recovering(q)' => q # r /\ Recovering(q) /\ syncRequest'[q] = syncRequest[q]
<1>1. /\ syncRequest'[r] = SyncIdle
      /\ \A q \in SyncRequests : q # r => syncRequest'[q] = syncRequest[q]
  BY OwnRequest
<1>2. QED
  BY <1>1 DEF Recovering, Running, SyncIdle

\* A new row was seen by nobody; an old one gets the code, whoever saw another in it.
LEMMA ConfigureKeeps ==
  ASSUME SyncKeysInv, NEW r \in SyncRequests, Configure(r)
  PROVE  Rest'
<1> DEFINE c == syncRequest[r].code
<1>1. /\ SyncKeysTypeOK /\ c \in Codes /\ recoveryRows \in Nat
      /\ \A o \in Codes : stored[o] \in Nat /\ opened[o] \in Nat
  BY RequestRecord DEF Configure, SyncKeysInv, SyncKeysTypeOK
<1>2. /\ recovery' # NoRecovery /\ recovery'.code = c /\ recovery'.row = recoveryRows'
      /\ recoveryRows' = IF recovery = NoRecovery THEN recoveryRows + 1 ELSE recoveryRows
      /\ opened' = opened /\ stored' = [stored EXCEPT ![c] = stored[c] + 1]
  <2>1. recovery' \in RecoveryRow
    BY <1>1, RequestRecord DEF Configure, SyncKeysTypeOK, RecoveryRow
  <2>2. QED
    BY <1>1, <2>1, NoRecoveryIsNoRow DEF Configure, SyncKeysTypeOK
<1>3. \A q \in SyncRequests :
        Recovering(q)' => Recovering(q) /\ syncRequest'[q] = syncRequest[q]
  BY <1>1, AfterItEnds DEF Configure
<1>4. \A q \in SyncRequests :
        Recovering(q) => syncRequest[q].seen.row \in Nat /\ syncRequest[q].seen.row <= recoveryRows
  BY <1>1, RequestRecord DEF SyncKeysInv, RowsInOrder, Recovering, RecoveryRow
<1>5. RowsInOrder'
  BY <1>1, <1>2, <1>3, <1>4 DEF RowsInOrder
<1>6. \A q \in SyncRequests :
        Recovering(q)' /\ StillThere(syncRequest[q].seen)' => StillThere(syncRequest[q].seen)
  BY <1>1, <1>2, <1>3, <1>4 DEF StillThere, SyncKeysInv, RowsInOrder
<1>7. \A o \in Codes : MayOpen(o)' => o = c \/ MayOpen(o)
  BY <1>2, <1>3, <1>6 DEF MayOpen, StillThere
<1>8. /\ stored'[c] = stored[c] + 1
      /\ \A o \in Codes : o # c => stored'[o] = stored[o]
  BY <1>1, <1>2 DEF SyncKeysTypeOK
<1> HIDE DEF c
<1>9. StoredForOneMore' /\ CodeOpensOnce'
  BY <1>1, <1>2, <1>7, <1>8 DEF SyncKeysInv, StoredForOneMore, CodeOpensOnce
<1>10. QED
  BY <1>5, <1>9 DEF Rest

LEMMA DeleteKeeps ==
  ASSUME SyncKeysInv, NEW r \in SyncRequests, DeleteRecovery(r)
  PROVE  Rest'
<1>1. \A q \in SyncRequests : Recovering(q)' => Recovering(q) /\ syncRequest'[q] = syncRequest[q]
  BY AfterItEnds DEF SyncKeysInv, DeleteRecovery
<1>2. recovery' = NoRecovery /\ UNCHANGED <<recoveryRows, stored, opened>>
  BY DEF DeleteRecovery, answers
<1>3. QED
  BY <1>1, <1>2 DEF SyncKeysInv, Rest, RowsInOrder, StoredForOneMore, MayOpen, CodeOpensOnce

LEMMA BeginCompleteKeeps ==
  ASSUME SyncKeysInv, NEW r \in SyncRequests, NEW d \in SyncDevices, BeginComplete(r, d)
  PROVE  Rest'
<1> DEFINE what == [op |-> "recover", device |-> d, seen |-> recovery]
<1>1. SyncKeysTypeOK /\ SyncStarts(r, what)
  BY DEF SyncKeysInv, BeginComplete
<1>2. /\ syncRequest'[r] = what /\ what.seen = recovery
      /\ \A q \in SyncRequests : q # r => syncRequest'[q] = syncRequest[q]
  BY <1>1, OwnRequest
<1> HIDE DEF what
<1>3. \A q \in SyncRequests :
        (Recovering(q)' /\ q # r) => Recovering(q) /\ syncRequest'[q] = syncRequest[q]
  BY <1>2 DEF Recovering, Running
<1>4. UNCHANGED <<recovery, recoveryRows, stored, opened>> /\ recovery # NoRecovery
        /\ recoveryRows \in Nat
  BY <1>1 DEF BeginComplete, answers, SyncKeysTypeOK
<1>5. RowsInOrder'
  BY <1>2, <1>3, <1>4 DEF SyncKeysInv, RowsInOrder
<1>6. \A c \in Codes : MayOpen(c)' => MayOpen(c)
  BY <1>2, <1>3, <1>4 DEF MayOpen, StillThere
<1>7. QED
  BY <1>4, <1>5, <1>6 DEF SyncKeysInv, Rest, StoredForOneMore, CodeOpensOnce

\* Whoever is answered takes the row away from all who saw it.
LEMMA CompleteKeeps ==
  ASSUME SyncKeysInv, NEW r \in SyncRequests, CompleteRecovery(r)
  PROVE  Rest'
<1> DEFINE c == syncRequest[r].seen.code
<1>1. /\ SyncKeysTypeOK /\ Recovering(r) /\ SyncEnds(r)
      /\ recoveryRows' = recoveryRows /\ stored' = stored
  BY DEF SyncKeysInv, CompleteRecovery, Recovering
<1>2. \A q \in SyncRequests :
        Recovering(q)' => Recovering(q) /\ syncRequest'[q] = syncRequest[q]
  BY <1>1, AfterItEnds
<1>3. CASE UNCHANGED <<recovery, opened>>
  BY <1>1, <1>2, <1>3, NothingLearned DEF answers
<1>4. CASE /\ StillThere(syncRequest[r].seen)
           /\ recovery' = NoRecovery /\ opened' = [opened EXCEPT ![c] = opened[c] + 1]
  <2>1. c \in Codes /\ \A o \in Codes : stored[o] \in Nat /\ opened[o] \in Nat
    BY <1>1, RequestRecord DEF SyncKeysTypeOK, Recovering, RecoveryRow
  <2>2. opened[c] < stored[c]
    BY <1>1, <1>4, <2>1 DEF SyncKeysInv, StoredForOneMore, MayOpen, StillThere
  <2>3. opened'[c] = opened[c] + 1 /\ \A o \in Codes : o # c => opened'[o] = opened[o]
    BY <1>1, <1>4, <2>1 DEF SyncKeysTypeOK
  <2> HIDE DEF c
  <2>4. RowsInOrder' /\ StoredForOneMore'
    BY <1>1, <1>2, <1>4 DEF SyncKeysInv, RowsInOrder, StoredForOneMore, MayOpen
  <2>5. CodeOpensOnce'
    BY <1>1, <2>1, <2>2, <2>3 DEF SyncKeysInv, CodeOpensOnce
  <2>6. QED
    BY <2>4, <2>5 DEF Rest
<1>5. QED
  BY <1>3, <1>4 DEF CompleteRecovery

LEMMA SyncKeysInvStep == SyncKeysInv /\ [SyncKeysNext]_syncKeysVars => SyncKeysInv'
<1> SUFFICES ASSUME SyncKeysInv, [SyncKeysNext]_syncKeysVars PROVE Rest'
  BY SyncKeysTypeStep DEF SyncKeysInv, Rest
<1>t. SyncKeysTypeOK
  BY DEF SyncKeysInv
<1>1. ASSUME NEW r \in SyncRequests, NEW what, SyncStarts(r, what), what.op # "recover",
             UNCHANGED <<recovery, recoveryRows, answers>>
      PROVE  Rest'
  <2>1. \A q \in SyncRequests : Recovering(q)' => syncRequest'[q] = syncRequest[q]
    BY <1>1, <1>t, OwnRequest DEF Recovering, Running
  <2>2. QED
    BY <1>1, <2>1, NothingLearned
<1>2. ASSUME NEW r \in SyncRequests, SyncEnds(r), UNCHANGED <<recovery, recoveryRows, answers>>
      PROVE  Rest'
  BY <1>2, <1>t, AfterItEnds, NothingLearned
<1>3. ASSUME UNCHANGED <<recovery, recoveryRows, answers, syncRequest>> PROVE Rest'
  BY <1>3, NothingLearned
<1>4. ASSUME NEW r \in SyncRequests, NEW d \in SyncDevices, NEW k \in Envelopes,
             BeginEnrol(r, d, k)
      PROVE  Rest'
  BY <1>1, <1>4 DEF BeginEnrol
<1>5. ASSUME NEW r \in SyncRequests, NEW d \in SyncDevices, NEW e \in SyncDevices,
             BeginApprove(r, d, e) \/ BeginDelete(r, d)
      PROVE  Rest'
  BY <1>1, <1>5 DEF BeginApprove, BeginDelete
<1>c. ASSUME NEW r \in SyncRequests, NEW d \in SyncDevices, NEW c \in Codes,
             BeginConfigure(r, d, c)
      PROVE  Rest'
  BY <1>1, <1>c DEF BeginConfigure
<1>6. ASSUME NEW r \in SyncRequests, Enrol(r) \/ Approve(r) \/ SyncFails(r) PROVE Rest'
  BY <1>2, <1>6 DEF Enrol, Approve, SyncFails
<1>7. ASSUME NEW d \in SyncDevices, BeginRecovery(d) \/ RevokeOrRestore(d) PROVE Rest'
  BY <1>3, <1>7 DEF BeginRecovery, RevokeOrRestore
<1>8. CASE AccessChanges \/ UNCHANGED syncKeysVars
  BY <1>3, <1>8 DEF AccessChanges, syncKeysVars
<1>9. QED
  BY <1>4, <1>5, <1>6, <1>7, <1>8, <1>c,
     ConfigureKeeps, DeleteKeeps, BeginCompleteKeeps, CompleteKeeps
  DEF SyncKeysNext, SyncKeysStep

\* Each time a recovery code is stored it is answered for one recovery at most, for any
\* number of devices that present it, whatever rotates or removes it meanwhile
\* (completeSyncRecovery): the row that was compared is deleted by one of them only.
THEOREM CodesOpenOnce == SyncKeysSpec => []CodeOpensOnce
<1>1. SyncKeysInv => CodeOpensOnce
  BY DEF SyncKeysInv
<1>2. QED
  BY <1>1, SyncKeysInvInit, SyncKeysInvStep, PTL DEF SyncKeysSpec

-----------------------------------------------------------------------------
(* The envelopes *)

\* Who receives a key that fits has none yet, or has that one.
LEMMA ReceivesKeeps ==
  ASSUME SyncKeysTypeOK, NEW d \in SyncDevices, NEW k \in AccountKeys, Receives(d, k)
  PROVE  \A e \in SyncDevices : HasKey(e) => syncDevice'[e].envelope = syncDevice[e].envelope
  BY DEF SyncKeysTypeOK, Receives, Fits, HasKey

LEMMA KeepsItsKeyStep == SyncKeysTypeOK /\ SyncKeysNext => KeepsItsKey
<1> SUFFICES ASSUME SyncKeysTypeOK, SyncKeysNext PROVE KeepsItsKey
  OBVIOUS
<1> DEFINE Kept == \A e \in SyncDevices :
                     HasKey(e) => syncDevice'[e].envelope = syncDevice[e].envelope
<1>0. Kept => KeepsItsKey
  BY DEF KeepsItsKey
<1>1. ASSUME UNCHANGED syncDevice PROVE Kept
  BY <1>1
<1>2. ASSUME NEW r \in SyncRequests, Enrol(r) PROVE KeepsItsKey
  <2>1. CASE ~syncRequest[r].first
    <3>1. Kept
      BY <1>2, <2>1 DEF Enrol, SyncKeysTypeOK
    <3>2. QED
      BY <1>0, <3>1
  <2>2. CASE syncRequest[r].first
    <3>1. syncRequest'[r] = SyncIdle /\ Running(r, "enrol")
      BY <1>2, OwnRequest DEF Enrol
    <3>2. \A e \in SyncDevices : e # syncRequest[r].device => syncDevice'[e] = syncDevice[e]
      BY <1>2, <2>2 DEF Enrol, SyncKeysTypeOK
    <3>3. QED
      BY <2>2, <3>1, <3>2 DEF KeepsItsKey
  <2>3. QED
    BY <2>1, <2>2
<1>3. ASSUME NEW r \in SyncRequests, Approve(r) PROVE Kept
  BY <1>3, RequestRecord, ReceivesKeeps DEF Approve
<1>4. ASSUME NEW r \in SyncRequests, CompleteRecovery(r) PROVE Kept
  <2>1. syncRequest[r].device \in SyncDevices /\ syncRequest[r].seen.key \in AccountKeys
    BY <1>4, RequestRecord DEF CompleteRecovery, RecoveryRow
  <2>2. QED
    BY <1>4, <2>1, ReceivesKeeps DEF CompleteRecovery
<1>5. ASSUME NEW d \in SyncDevices, BeginRecovery(d) \/ RevokeOrRestore(d) PROVE Kept
  BY <1>5 DEF BeginRecovery, RevokeOrRestore, SyncKeysTypeOK
<1>6. ASSUME NEW r \in SyncRequests, SyncKeysStep(r), ~Enrol(r), ~Approve(r), ~CompleteRecovery(r)
      PROVE  UNCHANGED syncDevice
  BY <1>6
  DEF SyncKeysStep, BeginEnrol, BeginApprove, BeginConfigure, Configure, BeginDelete,
      BeginComplete, DeleteRecovery, SyncFails
<1>7. CASE AccessChanges
  BY <1>0, <1>1, <1>7 DEF AccessChanges
<1>8. QED
  BY <1>0, <1>1, <1>2, <1>3, <1>4, <1>5, <1>6, <1>7 DEF SyncKeysNext

\* A device that has the account's key is never given another one by an approval, a
\* recovery or a retry (approveSyncDevice, completeSyncRecovery): only an enrolment
\* of its own that started before any device was approved may replace it.
THEOREM KeysAreKept == SyncKeysSpec => EnvelopesKept
  BY SyncKeysTypeInit, SyncKeysTypeStep, KeepsItsKeyStep, PTL DEF SyncKeysSpec, EnvelopesKept

-----------------------------------------------------------------------------
(* THE LOG                                                                 *)

(* The greatest element of a set *)

\* A finite set of numbers that is not empty has a greatest element: otherwise a
\* smallest finite set would have none, although one with an element less has.
LEMMA GreatestElement ==
  ASSUME NEW S, S \subseteq Int, IsFiniteSet(S), S # {}
  PROVE  /\ Max(S) \in S
         /\ \A y \in S : y <= Max(S)
<1> DEFINE HasMax(T) == \E x \in T : \A y \in T : x >= y
           Bad == {T \in FiniteSubsetsOf(S) : T # {} /\ ~HasMax(T)}
<1>1. HasMax(S)
  <2> SUFFICES ASSUME ~HasMax(S) PROVE FALSE
    OBVIOUS
  <2>1. Bad # {} /\ Bad \subseteq FiniteSubsetsOf(S)
    BY DEF FiniteSubsetsOf
  <2>2. PICK T \in Bad : \A U \in Bad : ~(<<U, T>> \in StrictSubsetOrdering(S))
    BY <2>1, FS_StrictSubsetOrderingWellFounded, WFMin
  <2>3. T \subseteq S /\ IsFiniteSet(T) /\ T # {} /\ ~HasMax(T)
    BY <2>2 DEF FiniteSubsetsOf
  <2>4. PICK x \in T : TRUE
    BY <2>3
  <2> DEFINE U == T \ {x}
  <2>5. IsFiniteSet(U) /\ U \subseteq S
    BY <2>3, FS_RemoveElement
  <2>6. U # {}
    <3> SUFFICES ASSUME U = {} PROVE HasMax(T)
      BY <2>3
    <3>1. T = {x}
      BY <2>4
    <3>2. QED
      BY <3>1, <2>3
  <2>7. <<U, T>> \in StrictSubsetOrdering(S)
    BY <2>3, <2>4 DEF StrictSubsetOrdering
  <2>8. U \notin Bad
    BY <2>2, <2>7
  <2>9. HasMax(U)
    BY <2>5, <2>6, <2>8 DEF FiniteSubsetsOf
  <2>10. PICK m \in U : \A y \in U : m >= y
    BY <2>9
  <2>11. HasMax(T)
    <3>1. m \in T /\ m \in Int /\ x \in Int
      BY <2>3, <2>4
    <3>2. CASE m >= x
      BY <3>1, <3>2, <2>10
    <3>3. CASE ~(m >= x)
      <4>1. \A y \in T : x >= y
        <5> TAKE y \in T
        <5>1. y \in Int
          BY <2>3
        <5>2. CASE y = x
          BY <5>2, <3>1
        <5>3. CASE y # x
          BY <5>1, <5>3, <3>1, <3>3, <2>10
        <5>4. QED
          BY <5>2, <5>3
      <4>2. QED
        BY <4>1, <2>4
    <3>4. QED
      BY <3>2, <3>3
  <2>12. QED
    BY <2>3, <2>11
<1>2. /\ Max(S) \in S
      /\ \A y \in S : Max(S) >= y
  BY <1>1 DEF Max
<1>3. QED
  BY <1>2

-----------------------------------------------------------------------------
(* Types *)

Push == [op : {"push"}, device : LogDevices, todo : SUBSET Revisions, rows : SUBSET Change,
         waiting : SUBSET Change]
ReadRequest == [op : {"read"}, device : LogDevices]

LEMMA LogRequestRecord ==
  ASSUME SyncLogTypeOK, NEW r \in LogRequests
  PROVE  /\ Pushing(r) => logRequest[r] \in Push
         /\ logRequest[r].op = "read" => logRequest[r] \in ReadRequest
         /\ logRequest[r] \in Push \/ logRequest[r] \in ReadRequest \/ logRequest[r] = LogIdle
<1> DEFINE q == logRequest[r]
<1>1. q \in Push \/ q \in ReadRequest \/ q = LogIdle
  BY DEF SyncLogTypeOK, LogRequest, Push, ReadRequest
<1> HIDE DEF q
<1>2. /\ q.op = "push" => q \in Push
      /\ q.op = "read" => q \in ReadRequest
  BY <1>1 DEF Push, ReadRequest, LogIdle
<1>3. QED
  BY <1>1, <1>2 DEF q, Pushing

\* A step of a handler leaves a record in it and touches no other.
LEMMA OwnLogRequest ==
  ASSUME SyncLogTypeOK, NEW r \in LogRequests, NEW s, logRequest' = [logRequest EXCEPT ![r] = s]
  PROVE  /\ logRequest'[r] = s
         /\ \A q \in LogRequests : q # r => logRequest'[q] = logRequest[q]
         /\ s \in LogRequest => logRequest' \in [LogRequests -> LogRequest]
  BY DEF SyncLogTypeOK

LEMMA LogRecords == Push \subseteq LogRequest /\ ReadRequest \subseteq LogRequest
                      /\ LogIdle \in LogRequest
  BY DEF Push, ReadRequest, LogRequest

LEMMA InFlightRows ==
  /\ \A w : w \in InFlight <=> \E q \in LogRequests : Pushing(q) /\ w \in logRequest[q].rows
  /\ \A w : w \in InFlight' <=> \E q \in LogRequests : Pushing(q)' /\ w \in logRequest'[q].rows
  BY DEF InFlight

LEMMA RowsAreChanges ==
  ASSUME SyncLogTypeOK
  PROVE  /\ InFlight \subseteq Change /\ log \subseteq Change
         /\ \A w \in Change : w.id \in 1 .. MaxSequence /\ w.source \in LogDevices
<1>1. InFlight \subseteq Change
  BY InFlightRows, LogRequestRecord DEF Push
<1>2. QED
  BY <1>1 DEF SyncLogTypeOK, Change

\* A row of a statement is held under the next id until its key is looked up.
PushedRow(r, rev) == [id |-> sequence + 1, revision |-> rev, source |-> logRequest[r].device]

LEMMA PushRowRecord ==
  ASSUME SyncLogTypeOK, NEW r \in LogRequests, NEW rev \in Revisions, PushRow(r, rev)
  PROVE  \E s \in Push :
           /\ logRequest' = [logRequest EXCEPT ![r] = s]
           /\ s.op = "push"
           /\ s.rows = logRequest[r].rows \cup {PushedRow(r, rev)}
           /\ PushedRow(r, rev) \in Change
<1> DEFINE push == logRequest[r]
           row == PushedRow(r, rev)
           s == [push EXCEPT !.todo = push.todo \ {rev}, !.rows = push.rows \cup {row},
                             !.waiting = {row}]
<1>1. push \in Push
  BY LogRequestRecord DEF PushRow
<1>2. sequence + 1 \in 1 .. MaxSequence
  BY PageAssumption DEF PushRow, SyncLogTypeOK
<1>3. row \in Change
  BY <1>1, <1>2 DEF PushedRow, Change, Push
<1>4. logRequest' = [logRequest EXCEPT ![r] = s]
  BY DEF PushRow, PushedRow
<1> HIDE DEF row, push
<1>5. s \in Push /\ s.op = "push" /\ s.rows = push.rows \cup {row}
  BY <1>1, <1>3 DEF Push
<1>6. QED
  BY <1>3, <1>4, <1>5 DEF push, row

\* It is entered, or its key is known and the id is lost.
LEMMA EnterRowRecord ==
  ASSUME SyncLogTypeOK, NEW r \in LogRequests, NEW row, EnterRow(r, row)
  PROVE  \E s \in Push : /\ logRequest' = [logRequest EXCEPT ![r] = s]
                         /\ s.op = "push"
                         /\ s.rows \in {logRequest[r].rows, logRequest[r].rows \ {row}}
<1> DEFINE push == logRequest[r]
           known == \E old \in log : Same(old, row.revision, row.source)
           s == [push EXCEPT !.waiting = {},
                             !.rows = IF known THEN push.rows \ {row} ELSE push.rows]
<1>1. push \in Push
  BY LogRequestRecord DEF EnterRow
<1>2. logRequest' = [logRequest EXCEPT ![r] = s]
  BY DEF EnterRow
<1> HIDE DEF known, push
<1>3. s \in Push /\ s.op = "push" /\ s.rows = IF known THEN push.rows \ {row} ELSE push.rows
  BY <1>1 DEF Push
<1>4. QED
  BY <1>2, <1>3 DEF push

\* The cursor that a page ends with is the greatest of its ids and of the cursor.
LEMMA NextCursor ==
  ASSUME SyncLogTypeOK, NEW d \in LogDevices
  PROVE  LET ids == {row.id : row \in Page(reader[d].cursor)}
             next == Max(ids \cup {reader[d].cursor})
         IN  /\ Page(reader[d].cursor) \subseteq log
             /\ ids \subseteq 1 .. MaxSequence
             /\ next \in ids \cup {reader[d].cursor}
             /\ next \in 0 .. MaxSequence
             /\ \A i \in ids : i <= next
             /\ reader[d].cursor <= next
<1> DEFINE page == Page(reader[d].cursor)
           ids == {row.id : row \in page}
           all == ids \cup {reader[d].cursor}
<1>1. page \subseteq log
  BY DEF Page
<1>2. ids \subseteq 1 .. MaxSequence
  BY <1>1, RowsAreChanges
<1>3. reader[d].cursor \in 0 .. MaxSequence
  BY DEF SyncLogTypeOK, Reader
<1>4. all \subseteq 0 .. MaxSequence /\ all # {}
  BY <1>2, <1>3, PageAssumption
<1>5. IsFiniteSet(0 .. MaxSequence) /\ 0 .. MaxSequence \subseteq Int
  BY PageAssumption, FS_Interval
<1> HIDE DEF all
<1>6. IsFiniteSet(all) /\ all \subseteq Int
  BY <1>4, <1>5, FS_Subset
<1>7. Max(all) \in all /\ \A y \in all : y <= Max(all)
  BY <1>4, <1>6, GreatestElement
<1>8. QED
  BY <1>1, <1>2, <1>4, <1>7 DEF all

LEMMA SyncLogTypeStep == SyncLogTypeOK /\ [SyncLogNext]_syncLogVars => SyncLogTypeOK'
<1> SUFFICES ASSUME SyncLogTypeOK, [SyncLogNext]_syncLogVars PROVE SyncLogTypeOK'
  OBVIOUS
<1>1. ASSUME NEW r \in LogRequests, NEW d \in LogDevices, NEW revs \in SUBSET Revisions,
             BeginPush(r, d, revs)
      PROVE  SyncLogTypeOK'
  <2>1. [op |-> "push", device |-> d, todo |-> revs, rows |-> {}, waiting |-> {}] \in LogRequest
    BY DEF LogRequest
  <2>2. QED
    BY <1>1, <2>1 DEF BeginPush, SyncLogTypeOK
<1>2. ASSUME NEW r \in LogRequests, NEW rev \in Revisions, PushRow(r, rev) PROVE SyncLogTypeOK'
  <2>1. logRequest' \in [LogRequests -> LogRequest]
    BY <1>2, PushRowRecord, OwnLogRequest, LogRecords
  <2>2. sequence' \in 0 .. MaxSequence
    BY <1>2, PageAssumption DEF PushRow, SyncLogTypeOK
  <2>3. QED
    BY <1>2, <2>1, <2>2 DEF PushRow, SyncLogTypeOK
<1>3. ASSUME NEW r \in LogRequests, CommitPush(r) PROVE SyncLogTypeOK'
  <2>1. logRequest[r].rows \in SUBSET Change
    BY <1>3, LogRequestRecord DEF CommitPush, Push
  <2>2. logRequest' \in [LogRequests -> LogRequest]
    BY <1>3, OwnLogRequest, LogRecords DEF CommitPush
  <2>3. QED
    BY <1>3, <2>1, <2>2 DEF CommitPush, SyncLogTypeOK
<1>4. ASSUME NEW r \in LogRequests, NEW d \in LogDevices, BeginRead(r, d) PROVE SyncLogTypeOK'
  <2>1. [op |-> "read", device |-> d] \in LogRequest
    BY DEF LogRequest
  <2>2. QED
    BY <1>4, <2>1 DEF BeginRead, SyncLogTypeOK
<1>5. ASSUME NEW r \in LogRequests, Read(r) PROVE SyncLogTypeOK'
  <2> DEFINE d == logRequest[r].device
             page == Page(reader[d].cursor)
             ids == {row.id : row \in page}
             next == Max(ids \cup {reader[d].cursor})
             missed == {row.id : row \in {w \in InFlight : w.id <= next}}
             conflicts == {row.id : row \in {w \in page : Clash(w, log)}}
             s == [cursor |-> next, got |-> reader[d].got \cup ids,
                   missed |-> reader[d].missed \cup missed,
                   conflicts |-> reader[d].conflicts \cup conflicts]
  <2>1. d \in LogDevices
    BY <1>5, LogRequestRecord DEF Read, ReadRequest
  <2>2. page \subseteq log /\ ids \subseteq 1 .. MaxSequence /\ next \in 0 .. MaxSequence
    BY <2>1, NextCursor
  <2>3. missed \subseteq 1 .. MaxSequence /\ conflicts \subseteq 1 .. MaxSequence
    BY <2>2, RowsAreChanges
  <2>4. reader' = [reader EXCEPT ![d] = s] /\ logRequest' = [logRequest EXCEPT ![r] = LogIdle]
    BY <1>5 DEF Read
  <2>5. logRequest' \in [LogRequests -> LogRequest]
    BY <2>4, OwnLogRequest, LogRecords
  <2>6. reader[d] \in Reader
    BY <2>1 DEF SyncLogTypeOK
  <2> HIDE DEF ids, next, missed, conflicts
  <2>7. s \in Reader
    BY <2>2, <2>3, <2>6 DEF Reader
  <2> HIDE DEF s
  <2>8. reader' \in [LogDevices -> Reader]
    BY <2>1, <2>4, <2>7 DEF SyncLogTypeOK
  <2>9. QED
    BY <1>5, <2>5, <2>8 DEF Read, SyncLogTypeOK
<1>6. ASSUME NEW r \in LogRequests, FailLogRequest(r) PROVE SyncLogTypeOK'
  BY <1>6, OwnLogRequest, LogRecords DEF FailLogRequest, SyncLogTypeOK
<1>e. ASSUME NEW r \in LogRequests, NEW row, EnterRow(r, row) PROVE SyncLogTypeOK'
  <2>1. logRequest' \in [LogRequests -> LogRequest]
    BY <1>e, EnterRowRecord, OwnLogRequest, LogRecords
  <2>2. QED
    BY <1>e, <2>1 DEF EnterRow, SyncLogTypeOK
<1>7. ASSUME NEW d \in LogDevices, LoseDevice(d) PROVE SyncLogTypeOK'
  BY <1>7 DEF LoseDevice, SyncLogTypeOK
<1>8. CASE UNCHANGED syncLogVars
  BY <1>8 DEF syncLogVars, SyncLogTypeOK
<1>9. QED
  BY <1>1, <1>2, <1>3, <1>4, <1>5, <1>6, <1>7, <1>8, <1>e DEF SyncLogNext

-----------------------------------------------------------------------------
(* What a reader may conclude from its cursor *)

\* An id names one row, and none that is yet to be handed out.
IdsNameRows ==
  /\ \A row, other \in log \cup InFlight : row.id = other.id => row = other
  /\ \A row \in log \cup InFlight : row.id <= sequence

\* A cursor stands at an id that was handed out, what a reader has got is in the log,
\* and what is under way behind its cursor was noticed when the cursor passed it.
CursorsAreHonest ==
  \A d \in LogDevices :
    /\ reader[d].cursor <= sequence
    /\ \A id \in reader[d].got : \E row \in log : row.id = id
    /\ \A row \in InFlight : row.id <= reader[d].cursor => row.id \in reader[d].missed

\* A statement has finitely many rows, and so has the log.
FinitelyMany ==
  /\ IsFiniteSet(log)
  /\ \A r \in LogRequests : Pushing(r) => IsFiniteSet(logRequest[r].rows)

SyncLogInv ==
  /\ SyncLogTypeOK
  /\ IdsNameRows
  /\ CursorsAreHonest
  /\ FinitelyMany
  /\ MissedWasInFlight
  /\ ConflictsAreTold

Promises == IdsNameRows /\ CursorsAreHonest /\ MissedWasInFlight /\ ConflictsAreTold

\* A handler that holds no row any more, and nothing else that changes.
LEMMA QuietLogStep ==
  ASSUME SyncLogInv, log' = log, sequence' = sequence, reader' = reader, InFlight' \subseteq InFlight
  PROVE  Promises'
BY DEF SyncLogInv, Promises, IdsNameRows, CursorsAreHonest, MissedWasInFlight, ConflictsAreTold

\* A handler leaves, or enters without a row.
LEMMA WithoutRows ==
  ASSUME SyncLogTypeOK, NEW r \in LogRequests, NEW s, logRequest' = [logRequest EXCEPT ![r] = s],
         s.op = "push" => s.rows = {}
  PROVE  /\ InFlight' \subseteq InFlight
         /\ log' = log /\ FinitelyMany => FinitelyMany'
<1>1. logRequest'[r] = s /\ \A q \in LogRequests : q # r => logRequest'[q] = logRequest[q]
  BY OwnLogRequest
<1>2. InFlight' \subseteq InFlight
  BY <1>1, InFlightRows DEF Pushing
<1>3. ASSUME log' = log, FinitelyMany PROVE FinitelyMany'
  BY <1>1, <1>3, FS_EmptySet DEF FinitelyMany, Pushing
<1>4. QED
  BY <1>2, <1>3

LEMMA PushRowKeeps ==
  ASSUME SyncLogInv, NEW r \in LogRequests, NEW rev \in Revisions, PushRow(r, rev)
  PROVE  Promises' /\ FinitelyMany'
<1> DEFINE row == PushedRow(r, rev)
<1>1. PICK s \in Push :
        /\ logRequest' = [logRequest EXCEPT ![r] = s]
        /\ s.op = "push"
        /\ s.rows = logRequest[r].rows \cup {row}
        /\ row \in Change
  BY PushRowRecord DEF SyncLogInv
<1>2. logRequest'[r] = s /\ \A q \in LogRequests : q # r => logRequest'[q] = logRequest[q]
  BY <1>1, OwnLogRequest DEF SyncLogInv
<1>3. log' = log /\ reader' = reader /\ sequence' = sequence + 1 /\ Pushing(r)
  BY DEF PushRow
<1>4. row.id = sequence + 1
  BY DEF PushedRow
<1> HIDE DEF row
<1>5. InFlight' \subseteq InFlight \cup {row}
  BY <1>1, <1>2, <1>3, InFlightRows DEF Pushing
<1>6. sequence \in Nat
  BY PageAssumption DEF SyncLogInv, SyncLogTypeOK
<1>7. \A w \in log \cup InFlight : w.id \in Nat /\ w.id <= sequence
  BY RowsAreChanges, PageAssumption DEF SyncLogInv, IdsNameRows
<1>8. IdsNameRows'
  BY <1>3, <1>4, <1>5, <1>6, <1>7 DEF SyncLogInv, IdsNameRows
<1>9. \A d \in LogDevices : reader[d].cursor \in Nat
  BY PageAssumption DEF SyncLogInv, SyncLogTypeOK, Reader
<1>10. CursorsAreHonest'
  BY <1>3, <1>4, <1>5, <1>6, <1>9 DEF SyncLogInv, CursorsAreHonest
<1>11. MissedWasInFlight' /\ ConflictsAreTold'
  BY <1>3 DEF SyncLogInv, MissedWasInFlight, ConflictsAreTold
<1>12. IsFiniteSet(logRequest[r].rows \cup {row})
  BY <1>3, FS_AddElement DEF SyncLogInv, FinitelyMany
<1>13. FinitelyMany'
  BY <1>1, <1>2, <1>3, <1>12 DEF SyncLogInv, FinitelyMany, Pushing
<1>14. QED
  BY <1>8, <1>10, <1>11, <1>13 DEF Promises

\* Entering a row adds none, and may lose one.
LEMMA EnterRowKeeps ==
  ASSUME SyncLogInv, NEW r \in LogRequests, NEW row, EnterRow(r, row)
  PROVE  Promises' /\ FinitelyMany'
<1>1. PICK s \in Push : /\ logRequest' = [logRequest EXCEPT ![r] = s]
                        /\ s.op = "push"
                        /\ s.rows \in {logRequest[r].rows, logRequest[r].rows \ {row}}
  BY EnterRowRecord DEF SyncLogInv
<1>2. /\ logRequest'[r] = s
      /\ \A q \in LogRequests : q # r => logRequest'[q] = logRequest[q]
  BY <1>1, OwnLogRequest DEF SyncLogInv
<1>3. log' = log /\ reader' = reader /\ sequence' = sequence /\ Pushing(r)
  BY DEF EnterRow
<1>4. InFlight' \subseteq InFlight
  BY <1>1, <1>2, <1>3, InFlightRows DEF Pushing
<1>5. IsFiniteSet(s.rows)
  BY <1>1, <1>3, FS_Subset DEF SyncLogInv, FinitelyMany
<1>6. FinitelyMany'
  BY <1>2, <1>3, <1>5 DEF SyncLogInv, FinitelyMany, Pushing
<1>7. QED
  BY <1>3, <1>4, <1>6, QuietLogStep

\* The rows of a statement appear together: a cursor that is past one of them passed
\* it while it was under way.
LEMMA CommitPushKeeps ==
  ASSUME SyncLogInv, NEW r \in LogRequests, CommitPush(r)
  PROVE  Promises' /\ FinitelyMany'
<1> DEFINE rows == logRequest[r].rows
<1>1. /\ log' = log \cup rows /\ reader' = reader /\ sequence' = sequence /\ Pushing(r)
      /\ logRequest' = [logRequest EXCEPT ![r] = LogIdle]
  BY DEF CommitPush
<1>2. rows \subseteq InFlight
  BY <1>1, InFlightRows
<1>3. logRequest'[r] = LogIdle /\ \A q \in LogRequests : q # r => logRequest'[q] = logRequest[q]
  BY <1>1, OwnLogRequest DEF SyncLogInv
<1> HIDE DEF rows
<1>4. InFlight' \subseteq InFlight
  BY <1>3, InFlightRows DEF Pushing, LogIdle
<1>5. IdsNameRows' /\ CursorsAreHonest' /\ MissedWasInFlight'
  BY <1>1, <1>2, <1>4 DEF SyncLogInv, IdsNameRows, CursorsAreHonest, MissedWasInFlight
<1>6. \A row \in log', d \in LogDevices : row.id \in reader[d].got => row \in log
  BY <1>1, <1>2 DEF SyncLogInv, IdsNameRows, CursorsAreHonest
<1>7. ConflictsAreTold'
  BY <1>1, <1>6 DEF SyncLogInv, ConflictsAreTold
<1>8. IsFiniteSet(log')
  BY <1>1, FS_Union DEF SyncLogInv, FinitelyMany, rows
<1>9. FinitelyMany'
  BY <1>3, <1>8 DEF SyncLogInv, FinitelyMany, Pushing, LogIdle
<1>10. QED
  BY <1>5, <1>7, <1>9 DEF Promises

\* A page leaves out no row of the log between the cursor and its own end: fewer rows
\* precede one of those than the row the page ends with.
LEMMA PagesHaveNoGaps ==
  ASSUME SyncLogInv, NEW after \in Nat, NEW last \in Page(after), NEW row \in log,
         row.id > after, row.id <= last.id
  PROVE  row \in Page(after)
<1> DEFINE newer == {w \in log : w.id > after}
           Before(w) == {old \in newer : old.id < w.id}
<1>1. last \in newer /\ row \in newer /\ Cardinality(Before(last)) < PageLimit
  BY DEF Page
<1>2. \A w \in newer : w.id \in Nat
  BY RowsAreChanges, PageAssumption DEF SyncLogInv
<1>3. Before(row) \subseteq Before(last)
  BY <1>1, <1>2
<1>4. IsFiniteSet(Before(last))
  BY FS_Subset DEF SyncLogInv, FinitelyMany
<1> HIDE DEF Before
<1>5. /\ Cardinality(Before(row)) <= Cardinality(Before(last))
      /\ Cardinality(Before(row)) \in Nat /\ Cardinality(Before(last)) \in Nat
  BY <1>3, <1>4, FS_Subset, FS_CardinalityType
<1>6. Cardinality(Before(row)) < PageLimit
  BY <1>1, <1>5, PageAssumption
<1>7. QED
  BY <1>1, <1>6 DEF Page, Before

LEMMA ReadKeeps ==
  ASSUME SyncLogInv, NEW r \in LogRequests, Read(r)
  PROVE  Promises' /\ FinitelyMany'
<1> DEFINE d == logRequest[r].device
           page == Page(reader[d].cursor)
           ids == {row.id : row \in page}
           next == Max(ids \cup {reader[d].cursor})
           missed == {row.id : row \in {w \in InFlight : w.id <= next}}
           conflicts == {row.id : row \in {w \in page : Clash(w, log)}}
           s == [cursor |-> next, got |-> reader[d].got \cup ids,
                 missed |-> reader[d].missed \cup missed,
                 conflicts |-> reader[d].conflicts \cup conflicts]
<1>1. d \in LogDevices
  BY LogRequestRecord DEF SyncLogInv, Read, ReadRequest
<1>2. /\ page \subseteq log /\ next \in ids \cup {reader[d].cursor}
      /\ next \in 0 .. MaxSequence /\ reader[d].cursor <= next
      /\ ids \subseteq 1 .. MaxSequence
  BY <1>1, NextCursor DEF SyncLogInv
<1>3. /\ reader' = [reader EXCEPT ![d] = s] /\ logRequest' = [logRequest EXCEPT ![r] = LogIdle]
      /\ log' = log /\ sequence' = sequence
  BY DEF Read
<1>4. InFlight' \subseteq InFlight /\ FinitelyMany'
  BY <1>3, WithoutRows DEF SyncLogInv, LogIdle
<1>5. \A row \in log : row.id > reader[d].cursor /\ row.id <= next => row.id \in ids
  <2>1. reader[d].cursor \in Nat
    BY <1>1, PageAssumption DEF SyncLogInv, SyncLogTypeOK, Reader
  <2> SUFFICES ASSUME NEW row \in log, row.id > reader[d].cursor, row.id <= next
               PROVE  row \in page
    OBVIOUS
  <2>2. row.id \in Nat /\ next \in Nat
    BY <1>2, RowsAreChanges, PageAssumption DEF SyncLogInv
  <2>3. next # reader[d].cursor
    BY <2>1, <2>2
  <2>4. PICK last \in page : last.id = next
    BY <1>2, <2>3
  <2> HIDE DEF next
  <2>5. QED
    BY <2>1, <2>4, PagesHaveNoGaps
<1>6. next <= sequence
  <2>1. \A row \in page : row.id <= sequence
    BY <1>2 DEF SyncLogInv, IdsNameRows
  <2>2. reader[d].cursor <= sequence
    BY <1>1 DEF SyncLogInv, CursorsAreHonest
  <2>3. QED
    BY <1>2, <2>1, <2>2
<1>7. \A id \in ids : \E row \in log : row.id = id
  BY <1>2
<1>8. \A row \in InFlight : row.id <= next => row.id \in missed
  OBVIOUS
<1>9. \A row \in page : Clash(row, log) => row.id \in conflicts
  OBVIOUS
<1>10. \A row \in log : row.id \in ids => row \in page
  BY <1>2 DEF SyncLogInv, IdsNameRows
<1> HIDE DEF page, ids, next, missed, conflicts
<1>11. /\ reader'[d] = s /\ \A e \in LogDevices : e # d => reader'[e] = reader[e]
  BY <1>1, <1>3 DEF SyncLogInv, SyncLogTypeOK
<1>12. /\ reader'[d].cursor = next /\ reader'[d].got = reader[d].got \cup ids
       /\ reader'[d].missed = reader[d].missed \cup missed
       /\ reader'[d].conflicts = reader[d].conflicts \cup conflicts
  BY <1>11
<1> HIDE DEF s, d
<1>13. IdsNameRows'
  BY <1>3, <1>4 DEF SyncLogInv, IdsNameRows
<1>14. CursorsAreHonest'
  BY <1>3, <1>4, <1>6, <1>7, <1>8, <1>11, <1>12 DEF SyncLogInv, CursorsAreHonest
<1>15. MissedWasInFlight'
  <2> SUFFICES ASSUME NEW e \in LogDevices, NEW row \in log, row.id <= reader'[e].cursor
               PROVE  row.id \in reader'[e].got \cup reader'[e].missed
    BY <1>3 DEF MissedWasInFlight
  <2>1. CASE e # d
    BY <2>1, <1>11 DEF SyncLogInv, MissedWasInFlight
  <2>2. CASE e = d
    <3>1. row.id \in Nat /\ reader[d].cursor \in Nat
      BY <1>1, RowsAreChanges, PageAssumption DEF SyncLogInv, SyncLogTypeOK, Reader
    <3>2. CASE row.id <= reader[d].cursor
      BY <1>1, <1>12, <2>2, <3>2 DEF SyncLogInv, MissedWasInFlight
    <3>3. CASE row.id > reader[d].cursor
      BY <1>5, <1>12, <2>2, <3>3
    <3>4. QED
      BY <3>1, <3>2, <3>3
  <2>3. QED
    BY <2>1, <2>2
<1>16. ConflictsAreTold'
  <2> SUFFICES ASSUME NEW e \in LogDevices, NEW row \in log, NEW other \in log,
                      row.revision = other.revision, row.source # other.source,
                      {row.id, other.id} \subseteq reader'[e].got
               PROVE  {row.id, other.id} \cap reader'[e].conflicts # {}
    BY <1>3 DEF ConflictsAreTold
  <2>1. CASE e # d \/ {row.id, other.id} \subseteq reader[e].got
    BY <2>1, <1>11, <1>12 DEF SyncLogInv, ConflictsAreTold
  <2>2. CASE e = d /\ ~({row.id, other.id} \subseteq reader[d].got)
    <3>1. Clash(row, log) /\ Clash(other, log)
      BY DEF Clash
    <3>2. row \in page \/ other \in page
      BY <1>10, <1>12, <2>2
    <3>3. QED
      BY <1>9, <1>12, <2>2, <3>1, <3>2
  <2>3. QED
    BY <2>1, <2>2
<1>17. QED
  BY <1>4, <1>13, <1>14, <1>15, <1>16 DEF Promises

LEMMA SyncLogStep == SyncLogInv /\ [SyncLogNext]_syncLogVars => SyncLogInv'
<1> SUFFICES ASSUME SyncLogInv, [SyncLogNext]_syncLogVars PROVE Promises' /\ FinitelyMany'
  BY SyncLogTypeStep DEF SyncLogInv, Promises
<1>t. SyncLogTypeOK
  BY DEF SyncLogInv
<1>1. ASSUME NEW r \in LogRequests, NEW d \in LogDevices, NEW revs \in SUBSET Revisions,
             BeginPush(r, d, revs)
      PROVE  Promises' /\ FinitelyMany'
  BY <1>1, <1>t, WithoutRows, QuietLogStep DEF BeginPush, SyncLogInv
<1>2. ASSUME NEW r \in LogRequests, NEW rev \in Revisions, PushRow(r, rev)
      PROVE  Promises' /\ FinitelyMany'
  BY <1>2, PushRowKeeps
<1>e. ASSUME NEW r \in LogRequests, NEW row, EnterRow(r, row) PROVE Promises' /\ FinitelyMany'
  BY <1>e, EnterRowKeeps
<1>3. ASSUME NEW r \in LogRequests, CommitPush(r) PROVE Promises' /\ FinitelyMany'
  BY <1>3, CommitPushKeeps
<1>4. ASSUME NEW r \in LogRequests, NEW d \in LogDevices, BeginRead(r, d)
      PROVE  Promises' /\ FinitelyMany'
  BY <1>4, <1>t, WithoutRows, QuietLogStep DEF BeginRead, SyncLogInv
<1>5. ASSUME NEW r \in LogRequests, Read(r) PROVE Promises' /\ FinitelyMany'
  BY <1>5, ReadKeeps
<1>6. ASSUME NEW r \in LogRequests, FailLogRequest(r) PROVE Promises' /\ FinitelyMany'
  BY <1>6, <1>t, WithoutRows, QuietLogStep DEF FailLogRequest, SyncLogInv, LogIdle
<1>7. ASSUME UNCHANGED <<sequence, log, logRequest, reader>> PROVE Promises' /\ FinitelyMany'
  <2>1. InFlight' = InFlight /\ FinitelyMany'
    BY <1>7 DEF InFlight, Pushing, FinitelyMany, SyncLogInv
  <2>2. QED
    BY <1>7, <2>1, QuietLogStep
<1>8. ASSUME NEW d \in LogDevices, LoseDevice(d) PROVE Promises' /\ FinitelyMany'
  BY <1>7, <1>8 DEF LoseDevice
<1>9. CASE UNCHANGED syncLogVars
  BY <1>7, <1>9 DEF syncLogVars
<1>10. QED
  BY <1>1, <1>2, <1>3, <1>4, <1>5, <1>6, <1>8, <1>9, <1>e DEF SyncLogNext

LEMMA SyncLogStarts == SyncLogInit => SyncLogInv
<1> SUFFICES ASSUME SyncLogInit PROVE SyncLogInv
  OBVIOUS
<1>1. InFlight = {} /\ \A r \in LogRequests : ~Pushing(r)
  BY DEF SyncLogInit, InFlight, Pushing, LogIdle
<1>2. SyncLogTypeOK
  BY PageAssumption DEF SyncLogInit, SyncLogTypeOK, LogRequest, Reader
<1>3. QED
  BY <1>1, <1>2, FS_EmptySet, PageAssumption
     DEF SyncLogInit, SyncLogInv, IdsNameRows, CursorsAreHonest, FinitelyMany,
         MissedWasInFlight, ConflictsAreTold

LEMMA SyncLogInvariant == SyncLogSpec => []SyncLogInv
<1>1. QED
  BY SyncLogStarts, SyncLogStep, PTL DEF SyncLogSpec

\* A reader that follows its cursor has got every change up to it, but those that had
\* their id and were not committed when a page went past them (getSyncChanges).
THEOREM ReadersMissOnlyWhatWasInFlight == SyncLogSpec => []MissedWasInFlight
<1>1. SyncLogInv => MissedWasInFlight
  BY DEF SyncLogInv
<1>2. QED
  BY <1>1, SyncLogInvariant, PTL

\* A device with two versions of one revision was told so (getSyncChanges).
THEOREM ReadersAreToldOfConflicts == SyncLogSpec => []ConflictsAreTold
<1>1. SyncLogInv => ConflictsAreTold
  BY DEF SyncLogInv
<1>2. QED
  BY <1>1, SyncLogInvariant, PTL

=============================================================================
