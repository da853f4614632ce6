------------------------------- MODULE AccountsProofs -------------------------------
(***************************************************************************)
(* Proofs of AccountDevices and AccountDeletion, for any devices, limit,   *)
(* transactions, keys and steps of a deletion: the types, the slots of     *)
(* active devices, the revocation of all devices by a deletion, the single *)
(* effect of each restoration by support, and for the deletion itself that *)
(* it keeps every promise of AccountDevices, the agreement of the job with *)
(* the account, the sync material that stays erased and the lease that     *)
(* keeps two functions from working on one job.                            *)
(*                                                                         *)
(* The slots and the revocation rest on the lock of the account: a         *)
(* transaction that has read what it decides upon holds it until it        *)
(* commits (LockInv), so that what it has read can only change in its      *)
(* favour (SlotInv, OpenInv).  The keys rest on their unique claim.        *)
(***************************************************************************)
EXTENDS AccountDeletion, FiniteSetTheorems, TLAPS

-----------------------------------------------------------------------------
(* DEVICES                                                                 *)

(* Types *)

\* A sign-in or a restoration is about a device.
DeviceInv ==
  \A r \in Requests : request[r].op \in {"bootstrap", "restore"} => request[r].device \in Devices

TypeInv == DevicesTypeOK /\ DeviceInv

LEMMA TypeStep == TypeInv /\ [DevicesNext]_deviceVars => TypeInv'
<1> SUFFICES ASSUME TypeInv, [DevicesNext]_deviceVars PROVE TypeInv'
  OBVIOUS
<1> USE DEF TypeInv, DevicesTypeOK, DeviceInv, Transaction
<1>e. ASSUME NEW r \in Requests, Ends(r)
      PROVE  request' \in [Requests -> Transaction] /\ holder' \in Requests \cup {Nobody}
             /\ DeviceInv'
  BY <1>e DEF Ends, Idle
<1>o. ASSUME NEW r \in Requests, NEW op \in {"bootstrap", "restore", "deletion"},
             NEW d \in Devices \cup {Unused}, NEW k \in Keys \cup {NoKey},
             NEW step \in {"locking", "checking", "writing"}, Opens(r, op, d, k, step),
             op # "deletion" => d \in Devices
      PROVE  request' \in [Requests -> Transaction] /\ DeviceInv'
  BY <1>o DEF Opens
<1>g. ASSUME NEW r \in Requests, NEW step \in {"checking", "writing"}, Goes(r, step)
      PROVE  request' \in [Requests -> Transaction] /\ DeviceInv'
  BY <1>g DEF Goes
<1>1. ASSUME NEW r \in Requests, NEW d \in Devices, BeginBootstrap(r, d) PROVE TypeInv'
  BY <1>1, <1>o DEF BeginBootstrap, Locks, accountVars
<1>2. ASSUME NEW r \in Requests, NEW d \in Devices, BeginRestore(r, d) PROVE TypeInv'
  BY <1>2, <1>o DEF BeginRestore, Locks, accountVars
<1>3. ASSUME NEW r \in Requests, NEW d \in Devices, NEW k \in Keys, BeginSupportRestore(r, d, k)
      PROVE  TypeInv'
  BY <1>3, <1>o DEF BeginSupportRestore, accountVars
<1>4. ASSUME NEW r \in Requests, LockForSupport(r) PROVE TypeInv'
  BY <1>4, <1>g DEF LockForSupport, Locks, accountVars
<1>5. ASSUME NEW r \in Requests, CheckSlot(r) PROVE TypeInv'
  <2>1. CASE Goes(r, "writing") /\ UNCHANGED holder
    BY <1>5, <1>g, <2>1 DEF CheckSlot, accountVars
  <2>2. CASE Ends(r)
    BY <1>5, <1>e, <2>2 DEF CheckSlot, accountVars
  <2>3. QED
    BY <1>5, <2>1, <2>2 DEF CheckSlot
<1>6. ASSUME NEW r \in Requests, CommitBootstrap(r) PROVE TypeInv'
  BY <1>6, <1>e DEF CommitBootstrap
<1>7. ASSUME NEW r \in Requests, CommitRestore(r) PROVE TypeInv'
  <2>1. request[r].device \in Devices
    BY <1>7 DEF CommitRestore, At
  <2>2. answered' \in [Keys -> Devices \cup {Unused}] /\ lifts' \in [Keys -> Nat]
    BY <1>7, <2>1 DEF CommitRestore
  <2>3. QED
    BY <1>7, <1>e, <2>2 DEF CommitRestore
<1>8. ASSUME NEW r \in Requests, Abort(r) PROVE TypeInv'
  BY <1>8, <1>e DEF Abort, accountVars
<1>9. ASSUME BootstrapWeb PROVE TypeInv'
  BY <1>9 DEF BootstrapWeb
<1>10. ASSUME NEW d \in Devices, Revoke(d) PROVE TypeInv'
  BY <1>10 DEF Revoke
<1>11. ASSUME NEW r \in Requests, BeginDeletion(r) PROVE TypeInv'
  BY <1>11, <1>o DEF BeginDeletion, Locks, accountVars
<1>12. ASSUME NEW r \in Requests, CommitDeletion(r) PROVE TypeInv'
  BY <1>12, <1>e DEF CommitDeletion
<1>13. ASSUME Erase PROVE TypeInv'
  BY <1>13 DEF Erase
<1>14. CASE UNCHANGED deviceVars
  BY <1>14 DEF deviceVars, accountVars
<1>15. QED
  BY <1>1, <1>2, <1>3, <1>4, <1>5, <1>6, <1>7, <1>8, <1>9, <1>10, <1>11, <1>12, <1>13, <1>14
     DEF DevicesNext, DevicesStep, Advance

\* The state keeps its types, whatever the order of the transactions' statements
\* (the SQL functions of migrations 0003, 0015, 0017, 0021 and 0024).
THEOREM DevicesTypeCorrect == DevicesSpec => []DevicesTypeOK
<1>1. DevicesInit => TypeInv
  BY DEF DevicesInit, TypeInv, DevicesTypeOK, DeviceInv, Idle, Transaction
<1>2. TypeInv => DevicesTypeOK
  BY DEF TypeInv
<1>3. QED
  BY <1>1, <1>2, TypeStep, PTL DEF DevicesSpec

-----------------------------------------------------------------------------
(* The lock of the account *)

\* A transaction that has read the state of the account holds its row.
LockInv == \A r \in Requests : request[r].step \in {"checking", "writing"} => holder = r

LEMMA LockStep == TypeInv /\ LockInv /\ [DevicesNext]_deviceVars => LockInv'
<1> SUFFICES ASSUME TypeInv, LockInv, [DevicesNext]_deviceVars PROVE LockInv'
  OBVIOUS
<1> USE NamesAssumption DEF TypeInv, DevicesTypeOK, LockInv, Transaction
<1>e. ASSUME NEW r \in Requests, Ends(r) PROVE LockInv'
  BY <1>e DEF Ends, Idle
<1>o. ASSUME NEW r \in Requests, NEW op, NEW d, NEW k, NEW step,
             Opens(r, op, d, k, step), Locks(r)
      PROVE  LockInv'
  BY <1>o DEF Opens, Locks
<1>1. ASSUME NEW r \in Requests, NEW d \in Devices, BeginBootstrap(r, d) PROVE LockInv'
  BY <1>1, <1>o DEF BeginBootstrap
<1>2. ASSUME NEW r \in Requests, NEW d \in Devices, BeginRestore(r, d) PROVE LockInv'
  BY <1>2, <1>o DEF BeginRestore
<1>3. ASSUME NEW r \in Requests, NEW d \in Devices, NEW k \in Keys, BeginSupportRestore(r, d, k)
      PROVE  LockInv'
  BY <1>3 DEF BeginSupportRestore, Opens
<1>4. ASSUME NEW r \in Requests, LockForSupport(r) PROVE LockInv'
  BY <1>4 DEF LockForSupport, Locks, Goes
<1>5. ASSUME NEW r \in Requests, CheckSlot(r) PROVE LockInv'
  <2>1. CASE Goes(r, "writing") /\ UNCHANGED holder
    BY <1>5, <2>1 DEF CheckSlot, Goes, At
  <2>2. CASE Ends(r)
    BY <1>e, <2>2
  <2>3. QED
    BY <1>5, <2>1, <2>2 DEF CheckSlot
<1>6. ASSUME NEW r \in Requests, CommitBootstrap(r) \/ CommitRestore(r) \/ Abort(r) PROVE LockInv'
  BY <1>6, <1>e DEF CommitBootstrap, CommitRestore, Abort
<1>7. ASSUME BootstrapWeb \/ Erase PROVE LockInv'
  BY <1>7 DEF BootstrapWeb, Erase
<1>8. ASSUME NEW d \in Devices, Revoke(d) PROVE LockInv'
  BY <1>8 DEF Revoke
<1>9. ASSUME NEW r \in Requests, BeginDeletion(r) PROVE LockInv'
  BY <1>9, <1>o DEF BeginDeletion
<1>10. ASSUME NEW r \in Requests, CommitDeletion(r) PROVE LockInv'
  BY <1>10, <1>e DEF CommitDeletion
<1>11. CASE UNCHANGED deviceVars
  BY <1>11 DEF deviceVars
<1>12. QED
  BY <1>1, <1>2, <1>3, <1>4, <1>5, <1>6, <1>7, <1>8, <1>9, <1>10, <1>11
     DEF DevicesNext, DevicesStep, Advance

\* Two transactions never hold it together.
LEMMA OneHolder ==
  ASSUME LockInv, NEW q \in Requests, NEW r \in Requests,
         request[q].step \in {"checking", "writing"},
         request[r].step \in {"checking", "writing"}
  PROVE  q = r
BY DEF LockInv

-----------------------------------------------------------------------------
(* The slots *)

\* A transaction about to take a slot has found one free, and it still is.
SlotInv ==
  \A r \in Requests :
    request[r].op \in {"bootstrap", "restore"} /\ request[r].step = "writing" /\ TakesSlot(r)
      => Cardinality(Active) < Limit

SlotsInv == TypeInv /\ LockInv /\ SlotInv /\ SlotsKept

LEMMA ActiveFinite == IsFiniteSet(Active) /\ Cardinality(Active) \in Nat
<1>1. IsFiniteSet(Active)
  BY DevicesAssumption, FS_Subset DEF Active
<1>2. QED
  BY <1>1, FS_CardinalityType

\* A step that makes no device active and opens or takes on no transaction to its
\* commit leaves the slots alone.
LEMMA FewerActive ==
  ASSUME SlotsInv, Active' \subseteq Active,
         \A r \in Requests :
           request[r].op' \in {"bootstrap", "restore"} /\ request[r].step' = "writing"
             /\ TakesSlot(r)'
           => Cardinality(Active) < Limit
  PROVE  SlotInv' /\ SlotsKept'
<1>1. Cardinality(Active') \in Nat /\ Cardinality(Active') <= Cardinality(Active)
  BY ActiveFinite, FS_Subset, FS_CardinalityType
<1>2. Cardinality(Active)' = Cardinality(Active')
  OBVIOUS
<1>3. QED
  BY <1>1, <1>2, ActiveFinite, LimitAssumption DEF SlotInv, SlotsKept, SlotsInv

\* The step that ends a transaction and makes its device active.
LEMMA OneMoreActive ==
  ASSUME SlotsInv, NEW r \in Requests, Ends(r), request[r].step = "writing",
         request[r].op \in {"bootstrap", "restore"}, TakesSlot(r),
         device' = [device EXCEPT ![request[r].device] = "active"]
  PROVE  SlotInv' /\ SlotsKept'
<1> DEFINE d == request[r].device
<1>1. d \in Devices
  BY DEF SlotsInv, TypeInv, DeviceInv
<1>2. Active' = Active \cup {d} /\ d \notin Active
  BY <1>1 DEF Active, TakesSlot, SlotsInv, TypeInv, DevicesTypeOK
<1>3. Cardinality(Active \cup {d}) = Cardinality(Active) + 1
  BY <1>2, ActiveFinite, FS_AddElement
<1>4. Cardinality(Active) < Limit
  BY DEF SlotsInv, SlotInv
<1>5. SlotsKept'
  BY <1>2, <1>3, <1>4, ActiveFinite, LimitAssumption DEF SlotsKept
<1>6. ASSUME NEW q \in Requests PROVE request[q].step' # "writing"
  <2>1. CASE q = r
    BY <2>1 DEF Ends, Idle, SlotsInv, TypeInv, DevicesTypeOK
  <2>2. CASE q # r
    BY <2>2, OneHolder DEF Ends, SlotsInv, TypeInv, DevicesTypeOK
  <2>3. QED
    BY <2>1, <2>2
<1>7. QED
  BY <1>5, <1>6 DEF SlotInv

LEMMA SlotsStep == SlotsInv /\ [DevicesNext]_deviceVars => SlotInv' /\ SlotsKept'
<1> SUFFICES ASSUME SlotsInv, [DevicesNext]_deviceVars PROVE SlotInv' /\ SlotsKept'
  OBVIOUS
<1> USE NamesAssumption DEF TypeInv, DevicesTypeOK, Transaction
<1>t. TypeInv /\ LockInv /\ SlotInv
  BY DEF SlotsInv
<1>s. ASSUME UNCHANGED device,
             \A r \in Requests :
               request[r].step' = "writing" => request[r]' = request[r]
      PROVE  SlotInv' /\ SlotsKept'
  <2>1. Active' = Active
    BY <1>s DEF Active
  <2>2. QED
    BY <1>s, <1>t, <2>1, FewerActive DEF SlotInv, TakesSlot
<1>e. ASSUME NEW r \in Requests, Ends(r), UNCHANGED device PROVE SlotInv' /\ SlotsKept'
  BY <1>e, <1>s, <1>t DEF Ends, Idle
<1>1. ASSUME NEW r \in Requests, NEW d \in Devices,
             \/ BeginBootstrap(r, d) \/ BeginRestore(r, d)
             \/ \E k \in Keys : BeginSupportRestore(r, d, k)
      PROVE  SlotInv' /\ SlotsKept'
  BY <1>1, <1>s, <1>t
     DEF BeginBootstrap, BeginRestore, BeginSupportRestore, Opens, accountVars
<1>2. ASSUME NEW r \in Requests, LockForSupport(r) PROVE SlotInv' /\ SlotsKept'
  BY <1>2, <1>s, <1>t DEF LockForSupport, Goes, accountVars
<1>3. ASSUME NEW r \in Requests, CheckSlot(r) PROVE SlotInv' /\ SlotsKept'
  <2>1. CASE Ends(r)
    BY <1>3, <1>e, <2>1 DEF CheckSlot, accountVars
  <2>2. CASE (TakesSlot(r) => Cardinality(Active) < Limit) /\ Goes(r, "writing")
    <3>1. Active' = Active
      BY <1>3 DEF CheckSlot, accountVars, Active
    <3>2. TakesSlot(r)' = TakesSlot(r)
      BY <1>3, <1>t, <2>2 DEF CheckSlot, accountVars, TakesSlot, Goes
    <3>3. ASSUME NEW q \in Requests, q # r
          PROVE  request[q]' = request[q] /\ TakesSlot(q)' = TakesSlot(q)
      BY <1>3, <1>t, <2>2, <3>3 DEF CheckSlot, accountVars, TakesSlot, Goes
    <3>4. QED
      BY <1>t, <2>2, <3>1, <3>2, <3>3, FewerActive DEF SlotInv
  <2>3. QED
    BY <1>3, <2>1, <2>2 DEF CheckSlot
<1>4. ASSUME NEW r \in Requests, CommitBootstrap(r) PROVE SlotInv' /\ SlotsKept'
  <2>1. CASE TakesSlot(r)
    BY <1>4, <1>t, <2>1, OneMoreActive DEF CommitBootstrap, At, TakesSlot, DeviceInv
  <2>2. CASE ~TakesSlot(r)
    BY <1>4, <1>e, <1>t, <2>2 DEF CommitBootstrap, At, TakesSlot, DeviceInv
  <2>3. QED
    BY <2>1, <2>2
<1>5. ASSUME NEW r \in Requests, CommitRestore(r) PROVE SlotInv' /\ SlotsKept'
  <2>1. CASE TakesSlot(r)
    BY <1>5, <1>t, <2>1, OneMoreActive DEF CommitRestore, At, TakesSlot, DeviceInv
  <2>2. CASE ~TakesSlot(r)
    BY <1>5, <1>e, <1>t, <2>2 DEF CommitRestore, At, TakesSlot, DeviceInv
  <2>3. QED
    BY <2>1, <2>2
<1>6. ASSUME NEW r \in Requests, Abort(r) PROVE SlotInv' /\ SlotsKept'
  BY <1>6, <1>e DEF Abort, accountVars
<1>7. ASSUME BootstrapWeb PROVE SlotInv' /\ SlotsKept'
  BY <1>7, <1>s DEF BootstrapWeb
<1>8. ASSUME NEW d \in Devices, Revoke(d) PROVE SlotInv' /\ SlotsKept'
  <2>1. Active' \subseteq Active
    BY <1>8, <1>t DEF Revoke, Active
  <2>2. ASSUME NEW r \in Requests, request[r].op \in {"bootstrap", "restore"},
               request[r].step = "writing", TakesSlot(r)'
        PROVE  TakesSlot(r)
    BY <1>8, <1>t, <2>2 DEF Revoke, TakesSlot, At, DeviceInv
  <2>3. QED
    BY <1>8, <1>t, <2>1, <2>2, FewerActive DEF Revoke, SlotInv
<1>9. ASSUME NEW r \in Requests, BeginDeletion(r) PROVE SlotInv' /\ SlotsKept'
  <2>1. Active' = Active /\ UNCHANGED device
    BY <1>9 DEF BeginDeletion, accountVars, Active
  <2>2. \A q \in Requests : q # r => request[q]' = request[q] /\ TakesSlot(q)' = TakesSlot(q)
    BY <1>9, <1>t, <2>1 DEF BeginDeletion, Opens, TakesSlot
  <2>3. request[r].op' = "deletion"
    BY <1>9, <1>t DEF BeginDeletion, Opens
  <2>4. QED
    BY <1>t, <2>1, <2>2, <2>3, FewerActive DEF SlotInv
<1>10. ASSUME NEW r \in Requests, CommitDeletion(r) PROVE SlotInv' /\ SlotsKept'
  <2>1. Active' = {}
    BY <1>10 DEF CommitDeletion, Active
  <2>2. \A q \in Requests : request[q].step' # "writing"
    <3>1. request[r].step = "writing"
      BY <1>10 DEF CommitDeletion, At
    <3>2. QED
      BY <1>10, <1>t, <3>1, OneHolder DEF CommitDeletion, Ends, Idle
  <2>3. QED
    BY <2>1, <2>2, FewerActive
<1>11. ASSUME Erase PROVE SlotInv' /\ SlotsKept'
  <2>1. Active' = {}
    BY <1>11 DEF Erase, Active
  <2>2. \A q \in Requests : request[q].step' # "writing"
    BY <1>11, <1>t DEF Erase, LockInv
  <2>3. QED
    BY <2>1, <2>2, FewerActive
<1>12. CASE UNCHANGED deviceVars
  BY <1>12, <1>s DEF deviceVars, accountVars
<1>13. QED
  BY <1>1, <1>2, <1>3, <1>4, <1>5, <1>6, <1>7, <1>8, <1>9, <1>10, <1>11, <1>12
     DEF DevicesNext, DevicesStep, Advance

\* Sign-ins and restorations that run at the same time never share a slot: an
\* account never has more than Limit active devices (bootstrap_pressay_account,
\* restore_pressay_device).
THEOREM SlotsAreKept == DevicesSpec => []SlotsKept
<1>1. DevicesInit => SlotsInv
  <2> SUFFICES ASSUME DevicesInit PROVE SlotsInv
    OBVIOUS
  <2>1. TypeInv /\ LockInv /\ SlotInv
    BY DEF DevicesInit, TypeInv, DevicesTypeOK, DeviceInv, LockInv, SlotInv, Idle, Transaction
  <2>2. Active = {}
    BY DEF DevicesInit, Active
  <2>3. QED
    BY <2>1, <2>2, FS_EmptySet, LimitAssumption DEF SlotsInv, SlotsKept
<1>2. SlotsInv /\ [DevicesNext]_deviceVars => SlotsInv'
  BY TypeStep, LockStep, SlotsStep DEF SlotsInv
<1>3. SlotsInv => SlotsKept
  BY DEF SlotsInv
<1>4. QED
  BY <1>1, <1>2, <1>3, PTL DEF DevicesSpec

-----------------------------------------------------------------------------
(* The revocation of the devices by a deletion *)

\* While a sign-in or a restoration holds the account, it is not being deleted.
OpenInv ==
  \A r \in Requests :
    request[r].op \in {"bootstrap", "restore"} /\ request[r].step \in {"checking", "writing"}
      => status \in {"none", "active"}

DeletionInv == TypeInv /\ LockInv /\ OpenInv /\ DeletingRevokes

LEMMA DeletionStep == DeletionInv /\ [DevicesNext]_deviceVars => OpenInv' /\ DeletingRevokes'
<1> SUFFICES ASSUME DeletionInv, [DevicesNext]_deviceVars PROVE OpenInv' /\ DeletingRevokes'
  OBVIOUS
<1> USE DEF TypeInv, DevicesTypeOK, Transaction, accountVars
<1>t. TypeInv /\ LockInv /\ OpenInv /\ DeletingRevokes
  BY DEF DeletionInv
<1>s. ASSUME UNCHANGED accountVars,
             \A r \in Requests :
               \/ request[r]' = request[r]
               \/ request[r].op' \in {"idle", "deletion"}
               \/ request[r].step' = "locking"
               \/ status \in {"none", "active"}
      PROVE  OpenInv' /\ DeletingRevokes'
  <2>1. Active' = Active
    BY <1>s DEF Active
  <2>2. QED
    BY <1>s, <1>t, <2>1 DEF OpenInv, DeletingRevokes
<1>e. ASSUME NEW r \in Requests, Ends(r), status' = status \/ status' = "active"
      PROVE  OpenInv'
  BY <1>e, <1>t DEF Ends, Idle, OpenInv
<1>1. ASSUME NEW r \in Requests, NEW d \in Devices,
             \/ BeginBootstrap(r, d) \/ BeginRestore(r, d)
             \/ \E k \in Keys : BeginSupportRestore(r, d, k)
      PROVE  OpenInv' /\ DeletingRevokes'
  BY <1>1, <1>s, <1>t DEF BeginBootstrap, BeginRestore, BeginSupportRestore, Opens
<1>2. ASSUME NEW r \in Requests, LockForSupport(r) PROVE OpenInv' /\ DeletingRevokes'
  BY <1>2, <1>s, <1>t DEF LockForSupport
<1>3. ASSUME NEW r \in Requests, CheckSlot(r) PROVE OpenInv' /\ DeletingRevokes'
  BY <1>3, <1>s, <1>t DEF CheckSlot, At, OpenInv
<1>4. ASSUME NEW r \in Requests, CommitBootstrap(r) \/ CommitRestore(r)
      PROVE  OpenInv' /\ DeletingRevokes'
  <2>1. status \in {"none", "active"} /\ status' \in {"none", "active"}
    BY <1>4, <1>t DEF CommitBootstrap, CommitRestore, At, OpenInv
  <2>2. status' = status \/ status' = "active"
    BY <1>4, <2>1 DEF CommitBootstrap, CommitRestore
  <2>3. OpenInv'
    BY <1>4, <1>e, <2>2 DEF CommitBootstrap, CommitRestore
  <2>4. QED
    BY <2>1, <2>3 DEF DeletingRevokes
<1>5. ASSUME NEW r \in Requests, Abort(r) PROVE OpenInv' /\ DeletingRevokes'
  BY <1>5, <1>s, <1>t DEF Abort, Ends, Idle
<1>6. ASSUME BootstrapWeb PROVE OpenInv' /\ DeletingRevokes'
  BY <1>6, <1>t DEF BootstrapWeb, OpenInv, DeletingRevokes
<1>7. ASSUME NEW d \in Devices, Revoke(d) PROVE OpenInv' /\ DeletingRevokes'
  <2>1. Active' \subseteq Active
    BY <1>7, <1>t DEF Revoke, Active
  <2>2. QED
    BY <1>7, <1>t, <2>1 DEF Revoke, OpenInv, DeletingRevokes
<1>8. ASSUME NEW r \in Requests, BeginDeletion(r) PROVE OpenInv' /\ DeletingRevokes'
  BY <1>8, <1>s, <1>t DEF BeginDeletion, Opens
<1>9. ASSUME NEW r \in Requests, CommitDeletion(r) PROVE OpenInv' /\ DeletingRevokes'
  <2>1. Active' = {}
    BY <1>9 DEF CommitDeletion, Active
  <2>2. request[r].step = "writing"
    BY <1>9 DEF CommitDeletion, At
  <2>3. \A q \in Requests : request[q].step' \notin {"checking", "writing"}
    BY <1>9, <1>t, <2>2, OneHolder DEF CommitDeletion, Ends, Idle
  <2>4. QED
    BY <2>1, <2>3 DEF OpenInv, DeletingRevokes
<1>10. ASSUME Erase PROVE OpenInv' /\ DeletingRevokes'
  <2>1. Active' = {}
    BY <1>10 DEF Erase, Active
  <2>2. \A q \in Requests : request[q].step' \notin {"checking", "writing"}
    BY <1>10, <1>t, NamesAssumption DEF Erase, LockInv
  <2>3. QED
    BY <2>1, <2>2 DEF OpenInv, DeletingRevokes
<1>11. CASE UNCHANGED deviceVars
  BY <1>11, <1>s DEF deviceVars
<1>12. QED
  BY <1>1, <1>2, <1>3, <1>4, <1>5, <1>6, <1>7, <1>8, <1>9, <1>10, <1>11
     DEF DevicesNext, DevicesStep, Advance

\* Once the deletion of an account is requested none of its devices is active, and
\* no sign-in or restoration that began earlier changes that
\* (request_pressay_account_deletion).
THEOREM DeletionRevokes == DevicesSpec => []DeletingRevokes
<1>1. DevicesInit => DeletionInv
  BY DEF DevicesInit, DeletionInv, TypeInv, DevicesTypeOK, DeviceInv, LockInv, OpenInv,
         DeletingRevokes, Idle, Transaction
<1>2. DeletionInv /\ [DevicesNext]_deviceVars => DeletionInv'
  BY TypeStep, LockStep, DeletionStep DEF DeletionInv
<1>3. DeletionInv => DeletingRevokes
  BY DEF DeletionInv
<1>4. QED
  BY <1>1, <1>2, <1>3, PTL DEF DevicesSpec

-----------------------------------------------------------------------------
(* The keys of support's restorations *)

\* A key that a transaction holds has no answer yet, belongs to it alone, and a key
\* without an answer has lifted nothing.
KeyInv ==
  /\ \A r \in Requests : request[r].key \in Keys => answered[request[r].key] = Unused
  /\ \A q, r \in Requests : request[q].key \in Keys /\ request[q].key = request[r].key => q = r
  /\ \A k \in Keys : answered[k] = Unused => lifts[k] = 0

RetryInv == TypeInv /\ KeyInv /\ LiftedOnce

LEMMA RetryStep == RetryInv /\ [DevicesNext]_deviceVars => KeyInv' /\ LiftedOnce'
<1> SUFFICES ASSUME RetryInv, [DevicesNext]_deviceVars PROVE KeyInv' /\ LiftedOnce'
  OBVIOUS
<1> USE NamesAssumption DEF TypeInv, DevicesTypeOK, Transaction
<1>t. TypeInv /\ KeyInv /\ LiftedOnce
  BY DEF RetryInv
<1>s. ASSUME UNCHANGED <<answered, lifts>>,
             \A r \in Requests : request[r].key' \in {request[r].key, NoKey}
      PROVE  KeyInv' /\ LiftedOnce'
  BY <1>s, <1>t DEF KeyInv, LiftedOnce
<1>e. ASSUME NEW r \in Requests, Ends(r)
      PROVE  \A q \in Requests : request[q].key' = IF q = r THEN NoKey ELSE request[q].key
  BY <1>e, <1>t DEF Ends, Idle
<1>1. ASSUME NEW r \in Requests, NEW d \in Devices, BeginBootstrap(r, d) \/ BeginRestore(r, d)
      PROVE  KeyInv' /\ LiftedOnce'
  BY <1>1, <1>s, <1>t DEF BeginBootstrap, BeginRestore, Opens
<1>2. ASSUME NEW r \in Requests, NEW d \in Devices, NEW k \in Keys, BeginSupportRestore(r, d, k)
      PROVE  KeyInv' /\ LiftedOnce'
  <2>1. \A q \in Requests : request[q].key' = IF q = r THEN k ELSE request[q].key
    BY <1>2, <1>t DEF BeginSupportRestore, Opens
  <2>2. answered[k] = Unused /\ \A q \in Requests : request[q].key # k
    BY <1>2 DEF BeginSupportRestore, Claimable
  <2>3. QED
    BY <1>2, <1>t, <2>1, <2>2 DEF BeginSupportRestore, KeyInv, LiftedOnce
<1>3. ASSUME NEW r \in Requests, LockForSupport(r) PROVE KeyInv' /\ LiftedOnce'
  BY <1>3, <1>s, <1>t DEF LockForSupport, Goes
<1>4. ASSUME NEW r \in Requests, CheckSlot(r) PROVE KeyInv' /\ LiftedOnce'
  <2>1. CASE Ends(r)
    BY <1>4, <1>e, <1>s, <2>1 DEF CheckSlot
  <2>2. CASE Goes(r, "writing")
    BY <1>4, <1>s, <1>t, <2>2 DEF CheckSlot, Goes
  <2>3. QED
    BY <1>4, <2>1, <2>2 DEF CheckSlot
<1>5. ASSUME NEW r \in Requests, CommitBootstrap(r) \/ Abort(r) \/ CommitDeletion(r)
      PROVE  KeyInv' /\ LiftedOnce'
  BY <1>5, <1>e, <1>s DEF CommitBootstrap, Abort, CommitDeletion
<1>6. ASSUME NEW r \in Requests, CommitRestore(r) PROVE KeyInv' /\ LiftedOnce'
  <2> DEFINE k == request[r].key
             d == request[r].device
  <2>1. d # Unused
    BY <1>6, <1>t DEF CommitRestore, At, DeviceInv
  <2>2. \A key \in Keys :
          /\ answered'[key] = IF key = k THEN d ELSE answered[key]
          /\ lifts'[key] = IF key = k /\ device[d] = "revoked" THEN lifts[key] + 1
                                                               ELSE lifts[key]
    BY <1>6 DEF CommitRestore
  <2>3. \A q \in Requests : request[q].key' = IF q = r THEN NoKey ELSE request[q].key
    BY <1>6, <1>e DEF CommitRestore
  <2>4. \A key \in Keys : answered'[key] = Unused => answered[key] = Unused /\ key # k
    BY <2>1, <2>2
  <2>5. \A q \in Requests : request[q].key' \in Keys => request[q].key' # k
    BY <1>t, <2>3 DEF KeyInv
  <2>6. KeyInv'
    <3>1. \A q \in Requests : request[q].key' \in Keys => answered'[request[q].key'] = Unused
      BY <1>t, <2>2, <2>3, <2>5 DEF KeyInv
    <3>2. \A p, q \in Requests :
            request[p].key' \in Keys /\ request[p].key' = request[q].key' => p = q
      BY <1>t, <2>3 DEF KeyInv
    <3>3. \A key \in Keys : answered'[key] = Unused => lifts'[key] = 0
      BY <1>t, <2>2, <2>4 DEF KeyInv
    <3>4. QED
      BY <3>1, <3>2, <3>3 DEF KeyInv
  <2>7. k \in Keys => lifts[k] = 0
    BY <1>t DEF KeyInv
  <2>8. LiftedOnce'
    BY <1>t, <2>2, <2>7 DEF LiftedOnce
  <2>9. QED
    BY <2>6, <2>8
<1>7. ASSUME BootstrapWeb \/ Erase \/ \E d \in Devices : Revoke(d) PROVE KeyInv' /\ LiftedOnce'
  BY <1>7, <1>s DEF BootstrapWeb, Erase, Revoke
<1>8. ASSUME NEW r \in Requests, BeginDeletion(r) PROVE KeyInv' /\ LiftedOnce'
  BY <1>8, <1>s, <1>t DEF BeginDeletion, Opens
<1>9. CASE UNCHANGED deviceVars
  BY <1>9, <1>s DEF deviceVars
<1>10. QED
  BY <1>1, <1>2, <1>3, <1>4, <1>5, <1>6, <1>7, <1>8, <1>9
     DEF DevicesNext, DevicesStep, Advance

\* However often support sends a restoration again, it lifts at most one revocation,
\* also when a revocation came between two deliveries
\* (claim_pressay_operations_request).
THEOREM RestorationsLiftOnce == DevicesSpec => []LiftedOnce
<1>1. DevicesInit => RetryInv
  BY NamesAssumption
     DEF DevicesInit, RetryInv, TypeInv, DevicesTypeOK, DeviceInv, KeyInv, LiftedOnce, Idle,
         Transaction
<1>2. RetryInv /\ [DevicesNext]_deviceVars => RetryInv'
  BY TypeStep, RetryStep DEF RetryInv
<1>3. RetryInv => LiftedOnce
  BY DEF RetryInv
<1>4. QED
  BY <1>1, <1>2, <1>3, PTL DEF DevicesSpec

-----------------------------------------------------------------------------
(* DELETION                                                                *)

(* The devices *)

LEMMA DevicesRefinedStep == [Next]_vars => [DevicesNext]_deviceVars
<1> SUFFICES ASSUME [Next]_vars PROVE [DevicesNext]_deviceVars
  OBVIOUS
<1>1. CASE DevicesStep
  BY <1>1 DEF DevicesNext
<1>2. ASSUME NEW write \in Writes, Check(write) \/ Write(write) \/ Drop(write)
      PROVE  UNCHANGED deviceVars
  BY <1>2 DEF Check, Write, Drop
<1>3. ASSUME CreateCustomer \/ Tick PROVE UNCHANGED deviceVars
  BY <1>3 DEF CreateCustomer, Tick
<1>4. ASSUME NEW r \in Requests, BeginRequest(r) \/ RequestDeletion(r) PROVE DevicesNext
  BY <1>4 DEF BeginRequest, RequestDeletion, DevicesNext
<1>5. ASSUME NEW w \in Workers, Work(w), ~CommitErasure(w) PROVE UNCHANGED deviceVars
  BY <1>5 DEF Work, Claim, DeleteCustomer, DeleteWebIdentity, Forget, Select, Complete,
              NotCompleted, Fail
<1>6. ASSUME NEW w \in Workers, CommitErasure(w) PROVE DevicesNext
  BY <1>6 DEF CommitErasure, DevicesNext
<1>7. ASSUME NEW w \in Workers, CallFails(w) \/ Die(w) PROVE UNCHANGED deviceVars
  BY <1>7 DEF CallFails, Die
<1>8. CASE UNCHANGED vars
  BY <1>8 DEF vars
<1>9. QED
  BY <1>1, <1>2, <1>3, <1>4, <1>5, <1>6, <1>7, <1>8 DEF Next, AnswerLost

\* The job does to the account and its devices nothing but what AccountDevices
\* describes: what is proved of it holds here (runAccountDeletionBatch).
THEOREM DeletionImplementsDevices == Spec => DevicesSpec
<1>1. Init => DevicesInit
  BY DEF Init
<1>2. QED
  BY <1>1, DevicesRefinedStep, PTL DEF Spec, DevicesSpec

-----------------------------------------------------------------------------
(* Types *)

LEMMA PowerOfTwo == ASSUME NEW n \in Nat PROVE 2 ^ n \in Nat
<1>1. IsFiniteSet(1 .. n) /\ Cardinality(1 .. n) = n
  BY FS_Interval
<1>2. QED
  BY <1>1, FS_SUBSET, FS_CardinalityType

LEMMA BackoffBounded == ASSUME NEW attempts \in Nat PROVE Backoff(attempts) \in 0 .. MaxBackoff
<1> DEFINE n == IF attempts < 11 THEN attempts ELSE 11
<1>1. 2 ^ n \in Nat
  BY PowerOfTwo
<1> HIDE DEF n
<1>2. BackoffUnit * 2 ^ n \in Nat
  BY <1>1, JobAssumption
<1>3. Backoff(attempts) = IF BackoffUnit * 2 ^ n < MaxBackoff THEN BackoffUnit * 2 ^ n
                                                              ELSE MaxBackoff
  BY DEF Backoff, n
<1>4. QED
  BY <1>2, <1>3, JobAssumption

DeletionTypeInv == TypeOK /\ TypeInv

LEMMA DeletionTypeStep == DeletionTypeInv /\ [Next]_vars => DeletionTypeInv'
<1> SUFFICES ASSUME DeletionTypeInv, [Next]_vars PROVE DeletionTypeInv'
  OBVIOUS
<1>d. TypeInv' /\ DevicesTypeOK'
  BY DevicesRefinedStep, TypeStep DEF DeletionTypeInv, TypeInv
<1> USE JobAssumption DEF TypeOK, DeletionTypeInv, Job, WorkerState, outside, counts
<1>1. CASE DevicesStep /\ UNCHANGED jobVars
  BY <1>1, <1>d DEF jobVars
<1>2. ASSUME NEW write \in Writes, Check(write) \/ Write(write) \/ Drop(write)
      PROVE  TypeOK'
  BY <1>2, <1>d DEF Check, Write, Drop
<1>3. ASSUME CreateCustomer PROVE TypeOK'
  BY <1>3, <1>d DEF CreateCustomer
<1>4. ASSUME NEW r \in Requests, BeginRequest(r) PROVE TypeOK'
  BY <1>4, <1>d DEF BeginRequest
<1>w. 0 <= MaxWait /\ MaxWait \in Nat
  BY DEF MaxWait
<1>5. ASSUME NEW r \in Requests, RequestDeletion(r) PROVE TypeOK'
  <2>1. job' \in Job
    <3>1. job' = [state |-> IF job.state = "completed" THEN "completed" ELSE "queued",
                  attempts |-> job.attempts, wait |-> 0]
      BY <1>5 DEF RequestDeletion
    <3>2. QED
      BY <1>w, <3>1
  <2>2. rows' \in SUBSET (Writes \cup {"invitation"})
    BY <1>5 DEF RequestDeletion
  <2>3. QED
    BY <1>5, <1>d, <2>1, <2>2 DEF RequestDeletion
<1>6. ASSUME NEW w \in Workers, Claim(w) PROVE TypeOK'
  BY <1>6, <1>d DEF Claim, FirstStep, MaxWait
<1>s. ASSUME NEW w \in Workers,
             NEW step \in {"web", "forgetting", "erasing", "locking", "failing"}, StepTo(w, step)
      PROVE  worker' \in [Workers -> WorkerState]
  BY <1>s DEF StepTo
<1>7. ASSUME NEW w \in Workers,
             DeleteCustomer(w) \/ DeleteWebIdentity(w) \/ Forget(w) \/ Select(w) \/ NotCompleted(w)
      PROVE  TypeOK'
  <2> USE <1>d, <1>s
  <2>1. CASE DeleteCustomer(w)
    BY <2>1 DEF DeleteCustomer
  <2>2. CASE DeleteWebIdentity(w)
    BY <2>2 DEF DeleteWebIdentity
  <2>3. CASE Forget(w)
    BY <2>3 DEF Forget
  <2>4. CASE Select(w)
    BY <2>4 DEF Select
  <2>5. CASE NotCompleted(w)
    BY <2>5 DEF NotCompleted
  <2>6. QED
    BY <1>7, <2>1, <2>2, <2>3, <2>4, <2>5
<1>8. ASSUME NEW w \in Workers, Complete(w) \/ AnswerLost(w) PROVE TypeOK'
  <2>1. worker' \in [Workers -> WorkerState] /\ troubles' \in 0 .. MaxTroubles
    <3>1. CASE worker' = [worker EXCEPT ![w] = Free] /\ UNCHANGED counts
      BY <3>1 DEF Free
    <3>2. CASE StepTo(w, "failing") /\ Trouble
      <4>1. worker' \in [Workers -> WorkerState]
        BY <1>s, <3>2
      <4>2. troubles' \in 0 .. MaxTroubles
        BY <3>2 DEF Trouble
      <4>3. QED
        BY <4>1, <4>2
    <3>3. QED
      BY <1>8, <3>1, <3>2 DEF Complete, AnswerLost
  <2>2. UNCHANGED <<outside, inflight, requested>>
    BY <1>8 DEF Complete, AnswerLost, CommitErasure
  <2>3. job' \in Job /\ overtaken' \in BOOLEAN /\ rows' \in SUBSET (Writes \cup {"invitation"})
    BY <1>8 DEF Complete, AnswerLost, CommitErasure
  <2>4. QED
    BY <1>d, <2>1, <2>2, <2>3
<1>9. ASSUME NEW w \in Workers, Fail(w) PROVE TypeOK'
  <2>1. Backoff(worker[w].attempts) \in 0 .. MaxWait
    BY BackoffBounded DEF MaxWait
  <2>2. job' \in Job
    BY <1>9, <2>1 DEF Fail, MarkFailed
  <2>3. worker' \in [Workers -> WorkerState]
    BY <1>9 DEF Fail, Free
  <2>4. QED
    BY <1>9, <1>d, <2>2, <2>3 DEF Fail
<1>10. ASSUME NEW w \in Workers, CallFails(w) PROVE TypeOK'
  <2>1. worker' \in [Workers -> WorkerState]
    BY <1>10, <1>s DEF CallFails
  <2>2. stripe' \in {stripe, "deleted"} /\ web' \in {web, FALSE}
    BY <1>10 DEF CallFails
  <2>3. rows' \in SUBSET (Writes \cup {"invitation"})
    <3>1. rows' \in {rows, rows \ {"invitation"}}
      BY <1>10 DEF CallFails
    <3>2. QED
      BY <3>1
  <2>4. troubles' \in 0 .. MaxTroubles
    BY <1>10 DEF CallFails, Trouble
  <2>5. UNCHANGED <<job, orphan, inflight, overtaken, requested>>
    BY <1>10 DEF CallFails
  <2>6. stripe' \in {"none", "created", "linked", "deleted"} /\ web' \in BOOLEAN
    BY <2>2
  <2>7. QED
    BY <1>d, <2>1, <2>3, <2>4, <2>5, <2>6
<1>11. ASSUME NEW w \in Workers, Die(w) PROVE TypeOK'
  BY <1>11, <1>d DEF Die, Trouble, Free
<1>12. ASSUME Tick PROVE TypeOK'
  <2>1. job' \in Job
    BY <1>12, <1>w DEF Tick
  <2>2. \A w \in Workers : worker[w].age + 1 \in 0 .. MaxLife
    BY <1>12 DEF Tick
  <2>3. worker' \in [Workers -> WorkerState]
    BY <1>12, <2>2 DEF Tick, Free
  <2>4. QED
    BY <1>12, <1>d, <2>1, <2>3 DEF Tick
<1>13. CASE UNCHANGED vars
  BY <1>13, <1>d DEF vars, jobVars
<1>14. QED
  BY <1>1, <1>2, <1>3, <1>4, <1>5, <1>6, <1>7, <1>8, <1>9, <1>10, <1>11, <1>12, <1>13, <1>d
     DEF Next, Work

LEMMA DeletionTypeInit == Init => DeletionTypeInv
<1> SUFFICES ASSUME Init PROVE DeletionTypeInv
  OBVIOUS
<1>1. TypeInv
  BY DEF Init, DevicesInit, TypeInv, DevicesTypeOK, DeviceInv, Idle, Transaction
<1>2. job \in Job /\ worker \in [Workers -> WorkerState]
  BY JobAssumption DEF Init, NoJob, Job, MaxWait, Free, WorkerState
<1>3. troubles \in 0 .. MaxTroubles /\ requested \in 0 .. MaxRequests
  BY JobAssumption DEF Init
<1>4. rows \in SUBSET (Writes \cup {"invitation"}) /\ inflight \in SUBSET Writes
  BY DEF Init
<1>5. QED
  BY <1>1, <1>2, <1>3, <1>4 DEF Init, DeletionTypeInv, TypeOK, TypeInv

\* The job, the functions and the rows keep their types; in particular a wait never
\* exceeds the longest of the lease and the backoff (failDeletionJob).
THEOREM DeletionTypeCorrect == Spec => []TypeOK
<1>1. DeletionTypeInv => TypeOK
  BY DEF DeletionTypeInv
<1>2. QED
  BY <1>1, DeletionTypeInit, DeletionTypeStep, PTL DEF Spec

-----------------------------------------------------------------------------
(* The job and the account *)

\* While a deletion is being requested, the account is not erased.
RequestInv == \A r \in Requests : At(r, "deletion", "writing") => status \in {"active", "deleting"}

\* An erased account has no device.
TombstoneInv == status = "deleted" => \A d \in Devices : device[d] = "absent"

JobInv == /\ DeletionTypeInv /\ LockInv /\ OpenInv /\ DeletingRevokes /\ RequestInv
          /\ TombstoneInv /\ JobMatchesAccount /\ ChangesStayErased

\* The other transactions neither open nor take on one that requests a deletion.
LEMMA DeletionsUntouched ==
  ASSUME TypeInv, DevicesStep, NEW q \in Requests, request[q].op' = "deletion"
  PROVE  UNCHANGED request[q]
<1>1. \/ UNCHANGED request
      \/ \E r \in Requests : \/ Ends(r)
                             \/ \E op \in {"bootstrap", "restore"}, d \in Devices,
                                   k \in Keys \cup {NoKey}, step \in {"locking", "checking"} :
                                  Opens(r, op, d, k, step)
                             \/ /\ request[r].op \in {"bootstrap", "restore"}
                                /\ \E step \in {"checking", "writing"} : Goes(r, step)
  BY DEF DevicesStep, BeginBootstrap, BeginRestore, BeginSupportRestore, Advance,
         LockForSupport, CheckSlot, CommitBootstrap, CommitRestore, Abort, BootstrapWeb, Revoke,
         At
<1>2. QED
  BY <1>1 DEF TypeInv, DevicesTypeOK, Ends, Opens, Goes, Idle, Transaction

\* What the transactions of sign-ins and restorations leave as it is.
LEMMA DevicesStepKeeps ==
  ASSUME JobInv, DevicesStep, UNCHANGED jobVars
  PROVE  RequestInv' /\ TombstoneInv' /\ JobMatchesAccount' /\ ChangesStayErased'
<1> USE DEF JobInv, DeletionTypeInv, TypeInv, DevicesTypeOK, accountVars
<1>1. \/ status' = status
      \/ status \in {"none", "active"} /\ status' = "active"
  <2>1. ASSUME NEW r \in Requests, CommitBootstrap(r)
        PROVE  status \in {"none", "active"} /\ status' = "active"
    BY <2>1 DEF CommitBootstrap, At, OpenInv
  <2>2. QED
    BY <2>1 DEF DevicesStep, BeginBootstrap, BeginRestore, BeginSupportRestore, Advance,
                LockForSupport, CheckSlot, CommitRestore, Abort, BootstrapWeb, Revoke
<1>2. \A r \in Requests : At(r, "deletion", "writing")' => At(r, "deletion", "writing")
  BY DeletionsUntouched DEF At
<1>3. status = "deleted" => UNCHANGED device
  <2>1. ASSUME NEW d \in Devices, Revoke(d) PROVE status # "deleted"
    BY <2>1 DEF Revoke, DeletingRevokes, Active
  <2>2. ASSUME NEW r \in Requests, CommitBootstrap(r) \/ CommitRestore(r) PROVE status # "deleted"
    BY <2>2 DEF CommitBootstrap, CommitRestore, At, OpenInv
  <2>3. QED
    BY <2>1, <2>2 DEF DevicesStep, BeginBootstrap, BeginRestore, BeginSupportRestore, Advance,
                      LockForSupport, CheckSlot, Abort, BootstrapWeb
<1>4. RequestInv'
  BY <1>1, <1>2 DEF RequestInv
<1>5. TombstoneInv'
  BY <1>1, <1>3 DEF TombstoneInv
<1>6. JobMatchesAccount' /\ ChangesStayErased'
  BY <1>1 DEF jobVars, JobMatchesAccount, ChangesStayErased
<1>7. QED
  BY <1>4, <1>5, <1>6

LEMMA JobStep ==
  JobInv /\ [Next]_vars => RequestInv' /\ TombstoneInv' /\ JobMatchesAccount' /\ ChangesStayErased'
<1> SUFFICES ASSUME JobInv, [Next]_vars
             PROVE  RequestInv' /\ TombstoneInv' /\ JobMatchesAccount' /\ ChangesStayErased'
  OBVIOUS
<1> USE DEF JobInv, DeletionTypeInv, TypeOK, Job
<1>s. ASSUME UNCHANGED deviceVars, job'.state = job.state \/ {job.state, job'.state} \subseteq
                {"queued", "failed", "processing"},
             status = "deleted" /\ "change" \in rows' => "change" \in rows
      PROVE  RequestInv' /\ TombstoneInv' /\ JobMatchesAccount' /\ ChangesStayErased'
  BY <1>s DEF deviceVars, accountVars, RequestInv, At, TombstoneInv, JobMatchesAccount,
              ChangesStayErased
<1>1. CASE DevicesStep /\ UNCHANGED jobVars
  BY <1>1, DevicesStepKeeps
<1>2. ASSUME NEW write \in Writes, Check(write) \/ Write(write) \/ Drop(write)
      PROVE  RequestInv' /\ TombstoneInv' /\ JobMatchesAccount' /\ ChangesStayErased'
  BY <1>2, <1>s DEF Check, Write, Drop, Referenced, TombstoneInv
<1>3. ASSUME CreateCustomer
      PROVE  RequestInv' /\ TombstoneInv' /\ JobMatchesAccount' /\ ChangesStayErased'
  BY <1>3, <1>s DEF CreateCustomer
<1>4. ASSUME NEW r \in Requests, BeginRequest(r)
      PROVE  RequestInv' /\ TombstoneInv' /\ JobMatchesAccount' /\ ChangesStayErased'
  <2>1. UNCHANGED <<status, device, job, rows>> /\ status \in {"active", "deleting"}
    BY <1>4 DEF BeginRequest, BeginDeletion, accountVars
  <2>2. QED
    BY <2>1 DEF RequestInv, TombstoneInv, JobMatchesAccount, ChangesStayErased
<1>5. ASSUME NEW r \in Requests, RequestDeletion(r)
      PROVE  RequestInv' /\ TombstoneInv' /\ JobMatchesAccount' /\ ChangesStayErased'
  <2>1. At(r, "deletion", "writing") /\ status \in {"active", "deleting"} /\ status' = "deleting"
    BY <1>5 DEF RequestDeletion, CommitDeletion, RequestInv
  <2>2. job'.state = "queued"
    BY <1>5, <2>1 DEF RequestDeletion, JobMatchesAccount
  <2>3. QED
    BY <2>1, <2>2 DEF RequestInv, TombstoneInv, JobMatchesAccount, ChangesStayErased
<1>6. ASSUME NEW w \in Workers, Claim(w)
      PROVE  RequestInv' /\ TombstoneInv' /\ JobMatchesAccount' /\ ChangesStayErased'
  BY <1>6, <1>s DEF Claim, Due
<1>7. ASSUME NEW w \in Workers,
             \/ DeleteCustomer(w) \/ DeleteWebIdentity(w) \/ Forget(w) \/ Select(w)
             \/ NotCompleted(w) \/ CallFails(w) \/ Die(w)
      PROVE  RequestInv' /\ TombstoneInv' /\ JobMatchesAccount' /\ ChangesStayErased'
  <2>1. UNCHANGED deviceVars /\ UNCHANGED job
    BY <1>7 DEF DeleteCustomer, DeleteWebIdentity, Forget, Select, NotCompleted, CallFails, Die
  <2>2. rows' \subseteq rows
    BY <1>7 DEF DeleteCustomer, DeleteWebIdentity, Forget, Select, NotCompleted, CallFails, Die
  <2>3. QED
    BY <1>s, <2>1, <2>2
<1>8. ASSUME NEW w \in Workers, CommitErasure(w)
      PROVE  RequestInv' /\ TombstoneInv' /\ JobMatchesAccount' /\ ChangesStayErased'
  <2>1. /\ holder = Nobody /\ status = "deleting" /\ status' = "deleted"
        /\ UNCHANGED request /\ device' = [d \in Devices |-> "absent"]
        /\ job'.state = "completed" /\ "change" \notin rows'
    BY <1>8 DEF CommitErasure, Erase
  <2>2. \A r \in Requests : ~At(r, "deletion", "writing")
    BY <2>1, NamesAssumption DEF LockInv, At
  <2>3. QED
    BY <2>1, <2>2 DEF RequestInv, At, TombstoneInv, JobMatchesAccount, ChangesStayErased
<1>9. ASSUME NEW w \in Workers, Fail(w)
      PROVE  RequestInv' /\ TombstoneInv' /\ JobMatchesAccount' /\ ChangesStayErased'
  BY <1>9, <1>s DEF Fail, MarkFailed
<1>10. ASSUME Tick PROVE RequestInv' /\ TombstoneInv' /\ JobMatchesAccount' /\ ChangesStayErased'
  BY <1>10, <1>s DEF Tick
<1>11. CASE UNCHANGED vars
  BY <1>11, <1>s DEF vars, jobVars
<1>12. QED
  BY <1>1, <1>2, <1>3, <1>4, <1>5, <1>6, <1>7, <1>8, <1>9, <1>10, <1>11
     DEF Next, Work, Complete, AnswerLost

LEMMA JobInvariant == Spec => []JobInv
<1>1. ASSUME Init PROVE JobInv
  BY <1>1, DeletionTypeInit
     DEF Init, DevicesInit, JobInv, LockInv, OpenInv, DeletingRevokes, RequestInv, At, Idle,
         TombstoneInv, JobMatchesAccount, NoJob, ChangesStayErased
<1>2. ASSUME JobInv, [Next]_vars PROVE JobInv'
  <2>1. DeletionTypeInv' /\ LockInv' /\ OpenInv' /\ DeletingRevokes'
    BY <1>2, DeletionTypeStep, DevicesRefinedStep, LockStep, DeletionStep
       DEF JobInv, DeletionTypeInv, DeletionInv
  <2>2. QED
    BY <1>2, <2>1, JobStep DEF JobInv
<1>3. QED
  BY <1>1, <1>2, PTL DEF Spec

\* The tombstone and the completed job are written together and stay so, whatever
\* second request, late failure or other function comes after
\* (complete_pressay_account_deletion, failDeletionJob).
THEOREM JobAlwaysMatchesAccount == Spec => []JobMatchesAccount
<1>1. JobInv => JobMatchesAccount
  BY DEF JobInv
<1>2. QED
  BY <1>1, JobInvariant, PTL

\* No sync change is left on an erased account, nor comes back to it, as recovery
\* material may (appendSyncChanges, complete_pressay_account_deletion).
THEOREM ChangesAreErased == Spec => []ChangesStayErased
<1>1. JobInv => ChangesStayErased
  BY DEF JobInv
<1>2. QED
  BY <1>1, JobInvariant, PTL

-----------------------------------------------------------------------------
(* The lease *)

\* Until the user asks again there is one request, and no job before it commits.
FirstRequestInv ==
  /\ \A r \in Requests : request[r].op = "deletion" => request[r].step = "writing"
  /\ requested = 0 => job.state = "none" /\ \A r \in Requests : request[r].op # "deletion"
  /\ requested = 1 /\ (\E r \in Requests : request[r].op = "deletion") => job.state = "none"

\* Until then, what is left of the lease and the age of the function that has the
\* job add up to the whole lease, which no function outlives.
LeaseInv ==
  requested <= 1 =>
    \A w \in Workers :
      ~Working(w, "free") => /\ job.state \in {"processing", "completed"}
                             /\ job.wait + worker[w].age = Lease

WorkerInv == DeletionTypeInv /\ LockInv /\ FirstRequestInv /\ LeaseInv /\ OneWorker

\* A job that is due has no function left.
LEMMA DueIsFree ==
  ASSUME WorkerInv, requested <= 1, Due, NEW w \in Workers
  PROVE  Working(w, "free")
BY JobAssumption DEF WorkerInv, LeaseInv, Due, DeletionTypeInv, TypeOK, WorkerState

\* A job that nobody has claimed has none either.
LEMMA OnlyInProcess ==
  ASSUME WorkerInv, requested <= 1, job.state = "none", NEW w \in Workers
  PROVE  Working(w, "free")
BY DEF WorkerInv, LeaseInv

LEMMA WorkerStep ==
  WorkerInv /\ [Next]_vars => FirstRequestInv' /\ LeaseInv' /\ OneWorker'
<1> SUFFICES ASSUME WorkerInv, [Next]_vars PROVE FirstRequestInv' /\ LeaseInv' /\ OneWorker'
  OBVIOUS
<1> USE DEF DeletionTypeInv, TypeOK, Job, WorkerState
<1>t. DeletionTypeInv /\ LockInv /\ FirstRequestInv /\ LeaseInv /\ OneWorker
  BY DEF WorkerInv
<1>r. ASSUME UNCHANGED <<request, requested>>, job.state = "none" => job'.state = "none"
      PROVE  FirstRequestInv'
  BY <1>r, <1>t DEF FirstRequestInv
<1>j. ASSUME UNCHANGED <<job, requested>>,
             \A w \in Workers :
               \/ worker[w].step' = "free"
               \/ worker[w].step # "free" /\ worker[w].age' = worker[w].age
      PROVE  LeaseInv' /\ OneWorker'
  <2>1. \A w \in Workers :
          ~Working(w, "free")' => ~Working(w, "free") /\ worker[w].age' = worker[w].age
    BY <1>j DEF Working
  <2>2. LeaseInv'
    BY <1>j, <1>t, <2>1 DEF LeaseInv
  <2>3. OneWorker'
    BY <1>j, <1>t, <2>1 DEF OneWorker
  <2>4. QED
    BY <2>2, <2>3
<1>1. CASE DevicesStep /\ UNCHANGED jobVars
  <2>1. FirstRequestInv'
    BY <1>1, <1>t, DeletionsUntouched DEF jobVars, counts, FirstRequestInv
  <2>2. QED
    BY <1>1, <1>j, <2>1 DEF jobVars, counts
<1>2. ASSUME CreateCustomer
               \/ \E write \in Writes : Check(write) \/ Write(write) \/ Drop(write)
      PROVE  FirstRequestInv' /\ LeaseInv' /\ OneWorker'
  <2>1. UNCHANGED <<deviceVars, job, worker, requested>>
    BY <1>2 DEF CreateCustomer, Check, Write, Drop, counts
  <2>2. QED
    BY <1>j, <1>r, <2>1 DEF deviceVars
<1>3. ASSUME NEW r \in Requests, BeginRequest(r)
      PROVE  FirstRequestInv' /\ LeaseInv' /\ OneWorker'
  <2>1. requested' = requested + 1 /\ UNCHANGED <<job, worker>>
    BY <1>3 DEF BeginRequest
  <2>2. \A q \in Requests :
          IF q = r THEN request[q].step' = "writing" ELSE UNCHANGED request[q]
    BY <1>3, <1>t DEF BeginRequest, BeginDeletion, Opens, DevicesTypeOK
  <2>3. FirstRequestInv'
    BY <1>t, <2>1, <2>2 DEF FirstRequestInv
  <2>4. LeaseInv' /\ OneWorker'
    BY <1>t, <2>1 DEF LeaseInv, OneWorker, Working
  <2>5. QED
    BY <2>3, <2>4
<1>4. ASSUME NEW r \in Requests, RequestDeletion(r)
      PROVE  FirstRequestInv' /\ LeaseInv' /\ OneWorker'
  <2>1. /\ request[r].op = "deletion" /\ request[r].step = "writing"
        /\ Ends(r) /\ UNCHANGED <<worker, requested>>
    BY <1>4 DEF RequestDeletion, CommitDeletion, At, counts
  <2>2. ASSUME NEW q \in Requests PROVE request[q].op' # "deletion"
    <3>1. CASE q = r
      BY <1>t, <2>1, <3>1 DEF Ends, Idle, DevicesTypeOK
    <3>2. CASE q # r
      BY <1>t, <2>1, <3>2, OneHolder DEF Ends, DevicesTypeOK, FirstRequestInv
    <3>3. QED
      BY <3>1, <3>2
  <2>3. requested # 0
    BY <1>t, <2>1 DEF FirstRequestInv
  <2>4. ASSUME requested <= 1, NEW w \in Workers PROVE Working(w, "free")
    <3>1. job.state = "none"
      BY <1>t, <2>1, <2>3, <2>4 DEF FirstRequestInv
    <3>2. QED
      BY <2>4, <3>1, OnlyInProcess
  <2>5. FirstRequestInv'
    BY <2>1, <2>2, <2>3 DEF FirstRequestInv
  <2>6. LeaseInv' /\ OneWorker'
    <3>1. requested' <= 1 => \A w \in Workers : Working(w, "free")'
      BY <2>1, <2>4 DEF Working
    <3>2. QED
      BY <3>1 DEF LeaseInv, OneWorker
  <2>7. QED
    BY <2>5, <2>6
<1>5. ASSUME NEW w \in Workers, Claim(w)
      PROVE  FirstRequestInv' /\ LeaseInv' /\ OneWorker'
  <2>1. /\ job'.state = "processing" /\ job'.wait = Lease
        /\ worker[w].age' = 0
        /\ \A v \in Workers : v # w => UNCHANGED worker[v]
        /\ UNCHANGED <<request, requested>> /\ Due
    BY <1>5, <1>t DEF Claim, deviceVars, counts
  <2>2. FirstRequestInv'
    BY <1>r, <2>1 DEF Due
  <2>3. ASSUME requested <= 1, NEW v \in Workers, v # w PROVE Working(v, "free")'
    BY <2>1, <2>3, DueIsFree DEF Working
  <2>4. LeaseInv'
    <3>1. job'.wait + worker[w].age' = Lease
      BY <2>1, JobAssumption
    <3>2. QED
      BY <2>1, <2>3, <3>1 DEF LeaseInv
  <2>5. OneWorker'
    BY <2>1, <2>3 DEF OneWorker
  <2>6. QED
    BY <2>2, <2>4, <2>5
<1>6. ASSUME NEW w \in Workers,
             \/ DeleteCustomer(w) \/ DeleteWebIdentity(w) \/ Forget(w) \/ Select(w)
             \/ NotCompleted(w) \/ CallFails(w) \/ Die(w)
      PROVE  FirstRequestInv' /\ LeaseInv' /\ OneWorker'
  <2>1. UNCHANGED <<deviceVars, job, requested>>
    BY <1>6 DEF DeleteCustomer, DeleteWebIdentity, Forget, Select, NotCompleted, CallFails, Die,
                counts
  <2>2. \/ worker[w].step # "free" /\ \E step : StepTo(w, step)
        \/ worker' = [worker EXCEPT ![w] = Free]
    BY <1>6 DEF DeleteCustomer, DeleteWebIdentity, Forget, Select, NotCompleted, CallFails, Die,
                Working
  <2>3. \A v \in Workers :
          \/ worker[v].step' = "free"
          \/ worker[v].step # "free" /\ worker[v].age' = worker[v].age
          \/ worker'[v] = worker[v]
    BY <1>t, <2>2 DEF StepTo, Free
  <2>4. QED
    BY <1>j, <1>r, <2>1, <2>3 DEF deviceVars
<1>a. ASSUME NEW w \in Workers, AnswerLost(w)
      PROVE  FirstRequestInv' /\ LeaseInv' /\ OneWorker'
  <2>1. /\ worker[w].step # "free" /\ StepTo(w, "failing")
        /\ job' = [job EXCEPT !.state = "completed"]
        /\ UNCHANGED <<request, requested>>
    BY <1>a DEF AnswerLost, CommitErasure, Erase, Working
  <2>2. \A v \in Workers :
          ~Working(v, "free")' => ~Working(v, "free") /\ worker[v].age' = worker[v].age
    BY <1>t, <2>1 DEF StepTo, Working
  <2>3. job'.state = "completed" /\ job'.wait = job.wait
    BY <2>1
  <2>4. requested <= 1 => job.state # "none"
    BY <2>1, <1>t DEF LeaseInv, Working
  <2>5. FirstRequestInv'
    BY <1>t, <2>1, <2>4 DEF FirstRequestInv
  <2>6. LeaseInv' /\ OneWorker'
    BY <1>t, <2>1, <2>2, <2>3 DEF LeaseInv, OneWorker
  <2>7. QED
    BY <2>5, <2>6
<1>7. ASSUME NEW w \in Workers, Complete(w) \/ Fail(w)
      PROVE  FirstRequestInv' /\ LeaseInv' /\ OneWorker'
  <2>1. /\ worker[w].step # "free" /\ worker' = [worker EXCEPT ![w] = Free]
        /\ UNCHANGED <<request, requested>>
    BY <1>7 DEF Complete, CommitErasure, Erase, Fail, Working, deviceVars, counts
  <2>2. ASSUME requested <= 1, NEW v \in Workers PROVE Working(v, "free")'
    BY <1>t, <2>1, <2>2 DEF OneWorker, Working, Free
  <2>3. requested <= 1 => job.state # "none"
    BY <2>1, <1>t DEF LeaseInv, Working
  <2>4. FirstRequestInv'
    BY <1>t, <2>1, <2>3 DEF FirstRequestInv
  <2>5. LeaseInv' /\ OneWorker'
    <3>1. requested' <= 1 => \A v \in Workers : Working(v, "free")'
      BY <2>1, <2>2
    <3>2. QED
      BY <3>1 DEF LeaseInv, OneWorker
  <2>6. QED
    BY <2>4, <2>5
<1>8. ASSUME Tick PROVE FirstRequestInv' /\ LeaseInv' /\ OneWorker'
  <2>1. /\ job'.state = job.state /\ job'.wait = job.wait - 1
        /\ UNCHANGED <<request, requested>>
        /\ \A w \in Workers : IF Working(w, "free") THEN worker[w].step' = "free"
                              ELSE /\ worker[w].step' = worker[w].step
                                   /\ worker[w].age' = worker[w].age + 1
    BY <1>8, <1>t DEF Tick, Free, deviceVars, counts
  <2>2. FirstRequestInv'
    BY <1>r, <2>1
  <2>3. LeaseInv' /\ OneWorker'
    <3>1. \A w \in Workers :
            \/ Working(w, "free")'
            \/ ~Working(w, "free") /\ job'.wait + worker[w].age' = job.wait + worker[w].age
      BY <1>t, <2>1, JobAssumption DEF Working
    <3>2. LeaseInv'
      BY <1>t, <2>1, <3>1 DEF LeaseInv
    <3>3. OneWorker'
      BY <1>t, <2>1, <3>1 DEF OneWorker
    <3>4. QED
      BY <3>2, <3>3
  <2>4. QED
    BY <2>2, <2>3
<1>9. CASE UNCHANGED vars
  BY <1>9, <1>j, <1>r DEF vars, jobVars, deviceVars, counts
<1>10. QED
  BY <1>1, <1>2, <1>3, <1>4, <1>5, <1>6, <1>7, <1>8, <1>9, <1>a DEF Next, Work

\* As long as the user has asked once, a claim lapses only when the function that
\* had the job is dead: no two functions ever work on it together (claimDeletionJob).
THEOREM OneWorkerAtATime == Spec => []OneWorker
<1>1. ASSUME Init PROVE WorkerInv
  <2>1. LockInv
    BY <1>1 DEF Init, DevicesInit, LockInv, Idle
  <2>2. FirstRequestInv
    BY <1>1 DEF Init, DevicesInit, FirstRequestInv, Idle, NoJob
  <2>3. \A w \in Workers : Working(w, "free")
    BY <1>1 DEF Init, Working, Free
  <2>4. QED
    BY <1>1, <2>1, <2>2, <2>3, DeletionTypeInit DEF WorkerInv, LeaseInv, OneWorker
<1>2. ASSUME WorkerInv, [Next]_vars PROVE WorkerInv'
  BY <1>2, DeletionTypeStep, DevicesRefinedStep, LockStep, WorkerStep
     DEF WorkerInv, DeletionTypeInv
<1>3. WorkerInv => OneWorker
  BY DEF WorkerInv
<1>4. QED
  BY <1>1, <1>2, <1>3, PTL DEF Spec

-----------------------------------------------------------------------------
(* What a deleted account leaves behind *)

\* The other handlers know an account that exists; a customer that is made has a
\* handler that will name it or forget it, and one that is named is one of the rows.
CustomerInv ==
  /\ "customer" \in inflight => status # "none"
  /\ stripe = "created" => "customer" \in inflight
  /\ stripe = "linked" /\ status # "deleted" => "customer" \in rows

\* A function works on an account that is being deleted, and what it has done stays done:
\* nobody makes a customer any more who had not begun before.
WorkInv(w) == ~Working(w, "free") =>
  /\ status \in {"deleting", "deleted"}
  /\ worker[w].step \in {"erasing", "locking"} => "invitation" \notin rows
  /\ worker[w].step \in {"forgetting", "erasing", "locking"} => ~web
  /\ ~worker[w].beside =>
       /\ "customer" \notin inflight
       /\ worker[w].step \in {"web", "forgetting", "erasing", "locking"} => stripe # "linked"

NothingLeft == status = "deleted" /\ ~overtaken
  => inflight = {} /\ rows = {} /\ stripe \in {"none", "deleted"} /\ ~web

ErasureInv == JobInv /\ CustomerInv /\ (\A w \in Workers : WorkInv(w)) /\ NothingLeft

\* An account never comes back to what it was.
LEMMA StatusAdvances ==
  ASSUME JobInv, [Next]_vars
  PROVE  /\ status # "none" => status' # "none"
         /\ status \in {"deleting", "deleted"} => status' \in {"deleting", "deleted"}
         /\ status = "deleted" => status' = "deleted"
<1> DEFINE Advances == /\ status # "none" => status' # "none"
                       /\ status \in {"deleting", "deleted"} => status' \in {"deleting", "deleted"}
                       /\ status = "deleted" => status' = "deleted"
<1>1. CASE DevicesStep
  <2>1. ASSUME NEW r \in Requests, CommitBootstrap(r)
        PROVE  status \in {"none", "active"} /\ status' = "active"
    BY <2>1 DEF CommitBootstrap, At, OpenInv, JobInv
  <2>2. \/ status' = status
        \/ status \in {"none", "active"} /\ status' = "active"
    BY <1>1, <2>1 DEF DevicesStep, BeginBootstrap, BeginRestore, BeginSupportRestore, Advance,
         LockForSupport, CheckSlot, CommitRestore, Abort, BootstrapWeb, Revoke, accountVars
  <2> QED
    BY <2>2
<1>2. ASSUME NEW r \in Requests, RequestDeletion(r) PROVE Advances
  BY <1>2 DEF RequestDeletion, CommitDeletion, JobInv, RequestInv
<1>3. ASSUME NEW w \in Workers, CommitErasure(w) PROVE Advances
  BY <1>3 DEF CommitErasure, Erase
<1>4. ASSUME status' = status PROVE Advances
  BY <1>4
<1>5. ASSUME NEW r \in Requests, BeginRequest(r) PROVE status' = status
  BY <1>5 DEF BeginRequest, BeginDeletion, accountVars
<1>6. ASSUME UNCHANGED deviceVars PROVE status' = status
  BY <1>6 DEF deviceVars, accountVars
<1>7. ASSUME NEW w \in Workers, Work(w), ~CommitErasure(w) PROVE UNCHANGED deviceVars
  BY <1>7 DEF Work, Claim, DeleteCustomer, DeleteWebIdentity, Forget, Select, Complete,
              NotCompleted, Fail
<1>8. ASSUME NEW w \in Workers, CallFails(w) \/ Die(w) PROVE UNCHANGED deviceVars
  BY <1>8 DEF CallFails, Die
<1>9. ASSUME NEW write \in Writes, Check(write) \/ Write(write) \/ Drop(write)
      PROVE  UNCHANGED deviceVars
  BY <1>9 DEF Check, Write, Drop
<1>10. CASE CreateCustomer \/ Tick \/ UNCHANGED vars
  BY <1>4, <1>6, <1>10 DEF CreateCustomer, Tick, vars
<1> HIDE DEF Advances
<1>11. Advances
  BY <1>1, <1>2, <1>3, <1>4, <1>5, <1>6, <1>7, <1>8, <1>9, <1>10
     DEF Next, Work, Complete, AnswerLost, Advances
<1> QED
  BY <1>11 DEF Advances

\* Whoever only takes rows away, at Stripe and on the web too, leaves what is claimed here.
LEMMA TakingAwayKeeps ==
  ASSUME ErasureInv, [Next]_vars, UNCHANGED <<worker, overtaken>>,
         inflight' \subseteq inflight,
         rows' \subseteq rows, "customer" \in rows => "customer" \in rows' \/ status' = "deleted",
         stripe' = stripe \/ stripe' = "none", stripe' = "created" => "customer" \in inflight',
         web' = web, status' = "deleted" => status = "deleted"
  PROVE  CustomerInv' /\ (\A w \in Workers : WorkInv(w)') /\ NothingLeft'
<1>1. /\ status # "none" => status' # "none"
      /\ status \in {"deleting", "deleted"} => status' \in {"deleting", "deleted"}
      /\ status = "deleted" => status' = "deleted"
  BY StatusAdvances DEF ErasureInv
<1>2. CustomerInv'
  BY <1>1 DEF ErasureInv, CustomerInv
<1>3. ASSUME NEW w \in Workers PROVE WorkInv(w)'
  <2>1. WorkInv(w)
    BY DEF ErasureInv
  <2> QED
    BY <1>1, <2>1 DEF WorkInv, Working
<1>4. NothingLeft'
  BY <1>1 DEF ErasureInv, NothingLeft
<1> QED
  BY <1>2, <1>3, <1>4

\* One function moves, and takes away what its step says.
LEMMA WorkerKeeps ==
  ASSUME ErasureInv, NEW w \in Workers, UNCHANGED <<deviceVars, inflight, overtaken>>,
         NEW new \in WorkerState, worker' = [worker EXCEPT ![w] = new],
         rows' = rows \/ rows' = rows \ {"invitation"},
         stripe' = stripe \/ stripe' = "deleted",
         web' = web \/ web' = FALSE,
         WorkInv(w)'
  PROVE  CustomerInv' /\ (\A v \in Workers : WorkInv(v)') /\ NothingLeft'
<1>0. status' = status
  BY DEF deviceVars, accountVars
<1>1. CustomerInv'
  BY <1>0 DEF ErasureInv, CustomerInv
<1>2. ASSUME NEW v \in Workers PROVE WorkInv(v)'
  <2>1. CASE v = w
    BY <2>1
  <2>2. CASE v # w
    <3>1. worker'[v] = worker[v] /\ WorkInv(v)
      BY <2>2 DEF ErasureInv, JobInv, DeletionTypeInv, TypeOK
    <3> QED
      BY <1>0, <3>1 DEF WorkInv, Working
  <2> QED
    BY <2>1, <2>2
<1>3. NothingLeft'
  BY <1>0 DEF ErasureInv, NothingLeft
<1> QED
  BY <1>1, <1>2, <1>3

LEMMA WorkerMoves ==
  ASSUME DeletionTypeInv, NEW w \in Workers,
         NEW step \in {"free", "stripe", "web", "forgetting", "erasing", "locking", "failing"},
         StepTo(w, step)
  PROVE  \E new \in WorkerState :
           /\ worker' = [worker EXCEPT ![w] = new] /\ worker'[w] = new
           /\ new.step = step /\ new.beside = worker[w].beside
<1>1. worker[w] \in WorkerState /\ worker \in [Workers -> WorkerState]
  BY DEF DeletionTypeInv, TypeOK
<1>2. [worker[w] EXCEPT !.step = step] \in WorkerState
  BY <1>1 DEF WorkerState
<1> DEFINE new == [worker[w] EXCEPT !.step = step]
<1>3. worker' = [worker EXCEPT ![w] = new] /\ worker'[w] = new
  BY <1>1 DEF StepTo
<1>4. new.step = step /\ new.beside = worker[w].beside
  BY <1>1 DEF WorkerState
<1> QED
  BY <1>2, <1>3, <1>4

LEMMA ErasureStep ==
  ASSUME ErasureInv, [Next]_vars
  PROVE  CustomerInv' /\ (\A w \in Workers : WorkInv(w)') /\ NothingLeft'
<1>0. /\ JobInv /\ CustomerInv /\ NothingLeft /\ (\A w \in Workers : WorkInv(w))
      /\ DeletionTypeInv /\ TypeOK
  BY DEF ErasureInv, JobInv, DeletionTypeInv
<1> DEFINE Goal == CustomerInv' /\ (\A w \in Workers : WorkInv(w)') /\ NothingLeft'
<1>a. /\ status # "none" => status' # "none"
      /\ status \in {"deleting", "deleted"} => status' \in {"deleting", "deleted"}
      /\ status = "deleted" => status' = "deleted"
  BY <1>0, StatusAdvances
<1>c. stripe = "created" => "customer" \in inflight
  BY <1>0 DEF CustomerInv
<1>1. CASE DevicesStep /\ UNCHANGED jobVars
  <2>1. ASSUME NEW r \in Requests, CommitBootstrap(r) PROVE status' = "active"
    BY <1>0, <2>1 DEF CommitBootstrap, At, OpenInv, JobInv
  <2>2. status' = "deleted" => status = "deleted"
    BY <1>1, <2>1 DEF DevicesStep, BeginBootstrap, BeginRestore, BeginSupportRestore, Advance,
         LockForSupport, CheckSlot, CommitRestore, Abort, BootstrapWeb, Revoke, accountVars
  <2> QED
    BY <1>1, <2>2, <1>c, TakingAwayKeeps DEF jobVars, outside
<1>2. ASSUME NEW write \in Writes, Check(write) PROVE Goal
  <2>1. /\ inflight' = inflight \cup {write} /\ Allowed(write)
        /\ UNCHANGED <<deviceVars, worker, outside, rows, overtaken>> /\ status' = status
    BY <1>2 DEF Check, deviceVars, accountVars
  <2>2. write \in {"change", "recovery", "customer", "subscription"}
    BY JobAssumption
  <2>3. write # "subscription" => status = "active"
    BY <2>1, <2>2 DEF Allowed
  <2>4. write = "subscription" => "customer" \in rows
    BY <2>1 DEF Allowed
  <2>5. CustomerInv'
    BY <1>0, <2>1, <2>2, <2>3 DEF CustomerInv, outside
  <2>6. ASSUME NEW w \in Workers PROVE WorkInv(w)'
    <3>1. WorkInv(w)
      BY <1>0
    <3> QED
      BY <2>1, <2>2, <2>3, <3>1 DEF WorkInv, Working, outside
  <2>7. NothingLeft'
    BY <1>0, <2>1, <2>2, <2>3, <2>4 DEF NothingLeft, outside
  <2> QED
    BY <2>5, <2>6, <2>7
<1>3. ASSUME NEW write \in Writes, Write(write) PROVE Goal
  <2>1. /\ write \in inflight /\ inflight' = inflight \ {write} /\ status' = status
        /\ rows' = IF Referenced(write) THEN rows \cup {write} ELSE rows
        /\ stripe' = IF write = "customer" /\ stripe = "created" THEN "linked" ELSE stripe
        /\ UNCHANGED <<deviceVars, worker, web, overtaken>>
    BY <1>3 DEF Write, deviceVars, accountVars
  <2>2. write \in {"change", "recovery", "customer", "subscription"}
    BY JobAssumption
  <2>3. CustomerInv'
    BY <1>0, <2>1, <2>2 DEF CustomerInv, Referenced
  <2>4. ASSUME NEW w \in Workers PROVE WorkInv(w)'
    <3>1. WorkInv(w)
      BY <1>0
    <3>2. "invitation" \notin rows => "invitation" \notin rows'
      BY <2>1, <2>2
    <3>3. "customer" \notin inflight => stripe' = stripe /\ "customer" \notin inflight'
      BY <2>1
    <3> QED
      BY <2>1, <3>1, <3>2, <3>3 DEF WorkInv, Working
  <2>5. NothingLeft'
    BY <1>0, <2>1 DEF NothingLeft
  <2> QED
    BY <2>3, <2>4, <2>5
<1>4. ASSUME NEW write \in Writes, Drop(write) PROVE Goal
  <2>1. /\ inflight' = inflight \ {write} /\ status' = status
        /\ stripe' = IF write = "customer" /\ stripe = "created" THEN "none" ELSE stripe
        /\ UNCHANGED <<worker, web, rows, overtaken>>
    BY <1>4 DEF Drop, deviceVars, accountVars
  <2>2. stripe' = "created" => "customer" \in inflight'
    BY <1>c, <2>1
  <2>3. stripe' = stripe \/ stripe' = "none"
    BY <2>1
  <2> HIDE DEF Goal
  <2>4. Goal
    BY <2>1, <2>2, <2>3, TakingAwayKeeps DEF Goal
  <2> QED
    BY <2>4
<1>5. CASE CreateCustomer
  <2>1. /\ "customer" \in inflight /\ status' = status
        /\ stripe' \in {"created", "deleted", stripe}
        /\ UNCHANGED <<worker, web, rows, inflight, overtaken>>
    BY <1>5 DEF CreateCustomer, deviceVars, accountVars
  <2>2. CustomerInv' /\ NothingLeft'
    BY <1>0, <2>1 DEF CustomerInv, NothingLeft
  <2>3. ASSUME NEW w \in Workers PROVE WorkInv(w)'
    <3>1. WorkInv(w)
      BY <1>0
    <3> QED
      BY <2>1, <3>1 DEF WorkInv, Working
  <2> QED
    BY <2>2, <2>3
<1>6. ASSUME NEW r \in Requests, BeginRequest(r) PROVE Goal
  <2>1. status' = status /\ UNCHANGED <<worker, outside, rows, inflight, overtaken>>
    BY <1>6 DEF BeginRequest, BeginDeletion, accountVars
  <2> QED
    BY <2>1, <1>c, TakingAwayKeeps DEF outside
<1>7. ASSUME NEW r \in Requests, RequestDeletion(r) PROVE Goal
  <2>1. /\ status' = "deleting" /\ rows' = rows \ {"change", "recovery"}
        /\ UNCHANGED <<worker, outside, inflight, overtaken>>
    BY <1>7 DEF RequestDeletion, CommitDeletion
  <2> QED
    BY <2>1, <1>c, TakingAwayKeeps DEF outside
<1>8. ASSUME NEW w \in Workers, Claim(w) PROVE Goal
  <2> DEFINE new == [step |-> FirstStep, attempts |-> job.attempts + 1, age |-> 0,
                     beside |-> inflight # {}]
  <2>1. /\ Due /\ worker' = [worker EXCEPT ![w] = new]
        /\ UNCHANGED <<deviceVars, outside, rows, inflight, overtaken>> /\ status' = status
    BY <1>8 DEF Claim, deviceVars, accountVars
  <2>2. status = "deleting"
    BY <1>0, <2>1 DEF Due, JobInv, JobMatchesAccount, TypeOK, DevicesTypeOK
  <2>3. worker' \in [Workers -> WorkerState]
    BY <1>0, DeletionTypeStep DEF DeletionTypeInv, TypeOK
  <2>4. new \in WorkerState /\ worker'[w] = new
    BY <1>0, <2>1, <2>3 DEF TypeOK
  <2>5. /\ new.step = FirstStep /\ new.step \in {"stripe", "web"}
        /\ ~new.beside => inflight = {}
        /\ new.step = "web" => "customer" \notin rows
    BY DEF FirstStep
  <2> HIDE DEF new
  <2>6. WorkInv(w)'
    BY <1>0, <2>1, <2>2, <2>4, <2>5 DEF WorkInv, Working, CustomerInv, outside
  <2> QED
    BY <2>1, <2>4, <2>6, WorkerKeeps DEF outside
<1>9. ASSUME NEW w \in Workers,
             DeleteCustomer(w) \/ DeleteWebIdentity(w) \/ Forget(w) \/ Select(w)
               \/ NotCompleted(w) \/ CallFails(w)
      PROVE  Goal
  <2>1. PICK step \in {"web", "forgetting", "erasing", "locking", "failing"} :
          /\ StepTo(w, step)
          /\ step \in {"forgetting", "erasing", "locking"} => web' = FALSE
          /\ step \in {"erasing", "locking"} => "invitation" \notin rows'
          /\ step = "web" => stripe' = "deleted" /\ Working(w, "stripe")
          /\ step \in {"forgetting", "erasing", "locking"} =>
               stripe' = stripe /\ worker[w].step \in {"web", "forgetting", "erasing"}
    BY <1>0, <1>9 DEF DeleteCustomer, DeleteWebIdentity, Forget, Select, NotCompleted, CallFails,
         WorkInv, Working, outside, TypeOK
  <2>2. /\ UNCHANGED <<deviceVars, inflight, overtaken>> /\ status' = status
        /\ rows' = rows \/ rows' = rows \ {"invitation"}
        /\ stripe' = stripe \/ stripe' = "deleted"
        /\ web' = web \/ web' = FALSE
        /\ ~Working(w, "free")
    BY <1>9 DEF DeleteCustomer, DeleteWebIdentity, Forget, Select, NotCompleted, CallFails,
         Working, outside, deviceVars, accountVars
  <2>3. PICK new \in WorkerState :
          /\ worker' = [worker EXCEPT ![w] = new] /\ worker'[w] = new
          /\ new.step = step /\ new.beside = worker[w].beside
    <3>1. step \in {"free", "stripe", "web", "forgetting", "erasing", "locking", "failing"}
      OBVIOUS
    <3> QED
      BY <1>0, <2>1, <3>1, WorkerMoves
  <2>4. WorkInv(w)
    BY <1>0
  <2>5. WorkInv(w)'
    BY <2>1, <2>2, <2>3, <2>4 DEF WorkInv, Working
  <2> QED
    BY <2>2, <2>3, <2>5, WorkerKeeps
<1>10. ASSUME NEW w \in Workers, Fail(w) \/ Die(w) PROVE Goal
  <2>1. /\ worker' = [worker EXCEPT ![w] = Free]
        /\ UNCHANGED <<deviceVars, outside, rows, inflight, overtaken>>
    BY <1>10 DEF Fail, Die
  <2>2. Free \in WorkerState /\ Free.step = "free" /\ worker'[w] = Free
    BY <1>0, <2>1, JobAssumption DEF Free, WorkerState, TypeOK
  <2>3. WorkInv(w)'
    BY <2>2 DEF WorkInv, Working
  <2> QED
    BY <2>1, <2>2, <2>3, WorkerKeeps DEF outside
<1>11. ASSUME NEW w \in Workers, Complete(w) \/ AnswerLost(w) PROVE Goal
  <2>1. /\ Working(w, "locking") /\ status = "deleting" /\ status' = "deleted"
        /\ rows' = rows \cap {"invitation"} /\ overtaken' = (worker[w].beside \/ inflight # {})
        /\ worker' = [worker EXCEPT ![w] = Free] \/ StepTo(w, "failing")
        /\ UNCHANGED <<outside, inflight>>
    BY <1>11 DEF Complete, AnswerLost, CommitErasure, Erase
  <2>2. WorkInv(w) /\ ~Working(w, "free")
    BY <1>0, <2>1 DEF Working
  <2>3. CustomerInv'
    BY <1>0, <2>1 DEF CustomerInv, outside
  <2>4. ASSUME NEW v \in Workers PROVE WorkInv(v)'
    <3>1. CASE v = w
      <4>1. \/ worker'[w].step = "free"
            \/ worker'[w].step = "failing" /\ worker'[w].beside = worker[w].beside
        BY <1>0, <2>1 DEF StepTo, Free, TypeOK, WorkerState
      <4> QED
        BY <2>1, <2>2, <3>1, <4>1 DEF WorkInv, Working, outside
    <3>2. CASE v # w
      <4>1. worker'[v] = worker[v] /\ WorkInv(v)
        BY <1>0, <2>1, <3>2 DEF TypeOK, StepTo
      <4> QED
        BY <2>1, <4>1 DEF WorkInv, Working, outside
    <3> QED
      BY <3>1, <3>2
  <2>5. NothingLeft'
    <3>1. /\ overtaken' = (worker[w].beside \/ inflight # {})
          /\ rows' = rows \cap {"invitation"} /\ UNCHANGED <<outside, inflight>>
          /\ Working(w, "locking")
      BY <2>1
    <3>2. ASSUME ~overtaken' PROVE rows' = {} /\ stripe # "linked" /\ ~web /\ inflight = {}
      BY <2>2, <3>1, <3>2 DEF WorkInv, Working
    <3>3. stripe \in {"none", "created", "linked", "deleted"}
      BY <1>0 DEF TypeOK
    <3> QED
      BY <1>c, <3>1, <3>2, <3>3 DEF NothingLeft, outside
  <2> QED
    BY <2>3, <2>4, <2>5
<1>12. CASE Tick
  <2>1. /\ worker' = [w \in Workers |->
             IF Working(w, "free") THEN Free ELSE [worker[w] EXCEPT !.age = @ + 1]]
        /\ UNCHANGED <<outside, rows, inflight, overtaken>> /\ status' = status
    BY <1>12 DEF Tick, deviceVars, accountVars
  <2>2. CustomerInv' /\ NothingLeft'
    BY <1>0, <2>1 DEF CustomerInv, NothingLeft, outside
  <2>3. ASSUME NEW w \in Workers PROVE WorkInv(w)'
    <3>1. WorkInv(w) /\ worker[w] \in WorkerState
      BY <1>0 DEF TypeOK
    <3>2. /\ worker'[w].step = worker[w].step
          /\ worker[w].step # "free" => worker'[w].beside = worker[w].beside
      BY <2>1, <3>1 DEF Free, Working, WorkerState
    <3> QED
      BY <2>1, <3>1, <3>2 DEF WorkInv, Working, outside
  <2> QED
    BY <2>2, <2>3
<1>13. CASE UNCHANGED vars
  BY <1>13, <1>c, TakingAwayKeeps DEF vars, jobVars, outside, deviceVars, accountVars
<1> HIDE DEF Goal
<1>14. Goal
  BY <1>1, <1>2, <1>3, <1>4, <1>5, <1>6, <1>7, <1>8, <1>9, <1>10, <1>11, <1>12, <1>13
     DEF Next, Work, Goal
<1> QED
  BY <1>14 DEF Goal

\* An account that is deleted, without a write having been on its way, leaves no row
\* behind, no customer at Stripe that a checkout was making or had named and no identity
\* on the web, whatever fails, dies or is repeated (runAccountDeletionBatch).  A customer
\* whose checkout died before it could name it is not spoken of: the job cannot know it.
THEOREM NothingIsLeft == Spec => []ErasedUnlessOvertaken
<1>1. ASSUME Init PROVE CustomerInv /\ (\A w \in Workers : WorkInv(w)) /\ NothingLeft
  BY <1>1 DEF Init, DevicesInit, CustomerInv, WorkInv, Working, Free, NothingLeft
<1>2. ASSUME ErasureInv, [Next]_vars
      PROVE  CustomerInv' /\ (\A w \in Workers : WorkInv(w)') /\ NothingLeft'
  BY <1>2, ErasureStep
<1> DEFINE Left == CustomerInv /\ (\A w \in Workers : WorkInv(w)) /\ NothingLeft
<1>3. Init => Left
  BY <1>1
<1>4. JobInv /\ Left /\ [Next]_vars => Left'
  BY <1>2 DEF ErasureInv
<1>5. Left => ErasedUnlessOvertaken
  BY DEF NothingLeft, ErasedUnlessOvertaken
<1> HIDE DEF Left
<1> QED
  BY <1>3, <1>4, <1>5, JobInvariant, PTL DEF Spec

=============================================================================
