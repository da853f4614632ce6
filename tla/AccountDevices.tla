---------------------------- MODULE AccountDevices ----------------------------
(***************************************************************************)
(* One Cloud account and its devices: sign-ins that register a device      *)
(* (bootstrap_pressay_account), restorations by their owner or by support  *)
(* (restore_pressay_device), revocations, and what a deletion does to them *)
(* (request_pressay_account_deletion, complete_pressay_account_deletion).  *)
(*                                                                         *)
(* Each SQL function is a transaction at READ COMMITTED: its statements    *)
(* are steps that see what the others committed in between, its writes     *)
(* appear when it commits, and the row of the account is what it locks     *)
(* first.  A revocation is one statement that locks the device alone.      *)
(***************************************************************************)
EXTENDS Integers, FiniteSets

CONSTANTS
  Devices,   \* installations of the application, by the hash of their identifier
  Limit,     \* active devices an account may have: 3 in the code
  Requests,  \* transactions that may be open at the same time
  Keys       \* idempotency keys of support's restorations

Nobody == "nobody"
Unused == "unused"
NoKey == "no key"

ASSUME LimitAssumption == Limit \in Nat
ASSUME DevicesAssumption == IsFiniteSet(Devices)
ASSUME NamesAssumption ==
  Nobody \notin Requests /\ Unused \notin Devices /\ NoKey \notin Keys

VARIABLES
  status,    \* pressay_account.status, "none" without a row
  device,    \* pressay_device: "revoked" is a row with a revoked_at
  holder,    \* the transaction that holds the lock of the account's row
  request,   \* the open transactions
  answered,  \* operations_request: the device each key was used for
  lifts      \* how many revocations each key has lifted

accountVars == <<status, device>>
deviceVars == <<accountVars, holder, request, answered, lifts>>

-----------------------------------------------------------------------------
(* Types *)

Transaction == [op : {"idle", "bootstrap", "restore", "deletion"},
                device : Devices \cup {Unused}, key : Keys \cup {NoKey},
                step : {"idle", "locking", "checking", "writing"}]
Idle == [op |-> "idle", device |-> Unused, key |-> NoKey, step |-> "idle"]

DevicesTypeOK ==
  /\ status \in {"none", "active", "deleting", "deleted"}
  /\ device \in [Devices -> {"absent", "active", "revoked"}]
  /\ holder \in Requests \cup {Nobody}
  /\ request \in [Requests -> Transaction]
  /\ answered \in [Keys -> Devices \cup {Unused}]
  /\ lifts \in [Keys -> Nat]

DevicesInit ==
  /\ status = "none"
  /\ device = [d \in Devices |-> "absent"]
  /\ holder = Nobody
  /\ request = [r \in Requests |-> Idle]
  /\ answered = [k \in Keys |-> Unused]
  /\ lifts = [k \in Keys |-> 0]

Active == {d \in Devices : device[d] = "active"}

At(r, op, step) == request[r].op = op /\ request[r].step = step

-----------------------------------------------------------------------------
(* Transactions *)

\* Faulty variant of Locks: the row of the account is only read.
LocksNothing(r) == holder' = r

Locks(r) == holder = Nobody /\ holder' = r

Opens(r, op, d, k, step) ==
  request' = [request EXCEPT ![r] = [op |-> op, device |-> d, key |-> k, step |-> step]]

\* A transaction that commits, raises or is killed leaves its lock.
Ends(r) ==
  /\ request' = [request EXCEPT ![r] = Idle]
  /\ holder' = IF holder = r THEN Nobody ELSE holder

Goes(r, step) == request' = [request EXCEPT ![r].step = step]

\* INSERT ... ON CONFLICT DO UPDATE locks the account, new or not; the function
\* raises, and nothing changes, unless its status is active.
BeginBootstrap(r, d) ==
  /\ request[r] = Idle
  /\ status \in {"none", "active"}
  /\ Locks(r)
  /\ Opens(r, "bootstrap", d, NoKey, "checking")
  /\ UNCHANGED <<accountVars, answered, lifts>>

\* bootstrap_pressay_web_account: the account alone.
BootstrapWeb ==
  /\ holder = Nobody
  /\ status = "none"
  /\ status' = "active"
  /\ UNCHANGED <<device, holder, request, answered, lifts>>

\* The owner restores a device: the account is locked, then its status read.
BeginRestore(r, d) ==
  /\ request[r] = Idle
  /\ device[d] # "absent"
  /\ status = "active"
  /\ Locks(r)
  /\ Opens(r, "restore", d, NoKey, "checking")
  /\ UNCHANGED <<accountVars, answered, lifts>>

\* Faulty variant of Claimable: a key is as good as new each time.
ClaimableAgain(k) == TRUE

\* claim_pressay_operations_request: the unique key makes the second of two
\* transactions wait for the first, then find its result.
Claimable(k) ==
  /\ answered[k] = Unused
  /\ \A r \in Requests : request[r].key # k

\* Support restores a device: the key is claimed before the account is locked.
BeginSupportRestore(r, d, k) ==
  /\ request[r] = Idle
  /\ device[d] # "absent"
  /\ Claimable(k)
  /\ Opens(r, "restore", d, k, "locking")
  /\ UNCHANGED <<accountVars, holder, answered, lifts>>

LockForSupport(r) ==
  /\ At(r, "restore", "locking")
  /\ status = "active"
  /\ Locks(r)
  /\ Goes(r, "checking")
  /\ UNCHANGED <<accountVars, answered, lifts>>

\* Faulty variant of TakesSlot: a restored device is not counted.
TakesSlotIfNew(r) ==
  request[r].op = "bootstrap" /\ device[request[r].device] = "absent"

\* A new row needs one of the slots, and so does a row whose revocation is lifted.
TakesSlot(r) ==
  device[request[r].device] = IF request[r].op = "bootstrap" THEN "absent" ELSE "revoked"

\* The device is looked up, by a restore FOR UPDATE, and the active ones counted.
\* A revoked device does not sign in.
CheckSlot(r) ==
  /\ \E op \in {"bootstrap", "restore"} : At(r, op, "checking")
  /\ \/ /\ request[r].op = "bootstrap" => device[request[r].device] # "revoked"
        /\ TakesSlot(r) => Cardinality(Active) < Limit
        /\ Goes(r, "writing")
        /\ UNCHANGED holder
     \/ /\ \/ request[r].op = "bootstrap" /\ device[request[r].device] = "revoked"
           \/ TakesSlot(r) /\ Cardinality(Active) >= Limit
        /\ Ends(r)
  /\ UNCHANGED <<accountVars, answered, lifts>>

\* The row is inserted, or only refreshed: that leaves a revocation alone.
CommitBootstrap(r) ==
  LET d == request[r].device
  IN  /\ At(r, "bootstrap", "writing")
      /\ status' = IF status = "none" THEN "active" ELSE status
      /\ device' = [device EXCEPT ![d] = IF @ = "absent" THEN "active" ELSE @]
      /\ Ends(r)
      /\ UNCHANGED <<answered, lifts>>

CommitRestore(r) ==
  LET d == request[r].device
      k == request[r].key
  IN  /\ At(r, "restore", "writing")
      /\ device' = [device EXCEPT ![d] = IF @ = "revoked" THEN "active" ELSE @]
      /\ answered' = [key \in Keys |-> IF key = k THEN d ELSE answered[key]]
      /\ lifts' = [key \in Keys |->
                     IF key = k /\ device[d] = "revoked" THEN lifts[key] + 1
                                                         ELSE lifts[key]]
      /\ Ends(r)
      /\ UNCHANGED status

\* revokeDevice, revokeDeviceAsSupport: one statement, which waits for the row of
\* the device and not for the account's.
Revoke(d) ==
  /\ device[d] = "active"
  /\ \A r \in Requests : At(r, "restore", "writing") => request[r].device # d
  /\ device' = [device EXCEPT ![d] = "revoked"]
  /\ UNCHANGED <<status, holder, request, answered, lifts>>

\* request_pressay_account_deletion: the UPDATE of its status locks the account.
BeginDeletion(r) ==
  /\ request[r] = Idle
  /\ status \in {"active", "deleting"}
  /\ Locks(r)
  /\ Opens(r, "deletion", Unused, NoKey, "writing")
  /\ UNCHANGED <<accountVars, answered, lifts>>

CommitDeletion(r) ==
  /\ At(r, "deletion", "writing")
  /\ status' = "deleting"
  /\ device' = [d \in Devices |-> IF device[d] = "absent" THEN "absent" ELSE "revoked"]
  /\ Ends(r)
  /\ UNCHANGED <<answered, lifts>>

\* complete_pressay_account_deletion, one call of which is one step: it waits for
\* the lock of the account, finds it "deleting" and leaves a tombstone.
Erase ==
  /\ holder = Nobody
  /\ status = "deleting"
  /\ status' = "deleted"
  /\ device' = [d \in Devices |-> "absent"]
  /\ UNCHANGED <<holder, request, answered, lifts>>

\* The function is killed, or a statement raises: the transaction is rolled back.
Abort(r) ==
  /\ request[r] # Idle
  /\ Ends(r)
  /\ UNCHANGED <<accountVars, answered, lifts>>

-----------------------------------------------------------------------------
(* The specification *)

\* The steps that take a transaction on, except the commit of a deletion.
Advance(r) == LockForSupport(r) \/ CheckSlot(r) \/ CommitBootstrap(r) \/ CommitRestore(r)

DevicesStep ==
  \/ \E r \in Requests :
       \/ \E d \in Devices : BeginBootstrap(r, d) \/ BeginRestore(r, d)
       \/ \E d \in Devices, k \in Keys : BeginSupportRestore(r, d, k)
       \/ Advance(r)
       \/ Abort(r)
  \/ BootstrapWeb
  \/ \E d \in Devices : Revoke(d)

DevicesNext ==
  \/ DevicesStep
  \/ \E r \in Requests : BeginDeletion(r) \/ CommitDeletion(r)
  \/ Erase

DevicesSpec == DevicesInit /\ [][DevicesNext]_deviceVars

-----------------------------------------------------------------------------
(* Properties *)

\* Sign-ins and restorations never share a slot: whatever runs at the same time,
\* an account has at most Limit active devices.
SlotsKept == Cardinality(Active) <= Limit

\* From the moment its deletion is requested an account has no active device: no
\* sign-in or restoration that had begun before brings one back.
DeletingRevokes == status \in {"deleting", "deleted"} => Active = {}

\* Support may send the same restoration again and again: it lifts a revocation
\* once, and never one that came after.
LiftedOnce == \A k \in Keys : lifts[k] <= 1

=============================================================================
