-------------------------------- MODULE Members --------------------------------
(***************************************************************************)
(* The administrators: the change of a role by an owner                    *)
(* (set_pressay_operations_member), the claim of the owner's seat by a     *)
(* listed address (operationsMember), and accounts that are deleted        *)
(* meanwhile.                                                              *)
(*                                                                         *)
(* The change is a transaction at READ COMMITTED.  The statement that      *)
(* locks the owners finds them when it starts and waits for their rows;    *)
(* every later statement sees what has been committed by then.  The claim  *)
(* is one statement that looks for owners when it starts.                  *)
(***************************************************************************)
EXTENDS FiniteSets

CONSTANTS
  People,      \* accounts
  Listed,      \* accounts whose address is in PRESSAY_OPERATIONS_OWNER_EMAILS
  LesserRoles, \* the roles below owner: support and readonly in the code
  Changes,     \* handlers that may run at the same time
  ChangeKeys   \* idempotency keys of changes: each changes something once

NotMember == "none"
ASSUME ListedAssumption == Listed \subseteq People
ASSUME RolesAssumption == LesserRoles \cap {"owner", NotMember} = {}

VARIABLES
  live,        \* accounts with status 'active'
  role,        \* operations_member
  change,      \* the handlers
  changed      \* operations_request: keys of committed changes

memberVars == <<live, role, change, changed>>

-----------------------------------------------------------------------------
(* Types *)

Roles == {"owner"} \cup LesserRoles
NoChange == [step |-> "idle"]

\* found: the owners its first statement found; locked: the rows it holds; before:
\* v_previous; counted: the owners behind v_owners.
RoleChange ==
  [step : {"finding", "locking", "checking", "counting", "writing"}, actor : People,
   target : People, to : Roles \cup {NotMember}, key : ChangeKeys,
   found : SUBSET People, locked : SUBSET People, before : Roles \cup {NotMember},
   counted : SUBSET People]
Seat == [step : {"claiming"}, actor : People, free : BOOLEAN]

MembersTypeOK ==
  /\ live \in SUBSET People
  /\ role \in [People -> Roles \cup {NotMember}]
  /\ change \in [Changes -> RoleChange \cup Seat \cup {NoChange}]
  /\ changed \in SUBSET ChangeKeys

MembersInit ==
  /\ live = People
  /\ role = [p \in People |-> NotMember]
  /\ change = [c \in Changes |-> NoChange]
  /\ changed = {}

Owners == {p \in People : role[p] = "owner"}

ActiveOwners == Owners \cap live

InStep(c, step) == change[c].step = step

Changing(c) == change[c] # NoChange /\ ~InStep(c, "claiming")

LockedByOthers(c) == UNION {change[o].locked : o \in {o \in Changes \ {c} : Changing(o)}}

EndsChange(c) == change' = [change EXCEPT ![c] = NoChange]

-----------------------------------------------------------------------------
(* set_pressay_operations_member *)

\* The handler has let an owner in; a key that is used is answered or waited for.
BeginChange(c, actor, target, to, k) ==
  /\ change[c] = NoChange
  /\ actor \in ActiveOwners
  /\ k \notin changed
  /\ \A o \in Changes : Changing(o) => change[o].key # k
  /\ change' = [change EXCEPT ![c] =
       [step |-> "finding", actor |-> actor, target |-> target, to |-> to, key |-> k,
        found |-> {}, locked |-> {}, before |-> NotMember, counted |-> {}]]
  /\ UNCHANGED <<live, role, changed>>

FindOwners(c) ==
  /\ InStep(c, "finding")
  /\ change' = [change EXCEPT ![c].step = "locking", ![c].found = Owners]
  /\ UNCHANGED <<live, role, changed>>

Lockable(c) == change[c].found \cap LockedByOthers(c) = {}

\* A row that is no owner's any more once it is free is left out.
LockOwners(c) ==
  /\ InStep(c, "locking")
  /\ Lockable(c)
  /\ change' = [change EXCEPT ![c].step = "checking",
                              ![c].locked = change[c].found \cap Owners]
  /\ UNCHANGED <<live, role, changed>>

\* owner_required; then the row of the target is locked too, if there is one.
CheckActor(c) ==
  LET target == change[c].target
  IN
  /\ InStep(c, "checking")
  /\ IF change[c].actor \in ActiveOwners
       THEN /\ target \notin LockedByOthers(c)
            /\ change' = [change EXCEPT
                 ![c].step = "counting", ![c].before = role[target],
                 ![c].locked = change[c].locked \cup {p \in {target} : role[p] # NotMember}]
       ELSE EndsChange(c)
  /\ UNCHANGED <<live, role, changed>>

\* Faulty variant of OthersLeft: the target is counted too.
OthersLeftWithTarget(target) == ActiveOwners

OthersLeft(target) == ActiveOwners \ {target}

Demotes(c) == change[c].before = "owner" /\ change[c].to # "owner"

\* account_not_active, member_not_found and last_owner end the transaction.
CheckTarget(c) ==
  LET target == change[c].target
      left == IF Demotes(c) THEN OthersLeft(target) ELSE {}
  IN  /\ InStep(c, "counting")
      /\ IF /\ IF change[c].to = NotMember THEN change[c].before # NotMember ELSE target \in live
            /\ Demotes(c) => left # {}
           THEN change' = [change EXCEPT ![c].step = "writing", ![c].counted = left]
           ELSE EndsChange(c)
      /\ UNCHANGED <<live, role, changed>>

\* The upsert waits for a row that has come meanwhile.
WriteRole(c) ==
  /\ InStep(c, "writing")
  /\ change[c].target \notin LockedByOthers(c)
  /\ role' = [role EXCEPT ![change[c].target] = change[c].to]
  /\ changed' = changed \cup {change[c].key}
  /\ EndsChange(c)
  /\ UNCHANGED live

FailChange(c) ==
  /\ change[c] # NoChange
  /\ EndsChange(c)
  /\ UNCHANGED <<live, role, changed>>

-----------------------------------------------------------------------------
(* The owner's seat, and accounts *)

BeginClaimSeat(c, p) ==
  /\ change[c] = NoChange
  /\ p \in Listed \cap live
  /\ change' = [change EXCEPT ![c] =
       [step |-> "claiming", actor |-> p, free |-> ActiveOwners = {}]]
  /\ UNCHANGED <<live, role, changed>>

\* The row of the account itself is all that it waits for.
ClaimSeat(c) ==
  /\ InStep(c, "claiming")
  /\ change[c].actor \notin LockedByOthers(c)
  /\ role' = IF change[c].free THEN [role EXCEPT ![change[c].actor] = "owner"] ELSE role
  /\ EndsChange(c)
  /\ UNCHANGED <<live, changed>>

\* A deletion is requested: the row of the member stays.
LeaveAccount(p) ==
  /\ p \in live
  /\ live' = live \ {p}
  /\ UNCHANGED <<role, change, changed>>

MembersStep(c) ==
  \/ \E p, q \in People, to \in Roles \cup {NotMember}, k \in ChangeKeys :
       BeginChange(c, p, q, to, k)
  \/ FindOwners(c)
  \/ LockOwners(c)
  \/ CheckActor(c)
  \/ CheckTarget(c)
  \/ WriteRole(c)
  \/ FailChange(c)
  \/ \E p \in People : BeginClaimSeat(c, p)
  \/ ClaimSeat(c)

MembersNext == (\E c \in Changes : MembersStep(c)) \/ (\E p \in People : LeaveAccount(p))

MembersSpec == MembersInit /\ [][MembersNext]_memberVars

-----------------------------------------------------------------------------
(* Properties *)

\* An owner came after the change had found the owners: it let that one act, or
\* counts on that one alone, and does not hold the row.
Overtaken(c) ==
  \/ change[c].actor \notin change[c].locked
  \/ change[c].counted # {} /\ change[c].counted \cap change[c].locked = {}

Commits(c) == InStep(c, "writing") /\ change'[c] = NoChange /\ change[c].key \in changed'

\* A change of a role is committed for an actor who is an owner at that very moment,
\* however many owners change each other at once (set_pressay_operations_member).
AnOwnerChanges ==
  \A c \in Changes : Commits(c) /\ ~Overtaken(c) => change[c].actor \in Owners

\* Owners who remove each other, or themselves, never leave the administration
\* without an owner: the deletion of an owner's account is all that can.
AnOwnerRemains ==
  (Owners # {} /\ \A c \in Changes : Commits(c) => ~Overtaken(c)) => Owners' # {}

\* The administration stays in the hands of its owners, step by step, but for a
\* change that an owner overtook.
OwnersRemain == [][AnOwnerChanges /\ AnOwnerRemains]_memberVars

=============================================================================
