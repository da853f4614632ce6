------------------------------ MODULE OperationsProofs ------------------------------
(***************************************************************************)
(* Proofs of Members, RateLimits and SupportActions, for any number of     *)
(* administrators, requests, scopes and forms: the administration stays in *)
(* the hands of its owners, which a row lock keeps; windows are fixed, if  *)
(* no function outlives one; the support's ledger says what was done,      *)
(* which the unique key of an operation keeps.                             *)
(***************************************************************************)
EXTENDS MCIdentity, AccountsProofs, SyncProofs, FiniteSetTheorems, TLAPS

-----------------------------------------------------------------------------
(* MEMBERS                                                                 *)

(* Types *)

LEMMA ChangingRecord ==
  ASSUME MembersTypeOK, NEW c \in Changes, Changing(c)
  PROVE  change[c] \in RoleChange
  BY DEF MembersTypeOK, Changing, InStep, Seat, NoChange

LEMMA StepIsChanging ==
  ASSUME NEW c \in Changes,
         InStep(c, "finding") \/ InStep(c, "locking") \/ InStep(c, "checking")
           \/ InStep(c, "counting") \/ InStep(c, "writing")
  PROVE  Changing(c)
  BY DEF Changing, InStep, NoChange

LEMMA SeatRecord ==
  ASSUME MembersTypeOK, NEW c \in Changes, InStep(c, "claiming")
  PROVE  change[c] \in Seat
  BY DEF MembersTypeOK, InStep, RoleChange, NoChange

\* What a step of a change leaves in its record, and it touches no other.
LEMMA OwnRecord ==
  ASSUME MembersTypeOK, NEW c \in Changes, NEW r, change' = [change EXCEPT ![c] = r]
  PROVE  /\ change'[c] = r
         /\ \A o \in Changes : o # c => change'[o] = change[o]
         /\ r \in RoleChange \cup Seat \cup {NoChange}
              => change' \in [Changes -> RoleChange \cup Seat \cup {NoChange}]
  BY DEF MembersTypeOK

LEMMA FindRecord ==
  ASSUME MembersTypeOK, NEW c \in Changes, FindOwners(c)
  PROVE  \E r \in RoleChange :
           /\ change' = [change EXCEPT ![c] = r] /\ r.step = "locking"
           /\ r.locked = change[c].locked
<1> DEFINE r == [change[c] EXCEPT !.step = "locking", !.found = Owners]
<1>1. change[c] \in RoleChange
  BY StepIsChanging, ChangingRecord DEF FindOwners
<1>2. r \in RoleChange /\ r.step = "locking" /\ r.locked = change[c].locked
  BY <1>1 DEF RoleChange, Owners
<1>3. change' = [change EXCEPT ![c] = r]
  BY DEF FindOwners, MembersTypeOK
<1>4. QED
  BY <1>2, <1>3

LEMMA LockRecord ==
  ASSUME MembersTypeOK, NEW c \in Changes, LockOwners(c)
  PROVE  \E r \in RoleChange :
           /\ change' = [change EXCEPT ![c] = r] /\ r.step = "checking"
           /\ r.locked = change[c].found \cap Owners
<1> DEFINE r == [change[c] EXCEPT !.step = "checking", !.locked = change[c].found \cap Owners]
<1>1. change[c] \in RoleChange
  BY StepIsChanging, ChangingRecord DEF LockOwners
<1>2. r \in RoleChange /\ r.step = "checking" /\ r.locked = change[c].found \cap Owners
  BY <1>1 DEF RoleChange, Owners
<1>3. change' = [change EXCEPT ![c] = r]
  BY DEF LockOwners, MembersTypeOK
<1>4. QED
  BY <1>2, <1>3

Ended(c) == change' = [change EXCEPT ![c] = NoChange]

LEMMA CheckActorRecord ==
  ASSUME MembersTypeOK, NEW c \in Changes, CheckActor(c)
  PROVE  \/ Ended(c)
         \/ \E r \in RoleChange :
              /\ change' = [change EXCEPT ![c] = r] /\ r.step = "counting"
              /\ r.actor = change[c].actor /\ r.target = change[c].target
              /\ r.actor \in Owners /\ r.target \notin LockedByOthers(c)
              /\ r.before = role[r.target]
              /\ r.locked = change[c].locked \cup {p \in {r.target} : role[p] # NotMember}
<1> DEFINE s == change[c]
           held == s.locked \cup {p \in {s.target} : role[p] # NotMember}
           r == [s EXCEPT !.step = "counting", !.before = role[s.target], !.locked = held]
<1>1. s \in RoleChange
  BY StepIsChanging, ChangingRecord DEF CheckActor
<1>2. held \in SUBSET People /\ role[s.target] \in Roles \cup {NotMember}
  BY <1>1 DEF RoleChange, MembersTypeOK
<1>3. CASE s.actor \in ActiveOwners
  <2>1. /\ change' = [change EXCEPT ![c] = r] /\ s.target \notin LockedByOthers(c)
        /\ s.actor \in Owners
    BY <1>3 DEF CheckActor, MembersTypeOK, ActiveOwners
  <2> HIDE DEF held
  <2>2. /\ r \in RoleChange /\ r.step = "counting" /\ r.actor = s.actor /\ r.target = s.target
        /\ r.before = role[s.target] /\ r.locked = held
    BY <1>1, <1>2 DEF RoleChange
  <2>3. QED
    BY <2>1, <2>2 DEF held
<1>4. QED
  BY <1>3 DEF CheckActor, EndsChange, Ended

LEMMA CheckTargetRecord ==
  ASSUME MembersTypeOK, NEW c \in Changes, CheckTarget(c)
  PROVE  \/ Ended(c)
         \/ \E r \in RoleChange :
              /\ change' = [change EXCEPT ![c] = r] /\ r.step = "writing"
              /\ r.actor = change[c].actor /\ r.target = change[c].target /\ r.to = change[c].to
              /\ r.before = change[c].before /\ r.locked = change[c].locked
              /\ Demotes(c) => r.counted # {} /\ r.target \notin r.counted
              /\ ~Demotes(c) => r.counted = {}
<1> DEFINE s == change[c]
           left == IF Demotes(c) THEN OthersLeft(s.target) ELSE {}
           r == [s EXCEPT !.step = "writing", !.counted = left]
<1>1. s \in RoleChange
  BY StepIsChanging, ChangingRecord DEF CheckTarget
<1>2. left \in SUBSET People /\ s.target \notin left
  BY DEF OthersLeft, ActiveOwners, Owners
<1>3. \/ Ended(c)
      \/ change' = [change EXCEPT ![c] = r] /\ (Demotes(c) => left # {})
  BY DEF CheckTarget, EndsChange, Ended, MembersTypeOK
<1>4. ~Demotes(c) => left = {}
  OBVIOUS
<1> HIDE DEF left
<1>5. /\ r \in RoleChange /\ r.step = "writing" /\ r.actor = s.actor /\ r.target = s.target
      /\ r.to = s.to /\ r.before = s.before /\ r.locked = s.locked /\ r.counted = left
  BY <1>1, <1>2 DEF RoleChange
<1>6. QED
  BY <1>2, <1>3, <1>4, <1>5

LEMMA MembersTypeStep == MembersTypeOK /\ [MembersNext]_memberVars => MembersTypeOK'
<1> SUFFICES ASSUME MembersTypeOK, [MembersNext]_memberVars PROVE MembersTypeOK'
  OBVIOUS
<1>0. ASSUME NEW c \in Changes, NEW r \in RoleChange \cup Seat \cup {NoChange},
             change' = [change EXCEPT ![c] = r], UNCHANGED <<live, role, changed>>
      PROVE  MembersTypeOK'
  BY <1>0, OwnRecord DEF MembersTypeOK
<1>1. ASSUME NEW c \in Changes, NEW p \in People, NEW q \in People,
             NEW to \in Roles \cup {NotMember}, NEW k \in ChangeKeys, BeginChange(c, p, q, to, k)
      PROVE  MembersTypeOK'
  <2> DEFINE r == [step |-> "finding", actor |-> p, target |-> q, to |-> to, key |-> k,
                   found |-> {}, locked |-> {}, before |-> NotMember, counted |-> {}]
  <2>1. r \in RoleChange
    BY DEF RoleChange
  <2>2. QED
    BY <1>0, <1>1, <2>1 DEF BeginChange
<1>2. ASSUME NEW c \in Changes, FindOwners(c) PROVE MembersTypeOK'
  BY <1>0, <1>2, FindRecord DEF FindOwners
<1>3. ASSUME NEW c \in Changes, LockOwners(c) PROVE MembersTypeOK'
  BY <1>0, <1>3, LockRecord DEF LockOwners
<1>4. ASSUME NEW c \in Changes, CheckActor(c) PROVE MembersTypeOK'
  BY <1>0, <1>4, CheckActorRecord DEF CheckActor, Ended
<1>5. ASSUME NEW c \in Changes, CheckTarget(c) PROVE MembersTypeOK'
  BY <1>0, <1>5, CheckTargetRecord DEF CheckTarget, Ended
<1>6. ASSUME NEW c \in Changes, WriteRole(c) PROVE MembersTypeOK'
  <2>1. change[c] \in RoleChange
    BY <1>6, StepIsChanging, ChangingRecord DEF WriteRole
  <2>2. role' \in [People -> Roles \cup {NotMember}] /\ changed' \in SUBSET ChangeKeys
    BY <1>6, <2>1 DEF WriteRole, MembersTypeOK, RoleChange
  <2>3. QED
    BY <1>6, <2>2, OwnRecord DEF WriteRole, EndsChange, MembersTypeOK
<1>7. ASSUME NEW c \in Changes, FailChange(c) PROVE MembersTypeOK'
  BY <1>0, <1>7 DEF FailChange, EndsChange
<1>8. ASSUME NEW c \in Changes, NEW p \in People, BeginClaimSeat(c, p) PROVE MembersTypeOK'
  <2> DEFINE free == ActiveOwners = {}
             r == [step |-> "claiming", actor |-> p, free |-> free]
  <2>1. free \in BOOLEAN
    OBVIOUS
  <2>2. change' = [change EXCEPT ![c] = r] /\ UNCHANGED <<live, role, changed>>
    BY <1>8 DEF BeginClaimSeat
  <2> HIDE DEF free
  <2>3. r \in Seat
    BY <2>1 DEF Seat
  <2>4. QED
    BY <1>0, <2>2, <2>3
<1>9. ASSUME NEW c \in Changes, ClaimSeat(c) PROVE MembersTypeOK'
  <2>1. change[c] \in Seat
    BY <1>9, SeatRecord DEF ClaimSeat
  <2>2. role' \in [People -> Roles \cup {NotMember}]
    BY <1>9, <2>1 DEF ClaimSeat, MembersTypeOK, Seat, Roles
  <2>3. QED
    BY <1>9, <2>2, OwnRecord DEF ClaimSeat, EndsChange, MembersTypeOK
<1>10. ASSUME NEW p \in People, LeaveAccount(p) PROVE MembersTypeOK'
  BY <1>10 DEF LeaveAccount, MembersTypeOK
<1>11. CASE UNCHANGED memberVars
  BY <1>11 DEF memberVars, MembersTypeOK
<1>12. QED
  BY <1>1, <1>2, <1>3, <1>4, <1>5, <1>6, <1>7, <1>8, <1>9, <1>10, <1>11
  DEF MembersNext, MembersStep

LEMMA MembersTypeInit == MembersInit => MembersTypeOK
  BY DEF MembersInit, MembersTypeOK

-----------------------------------------------------------------------------
(* The row locks *)

\* What a change has seen of a row that it has locked is still so: nobody but the
\* holder writes the row.
Kept(c) ==
  LET s == change[c]
  IN  /\ s.step \in {"finding", "locking"} => s.locked = {}
      /\ s.step = "checking" => s.locked \subseteq Owners
      /\ s.step \in {"counting", "writing"} =>
           /\ s.locked \ {s.target} \subseteq Owners
           /\ s.actor \in s.locked => s.actor \in Owners
           /\ s.before = NotMember => s.actor # s.target
           /\ s.before # NotMember => role[s.target] = s.before
           /\ s.before # NotMember => s.target \in s.locked
      /\ s.step = "writing" =>
           /\ Demotes(c) => s.counted # {} /\ s.target \notin s.counted
           /\ ~Demotes(c) => s.counted = {}

LocksKept == \A c \in Changes : Changing(c) => Kept(c)

\* A row is locked by one change.
LocksApart ==
  \A c, o \in Changes :
    c # o /\ Changing(c) /\ Changing(o) => change[c].locked \cap change[o].locked = {}

MembersInv == MembersTypeOK /\ LocksKept /\ LocksApart

LEMMA LockedByOther ==
  ASSUME NEW c \in Changes, NEW o \in Changes, o # c, Changing(o), NEW p \in change[o].locked
  PROVE  p \in LockedByOthers(c)
  BY DEF LockedByOthers

\* Who writes a role waits for whoever has locked the row.
LEMMA LockedIsUnchanged ==
  ASSUME MembersTypeOK, NEW o \in Changes, WriteRole(o) \/ ClaimSeat(o),
         NEW c \in Changes, c # o, Changing(c), NEW p \in change[c].locked
  PROVE  role'[p] = role[p]
<1>0. p \in People
  BY ChangingRecord DEF RoleChange
<1>1. CASE WriteRole(o)
  <2>1. change[o].target # p
    BY <1>1, LockedByOther DEF WriteRole
  <2>2. QED
    BY <1>0, <1>1, <2>1 DEF WriteRole, MembersTypeOK
<1>2. CASE ClaimSeat(o)
  <2>1. change[o].actor # p
    BY <1>2, LockedByOther DEF ClaimSeat
  <2>2. QED
    BY <1>0, <1>2, <2>1 DEF ClaimSeat, MembersTypeOK
<1>3. QED
  BY <1>1, <1>2

\* What is kept of the rows that a change has locked survives a step of another.
LEMMA KeptByOthers ==
  ASSUME MembersInv, NEW c \in Changes, Changing(c), change'[c] = change[c],
         \A p \in change[c].locked : role'[p] = role[p]
  PROVE  Kept(c)'
<1>1. Kept(c) /\ change[c] \in RoleChange
  BY ChangingRecord DEF MembersInv, LocksKept
<1>2. change[c].locked \subseteq People
  BY <1>1 DEF RoleChange
<1>3. \A p \in change[c].locked : p \in Owners <=> p \in Owners'
  BY <1>2 DEF Owners
<1>4. Demotes(c)' = Demotes(c)
  BY DEF Demotes
<1>5. change[c].step = "checking" => change'[c].locked \subseteq Owners'
  BY <1>1, <1>3 DEF Kept
<1>6. change[c].step \in {"counting", "writing"} =>
        /\ change'[c].locked \ {change'[c].target} \subseteq Owners'
        /\ change'[c].actor \in change'[c].locked => change'[c].actor \in Owners'
        /\ change'[c].before # NotMember => role'[change'[c].target] = change'[c].before
  BY <1>1, <1>3 DEF Kept
<1>7. QED
  BY <1>1, <1>4, <1>5, <1>6 DEF Kept

LEMMA MembersInvInit == MembersInit => MembersInv
  BY MembersTypeInit DEF MembersInit, MembersInv, LocksKept, LocksApart, Changing

\* A change that ends leaves the other changes what they have.
LEMMA EndKeeps ==
  ASSUME MembersInv, NEW o \in Changes, Ended(o),
         role' = role \/ WriteRole(o) \/ ClaimSeat(o)
  PROVE  LocksKept' /\ LocksApart'
<1>1. change'[o] = NoChange /\ \A c \in Changes : c # o => change'[c] = change[c]
  BY OwnRecord DEF Ended, MembersInv
<1>2. \A c \in Changes : Changing(c)' => c # o /\ Changing(c) /\ change'[c] = change[c]
  BY <1>1 DEF Changing, InStep
<1>3. ASSUME NEW c \in Changes, Changing(c)' PROVE Kept(c)'
  BY <1>2, <1>3, LockedIsUnchanged, KeptByOthers DEF MembersInv
<1>4. QED
  BY <1>2, <1>3 DEF LocksKept, LocksApart, MembersInv

\* A step of a change that writes no role keeps what the others have; what is to be
\* shown is what the change itself knows now, and that it locked no other's row.
LEMMA StepKeeps ==
  ASSUME MembersInv, NEW o \in Changes, NEW r, change' = [change EXCEPT ![o] = r], role' = role,
         Changing(o)' => Kept(o)',
         Changing(o)' => \A c \in Changes :
           c # o /\ Changing(c) => r.locked \cap change[c].locked = {}
  PROVE  LocksKept' /\ LocksApart'
<1>1. change'[o] = r /\ \A c \in Changes : c # o => change'[c] = change[c]
  BY OwnRecord DEF MembersInv
<1>2. \A c \in Changes : Changing(c)' /\ c # o => Changing(c)
  BY <1>1 DEF Changing, InStep
<1>3. ASSUME NEW c \in Changes, Changing(c)' PROVE Kept(c)'
  BY <1>1, <1>2, <1>3, KeptByOthers
<1>4. ASSUME NEW c \in Changes, NEW d \in Changes, c # d, Changing(c)', Changing(d)'
      PROVE  change'[c].locked \cap change'[d].locked = {}
  BY <1>1, <1>2, <1>4 DEF MembersInv, LocksApart
<1>5. QED
  BY <1>3, <1>4 DEF LocksKept, LocksApart

LEMMA MembersInvStep == MembersInv /\ [MembersNext]_memberVars => MembersInv'
<1> SUFFICES ASSUME MembersInv, [MembersNext]_memberVars PROVE LocksKept' /\ LocksApart'
  BY MembersTypeStep DEF MembersInv
<1>t. MembersTypeOK
  BY DEF MembersInv
<1>0. ASSUME UNCHANGED <<role, change>> PROVE LocksKept' /\ LocksApart'
  <2>1. \A c \in Changes : Changing(c)' = Changing(c) /\ Kept(c)' = Kept(c)
    BY <1>0 DEF Changing, InStep, Kept, Owners, Demotes
  <2>2. QED
    BY <1>0, <2>1 DEF MembersInv, LocksKept, LocksApart
<1>1. ASSUME NEW c \in Changes, NEW p \in People, NEW q \in People,
             NEW to \in Roles \cup {NotMember}, NEW k \in ChangeKeys, BeginChange(c, p, q, to, k)
      PROVE  LocksKept' /\ LocksApart'
  <2> DEFINE r == [step |-> "finding", actor |-> p, target |-> q, to |-> to, key |-> k,
                   found |-> {}, locked |-> {}, before |-> NotMember, counted |-> {}]
  <2>1. change' = [change EXCEPT ![c] = r] /\ role' = role
    BY <1>1 DEF BeginChange
  <2>2. r.step = "finding" /\ r.locked = {}
    OBVIOUS
  <2> HIDE DEF r
  <2>r. change'[c] = r
    BY <1>t, <2>1, OwnRecord
  <2>3. Kept(c)'
    BY <2>2, <2>r DEF Kept
  <2>4. QED
    BY <2>1, <2>2, <2>3, StepKeeps
<1>2. ASSUME NEW c \in Changes, FindOwners(c) PROVE LocksKept' /\ LocksApart'
  <2>1. PICK r \in RoleChange : /\ change' = [change EXCEPT ![c] = r] /\ r.step = "locking"
                                /\ r.locked = change[c].locked
    BY <1>2, <1>t, FindRecord
  <2>2. change'[c] = r /\ role' = role
    BY <1>2, <1>t, <2>1, OwnRecord DEF FindOwners
  <2>3. r.locked = {}
    <3>1. Changing(c) /\ change[c].step = "finding"
      BY <1>2, StepIsChanging DEF FindOwners, InStep
    <3>2. Kept(c)
      BY <3>1 DEF MembersInv, LocksKept
    <3>3. QED
      BY <2>1, <3>1, <3>2 DEF Kept
  <2>4. Kept(c)'
    BY <2>1, <2>2, <2>3 DEF Kept
  <2>5. QED
    BY <2>1, <2>2, <2>3, <2>4, StepKeeps
<1>3. ASSUME NEW c \in Changes, LockOwners(c) PROVE LocksKept' /\ LocksApart'
  <2>1. PICK r \in RoleChange : /\ change' = [change EXCEPT ![c] = r] /\ r.step = "checking"
                                /\ r.locked = change[c].found \cap Owners
    BY <1>3, <1>t, LockRecord
  <2>2. change'[c] = r /\ role' = role
    BY <1>3, <1>t, <2>1, OwnRecord DEF LockOwners
  <2>3. Kept(c)'
    BY <2>1, <2>2 DEF Kept, Owners
  <2>4. \A o \in Changes : o # c /\ Changing(o) => r.locked \cap change[o].locked = {}
    BY <1>3, <2>1, LockedByOther DEF LockOwners, Lockable
  <2>5. QED
    BY <2>1, <2>2, <2>3, <2>4, StepKeeps
<1>4. ASSUME NEW c \in Changes, CheckActor(c) PROVE LocksKept' /\ LocksApart'
  <2>1. CASE Ended(c)
    BY <1>4, <2>1, EndKeeps DEF CheckActor
  <2>2. ASSUME NEW r \in RoleChange,
               change' = [change EXCEPT ![c] = r], r.step = "counting",
               r.actor = change[c].actor, r.target = change[c].target,
               r.actor \in Owners, r.target \notin LockedByOthers(c),
               r.before = role[r.target],
               r.locked = change[c].locked \cup {p \in {r.target} : role[p] # NotMember}
        PROVE  LocksKept' /\ LocksApart'
    <3>1. change'[c] = r /\ role' = role /\ Changing(c) /\ InStep(c, "checking")
      BY <1>4, <1>t, <2>2, OwnRecord, StepIsChanging DEF CheckActor
    <3>2. change[c].locked \subseteq Owners
      BY <3>1 DEF MembersInv, LocksKept, Kept, InStep
    <3>3. role[r.actor] = "owner" /\ NotMember # "owner"
      BY <2>2 DEF Owners, NotMember
    <3>4. /\ r.locked \ {r.target} \subseteq Owners
          /\ r.before = NotMember => r.actor # r.target
          /\ r.before # NotMember => r.target \in r.locked
      BY <2>2, <3>2, <3>3
    <3>5. Owners' = Owners
      BY <3>1 DEF Owners
    <3>6. Kept(c)'
      BY <2>2, <3>1, <3>4, <3>5 DEF Kept
    <3>7. \A o \in Changes : o # c /\ Changing(o) => r.locked \cap change[o].locked = {}
      BY <2>2, <3>1, LockedByOther DEF MembersInv, LocksApart
    <3>8. QED
      BY <2>2, <3>1, <3>6, <3>7, StepKeeps
  <2>3. QED
    BY <1>4, <1>t, <2>1, <2>2, CheckActorRecord
<1>5. ASSUME NEW c \in Changes, CheckTarget(c) PROVE LocksKept' /\ LocksApart'
  <2>1. CASE Ended(c)
    BY <1>5, <2>1, EndKeeps DEF CheckTarget
  <2>2. ASSUME NEW r \in RoleChange,
               change' = [change EXCEPT ![c] = r], r.step = "writing",
               r.actor = change[c].actor, r.target = change[c].target, r.to = change[c].to,
               r.before = change[c].before, r.locked = change[c].locked,
               Demotes(c) => r.counted # {} /\ r.target \notin r.counted,
               ~Demotes(c) => r.counted = {}
        PROVE  LocksKept' /\ LocksApart'
    <3>1. change'[c] = r /\ role' = role /\ Changing(c) /\ InStep(c, "counting")
      BY <1>5, <1>t, <2>2, OwnRecord, StepIsChanging DEF CheckTarget
    <3>2. Owners' = Owners /\ Demotes(c)' = Demotes(c)
      BY <2>2, <3>1 DEF Owners, Demotes
    <3>3. Kept(c) /\ change[c].step = "counting"
      BY <3>1 DEF MembersInv, LocksKept, InStep
    <3>4. Kept(c)'
      BY <2>2, <3>1, <3>2, <3>3 DEF Kept
    <3>5. \A o \in Changes : o # c /\ Changing(o) => r.locked \cap change[o].locked = {}
      BY <2>2, <3>1 DEF MembersInv, LocksApart
    <3>6. QED
      BY <2>2, <3>1, <3>4, <3>5, StepKeeps
  <2>3. QED
    BY <1>5, <1>t, <2>1, <2>2, CheckTargetRecord
<1>6. ASSUME NEW c \in Changes, WriteRole(c) \/ ClaimSeat(c) \/ FailChange(c)
      PROVE  LocksKept' /\ LocksApart'
  BY <1>6, EndKeeps DEF WriteRole, ClaimSeat, FailChange, EndsChange, Ended
<1>7. ASSUME NEW c \in Changes, NEW p \in People, BeginClaimSeat(c, p)
      PROVE  LocksKept' /\ LocksApart'
  <2> DEFINE r == [step |-> "claiming", actor |-> p, free |-> ActiveOwners = {}]
  <2>1. change' = [change EXCEPT ![c] = r] /\ role' = role
    BY <1>7 DEF BeginClaimSeat
  <2>2. r.step = "claiming"
    OBVIOUS
  <2> HIDE DEF r
  <2>3. ~Changing(c)'
    BY <1>t, <2>1, <2>2, OwnRecord DEF Changing, InStep
  <2>4. QED
    BY <2>1, <2>3, StepKeeps
<1>8. ASSUME NEW p \in People, LeaveAccount(p) PROVE LocksKept' /\ LocksApart'
  BY <1>0, <1>8 DEF LeaveAccount
<1>9. CASE UNCHANGED memberVars
  BY <1>0, <1>9 DEF memberVars
<1>10. QED
  BY <1>1, <1>2, <1>3, <1>4, <1>5, <1>6, <1>7, <1>8, <1>9 DEF MembersNext, MembersStep

-----------------------------------------------------------------------------
(* The owners *)

LEMMA AnOwnerChangesStep == MembersInv => AnOwnerChanges
<1> SUFFICES ASSUME MembersInv, NEW c \in Changes, Commits(c), ~Overtaken(c)
             PROVE  change[c].actor \in Owners
  BY DEF AnOwnerChanges
<1>1. Kept(c)
  BY StepIsChanging DEF Commits, MembersInv, LocksKept
<1>2. QED
  BY <1>1 DEF Kept, Commits, InStep, Overtaken

\* A change that commits leaves an owner: one that it locked, or the one it makes.
LEMMA WriteLeavesAnOwner ==
  ASSUME MembersInv, NEW c \in Changes, WriteRole(c), ~Overtaken(c)
  PROVE  Owners' # {}
<1> DEFINE s == change[c]
<1>1. s \in RoleChange /\ Kept(c) /\ s.step = "writing" /\ MembersTypeOK
  BY StepIsChanging, ChangingRecord DEF WriteRole, MembersInv, LocksKept, InStep
<1>2. /\ s.target \in People /\ s.locked \subseteq People
      /\ role' = [role EXCEPT ![s.target] = s.to]
  BY <1>1 DEF WriteRole, RoleChange
<1>3. /\ role'[s.target] = s.to
      /\ \A p \in People : p # s.target => role'[p] = role[p]
  BY <1>1, <1>2 DEF MembersTypeOK
<1>4. s.actor \in s.locked /\ s.actor \in Owners
  BY <1>1 DEF Kept, Overtaken
<1>5. CASE s.to = "owner"
  BY <1>2, <1>3, <1>5 DEF Owners
<1>6. CASE s.actor # s.target
  BY <1>2, <1>3, <1>4, <1>6 DEF Owners
<1>7. CASE s.to # "owner" /\ s.actor = s.target
  <2>1. Demotes(c)
    BY <1>1, <1>4, <1>7 DEF Kept, Demotes, Owners
  <2>2. PICK p \in s.counted : p \in s.locked /\ p # s.target
    BY <1>1, <2>1 DEF Kept, Overtaken
  <2>3. p \in Owners
    BY <1>1, <2>2 DEF Kept
  <2>4. QED
    BY <1>2, <1>3, <2>2, <2>3 DEF Owners
<1>8. QED
  BY <1>5, <1>6, <1>7

LEMMA AnOwnerRemainsStep == MembersInv /\ MembersNext => AnOwnerRemains
<1> SUFFICES ASSUME MembersInv, MembersNext, Owners # {},
                    \A c \in Changes : Commits(c) => ~Overtaken(c)
             PROVE  Owners' # {}
  BY DEF AnOwnerRemains
<1>t. MembersTypeOK
  BY DEF MembersInv
<1>1. ASSUME NEW c \in Changes, WriteRole(c) PROVE Owners' # {}
  <2>1. Commits(c)
    BY <1>1, <1>t, OwnRecord DEF WriteRole, EndsChange, Commits
  <2>2. QED
    BY <1>1, <2>1, WriteLeavesAnOwner
<1>2. ASSUME NEW c \in Changes, ClaimSeat(c) PROVE Owners' # {}
  <2>1. \A p \in People : role[p] = "owner" => role'[p] = "owner"
    BY <1>2, <1>t DEF ClaimSeat, MembersTypeOK
  <2>2. QED
    BY <2>1 DEF Owners
<1>3. ASSUME role' = role PROVE Owners' # {}
  BY <1>3 DEF Owners
<1>4. QED
  BY <1>1, <1>2, <1>3
  DEF MembersNext, MembersStep, BeginChange, FindOwners, LockOwners, CheckActor, CheckTarget,
      FailChange, BeginClaimSeat, LeaveAccount

\* Whoever changes a role is an owner when the change commits, and the owners never
\* take the last one of them away, unless an owner overtook the change: the rows
\* that set_pressay_operations_member locks are what it goes by.
THEOREM OwnersStay == MembersSpec => OwnersRemain
<1>1. MembersInv /\ MembersNext => AnOwnerChanges /\ AnOwnerRemains
  BY AnOwnerChangesStep, AnOwnerRemainsStep
<1>2. QED
  BY <1>1, MembersInvInit, MembersInvStep, PTL DEF MembersSpec, OwnersRemain

\* Every variable of the administrators stays in its type.
THEOREM MembersTypeCorrect == MembersSpec => []MembersTypeOK
  BY MembersTypeInit, MembersTypeStep, PTL DEF MembersSpec

-----------------------------------------------------------------------------
(* RATE LIMITS                                                             *)

(* Windows *)

\* A time lies in its window, and before the end of it.
LEMMA InWindow ==
  ASSUME NEW t \in Nat
  PROVE  /\ t \div Window \in Nat
         /\ (t \div Window) * Window <= t
         /\ t < (t \div Window) * Window + Window
  BY WindowAssumption

\* A later time lies in the same window or in a later one.
LEMMA WindowsInOrder ==
  ASSUME NEW s \in Nat, NEW t \in Nat, s <= t
  PROVE  s \div Window <= t \div Window
  BY InWindow, WindowAssumption

\* The bucket of a time is one that is kept.
LEMMA BucketOfTime ==
  ASSUME NEW i \in 1 .. Scopes, NEW t \in 0 .. LastSecond
  PROVE  <<i, t \div Window>> \in Buckets
<1>1. t \div Window \in Windows
  BY InWindow, WindowsInOrder, LastSecondAssumption DEF Windows
<1>2. QED
  BY <1>1 DEF Buckets

\* A statement that started at t, of a function that lives for CallTime, is over
\* before the bucket of t has expired.
LEMMA NotExpiredYet ==
  ASSUME NEW born \in Nat, NEW t \in Nat, NEW now \in Nat,
         born <= t, now <= born + CallTime
  PROVE  ~(Expiry(t \div Window) < now)
<1> DEFINE w == t \div Window
<1>1. w \in Nat /\ t < w * Window + Window
  BY InWindow
<1> HIDE DEF w
<1>2. (w + 2) * Window = w * Window + Window + Window /\ w * Window \in Nat
  BY <1>1, WindowAssumption
<1>3. ~(Expiry(w) < now)
  BY <1>1, <1>2, WindowAssumption DEF Expiry
<1>4. QED
  BY <1>3 DEF w

-----------------------------------------------------------------------------
(* Types *)

Started == [state : {"calling", "counting", "admitted", "refused"},
            scope : 1 .. Scopes, born : 0 .. LastSecond, at : 0 .. LastSecond]

\* A request that is under way has been called.
LEMMA AliveIsStarted ==
  ASSUME RateLimitsTypeOK, NEW c \in Callers, Alive(c)
  PROVE  caller[c] \in Started
  BY DEF RateLimitsTypeOK, Alive, NotCalled, Started

\* What each step of a request makes of its record.
LEMMA StartCountRecord ==
  ASSUME RateLimitsTypeOK, NEW c \in Callers, StartCount(c)
  PROVE  /\ caller' = [caller EXCEPT ![c] = caller'[c]]
         /\ caller'[c] \in Started
         /\ caller'[c].born = caller[c].born /\ caller'[c].at = second
<1> DEFINE r == [caller[c] EXCEPT !.state = "counting", !.at = second]
<1>1. caller[c] \in Started
  BY AliveIsStarted DEF StartCount, Alive
<1>2. caller' = [caller EXCEPT ![c] = r] /\ caller'[c] = r
  BY DEF StartCount, RateLimitsTypeOK
<1>3. r \in Started /\ r.born = caller[c].born /\ r.at = second
  BY <1>1 DEF Started, RateLimitsTypeOK
<1>4. QED
  BY <1>2, <1>3

LEMMA CountRecord ==
  ASSUME RateLimitsTypeOK, NEW c \in Callers, Count(c)
  PROVE  /\ caller' = [caller EXCEPT ![c] = caller'[c]]
         /\ caller'[c] \in Started
         /\ caller'[c].born = caller[c].born
         /\ caller'[c].state # "counting"
<1>1. caller[c] \in Started
  BY AliveIsStarted DEF Count, Alive
<1> DEFINE refused == [caller[c] EXCEPT !.state = "refused"]
           admitted == [caller[c] EXCEPT !.state = "admitted"]
           next == [caller[c] EXCEPT !.state = "calling", !.scope = caller[c].scope + 1]
<1>2. refused \in Started /\ refused.born = caller[c].born /\ refused.state # "counting"
  BY <1>1 DEF Started
<1>3. admitted \in Started /\ admitted.born = caller[c].born /\ admitted.state # "counting"
  BY <1>1 DEF Started
<1>4. ASSUME caller[c].scope # Scopes
      PROVE  next \in Started /\ next.born = caller[c].born /\ next.state # "counting"
  <2>1. caller[c].scope + 1 \in 1 .. Scopes
    BY <1>1, <1>4, ScopesAssumption DEF Started
  <2>2. QED
    BY <1>1, <2>1 DEF Started
<1>5. \/ caller' = [caller EXCEPT ![c] = refused]
      \/ caller' = [caller EXCEPT ![c] = admitted]
      \/ caller[c].scope # Scopes /\ caller' = [caller EXCEPT ![c] = next]
  BY DEF Count, RateLimitsTypeOK
<1> HIDE DEF refused, admitted, next
<1>6. PICK r \in Started : /\ caller' = [caller EXCEPT ![c] = r]
                           /\ r.born = caller[c].born /\ r.state # "counting"
  BY <1>2, <1>3, <1>4, <1>5
<1>7. caller'[c] = r
  BY <1>6 DEF RateLimitsTypeOK
<1>8. QED
  BY <1>6, <1>7

LEMMA CountFailsRecord ==
  ASSUME RateLimitsTypeOK, NEW c \in Callers, CountFails(c)
  PROVE  /\ caller' = [caller EXCEPT ![c] = caller'[c]]
         /\ caller'[c] \in Started /\ caller'[c].state = "refused"
<1> DEFINE r == [caller[c] EXCEPT !.state = "refused"]
<1>1. caller[c] \in Started
  BY AliveIsStarted DEF CountFails
<1>2. caller' = [caller EXCEPT ![c] = r] /\ caller'[c] = r
  BY DEF CountFails, RateLimitsTypeOK
<1>3. r \in Started /\ r.state = "refused"
  BY <1>1 DEF Started
<1>4. QED
  BY <1>2, <1>3

LEMMA CountedBucket ==
  ASSUME RateLimitsTypeOK, NEW c \in Callers, Count(c)
  PROVE  <<caller[c].scope, caller[c].at \div Window>> \in Buckets
  BY AliveIsStarted, BucketOfTime DEF Count, Alive, Started

LEMMA RateLimitsTypeStep == RateLimitsTypeOK /\ [RateLimitsNext]_rateVars => RateLimitsTypeOK'
<1> SUFFICES ASSUME RateLimitsTypeOK, [RateLimitsNext]_rateVars PROVE RateLimitsTypeOK'
  OBVIOUS
<1>0. ASSUME NEW c \in Callers, caller' = [caller EXCEPT ![c] = caller'[c]],
             caller'[c] \in Started
      PROVE  caller' \in [Callers -> {NotCalled} \cup Started]
  BY <1>0 DEF RateLimitsTypeOK, Started
<1> USE LastSecondAssumption DEF RateLimitsTypeOK
<1>1. ASSUME NEW c \in Callers, Call(c) PROVE RateLimitsTypeOK'
  BY <1>1, ScopesAssumption DEF Call
<1>2. ASSUME NEW c \in Callers, StartCount(c) PROVE RateLimitsTypeOK'
  BY <1>0, <1>2, StartCountRecord DEF StartCount, Started
<1>3. ASSUME NEW c \in Callers, Count(c) PROVE RateLimitsTypeOK'
  <2> DEFINE b == <<caller[c].scope, caller[c].at \div Window>>
  <2>b. b \in Buckets
    BY <1>3, CountedBucket
  <2>c. /\ \/ bucket' = bucket /\ passed' = passed
           \/ /\ bucket' = [bucket EXCEPT ![b] = bucket[b] + 1]
              /\ passed' = [passed EXCEPT ![b] = passed[b] + 1]
        /\ second' = second
    BY <1>3 DEF Count
  <2> HIDE DEF b
  <2>1. bucket' \in [Buckets -> Nat] /\ passed' \in [Buckets -> Nat] /\ second' = second
    BY <2>b, <2>c
  <2>2. caller' \in [Callers -> {NotCalled} \cup Started]
    BY <1>0, <1>3, CountRecord
  <2>3. QED
    BY <2>1, <2>2 DEF Started
<1>4. ASSUME NEW c \in Callers, CountFails(c) PROVE RateLimitsTypeOK'
  BY <1>0, <1>4, CountFailsRecord DEF CountFails, Started
<1>5. CASE Cleanup
  BY <1>5 DEF Cleanup
<1>6. CASE RateTick
  BY <1>6 DEF RateTick
<1>7. CASE UNCHANGED rateVars
  BY <1>7 DEF rateVars
<1>8. QED
  BY <1>1, <1>2, <1>3, <1>4, <1>5, <1>6, <1>7 DEF RateLimitsNext

LEMMA RateLimitsTypeInit == RateLimitsInit => RateLimitsTypeOK
  BY LastSecondAssumption DEF RateLimitsInit, RateLimitsTypeOK

\* Every variable of the limiter stays in its type.
THEOREM RateLimitsTypeCorrect == RateLimitsSpec => []RateLimitsTypeOK
  BY RateLimitsTypeInit, RateLimitsTypeStep, PTL DEF RateLimitsSpec

-----------------------------------------------------------------------------
(* The limit *)

\* No function outlives its time, and its statement started while it lived.
InTimeOf(c) ==
  /\ Alive(c) => caller[c].born <= second /\ second <= caller[c].born + CallTime
  /\ caller[c].state = "counting" => caller[c].born <= caller[c].at
InTime == \A c \in Callers : InTimeOf(c)

\* A bucket that has not expired has every request that it let through.
CountsAll == \A b \in Buckets : Expiry(b[2]) < second \/ bucket[b] = passed[b]

RateLimitsInv == RateLimitsTypeOK /\ InTime /\ CountsAll /\ AdmittedWithinLimit

LEMMA RateLimitsInvInit == RateLimitsInit => RateLimitsInv
<1> SUFFICES ASSUME RateLimitsInit PROVE RateLimitsInv
  OBVIOUS
<1>1. \A b \in Buckets : bucket[b] = 0 /\ passed[b] = 0 /\ RateLimit[b[1]] \in Nat
  BY ScopesAssumption DEF RateLimitsInit, Buckets
<1>2. InTime
  BY DEF RateLimitsInit, InTime, InTimeOf, Alive, NotCalled
<1>3. QED
  BY <1>1, <1>2, RateLimitsTypeInit DEF RateLimitsInv, CountsAll, AdmittedWithinLimit

LEMMA InTimeStep == RateLimitsInv /\ [RateLimitsNext]_rateVars => InTime'
<1> SUFFICES ASSUME RateLimitsInv, [RateLimitsNext]_rateVars, NEW d \in Callers
             PROVE  InTimeOf(d)'
  BY DEF InTime
<1> USE WindowAssumption DEF InTime, InTimeOf, Alive
<1>t. RateLimitsTypeOK /\ InTime
  BY DEF RateLimitsInv
<1>n. second \in Nat /\ CallTime \in Nat
  BY <1>t, LastSecondAssumption DEF RateLimitsTypeOK
<1>0. ASSUME NEW c \in Callers, c # d, second' = second,
             caller' = [caller EXCEPT ![c] = caller'[c]]
      PROVE  InTimeOf(d)'
  BY <1>0, <1>t DEF RateLimitsTypeOK
<1>1. ASSUME NEW c \in Callers, Call(c)
      PROVE  InTimeOf(d)'
  <2>1. CASE c = d
    <3>1. caller'[d] = [state |-> "calling", scope |-> 1, born |-> second, at |-> second]
      BY <1>1, <1>t, <2>1 DEF Call, RateLimitsTypeOK
    <3>2. QED
      BY <1>1, <1>n, <3>1 DEF Call
  <2>2. CASE c # d
    BY <1>1, <1>t, <2>2 DEF Call, RateLimitsTypeOK
  <2>3. QED
    BY <2>1, <2>2
<1>2. ASSUME NEW c \in Callers, StartCount(c)
      PROVE  InTimeOf(d)'
  <2>1. InTimeOf(c) /\ Alive(c)
    BY <1>2, <1>t DEF StartCount
  <2>2. CASE c = d
    BY <1>2, <1>t, <2>1, <2>2, StartCountRecord DEF StartCount
  <2>3. QED
    BY <1>0, <1>2, <1>t, <2>2, StartCountRecord DEF StartCount
<1>3. ASSUME NEW c \in Callers, Count(c)
      PROVE  InTimeOf(d)'
  <2>1. CASE c = d
    BY <1>3, <1>t, <2>1, CountRecord DEF Count
  <2>2. QED
    BY <1>0, <1>3, <1>t, <2>1, CountRecord DEF Count
<1>4. ASSUME NEW c \in Callers, CountFails(c)
      PROVE  InTimeOf(d)'
  BY <1>0, <1>4, <1>t, CountFailsRecord DEF CountFails
<1>5. CASE Cleanup
  BY <1>5, <1>t DEF Cleanup
<1>6. CASE RateTick
  <2>1. caller' = caller /\ second' = second + 1
        /\ (Alive(d) => second < caller[d].born + CallTime)
    BY <1>6 DEF RateTick
  <2>2. Alive(d) => caller[d].born \in Nat
    BY <1>t, AliveIsStarted, LastSecondAssumption DEF Started
  <2>3. QED
    BY <1>t, <1>n, <2>1, <2>2
<1>7. CASE UNCHANGED rateVars
  BY <1>7, <1>t DEF rateVars
<1>8. QED
  BY <1>1, <1>2, <1>3, <1>4, <1>5, <1>6, <1>7 DEF RateLimitsNext

\* Expiry only moves away from a bucket that has expired.
LEMMA CountsAllStep == RateLimitsInv /\ [RateLimitsNext]_rateVars => CountsAll' /\ AdmittedWithinLimit'
<1> SUFFICES ASSUME RateLimitsInv, [RateLimitsNext]_rateVars
             PROVE  CountsAll' /\ AdmittedWithinLimit'
  OBVIOUS
<1>t. RateLimitsTypeOK /\ InTime /\ CountsAll /\ AdmittedWithinLimit /\ second \in Nat
  BY LastSecondAssumption DEF RateLimitsInv, RateLimitsTypeOK
<1>1. ASSUME UNCHANGED <<second, bucket, passed>> PROVE CountsAll' /\ AdmittedWithinLimit'
  BY <1>1, <1>t DEF CountsAll, AdmittedWithinLimit
<1>2. ASSUME NEW c \in Callers, Call(c) \/ StartCount(c) \/ CountFails(c)
      PROVE  CountsAll' /\ AdmittedWithinLimit'
  BY <1>1, <1>2 DEF Call, StartCount, CountFails
<1>3. ASSUME NEW c \in Callers, Count(c) PROVE CountsAll' /\ AdmittedWithinLimit'
  <2> DEFINE b == <<caller[c].scope, caller[c].at \div Window>>
  <2>1. b \in Buckets /\ b[1] = caller[c].scope /\ b[2] = caller[c].at \div Window
    BY <1>3, <1>t, CountedBucket
  <2>2. ~(Expiry(b[2]) < second)
    <3>1. InTimeOf(c) /\ Alive(c) /\ caller[c].state = "counting"
      BY <1>3, <1>t DEF Count, InTime, Alive
    <3>2. caller[c].born \in Nat /\ caller[c].at \in Nat
      BY <1>t, <3>1, AliveIsStarted, LastSecondAssumption DEF Started
    <3>3. QED
      BY <1>t, <2>1, <3>1, <3>2, NotExpiredYet DEF InTimeOf
  <2>3. bucket[b] = passed[b] /\ bucket[b] \in Nat /\ RateLimit[b[1]] \in Nat
    BY <1>t, <2>1, <2>2, ScopesAssumption DEF CountsAll, RateLimitsTypeOK, Buckets
  <2>4. CASE Full(b)
    BY <1>1, <1>3, <2>4 DEF Count
  <2>5. CASE ~Full(b)
    <3>1. /\ bucket' = [bucket EXCEPT ![b] = bucket[b] + 1]
          /\ passed' = [passed EXCEPT ![b] = passed[b] + 1]
          /\ second' = second
      BY <1>3, <2>5 DEF Count
    <3> HIDE DEF b
    <3>2. bucket[b] < RateLimit[b[1]]
      BY <2>3, <2>5 DEF Full
    <3>3. /\ bucket'[b] = passed'[b] /\ passed'[b] <= RateLimit[b[1]]
          /\ \A o \in Buckets : o # b => bucket'[o] = bucket[o] /\ passed'[o] = passed[o]
      BY <1>t, <2>1, <2>3, <3>1, <3>2 DEF RateLimitsTypeOK
    <3>4. QED
      BY <1>t, <3>1, <3>3 DEF CountsAll, AdmittedWithinLimit
  <2>6. QED
    BY <2>4, <2>5
<1>4. CASE Cleanup
  BY <1>4, <1>t DEF Cleanup, CountsAll, AdmittedWithinLimit
<1>5. CASE RateTick
  <2>1. second' = second + 1 /\ bucket' = bucket /\ passed' = passed
    BY <1>5 DEF RateTick
  <2>2. ASSUME NEW w \in Windows, Expiry(w) < second PROVE Expiry(w) < second'
    <3>1. w \in Nat
      BY InWindow, LastSecondAssumption DEF Windows
    <3>2. Expiry(w) \in Int
      BY <3>1, WindowAssumption DEF Expiry
    <3>3. QED
      BY <1>t, <2>1, <2>2, <3>2
  <2>3. \A o \in Buckets : o[2] \in Windows
    BY DEF Buckets
  <2>4. QED
    BY <1>t, <2>1, <2>2, <2>3 DEF CountsAll, AdmittedWithinLimit
<1>6. CASE UNCHANGED rateVars
  BY <1>1, <1>6 DEF rateVars
<1>7. QED
  BY <1>2, <1>3, <1>4, <1>5, <1>6 DEF RateLimitsNext

\* No scope lets more requests through in one window than its limit: the cron
\* takes a bucket only when nothing that is still running can count in it
\* (consume_pressay_rate_limit, cleanupExpiredRateLimitBuckets).
THEOREM RateLimitsHold == RateLimitsSpec => []AdmittedWithinLimit
<1>1. RateLimitsInv /\ [RateLimitsNext]_rateVars => RateLimitsInv'
  BY RateLimitsTypeStep, InTimeStep, CountsAllStep DEF RateLimitsInv
<1>2. RateLimitsInv => AdmittedWithinLimit
  BY DEF RateLimitsInv
<1>3. QED
  BY <1>1, <1>2, RateLimitsInvInit, PTL DEF RateLimitsSpec

-----------------------------------------------------------------------------
(* SUPPORT                                                                 *)

OperationSteps == Open \cup {"answered", "dead"}

Known(o) == operation[o] # Unasked

-----------------------------------------------------------------------------
(* The inductive invariant *)

\* It has claimed the key of its form, and writes, or has written.
Claimant(o) == operation[o].step = "recording" \/ Wrote(o, "recorded")

\* What its step and its entries say of what it did.
OperationInv(o) ==
  /\ operation[o].kind = "external" =>
       ~operation[o].acted /\ operation[o].step \in {"claiming", "recording", "answered", "dead"}
  /\ operation[o].kind # "external" => operation[o].step \notin {"claiming", "recording"}
  /\ operation[o].step \in {"announcing", "acting"} =>
       /\ ~operation[o].acted
       /\ ~Wrote(o, "succeeded") /\ ~Wrote(o, "replayed") /\ ~Wrote(o, "failed")
  /\ operation[o].acted \/ operation[o].step \in {"acting", "acted", "replayed", "failed"} =>
       Wrote(o, "requested")
  /\ operation[o].step = "acted" \/ Wrote(o, "succeeded") => operation[o].acted
  /\ operation[o].step = "replayed" \/ Wrote(o, "replayed") =>
       ~operation[o].acted /\ operation[o].kind = "keyed" /\ operation[o].key \in claimed
  /\ (operation[o].step = "failed" \/ Wrote(o, "failed")) /\ operation[o].acted =>
       operation[o].blind
  /\ Wrote(o, "recorded") =>
       operation[o].kind = "external" /\ operation[o].step \notin {"claiming", "recording"}
  /\ operation[o].kind = "external" /\ (Claimant(o) \/ operation[o].step = "answered") =>
       operation[o].key \in claimed

\* Requests with the key of one form ask for the same.
SameForm ==
  \A o, p \in Operations :
    Known(o) /\ Known(p) /\ operation[o].key = operation[p].key =>
      operation[o].kind = operation[p].kind

\* What is done under a key is done once.
KeyedOnce ==
  \A k \in FormKeys :
    (\A o \in Operations : Known(o) /\ operation[o].key = k => operation[o].kind = "keyed") =>
      effects[k] = IF k \in claimed THEN 1 ELSE 0

\* One request writes for its form, unless it died before.
OneClaimant ==
  \A o \in Operations : Known(o) /\ operation[o].kind = "external" =>
    /\ \A p \in Operations :
         Known(p) /\ operation[p].key = operation[o].key /\ Claimant(o) /\ Claimant(p) => p = o
    /\ operation[o].key \in claimed =>
         \E p \in Operations : /\ Known(p) /\ operation[p].key = operation[o].key
                               /\ Claimant(p) \/ operation[p].step = "dead"

\* A key is claimed by a request.
ClaimedIsAsked == \A k \in claimed : \E o \in Operations : Known(o) /\ operation[o].key = k

SupportInv ==
  /\ SupportTypeOK
  /\ \A o \in Operations : IF Known(o) THEN OperationInv(o) ELSE \A w \in Outcomes : ~Wrote(o, w)
  /\ SameForm
  /\ KeyedOnce
  /\ OneClaimant
  /\ ClaimedIsAsked

-----------------------------------------------------------------------------
(* What a step changes *)

LEMMA OperationIsKnown ==
  ASSUME NEW r \in Operation
  PROVE  r # Unasked
<1>1. r.step \in OperationSteps /\ Unasked.step = "new"
  BY DEF Operation, OperationSteps, Unasked
<1>2. QED
  BY <1>1 DEF OperationSteps, Open

\* A step of a request changes its own record, and never what it was asked.
Moves(o) ==
  /\ operation'[o] \in Operation
  /\ operation'[o].kind = operation[o].kind /\ operation'[o].key = operation[o].key
  /\ \A p \in Operations : p # o => operation'[p] = operation[p]
  /\ operation' \in [Operations -> Operation \cup {Unasked}]

\* An entry of a request is written by itself, and an entry stays.
WritesAs(o) == UNCHANGED ledger \/ \E w \in Outcomes : Says(o, w)

LEMMA AtIsKnown ==
  ASSUME SupportTypeOK, NEW o \in Operations, operation[o].step \in OperationSteps
  PROVE  Known(o) /\ operation[o] \in Operation
  BY DEF SupportTypeOK, Known, Unasked, OperationSteps, Open

LEMMA OwnOperation ==
  ASSUME SupportTypeOK, NEW o \in Operations, NEW r \in Operation,
         operation' = [operation EXCEPT ![o] = r]
  PROVE  /\ operation'[o] = r
         /\ \A p \in Operations : p # o => operation'[p] = operation[p]
         /\ operation' \in [Operations -> Operation \cup {Unasked}]
  BY DEF SupportTypeOK

LEMMA Proceeding ==
  ASSUME SupportTypeOK, NEW o \in Operations, Known(o), NEW step \in OperationSteps,
         Proceeds(o, step)
  PROVE  /\ Moves(o) /\ operation'[o].step = step
         /\ operation'[o].acted <=> operation[o].acted
         /\ operation'[o].blind <=> operation[o].blind
<1> DEFINE old == operation[o]
           new == [old EXCEPT !.step = step]
<1>1. old \in Operation
  BY DEF SupportTypeOK, Known
<1>2. operation' = [operation EXCEPT ![o] = new]
  BY DEF Proceeds
<1> HIDE DEF old
<1>3. /\ new \in Operation /\ new.step = step /\ new.kind = old.kind /\ new.key = old.key
      /\ new.acted <=> old.acted
      /\ new.blind <=> old.blind
  BY <1>1 DEF Operation, OperationSteps
<1> HIDE DEF new
<1>4. /\ operation'[o] = new
      /\ \A p \in Operations : p # o => operation'[p] = operation[p]
      /\ operation' \in [Operations -> Operation \cup {Unasked}]
  BY <1>2, <1>3, OwnOperation
<1>5. QED
  BY <1>3, <1>4 DEF old, Moves

LEMMA Acting ==
  ASSUME SupportTypeOK, NEW o \in Operations, Known(o), NEW step \in OperationSteps,
         NEW acted \in BOOLEAN, NEW blind \in BOOLEAN,
         operation' = [operation EXCEPT ![o].acted = acted, ![o].blind = blind, ![o].step = step]
  PROVE  /\ Moves(o) /\ operation'[o].step = step
         /\ operation'[o].acted <=> acted
         /\ operation'[o].blind <=> blind
<1> DEFINE old == operation[o]
           new == [old EXCEPT !.acted = acted, !.blind = blind, !.step = step]
<1>1. old \in Operation
  BY DEF SupportTypeOK, Known
<1>2. operation' = [operation EXCEPT ![o] = new]
  BY DEF SupportTypeOK
<1> HIDE DEF old
<1>3. /\ new \in Operation /\ new.step = step /\ new.kind = old.kind /\ new.key = old.key
      /\ new.acted <=> acted
      /\ new.blind <=> blind
  BY <1>1 DEF Operation, OperationSteps
<1> HIDE DEF new
<1>4. /\ operation'[o] = new
      /\ \A p \in Operations : p # o => operation'[p] = operation[p]
      /\ operation' \in [Operations -> Operation \cup {Unasked}]
  BY <1>2, <1>3, OwnOperation
<1>5. QED
  BY <1>3, <1>4 DEF old, Moves

LEMMA Saying ==
  ASSUME NEW o \in Operations, NEW w \in Outcomes, Says(o, w)
  PROVE  \A p \in Operations, v \in Outcomes : Wrote(p, v)' <=> Wrote(p, v) \/ (p = o /\ v = w)
  BY DEF Says, Wrote

LEMMA Silence ==
  ASSUME UNCHANGED ledger
  PROVE  \A p \in Operations, v \in Outcomes : Wrote(p, v)' <=> Wrote(p, v)
  BY DEF Wrote

LEMMA OthersSay ==
  ASSUME NEW o \in Operations, WritesAs(o)
  PROVE  \A p \in Operations : p # o => \A v \in Outcomes : Wrote(p, v)' <=> Wrote(p, v)
  BY DEF WritesAs, Says, Wrote

\* A step of a request keeps what holds of the others.
LEMMA OthersStay ==
  ASSUME SupportInv, NEW o \in Operations, Known(o), Moves(o), WritesAs(o),
         claimed \subseteq claimed', claimed' \subseteq FormKeys,
         effects' \in [FormKeys -> Nat], OperationInv(o)'
  PROVE  /\ SupportTypeOK'
         /\ \A p \in Operations :
              IF Known(p)' THEN OperationInv(p)' ELSE \A w \in Outcomes : ~Wrote(p, w)'
         /\ SameForm'
         /\ \A p \in Operations : /\ Known(p)' <=> Known(p)
                                  /\ Known(p) => /\ operation'[p].kind = operation[p].kind
                                                 /\ operation'[p].key = operation[p].key
<1>1. Known(o)'
  BY OperationIsKnown DEF Moves, Known
<1>2. SupportTypeOK'
  <2>1. ledger' \in SUBSET [by : Operations, says : Outcomes]
    BY DEF SupportInv, SupportTypeOK, WritesAs, Says
  <2>2. QED
    BY <2>1 DEF SupportTypeOK, Moves
<1>3. ASSUME NEW p \in Operations
      PROVE  IF Known(p)' THEN OperationInv(p)' ELSE \A w \in Outcomes : ~Wrote(p, w)'
  <2>1. CASE p = o
    BY <1>1, <2>1
  <2>2. CASE p # o
    <3>1. operation'[p] = operation[p] /\ \A v \in Outcomes : Wrote(p, v)' <=> Wrote(p, v)
      BY <2>2, OthersSay DEF Moves
    <3>2. IF Known(p) THEN OperationInv(p) ELSE \A w \in Outcomes : ~Wrote(p, w)
      BY DEF SupportInv
    <3>3. {"succeeded", "replayed", "failed", "requested", "recorded"} \subseteq Outcomes
      BY DEF Outcomes
    <3>4. QED
      BY <3>1, <3>2, <3>3 DEF Known, OperationInv, Claimant
  <2>3. QED
    BY <2>1, <2>2
<1>4. \A p \in Operations : /\ Known(p)' <=> Known(p)
                            /\ Known(p) => /\ operation'[p].kind = operation[p].kind
                                           /\ operation'[p].key = operation[p].key
  BY <1>1 DEF Moves, Known
<1>5. SameForm'
  BY <1>4 DEF SupportInv, SameForm
<1>6. QED
  BY <1>2, <1>3, <1>4, <1>5

\* A step that claims nothing and has no effect keeps the invariant when its own
\* record is right, and who writes for its form is who did.
LEMMA QuietStep ==
  ASSUME SupportInv, NEW o \in Operations, Known(o), Moves(o), WritesAs(o),
         UNCHANGED <<claimed, effects>>, OperationInv(o)',
         Claimant(o)' => Claimant(o),
         Claimant(o) => Claimant(o)' \/ operation'[o].step = "dead",
         operation[o].step # "dead"
  PROVE  SupportInv'
<1>1. /\ SupportTypeOK'
      /\ \A p \in Operations :
           IF Known(p)' THEN OperationInv(p)' ELSE \A w \in Outcomes : ~Wrote(p, w)'
      /\ SameForm'
      /\ \A p \in Operations : /\ Known(p)' <=> Known(p)
                               /\ Known(p) => /\ operation'[p].kind = operation[p].kind
                                              /\ operation'[p].key = operation[p].key
  BY OthersStay DEF SupportInv, SupportTypeOK
<1>2. KeyedOnce'
  BY <1>1 DEF SupportInv, KeyedOnce
<1>3. \A p \in Operations : /\ Claimant(p)' => Claimant(p)
                            /\ Claimant(p) \/ operation[p].step = "dead" =>
                                 Claimant(p)' \/ operation'[p].step = "dead"
  BY OthersSay DEF Moves, Claimant, Outcomes
<1>4. OneClaimant'
  BY <1>1, <1>3 DEF SupportInv, OneClaimant
<1>5. ClaimedIsAsked'
  BY <1>1 DEF SupportInv, ClaimedIsAsked
<1>6. QED
  BY <1>1, <1>2, <1>4, <1>5 DEF SupportInv

-----------------------------------------------------------------------------
(* The steps *)

LEMMA AskStep ==
  ASSUME SupportInv, NEW o \in Operations, NEW kind \in OperationKinds, NEW k \in FormKeys,
         Ask(o, kind, k)
  PROVE  SupportInv'
<1> DEFINE r == [kind |-> kind, key |-> k, acted |-> FALSE, blind |-> FALSE,
                 step |-> IF kind = "external" THEN "claiming" ELSE "announcing"]
<1>t. SupportTypeOK
  BY DEF SupportInv
<1>1. /\ operation' = [operation EXCEPT ![o] = r] /\ ~Known(o)
      /\ UNCHANGED <<ledger, claimed, effects>>
      /\ \A p \in Operations : Known(p) /\ operation[p].key = k => operation[p].kind = kind
  BY DEF Ask, Known
<1>2. /\ r \in Operation /\ r.kind = kind /\ r.key = k /\ ~r.acted
      /\ r.step = IF kind = "external" THEN "claiming" ELSE "announcing"
  BY DEF Operation, OperationKinds, Open
<1> HIDE DEF r
<1>3. /\ operation'[o] = r
      /\ \A p \in Operations : p # o => operation'[p] = operation[p]
      /\ operation' \in [Operations -> Operation \cup {Unasked}]
  BY <1>t, <1>1, <1>2, OwnOperation
<1>4. \A p \in Operations, v \in Outcomes : Wrote(p, v)' <=> Wrote(p, v)
  BY <1>1, Silence
<1>5. \A p \in Operations : Known(p)' <=> Known(p) \/ p = o
  BY <1>2, <1>3, OperationIsKnown DEF Known
<1>6. {"succeeded", "replayed", "failed", "requested", "recorded"} \subseteq Outcomes
  BY DEF Outcomes
<1>7. \A w \in Outcomes : ~Wrote(o, w)'
  BY <1>1, <1>4 DEF SupportInv
<1>8. ~Claimant(o)' /\ OperationInv(o)'
  BY <1>2, <1>3, <1>6, <1>7 DEF OperationInv, Claimant
<1>9. ASSUME NEW p \in Operations
      PROVE  IF Known(p)' THEN OperationInv(p)' ELSE \A w \in Outcomes : ~Wrote(p, w)'
  <2>1. CASE p # o
    <3>1. operation'[p] = operation[p] /\ claimed' = claimed
      BY <1>1, <1>3, <2>1
    <3>2. IF Known(p) THEN OperationInv(p) ELSE \A w \in Outcomes : ~Wrote(p, w)
      BY DEF SupportInv
    <3>3. QED
      BY <1>4, <1>6, <3>1, <3>2 DEF Known, OperationInv, Claimant
  <2>2. QED
    BY <1>5, <1>8, <2>1
<1>10. SupportTypeOK'
  BY <1>t, <1>1, <1>3 DEF SupportTypeOK
<1>11. SameForm'
  BY <1>1, <1>2, <1>3, <1>5 DEF SupportInv, SameForm
<1>12. KeyedOnce'
  BY <1>1, <1>3, <1>5 DEF SupportInv, KeyedOnce
<1>13. ClaimedIsAsked'
  BY <1>1, <1>3, <1>5 DEF SupportInv, ClaimedIsAsked
<1>14. OneClaimant'
  <2>1. \A p \in Operations : p # o => /\ Claimant(p)' <=> Claimant(p)
                                       /\ operation'[p] = operation[p]
    BY <1>3, <1>4, <1>6 DEF Claimant
  <2>2. ASSUME NEW p \in Operations, Known(p)', operation'[p].kind = "external"
        PROVE  /\ \A q \in Operations :
                    Known(q)' /\ operation'[q].key = operation'[p].key
                      /\ Claimant(p)' /\ Claimant(q)' => q = p
               /\ operation'[p].key \in claimed' =>
                    \E q \in Operations : /\ Known(q)' /\ operation'[q].key = operation'[p].key
                                          /\ Claimant(q)' \/ operation'[q].step = "dead"
    <3>1. \A q \in Operations :
            Known(q)' /\ operation'[q].key = operation'[p].key
              /\ Claimant(p)' /\ Claimant(q)' => q = p
      BY <1>5, <1>8, <2>1, <2>2 DEF SupportInv, OneClaimant
    <3>2. ASSUME operation'[p].key \in claimed'
          PROVE  \E q \in Operations : /\ Known(q)' /\ operation'[q].key = operation'[p].key
                                       /\ Claimant(q)' \/ operation'[q].step = "dead"
      <4>1. PICK s \in Operations : Known(s) /\ operation[s].key = operation'[p].key
        BY <1>1, <3>2 DEF SupportInv, ClaimedIsAsked
      <4>2. operation[s].kind = "external"
        <5>1. s # o /\ Known(s)' /\ operation'[s] = operation[s]
          BY <1>1, <1>3, <1>5, <4>1
        <5>2. QED
          BY <1>11, <2>2, <4>1, <5>1 DEF SameForm
      <4>3. PICK q \in Operations : /\ Known(q) /\ operation[q].key = operation[s].key
                                    /\ Claimant(q) \/ operation[q].step = "dead"
        BY <1>1, <3>2, <4>1, <4>2 DEF SupportInv, OneClaimant
      <4>4. q # o
        BY <1>1, <4>3
      <4>5. QED
        BY <1>5, <2>1, <4>1, <4>3, <4>4
    <3>3. QED
      BY <3>1, <3>2
  <2>3. QED
    BY <2>2 DEF OneClaimant
<1>15. QED
  BY <1>9, <1>10, <1>11, <1>12, <1>13, <1>14 DEF SupportInv

LEMMA AnnounceStep ==
  ASSUME SupportInv, NEW o \in Operations, Announce(o)
  PROVE  SupportInv'
<1>1. /\ operation[o].step = "announcing" /\ Says(o, "requested") /\ Proceeds(o, "acting")
      /\ UNCHANGED <<claimed, effects>>
  BY DEF Announce, OperationAt
<1>2. SupportTypeOK /\ Known(o)
  BY <1>1, AtIsKnown DEF SupportInv, OperationSteps, Open
<1>3. /\ Moves(o) /\ operation'[o].step = "acting"
      /\ operation'[o].acted <=> operation[o].acted
      /\ operation'[o].blind <=> operation[o].blind
  BY <1>1, <1>2, Proceeding DEF OperationSteps, Open
<1>4. \A v \in Outcomes : Wrote(o, v)' <=> Wrote(o, v) \/ v = "requested"
  BY <1>1, Saying DEF Outcomes
<1>5. OperationInv(o)
  BY <1>2 DEF SupportInv
<1>6. OperationInv(o)' /\ ~Claimant(o)'
  BY <1>1, <1>3, <1>4, <1>5 DEF OperationInv, Claimant, Outcomes, Moves
<1>7. ~Claimant(o)
  BY <1>1, <1>5 DEF OperationInv, Claimant
<1>8. WritesAs(o)
  BY <1>1 DEF WritesAs, Outcomes
<1>9. QED
  BY <1>1, <1>2, <1>3, <1>6, <1>7, <1>8, QuietStep

LEMMA RefuseStep ==
  ASSUME SupportInv, NEW o \in Operations, Refuse(o)
  PROVE  SupportInv'
<1>1. /\ operation[o].step = "acting" /\ Proceeds(o, "failed")
      /\ UNCHANGED <<ledger, claimed, effects>>
  BY DEF Refuse, OperationAt
<1>2. SupportTypeOK /\ Known(o)
  BY <1>1, AtIsKnown DEF SupportInv, OperationSteps, Open
<1>3. /\ Moves(o) /\ operation'[o].step = "failed"
      /\ operation'[o].acted <=> operation[o].acted
      /\ operation'[o].blind <=> operation[o].blind
  BY <1>1, <1>2, Proceeding DEF OperationSteps, Open
<1>4. \A v \in Outcomes : Wrote(o, v)' <=> Wrote(o, v)
  BY <1>1, Silence
<1>5. OperationInv(o)
  BY <1>2 DEF SupportInv
<1>6. OperationInv(o)' /\ (Claimant(o)' <=> Claimant(o))
  BY <1>1, <1>3, <1>4, <1>5 DEF OperationInv, Claimant, Outcomes, Moves
<1>7. WritesAs(o)
  BY <1>1 DEF WritesAs
<1>8. QED
  BY <1>1, <1>2, <1>3, <1>6, <1>7, QuietStep

LEMMA RecordOutcomeStep ==
  ASSUME SupportInv, NEW o \in Operations, RecordOutcome(o)
  PROVE  SupportInv'
<1> DEFINE w == Outcome(o)
<1>1. /\ operation[o].step \in {"acted", "replayed", "failed"} /\ Says(o, w)
      /\ Proceeds(o, "answered") /\ UNCHANGED <<claimed, effects>>
  BY DEF RecordOutcome
<1>w. /\ w \in {"succeeded", "replayed", "failed"}
      /\ w = "succeeded" => operation[o].step = "acted"
      /\ w = "replayed" => operation[o].step = "replayed"
      /\ w = "failed" => operation[o].step = "failed"
  BY <1>1 DEF Outcome, OperationAt
<1> HIDE DEF w
<1>2. SupportTypeOK /\ Known(o)
  BY <1>1, AtIsKnown DEF SupportInv, OperationSteps, Open
<1>3. /\ Moves(o) /\ operation'[o].step = "answered"
      /\ operation'[o].acted <=> operation[o].acted
      /\ operation'[o].blind <=> operation[o].blind
  BY <1>1, <1>2, Proceeding DEF OperationSteps, Open
<1>4. w \in Outcomes /\ \A v \in Outcomes : Wrote(o, v)' <=> Wrote(o, v) \/ v = w
  <2>1. w \in Outcomes
    BY <1>w DEF Outcomes
  <2>2. QED
    BY <1>1, <2>1, Saying
<1>5. OperationInv(o)
  BY <1>2 DEF SupportInv
<1>6. OperationInv(o)' /\ (Claimant(o)' <=> Claimant(o))
  <2>1. operation[o].kind # "external"
    BY <1>1, <1>5 DEF OperationInv
  <2>2. QED
    BY <1>1, <1>w, <1>3, <1>4, <1>5, <2>1 DEF OperationInv, Claimant, Outcomes, Moves
<1>7. WritesAs(o)
  BY <1>1, <1>4 DEF WritesAs
<1>8. QED
  BY <1>1, <1>2, <1>3, <1>6, <1>7, QuietStep

LEMMA OutcomeUnknownStep ==
  ASSUME SupportInv, NEW o \in Operations, OutcomeUnknown(o)
  PROVE  SupportInv'
<1> DEFINE acted == operation[o].acted
           w == Outcome(o)
<1>1. /\ operation[o].step \in {"acted", "replayed"} /\ UNCHANGED <<claimed, effects>>
      /\ Says(o, w) \/ UNCHANGED ledger
  BY DEF OutcomeUnknown
<1>w. /\ w \in Outcomes
      /\ \/ w = "succeeded" /\ operation[o].step = "acted"
         \/ w = "replayed" /\ operation[o].step = "replayed"
  BY <1>1 DEF Outcome, OperationAt, Outcomes
<1> HIDE DEF w
<1>2. SupportTypeOK /\ Known(o) /\ operation[o] \in Operation
  BY <1>1, AtIsKnown DEF SupportInv, OperationSteps, Open
<1>3. acted \in BOOLEAN /\ operation' = [operation EXCEPT ![o].acted = acted, ![o].blind = TRUE,
                                                        ![o].step = "failed"]
  <2>1. operation' = [operation EXCEPT ![o].step = "failed", ![o].blind = TRUE]
    BY DEF OutcomeUnknown
  <2> DEFINE old == operation[o]
  <2>2. /\ operation' = [operation EXCEPT ![o] = [old EXCEPT !.step = "failed", !.blind = TRUE]]
        /\ [operation EXCEPT ![o].acted = acted, ![o].blind = TRUE, ![o].step = "failed"] =
             [operation EXCEPT ![o] = [old EXCEPT !.acted = acted, !.blind = TRUE,
                                                  !.step = "failed"]]
    BY <1>2, <2>1 DEF SupportTypeOK
  <2>3. old \in Operation
    BY <1>2
  <2> HIDE DEF old
  <2>4. /\ old.acted \in BOOLEAN
        /\ [old EXCEPT !.step = "failed", !.blind = TRUE] =
             [old EXCEPT !.acted = old.acted, !.blind = TRUE, !.step = "failed"]
    BY <2>3 DEF Operation
  <2>5. QED
    BY <2>2, <2>4 DEF old
<1> HIDE DEF acted
<1>4. /\ Moves(o) /\ operation'[o].step = "failed"
      /\ operation'[o].acted <=> acted
      /\ operation'[o].blind
  BY <1>2, <1>3, Acting DEF OperationSteps, Open
<1>5. \A v \in Outcomes : /\ v # w => (Wrote(o, v)' <=> Wrote(o, v))
                          /\ Wrote(o, v) => Wrote(o, v)'
  <2>1. CASE Says(o, w)
    BY <1>w, <2>1, Saying
  <2>2. CASE UNCHANGED ledger
    <3>1. \A v \in Outcomes : Wrote(o, v)' <=> Wrote(o, v)
      BY <2>2, Silence
    <3>2. QED
      BY <1>w, <3>1
  <2>3. QED
    BY <1>1, <2>1, <2>2
<1>6. OperationInv(o)
  BY <1>2 DEF SupportInv
<1>7. OperationInv(o)' /\ (Claimant(o)' <=> Claimant(o))
  <2>1. /\ \A v \in {"requested", "failed", "recorded"} : Wrote(o, v)' <=> Wrote(o, v)
        /\ Wrote(o, "succeeded")' => Wrote(o, "succeeded") \/ operation[o].step = "acted"
        /\ Wrote(o, "replayed")' => Wrote(o, "replayed") \/ operation[o].step = "replayed"
    <3>1. {"requested", "failed", "recorded", "succeeded", "replayed"} \subseteq Outcomes
      BY DEF Outcomes
    <3>2. \A v \in Outcomes : Wrote(o, v)' => Wrote(o, v) \/ v = w
      BY <1>5
    <3>3. /\ w \notin {"requested", "failed", "recorded"}
          /\ w = "succeeded" => operation[o].step = "acted"
          /\ w = "replayed" => operation[o].step = "replayed"
      BY <1>w
    <3>4. \A v \in Outcomes : Wrote(o, v) => Wrote(o, v)'
      BY <1>5
    <3>5. QED
      BY <3>1, <3>2, <3>3, <3>4
  <2>2. operation[o].kind # "external"
    BY <1>1, <1>6 DEF OperationInv
  <2>3. QED
    BY <1>1, <1>4, <1>6, <2>1, <2>2 DEF OperationInv, Claimant, Moves, acted
<1>8. WritesAs(o)
  BY <1>1, <1>w DEF WritesAs
<1>9. QED
  BY <1>1, <1>2, <1>4, <1>7, <1>8, QuietStep

LEMMA AbandonStep ==
  ASSUME SupportInv, NEW o \in Operations, Abandon(o)
  PROVE  SupportInv'
<1>1. /\ operation[o].step \in Open /\ Proceeds(o, "dead")
      /\ UNCHANGED <<ledger, claimed, effects>>
  BY DEF Abandon
<1>2. SupportTypeOK /\ Known(o)
  BY <1>1, AtIsKnown DEF SupportInv, OperationSteps
<1>3. /\ Moves(o) /\ operation'[o].step = "dead"
      /\ operation'[o].acted <=> operation[o].acted
      /\ operation'[o].blind <=> operation[o].blind
  BY <1>1, <1>2, Proceeding DEF OperationSteps
<1>4. \A v \in Outcomes : Wrote(o, v)' <=> Wrote(o, v)
  BY <1>1, Silence
<1>5. OperationInv(o)
  BY <1>2 DEF SupportInv
<1>6. OperationInv(o)' /\ (Claimant(o)' => Claimant(o))
  BY <1>1, <1>3, <1>4, <1>5 DEF OperationInv, Claimant, Outcomes, Moves
<1>7. WritesAs(o) /\ operation[o].step # "dead"
  BY <1>1 DEF WritesAs, Open
<1>8. QED
  BY <1>1, <1>2, <1>3, <1>6, <1>7, QuietStep

LEMMA RecordExternalStep ==
  ASSUME SupportInv, NEW o \in Operations, RecordExternal(o)
  PROVE  SupportInv'
<1>1. /\ operation[o].step = "recording" /\ Says(o, "recorded") /\ Proceeds(o, "answered")
      /\ UNCHANGED <<claimed, effects>>
  BY DEF RecordExternal, OperationAt
<1>2. SupportTypeOK /\ Known(o)
  BY <1>1, AtIsKnown DEF SupportInv, OperationSteps, Open
<1>3. /\ Moves(o) /\ operation'[o].step = "answered"
      /\ operation'[o].acted <=> operation[o].acted
      /\ operation'[o].blind <=> operation[o].blind
  BY <1>1, <1>2, Proceeding DEF OperationSteps, Open
<1>4. \A v \in Outcomes : Wrote(o, v)' <=> Wrote(o, v) \/ v = "recorded"
  BY <1>1, Saying DEF Outcomes
<1>5. OperationInv(o)
  BY <1>2 DEF SupportInv
<1>6. OperationInv(o)' /\ Claimant(o) /\ Claimant(o)'
  BY <1>1, <1>3, <1>4, <1>5 DEF OperationInv, Claimant, Outcomes, Moves
<1>7. WritesAs(o)
  BY <1>1 DEF WritesAs, Outcomes
<1>8. QED
  BY <1>1, <1>2, <1>3, <1>6, <1>7, QuietStep

\* The transaction of an action: what was done under its key is done once.
LEMMA ActStep ==
  ASSUME SupportInv, NEW o \in Operations, Act(o)
  PROVE  SupportInv'
<1> DEFINE replays == Replays(o)
           k == operation[o].key
           kind == operation[o].kind
<1>1. operation[o].step = "acting" /\ UNCHANGED ledger
  BY DEF Act, OperationAt
<1>2. SupportTypeOK /\ Known(o) /\ operation[o] \in Operation
  BY <1>1, AtIsKnown DEF SupportInv, OperationSteps, Open
<1>3. OperationInv(o)
  BY <1>2 DEF SupportInv
<1>4. /\ k \in FormKeys /\ kind \in {"keyed", "plain"} /\ replays \in BOOLEAN
      /\ replays <=> kind = "keyed" /\ k \in claimed
  BY <1>1, <1>2, <1>3 DEF Operation, OperationKinds, OperationInv, Replays
<1>5. /\ claimed' = IF kind = "keyed" THEN claimed \cup {k} ELSE claimed
      /\ effects' = IF replays THEN effects ELSE [effects EXCEPT ![k] = @ + 1]
  BY DEF Act
<1>6. PICK lost \in BOOLEAN :
        operation' = [operation EXCEPT
          ![o].acted = ~replays, ![o].blind = lost,
          ![o].step = IF lost THEN "failed" ELSE IF replays THEN "replayed" ELSE "acted"]
  BY DEF Act
<1> DEFINE step == IF lost THEN "failed" ELSE IF replays THEN "replayed" ELSE "acted"
           acted == ~replays
<1>7. step \in OperationSteps /\ acted \in BOOLEAN
  BY <1>4 DEF OperationSteps, Open
<1>8. operation' = [operation EXCEPT ![o].acted = acted, ![o].blind = lost, ![o].step = step]
  BY <1>6
<1>9. /\ step \in {"failed", "replayed", "acted"}
      /\ step = "failed" => lost
      /\ step = "replayed" => replays
      /\ step = "acted" => ~replays
      /\ acted <=> ~replays
  OBVIOUS
<1> HIDE DEF step, acted, replays
<1>10. /\ Moves(o) /\ operation'[o].step = step
       /\ operation'[o].acted <=> acted
       /\ operation'[o].blind <=> lost
  BY <1>2, <1>7, <1>8, Acting
<1>11. \A v \in Outcomes : Wrote(o, v)' <=> Wrote(o, v)
  BY <1>1, Silence
<1>12. /\ claimed \subseteq claimed' /\ claimed' \subseteq FormKeys
       /\ effects' \in [FormKeys -> Nat]
  BY <1>2, <1>4, <1>5 DEF SupportTypeOK
<1>13. ~Wrote(o, "recorded") /\ ~Wrote(o, "recorded")'
  BY <1>3, <1>4, <1>11 DEF OperationInv, Outcomes
<1>14. OperationInv(o)' /\ ~Claimant(o)' /\ ~Claimant(o)
  <2>1. operation'[o].kind = kind /\ operation'[o].key = k
    BY <1>10 DEF Moves
  <2>2. /\ ~Wrote(o, "succeeded") /\ ~Wrote(o, "replayed") /\ ~Wrote(o, "failed")
        /\ Wrote(o, "requested")
    BY <1>1, <1>3 DEF OperationInv
  <2>3. /\ ~Wrote(o, "succeeded")' /\ ~Wrote(o, "replayed")' /\ ~Wrote(o, "failed")'
        /\ Wrote(o, "requested")'
    BY <1>11, <2>2 DEF Outcomes
  <2>4. step = "replayed" => kind = "keyed" /\ k \in claimed'
    BY <1>4, <1>9, <1>12
  <2> HIDE DEF k, kind
  <2>5. OperationInv(o)'
    BY <1>4, <1>9, <1>10, <1>13, <2>1, <2>3, <2>4 DEF OperationInv, Claimant
  <2>6. QED
    BY <1>1, <1>9, <1>10, <1>13, <2>5 DEF Claimant
<1>15. WritesAs(o)
  BY <1>1 DEF WritesAs
<1>16. /\ SupportTypeOK'
       /\ \A p \in Operations :
            IF Known(p)' THEN OperationInv(p)' ELSE \A w \in Outcomes : ~Wrote(p, w)'
       /\ SameForm'
       /\ \A p \in Operations : /\ Known(p)' <=> Known(p)
                                /\ Known(p) => /\ operation'[p].kind = operation[p].kind
                                               /\ operation'[p].key = operation[p].key
  BY <1>2, <1>10, <1>12, <1>14, <1>15, OthersStay
<1>17. KeyedOnce'
  <2>1. SUFFICES ASSUME NEW l \in FormKeys,
                        \A p \in Operations : Known(p)' /\ operation'[p].key = l =>
                                                operation'[p].kind = "keyed"
                 PROVE  effects'[l] = IF l \in claimed' THEN 1 ELSE 0
    BY DEF KeyedOnce
  <2>2. effects[l] = IF l \in claimed THEN 1 ELSE 0
    BY <1>16, <2>1 DEF SupportInv, KeyedOnce
  <2>3. l = k => kind = "keyed"
    BY <1>2, <1>16, <2>1
  <2>4. effects \in [FormKeys -> Nat]
    BY <1>2 DEF SupportTypeOK
  <2> HIDE DEF k, kind
  <2>5. QED
    BY <1>4, <1>5, <2>2, <2>3, <2>4
<1>18. ClaimedIsAsked'
  BY <1>2, <1>5, <1>16 DEF SupportInv, ClaimedIsAsked
<1>19. OneClaimant'
  <2>1. \A p \in Operations :
          /\ Claimant(p)' => Claimant(p)
          /\ Claimant(p) \/ operation[p].step = "dead" =>
               Claimant(p)' \/ operation'[p].step = "dead"
    BY <1>1, <1>10, <1>14, <1>15, OthersSay DEF Moves, Claimant, Outcomes
  <2>2. \A p \in Operations : Known(p) /\ operation[p].kind = "external" =>
          (operation[p].key \in claimed' => operation[p].key \in claimed)
    BY <1>2, <1>4, <1>5 DEF SupportInv, SameForm
  <2>3. QED
    BY <1>16, <2>1, <2>2 DEF SupportInv, OneClaimant
<1>20. QED
  BY <1>16, <1>17, <1>18, <1>19 DEF SupportInv

\* recordExternalAction: one request claims the key of a form.
LEMMA ClaimExternalStep ==
  ASSUME SupportInv, NEW o \in Operations, ClaimExternal(o)
  PROVE  SupportInv'
<1> DEFINE k == operation[o].key
           step == IF k \in claimed THEN "answered" ELSE "recording"
<1>1. /\ operation[o].step = "claiming" /\ claimed' = claimed \cup {k}
      /\ Proceeds(o, step) /\ UNCHANGED <<ledger, effects>>
  BY DEF ClaimExternal, OperationAt
<1>2. SupportTypeOK /\ Known(o) /\ operation[o] \in Operation
  BY <1>1, AtIsKnown DEF SupportInv, OperationSteps, Open
<1>3. OperationInv(o)
  BY <1>2 DEF SupportInv
<1>4. step \in OperationSteps /\ step \in {"answered", "recording"}
      /\ (step = "answered" <=> k \in claimed)
  BY DEF OperationSteps, Open
<1> HIDE DEF step
<1>5. /\ Moves(o) /\ operation'[o].step = step
      /\ operation'[o].acted <=> operation[o].acted
      /\ operation'[o].blind <=> operation[o].blind
  BY <1>1, <1>2, <1>4, Proceeding
<1>6. \A v \in Outcomes : Wrote(o, v)' <=> Wrote(o, v)
  BY <1>1, Silence
<1>7. k \in FormKeys /\ operation[o].kind = "external" /\ ~Wrote(o, "recorded") /\ ~Claimant(o)
  BY <1>1, <1>2, <1>3 DEF Operation, OperationInv, Claimant
<1>8. OperationInv(o)' /\ (Claimant(o)' <=> k \notin claimed)
  BY <1>1, <1>3, <1>4, <1>5, <1>6, <1>7 DEF OperationInv, Claimant, Outcomes, Moves
<1>9. WritesAs(o)
  BY <1>1 DEF WritesAs
<1>10. /\ SupportTypeOK'
       /\ \A p \in Operations :
            IF Known(p)' THEN OperationInv(p)' ELSE \A w \in Outcomes : ~Wrote(p, w)'
       /\ SameForm'
       /\ \A p \in Operations : /\ Known(p)' <=> Known(p)
                                /\ Known(p) => /\ operation'[p].kind = operation[p].kind
                                               /\ operation'[p].key = operation[p].key
  <2>1. claimed \subseteq claimed' /\ claimed' \subseteq FormKeys /\ effects' \in [FormKeys -> Nat]
    BY <1>1, <1>2, <1>7 DEF SupportTypeOK
  <2>2. QED
    BY <1>2, <1>5, <1>8, <1>9, <2>1, OthersStay
<1>11. KeyedOnce'
  BY <1>1, <1>2, <1>7, <1>10 DEF SupportInv, KeyedOnce
<1>12. ClaimedIsAsked'
  BY <1>1, <1>2, <1>10 DEF SupportInv, ClaimedIsAsked
<1>13. OneClaimant'
  <2>1. \A p \in Operations : p # o => /\ Claimant(p)' <=> Claimant(p)
                                       /\ operation'[p] = operation[p]
    BY <1>5, <1>9, OthersSay DEF Moves, Claimant, Outcomes
  <2>2. \A p \in Operations : /\ Known(p) /\ operation[p].key = k => operation[p].kind = "external"
                              /\ Known(p) /\ Claimant(p) /\ operation[p].kind = "external"
                                   => operation[p].key \in claimed
    BY <1>2, <1>7 DEF SupportInv, SameForm, OperationInv
  <2>3. ASSUME NEW p \in Operations, NEW q \in Operations, Known(p), Known(q),
               operation[p].kind = "external", operation[q].key = operation[p].key,
               Claimant(p)', Claimant(q)'
        PROVE  q = p
    <3>1. CASE k \in claimed
      <4>1. Claimant(p) /\ Claimant(q)
        BY <1>8, <2>1, <2>3, <3>1
      <4>2. QED
        BY <2>3, <4>1 DEF SupportInv, OneClaimant
    <3>2. CASE k \notin claimed
      <4>1. \A s \in Operations : Known(s) /\ operation[s].key = k /\ s # o => ~Claimant(s)'
        BY <2>1, <2>2, <3>2
      <4>2. p # o /\ q # o => q = p
        BY <2>1, <2>3 DEF SupportInv, OneClaimant
      <4>3. QED
        BY <2>3, <4>1, <4>2
    <3>3. QED
      BY <3>1, <3>2
  <2>4. ASSUME NEW p \in Operations, Known(p), operation[p].kind = "external",
               operation[p].key \in claimed'
        PROVE  \E q \in Operations : /\ Known(q) /\ operation[q].key = operation[p].key
                                     /\ Claimant(q)' \/ operation'[q].step = "dead"
    <3>1. CASE operation[p].key \in claimed
      <4>1. PICK q \in Operations : /\ Known(q) /\ operation[q].key = operation[p].key
                                    /\ Claimant(q) \/ operation[q].step = "dead"
        BY <2>4, <3>1 DEF SupportInv, OneClaimant
      <4>2. q # o
        BY <1>1, <1>7, <4>1
      <4>3. QED
        BY <2>1, <4>1, <4>2
    <3>2. CASE operation[p].key \notin claimed
      BY <1>1, <1>2, <1>8, <2>4, <3>2
    <3>3. QED
      BY <3>1, <3>2
  <2>5. QED
    BY <1>10, <2>3, <2>4 DEF OneClaimant
<1>14. QED
  BY <1>10, <1>11, <1>12, <1>13 DEF SupportInv

-----------------------------------------------------------------------------
(* The ledger *)

LEMMA SupportInvStep == SupportInv /\ [SupportNext]_supportVars => SupportInv'
<1> SUFFICES ASSUME SupportInv, [SupportNext]_supportVars PROVE SupportInv'
  OBVIOUS
<1>1. ASSUME NEW o \in Operations, NEW kind \in OperationKinds, NEW k \in FormKeys, Ask(o, kind, k)
      PROVE  SupportInv'
  BY <1>1, AskStep
<1>2. ASSUME NEW o \in Operations,
             Announce(o) \/ Refuse(o) \/ RecordOutcome(o) \/ OutcomeUnknown(o) \/ Abandon(o)
      PROVE  SupportInv'
  BY <1>2, AnnounceStep, RefuseStep, RecordOutcomeStep, OutcomeUnknownStep, AbandonStep
<1>3. ASSUME NEW o \in Operations, Act(o) \/ ClaimExternal(o) \/ RecordExternal(o)
      PROVE  SupportInv'
  BY <1>3, ActStep, ClaimExternalStep, RecordExternalStep
<1>4. CASE UNCHANGED supportVars
  <2>1. UNCHANGED operation /\ UNCHANGED ledger /\ UNCHANGED claimed /\ UNCHANGED effects
    BY <1>4 DEF supportVars
  <2>2. SupportTypeOK' /\ SameForm' /\ KeyedOnce' /\ ClaimedIsAsked'
    BY <2>1 DEF SupportInv, SupportTypeOK, SameForm, KeyedOnce, ClaimedIsAsked, Known
  <2>3. OneClaimant'
    BY <2>1 DEF SupportInv, OneClaimant, Known, Claimant, Wrote
  <2>4. \A o \in Operations :
          IF Known(o)' THEN OperationInv(o)' ELSE \A w \in Outcomes : ~Wrote(o, w)'
    <3> SUFFICES ASSUME NEW o \in Operations
                 PROVE  IF Known(o)' THEN OperationInv(o)' ELSE \A w \in Outcomes : ~Wrote(o, w)'
      OBVIOUS
    <3>1. IF Known(o) THEN OperationInv(o) ELSE \A w \in Outcomes : ~Wrote(o, w)
      BY DEF SupportInv
    <3>2. Known(o)' <=> Known(o)
      BY <2>1 DEF Known
    <3>3. \A w : Wrote(o, w)' <=> Wrote(o, w)
      BY <2>1 DEF Wrote
    <3>4. OperationInv(o)' <=> OperationInv(o)
      BY <2>1, <3>3 DEF OperationInv, Claimant
    <3>5. QED
      BY <3>1, <3>2, <3>3, <3>4
  <2>5. QED
    BY <2>2, <2>3, <2>4 DEF SupportInv
<1>5. QED
  BY <1>1, <1>2, <1>3, <1>4 DEF SupportNext

LEMMA SupportStarts == SupportInit => SupportInv
<1> SUFFICES ASSUME SupportInit PROVE SupportInv
  OBVIOUS
<1>1. \A o \in Operations : ~Known(o) /\ \A w \in Outcomes : ~Wrote(o, w)
  BY DEF SupportInit, Known, Wrote
<1>2. SupportTypeOK
  BY DEF SupportInit, SupportTypeOK
<1>3. KeyedOnce /\ ClaimedIsAsked
  BY DEF SupportInit, KeyedOnce, ClaimedIsAsked
<1>4. QED
  BY <1>1, <1>2, <1>3 DEF SupportInv, SameForm, OneClaimant

LEMMA SupportInvariant == SupportSpec => []SupportInv
  BY SupportStarts, SupportInvStep, PTL DEF SupportSpec

LEMMA LedgerFollows == SupportInv => LedgerIsTrue
<1> SUFFICES ASSUME SupportInv PROVE LedgerIsTrue
  OBVIOUS
<1>1. EntriesAreTrue
  <2> SUFFICES ASSUME NEW o \in Operations, Known(o)
               PROVE  /\ operation[o].acted => Wrote(o, "requested")
                      /\ Wrote(o, "succeeded") => operation[o].acted
                      /\ Wrote(o, "replayed") => ~operation[o].acted /\ effects[operation[o].key] = 1
                      /\ Wrote(o, "failed") /\ operation[o].acted => operation[o].blind
                      /\ operation[o].kind = "keyed" => effects[operation[o].key] <= 1
    BY DEF EntriesAreTrue, Known
  <2>1. OperationInv(o)
    BY DEF SupportInv
  <2>2. operation[o].key \in FormKeys
    BY DEF SupportInv, SupportTypeOK, Known, Operation
  <2>3. operation[o].kind = "keyed" =>
          effects[operation[o].key] = IF operation[o].key \in claimed THEN 1 ELSE 0
    BY <2>2 DEF SupportInv, KeyedOnce, SameForm
  <2>4. QED
    BY <2>1, <2>3 DEF OperationInv
<1>2. ASSUME NEW o \in Operations, OperationAt(o, "answered"), operation[o].kind = "external",
             NEW same, same = {p \in Operations : Known(p) /\ operation[p].key = operation[o].key}
      PROVE  \/ Cardinality({p \in same : Wrote(p, "recorded")}) = 1
             \/ \E p \in same : operation[p].step \in {"recording", "dead"}
  <2>1. Known(o) /\ OperationInv(o)
    BY <1>2, AtIsKnown DEF SupportInv, OperationAt, OperationSteps
  <2>2. operation[o].key \in claimed
    BY <1>2, <2>1 DEF OperationInv, OperationAt
  <2>3. PICK q \in Operations : /\ Known(q) /\ operation[q].key = operation[o].key
                                /\ Claimant(q) \/ operation[q].step = "dead"
    BY <1>2, <2>1, <2>2 DEF SupportInv, OneClaimant
  <2>4. CASE operation[q].step \in {"recording", "dead"}
    BY <1>2, <2>3, <2>4
  <2>5. CASE operation[q].step \notin {"recording", "dead"}
    <3>1. Wrote(q, "recorded")
      BY <2>3, <2>5 DEF Claimant
    <3>2. operation[q].kind = "external"
      BY <2>3, <3>1 DEF SupportInv, OperationInv
    <3>3. {p \in same : Wrote(p, "recorded")} = {q}
      BY <1>2, <2>3, <3>1, <3>2 DEF SupportInv, OneClaimant, Claimant
    <3>4. QED
      BY <3>3, FS_Singleton
  <2>6. QED
    BY <2>4, <2>5
<1>3. ExternalIsRecorded
  BY <1>2 DEF ExternalIsRecorded, Known
<1>4. QED
  BY <1>1, <1>3 DEF LedgerIsTrue

\* What the ledger of the administration says is so, and what was answered is in it
\* (audited, recordExternalAction).
THEOREM LedgerCorrect == SupportSpec => []LedgerIsTrue
  BY SupportInvariant, LedgerFollows, PTL

-----------------------------------------------------------------------------
(* ALL OF IT                                                               *)

\* Each component moves by steps of its own, in whichever behaviour.
LEMMA IdentityImplements ==
  IdentitySpec => /\ DevicesSpec /\ SyncKeysSpec /\ SyncLogSpec
                  /\ MembersSpec /\ RateLimitsSpec /\ SupportSpec
<1>1. IdentityInit => /\ DevicesInit /\ SyncKeysInit /\ SyncLogInit
                      /\ MembersInit /\ RateLimitsInit /\ SupportInit
  BY DEF IdentityInit
<1> DEFINE all == <<moving, deviceVars, syncKeysVars, syncLogVars, memberVars, rateVars,
                    supportVars>>
<1>2. [IdentityNext]_all => [DevicesNext]_deviceVars
  BY DEF IdentityNext
<1>3. [IdentityNext]_all => [SyncKeysNext]_syncKeysVars
  BY DEF IdentityNext
<1>4. [IdentityNext]_all => [SyncLogNext]_syncLogVars
  BY DEF IdentityNext
<1>5. [IdentityNext]_all => [MembersNext]_memberVars
  BY DEF IdentityNext
<1>6. [IdentityNext]_all => [RateLimitsNext]_rateVars
  BY DEF IdentityNext
<1>7. [IdentityNext]_all => [SupportNext]_supportVars
  BY DEF IdentityNext
<1> QED
  BY <1>1, <1>2, <1>3, <1>4, <1>5, <1>6, <1>7, PTL
     DEF IdentitySpec, DevicesSpec, SyncKeysSpec, SyncLogSpec, MembersSpec, RateLimitsSpec,
         SupportSpec

\* Types: whatever happens to devices, keys, the log, the members, the buckets and the
\* support's operations, their rows are what their modules declare.
THEOREM IdentityTypesCorrect == IdentitySpec => []IdentityTypeOK
<1>1. SyncLogInv => SyncLogTypeOK
  BY DEF SyncLogInv
<1>2. SupportInv => SupportTypeOK
  BY DEF SupportInv
<1>3. /\ DevicesTypeOK /\ SyncKeysTypeOK /\ SyncLogTypeOK /\ MembersTypeOK
      /\ RateLimitsTypeOK /\ SupportTypeOK
      => IdentityTypeOK
  BY DEF IdentityTypeOK
<1> QED
  BY <1>1, <1>2, <1>3, IdentityImplements, DevicesTypeCorrect, SyncKeysTypeCorrect,
     SyncLogInvariant, MembersTypeCorrect, RateLimitsTypeCorrect, SupportInvariant, PTL

=============================================================================
