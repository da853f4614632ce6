----------------------- MODULE UsageReservationsProofs -----------------------
(* Theorems about UsageReservations, for every value of its constants. *)
EXTENDS UsageReservations, FiniteSetTheorems, TLAPS

USE DEF Time

-----------------------------------------------------------------------------
(* Type correctness *)

LEMMA MonthOfType ==
  ASSUME TypeOK, NEW p \in Requests
  PROVE  /\ TxMonth(p) \in Months
         /\ KeyOf(p) \in Keys
         /\ BodyOf(p) \in Bodies
         /\ KindOf[BodyOf(p)] \in Kinds
         /\ UnitsOf[BodyOf(p)] \in 1 .. MaxUnits
  BY ShapeAssumption DEF TypeOK, TxMonth, KeyOf, BodyOf

\* A set of tokens is finite, so its cardinality is a natural number.
LEMMA TokensFinite ==
  ASSUME NEW rows, NEW keys, keys \subseteq Keys, NEW kd
  PROVE  /\ IsFiniteSet(Tokens(rows, keys, kd))
         /\ UnitsIn(rows, keys, kd) \in Nat
  <1>1. IsFiniteSet(keys)
    BY SetsAssumption, FS_Subset
  <1>2. IsFiniteSet(1 .. MaxUnits)
    BY ShapeAssumption, FS_Interval
  <1>3. IsFiniteSet(keys \X (1 .. MaxUnits))
    BY <1>1, <1>2, FS_Product
  <1>4. Tokens(rows, keys, kd) \in SUBSET (keys \X (1 .. MaxUnits))
    BY DEF Tokens
  <1>5. IsFiniteSet(Tokens(rows, keys, kd))
    BY <1>3, <1>4, FS_Subset
  <1>. QED
    BY <1>5, FS_CardinalityType DEF UnitsIn

LEMMA StillReservedType ==
  ASSUME TypeOK, NEW p \in Requests, NEW kd \in Kinds
  PROVE  StillReserved(p, kd) \in Nat
  <1>1. reserved[TxMonth(p)][kd] \in Nat
    BY MonthOfType DEF TypeOK
  <1>2. UnitsIn(row, TxStale(p), kd) \in Nat
    BY TokensFinite DEF TxStale, Stale, KeysWith
  <1>. QED
    BY <1>1, <1>2 DEF StillReserved, AtLeastZero

LEMMA ReleaseType ==
  ASSUME TypeOK, NEW p \in Requests, ReleaseLocks(p)
  PROVE  /\ monthLock' \in [Months -> Requests \cup {Nobody}]
         /\ rowLock' \in [Keys -> Requests \cup {Nobody}]
  BY DEF TypeOK, ReleaseLocks

LEMMA LabelFacts ==
  /\ Running \subseteq Labels
  /\ Ended \subseteq Labels
  /\ Ended \cap Running = {}
  /\ "idle" \notin Running \cup Ended
  /\ {"reserving", "wantMonth", "expiring", "inserting", "claiming", "claimWait", "claimed",
      "calling", "settling", "wantMonthToSettle"} = Running
  /\ {"refused", "overQuota", "handled", "delivered", "unavailable", "dead"} = Ended
  BY DEF Labels, Running, Ended, InTransaction

LEMMA GoType ==
  ASSUME TypeOK, NEW p \in Requests, NEW label \in Labels, Go(p, label)
  PROVE  pc' \in [Requests -> Labels]
  BY DEF TypeOK, Go

LEMMA BeginTransactionType ==
  ASSUME TypeOK, NEW p \in Requests, BeginTransaction(p)
  PROVE  clock' \in [Requests -> [start : Time, tx : Time]]
  BY DEF TypeOK, BeginTransaction

LEMMA EndType ==
  ASSUME TypeOK, NEW p \in Requests, NEW outcome \in Ended, End(p, outcome)
  PROVE  /\ monthLock' \in [Months -> Requests \cup {Nobody}]
         /\ rowLock' \in [Keys -> Requests \cup {Nobody}]
         /\ pc' \in [Requests -> Labels]
         /\ clock' \in [Requests -> [start : Time, tx : Time]]
  <1>1. NoClock \in [start : Time, tx : Time]
    BY ShapeAssumption DEF NoClock
  <1>2. clock' \in [Requests -> [start : Time, tx : Time]]
    BY <1>1 DEF TypeOK, End
  <1>3. pc' \in [Requests -> Labels]
    BY LabelFacts, GoType DEF End
  <1>. QED
    BY <1>2, <1>3, ReleaseType DEF End

\* What a reserve does to the rows: stale ones become expired and keep the rest.
LEMMA ExpiredRowsFacts ==
  ASSUME TypeOK, NEW p \in Requests, NEW k \in Keys
  PROVE  /\ k \in TxStale(p) =>
              /\ row[k] \in Row
              /\ row[k].status = "reserved"
              /\ row[k].month = TxMonth(p)
              /\ row[k].expires <= clock[p].tx
              /\ ExpiredRows(p)[k] = [row[k] EXCEPT !.status = "expired"]
              /\ ExpiredRows(p)[k] \in Row
              /\ ExpiredRows(p)[k].status = "expired"
              /\ ExpiredRows(p)[k].month = row[k].month
              /\ ExpiredRows(p)[k].body = row[k].body
              /\ ExpiredRows(p)[k].expires = row[k].expires
              /\ ExpiredRows(p)[k].processing = row[k].processing
         /\ k \notin TxStale(p) => ExpiredRows(p)[k] = row[k]
  <1>1. CASE k \in TxStale(p)
    <2>1. row[k].status = "reserved" /\ row[k].month = TxMonth(p) /\ row[k].expires <= clock[p].tx
      BY <1>1 DEF TxStale, Stale, KeysWith
    <2>2. row[k] \in Row
      BY <2>1 DEF TypeOK, NoRow
    <2>3. ExpiredRows(p)[k] = [row[k] EXCEPT !.status = "expired"]
      BY <1>1 DEF ExpiredRows
    <2>. QED
      BY <1>1, <2>1, <2>2, <2>3 DEF Row, Settled
  <1>2. CASE k \notin TxStale(p)
    BY <1>2 DEF ExpiredRows
  <1>. QED
    BY <1>1, <1>2

LEMMA ExpiredRowsType ==
  ASSUME TypeOK, NEW p \in Requests
  PROVE  ExpiredRows(p) \in [Keys -> Row \cup {NoRow}]
  <1>1. \A k \in Keys : ExpiredRows(p)[k] \in Row \cup {NoRow}
    BY ExpiredRowsFacts DEF TypeOK
  <1> DEFINE f == ExpiredRows(p)
             T == Row \cup {NoRow}
  <1>2. f = [k \in Keys |-> f[k]]
    BY DEF ExpiredRows
  <1>3. \A k \in Keys : f[k] \in T
    BY <1>1
  <1> HIDE DEF f, T
  <1>4. f \in [Keys -> T]
    BY <1>2, <1>3
  <1>. QED
    BY <1>4 DEF f, T

LEMMA InitType == Init => TypeOK
  <1> SUFFICES ASSUME Init
               PROVE  TypeOK
    OBVIOUS
  <1>1. NoClock \in [start : Time, tx : Time] /\ now \in Time
    BY ShapeAssumption DEF NoClock, Init
  <1>2. pc \in [Requests -> Labels]
    BY DEF Init, Labels
  <1>3. row \in [Keys -> Row \cup {NoRow}]
    BY DEF Init
  <1>. QED
    BY <1>1, <1>2, <1>3 DEF Init, TypeOK

-----------------------------------------------------------------------------
(* Locks *)

\* A reserve that has passed its first wait holds its period, and from the
\* quota check on the rows it expires; a settlement that waits for the period
\* holds its row, which is still reserved.
LockInv ==
  \A p \in Requests :
    /\ pc[p] \in {"expiring", "inserting"} => monthLock[TxMonth(p)] = p
    /\ pc[p] = "inserting" => \A k \in TxStale(p) : rowLock[k] = p
    /\ pc[p] = "wantMonthToSettle" =>
         /\ rowLock[KeyOf(p)] = p
         /\ row[KeyOf(p)] # NoRow
         /\ row[KeyOf(p)].status = "reserved"

\* Only reservations are locked: no request holds a row it could insert.
LockedRowsExist ==
  \A k \in Keys : rowLock[k] # Nobody => row[k] # NoRow

LEMMA NextType == TypeOK /\ LockInv /\ [Next]_vars => TypeOK'
  <1> SUFFICES ASSUME TypeOK, LockInv, [Next]_vars
               PROVE  TypeOK'
    OBVIOUS
  <1> USE DEF vars, ledger, locks, history
  <1>1. ASSUME NEW p \in Requests, Arrive(p)
        PROVE  TypeOK'
    <2>1. CASE End(p, "refused")
      BY <1>1, <2>1, EndType, LabelFacts DEF Arrive, TypeOK
    <2>2. CASE Go(p, "reserving") /\ clock' = [clock EXCEPT ![p].start = now] /\ UNCHANGED locks
      BY <1>1, <2>2, GoType, LabelFacts DEF Arrive, TypeOK
    <2>. QED
      BY <1>1, <2>1, <2>2 DEF Arrive
  <1>2. ASSUME NEW p \in Requests, Admit(p)
        PROVE  TypeOK'
    <2>1. CASE End(p, "refused")
      BY <1>2, <2>1, EndType, LabelFacts DEF Admit, TypeOK
    <2>2. CASE Go(p, "wantMonth") /\ BeginTransaction(p) /\ UNCHANGED locks
      BY <1>2, <2>2, GoType, BeginTransactionType, LabelFacts DEF Admit, TypeOK
    <2>. QED
      BY <1>2, <2>1, <2>2 DEF Admit
  <1>3. ASSUME NEW p \in Requests, LockMonth(p)
        PROVE  TypeOK'
    <2>1. monthLock' \in [Months -> Requests \cup {Nobody}]
      BY <1>3 DEF LockMonth, TypeOK
    <2>. QED
      BY <1>3, <2>1, GoType, LabelFacts DEF LockMonth, TypeOK
  <1>4. ASSUME NEW p \in Requests, FindExisting(p)
        PROVE  TypeOK'
    <2>1. CASE End(p, "refused") /\ UNCHANGED ledger
      BY <1>4, <2>1, EndType, LabelFacts DEF FindExisting, TypeOK
    <2>2. CASE /\ row' = ExpiredRows(p)
               /\ reserved' = [reserved EXCEPT ![TxMonth(p)] =
                                 [kd \in Kinds |-> StillReserved(p, kd)]]
               /\ Go(p, "claiming")
               /\ ReleaseLocks(p)
               /\ UNCHANGED <<used, clock>>
      <3>1. reserved' \in [Months -> [Kinds -> Nat]]
        BY <2>2, StillReservedType DEF TypeOK
      <3>2. row' \in [Keys -> Row \cup {NoRow}]
        BY <2>2, ExpiredRowsType
      <3>. QED
        BY <1>4, <2>2, <3>1, <3>2, ReleaseType, GoType, LabelFacts DEF FindExisting, TypeOK
    <2>. QED
      BY <1>4, <2>1, <2>2 DEF FindExisting
  <1>5. ASSUME NEW p \in Requests, CheckQuota(p)
        PROVE  TypeOK'
    <2>1. CASE End(p, "overQuota")
      BY <1>5, <2>1, EndType, LabelFacts DEF CheckQuota, TypeOK
    <2>2. CASE /\ Go(p, "inserting")
               /\ rowLock' = [k \in Keys |-> IF k \in TxStale(p) THEN p ELSE rowLock[k]]
               /\ UNCHANGED <<monthLock, clock>>
      BY <1>5, <2>2, GoType, LabelFacts DEF CheckQuota, TypeOK
    <2>. QED
      BY <1>5, <2>1, <2>2 DEF CheckQuota
  <1>6. ASSUME NEW p \in Requests, Insert(p)
        PROVE  TypeOK'
    <2>1. CASE row[KeyOf(p)] # NoRow
      BY <1>6, <2>1, EndType, LabelFacts DEF Insert, TypeOK
    <2>2. CASE row[KeyOf(p)] = NoRow
      <3>1. [status |-> "reserved", month |-> TxMonth(p), body |-> BodyOf(p),
             expires |-> clock[p].tx + Ttl, processing |-> FALSE] \in Row
        <4>1. clock[p].tx \in Nat
          BY ShapeAssumption DEF TypeOK
        <4>. QED
          BY <4>1, MonthOfType, LifeAssumption DEF Row
      <3>2. row' \in [Keys -> Row \cup {NoRow}]
        BY <1>6, <2>2, <3>1, ExpiredRowsType DEF Insert
      <3>3. reserved' \in [Months -> [Kinds -> Nat]]
        <4> DEFINE f == [kd \in Kinds |-> StillReserved(p, kd)
                           + IF kd = KindOf[BodyOf(p)] THEN UnitsOf[BodyOf(p)] ELSE 0]
        <4>1. ASSUME NEW kd \in Kinds
              PROVE  f[kd] \in Nat
          BY StillReservedType, MonthOfType, ShapeAssumption
        <4>2. f \in [Kinds -> Nat]
          BY <4>1
        <4>3. reserved' = [reserved EXCEPT ![TxMonth(p)] = f]
          BY <1>6, <2>2 DEF Insert
        <4> HIDE DEF f
        <4>. QED
          BY <4>2, <4>3 DEF TypeOK
      <3>. QED
        BY <1>6, <2>2, <3>2, <3>3, ReleaseType, GoType, LabelFacts DEF Insert, TypeOK
    <2>. QED
      BY <2>1, <2>2
  <1>7. ASSUME NEW p \in Requests, BeginClaim(p)
        PROVE  TypeOK'
    BY <1>7, GoType, BeginTransactionType, LabelFacts DEF BeginClaim, TypeOK
  <1>8. ASSUME NEW p \in Requests, Claim(p)
        PROVE  TypeOK'
    <2>1. CASE Claimable(p)
      <3>1. row[KeyOf(p)] \in Row
        BY <2>1, MonthOfType DEF Claimable, TypeOK, NoRow
      <3>2. [row[KeyOf(p)] EXCEPT !.processing = TRUE] \in Row
        BY <3>1 DEF Row
      <3>3. row' \in [Keys -> Row \cup {NoRow}]
        BY <1>8, <2>1, <3>2 DEF Claim, TypeOK
      <3>. QED
        BY <1>8, <2>1, <3>3, GoType, LabelFacts DEF Claim, TypeOK
    <2>2. CASE ~Claimable(p)
      BY <1>8, <2>2, EndType, LabelFacts DEF Claim, TypeOK
    <2>. QED
      BY <2>1, <2>2
  <1>9. ASSUME NEW p \in Requests, CallProvider(p)
        PROVE  TypeOK'
    BY <1>9, GoType, LabelFacts DEF CallProvider, TypeOK
  <1>10. ASSUME NEW p \in Requests, ProviderReturns(p)
         PROVE  TypeOK'
    BY <1>10, GoType, LabelFacts DEF ProviderReturns, TypeOK
  <1>11. ASSUME NEW p \in Requests, SettleRow(p)
         PROVE  TypeOK'
    <2>1. CASE End(p, Outcome(p))
      BY <1>11, <2>1, EndType, LabelFacts DEF SettleRow, Outcome, TypeOK
    <2>2. CASE /\ rowLock' = [rowLock EXCEPT ![KeyOf(p)] = p]
               /\ Go(p, "wantMonthToSettle")
               /\ UNCHANGED <<monthLock, clock>>
      <3>1. rowLock' \in [Keys -> Requests \cup {Nobody}]
        BY <2>2 DEF TypeOK
      <3>. QED
        BY <1>11, <2>2, <3>1, GoType, LabelFacts DEF SettleRow, TypeOK
    <2>. QED
      BY <1>11, <2>1, <2>2 DEF SettleRow
  <1>12. ASSUME NEW p \in Requests, Settle(p)
         PROVE  TypeOK'
    <2> DEFINE k == KeyOf(p)
               m == row[k].month
               kd == KindOf[row[k].body]
               n == UnitsOf[row[k].body]
    <2>1. row[k] \in Row
      BY <1>12, MonthOfType DEF Settle, LockInv, TypeOK
    <2>2. m \in Months /\ kd \in Kinds /\ n \in Nat
      BY <2>1, ShapeAssumption DEF Row
    <2>3. AtLeastZero(reserved[m][kd] - n) \in Nat /\ used[m][kd] + n \in Nat
      BY <2>2 DEF TypeOK, AtLeastZero
    <2>4. used' \in [Months -> [Kinds -> Nat]] /\ reserved' \in [Months -> [Kinds -> Nat]]
      <3> DEFINE less == AtLeastZero(reserved[m][kd] - n)
                 more == IF p \in served THEN used[m][kd] + n ELSE used[m][kd]
      <3>1. less \in Nat /\ more \in Nat
        BY <2>2, <2>3 DEF TypeOK
      <3>2. reserved' = [reserved EXCEPT ![m][kd] = less] /\ used' = [used EXCEPT ![m][kd] = more]
        BY <1>12 DEF Settle
      <3> HIDE DEF less, more, m, kd
      <3>. QED
        BY <2>2, <3>1, <3>2 DEF TypeOK
    <2>5. row' \in [Keys -> Row \cup {NoRow}]
      BY <1>12, <2>1 DEF Settle, TypeOK, Row, Settled
    <2>. QED
      BY <1>12, <2>4, <2>5, EndType, LabelFacts DEF Settle, Outcome, TypeOK
  <1>13. ASSUME NEW p \in Requests, AbortDeadlock(p)
         PROVE  TypeOK'
    BY <1>13, EndType, LabelFacts DEF AbortDeadlock, TypeOK
  <1>14. ASSUME NEW p \in Requests, Die(p)
         PROVE  TypeOK'
    BY <1>14, EndType, LabelFacts DEF Die, TypeOK
  <1>15. CASE Tick
    BY <1>15, ShapeAssumption DEF Tick, TypeOK
  <1>16. CASE ChangeAccount
    BY <1>16 DEF ChangeAccount, TypeOK
  <1>17. CASE UNCHANGED vars
    BY <1>17 DEF TypeOK
  <1>. QED
    BY <1>1, <1>2, <1>3, <1>4, <1>5, <1>6, <1>7, <1>8, <1>9, <1>10, <1>11, <1>12, <1>13,
       <1>14, <1>15, <1>16, <1>17
    DEF Next, Step

\* What one request does.
Act(p) == Arrive(p) \/ Step(p) \/ Die(p)

\* A step of one request leaves the place, the time and the locks of the others.
LEMMA StepOfOther ==
  ASSUME TypeOK, NEW p \in Requests, NEW q \in Requests, p # q, Act(q)
  PROVE  /\ pc'[p] = pc[p]
         /\ clock'[p] = clock[p]
         /\ asked' = asked
         /\ now' = now
         /\ \A m \in Months : monthLock[m] = p => monthLock'[m] = p
         /\ \A k \in Keys : rowLock[k] = p => rowLock'[k] = p
         /\ p \in called' <=> p \in called
         /\ p \in created' <=> p \in created
         /\ p \in served' <=> p \in served
  <1> USE SetsAssumption
      DEF TypeOK, Act, Step, Go, End, ReleaseLocks, BeginTransaction, vars, locks, ledger, history
  <1>1. CASE Arrive(q) \/ Admit(q) \/ Die(q) \/ AbortDeadlock(q)
    BY <1>1 DEF Arrive, Admit, Die, AbortDeadlock
  <1>2. CASE LockMonth(q)
    BY <1>2, MonthOfType DEF LockMonth
  <1>3. CASE FindExisting(q)
    BY <1>3 DEF FindExisting
  <1>4. CASE CheckQuota(q)
    BY <1>4 DEF CheckQuota, Expires
  <1>5. CASE Insert(q)
    BY <1>5 DEF Insert
  <1>6. CASE BeginClaim(q) \/ CallProvider(q) \/ ProviderReturns(q)
    BY <1>6 DEF BeginClaim, CallProvider, ProviderReturns
  <1>7. CASE Claim(q)
    BY <1>7 DEF Claim
  <1>8. CASE SettleRow(q)
    BY <1>8, MonthOfType DEF SettleRow
  <1>9. CASE Settle(q)
    BY <1>9 DEF Settle
  <1>. QED
    BY <1>1, <1>2, <1>3, <1>4, <1>5, <1>6, <1>7, <1>8, <1>9

\* The five things a step of a request can do to a reservation.
Expiry(q, k) ==
  /\ pc[q] \in {"expiring", "inserting"}
  /\ monthLock[TxMonth(q)] = q
  /\ k \in TxStale(q)
  /\ rowLock[k] \in {Nobody, q}
  /\ row[k] \in Row
  /\ row[k].status = "reserved"
  /\ row[k].month = TxMonth(q)
  /\ row'[k] = [row[k] EXCEPT !.status = "expired"]
Creation(q, k) ==
  /\ pc[q] = "inserting"
  /\ monthLock[TxMonth(q)] = q
  /\ k = KeyOf(q)
  /\ row[k] = NoRow
  /\ row'[k] = [status |-> "reserved", month |-> TxMonth(q), body |-> BodyOf(q),
                expires |-> clock[q].tx + Ttl, processing |-> FALSE]
  /\ created' = created \cup {q}
Claiming(q, k) ==
  /\ pc[q] = "claimWait"
  /\ pc'[q] = "claimed"
  /\ k = KeyOf(q)
  /\ rowLock[k] = Nobody
  /\ row[k] \in Row
  /\ row[k].status = "reserved"
  /\ ~row[k].processing
  /\ row[k].expires > clock[q].tx
  /\ row'[k] = [row[k] EXCEPT !.processing = TRUE]
Settling(q, k) ==
  /\ pc[q] = "wantMonthToSettle"
  /\ k = KeyOf(q)
  /\ rowLock[k] = q
  /\ row[k] \in Row
  /\ row[k].status = "reserved"
  /\ monthLock[row[k].month] = Nobody
  /\ row'[k] = [row[k] EXCEPT !.status = IF q \in served THEN "finalized" ELSE "released"]

LEMMA RowChange ==
  ASSUME TypeOK, LockInv, NEW q \in Requests, Act(q), NEW k \in Keys
  PROVE  \/ row'[k] = row[k]
         \/ Expiry(q, k)
         \/ Creation(q, k)
         \/ Claiming(q, k)
         \/ Settling(q, k)
  <1> USE DEF vars, ledger
  <1>1. CASE \/ Arrive(q) \/ Admit(q) \/ LockMonth(q) \/ CheckQuota(q) \/ BeginClaim(q)
             \/ CallProvider(q) \/ ProviderReturns(q) \/ SettleRow(q) \/ AbortDeadlock(q)
             \/ Die(q)
    BY <1>1 DEF Arrive, Admit, LockMonth, CheckQuota, BeginClaim, CallProvider,
                ProviderReturns, SettleRow, AbortDeadlock, Die
  <1>2. CASE FindExisting(q)
    <2>1. row'[k] = row[k] \/ row'[k] = ExpiredRows(q)[k]
      BY <1>2 DEF FindExisting
    <2>2. k \in TxStale(q) => rowLock[k] = Nobody
      BY <1>2 DEF FindExisting, Expires
    <2>3. pc[q] = "expiring" /\ monthLock[TxMonth(q)] = q
      BY <1>2 DEF FindExisting, Expires, LockInv
    <2>. QED
      BY <2>1, <2>2, <2>3, ExpiredRowsFacts DEF Expiry
  <1>3. CASE Insert(q)
    <2>1. CASE row[KeyOf(q)] # NoRow
      BY <1>3, <2>1 DEF Insert
    <2>2. CASE row[KeyOf(q)] = NoRow
      <3>1. pc[q] = "inserting" /\ monthLock[TxMonth(q)] = q
        BY <1>3 DEF Insert, LockInv
      <3>2. CASE k = KeyOf(q)
        BY <1>3, <2>2, <3>1, <3>2 DEF Insert, Creation, ExpiredRows
      <3>3. CASE k # KeyOf(q)
        <4>1. row'[k] = ExpiredRows(q)[k]
          BY <1>3, <2>2, <3>3 DEF Insert, ExpiredRows
        <4>2. k \in TxStale(q) => rowLock[k] = q
          BY <3>1 DEF LockInv
        <4>. QED
          BY <3>1, <4>1, <4>2, ExpiredRowsFacts DEF Expiry
      <3>. QED
        BY <3>2, <3>3
    <2>. QED
      BY <2>1, <2>2
  <1>4. CASE Claim(q)
    <2>1. CASE Claimable(q)
      <3>1. row[KeyOf(q)] \in Row
        BY <2>1, MonthOfType DEF Claimable, TypeOK, NoRow
      <3>. QED
        BY <1>4, <2>1, <3>1 DEF Claim, Claimable, Claiming, TypeOK, Go
    <2>2. CASE ~Claimable(q)
      BY <1>4, <2>2 DEF Claim
    <2>. QED
      BY <2>1, <2>2
  <1>5. CASE Settle(q)
    <2>1. row[KeyOf(q)] \in Row
      BY <1>5, MonthOfType DEF Settle, LockInv, TypeOK
    <2>. QED
      BY <1>5, <2>1 DEF Settle, Settling, LockInv, TypeOK
  <1>. QED
    BY <1>1, <1>2, <1>3, <1>4, <1>5 DEF Act, Step

\* Others leave a locked reservation alone, and the rows of a locked period stay
\* in the set the holder would expire exactly when nobody else changed them.
LEMMA LockedRow ==
  ASSUME TypeOK, LockInv, LockedRowsExist, NEW p \in Requests, NEW q \in Requests, p # q,
         Act(q), NEW k \in Keys, rowLock[k] = p
  PROVE  row'[k] = row[k]
  BY RowChange, SetsAssumption
  DEF Expiry, Creation, Claiming, Settling, LockedRowsExist

LEMMA StaleOfOther ==
  ASSUME TypeOK, LockInv, NEW p \in Requests, NEW q \in Requests, p # q, Act(q),
         monthLock[TxMonth(p)] = p
  PROVE  TxStale(p)' \subseteq TxStale(p)
  <1> SUFFICES ASSUME NEW k \in Keys,
                      row'[k].status = "reserved",
                      row'[k].month = TxMonth(p),
                      row'[k].expires <= clock[p].tx
               PROVE  k \in TxStale(p)
    BY StepOfOther DEF TxStale, Stale, KeysWith, TxMonth
  <1>1. CASE row'[k] = row[k]
    BY <1>1 DEF TxStale, Stale, KeysWith
  <1>2. CASE Expiry(q, k)
    BY <1>2 DEF Expiry, Row
  <1>3. CASE Creation(q, k)
    BY <1>3 DEF Creation
  <1>4. CASE Claiming(q, k)
    BY <1>4 DEF Claiming, Row, TxStale, Stale, KeysWith
  <1>5. CASE Settling(q, k)
    BY <1>5 DEF Settling, Row
  <1>. QED
    BY <1>1, <1>2, <1>3, <1>4, <1>5, RowChange

\* What a request does to its own locks.
LEMMA OwnLocks ==
  ASSUME TypeOK, LockInv, NEW p \in Requests, Act(p)
  PROVE  /\ asked' = asked
         /\ pc'[p] \in {"expiring", "inserting"} =>
              /\ clock'[p] = clock[p]
              /\ monthLock'[TxMonth(p)] = p
         /\ pc'[p] = "inserting" =>
              /\ row' = row
              /\ \A k \in TxStale(p) : rowLock'[k] = p
         /\ pc'[p] = "wantMonthToSettle" =>
              /\ rowLock'[KeyOf(p)] = p
              /\ row' = row
              /\ row[KeyOf(p)].status = "reserved"
  <1> USE DEF TypeOK, Act, Step, Go, End, vars, locks, ledger, history, Outcome
  <1>1. CASE Arrive(p) \/ Admit(p) \/ Die(p) \/ AbortDeadlock(p)
    BY <1>1 DEF Arrive, Admit, Die, AbortDeadlock
  <1>2. CASE LockMonth(p)
    BY <1>2, MonthOfType DEF LockMonth
  <1>3. CASE FindExisting(p)
    BY <1>3 DEF FindExisting
  <1>4. CASE CheckQuota(p)
    BY <1>4 DEF CheckQuota, Expires, LockInv, TxStale, Stale, KeysWith
  <1>5. CASE Insert(p)
    BY <1>5 DEF Insert
  <1>6. CASE BeginClaim(p) \/ CallProvider(p) \/ ProviderReturns(p)
    BY <1>6 DEF BeginClaim, CallProvider, ProviderReturns
  <1>7. CASE Claim(p)
    BY <1>7 DEF Claim
  <1>8. CASE SettleRow(p)
    BY <1>8, MonthOfType DEF SettleRow
  <1>9. CASE Settle(p)
    BY <1>9 DEF Settle
  <1>. QED
    BY <1>1, <1>2, <1>3, <1>4, <1>5, <1>6, <1>7, <1>8, <1>9

LEMMA InitLocks == Init => LockInv /\ LockedRowsExist
  BY DEF Init, LockInv, LockedRowsExist

LEMMA ActLocks ==
  ASSUME TypeOK, LockInv, LockedRowsExist, NEW q \in Requests, Act(q)
  PROVE  LockInv'
  <1> SUFFICES ASSUME NEW p \in Requests
               PROVE  /\ pc'[p] \in {"expiring", "inserting"} => monthLock'[TxMonth(p)'] = p
                      /\ pc'[p] = "inserting" => \A k \in TxStale(p)' : rowLock'[k] = p
                      /\ pc'[p] = "wantMonthToSettle" =>
                           /\ rowLock'[KeyOf(p)'] = p
                           /\ row'[KeyOf(p)'] # NoRow
                           /\ row'[KeyOf(p)'].status = "reserved"
    BY DEF LockInv
  <1>1. CASE p = q
    <2>1. pc'[p] \in {"expiring", "inserting"} => TxMonth(p)' = TxMonth(p)
      BY <1>1, OwnLocks DEF TxMonth
    <2>2. pc'[p] = "inserting" => TxStale(p)' = TxStale(p)
      BY <1>1, OwnLocks DEF TxStale, Stale, KeysWith, TxMonth
    <2>3. pc'[p] = "wantMonthToSettle" => row'[KeyOf(p)'] # NoRow
      BY <1>1, OwnLocks DEF KeyOf, NoRow
    <2>. QED
      BY <1>1, <2>1, <2>2, <2>3, OwnLocks DEF KeyOf
  <1>2. CASE p # q
    <2>1. TxMonth(p)' = TxMonth(p) /\ TxMonth(p) \in Months
      BY <1>2, StepOfOther, MonthOfType DEF TxMonth
    <2>2. KeyOf(p)' = KeyOf(p) /\ KeyOf(p) \in Keys
      BY <1>2, StepOfOther, MonthOfType DEF KeyOf
    <2>3. ASSUME pc'[p] \in {"expiring", "inserting"}
          PROVE  monthLock[TxMonth(p)] = p /\ monthLock'[TxMonth(p)] = p
      BY <1>2, <2>1, <2>3, StepOfOther DEF LockInv
    <2>4. ASSUME pc'[p] = "inserting", NEW k \in TxStale(p)'
          PROVE  rowLock'[k] = p
      <3>1. k \in TxStale(p)
        BY <1>2, <2>3, <2>4, StaleOfOther
      <3>2. k \in Keys
        BY <3>1 DEF TxStale, Stale, KeysWith
      <3>. QED
        BY <1>2, <2>4, <3>1, <3>2, StepOfOther DEF LockInv
    <2>5. ASSUME pc'[p] = "wantMonthToSettle"
          PROVE  rowLock'[KeyOf(p)] = p /\ row'[KeyOf(p)] = row[KeyOf(p)]
                 /\ row[KeyOf(p)] # NoRow /\ row[KeyOf(p)].status = "reserved"
      <3>1. pc[p] = "wantMonthToSettle" /\ rowLock[KeyOf(p)] = p
        BY <1>2, <2>5, StepOfOther DEF LockInv
      <3>. QED
        BY <1>2, <2>2, <3>1, StepOfOther, LockedRow DEF LockInv
    <2>. QED
      BY <2>1, <2>2, <2>3, <2>4, <2>5
  <1>. QED
    BY <1>1, <1>2

\* A lock is only ever taken on a reservation that exists, and none disappears.
LEMMA ActLockedRows ==
  ASSUME TypeOK, LockInv, LockedRowsExist, NEW q \in Requests, Act(q)
  PROVE  LockedRowsExist'
  <1> SUFFICES ASSUME NEW k \in Keys, rowLock'[k] # Nobody
               PROVE  row'[k] # NoRow
    BY DEF LockedRowsExist
  <1>1. row[k] # NoRow
    <2> SUFFICES ASSUME rowLock[k] = Nobody
                 PROVE  row[k] # NoRow
      BY DEF LockedRowsExist
    <2> USE DEF TypeOK, Act, Step, Go, End, ReleaseLocks, vars, locks, ledger, history
    <2>1. CASE CheckQuota(q)
      BY <2>1 DEF CheckQuota, TxStale, Stale, KeysWith, NoRow
    <2>2. CASE SettleRow(q)
      BY <2>2, MonthOfType DEF SettleRow, NoRow
    <2>3. CASE \/ Arrive(q) \/ Admit(q) \/ LockMonth(q) \/ BeginClaim(q) \/ CallProvider(q)
               \/ ProviderReturns(q) \/ AbortDeadlock(q) \/ Die(q)
      BY <2>3 DEF Arrive, Admit, LockMonth, BeginClaim, CallProvider, ProviderReturns,
                  AbortDeadlock, Die
    <2>4. CASE FindExisting(q) \/ Insert(q) \/ Claim(q) \/ Settle(q)
      BY <2>4 DEF FindExisting, Insert, Claim, Settle
    <2>. QED
      BY <2>1, <2>2, <2>3, <2>4
  <1>2. ASSUME row'[k].status # "absent"
        PROVE  row'[k] # NoRow
    BY <1>2 DEF NoRow
  <1>3. CASE Expiry(q, k)
    BY <1>2, <1>3 DEF Expiry, Row
  <1>4. CASE Creation(q, k)
    BY <1>2, <1>4 DEF Creation
  <1>5. CASE Claiming(q, k)
    BY <1>2, <1>5 DEF Claiming, Row
  <1>6. CASE Settling(q, k)
    BY <1>2, <1>6 DEF Settling, Row
  <1>. QED
    BY <1>1, <1>3, <1>4, <1>5, <1>6, RowChange

\* The inductive invariant of this part.
TypeInv == TypeOK /\ LockInv /\ LockedRowsExist

LEMMA QuietLocks ==
  ASSUME TypeInv, Tick \/ ChangeAccount \/ UNCHANGED vars
  PROVE  LockInv' /\ LockedRowsExist'
  <1>1. UNCHANGED <<row, monthLock, rowLock, asked, pc, clock>>
    BY DEF Tick, ChangeAccount, vars, ledger, locks
  <1>. QED
    BY <1>1 DEF TypeInv, LockInv, LockedRowsExist, TxMonth, TxStale, Stale, KeysWith, KeyOf

LEMMA NextCases ==
  ASSUME [Next]_vars
  PROVE  \/ \E q \in Requests : Act(q)
         \/ Tick \/ ChangeAccount \/ UNCHANGED vars
  BY DEF Next, Act

LEMMA InitTypeInv == Init => TypeInv
  BY InitType, InitLocks DEF TypeInv

LEMMA NextTypeInv == TypeInv /\ [Next]_vars => TypeInv'
  <1> SUFFICES ASSUME TypeInv, [Next]_vars
               PROVE  TypeInv'
    OBVIOUS
  <1>1. TypeOK'
    BY NextType DEF TypeInv
  <1>2. LockInv' /\ LockedRowsExist'
    BY NextCases, ActLocks, ActLockedRows, QuietLocks DEF TypeInv
  <1>. QED
    BY <1>1, <1>2 DEF TypeInv

\* Every state has its type, in every behaviour and with any number of requests:
\* the locks are why a settlement always finds the reservation it adjusts.
THEOREM TypeCorrect == Spec => []TypeOK
  <1>1. TypeInv => TypeOK
    BY DEF TypeInv
  <1>. QED
    BY <1>1, InitTypeInv, NextTypeInv, PTL DEF Spec

-----------------------------------------------------------------------------
(* The provider is called once *)

\* A request between its successful claim and its call, or past the call.
Claimant(p) == p \in called \/ pc[p] = "claimed"

\* A claimed reservation stays marked for ever, and is one request's.
ClaimInv ==
  /\ \A p \in Requests : Claimant(p) => row[KeyOf(p)] # NoRow /\ row[KeyOf(p)].processing
  /\ \A p, q \in Requests : Claimant(p) /\ Claimant(q) /\ KeyOf(p) = KeyOf(q) => p = q

\* No step unmarks a reservation.
LEMMA MarkStays ==
  ASSUME TypeInv, NEW q \in Requests, Act(q), NEW k \in Keys,
         row[k] # NoRow, row[k].processing
  PROVE  row'[k] # NoRow /\ row'[k].processing
  <1>1. CASE row'[k] = row[k]
    BY <1>1
  <1>2. CASE Expiry(q, k)
    BY <1>2 DEF Expiry, Row, NoRow
  <1>3. CASE Creation(q, k)
    BY <1>3 DEF Creation
  <1>4. CASE Claiming(q, k)
    BY <1>4 DEF Claiming
  <1>5. CASE Settling(q, k)
    BY <1>5 DEF Settling, Row, NoRow
  <1>. QED
    BY <1>1, <1>2, <1>3, <1>4, <1>5, RowChange DEF TypeInv

\* A request becomes a claimant by a claim, which finds the mark absent.
LEMMA NewClaimant ==
  ASSUME TypeInv, NEW q \in Requests, Act(q), Claimant(q)', ~Claimant(q)
  PROVE  /\ row[KeyOf(q)] # NoRow /\ ~row[KeyOf(q)].processing
         /\ row'[KeyOf(q)] # NoRow /\ row'[KeyOf(q)].processing
  <1> USE DEF Claimant, TypeInv, TypeOK, Act, Step, Go, End, vars, history, Outcome
  <1>1. Claim(q) /\ Claimable(q)
    <2>1. CASE Claim(q)
      BY <2>1 DEF Claim
    <2>2. CASE CallProvider(q)
      BY <2>2 DEF CallProvider
    <2>3. CASE Arrive(q) \/ Admit(q) \/ LockMonth(q) \/ FindExisting(q) \/ CheckQuota(q)
      BY <2>3 DEF Arrive, Admit, LockMonth, FindExisting, CheckQuota
    <2>4. CASE Insert(q) \/ BeginClaim(q) \/ ProviderReturns(q) \/ SettleRow(q)
      BY <2>4 DEF Insert, BeginClaim, ProviderReturns, SettleRow
    <2>5. CASE Settle(q) \/ AbortDeadlock(q) \/ Die(q)
      BY <2>5 DEF Settle, AbortDeadlock, Die
    <2>. QED
      BY <2>1, <2>2, <2>3, <2>4, <2>5
  <1>2. KeyOf(q) \in Keys /\ row[KeyOf(q)] \in Row
    BY <1>1, MonthOfType DEF Claimable, NoRow
  <1>3. row'[KeyOf(q)] = [row[KeyOf(q)] EXCEPT !.processing = TRUE]
    BY <1>1, <1>2 DEF Claim
  <1>. QED
    BY <1>1, <1>2, <1>3 DEF Claimable, Row, NoRow

LEMMA ActClaims ==
  ASSUME TypeInv, ClaimInv, NEW q \in Requests, Act(q)
  PROVE  ClaimInv'
  <1>1. \A p \in Requests : KeyOf(p)' = KeyOf(p) /\ KeyOf(p) \in Keys
    BY OwnLocks, MonthOfType DEF KeyOf, TypeInv
  <1>2. \A p \in Requests : p # q => (Claimant(p)' <=> Claimant(p))
    BY StepOfOther DEF Claimant, TypeInv
  <1>3. ASSUME NEW p \in Requests, Claimant(p)'
        PROVE  row'[KeyOf(p)] # NoRow /\ row'[KeyOf(p)].processing
    <2>1. CASE Claimant(p)
      BY <1>1, <2>1, MarkStays DEF ClaimInv
    <2>2. CASE ~Claimant(p)
      <3>1. p = q
        BY <1>2, <1>3, <2>2
      <3>. QED
        BY <1>3, <2>2, <3>1, NewClaimant
    <2>. QED
      BY <2>1, <2>2
  <1>4. ASSUME NEW p \in Requests, Claimant(p)', Claimant(q)', KeyOf(p) = KeyOf(q)
        PROVE  p = q
    <2>1. CASE p # q /\ ~Claimant(q)
      <3>1. Claimant(p) /\ row[KeyOf(p)].processing
        BY <1>2, <1>4, <2>1 DEF ClaimInv
      <3>. QED
        BY <1>4, <2>1, <3>1, NewClaimant
    <2>2. CASE p # q /\ Claimant(q)
      BY <1>2, <1>4, <2>2 DEF ClaimInv
    <2>. QED
      BY <2>1, <2>2
  <1>5. ASSUME NEW p \in Requests, NEW r \in Requests, Claimant(p)', Claimant(r)',
               KeyOf(p) = KeyOf(r)
        PROVE  p = r
    BY <1>2, <1>4, <1>5 DEF ClaimInv
  <1>. QED
    BY <1>1, <1>3, <1>5 DEF ClaimInv

LEMMA NextClaims == TypeInv /\ ClaimInv /\ [Next]_vars => ClaimInv'
  <1> SUFFICES ASSUME TypeInv, ClaimInv, [Next]_vars
               PROVE  ClaimInv'
    OBVIOUS
  <1>1. CASE Tick \/ ChangeAccount \/ UNCHANGED vars
    BY <1>1 DEF Tick, ChangeAccount, vars, ledger, history, ClaimInv, Claimant, KeyOf
  <1>. QED
    BY <1>1, NextCases, ActClaims

\* However many clients retry a key, whatever dies and whatever expires, at most
\* one request ever reaches the provider for it.
THEOREM CalledOnce == Spec => []ProviderCalledOnce
  <1>1. Init => ClaimInv
    BY DEF Init, ClaimInv, Claimant
  <1>2. TypeInv /\ ClaimInv => ProviderCalledOnce
    BY DEF TypeInv, TypeOK, ClaimInv, Claimant, ProviderCalledOnce
  <1>. QED
    BY <1>1, <1>2, InitTypeInv, NextTypeInv, NextClaims, PTL DEF Spec

-----------------------------------------------------------------------------
(* A request keeps the reservation it made *)

Admitting == {"wantMonth", "expiring", "inserting"}
Settlers == {"calling", "settling", "wantMonthToSettle"}

\* A running request is never older than MaxDuration, a transaction began before
\* the clock's instant, and the one that reserves began after its request.
TimeInv ==
  \A p \in Requests :
    /\ clock[p].tx <= now
    /\ Alive(p) => clock[p].start <= now /\ now <= clock[p].start + MaxDuration
    /\ pc[p] \in Admitting => clock[p].start <= clock[p].tx

\* Whoever settles has called the provider.
CalledInv ==
  \A p \in Requests :
    /\ p \in called => pc[p] \in Settlers \cup Ended
    /\ pc[p] \in Settlers => p \in called

\* What is known of a reservation by the request that inserted it.
OwnRow(p) ==
  /\ pc[p] \notin Admitting \cup {"idle", "reserving"}
  /\ row[KeyOf(p)] # NoRow
  /\ Alive(p) => row[KeyOf(p)].expires >= clock[p].start + Ttl
  /\ pc[p] \in {"claimed"} \cup Settlers => row[KeyOf(p)].status = "reserved"
  /\ p \in called /\ pc[p] = "delivered" => row[KeyOf(p)].status = "finalized"

OwnInv == TimeInv /\ CalledInv /\ \A p \in created : OwnRow(p)

LEMMA ClockNumbers ==
  ASSUME TypeOK, NEW p \in Requests
  PROVE  clock[p].start \in Nat /\ clock[p].tx \in Nat /\ now \in Nat
         /\ MaxDuration \in Nat /\ Ttl \in Nat /\ MaxDuration < Ttl
  BY ShapeAssumption, LifeAssumption DEF TypeOK

\* What a request does to its own clock and place.
LEMMA OwnTime ==
  ASSUME TypeOK, TimeInv, NEW p \in Requests, Act(p)
  PROVE  /\ clock'[p].tx <= now
         /\ pc'[p] \in Running => clock'[p].start <= now /\ now <= clock'[p].start + MaxDuration
         /\ pc'[p] \in Admitting => clock'[p].start <= clock'[p].tx
         /\ now' = now
  <1> USE ClockNumbers, LabelFacts
      DEF TypeOK, TimeInv, Alive, Go, End, NoClock, BeginTransaction, Admitting, vars
  <1>1. CASE Arrive(p)
    <2>1. CASE End(p, "refused")
      BY <1>1, <2>1 DEF Arrive
    <2>2. CASE Go(p, "reserving") /\ clock' = [clock EXCEPT ![p].start = now]
      <3>1. clock'[p].start = now /\ clock'[p].tx = clock[p].tx /\ pc'[p] = "reserving"
        BY <2>2
      <3>. QED
        BY <1>1, <3>1 DEF Arrive
    <2>. QED
      BY <1>1, <2>1, <2>2 DEF Arrive
  <1>2. CASE Admit(p)
    BY <1>2 DEF Admit
  <1>3. CASE LockMonth(p)
    BY <1>3 DEF LockMonth
  <1>4. CASE FindExisting(p)
    <2>1. CASE End(p, "refused")
      BY <1>4, <2>1 DEF FindExisting
    <2>2. CASE Go(p, "claiming") /\ UNCHANGED <<used, clock>>
      <3>1. clock' = clock /\ pc'[p] = "claiming" /\ pc[p] = "expiring"
        BY <1>4, <2>2 DEF FindExisting, Expires
      <3>. QED
        BY <1>4, <3>1 DEF FindExisting
    <2>. QED
      BY <1>4, <2>1, <2>2 DEF FindExisting
  <1>5. CASE CheckQuota(p)
    BY <1>5 DEF CheckQuota, Expires
  <1>6. CASE Insert(p)
    BY <1>6 DEF Insert
  <1>7. CASE BeginClaim(p)
    BY <1>7 DEF BeginClaim
  <1>8. CASE Claim(p)
    BY <1>8 DEF Claim
  <1>9. CASE CallProvider(p) \/ ProviderReturns(p)
    BY <1>9 DEF CallProvider, ProviderReturns
  <1>10. CASE SettleRow(p)
    BY <1>10 DEF SettleRow, Outcome
  <1>11. CASE Settle(p)
    BY <1>11 DEF Settle, Outcome
  <1>12. CASE AbortDeadlock(p) \/ Die(p)
    BY <1>12 DEF AbortDeadlock, Die
  <1>. QED
    BY <1>1, <1>2, <1>3, <1>4, <1>5, <1>6, <1>7, <1>8, <1>9, <1>10, <1>11, <1>12 DEF Act, Step

LEMMA ActTime ==
  ASSUME TypeOK, TimeInv, NEW q \in Requests, Act(q)
  PROVE  TimeInv'
  <1> SUFFICES ASSUME NEW p \in Requests
               PROVE  /\ clock'[p].tx <= now'
                      /\ pc'[p] \in Running => /\ clock'[p].start <= now'
                                               /\ now' <= clock'[p].start + MaxDuration
                      /\ pc'[p] \in Admitting => clock'[p].start <= clock'[p].tx
    BY DEF TimeInv, Alive
  <1>1. CASE p = q
    BY <1>1, OwnTime
  <1>2. CASE p # q
    BY <1>2, StepOfOther DEF TimeInv, Alive
  <1>. QED
    BY <1>1, <1>2

LEMMA OwnCall ==
  ASSUME TypeOK, CalledInv, NEW p \in Requests, Act(p)
  PROVE  /\ p \in called' => pc'[p] \in Settlers \cup Ended
         /\ pc'[p] \in Settlers => p \in called'
         /\ p \in called' => p \in called \/ pc'[p] = "calling"
  <1> USE LabelFacts DEF TypeOK, CalledInv, Go, End, Settlers, Ended, vars, history
  <1>1. CASE Arrive(p) \/ Admit(p) \/ LockMonth(p)
    BY <1>1 DEF Arrive, Admit, LockMonth
  <1>2. CASE FindExisting(p) \/ CheckQuota(p) \/ Insert(p)
    BY <1>2 DEF FindExisting, CheckQuota, Expires, Insert
  <1>3. CASE BeginClaim(p) \/ Claim(p)
    BY <1>3 DEF BeginClaim, Claim
  <1>4. CASE CallProvider(p) \/ ProviderReturns(p)
    BY <1>4 DEF CallProvider, ProviderReturns
  <1>5. CASE SettleRow(p) \/ Settle(p)
    BY <1>5 DEF SettleRow, Settle, Outcome
  <1>6. CASE AbortDeadlock(p)
    BY <1>6 DEF AbortDeadlock
  <1>7. CASE Die(p)
    BY <1>7 DEF Die
  <1>. QED
    BY <1>1, <1>2, <1>3, <1>4, <1>5, <1>6, <1>7 DEF Act, Step

LEMMA ActCalled ==
  ASSUME TypeOK, CalledInv, NEW q \in Requests, Act(q)
  PROVE  CalledInv'
  <1> SUFFICES ASSUME NEW p \in Requests
               PROVE  /\ p \in called' => pc'[p] \in Settlers \cup Ended
                      /\ pc'[p] \in Settlers => p \in called'
    BY DEF CalledInv
  <1>1. CASE p = q
    BY <1>1, OwnCall
  <1>2. CASE p # q
    BY <1>2, StepOfOther DEF CalledInv
  <1>. QED
    BY <1>1, <1>2

\* Nobody else expires, claims again or settles the reservation of a running
\* request: it outlives the request, and its claim is one request's.
LEMMA OthersKeepOwnRow ==
  ASSUME TypeInv, ClaimInv, OwnInv, NEW q \in Requests, Act(q),
         NEW p \in created, p # q
  PROVE  OwnRow(p)'
  <1> DEFINE k == KeyOf(p)
  <1>1. p \in Requests /\ k \in Keys /\ row[k] \in Row /\ OwnRow(p)
    BY MonthOfType DEF TypeInv, TypeOK, OwnInv, OwnRow
  <1>2. /\ pc'[p] = pc[p] /\ clock'[p] = clock[p] /\ (p \in called' <=> p \in called)
        /\ KeyOf(p)' = k
    BY <1>1, StepOfOther DEF TypeInv, KeyOf
  <1> HIDE DEF k
  <1>3. SUFFICES /\ row'[k] # NoRow
                 /\ row'[k].expires = row[k].expires
                 /\ (Alive(p) \/ pc[p] = "delivered") /\ (Claimant(p) \/ pc[p] \in Settlers) =>
                      (row[k].status \in {"reserved", "finalized"} => row'[k].status = row[k].status)
    <2>1. pc[p] \in {"claimed"} \cup Settlers => Alive(p) /\ (Claimant(p) \/ pc[p] \in Settlers)
      BY LabelFacts DEF Alive, Settlers, Claimant
    <2>2. p \in called /\ pc[p] = "delivered" => Claimant(p)
      BY DEF Claimant
    <2>. QED
      BY <1>1, <1>2, <1>3, <2>1, <2>2 DEF OwnRow, Alive, k
  <1>4. CASE row'[k] = row[k]
    BY <1>1, <1>4 DEF OwnRow, k
  <1>5. CASE Expiry(q, k)
    <2>1. row[k].expires <= clock[q].tx /\ clock[q].tx <= now
      BY <1>5 DEF Expiry, TxStale, Stale, OwnInv, TimeInv
    <2>2. ~Alive(p)
      <3>1. Alive(p) => /\ row[k].expires >= clock[p].start + Ttl
                        /\ now <= clock[p].start + MaxDuration
        BY <1>1 DEF OwnRow, OwnInv, TimeInv, k
      <3>2. row[k].expires \in Nat /\ clock[q].tx \in Nat
        BY <1>1, ClockNumbers DEF Row, TypeInv
      <3>. QED
        BY <1>1, <2>1, <3>1, <3>2, ClockNumbers DEF TypeInv
    <2>3. row[k].status = "reserved" /\ row'[k] = [row[k] EXCEPT !.status = "expired"]
      BY <1>5 DEF Expiry
    <2>4. pc[p] = "delivered" /\ (Claimant(p) \/ pc[p] \in Settlers) => p \in called
      BY DEF Claimant, Settlers
    <2>5. p \in called /\ pc[p] = "delivered" => row[k].status = "finalized"
      BY <1>1 DEF OwnRow, k
    <2>. QED
      BY <1>1, <2>2, <2>3, <2>4, <2>5 DEF Row, NoRow
  <1>6. CASE Creation(q, k)
    BY <1>1, <1>6 DEF Creation, OwnRow, k
  <1>7. CASE Claiming(q, k)
    BY <1>7 DEF Claiming, Row, NoRow
  <1>8. CASE Settling(q, k)
    <2>1. q \in called /\ KeyOf(q) = k
      BY <1>8 DEF Settling, OwnInv, CalledInv, Settlers
    <2>2. ~Claimant(p)
      BY <1>1, <2>1 DEF ClaimInv, Claimant, k
    <2>3. pc[p] \in Settlers => Claimant(p)
      BY <1>1 DEF OwnInv, CalledInv, Claimant
    <2>. QED
      BY <1>8, <2>2, <2>3 DEF Settling, Row, NoRow
  <1>. QED
    BY <1>1, <1>4, <1>5, <1>6, <1>7, <1>8, RowChange DEF TypeInv

\* A request comes to have made its reservation by an insert.
LEMMA OwnInsert ==
  ASSUME TypeInv, OwnInv, NEW p \in Requests, Act(p), p \in created', p \notin created
  PROVE  OwnRow(p)'
  <1> USE DEF TypeInv, TypeOK, Act, Step, vars, history
  <1>1. Insert(p) /\ row[KeyOf(p)] = NoRow
    BY DEF Arrive, Admit, LockMonth, FindExisting, CheckQuota, Insert, BeginClaim, Claim,
           CallProvider, ProviderReturns, SettleRow, Settle, AbortDeadlock, Die
  <1>2. KeyOf(p) \in Keys /\ KeyOf(p)' = KeyOf(p)
    BY <1>1, MonthOfType DEF Insert, KeyOf
  <1>3. /\ pc'[p] = "claiming" /\ clock' = clock /\ called' = called
        /\ row'[KeyOf(p)].expires = clock[p].tx + Ttl
        /\ row'[KeyOf(p)].status = "reserved"
    BY <1>1, <1>2 DEF Insert, Go, ExpiredRows
  <1>4. clock[p].start <= clock[p].tx
    BY <1>1 DEF Insert, OwnInv, TimeInv, Admitting
  <1>5. clock[p].tx + Ttl >= clock[p].start + Ttl
    BY <1>4, ClockNumbers
  <1>. QED
    BY <1>2, <1>3, <1>5 DEF OwnRow, Alive, Admitting, Settlers, NoRow

\* A request goes on with the reservation it made.
LEMMA OwnGoesOn ==
  ASSUME TypeInv, ClaimInv, OwnInv, NEW p \in created, Act(p)
  PROVE  OwnRow(p)'
  <1> DEFINE k == KeyOf(p)
  <1>1. p \in Requests /\ k \in Keys /\ row[k] \in Row /\ OwnRow(p)
    BY MonthOfType DEF TypeInv, TypeOK, OwnInv, OwnRow
  <1>2. KeyOf(p)' = k
    BY <1>1, OwnLocks DEF TypeInv, KeyOf
  <1>3. /\ BeginClaim(p) \/ Claim(p) \/ CallProvider(p) \/ ProviderReturns(p)
           \/ SettleRow(p) \/ Settle(p) \/ AbortDeadlock(p) \/ Die(p)
    BY <1>1 DEF OwnRow, Admitting, Act, Step, Arrive, Admit, LockMonth, FindExisting, CheckQuota,
                Expires, Insert
  <1> USE LabelFacts DEF OwnRow, Alive, Admitting, Settlers
  <1> USE DEF TypeInv, TypeOK, Go, End, vars, ledger, history
  <1>4. CASE BeginClaim(p)
    BY <1>1, <1>2, <1>4 DEF BeginClaim, BeginTransaction, CalledInv, OwnInv, Ended
  <1>5. CASE Claim(p)
    <2>1. CASE Claimable(p)
      <3>1. row'[k] = [row[k] EXCEPT !.processing = TRUE] /\ row[k].status = "reserved"
        BY <1>1, <1>5, <2>1 DEF Claim, Claimable
      <3>2. row'[k] # NoRow /\ row'[k].expires = row[k].expires /\ row'[k].status = "reserved"
        BY <1>1, <3>1 DEF Row, NoRow
      <3>. QED
        BY <1>1, <1>2, <1>5, <2>1, <3>2 DEF Claim
    <2>2. CASE ~Claimable(p)
      BY <1>1, <1>2, <1>5, <2>2 DEF Claim, Ended
    <2>. QED
      BY <2>1, <2>2
  <1>6. CASE CallProvider(p) \/ ProviderReturns(p)
    BY <1>1, <1>2, <1>6 DEF CallProvider, ProviderReturns
  <1>7. CASE SettleRow(p)
    BY <1>1, <1>2, <1>7 DEF SettleRow
  <1>8. CASE Settle(p)
    <2>1. row'[k] = [row[k] EXCEPT !.status = IF p \in served THEN "finalized" ELSE "released"]
      BY <1>1, <1>8 DEF Settle
    <2>2. /\ row'[k] # NoRow
          /\ row'[k].expires = row[k].expires
          /\ row'[k].status = IF p \in served THEN "finalized" ELSE "released"
      BY <1>1, <2>1 DEF Row, NoRow
    <2>3. pc'[p] = Outcome(p)
      BY <1>1, <1>8 DEF Settle
    <2>4. Outcome(p) \in Ended /\ (Outcome(p) = "delivered" => p \in served)
      BY DEF Outcome, Ended
    <2>. QED
      BY <1>2, <2>2, <2>3, <2>4
  <1>9. CASE AbortDeadlock(p)
    BY <1>1, <1>2, <1>9 DEF AbortDeadlock
  <1>10. CASE Die(p)
    BY <1>1, <1>2, <1>10 DEF Die
  <1>. QED
    BY <1>3, <1>4, <1>5, <1>6, <1>7, <1>8, <1>9, <1>10

LEMMA NextOwn == TypeInv /\ ClaimInv /\ OwnInv /\ [Next]_vars => OwnInv'
  <1> SUFFICES ASSUME TypeInv, ClaimInv, OwnInv, [Next]_vars
               PROVE  OwnInv'
    OBVIOUS
  <1>1. ASSUME NEW q \in Requests, Act(q)
        PROVE  OwnInv'
    <2>1. TimeInv' /\ CalledInv'
      BY <1>1, ActTime, ActCalled DEF OwnInv, TypeInv
    <2>2. ASSUME NEW p \in created'
          PROVE  OwnRow(p)'
      <3>1. p \in Requests
        BY <1>1, NextTypeInv DEF TypeInv, TypeOK
      <3>2. CASE p # q
        <4>1. p \in created
          BY <1>1, <2>2, <3>1, <3>2, StepOfOther DEF TypeInv
        <4>. QED
          BY <1>1, <3>2, <4>1, OthersKeepOwnRow
      <3>3. CASE p = q
        BY <1>1, <2>2, <3>1, <3>3, OwnInsert, OwnGoesOn
      <3>. QED
        BY <3>2, <3>3
    <2>. QED
      BY <2>1, <2>2 DEF OwnInv
  <1>2. CASE Tick
    <2>1. UNCHANGED <<row, asked, pc, clock, called, created>>
      BY <1>2 DEF Tick, ledger, history
    <2>2. TimeInv'
      BY <1>2, <2>1, ClockNumbers DEF Tick, TimeInv, OwnInv, Alive, TypeInv
    <2>. QED
      BY <2>1, <2>2 DEF OwnInv, CalledInv, OwnRow, Alive, KeyOf
  <1>3. CASE ChangeAccount \/ UNCHANGED vars
    <2>1. UNCHANGED <<now, row, asked, pc, clock, called, created>>
      BY <1>3 DEF ChangeAccount, vars, ledger, history
    <2>. QED
      BY <2>1 DEF OwnInv, TimeInv, CalledInv, OwnRow, Alive, KeyOf
  <1>. QED
    BY <1>1, <1>2, <1>3, NextCases

\* The reservation that a request made covers its call to the end: no reserve of
\* another request expires it meanwhile, and what is delivered is billed.
THEOREM OwnReservationStays == Spec => []OwnReservationCovers
  <1>1. Init => ClaimInv
    BY DEF Init, ClaimInv, Claimant
  <1>2. Init => OwnInv
    BY LabelFacts, LifeAssumption
    DEF Init, OwnInv, TimeInv, CalledInv, Alive, NoClock, Admitting, Settlers
  <1>3. OwnInv /\ TypeInv => OwnReservationCovers
    BY LabelFacts
    DEF OwnInv, CalledInv, OwnRow, OwnReservationCovers, Alive, TypeInv, TypeOK
  <1>. QED
    BY <1>1, <1>2, <1>3, InitTypeInv, NextTypeInv, NextClaims, NextOwn, PTL DEF Spec

=============================================================================
