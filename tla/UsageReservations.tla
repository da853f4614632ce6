-------------------------- MODULE UsageReservations --------------------------
(***************************************************************************)
(* Metered Cloud processing of one account: every request reserves units   *)
(* of the monthly quota, claims its reservation, calls the provider, and   *)
(* settles (processCloudTransformation, processCloudTranscription and the  *)
(* SQL functions reserve_, claim_ and settle_pressay_usage).               *)
(*                                                                         *)
(* A database call is one transaction at READ COMMITTED.  Its effects      *)
(* appear at its commit; the row locks it takes before are state here,     *)
(* because the transactions of two requests wait for each other's.         *)
(*                                                                         *)
(* A request is one HTTP attempt.  A client that retries is another        *)
(* request with the same idempotency key.                                  *)
(***************************************************************************)
EXTENDS Integers, FiniteSets

CONSTANTS
  Requests,     \* HTTP attempts
  Keys,         \* idempotency keys
  Bodies,       \* what a request asks for: device, kind, units and content hash
  Kinds,        \* metered kinds: transcription seconds, transformations
  Months,       \* billing periods
  KindOf,       \* the kind of a body
  UnitsOf,      \* the units a body costs
  MaxUnits,     \* bound of those
  Checks,       \* the account checks of the reservation, the sandbox one included
  Sandbox,      \* that one: made by a query of its own, before the others
  Limit,        \* plan_limit of the pro tier, by kind
  MonthOf,      \* the billing period of an instant
  MaxTime,      \* bound of the clock
  Ttl,          \* life of a reservation
  MaxDuration,  \* life of a request: the platform kills it afterwards
  Nobody        \* the holder of a free lock

Time == 0 .. MaxTime

ASSUME SetsAssumption ==
  /\ IsFiniteSet(Keys)
  /\ Nobody \notin Requests
ASSUME ShapeAssumption ==
  /\ MaxUnits \in Nat
  /\ KindOf \in [Bodies -> Kinds]
  /\ UnitsOf \in [Bodies -> 1 .. MaxUnits]
  /\ Limit \in [Kinds -> Nat]
  /\ MaxTime \in Nat
  /\ MonthOf \in [Time -> Months]
\* 10 minutes (reserve_pressay_usage) against 60 seconds (vercel.json).
ASSUME LifeAssumption ==
  /\ Ttl \in Nat
  /\ MaxDuration \in Nat
  /\ MaxDuration < Ttl

VARIABLES
  now,        \* the database's clock
  denied,     \* the account checks that fail at this moment
  row,        \* usage_reservation, by idempotency key
  used,       \* usage_period.*_used, by month and kind
  reserved,   \* usage_period.*_reserved, by month and kind
  monthLock,  \* holder of the row lock of each usage_period
  rowLock,    \* holder of the row lock of each usage_reservation
  asked,      \* the key and the body of each request
  pc,         \* where each request stands
  clock,      \* a running request's arrival and the now() of its transaction
  created,    \* requests that inserted their reservation themselves
  called,     \* requests that reached the provider
  served      \* requests the provider answered with a result

ledger == <<row, used, reserved>>
locks == <<monthLock, rowLock>>
history == <<created, called, served>>
vars == <<now, denied, ledger, locks, asked, pc, clock, history>>

-----------------------------------------------------------------------------
(* Types *)

Settled == {"finalized", "released", "expired"}
NoRow == [status |-> "absent"]
Row == [status : {"reserved"} \cup Settled, month : Months, body : Bodies,
        expires : Nat, processing : BOOLEAN]
NoClock == [start |-> 0, tx |-> 0]

InTransaction == {"wantMonth", "expiring", "inserting", "claimWait", "wantMonthToSettle"}
Running == {"reserving", "claiming", "claimed", "calling", "settling"} \cup InTransaction
Ended == {"refused", "overQuota", "handled", "delivered", "unavailable", "dead"}
Labels == {"idle"} \cup Running \cup Ended

TypeOK ==
  /\ now \in Time
  /\ denied \in SUBSET Checks
  /\ row \in [Keys -> Row \cup {NoRow}]
  /\ used \in [Months -> [Kinds -> Nat]]
  /\ reserved \in [Months -> [Kinds -> Nat]]
  /\ monthLock \in [Months -> Requests \cup {Nobody}]
  /\ rowLock \in [Keys -> Requests \cup {Nobody}]
  /\ asked \in [Requests -> [key : Keys, body : Bodies]]
  /\ pc \in [Requests -> Labels]
  /\ clock \in [Requests -> [start : Time, tx : Time]]
  /\ created \in SUBSET Requests
  /\ called \in SUBSET Requests
  /\ served \in SUBSET Requests

-----------------------------------------------------------------------------
(* Helpers *)

KeyOf(p) == asked[p].key
BodyOf(p) == asked[p].body
\* The period a transaction works on: date_trunc('month', now()).
TxMonth(p) == MonthOf[clock[p].tx]

Alive(p) == pc[p] \in Running
Go(p, label) == pc' = [pc EXCEPT ![p] = label]
BeginTransaction(p) == clock' = [clock EXCEPT ![p].tx = now]

\* The units of a kind in the reservations of some keys, one token per unit.
Tokens(rows, keys, kind) ==
  {t \in keys \X (1 .. MaxUnits) :
     KindOf[rows[t[1]].body] = kind /\ t[2] <= UnitsOf[rows[t[1]].body]}
UnitsIn(rows, keys, kind) == Cardinality(Tokens(rows, keys, kind))

KeysWith(rows, status, m) == {k \in Keys : rows[k].status = status /\ rows[k].month = m}

\* greatest(0, n)
AtLeastZero(n) == IF n < 0 THEN 0 ELSE n

\* Faulty variant of Stale: rows expire one instant early.
StaleEarly(m, t) == {k \in KeysWith(row, "reserved", m) : row[k].expires <= t + 1}

\* The reservations a reserve of month m expires at instant t, claimed or not.
Stale(m, t) == {k \in KeysWith(row, "reserved", m) : row[k].expires <= t}

\* The locks of a transaction go with its commit or its rollback.
ReleaseLocks(p) ==
  /\ monthLock' = [m \in Months |-> IF monthLock[m] = p THEN Nobody ELSE monthLock[m]]
  /\ rowLock' = [k \in Keys |-> IF rowLock[k] = p THEN Nobody ELSE rowLock[k]]

\* A request ends: whatever it held in memory or locked is gone.
End(p, outcome) ==
  /\ Go(p, outcome)
  /\ clock' = [clock EXCEPT ![p] = NoClock]
  /\ ReleaseLocks(p)

-----------------------------------------------------------------------------
(* Initial states *)

Init ==
  /\ now = 0
  /\ denied = {}
  /\ row = [k \in Keys |-> NoRow]
  /\ used = [m \in Months |-> [kd \in Kinds |-> 0]]
  /\ reserved = [m \in Months |-> [kd \in Kinds |-> 0]]
  /\ monthLock = [m \in Months |-> Nobody]
  /\ rowLock = [k \in Keys |-> Nobody]
  /\ asked \in [Requests -> [key : Keys, body : Bodies]]
  /\ pc = [p \in Requests |-> "idle"]
  /\ clock = [p \in Requests |-> NoClock]
  /\ created = {}
  /\ called = {}
  /\ served = {}

-----------------------------------------------------------------------------
(* reserveUsage *)

\* The request arrives; its first query looks for a sandbox entitlement.
Arrive(p) ==
  /\ pc[p] = "idle"
  /\ \/ /\ Sandbox \in denied
        /\ End(p, "refused")
     \/ /\ Sandbox \notin denied
        /\ Go(p, "reserving")
        /\ clock' = [clock EXCEPT ![p].start = now]
        /\ UNCHANGED locks
  /\ UNCHANGED <<now, denied, ledger, asked, history>>

\* The account, its entitlement and the device are read before the
\* transaction waits for any lock, and never again.
Admit(p) ==
  /\ pc[p] = "reserving"
  /\ \/ /\ denied \ {Sandbox} # {}
        /\ End(p, "refused")
     \/ /\ denied \ {Sandbox} = {}
        /\ Go(p, "wantMonth")
        /\ BeginTransaction(p)
        /\ UNCHANGED locks
  /\ UNCHANGED <<now, denied, ledger, asked, history>>

LockMonth(p) ==
  /\ pc[p] = "wantMonth"
  /\ monthLock[TxMonth(p)] = Nobody
  /\ monthLock' = [monthLock EXCEPT ![TxMonth(p)] = p]
  /\ Go(p, "expiring")
  /\ UNCHANGED <<now, denied, ledger, rowLock, asked, clock, history>>

TxStale(p) == Stale(TxMonth(p), clock[p].tx)

\* The rows the transaction expires, once it could lock them all.
Expires(p) ==
  /\ pc[p] = "expiring"
  /\ \A k \in TxStale(p) : rowLock[k] = Nobody

ExpiredRows(p) ==
  [k \in Keys |-> IF k \in TxStale(p) THEN [row[k] EXCEPT !.status = "expired"] ELSE row[k]]
\* Faulty variant of StillReserved: the units of the expired rows stay reserved.
StillReservedAll(p, kd) == reserved[TxMonth(p)][kd]
\* The reserved units of the transaction's month without those of expired rows.
StillReserved(p, kd) ==
  AtLeastZero(reserved[TxMonth(p)][kd] - UnitsIn(row, TxStale(p), kd))

\* Faulty variant of OverQuota: reserved units are not counted.
OverQuotaUsedOnly(p) ==
  LET kd == KindOf[BodyOf(p)]
  IN  used[TxMonth(p)][kd] + UnitsOf[BodyOf(p)] > Limit[kd]

OverQuota(p) ==
  LET kd == KindOf[BodyOf(p)]
  IN  used[TxMonth(p)][kd] + StillReserved(p, kd) + UnitsOf[BodyOf(p)] > Limit[kd]

\* The key is known: the same request gets the reservation as it is now, another
\* one an idempotency_conflict, which rolls the expiry back.
FindExisting(p) ==
  /\ Expires(p)
  /\ row[KeyOf(p)] # NoRow
  /\ \/ /\ row[KeyOf(p)].body # BodyOf(p)
        /\ End(p, "refused")
        /\ UNCHANGED ledger
     \/ /\ row[KeyOf(p)].body = BodyOf(p)
        /\ row' = ExpiredRows(p)
        /\ reserved' = [reserved EXCEPT ![TxMonth(p)] = [kd \in Kinds |-> StillReserved(p, kd)]]
        /\ Go(p, "claiming")
        /\ ReleaseLocks(p)
        /\ UNCHANGED <<used, clock>>
  /\ UNCHANGED <<now, denied, asked, history>>

\* usage_quota_exceeded rolls the expiry back too.
CheckQuota(p) ==
  /\ Expires(p)
  /\ row[KeyOf(p)] = NoRow
  /\ \/ /\ OverQuota(p)
        /\ End(p, "overQuota")
     \/ /\ ~OverQuota(p)
        /\ Go(p, "inserting")
        /\ rowLock' = [k \in Keys |-> IF k \in TxStale(p) THEN p ELSE rowLock[k]]
        /\ UNCHANGED <<monthLock, clock>>
  /\ UNCHANGED <<now, denied, ledger, asked, history>>

\* The insert meets the unique key when a transaction of another month has
\* just committed it: the lock of the period does not order the two.
Insert(p) ==
  /\ pc[p] = "inserting"
  /\ \/ /\ row[KeyOf(p)] # NoRow
        /\ End(p, "dead")
        /\ UNCHANGED <<ledger, created>>
     \/ /\ row[KeyOf(p)] = NoRow
        /\ row' = [ExpiredRows(p) EXCEPT ![KeyOf(p)] =
                     [status |-> "reserved", month |-> TxMonth(p), body |-> BodyOf(p),
                      expires |-> clock[p].tx + Ttl, processing |-> FALSE]]
        /\ reserved' = [reserved EXCEPT ![TxMonth(p)] =
                          [kd \in Kinds |-> StillReserved(p, kd)
                             + IF kd = KindOf[BodyOf(p)] THEN UnitsOf[BodyOf(p)] ELSE 0]]
        /\ created' = created \cup {p}
        /\ Go(p, "claiming")
        /\ ReleaseLocks(p)
        /\ UNCHANGED <<used, clock>>
  /\ UNCHANGED <<now, denied, asked, called, served>>

-----------------------------------------------------------------------------
(* claimUsage and the provider *)

BeginClaim(p) ==
  /\ pc[p] = "claiming"
  /\ Go(p, "claimWait")
  /\ BeginTransaction(p)
  /\ UNCHANGED <<now, denied, ledger, locks, asked, history>>

\* Faulty variant of Claimable: a claimed reservation can be claimed again.
ClaimableAgain(p) ==
  /\ row[KeyOf(p)].status = "reserved"
  /\ row[KeyOf(p)].expires > clock[p].tx

Claimable(p) ==
  /\ row[KeyOf(p)].status = "reserved"
  /\ ~row[KeyOf(p)].processing
  /\ row[KeyOf(p)].expires > clock[p].tx

\* One UPDATE: it waits for the row's lock and reads the row again.
Claim(p) ==
  /\ pc[p] = "claimWait"
  /\ rowLock[KeyOf(p)] = Nobody
  /\ \/ /\ Claimable(p)
        /\ row' = [row EXCEPT ![KeyOf(p)].processing = TRUE]
        /\ Go(p, "claimed")
        /\ UNCHANGED <<locks, clock>>
     \/ /\ ~Claimable(p)
        /\ End(p, "handled")
        /\ UNCHANGED row
  /\ UNCHANGED <<now, denied, used, reserved, asked, history>>

CallProvider(p) ==
  /\ pc[p] = "claimed"
  /\ Go(p, "calling")
  /\ called' = called \cup {p}
  /\ UNCHANGED <<now, denied, ledger, locks, asked, clock, created, served>>

\* The provider answers, or fails or times out.
ProviderReturns(p) ==
  /\ pc[p] = "calling"
  /\ Go(p, "settling")
  /\ served' \in {served, served \cup {p}}
  /\ UNCHANGED <<now, denied, ledger, locks, asked, clock, created, called>>

-----------------------------------------------------------------------------
(* settleUsage *)

Outcome(p) == IF p \in served THEN "delivered" ELSE "unavailable"

\* Faulty variant of SettleRow: whatever became of the reservation is not looked at.
SettleRowUnchecked(p) ==
  /\ pc[p] = "settling"
  /\ rowLock[KeyOf(p)] = Nobody
  /\ rowLock' = [rowLock EXCEPT ![KeyOf(p)] = p]
  /\ Go(p, "wantMonthToSettle")
  /\ UNCHANGED <<now, denied, ledger, monthLock, asked, clock, history>>

\* The row is locked before the period; a row that is no longer reserved ends
\* the settlement, and the result is still returned.
SettleRow(p) ==
  /\ pc[p] = "settling"
  /\ rowLock[KeyOf(p)] = Nobody
  /\ \/ /\ row[KeyOf(p)].status # "reserved"
        /\ End(p, Outcome(p))
     \/ /\ row[KeyOf(p)].status = "reserved"
        /\ rowLock' = [rowLock EXCEPT ![KeyOf(p)] = p]
        /\ Go(p, "wantMonthToSettle")
        /\ UNCHANGED <<monthLock, clock>>
  /\ UNCHANGED <<now, denied, ledger, asked, history>>

\* Faulty variant of Settle: the counters of the current month are adjusted.
SettleThisMonth(p) ==
  LET k == KeyOf(p)
      m == MonthOf[now]
      kd == KindOf[row[k].body]
      n == UnitsOf[row[k].body]
  IN  /\ pc[p] = "wantMonthToSettle"
      /\ monthLock[m] = Nobody
      /\ reserved' = [reserved EXCEPT ![m][kd] = AtLeastZero(@ - n)]
      /\ used' = [used EXCEPT ![m][kd] = IF p \in served THEN @ + n ELSE @]
      /\ row' = [row EXCEPT ![k].status = IF p \in served THEN "finalized" ELSE "released"]
      /\ End(p, Outcome(p))
      /\ UNCHANGED <<now, denied, asked, history>>

\* Faulty variant of Settle: the row gets the answer of the request as its status.
SettleOutcome(p) ==
  LET k == KeyOf(p)
      m == row[k].month
      kd == KindOf[row[k].body]
      n == UnitsOf[row[k].body]
  IN  /\ pc[p] = "wantMonthToSettle"
      /\ monthLock[m] = Nobody
      /\ reserved' = [reserved EXCEPT ![m][kd] = AtLeastZero(@ - n)]
      /\ used' = [used EXCEPT ![m][kd] = IF p \in served THEN @ + n ELSE @]
      /\ row' = [row EXCEPT ![k].status = Outcome(p)]
      /\ End(p, Outcome(p))
      /\ UNCHANGED <<now, denied, asked, history>>

Settle(p) ==
  LET k == KeyOf(p)
      m == row[k].month
      kd == KindOf[row[k].body]
      n == UnitsOf[row[k].body]
  IN  /\ pc[p] = "wantMonthToSettle"
      /\ monthLock[m] = Nobody
      /\ reserved' = [reserved EXCEPT ![m][kd] = AtLeastZero(@ - n)]
      /\ used' = [used EXCEPT ![m][kd] = IF p \in served THEN @ + n ELSE @]
      /\ row' = [row EXCEPT ![k].status = IF p \in served THEN "finalized" ELSE "released"]
      /\ End(p, Outcome(p))
      /\ UNCHANGED <<now, denied, asked, history>>

-----------------------------------------------------------------------------
(* Everything else *)

\* A reserve that holds a period and waits for a row, a settlement that holds
\* the row and waits for the period.
LockCycle(p, q) ==
  /\ pc[p] = "expiring"
  /\ pc[q] = "wantMonthToSettle"
  /\ KeyOf(q) \in TxStale(p)
  /\ rowLock[KeyOf(q)] = q

\* Faulty variant of AbortDeadlock: nobody looks for deadlocks.
NoDeadlockDetector(p) == FALSE

\* Postgres aborts one transaction of a cycle: the query throws, and the
\* request ends without a result (a failed release is swallowed).
AbortDeadlock(p) ==
  /\ \E q \in Requests : LockCycle(p, q) \/ LockCycle(q, p)
  /\ End(p, IF p \in called \ served THEN "unavailable" ELSE "dead")
  /\ UNCHANGED <<now, denied, ledger, asked, history>>

\* A query throws or the platform kills the function: an open transaction
\* is rolled back.  Losing the answer of a commit is dying just after it.
Die(p) ==
  /\ Alive(p)
  /\ End(p, "dead")
  /\ UNCHANGED <<now, denied, ledger, asked, history>>

\* Nothing outlives MaxDuration.
Tick ==
  /\ now < MaxTime
  /\ \A p \in Requests : Alive(p) => now < clock[p].start + MaxDuration
  /\ now' = now + 1
  /\ UNCHANGED <<denied, ledger, locks, asked, pc, clock, history>>

\* Billing, an administrator or the user changes what the checks will read.
ChangeAccount ==
  /\ denied' \in (SUBSET Checks) \ {denied}
  /\ UNCHANGED <<now, ledger, locks, asked, pc, clock, history>>

\* What a request does by itself once it has arrived.
Step(p) ==
  \/ Admit(p) \/ LockMonth(p) \/ FindExisting(p) \/ CheckQuota(p) \/ Insert(p)
  \/ BeginClaim(p) \/ Claim(p) \/ CallProvider(p) \/ ProviderReturns(p)
  \/ SettleRow(p) \/ Settle(p) \/ AbortDeadlock(p)

Next ==
  \/ \E p \in Requests : Arrive(p) \/ Step(p) \/ Die(p)
  \/ Tick
  \/ ChangeAccount

Spec == Init /\ [][Next]_vars
\* A running function is scheduled, queries return and Postgres breaks deadlocks;
\* nobody has to send a request, and no function has to be killed.
FairSpec == Spec /\ \A p \in Requests : WF_vars(Step(p))

-----------------------------------------------------------------------------
(* Properties *)

Counted(status, m, kd) == UnitsIn(row, KeysWith(row, status, m), kd)

\* The counters of usage_period, which reserve, expiry and settlement adjust by
\* differences under greatest(0, ...), are the sums over the reservations: no
\* interleaving loses or repeats an adjustment, and no clamp ever hides one.
LedgerBalanced ==
  \A m \in Months, kd \in Kinds :
    /\ reserved[m][kd] = Counted("reserved", m, kd)
    /\ used[m][kd] = Counted("finalized", m, kd)

\* Concurrent requests never overspend: what a month has finalized and what it
\* holds in reserve fit the plan's limit together.
WithinQuota ==
  \A m \in Months, kd \in Kinds :
    Counted("finalized", m, kd) + Counted("reserved", m, kd) <= Limit[kd]

\* "A completed or in-flight key is never sent to the provider twice": whatever
\* retries, crashes and expiries happen around the claim.
ProviderCalledOnce ==
  \A p, q \in called : KeyOf(p) = KeyOf(q) => p = q

\* A request that calls the provider on the reservation it made itself keeps it
\* for as long as it runs: no reserve expires the units under the call, and a
\* delivered result is billed.
OwnReservationCovers ==
  \A p \in created \cap called :
    /\ Alive(p) => row[KeyOf(p)].status = "reserved"
    /\ pc[p] = "delivered" => row[KeyOf(p)].status = "finalized"

\* usage_quota_exceeded is never caused by units of a dead request: the refused
\* units exceed the limit on top of what is billed and of what is still alive.
RefusalIsHonest ==
  [][\A p \in Requests :
       pc[p] # "overQuota" /\ pc'[p] = "overQuota" =>
         LET m == TxMonth(p)
             kd == KindOf[BodyOf(p)]
             live == {k \in KeysWith(row, "reserved", m) : row[k].expires > clock[p].tx}
         IN  Counted("finalized", m, kd) + UnitsIn(row, live, kd) + UnitsOf[BodyOf(p)]
               > Limit[kd]]_vars

\* Requests that wait for each other's row locks all end: the deadlock of the
\* opposite lock orders of reserve and settle is resolved, and nobody is left.
EveryRequestEnds ==
  \A p \in Requests : pc[p] \in Running ~> pc[p] \in Ended

\* The rows and the provider calls, as the contract sees them.
PhaseOf(status) ==
  CASE status = "reserved" -> "held" [] status = "finalized" -> "billed" [] OTHER -> "void"
GrantOf(r) ==
  IF r = NoRow
    THEN [phase |-> "none"]
    ELSE [phase |-> PhaseOf(r.status), pot |-> <<r.month, KindOf[r.body]>>,
          units |-> UnitsOf[r.body]]

Contract == INSTANCE QuotaContract WITH
  Pots <- Months \X Kinds,
  Cap <- [pot \in Months \X Kinds |-> Limit[pot[2]]],
  grant <- [k \in Keys |-> GrantOf(row[k])],
  calls <- [k \in Keys |-> Cardinality({p \in called : KeyOf(p) = k})]

\* The reservation tables implement the contract: no step of any request, crash
\* or expiry lets units be granted beyond the cap, a key be sent twice to the
\* provider, an uncalled key be billed or a settled one change.
ImplementsContract == Contract!Spec

\* What docs/ARCHITECTURE.md says of a billable operation once the provider has
\* answered: the reservation is then finalized or released.
DeliveredIsFinalized ==
  \A p \in Requests : pc[p] = "delivered" => row[KeyOf(p)].status = "finalized"

=============================================================================
