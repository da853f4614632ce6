--------------------------- MODULE UsageLedgerProofs ---------------------------
(* The counters and the quota of UsageReservations, for every value of its    *)
(* constants: sums over reservations are cardinalities of sets of tokens.     *)
EXTENDS UsageReservationsProofs

-----------------------------------------------------------------------------
(* Counting units *)

LEMMA UnitsSplit ==
  ASSUME NEW rows, NEW S, S \subseteq Keys, NEW T, T \subseteq Keys, S \cap T = {}, NEW kd
  PROVE  UnitsIn(rows, S \cup T, kd) = UnitsIn(rows, S, kd) + UnitsIn(rows, T, kd)
  <1>1. Tokens(rows, S \cup T, kd) = Tokens(rows, S, kd) \cup Tokens(rows, T, kd)
    BY DEF Tokens
  <1>2. Tokens(rows, S, kd) \cap Tokens(rows, T, kd) = {}
    BY DEF Tokens
  <1>3. IsFiniteSet(Tokens(rows, S, kd)) /\ IsFiniteSet(Tokens(rows, T, kd))
    BY TokensFinite
  <1>4. Cardinality(Tokens(rows, S, kd)) \in Nat /\ Cardinality(Tokens(rows, T, kd)) \in Nat
    BY <1>3, FS_CardinalityType
  <1>5. Cardinality(Tokens(rows, S, kd) \cup Tokens(rows, T, kd))
          = Cardinality(Tokens(rows, S, kd)) + Cardinality(Tokens(rows, T, kd)) - Cardinality({})
    BY <1>2, <1>3, FS_Union
  <1>6. Cardinality({}) = 0
    BY FS_EmptySet
  <1>7. UnitsIn(rows, S \cup T, kd)
          = Cardinality(Tokens(rows, S, kd) \cup Tokens(rows, T, kd))
    BY <1>1, Zenon DEF UnitsIn
  <1> DEFINE a == Cardinality(Tokens(rows, S, kd))
             b == Cardinality(Tokens(rows, T, kd))
             c == Cardinality({})
             u == UnitsIn(rows, S \cup T, kd)
  <1>8. u = a + b - c
    BY <1>5, <1>7, Zenon
  <1>9. a \in Nat /\ b \in Nat /\ c = 0
    BY <1>4, <1>6
  <1>10. UnitsIn(rows, S, kd) = a /\ UnitsIn(rows, T, kd) = b
    BY DEF UnitsIn
  <1> HIDE DEF a, b, c, u
  <1>11. u = a + b
    BY <1>8, <1>9
  <1>. QED
    BY <1>10, <1>11, Zenon DEF u

\* Only the bodies of the counted rows matter.
LEMMA UnitsSame ==
  ASSUME NEW rows, NEW rows2, NEW S, \A k \in S : rows2[k].body = rows[k].body, NEW kd
  PROVE  UnitsIn(rows2, S, kd) = UnitsIn(rows, S, kd)
  <1>1. Tokens(rows2, S, kd) = Tokens(rows, S, kd)
    BY DEF Tokens
  <1>. QED
    BY <1>1 DEF UnitsIn

LEMMA UnitsNone ==
  ASSUME NEW rows, NEW kd
  PROVE  UnitsIn(rows, {}, kd) = 0
  <1>1. Tokens(rows, {}, kd) = {}
    BY DEF Tokens
  <1>. QED
    BY <1>1, FS_EmptySet DEF UnitsIn

LEMMA UnitsOne ==
  ASSUME NEW rows, NEW k \in Keys, rows[k].body \in Bodies, NEW kd
  PROVE  UnitsIn(rows, {k}, kd)
           = IF kd = KindOf[rows[k].body] THEN UnitsOf[rows[k].body] ELSE 0
  <1> DEFINE n == UnitsOf[rows[k].body]
  <1>1. n \in 1 .. MaxUnits /\ MaxUnits \in Nat
    BY ShapeAssumption
  <1>2. CASE kd = KindOf[rows[k].body]
    <2>1. Tokens(rows, {k}, kd) = {k} \X (1 .. n)
      BY <1>1, <1>2 DEF Tokens
    <2>2. IsFiniteSet({k}) /\ Cardinality({k}) = 1
      BY FS_Singleton
    <2>3. 1 \in Int /\ n \in Int /\ ~(1 > n) /\ n - 1 + 1 = n
      BY <1>1
    <2> HIDE DEF n
    <2>4. IsFiniteSet(1 .. n) /\ Cardinality(1 .. n) = n
      BY <2>3, FS_Interval
    <2>5. Cardinality({k} \X (1 .. n)) = Cardinality({k}) * Cardinality(1 .. n)
      BY <2>2, <2>4, FS_Product, Zenon
    <2>6. Cardinality({k} \X (1 .. n)) = n
      <3>1. 1 * n = n
        BY <2>3
      <3>. QED
        BY <2>2, <2>4, <2>5, <3>1, Zenon
    <2>7. UnitsIn(rows, {k}, kd) = n
      BY <2>1, <2>6, Zenon DEF UnitsIn
    <2>. QED
      BY <1>2, <2>7 DEF n
  <1>3. CASE kd # KindOf[rows[k].body]
    <2>1. Tokens(rows, {k}, kd) = {}
      BY <1>3 DEF Tokens
    <2>. QED
      BY <1>3, <2>1, FS_EmptySet DEF UnitsIn
  <1>. QED
    BY <1>2, <1>3

LEMMA UnitsNat ==
  ASSUME NEW rows, NEW S, S \subseteq Keys, NEW kd
  PROVE  UnitsIn(rows, S, kd) \in Nat
  BY TokensFinite

\* Taking some keys out of a counted set.
LEMMA UnitsWithout ==
  ASSUME NEW rows, NEW S, S \subseteq Keys, NEW T, T \subseteq S, NEW kd
  PROVE  UnitsIn(rows, S \ T, kd) = UnitsIn(rows, S, kd) - UnitsIn(rows, T, kd)
  <1>1. UnitsIn(rows, (S \ T) \cup T, kd) = UnitsIn(rows, S \ T, kd) + UnitsIn(rows, T, kd)
    BY UnitsSplit
  <1>2. (S \ T) \cup T = S
    OBVIOUS
  <1>3. UnitsIn(rows, S \ T, kd) \in Nat /\ UnitsIn(rows, T, kd) \in Nat
    BY UnitsNat
  <1>4. UnitsIn(rows, S, kd) = UnitsIn(rows, S \ T, kd) + UnitsIn(rows, T, kd)
    BY <1>1, <1>2, Zenon
  <1>. QED
    BY <1>3, <1>4

-----------------------------------------------------------------------------
(* What the steps do to the sums *)

Sum(rows, status, m, kd) == UnitsIn(rows, KeysWith(rows, status, m), kd)

\* The rows with one of them replaced.
Put(rows, k, r) == [rows EXCEPT ![k] = r]
PutStatus(rows, k, status) == [rows EXCEPT ![k].status = status]

\* A claim, or anything else that keeps status, month and body.
LEMMA SumSame ==
  ASSUME NEW rows, NEW rows2, NEW status, NEW m, NEW kd,
         \A k \in Keys : /\ rows2[k].status = rows[k].status
                         /\ rows[k].status = status =>
                              rows2[k].month = rows[k].month /\ rows2[k].body = rows[k].body
  PROVE  Sum(rows2, status, m, kd) = Sum(rows, status, m, kd)
  <1>1. KeysWith(rows2, status, m) = KeysWith(rows, status, m)
    BY DEF KeysWith
  <1>2. \A k \in KeysWith(rows, status, m) : rows2[k].body = rows[k].body
    BY DEF KeysWith
  <1>. QED
    BY <1>1, <1>2, UnitsSame DEF Sum

\* A new reservation.
LEMMA SumAdd ==
  ASSUME NEW rows \in [Keys -> Row \cup {NoRow}], NEW k \in Keys, rows[k] = NoRow,
         NEW r \in Row, r.status = "reserved", NEW m, NEW kd
  PROVE  /\ Sum(Put(rows, k, r), "finalized", m, kd) = Sum(rows, "finalized", m, kd)
         /\ Sum(Put(rows, k, r), "reserved", m, kd) = Sum(rows, "reserved", m, kd)
              + IF m = r.month /\ kd = KindOf[r.body] THEN UnitsOf[r.body] ELSE 0
  <1> DEFINE rows2 == Put(rows, k, r)
             before == KeysWith(rows, "reserved", m)
  <1>1. rows2[k] = r /\ \A j \in Keys \ {k} : rows2[j] = rows[j]
    BY DEF Put
  <1>2. k \notin before /\ k \notin KeysWith(rows, "finalized", m)
    BY DEF KeysWith, NoRow
  <1>3. r.body \in Bodies
    BY DEF Row
  <1> HIDE DEF rows2
  <1>4. Sum(rows2, "finalized", m, kd) = Sum(rows, "finalized", m, kd)
    <2>1. KeysWith(rows2, "finalized", m) = KeysWith(rows, "finalized", m)
      BY <1>1, <1>2 DEF KeysWith
    <2>2. \A j \in KeysWith(rows, "finalized", m) : rows2[j].body = rows[j].body
      BY <1>1, <1>2 DEF KeysWith
    <2>. QED
      BY <2>1, <2>2, UnitsSame DEF Sum
  <1>5. UnitsIn(rows2, before, kd) = Sum(rows, "reserved", m, kd)
    <2>1. \A j \in before : rows2[j].body = rows[j].body
      BY <1>1, <1>2 DEF KeysWith
    <2>. QED
      BY <2>1, UnitsSame DEF Sum
  <1>6. UnitsIn(rows2, before, kd) \in Nat
    BY UnitsNat DEF KeysWith
  <1>7. CASE m = r.month
    <2>1. KeysWith(rows2, "reserved", m) = before \cup {k}
      BY <1>1, <1>7 DEF KeysWith
    <2>2. UnitsIn(rows2, before \cup {k}, kd) = UnitsIn(rows2, before, kd) + UnitsIn(rows2, {k}, kd)
      <3>1. before \subseteq Keys /\ {k} \subseteq Keys /\ before \cap {k} = {}
        BY <1>2 DEF KeysWith
      <3> HIDE DEF before
      <3>. QED
        BY <3>1, UnitsSplit
    <2>3. UnitsIn(rows2, {k}, kd) = IF kd = KindOf[r.body] THEN UnitsOf[r.body] ELSE 0
      BY <1>1, <1>3, UnitsOne
    <2>. QED
      BY <1>4, <1>5, <1>7, <2>1, <2>2, <2>3 DEF Sum, rows2
  <1>8. CASE m # r.month
    <2>1. KeysWith(rows2, "reserved", m) = before
      BY <1>1, <1>2, <1>8 DEF KeysWith
    <2>. QED
      BY <1>4, <1>5, <1>6, <1>8, <2>1 DEF Sum, rows2
  <1>. QED
    BY <1>7, <1>8

\* A settlement.
LEMMA SumMove ==
  ASSUME NEW rows \in [Keys -> Row \cup {NoRow}], NEW k \in Keys, rows[k] \in Row,
         rows[k].status = "reserved", NEW status \in {"finalized", "released"}, NEW m, NEW kd,
         NEW n, n = IF m = rows[k].month /\ kd = KindOf[rows[k].body]
                      THEN UnitsOf[rows[k].body] ELSE 0
  PROVE  /\ Sum(PutStatus(rows, k, status), "reserved", m, kd)
              = Sum(rows, "reserved", m, kd) - n
         /\ Sum(PutStatus(rows, k, status), "finalized", m, kd)
              = Sum(rows, "finalized", m, kd) + IF status = "finalized" THEN n ELSE 0
  <1> DEFINE rows2 == PutStatus(rows, k, status)
             held == KeysWith(rows, "reserved", m)
             billed == KeysWith(rows, "finalized", m)
  <1>1. /\ rows2[k].status = status
        /\ rows2[k].month = rows[k].month
        /\ rows2[k].body = rows[k].body
        /\ rows[k].body \in Bodies
        /\ \A j \in Keys \ {k} : rows2[j] = rows[j]
    BY DEF Row, PutStatus
  <1> HIDE DEF rows2
  <1>2. k \notin billed /\ held \subseteq Keys /\ billed \subseteq Keys
    BY DEF KeysWith
  <1>3. ASSUME NEW S, S \subseteq Keys
        PROVE  UnitsIn(rows2, S, kd) = UnitsIn(rows, S, kd)
    BY <1>1, <1>3, UnitsSame
  <1>4. UnitsIn(rows, {k}, kd) = IF kd = KindOf[rows[k].body] THEN UnitsOf[rows[k].body] ELSE 0
    BY <1>1, UnitsOne
  <1>5. UnitsIn(rows, held, kd) \in Nat /\ UnitsIn(rows, billed, kd) \in Nat
    BY <1>2, UnitsNat
  <1>6. Sum(rows2, "reserved", m, kd) = UnitsIn(rows, held, kd) - n
    <2>1. CASE m = rows[k].month
      <3>1. KeysWith(rows2, "reserved", m) = held \ {k}
        BY <1>1 DEF KeysWith
      <3>2. {k} \subseteq held
        BY <2>1 DEF KeysWith
      <3> HIDE DEF held
      <3>3. Sum(rows2, "reserved", m, kd) = UnitsIn(rows2, held \ {k}, kd)
        BY <3>1, Zenon DEF Sum
      <3>4. UnitsIn(rows2, held \ {k}, kd) = UnitsIn(rows, held \ {k}, kd)
        BY <1>2, <1>3
      <3>5. UnitsIn(rows, held \ {k}, kd) = UnitsIn(rows, held, kd) - UnitsIn(rows, {k}, kd)
        BY <1>2, <3>2, UnitsWithout
      <3>. QED
        BY <1>4, <2>1, <3>3, <3>4, <3>5
    <2>2. CASE m # rows[k].month
      <3>1. KeysWith(rows2, "reserved", m) = held
        BY <1>1, <2>2 DEF KeysWith
      <3> HIDE DEF held
      <3>2. Sum(rows2, "reserved", m, kd) = UnitsIn(rows2, held, kd)
        BY <3>1, Zenon DEF Sum
      <3>. QED
        BY <1>2, <1>3, <1>5, <2>2, <3>2
    <2>. QED
      BY <2>1, <2>2
  <1>7. Sum(rows2, "finalized", m, kd)
          = UnitsIn(rows, billed, kd) + IF status = "finalized" THEN n ELSE 0
    <2>1. CASE m = rows[k].month /\ status = "finalized"
      <3>1. KeysWith(rows2, "finalized", m) = billed \cup {k}
        BY <1>1, <2>1 DEF KeysWith
      <3> HIDE DEF billed
      <3>2. Sum(rows2, "finalized", m, kd) = UnitsIn(rows2, billed \cup {k}, kd)
        BY <3>1, Zenon DEF Sum
      <3>3. UnitsIn(rows2, billed \cup {k}, kd) = UnitsIn(rows, billed \cup {k}, kd)
        BY <1>2, <1>3
      <3>4. UnitsIn(rows, billed \cup {k}, kd) = UnitsIn(rows, billed, kd) + UnitsIn(rows, {k}, kd)
        BY <1>2, UnitsSplit
      <3>. QED
        BY <1>4, <2>1, <3>2, <3>3, <3>4
    <2>2. CASE ~(m = rows[k].month /\ status = "finalized")
      <3>1. KeysWith(rows2, "finalized", m) = billed
        BY <1>1, <1>2, <2>2 DEF KeysWith
      <3> HIDE DEF billed
      <3>2. Sum(rows2, "finalized", m, kd) = UnitsIn(rows2, billed, kd)
        BY <3>1, Zenon DEF Sum
      <3>. QED
        BY <1>2, <1>3, <1>5, <2>2, <3>2
    <2>. QED
      BY <2>1, <2>2
  <1>. QED
    BY <1>6, <1>7 DEF Sum, rows2

\* An expiry: the sum of the transaction's month loses the stale rows.
LEMMA SumExpire ==
  ASSUME TypeOK, NEW q \in Requests, NEW m, NEW kd
  PROVE  /\ Sum(ExpiredRows(q), "finalized", m, kd) = Sum(row, "finalized", m, kd)
         /\ Sum(ExpiredRows(q), "reserved", m, kd) = Sum(row, "reserved", m, kd)
              - IF m = TxMonth(q) THEN UnitsIn(row, TxStale(q), kd) ELSE 0
  <1> DEFINE rows2 == ExpiredRows(q)
             S == TxStale(q)
             held == KeysWith(row, "reserved", m)
             billed == KeysWith(row, "finalized", m)
  <1>1. \A k \in Keys :
          /\ k \in S => /\ row[k].status = "reserved" /\ row[k].month = TxMonth(q)
                        /\ rows2[k].status = "expired"
          /\ k \notin S => rows2[k] = row[k]
          /\ rows2[k].body = row[k].body
    BY ExpiredRowsFacts
  <1>2. S \subseteq Keys /\ held \subseteq Keys /\ billed \subseteq Keys
    BY DEF TxStale, Stale, KeysWith
  <1> HIDE DEF rows2, S
  <1>3. ASSUME NEW T, T \subseteq Keys
        PROVE  UnitsIn(rows2, T, kd) = UnitsIn(row, T, kd)
    BY <1>1, <1>3, UnitsSame
  <1>4. Sum(rows2, "finalized", m, kd) = Sum(row, "finalized", m, kd)
    <2>1. KeysWith(rows2, "finalized", m) = billed
      BY <1>1 DEF KeysWith
    <2> HIDE DEF billed
    <2>2. Sum(rows2, "finalized", m, kd) = UnitsIn(rows2, billed, kd)
      BY <2>1, Zenon DEF Sum
    <2>. QED
      BY <1>2, <1>3, <2>2 DEF Sum, billed
  <1>5. CASE m = TxMonth(q)
    <2>1. KeysWith(rows2, "reserved", m) = held \ S
      BY <1>1, <1>2 DEF KeysWith
    <2>2. S \subseteq held
      BY <1>1, <1>2, <1>5 DEF KeysWith
    <2> HIDE DEF held
    <2>3. Sum(rows2, "reserved", m, kd) = UnitsIn(rows2, held \ S, kd)
      BY <2>1, Zenon DEF Sum
    <2>4. UnitsIn(rows2, held \ S, kd) = UnitsIn(row, held \ S, kd)
      BY <1>2, <1>3
    <2>5. UnitsIn(row, held \ S, kd) = UnitsIn(row, held, kd) - UnitsIn(row, S, kd)
      BY <1>2, <2>2, UnitsWithout
    <2>6. Sum(row, "reserved", m, kd) = UnitsIn(row, held, kd)
      BY DEF Sum, held
    <2>. QED
      BY <1>4, <1>5, <2>3, <2>4, <2>5, <2>6 DEF rows2, S
  <1>6. CASE m # TxMonth(q)
    <2>1. KeysWith(rows2, "reserved", m) = held
      BY <1>1, <1>6 DEF KeysWith
    <2> HIDE DEF held
    <2>2. Sum(rows2, "reserved", m, kd) = UnitsIn(rows2, held, kd)
      BY <2>1, Zenon DEF Sum
    <2>3. Sum(row, "reserved", m, kd) = UnitsIn(row, held, kd)
      BY DEF Sum, held
    <2>4. UnitsIn(row, held, kd) \in Nat
      BY <1>2, UnitsNat
    <2>. QED
      BY <1>2, <1>3, <1>4, <1>6, <2>2, <2>3, <2>4 DEF rows2
  <1>. QED
    BY <1>5, <1>6

-----------------------------------------------------------------------------
(* The counters are the sums *)

\* What the balance says of one counter pair.
BalancedAt(m, kd) ==
  /\ reserved[m][kd] = Sum(row, "reserved", m, kd)
  /\ used[m][kd] = Sum(row, "finalized", m, kd)

LEMMA BalancedDef ==
  LedgerBalanced <=> \A m \in Months, kd \in Kinds : BalancedAt(m, kd)
  BY DEF LedgerBalanced, BalancedAt, Counted, Sum

\* Under the balance the clamp of an expiry does nothing.
LEMMA StillReservedExact ==
  ASSUME TypeOK, LedgerBalanced, NEW q \in Requests, NEW kd \in Kinds
  PROVE  /\ StillReserved(q, kd) = Sum(ExpiredRows(q), "reserved", TxMonth(q), kd)
         /\ StillReserved(q, kd) <= reserved[TxMonth(q)][kd]
  <1> DEFINE m == TxMonth(q)
             s == UnitsIn(row, TxStale(q), kd)
             t == Sum(ExpiredRows(q), "reserved", m, kd)
  <1>1. m \in Months
    BY MonthOfType
  <1>2. reserved[m][kd] = Sum(row, "reserved", m, kd) /\ reserved[m][kd] \in Nat
    BY <1>1, BalancedDef DEF BalancedAt, TypeOK
  <1>3. t = Sum(row, "reserved", m, kd) - s
    BY SumExpire
  <1>4. s \in Nat /\ t \in Nat
    BY UnitsNat DEF TxStale, Stale, KeysWith, Sum
  <1>5. StillReserved(q, kd) = AtLeastZero(reserved[m][kd] - s)
    BY DEF StillReserved
  <1> HIDE DEF m, s, t
  <1>6. reserved[m][kd] - s = t /\ t <= reserved[m][kd]
    BY <1>2, <1>3, <1>4
  <1>7. StillReserved(q, kd) = t
    BY <1>4, <1>5, <1>6 DEF AtLeastZero
  <1>. QED
    BY <1>6, <1>7 DEF m, t

LEMMA FindExistingBalanced ==
  ASSUME TypeInv, LedgerBalanced, NEW q \in Requests, FindExisting(q)
  PROVE  LedgerBalanced'
  <1> SUFFICES ASSUME NEW m \in Months, NEW kd \in Kinds
               PROVE  BalancedAt(m, kd)'
    BY BalancedDef DEF LedgerBalanced, BalancedAt, Counted, Sum
  <1>1. BalancedAt(m, kd) /\ TypeOK
    BY BalancedDef DEF TypeInv
  <1>2. CASE UNCHANGED ledger
    BY <1>1, <1>2 DEF ledger, BalancedAt, Sum, KeysWith, UnitsIn, Tokens
  <1>3. CASE /\ row' = ExpiredRows(q)
             /\ reserved' = [reserved EXCEPT ![TxMonth(q)] = [j \in Kinds |-> StillReserved(q, j)]]
             /\ used' = used
    <2>1. Sum(row, "reserved", m, kd) \in Nat
      BY UnitsNat DEF Sum, KeysWith
    <2>2. Sum(row', "finalized", m, kd) = Sum(row, "finalized", m, kd)
      BY <1>1, <1>3, SumExpire
    <2>3. Sum(row', "reserved", m, kd) = Sum(ExpiredRows(q), "reserved", m, kd)
      BY <1>3
    <2>4. CASE m = TxMonth(q)
      <3>1. reserved'[m][kd] = StillReserved(q, kd)
        BY <1>1, <1>3, <2>4 DEF TypeOK
      <3>. QED
        BY <1>1, <1>3, <2>2, <2>3, <2>4, <3>1, StillReservedExact
        DEF BalancedAt, Sum, KeysWith, UnitsIn, Tokens
    <2>5. CASE m # TxMonth(q)
      <3>1. reserved'[m][kd] = reserved[m][kd]
        BY <1>1, <1>3, <2>5 DEF TypeOK
      <3>2. Sum(ExpiredRows(q), "reserved", m, kd) = Sum(row, "reserved", m, kd) - 0
        BY <1>1, <2>5, SumExpire
      <3>3. Sum(row', "reserved", m, kd) = Sum(row, "reserved", m, kd)
        BY <2>1, <2>3, <3>2
      <3>. QED
        BY <1>1, <1>3, <2>2, <3>1, <3>3 DEF BalancedAt, Sum, KeysWith, UnitsIn, Tokens
    <2>. QED
      BY <2>4, <2>5
  <1>. QED
    BY <1>2, <1>3 DEF FindExisting

LEMMA InsertBalanced ==
  ASSUME TypeInv, LedgerBalanced, NEW q \in Requests, Insert(q)
  PROVE  LedgerBalanced'
  <1> SUFFICES ASSUME NEW m \in Months, NEW kd \in Kinds
               PROVE  BalancedAt(m, kd)'
    BY BalancedDef DEF LedgerBalanced, BalancedAt, Counted, Sum
  <1>1. BalancedAt(m, kd) /\ TypeOK
    BY BalancedDef DEF TypeInv
  <1>2. CASE UNCHANGED ledger
    BY <1>1, <1>2 DEF ledger, BalancedAt, Sum, KeysWith, UnitsIn, Tokens
  <1>3. CASE row[KeyOf(q)] = NoRow
    <2> DEFINE k == KeyOf(q)
               f == ExpiredRows(q)
               r == [status |-> "reserved", month |-> TxMonth(q), body |-> BodyOf(q),
                     expires |-> clock[q].tx + Ttl, processing |-> FALSE]
               n == IF kd = KindOf[BodyOf(q)] THEN UnitsOf[BodyOf(q)] ELSE 0
    <2>1. /\ row' = [f EXCEPT ![k] = r]
          /\ reserved' = [reserved EXCEPT ![TxMonth(q)] =
                            [j \in Kinds |-> StillReserved(q, j)
                               + IF j = KindOf[BodyOf(q)] THEN UnitsOf[BodyOf(q)] ELSE 0]]
          /\ used' = used
      BY <1>3 DEF Insert
    <2>2. k \in Keys /\ f[k] = NoRow /\ f \in [Keys -> Row \cup {NoRow}]
      <3>1. k \notin TxStale(q)
        BY <1>3 DEF TxStale, Stale, KeysWith, NoRow
      <3>. QED
        BY <1>1, <1>3, <3>1, MonthOfType, ExpiredRowsFacts, ExpiredRowsType
    <2>3. r \in Row /\ r.status = "reserved" /\ r.month = TxMonth(q) /\ r.body = BodyOf(q)
      <3>1. clock[q].tx \in Nat
        BY <1>1, ShapeAssumption DEF TypeOK, Time
      <3>. QED
        BY <1>1, <3>1, MonthOfType, LifeAssumption DEF Row
    <2> HIDE DEF f, r, k
    <2>4. /\ Sum(row', "finalized", m, kd) = Sum(f, "finalized", m, kd)
          /\ Sum(row', "reserved", m, kd) = Sum(f, "reserved", m, kd)
               + IF m = TxMonth(q) THEN n ELSE 0
      <3> DEFINE g == Put(f, k, r)
      <3>1. /\ Sum(g, "finalized", m, kd) = Sum(f, "finalized", m, kd)
            /\ Sum(g, "reserved", m, kd) = Sum(f, "reserved", m, kd)
                 + IF m = r.month /\ kd = KindOf[r.body] THEN UnitsOf[r.body] ELSE 0
        BY <2>2, <2>3, SumAdd
      <3>2. row' = g
        BY <2>1 DEF Put
      <3> HIDE DEF g
      <3>. QED
        BY <2>3, <3>1, <3>2
    <2>5. Sum(f, "finalized", m, kd) = Sum(row, "finalized", m, kd)
      BY <1>1, SumExpire DEF f
    <2>6. CASE m = TxMonth(q)
      <3>1. reserved'[m][kd] = StillReserved(q, kd) + n
        BY <1>1, <2>1, <2>6 DEF TypeOK
      <3>2. StillReserved(q, kd) = Sum(f, "reserved", m, kd)
        BY <1>1, <2>6, StillReservedExact DEF f
      <3>. QED
        BY <1>1, <2>1, <2>4, <2>5, <2>6, <3>1, <3>2 DEF BalancedAt, Sum, KeysWith, UnitsIn, Tokens
    <2>7. CASE m # TxMonth(q)
      <3>1. reserved'[m][kd] = reserved[m][kd]
        BY <1>1, <2>1, <2>7 DEF TypeOK
      <3>2. Sum(f, "reserved", m, kd) = Sum(row, "reserved", m, kd) - 0
        BY <1>1, <2>7, SumExpire DEF f
      <3>3. Sum(row, "reserved", m, kd) \in Nat
        BY UnitsNat DEF Sum, KeysWith
      <3>4. Sum(row', "reserved", m, kd) = Sum(row, "reserved", m, kd)
        BY <2>4, <2>7, <3>2, <3>3
      <3>. QED
        BY <1>1, <2>1, <2>4, <2>5, <3>1, <3>4 DEF BalancedAt, Sum, KeysWith, UnitsIn, Tokens
    <2>. QED
      BY <2>6, <2>7
  <1>. QED
    BY <1>2, <1>3 DEF Insert

LEMMA SettleBalanced ==
  ASSUME TypeInv, LedgerBalanced, NEW q \in Requests, Settle(q)
  PROVE  LedgerBalanced'
  <1> SUFFICES ASSUME NEW m \in Months, NEW kd \in Kinds
               PROVE  BalancedAt(m, kd)'
    BY BalancedDef DEF LedgerBalanced, BalancedAt, Counted, Sum
  <1> DEFINE k == KeyOf(q)
             m0 == row[k].month
             k0 == KindOf[row[k].body]
             u == UnitsOf[row[k].body]
             n == IF m = m0 /\ kd = k0 THEN u ELSE 0
             status == IF q \in served THEN "finalized" ELSE "released"
  <1>1. BalancedAt(m, kd) /\ TypeOK
    BY BalancedDef DEF TypeInv
  <1>2. k \in Keys /\ row[k] \in Row /\ row[k].status = "reserved"
    BY MonthOfType DEF Settle, TypeInv, LockInv, TypeOK
  <1>3. m0 \in Months /\ k0 \in Kinds /\ u \in Nat
    BY <1>2, ShapeAssumption DEF Row
  <1>4. /\ row' = [row EXCEPT ![k].status = status]
        /\ reserved' = [reserved EXCEPT ![m0][k0] = AtLeastZero(reserved[m0][k0] - u)]
        /\ used' = [used EXCEPT ![m0][k0] = IF q \in served THEN used[m0][k0] + u ELSE used[m0][k0]]
    BY DEF Settle
  <1>5. status \in {"finalized", "released"} /\ row \in [Keys -> Row \cup {NoRow}]
    BY <1>1 DEF TypeOK
  <1>6. /\ Sum(row', "reserved", m, kd) = Sum(row, "reserved", m, kd) - n
        /\ Sum(row', "finalized", m, kd) = Sum(row, "finalized", m, kd)
             + IF status = "finalized" THEN n ELSE 0
    <2> DEFINE g == PutStatus(row, k, status)
    <2> HIDE DEF status, k, n
    <2>1. n = IF m = row[k].month /\ kd = KindOf[row[k].body] THEN UnitsOf[row[k].body] ELSE 0
      BY DEF n, k
    <2>2. /\ Sum(g, "reserved", m, kd) = Sum(row, "reserved", m, kd) - n
          /\ Sum(g, "finalized", m, kd) = Sum(row, "finalized", m, kd)
               + IF status = "finalized" THEN n ELSE 0
      BY <1>2, <1>5, <2>1, SumMove
    <2>3. row' = g
      BY <1>4 DEF PutStatus
    <2> HIDE DEF g
    <2>. QED
      BY <2>2, <2>3
  <1>7. Sum(row', "reserved", m, kd) \in Nat
    BY UnitsNat DEF Sum, KeysWith
  <1>8. /\ reserved'[m][kd] = IF m = m0 /\ kd = k0 THEN AtLeastZero(reserved[m][kd] - u)
                                                    ELSE reserved[m][kd]
        /\ used'[m][kd] = IF m = m0 /\ kd = k0 /\ q \in served THEN used[m][kd] + u ELSE used[m][kd]
        /\ reserved[m][kd] \in Nat /\ used[m][kd] \in Nat
    <2> HIDE DEF m0, k0, u
    <2>. QED
      BY <1>1, <1>3, <1>4 DEF TypeOK
  <1>9. reserved'[m][kd] = Sum(row', "reserved", m, kd)
    <2> HIDE DEF m0, k0, u
    <2>. QED
      BY <1>1, <1>3, <1>6, <1>7, <1>8 DEF BalancedAt, AtLeastZero
  <1>10. used'[m][kd] = Sum(row', "finalized", m, kd)
    <2> HIDE DEF m0, k0, u
    <2>. QED
      BY <1>1, <1>3, <1>6, <1>8 DEF BalancedAt
  <1>. QED
    BY <1>9, <1>10 DEF BalancedAt, Sum, KeysWith, UnitsIn, Tokens

LEMMA OtherBalanced ==
  ASSUME TypeInv, LedgerBalanced, used' = used, reserved' = reserved,
         \A k \in Keys : \/ row'[k] = row[k]
                         \/ row[k] \in Row /\ row'[k] = [row[k] EXCEPT !.processing = TRUE]
  PROVE  LedgerBalanced'
  <1> SUFFICES ASSUME NEW m \in Months, NEW kd \in Kinds
               PROVE  BalancedAt(m, kd)'
    BY BalancedDef DEF LedgerBalanced, BalancedAt, Counted, Sum
  <1>1. BalancedAt(m, kd)
    BY BalancedDef
  <1>2. \A k \in Keys : /\ row'[k].status = row[k].status
                        /\ row'[k].month = row[k].month
                        /\ row'[k].body = row[k].body
    BY DEF Row
  <1>3. /\ Sum(row', "reserved", m, kd) = Sum(row, "reserved", m, kd)
        /\ Sum(row', "finalized", m, kd) = Sum(row, "finalized", m, kd)
    BY <1>2, SumSame
  <1>. QED
    BY <1>1, <1>3 DEF BalancedAt, Sum, KeysWith, UnitsIn, Tokens

\* What is left of the ledger by the steps that do not reserve, expire or settle.
LEMMA OtherSteps ==
  ASSUME TypeInv, NEW q \in Requests, Act(q), ~FindExisting(q), ~Insert(q), ~Settle(q)
  PROVE  /\ used' = used
         /\ reserved' = reserved
         /\ \A k \in Keys : \/ row'[k] = row[k]
                            \/ row[k] \in Row /\ row'[k] = [row[k] EXCEPT !.processing = TRUE]
  <1>1. used' = used /\ reserved' = reserved
    BY DEF Act, Step, Arrive, Admit, LockMonth, CheckQuota, BeginClaim, Claim, CallProvider,
           ProviderReturns, SettleRow, AbortDeadlock, Die, ledger
  <1>2. CASE Claim(q)
    <2>1. pc[q] = "claimWait"
      BY <1>2 DEF Claim
    <2>2. \A k \in Keys : ~Expiry(q, k) /\ ~Creation(q, k) /\ ~Settling(q, k)
      BY <2>1 DEF Expiry, Creation, Settling
    <2>3. \A k \in Keys : row'[k] = row[k] \/ Claiming(q, k)
      BY <2>2, RowChange DEF TypeInv
    <2>4. \A k \in Keys :
            Claiming(q, k) => row[k] \in Row /\ row'[k] = [row[k] EXCEPT !.processing = TRUE]
      BY DEF Claiming
    <2>. QED
      BY <1>1, <2>3, <2>4, Zenon
  <1>3. CASE ~Claim(q)
    BY <1>3 DEF Act, Step, Arrive, Admit, LockMonth, CheckQuota, BeginClaim, CallProvider,
                ProviderReturns, SettleRow, AbortDeadlock, Die, ledger
  <1>. QED
    BY <1>1, <1>2, <1>3

LEMMA ActBalanced ==
  ASSUME TypeInv, LedgerBalanced, NEW q \in Requests, Act(q)
  PROVE  LedgerBalanced'
  <1>1. CASE FindExisting(q)
    BY <1>1, FindExistingBalanced
  <1>2. CASE Insert(q)
    BY <1>2, InsertBalanced
  <1>3. CASE Settle(q)
    BY <1>3, SettleBalanced
  <1>4. CASE ~FindExisting(q) /\ ~Insert(q) /\ ~Settle(q)
    BY <1>4, OtherSteps, OtherBalanced
  <1>. QED
    BY <1>1, <1>2, <1>3, <1>4

LEMMA NextBalanced == TypeInv /\ LedgerBalanced /\ [Next]_vars => LedgerBalanced'
  <1> SUFFICES ASSUME TypeInv, LedgerBalanced, [Next]_vars
               PROVE  LedgerBalanced'
    OBVIOUS
  <1>1. CASE Tick \/ ChangeAccount \/ UNCHANGED vars
    <2>1. used' = used /\ reserved' = reserved /\ row' = row
      BY <1>1 DEF Tick, ChangeAccount, vars, ledger
    <2>. QED
      BY <2>1, OtherBalanced
  <1>. QED
    BY <1>1, NextCases, ActBalanced

LEMMA InitBalanced == Init => LedgerBalanced
  <1> SUFFICES ASSUME Init, NEW m \in Months, NEW kd \in Kinds
               PROVE  BalancedAt(m, kd)
    BY BalancedDef
  <1>1. KeysWith(row, "reserved", m) = {} /\ KeysWith(row, "finalized", m) = {}
    BY DEF Init, KeysWith, NoRow
  <1>2. Sum(row, "reserved", m, kd) = 0 /\ Sum(row, "finalized", m, kd) = 0
    BY <1>1, UnitsNone DEF Sum
  <1>. QED
    BY <1>2 DEF Init, BalancedAt

\* The counters of usage_period equal the sums over the reservations in every
\* reachable state: their adjustments by differences never drift, whatever
\* interleaves, expires, dies or deadlocks.
THEOREM CountersAreSums == Spec => []LedgerBalanced
  BY InitTypeInv, NextTypeInv, InitBalanced, NextBalanced, PTL DEF Spec

-----------------------------------------------------------------------------
(* The quota *)

\* Used and reserved units fit the limit, and a reserve that passed the quota
\* check would still pass it: the lock of its period keeps the counters still.
QuotaInv ==
  /\ \A m \in Months, kd \in Kinds : used[m][kd] + reserved[m][kd] <= Limit[kd]
  /\ \A p \in Requests : pc[p] = "inserting" => ~OverQuota(p)

\* Nobody else changes the counters of a locked period.
LEMMA LockedCounters ==
  ASSUME TypeInv, NEW p \in Requests, NEW q \in Requests, p # q, Act(q),
         NEW m \in Months, monthLock[m] = p
  PROVE  used'[m] = used[m] /\ reserved'[m] = reserved[m]
  <1> USE DEF TypeInv, TypeOK
  <1>1. CASE ~FindExisting(q) /\ ~Insert(q) /\ ~Settle(q)
    BY <1>1, OtherSteps
  <1>2. CASE FindExisting(q) \/ Insert(q)
    <2>1. monthLock[TxMonth(q)] = q
      BY <1>2 DEF FindExisting, Insert, Expires, LockInv
    <2>2. m # TxMonth(q)
      BY <2>1
    <2>. QED
      BY <1>2, <2>2 DEF FindExisting, Insert, ledger
  <1>3. CASE Settle(q)
    <2>1. monthLock[row[KeyOf(q)].month] = Nobody
      BY <1>3 DEF Settle
    <2>2. m # row[KeyOf(q)].month
      BY <2>1, SetsAssumption
    <2>. QED
      BY <1>3, <2>2 DEF Settle
  <1>. QED
    BY <1>1, <1>2, <1>3

\* A reserve between its quota check and its insert keeps what the check saw.
LEMMA CheckHolds ==
  ASSUME TypeInv, NEW p \in Requests, NEW q \in Requests, p # q, Act(q), pc[p] = "inserting"
  PROVE  OverQuota(p)' <=> OverQuota(p)
  <1> DEFINE m == TxMonth(p)
             S == TxStale(p)
             kd == KindOf[BodyOf(p)]
  <1>1. monthLock[m] = p /\ (\A k \in S : rowLock[k] = p) /\ m \in Months /\ S \subseteq Keys
    BY MonthOfType DEF TypeInv, LockInv, TxStale, Stale, KeysWith
  <1>2. TxMonth(p)' = m /\ BodyOf(p)' = BodyOf(p) /\ clock'[p] = clock[p]
    BY StepOfOther DEF TypeInv, TxMonth, BodyOf
  <1>3. used'[m] = used[m] /\ reserved'[m] = reserved[m]
    BY <1>1, LockedCounters
  <1>4. \A k \in S : row'[k] = row[k]
    BY <1>1, LockedRow DEF TypeInv
  <1>5. TxStale(p)' = S
    <2>1. TxStale(p)' \subseteq S
      BY <1>1, StaleOfOther DEF TypeInv
    <2>2. S \subseteq TxStale(p)'
      BY <1>2, <1>4 DEF TxStale, Stale, KeysWith
    <2>. QED
      BY <2>1, <2>2
  <1>6. UnitsIn(row', S, kd) = UnitsIn(row, S, kd)
    <2> HIDE DEF S, kd
    <2>. QED
      BY <1>4, UnitsSame
  <1>7. StillReserved(p, kd)' = StillReserved(p, kd)
    BY <1>2, <1>3, <1>5, <1>6 DEF StillReserved, UnitsIn, Tokens
  <1>. QED
    BY <1>2, <1>3, <1>7 DEF OverQuota

\* A request gets to its insert by a quota check it passed.
LEMMA OwnCheck ==
  ASSUME TypeInv, NEW p \in Requests, Act(p), pc'[p] = "inserting"
  PROVE  ~OverQuota(p)'
  <1>1. CheckQuota(p) /\ ~OverQuota(p)
    <2> USE DEF TypeInv, TypeOK, Act, Step, Go, End, vars, Outcome
    <2>1. CASE CheckQuota(p)
      BY <2>1 DEF CheckQuota
    <2>2. CASE Arrive(p) \/ Admit(p) \/ LockMonth(p) \/ FindExisting(p) \/ Insert(p)
      BY <2>2 DEF Arrive, Admit, LockMonth, FindExisting, Insert
    <2>3. CASE BeginClaim(p) \/ Claim(p) \/ CallProvider(p) \/ ProviderReturns(p)
      BY <2>3 DEF BeginClaim, Claim, CallProvider, ProviderReturns
    <2>4. CASE SettleRow(p) \/ Settle(p) \/ AbortDeadlock(p) \/ Die(p)
      BY <2>4 DEF SettleRow, Settle, AbortDeadlock, Die
    <2>. QED
      BY <2>1, <2>2, <2>3, <2>4
  <1>2. UNCHANGED <<row, used, reserved, asked>> /\ clock'[p] = clock[p]
    BY <1>1, OwnLocks DEF CheckQuota, ledger, TypeInv
  <1>. QED
    BY <1>1, <1>2 DEF OverQuota, StillReserved, TxStale, Stale, TxMonth, KeysWith, UnitsIn,
                      Tokens, BodyOf

\* Each change of the counters stays within the limit.
LEMMA ActQuota ==
  ASSUME TypeInv, LedgerBalanced, QuotaInv, NEW q \in Requests, Act(q),
         NEW m \in Months, NEW kd \in Kinds
  PROVE  used'[m][kd] + reserved'[m][kd] <= Limit[kd]
  <1>1. used[m][kd] \in Nat /\ reserved[m][kd] \in Nat /\ Limit[kd] \in Nat
        /\ used[m][kd] + reserved[m][kd] <= Limit[kd]
    BY ShapeAssumption DEF TypeInv, TypeOK, QuotaInv
  <1>2. CASE UNCHANGED <<used, reserved>>
    BY <1>1, <1>2
  <1>3. CASE FindExisting(q)
    <2>1. CASE UNCHANGED ledger
      BY <1>1, <2>1 DEF ledger
    <2>2. CASE /\ reserved' = [reserved EXCEPT ![TxMonth(q)] =
                                 [j \in Kinds |-> StillReserved(q, j)]]
               /\ used' = used
      <3>1. reserved'[m][kd] = IF m = TxMonth(q) THEN StillReserved(q, kd) ELSE reserved[m][kd]
        BY <2>2 DEF TypeInv, TypeOK
      <3>2. StillReserved(q, kd) \in Nat /\ (m = TxMonth(q) => StillReserved(q, kd) <= reserved[m][kd])
        BY StillReservedType, StillReservedExact DEF TypeInv
      <3>. QED
        BY <1>1, <2>2, <3>1, <3>2
    <2>. QED
      BY <1>3, <2>1, <2>2 DEF FindExisting
  <1>4. CASE Insert(q) /\ row[KeyOf(q)] = NoRow
    <2> DEFINE n == IF kd = KindOf[BodyOf(q)] THEN UnitsOf[BodyOf(q)] ELSE 0
    <2>1. /\ reserved' = [reserved EXCEPT ![TxMonth(q)] =
                            [j \in Kinds |-> StillReserved(q, j)
                               + IF j = KindOf[BodyOf(q)] THEN UnitsOf[BodyOf(q)] ELSE 0]]
          /\ used' = used
      BY <1>4 DEF Insert
    <2>2. reserved'[m][kd] = IF m = TxMonth(q) THEN StillReserved(q, kd) + n ELSE reserved[m][kd]
      BY <2>1 DEF TypeInv, TypeOK
    <2>3. StillReserved(q, kd) \in Nat /\ (m = TxMonth(q) => StillReserved(q, kd) <= reserved[m][kd])
      BY StillReservedType, StillReservedExact DEF TypeInv
    <2>4. ~OverQuota(q)
      BY <1>4 DEF Insert, QuotaInv
    <2>5. UnitsOf[BodyOf(q)] \in Nat
      BY MonthOfType, ShapeAssumption DEF TypeInv
    <2>6. (m = TxMonth(q) /\ kd = KindOf[BodyOf(q)]) =>
            used[m][kd] + StillReserved(q, kd) + UnitsOf[BodyOf(q)] <= Limit[kd]
      BY <1>1, <2>3, <2>4, <2>5 DEF OverQuota
    <2>. QED
      BY <1>1, <2>1, <2>2, <2>3, <2>5, <2>6
  <1>5. CASE Insert(q) /\ row[KeyOf(q)] # NoRow
    BY <1>1, <1>5 DEF Insert, ledger
  <1>6. CASE Settle(q)
    <2> DEFINE m0 == row[KeyOf(q)].month
               k0 == KindOf[row[KeyOf(q)].body]
               u == UnitsOf[row[KeyOf(q)].body]
    <2>1. row[KeyOf(q)] \in Row /\ KeyOf(q) \in Keys /\ row[KeyOf(q)].status = "reserved"
      BY <1>6, MonthOfType DEF Settle, TypeInv, LockInv, TypeOK
    <2>2. m0 \in Months /\ k0 \in Kinds /\ u \in Nat
      BY <2>1, ShapeAssumption DEF Row
    <2>3. /\ reserved' = [reserved EXCEPT ![m0][k0] = AtLeastZero(reserved[m0][k0] - u)]
          /\ used' = [used EXCEPT ![m0][k0] = IF q \in served THEN used[m0][k0] + u ELSE used[m0][k0]]
      BY <1>6 DEF Settle
    <2>4. m = m0 /\ kd = k0 => u <= reserved[m][kd]
      <3> DEFINE held == KeysWith(row, "reserved", m)
      <3> SUFFICES ASSUME m = m0, kd = k0
                   PROVE  u <= reserved[m][kd]
        OBVIOUS
      <3>1. KeyOf(q) \in held /\ held \subseteq Keys
        BY <2>1 DEF KeysWith
      <3>2. reserved[m][kd] = UnitsIn(row, held, kd)
        BY BalancedDef DEF BalancedAt, Sum
      <3>3. UnitsIn(row, {KeyOf(q)}, kd) = u
        BY <2>1, UnitsOne DEF Row
      <3> HIDE DEF held, u
      <3>4. UnitsIn(row, held \ {KeyOf(q)}, kd)
              = UnitsIn(row, held, kd) - UnitsIn(row, {KeyOf(q)}, kd)
        BY <3>1, UnitsWithout
      <3>5. UnitsIn(row, held \ {KeyOf(q)}, kd) \in Nat
        BY <3>1, UnitsNat
      <3>. QED
        BY <1>1, <2>2, <3>2, <3>3, <3>4, <3>5
    <2> HIDE DEF m0, k0, u
    <2>5. /\ reserved'[m][kd] = IF m = m0 /\ kd = k0 THEN AtLeastZero(reserved[m][kd] - u)
                                                      ELSE reserved[m][kd]
          /\ used'[m][kd] = IF m = m0 /\ kd = k0 /\ q \in served THEN used[m][kd] + u
                                                                  ELSE used[m][kd]
      BY <2>2, <2>3 DEF TypeInv, TypeOK
    <2>. QED
      BY <1>1, <2>2, <2>4, <2>5 DEF AtLeastZero
  <1>. QED
    BY <1>2, <1>3, <1>4, <1>5, <1>6, OtherSteps

LEMMA NextQuota == TypeInv /\ LedgerBalanced /\ QuotaInv /\ [Next]_vars => QuotaInv'
  <1> SUFFICES ASSUME TypeInv, LedgerBalanced, QuotaInv, [Next]_vars
               PROVE  QuotaInv'
    OBVIOUS
  <1>1. ASSUME NEW q \in Requests, Act(q)
        PROVE  QuotaInv'
    <2>1. \A m \in Months, kd \in Kinds : used'[m][kd] + reserved'[m][kd] <= Limit[kd]
      BY <1>1, ActQuota
    <2>2. ASSUME NEW p \in Requests, pc'[p] = "inserting"
          PROVE  ~OverQuota(p)'
      <3>1. CASE p = q
        BY <1>1, <2>2, <3>1, OwnCheck
      <3>2. CASE p # q
        <4>1. pc[p] = "inserting"
          BY <1>1, <2>2, <3>2, StepOfOther DEF TypeInv
        <4>. QED
          BY <1>1, <3>2, <4>1, CheckHolds DEF QuotaInv
      <3>. QED
        BY <3>1, <3>2
    <2>. QED
      BY <2>1, <2>2 DEF QuotaInv
  <1>2. CASE Tick \/ ChangeAccount \/ UNCHANGED vars
    <2>1. UNCHANGED <<row, used, reserved, asked, pc, clock>>
      BY <1>2 DEF Tick, ChangeAccount, vars, ledger
    <2>. QED
      BY <2>1 DEF QuotaInv, OverQuota, StillReserved, TxStale, Stale, TxMonth, KeysWith, UnitsIn,
                  Tokens, BodyOf
  <1>. QED
    BY <1>1, <1>2, NextCases

\* No number of concurrent requests overspends a month: what is finalized and
\* what is held fit the limit together in every reachable state.
THEOREM QuotaKept == Spec => []WithinQuota
  <1>1. Init => QuotaInv
    BY ShapeAssumption DEF Init, QuotaInv
  <1>2. TypeInv /\ LedgerBalanced /\ QuotaInv => WithinQuota
    <2> SUFFICES ASSUME TypeInv, LedgerBalanced, QuotaInv, NEW m \in Months, NEW kd \in Kinds
                 PROVE  Counted("finalized", m, kd) + Counted("reserved", m, kd) <= Limit[kd]
      BY DEF WithinQuota
    <2>1. /\ Counted("finalized", m, kd) = used[m][kd]
          /\ Counted("reserved", m, kd) = reserved[m][kd]
      BY BalancedDef DEF BalancedAt, Sum, Counted
    <2>. QED
      BY <2>1 DEF QuotaInv
  <1>. QED
    BY <1>1, <1>2, InitTypeInv, NextTypeInv, InitBalanced, NextBalanced, NextQuota, PTL DEF Spec

-----------------------------------------------------------------------------
(* Refusals *)

\* A request is refused for its quota by the quota check only.
LEMMA RefusedByCheck ==
  ASSUME TypeOK, NEW q \in Requests, Act(q), NEW p \in Requests,
         pc[p] # "overQuota", pc'[p] = "overQuota"
  PROVE  p = q /\ Expires(p) /\ OverQuota(p)
  <1>1. p = q
    BY StepOfOther
  <1> USE DEF TypeOK, Act, Step, Go, End, vars, Outcome
  <1>2. CASE CheckQuota(p)
    BY <1>1, <1>2 DEF CheckQuota
  <1>3. CASE Arrive(p) \/ Admit(p) \/ LockMonth(p) \/ FindExisting(p) \/ Insert(p)
    BY <1>3 DEF Arrive, Admit, LockMonth, FindExisting, Insert
  <1>4. CASE BeginClaim(p) \/ Claim(p) \/ CallProvider(p) \/ ProviderReturns(p)
    BY <1>4 DEF BeginClaim, Claim, CallProvider, ProviderReturns
  <1>5. CASE SettleRow(p) \/ Settle(p) \/ AbortDeadlock(p) \/ Die(p)
    BY <1>5 DEF SettleRow, Settle, AbortDeadlock, Die
  <1>. QED
    BY <1>1, <1>2, <1>3, <1>4, <1>5

\* The reservations of the transaction's month that have not expired at its now().
Live(p) == {k \in KeysWith(row, "reserved", TxMonth(p)) : row[k].expires > clock[p].tx}

\* Under the balance, what the quota check counts as reserved is what is alive.
LEMMA ReservedIsLive ==
  ASSUME TypeOK, LedgerBalanced, NEW p \in Requests, NEW kd \in Kinds
  PROVE  StillReserved(p, kd) = UnitsIn(row, Live(p), kd)
  <1> DEFINE m == TxMonth(p)
             held == KeysWith(row, "reserved", m)
             S == TxStale(p)
  <1>1. /\ S \subseteq held /\ held \subseteq Keys
        /\ Live(p) = held \ S
    <2>1. ASSUME NEW k \in held
          PROVE  (row[k].expires > clock[p].tx) <=> ~(row[k].expires <= clock[p].tx)
      <3>1. k \in Keys /\ row[k].status = "reserved"
        BY DEF KeysWith
      <3>2. row[k].expires \in Nat
        BY <3>1 DEF TypeOK, Row, NoRow
      <3>3. clock[p].tx \in Nat
        BY ClockNumbers
      <3>. QED
        BY <3>2, <3>3
    <2>. QED
      BY <2>1 DEF TxStale, Stale, KeysWith, Live
  <1>2. StillReserved(p, kd) = AtLeastZero(reserved[m][kd] - UnitsIn(row, S, kd))
    BY DEF StillReserved
  <1>3. reserved[m][kd] = UnitsIn(row, held, kd)
    BY MonthOfType, BalancedDef DEF BalancedAt, Sum
  <1> HIDE DEF m, held, S
  <1>4. UnitsIn(row, held \ S, kd) = UnitsIn(row, held, kd) - UnitsIn(row, S, kd)
    BY <1>1, UnitsWithout
  <1>5. UnitsIn(row, held \ S, kd) \in Nat
    <2>1. held \ S \subseteq Keys
      BY <1>1
    <2>. QED
      BY <2>1, UnitsNat
  <1>6. UnitsIn(row, Live(p), kd) = UnitsIn(row, held \ S, kd)
    BY <1>1, Zenon
  <1>. QED
    BY <1>2, <1>3, <1>4, <1>5, <1>6 DEF AtLeastZero

\* No request is ever refused because of units that nobody can use any more: what
\* is billed, what is alive and what it asks for exceed the limit together.
THEOREM RefusalsAreHonest == Spec => RefusalIsHonest
  <1> DEFINE Honest(p) ==
        LET m == TxMonth(p)
            kd == KindOf[BodyOf(p)]
            live == {k \in KeysWith(row, "reserved", m) : row[k].expires > clock[p].tx}
        IN  Counted("finalized", m, kd) + UnitsIn(row, live, kd) + UnitsOf[BodyOf(p)] > Limit[kd]
  <1>1. ASSUME TypeInv, LedgerBalanced, [Next]_vars, NEW p \in Requests,
               pc[p] # "overQuota", pc'[p] = "overQuota"
        PROVE  Honest(p)
    <2>1. PICK q \in Requests : Act(q)
      BY <1>1, NextCases DEF Tick, ChangeAccount, vars
    <2>2. OverQuota(p)
      BY <1>1, <2>1, RefusedByCheck DEF TypeInv
    <2> DEFINE m == TxMonth(p)
               kd == KindOf[BodyOf(p)]
    <2>3. m \in Months /\ kd \in Kinds
      BY <1>1, MonthOfType DEF TypeInv
    <2>4. used[m][kd] = Counted("finalized", m, kd)
      BY <1>1, <2>3 DEF LedgerBalanced
    <2>5. StillReserved(p, kd) = UnitsIn(row, Live(p), kd)
      BY <1>1, <2>3, ReservedIsLive DEF TypeInv
    <2>6. used[m][kd] + StillReserved(p, kd) + UnitsOf[BodyOf(p)] > Limit[kd]
      BY <2>2 DEF OverQuota
    <2>. QED
      BY <2>4, <2>5, <2>6 DEF Live
  <1>2. TypeInv /\ LedgerBalanced /\ [Next]_vars
          => [\A p \in Requests :
                pc[p] # "overQuota" /\ pc'[p] = "overQuota" => Honest(p)]_vars
    BY <1>1
  <1>. QED
    BY <1>2, InitTypeInv, NextTypeInv, InitBalanced, NextBalanced, PTL DEF Spec, RefusalIsHonest

-----------------------------------------------------------------------------
(* The contract *)

\* What the contract sees.
grants == [k \in Keys |-> GrantOf(row[k])]
Callers(k) == {p \in called : KeyOf(p) = k}
calls == [k \in Keys |-> Cardinality(Callers(k))]

ContractStep == [Contract!Next]_<<grants, calls>>

LEMMA GrantFacts ==
  ASSUME TypeOK, NEW k \in Keys
  PROVE  /\ grants[k] = Contract!NoGrant <=> row[k] = NoRow
         /\ row[k] # NoRow =>
              /\ row[k] \in Row
              /\ row[k].body \in Bodies /\ row[k].month \in Months
              /\ KindOf[row[k].body] \in Kinds /\ UnitsOf[row[k].body] \in 1 .. MaxUnits
              /\ grants[k] = [phase |-> PhaseOf(row[k].status),
                              pot |-> <<row[k].month, KindOf[row[k].body]>>,
                              units |-> UnitsOf[row[k].body]]
              /\ grants[k].phase = PhaseOf(row[k].status)
         /\ grants[k].phase = "held" <=> row[k].status = "reserved"
  <1>1. CASE row[k] = NoRow
    BY <1>1 DEF grants, GrantOf, NoRow, Contract!NoGrant
  <1>2. CASE row[k] # NoRow
    <2>1. row[k] \in Row
      BY <1>2 DEF TypeOK
    <2>2. /\ row[k].body \in Bodies /\ row[k].month \in Months
          /\ row[k].status \in {"reserved", "finalized", "released", "expired"}
      BY <2>1 DEF Row, Settled
    <2>3. KindOf[row[k].body] \in Kinds /\ UnitsOf[row[k].body] \in 1 .. MaxUnits
      BY <2>2, ShapeAssumption
    <2>4. grants[k] = [phase |-> PhaseOf(row[k].status),
                       pot |-> <<row[k].month, KindOf[row[k].body]>>,
                       units |-> UnitsOf[row[k].body]]
      BY <1>2 DEF grants, GrantOf
    <2>5. PhaseOf(row[k].status) \in {"held", "billed", "void"}
          /\ (PhaseOf(row[k].status) = "held" <=> row[k].status = "reserved")
      BY <2>2 DEF PhaseOf
    <2>. QED
      BY <1>2, <2>1, <2>2, <2>3, <2>4, <2>5 DEF Contract!NoGrant
  <1>. QED
    BY <1>1, <1>2

\* A claim or a settlement that only marks a row is not seen.
LEMMA GrantsSame ==
  ASSUME TypeOK, \A k \in Keys : \/ row'[k] = row[k]
                                 \/ row[k] \in Row /\ row'[k] = [row[k] EXCEPT !.processing = TRUE]
  PROVE  grants' = grants
  <1>1. ASSUME NEW k \in Keys
        PROVE  GrantOf(row'[k]) = GrantOf(row[k])
    <2>1. CASE row'[k] = row[k]
      BY <2>1
    <2>2. CASE row[k] \in Row /\ row'[k] = [row[k] EXCEPT !.processing = TRUE]
      <3>1. /\ row[k] # NoRow /\ row'[k] # NoRow
            /\ row'[k].status = row[k].status /\ row'[k].month = row[k].month
            /\ row'[k].body = row[k].body
        BY <2>2 DEF Row, NoRow, Settled
      <3>. QED
        BY <3>1 DEF GrantOf
    <2>. QED
      BY <2>1, <2>2
  <1>2. [k \in Keys |-> GrantOf(row'[k])] = [k \in Keys |-> GrantOf(row[k])]
    BY <1>1
  <1>. QED
    BY <1>2 DEF grants, GrantOf

\* What a reserve expires has lapsed.
LEMMA GrantsLapse ==
  ASSUME TypeOK, NEW p \in Requests
  PROVE  /\ TxStale(p) \in SUBSET Contract!Held
         /\ [k \in Keys |-> GrantOf(ExpiredRows(p)[k])] = Contract!Lapsed(TxStale(p))
  <1>1. ASSUME NEW k \in TxStale(p)
        PROVE  k \in Contract!Held
    BY GrantFacts DEF TxStale, Stale, KeysWith, Contract!Held, grants
  <1>2. ASSUME NEW k \in Keys
        PROVE  GrantOf(ExpiredRows(p)[k])
                 = IF k \in TxStale(p) THEN [grants[k] EXCEPT !.phase = "void"] ELSE grants[k]
    <2>1. CASE k \notin TxStale(p)
      BY <2>1, ExpiredRowsFacts DEF grants
    <2>2. CASE k \in TxStale(p)
      <3> DEFINE r == ExpiredRows(p)[k]
      <3>1. /\ row[k] \in Row /\ r \in Row /\ r.status = "expired"
            /\ r.month = row[k].month /\ r.body = row[k].body
        BY <2>2, ExpiredRowsFacts
      <3>2. row[k] # NoRow /\ r # NoRow
        BY <3>1 DEF Row, NoRow, Settled
      <3>3. GrantOf(r) = [phase |-> "void", pot |-> <<row[k].month, KindOf[row[k].body]>>,
                          units |-> UnitsOf[row[k].body]]
        BY <3>1, <3>2 DEF GrantOf, PhaseOf
      <3>4. grants[k] = [phase |-> PhaseOf(row[k].status),
                         pot |-> <<row[k].month, KindOf[row[k].body]>>,
                         units |-> UnitsOf[row[k].body]]
        BY <3>2, GrantFacts
      <3>. QED
        BY <2>2, <3>3, <3>4
    <2>. QED
      BY <2>1, <2>2
  <1>3. Contract!Lapsed(TxStale(p))
          = [k \in Keys |-> IF k \in TxStale(p) THEN [grants[k] EXCEPT !.phase = "void"]
                                                ELSE grants[k]]
    BY DEF Contract!Lapsed, grants
  <1>. QED
    BY <1>1, <1>2, <1>3

LEMMA SameCardinality ==
  ASSUME NEW S
  PROVE  Contract!Cardinality(S) = Cardinality(S)
  BY Zenon DEF Contract!Cardinality, Cardinality

\* The tokens of the contract are those of the ledger: what a pot has taken is what
\* a month holds and has been billed of a kind.
LEMMA TakenIsCounted ==
  ASSUME TypeOK, NEW p \in Requests, row[KeyOf(p)] = NoRow, NEW m \in Months, NEW kd \in Kinds
  PROVE  Contract!Taken(Contract!Lapsed(TxStale(p)), <<m, kd>>, KeyOf(p))
           = Sum(ExpiredRows(p), "reserved", m, kd) + Sum(ExpiredRows(p), "finalized", m, kd)
  <1> DEFINE rows == ExpiredRows(p)
             g == Contract!Lapsed(TxStale(p))
             held == KeysWith(rows, "reserved", m)
             billed == KeysWith(rows, "finalized", m)
             j0 == KeyOf(p)
             Mine(t) == /\ g[t[1]].phase \in {"held", "billed"}
                        /\ g[t[1]].pot = <<m, kd>>
                        /\ t[2] <= g[t[1]].units
  <1>1. j0 \in Keys /\ rows[j0] = NoRow
    <2>1. j0 \in Keys
      BY MonthOfType
    <2>2. j0 \notin TxStale(p)
      BY DEF TxStale, Stale, KeysWith, NoRow
    <2>. QED
      BY <2>1, <2>2, ExpiredRowsFacts
  <1>2. rows \in [Keys -> Row \cup {NoRow}]
    BY ExpiredRowsType
  <1>3. \A k \in Keys : g[k] = GrantOf(rows[k])
    <2>1. g = [k \in Keys |-> GrantOf(rows[k])]
      BY GrantsLapse
    <2> HIDE DEF g, rows
    <2>. QED
      BY <2>1
  <1> HIDE DEF rows, g
  <1>4. ASSUME NEW k \in Keys, NEW u \in 1 .. MaxUnits
        PROVE  (k # j0 /\ Mine(<<k, u>>))
                 <=> <<k, u>> \in Tokens(rows, held \cup billed, kd)
    <2>1. CASE rows[k] = NoRow
      <3>1. GrantOf(NoRow) = [phase |-> "none"]
        BY DEF GrantOf
      <3>2. g[k] = [phase |-> "none"]
        BY <1>3, <2>1, <3>1
      <3>3. k \notin held \cup billed
        BY <2>1 DEF KeysWith, NoRow
      <3>4. <<k, u>> \notin Tokens(rows, held \cup billed, kd)
        <4> HIDE DEF held, billed
        <4>. QED
          BY <3>3 DEF Tokens
      <3>5. ~Mine(<<k, u>>)
        BY <3>2
      <3>. QED
        BY <3>4, <3>5
    <2>2. CASE rows[k] # NoRow
      <3>1. rows[k] \in Row /\ k # j0
        BY <1>1, <1>2, <2>2
      <3>2. g[k] = [phase |-> PhaseOf(rows[k].status),
                    pot |-> <<rows[k].month, KindOf[rows[k].body]>>,
                    units |-> UnitsOf[rows[k].body]]
        BY <1>3, <2>2 DEF GrantOf
      <3>3. rows[k].status \in {"reserved", "finalized", "released", "expired"}
        BY <3>1 DEF Row, Settled
      <3>4. PhaseOf(rows[k].status) \in {"held", "billed"}
              <=> rows[k].status \in {"reserved", "finalized"}
        BY <3>3 DEF PhaseOf
      <3>5. Mine(<<k, u>>) <=> /\ rows[k].status \in {"reserved", "finalized"}
                               /\ rows[k].month = m
                               /\ KindOf[rows[k].body] = kd
                               /\ u <= UnitsOf[rows[k].body]
        BY <3>2, <3>4
      <3>6. <<k, u>> \in Tokens(rows, held \cup billed, kd)
              <=> /\ rows[k].status \in {"reserved", "finalized"}
                  /\ rows[k].month = m
                  /\ KindOf[rows[k].body] = kd
                  /\ u <= UnitsOf[rows[k].body]
        BY DEF Tokens, KeysWith
      <3>. QED
        BY <3>1, <3>5, <3>6
    <2>. QED
      BY <2>1, <2>2
  <1>5. {t \in (Keys \ {j0}) \X (1 .. MaxUnits) : Mine(t)} = Tokens(rows, held \cup billed, kd)
    <2> HIDE DEF Mine, held, billed, j0
    <2>1. ASSUME NEW t \in {t \in (Keys \ {j0}) \X (1 .. MaxUnits) : Mine(t)}
          PROVE  t \in Tokens(rows, held \cup billed, kd)
      <3>1. PICK k \in Keys, u \in 1 .. MaxUnits : t = <<k, u>> /\ k # j0 /\ Mine(t)
        BY <2>1
      <3>. QED
        BY <3>1, <1>4
    <2>2. ASSUME NEW t \in Tokens(rows, held \cup billed, kd)
          PROVE  t \in (Keys \ {j0}) \X (1 .. MaxUnits) /\ Mine(t)
      <3>1. PICK k \in held \cup billed, u \in 1 .. MaxUnits : t = <<k, u>>
        BY <2>2 DEF Tokens
      <3>2. k \in Keys
        BY <3>1 DEF held, billed, KeysWith
      <3>3. k # j0 /\ Mine(<<k, u>>)
        BY <1>4, <2>2, <3>1, <3>2
      <3>. QED
        BY <3>1, <3>2, <3>3
    <2>. QED
      BY <2>1, <2>2
  <1>6. Contract!Taken(g, <<m, kd>>, j0) = UnitsIn(rows, held \cup billed, kd)
    <2>1. Contract!Taken(g, <<m, kd>>, j0)
            = Contract!Cardinality({t \in (Keys \ {j0}) \X (1 .. MaxUnits) : Mine(t)})
      BY DEF Contract!Taken
    <2> HIDE DEF Mine, held, billed, j0
    <2>. QED
      BY <1>5, <2>1, SameCardinality DEF UnitsIn
  <1>7. /\ held \subseteq Keys /\ billed \subseteq Keys /\ held \cap billed = {}
    BY DEF KeysWith
  <1>8. UnitsIn(rows, held \cup billed, kd) = UnitsIn(rows, held, kd) + UnitsIn(rows, billed, kd)
    <2> HIDE DEF held, billed
    <2>. QED
      BY <1>7, UnitsSplit
  <1>. QED
    BY <1>6, <1>8 DEF Sum, g, rows

LEMMA CallsUnchanged ==
  ASSUME called' = called, asked' = asked
  PROVE  calls' = calls
  BY DEF calls, Callers, KeyOf

LEMMA ExpiryIsLapse ==
  ASSUME TypeInv, NEW p \in Requests, FindExisting(p)
  PROVE  ContractStep
  <1>1. calls' = calls
    BY CallsUnchanged DEF FindExisting, history
  <1>2. CASE UNCHANGED ledger
    BY <1>1, <1>2 DEF ContractStep, grants, GrantOf, ledger
  <1>3. CASE row' = ExpiredRows(p)
    <2>1. grants' = Contract!Lapsed(TxStale(p))
      BY <1>3, GrantsLapse DEF TypeInv, grants, GrantOf
    <2>2. TxStale(p) \in SUBSET Contract!Held
      BY GrantsLapse DEF TypeInv
    <2>3. Contract!Lapse
      BY <1>1, <2>1, <2>2 DEF Contract!Lapse, grants, calls, Callers
    <2>. QED
      BY <2>3 DEF ContractStep, Contract!Next
  <1>. QED
    BY <1>2, <1>3 DEF FindExisting

LEMMA InsertIsGrant ==
  ASSUME TypeInv, LedgerBalanced, QuotaInv, NEW p \in Requests, Insert(p)
  PROVE  ContractStep
  <1>1. calls' = calls
    BY CallsUnchanged DEF Insert
  <1>2. CASE row[KeyOf(p)] # NoRow
    BY <1>1, <1>2 DEF Insert, ContractStep, grants, GrantOf, ledger
  <1>3. CASE row[KeyOf(p)] = NoRow
    <2> DEFINE j == KeyOf(p)
               m == TxMonth(p)
               kd == KindOf[BodyOf(p)]
               n == UnitsOf[BodyOf(p)]
               new == [status |-> "reserved", month |-> m, body |-> BodyOf(p),
                       expires |-> clock[p].tx + Ttl, processing |-> FALSE]
               lapsed == Contract!Lapsed(TxStale(p))
    <2>1. j \in Keys /\ m \in Months /\ kd \in Kinds /\ n \in 1 .. MaxUnits
      BY MonthOfType DEF TypeInv
    <2>2. grants[j] = Contract!NoGrant
      BY <1>3, <2>1, GrantFacts DEF TypeInv
    <2>3. row' = [ExpiredRows(p) EXCEPT ![j] = new]
      BY <1>3 DEF Insert
    <2>4. GrantOf(new) = [phase |-> "held", pot |-> <<m, kd>>, units |-> n]
      BY DEF GrantOf, PhaseOf, NoRow
    <2>5. grants' = [lapsed EXCEPT ![j] = [phase |-> "held", pot |-> <<m, kd>>, units |-> n]]
      <3>1. lapsed = [k \in Keys |-> GrantOf(ExpiredRows(p)[k])]
        BY GrantsLapse DEF TypeInv
      <3>2. grants' = [k \in Keys |-> GrantOf(row'[k])]
        BY DEF grants, GrantOf
      <3> DEFINE rows == ExpiredRows(p)
      <3>3. rows \in [Keys -> Row \cup {NoRow}]
        BY ExpiredRowsType DEF TypeInv
      <3> HIDE DEF lapsed, new, rows
      <3>4. \A k \in Keys : row'[k] = IF k = j THEN new ELSE rows[k]
        BY <2>3, <3>3 DEF rows
      <3>5. \A k \in Keys : GrantOf(row'[k]) = IF k = j THEN GrantOf(new) ELSE GrantOf(rows[k])
        BY <3>4
      <3>. QED
        BY <2>1, <2>4, <3>1, <3>2, <3>5 DEF rows
    <2>6. Contract!Taken(lapsed, <<m, kd>>, j) + n <= Limit[kd]
      <3>1. Contract!Taken(lapsed, <<m, kd>>, j)
              = Sum(ExpiredRows(p), "reserved", m, kd) + Sum(ExpiredRows(p), "finalized", m, kd)
        BY <1>3, <2>1, TakenIsCounted DEF TypeInv
      <3>2. Sum(ExpiredRows(p), "reserved", m, kd) = StillReserved(p, kd)
        BY <2>1, StillReservedExact DEF TypeInv
      <3>3. Sum(ExpiredRows(p), "finalized", m, kd) = used[m][kd]
        BY <2>1, SumExpire, BalancedDef DEF BalancedAt, TypeInv
      <3>4. ~(used[m][kd] + StillReserved(p, kd) + n > Limit[kd])
        BY DEF Insert, QuotaInv, OverQuota
      <3>5. used[m][kd] \in Nat /\ StillReserved(p, kd) \in Nat /\ n \in Nat /\ Limit[kd] \in Nat
        BY <2>1, StillReservedType, ShapeAssumption DEF TypeInv, TypeOK
      <3> HIDE DEF lapsed, m, kd, n, j
      <3>. QED
        BY <3>1, <3>2, <3>3, <3>4, <3>5
    <2>7. Contract!GrantTo(j)
      <3>1. <<m, kd>> \in Months \X Kinds
        BY <2>1
      <3>2. TxStale(p) \in SUBSET Contract!Held
        BY GrantsLapse DEF TypeInv
      <3>3. [pot \in Months \X Kinds |-> Limit[pot[2]]][<<m, kd>>] = Limit[kd]
        BY <3>1
      <3> HIDE DEF m, kd, n, j
      <3>. QED
        BY <1>1, <2>1, <2>2, <2>5, <2>6, <3>1, <3>2, <3>3
        DEF Contract!GrantTo, grants, calls, Callers
    <2>. QED
      BY <2>1, <2>7 DEF ContractStep, Contract!Next
  <1>. QED
    BY <1>2, <1>3

\* The number of requests that called the provider for a key, when there is at
\* most one of them.
LEMMA CallersCounted ==
  ASSUME NEW k
  PROVE  /\ Callers(k) = {} => Cardinality(Callers(k)) = 0
         /\ \A p : Callers(k) = {p} => Cardinality(Callers(k)) = 1
  BY FS_EmptySet, FS_Singleton

LEMMA CallIsCall ==
  ASSUME TypeInv, ClaimInv, CalledInv, NEW p \in Requests, CallProvider(p)
  PROVE  ContractStep
  <1>0. PICK j \in Keys : j = KeyOf(p)
    BY MonthOfType DEF TypeInv
  <1>1. /\ row' = row /\ asked' = asked /\ called' = called \cup {p}
        /\ called \subseteq Requests
    BY DEF CallProvider, ledger, TypeInv, TypeOK
  <1>2. Claimant(p) /\ p \notin called
    BY LabelFacts DEF CallProvider, Claimant, CalledInv, Settlers, Ended
  <1>3. Callers(j) = {}
    BY <1>0, <1>1, <1>2 DEF Callers, ClaimInv, Claimant
  <1>4. Callers(j)' = {p} /\ \A k : k # j => Callers(k)' = Callers(k)
    BY <1>0, <1>1, <1>3 DEF Callers, KeyOf
  <1>5. row[j] # NoRow
    BY <1>0, <1>2 DEF ClaimInv
  <1>6. grants' = grants /\ grants[j] # Contract!NoGrant
    BY <1>1, <1>5, GrantFacts DEF grants, GrantOf, TypeInv
  <1>7. calls[j] = 0
    BY <1>1, <1>3, CallersCounted DEF calls
  <1>8. calls' = [calls EXCEPT ![j] = 1]
    <2>1. calls' = [k \in Keys |-> Cardinality(Callers(k)')]
      BY DEF calls, Callers, KeyOf
    <2>2. Cardinality(Callers(j)') = 1
      BY <1>4, FS_Singleton
    <2>3. ASSUME NEW k \in Keys
          PROVE  Cardinality(Callers(k)') = IF k = j THEN 1 ELSE calls[k]
      <3>1. CASE k = j
        BY <2>2, <3>1
      <3>2. CASE k # j
        <4>1. Callers(k)' = Callers(k)
          BY <1>4, <3>2
        <4>. QED
          BY <3>2, <4>1 DEF calls
      <3>. QED
        BY <3>1, <3>2
    <2>. QED
      BY <2>1, <2>3 DEF calls
  <1>9. Contract!Call(j)
    BY <1>6, <1>7, <1>8 DEF Contract!Call, grants, calls, Callers
  <1>. QED
    BY <1>1, <1>9 DEF ContractStep, Contract!Next

LEMMA SettleIsClose ==
  ASSUME TypeInv, ClaimInv, CalledInv, NEW p \in Requests, Settle(p)
  PROVE  ContractStep
  <1> DEFINE j == KeyOf(p)
             status == IF p \in served THEN "finalized" ELSE "released"
  <1>1. /\ j \in Keys /\ row[j] \in Row /\ row[j].status = "reserved" /\ row[j] # NoRow
        /\ row \in [Keys -> Row \cup {NoRow}]
    BY MonthOfType DEF Settle, TypeInv, LockInv, TypeOK
  <1>2. calls' = calls
    BY CallsUnchanged DEF Settle, history
  <1>3. row' = [row EXCEPT ![j].status = status]
    BY DEF Settle
  <1>4. calls[j] = 1
    <2>1. p \in called
      BY DEF Settle, CalledInv, Settlers
    <2>2. Callers(j) = {p}
      BY <2>1 DEF Callers, ClaimInv, Claimant, TypeInv, TypeOK
    <2>. QED
      BY <1>1, <2>2, CallersCounted DEF calls
  <1>5. GrantOf(row'[j]) = [grants[j] EXCEPT !.phase = PhaseOf(status)]
    <2>1. row'[j] = [row[j] EXCEPT !.status = status]
      BY <1>1, <1>3
    <2>2. /\ row'[j] # NoRow /\ row'[j].status = status
          /\ row'[j].month = row[j].month /\ row'[j].body = row[j].body
      BY <1>1, <2>1 DEF Row, NoRow
    <2>3. GrantOf(row'[j]) = [phase |-> PhaseOf(status),
                              pot |-> <<row[j].month, KindOf[row[j].body]>>,
                              units |-> UnitsOf[row[j].body]]
      BY <2>2 DEF GrantOf
    <2>4. grants[j] = [phase |-> PhaseOf(row[j].status),
                       pot |-> <<row[j].month, KindOf[row[j].body]>>,
                       units |-> UnitsOf[row[j].body]]
      BY <1>1, GrantFacts DEF TypeInv
    <2>. QED
      BY <2>3, <2>4
  <1>6. PhaseOf(status) \in {"billed", "void"}
    BY DEF PhaseOf
  <1>7. grants[j].phase = "held"
    BY <1>1, GrantFacts DEF TypeInv
  <1> HIDE DEF status
  <1>8. grants' = [grants EXCEPT ![j].phase = PhaseOf(status)]
    <2>1. grants' = [k \in Keys |-> GrantOf(row'[k])]
      BY DEF grants, GrantOf
    <2>2. \A k \in Keys : k # j => row'[k] = row[k]
      BY <1>1, <1>3
    <2>3. \A k \in Keys : GrantOf(row'[k])
                            = IF k = j THEN [grants[j] EXCEPT !.phase = PhaseOf(status)] ELSE grants[k]
      BY <1>5, <2>2 DEF grants
    <2>. QED
      BY <1>1, <2>1, <2>3 DEF grants
  <1>9. Contract!Close(j)
    BY <1>2, <1>4, <1>6, <1>7, <1>8 DEF Contract!Close, grants, calls, Callers
  <1>. QED
    BY <1>1, <1>9 DEF ContractStep, Contract!Next

\* The other steps of a request change nothing that the contract sees.
LEMMA OtherIsStutter ==
  ASSUME TypeInv, NEW q \in Requests, Act(q), ~FindExisting(q), ~Insert(q), ~Settle(q),
         ~CallProvider(q)
  PROVE  ContractStep
  <1>1. grants' = grants
    BY OtherSteps, GrantsSame DEF TypeInv
  <1>2. called' = called /\ asked' = asked
    BY DEF Act, Step, Arrive, Admit, LockMonth, CheckQuota, BeginClaim, Claim, ProviderReturns,
           SettleRow, AbortDeadlock, Die, history
  <1>. QED
    BY <1>1, <1>2, CallsUnchanged DEF ContractStep

LEMMA NextContract ==
  TypeInv /\ LedgerBalanced /\ QuotaInv /\ ClaimInv /\ CalledInv /\ [Next]_vars => ContractStep
  <1> SUFFICES ASSUME TypeInv, LedgerBalanced, QuotaInv, ClaimInv, CalledInv, [Next]_vars
               PROVE  ContractStep
    OBVIOUS
  <1>1. ASSUME NEW q \in Requests, Act(q)
        PROVE  ContractStep
    BY <1>1, ExpiryIsLapse, InsertIsGrant, CallIsCall, SettleIsClose, OtherIsStutter
  <1>2. CASE Tick \/ ChangeAccount \/ UNCHANGED vars
    <2>1. row' = row /\ called' = called /\ asked' = asked
      BY <1>2 DEF Tick, ChangeAccount, vars, ledger, history
    <2>. QED
      BY <2>1, CallsUnchanged DEF ContractStep, grants, GrantOf
  <1>. QED
    BY <1>1, <1>2, NextCases

LEMMA InitContract == Init => Contract!Init
  <1> SUFFICES ASSUME Init
               PROVE  Contract!Init
    OBVIOUS
  <1>1. grants = [k \in Keys |-> Contract!NoGrant]
    BY DEF Init, grants, GrantOf, Contract!NoGrant
  <1>2. calls = [k \in Keys |-> 0]
    <2>1. \A k \in Keys : Callers(k) = {}
      BY DEF Init, Callers
    <2>. QED
      BY <2>1, FS_EmptySet DEF calls
  <1>. QED
    BY <1>1, <1>2 DEF Contract!Init, grants, calls, Callers

\* The reservation tables implement the contract of metered processing, for any
\* number of requests, keys, months and kinds: every step of a request, a crash or
\* an expiry is a grant within the cap, a lapse, a single call, a single settlement,
\* or nothing the contract sees.
THEOREM ContractIsImplemented == Spec => ImplementsContract
  <1>1. Init => ClaimInv /\ QuotaInv /\ CalledInv
    BY ShapeAssumption, LabelFacts DEF Init, ClaimInv, Claimant, QuotaInv, CalledInv, Settlers
  <1>2. TypeInv /\ CalledInv /\ [Next]_vars => CalledInv'
    <2> SUFFICES ASSUME TypeInv, CalledInv, [Next]_vars
                 PROVE  CalledInv'
      OBVIOUS
    <2>1. CASE Tick \/ ChangeAccount \/ UNCHANGED vars
      BY <2>1 DEF Tick, ChangeAccount, vars, history, CalledInv
    <2>. QED
      BY <2>1, NextCases, ActCalled DEF TypeInv
  <1>3. ContractStep => [Contract!Next]_<<[k \in Keys |-> GrantOf(row[k])],
                          [k \in Keys |-> Cardinality({p \in called : KeyOf(p) = k})]>>
    BY DEF ContractStep, grants, calls, Callers
  <1>. QED
    BY <1>1, <1>2, <1>3, InitTypeInv, NextTypeInv, InitBalanced, NextBalanced, NextQuota, NextClaims,
       InitContract, NextContract, PTL
    DEF Spec, ImplementsContract, Contract!Spec

=============================================================================
