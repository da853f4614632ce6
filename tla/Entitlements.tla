------------------------------ MODULE Entitlements ------------------------------
(***************************************************************************)
(* Which of an account's rights the entitlement shows: the projections of  *)
(* Stripe and Apple and the writers of grants run side by side, and each   *)
(* recomputes the one row at the end of its transaction                    *)
(* (recompute_pressay_entitlement).                                        *)
(*                                                                         *)
(* A transaction keeps the now() it started with.  Its writes are visible  *)
(* when it commits; what it reads after it waited for the row's lock is    *)
(* what the others have committed until then.                              *)
(***************************************************************************)
EXTENDS Integers, FiniteSetsExt

CONSTANTS
  Purchases,    \* rows of billing_subscription
  SandboxRows,  \* those bought in Apple's Sandbox
  Grants,       \* rows of access_grant
  Writers,      \* transactions that run at the same time
  Terms,        \* lengths of grants and periods, in days
  LastEnd,      \* bound of what grants are extended to
  LastDay       \* bound of the clock

ASSUME SandboxAssumption == SandboxRows \subseteq Purchases /\ Purchases \cap Grants = {}
\* A table has finitely many rows.
ASSUME SourcesAssumption == IsFiniteSet(Purchases \cup Grants)
ASSUME DayAssumption == LastDay \in Nat /\ LastEnd \in Nat /\ Terms \subseteq Nat \ {0}

VARIABLES
  day,          \* the clock: a "day" is any difference between two now()
  right,        \* what is committed of each row
  access,       \* entitlement, and the now() of the transaction that wrote it
  holder,       \* who holds the entitlement's row lock
  writer        \* the open transactions

entitlementVars == <<day, right, access, holder, writer>>

-----------------------------------------------------------------------------
(* Types *)

Sources == Purchases \cup Grants
Nobody == "nobody"
Days == 0 .. LastDay
Right == [from : Days, until : Nat]
\* Never given, or revoked, refunded, expired.
NoRight == [from |-> 0, until |-> 0]
Access == [until : Nat, sandbox : BOOLEAN, asOf : Days]
NoAccess == [until |-> 0, sandbox |-> FALSE, asOf |-> 0]

WriterKinds == {"project", "claim", "give", "extend", "revoke"}
IdleWriter == [step |-> "idle"]
ASSUME WritersAssumption == Nobody \notin Writers
Writer == [step : {"begun", "computed"}, kind : WriterKinds, source : Sources,
           length : Terms, began : Days, right : Right, access : Access]

EntitlementsTypeOK ==
  /\ day \in Days
  /\ right \in [Sources -> Right]
  /\ access \in Access
  /\ holder \in Writers \cup {Nobody}
  /\ writer \in [Writers -> Writer \cup {IdleWriter}]

EntitlementsInit ==
  /\ day = 0
  /\ right = [s \in Sources |-> NoRight]
  /\ access = NoAccess
  /\ holder = Nobody
  /\ writer = [w \in Writers |-> IdleWriter]

-----------------------------------------------------------------------------
(* The choice *)

\* A grant counts once it has started; a period has no such test.
LiveAt(rights, time) ==
  {s \in Sources : /\ rights[s].until > time
                   /\ s \in Grants => rights[s].from <= time}

\* Paid rights and grants before those of the Sandbox, then the one that lasts longest.
Candidates(rights, time) ==
  LET live == LiveAt(rights, time)
  IN  IF live \subseteq SandboxRows THEN live ELSE live \ SandboxRows

Recompute(rights, time) ==
  LET best == Candidates(rights, time)
  IN  [until   |-> IF best = {} THEN 0 ELSE Max({rights[s].until : s \in best}),
       sandbox |-> best # {} /\ best \subseteq SandboxRows,
       asOf    |-> time]

-----------------------------------------------------------------------------
(* The writers *)

Begin(w, kind, s, length) ==
  /\ writer[w] = IdleWriter
  /\ (kind = "project") <=> (s \in Purchases)
  /\ kind \in {"claim", "give"} =>
       /\ right[s] = NoRight
       /\ \A v \in Writers : writer[v] # IdleWriter => writer[v].source # s
  /\ writer' = [writer EXCEPT ![w] =
       [step |-> "begun", kind |-> kind, source |-> s, length |-> length, began |-> day,
        right |-> NoRight, access |-> NoAccess]]
  /\ UNCHANGED <<day, right, access, holder>>

\* What the writer makes of its row: a period that is renewed or that ended, a new
\* grant, one that is extended from its end or from now, or one that is revoked.
Written(w) ==
  LET now == writer[w].began
      old == right[writer[w].source]
      later == [from |-> old.from, until |-> Max({old.until, now}) + writer[w].length]
  IN  CASE writer[w].kind = "project" ->
             {NoRight, [from |-> 0, until |-> now + writer[w].length]}
        [] writer[w].kind \in {"claim", "give"} ->
             {[from |-> now, until |-> now + writer[w].length]}
        [] writer[w].kind = "extend" -> IF old = NoRight \/ later.until > LastEnd THEN {} ELSE {later}
        [] writer[w].kind = "revoke" -> {NoRight}

\* A code is refused when it adds nothing to what the account has.
Improves(w) ==
  writer[w].kind = "claim" =>
    Recompute(right, writer[w].began).until < writer[w].began + writer[w].length

\* Faulty variant of Lockable: the entitlement is not locked.
LockableAlways == TRUE

Lockable == holder = Nobody

\* The lock, the write of its row and the choice, as the transaction sees them.
Compute(w) ==
  /\ writer[w] # IdleWriter /\ writer[w].step = "begun"
  /\ Lockable
  /\ Improves(w)
  /\ \E new \in Written(w) :
       LET rights == [right EXCEPT ![writer[w].source] = new]
       IN  writer' = [writer EXCEPT ![w] =
             [writer[w] EXCEPT !.step = "computed", !.right = new,
                               !.access = Recompute(rights, writer[w].began)]]
  /\ holder' = w
  /\ UNCHANGED <<day, right, access>>

CommitWriter(w) ==
  /\ writer[w] # IdleWriter /\ writer[w].step = "computed"
  /\ right' = [right EXCEPT ![writer[w].source] = writer[w].right]
  /\ access' = writer[w].access
  /\ holder' = Nobody
  /\ writer' = [writer EXCEPT ![w] = IdleWriter]
  /\ UNCHANGED day

\* It is refused, fails or is cut off: the transaction leaves nothing.
RollBack(w) ==
  /\ writer[w] # IdleWriter
  /\ holder' = IF holder = w THEN Nobody ELSE holder
  /\ writer' = [writer EXCEPT ![w] = IdleWriter]
  /\ UNCHANGED <<day, right, access>>

NextDay ==
  /\ day < LastDay
  /\ day' = day + 1
  /\ UNCHANGED <<right, access, holder, writer>>

EntitlementsNext ==
  \/ \E w \in Writers :
       \/ \E kind \in WriterKinds, s \in Sources, length \in Terms : Begin(w, kind, s, length)
       \/ Compute(w) \/ CommitWriter(w) \/ RollBack(w)
  \/ NextDay

EntitlementsSpec == EntitlementsInit /\ [][EntitlementsNext]_entitlementVars

-----------------------------------------------------------------------------
(* Properties *)

\* effectiveEntitlement: what the account may use today.
Effective == access.until > day

\* A grant that had not started for the transaction that wrote the entitlement last.
Unseen(s) == s \in Grants /\ right[s].from > access.asOf

\* Whoever writes at the same time, an account is shown the right that lasts longest,
\* a paid one or a grant before one of the Sandbox, and is shown none it does not
\* have; a grant younger than the transaction that recomputed last is overlooked.
ShowsBestRight ==
  LET live == {s \in LiveAt(right, day) \ SandboxRows : ~Unseen(s)}
  IN  /\ live # {} => access.until = Max({right[s].until : s \in live}) /\ ~access.sandbox
      /\ Effective =>
           \E s \in Sources : /\ right[s].until = access.until
                              /\ access.sandbox <=> s \in SandboxRows

=============================================================================
