------------------------------- MODULE BillingProofs -------------------------------
(***************************************************************************)
(* Proofs of Checkout, Entitlements and AppleSubscriptions, for any number *)
(* of requests, keys, rights, functions and purchases.                     *)
(*                                                                         *)
(* Checkout rests on its lease, which outlives the function that takes it: *)
(* one request at a time opens, closes and lists sessions (LeaseInv).  The *)
(* entitlement rests on the lock of the account (EntitlementsInv), the row *)
(* of a purchase on the time of Apple's signature (TrueOrOlder, ToldInv).  *)
(***************************************************************************)
EXTENDS Checkout, Entitlements, AppleSubscriptions, FiniteSetTheorems,
        WellFoundedInduction, TLAPS

-----------------------------------------------------------------------------
(* CHECKOUT                                                                *)

(* The inductive invariant *)

\* From the lease to its release.
InSection(r) == checkout[r].step \in Working \ {"leasing"}

\* A request works for as long as its function lives, and the lease that it has taken
\* outlives it: nobody else takes it meanwhile.
LeaseInv(r) ==
  /\ checkout[r].step \in Working =>
       checkout[r].born <= clock /\ clock <= checkout[r].born + FunctionTime
  /\ InSection(r) => lease.holder = r /\ checkout[r].born + LeaseTime <= lease.until

\* The sessions that a request has listed, to expire or to keep, are all there are.
ListInv(r) ==
  /\ checkout[r].step = "expiring" =>
       OpenSessions \subseteq checkout[r].todo \cup {checkout[r].url}
  /\ checkout[r].step = "creating" => OpenSessions = {}

\* Without a payment between its two lists, what a request saw of the subscriptions
\* still is so, or it will meet the session that was paid since.
PaymentInv(r) ==
  /\ checkout[r].step \in {"sessions", "creating"} /\ ~checkout[r].late => LiveSubscriptions = {}
  /\ checkout[r].step = "expiring" /\ ~checkout[r].late /\ LiveSubscriptions # {} =>
       \/ checkout[r].url # NoSession
       \/ \E k \in checkout[r].todo : session[k].state \in {"complete", "expired"}

AtMostOne(S) == \A k, l \in S : k = l

NoneOvertaken == \A k \in CheckoutKeys : session[k] # Unmade => ~session[k].overtaken

\* Nothing can be paid next to a subscription.
OnlyPaid ==
  NoneOvertaken => /\ AtMostOne(LiveSubscriptions)
                   /\ LiveSubscriptions # {} => OpenSessions = {}

CheckoutInv ==
  /\ CheckoutTypeOK
  /\ \A r \in Requests : LeaseInv(r) /\ ListInv(r) /\ PaymentInv(r)
  /\ AtMostOne(OpenSessions)
  /\ OnlyPaid

-----------------------------------------------------------------------------
(* Records *)

RequestSteps == Working \cup {"done"}

LEMMA RequestRecord ==
  ASSUME CheckoutTypeOK, NEW r \in Requests, checkout[r].step \in RequestSteps
  PROVE  checkout[r] \in Request
  BY DEF CheckoutTypeOK, RequestSteps, Working, NotSent

LEMMA OwnRequest ==
  ASSUME CheckoutTypeOK, NEW r \in Requests, NEW new \in Request,
         checkout' = [checkout EXCEPT ![r] = new]
  PROVE  /\ checkout'[r] = new
         /\ \A o \in Requests : o # r => checkout'[o] = checkout[o]
         /\ checkout' \in [Requests -> Request \cup {NotSent}]
  BY DEF CheckoutTypeOK

\* A step of a request: it is served since the same second, and no other is touched.
Served(r, step) ==
  /\ checkout'[r] \in Request /\ checkout'[r].step = step
  /\ checkout'[r].born = checkout[r].born
  /\ checkout'[r].late <=> checkout[r].late
  /\ \A o \in Requests : o # r => checkout'[o] = checkout[o]
  /\ checkout' \in [Requests -> Request \cup {NotSent}]

LEMMA Changing ==
  ASSUME CheckoutTypeOK, NEW r \in Requests, checkout[r].step \in RequestSteps,
         NEW step \in RequestSteps, NEW url \in CheckoutKeys \cup {NoSession},
         NEW todo \in SUBSET CheckoutKeys,
         checkout' = [checkout EXCEPT ![r] = [checkout[r] EXCEPT !.step = step, !.url = url,
                                                                 !.todo = todo]]
  PROVE  /\ Served(r, step) /\ checkout'[r].url = url
         /\ \A k : k \in checkout'[r].todo <=> k \in todo
<1> DEFINE old == checkout[r]
           new == [old EXCEPT !.step = step, !.url = url, !.todo = todo]
<1>1. old \in Request /\ checkout' = [checkout EXCEPT ![r] = new]
  BY RequestRecord
<1> HIDE DEF old
<1>2. /\ new \in Request /\ new.step = step /\ new.url = url /\ new.todo = todo
      /\ new.born = old.born
      /\ new.late <=> old.late
  BY <1>1 DEF Request, RequestSteps
<1> HIDE DEF new
<1>3. /\ checkout'[r] = new
      /\ \A o \in Requests : o # r => checkout'[o] = checkout[o]
      /\ checkout' \in [Requests -> Request \cup {NotSent}]
  BY <1>1, <1>2, OwnRequest
<1>4. QED
  BY <1>2, <1>3 DEF Served, old

LEMMA Moving ==
  ASSUME CheckoutTypeOK, NEW r \in Requests, checkout[r].step \in RequestSteps,
         NEW step \in RequestSteps, Moves(r, step)
  PROVE  Served(r, step) /\ checkout'[r].url = checkout[r].url /\ checkout'[r].todo = checkout[r].todo
<1> DEFINE old == checkout[r]
           new == [old EXCEPT !.step = step]
<1>1. old \in Request /\ checkout' = [checkout EXCEPT ![r] = new]
  BY RequestRecord DEF Moves
<1> HIDE DEF old
<1>2. /\ new \in Request /\ new.step = step /\ new.url = old.url /\ new.todo = old.todo
      /\ new.born = old.born
      /\ new.late <=> old.late
  BY <1>1 DEF Request, RequestSteps
<1> HIDE DEF new
<1>3. /\ checkout'[r] = new
      /\ \A o \in Requests : o # r => checkout'[o] = checkout[o]
      /\ checkout' \in [Requests -> Request \cup {NotSent}]
  BY <1>1, <1>2, OwnRequest
<1>4. QED
  BY <1>2, <1>3 DEF Served, old

LEMMA Answering ==
  ASSUME CheckoutTypeOK, NEW r \in Requests, checkout[r].step \in RequestSteps,
         NEW url \in CheckoutKeys \cup {NoSession}, Answers(r, url)
  PROVE  Served(r, "releasing")
<1>1. "releasing" \in RequestSteps /\ {} \in SUBSET CheckoutKeys
  BY DEF RequestSteps, Working
<1>2. checkout' = [checkout EXCEPT ![r] = [checkout[r] EXCEPT !.step = "releasing", !.url = url,
                                                             !.todo = {}]]
  BY DEF Answers, CheckoutTypeOK
<1>3. QED
  BY <1>1, <1>2, Changing

-----------------------------------------------------------------------------
(* The lease *)

LEMMA LeaseNumbers == LeaseTime \in Nat /\ FunctionTime \in Nat /\ FunctionTime < LeaseTime
  BY LeaseAssumption

LEMMA RequestNumbers ==
  ASSUME CheckoutTypeOK, NEW r \in Requests, checkout[r].step \in RequestSteps
  PROVE  checkout[r].born \in Nat /\ clock \in Nat /\ lease.until \in Nat
<1>1. checkout[r] \in Request
  BY RequestRecord
<1>2. QED
  BY <1>1, CheckoutClockAssumption DEF CheckoutTypeOK, Request

LEMMA SectionIsStep == Working \ {"leasing"} \subseteq RequestSteps
  BY DEF RequestSteps

\* Who is in the section is alone there, and its lease is not free.
LEMMA OneInSection ==
  ASSUME CheckoutInv, NEW r \in Requests, InSection(r)
  PROVE  /\ ~LeaseFree
         /\ \A o \in Requests : InSection(o) => o = r
<1>1. lease.holder = r /\ \A o \in Requests : InSection(o) => lease.holder = o
  BY DEF CheckoutInv, LeaseInv
<1>2. lease # NoLease
  BY <1>1, CheckoutNamesAssumption DEF NoLease
<1>3. lease.until > clock
  <2>1. checkout[r].step \in Working /\ checkout[r].step \in RequestSteps
    BY DEF InSection, RequestSteps
  <2>2. checkout[r].born \in Nat /\ clock \in Nat /\ lease.until \in Nat
    BY <2>1, RequestNumbers DEF CheckoutInv
  <2>3. clock <= checkout[r].born + FunctionTime /\ checkout[r].born + LeaseTime <= lease.until
    BY <2>1 DEF CheckoutInv, LeaseInv
  <2>4. QED
    BY <2>2, <2>3, LeaseNumbers
<1>4. QED
  BY <1>1, <1>2, <1>3 DEF LeaseFree, CheckoutInv, CheckoutTypeOK

-----------------------------------------------------------------------------
(* Steps that change no session *)

LEMMA RequestIsSent ==
  ASSUME NEW q \in Request
  PROVE  q # NotSent /\ q.step \in RequestSteps
<1>1. q.step \in RequestSteps /\ NotSent.step = "new"
  BY DEF Request, RequestSteps, NotSent
<1>2. QED
  BY <1>1 DEF RequestSteps, Working

\* What holds of the other requests holds still, when no session changes and nobody
\* else has taken the lease.
LEMMA OthersStay ==
  ASSUME CheckoutInv, NEW r \in Requests,
         \A o \in Requests : o # r => checkout'[o] = checkout[o],
         UNCHANGED <<clock, session, subscription>>,
         lease' = lease \/ \A o \in Requests : o # r => ~InSection(o),
         LeaseInv(r)', ListInv(r)', PaymentInv(r)', CheckoutTypeOK'
  PROVE  CheckoutInv'
<1>1. /\ OpenSessions' = OpenSessions /\ LiveSubscriptions' = LiveSubscriptions
      /\ NoneOvertaken' <=> NoneOvertaken
  BY DEF OpenSessions, LiveSubscriptions, NoneOvertaken
<1>2. ASSUME NEW o \in Requests, o # r
      PROVE  LeaseInv(o)' /\ ListInv(o)' /\ PaymentInv(o)'
  <2>1. LeaseInv(o) /\ ListInv(o) /\ PaymentInv(o)
    BY DEF CheckoutInv
  <2>2. checkout'[o] = checkout[o] /\ (lease' = lease \/ ~InSection(o))
    BY <1>2
  <2>3. LeaseInv(o)'
    BY <2>1, <2>2 DEF LeaseInv, InSection
  <2>4. ListInv(o)' /\ PaymentInv(o)'
    BY <1>1, <2>1, <2>2 DEF ListInv, PaymentInv
  <2>5. QED
    BY <2>3, <2>4
<1>3. \A o \in Requests : LeaseInv(o)' /\ ListInv(o)' /\ PaymentInv(o)'
  BY <1>2
<1>4. AtMostOne(OpenSessions)' /\ OnlyPaid'
  BY <1>1 DEF CheckoutInv, AtMostOne, OnlyPaid
<1>5. QED
  BY <1>3, <1>4 DEF CheckoutInv

\* Steps at which a request has not listed the sessions, or has answered.
Elsewhere == RequestSteps \ {"sessions", "expiring", "creating"}

\* A request moves on within the section, or leaves it.
LEMMA PlainStep ==
  ASSUME CheckoutInv, NEW r \in Requests, checkout[r].step \in Working,
         NEW step \in Elsewhere, Served(r, step),
         step \in Working \ {"leasing"} => InSection(r),
         UNCHANGED <<clock, lease, session, subscription>>, CheckoutTypeOK'
  PROVE  CheckoutInv'
<1>1. LeaseInv(r)'
  BY DEF CheckoutInv, LeaseInv, InSection, Served
<1>2. ListInv(r)' /\ PaymentInv(r)'
  BY DEF ListInv, PaymentInv, Served, Elsewhere
<1>3. QED
  BY <1>1, <1>2, OthersStay DEF Served

LEMMA ReadContextStep ==
  ASSUME CheckoutInv, NEW r \in Requests, NEW k \in CheckoutKeys, NEW p \in Prices,
         ReadContext(r, k, p)
  PROVE  CheckoutInv'
<1> DEFINE live == apple \/ \E s \in CheckoutKeys : projected[s] = "live"
           known == customer = "known"
           step == IF live THEN "done" ELSE "leasing"
           new == [step |-> step, key |-> k, price |-> p, born |-> clock, known |-> known,
                   late |-> FALSE, todo |-> {}, url |-> NoSession]
<1>t. CheckoutTypeOK
  BY DEF CheckoutInv
<1>1. /\ checkout' = [checkout EXCEPT ![r] = new]
      /\ UNCHANGED <<clock, lease, accepted, projected, apple, customer, session, subscription>>
  BY DEF ReadContext, checkoutTables, checkoutStripe
<1>2. step \in {"done", "leasing"} /\ known \in BOOLEAN /\ clock \in 0 .. MaxClock
  BY <1>t DEF CheckoutTypeOK
<1> HIDE DEF step, known
<1>3. new \in Request /\ new.step = step /\ new.born = clock
  BY <1>2 DEF Request, Working
<1> HIDE DEF new
<1>4. /\ checkout'[r] = new
      /\ \A o \in Requests : o # r => checkout'[o] = checkout[o]
      /\ checkout' \in [Requests -> Request \cup {NotSent}]
  BY <1>t, <1>1, <1>3, OwnRequest
<1>5. LeaseInv(r)'
  BY <1>1, <1>2, <1>3, <1>4, LeaseNumbers DEF LeaseInv, InSection, Working
<1>6. ListInv(r)' /\ PaymentInv(r)'
  BY <1>2, <1>3, <1>4 DEF ListInv, PaymentInv
<1>7. CheckoutTypeOK'
  BY <1>t, <1>1, <1>4 DEF CheckoutTypeOK
<1>8. QED
  BY <1>1, <1>4, <1>5, <1>6, <1>7, OthersStay

\* acquireCheckoutLease: a free lease means that nobody is in the section.
LEMMA AcquireLeaseStep ==
  ASSUME CheckoutInv, NEW r \in Requests, AcquireLease(r)
  PROVE  CheckoutInv'
<1>t. CheckoutTypeOK
  BY DEF CheckoutInv
<1>1. /\ checkout[r].step = "leasing"
      /\ UNCHANGED <<clock, accepted, projected, apple, customer, session, subscription>>
  BY DEF AcquireLease, Stands, checkoutStripe
<1>2. checkout[r].step \in RequestSteps /\ checkout[r].step \in Working /\ ~InSection(r)
  BY <1>1 DEF RequestSteps, Working, InSection
<1>3. CASE LeaseFree
  <2>1. lease' = [holder |-> r, until |-> clock + LeaseTime] /\ Moves(r, "consenting")
    BY <1>3 DEF AcquireLease
  <2>2. Served(r, "consenting")
    BY <1>t, <1>2, <2>1, Moving DEF RequestSteps, Working
  <2>3. \A o \in Requests : ~InSection(o)
    BY <1>3, OneInSection
  <2>4. checkout[r].born \in Nat /\ clock \in Nat
    BY <1>t, <1>2, RequestNumbers
  <2>5. LeaseInv(r)'
    <3>1. checkout[r].born <= clock /\ clock <= checkout[r].born + FunctionTime
      BY <1>2 DEF CheckoutInv, LeaseInv
    <3>2. checkout[r].born + LeaseTime <= clock + LeaseTime
      BY <2>4, <3>1, LeaseNumbers
    <3>3. lease'.holder = r /\ lease'.until = clock + LeaseTime
      BY <2>1
    <3>4. QED
      BY <1>1, <2>2, <3>1, <3>2, <3>3 DEF LeaseInv, InSection, Served
  <2>6. ListInv(r)' /\ PaymentInv(r)'
    BY <2>2 DEF ListInv, PaymentInv, Served
  <2>7. CheckoutTypeOK'
    <3>1. lease' \in [holder : Requests \cup {NoSession}, until : Nat]
      BY <2>1, <2>4, LeaseNumbers
    <3>2. QED
      BY <1>t, <1>1, <2>2, <3>1 DEF CheckoutTypeOK, Served
  <2>8. QED
    BY <1>1, <2>2, <2>3, <2>5, <2>6, <2>7, OthersStay DEF Served
<1>4. CASE ~LeaseFree
  <2>1. lease' = lease /\ Moves(r, "done")
    BY <1>4 DEF AcquireLease
  <2>2. Served(r, "done")
    BY <1>t, <1>2, <2>1, Moving DEF RequestSteps
  <2>3. CheckoutTypeOK'
    BY <1>t, <1>1, <2>1, <2>2 DEF CheckoutTypeOK, Served
  <2>4. "done" \in Elsewhere /\ "done" \notin Working
    BY DEF Elsewhere, RequestSteps, Working
  <2>5. QED
    BY <1>1, <1>2, <2>1, <2>2, <2>3, <2>4, PlainStep
<1>5. QED
  BY <1>3, <1>4

LEMMA ReleaseLeaseStep ==
  ASSUME CheckoutInv, NEW r \in Requests, ReleaseLease(r)
  PROVE  CheckoutInv'
<1>t. CheckoutTypeOK
  BY DEF CheckoutInv
<1>1. /\ checkout[r].step = "releasing" /\ Moves(r, "done")
      /\ UNCHANGED <<clock, accepted, projected, apple, customer, session, subscription>>
      /\ lease' = lease \/ (lease.holder = r /\ lease' = NoLease)
  BY DEF ReleaseLease, Stands, checkoutStripe
<1>2. checkout[r].step \in RequestSteps /\ checkout[r].step \in Working /\ InSection(r)
  BY <1>1 DEF RequestSteps, Working, InSection
<1>3. Served(r, "done")
  BY <1>t, <1>1, <1>2, Moving DEF RequestSteps
<1>4. LeaseInv(r)' /\ ListInv(r)' /\ PaymentInv(r)'
  BY <1>3 DEF LeaseInv, InSection, ListInv, PaymentInv, Served, Working
<1>5. \A o \in Requests : o # r => ~InSection(o)
  BY <1>2, OneInSection
<1>6. CheckoutTypeOK'
  <2>1. lease' \in [holder : Requests \cup {NoSession}, until : Nat]
    BY <1>t, <1>1 DEF CheckoutTypeOK, NoLease
  <2>2. QED
    BY <1>t, <1>1, <1>3, <2>1 DEF CheckoutTypeOK, Served
<1>7. QED
  BY <1>1, <1>3, <1>4, <1>5, <1>6, OthersStay DEF Served

\* The steps that neither list nor create.
LEMMA PlainSteps ==
  ASSUME CheckoutInv, NEW r \in Requests,
         \/ RecordConsent(r) \/ CreateStripeCustomer(r) \/ NameCustomer(r)
         \/ CheckoutFails(r) \/ Killed(r)
  PROVE  CheckoutInv'
<1>t. CheckoutTypeOK
  BY DEF CheckoutInv
<1>s. {"customer", "naming", "subscriptions", "releasing", "done"} \subseteq Elsewhere
  BY DEF Elsewhere, RequestSteps, Working
<1>0. ASSUME NEW step \in Elsewhere, Served(r, step), checkout[r].step \in Working,
             step = "done" \/ InSection(r),
             UNCHANGED <<clock, lease, projected, apple, session, subscription>>,
             customer' \in {"none", "stripe", "known"}, accepted' \in SUBSET CheckoutKeys
      PROVE  CheckoutInv'
  <2>1. CheckoutTypeOK'
    BY <1>t, <1>0 DEF CheckoutTypeOK, Served
  <2>2. "done" \notin Working
    BY DEF Working
  <2>3. QED
    BY <1>0, <2>1, <2>2, PlainStep
<1>1. CASE RecordConsent(r)
  <2>1. /\ checkout[r].step = "consenting"
        /\ Moves(r, IF checkout[r].known THEN "subscriptions" ELSE "customer")
        /\ accepted' = accepted \cup {checkout[r].key}
        /\ UNCHANGED <<clock, lease, projected, apple, customer, session, subscription>>
    BY <1>1 DEF RecordConsent, Stands, checkoutStripe
  <2>2. checkout[r].step \in RequestSteps /\ checkout[r].step \in Working /\ InSection(r)
    BY <2>1 DEF RequestSteps, Working, InSection
  <2>3. \E step \in {"subscriptions", "customer"} : Moves(r, step)
    BY <2>1
  <2>4. \E step \in {"subscriptions", "customer"} : Served(r, step)
    BY <1>t, <2>2, <2>3, Moving DEF RequestSteps, Working
  <2>5. checkout[r].key \in CheckoutKeys
    BY <1>t, <2>2, RequestRecord DEF Request
  <2>6. QED
    BY <1>t, <1>0, <1>s, <2>1, <2>2, <2>4, <2>5 DEF CheckoutTypeOK
<1>2. CASE CreateStripeCustomer(r) \/ NameCustomer(r)
  <2>1. /\ checkout[r].step \in {"customer", "naming"}
        /\ \E step \in {"naming", "subscriptions"} : Moves(r, step)
        /\ customer' \in {customer, "stripe", "known"}
        /\ UNCHANGED <<clock, lease, accepted, projected, apple, session, subscription>>
    BY <1>2 DEF CreateStripeCustomer, NameCustomer, Stands, checkoutTables, checkoutStripe
  <2>2. checkout[r].step \in RequestSteps /\ checkout[r].step \in Working /\ InSection(r)
    BY <2>1 DEF RequestSteps, Working, InSection
  <2>3. \E step \in {"naming", "subscriptions"} : Served(r, step)
    BY <1>t, <2>1, <2>2, Moving DEF RequestSteps, Working
  <2>4. QED
    BY <1>t, <1>0, <1>s, <2>1, <2>2, <2>3 DEF CheckoutTypeOK
<1>3. CASE CheckoutFails(r)
  <2>1. /\ checkout[r].step \in Working \ {"leasing"} /\ Answers(r, NoSession)
        /\ UNCHANGED <<clock, lease, accepted, projected, apple, customer, session, subscription>>
    BY <1>3 DEF CheckoutFails, checkoutTables, checkoutStripe
  <2>2. checkout[r].step \in RequestSteps /\ InSection(r)
    BY <2>1 DEF RequestSteps, InSection
  <2>3. Served(r, "releasing")
    BY <1>t, <2>1, <2>2, Answering
  <2>4. QED
    BY <1>t, <1>0, <1>s, <2>1, <2>2, <2>3 DEF CheckoutTypeOK
<1>4. CASE Killed(r)
  <2>1. /\ checkout[r].step \in Working
        /\ checkout' = [checkout EXCEPT ![r] = [checkout[r] EXCEPT !.step = "done",
                                                  !.url = NoSession, !.todo = {}]]
        /\ UNCHANGED <<clock, lease, accepted, projected, apple, customer, session, subscription>>
    BY <1>t, <1>4 DEF Killed, CheckoutTypeOK, checkoutTables, checkoutStripe
  <2>2. checkout[r].step \in RequestSteps /\ "done" \in RequestSteps /\ {} \in SUBSET CheckoutKeys
    BY <2>1 DEF RequestSteps
  <2>3. Served(r, "done")
    BY <1>t, <2>1, <2>2, Changing
  <2>4. QED
    BY <1>t, <1>0, <1>s, <2>1, <2>3 DEF CheckoutTypeOK
<1>5. QED
  BY <1>1, <1>2, <1>3, <1>4

-----------------------------------------------------------------------------
(* The two lists *)

LEMMA ListSubscriptionsStep ==
  ASSUME CheckoutInv, NEW r \in Requests, ListSubscriptions(r)
  PROVE  CheckoutInv'
<1>t. CheckoutTypeOK
  BY DEF CheckoutInv
<1>1. /\ checkout[r].step = "subscriptions"
      /\ UNCHANGED <<clock, lease, accepted, projected, apple, customer, session, subscription>>
  BY DEF ListSubscriptions, Stands, checkoutTables, checkoutStripe
<1>2. checkout[r].step \in RequestSteps /\ checkout[r].step \in Working /\ InSection(r)
  BY <1>1 DEF RequestSteps, Working, InSection
<1>3. CASE AlreadySubscribed
  <2>1. Served(r, "releasing")
    BY <1>t, <1>2, <1>3, Answering DEF ListSubscriptions
  <2>2. CheckoutTypeOK'
    BY <1>t, <1>1, <2>1 DEF CheckoutTypeOK, Served
  <2>3. QED
    BY <1>1, <1>2, <2>1, <2>2, PlainStep DEF Elsewhere, RequestSteps, Working
<1>4. CASE ~AlreadySubscribed
  <2>1. Served(r, "sessions")
    BY <1>t, <1>2, <1>4, Moving DEF ListSubscriptions, RequestSteps, Working
  <2>2. CheckoutTypeOK'
    BY <1>t, <1>1, <2>1 DEF CheckoutTypeOK, Served
  <2>3. LiveSubscriptions' = {}
    BY <1>1, <1>4 DEF AlreadySubscribed, LiveSubscriptions
  <2>4. LeaseInv(r)'
    BY <1>1, <1>2, <2>1 DEF CheckoutInv, LeaseInv, InSection, Served
  <2>5. ListInv(r)' /\ PaymentInv(r)'
    BY <2>1, <2>3 DEF ListInv, PaymentInv, Served
  <2>6. QED
    BY <1>1, <2>1, <2>2, <2>4, <2>5, OthersStay DEF Served
<1>5. QED
  BY <1>3, <1>4

LEMMA ListSessionsStep ==
  ASSUME CheckoutInv, NEW r \in Requests, ListSessions(r)
  PROVE  CheckoutInv'
<1>t. CheckoutTypeOK
  BY DEF CheckoutInv
<1>1. /\ checkout[r].step = "sessions"
      /\ UNCHANGED <<clock, lease, accepted, projected, apple, customer, session, subscription>>
  BY DEF ListSessions, Stands, checkoutTables, checkoutStripe
<1>2. checkout[r].step \in RequestSteps /\ checkout[r].step \in Working /\ InSection(r)
  BY <1>1 DEF RequestSteps, Working, InSection
<1>3. PICK keep \in CheckoutKeys \cup {NoSession} :
        checkout' = [checkout EXCEPT ![r].step = "expiring", ![r].url = keep,
                                     ![r].todo = ToExpire(keep)]
  BY DEF ListSessions, Reusable
<1> DEFINE todo == ToExpire(keep)
<1>4. todo \in SUBSET CheckoutKeys /\ OpenSessions \subseteq todo \cup {keep}
  BY DEF ToExpire, OpenSessions
<1>5. checkout' = [checkout EXCEPT ![r] = [checkout[r] EXCEPT !.step = "expiring", !.url = keep,
                                                             !.todo = todo]]
  BY <1>t, <1>3 DEF CheckoutTypeOK
<1> HIDE DEF todo
<1>s. "expiring" \in RequestSteps
  BY DEF RequestSteps, Working
<1>6. /\ Served(r, "expiring") /\ checkout'[r].url = keep
      /\ \A k : k \in checkout'[r].todo <=> k \in todo
  BY <1>t, <1>s, <1>2, <1>4, <1>5, Changing
<1>7. CheckoutTypeOK'
  BY <1>t, <1>1, <1>6 DEF CheckoutTypeOK, Served
<1>8. LeaseInv(r)'
  BY <1>1, <1>2, <1>6 DEF CheckoutInv, LeaseInv, InSection, Served
<1>9. OpenSessions' = OpenSessions /\ LiveSubscriptions' = LiveSubscriptions
  BY <1>1 DEF OpenSessions, LiveSubscriptions
<1>10. ListInv(r)'
  BY <1>4, <1>6, <1>9 DEF ListInv, Served
<1>11. PaymentInv(r)'
  BY <1>1, <1>6, <1>9 DEF CheckoutInv, PaymentInv, Served
<1>12. QED
  BY <1>1, <1>6, <1>7, <1>8, <1>10, <1>11, OthersStay DEF Served

LEMMA ExpiringDoneStep ==
  ASSUME CheckoutInv, NEW r \in Requests, ExpiringDone(r)
  PROVE  CheckoutInv'
<1>t. CheckoutTypeOK
  BY DEF CheckoutInv
<1>1. /\ checkout[r].step = "expiring" /\ checkout[r].todo = {}
      /\ UNCHANGED <<clock, lease, accepted, projected, apple, customer, session, subscription>>
  BY DEF ExpiringDone, Stands, checkoutTables, checkoutStripe
<1>2. checkout[r].step \in RequestSteps /\ checkout[r].step \in Working /\ InSection(r)
  BY <1>1 DEF RequestSteps, Working, InSection
<1>3. CASE checkout[r].url # NoSession
  <2>1. checkout[r].url \in CheckoutKeys \cup {NoSession}
    BY <1>t, <1>2, RequestRecord DEF Request
  <2>2. Served(r, "releasing")
    BY <1>t, <1>2, <1>3, <2>1, Answering DEF ExpiringDone
  <2>3. CheckoutTypeOK'
    BY <1>t, <1>1, <2>2 DEF CheckoutTypeOK, Served
  <2>4. QED
    BY <1>1, <1>2, <2>2, <2>3, PlainStep DEF Elsewhere, RequestSteps, Working
<1>4. CASE checkout[r].url = NoSession
  <2>1. Served(r, "creating")
    BY <1>t, <1>2, <1>4, Moving DEF ExpiringDone, RequestSteps, Working
  <2>2. CheckoutTypeOK'
    BY <1>t, <1>1, <2>1 DEF CheckoutTypeOK, Served
  <2>3. OpenSessions' = OpenSessions /\ LiveSubscriptions' = LiveSubscriptions
    BY <1>1 DEF OpenSessions, LiveSubscriptions
  <2>4. OpenSessions = {}
    <3>1. OpenSessions \subseteq {NoSession}
      BY <1>1, <1>4 DEF CheckoutInv, ListInv
    <3>2. QED
      BY <3>1, CheckoutNamesAssumption DEF OpenSessions
  <2>5. checkout[r].late \/ LiveSubscriptions = {}
    BY <1>1, <1>4 DEF CheckoutInv, PaymentInv
  <2>6. LeaseInv(r)'
    BY <1>1, <1>2, <2>1 DEF CheckoutInv, LeaseInv, InSection, Served
  <2>7. ListInv(r)' /\ PaymentInv(r)'
    BY <2>1, <2>3, <2>4, <2>5 DEF ListInv, PaymentInv, Served
  <2>8. QED
    BY <1>1, <2>1, <2>2, <2>6, <2>7, OthersStay DEF Served
<1>5. QED
  BY <1>3, <1>4

-----------------------------------------------------------------------------
(* The sessions *)

\* A session that can be paid leaves that state, or comes near its end.
Closes(k, state) == /\ session[k].state \in Payable
                    /\ session' = [session EXCEPT ![k].state = state]

LEMMA Closing ==
  ASSUME CheckoutTypeOK, NEW k \in CheckoutKeys,
         NEW state \in {"ending", "expired", "complete"}, Closes(k, state)
  PROVE  /\ session' \in [CheckoutKeys -> Session \cup {Unmade}]
         /\ session'[k].state = state
         /\ \A l \in CheckoutKeys : l # k => session'[l] = session[l]
         /\ OpenSessions' \subseteq OpenSessions
         /\ state \in {"expired", "complete"} => OpenSessions' = OpenSessions \ {k}
         /\ NoneOvertaken' => NoneOvertaken
<1> DEFINE old == session[k]
           new == [old EXCEPT !.state = state]
<1>1. old.state \in Payable /\ session' = [session EXCEPT ![k] = new]
  BY DEF Closes
<1>2. old \in Session
  BY <1>1 DEF CheckoutTypeOK, Unmade, Payable
<1> HIDE DEF old
<1>3. /\ new \in Session /\ new.state = state
      /\ new.overtaken <=> old.overtaken
  BY <1>2 DEF Session, Payable
<1> HIDE DEF new
<1>4. /\ session'[k] = new /\ \A l \in CheckoutKeys : l # k => session'[l] = session[l]
      /\ session' \in [CheckoutKeys -> Session \cup {Unmade}]
  BY <1>1, <1>3 DEF CheckoutTypeOK
<1>5. /\ OpenSessions' \subseteq OpenSessions
      /\ state \in {"expired", "complete"} => OpenSessions' = OpenSessions \ {k}
  BY <1>1, <1>3, <1>4 DEF OpenSessions, Payable, old
<1>6. new # Unmade
  <2>1. new.state # "none" /\ Unmade.state = "none"
    BY <1>3 DEF Unmade
  <2>2. QED
    BY <2>1
<1>7. NoneOvertaken' => NoneOvertaken
  BY <1>3, <1>4, <1>6 DEF NoneOvertaken, old
<1>8. QED
  BY <1>3, <1>4, <1>5, <1>7

\* Fewer sessions can be paid, and no request that lists or creates moves but to note
\* what it saw: what holds of it holds still.
LEMMA ClosingKeeps ==
  ASSUME CheckoutInv, NEW k \in CheckoutKeys, NEW state \in {"ending", "expired", "complete"},
         Closes(k, state), NEW o \in Requests, ListInv(o), PaymentInv(o),
         checkout'[o] = checkout[o], LiveSubscriptions' \subseteq LiveSubscriptions
  PROVE  ListInv(o)' /\ PaymentInv(o)'
<1>1. /\ session'[k].state = state
      /\ \A l \in CheckoutKeys : l # k => session'[l] = session[l]
      /\ OpenSessions' \subseteq OpenSessions
  BY Closing DEF CheckoutInv
<1>2. ListInv(o)'
  BY <1>1 DEF ListInv
<1>3. PaymentInv(o)'
  <2>1. CASE checkout[o].step = "expiring" /\ ~checkout[o].late /\ LiveSubscriptions' # {}
    <3>1. ASSUME checkout[o].url = NoSession
          PROVE  \E l \in checkout[o].todo : session'[l].state \in {"complete", "expired"}
      <4>1. PICK l \in checkout[o].todo : session[l].state \in {"complete", "expired"}
        BY <2>1, <3>1 DEF PaymentInv
      <4>2. checkout[o].todo \subseteq CheckoutKeys
        BY <2>1, RequestRecord DEF CheckoutInv, RequestSteps, Working, Request
      <4>3. l # k
        BY <4>1 DEF Closes, Payable
      <4>4. QED
        BY <1>1, <4>1, <4>2, <4>3
    <3>2. QED
      BY <2>1, <3>1 DEF PaymentInv
  <2>2. CASE ~(checkout[o].step = "expiring" /\ ~checkout[o].late /\ LiveSubscriptions' # {})
    BY <2>2 DEF PaymentInv
  <2>3. QED
    BY <2>1, <2>2
<1>4. QED
  BY <1>2, <1>3

LEMMA LeaseKept ==
  ASSUME NEW o \in Requests, LeaseInv(o), UNCHANGED <<clock, lease>>,
         checkout'[o].step = checkout[o].step, checkout'[o].born = checkout[o].born
  PROVE  LeaseInv(o)'
  BY DEF LeaseInv, InSection

LEMMA SessionAgesStep ==
  ASSUME CheckoutInv, NEW k \in CheckoutKeys, SessionAges(k)
  PROVE  CheckoutInv'
<1> DEFINE state == IF session[k].state = "open" THEN "ending" ELSE "expired"
<1>1. /\ Closes(k, state)
      /\ UNCHANGED <<clock, lease, accepted, projected, apple, customer, subscription, checkout>>
  BY DEF SessionAges, Closes, checkoutTables
<1>2. state \in {"ending", "expired", "complete"}
  OBVIOUS
<1> HIDE DEF state
<1>3. /\ session' \in [CheckoutKeys -> Session \cup {Unmade}]
      /\ OpenSessions' \subseteq OpenSessions
      /\ NoneOvertaken' => NoneOvertaken
  BY <1>1, <1>2, Closing DEF CheckoutInv
<1>4. LiveSubscriptions' = LiveSubscriptions
  BY <1>1 DEF LiveSubscriptions
<1>5. ASSUME NEW o \in Requests PROVE LeaseInv(o)' /\ ListInv(o)' /\ PaymentInv(o)'
  BY <1>1, <1>2, <1>4, ClosingKeeps, LeaseKept DEF CheckoutInv
<1>6. AtMostOne(OpenSessions)' /\ OnlyPaid'
  BY <1>3, <1>4 DEF CheckoutInv, AtMostOne, OnlyPaid
<1>7. CheckoutTypeOK'
  BY <1>1, <1>3 DEF CheckoutInv, CheckoutTypeOK
<1>8. QED
  BY <1>5, <1>6, <1>7 DEF CheckoutInv

LEMMA ExpireSessionStep ==
  ASSUME CheckoutInv, NEW r \in Requests, NEW k \in CheckoutKeys, ExpireSession(r, k)
  PROVE  CheckoutInv'
<1>t. CheckoutTypeOK
  BY DEF CheckoutInv
<1>1. /\ checkout[r].step = "expiring" /\ k \in checkout[r].todo
      /\ UNCHANGED <<clock, lease, accepted, projected, apple, customer, subscription>>
  BY DEF ExpireSession, Stands, checkoutTables
<1>2. checkout[r].step \in RequestSteps /\ checkout[r].step \in Working /\ InSection(r)
  BY <1>1 DEF RequestSteps, Working, InSection
<1>3. CASE session[k].state \notin Payable
  <2>1. Served(r, "releasing") /\ UNCHANGED session
    BY <1>t, <1>2, <1>3, Answering DEF ExpireSession
  <2>2. CheckoutTypeOK'
    BY <1>t, <1>1, <2>1 DEF CheckoutTypeOK, Served
  <2>3. QED
    BY <1>1, <1>2, <2>1, <2>2, PlainStep DEF Elsewhere, RequestSteps, Working
<1>4. CASE session[k].state \in Payable
  <2> DEFINE todo == checkout[r].todo \ {k}
             url == checkout[r].url
  <2>1. Closes(k, "expired") /\ checkout' = [checkout EXCEPT ![r].todo = todo]
    BY <1>4 DEF ExpireSession, Closes
  <2>2. checkout[r] \in Request /\ todo \in SUBSET CheckoutKeys /\ url \in CheckoutKeys \cup {NoSession}
    BY <1>t, <1>2, RequestRecord DEF Request
  <2>3. checkout' = [checkout EXCEPT ![r] = [checkout[r] EXCEPT !.step = "expiring", !.url = url,
                                                               !.todo = todo]]
    <3> DEFINE old == checkout[r]
    <3>1. checkout' = [checkout EXCEPT ![r] = [old EXCEPT !.todo = todo]]
      BY <2>1
    <3>2. old \in Request /\ old.step = "expiring" /\ old.url = url
      BY <1>1, <2>2
    <3> HIDE DEF old, todo, url
    <3>3. [old EXCEPT !.todo = todo] = [old EXCEPT !.step = "expiring", !.url = url, !.todo = todo]
      BY <3>2 DEF Request
    <3>4. QED
      BY <3>1, <3>3 DEF old
  <2> HIDE DEF todo, url
  <2>s. "expiring" \in RequestSteps
    BY DEF RequestSteps, Working
  <2>4. /\ Served(r, "expiring") /\ checkout'[r].url = url
        /\ \A l : l \in checkout'[r].todo <=> l \in todo
    BY <1>t, <2>s, <1>2, <2>2, <2>3, Changing
  <2>5. /\ session' \in [CheckoutKeys -> Session \cup {Unmade}]
        /\ \A l \in CheckoutKeys : l # k => session'[l] = session[l]
        /\ OpenSessions' = OpenSessions \ {k}
        /\ NoneOvertaken' => NoneOvertaken
    BY <1>t, <2>1, Closing
  <2>6. LiveSubscriptions' = LiveSubscriptions
    BY <1>1 DEF LiveSubscriptions
  <2>7. ASSUME NEW o \in Requests, o # r PROVE LeaseInv(o)' /\ ListInv(o)' /\ PaymentInv(o)'
    BY <1>1, <2>1, <2>4, <2>6, <2>7, ClosingKeeps, LeaseKept DEF CheckoutInv, Served
  <2>8. LeaseInv(r)'
    BY <1>1, <2>4, LeaseKept DEF CheckoutInv, Served
  <2>9. ListInv(r)'
    BY <1>1, <2>4, <2>5 DEF CheckoutInv, ListInv, Served, todo, url
  <2>10. PaymentInv(r)'
    <3>1. ASSUME ~checkout[r].late, LiveSubscriptions # {}, url = NoSession
          PROVE  \E l \in todo : session'[l].state \in {"complete", "expired"}
      <4>1. PICK l \in checkout[r].todo : session[l].state \in {"complete", "expired"}
        BY <1>1, <3>1 DEF CheckoutInv, PaymentInv, url
      <4>2. l \in todo /\ l \in CheckoutKeys /\ l # k
        BY <1>4, <2>2, <4>1 DEF Payable, Request, todo
      <4>3. QED
        BY <2>5, <4>1, <4>2
    <3>2. QED
      BY <2>4, <2>6, <3>1 DEF PaymentInv, Served
  <2>11. AtMostOne(OpenSessions)' /\ OnlyPaid'
    BY <2>5, <2>6 DEF CheckoutInv, AtMostOne, OnlyPaid
  <2>12. CheckoutTypeOK'
    BY <1>t, <1>1, <2>4, <2>5 DEF CheckoutTypeOK, Served
  <2>13. QED
    BY <2>7, <2>8, <2>9, <2>10, <2>11, <2>12 DEF CheckoutInv
<1>5. QED
  BY <1>3, <1>4

\* A session is created when there is none that can be paid, and next to a
\* subscription only by a request that was overtaken.
LEMMA CreateSessionStep ==
  ASSUME CheckoutInv, NEW r \in Requests, CreateSession(r)
  PROVE  CheckoutInv'
<1> DEFINE k == checkout[r].key
<1>t. CheckoutTypeOK
  BY DEF CheckoutInv
<1>1. /\ checkout[r].step = "creating"
      /\ UNCHANGED <<clock, lease, accepted, projected, apple, customer, subscription>>
  BY DEF CreateSession, Stands, checkoutTables
<1>2. checkout[r].step \in RequestSteps /\ checkout[r].step \in Working /\ InSection(r)
  BY <1>1 DEF RequestSteps, Working, InSection
<1>3. checkout[r] \in Request /\ k \in CheckoutKeys
  BY <1>t, <1>2, RequestRecord DEF Request
<1>4. CASE session[k] # Unmade
  <2>1. UNCHANGED session /\ \E url \in CheckoutKeys \cup {NoSession} : Answers(r, url)
    BY <1>3, <1>4 DEF CreateSession
  <2>2. Served(r, "releasing")
    BY <1>t, <1>2, <2>1, Answering
  <2>3. CheckoutTypeOK'
    BY <1>t, <1>1, <2>1, <2>2 DEF CheckoutTypeOK, Served
  <2>4. QED
    BY <1>1, <1>2, <2>1, <2>2, <2>3, PlainStep DEF Elsewhere, RequestSteps, Working
<1>5. CASE session[k] = Unmade
  <2> DEFINE late == checkout[r].late
             new == [state |-> "open", price |-> checkout[r].price, overtaken |-> late]
  <2>1. session' = [session EXCEPT ![k] = new] /\ Answers(r, k)
    BY <1>5 DEF CreateSession
  <2>2. checkout[r].price \in Prices /\ late \in BOOLEAN
    BY <1>3 DEF Request
  <2>3. OpenSessions = {} /\ (late \/ LiveSubscriptions = {})
    BY <1>1 DEF CheckoutInv, ListInv, PaymentInv
  <2> HIDE DEF late, k
  <2>4. /\ new \in Session /\ new.state = "open"
        /\ new.overtaken <=> late
    BY <2>2 DEF Session, Payable
  <2> HIDE DEF new
  <2>5. Served(r, "releasing")
    BY <1>t, <1>2, <1>3, <2>1, Answering
  <2>6. /\ session'[k] = new /\ \A l \in CheckoutKeys : l # k => session'[l] = session[l]
        /\ session' \in [CheckoutKeys -> Session \cup {Unmade}]
    BY <1>t, <1>3, <2>1, <2>4 DEF CheckoutTypeOK
  <2>7. OpenSessions' = {k}
    BY <1>3, <2>3, <2>4, <2>6 DEF OpenSessions, Payable
  <2>8. LiveSubscriptions' = LiveSubscriptions
    BY <1>1 DEF LiveSubscriptions
  <2>9. NoneOvertaken' => NoneOvertaken /\ ~late
    <3>1. new # Unmade
      BY <2>4 DEF Unmade
    <3>2. QED
      BY <1>3, <1>5, <2>4, <2>6, <3>1 DEF NoneOvertaken
  <2>10. AtMostOne(OpenSessions)' /\ OnlyPaid'
    BY <2>3, <2>7, <2>8, <2>9 DEF CheckoutInv, AtMostOne, OnlyPaid
  <2>11. ASSUME NEW o \in Requests, o # r PROVE LeaseInv(o)' /\ ListInv(o)' /\ PaymentInv(o)'
    <3>1. ~InSection(o) /\ checkout'[o] = checkout[o]
      BY <1>2, <2>5, <2>11, OneInSection DEF Served
    <3>2. LeaseInv(o)'
      BY <1>1, <3>1, LeaseKept DEF CheckoutInv
    <3>3. checkout'[o].step \notin {"sessions", "expiring", "creating"}
      BY <3>1 DEF InSection, Working
    <3>4. QED
      BY <3>2, <3>3 DEF ListInv, PaymentInv
  <2>12. LeaseInv(r)'
    BY <1>1, <1>2, <2>5 DEF CheckoutInv, LeaseInv, InSection, Served, Working
  <2>13. ListInv(r)' /\ PaymentInv(r)'
    BY <2>5 DEF ListInv, PaymentInv, Served
  <2>14. CheckoutTypeOK'
    BY <1>t, <1>1, <2>5, <2>6 DEF CheckoutTypeOK, Served
  <2>15. QED
    BY <2>10, <2>11, <2>12, <2>13, <2>14 DEF CheckoutInv
<1>6. QED
  BY <1>4, <1>5

\* A payment is of the one session there is: who has not listed it will note it, and
\* who has to expire it will not be able to.
LEMMA PayStep ==
  ASSUME CheckoutInv, NEW k \in CheckoutKeys, Pay(k)
  PROVE  CheckoutInv'
<1>t. CheckoutTypeOK
  BY DEF CheckoutInv
<1>1. /\ Closes(k, "complete") /\ subscription' = [subscription EXCEPT ![k] = "live"]
      /\ checkout' = [r \in Requests |->
           IF Stands(r, "sessions") THEN [checkout[r] EXCEPT !.late = TRUE] ELSE checkout[r]]
      /\ UNCHANGED <<clock, lease, accepted, projected, apple, customer>>
  BY DEF Pay, Closes, checkoutTables
<1>2. /\ session' \in [CheckoutKeys -> Session \cup {Unmade}]
      /\ session'[k].state = "complete"
      /\ \A l \in CheckoutKeys : l # k => session'[l] = session[l]
      /\ OpenSessions' = OpenSessions \ {k}
      /\ NoneOvertaken' => NoneOvertaken
  BY <1>t, <1>1, Closing
<1>3. k \in OpenSessions
  BY <1>1 DEF Closes, OpenSessions
<1>4. OpenSessions = {k} /\ OpenSessions' = {}
  BY <1>2, <1>3 DEF CheckoutInv, AtMostOne
<1>5. /\ subscription' \in [CheckoutKeys -> {"none", "live", "ended"}]
      /\ LiveSubscriptions' = LiveSubscriptions \cup {k}
  BY <1>t, <1>1 DEF CheckoutTypeOK, LiveSubscriptions
<1>6. AtMostOne(OpenSessions)' /\ OnlyPaid'
  BY <1>2, <1>3, <1>4, <1>5 DEF CheckoutInv, AtMostOne, OnlyPaid
<1>7. ASSUME NEW o \in Requests
      PROVE  /\ checkout'[o] \in Request \cup {NotSent}
             /\ checkout'[o].step = checkout[o].step
             /\ checkout[o].step \in Working => checkout'[o].born = checkout[o].born
             /\ checkout[o].step = "sessions" => checkout'[o].late
             /\ checkout[o].step # "sessions" => checkout'[o] = checkout[o]
  <2> DEFINE old == checkout[o]
             new == [old EXCEPT !.late = TRUE]
  <2>1. checkout'[o] = IF old.step = "sessions" THEN new ELSE old
    BY <1>1 DEF Stands
  <2>2. CASE old.step = "sessions"
    <3>1. old \in Request
      BY <1>t, <2>2, RequestRecord DEF RequestSteps, Working
    <3> HIDE DEF old
    <3>2. new \in Request /\ new.step = old.step /\ new.born = old.born /\ new.late
      BY <3>1 DEF Request
    <3>3. QED
      BY <2>1, <2>2, <3>2 DEF old
  <2>3. CASE old.step # "sessions"
    BY <1>t, <2>1, <2>3 DEF CheckoutTypeOK
  <2>4. QED
    BY <2>2, <2>3
<1>8. ASSUME NEW o \in Requests PROVE LeaseInv(o)' /\ ListInv(o)' /\ PaymentInv(o)'
  <2>1. LeaseInv(o)'
    BY <1>1, <1>7 DEF CheckoutInv, LeaseInv, InSection
  <2>2. ListInv(o)'
    BY <1>4 DEF ListInv
  <2>3. PaymentInv(o)'
    <3>1. checkout[o].step # "creating"
      BY <1>3 DEF CheckoutInv, ListInv
    <3>2. ASSUME checkout[o].step = "expiring", checkout[o].url = NoSession
          PROVE  \E l \in checkout[o].todo : session'[l].state \in {"complete", "expired"}
      <4>1. k \in checkout[o].todo
        BY <1>3, <3>2, CheckoutNamesAssumption DEF CheckoutInv, ListInv
      <4>2. QED
        BY <1>2, <4>1
    <3>3. QED
      BY <1>7, <3>1, <3>2 DEF PaymentInv
  <2>4. QED
    BY <2>1, <2>2, <2>3
<1>9. CheckoutTypeOK'
  <2>1. checkout' \in [Requests -> Request \cup {NotSent}]
    BY <1>1, <1>7
  <2>2. QED
    BY <1>t, <1>1, <1>2, <1>5, <2>1 DEF CheckoutTypeOK
<1>10. QED
  BY <1>6, <1>8, <1>9 DEF CheckoutInv

LEMMA EndSubscriptionStep ==
  ASSUME CheckoutInv, NEW k \in CheckoutKeys, EndSubscription(k)
  PROVE  CheckoutInv'
<1>1. /\ subscription' = [subscription EXCEPT ![k] = "ended"]
      /\ UNCHANGED <<clock, lease, accepted, projected, apple, customer, session, checkout>>
  BY DEF EndSubscription, checkoutTables
<1>2. /\ OpenSessions' = OpenSessions /\ LiveSubscriptions' \subseteq LiveSubscriptions
      /\ NoneOvertaken' <=> NoneOvertaken
  BY <1>1 DEF CheckoutInv, CheckoutTypeOK, OpenSessions, LiveSubscriptions, NoneOvertaken
<1>3. AtMostOne(OpenSessions)' /\ OnlyPaid'
  BY <1>2 DEF CheckoutInv, AtMostOne, OnlyPaid
<1>4. ASSUME NEW o \in Requests PROVE LeaseInv(o)' /\ ListInv(o)' /\ PaymentInv(o)'
  <2>1. LeaseInv(o)'
    BY <1>1, LeaseKept DEF CheckoutInv
  <2>2. ListInv(o)'
    BY <1>1, <1>2 DEF CheckoutInv, ListInv
  <2>3. PaymentInv(o)'
    BY <1>1, <1>2 DEF CheckoutInv, PaymentInv
  <2>4. QED
    BY <2>1, <2>2, <2>3
<1>5. CheckoutTypeOK'
  BY <1>1 DEF CheckoutInv, CheckoutTypeOK
<1>6. QED
  BY <1>3, <1>4, <1>5 DEF CheckoutInv

-----------------------------------------------------------------------------
(* The rest *)

LEMMA CheckoutTickStep ==
  ASSUME CheckoutInv, CheckoutTick
  PROVE  CheckoutInv'
<1>t. CheckoutTypeOK
  BY DEF CheckoutInv
<1>1. /\ clock < MaxClock /\ clock' = clock + 1
      /\ \A r \in Requests :
           checkout[r].step \in Working => clock < checkout[r].born + FunctionTime
      /\ UNCHANGED <<lease, accepted, projected, apple, customer, session, subscription, checkout>>
  BY DEF CheckoutTick, checkoutTables, checkoutStripe
<1>2. clock \in Nat /\ clock' \in 0 .. MaxClock
  BY <1>t, <1>1, CheckoutClockAssumption DEF CheckoutTypeOK
<1>3. ASSUME NEW o \in Requests PROVE LeaseInv(o)'
  <2>1. ASSUME checkout[o].step \in Working
        PROVE  checkout[o].born <= clock' /\ clock' <= checkout[o].born + FunctionTime
    <3>1. checkout[o].born \in Nat
      BY <1>t, <2>1, RequestNumbers DEF RequestSteps
    <3>2. checkout[o].born <= clock
      BY <2>1 DEF CheckoutInv, LeaseInv
    <3>3. clock < checkout[o].born + FunctionTime
      BY <1>1, <2>1
    <3>4. QED
      BY <1>1, <1>2, <3>1, <3>2, <3>3, LeaseNumbers
  <2>2. QED
    BY <1>1, <2>1 DEF CheckoutInv, LeaseInv, InSection
<1>4. /\ OpenSessions' = OpenSessions /\ LiveSubscriptions' = LiveSubscriptions
      /\ NoneOvertaken' <=> NoneOvertaken
  BY <1>1 DEF OpenSessions, LiveSubscriptions, NoneOvertaken
<1>5. \A o \in Requests : ListInv(o)' /\ PaymentInv(o)'
  BY <1>1, <1>4 DEF CheckoutInv, ListInv, PaymentInv
<1>6. AtMostOne(OpenSessions)' /\ OnlyPaid'
  BY <1>4 DEF CheckoutInv, AtMostOne, OnlyPaid
<1>7. CheckoutTypeOK'
  BY <1>t, <1>1, <1>2 DEF CheckoutTypeOK
<1>8. QED
  BY <1>3, <1>5, <1>6, <1>7 DEF CheckoutInv

\* Neither the webhook nor Apple changes what the invariant is about.
LEMMA ElsewhereStep ==
  ASSUME CheckoutInv, CheckoutTypeOK',
         UNCHANGED <<clock, lease, session, subscription, checkout>>
  PROVE  CheckoutInv'
<1>1. /\ OpenSessions' = OpenSessions /\ LiveSubscriptions' = LiveSubscriptions
      /\ NoneOvertaken' <=> NoneOvertaken
  BY DEF OpenSessions, LiveSubscriptions, NoneOvertaken
<1>2. \A o \in Requests : LeaseInv(o)' /\ ListInv(o)' /\ PaymentInv(o)'
  BY <1>1 DEF CheckoutInv, LeaseInv, InSection, ListInv, PaymentInv
<1>3. AtMostOne(OpenSessions)' /\ OnlyPaid'
  BY <1>1 DEF CheckoutInv, AtMostOne, OnlyPaid
<1>4. QED
  BY <1>2, <1>3 DEF CheckoutInv

LEMMA CheckoutInvStep == CheckoutInv /\ [CheckoutNext]_checkoutVars => CheckoutInv'
<1> SUFFICES ASSUME CheckoutInv, [CheckoutNext]_checkoutVars PROVE CheckoutInv'
  OBVIOUS
<1>t. CheckoutTypeOK
  BY DEF CheckoutInv
<1>1. ASSUME NEW r \in Requests, ServeCheckout(r) PROVE CheckoutInv'
  <2>1. CASE \E k \in CheckoutKeys, p \in Prices : ReadContext(r, k, p)
    BY <2>1, ReadContextStep
  <2>2. CASE AcquireLease(r) \/ ReleaseLease(r)
    BY <2>2, AcquireLeaseStep, ReleaseLeaseStep
  <2>3. CASE RecordConsent(r) \/ CreateStripeCustomer(r) \/ NameCustomer(r)
    BY <2>3, PlainSteps
  <2>4. CASE ListSubscriptions(r) \/ ListSessions(r) \/ ExpiringDone(r)
    BY <2>4, ListSubscriptionsStep, ListSessionsStep, ExpiringDoneStep
  <2>5. CASE CreateSession(r) \/ \E k \in CheckoutKeys : ExpireSession(r, k)
    BY <2>5, CreateSessionStep, ExpireSessionStep
  <2>6. QED
    BY <1>1, <2>1, <2>2, <2>3, <2>4, <2>5 DEF ServeCheckout
<1>2. ASSUME NEW r \in Requests, CheckoutFails(r) \/ Killed(r) PROVE CheckoutInv'
  BY <1>2, PlainSteps
<1>3. ASSUME NEW k \in CheckoutKeys, Pay(k) \/ SessionAges(k) \/ EndSubscription(k)
      PROVE  CheckoutInv'
  BY <1>3, PayStep, SessionAgesStep, EndSubscriptionStep
<1>4. ASSUME NEW k \in CheckoutKeys, WebhookProjects(k) PROVE CheckoutInv'
  <2>1. CheckoutTypeOK'
    BY <1>t, <1>4 DEF WebhookProjects, checkoutStripe, CheckoutTypeOK
  <2>2. QED
    BY <1>4, <2>1, ElsewhereStep DEF WebhookProjects, checkoutStripe
<1>5. CASE AppleStarts
  <2>1. CheckoutTypeOK'
    BY <1>t, <1>5 DEF AppleStarts, checkoutStripe, CheckoutTypeOK
  <2>2. QED
    BY <1>5, <2>1, ElsewhereStep DEF AppleStarts, checkoutStripe
<1>6. CASE UNCHANGED checkoutVars
  <2>1. CheckoutTypeOK'
    BY <1>t, <1>6 DEF checkoutVars, checkoutStripe, checkoutTables, CheckoutTypeOK
  <2>2. QED
    BY <1>6, <2>1, ElsewhereStep DEF checkoutVars, checkoutStripe, checkoutTables
<1>7. QED
  BY <1>1, <1>2, <1>3, <1>4, <1>5, <1>6, CheckoutTickStep DEF CheckoutNext

LEMMA CheckoutStarts == CheckoutInit => CheckoutInv
<1> SUFFICES ASSUME CheckoutInit PROVE CheckoutInv
  OBVIOUS
<1>1. CheckoutTypeOK
  <2>1. clock \in 0 .. MaxClock
    BY CheckoutClockAssumption DEF CheckoutInit
  <2>2. lease \in [holder : Requests \cup {NoSession}, until : Nat]
    BY DEF CheckoutInit, NoLease
  <2>3. session \in [CheckoutKeys -> Session \cup {Unmade}]
    BY DEF CheckoutInit
  <2>4. checkout \in [Requests -> Request \cup {NotSent}]
    BY DEF CheckoutInit
  <2>5. QED
    BY <2>1, <2>2, <2>3, <2>4 DEF CheckoutInit, CheckoutTypeOK
<1>2. OpenSessions = {} /\ LiveSubscriptions = {}
  BY DEF CheckoutInit, OpenSessions, LiveSubscriptions, Payable, Unmade
<1>3. \A r \in Requests : checkout[r].step = "new"
  BY DEF CheckoutInit, NotSent
<1>4. \A r \in Requests : LeaseInv(r) /\ ListInv(r) /\ PaymentInv(r)
  BY <1>3 DEF LeaseInv, ListInv, PaymentInv, InSection, Working
<1>5. QED
  BY <1>1, <1>2, <1>4 DEF CheckoutInv, AtMostOne, OnlyPaid

LEMMA CheckoutInvariant == CheckoutSpec => []CheckoutInv
  BY CheckoutStarts, CheckoutInvStep, PTL DEF CheckoutSpec

LEMMA OneOrNone ==
  ASSUME NEW S, AtMostOne(S)
  PROVE  Cardinality(S) <= 1
<1>1. CASE S = {}
  BY <1>1, FS_EmptySet
<1>2. CASE S # {}
  <2>1. PICK k \in S : TRUE
    BY <1>2
  <2>2. S = {k}
    BY <2>1 DEF AtMostOne
  <2>3. QED
    BY <2>2, FS_Singleton
<1>3. QED
  BY <1>1, <1>2

\* The customer never holds two sessions that can be paid, however many tabs, retries
\* and killed functions there are (reusableCheckoutUrl, acquireCheckoutLease).
THEOREM OneSessionPayable == CheckoutSpec => []OnePayable
<1>1. CheckoutInv => OnePayable
  BY OneOrNone DEF CheckoutInv, OnePayable
<1>2. QED
  BY <1>1, CheckoutInvariant, PTL

\* A second subscription needs a payment between the two lists of the request that
\* creates its session (createCheckout).
THEOREM SecondIsAlwaysOvertaken == CheckoutSpec => []SecondIsOvertaken
<1>1. CheckoutInv => SecondIsOvertaken
  BY OneOrNone DEF CheckoutInv, OnlyPaid, NoneOvertaken, SecondIsOvertaken, OneSubscription
<1>2. QED
  BY <1>1, CheckoutInvariant, PTL

-----------------------------------------------------------------------------
(* ENTITLEMENTS                                                            *)

(* The greatest element of a set *)

\* A finite set of numbers that is not empty has a greatest element: otherwise a
\* smallest finite set would have none, although one with an element less has.
LEMMA GreatestElement ==
  ASSUME NEW S, S \subseteq Int, IsFiniteSet(S), S # {}
  PROVE  /\ Max(S) \in S
         /\ \A y \in S : y <= Max(S)
<1> DEFINE HasMax(T) == \E x \in T : \A y \in T : x >= y
           Bad == {T \in FiniteSubsetsOf(S) : T # {} /\ ~HasMax(T)}
<1>1. HasMax(S)
  <2> SUFFICES ASSUME ~HasMax(S) PROVE FALSE
    OBVIOUS
  <2>1. Bad # {} /\ Bad \subseteq FiniteSubsetsOf(S)
    BY DEF FiniteSubsetsOf
  <2>2. PICK T \in Bad : \A U \in Bad : ~(<<U, T>> \in StrictSubsetOrdering(S))
    BY <2>1, FS_StrictSubsetOrderingWellFounded, WFMin
  <2>3. T \subseteq S /\ IsFiniteSet(T) /\ T # {} /\ ~HasMax(T)
    BY <2>2 DEF FiniteSubsetsOf
  <2>4. PICK x \in T : TRUE
    BY <2>3
  <2> DEFINE U == T \ {x}
  <2>5. IsFiniteSet(U) /\ U \subseteq S
    BY <2>3, FS_RemoveElement
  <2>6. U # {}
    <3> SUFFICES ASSUME U = {} PROVE HasMax(T)
      BY <2>3
    <3>1. T = {x}
      BY <2>4
    <3>2. QED
      BY <3>1, <2>3
  <2>7. <<U, T>> \in StrictSubsetOrdering(S)
    BY <2>3, <2>4 DEF StrictSubsetOrdering
  <2>8. U \notin Bad
    BY <2>2, <2>7
  <2>9. HasMax(U)
    BY <2>5, <2>6, <2>8 DEF FiniteSubsetsOf
  <2>10. PICK m \in U : \A y \in U : m >= y
    BY <2>9
  <2>11. HasMax(T)
    <3>1. m \in T /\ m \in Int /\ x \in Int
      BY <2>3, <2>4
    <3>2. CASE m >= x
      BY <3>1, <3>2, <2>10
    <3>3. CASE ~(m >= x)
      <4>1. \A y \in T : x >= y
        <5> TAKE y \in T
        <5>1. y \in Int
          BY <2>3
        <5>2. CASE y = x
          BY <5>2, <3>1
        <5>3. CASE y # x
          BY <5>1, <5>3, <3>1, <3>3, <2>10
        <5>4. QED
          BY <5>2, <5>3
      <4>2. QED
        BY <4>1, <2>4
    <3>4. QED
      BY <3>2, <3>3
  <2>12. QED
    BY <2>3, <2>11
<1>2. /\ Max(S) \in S
      /\ \A y \in S : Max(S) >= y
  BY <1>1 DEF Max
<1>3. QED
  BY <1>2

-----------------------------------------------------------------------------
(* The choice *)

LEMMA GreaterOfTwo ==
  ASSUME NEW m \in Nat, NEW n \in Nat
  PROVE  Max({m, n}) \in Nat /\ m <= Max({m, n}) /\ n <= Max({m, n})
<1>1. IsFiniteSet({m, n})
  <2>1. {m, n} = {m} \cup {n} /\ IsFiniteSet({m})
    BY FS_Singleton
  <2>2. QED
    BY <2>1, FS_AddElement
<1>2. Max({m, n}) \in {m, n} /\ \A y \in {m, n} : y <= Max({m, n})
  <2> DEFINE S == {m, n}
  <2>1. S \subseteq Int /\ S # {} /\ IsFiniteSet(S)
    BY <1>1
  <2> HIDE DEF S
  <2>2. Max(S) \in S /\ \A y \in S : y <= Max(S)
    BY <2>1, GreatestElement
  <2>3. QED
    BY <2>2 DEF S
<1>3. QED
  BY <1>2

Rights == [Sources -> Right]

\* The rights that count, and the longest of them.
LEMMA BestOf ==
  ASSUME NEW rights \in Rights, NEW S, S \subseteq Sources, S # {}
  PROVE  /\ Max({rights[s].until : s \in S}) \in Nat
         /\ \E s \in S : rights[s].until = Max({rights[t].until : t \in S})
         /\ \A s \in S : rights[s].until <= Max({rights[t].until : t \in S})
<1> DEFINE ends == {rights[s].until : s \in S}
<1>1. \A s \in S : rights[s].until \in Nat
  BY DEF Rights, Right
<1>2. ends \subseteq Int /\ ends # {}
  BY <1>1
<1>3. IsFiniteSet(ends)
  <2>1. IsFiniteSet(S)
    BY SourcesAssumption, FS_Subset DEF Sources
  <2> DEFINE f == [s \in S |-> rights[s].until]
  <2>2. f \in Surjection(S, ends)
    BY DEF Surjection
  <2> HIDE DEF ends, f
  <2>3. QED
    BY <2>1, <2>2, FS_Surjection
<1> HIDE DEF ends
<1>4. Max(ends) \in ends /\ \A y \in ends : y <= Max(ends)
  BY <1>2, <1>3, GreatestElement
<1>5. QED
  BY <1>1, <1>4 DEF ends

\* What is shown is one of the rights that are preferred, or nothing.
LEMMA ChoiceOf ==
  ASSUME NEW rights \in Rights, NEW time \in Days
  PROVE  LET best == Candidates(rights, time)
             shown == Recompute(rights, time)
         IN  /\ shown \in Access /\ shown.asOf = time
             /\ best = {} => shown.until = 0
             /\ best # {} => /\ \E s \in best : rights[s].until = shown.until
                             /\ \A s \in best : rights[s].until <= shown.until
             /\ shown.sandbox <=> best # {} /\ best \subseteq SandboxRows
<1> DEFINE best == Candidates(rights, time)
           end == IF best = {} THEN 0 ELSE Max({rights[s].until : s \in best})
           sandbox == best # {} /\ best \subseteq SandboxRows
           shown == [until |-> end, sandbox |-> sandbox, asOf |-> time]
<1>1. best \subseteq Sources
  BY DEF Candidates, LiveAt
<1>2. Recompute(rights, time) = shown
  BY DEF Recompute
<1> HIDE DEF best
<1>3. /\ end \in Nat
      /\ best = {} => end = 0
      /\ best # {} => /\ \E s \in best : rights[s].until = end
                      /\ \A s \in best : rights[s].until <= end
  BY <1>1, BestOf
<1>4. sandbox \in BOOLEAN /\ (sandbox <=> best # {} /\ best \subseteq SandboxRows)
  OBVIOUS
<1> HIDE DEF end, sandbox
<1>5. /\ shown \in Access /\ shown.until = end /\ shown.asOf = time
      /\ shown.sandbox <=> sandbox
  BY <1>3, <1>4 DEF Access
<1> HIDE DEF shown
<1>6. QED
  BY <1>2, <1>3, <1>4, <1>5 DEF best

-----------------------------------------------------------------------------
(* Types *)

LEMMA WriterRecord ==
  ASSUME EntitlementsTypeOK, NEW w \in Writers, writer[w] # IdleWriter
  PROVE  writer[w] \in Writer
  BY DEF EntitlementsTypeOK

LEMMA WriterIsBusy ==
  ASSUME NEW r \in Writer
  PROVE  r # IdleWriter
<1>1. r.step \in {"begun", "computed"} /\ IdleWriter.step = "idle"
  BY DEF Writer, IdleWriter
<1>2. QED
  BY <1>1

LEMMA NoRightIsRight == NoRight \in Right /\ NoAccess \in Access
  BY DayAssumption DEF NoRight, Right, NoAccess, Access, Days

\* What a writer makes of its row is a right.
LEMMA WrittenIsRight ==
  ASSUME EntitlementsTypeOK, NEW w \in Writers, writer[w] \in Writer
  PROVE  Written(w) \subseteq Right
<1> DEFINE now == writer[w].began
           old == right[writer[w].source]
           length == writer[w].length
           later == [from |-> old.from, until |-> Max({old.until, now}) + length]
<1>1. now \in Days /\ now \in Nat /\ length \in Nat /\ old \in Right
  <2>1. now \in Days /\ length \in Terms /\ writer[w].source \in Sources
    BY DEF Writer
  <2>2. old \in Right
    BY <2>1 DEF EntitlementsTypeOK
  <2>3. Days \subseteq Nat /\ Terms \subseteq Nat
    BY DayAssumption DEF Days
  <2> HIDE DEF now, length, old
  <2>4. QED
    BY <2>1, <2>2, <2>3
<1>2. writer[w].kind \in WriterKinds
  BY DEF Writer
<1>3. later \in Right
  <2>1. old.from \in Days /\ old.until \in Nat
    BY <1>1 DEF Right
  <2>2. Max({old.until, now}) \in Nat
    BY <1>1, <2>1, GreaterOfTwo
  <2> HIDE DEF old, now, length
  <2>3. QED
    BY <1>1, <2>1, <2>2 DEF Right
<1>4. [from |-> now, until |-> now + length] \in Right /\ [from |-> 0, until |-> now + length] \in Right
  BY <1>1, DayAssumption DEF Right, Days
<1>5. Written(w) \in {{NoRight, [from |-> 0, until |-> now + length]},
                      {[from |-> now, until |-> now + length]}, {later}, {}, {NoRight}}
  BY <1>2 DEF Written, WriterKinds
<1> HIDE DEF later, now, length
<1>6. QED
  BY <1>3, <1>4, <1>5, NoRightIsRight

-----------------------------------------------------------------------------
(* The inductive invariant *)

\* What is shown is what was chosen among the rights there are, by a transaction
\* that had begun; and one transaction at a time chooses.
ShownIsChosen ==
  /\ access.asOf <= day
  /\ access = Recompute(right, access.asOf)
  /\ \A w \in Writers : writer[w] # IdleWriter =>
       /\ writer[w].began <= day
       /\ writer[w].step = "computed" =>
            /\ holder = w
            /\ writer[w].access = Recompute([right EXCEPT ![writer[w].source] = writer[w].right],
                                            writer[w].began)

EntitlementsInv == EntitlementsTypeOK /\ ShownIsChosen

LEMMA OwnWriter ==
  ASSUME EntitlementsTypeOK, NEW w \in Writers, NEW r \in Writer \cup {IdleWriter},
         writer' = [writer EXCEPT ![w] = r]
  PROVE  /\ writer'[w] = r
         /\ \A v \in Writers : v # w => writer'[v] = writer[v]
         /\ writer' \in [Writers -> Writer \cup {IdleWriter}]
  BY DEF EntitlementsTypeOK

LEMMA BeginStep ==
  ASSUME EntitlementsInv, NEW w \in Writers, NEW kind \in WriterKinds, NEW s \in Sources,
         NEW length \in Terms, Begin(w, kind, s, length)
  PROVE  EntitlementsInv'
<1> DEFINE r == [step |-> "begun", kind |-> kind, source |-> s, length |-> length, began |-> day,
                 right |-> NoRight, access |-> NoAccess]
<1>t. EntitlementsTypeOK
  BY DEF EntitlementsInv
<1>1. writer' = [writer EXCEPT ![w] = r] /\ UNCHANGED <<day, right, access, holder>>
  BY DEF Begin
<1>2. r \in Writer /\ r.step = "begun" /\ r.began = day
  BY <1>t, NoRightIsRight DEF EntitlementsTypeOK, Writer
<1> HIDE DEF r
<1>3. /\ writer'[w] = r /\ \A v \in Writers : v # w => writer'[v] = writer[v]
      /\ writer' \in [Writers -> Writer \cup {IdleWriter}]
  BY <1>t, <1>1, <1>2, OwnWriter
<1>4. EntitlementsTypeOK'
  BY <1>t, <1>1, <1>3 DEF EntitlementsTypeOK
<1>5. day <= day
  BY <1>t, DayAssumption DEF EntitlementsTypeOK, Days
<1>6. ShownIsChosen'
  BY <1>1, <1>2, <1>3, <1>5 DEF EntitlementsInv, ShownIsChosen
<1>7. QED
  BY <1>4, <1>6 DEF EntitlementsInv

\* The lock: who chooses does so alone, until it commits.
LEMMA ComputeStep ==
  ASSUME EntitlementsInv, NEW w \in Writers, Compute(w)
  PROVE  EntitlementsInv'
<1>t. EntitlementsTypeOK /\ ShownIsChosen
  BY DEF EntitlementsInv
<1>1. /\ writer[w] \in Writer /\ writer[w].step = "begun" /\ holder = Nobody /\ holder' = w
      /\ UNCHANGED <<day, right, access>>
  BY <1>t, WriterRecord DEF Compute, Lockable
<1>2. PICK new \in Written(w) :
        writer' = [writer EXCEPT ![w] =
          [writer[w] EXCEPT !.step = "computed", !.right = new,
                            !.access = Recompute([right EXCEPT ![writer[w].source] = new],
                                                 writer[w].began)]]
  BY DEF Compute
<1> DEFINE old == writer[w]
           rights == [right EXCEPT ![old.source] = new]
           shown == Recompute(rights, old.began)
           r == [old EXCEPT !.step = "computed", !.right = new, !.access = shown]
<1>3. new \in Right
  BY <1>t, <1>1, <1>2, WrittenIsRight
<1>4. shown \in Access
  <2>1. rights \in Rights /\ old.began \in Days
    BY <1>t, <1>1, <1>3 DEF EntitlementsTypeOK, Rights, Writer
  <2> HIDE DEF rights
  <2>2. QED
    BY <2>1, ChoiceOf
<1>5. writer' = [writer EXCEPT ![w] = r] /\ old \in Writer
  BY <1>1, <1>2
<1>6. old.began <= day
  BY <1>t, <1>1, WriterIsBusy DEF ShownIsChosen
<1>o. shown = Recompute([right EXCEPT ![old.source] = new], old.began)
  OBVIOUS
<1> HIDE DEF old, shown, rights
<1>7. /\ r \in Writer /\ r.step = "computed" /\ r.right = new /\ r.access = shown
      /\ r.began = old.began /\ r.source = old.source
  BY <1>3, <1>4, <1>5 DEF Writer
<1> HIDE DEF r
<1>8. /\ writer'[w] = r /\ \A v \in Writers : v # w => writer'[v] = writer[v]
      /\ writer' \in [Writers -> Writer \cup {IdleWriter}]
  BY <1>t, <1>5, <1>7, OwnWriter
<1>9. EntitlementsTypeOK'
  BY <1>t, <1>1, <1>8 DEF EntitlementsTypeOK
<1>10. \A v \in Writers : writer[v] # IdleWriter => writer[v].step # "computed"
  BY <1>t, <1>1, WritersAssumption DEF ShownIsChosen
<1>11. ASSUME NEW v \in Writers, writer'[v] # IdleWriter
       PROVE  /\ writer'[v].began <= day'
              /\ writer'[v].step = "computed" =>
                   /\ holder' = v
                   /\ writer'[v].access =
                        Recompute([right' EXCEPT ![writer'[v].source] = writer'[v].right],
                                  writer'[v].began)
  <2>1. CASE v = w
    BY <1>1, <1>6, <1>7, <1>8, <1>o, <2>1
  <2>2. CASE v # w
    BY <1>t, <1>1, <1>8, <1>10, <1>11, <2>2 DEF ShownIsChosen
  <2>3. QED
    BY <2>1, <2>2
<1>12. ShownIsChosen'
  BY <1>t, <1>1, <1>11 DEF ShownIsChosen
<1>13. QED
  BY <1>9, <1>12 DEF EntitlementsInv

LEMMA CommitWriterStep ==
  ASSUME EntitlementsInv, NEW w \in Writers, CommitWriter(w)
  PROVE  EntitlementsInv'
<1>t. EntitlementsTypeOK /\ ShownIsChosen
  BY DEF EntitlementsInv
<1>1. /\ writer[w] \in Writer /\ writer[w] # IdleWriter /\ writer[w].step = "computed"
      /\ right' = [right EXCEPT ![writer[w].source] = writer[w].right]
      /\ access' = writer[w].access /\ holder' = Nobody
      /\ writer' = [writer EXCEPT ![w] = IdleWriter] /\ day' = day
  BY <1>t, WriterRecord DEF CommitWriter
<1>2. /\ writer'[w] = IdleWriter /\ \A v \in Writers : v # w => writer'[v] = writer[v]
      /\ writer' \in [Writers -> Writer \cup {IdleWriter}]
  BY <1>t, <1>1, OwnWriter
<1>3. /\ right' \in [Sources -> Right] /\ access' \in Access
      /\ writer[w].began \in Days
  BY <1>t, <1>1 DEF EntitlementsTypeOK, Writer
<1>4. EntitlementsTypeOK'
  BY <1>t, <1>1, <1>2, <1>3 DEF EntitlementsTypeOK
<1>5. access' = Recompute(right', writer[w].began) /\ writer[w].began <= day /\ holder = w
  BY <1>t, <1>1 DEF ShownIsChosen
<1>6. access'.asOf = writer[w].began
  BY <1>3, <1>5, ChoiceOf DEF Rights
<1>7. \A v \in Writers : writer'[v] # IdleWriter =>
        writer'[v].began <= day' /\ writer'[v].step # "computed"
  BY <1>t, <1>1, <1>2, <1>5 DEF ShownIsChosen
<1>8. ShownIsChosen'
  BY <1>1, <1>5, <1>6, <1>7 DEF ShownIsChosen
<1>9. QED
  BY <1>4, <1>8 DEF EntitlementsInv

LEMMA RollBackStep ==
  ASSUME EntitlementsInv, NEW w \in Writers, RollBack(w)
  PROVE  EntitlementsInv'
<1>t. EntitlementsTypeOK /\ ShownIsChosen
  BY DEF EntitlementsInv
<1>1. /\ holder' = IF holder = w THEN Nobody ELSE holder
      /\ writer' = [writer EXCEPT ![w] = IdleWriter] /\ UNCHANGED <<day, right, access>>
  BY DEF RollBack
<1>2. /\ writer'[w] = IdleWriter /\ \A v \in Writers : v # w => writer'[v] = writer[v]
      /\ writer' \in [Writers -> Writer \cup {IdleWriter}]
  BY <1>t, <1>1, OwnWriter
<1>3. EntitlementsTypeOK'
  BY <1>t, <1>1, <1>2 DEF EntitlementsTypeOK
<1>4. ShownIsChosen'
  BY <1>t, <1>1, <1>2 DEF ShownIsChosen
<1>5. QED
  BY <1>3, <1>4 DEF EntitlementsInv

LEMMA NextDayStep ==
  ASSUME EntitlementsInv, NextDay
  PROVE  EntitlementsInv'
<1>t. EntitlementsTypeOK /\ ShownIsChosen
  BY DEF EntitlementsInv
<1>1. day < LastDay /\ day' = day + 1 /\ UNCHANGED <<right, access, holder, writer>>
  BY DEF NextDay
<1>2. day \in Nat /\ day' \in Days
  BY <1>t, <1>1, DayAssumption DEF EntitlementsTypeOK, Days
<1>3. access.asOf \in Nat /\ \A w \in Writers : writer[w] # IdleWriter => writer[w].began \in Nat
  BY <1>t, DayAssumption DEF EntitlementsTypeOK, Access, Writer, Days
<1>4. EntitlementsTypeOK'
  BY <1>t, <1>1, <1>2 DEF EntitlementsTypeOK
<1>5. \A n \in Nat : n <= day => n <= day'
  BY <1>1, <1>2
<1>6. ShownIsChosen'
  BY <1>t, <1>1, <1>3, <1>5 DEF ShownIsChosen
<1>7. QED
  BY <1>4, <1>6 DEF EntitlementsInv

LEMMA EntitlementsInvStep ==
  EntitlementsInv /\ [EntitlementsNext]_entitlementVars => EntitlementsInv'
<1> SUFFICES ASSUME EntitlementsInv, [EntitlementsNext]_entitlementVars PROVE EntitlementsInv'
  OBVIOUS
<1>1. CASE UNCHANGED entitlementVars
  BY <1>1 DEF entitlementVars, EntitlementsInv, EntitlementsTypeOK, ShownIsChosen
<1>2. QED
  BY <1>1, BeginStep, ComputeStep, CommitWriterStep, RollBackStep, NextDayStep
    DEF EntitlementsNext

LEMMA EntitlementsStart == EntitlementsInit => EntitlementsInv
<1> SUFFICES ASSUME EntitlementsInit PROVE EntitlementsInv
  OBVIOUS
<1>1. EntitlementsTypeOK
  BY NoRightIsRight, DayAssumption DEF EntitlementsInit, EntitlementsTypeOK, Days
<1>2. access = Recompute(right, 0) /\ access.asOf = 0
  <2>1. LiveAt(right, 0) = {}
    BY DEF EntitlementsInit, LiveAt, NoRight
  <2>2. Candidates(right, 0) = {}
    BY <2>1 DEF Candidates
  <2>3. QED
    BY <2>2 DEF Recompute, EntitlementsInit, NoAccess
<1>3. ShownIsChosen
  BY <1>2 DEF EntitlementsInit, ShownIsChosen
<1>4. QED
  BY <1>1, <1>3 DEF EntitlementsInv

LEMMA EntitlementsInvariant == EntitlementsSpec => []EntitlementsInv
  BY EntitlementsStart, EntitlementsInvStep, PTL DEF EntitlementsSpec

-----------------------------------------------------------------------------
(* What is shown *)

LEMMA BestIsShown == EntitlementsInv => ShowsBestRight
<1> SUFFICES ASSUME EntitlementsInv PROVE ShowsBestRight
  OBVIOUS
<1>t. EntitlementsTypeOK /\ ShownIsChosen
  BY DEF EntitlementsInv
<1> DEFINE live == {s \in LiveAt(right, day) \ SandboxRows : ~Unseen(s)}
           best == Candidates(right, access.asOf)
           counted == LiveAt(right, access.asOf)
<1>1. /\ access = Recompute(right, access.asOf) /\ access.asOf <= day
      /\ right \in Rights /\ access.asOf \in Days /\ access.asOf \in Nat /\ day \in Nat
  BY <1>t, DayAssumption DEF EntitlementsTypeOK, ShownIsChosen, Rights, Access, Days
<1>2. /\ access.until \in Nat
      /\ best = {} => access.until = 0
      /\ best # {} => /\ \E s \in best : right[s].until = access.until
                      /\ \A s \in best : right[s].until <= access.until
      /\ access.sandbox <=> best # {} /\ best \subseteq SandboxRows
  <2>1. access.until \in Nat
    BY <1>t DEF EntitlementsTypeOK, Access
  <2>2. QED
    BY <1>1, <2>1, ChoiceOf
<1>3. \A s \in Sources : right[s].until \in Nat /\ right[s].from \in Nat
  BY <1>1, DayAssumption DEF Rights, Right, Days
<1>4. live \subseteq counted \ SandboxRows
  <2> SUFFICES ASSUME NEW s \in live PROVE s \in counted
    OBVIOUS
  <2>1. /\ s \in Sources /\ right[s].until > day
        /\ s \in Grants => right[s].from <= access.asOf
    BY <1>1, <1>3 DEF LiveAt, Unseen
  <2>2. right[s].until > access.asOf
    BY <1>1, <1>3, <2>1
  <2>3. QED
    BY <2>1, <2>2 DEF LiveAt
<1>5. best = IF counted \subseteq SandboxRows THEN counted ELSE counted \ SandboxRows
  BY DEF Candidates
<1>6. best \subseteq counted /\ counted \subseteq Sources
  BY <1>5 DEF LiveAt
<1>7. ASSUME live # {}
      PROVE  access.until = Max({right[s].until : s \in live}) /\ ~access.sandbox
  <2>1. best = counted \ SandboxRows /\ live \subseteq best /\ best # {}
    BY <1>4, <1>5, <1>7
  <2>2. ~access.sandbox
    BY <1>2, <2>1
  <2>3. PICK longest \in best : right[longest].until = access.until
    BY <1>2, <2>1
  <2>4. \A s \in live : right[s].until <= access.until /\ right[s].until > day
    BY <1>2, <2>1 DEF LiveAt
  <2>5. access.until > day
    <3>1. PICK s \in live : TRUE
      BY <1>7
    <3>2. s \in Sources /\ right[s].until <= access.until /\ right[s].until > day
      BY <1>6, <2>1, <2>4, <3>1
    <3>3. QED
      BY <1>1, <1>2, <1>3, <3>2
  <2>6. longest \in live
    <3>1. longest \in Sources /\ longest \notin SandboxRows
      BY <1>6, <2>1
    <3>2. longest \in Grants => right[longest].from <= access.asOf /\ right[longest].from <= day
      BY <1>1, <1>3, <1>6, <2>1, <3>1 DEF LiveAt
    <3>3. longest \in LiveAt(right, day)
      BY <2>3, <2>5, <3>1, <3>2 DEF LiveAt
    <3>4. ~Unseen(longest)
      BY <1>1, <1>3, <3>1, <3>2 DEF Unseen
    <3>5. QED
      BY <3>1, <3>3, <3>4
  <2> DEFINE top == Max({right[s].until : s \in live})
  <2>7. /\ top \in Nat /\ \E s \in live : right[s].until = top
        /\ \A s \in live : right[s].until <= top
    <3>1. live \subseteq Sources
      BY <1>4, <1>6
    <3> HIDE DEF live
    <3>2. QED
      BY <1>1, <1>7, <3>1, BestOf
  <2> HIDE DEF top, live
  <2>8. access.until <= top
    BY <2>3, <2>6, <2>7
  <2>9. top <= access.until
    BY <2>4, <2>7
  <2>10. access.until = top
    BY <1>2, <2>7, <2>8, <2>9
  <2>11. QED
    BY <2>2, <2>10 DEF top
<1>8. ASSUME Effective
      PROVE  \E s \in Sources : /\ right[s].until = access.until
                                /\ access.sandbox <=> s \in SandboxRows
  <2>1. best # {}
    BY <1>1, <1>2, <1>8 DEF Effective
  <2>2. PICK s \in best : right[s].until = access.until
    BY <1>2, <2>1
  <2>3. access.sandbox <=> s \in SandboxRows
    BY <1>2, <1>5, <2>1, <2>2
  <2>4. QED
    BY <1>6, <2>2, <2>3
<1>9. QED
  BY <1>7, <1>8 DEF ShowsBestRight

\* An account is shown the right that lasts longest, a paid one or a grant before one
\* of the Sandbox, and none that it does not have (recompute_pressay_entitlement).
THEOREM BestRightIsShown == EntitlementsSpec => []ShowsBestRight
  BY EntitlementsInvariant, BestIsShown, PTL

-----------------------------------------------------------------------------
(* APP STORE                                                               *)

(* The inductive invariant *)

Sold(o) == store[o] # NotBought

\* Apple never says two things of one moment, and has sent a notice of what it says now.
NoticeInv(n) ==
  LET o == notice[n].purchase
  IN  notice[n] # NoNotice =>
        /\ Sold(o) /\ notice[n].at <= store[o].at
        /\ notice[n].at = store[o].at => notice[n].status = store[o].status

StoreInv(o) == Sold(o) =>
  /\ store[o].at <= signed
  /\ \E n \in Notices :
       notice[n] # NoNotice /\ notice[n].purchase = o /\ notice[n].at = store[o].at

AnsweredInv(n) ==
  /\ n \in answered => notice[n] # NoNotice
  /\ n \in answered <=> noted[n] \in {"applied", "ignored"}

\* What is read or written of a purchase is what Apple says, unless it is older.
TrueOrOlder(o, status, stamp) ==
  /\ stamp <= signed
  /\ stamp >= store[o].at => status = store[o].status

HookInv(h) ==
  LET o == notice[hook[h].notice].purchase
  IN  hook[h] # IdleHook =>
        /\ notice[hook[h].notice] # NoNotice
        /\ hook[h].step = "applying" =>
             /\ hook[h].buyer \in Buyers
             /\ Permitted(o, hook[h].buyer)
             /\ appleRow[o] = NoAppleRow => hook[h].buyer = token[o]

RestoreInv(r) ==
  LET o == restore[r].purchase
  IN  /\ restore[r].step \in {"asking", "applying"} => Sold(o)
      /\ restore[r].step = "applying" =>
           /\ Permitted(o, restore[r].buyer)
           /\ restore[r].read \in Purchase
           /\ TrueOrOlder(o, restore[r].read.status, restore[r].read.at)

RowInv(o) == appleRow[o] # NoAppleRow =>
  /\ Sold(o)
  /\ Permitted(o, appleRow[o].buyer)
  /\ TrueOrOlder(o, appleRow[o].status, appleRow[o].stamp)
  /\ o \notin sandboxed => appleCustomer[appleRow[o].buyer] = o

\* What Apple says now of a purchase has been answered.
Told(o) == \E n \in answered : notice[n].purchase = o /\ notice[n].at = store[o].at

\* No notice can give the purchase an account.
Barred(o) ==
  token[o] = NoBuyer \/ ~Permitted(o, token[o]) \/ ~CustomerOf(o, token[o])

ReadsNow(o) == \A r \in Restores :
  restore[r].step = "applying" /\ restore[r].purchase = o => restore[r].read.at >= store[o].at

ToldInv(o) ==
  Told(o) /\ o \notin overlooked =>
    \/ appleRow[o] # NoAppleRow /\ appleRow[o].stamp >= store[o].at
    \/ appleRow[o] = NoAppleRow /\ Barred(o) /\ ReadsNow(o)

AppleInv ==
  /\ AppleTypeOK
  /\ \A n \in Notices : NoticeInv(n) /\ AnsweredInv(n)
  /\ \A o \in Bought : StoreInv(o) /\ RowInv(o) /\ ToldInv(o)
  /\ \A h \in Hooks : HookInv(h)
  /\ \A r \in Restores : RestoreInv(r)

-----------------------------------------------------------------------------
(* Records *)

LEMMA NothingIsNoRow ==
  /\ NoAppleRow \notin AppleRow
  /\ NoNotice \notin Notice
  /\ NotBought \notin Purchase
<1>1. ASSUME NEW x \in AppleRow PROVE "stamp" \in DOMAIN x
  BY <1>1 DEF AppleRow
<1>2. ASSUME NEW x \in Notice PROVE "at" \in DOMAIN x
  BY <1>2 DEF Notice
<1>3. "stamp" \notin DOMAIN NoAppleRow /\ "at" \notin DOMAIN NoNotice
  BY DEF NoAppleRow, NoNotice
<1>4. NotBought \notin Purchase
  BY DEF NotBought, Purchase, AppleStatus
<1> QED
  BY <1>1, <1>2, <1>3, <1>4

LEMMA RowRecord ==
  ASSUME NEW a \in Buyers, NEW status \in AppleStatus, NEW stamp \in Times
  PROVE  LET row == [buyer |-> a, status |-> status, stamp |-> stamp]
         IN  /\ row \in AppleRow /\ row # NoAppleRow
             /\ row.buyer = a /\ row.status = status /\ row.stamp = stamp
  BY NothingIsNoRow DEF AppleRow

LEMMA Typed ==
  ASSUME AppleTypeOK
  PROVE  /\ \A o \in Bought : appleRow[o] # NoAppleRow =>
              /\ appleRow[o].buyer \in Buyers /\ appleRow[o].status \in AppleStatus
              /\ appleRow[o].stamp \in Times
         /\ \A n \in Notices : notice[n] # NoNotice =>
              /\ notice[n].purchase \in Bought /\ notice[n].status \in AppleStatus
              /\ notice[n].at \in Times
         /\ \A h \in Hooks : hook[h] # IdleHook =>
              /\ hook[h] \in Hook /\ hook[h].notice \in Notices
              /\ hook[h].buyer \in Buyers \cup {NoBuyer}
              /\ hook[h].step \in {"resolving", "applying"}
         /\ \A o \in Bought : store[o].at \in Times
         /\ \A o \in Bought : Sold(o) => store[o] \in Purchase /\ store[o].status \in AppleStatus
         /\ \A r \in Restores : restore[r].step \in {"asking", "applying", "restored", "refused"} =>
              /\ restore[r] \in Restore
              /\ restore[r].buyer \in Buyers /\ restore[r].purchase \in Bought
              /\ restore[r].read \in Purchase \cup {NotBought}
         /\ signed \in Times /\ Times \subseteq Int /\ signed \in Int
<1>1. Times \subseteq Int
  BY LastSignedAssumption DEF Times
<1>2. /\ \A o \in Bought : appleRow[o] # NoAppleRow => appleRow[o] \in AppleRow
      /\ \A n \in Notices : notice[n] # NoNotice => notice[n] \in Notice
      /\ \A h \in Hooks : hook[h] # IdleHook => hook[h] \in Hook
      /\ \A o \in Bought : store[o] = NotBought \/ store[o] \in Purchase
      /\ \A r \in Restores : restore[r] = NewRestore \/ restore[r] \in Restore
  BY DEF AppleTypeOK
<1>3. /\ NotBought.at = 0 /\ NewRestore.step = "new" /\ 0 \in Times
  BY LastSignedAssumption DEF NotBought, NewRestore, Times
<1>4. \A o \in Bought : store[o].at \in Times
  BY <1>2, <1>3 DEF Purchase
<1>5. \A x \in Restore : /\ x.buyer \in Buyers /\ x.purchase \in Bought
                         /\ x.read \in Purchase \cup {NotBought}
  BY DEF Restore
<1>6. \A o \in Bought : Sold(o) => store[o] \in Purchase /\ store[o].status \in AppleStatus
  BY <1>2 DEF Purchase, Sold
<1>7. \A r \in Restores : restore[r].step \in {"asking", "applying", "restored", "refused"} =>
        restore[r] \in Restore
  BY <1>2, <1>3
<1>8. \A h \in Hooks : hook[h] # IdleHook =>
              /\ hook[h] \in Hook /\ hook[h].notice \in Notices
              /\ hook[h].buyer \in Buyers \cup {NoBuyer}
              /\ hook[h].step \in {"resolving", "applying"}
  BY <1>2 DEF Hook
<1>9. \A o \in Bought : appleRow[o] # NoAppleRow =>
              /\ appleRow[o].buyer \in Buyers /\ appleRow[o].status \in AppleStatus
              /\ appleRow[o].stamp \in Times
  BY <1>2 DEF AppleRow
<1>10. \A n \in Notices : notice[n] # NoNotice =>
              /\ notice[n].purchase \in Bought /\ notice[n].status \in AppleStatus
              /\ notice[n].at \in Times
  BY <1>2 DEF Notice
<1>11. signed \in Times
  BY DEF AppleTypeOK
<1> QED
  BY <1>1, <1>4, <1>5, <1>6, <1>7, <1>8, <1>9, <1>10, <1>11

-----------------------------------------------------------------------------
(* One statement writes the row and the customer *)

LEMMA ApplyKeeps ==
  ASSUME AppleTypeOK, \A x \in Bought : RowInv(x),
         NEW fresh \in BOOLEAN, NEW o \in Bought, NEW a \in Buyers,
         NEW status \in AppleStatus, NEW stamp \in Times,
         Sold(o), Permitted(o, a), TrueOrOlder(o, status, stamp),
         Apply(fresh, o, a, status, stamp),
         UNCHANGED <<signed, bought, store>>
  PROVE  /\ appleRow' \in [Bought -> AppleRow \cup {NoAppleRow}]
         /\ appleCustomer' \in [Buyers -> Bought \cup {NoPurchase}]
         /\ \A x \in Bought : RowInv(x)'
         /\ \A x \in Bought : x # o => appleRow'[x] = appleRow[x]
         /\ \A x \in Bought : appleRow[x] # NoAppleRow =>
              /\ appleRow'[x] # NoAppleRow
              /\ appleRow'[x].buyer = appleRow[x].buyer
              /\ appleRow'[x].stamp >= appleRow[x].stamp
         /\ \A x \in Bought, b \in Buyers : ~CustomerOf(x, b) => ~CustomerOf(x, b)'
         /\ Applies(fresh, o, a, stamp) =>
              appleRow'[o] # NoAppleRow /\ appleRow'[o].stamp = stamp
         /\ ~Applies(fresh, o, a, stamp) => appleRow' = appleRow
<1> DEFINE new == [buyer |-> a, status |-> status, stamp |-> stamp]
           goes == Applies(fresh, o, a, stamp)
           takes == fresh /\ o \notin sandboxed /\ CustomerOf(o, a) /\ ~TakenByOther(o, a)
<1>0. /\ appleRow' = IF goes THEN [appleRow EXCEPT ![o] = new] ELSE appleRow
      /\ appleCustomer' = IF takes THEN [appleCustomer EXCEPT ![a] = o] ELSE appleCustomer
  BY DEF Apply
<1>1. /\ new \in AppleRow /\ new # NoAppleRow
      /\ new.buyer = a /\ new.status = status /\ new.stamp = stamp
  BY RowRecord
<1>2. /\ signed' = signed /\ sandboxed' = sandboxed /\ token' = token /\ store' = store
  BY DEF bought
<1>3. /\ appleRow \in [Bought -> AppleRow \cup {NoAppleRow}]
      /\ appleCustomer \in [Buyers -> Bought \cup {NoPurchase}]
  BY DEF AppleTypeOK
<1>4. goes => /\ fresh /\ CustomerOf(o, a) /\ ~TakenByOther(o, a)
              /\ appleRow[o] = NoAppleRow \/ (appleRow[o].buyer = a /\ appleRow[o].stamp <= stamp)
  BY DEF Applies, Accepts
<1>5. goes => o \in sandboxed \/ takes
  BY <1>4
<1>6. takes => o \notin sandboxed /\ appleCustomer[a] \in {NoPurchase, o}
  BY DEF CustomerOf
<1> HIDE DEF new, goes, takes
<1>7. /\ appleRow' \in [Bought -> AppleRow \cup {NoAppleRow}]
      /\ appleCustomer' \in [Buyers -> Bought \cup {NoPurchase}]
  BY <1>0, <1>1, <1>3
<1>8. /\ \A x \in Bought : x # o => appleRow'[x] = appleRow[x]
      /\ goes => appleRow'[o] = new
      /\ ~goes => appleRow' = appleRow
  BY <1>0, <1>3
<1>9. /\ \A b \in Buyers : b # a => appleCustomer'[b] = appleCustomer[b]
      /\ takes => appleCustomer'[a] = o
      /\ ~takes => appleCustomer' = appleCustomer
  BY <1>0, <1>3
<1>10. ASSUME NEW x \in Bought, appleRow[x] # NoAppleRow
       PROVE  /\ appleRow'[x] # NoAppleRow
              /\ appleRow'[x].buyer = appleRow[x].buyer
              /\ appleRow'[x].stamp >= appleRow[x].stamp
  <2>1. appleRow[x].stamp \in Int
    BY <1>10, Typed
  <2>2. stamp \in Int
    BY Typed
  <2> QED
    BY <1>1, <1>4, <1>8, <1>10, <2>1, <2>2
<1>11. ASSUME NEW x \in Bought, NEW b \in Buyers, ~CustomerOf(x, b)
       PROVE  ~CustomerOf(x, b)'
  <2>1. x \notin sandboxed /\ appleCustomer[b] \notin {NoPurchase, x}
    BY <1>11 DEF CustomerOf
  <2>2. appleCustomer'[b] = appleCustomer[b]
    <3>1. CASE b = a /\ takes
      BY <1>6, <1>9, <2>1, <3>1
    <3>2. CASE ~(b = a /\ takes)
      BY <1>9, <3>2
    <3> QED
      BY <3>1, <3>2
  <2> QED
    BY <1>2, <2>1, <2>2 DEF CustomerOf
<1>12. ASSUME NEW x \in Bought
       PROVE  RowInv(x)'
  <2> SUFFICES ASSUME appleRow'[x] # NoAppleRow
               PROVE  /\ Sold(x) /\ Permitted(x, appleRow'[x].buyer)
                      /\ TrueOrOlder(x, appleRow'[x].status, appleRow'[x].stamp)
                      /\ x \notin sandboxed => appleCustomer'[appleRow'[x].buyer] = x
    BY <1>2 DEF RowInv, Sold, Permitted, TrueOrOlder
  <2>1. CASE x = o /\ goes
    <3>1. appleRow'[x] = new
      BY <1>8, <2>1
    <3>2. x \notin sandboxed => appleCustomer'[a] = x
      BY <1>5, <1>9, <2>1
    <3> QED
      BY <1>1, <2>1, <3>1, <3>2
  <2>2. CASE ~(x = o /\ goes)
    <3>1. appleRow'[x] = appleRow[x] /\ appleRow[x] # NoAppleRow
      BY <1>8, <2>2
    <3>2. RowInv(x) /\ appleRow[x].buyer \in Buyers
      BY <3>1, Typed
    <3>3. x \notin sandboxed => appleCustomer'[appleRow[x].buyer] = x
      <4> SUFFICES ASSUME x \notin sandboxed PROVE appleCustomer'[appleRow[x].buyer] = x
        OBVIOUS
      <4>1. appleCustomer[appleRow[x].buyer] = x
        BY <3>1, <3>2 DEF RowInv
      <4>2. x # NoPurchase
        BY AppleNamesAssumption
      <4>3. CASE takes /\ a = appleRow[x].buyer
        BY <1>6, <1>9, <4>1, <4>2, <4>3
      <4>4. CASE ~(takes /\ a = appleRow[x].buyer)
        BY <1>9, <3>2, <4>1, <4>4
      <4> QED
        BY <4>3, <4>4
    <3> QED
      BY <3>1, <3>2, <3>3 DEF RowInv
  <2> QED
    BY <2>1, <2>2
<1> QED
  BY <1>1, <1>7, <1>8, <1>10, <1>11, <1>12 DEF goes

-----------------------------------------------------------------------------
(* Apple *)

LEMMA ChangesStep ==
  ASSUME AppleInv, NEW o \in Bought, NEW n \in Notices, AppleChanges(o, n)
  PROVE  AppleInv'
<1>0. AppleTypeOK
  BY DEF AppleInv
<1>1. PICK status \in AppleStatus :
        /\ store' = [store EXCEPT ![o] = [status |-> status, at |-> signed']]
        /\ notice' = [notice EXCEPT ![n] =
             [purchase |-> o, status |-> status, at |-> signed']]
  BY DEF AppleChanges
<1>2. /\ signed < LastSigned /\ notice[n] = NoNotice /\ signed' = signed + 1
      /\ sandboxed' = sandboxed /\ token' = token /\ answered' = answered /\ noted' = noted
      /\ appleRow' = appleRow /\ appleCustomer' = appleCustomer /\ hook' = hook
      /\ restore' = restore /\ overlooked' = overlooked
  BY DEF AppleChanges, bought
<1>3. /\ store \in [Bought -> Purchase \cup {NotBought}]
      /\ notice \in [Notices -> Notice \cup {NoNotice}]
  BY <1>0 DEF AppleTypeOK
<1>4. signed' \in Times /\ signed \in Int /\ signed' \in Int
  BY <1>0, <1>2, Typed, LastSignedAssumption DEF Times
<1> DEFINE now == [status |-> status, at |-> signed']
           sent == [purchase |-> o, status |-> status, at |-> signed']
<1>5. /\ now \in Purchase /\ now # NotBought /\ sent \in Notice /\ sent # NoNotice
      /\ now.status = status /\ now.at = signed'
      /\ sent.purchase = o /\ sent.status = status /\ sent.at = signed'
  BY <1>4, NothingIsNoRow DEF Purchase, Notice
<1>6. /\ store' = [store EXCEPT ![o] = now] /\ notice' = [notice EXCEPT ![n] = sent]
  BY <1>1
<1> HIDE DEF now, sent
<1>7. /\ store'[o] = now /\ \A x \in Bought : x # o => store'[x] = store[x]
      /\ notice'[n] = sent /\ \A m \in Notices : m # n => notice'[m] = notice[m]
  BY <1>3, <1>6
<1>8. AppleTypeOK'
  <2>1. /\ store' \in [Bought -> Purchase \cup {NotBought}]
        /\ notice' \in [Notices -> Notice \cup {NoNotice}]
    BY <1>3, <1>5, <1>6
  <2> QED
    BY <1>0, <1>2, <1>4, <2>1 DEF AppleTypeOK
<1>9. ASSUME NEW x \in Bought, Sold(x)
      PROVE  /\ Sold(x)' /\ store[x].at <= signed /\ store[x].at \in Int
             /\ x = o => signed < store'[x].at
  <2>1. store[x].at <= signed /\ store[x].at \in Int
    BY <1>0, <1>9, Typed DEF AppleInv, StoreInv
  <2> QED
    BY <1>2, <1>4, <1>5, <1>7, <1>9, <2>1 DEF Sold
<1>10. ASSUME NEW m \in Notices, notice[m] # NoNotice
       PROVE  /\ m # n /\ notice'[m] = notice[m] /\ notice[m].purchase \in Bought
              /\ Sold(notice[m].purchase) /\ notice[m].at \in Int
              /\ notice[m].at <= store[notice[m].purchase].at
              /\ notice[m].at <= signed
  <2>1. /\ m # n /\ notice'[m] = notice[m] /\ notice[m].purchase \in Bought
        /\ notice[m].at \in Int
    BY <1>0, <1>2, <1>7, <1>10, Typed
  <2>2. Sold(notice[m].purchase) /\ notice[m].at <= store[notice[m].purchase].at
    BY <1>10 DEF AppleInv, NoticeInv
  <2> QED
    BY <1>4, <1>9, <2>1, <2>2
<1>11. ASSUME NEW m \in Notices
       PROVE  NoticeInv(m)' /\ AnsweredInv(m)'
  <2>1. AnsweredInv(m)'
    BY <1>2, <1>10, <1>11 DEF AppleInv, AnsweredInv
  <2>2. CASE m = n
    <3>1. notice'[m] = sent /\ store'[o] = now
      BY <1>7, <2>2
    <3>2. Sold(o)'
      BY <1>5, <3>1 DEF Sold
    <3> QED
      BY <1>4, <1>5, <2>1, <3>1, <3>2 DEF NoticeInv
  <2>3. CASE m # n /\ notice[m] # NoNotice
    <3>1. /\ notice'[m] = notice[m] /\ notice[m].purchase \in Bought
          /\ Sold(notice[m].purchase)' /\ notice[m].at \in Int
          /\ notice[m].at <= store[notice[m].purchase].at
      BY <1>9, <1>10, <2>3
    <3>2. CASE notice[m].purchase = o
      <4>1. notice[m].at < store'[o].at /\ store'[o].at \in Int
        BY <1>4, <1>5, <1>7, <1>9, <1>10, <2>3, <3>2
      <4> QED
        BY <2>1, <3>1, <3>2, <4>1 DEF NoticeInv
    <3>3. CASE notice[m].purchase # o
      <4>1. store'[notice[m].purchase] = store[notice[m].purchase]
        BY <1>7, <3>1, <3>3
      <4> QED
        BY <2>1, <2>3, <3>1, <4>1 DEF NoticeInv, AppleInv
    <3> QED
      BY <3>2, <3>3
  <2>4. CASE m # n /\ notice[m] = NoNotice
    BY <1>7, <2>1, <2>4 DEF NoticeInv
  <2> QED
    BY <2>2, <2>3, <2>4
<1>12. ASSUME NEW x \in Bought
       PROVE  StoreInv(x)'
  <2>1. CASE x = o
    <3>1. notice'[n] # NoNotice /\ notice'[n].purchase = x /\ notice'[n].at = store'[x].at
      BY <1>5, <1>7, <2>1
    <3>2. store'[x].at <= signed'
      BY <1>4, <1>5, <1>7, <2>1
    <3> QED
      BY <3>1, <3>2 DEF StoreInv
  <2>2. CASE x # o
    <3> SUFFICES ASSUME Sold(x)' PROVE StoreInv(x)'
      BY DEF StoreInv
    <3>1. Sold(x) /\ store'[x] = store[x]
      BY <1>7, <2>2 DEF Sold
    <3>2. PICK m \in Notices :
            notice[m] # NoNotice /\ notice[m].purchase = x /\ notice[m].at = store[x].at
      BY <3>1 DEF AppleInv, StoreInv
    <3>3. notice'[m] = notice[m]
      BY <1>10, <3>2
    <3>4. store[x].at <= signed'
      BY <1>2, <1>4, <1>9, <3>1
    <3> QED
      BY <3>1, <3>2, <3>3, <3>4 DEF StoreInv
  <2> QED
    BY <2>1, <2>2
<1>13. ASSUME NEW x \in Bought, NEW s, NEW stamp \in Int, Sold(x), TrueOrOlder(x, s, stamp)
       PROVE  TrueOrOlder(x, s, stamp)'
  BY <1>2, <1>4, <1>7, <1>9, <1>13, <1>5 DEF TrueOrOlder
<1>14. ASSUME NEW h \in Hooks
       PROVE  HookInv(h)'
  <2> SUFFICES ASSUME hook[h] # IdleHook PROVE HookInv(h)'
    BY <1>2 DEF HookInv
  <2>1. HookInv(h) /\ notice[hook[h].notice] # NoNotice /\ hook[h].notice \in Notices
    BY <1>0, Typed DEF AppleInv, HookInv
  <2>2. notice'[hook[h].notice] = notice[hook[h].notice]
    BY <1>10, <2>1
  <2> QED
    BY <1>2, <2>1, <2>2 DEF HookInv, Permitted
<1>15. ASSUME NEW r \in Restores
       PROVE  RestoreInv(r)'
  <2> SUFFICES ASSUME restore[r].step \in {"asking", "applying"} PROVE RestoreInv(r)'
    BY <1>2 DEF RestoreInv
  <2>1. /\ RestoreInv(r) /\ Sold(restore[r].purchase) /\ restore[r].purchase \in Bought
        /\ Sold(restore[r].purchase)'
    BY <1>0, <1>2, <1>9, Typed DEF AppleInv, RestoreInv, Sold
  <2>2. CASE restore[r].step = "asking"
    BY <1>2, <2>1, <2>2 DEF RestoreInv
  <2>3. CASE restore[r].step = "applying"
    <3>1. restore[r].read \in Purchase /\ restore[r].read.at \in Int
      BY <1>0, <2>1, <2>3, Typed DEF RestoreInv, Purchase
    <3>2. TrueOrOlder(restore[r].purchase, restore[r].read.status, restore[r].read.at)
      BY <2>1, <2>3 DEF RestoreInv
    <3>3. ASSUME NEW x \in Bought, NEW s, NEW stamp, x = restore[r].purchase,
                 s = restore[r].read.status, stamp = restore[r].read.at
          PROVE TrueOrOlder(x, s, stamp)'
      BY <1>13, <2>1, <3>1, <3>2, <3>3
    <3>4. TrueOrOlder(restore[r].purchase, restore[r].read.status, restore[r].read.at)'
      BY <1>2, <2>1, <3>3 DEF TrueOrOlder
    <3> QED
      BY <1>2, <2>1, <2>3, <3>1, <3>4 DEF RestoreInv, Permitted
  <2> QED
    BY <2>2, <2>3
<1>16. ASSUME NEW x \in Bought
       PROVE  RowInv(x)'
  <2> SUFFICES ASSUME appleRow[x] # NoAppleRow PROVE RowInv(x)'
    BY <1>2 DEF RowInv
  <2>1. RowInv(x) /\ Sold(x) /\ Sold(x)' /\ appleRow[x].stamp \in Int
    BY <1>0, <1>9, Typed DEF AppleInv, RowInv
  <2>2. ASSUME NEW s, NEW stamp, s = appleRow[x].status, stamp = appleRow[x].stamp
        PROVE TrueOrOlder(x, s, stamp)'
    BY <1>13, <2>1, <2>2 DEF RowInv
  <2>3. TrueOrOlder(x, appleRow[x].status, appleRow[x].stamp)'
    BY <1>2, <2>2 DEF TrueOrOlder
  <2> QED
    BY <1>2, <2>1, <2>3 DEF RowInv, Permitted
<1>17. ASSUME NEW x \in Bought
       PROVE  ToldInv(x)'
  <2> SUFFICES ASSUME Told(x)', x \notin overlooked PROVE ToldInv(x)'
    BY <1>2 DEF ToldInv
  <2>1. PICK m \in answered : notice'[m].purchase = x /\ notice'[m].at = store'[x].at
    BY <1>2 DEF Told
  <2>2. m \in Notices /\ notice[m] # NoNotice
    BY <1>0 DEF AppleInv, AnsweredInv, AppleTypeOK
  <2>3. x # o
    BY <1>4, <1>7, <1>9, <1>10, <2>1, <2>2
  <2>4. store'[x] = store[x] /\ notice'[m] = notice[m]
    BY <1>7, <1>10, <2>2, <2>3
  <2>5. Told(x)
    BY <2>1, <2>4 DEF Told
  <2>6. ToldInv(x)
    BY DEF AppleInv
  <2> QED
    BY <1>2, <2>4, <2>5, <2>6 DEF ToldInv, Barred, ReadsNow, Permitted, CustomerOf
<1> QED
  BY <1>8, <1>11, <1>12, <1>14, <1>15, <1>16, <1>17 DEF AppleInv

-----------------------------------------------------------------------------
(* Notices *)


\* A step of which Apple takes no part.
LEMMA Kept ==
  ASSUME AppleInv, UNCHANGED <<signed, bought, store, notice>>
  PROVE  /\ \A n \in Notices : NoticeInv(n)'
         /\ \A o \in Bought : StoreInv(o)'
         /\ \A r \in Restores : restore'[r] = restore[r] => RestoreInv(r)'
         /\ UNCHANGED <<appleRow, appleCustomer>> => \A o \in Bought : RowInv(o)'
         /\ (\A o \in Bought : appleRow[o] # NoAppleRow => appleRow'[o] # NoAppleRow)
              => \A h \in Hooks : hook'[h] = hook[h] => HookInv(h)'
<1>1. /\ signed' = signed /\ sandboxed' = sandboxed /\ token' = token /\ store' = store
      /\ notice' = notice
  BY DEF bought
<1>2. \A n \in Notices : NoticeInv(n)'
  BY <1>1 DEF AppleInv, NoticeInv, Sold
<1>3. \A o \in Bought : StoreInv(o)'
  BY <1>1 DEF AppleInv, StoreInv, Sold
<1>4. \A r \in Restores : restore'[r] = restore[r] => RestoreInv(r)'
  BY <1>1 DEF AppleInv, RestoreInv, Sold, Permitted, TrueOrOlder
<1>5. UNCHANGED <<appleRow, appleCustomer>> => \A o \in Bought : RowInv(o)'
  BY <1>1 DEF AppleInv, RowInv, Sold, Permitted, TrueOrOlder
<1>6. ASSUME \A o \in Bought : appleRow[o] # NoAppleRow => appleRow'[o] # NoAppleRow,
             NEW h \in Hooks, hook'[h] = hook[h]
      PROVE  HookInv(h)'
  <2> SUFFICES ASSUME hook[h] # IdleHook PROVE HookInv(h)'
    BY <1>6 DEF HookInv
  <2>1. HookInv(h) /\ notice[hook[h].notice].purchase \in Bought
    BY Typed DEF AppleInv, HookInv
  <2> QED
    BY <1>1, <1>6, <2>1 DEF HookInv, Permitted
<1> QED
  BY <1>2, <1>3, <1>4, <1>5, <1>6

\* Nor has anything been told, written or read of the purchase.
LEMMA ToldKept ==
  ASSUME AppleInv, UNCHANGED <<signed, bought, store, notice>>, NEW o \in Bought,
         Told(o)' => Told(o), overlooked \subseteq overlooked', appleRow'[o] = appleRow[o],
         \A b \in Buyers : ~CustomerOf(o, b) => ~CustomerOf(o, b)',
         \A q \in Restores : restore'[q].step = "applying" /\ restore'[q].purchase = o =>
           restore'[q] = restore[q] \/ restore'[q].read.at >= store[o].at
  PROVE  ToldInv(o)'
<1>1. sandboxed' = sandboxed /\ token' = token /\ store' = store
  BY DEF bought
<1>2. ToldInv(o) /\ token[o] \in Buyers \cup {NoBuyer}
  BY DEF AppleInv, AppleTypeOK
<1>3. ReadsNow(o) => ReadsNow(o)'
  BY <1>1 DEF ReadsNow
<1>4. Barred(o) => Barred(o)'
  BY <1>1, <1>2 DEF Barred, Permitted
<1> QED
  BY <1>1, <1>2, <1>3, <1>4 DEF ToldInv

LEMMA NotifyStep ==
  ASSUME AppleInv, NEW h \in Hooks, NEW n \in Notices, Notify(h, n)
  PROVE  AppleInv'
<1>0. AppleTypeOK
  BY DEF AppleInv
<1> DEFINE begun == [step |-> "resolving", notice |-> n, buyer |-> NoBuyer]
<1>1. /\ hook' = [hook EXCEPT ![h] = begun] /\ notice[n] # NoNotice
      /\ UNCHANGED <<signed, bought, store, notice, answered, noted, appleRow, appleCustomer,
                     restore, overlooked>>
  BY DEF Notify
<1>2. begun \in Hook /\ begun.notice = n /\ begun.step = "resolving"
  BY DEF Hook
<1> HIDE DEF begun
<1>3. hook \in [Hooks -> Hook \cup {IdleHook}]
  BY <1>0 DEF AppleTypeOK
<1>4. AppleTypeOK'
  <2>1. hook' \in [Hooks -> Hook \cup {IdleHook}]
    BY <1>1, <1>2, <1>3
  <2> QED
    BY <1>0, <1>1, <2>1 DEF AppleTypeOK, bought
<1>5. ASSUME NEW g \in Hooks
      PROVE  HookInv(g)'
  <2>1. CASE g = h
    <3>1. hook'[g] = begun
      BY <1>1, <1>3, <2>1
    <3> QED
      BY <1>1, <1>2, <3>1 DEF HookInv
  <2>2. CASE g # h
    BY <1>1, <1>3, <2>2, Kept
  <2> QED
    BY <2>1, <2>2
<1>6. ASSUME NEW m \in Notices
      PROVE  AnsweredInv(m)'
  BY <1>1 DEF AppleInv, AnsweredInv
<1>7. ASSUME NEW o \in Bought
      PROVE  ToldInv(o)'
  <2>1. \A b \in Buyers : ~CustomerOf(o, b) => ~CustomerOf(o, b)'
    BY <1>1 DEF CustomerOf, bought
  <2>2. Told(o)' => Told(o)
    BY <1>1 DEF Told
  <2> QED
    BY <1>1, <2>1, <2>2, ToldKept
<1> QED
  BY <1>1, <1>4, <1>5, <1>6, <1>7, Kept DEF AppleInv

\* What the answer of a notice leaves told of the other purchases.
LEMMA TellsNoOther ==
  ASSUME AppleInv, UNCHANGED <<store, notice>>, NEW n \in Notices, NEW o \in Bought,
         answered' = answered \cup {n}, notice[n].purchase # o
  PROVE  Told(o)' => Told(o)
  BY DEF Told

LEMMA ResolveStep ==
  ASSUME AppleInv, NEW h \in Hooks, Resolve(h)
  PROVE  AppleInv'
<1>0. AppleTypeOK
  BY DEF AppleInv
<1> DEFINE n == hook[h].notice
           o == notice[n].purchase
           a == Resolved(o)
<1>1. /\ hook[h] # IdleHook
      /\ UNCHANGED <<signed, bought, store, notice, appleRow, appleCustomer, restore>>
  BY DEF Resolve
<1>2. HookInv(h) /\ n \in Notices /\ notice[n] # NoNotice /\ o \in Bought /\ hook[h] \in Hook
  BY <1>0, <1>1, Typed DEF AppleInv, HookInv
<1>3. a \in Buyers \cup {NoBuyer} /\ (appleRow[o] = NoAppleRow => a = token[o])
  <2>1. token[o] \in Buyers \cup {NoBuyer}
    BY <1>0, <1>2 DEF AppleTypeOK
  <2> QED
    BY <1>0, <1>2, <2>1, Typed DEF Resolved
<1>4. hook \in [Hooks -> Hook \cup {IdleHook}] /\ noted \in [Notices -> {"none", "failed", "applied", "ignored"}]
  BY <1>0 DEF AppleTypeOK
<1>5. CASE a # NoBuyer /\ Permitted(o, a)
  <2> DEFINE chosen == [hook[h] EXCEPT !.step = "applying", !.buyer = a]
  <2>1. /\ hook' = [hook EXCEPT ![h] = chosen]
        /\ UNCHANGED <<answered, noted, overlooked>>
    BY <1>5 DEF Resolve
  <2>2. /\ chosen \in Hook /\ chosen.step = "applying" /\ chosen.notice = n
        /\ chosen.buyer = a
    BY <1>2, <1>3 DEF Hook
  <2> HIDE DEF chosen
  <2>3. hook'[h] = chosen /\ \A g \in Hooks : g # h => hook'[g] = hook[g]
    BY <1>4, <2>1
  <2>4. HookInv(h)'
    <3> HIDE DEF a
    <3>1. /\ hook'[h].notice = n /\ hook'[h].buyer = a /\ a \in Buyers /\ Permitted(o, a)
          /\ appleRow[o] = NoAppleRow => a = token[o]
      BY <1>3, <1>5, <2>2, <2>3
    <3> HIDE DEF n
    <3>2. sandboxed' = sandboxed /\ token' = token /\ notice' = notice /\ appleRow' = appleRow
      BY <1>1 DEF bought
    <3> QED
      BY <1>2, <3>1, <3>2 DEF HookInv, Permitted
  <2>5. AppleTypeOK'
    <3>1. hook' \in [Hooks -> Hook \cup {IdleHook}]
      BY <1>4, <2>1, <2>2
    <3> QED
      BY <1>0, <1>1, <2>1, <3>1 DEF AppleTypeOK, bought
  <2>6. \A g \in Hooks : HookInv(g)'
    BY <1>1, <2>3, <2>4, Kept
  <2>7. \A m \in Notices : AnsweredInv(m)'
    BY <1>1, <2>1 DEF AppleInv, AnsweredInv
  <2>8. ASSUME NEW x \in Bought
        PROVE  ToldInv(x)'
    <3>1. \A b \in Buyers : ~CustomerOf(x, b) => ~CustomerOf(x, b)'
      BY <1>1 DEF CustomerOf, bought
    <3>2. Told(x)' => Told(x)
      BY <1>1, <2>1 DEF Told
    <3> QED
      BY <1>1, <2>1, <3>1, <3>2, ToldKept
  <2> QED
    BY <1>1, <2>5, <2>6, <2>7, <2>8, Kept DEF AppleInv
<1>6. CASE ~(a # NoBuyer /\ Permitted(o, a))
  <2>1. /\ hook' = [hook EXCEPT ![h] = IdleHook] /\ answered' = answered \cup {n}
        /\ noted' = IF noted[n] \in {"none", "failed"}
                      THEN [noted EXCEPT ![n] = "ignored"] ELSE noted
        /\ overlooked' = IF Linking(o) THEN overlooked \cup {o} ELSE overlooked
    BY <1>6 DEF Resolve, Ignore, AnswerNotice
  <2>2. appleRow[o] = NoAppleRow /\ Barred(o)
    <3>1. appleRow[o] = NoAppleRow
      <4> SUFFICES ASSUME appleRow[o] # NoAppleRow PROVE FALSE
        OBVIOUS
      <4>1. RowInv(o) /\ appleRow[o].buyer \in Buyers
        BY <1>0, <1>2, Typed DEF AppleInv
      <4>2. a = appleRow[o].buyer
        BY DEF Resolved
      <4> QED
        BY <1>6, <4>1, <4>2, AppleNamesAssumption DEF RowInv
    <3> QED
      BY <1>3, <1>6, <3>1 DEF Barred
  <2> HIDE DEF a
  <2>3. hook'[h] = IdleHook /\ \A g \in Hooks : g # h => hook'[g] = hook[g]
    BY <1>4, <2>1
  <2>4. \A g \in Hooks : HookInv(g)'
    <3>1. HookInv(h)'
      BY <2>3 DEF HookInv
    <3> QED
      BY <1>1, <2>3, <3>1, Kept
  <2>5. AppleTypeOK'
    <3>1. /\ hook' \in [Hooks -> Hook \cup {IdleHook}]
          /\ noted' \in [Notices -> {"none", "failed", "applied", "ignored"}]
          /\ answered' \in SUBSET Notices /\ overlooked' \in SUBSET Bought
      BY <1>0, <1>2, <1>4, <2>1 DEF AppleTypeOK
    <3> QED
      BY <1>0, <1>1, <3>1 DEF AppleTypeOK, bought
  <2>6. ASSUME NEW m \in Notices
        PROVE  AnsweredInv(m)'
    <3> HIDE DEF n
    <3>1. AnsweredInv(m) /\ AnsweredInv(n) /\ notice' = notice
      BY <1>1, <1>2 DEF AppleInv
    <3>2. noted[n] \in {"none", "failed", "applied", "ignored"}
      BY <1>2, <1>4
    <3>3. CASE m = n
      <4>1. noted'[n] \in {"applied", "ignored"}
        BY <1>2, <1>4, <2>1, <3>2
      <4> QED
        BY <1>2, <2>1, <3>1, <3>3, <4>1 DEF AnsweredInv
    <3>4. CASE m # n
      <4>1. noted'[m] = noted[m]
        BY <1>4, <2>1, <3>4
      <4> QED
        BY <2>1, <3>1, <3>4, <4>1 DEF AnsweredInv
    <3> QED
      BY <3>3, <3>4
  <2>7. ASSUME NEW x \in Bought
        PROVE  ToldInv(x)'
    <3>1. \A b \in Buyers : ~CustomerOf(x, b) => ~CustomerOf(x, b)'
      BY <1>1 DEF CustomerOf, bought
    <3>2. CASE x # o
      <4>1. Told(x)' => Told(x)
        BY <1>1, <1>2, <2>1, <3>2, TellsNoOther
      <4> QED
        BY <1>1, <2>1, <3>1, <4>1, ToldKept
    <3>3. CASE x = o
      <4> SUFFICES ASSUME x \notin overlooked' PROVE ToldInv(x)'
        BY DEF ToldInv
      <4>1. ~Linking(x)
        BY <2>1, <3>3
      <4>2. ReadsNow(x)'
        BY <1>1, <4>1 DEF Linking, ReadsNow, NewRestore
      <4>3. Barred(x)' /\ appleRow'[x] = NoAppleRow
        BY <1>1, <2>2, <3>3 DEF Barred, Permitted, CustomerOf, bought
      <4> QED
        BY <4>2, <4>3 DEF ToldInv
    <3> QED
      BY <3>2, <3>3
  <2> QED
    BY <1>1, <2>4, <2>5, <2>6, <2>7, Kept DEF AppleInv
<1> QED
  BY <1>5, <1>6

LEMMA ApplyNoticeStep ==
  ASSUME AppleInv, NEW h \in Hooks, ApplyNotice(h)
  PROVE  /\ AppleInv'
         /\ \A o \in Bought : appleRow[o] # NoAppleRow =>
              appleRow'[o] # NoAppleRow /\ appleRow'[o].buyer = appleRow[o].buyer
<1>0. AppleTypeOK
  BY DEF AppleInv
<1> DEFINE n == hook[h].notice
           o == notice[n].purchase
           a == hook[h].buyer
           fresh == noted[n] \in {"none", "failed"}
           goes == Applies(fresh, o, a, notice[n].at)
<1>1. /\ hook[h] # IdleHook /\ hook[h].step = "applying"
      /\ UNCHANGED <<signed, bought, store, notice, restore>>
      /\ Apply(fresh, o, a, notice[n].status, notice[n].at)
      /\ noted' = IF ~fresh THEN noted
           ELSE [noted EXCEPT ![n] = IF goes THEN "applied" ELSE "ignored"]
      /\ overlooked' =
           IF fresh /\ (Linked(o, a) \/ TakenByOther(o, a) \/ (~CustomerOf(o, a) /\ Linking(o)))
             THEN overlooked \cup {o} ELSE overlooked
      /\ hook' = [hook EXCEPT ![h] = IdleHook] /\ answered' = answered \cup {n}
  BY DEF ApplyNotice, AnswerNotice
<1>2. /\ n \in Notices /\ notice[n] # NoNotice /\ o \in Bought /\ a \in Buyers
      /\ Permitted(o, a) /\ (appleRow[o] = NoAppleRow => a = token[o])
      /\ notice[n].status \in AppleStatus /\ notice[n].at \in Times
  BY <1>0, <1>1, Typed DEF AppleInv, HookInv
<1>3. AnsweredInv(n) /\ noted[n] \in {"none", "failed", "applied", "ignored"}
  BY <1>0, <1>2 DEF AppleInv, AppleTypeOK
<1>4. Sold(o) /\ TrueOrOlder(o, notice[n].status, notice[n].at)
  <2>1. /\ Sold(o) /\ notice[n].at <= store[o].at
        /\ notice[n].at = store[o].at => notice[n].status = store[o].status
    BY <1>2 DEF AppleInv, NoticeInv
  <2>2. store[o].at <= signed
    BY <1>2, <2>1 DEF AppleInv, StoreInv
  <2>3. notice[n].at \in Int /\ store[o].at \in Int /\ signed \in Int
    BY <1>0, <1>2, Typed
  <2> QED
    BY <2>1, <2>2, <2>3 DEF TrueOrOlder
<1>5. /\ appleRow' \in [Bought -> AppleRow \cup {NoAppleRow}]
      /\ appleCustomer' \in [Buyers -> Bought \cup {NoPurchase}]
      /\ \A x \in Bought : RowInv(x)'
      /\ \A x \in Bought : x # o => appleRow'[x] = appleRow[x]
      /\ \A x \in Bought : appleRow[x] # NoAppleRow =>
           /\ appleRow'[x] # NoAppleRow
           /\ appleRow'[x].buyer = appleRow[x].buyer
           /\ appleRow'[x].stamp >= appleRow[x].stamp
      /\ \A x \in Bought, b \in Buyers : ~CustomerOf(x, b) => ~CustomerOf(x, b)'
      /\ goes => appleRow'[o] # NoAppleRow /\ appleRow'[o].stamp = notice[n].at
      /\ ~goes => appleRow' = appleRow
  <2>1. \A x \in Bought : RowInv(x)
    BY DEF AppleInv
  <2>2. fresh \in BOOLEAN
    OBVIOUS
  <2> HIDE DEF fresh, a, o, n
  <2> QED
    BY <1>0, <1>1, <1>2, <1>4, <2>1, <2>2, ApplyKeeps
<1> DEFINE dirty == fresh /\ (Linked(o, a) \/ TakenByOther(o, a) \/ (~CustomerOf(o, a) /\ Linking(o)))
<1>6. overlooked' = IF dirty THEN overlooked \cup {o} ELSE overlooked
  BY <1>1
<1>7. goes <=> fresh /\ CustomerOf(o, a) /\ ~TakenByOther(o, a) /\ Accepts(o, a, notice[n].at)
  BY DEF Applies
<1>8. fresh <=> n \notin answered
  BY <1>3 DEF AnsweredInv
<1> HIDE DEF goes, fresh
<1>9. /\ hook \in [Hooks -> Hook \cup {IdleHook}]
      /\ noted \in [Notices -> {"none", "failed", "applied", "ignored"}]
  BY <1>0 DEF AppleTypeOK
<1>10. AppleTypeOK'
  <2>1. /\ hook' \in [Hooks -> Hook \cup {IdleHook}]
        /\ noted' \in [Notices -> {"none", "failed", "applied", "ignored"}]
        /\ answered' \in SUBSET Notices /\ overlooked' \in SUBSET Bought
    BY <1>0, <1>1, <1>2, <1>9 DEF AppleTypeOK
  <2> QED
    BY <1>0, <1>1, <1>5, <2>1 DEF AppleTypeOK, bought
<1>11. \A g \in Hooks : HookInv(g)'
  <2>1. hook'[h] = IdleHook /\ \A g \in Hooks : g # h => hook'[g] = hook[g]
    BY <1>1, <1>9
  <2>2. HookInv(h)'
    BY <2>1 DEF HookInv
  <2> QED
    BY <1>1, <1>5, <2>1, <2>2, Kept
<1>12. ASSUME NEW m \in Notices
       PROVE  AnsweredInv(m)'
  <2>1. AnsweredInv(m) /\ notice' = notice
    BY <1>1 DEF AppleInv
  <2>2. CASE m = n
    <3>1. noted'[n] \in {"applied", "ignored"}
      <4>1. CASE fresh
        <5>1. noted' = [noted EXCEPT ![n] = IF goes THEN "applied" ELSE "ignored"]
          BY <1>1, <4>1
        <5> QED
          BY <1>2, <1>9, <5>1
      <4>2. CASE ~fresh
        BY <1>1, <1>3, <1>8, <4>2 DEF AnsweredInv
      <4> QED
        BY <4>1, <4>2
    <3> HIDE DEF n
    <3> QED
      BY <1>1, <1>2, <2>1, <2>2, <3>1 DEF AnsweredInv
  <2>3. CASE m # n
    <3>1. noted'[m] = noted[m]
      BY <1>1, <1>9, <2>3
    <3> HIDE DEF n
    <3> QED
      BY <1>1, <2>1, <2>3, <3>1 DEF AnsweredInv
  <2> QED
    BY <2>2, <2>3
<1>13. ASSUME NEW x \in Bought, x # o
       PROVE  ToldInv(x)'
  <2>1. Told(x)' => Told(x)
    BY <1>1, <1>2, <1>13, TellsNoOther
  <2> QED
    BY <1>1, <1>5, <1>6, <1>13, <2>1, ToldKept
<1>14. ASSUME NEW x \in Bought, x = o
       PROVE  ToldInv(x)'
  <2> HIDE DEF n, o, a
  <2>0. /\ store' = store /\ sandboxed' = sandboxed /\ token' = token /\ notice' = notice
        /\ restore' = restore
    BY <1>1 DEF bought
  <2> SUFFICES ASSUME Told(x)', x \notin overlooked'
               PROVE  \/ appleRow'[x] # NoAppleRow /\ appleRow'[x].stamp >= store[x].at
                      \/ appleRow'[x] = NoAppleRow /\ Barred(x)' /\ ReadsNow(x)'
    BY <2>0, <1>2 DEF ToldInv
  <2>1. o \notin overlooked /\ ~dirty
    BY <1>6, <1>14
  <2>2. ~CustomerOf(o, token[o]) /\ token[o] = a => Barred(x)'
    BY <1>2, <1>5, <1>14, <2>0 DEF Barred
  <2>3. ReadsNow(o) => ReadsNow(x)'
    BY <1>14, <2>0 DEF ReadsNow
  <2>4. CASE Told(o)
    <3>1. ToldInv(o)
      BY <1>2 DEF AppleInv
    <3>2. CASE appleRow[o] # NoAppleRow
      <4>1. appleRow[o].stamp >= store[o].at
        BY <2>1, <2>4, <3>1, <3>2 DEF ToldInv
      <4>2. /\ appleRow'[x] # NoAppleRow /\ appleRow'[x].stamp >= appleRow[o].stamp
        BY <1>2, <1>5, <1>14, <3>2
      <4>3. appleRow[o].stamp \in Int /\ store[o].at \in Int /\ appleRow'[x].stamp \in Int
        <5>1. appleRow'[x] \in AppleRow
          BY <1>2, <1>5, <1>14, <4>2
        <5> QED
          BY <1>0, <1>2, <1>14, <3>2, <5>1, Typed DEF AppleRow
      <4> QED
        BY <1>14, <4>1, <4>2, <4>3
    <3>3. CASE appleRow[o] = NoAppleRow
      <4>1. Barred(o) /\ ReadsNow(o) /\ a = token[o]
        BY <1>2, <2>1, <2>4, <3>1, <3>3 DEF ToldInv
      <4>2. ~CustomerOf(o, a)
        BY <1>2, <4>1, AppleNamesAssumption DEF Barred
      <4>3. ~goes
        BY <1>7, <4>2
      <4> QED
        BY <1>5, <1>14, <2>2, <2>3, <3>3, <4>1, <4>2, <4>3
    <3> QED
      BY <3>2, <3>3
  <2>5. CASE ~Told(o)
    <3>1. n \notin answered /\ notice[n].at = store[o].at
      <4>1. PICK m \in answered \cup {n} : notice[m].purchase = o /\ notice[m].at = store[o].at
        BY <1>1, <1>14, <2>0 DEF Told
      <4> QED
        BY <2>5, <4>1 DEF Told
    <3>2. fresh
      BY <1>8, <3>1
    <3>3. ~Linked(o, a) /\ ~TakenByOther(o, a) /\ (CustomerOf(o, a) \/ ~Linking(o))
      BY <2>1, <3>2
    <3>4. CASE goes
      BY <1>0, <1>2, <1>5, <1>14, <3>1, <3>4, Typed
    <3>5. CASE ~goes /\ ~CustomerOf(o, a)
      <4>1. appleRow[o] = NoAppleRow
        <5>1. RowInv(o)
          BY <1>2 DEF AppleInv
        <5> QED
          BY <3>3, <3>5, <5>1 DEF Linked, RowInv, CustomerOf
      <4>2. ReadsNow(o)
        BY <3>3, <3>5 DEF Linking, ReadsNow, NewRestore
      <4> QED
        BY <1>2, <1>5, <1>14, <2>2, <2>3, <3>5, <4>1, <4>2
    <3>6. CASE ~goes /\ CustomerOf(o, a)
      <4>1. /\ appleRow[o] # NoAppleRow
            /\ ~(appleRow[o].buyer = a /\ appleRow[o].stamp <= notice[n].at)
        BY <1>7, <3>2, <3>3, <3>6 DEF Accepts
      <4>2. ~(appleRow[o].stamp <= store[o].at)
        BY <3>1, <3>3, <4>1 DEF Linked
      <4>3. appleRow[o].stamp \in Int /\ store[o].at \in Int
        BY <1>0, <1>2, <4>1, Typed
      <4> QED
        BY <1>5, <1>14, <3>6, <4>1, <4>2, <4>3
    <3> QED
      BY <3>4, <3>5, <3>6
  <2> QED
    BY <2>4, <2>5
<1>15. AppleInv'
  BY <1>1, <1>5, <1>10, <1>11, <1>12, <1>13, <1>14, Kept DEF AppleInv
<1> QED
  BY <1>5, <1>15

LEMMA NoticeFailsStep ==
  ASSUME AppleInv, NEW h \in Hooks, NoticeFails(h)
  PROVE  AppleInv'
<1>0. AppleTypeOK
  BY DEF AppleInv
<1> DEFINE n == hook[h].notice
<1>1. /\ hook[h] # IdleHook /\ hook' = [hook EXCEPT ![h] = IdleHook]
      /\ noted' = noted \/ (noted[n] = "none" /\ noted' = [noted EXCEPT ![n] = "failed"])
      /\ UNCHANGED <<signed, bought, store, notice, answered, appleRow, appleCustomer,
                     restore, overlooked>>
  BY DEF NoticeFails
<1>2. /\ hook \in [Hooks -> Hook \cup {IdleHook}] /\ n \in Notices
      /\ noted \in [Notices -> {"none", "failed", "applied", "ignored"}]
  BY <1>0, <1>1, Typed DEF AppleTypeOK
<1> HIDE DEF n
<1>3. AppleTypeOK'
  <2>1. /\ hook' \in [Hooks -> Hook \cup {IdleHook}]
        /\ noted' \in [Notices -> {"none", "failed", "applied", "ignored"}]
    BY <1>1, <1>2
  <2> QED
    BY <1>0, <1>1, <2>1 DEF AppleTypeOK, bought
<1>4. \A g \in Hooks : HookInv(g)'
  <2>1. hook'[h] = IdleHook /\ \A g \in Hooks : g # h => hook'[g] = hook[g]
    BY <1>1, <1>2
  <2>2. HookInv(h)'
    BY <2>1 DEF HookInv
  <2> QED
    BY <1>1, <2>1, <2>2, Kept
<1>5. ASSUME NEW m \in Notices
      PROVE  AnsweredInv(m)'
  <2>1. AnsweredInv(m)
    BY DEF AppleInv
  <2>2. noted'[m] = noted[m] \/ (noted[m] = "none" /\ noted'[m] = "failed")
    BY <1>1, <1>2
  <2> QED
    BY <1>1, <2>1, <2>2 DEF AnsweredInv
<1>6. ASSUME NEW o \in Bought
      PROVE  ToldInv(o)'
  <2>1. \A b \in Buyers : ~CustomerOf(o, b) => ~CustomerOf(o, b)'
    BY <1>1 DEF CustomerOf, bought
  <2>2. Told(o)' => Told(o)
    BY <1>1 DEF Told
  <2> QED
    BY <1>1, <2>1, <2>2, ToldKept
<1> QED
  BY <1>1, <1>3, <1>4, <1>5, <1>6, Kept DEF AppleInv

-----------------------------------------------------------------------------
(* Restorations *)

\* A restoration moves, and nothing else does.
LEMMA RestoreMoves ==
  ASSUME AppleInv, NEW r \in Restores, NEW new \in Restore \cup {NewRestore},
         restore' = [restore EXCEPT ![r] = new],
         UNCHANGED <<signed, bought, store, notice, answered, noted, appleRow, appleCustomer,
                     hook, overlooked>>,
         RestoreInv(r)',
         new.step = "applying" => new.read.at >= store[new.purchase].at
  PROVE  AppleInv'
<1>0. AppleTypeOK
  BY DEF AppleInv
<1>1. restore \in [Restores -> Restore \cup {NewRestore}]
  BY <1>0 DEF AppleTypeOK
<1>2. restore'[r] = new /\ \A q \in Restores : q # r => restore'[q] = restore[q]
  BY <1>1
<1>3. AppleTypeOK'
  <2>1. restore' \in [Restores -> Restore \cup {NewRestore}]
    BY <1>1
  <2> QED
    BY <1>0, <2>1 DEF AppleTypeOK, bought
<1>4. \A q \in Restores : RestoreInv(q)'
  BY <1>2, Kept
<1>5. \A m \in Notices : AnsweredInv(m)'
  BY DEF AppleInv, AnsweredInv
<1>6. ASSUME NEW o \in Bought
      PROVE  ToldInv(o)'
  <2>1. \A b \in Buyers : ~CustomerOf(o, b) => ~CustomerOf(o, b)'
    BY DEF CustomerOf, bought
  <2>2. Told(o)' => Told(o)
    BY DEF Told
  <2>3. \A q \in Restores : restore'[q].step = "applying" /\ restore'[q].purchase = o =>
          restore'[q] = restore[q] \/ restore'[q].read.at >= store[o].at
    BY <1>2
  <2> QED
    BY <2>1, <2>2, <2>3, ToldKept
<1> QED
  BY <1>3, <1>4, <1>5, <1>6, Kept DEF AppleInv

LEMMA StartRestoreStep ==
  ASSUME AppleInv, NEW r \in Restores, NEW a \in Buyers, NEW o \in Bought, NEW link \in BOOLEAN,
         StartRestore(r, a, o, link)
  PROVE  AppleInv'
<1> DEFINE to == IF MayRestore(o, a, link) THEN "asking" ELSE "refused"
           new == [step |-> to, buyer |-> a, purchase |-> o, read |-> NotBought]
<1>1. /\ Sold(o) /\ restore' = [restore EXCEPT ![r] = new]
      /\ UNCHANGED <<signed, bought, store, notice, answered, noted, appleRow, appleCustomer,
                     hook, overlooked>>
  BY DEF StartRestore, Sold
<1>2. to \in {"asking", "refused"}
  OBVIOUS
<1> HIDE DEF to
<1>3. new \in Restore /\ new.step = to /\ new.purchase = o
  BY <1>2 DEF Restore
<1> HIDE DEF new
<1>4. restore'[r] = new
  BY <1>1 DEF AppleInv, AppleTypeOK
<1>5. RestoreInv(r)'
  BY <1>1, <1>2, <1>3, <1>4 DEF RestoreInv, Sold
<1> QED
  BY <1>1, <1>2, <1>3, <1>5, RestoreMoves

LEMMA AskAppleStep ==
  ASSUME AppleInv, NEW r \in Restores, AskApple(r)
  PROVE  AppleInv'
<1>0. AppleTypeOK
  BY DEF AppleInv
<1> DEFINE old == restore[r]
           o == old.purchase
           says == [store[o] EXCEPT !.at = signed]
           to == IF Permitted(o, old.buyer) THEN "applying" ELSE "refused"
           new == [old EXCEPT !.read = says, !.step = to]
<1>1. /\ old.step = "asking" /\ restore' = [restore EXCEPT ![r] = new]
      /\ UNCHANGED <<signed, bought, store, notice, answered, noted, appleRow, appleCustomer,
                     hook, overlooked>>
  BY DEF AskApple, RestoreAt
<1>2. old \in Restore /\ o \in Bought /\ Sold(o)
  BY <1>0, <1>1, Typed DEF AppleInv, RestoreInv
<1>3. /\ store[o] \in Purchase /\ signed \in Times /\ signed \in Int
      /\ store[o].at <= signed /\ store[o].at \in Int
  BY <1>0, <1>2, Typed DEF AppleInv, StoreInv
<1>4. says \in Purchase /\ says.at = signed /\ says.status = store[o].status
  BY <1>3 DEF Purchase
<1>5. to \in {"applying", "refused"} /\ (to = "applying" => Permitted(o, old.buyer))
  OBVIOUS
<1> HIDE DEF old, o, says, to
<1>6. /\ new \in Restore /\ new.step = to /\ new.purchase = o /\ new.read = says
      /\ new.buyer = old.buyer
  BY <1>2, <1>4, <1>5 DEF Restore, o
<1> HIDE DEF new
<1>7. restore'[r] = new
  BY <1>1 DEF AppleInv, AppleTypeOK
<1>8. TrueOrOlder(o, says.status, says.at)
  BY <1>3, <1>4 DEF TrueOrOlder
<1>9. RestoreInv(r)'
  <2>1. store' = store /\ sandboxed' = sandboxed /\ signed' = signed
    BY <1>1 DEF bought
  <2> QED
    BY <1>2, <1>4, <1>5, <1>6, <1>7, <1>8, <2>1 DEF RestoreInv, Sold, Permitted, TrueOrOlder
<1> QED
  BY <1>1, <1>3, <1>4, <1>6, <1>9, RestoreMoves

LEMMA RestoreDiesStep ==
  ASSUME AppleInv, NEW r \in Restores, RestoreDies(r)
  PROVE  AppleInv'
<1>1. /\ restore' = [restore EXCEPT ![r] = NewRestore]
      /\ UNCHANGED <<signed, bought, store, notice, answered, noted, appleRow, appleCustomer,
                     hook, overlooked>>
  BY DEF RestoreDies
<1>2. restore'[r] = NewRestore /\ NewRestore.step = "new"
  BY <1>1 DEF AppleInv, AppleTypeOK, NewRestore
<1>3. RestoreInv(r)'
  BY <1>2 DEF RestoreInv
<1> QED
  BY <1>1, <1>2, <1>3, RestoreMoves

LEMMA ApplyRestoreStep ==
  ASSUME AppleInv, NEW r \in Restores, ApplyRestore(r)
  PROVE  /\ AppleInv'
         /\ \A o \in Bought : appleRow[o] # NoAppleRow =>
              appleRow'[o] # NoAppleRow /\ appleRow'[o].buyer = appleRow[o].buyer
<1>0. AppleTypeOK
  BY DEF AppleInv
<1> DEFINE old == restore[r]
           o == old.purchase
           a == old.buyer
           to == IF ~CustomerOf(o, a) \/ TakenByOther(o, a) \/ Linked(o, a)
                   THEN "refused" ELSE "restored"
           new == [old EXCEPT !.step = to]
           goes == Applies(TRUE, o, a, old.read.at)
<1>1. /\ old.step = "applying" /\ Apply(TRUE, o, a, old.read.status, old.read.at)
      /\ restore' = [restore EXCEPT ![r] = new]
      /\ UNCHANGED <<signed, bought, store, notice, answered, noted, hook, overlooked>>
  BY DEF ApplyRestore, RestoreAt
<1>2. to \in {"refused", "restored"}
  OBVIOUS
<1>3. /\ old \in Restore /\ o \in Bought /\ a \in Buyers /\ Sold(o) /\ Permitted(o, a)
      /\ old.read \in Purchase /\ TrueOrOlder(o, old.read.status, old.read.at)
  BY <1>0, <1>1, Typed DEF AppleInv, RestoreInv
<1>4. old.read.status \in AppleStatus /\ old.read.at \in Times
  BY <1>3 DEF Purchase
<1> HIDE DEF old, o, a, to
<1>5. new \in Restore /\ new.step = to
  BY <1>2, <1>3 DEF Restore
<1> HIDE DEF new
<1>6. /\ appleRow' \in [Bought -> AppleRow \cup {NoAppleRow}]
      /\ appleCustomer' \in [Buyers -> Bought \cup {NoPurchase}]
      /\ \A x \in Bought : RowInv(x)'
      /\ \A x \in Bought : x # o => appleRow'[x] = appleRow[x]
      /\ \A x \in Bought : appleRow[x] # NoAppleRow =>
           /\ appleRow'[x] # NoAppleRow
           /\ appleRow'[x].buyer = appleRow[x].buyer
           /\ appleRow'[x].stamp >= appleRow[x].stamp
      /\ \A x \in Bought, b \in Buyers : ~CustomerOf(x, b) => ~CustomerOf(x, b)'
      /\ goes => appleRow'[o] # NoAppleRow /\ appleRow'[o].stamp = old.read.at
      /\ ~goes => appleRow' = appleRow
  <2>1. \A x \in Bought : RowInv(x)
    BY DEF AppleInv
  <2> QED
    BY <1>0, <1>1, <1>3, <1>4, <2>1, ApplyKeeps
<1> HIDE DEF goes
<1>7. restore'[r] = new /\ \A q \in Restores : q # r => restore'[q] = restore[q]
  BY <1>0, <1>1 DEF AppleTypeOK
<1>8. AppleTypeOK'
  <2>1. restore' \in [Restores -> Restore \cup {NewRestore}]
    BY <1>0, <1>1, <1>5 DEF AppleTypeOK
  <2> QED
    BY <1>0, <1>1, <1>6, <2>1 DEF AppleTypeOK, bought
<1>9. \A g \in Hooks : HookInv(g)'
  BY <1>1, <1>6, Kept
<1>10. \A q \in Restores : RestoreInv(q)'
  <2>1. RestoreInv(r)'
    BY <1>2, <1>5, <1>7 DEF RestoreInv
  <2> QED
    BY <1>1, <1>7, <2>1, Kept
<1>11. \A m \in Notices : AnsweredInv(m)'
  BY <1>1 DEF AppleInv, AnsweredInv
<1>12. ASSUME NEW x \in Bought
       PROVE  ToldInv(x)'
  <2>1. Told(x)' => Told(x)
    BY <1>1 DEF Told
  <2>2. \A q \in Restores : restore'[q].step = "applying" /\ restore'[q].purchase = x =>
          restore'[q] = restore[q]
    BY <1>2, <1>5, <1>7
  <2>3. CASE appleRow'[x] = appleRow[x]
    BY <1>1, <1>6, <2>1, <2>2, <2>3, ToldKept
  <2>4. CASE appleRow'[x] # appleRow[x]
    <3>1. x = o /\ goes
      BY <1>6, <2>4
    <3>2. /\ appleRow'[x] # NoAppleRow /\ appleRow'[x].stamp = old.read.at
          /\ store' = store /\ overlooked' = overlooked
      BY <1>1, <1>6, <3>1
    <3> SUFFICES ASSUME Told(x), x \notin overlooked
                 PROVE  appleRow'[x].stamp >= store[x].at
      BY <2>1, <3>2 DEF ToldInv
    <3>3. ToldInv(x)
      BY DEF AppleInv
    <3>4. CASE appleRow[x] = NoAppleRow
      BY <1>1, <3>1, <3>2, <3>3, <3>4 DEF ToldInv, ReadsNow, old, o
    <3>5. CASE appleRow[x] # NoAppleRow
      <4>1. appleRow[x].stamp >= store[x].at
        BY <3>3, <3>5 DEF ToldInv
      <4>2. appleRow'[x].stamp >= appleRow[x].stamp
        BY <1>6, <3>5
      <4>3. appleRow[x].stamp \in Int /\ store[x].at \in Int /\ appleRow'[x].stamp \in Int
        BY <1>0, <1>4, <3>2, <3>5, Typed
      <4> QED
        BY <4>1, <4>2, <4>3
    <3> QED
      BY <3>4, <3>5
  <2> QED
    BY <2>3, <2>4
<1>13. AppleInv'
  BY <1>1, <1>6, <1>8, <1>9, <1>10, <1>11, <1>12, Kept DEF AppleInv
<1> QED
  BY <1>6, <1>13

-----------------------------------------------------------------------------
(* The invariant *)

LEMMA AppleStart ==
  ASSUME AppleInit
  PROVE  AppleInv
<1>1. AppleTypeOK
  <2>1. 0 \in Times
    BY LastSignedAssumption DEF Times
  <2> QED
    BY <2>1 DEF AppleInit, AppleTypeOK
<1>2. NewRestore.step = "new"
  BY DEF NewRestore
<1>3. \A n \in Notices : NoticeInv(n) /\ AnsweredInv(n)
  BY DEF AppleInit, NoticeInv, AnsweredInv
<1>4. \A o \in Bought : StoreInv(o) /\ RowInv(o) /\ ToldInv(o)
  BY DEF AppleInit, StoreInv, RowInv, ToldInv, Told, Sold
<1>5. \A h \in Hooks : HookInv(h)
  BY DEF AppleInit, HookInv
<1>6. \A r \in Restores : RestoreInv(r)
  BY <1>2 DEF AppleInit, RestoreInv
<1> QED
  BY <1>1, <1>3, <1>4, <1>5, <1>6 DEF AppleInv

LEMMA AppleStutters ==
  ASSUME AppleInv, UNCHANGED appleVars
  PROVE  AppleInv'
<1>1. UNCHANGED <<signed, bought, store, notice, answered, noted, appleRow, appleCustomer,
                  hook, restore, overlooked>>
  BY DEF appleVars
<1>2. AppleTypeOK'
  BY <1>1 DEF AppleInv, AppleTypeOK, bought
<1>3. \A m \in Notices : AnsweredInv(m)'
  BY <1>1 DEF AppleInv, AnsweredInv
<1>4. ASSUME NEW o \in Bought
      PROVE  ToldInv(o)'
  <2>1. \A b \in Buyers : ~CustomerOf(o, b) => ~CustomerOf(o, b)'
    BY <1>1 DEF CustomerOf, bought
  <2>2. Told(o)' => Told(o)
    BY <1>1 DEF Told
  <2> QED
    BY <1>1, <2>1, <2>2, ToldKept
<1> QED
  BY <1>1, <1>2, <1>3, <1>4, Kept DEF AppleInv

\* A step keeps the invariant, and the account of every row.
LEMMA AppleInvStep ==
  ASSUME AppleInv, [AppleNext]_appleVars
  PROVE  /\ AppleInv'
         /\ \A o \in Bought : appleRow[o] # NoAppleRow =>
              appleRow'[o] # NoAppleRow /\ appleRow'[o].buyer = appleRow[o].buyer
<1>1. ASSUME NEW o \in Bought, NEW n \in Notices, AppleChanges(o, n)
      PROVE  AppleInv' /\ appleRow' = appleRow
  BY <1>1, ChangesStep DEF AppleChanges
<1>2. ASSUME NEW h \in Hooks, NEW n \in Notices, Notify(h, n)
      PROVE  AppleInv' /\ appleRow' = appleRow
  BY <1>2, NotifyStep DEF Notify
<1>3. ASSUME NEW h \in Hooks, Resolve(h)
      PROVE  AppleInv' /\ appleRow' = appleRow
  BY <1>3, ResolveStep DEF Resolve
<1>4. ASSUME NEW h \in Hooks, NoticeFails(h)
      PROVE  AppleInv' /\ appleRow' = appleRow
  BY <1>4, NoticeFailsStep DEF NoticeFails
<1>5. ASSUME NEW r \in Restores, NEW a \in Buyers, NEW o \in Bought, NEW link \in BOOLEAN,
             StartRestore(r, a, o, link)
      PROVE  AppleInv' /\ appleRow' = appleRow
  BY <1>5, StartRestoreStep DEF StartRestore
<1>6. ASSUME NEW r \in Restores, AskApple(r)
      PROVE  AppleInv' /\ appleRow' = appleRow
  BY <1>6, AskAppleStep DEF AskApple
<1>7. ASSUME NEW r \in Restores, RestoreDies(r)
      PROVE  AppleInv' /\ appleRow' = appleRow
  BY <1>7, RestoreDiesStep DEF RestoreDies
<1>8. CASE UNCHANGED appleVars
  BY <1>8, AppleStutters DEF appleVars
<1>9. CASE AppleNext
  <2>1. CASE \E o \in Bought, n \in Notices : AppleChanges(o, n)
    BY <1>1, <2>1
  <2>2. CASE \E h \in Hooks : \/ \E n \in Notices : Notify(h, n)
                              \/ Resolve(h) \/ ApplyNotice(h) \/ NoticeFails(h)
    BY <1>2, <1>3, <1>4, <2>2, ApplyNoticeStep
  <2>3. CASE \E r \in Restores :
               \/ \E a \in Buyers, o \in Bought, link \in BOOLEAN : StartRestore(r, a, o, link)
               \/ AskApple(r) \/ ApplyRestore(r) \/ RestoreDies(r)
    BY <1>5, <1>6, <1>7, <2>3, ApplyRestoreStep
  <2> QED
    BY <1>9, <2>1, <2>2, <2>3 DEF AppleNext
<1> QED
  BY <1>8, <1>9

LEMMA AppleInvariant == AppleSpec => []AppleInv
<1>1. AppleInit => AppleInv
  BY AppleStart
<1>2. AppleInv /\ [AppleNext]_appleVars => AppleInv'
  BY AppleInvStep
<1> QED
  BY <1>1, <1>2, PTL DEF AppleSpec

\* Types: every row, function and restoration of the App Store is what its module declares,
\* whatever the order of notices and restorations.
THEOREM AppleTypesCorrect == AppleSpec => []AppleTypeOK
<1>1. AppleInv => AppleTypeOK
  BY DEF AppleInv
<1> QED
  BY <1>1, AppleInvariant, PTL

\* A purchase stays with the account that has it (applyAppleSubscription): its row never
\* changes accounts, and the customer of that account is never given another purchase of
\* Apple's production.
THEOREM PurchasesKeepTheirAccount == AppleSpec => PurchaseKeepsItsAccount
<1>1. AppleInv /\ [AppleNext]_appleVars =>
        [\A o \in Bought : appleRow[o] # NoAppleRow =>
           /\ appleRow'[o].buyer = appleRow[o].buyer
           /\ o \notin sandboxed => appleCustomer'[appleRow[o].buyer] = o]_appleVars
  <2> SUFFICES ASSUME AppleInv, [AppleNext]_appleVars, NEW o \in Bought,
                      appleRow[o] # NoAppleRow
               PROVE  \/ /\ appleRow'[o].buyer = appleRow[o].buyer
                         /\ o \notin sandboxed => appleCustomer'[appleRow[o].buyer] = o
                      \/ UNCHANGED appleVars
    OBVIOUS
  <2>1. AppleInv' /\ appleRow'[o] # NoAppleRow /\ appleRow'[o].buyer = appleRow[o].buyer
    BY AppleInvStep
  <2>2. sandboxed' = sandboxed
    BY DEF AppleNext, AppleChanges, Notify, Resolve, ApplyNotice, NoticeFails, StartRestore,
           AskApple, ApplyRestore, RestoreDies, appleVars, bought
  <2>3. RowInv(o)'
    BY <2>1 DEF AppleInv
  <2> QED
    BY <2>1, <2>2, <2>3 DEF RowInv
<1> QED
  BY <1>1, AppleInvariant, PTL DEF AppleSpec, PurchaseKeepsItsAccount

\* The row of a purchase says what Apple says once its notices are answered, in whatever
\* order they came and whatever was restored or killed meanwhile (processAppleWebhook,
\* restoreAppStorePurchase).
THEOREM RowsSayWhatAppleSays == AppleSpec => []PurchasesConverge
<1>1. AppleInv => PurchasesConverge
  <2> SUFFICES ASSUME AppleInv, NEW o \in Bought, Quiet(o), appleRow[o] # NoAppleRow,
                      o \notin overlooked
               PROVE  appleRow[o].status = store[o].status
    BY DEF PurchasesConverge
  <2>1. RowInv(o) /\ StoreInv(o) /\ ToldInv(o)
    BY DEF AppleInv
  <2>2. PICK n \in Notices :
          notice[n] # NoNotice /\ notice[n].purchase = o /\ notice[n].at = store[o].at
    BY <2>1 DEF RowInv, StoreInv
  <2>3. Told(o)
    BY <2>2 DEF Quiet, Told
  <2>4. appleRow[o].stamp >= store[o].at
    BY <2>1, <2>3 DEF ToldInv
  <2> QED
    BY <2>1, <2>4 DEF RowInv, TrueOrOlder
<1> QED
  BY <1>1, AppleInvariant, PTL

=============================================================================
