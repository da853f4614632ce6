------------------------------- MODULE Checkout -------------------------------
(***************************************************************************)
(* The Stripe checkout of one account (createCheckout and what it calls):  *)
(* two tabs, retries with the same key, functions that are killed, and a   *)
(* customer who pays a session while another request is being served.      *)
(*                                                                         *)
(* Postgres is reached by one statement at a time and Stripe by one call   *)
(* at a time: each is a step.  What keeps two requests apart is a row, the *)
(* lease, and not a lock: it is free again when it has been released or    *)
(* when its time is over.                                                  *)
(***************************************************************************)
EXTENDS Integers, FiniteSets

CONSTANTS
  Requests,      \* POST /billing/checkout requests
  CheckoutKeys,  \* idempotency keys of the clients; a retry uses its key again
  Prices,        \* the Stripe prices: one per billing interval
  LeaseTime,     \* CHECKOUT_LEASE_SECONDS, 90 seconds in the code
  FunctionTime,  \* maxDuration of a function, 60 seconds in the code
  MaxClock       \* bound of the clock

NoSession == "no session"
NoLease == [holder |-> NoSession, until |-> 0]

\* The lease outlives the function that took it.
ASSUME LeaseAssumption ==
  /\ LeaseTime \in Nat
  /\ FunctionTime \in Nat
  /\ FunctionTime < LeaseTime
ASSUME CheckoutClockAssumption == MaxClock \in Nat
ASSUME CheckoutNamesAssumption == NoSession \notin Requests \cup CheckoutKeys

VARIABLES
  clock,         \* seconds, in the grain of the two durations
  lease,         \* billing_checkout_lease
  accepted,      \* billing_legal_acceptance: the keys with a recorded consent
  customer,      \* "none", "stripe" (exists at Stripe), "known" (billing_customer)
  session,       \* Stripe's checkout sessions, by the key that created them
  subscription,  \* Stripe's subscription of each completed session
  projected,     \* what billing_subscription says of it
  apple,         \* a live App Store subscription in billing_subscription
  checkout       \* the requests

checkoutStripe == <<session, subscription>>
checkoutTables == <<lease, accepted, projected, apple>>
checkoutVars == <<clock, checkoutTables, customer, checkoutStripe, checkout>>

-----------------------------------------------------------------------------
(* Types *)

\* An open session may be too close to its expiry to be handed out again.
Payable == {"open", "ending"}
\* overtaken: a payment fell between the two lists its request asked for.
Session == [state : Payable \cup {"complete", "expired"}, price : Prices,
            overtaken : BOOLEAN]
Unmade == [state |-> "none"]

Working == {"leasing", "consenting", "customer", "naming", "subscriptions",
            "sessions", "expiring", "creating", "releasing"}
Request == [step : Working \cup {"done"}, key : CheckoutKeys, price : Prices,
            born : 0 .. MaxClock, known : BOOLEAN, late : BOOLEAN,
            todo : SUBSET CheckoutKeys, url : CheckoutKeys \cup {NoSession}]
NotSent == [step |-> "new"]

CheckoutTypeOK ==
  /\ clock \in 0 .. MaxClock
  /\ lease \in [holder : Requests \cup {NoSession}, until : Nat]
  /\ accepted \in SUBSET CheckoutKeys
  /\ customer \in {"none", "stripe", "known"}
  /\ session \in [CheckoutKeys -> Session \cup {Unmade}]
  /\ subscription \in [CheckoutKeys -> {"none", "live", "ended"}]
  /\ projected \in [CheckoutKeys -> {"none", "live", "ended"}]
  /\ apple \in BOOLEAN
  /\ checkout \in [Requests -> Request \cup {NotSent}]

CheckoutInit ==
  /\ clock = 0
  /\ lease = NoLease
  /\ accepted = {}
  /\ customer = "none"
  /\ session = [k \in CheckoutKeys |-> Unmade]
  /\ subscription = [k \in CheckoutKeys |-> "none"]
  /\ projected = [k \in CheckoutKeys |-> "none"]
  /\ apple = FALSE
  /\ checkout = [r \in Requests |-> NotSent]

OpenSessions == {k \in CheckoutKeys : session[k].state \in Payable}
LiveSubscriptions == {k \in CheckoutKeys : subscription[k] = "live"}

-----------------------------------------------------------------------------
(* A request *)

Stands(r, step) == checkout[r].step = step

Moves(r, step) == checkout' = [checkout EXCEPT ![r].step = step]

\* The handler returns or throws: its finally block is next.
Answers(r, url) ==
  checkout' = [checkout EXCEPT ![r].step = "releasing", ![r].url = url, ![r].todo = {}]

\* getCheckoutContext: what Postgres knows refuses a second subscription, and
\* tells whether the customer has to be created.
ReadContext(r, k, p) ==
  /\ checkout[r] = NotSent
  /\ checkout' = [checkout EXCEPT ![r] =
       [step |-> IF apple \/ \E s \in CheckoutKeys : projected[s] = "live"
                   THEN "done" ELSE "leasing",
        key |-> k, price |-> p, born |-> clock, known |-> customer = "known",
        late |-> FALSE, todo |-> {}, url |-> NoSession]]
  /\ UNCHANGED <<clock, checkoutTables, customer, checkoutStripe>>

\* Faulty variant of LeaseFree: the row is taken over while it is still valid.
LeaseAlmostOver == lease = NoLease \/ lease.until <= clock + 1

LeaseFree == lease = NoLease \/ lease.until <= clock

\* acquireCheckoutLease: one upsert, which changes the row or returns nothing.
AcquireLease(r) ==
  /\ Stands(r, "leasing")
  /\ IF LeaseFree
       THEN /\ lease' = [holder |-> r, until |-> clock + LeaseTime]
            /\ Moves(r, "consenting")
       ELSE Moves(r, "done") /\ UNCHANGED lease
  /\ UNCHANGED <<clock, accepted, projected, apple, customer, checkoutStripe>>

RecordConsent(r) ==
  /\ Stands(r, "consenting")
  /\ accepted' = accepted \cup {checkout[r].key}
  /\ Moves(r, IF checkout[r].known THEN "subscriptions" ELSE "customer")
  /\ UNCHANGED <<clock, lease, projected, apple, customer, checkoutStripe>>

\* The idempotency key is the account's: Stripe creates one customer.
CreateStripeCustomer(r) ==
  /\ Stands(r, "customer")
  /\ customer' = IF customer = "none" THEN "stripe" ELSE customer
  /\ Moves(r, "naming")
  /\ UNCHANGED <<clock, checkoutTables, checkoutStripe>>

NameCustomer(r) ==
  /\ Stands(r, "naming")
  /\ customer' = "known"
  /\ Moves(r, "subscriptions")
  /\ UNCHANGED <<clock, checkoutTables, checkoutStripe>>

\* Faulty variant of AlreadySubscribed: what the webhook has written is believed.
SubscribedAsProjected == \E k \in CheckoutKeys : projected[k] = "live"

AlreadySubscribed == LiveSubscriptions # {}

\* reusableCheckoutUrl asks for the subscriptions first ...
ListSubscriptions(r) ==
  /\ Stands(r, "subscriptions")
  /\ IF AlreadySubscribed THEN Answers(r, NoSession) ELSE Moves(r, "sessions")
  /\ UNCHANGED <<clock, checkoutTables, customer, checkoutStripe>>

Reusable(r) ==
  {k \in CheckoutKeys : session[k].state = "open" /\ session[k].price = checkout[r].price}

ToExpire(keep) == OpenSessions \ {keep}

\* ... and then for the open sessions: one for the same price is kept, the others
\* have to be expired before anything is answered.
ListSessions(r) ==
  /\ Stands(r, "sessions")
  /\ \E keep \in IF Reusable(r) = {} THEN {NoSession} ELSE Reusable(r) :
       checkout' = [checkout EXCEPT ![r].step = "expiring", ![r].url = keep,
                                    ![r].todo = ToExpire(keep)]
  /\ UNCHANGED <<clock, checkoutTables, customer, checkoutStripe>>

\* Stripe refuses to expire a session that is not open any more, which ends the
\* request: nothing is created next to a session that may just be paid.
ExpireSession(r, k) ==
  /\ Stands(r, "expiring")
  /\ k \in checkout[r].todo
  /\ IF session[k].state \in Payable
       THEN /\ session' = [session EXCEPT ![k].state = "expired"]
            /\ checkout' = [checkout EXCEPT ![r].todo = checkout[r].todo \ {k}]
       ELSE Answers(r, NoSession) /\ UNCHANGED session
  /\ UNCHANGED <<clock, checkoutTables, customer, subscription>>

ExpiringDone(r) ==
  /\ Stands(r, "expiring")
  /\ checkout[r].todo = {}
  /\ IF checkout[r].url = NoSession THEN Moves(r, "creating")
                                    ELSE Answers(r, checkout[r].url)
  /\ UNCHANGED <<clock, checkoutTables, customer, checkoutStripe>>

\* A key that is new to Stripe creates a session.  A key it knows answers what it
\* answered then, whatever became of that session, or is refused for other
\* parameters.
CreateSession(r) ==
  LET k == checkout[r].key
  IN  /\ Stands(r, "creating")
      /\ IF session[k] = Unmade
           THEN /\ session' = [session EXCEPT ![k] =
                     [state |-> "open", price |-> checkout[r].price,
                      overtaken |-> checkout[r].late]]
                /\ Answers(r, k)
           ELSE /\ Answers(r, IF session[k].price = checkout[r].price THEN k ELSE NoSession)
                /\ UNCHANGED session
      /\ UNCHANGED <<clock, checkoutTables, customer, subscription>>

\* releaseCheckoutLease deletes the row if it still is this request's, and leaves
\* it to its time when the statement fails.
ReleaseLease(r) ==
  /\ Stands(r, "releasing")
  /\ lease' \in {lease, IF lease.holder = r THEN NoLease ELSE lease}
  /\ Moves(r, "done")
  /\ UNCHANGED <<clock, accepted, projected, apple, customer, checkoutStripe>>

\* A call fails, and the finally block runs.
CheckoutFails(r) ==
  /\ checkout[r].step \in Working \ {"leasing", "releasing"}
  /\ Answers(r, NoSession)
  /\ UNCHANGED <<clock, checkoutTables, customer, checkoutStripe>>

\* The function is killed, at the latest when its time is over.
Killed(r) ==
  /\ checkout[r].step \in Working
  /\ checkout' = [checkout EXCEPT ![r].step = "done", ![r].url = NoSession, ![r].todo = {}]
  /\ UNCHANGED <<clock, checkoutTables, customer, checkoutStripe>>

-----------------------------------------------------------------------------
(* The customer, Stripe and the webhook *)

\* The customer pays a session: it is complete and has its subscription at once.
\* The requests that have asked for one list and not yet for the other are late.
Pay(k) ==
  /\ session[k].state \in Payable
  /\ session' = [session EXCEPT ![k].state = "complete"]
  /\ subscription' = [subscription EXCEPT ![k] = "live"]
  /\ checkout' = [r \in Requests |->
       IF Stands(r, "sessions") THEN [checkout[r] EXCEPT !.late = TRUE] ELSE checkout[r]]
  /\ UNCHANGED <<clock, checkoutTables, customer>>

\* Time brings an open session near its expiry, then over it.
SessionAges(k) ==
  /\ session[k].state \in Payable
  /\ session' = [session EXCEPT ![k].state =
                  IF session[k].state = "open" THEN "ending" ELSE "expired"]
  /\ UNCHANGED <<clock, checkoutTables, customer, subscription, checkout>>

EndSubscription(k) ==
  /\ subscription[k] = "live"
  /\ subscription' = [subscription EXCEPT ![k] = "ended"]
  /\ UNCHANGED <<clock, checkoutTables, customer, session, checkout>>

\* The webhook projects Stripe's subscription, at some time.
WebhookProjects(k) ==
  /\ customer = "known"
  /\ projected[k] # subscription[k]
  /\ projected' = [projected EXCEPT ![k] = subscription[k]]
  /\ UNCHANGED <<clock, lease, accepted, apple, customer, checkoutStripe, checkout>>

AppleStarts ==
  /\ ~apple
  /\ apple' = TRUE
  /\ UNCHANGED <<clock, lease, accepted, projected, customer, checkoutStripe, checkout>>

CheckoutTick ==
  /\ clock < MaxClock
  /\ \A r \in Requests :
       checkout[r].step \in Working => clock < checkout[r].born + FunctionTime
  /\ clock' = clock + 1
  /\ UNCHANGED <<checkoutTables, customer, checkoutStripe, checkout>>

-----------------------------------------------------------------------------
(* The specification *)

ServeCheckout(r) ==
  \/ \E k \in CheckoutKeys, p \in Prices : ReadContext(r, k, p)
  \/ AcquireLease(r)
  \/ RecordConsent(r)
  \/ CreateStripeCustomer(r)
  \/ NameCustomer(r)
  \/ ListSubscriptions(r)
  \/ ListSessions(r)
  \/ \E k \in CheckoutKeys : ExpireSession(r, k)
  \/ ExpiringDone(r)
  \/ CreateSession(r)
  \/ ReleaseLease(r)

CheckoutNext ==
  \/ \E r \in Requests : ServeCheckout(r) \/ CheckoutFails(r) \/ Killed(r)
  \/ \E k \in CheckoutKeys :
       Pay(k) \/ SessionAges(k) \/ EndSubscription(k) \/ WebhookProjects(k)
  \/ AppleStarts
  \/ CheckoutTick

CheckoutSpec == CheckoutInit /\ [][CheckoutNext]_checkoutVars

-----------------------------------------------------------------------------
(* Properties *)

\* Whatever tabs, retries and killed functions there are, the customer never holds
\* two sessions that can be paid (reusableCheckoutUrl, acquireCheckoutLease).
OnePayable == Cardinality(OpenSessions) <= 1

\* createCheckout: one creation at a time, so that two tabs never lead to two
\* subscriptions.
OneSubscription == Cardinality(LiveSubscriptions) <= 1

\* What holds of it: a second subscription needs a payment that falls between the
\* two lists of the request that creates its session.
SecondIsOvertaken ==
  (\A k \in CheckoutKeys : session[k] # Unmade => ~session[k].overtaken) => OneSubscription

=============================================================================
