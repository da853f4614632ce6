----------------------------- MODULE StripeEvents -----------------------------
(***************************************************************************)
(* The Stripe webhook of one customer: events delivered late, twice, out   *)
(* of order and to several functions at once are projected onto the        *)
(* subscription rows (processStripeWebhook, replayStripeEvent,             *)
(* projectStripeEvent and the statements they run).                        *)
(*                                                                         *)
(* A projection is one SQL statement, and one step here: it takes the      *)
(* event over, writes the subscription and the financial ledger and marks  *)
(* the event, so "received" is never committed.  Each call to Stripe is a  *)
(* step of its own.  Whatever the rows say is read and written between     *)
(* those steps by the other functions.                                     *)
(***************************************************************************)
EXTENDS Integers, FiniteSets

CONSTANTS
  Events,        \* event identifiers: as many as Stripe emits in a behaviour
  Subs,          \* the customer's subscriptions at Stripe
  Known,         \* those that exist and are projected at the start
  MaybeForeign,  \* those that may be of another product than Pressay's
  MaybeUnknown,  \* whether billing_customer may lack the customer
  Statuses,      \* statuses that a subscription's own changes take it to
  TakeBacks,     \* kinds of refund and dispute that happen
  Workers,       \* functions that run at the same time
  MaxTime        \* bound of the clock, in seconds: event.created has no finer grain.
                 \* What is projected at the start was dated 0, and events are from 1 on.

Time == 0 .. MaxTime

ASSUME TimeAssumption == MaxTime \in Nat \ {0}
ASSUME ScopeAssumption ==
  /\ Known \subseteq Subs
  /\ MaybeForeign \subseteq Subs
  /\ MaybeUnknown \in BOOLEAN
  /\ TakeBacks \subseteq {"reversal", "dispute", "won"}
  /\ "nothing" \notin Subs

VARIABLES
  now,       \* Stripe's clock
  unknown,   \* whether no account has the customer
  foreign,   \* the subscriptions of no configured product, or of no account
  truth,     \* the subscriptions as Stripe has them
  event,     \* the events Stripe has emitted
  acked,     \* events whose delivery was answered with 2xx
  state,     \* provider_event.state; "none" without a row
  row,       \* billing_subscription
  ledgered,  \* events with a row in billing_financial_event
  effects,   \* how many times an event was projected
  captured,  \* events that were offered to the referral programme
  pc,        \* where each function stands
  job,       \* the event it works on
  target,    \* the subscription it reads
  read,      \* what Stripe answered
  toCancel   \* the subscriptions it still has to cancel

stripe == <<now, unknown, foreign, truth, event>>
tables == <<state, row, ledgered, effects>>
memory == <<job, target, read, toCancel>>
vars == <<stripe, acked, tables, captured, pc, memory>>

-----------------------------------------------------------------------------
(* Types *)

\* mapStripeStatus, where trialing counts as active; incomplete and unpaid are expired.
StripeStatus == {"expired", "active", "past_due", "paused", "canceled"}
\* What may not fall back to an unpaid start, and what a reversal has to stop.
Live == {"active", "past_due"}
Renewable == Live \cup {"paused"}
Snapshot == [status : StripeStatus, start : Time]
NoSub == [status |-> "none"]

ASSUME StatusAssumption == Statuses \subseteq StripeStatus

Kind == {"subscription", "invoice", "reversal", "dispute", "won"}
\* The kinds that project the subscription; the others only override its status.
Projecting == {"subscription", "invoice"}
\* says: the status in the event's own payload.  charge: when the money that is
\* taken back or disputed was paid.
Event == [kind : Kind, sub : Subs, created : Time, charge : Time,
          says : StripeStatus]
NoEvent == [kind |-> "none"]

Processed == {"applied", "ignored"}
Retryable == {"none", "failed"}
RowStatus == StripeStatus \cup {"refunded"}
Row == [status : RowStatus, stamp : Time, start : Time]
NoRow == [status |-> "none"]

Nothing == "nothing"
Working == {"retrieving", "checking", "listing", "cancelling", "picking",
            "projecting", "capturing"}
NoJob == [event |-> Nothing, replay |-> FALSE]

TypeOK ==
  /\ now \in Time
  /\ unknown \in BOOLEAN
  /\ foreign \in SUBSET Subs
  /\ truth \in [Subs -> Snapshot \cup {NoSub}]
  /\ event \in [Events -> Event \cup {NoEvent}]
  /\ acked \in SUBSET Events
  /\ state \in [Events -> Retryable \cup Processed]
  /\ row \in [Subs -> Row \cup {NoRow}]
  /\ ledgered \in SUBSET Events
  /\ effects \in [Events -> Nat]
  /\ captured \in SUBSET Events
  /\ pc \in [Workers -> {"free"} \cup Working]
  /\ job \in [Workers -> [event : Events, replay : BOOLEAN] \cup {NoJob}]
  /\ target \in [Workers -> Subs \cup {Nothing}]
  /\ read \in [Workers -> Snapshot \cup {NoSub}]
  /\ toCancel \in [Workers -> SUBSET Subs]

Emitted == {e \in Events : event[e] # NoEvent}

Init ==
  /\ now = 1
  /\ \/ /\ unknown = FALSE
        /\ foreign \in SUBSET MaybeForeign
     \/ /\ MaybeUnknown
        /\ unknown = TRUE
        /\ foreign = Subs
  /\ truth = [s \in Subs |->
                IF s \in Known THEN [status |-> "active", start |-> 0] ELSE NoSub]
  /\ event = [e \in Events |-> NoEvent]
  /\ acked = {}
  /\ state = [e \in Events |-> "none"]
  /\ row = [s \in Subs |->
              IF s \in Known \ foreign
                THEN [status |-> "active", stamp |-> 0, start |-> 0]
                ELSE NoRow]
  /\ ledgered = {}
  /\ effects = [e \in Events |-> 0]
  /\ captured = {}
  /\ pc = [w \in Workers |-> "free"]
  /\ job = [w \in Workers |-> NoJob]
  /\ target = [w \in Workers |-> Nothing]
  /\ read = [w \in Workers |-> NoSub]
  /\ toCancel = [w \in Workers |-> {}]

-----------------------------------------------------------------------------
(* Stripe *)

\* Every event an emission can use is new, and carries the state it announces.
Emit(e, kind, s, charge) ==
  /\ event[e] = NoEvent
  /\ event' = [event EXCEPT ![e] =
                 [kind |-> kind, sub |-> s, created |-> now, charge |-> charge,
                  says |-> truth'[s].status]]

Moves ==
  {<<"none", "expired">>, <<"none", "active">>, <<"active", "past_due">>,
   <<"past_due", "expired">>, <<"active", "paused">>, <<"paused", "active">>}
    \cup {"expired", "active", "past_due", "paused"} \X {"canceled"}

\* customer.subscription.*: the subscription starts, falls behind, is given up as
\* unpaid, paused, resumed or canceled.
Change(s, e) ==
  /\ \E status \in Statuses :
       /\ <<truth[s].status, status>> \in Moves
       /\ truth' = [truth EXCEPT ![s] =
                      [status |-> status,
                       start |-> IF truth[s] = NoSub THEN now ELSE truth[s].start]]
  /\ Emit(e, "subscription", s, now)
  /\ UNCHANGED <<now, unknown, foreign, acked, tables, captured, pc, memory>>

\* invoice.paid: the first payment, a late one or that of a new period.
Pay(s, e) ==
  /\ truth[s].status \in {"expired"} \cup Renewable
  /\ \E start \in {truth[s].start, now} :
       truth' = [truth EXCEPT ![s] = [status |-> "active", start |-> start]]
  /\ Emit(e, "invoice", s, now)
  /\ UNCHANGED <<now, unknown, foreign, acked, tables, captured, pc, memory>>

\* The money of the current period is refunded in full, disputed, lost or won.
TakeBack(s, e, kind) ==
  /\ truth[s].status \in Renewable \cup {"canceled"}
  /\ kind = "won" => \E d \in Emitted : event[d].kind = "dispute" /\ event[d].sub = s
  /\ truth' = truth
  /\ Emit(e, kind, s, truth[s].start)
  /\ UNCHANGED <<now, unknown, foreign, acked, tables, captured, pc, memory>>

\* The clock only dates events: it stops when there is none left to emit.
Tick ==
  /\ now < MaxTime
  /\ Emitted # Events
  /\ now' = now + 1
  /\ UNCHANGED <<unknown, foreign, truth, event, acked, tables, captured, pc, memory>>

-----------------------------------------------------------------------------
(* A function and its event *)

EventOf(w) == event[job[w].event]
Go(w, label) == pc' = [pc EXCEPT ![w] = label]

FirstStep(kind) ==
  CASE kind \in Projecting -> "retrieving"
    [] kind = "reversal"   -> "checking"
    [] kind = "dispute"    -> "projecting"
    [] kind = "won"        -> "picking"

Begin(w, e, replay) ==
  /\ pc[w] = "free"
  /\ Go(w, FirstStep(event[e].kind))
  /\ job' = [job EXCEPT ![w] = [event |-> e, replay |-> replay]]
  /\ target' = [target EXCEPT ![w] =
                  IF event[e].kind \in Projecting THEN event[e].sub ELSE Nothing]
  /\ UNCHANGED <<stripe, acked, tables, captured, read, toCancel>>

Free(w) ==
  /\ Go(w, "free")
  /\ job' = [job EXCEPT ![w] = NoJob]
  /\ target' = [target EXCEPT ![w] = Nothing]
  /\ read' = [read EXCEPT ![w] = NoSub]
  /\ toCancel' = [toCancel EXCEPT ![w] = {}]

\* Stripe delivers an event any number of times, before and after an answer.
Deliver(w) == \E e \in Emitted : Begin(w, e, FALSE)

\* An operator replays an event whose processing failed.
Replay(w) == \E e \in Emitted : state[e] = "failed" /\ Begin(w, e, TRUE)

\* subscriptions.retrieve, for the projections and for a won dispute.
Retrieve(w) ==
  /\ pc[w] = "retrieving"
  /\ read' = [read EXCEPT ![w] = truth[target[w]]]
  /\ Go(w, "projecting")
  /\ UNCHANGED <<stripe, acked, tables, captured, job, target, toCancel>>

-----------------------------------------------------------------------------
(* Refunds and disputes *)

\* stripeEventAlreadyProcessed
CheckDone(w) ==
  /\ pc[w] = "checking"
  /\ Go(w, IF state[job[w].event] \in Processed THEN "capturing" ELSE "listing")
  /\ UNCHANGED <<stripe, acked, tables, captured, memory>>

\* The live rows whose period contains the reversed charge.
ListLive(w) ==
  /\ pc[w] = "listing"
  /\ toCancel' = [toCancel EXCEPT ![w] =
                    {s \in Subs : /\ row[s].status \in Renewable
                                  /\ row[s].start <= EventOf(w).charge}]
  /\ Go(w, "cancelling")
  /\ UNCHANGED <<stripe, acked, tables, captured, job, target, read>>

\* subscriptions.cancel, one after the other; a canceled one is passed over.
Cancel(w) ==
  /\ pc[w] = "cancelling"
  /\ \E s \in toCancel[w] :
       /\ toCancel' = [toCancel EXCEPT ![w] = @ \ {s}]
       /\ \/ /\ truth[s].status = "canceled"
             /\ UNCHANGED <<truth, event>>
          \/ /\ truth[s].status # "canceled"
             /\ truth' = [truth EXCEPT ![s].status = "canceled"]
             /\ \E e \in Events : Emit(e, "subscription", s, now)
  /\ UNCHANGED <<now, unknown, foreign, acked, tables, captured, pc, job, target, read>>

AllCanceled(w) ==
  /\ pc[w] = "cancelling"
  /\ toCancel[w] = {}
  /\ Go(w, "projecting")
  /\ UNCHANGED <<stripe, acked, tables, captured, memory>>

\* currentStripeSubscriptionState: the row of the latest event tells which
\* subscription Stripe is asked about.
PickNewest(w) ==
  /\ pc[w] = "picking"
  /\ \/ /\ \A s \in Subs : row[s] = NoRow
        /\ Go(w, "projecting")
        /\ UNCHANGED target
     \/ \E s \in Subs :
          /\ row[s] # NoRow
          /\ \A other \in Subs : row[other] # NoRow => row[other].stamp <= row[s].stamp
          /\ target' = [target EXCEPT ![w] = s]
          /\ Go(w, "retrieving")
  /\ UNCHANGED <<stripe, acked, tables, captured, job, read, toCancel>>

-----------------------------------------------------------------------------
(* The projections *)

\* Faulty variant of Mark: the statement does not see the event it has inserted.
MarkUnseen(e, outcome) ==
  /\ state' = [state EXCEPT ![e] = "received"]
  /\ effects' = [effects EXCEPT ![e] = IF outcome = "applied" THEN @ + 1 ELSE @]

\* The event is marked, once, by the statement that projects it.
Mark(e, outcome) ==
  /\ state' = [state EXCEPT ![e] = outcome]
  /\ effects' = [effects EXCEPT ![e] = IF outcome = "applied" THEN @ + 1 ELSE @]

\* Faulty variant of Wins: the order of the events is not looked at.
WinsAlways(s, ev, snapshot) == TRUE
\* Faulty variant of Wins: in its second, the last event written wins.
WinsOnTies(s, ev, snapshot) == row[s] = NoRow \/ row[s].stamp <= ev.created

\* A newer event wins, and one of the same second unless it takes a live
\* subscription back to its unpaid start.
Wins(s, ev, snapshot) ==
  \/ row[s] = NoRow
  \/ row[s].stamp < ev.created
  \/ /\ row[s].stamp = ev.created
     /\ ~(snapshot.status = "expired" /\ row[s].status \in Live)

\* applyStripeSubscription: what is not of a configured product, or of a customer
\* that the account does not have, is ignored.
ProjectSubscription(w) ==
  LET e == job[w].event
      ev == EventOf(w)
      s == target[w]
      wins == Wins(s, ev, read[w])
  IN  /\ pc[w] = "projecting"
      /\ ev.kind \in Projecting
      /\ \/ /\ state[e] \notin Retryable
            /\ UNCHANGED tables
         \/ /\ state[e] \in Retryable
            /\ s \in foreign
            /\ Mark(e, "ignored")
            /\ UNCHANGED <<row, ledgered>>
         \/ /\ state[e] \in Retryable
            /\ s \notin foreign
            /\ row' = IF wins
                        THEN [row EXCEPT ![s] =
                               [status |-> read[w].status, stamp |-> ev.created,
                                start |-> read[w].start]]
                        ELSE row
            /\ ledgered' = IF ev.kind = "invoice" THEN ledgered \cup {e} ELSE ledgered
            /\ Mark(e, IF wins \/ ev.kind = "invoice" THEN "applied" ELSE "ignored")
      /\ Go(w, "capturing")
      /\ UNCHANGED <<stripe, acked, captured, memory>>

\* The status that a financial event gives the rows, if it gives one.
Override(w) ==
  CASE EventOf(w).kind = "reversal" -> {"refunded"}
    [] EventOf(w).kind = "dispute"  -> {"past_due"}
    [] OTHER                        -> {read[w].status} \ {"none"}

\* Faulty variant of Overridden: a row whose event is newer is overridden too.
OverriddenAnyway(w) ==
  {s \in Subs : /\ row[s] # NoRow
                /\ target[w] \in {Nothing, s}
                /\ row[s].start <= EventOf(w).charge}

\* A won dispute concerns the row it asked about, the others every row of the
\* customer whose period contains the charge and whose event is not newer.
Overridden(w) ==
  {s \in Subs : /\ row[s] # NoRow
                /\ target[w] \in {Nothing, s}
                /\ row[s].stamp <= EventOf(w).created
                /\ row[s].start <= EventOf(w).charge}

\* recordStripeFinancialProjection: the money of an unknown customer is ignored.
ProjectFinancial(w) ==
  LET e == job[w].event
  IN  /\ pc[w] = "projecting"
      /\ EventOf(w).kind \notin Projecting
      /\ \/ /\ state[e] \notin Retryable
            /\ UNCHANGED tables
         \/ /\ state[e] \in Retryable
            /\ unknown
            /\ Mark(e, "ignored")
            /\ UNCHANGED <<row, ledgered>>
         \/ /\ state[e] \in Retryable
            /\ ~unknown
            /\ \/ /\ Override(w) = {}
                  /\ UNCHANGED row
               \/ \E status \in Override(w) :
                    row' = [s \in Subs |->
                              IF s \in Overridden(w)
                                THEN [row[s] EXCEPT !.status = status,
                                                    !.stamp = EventOf(w).created]
                                ELSE row[s]]
            /\ ledgered' = ledgered \cup {e}
            /\ Mark(e, "applied")
      /\ Go(w, "capturing")
      /\ UNCHANGED <<stripe, acked, captured, memory>>

\* captureReferralEvent, after every projection, then the answer.  Losing the
\* answer is delivering the event once more.
Capture(w) ==
  /\ pc[w] = "capturing"
  /\ captured' = captured \cup {job[w].event}
  /\ acked' = IF job[w].replay THEN acked ELSE acked \cup {job[w].event}
  /\ Free(w)
  /\ UNCHANGED <<stripe, tables>>

\* Faulty variant of RecordFailed: it overwrites what was processed.
RecordFailedAnyway(e) == state' = [state EXCEPT ![e] = "failed"]

\* recordFailedProviderEvent
RecordFailed(e) ==
  state' = IF state[e] \in Retryable THEN [state EXCEPT ![e] = "failed"] ELSE state

\* Faulty variant of Fail: a failed delivery is answered like the others.
FailAcknowledged(w) ==
  /\ pc[w] \in Working
  /\ state' = state \/ RecordFailed(job[w].event)
  /\ acked' = acked \cup {job[w].event}
  /\ Free(w)
  /\ UNCHANGED <<stripe, row, ledgered, effects, captured>>

\* A call fails: the failure is recorded unless that fails too, or the
\* function is killed.  Stripe gets no 2xx.
Fail(w) ==
  /\ pc[w] \in Working
  /\ state' = state \/ RecordFailed(job[w].event)
  /\ Free(w)
  /\ UNCHANGED <<stripe, acked, row, ledgered, effects, captured>>

-----------------------------------------------------------------------------
(* The specification *)

Stripe ==
  \/ \E s \in Subs, e \in Events :
       \/ Change(s, e)
       \/ Pay(s, e)
       \/ \E kind \in TakeBacks : TakeBack(s, e, kind)
  \/ Tick

Step(w) ==
  \/ Deliver(w) \/ Replay(w) \/ Retrieve(w)
  \/ CheckDone(w) \/ ListLive(w) \/ Cancel(w) \/ AllCanceled(w) \/ PickNewest(w)
  \/ ProjectSubscription(w) \/ ProjectFinancial(w) \/ Capture(w) \/ Fail(w)

Next == Stripe \/ \E w \in Workers : Step(w)

Spec == Init /\ [][Next]_vars

-----------------------------------------------------------------------------
(* Properties *)

\* An event is projected at most once, however often Stripe delivers it, an
\* operator replays it and deliveries of it fail next to one that succeeds.
AppliedOnce ==
  \A e \in Events : effects[e] <= 1

\* An answered event is never lost: it was projected or ignored for good, its
\* money is in the ledger and the referral programme has seen it.
AckedIsProcessed ==
  \A e \in acked :
    /\ state[e] \in Processed
    /\ event[e].kind # "subscription" /\ event[e].sub \notin foreign => e \in ledgered
    /\ e \in captured

\* The events that can change the row of a subscription.
Concerns(e, s) == event[e].kind \notin Projecting \/ event[e].sub = s

\* No event that concerns the subscription is newer or of the same second.
Newest(e, s) ==
  /\ event[e].sub = s
  /\ \A f \in Emitted \ {e} : Concerns(f, s) => event[f].created < event[e].created

\* "Out-of-order events converge": once the newest event of a subscription is
\* processed its row is what Stripe has, and no older event that is delivered,
\* retried or still in a function's memory takes it back.
NewestEventWins ==
  \A s \in Subs \ foreign, e \in Emitted :
    /\ event[e].kind \in Projecting
    /\ Newest(e, s)
    /\ state[e] \in Processed
    => row[s] = [status |-> truth[s].status, stamp |-> event[e].created,
                 start |-> truth[s].start]

\* The event with which a subscription ends at Stripe, when it shares its second
\* with no other of the subscription and no dispute is opened in it or later.
Closes(c, s) ==
  /\ event[c].kind \in Projecting
  /\ event[c].sub = s
  /\ event[c].says = "canceled"
  /\ \A f \in Emitted \ {c} : Concerns(f, s) => event[f].created # event[c].created
  /\ \A f \in Emitted : event[f].kind = "dispute" => event[f].created < event[c].created

Closed == {"canceled", "refunded"}

\* "Never resurrect a cancelled subscription": once its end is processed the row
\* stays closed, although functions still hold answers that Stripe gave before it,
\* a dispute of an earlier second is won in between or later, and late events are
\* delivered and retried.  A tie of the second is WonNeverResurrects' matter, and a
\* later dispute opens the row again.
CancellationStands ==
  \A s \in Subs \ foreign, c \in Emitted :
    Closes(c, s) /\ state[c] \in Processed => row[s].status \in Closed

\* What the comment in processStripeFinancialEvent says of a dispute that is closed
\* in the merchant's favour, for every timing: its step leaves a canceled row so.
WonNeverResurrects ==
  [][\A w \in Workers, s \in Subs :
       ProjectFinancial(w) /\ EventOf(w).kind = "won" /\ row[s].status = "canceled"
         => row'[s].status = "canceled"]_vars

\* Every event was answered and no function is at work.
Quiet ==
  /\ Emitted \subseteq acked
  /\ \A w \in Workers : pc[w] = "free"

EventsOf(s) == {e \in Emitted : Concerns(e, s)}

\* A Pressay subscription of which only its own events speak.
OwnEventsOnly(s) == \A e \in EventsOf(s) : event[e].kind \in Projecting

\* Its events only say that it starts, unpaid or not, and is paid.
InCheckout(s) ==
  /\ OwnEventsOnly(s)
  /\ \A e \in EventsOf(s) : event[e].says \in {"expired", "active"}

\* A checkout whose created, updated and paid events share a second ends with a
\* live row, in whatever order they are read and written.
CheckoutConverges ==
  \A s \in Subs \ foreign :
    Quiet /\ InCheckout(s) /\ truth[s].status = "active" => row[s].status = "active"

\* What docs/ARCHITECTURE.md says of the webhooks: out-of-order and same-second
\* events converge on Stripe's current state.
SameSecondConverges ==
  \A s \in Subs \ foreign :
    Quiet /\ OwnEventsOnly(s) /\ EventsOf(s) # {} => row[s].status = truth[s].status

\* What docs/ARCHITECTURE.md says of the reversals: a full refund or a lost
\* dispute cancels the Stripe subscription immediately.
RefundCancels ==
  \A e \in Emitted :
    LET s == event[e].sub
    IN  /\ event[e].kind = "reversal"
        /\ e \in acked
        /\ s \notin foreign
        /\ truth[s].start <= event[e].charge
        => truth[s].status = "canceled"

=============================================================================
