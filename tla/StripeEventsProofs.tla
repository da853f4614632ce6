-------------------------- MODULE StripeEventsProofs --------------------------
(***************************************************************************)
(* Proofs about StripeEvents: the types, that an event is projected once,  *)
(* that an answered event was processed, that the newest event decides the *)
(* row and that a checkout ends with a live one, for any number of events, *)
(* subscriptions and functions.                                            *)
(***************************************************************************)
EXTENDS StripeEvents, TLAPS

-----------------------------------------------------------------------------
(* Types *)

\* What a function remembers fits the event it works on: the event exists, a
\* subscription event is about its own subscription, and Stripe's answer about it
\* is a subscription.
Sound(w) ==
  /\ \A s \in toCancel[w] : truth[s] # NoSub
  /\ pc[w] # "free" =>
       /\ job[w] \in [event : Events, replay : BOOLEAN]
       /\ EventOf(w) # NoEvent
       /\ pc[w] = "retrieving" => target[w] \in Subs
       /\ EventOf(w).kind \in Projecting =>
            /\ pc[w] \in {"retrieving", "projecting", "capturing"}
            /\ target[w] = EventOf(w).sub
            /\ pc[w] = "projecting" => read[w] # NoSub

\* Nothing is said of a subscription that Stripe does not have.
SubsExist ==
  /\ \A e \in Emitted : truth[event[e].sub] # NoSub
  /\ \A s \in Subs : row[s] # NoRow => truth[s] # NoSub

TypeInv == TypeOK /\ SubsExist /\ \A w \in Workers : Sound(w)

\* An event that has been emitted stays what it is.
EventsStay == \A e \in Events : event[e] # NoEvent => event'[e] = event[e]

\* Stripe keeps its subscriptions and its events, and only adds events of
\* subscriptions that it has.
Extends ==
  /\ truth' \in [Subs -> Snapshot \cup {NoSub}]
  /\ event' \in [Events -> Event \cup {NoEvent}]
  /\ \A s \in Subs : truth[s] # NoSub => truth'[s] # NoSub
  /\ EventsStay
  /\ \A e \in Events : event[e] = NoEvent /\ event'[e] # NoEvent => truth'[event'[e].sub] # NoSub

LEMMA EmitExtends ==
  ASSUME TypeInv, NEW e \in Events, NEW kind \in Kind, NEW s \in Subs, NEW charge \in Time,
         truth' \in [Subs -> Snapshot \cup {NoSub}], truth'[s] # NoSub,
         \A t \in Subs : truth[t] # NoSub => truth'[t] # NoSub,
         Emit(e, kind, s, charge)
  PROVE  Extends
<1>1. [kind |-> kind, sub |-> s, created |-> now, charge |-> charge,
       says |-> truth'[s].status] \in Event
  BY DEF Event, Snapshot, NoSub, TypeInv, TypeOK
<1>2. QED
  BY <1>1 DEF Emit, Extends, EventsStay, TypeInv, TypeOK

\* What Stripe does by itself.
LEMMA StripeExtends ==
  ASSUME TypeInv, Stripe
  PROVE  /\ Extends
         /\ now' \in Time
         /\ UNCHANGED <<unknown, foreign, acked, tables, captured, pc, memory>>
<1> USE DEF TypeInv, TypeOK
<1>1. ASSUME NEW s \in Subs, NEW e \in Events, Change(s, e)
      PROVE  Extends /\ now' \in Time /\ UNCHANGED <<unknown, foreign, acked, tables, captured, pc, memory>>
  <2>1. PICK status \in Statuses :
          truth' = [truth EXCEPT ![s] =
                      [status |-> status,
                       start |-> IF truth[s] = NoSub THEN now ELSE truth[s].start]]
    BY <1>1 DEF Change
  <2>2. [status |-> status, start |-> IF truth[s] = NoSub THEN now ELSE truth[s].start]
          \in Snapshot
    BY StatusAssumption DEF Snapshot
  <2>3. truth' \in [Subs -> Snapshot \cup {NoSub}] /\ truth'[s] # NoSub
        /\ \A t \in Subs : truth[t] # NoSub => truth'[t] # NoSub
    BY <2>1, <2>2 DEF Snapshot, NoSub
  <2>4. Emit(e, "subscription", s, now)
    BY <1>1 DEF Change
  <2>5. QED
    BY <1>1, <2>3, <2>4, EmitExtends DEF Change, Kind
<1>2. ASSUME NEW s \in Subs, NEW e \in Events, Pay(s, e)
      PROVE  Extends /\ now' \in Time /\ UNCHANGED <<unknown, foreign, acked, tables, captured, pc, memory>>
  <2>1. truth[s] \in Snapshot
    BY <1>2 DEF Pay, NoSub, Renewable, Live
  <2>2. PICK start \in {truth[s].start, now} :
          truth' = [truth EXCEPT ![s] = [status |-> "active", start |-> start]]
    BY <1>2 DEF Pay
  <2>3. [status |-> "active", start |-> start] \in Snapshot
    BY <2>1 DEF Snapshot, StripeStatus
  <2>4. truth' \in [Subs -> Snapshot \cup {NoSub}] /\ truth'[s] # NoSub
        /\ \A t \in Subs : truth[t] # NoSub => truth'[t] # NoSub
    BY <2>2, <2>3 DEF Snapshot, NoSub
  <2>5. Emit(e, "invoice", s, now)
    BY <1>2 DEF Pay
  <2>6. QED
    BY <1>2, <2>4, <2>5, EmitExtends DEF Pay, Kind
<1>3. ASSUME NEW s \in Subs, NEW e \in Events, NEW kind \in TakeBacks, TakeBack(s, e, kind)
      PROVE  Extends /\ now' \in Time /\ UNCHANGED <<unknown, foreign, acked, tables, captured, pc, memory>>
  <2>1. truth[s] \in Snapshot /\ truth[s] # NoSub
    BY <1>3 DEF TakeBack, NoSub, Renewable, Live
  <2>2. kind \in Kind /\ truth[s].start \in Time
    BY <2>1, ScopeAssumption DEF Kind, Snapshot
  <2>3. truth' = truth /\ Emit(e, kind, s, truth[s].start)
    BY <1>3 DEF TakeBack
  <2>4. QED
    BY <1>3, <2>1, <2>2, <2>3, EmitExtends DEF TakeBack
<1>4. ASSUME Tick
      PROVE  Extends /\ now' \in Time /\ UNCHANGED <<unknown, foreign, acked, tables, captured, pc, memory>>
  BY <1>4, TimeAssumption DEF Tick, Extends, EventsStay, Time
<1>5. QED
  BY <1>1, <1>2, <1>3, <1>4 DEF Stripe

LEMMA StripeType == TypeInv /\ Stripe => TypeInv'
<1> SUFFICES ASSUME TypeInv, Stripe PROVE TypeInv'
  OBVIOUS
<1>1. Extends /\ now' \in Time /\ UNCHANGED <<unknown, foreign, acked, tables, captured, pc, memory>>
  BY StripeExtends
<1>2. TypeOK'
  BY <1>1 DEF TypeInv, TypeOK, Extends, tables, memory
<1>3. SubsExist'
  BY <1>1 DEF TypeInv, TypeOK, SubsExist, Extends, EventsStay, tables, Emitted, Event
<1>4. ASSUME NEW w \in Workers PROVE Sound(w)'
  BY <1>1 DEF TypeInv, TypeOK, Sound, Extends, EventsStay, memory, EventOf
<1>5. QED
  BY <1>2, <1>3, <1>4 DEF TypeInv

\* What a function remembers is its own.
Same(v) ==
  /\ pc'[v] = pc[v] /\ job'[v] = job[v] /\ target'[v] = target[v]
  /\ read'[v] = read[v] /\ toCancel'[v] = toCancel[v]

\* The part of Extends that the memory of a function relies on.
Keeps == EventsStay /\ \A s \in Subs : truth[s] # NoSub => truth'[s] # NoSub

LEMMA SameSound ==
  ASSUME TypeInv, Keeps, NEW v \in Workers, Same(v)
  PROVE  Sound(v)'
BY DEF TypeInv, TypeOK, Keeps, EventsStay, Same, Sound, EventOf

LEMMA StepIsOwn ==
  ASSUME TypeInv, NEW w \in Workers, Step(w), NEW v \in Workers, v # w
  PROVE  Same(v)
<1> USE DEF TypeInv, TypeOK, Same, Go, Free, memory
<1>1. CASE Deliver(w) \/ Replay(w)
  BY <1>1 DEF Deliver, Replay, Begin
<1>2. CASE Retrieve(w) \/ CheckDone(w) \/ ListLive(w)
  BY <1>2 DEF Retrieve, CheckDone, ListLive
<1>3. CASE Cancel(w) \/ AllCanceled(w) \/ PickNewest(w)
  BY <1>3 DEF Cancel, AllCanceled, PickNewest
<1>4. CASE ProjectSubscription(w) \/ ProjectFinancial(w)
  BY <1>4 DEF ProjectSubscription, ProjectFinancial
<1>5. CASE Capture(w) \/ Fail(w)
  BY <1>5 DEF Capture, Fail
<1>6. QED
  BY <1>1, <1>2, <1>3, <1>4, <1>5 DEF Step

\* A subscription that a function cancels exists, and so does the event of it.
LEMMA CancelExtends ==
  ASSUME TypeInv, NEW w \in Workers, Cancel(w)
  PROVE  Extends
<1> USE DEF TypeInv, TypeOK
<1>1. PICK s \in toCancel[w] :
        \/ UNCHANGED <<truth, event>>
        \/ /\ truth' = [truth EXCEPT ![s].status = "canceled"]
           /\ \E e \in Events : Emit(e, "subscription", s, now)
  BY DEF Cancel
<1>2. CASE UNCHANGED <<truth, event>>
  BY <1>2 DEF Extends, EventsStay
<1>3. CASE /\ truth' = [truth EXCEPT ![s].status = "canceled"]
           /\ \E e \in Events : Emit(e, "subscription", s, now)
  <2>1. s \in Subs /\ truth[s] \in Snapshot
    BY DEF Sound
  <2>2. [truth[s] EXCEPT !.status = "canceled"] \in Snapshot
    BY <2>1 DEF Snapshot, StripeStatus
  <2>3. truth' \in [Subs -> Snapshot \cup {NoSub}] /\ truth'[s] # NoSub
        /\ \A t \in Subs : truth[t] # NoSub => truth'[t] # NoSub
    BY <1>3, <2>1, <2>2 DEF Snapshot, NoSub
  <2>4. PICK e \in Events : Emit(e, "subscription", s, now)
    BY <1>3
  <2>5. QED
    BY <2>1, <2>3, <2>4, EmitExtends DEF Kind
<1>4. QED
  BY <1>1, <1>2, <1>3

\* The two projections leave rows of subscriptions that Stripe has.
LEMMA SubscriptionRows ==
  ASSUME TypeInv, NEW w \in Workers, ProjectSubscription(w)
  PROVE  /\ row' \in [Subs -> Row \cup {NoRow}]
         /\ \A s \in Subs : row'[s] # NoRow => truth[s] # NoSub
<1> USE DEF TypeInv, TypeOK
<1>1. CASE UNCHANGED row
  BY <1>1 DEF SubsExist
<1>2. CASE row' = [row EXCEPT ![target[w]] =
                    [status |-> read[w].status, stamp |-> EventOf(w).created,
                     start |-> read[w].start]]
  <2>1. pc[w] = "projecting" /\ EventOf(w).kind \in Projecting
    BY DEF ProjectSubscription
  <2>2. /\ EventOf(w) \in Event
        /\ target[w] = EventOf(w).sub
        /\ read[w] \in Snapshot
        /\ truth[target[w]] # NoSub
    BY <2>1 DEF Sound, SubsExist, Emitted, EventOf
  <2>3. [status |-> read[w].status, stamp |-> EventOf(w).created,
         start |-> read[w].start] \in Row
    BY <2>2 DEF Row, RowStatus, Snapshot, Event
  <2>4. target[w] \in Subs
    BY <2>2 DEF Event
  <2>5. QED
    BY <1>2, <2>2, <2>3, <2>4 DEF SubsExist
<1>3. QED
  BY <1>1, <1>2 DEF ProjectSubscription, tables

LEMMA FinancialRows ==
  ASSUME TypeInv, NEW w \in Workers, ProjectFinancial(w)
  PROVE  /\ row' \in [Subs -> Row \cup {NoRow}]
         /\ \A s \in Subs : row'[s] # NoRow => truth[s] # NoSub
<1> USE DEF TypeInv, TypeOK
<1>1. CASE UNCHANGED row
  BY <1>1 DEF SubsExist
<1>2. ASSUME NEW status \in Override(w),
             row' = [s \in Subs |->
                       IF s \in Overridden(w)
                         THEN [row[s] EXCEPT !.status = status, !.stamp = EventOf(w).created]
                         ELSE row[s]]
      PROVE  /\ row' \in [Subs -> Row \cup {NoRow}]
             /\ \A s \in Subs : row'[s] # NoRow => truth[s] # NoSub
  <2>1. EventOf(w) \in Event
    BY DEF Sound, EventOf, ProjectFinancial
  <2>2. status \in RowStatus /\ EventOf(w).created \in Time
    <3>1. read[w].status \in StripeStatus \cup {"none"}
      BY DEF Snapshot, NoSub
    <3>2. QED
      BY <1>2, <2>1, <3>1 DEF Override, RowStatus, StripeStatus, Event
  <2>3. ASSUME NEW s \in Overridden(w)
        PROVE  /\ s \in Subs
               /\ row[s] # NoRow
               /\ [row[s] EXCEPT !.status = status, !.stamp = EventOf(w).created] \in Row
    BY <2>2 DEF Overridden, Row
  <2>4. QED
    BY <1>2, <2>3 DEF SubsExist
<1>3. QED
  BY <1>1, <1>2 DEF ProjectFinancial, tables

LEMMA MarkType ==
  ASSUME TypeInv, NEW e \in Events, NEW outcome \in Processed, Mark(e, outcome)
  PROVE  state' \in [Events -> Retryable \cup Processed] /\ effects' \in [Events -> Nat]
BY DEF Mark, TypeInv, TypeOK

LEMMA RecordType ==
  ASSUME TypeInv, NEW e \in Events, RecordFailed(e)
  PROVE  state' \in [Events -> Retryable \cup Processed]
BY DEF RecordFailed, TypeInv, TypeOK, Retryable

LEMMA FreeSound ==
  ASSUME TypeInv, NEW w \in Workers, Free(w)
  PROVE  /\ Sound(w)'
         /\ pc' \in [Workers -> {"free"} \cup Working]
         /\ job' \in [Workers -> [event : Events, replay : BOOLEAN] \cup {NoJob}]
         /\ target' \in [Workers -> Subs \cup {Nothing}]
         /\ read' \in [Workers -> Snapshot \cup {NoSub}]
         /\ toCancel' \in [Workers -> SUBSET Subs]
BY DEF TypeInv, TypeOK, Free, Go, Sound

LEMMA StepType ==
  ASSUME TypeInv, NEW w \in Workers, Step(w)
  PROVE  TypeOK' /\ SubsExist' /\ Keeps /\ Sound(w)'
<1> USE DEF TypeInv, TypeOK, stripe, tables, memory, Keeps, EventsStay
<1> DEFINE Typed == TypeOK' /\ SubsExist' /\ Keeps /\ Sound(w)'
<1>k. ASSUME UNCHANGED <<truth, event, row>> PROVE SubsExist' /\ Keeps
  BY <1>k DEF SubsExist, Emitted
<1>1. ASSUME NEW e \in Emitted, NEW replay \in BOOLEAN, Begin(w, e, replay) PROVE Typed
  <2>1. event[e] \in Event
    BY DEF Emitted
  <2>2. FirstStep(event[e].kind) \in Working
    BY <2>1 DEF FirstStep, Event, Kind, Projecting, Working
  <2>3. event[e].kind \in Projecting => FirstStep(event[e].kind) = "retrieving"
    BY DEF FirstStep, Projecting
  <2>4. event[e].sub \in Subs
    BY <2>1 DEF Event
  <2>5. TypeOK'
    BY <1>1, <2>2, <2>4 DEF Begin, Go, Emitted
  <2>6. FirstStep(event[e].kind) = "retrieving" => event[e].kind \in Projecting
    BY <2>1 DEF FirstStep, Event, Kind, Projecting
  <2>7. Sound(w)'
    BY <1>1, <2>3, <2>4, <2>6 DEF Begin, Go, Sound, EventOf, Emitted
  <2>8. QED
    BY <1>1, <1>k, <2>5, <2>7 DEF Begin
<1>2. CASE Deliver(w) \/ Replay(w)
  BY <1>1, <1>2 DEF Deliver, Replay
<1>3. CASE Retrieve(w)
  <2>1. EventOf(w).kind \in Projecting => truth[target[w]] # NoSub
    BY <1>3 DEF Retrieve, Sound, SubsExist, Emitted, EventOf
  <2>2. target[w] \in Subs
    BY <1>3 DEF Retrieve, Sound
  <2>3. TypeOK'
    BY <1>3, <2>2 DEF Retrieve, Go, Working
  <2>4. Sound(w)'
    BY <1>3, <2>1, <2>2 DEF Retrieve, Go, Sound, EventOf
  <2>5. QED
    BY <1>3, <1>k, <2>3, <2>4 DEF Retrieve
<1>4. CASE CheckDone(w)
  <2>1. TypeOK' /\ Sound(w)'
    BY <1>4 DEF CheckDone, Go, Working, Sound, EventOf
  <2>2. QED
    BY <1>4, <1>k, <2>1 DEF CheckDone
<1>5. CASE ListLive(w)
  <2>1. \A s \in Subs : row[s].status \in Renewable => row[s] # NoRow
    BY DEF NoRow, Renewable, Live
  <2>2. TypeOK'
    BY <1>5 DEF ListLive, Go, Working
  <2>3. Sound(w)'
    BY <1>5, <2>1 DEF ListLive, Go, Sound, EventOf, SubsExist
  <2>4. QED
    BY <1>5, <1>k, <2>2, <2>3 DEF ListLive
<1>6. CASE Cancel(w)
  <2>1. Extends
    BY <1>6, CancelExtends
  <2>2. toCancel'[w] \subseteq toCancel[w] /\ toCancel' \in [Workers -> SUBSET Subs]
    BY <1>6 DEF Cancel
  <2>3. TypeOK'
    BY <1>6, <2>1, <2>2 DEF Cancel, Extends
  <2>4. SubsExist'
    BY <1>6, <2>1 DEF Cancel, SubsExist, Extends, Emitted, Event
  <2>5. Sound(w)'
    BY <1>6, <2>1, <2>2 DEF Cancel, Extends, Sound, EventOf
  <2>6. QED
    BY <2>1, <2>3, <2>4, <2>5 DEF Extends
<1>7. CASE AllCanceled(w)
  <2>1. TypeOK' /\ Sound(w)'
    BY <1>7 DEF AllCanceled, Go, Working, Sound, EventOf
  <2>2. QED
    BY <1>7, <1>k, <2>1 DEF AllCanceled
<1>8. CASE PickNewest(w)
  <2>1. TypeOK'
    BY <1>8 DEF PickNewest, Go, Working
  <2>2. Sound(w)'
    BY <1>8 DEF PickNewest, Go, Sound, EventOf
  <2>3. QED
    BY <1>8, <1>k, <2>1, <2>2 DEF PickNewest
<1>9. CASE ProjectSubscription(w)
  <2>1. job[w].event \in Events
    BY <1>9 DEF ProjectSubscription, Sound
  <2>2. state' \in [Events -> Retryable \cup Processed] /\ effects' \in [Events -> Nat]
    BY <1>9, <2>1, MarkType DEF ProjectSubscription, Processed
  <2>3. ledgered' \in SUBSET Events /\ pc' \in [Workers -> {"free"} \cup Working]
    BY <1>9, <2>1 DEF ProjectSubscription, Go, Working
  <2>4. UNCHANGED <<stripe, acked, captured, memory>>
    BY <1>9 DEF ProjectSubscription
  <2>5. TypeOK' /\ SubsExist'
    BY <1>9, <2>2, <2>3, <2>4, SubscriptionRows DEF SubsExist, Emitted
  <2>6. Sound(w)'
    BY <1>9, <2>4 DEF ProjectSubscription, Go, Sound, EventOf
  <2>7. QED
    BY <2>4, <2>5, <2>6
<1>10. CASE ProjectFinancial(w)
  <2>1. job[w].event \in Events
    BY <1>10 DEF ProjectFinancial, Sound
  <2>2. state' \in [Events -> Retryable \cup Processed] /\ effects' \in [Events -> Nat]
    BY <1>10, <2>1, MarkType DEF ProjectFinancial, Processed
  <2>3. ledgered' \in SUBSET Events /\ pc' \in [Workers -> {"free"} \cup Working]
    BY <1>10, <2>1 DEF ProjectFinancial, Go, Working
  <2>4. UNCHANGED <<stripe, acked, captured, memory>>
    BY <1>10 DEF ProjectFinancial
  <2>5. TypeOK' /\ SubsExist'
    BY <1>10, <2>2, <2>3, <2>4, FinancialRows DEF SubsExist, Emitted
  <2>6. Sound(w)'
    BY <1>10, <2>4 DEF ProjectFinancial, Go, Sound, EventOf
  <2>7. QED
    BY <2>4, <2>5, <2>6
<1>11. CASE Capture(w)
  <2>1. job[w].event \in Events /\ Free(w)
    BY <1>11 DEF Capture, Sound
  <2>2. TypeOK' /\ Sound(w)'
    BY <1>11, <2>1, FreeSound DEF Capture
  <2>3. QED
    BY <1>11, <1>k, <2>2 DEF Capture
<1>12. CASE Fail(w)
  <2>1. job[w].event \in Events /\ Free(w)
    BY <1>12 DEF Fail, Sound, Working
  <2>2. TypeOK' /\ Sound(w)'
    BY <1>12, <2>1, FreeSound, RecordType DEF Fail
  <2>3. QED
    BY <1>12, <1>k, <2>2 DEF Fail
<1>13. QED
  BY <1>2, <1>3, <1>4, <1>5, <1>6, <1>7, <1>8, <1>9, <1>10, <1>11, <1>12 DEF Step

LEMMA NextType == TypeInv /\ [Next]_vars => TypeInv'
<1> SUFFICES ASSUME TypeInv, [Next]_vars PROVE TypeInv'
  OBVIOUS
<1>1. CASE Stripe
  BY <1>1, StripeType
<1>2. ASSUME NEW w \in Workers, Step(w) PROVE TypeInv'
  <2>1. TypeOK' /\ SubsExist' /\ Keeps /\ Sound(w)'
    BY <1>2, StepType
  <2>2. ASSUME NEW v \in Workers, v # w PROVE Sound(v)'
    BY <1>2, <2>1, <2>2, StepIsOwn, SameSound
  <2>3. QED
    BY <2>1, <2>2 DEF TypeInv
<1>3. CASE UNCHANGED vars
  BY <1>3 DEF vars, stripe, tables, memory, TypeInv, TypeOK, SubsExist, Sound, Emitted, EventOf
<1>4. QED
  BY <1>1, <1>2, <1>3 DEF Next

LEMMA InitType == Init => TypeInv
<1> SUFFICES ASSUME Init PROVE TypeInv
  OBVIOUS
<1> USE DEF Init
<1>1. 0 \in Time /\ 1 \in Time
  BY TimeAssumption DEF Time
<1>2. [status |-> "active", start |-> 0] \in Snapshot
      /\ [status |-> "active", stamp |-> 0, start |-> 0] \in Row
  BY <1>1 DEF Snapshot, Row, RowStatus, StripeStatus
<1>3. TypeOK
  BY <1>1, <1>2, ScopeAssumption DEF TypeOK, Retryable
<1>4. SubsExist /\ \A w \in Workers : Sound(w)
  BY <1>2, ScopeAssumption DEF SubsExist, Sound, Emitted, NoSub
<1>5. QED
  BY <1>3, <1>4 DEF TypeInv

\* Every state has its type: no answer of Stripe, row or event that a function
\* works on is missing when its projection writes it.
THEOREM StripeTypeCorrect == Spec => []TypeOK
<1>1. TypeInv => TypeOK
  BY DEF TypeInv
<1>2. QED
  BY <1>1, InitType, NextType, PTL DEF Spec

-----------------------------------------------------------------------------
(* Once, and not lost *)

\* An event that can still be processed has never been projected.
EffectsInv == \A e \in Events : state[e] \in Retryable => effects[e] = 0

OnceInv == TypeInv /\ EffectsInv /\ AppliedOnce

\* The state of an event changes only while it can be retried; it is marked by a
\* projection of it, or as failed.
LEMMA StateChanges ==
  ASSUME TypeInv, NEW w \in Workers, Step(w)
  PROVE  \/ UNCHANGED <<state, effects>>
         \/ /\ job[w].event \in Events
            /\ state[job[w].event] \in Retryable
            /\ \/ \E outcome \in Processed : Mark(job[w].event, outcome)
               \/ RecordFailed(job[w].event) /\ UNCHANGED effects
<1> USE DEF tables
<1>1. CASE Deliver(w) \/ Replay(w) \/ Retrieve(w) \/ CheckDone(w) \/ ListLive(w)
  BY <1>1 DEF Deliver, Replay, Begin, Retrieve, CheckDone, ListLive
<1>2. CASE Cancel(w) \/ AllCanceled(w) \/ PickNewest(w) \/ Capture(w)
  BY <1>2 DEF Cancel, AllCanceled, PickNewest, Capture
<1>3. CASE ProjectSubscription(w) \/ ProjectFinancial(w)
  <2>1. job[w].event \in Events
    BY <1>3 DEF ProjectSubscription, ProjectFinancial, TypeInv, Sound
  <2>2. QED
    BY <1>3, <2>1 DEF ProjectSubscription, ProjectFinancial, Processed
<1>4. CASE Fail(w)
  <2>1. job[w].event \in Events
    BY <1>4 DEF Fail, TypeInv, Sound, Working
  <2>2. QED
    BY <1>4, <2>1 DEF Fail, RecordFailed
<1>5. QED
  BY <1>1, <1>2, <1>3, <1>4 DEF Step

LEMMA NextOnce == OnceInv /\ [Next]_vars => EffectsInv' /\ AppliedOnce'
<1> SUFFICES ASSUME OnceInv, [Next]_vars PROVE EffectsInv' /\ AppliedOnce'
  OBVIOUS
<1> USE DEF OnceInv, TypeInv, TypeOK, EffectsInv, AppliedOnce
<1>1. CASE UNCHANGED <<state, effects>>
  BY <1>1
<1>2. ASSUME NEW e \in Events, NEW outcome \in Processed, state[e] \in Retryable,
             Mark(e, outcome)
      PROVE  EffectsInv' /\ AppliedOnce'
  <2>1. outcome \notin Retryable
    BY DEF Processed, Retryable
  <2>2. effects[e] = 0 /\ effects'[e] \in {0, 1} /\ state'[e] = outcome
    BY <1>2 DEF Mark
  <2>3. \A f \in Events \ {e} : effects'[f] = effects[f] /\ state'[f] = state[f]
    BY <1>2 DEF Mark
  <2>4. QED
    BY <2>1, <2>2, <2>3
<1>3. ASSUME NEW e \in Events, state[e] \in Retryable, RecordFailed(e), UNCHANGED effects
      PROVE  EffectsInv' /\ AppliedOnce'
  BY <1>3 DEF RecordFailed
<1>4. ASSUME NEW w \in Workers, Step(w) PROVE EffectsInv' /\ AppliedOnce'
  BY <1>1, <1>2, <1>3, <1>4, StateChanges
<1>5. CASE Stripe \/ UNCHANGED vars
  <2>1. UNCHANGED tables
    BY <1>5, StripeExtends DEF vars
  <2>2. QED
    BY <1>1, <2>1 DEF tables
<1>6. QED
  BY <1>4, <1>5 DEF Next

\* An event changes the rows at most once, although any number of functions
\* work on it, fail and are repeated (applyStripeSubscription and
\* recordStripeFinancialProjection take it over in the statement that writes).
THEOREM ProjectedOnce == Spec => []AppliedOnce
<1>1. Init => OnceInv
  BY InitType DEF Init, OnceInv, EffectsInv, AppliedOnce
<1>2. OnceInv /\ [Next]_vars => OnceInv'
  BY NextOnce, NextType DEF OnceInv
<1>3. OnceInv => AppliedOnce
  BY DEF OnceInv
<1>4. QED
  BY <1>1, <1>2, <1>3, PTL DEF Spec

\* What is known of an event that was processed, of one a function is about to
\* answer and of one that was answered.
DoneInv ==
  /\ unknown => foreign = Subs
  /\ \A e \in Events : state[e] \in Processed =>
       /\ event[e] # NoEvent
       /\ event[e].kind # "subscription" /\ event[e].sub \notin foreign => e \in ledgered
  /\ \A w \in Workers : pc[w] = "capturing" => state[job[w].event] \in Processed
  /\ \A e \in acked : state[e] \in Processed /\ e \in captured

AckInv == TypeInv /\ DoneInv

\* A processed event stays so, and the ledger and the referrals keep theirs.
Grows ==
  /\ \A e \in Events : state[e] \in Processed => state'[e] = state[e]
  /\ ledgered \subseteq ledgered'
  /\ captured \subseteq captured'
  /\ UNCHANGED <<unknown, foreign>>
  /\ EventsStay

LEMMA StepGrows ==
  ASSUME TypeInv, NEW w \in Workers, Step(w)
  PROVE  Grows
<1>1. EventsStay
  BY StepType DEF Keeps
<1>2. \A e \in Events : state[e] \in Processed => state'[e] = state[e]
  BY StateChanges DEF Mark, RecordFailed, TypeInv, TypeOK, Processed, Retryable
<1>3. ledgered \subseteq ledgered' /\ captured \subseteq captured' /\ UNCHANGED <<unknown, foreign>>
  <2> USE DEF tables, stripe
  <2>1. CASE Deliver(w) \/ Replay(w) \/ Retrieve(w) \/ CheckDone(w) \/ ListLive(w)
    BY <2>1 DEF Deliver, Replay, Begin, Retrieve, CheckDone, ListLive
  <2>2. CASE Cancel(w) \/ AllCanceled(w) \/ PickNewest(w) \/ Capture(w) \/ Fail(w)
    BY <2>2 DEF Cancel, AllCanceled, PickNewest, Capture, Fail
  <2>3. CASE ProjectSubscription(w) \/ ProjectFinancial(w)
    BY <2>3 DEF ProjectSubscription, ProjectFinancial
  <2>4. QED
    BY <2>1, <2>2, <2>3 DEF Step
<1>4. QED
  BY <1>1, <1>2, <1>3 DEF Grows

\* A projection records the event it processes in the ledger, unless it is one
\* of the subscription itself or of another product's.
LEMMA ProjectionLedgers ==
  ASSUME TypeInv, DoneInv, NEW w \in Workers, ProjectSubscription(w) \/ ProjectFinancial(w)
  PROVE  LET e == job[w].event
         IN  /\ e \in Events
             /\ event[e] # NoEvent
             /\ state'[e] \in Processed
             /\ event[e].kind # "subscription" /\ event[e].sub \notin foreign => e \in ledgered'
             /\ \A f \in Events \ {e} : state'[f] = state[f]
<1> DEFINE e == job[w].event
<1> USE DEF TypeInv, TypeOK
<1>1. pc[w] = "projecting"
  BY DEF ProjectSubscription, ProjectFinancial
<1>2. e \in Events /\ event[e] # NoEvent
  BY <1>1 DEF Sound, EventOf
<1>3. CASE state[e] \notin Retryable
  <2>1. state[e] \in Processed /\ UNCHANGED tables
    BY <1>2, <1>3 DEF ProjectSubscription, ProjectFinancial
  <2>2. QED
    BY <1>2, <2>1 DEF DoneInv, tables
<1>4. CASE state[e] \in Retryable
  <2>1. PICK outcome \in Processed : Mark(e, outcome)
    BY <1>4 DEF ProjectSubscription, ProjectFinancial, Processed
  <2>2. state'[e] \in Processed /\ \A f \in Events \ {e} : state'[f] = state[f]
    BY <1>2, <2>1 DEF Mark
  <2>3. event[e].kind # "subscription" /\ event[e].sub \notin foreign => e \in ledgered'
    <3>1. CASE ProjectFinancial(w)
      <4>1. unknown => event[e].sub \in foreign
        BY <1>2 DEF DoneInv, Event, NoEvent
      <4>2. QED
        BY <1>4, <3>1, <4>1 DEF ProjectFinancial
    <3>2. CASE ProjectSubscription(w)
      <4>1. EventOf(w).kind \in Projecting /\ target[w] = event[e].sub
        BY <1>1, <3>2 DEF ProjectSubscription, Sound, EventOf
      <4>2. QED
        BY <1>4, <3>2, <4>1 DEF ProjectSubscription, Projecting, EventOf
    <3>3. QED
      BY <3>1, <3>2
  <2>4. QED
    BY <1>2, <2>2, <2>3
<1>5. QED
  BY <1>3, <1>4

LEMMA StepDone ==
  ASSUME TypeInv, DoneInv, NEW w \in Workers, Step(w)
  PROVE  DoneInv'
<1> USE DEF TypeInv, TypeOK, stripe, tables, memory
<1>g. Grows
  BY StepGrows
<1>v. \A v \in Workers \ {w} : pc'[v] = "capturing" => state'[job'[v].event] \in Processed
  BY <1>g, StepIsOwn DEF Same, Grows, DoneInv, Sound
<1>s. ASSUME \A e \in Events : state'[e] \in Processed => state[e] \in Processed,
             UNCHANGED acked, pc'[w] # "capturing"
      PROVE  DoneInv'
  BY <1>s, <1>g, <1>v DEF Grows, EventsStay, DoneInv
<1>1. CASE Deliver(w) \/ Replay(w)
  BY <1>1, <1>s DEF Deliver, Replay, Begin, Go, FirstStep, Emitted, Event, Kind, Projecting
<1>2. CASE Retrieve(w) \/ ListLive(w) \/ Cancel(w) \/ AllCanceled(w) \/ PickNewest(w)
  BY <1>2, <1>s DEF Retrieve, ListLive, Cancel, AllCanceled, PickNewest, Go
<1>3. CASE CheckDone(w)
  <2>1. UNCHANGED <<unknown, event, foreign, acked, state, ledgered, captured, job>>
    BY <1>3 DEF CheckDone
  <2>2. pc'[w] = "capturing" => state[job[w].event] \in Processed
    BY <1>3 DEF CheckDone, Go
  <2>3. QED
    BY <2>1, <2>2, <1>v DEF DoneInv
<1>4. CASE ProjectSubscription(w) \/ ProjectFinancial(w)
  <2>1. UNCHANGED <<unknown, event, foreign, acked, captured, job>>
    BY <1>4 DEF ProjectSubscription, ProjectFinancial
  <2>2. QED
    BY <1>4, <1>g, <1>v, <2>1, ProjectionLedgers DEF DoneInv, Grows
<1>5. CASE Capture(w)
  <2>1. /\ UNCHANGED <<unknown, event, foreign, state, ledgered>>
        /\ captured' = captured \cup {job[w].event}
        /\ acked' \subseteq acked \cup {job[w].event}
        /\ state[job[w].event] \in Processed
    BY <1>5 DEF Capture, DoneInv
  <2>2. pc'[w] # "capturing"
    BY <1>5 DEF Capture, Free, Go
  <2>3. QED
    BY <1>v, <2>1, <2>2 DEF DoneInv
<1>6. CASE Fail(w)
  <2>1. pc'[w] # "capturing" /\ UNCHANGED acked
    BY <1>6 DEF Fail, Free, Go
  <2>2. \A e \in Events : state'[e] \in Processed => state[e] \in Processed
    BY <1>6 DEF Fail, RecordFailed, Processed
  <2>3. QED
    BY <1>s, <2>1, <2>2
<1>7. QED
  BY <1>1, <1>2, <1>3, <1>4, <1>5, <1>6 DEF Step

LEMMA NextDone == AckInv /\ [Next]_vars => DoneInv'
<1> SUFFICES ASSUME AckInv, [Next]_vars PROVE DoneInv'
  OBVIOUS
<1> USE DEF AckInv
<1>1. CASE Stripe \/ UNCHANGED vars
  <2>1. EventsStay /\ UNCHANGED <<unknown, foreign, acked, tables, captured, pc, memory>>
    BY <1>1, StripeExtends DEF vars, stripe, Extends, EventsStay
  <2>2. QED
    BY <2>1 DEF DoneInv, EventsStay, tables, memory
<1>2. QED
  BY <1>1, StepDone DEF Next

\* An event that Stripe was told is done was processed for good: a projection or a
\* capture that fails leaves it unanswered (processStripeWebhook).
THEOREM AnsweredIsProcessed == Spec => []AckedIsProcessed
<1>1. Init => AckInv
  BY InitType DEF Init, AckInv, DoneInv, Processed
<1>2. AckInv /\ [Next]_vars => AckInv'
  BY NextDone, NextType DEF AckInv
<1>3. AckInv => AckedIsProcessed
  BY DEF AckInv, DoneInv, AckedIsProcessed, TypeInv, TypeOK
<1>4. QED
  BY <1>1, <1>2, <1>3, PTL DEF Spec

-----------------------------------------------------------------------------
(* The newest event wins *)

LEMMA Ordered ==
  \A i, j \in Int : /\ i < j \/ i = j \/ j < i
                    /\ i <= j <=> i < j \/ i = j
                    /\ ~(i < j /\ j < i) /\ ~(i < i)
                    /\ i > j <=> j < i
                    /\ i >= j <=> j <= i
OBVIOUS

\* No event is dated in the future, nor before the rows of the start.
Dated ==
  /\ 1 <= now
  /\ \A e \in Emitted : 1 <= event[e].created /\ event[e].created <= now

\* Where the stamp of a row is from: the start, or an event that was processed.
Initial(s) == s \in Known /\ row[s].stamp = 0 /\ row[s].status = "active"
StampedBy(f, s) ==
  /\ f \in Emitted
  /\ Concerns(f, s)
  /\ state[f] \in Processed
  /\ row[s].stamp = event[f].created
StampInv == \A s \in Subs : row[s] # NoRow => Initial(s) \/ \E f \in Events : StampedBy(f, s)

\* A function without a subscription has not asked Stripe.
MemoryInv ==
  \A w \in Workers :
    /\ target[w] = Nothing => read[w] = NoSub
    /\ pc[w] \in {"free", "checking", "listing", "cancelling", "picking"} => target[w] = Nothing

\* What a function has read for the newest event of a subscription is still true:
\* it asked after that event, and every change since would be another event.
AnswerInv ==
  \A w \in Workers :
    /\ pc[w] = "projecting"
    /\ target[w] \in Subs
    /\ Newest(job[w].event, target[w])
    => read[w] = truth[target[w]]

\* The subscription's own event that says that it has ended.
Ends(c, s) == event[c].kind \in Projecting /\ event[c].sub = s /\ event[c].says = "canceled"

\* A subscription that has ended stays so at Stripe, and who asks for that event or
\* for a newer one is told so.
EndInv ==
  \A s \in Subs, c \in Emitted : Ends(c, s) =>
    /\ truth[s].status = "canceled"
    /\ \A w \in Workers :
         /\ pc[w] = "projecting"
         /\ target[w] = s
         /\ job[w].event = c \/ event[c].created < event[job[w].event].created
         => read[w].status = "canceled"

\* From a lone end on, what writes the row leaves it closed; processing the end
\* writes the row, or finds it newer.
EndRowInv ==
  \A s \in Subs \ foreign, c \in Emitted : Closes(c, s) =>
    /\ row[s] # NoRow /\ event[c].created <= row[s].stamp => row[s].status \in Closed
    /\ state[c] \in Processed => row[s] # NoRow /\ event[c].created <= row[s].stamp

OrderInv == Dated /\ StampInv /\ MemoryInv /\ AnswerInv /\ EndInv
ConvergeInv == AckInv /\ OrderInv /\ NewestEventWins /\ EndRowInv

\* How Stripe changes: every change of a subscription is an event, dated now.
Announces ==
  /\ now' \in Time /\ now <= now'
  /\ EventsStay
  /\ \A f \in Events : event[f] = NoEvent /\ event'[f] # NoEvent =>
       event'[f].created = now /\ event'[f].says = truth'[event'[f].sub].status
  /\ \A s \in Subs : truth'[s] # truth[s] =>
       /\ truth[s].status # "canceled"
       /\ \E f \in Events : /\ event[f] = NoEvent /\ event'[f] # NoEvent
                            /\ event'[f].kind \in Projecting /\ event'[f].sub = s

LEMMA StripeAnnounces ==
  ASSUME TypeInv, \/ Stripe
                  \/ \E w \in Workers : Cancel(w)
                  \/ UNCHANGED vars
  PROVE  Announces
<1> USE DEF TypeInv, TypeOK, Time
<1>e. ASSUME NEW e \in Events, NEW kind, NEW s \in Subs, NEW charge, NEW new,
             kind \in Projecting, truth' = [truth EXCEPT ![s] = new], now' = now,
             truth[s].status # "canceled",
             Emit(e, kind, s, charge)
      PROVE  Announces
  BY <1>e DEF Emit, Announces, EventsStay, NoEvent, Projecting
<1>1. ASSUME NEW s \in Subs, NEW e \in Events, Change(s, e) PROVE Announces
  <2>1. PICK status \in Statuses :
          /\ <<truth[s].status, status>> \in Moves
          /\ truth' = [truth EXCEPT ![s] =
                         [status |-> status,
                          start |-> IF truth[s] = NoSub THEN now ELSE truth[s].start]]
    BY <1>1 DEF Change
  <2>2. truth[s].status # "canceled"
    BY <2>1 DEF Moves
  <2> DEFINE new == [status |-> status,
                     start |-> IF truth[s] = NoSub THEN now ELSE truth[s].start]
  <2>3. truth' = [truth EXCEPT ![s] = new]
    BY <2>1
  <2>4. now' = now /\ Emit(e, "subscription", s, now) /\ "subscription" \in Projecting
    BY <1>1 DEF Change, Projecting
  <2> HIDE DEF new
  <2>5. QED
    BY <1>e, <2>2, <2>3, <2>4
<1>2. ASSUME NEW s \in Subs, NEW e \in Events, Pay(s, e) PROVE Announces
  <2>1. PICK start : truth' = [truth EXCEPT ![s] = [status |-> "active", start |-> start]]
    BY <1>2 DEF Pay
  <2> DEFINE new == [status |-> "active", start |-> start]
  <2>2. truth' = [truth EXCEPT ![s] = new] /\ truth[s].status # "canceled"
    BY <1>2, <2>1 DEF Pay, Renewable, Live
  <2>3. now' = now /\ Emit(e, "invoice", s, now) /\ "invoice" \in Projecting
    BY <1>2 DEF Pay, Projecting
  <2> HIDE DEF new
  <2>4. QED
    BY <1>e, <2>2, <2>3
<1>3. ASSUME NEW s \in Subs, NEW e \in Events, NEW kind \in TakeBacks, TakeBack(s, e, kind)
      PROVE  Announces
  BY <1>3 DEF TakeBack, Emit, Announces, EventsStay
<1>4. CASE Tick
  BY <1>4, TimeAssumption DEF Tick, Announces, EventsStay
<1>5. ASSUME NEW w \in Workers, Cancel(w) PROVE Announces
  <2>1. PICK s \in toCancel[w] :
          \/ UNCHANGED <<truth, event>>
          \/ /\ truth[s].status # "canceled"
             /\ truth' = [truth EXCEPT ![s].status = "canceled"]
             /\ \E e \in Events : Emit(e, "subscription", s, now)
    BY <1>5 DEF Cancel
  <2>2. now' = now
    BY <1>5 DEF Cancel
  <2>3. CASE UNCHANGED <<truth, event>>
    BY <2>2, <2>3 DEF Announces, EventsStay
  <2>4. CASE /\ truth[s].status # "canceled"
             /\ truth' = [truth EXCEPT ![s].status = "canceled"]
             /\ \E e \in Events : Emit(e, "subscription", s, now)
    <3>1. PICK e \in Events : Emit(e, "subscription", s, now)
      BY <2>4
    <3>2. truth[s] \in Snapshot
      BY DEF Sound
    <3> DEFINE new == [truth[s] EXCEPT !.status = "canceled"]
    <3>3. truth' = [truth EXCEPT ![s] = new]
      BY <2>4, <3>2 DEF Snapshot
    <3>4. s \in Subs /\ "subscription" \in Projecting
      BY DEF Projecting
    <3> HIDE DEF new
    <3>5. QED
      BY <1>e, <2>2, <2>4, <3>1, <3>3, <3>4
  <2>5. QED
    BY <2>1, <2>3, <2>4
<1>6. CASE UNCHANGED vars
  BY <1>6 DEF vars, stripe, Announces, EventsStay
<1>7. QED
  BY <1>1, <1>2, <1>3, <1>4, <1>5, <1>6 DEF Stripe

\* As long as an event is the newest, its subscription does not change.
LEMMA NewestStays ==
  ASSUME TypeInv, Dated, Announces, TypeOK', NEW s \in Subs, NEW e \in Emitted, Newest(e, s)'
  PROVE  Newest(e, s) /\ truth'[s] = truth[s]
<1> USE DEF TypeInv, TypeOK
<1>1. \A f \in Emitted : f \in Emitted' /\ event'[f] = event[f]
  BY DEF Announces, EventsStay, Emitted
<1>2. Newest(e, s)
  BY <1>1 DEF Newest, Concerns
<1>3. truth'[s] = truth[s]
  <2> SUFFICES ASSUME truth'[s] # truth[s] PROVE FALSE
    OBVIOUS
  <2>1. PICK f \in Events : /\ event[f] = NoEvent /\ event'[f] # NoEvent
                            /\ event'[f].kind \in Projecting /\ event'[f].sub = s
    BY DEF Announces
  <2>2. f \in Emitted' \ {e} /\ event'[f].created = now
    BY <2>1 DEF Announces, Emitted
  <2>3. event'[f].created < event'[e].created
    BY <2>1, <2>2 DEF Newest, Concerns
  <2>4. event'[e] = event[e] /\ event[e].created <= now /\ event[e].created \in Time
    BY <1>1 DEF Dated, Emitted, Event
  <2>5. QED
    BY <2>2, <2>3, <2>4 DEF Time
<1>4. QED
  BY <1>2, <1>3

\* What changes at Stripe, by itself or because a function cancels.
LEMMA OutsideOrder ==
  ASSUME ConvergeInv, TypeInv', Announces,
         UNCHANGED <<foreign, row, state, pc, job, target, read>>
  PROVE  OrderInv' /\ NewestEventWins' /\ EndRowInv'
<1> USE DEF ConvergeInv, AckInv, OrderInv, TypeInv, TypeOK
<1>1. \A f \in Emitted : f \in Emitted' /\ event'[f] = event[f]
  BY DEF Announces, EventsStay, Emitted
<1>2. Dated'
  <2>1. ASSUME NEW f \in Emitted'
        PROVE  1 <= event'[f].created /\ event'[f].created <= now'
    <3>1. CASE f \in Emitted
      BY <1>1, <3>1 DEF Dated, Announces, Time, Emitted, Event
    <3>2. CASE f \notin Emitted
      BY <3>2 DEF Dated, Announces, Emitted
    <3>3. QED
      BY <3>1, <3>2
  <2>2. 1 <= now'
    BY DEF Dated, Announces, Time
  <2>3. QED
    BY <2>1, <2>2 DEF Dated
<1>n. ASSUME NEW c \in Emitted', c \notin Emitted
      PROVE  /\ event'[c].created = now
             /\ event'[c].says = truth'[event'[c].sub].status
             /\ \A f \in Emitted : event[f].created <= event'[c].created
  BY <1>n DEF Announces, Emitted, Dated
<1>3. EndInv'
  <2>1. ASSUME NEW s \in Subs, truth[s].status = "canceled" PROVE truth'[s].status = "canceled"
    BY <2>1 DEF Announces
  <2>2. ASSUME NEW s \in Subs, NEW c \in Emitted', Ends(c, s)'
        PROVE  /\ truth'[s].status = "canceled"
               /\ \A w \in Workers :
                    /\ pc[w] = "projecting"
                    /\ target[w] = s
                    /\ job[w].event = c \/ event'[c].created < event'[job[w].event].created
                    => read[w].status = "canceled"
    <3>1. CASE c \in Emitted
      <4>1. Ends(c, s)
        BY <1>1, <2>2, <3>1 DEF Ends
      <4>2. \A w \in Workers : pc[w] = "projecting" => job[w].event \in Emitted
        BY DEF Sound, Emitted, EventOf
      <4>3. QED
        BY <1>1, <2>1, <3>1, <4>1, <4>2 DEF EndInv
    <3>2. CASE c \notin Emitted
      <4>1. truth'[s].status = "canceled"
        BY <1>n, <2>2, <3>2 DEF Ends
      <4>2. ASSUME NEW w \in Workers, pc[w] = "projecting",
                   job[w].event = c \/ event'[c].created < event'[job[w].event].created
            PROVE  FALSE
        <5>1. job[w].event \in Emitted
          BY <4>2 DEF Sound, Emitted, EventOf
        <5>2. event[job[w].event].created <= event'[c].created
          BY <1>n, <3>2, <5>1
        <5>3. event[job[w].event].created \in Int /\ event'[c].created \in Int
          BY <1>n, <3>2, <5>1 DEF Emitted, Event, Time
        <5>4. QED
          BY <1>1, <3>2, <4>2, <5>1, <5>2, <5>3
      <4>3. QED
        BY <4>1, <4>2
    <3>3. QED
      BY <3>1, <3>2
  <2>3. QED
    BY <2>2 DEF EndInv, Ends, Emitted
<1>4. StampInv'
  BY <1>1 DEF StampInv, Initial, StampedBy, Concerns
<1>5. MemoryInv'
  BY DEF MemoryInv
<1>6. AnswerInv'
  <2>1. ASSUME NEW w \in Workers, pc[w] = "projecting", target[w] \in Subs,
               Newest(job[w].event, target[w])'
        PROVE  read[w] = truth'[target[w]]
    <3>1. job[w].event \in Emitted
      BY <2>1 DEF Sound, Emitted, EventOf
    <3>2. Newest(job[w].event, target[w]) /\ truth'[target[w]] = truth[target[w]]
      BY <2>1, <3>1, NewestStays
    <3>3. QED
      BY <2>1, <3>2 DEF AnswerInv
  <2>2. QED
    BY <2>1 DEF AnswerInv, Newest, Concerns, Emitted
<1>7. NewestEventWins'
  <2>1. ASSUME NEW s \in Subs \ foreign, NEW e \in Emitted', event'[e].kind \in Projecting,
               Newest(e, s)', state[e] \in Processed
        PROVE  row[s] = [status |-> truth'[s].status, stamp |-> event'[e].created,
                         start |-> truth'[s].start]
    <3>1. e \in Emitted
      BY <2>1 DEF DoneInv, Emitted
    <3>2. Newest(e, s) /\ truth'[s] = truth[s] /\ event'[e] = event[e]
      BY <1>1, <2>1, <3>1, NewestStays
    <3>3. QED
      BY <2>1, <3>1, <3>2 DEF NewestEventWins
  <2>2. QED
    BY <2>1 DEF NewestEventWins
<1>8. EndRowInv'
  <2>1. ASSUME NEW s \in Subs \ foreign, NEW c \in Emitted', Closes(c, s)'
        PROVE  /\ row[s] # NoRow /\ event'[c].created <= row[s].stamp => row[s].status \in Closed
               /\ state[c] \in Processed => row[s] # NoRow /\ event'[c].created <= row[s].stamp
    <3>1. CASE c \in Emitted
      <4>1. Closes(c, s)
        BY <1>1, <2>1, <3>1 DEF Closes, Concerns
      <4>2. QED
        BY <1>1, <2>1, <3>1, <4>1 DEF EndRowInv
    <3>2. CASE c \notin Emitted
      <4>1. state[c] \notin Processed
        BY <2>1, <3>2 DEF DoneInv, Emitted
      <4>2. ASSUME row[s] # NoRow, event'[c].created <= row[s].stamp PROVE FALSE
        <5>0. event'[c].created = now /\ 1 <= now /\ now \in Int
          BY <1>n, <3>2 DEF Dated, Time
        <5>1. ~Initial(s)
          <6>1. SUFFICES ASSUME row[s].stamp = 0 PROVE FALSE
            BY DEF Initial
          <6>2. now <= 0
            BY <4>2, <5>0, <6>1
          <6>3. QED
            BY <5>0, <6>2
        <5>2. PICK f \in Events : StampedBy(f, s)
          BY <4>2, <5>1 DEF StampInv
        <5>3. f \in Emitted' \ {c} /\ Concerns(f, s)' /\ event'[f] = event[f]
          BY <1>1, <3>2, <5>2 DEF StampedBy, Concerns
        <5>4. event[f].created # event'[c].created
          BY <2>1, <5>3 DEF Closes
        <5>5. /\ event[f].created <= event'[c].created
              /\ event[f].created = row[s].stamp
              /\ event[f].created \in Int /\ event'[c].created \in Int
          BY <1>n, <3>2, <5>2 DEF StampedBy, Emitted, Event, Time
        <5>6. event'[c].created <= event[f].created
          BY <4>2, <5>5
        <5>7. QED
          BY <5>4, <5>5, <5>6, Ordered
      <4>3. QED
        BY <4>1, <4>2
    <3>3. QED
      BY <3>1, <3>2
  <2>2. QED
    BY <2>1 DEF EndRowInv, Closes, Emitted, Concerns
<1>9. QED
  BY <1>2, <1>3, <1>4, <1>5, <1>6, <1>7, <1>8

\* The steps of a function that ask, read or answer.
LEMMA AskingOrder ==
  ASSUME ConvergeInv, NEW w \in Workers, Step(w),
         ~Cancel(w), ~ProjectSubscription(w), ~ProjectFinancial(w)
  PROVE  OrderInv' /\ NewestEventWins' /\ EndRowInv'
<1> USE DEF ConvergeInv, AckInv, OrderInv, TypeInv, TypeOK, stripe, tables, memory
<1>1. UNCHANGED <<now, foreign, truth, event, row>>
  BY DEF Step, Deliver, Replay, Begin, Retrieve, CheckDone, ListLive, AllCanceled, PickNewest,
         Capture, Fail
<1>2. \A e \in Events : state'[e] \in Processed <=> state[e] \in Processed
  <2>1. CASE Fail(w)
    BY <2>1 DEF Fail, RecordFailed, Processed, Retryable, Sound, Working
  <2>2. CASE ~Fail(w)
    BY <2>2 DEF Step, Deliver, Replay, Begin, Retrieve, CheckDone, ListLive, AllCanceled,
                PickNewest, Capture
  <2>3. QED
    BY <2>1, <2>2
<1>3. Dated'
  BY <1>1 DEF Dated, Emitted
<1>4. StampInv'
  BY <1>1, <1>2 DEF StampInv, Initial, StampedBy, Concerns, Emitted
<1>5. NewestEventWins' /\ EndRowInv'
  BY <1>1, <1>2 DEF NewestEventWins, EndRowInv, Closes, Newest, Concerns, Emitted
<1>6. /\ target'[w] = Nothing => read'[w] = NoSub
      /\ pc'[w] \in {"free", "checking", "listing", "cancelling", "picking"} => target'[w] = Nothing
      /\ pc'[w] = "projecting" /\ target'[w] \in Subs => read'[w] = truth[target'[w]]
  <2> USE DEF MemoryInv, Go
  <2>n. Nothing \notin Subs
    BY ScopeAssumption DEF Nothing
  <2>1. ASSUME NEW e \in Emitted, NEW replay \in BOOLEAN, Begin(w, e, replay)
        PROVE  /\ target'[w] = Nothing => read'[w] = NoSub
               /\ pc'[w] \in {"free", "checking", "listing", "cancelling", "picking"}
                    => target'[w] = Nothing
               /\ pc'[w] = "projecting" /\ target'[w] \in Subs => read'[w] = truth[target'[w]]
    <3>1. event[e].kind \in Kind
      BY DEF Emitted, Event
    <3>2. event[e].kind \in Projecting => FirstStep(event[e].kind) = "retrieving"
      BY DEF FirstStep, Projecting
    <3>3. /\ pc'[w] = FirstStep(event[e].kind)
          /\ read'[w] = NoSub
          /\ target'[w] = IF event[e].kind \in Projecting THEN event[e].sub ELSE Nothing
      BY <2>1 DEF Begin
    <3>4. QED
      BY <2>n, <3>2, <3>3
  <2>2. CASE Deliver(w) \/ Replay(w)
    BY <2>1, <2>2 DEF Deliver, Replay
  <2>3. CASE Retrieve(w)
    BY <2>3, <2>n DEF Retrieve, Sound
  <2>4. CASE CheckDone(w) \/ ListLive(w) \/ AllCanceled(w)
    BY <2>4, <2>n DEF CheckDone, ListLive, AllCanceled
  <2>5. CASE PickNewest(w)
    BY <2>5, <2>n DEF PickNewest
  <2>6. CASE Capture(w) \/ Fail(w)
    BY <2>6 DEF Capture, Fail, Free
  <2>7. QED
    BY <2>2, <2>3, <2>4, <2>5, <2>6 DEF Step
<1>7. MemoryInv' /\ AnswerInv'
  <2>1. \A v \in Workers \ {w} : Same(v)
    BY StepIsOwn
  <2>2. \A s \in Subs, e \in Events : Newest(e, s)' <=> Newest(e, s)
    BY <1>1 DEF Newest, Concerns, Emitted
  <2>3. MemoryInv'
    BY <1>6, <2>1 DEF MemoryInv, Same
  <2>4. ASSUME NEW v \in Workers, v # w, pc'[v] = "projecting", target'[v] \in Subs,
               Newest(job[v].event, target[v])'
        PROVE  read'[v] = truth'[target'[v]]
    <3>1. Same(v) /\ job[v].event \in Events
      BY <2>1, <2>4 DEF Sound, Same
    <3>2. Newest(job[v].event, target[v])
      BY <2>2, <2>4, <3>1 DEF Same, Newest, Concerns, Emitted
    <3>3. QED
      BY <1>1, <2>4, <3>1, <3>2 DEF Same, AnswerInv
  <2>5. AnswerInv'
    BY <1>1, <1>6, <2>1, <2>4 DEF AnswerInv, Same, Newest, Concerns, Emitted
  <2>6. QED
    BY <2>3, <2>5
<1>8. EndInv'
  <2>1. \A v \in Workers \ {w} : Same(v)
    BY StepIsOwn
  <2>2. \A s \in Subs, c \in Emitted : Ends(c, s) => truth[s].status = "canceled"
    BY DEF EndInv
  <2>3. ASSUME NEW s \in Subs, NEW c \in Emitted, Ends(c, s), NEW v \in Workers,
               pc'[v] = "projecting", target'[v] = s,
               job'[v].event = c \/ event[c].created < event[job'[v].event].created
        PROVE  read'[v].status = "canceled"
    <3>1. CASE v = w
      BY <1>6, <2>2, <2>3, <3>1
    <3>2. CASE v # w
      BY <2>1, <2>3, <3>2 DEF Same, EndInv
    <3>3. QED
      BY <3>1, <3>2
  <2>4. QED
    BY <1>1, <2>2, <2>3 DEF EndInv, Ends, Emitted
<1>9. QED
  BY <1>3, <1>4, <1>5, <1>7, <1>8

\* What a projection does to a row, if it changes it.
LEMMA ProjectedRow ==
  ASSUME TypeInv, NEW w \in Workers, ProjectSubscription(w) \/ ProjectFinancial(w),
         NEW s \in Subs, row'[s] # row[s]
  PROVE  LET e == job[w].event
         IN  /\ state[e] \in Retryable
             /\ Concerns(e, s)
             /\ row[s] # NoRow => row[s].stamp <= event[e].created
             /\ row'[s].stamp = event[e].created
<1> USE DEF TypeInv, TypeOK, tables
<1>1. pc[w] = "projecting" /\ EventOf(w) \in Event
  BY DEF ProjectSubscription, ProjectFinancial, Sound, EventOf
<1>2. CASE ProjectSubscription(w)
  <2>1. /\ EventOf(w).kind \in Projecting
        /\ target[w] = EventOf(w).sub
    BY <1>1, <1>2 DEF ProjectSubscription, Sound
  <2>2. /\ state[job[w].event] \in Retryable
        /\ Wins(target[w], EventOf(w), read[w])
        /\ row' = [row EXCEPT ![target[w]] =
                    [status |-> read[w].status, stamp |-> EventOf(w).created,
                     start |-> read[w].start]]
    BY <1>2 DEF ProjectSubscription
  <2>3. s = target[w]
    BY <2>2
  <2>4. row[s] # NoRow => row[s].stamp <= EventOf(w).created
    BY <1>1, <2>2, <2>3 DEF Wins, Row, Event, Time
  <2>5. row'[s].stamp = EventOf(w).created
    BY <2>2, <2>3
  <2>6. QED
    BY <2>1, <2>2, <2>3, <2>4, <2>5 DEF Concerns, EventOf
<1>3. CASE ProjectFinancial(w)
  <2>1. state[job[w].event] \in Retryable /\ EventOf(w).kind \notin Projecting
    BY <1>3 DEF ProjectFinancial
  <2>2. PICK status \in Override(w) :
          row' = [t \in Subs |->
                    IF t \in Overridden(w)
                      THEN [row[t] EXCEPT !.status = status, !.stamp = EventOf(w).created]
                      ELSE row[t]]
    BY <1>3 DEF ProjectFinancial
  <2>3. s \in Overridden(w)
    BY <2>2
  <2>4. row'[s] = [row[s] EXCEPT !.status = status, !.stamp = EventOf(w).created]
    BY <2>2, <2>3
  <2>5. row[s] \in Row /\ row[s].stamp <= EventOf(w).created
    BY <2>3 DEF Overridden
  <2>6. row'[s].stamp = EventOf(w).created
    BY <2>4, <2>5 DEF Row
  <2>7. QED
    BY <2>1, <2>5, <2>6 DEF Concerns, EventOf
<1>4. QED
  BY <1>2, <1>3

\* The newest event of a subscription, when it is processed, writes the row.
LEMMA NewestWins ==
  ASSUME ConvergeInv, NEW s \in Subs \ foreign, NEW e \in Emitted, state[e] \in Retryable,
         Newest(e, s)
  PROVE  Wins(s, event[e], truth[s])
<1> USE DEF ConvergeInv, AckInv, OrderInv, TypeInv, TypeOK
<1> SUFFICES ASSUME row[s] # NoRow PROVE Wins(s, event[e], truth[s])
  BY DEF Wins
<1>1. event[e].created \in Time
  BY DEF Emitted, Event
<1>2. ASSUME NEW f \in Events, StampedBy(f, s) PROVE row[s].stamp < event[e].created
  BY <1>2 DEF StampedBy, Newest, Processed, Retryable
<1>3. CASE Initial(s)
  <2>1. row[s].stamp = 0 /\ 1 <= event[e].created
    BY <1>3 DEF Initial, Dated
  <2>2. QED
    BY <1>1, <2>1 DEF Wins, Time
<1>4. QED
  BY <1>2, <1>3 DEF StampInv, Wins

\* The status that a projection gives a row, if it changes it.
LEMMA ProjectedStatus ==
  ASSUME TypeInv, MemoryInv, NEW w \in Workers, ProjectSubscription(w) \/ ProjectFinancial(w),
         NEW s \in Subs, row'[s] # row[s]
  PROVE  /\ row'[s] # NoRow
         /\ \/ target[w] = s /\ row'[s].status = read[w].status
            \/ row'[s].status = "refunded"
            \/ EventOf(w).kind = "dispute"
<1> USE DEF TypeInv, TypeOK, tables
<1>1. pc[w] = "projecting" /\ EventOf(w) \in Event
  BY DEF ProjectSubscription, ProjectFinancial, Sound, EventOf
<1>2. CASE ProjectSubscription(w)
  <2>1. read[w] \in Snapshot
    BY <1>1, <1>2 DEF ProjectSubscription, Sound
  <2> DEFINE new == [status |-> read[w].status, stamp |-> EventOf(w).created,
                     start |-> read[w].start]
  <2>2. row' = [row EXCEPT ![target[w]] = new]
    BY <1>2 DEF ProjectSubscription
  <2>3. new.status = read[w].status /\ new # NoRow
    BY <2>1 DEF NoRow, Snapshot, StripeStatus
  <2> HIDE DEF new
  <2>4. QED
    BY <2>2, <2>3
<1>3. CASE ProjectFinancial(w)
  <2>1. PICK status \in Override(w) :
          row' = [t \in Subs |->
                    IF t \in Overridden(w)
                      THEN [row[t] EXCEPT !.status = status, !.stamp = EventOf(w).created]
                      ELSE row[t]]
    BY <1>3 DEF ProjectFinancial
  <2>2. s \in Overridden(w)
    BY <2>1
  <2>3. row'[s] = [row[s] EXCEPT !.status = status, !.stamp = EventOf(w).created]
    BY <2>1, <2>2
  <2>4. row[s] \in Row /\ target[w] \in {Nothing, s}
    BY <2>2 DEF Overridden
  <2>5. row'[s].status = status
    BY <2>3, <2>4 DEF Row
  <2>6. \/ status = "refunded"
        \/ EventOf(w).kind = "dispute" /\ status = "past_due"
        \/ status = read[w].status /\ status # "none"
    BY <2>1 DEF Override
  <2>7. status = read[w].status /\ status # "none" => target[w] = s
    BY <2>4 DEF MemoryInv, NoSub
  <2>8. row'[s] # NoRow
    BY <2>5, <2>6 DEF NoRow
  <2>9. QED
    BY <2>5, <2>6, <2>7, <2>8
<1>4. QED
  BY <1>2, <1>3

\* A projection leaves a row closed after a lone end, and that of the end closes it.
LEMMA ProjectionCloses ==
  ASSUME ConvergeInv, NEW w \in Workers, ProjectSubscription(w) \/ ProjectFinancial(w),
         NEW s \in Subs \ foreign, NEW c \in Emitted, Closes(c, s)
  PROVE  /\ row'[s] # NoRow /\ event[c].created <= row'[s].stamp => row'[s].status \in Closed
         /\ state'[c] \in Processed => row'[s] # NoRow /\ event[c].created <= row'[s].stamp
<1> DEFINE e == job[w].event
<1> USE DEF ConvergeInv, AckInv, OrderInv, TypeInv, TypeOK
<1>1. /\ e \in Emitted
      /\ \A f \in Events \ {e} : state'[f] = state[f]
  BY ProjectionLedgers DEF Emitted
<1>2. pc[w] = "projecting" /\ EventOf(w) = event[e]
  BY DEF ProjectSubscription, ProjectFinancial, EventOf
<1>3. event[e].created \in Int /\ event[c].created \in Int
  BY <1>1 DEF Emitted, Event, Time
<1>4. Ends(c, s)
  BY DEF Closes, Ends
<1>5. ASSUME target[w] = s, e = c \/ event[c].created < event[e].created
      PROVE  read[w].status = "canceled"
  BY <1>2, <1>4, <1>5 DEF EndInv
<1>6. CASE row'[s] # row[s]
  <2>1. /\ state[e] \in Retryable
        /\ Concerns(e, s)
        /\ row[s] # NoRow => row[s].stamp <= event[e].created
        /\ row'[s].stamp = event[e].created
    BY <1>6, ProjectedRow
  <2>2. event[c].created <= event[e].created => e = c \/ event[c].created < event[e].created
    <3>1. e # c => event[e].created # event[c].created
      BY <1>1, <2>1 DEF Closes
    <3>2. QED
      BY <1>3, <3>1, Ordered
  <2>3. event[c].created <= event[e].created => event[e].kind # "dispute"
    <3>1. event[e].kind = "dispute" => event[e].created < event[c].created
      BY <1>1 DEF Closes
    <3>2. QED
      BY <1>3, <3>1, Ordered
  <2>4. event[c].created <= row'[s].stamp => row'[s].status \in Closed
    BY <1>2, <1>5, <1>6, <2>1, <2>2, <2>3, ProjectedStatus DEF Closed
  <2>5. row'[s] # NoRow
    BY <1>6, ProjectedStatus
  <2>6. ASSUME state'[c] \in Processed PROVE event[c].created <= row'[s].stamp
    <3>1. CASE c = e
      BY <1>3, <2>1, <3>1
    <3>2. CASE c # e
      <4>1. row[s] # NoRow /\ event[c].created <= row[s].stamp
        BY <1>1, <2>6, <3>2 DEF EndRowInv, Emitted
      <4>2. row[s].stamp \in Int
        BY <4>1 DEF Row, Time
      <4>3. QED
        BY <1>3, <2>1, <4>1, <4>2
    <3>3. QED
      BY <3>1, <3>2
  <2>7. QED
    BY <2>4, <2>5, <2>6
<1>7. CASE row'[s] = row[s]
  <2>1. ASSUME state'[c] \in Processed, state[c] \notin Processed
        PROVE  row[s] # NoRow /\ event[c].created <= row[s].stamp
    <3>1. c = e /\ state[e] \in Retryable
      BY <1>1, <2>1 DEF Emitted
    <3>2. event[e].kind \in Projecting /\ event[e].sub = s
      BY <3>1 DEF Closes
    <3>3. ProjectSubscription(w) /\ target[w] = s
      BY <1>2, <3>2 DEF ProjectFinancial, Sound
    <3>4. read[w].status = "canceled" /\ read[w] \in Snapshot
      BY <1>2, <1>5, <3>1, <3>2, <3>3 DEF Sound
    <3> DEFINE new == [status |-> read[w].status, stamp |-> event[e].created,
                       start |-> read[w].start]
    <3>5. row' = IF Wins(s, event[e], read[w]) THEN [row EXCEPT ![s] = new] ELSE row
      BY <1>2, <3>1, <3>3 DEF ProjectSubscription
    <3>6. new.stamp = event[e].created /\ new # NoRow
      BY <3>4 DEF NoRow
    <3>7. CASE Wins(s, event[e], read[w])
      <4>1. row'[s] = new
        BY <3>5, <3>7
      <4>2. QED
        BY <1>3, <1>7, <3>1, <3>6, <4>1
    <3>8. CASE ~Wins(s, event[e], read[w])
      <4>1. row[s] # NoRow /\ ~(row[s].stamp < event[e].created)
        BY <3>8 DEF Wins
      <4>2. row[s].stamp \in Int
        BY <4>1 DEF Row, Time
      <4>3. QED
        BY <1>3, <3>1, <4>1, <4>2
    <3>9. QED
      BY <3>7, <3>8
  <2>2. QED
    BY <1>7, <2>1 DEF EndRowInv
<1>8. QED
  BY <1>6, <1>7

LEMMA ProjectionOrder ==
  ASSUME ConvergeInv, NEW w \in Workers, ProjectSubscription(w) \/ ProjectFinancial(w)
  PROVE  OrderInv' /\ NewestEventWins' /\ EndRowInv'
<1> DEFINE e == job[w].event
<1> USE DEF ConvergeInv, AckInv, OrderInv, TypeInv, TypeOK, stripe, tables, memory
<1>1. UNCHANGED <<now, foreign, truth, event, job, target, read>>
  BY DEF ProjectSubscription, ProjectFinancial
<1>2. /\ e \in Emitted
      /\ state'[e] \in Processed
      /\ \A f \in Events \ {e} : state'[f] = state[f]
  BY ProjectionLedgers DEF Emitted
<1>3. pc[w] = "projecting" /\ pc' = [pc EXCEPT ![w] = "capturing"] /\ EventOf(w) = event[e]
  BY DEF ProjectSubscription, ProjectFinancial, Go, EventOf
<1>4. Dated'
  BY <1>1 DEF Dated, Emitted
<1>5. MemoryInv' /\ AnswerInv' /\ EndInv'
  BY <1>1, <1>3 DEF MemoryInv, AnswerInv, EndInv, Ends, Newest, Concerns, Emitted
<1>6. StampInv'
  <2>1. ASSUME NEW s \in Subs, row'[s] # NoRow
        PROVE  Initial(s)' \/ \E f \in Events : StampedBy(f, s)'
    <3>1. CASE row'[s] = row[s]
      BY <1>1, <1>2, <2>1, <3>1 DEF StampInv, Initial, StampedBy, Concerns, Emitted
    <3>2. CASE row'[s] # row[s]
      <4>1. Concerns(e, s) /\ row'[s].stamp = event[e].created
        BY <3>2, ProjectedRow
      <4>2. PICK f \in Events : f = e
        BY <1>2 DEF Emitted
      <4>3. StampedBy(f, s)'
        BY <1>1, <1>2, <4>1, <4>2 DEF StampedBy, Concerns, Emitted
      <4>4. QED
        BY <4>3
    <3>3. QED
      BY <3>1, <3>2
  <2>2. QED
    BY <2>1 DEF StampInv
<1>7. ASSUME NEW s \in Subs, NEW g \in Emitted, g # e, Newest(g, s), row'[s] # row[s]
      PROVE  /\ event[e].created < event[g].created
             /\ row[s] # NoRow => row[s].stamp < event[g].created
             /\ row'[s].stamp < event[g].created
  <2>1. /\ Concerns(e, s)
        /\ row[s] # NoRow => row[s].stamp <= event[e].created
        /\ row'[s].stamp = event[e].created
    BY <1>7, ProjectedRow
  <2>2. event[e].created < event[g].created
    BY <1>2, <1>7, <2>1 DEF Newest
  <2>3. row[s] # NoRow => row[s].stamp < event[g].created
    BY <1>2, <1>7, <2>1, <2>2 DEF Row, Time, Emitted, Event
  <2>4. QED
    BY <2>1, <2>2, <2>3
<1>8. NewestEventWins'
  <2>1. ASSUME NEW s \in Subs \ foreign, NEW g \in Emitted, event[g].kind \in Projecting,
               Newest(g, s), state'[g] \in Processed
        PROVE  row'[s] = [status |-> truth[s].status, stamp |-> event[g].created,
                          start |-> truth[s].start]
    <3>1. CASE state[g] \in Processed
      <4>1. row[s] = [status |-> truth[s].status, stamp |-> event[g].created,
                      start |-> truth[s].start]
        BY <2>1, <3>1 DEF NewestEventWins
      <4>2. row[s] # NoRow /\ row[s].stamp = event[g].created
        <5>1. truth[s] \in Snapshot
          BY <2>1 DEF Newest, SubsExist
        <5>2. QED
          BY <4>1, <5>1 DEF NoRow, Snapshot, StripeStatus
      <4>3. g # e => row'[s] = row[s]
        BY <1>7, <2>1, <4>2 DEF Emitted, Event, Time
      <4>4. g = e => row'[s] = row[s]
        BY <3>1, ProjectedRow DEF Processed, Retryable
      <4>5. QED
        BY <4>1, <4>3, <4>4
    <3>2. CASE state[g] \notin Processed
      <4>1. g = e /\ state[e] \in Retryable
        BY <1>2, <2>1, <3>2 DEF Emitted
      <4>2. ProjectSubscription(w)
        BY <1>3, <2>1, <4>1 DEF ProjectFinancial
      <4>3. target[w] = s
        BY <1>3, <2>1, <4>1 DEF Sound, Newest
      <4>4. read[w] = truth[s]
        BY <1>3, <2>1, <4>1, <4>3 DEF AnswerInv
      <4>5. Wins(s, event[e], read[w])
        BY <2>1, <4>1, <4>4, NewestWins
      <4>6. row' = [row EXCEPT ![s] =
                     [status |-> read[w].status, stamp |-> event[e].created,
                      start |-> read[w].start]]
        BY <1>3, <4>1, <4>2, <4>3, <4>5 DEF ProjectSubscription
      <4>7. QED
        BY <4>1, <4>4, <4>6
    <3>3. QED
      BY <3>1, <3>2
  <2>2. QED
    BY <1>1, <2>1 DEF NewestEventWins, Newest, Concerns, Emitted
<1>9. EndRowInv'
  BY <1>1, ProjectionCloses DEF EndRowInv, Closes, Concerns, Emitted
<1>10. QED
  BY <1>4, <1>5, <1>6, <1>8, <1>9

LEMMA NextConverges == ConvergeInv /\ [Next]_vars => ConvergeInv'
<1> SUFFICES ASSUME ConvergeInv, [Next]_vars PROVE ConvergeInv'
  OBVIOUS
<1>1. AckInv'
  BY NextType, NextDone DEF ConvergeInv, AckInv
<1>2. CASE \/ Stripe
           \/ \E w \in Workers : Cancel(w)
           \/ UNCHANGED vars
  <2>1. Announces
    BY <1>2, StripeAnnounces DEF ConvergeInv, AckInv
  <2>2. UNCHANGED <<foreign, row, state, pc, job, target, read>>
    BY <1>2, StripeExtends DEF ConvergeInv, AckInv, Cancel, vars, stripe, tables, memory
  <2>3. QED
    BY <1>1, <2>1, <2>2, OutsideOrder DEF ConvergeInv, AckInv
<1>3. ASSUME NEW w \in Workers, Step(w), ~Cancel(w) PROVE ConvergeInv'
  BY <1>1, <1>3, AskingOrder, ProjectionOrder DEF ConvergeInv
<1>4. QED
  BY <1>2, <1>3 DEF Next

LEMMA InitConverges == Init => ConvergeInv
<1> SUFFICES ASSUME Init PROVE ConvergeInv
  OBVIOUS
<1> USE ScopeAssumption DEF Init
<1>1. Emitted = {} /\ AckInv
  BY InitType DEF Emitted, AckInv, DoneInv, Processed
<1>2. Dated /\ NewestEventWins /\ EndInv /\ EndRowInv
  BY <1>1 DEF Dated, NewestEventWins, EndInv, EndRowInv
<1>3. StampInv
  BY DEF StampInv, Initial
<1>4. MemoryInv /\ AnswerInv
  BY DEF MemoryInv, AnswerInv
<1>5. QED
  BY <1>1, <1>2, <1>3, <1>4 DEF ConvergeInv, OrderInv

\* Out-of-order deliveries converge: once the newest event of a subscription is
\* processed its row is what Stripe has, for any number of events and functions
\* (the WHERE clause of the upsert in applyStripeSubscription).
THEOREM NewestDecides == Spec => []NewestEventWins
<1>1. ConvergeInv => NewestEventWins
  BY DEF ConvergeInv
<1>2. QED
  BY <1>1, InitConverges, NextConverges, PTL DEF Spec

\* A subscription that has ended is not opened again by an answer that Stripe gave
\* before its end, by a dispute won at any other time or by a late event, for any
\* number of events, subscriptions and functions (the ordering clauses of
\* applyStripeSubscription and recordStripeFinancialProjection).
THEOREM CancellationsStand == Spec => []CancellationStands
<1>1. ConvergeInv => CancellationStands
  BY DEF ConvergeInv, EndRowInv, CancellationStands
<1>2. QED
  BY <1>1, InitConverges, NextConverges, PTL DEF Spec

-----------------------------------------------------------------------------
(* A checkout ends with a live row *)

\* The events of a checkout that announce that it was paid, and the others.
Paid(s) == {e \in EventsOf(s) : event[e].says = "active"}
Unpaid(s) == {e \in EventsOf(s) : event[e].says = "expired"}

\* A checkout only goes forward at Stripe: it starts, it is paid and stays so, and
\* no event of the unpaid start is newer than one of a payment.
PaidAtStripe(s) ==
  /\ truth[s].status \in {"none", "expired", "active"}
  /\ Paid(s) # {} => truth[s].status = "active"
  /\ truth[s].status = "active" => s \in Known \/ Paid(s) # {}
  /\ s \in Known => truth[s].status = "active" /\ Unpaid(s) = {}
  /\ \A x \in Unpaid(s), a \in Paid(s) : event[x].created <= event[a].created

\* Who works on the event of a payment asked Stripe after it.
PaidInMemory(s) ==
  \A w \in Workers :
    pc[w] = "projecting" /\ job[w].event \in EventsOf(s) =>
      /\ read[w].status \in {"expired", "active"}
      /\ job[w].event \in Paid(s) => read[w].status = "active"

\* Once a payment is processed the row is live, and not older.
PaidInRow(s) ==
  /\ s \in Known => row[s] # NoRow
  /\ \A a \in Paid(s) : state[a] \in Processed =>
       row[s] # NoRow /\ row[s].status = "active" /\ row[s].stamp >= event[a].created

CheckoutInv ==
  \A s \in Subs \ foreign :
    InCheckout(s) => PaidAtStripe(s) /\ PaidInMemory(s) /\ PaidInRow(s)

\* No event of another customer or subscription, and no refund or dispute, is an
\* event of a checkout.
LEMMA EventsOfCheckout ==
  ASSUME TypeInv, NEW s \in Subs, InCheckout(s), NEW e \in EventsOf(s)
  PROVE  /\ e \in Emitted
         /\ event[e] \in Event
         /\ event[e].kind \in Projecting
         /\ event[e].sub = s
         /\ truth[s] # NoSub
         /\ e \in Paid(s) \/ e \in Unpaid(s)
BY DEF TypeInv, TypeOK, InCheckout, OwnEventsOnly, EventsOf, Concerns, SubsExist, Emitted,
       Paid, Unpaid

\* What is a checkout after a step was one before it: events are never taken back.
LEMMA CheckoutBefore ==
  ASSUME TypeInv, EventsStay, NEW s \in Subs, InCheckout(s)'
  PROVE  /\ InCheckout(s)
         /\ \A e \in EventsOf(s) : e \in EventsOf(s)' /\ event'[e] = event[e]
         /\ Paid(s) \subseteq Paid(s)' /\ Unpaid(s) \subseteq Unpaid(s)'
<1>1. \A e \in EventsOf(s) : e \in EventsOf(s)' /\ event'[e] = event[e]
  BY DEF EventsStay, EventsOf, Emitted, Concerns
<1>2. QED
  BY <1>1 DEF InCheckout, OwnEventsOnly, Paid, Unpaid

\* What Stripe can do with a subscription that stays a checkout: nothing, or start
\* it or take its money, with one event.
Goes(s) ==
  \/ truth'[s] = truth[s] /\ EventsOf(s)' = EventsOf(s)
  \/ \E e \in Events :
       /\ event[e] = NoEvent
       /\ EventsOf(s)' = EventsOf(s) \cup {e}
       /\ event'[e].created = now
       /\ event'[e].says = truth'[s].status
       /\ \/ truth'[s].status = "active"
          \/ truth'[s].status = "expired" /\ truth[s].status \in {"none", "past_due"}

\* One new event, and what it says to a checkout.
LEMMA EmitInCheckout ==
  ASSUME TypeInv, NEW e \in Events, NEW kind \in Kind, NEW t \in Subs, NEW charge,
         Emit(e, kind, t, charge), NEW s \in Subs, InCheckout(s)'
  PROVE  /\ kind \in Projecting
         /\ t # s => EventsOf(s)' = EventsOf(s)
         /\ t = s => /\ event[e] = NoEvent
                     /\ EventsOf(s)' = EventsOf(s) \cup {e}
                     /\ event'[e].created = now
                     /\ event'[e].says = truth'[s].status
                     /\ truth'[s].status \in {"expired", "active"}
<1> USE DEF TypeInv, TypeOK
<1> DEFINE new == [kind |-> kind, sub |-> t, created |-> now, charge |-> charge,
                   says |-> truth'[t].status]
<1>1. event[e] = NoEvent /\ event' = [event EXCEPT ![e] = new]
  BY DEF Emit
<1>2. new # NoEvent
  BY DEF NoEvent, new, Kind
<1>3. event'[e] = new /\ \A f \in Events \ {e} : event'[f] = event[f]
  BY <1>1
<1>4. Emitted' = Emitted \cup {e} /\ e \notin Emitted
  BY <1>1, <1>2, <1>3 DEF Emitted
<1>5. new.kind = kind /\ new.sub = t /\ new.created = now /\ new.says = truth'[t].status
  BY DEF new
<1>6. e \in EventsOf(s)' <=> kind \notin Projecting \/ t = s
  BY <1>3, <1>4, <1>5 DEF EventsOf, Concerns
<1>7. \A f \in Events \ {e} : f \in EventsOf(s)' <=> f \in EventsOf(s)
  BY <1>3, <1>4 DEF EventsOf, Concerns
<1>8. kind \in Projecting
  BY <1>3, <1>5, <1>6 DEF InCheckout, OwnEventsOnly
<1>9. e \notin EventsOf(s) /\ EventsOf(s) \subseteq Events /\ EventsOf(s)' \subseteq Events
  BY <1>4 DEF EventsOf, Emitted
<1>10. t # s => EventsOf(s)' = EventsOf(s)
  <2> SUFFICES ASSUME t # s PROVE \A f \in Events : f \in EventsOf(s)' <=> f \in EventsOf(s)
    BY <1>9
  <2>1. e \notin EventsOf(s)'
    BY <1>6, <1>8
  <2>2. QED
    BY <1>7, <1>9, <2>1
<1>11. t = s => EventsOf(s)' = EventsOf(s) \cup {e}
  BY <1>6, <1>7, <1>9
<1>12. t = s => truth'[s].status \in {"expired", "active"}
  BY <1>3, <1>5, <1>6 DEF InCheckout
<1>13. QED
  BY <1>1, <1>3, <1>5, <1>8, <1>10, <1>11, <1>12

LEMMA StripeGoes ==
  ASSUME TypeInv, \/ Stripe
                  \/ \E w \in Workers : Cancel(w)
                  \/ UNCHANGED vars,
         NEW s \in Subs, InCheckout(s)'
  PROVE  Goes(s)
<1> USE DEF TypeInv, TypeOK
<1>1. ASSUME NEW t \in Subs, NEW e \in Events, Change(t, e) PROVE Goes(s)
  <2>1. PICK status \in Statuses :
          /\ <<truth[t].status, status>> \in Moves
          /\ truth' = [truth EXCEPT ![t] =
                         [status |-> status,
                          start |-> IF truth[t] = NoSub THEN now ELSE truth[t].start]]
    BY <1>1 DEF Change
  <2>2. Emit(e, "subscription", t, now) /\ "subscription" \in Kind
    BY <1>1 DEF Change, Kind
  <2>3. t # s => truth'[s] = truth[s]
    BY <2>1
  <2>4. t = s => truth'[s].status = status
    BY <2>1
  <2>5. status = "expired" => truth[t].status \in {"none", "past_due"}
    BY <2>1 DEF Moves
  <2>6. QED
    BY <2>2, <2>3, <2>4, <2>5, EmitInCheckout DEF Goes
<1>2. ASSUME NEW t \in Subs, NEW e \in Events, Pay(t, e) PROVE Goes(s)
  <2>1. PICK start : truth' = [truth EXCEPT ![t] = [status |-> "active", start |-> start]]
    BY <1>2 DEF Pay
  <2>2. Emit(e, "invoice", t, now) /\ "invoice" \in Kind
    BY <1>2 DEF Pay, Kind
  <2>3. /\ t # s => truth'[s] = truth[s]
        /\ t = s => truth'[s].status = "active"
    BY <2>1
  <2>4. QED
    BY <2>2, <2>3, EmitInCheckout DEF Goes
<1>3. ASSUME NEW t \in Subs, NEW e \in Events, NEW kind \in TakeBacks, TakeBack(t, e, kind)
      PROVE  Goes(s)
  <2>1. kind \in Kind /\ kind \notin Projecting
    BY ScopeAssumption DEF Kind, Projecting
  <2>2. Emit(e, kind, t, truth[t].start)
    BY <1>3 DEF TakeBack
  <2>3. QED
    BY <2>1, <2>2, EmitInCheckout
<1>4. ASSUME UNCHANGED <<truth, event>> PROVE Goes(s)
  BY <1>4 DEF Goes, EventsOf, Emitted, Concerns
<1>5. ASSUME NEW w \in Workers, Cancel(w) PROVE Goes(s)
  <2>1. PICK t \in toCancel[w] :
          \/ UNCHANGED <<truth, event>>
          \/ /\ truth' = [truth EXCEPT ![t].status = "canceled"]
             /\ \E e \in Events : Emit(e, "subscription", t, now)
    BY <1>5 DEF Cancel
  <2>2. CASE UNCHANGED <<truth, event>>
    BY <1>4, <2>2
  <2>3. CASE /\ truth' = [truth EXCEPT ![t].status = "canceled"]
             /\ \E e \in Events : Emit(e, "subscription", t, now)
    <3>1. PICK e \in Events : Emit(e, "subscription", t, now)
      BY <2>3
    <3>2. t \in Subs /\ truth[t] \in Snapshot
      BY DEF Sound
    <3>3. /\ t # s => truth'[s] = truth[s]
          /\ t = s => truth'[s].status = "canceled"
      BY <2>3, <3>2 DEF Snapshot
    <3>4. QED
      BY <3>1, <3>2, <3>3, EmitInCheckout DEF Goes, Kind
  <2>4. QED
    BY <2>1, <2>2, <2>3
<1>6. CASE Tick \/ UNCHANGED vars
  BY <1>4, <1>6 DEF Tick, vars, stripe
<1>7. QED
  BY <1>1, <1>2, <1>3, <1>5, <1>6 DEF Stripe

LEMMA OutsideCheckout ==
  ASSUME ConvergeInv, CheckoutInv, NEW s \in Subs \ foreign, Announces, InCheckout(s)', Goes(s),
         UNCHANGED <<row, state, pc, job, read>>
  PROVE  PaidAtStripe(s)' /\ PaidInMemory(s)' /\ PaidInRow(s)'
<1> USE DEF ConvergeInv, AckInv, OrderInv, TypeInv, TypeOK
<1>1. /\ InCheckout(s)
      /\ \A e \in EventsOf(s) : e \in EventsOf(s)' /\ event'[e] = event[e]
      /\ Paid(s) \subseteq Paid(s)' /\ Unpaid(s) \subseteq Unpaid(s)'
  BY CheckoutBefore DEF Announces
<1>2. PaidAtStripe(s) /\ PaidInMemory(s) /\ PaidInRow(s)
  BY <1>1 DEF CheckoutInv
<1>3. CASE truth'[s] = truth[s] /\ EventsOf(s)' = EventsOf(s)
  <2>1. Paid(s)' = Paid(s) /\ Unpaid(s)' = Unpaid(s)
    BY <1>1, <1>3 DEF Paid, Unpaid
  <2>2. PaidAtStripe(s)'
    BY <1>1, <1>2, <1>3, <2>1 DEF PaidAtStripe, Paid, Unpaid
  <2>3. PaidInMemory(s)'
    BY <1>2, <1>3, <2>1 DEF PaidInMemory
  <2>4. PaidInRow(s)'
    BY <1>1, <1>2, <2>1 DEF PaidInRow, Paid
  <2>5. QED
    BY <2>2, <2>3, <2>4
<1>4. ASSUME NEW e \in Events,
             event[e] = NoEvent,
             EventsOf(s)' = EventsOf(s) \cup {e},
             event'[e].created = now,
             event'[e].says = truth'[s].status,
             \/ truth'[s].status = "active"
             \/ truth'[s].status = "expired" /\ truth[s].status \in {"none", "past_due"}
      PROVE  PaidAtStripe(s)' /\ PaidInMemory(s)' /\ PaidInRow(s)'
  <2>1. /\ e \notin EventsOf(s)
        /\ state[e] \notin Processed
        /\ \A w \in Workers : pc[w] = "projecting" => job[w].event # e
    BY <1>4 DEF EventsOf, Emitted, DoneInv, Sound, EventOf
  <2>2. \A f \in EventsOf(s) : event[f].created <= now
    BY DEF EventsOf, Dated
  <2>3. CASE truth'[s].status = "active"
    <3>1. Paid(s)' = Paid(s) \cup {e} /\ Unpaid(s)' = Unpaid(s)
      BY <1>1, <1>4, <2>3 DEF Paid, Unpaid
    <3>2. PaidAtStripe(s)'
      BY <1>1, <1>2, <1>4, <2>2, <2>3, <3>1 DEF PaidAtStripe, Paid, Unpaid
    <3>3. PaidInMemory(s)'
      BY <1>2, <1>4, <2>1, <3>1 DEF PaidInMemory
    <3>4. PaidInRow(s)'
      BY <1>1, <1>2, <2>1, <3>1 DEF PaidInRow, Paid
    <3>5. QED
      BY <3>2, <3>3, <3>4
  <2>4. CASE truth'[s].status = "expired" /\ truth[s].status \in {"none", "past_due"}
    <3>0. truth[s] = NoSub
      BY <1>2, <2>4 DEF PaidAtStripe, Snapshot, StripeStatus
    <3>1. EventsOf(s) = {}
      BY <1>1, <3>0, EventsOfCheckout
    <3>2. Paid(s)' = {} /\ Paid(s) = {}
      BY <1>4, <2>4, <3>1 DEF Paid
    <3>3. s \notin Known
      BY <1>2, <3>0 DEF PaidAtStripe, NoSub
    <3>4. PaidAtStripe(s)'
      BY <2>4, <3>2, <3>3 DEF PaidAtStripe
    <3>5. PaidInMemory(s)'
      BY <1>2, <1>4, <2>1, <3>2 DEF PaidInMemory
    <3>6. PaidInRow(s)'
      BY <3>2, <3>3 DEF PaidInRow
    <3>7. QED
      BY <3>4, <3>5, <3>6
  <2>5. QED
    BY <1>4, <2>3, <2>4
<1>5. QED
  BY <1>3, <1>4 DEF Goes

LEMMA AskingCheckout ==
  ASSUME ConvergeInv, CheckoutInv, NEW s \in Subs \ foreign, InCheckout(s)',
         NEW w \in Workers, Step(w),
         ~Cancel(w), ~ProjectSubscription(w), ~ProjectFinancial(w)
  PROVE  PaidAtStripe(s)' /\ PaidInMemory(s)' /\ PaidInRow(s)'
<1> USE DEF ConvergeInv, AckInv, OrderInv, TypeInv, TypeOK
<1>1. UNCHANGED <<now, foreign, truth, event, row>>
  BY DEF Step, Deliver, Replay, Begin, Retrieve, CheckDone, ListLive, AllCanceled, PickNewest,
         Capture, Fail, stripe, tables
<1>2. /\ InCheckout(s)
      /\ EventsOf(s)' = EventsOf(s)
      /\ Paid(s)' = Paid(s)
      /\ Unpaid(s)' = Unpaid(s)
  BY <1>1 DEF InCheckout, OwnEventsOnly, EventsOf, Emitted, Concerns, Paid, Unpaid
<1>3. PaidAtStripe(s) /\ PaidInMemory(s) /\ PaidInRow(s)
  BY <1>2 DEF CheckoutInv
<1>4. PaidAtStripe(s)'
  BY <1>1, <1>2, <1>3 DEF PaidAtStripe
<1>5. \A e \in Events : state'[e] \in Processed => state[e] \in Processed
  <2>1. CASE Fail(w)
    BY <2>1 DEF Fail, RecordFailed, Processed, Retryable
  <2>2. CASE ~Fail(w)
    BY <2>2 DEF Step, Deliver, Replay, Begin, Retrieve, CheckDone, ListLive, AllCanceled,
                PickNewest, Capture, tables
  <2>3. QED
    BY <2>1, <2>2
<1>6. PaidInRow(s)'
  BY <1>1, <1>2, <1>3, <1>5 DEF PaidInRow, Paid, EventsOf, Emitted
<1>7. ASSUME pc'[w] = "projecting", job'[w].event \in EventsOf(s)
      PROVE  /\ read'[w].status \in {"expired", "active"}
             /\ job'[w].event \in Paid(s) => read'[w].status = "active"
  <2>1. event[job'[w].event].kind \in Projecting /\ event[job'[w].event].sub = s
        /\ truth[s] # NoSub
    BY <1>2, <1>7, EventsOfCheckout
  <2>2. Retrieve(w)
    <3>1. ASSUME NEW e \in Emitted, NEW replay \in BOOLEAN, Begin(w, e, replay) PROVE FALSE
      <4>1. job'[w].event = e /\ pc'[w] = FirstStep(event[e].kind)
        BY <3>1 DEF Begin, Go, memory
      <4>2. event[e].kind \in Projecting
        BY <2>1, <4>1
      <4>3. FirstStep(event[e].kind) = "retrieving"
        BY <4>2 DEF FirstStep, Projecting
      <4>4. QED
        BY <1>7, <4>1, <4>3
    <3>2. ~Deliver(w) /\ ~Replay(w)
      BY <3>1 DEF Deliver, Replay
    <3>3. CASE AllCanceled(w) \/ PickNewest(w)
      BY <2>1, <3>3 DEF AllCanceled, PickNewest, Sound, EventOf, memory
    <3>4. CASE CheckDone(w) \/ ListLive(w) \/ Capture(w) \/ Fail(w)
      BY <1>7, <3>4 DEF CheckDone, ListLive, Capture, Fail, Free, Go
    <3>5. QED
      BY <3>2, <3>3, <3>4 DEF Step
  <2>3. job'[w] = job[w] /\ read'[w] = truth[target[w]] /\ pc[w] = "retrieving"
    BY <2>2 DEF Retrieve
  <2>4. target[w] = s
    BY <2>1, <2>3 DEF Sound, EventOf
  <2>5. truth[s].status # "none"
    BY <2>1 DEF Snapshot, StripeStatus
  <2>6. QED
    BY <1>3, <2>3, <2>4, <2>5 DEF PaidAtStripe
<1>8. PaidInMemory(s)'
  BY <1>2, <1>3, <1>7, StepIsOwn DEF PaidInMemory, Same
<1>9. QED
  BY <1>4, <1>6, <1>8

LEMMA ProjectionCheckout ==
  ASSUME ConvergeInv, CheckoutInv, NEW s \in Subs \ foreign, InCheckout(s)',
         NEW w \in Workers, ProjectSubscription(w) \/ ProjectFinancial(w)
  PROVE  PaidAtStripe(s)' /\ PaidInMemory(s)' /\ PaidInRow(s)'
<1> DEFINE e == job[w].event
<1> USE DEF ConvergeInv, AckInv, OrderInv, TypeInv, TypeOK
<1>1. UNCHANGED <<now, foreign, truth, event, job, target, read>>
  BY DEF ProjectSubscription, ProjectFinancial, stripe, memory
<1>2. /\ InCheckout(s)
      /\ EventsOf(s)' = EventsOf(s)
      /\ Paid(s)' = Paid(s)
      /\ Unpaid(s)' = Unpaid(s)
  BY <1>1 DEF InCheckout, OwnEventsOnly, EventsOf, Emitted, Concerns, Paid, Unpaid
<1>3. PaidAtStripe(s) /\ PaidInMemory(s) /\ PaidInRow(s)
  BY <1>2 DEF CheckoutInv
<1>4. /\ e \in Emitted
      /\ \A f \in Events \ {e} : state'[f] = state[f]
  BY ProjectionLedgers DEF Emitted
<1>5. pc[w] = "projecting" /\ pc' = [pc EXCEPT ![w] = "capturing"] /\ EventOf(w) = event[e]
  BY DEF ProjectSubscription, ProjectFinancial, Go, EventOf
<1>6. PaidAtStripe(s)' /\ PaidInMemory(s)'
  BY <1>1, <1>2, <1>3, <1>5 DEF PaidAtStripe, PaidInMemory
<1>7. e \notin EventsOf(s) => row'[s] = row[s]
  BY <1>4, ProjectedRow DEF EventsOf
<1>8. CASE row'[s] = row[s] /\ (e \in Paid(s) => state[e] \in Processed)
  <2>1. ASSUME NEW a \in Paid(s), state'[a] \in Processed PROVE state[a] \in Processed
    BY <1>4, <1>8, <2>1 DEF Paid, EventsOf, Emitted
  <2>2. PaidInRow(s)'
    BY <1>1, <1>2, <1>3, <1>8, <2>1 DEF PaidInRow
  <2>3. QED
    BY <1>6, <2>2
<1>9. CASE e \in EventsOf(s) /\ state[e] \in Retryable
  <2>1. /\ event[e] \in Event
        /\ event[e].kind \in Projecting
        /\ event[e].sub = s
        /\ e \in Paid(s) \/ e \in Unpaid(s)
    BY <1>2, <1>9, EventsOfCheckout
  <2>2. ProjectSubscription(w) /\ target[w] = s
    BY <1>5, <2>1 DEF ProjectFinancial, Sound
  <2>3. /\ read[w].status \in {"expired", "active"}
        /\ e \in Paid(s) => read[w].status = "active"
    BY <1>3, <1>5, <1>9 DEF PaidInMemory
  <2> DEFINE new == [status |-> read[w].status, stamp |-> event[e].created,
                     start |-> read[w].start]
  <2>4. row' = IF Wins(s, event[e], read[w]) THEN [row EXCEPT ![s] = new] ELSE row
    BY <1>5, <1>9, <2>2 DEF ProjectSubscription
  <2>5. CASE Wins(s, event[e], read[w])
    <3>1. row'[s] = new
      BY <2>4, <2>5
    <3>2. new # NoRow /\ new.status = read[w].status /\ new.stamp = event[e].created
      BY <2>3 DEF NoRow
    <3>3. ASSUME NEW a \in Paid(s), state'[a] \in Processed
          PROVE  read[w].status = "active" /\ event[e].created >= event[a].created
      <4>1. CASE a = e
        BY <2>1, <2>3, <4>1 DEF Event, Time
      <4>2. CASE a # e
        <5>1. a \in Emitted /\ event[a] \in Event
          BY <1>2, <3>3, EventsOfCheckout DEF Paid
        <5>2. row[s] # NoRow /\ row[s].status = "active" /\ row[s].stamp >= event[a].created
          BY <1>3, <1>4, <3>3, <4>2, <5>1 DEF PaidInRow, Emitted
        <5>3. row[s] \in Row
          BY <5>2
        <5>4. row[s].stamp <= event[e].created
          BY <2>1, <2>5, <5>2, <5>3 DEF Wins, Row, Event, Time
        <5>5. event[e].created >= event[a].created
          BY <2>1, <5>1, <5>2, <5>3, <5>4 DEF Row, Event, Time
        <5>6. CASE e \in Unpaid(s)
          <6>1. event[e].created <= event[a].created
            BY <1>3, <3>3, <5>6 DEF PaidAtStripe
          <6>2. row[s].stamp = event[e].created
            <7>1. /\ row[s].stamp \in Int /\ event[e].created \in Int
                  /\ event[a].created \in Int
              BY <2>1, <5>1, <5>3, <5>2 DEF Row, NoRow, Event, Time
            <7>2. event[e].created <= row[s].stamp
              BY <5>2, <6>1, <7>1
            <7>3. QED
              BY <5>4, <7>1, <7>2, Ordered
          <6>3. read[w].status # "expired"
            BY <2>1, <2>5, <5>2, <6>2 DEF Wins, Live, Event, Time
          <6>4. QED
            BY <2>3, <5>5, <6>3
        <5>7. QED
          BY <2>1, <2>3, <5>5, <5>6
      <4>3. QED
        BY <4>1, <4>2
    <3>4. QED
      BY <1>1, <1>2, <1>6, <3>1, <3>2, <3>3 DEF PaidInRow
  <2>6. CASE ~Wins(s, event[e], read[w])
    <3>1. row'[s] = row[s] /\ row[s] # NoRow /\ row[s] \in Row
      BY <2>4, <2>6 DEF Wins
    <3>2. CASE e \in Unpaid(s)
      <4>1. e \notin Paid(s)
        BY <3>2 DEF Paid, Unpaid
      <4>2. QED
        BY <1>8, <3>1, <4>1
    <3>3. CASE e \in Paid(s)
      <4>1. row[s].stamp > event[e].created
        <5>1. read[w].status # "expired"
          BY <2>3, <3>3
        <5>2. ~(row[s].stamp < event[e].created) /\ row[s].stamp # event[e].created
          BY <2>6, <5>1 DEF Wins
        <5>3. row[s].stamp \in Int /\ event[e].created \in Int
          BY <2>1, <3>1 DEF Row, Event, Time
        <5>4. QED
          BY <5>2, <5>3, Ordered
      <4>2. ~Initial(s)
        BY <2>1, <4>1 DEF Initial, Event, Time
      <4>3. PICK f \in Events : StampedBy(f, s)
        BY <3>1, <4>2 DEF StampInv
      <4>4. f \in EventsOf(s) /\ state[f] \in Processed /\ row[s].stamp = event[f].created
        BY <4>3 DEF StampedBy, EventsOf
      <4>5. event[f] \in Event /\ (f \in Paid(s) \/ f \in Unpaid(s))
        BY <1>2, <4>4, EventsOfCheckout
      <4>6. f \notin Unpaid(s)
        BY <1>3, <2>1, <3>3, <4>1, <4>4, <4>5 DEF PaidAtStripe, Event, Time
      <4>7. row[s].status = "active"
        BY <1>3, <4>4, <4>5, <4>6 DEF PaidInRow
      <4>8. row[s].stamp >= event[e].created
        BY <2>1, <3>1, <4>1 DEF Row, Event, Time
      <4>9. ASSUME NEW a \in Paid(s), state'[a] \in Processed
            PROVE  row[s].stamp >= event[a].created
        BY <1>3, <1>4, <4>8, <4>9 DEF PaidInRow, Paid, EventsOf, Emitted
      <4>10. QED
        BY <1>1, <1>2, <1>6, <3>1, <4>7, <4>9 DEF PaidInRow
    <3>4. QED
      BY <2>1, <3>2, <3>3
  <2>7. QED
    BY <2>5, <2>6
<1>10. QED
  <2>1. state[e] \in Processed => row'[s] = row[s]
    BY ProjectedRow DEF Processed, Retryable
  <2>2. state[e] \in Processed \/ state[e] \in Retryable
    BY <1>4 DEF Emitted
  <2>3. e \in Paid(s) => e \in EventsOf(s)
    BY DEF Paid
  <2>4. QED
    BY <1>6, <1>7, <1>8, <1>9, <2>1, <2>2, <2>3

LEMMA NextCheckout == ConvergeInv /\ CheckoutInv /\ [Next]_vars => CheckoutInv'
<1> SUFFICES ASSUME ConvergeInv, CheckoutInv, [Next]_vars,
                    NEW s \in (Subs \ foreign)', InCheckout(s)'
             PROVE  PaidAtStripe(s)' /\ PaidInMemory(s)' /\ PaidInRow(s)'
  BY DEF CheckoutInv
<1>1. TypeInv
  BY DEF ConvergeInv, AckInv
<1>2. CASE \/ Stripe
           \/ \E w \in Workers : Cancel(w)
           \/ UNCHANGED vars
  <2>1. Announces
    BY <1>1, <1>2, StripeAnnounces
  <2>2. UNCHANGED <<foreign, row, state, pc, job, read>>
    BY <1>1, <1>2, StripeExtends DEF Cancel, vars, stripe, tables, memory
  <2>3. s \in Subs \ foreign
    BY <2>2
  <2>4. Goes(s)
    BY <1>1, <1>2, <2>3, StripeGoes
  <2>5. QED
    BY <2>1, <2>2, <2>3, <2>4, OutsideCheckout
<1>3. ASSUME NEW w \in Workers, Step(w), ~Cancel(w)
      PROVE  PaidAtStripe(s)' /\ PaidInMemory(s)' /\ PaidInRow(s)'
  <2>1. s \in Subs \ foreign
    BY <1>1, <1>3, StepGrows DEF Grows
  <2>2. QED
    BY <1>3, <2>1, AskingCheckout, ProjectionCheckout
<1>4. QED
  BY <1>2, <1>3 DEF Next

LEMMA InitCheckout == Init => CheckoutInv
<1> SUFFICES ASSUME Init, NEW s \in Subs \ foreign
             PROVE  PaidAtStripe(s) /\ PaidInMemory(s) /\ PaidInRow(s)
  BY DEF CheckoutInv
<1> USE DEF Init
<1>1. Emitted = {}
  BY DEF Emitted
<1>2. EventsOf(s) = {} /\ Paid(s) = {} /\ Unpaid(s) = {}
  BY <1>1 DEF EventsOf, Paid, Unpaid
<1>3. PaidAtStripe(s)
  BY <1>2 DEF PaidAtStripe, NoSub
<1>4. PaidInMemory(s)
  BY DEF PaidInMemory
<1>5. s \in Known => row[s] # NoRow
  BY DEF NoRow
<1>6. QED
  BY <1>2, <1>3, <1>4, <1>5 DEF PaidInRow

\* A checkout whose created, updated and paid events share a second ends with a
\* live row, for any number of its events and functions and in whatever order they
\* are read and written (the WHERE clause of the upsert in applyStripeSubscription).
THEOREM CheckoutsConverge == Spec => []CheckoutConverges
<1>1. ConvergeInv /\ CheckoutInv => CheckoutConverges
  <2> SUFFICES ASSUME ConvergeInv, CheckoutInv, NEW s \in Subs \ foreign,
                      Quiet, InCheckout(s), truth[s].status = "active"
               PROVE  row[s].status = "active"
    BY DEF CheckoutConverges
  <2> USE DEF ConvergeInv, AckInv, OrderInv, TypeInv, TypeOK
  <2>1. PaidAtStripe(s) /\ PaidInRow(s)
    BY DEF CheckoutInv
  <2>2. \A f \in Emitted : state[f] \in Processed
    BY DEF Quiet, DoneInv
  <2>3. CASE Paid(s) # {}
    BY <2>1, <2>2, <2>3 DEF PaidInRow, Paid, EventsOf
  <2>4. CASE Paid(s) = {}
    <3>1. s \in Known /\ Unpaid(s) = {} /\ row[s] # NoRow
      BY <2>1, <2>4 DEF PaidAtStripe, PaidInRow
    <3>2. EventsOf(s) = {}
      BY <2>4, <3>1, EventsOfCheckout
    <3>3. Initial(s)
      BY <3>1, <3>2 DEF StampInv, StampedBy, EventsOf
    <3>4. QED
      BY <3>3 DEF Initial
  <2>5. QED
    BY <2>3, <2>4
<1>2. QED
  BY <1>1, InitConverges, NextConverges, InitCheckout, NextCheckout, PTL DEF Spec

=============================================================================
