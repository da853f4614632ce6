----------------------------- MODULE SupportActions -----------------------------
(***************************************************************************)
(* The audit trail of the administration: an action is announced in the    *)
(* ledger, done, and its outcome recorded (audited), each in a statement   *)
(* of its own.  An action with an idempotency key claims it in the         *)
(* transaction that acts (claim_pressay_operations_request); what the web  *)
(* does in its own database is recorded under such a key, which is claimed *)
(* first (recordExternalAction).                                           *)
(***************************************************************************)
EXTENDS Integers, FiniteSets

CONSTANTS
  Operations,    \* requests of administrators, by their request id
  FormKeys       \* idempotency keys of the forms

VARIABLES
  operation,     \* the handlers
  ledger,        \* operations_audit
  claimed,       \* operations_request
  effects        \* how many times each key had its effect

supportVars == <<operation, ledger, claimed, effects>>

-----------------------------------------------------------------------------
(* Types *)

\* keyed: grants, restorations, roles; plain: revocations and deletions, which may
\* be repeated; external: sign-outs that the web does.
OperationKinds == {"keyed", "plain", "external"}
Outcomes == {"requested", "succeeded", "replayed", "failed", "recorded"}
Open == {"announcing", "acting", "acted", "replayed", "failed", "claiming", "recording"}
Unasked == [step |-> "new"]

\* acted: it had its effect; blind: its handler was not told so, or could not say so.
Operation == [kind : OperationKinds, key : FormKeys, step : Open \cup {"answered", "dead"},
              acted : BOOLEAN, blind : BOOLEAN]

SupportTypeOK ==
  /\ operation \in [Operations -> Operation \cup {Unasked}]
  /\ ledger \in SUBSET [by : Operations, says : Outcomes]
  /\ claimed \in SUBSET FormKeys
  /\ effects \in [FormKeys -> Nat]

SupportInit ==
  /\ operation = [o \in Operations |-> Unasked]
  /\ ledger = {}
  /\ claimed = {}
  /\ effects = [k \in FormKeys |-> 0]

OperationAt(o, step) == operation[o].step = step

Proceeds(o, step) == operation' = [operation EXCEPT ![o].step = step]

Says(o, what) == ledger' = ledger \cup {[by |-> o, says |-> what]}

-----------------------------------------------------------------------------
(* audited *)

Ask(o, kind, k) ==
  /\ operation[o] = Unasked
  /\ \A other \in Operations :
       operation[other] # Unasked /\ operation[other].key = k => operation[other].kind = kind
  /\ operation' = [operation EXCEPT ![o] =
       [kind |-> kind, key |-> k, acted |-> FALSE, blind |-> FALSE,
        step |-> IF kind = "external" THEN "claiming" ELSE "announcing"]]
  /\ UNCHANGED <<ledger, claimed, effects>>

Announce(o) ==
  /\ OperationAt(o, "announcing")
  /\ Says(o, "requested")
  /\ Proceeds(o, "acting")
  /\ UNCHANGED <<claimed, effects>>

\* Faulty variant of Replays: the key is never looked up.
ReplaysNever(o) == FALSE

\* The key is claimed already: the first result is returned.
Replays(o) == operation[o].kind = "keyed" /\ operation[o].key \in claimed

\* The transaction commits, and its answer may still be lost on the way back.
Act(o) ==
  /\ OperationAt(o, "acting")
  /\ \E lost \in BOOLEAN :
       operation' = [operation EXCEPT
         ![o].acted = ~Replays(o), ![o].blind = lost,
         ![o].step = IF lost THEN "failed" ELSE IF Replays(o) THEN "replayed" ELSE "acted"]
  /\ claimed' = IF operation[o].kind = "keyed" THEN claimed \cup {operation[o].key} ELSE claimed
  /\ effects' = IF Replays(o) THEN effects ELSE [effects EXCEPT ![operation[o].key] = @ + 1]
  /\ UNCHANGED ledger

\* The transaction raises: its claim is undone with it.
Refuse(o) ==
  /\ OperationAt(o, "acting")
  /\ Proceeds(o, "failed")
  /\ UNCHANGED <<ledger, claimed, effects>>

Outcome(o) ==
  IF OperationAt(o, "acted") THEN "succeeded" ELSE operation[o].step

RecordOutcome(o) ==
  /\ operation[o].step \in {"acted", "replayed", "failed"}
  /\ Says(o, Outcome(o))
  /\ Proceeds(o, "answered")
  /\ UNCHANGED <<claimed, effects>>

\* The entry of a success cannot be written, or is written and the answer lost: the
\* same catch that records a refusal records this.
OutcomeUnknown(o) ==
  /\ operation[o].step \in {"acted", "replayed"}
  /\ Says(o, Outcome(o)) \/ UNCHANGED ledger
  /\ operation' = [operation EXCEPT ![o].step = "failed", ![o].blind = TRUE]
  /\ UNCHANGED <<claimed, effects>>

-----------------------------------------------------------------------------
(* recordExternalAction *)

ClaimExternal(o) ==
  /\ OperationAt(o, "claiming")
  /\ claimed' = claimed \cup {operation[o].key}
  /\ Proceeds(o, IF operation[o].key \in claimed THEN "answered" ELSE "recording")
  /\ UNCHANGED <<ledger, effects>>

RecordExternal(o) ==
  /\ OperationAt(o, "recording")
  /\ Says(o, "recorded")
  /\ Proceeds(o, "answered")
  /\ UNCHANGED <<claimed, effects>>

\* A statement throws out of the handler, or its function is killed.
Abandon(o) ==
  /\ operation[o].step \in Open
  /\ Proceeds(o, "dead")
  /\ UNCHANGED <<ledger, claimed, effects>>

SupportNext ==
  \E o \in Operations :
    \/ \E kind \in OperationKinds, k \in FormKeys : Ask(o, kind, k)
    \/ Announce(o) \/ Act(o) \/ Refuse(o) \/ RecordOutcome(o) \/ OutcomeUnknown(o)
    \/ ClaimExternal(o) \/ RecordExternal(o)
    \/ Abandon(o)

SupportSpec == SupportInit /\ [][SupportNext]_supportVars

-----------------------------------------------------------------------------
(* Properties *)

Wrote(o, what) == [by |-> o, says |-> what] \in ledger

\* An entry is so: nothing is done that was not announced, a success is the one
\* effect of its key, a replay had one before it, and a failure that acted was never
\* told so.
EntriesAreTrue ==
  \A o \in Operations : operation[o] # Unasked =>
    /\ operation[o].acted => Wrote(o, "requested")
    /\ Wrote(o, "succeeded") => operation[o].acted
    /\ Wrote(o, "replayed") => ~operation[o].acted /\ effects[operation[o].key] = 1
    /\ Wrote(o, "failed") /\ operation[o].acted => operation[o].blind
    /\ operation[o].kind = "keyed" => effects[operation[o].key] <= 1

\* An action of the web whose request was answered is in the ledger once, unless
\* the handler that had claimed its key stopped before it wrote.
ExternalIsRecorded ==
  \A o \in Operations :
    (OperationAt(o, "answered") /\ operation[o].kind = "external") =>
      LET same == {other \in Operations :
                     operation[other] # Unasked /\ operation[other].key = operation[o].key}
      IN  \/ Cardinality({other \in same : Wrote(other, "recorded")}) = 1
          \/ \E other \in same : operation[other].step \in {"recording", "dead"}

\* What the ledger says is so and what was answered is in it, whoever repeats a form
\* and wherever a handler stops (audited, recordExternalAction).
LedgerIsTrue == EntriesAreTrue /\ ExternalIsRecorded

=============================================================================
