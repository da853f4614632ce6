---------------------------- MODULE AccountDeletion ----------------------------
(***************************************************************************)
(* The deletion of an account and of everything kept for it: the request   *)
(* revokes its devices and queues a job (AccountDevices), the functions of *)
(* the cron claim the job with a lease, delete the Stripe customer and the *)
(* web identity and then erase the account (runAccountDeletionBatch).      *)
(*                                                                         *)
(* Calls fail, functions are killed, a second request puts back in the     *)
(* queue a job that a function still works on, and other handlers that     *)
(* checked the account before write its rows afterwards.                   *)
(***************************************************************************)
EXTENDS AccountDevices

CONSTANTS
  Workers,      \* functions that process deletions
  Writes,       \* kinds of rows the other handlers write for the account
  MaxAttempts,  \* claims of one job: 20 in the code
  Lease,        \* ticks a claim lasts: 15 minutes in the code
  MaxLife,      \* ticks a function lives: maxDuration is one minute
  BackoffUnit,  \* ticks of the shortest wait, doubled by each attempt
  MaxBackoff,   \* ticks of the longest wait: an hour in the code
  MaxTroubles,  \* bound of the calls that fail and of the functions that are killed
  MaxRequests   \* bound of the requests to delete this account

ASSUME JobAssumption ==
  /\ {MaxAttempts, Lease, MaxLife, BackoffUnit, MaxBackoff, MaxTroubles,
      MaxRequests} \subseteq Nat
  /\ MaxLife < Lease
  /\ Writes \subseteq {"change", "recovery", "customer", "subscription"}

VARIABLES
  job,        \* account_deletion_job
  worker,     \* what each function of the cron is doing
  stripe,     \* the Stripe customer: "linked" when billing_customer has named it
  orphan,     \* whether a customer is left at Stripe that no handler knows
  web,        \* whether the web identity exists
  rows,       \* the kinds of rows the database keeps for the account
  inflight,   \* writes whose handler has checked the account and not yet written
  overtaken,  \* history: the deletion that completed ran beside such writes
  troubles,   \* failures so far
  requested   \* requests to delete so far

outside == <<stripe, orphan, web>>
counts == <<troubles, requested>>
jobVars == <<job, worker, outside, rows, inflight, overtaken, counts>>
vars == <<deviceVars, jobVars>>

-----------------------------------------------------------------------------
(* Types *)

NoJob == [state |-> "none", attempts |-> 0, wait |-> 0]
MaxWait == IF Lease > MaxBackoff THEN Lease ELSE MaxBackoff
Job == [state : {"none", "queued", "processing", "failed", "completed"},
        attempts : 0 .. MaxAttempts, wait : 0 .. MaxWait]

Free == [step |-> "free", attempts |-> 0, age |-> 0, beside |-> FALSE]
WorkerState ==
  [step : {"free", "stripe", "web", "forgetting", "erasing", "locking",
           "failing"},
   attempts : 0 .. MaxAttempts, age : 0 .. MaxLife, beside : BOOLEAN]

TypeOK ==
  /\ DevicesTypeOK
  /\ job \in Job
  /\ worker \in [Workers -> WorkerState]
  /\ stripe \in {"none", "created", "linked", "deleted"}
  /\ {orphan, web} \subseteq BOOLEAN
  /\ rows \in SUBSET (Writes \cup {"invitation"})
  /\ inflight \in SUBSET Writes
  /\ overtaken \in BOOLEAN
  /\ troubles \in 0 .. MaxTroubles
  /\ requested \in 0 .. MaxRequests

\* The account does not exist yet, and an invitation is reserved to its address.
Init ==
  /\ DevicesInit
  /\ job = NoJob
  /\ worker = [w \in Workers |-> Free]
  /\ stripe = "none"
  /\ orphan = FALSE
  /\ web = TRUE
  /\ rows = {"invitation"}
  /\ inflight = {}
  /\ overtaken = FALSE
  /\ troubles = 0
  /\ requested = 0

-----------------------------------------------------------------------------
(* The other handlers *)

\* What each checks before it writes.  The first customer is made by a checkout
\* and the row of a subscription by a webhook, which looks for the customer only.
Allowed(write) ==
  CASE write \in {"change", "recovery"} -> status = "active" /\ Active # {}
    [] write = "customer"               -> status = "active" /\ "customer" \notin rows
    [] write = "subscription"           -> "customer" \in rows

Check(write) ==
  /\ write \notin inflight
  /\ Allowed(write)
  /\ inflight' = inflight \cup {write}
  /\ UNCHANGED <<deviceVars, job, worker, outside, rows, overtaken, counts>>

\* customers.create with a key of the account: Stripe answers with the customer
\* it made under that key, deleted or not, until it forgets the key.  An orphan is
\* the customer again as long as the key is remembered.
CreateCustomer ==
  /\ "customer" \in inflight
  /\ stripe' \in IF stripe = "none" THEN {"created"}
                 ELSE IF stripe = "deleted" THEN {"created", "deleted"} ELSE {stripe}
  /\ orphan' \in IF stripe = "none" THEN {orphan, FALSE} ELSE {orphan}
  /\ UNCHANGED <<deviceVars, job, worker, web, rows, inflight, overtaken, counts>>

\* Faulty variant of Referenced: a change does not name its device.
ReferencedLoosely(write) == status # "none"

\* A change references its device, which is gone once the account is erased; all
\* rows reference the account, whose tombstone stays.
Referenced(write) ==
  IF write = "change" THEN \E d \in Devices : device[d] # "absent" ELSE status # "none"

\* The INSERT, in a statement of its own; it does not look at the account again.
Write(write) ==
  /\ write \in inflight
  /\ write = "customer" => stripe # "none"
  /\ inflight' = inflight \ {write}
  /\ rows' = IF Referenced(write) THEN rows \cup {write} ELSE rows
  /\ stripe' = IF write = "customer" /\ stripe = "created" THEN "linked" ELSE stripe
  /\ UNCHANGED <<deviceVars, job, worker, orphan, web, overtaken, counts>>

\* The function dies before it writes, or the statement fails: what it made at
\* Stripe stays there, and nothing here names it.
Drop(write) ==
  /\ write \in inflight
  /\ inflight' = inflight \ {write}
  /\ IF write = "customer" /\ stripe = "created"
       THEN stripe' = "none" /\ orphan' = TRUE
       ELSE UNCHANGED <<stripe, orphan>>
  /\ UNCHANGED <<deviceVars, job, worker, web, rows, overtaken, counts>>

-----------------------------------------------------------------------------
(* The request *)

BeginRequest(r) ==
  /\ requested < MaxRequests
  /\ BeginDeletion(r)
  /\ requested' = requested + 1
  /\ UNCHANGED <<job, worker, outside, rows, inflight, overtaken, troubles>>

\* The material of the synchronisation goes with the request, and the job is
\* queued for now, whoever works on it; its attempts stay what they are.
RequestDeletion(r) ==
  /\ CommitDeletion(r)
  /\ rows' = rows \ {"change", "recovery"}
  /\ job' = [job EXCEPT !.state = IF @ = "completed" THEN @ ELSE "queued", !.wait = 0]
  /\ UNCHANGED <<worker, outside, inflight, overtaken, counts>>

-----------------------------------------------------------------------------
(* The worker *)

Working(w, step) == worker[w].step = step
StepTo(w, step) == worker' = [worker EXCEPT ![w].step = step]

\* Faulty variant of Due: a job in process is not taken over.
DueUnlessTaken == job.state \in {"queued", "failed"} /\ job.wait = 0
\* Faulty variant of Due: nor is it left to the function that has it.
DueAnyway == job.state \in {"queued", "failed", "processing"}

Due == job.state \in {"queued", "failed", "processing"} /\ job.wait = 0

\* Faulty variant of FirstStep: a retry takes the customer for deleted.
FirstStepOfRetry ==
  IF "customer" \in rows /\ job.attempts = 0 THEN "stripe" ELSE "web"

FirstStep == IF "customer" \in rows THEN "stripe" ELSE "web"

\* claimDeletionJob: the customer is read with the claim.
Claim(w) ==
  /\ Working(w, "free")
  /\ Due
  /\ job.attempts < MaxAttempts
  /\ job' = [state |-> "processing", attempts |-> job.attempts + 1, wait |-> Lease]
  /\ worker' = [worker EXCEPT ![w] =
                  [step |-> FirstStep, attempts |-> job.attempts + 1, age |-> 0,
                   beside |-> inflight # {}]]
  /\ UNCHANGED <<deviceVars, outside, rows, inflight, overtaken, counts>>

\* customers.del, where a missing customer is as good as a deleted one.
DeleteCustomer(w) ==
  /\ Working(w, "stripe")
  /\ stripe' = "deleted"
  /\ StepTo(w, "web")
  /\ UNCHANGED <<deviceVars, job, orphan, web, rows, inflight, overtaken, counts>>

\* deleteWebIdentity, where an absent identity counts as deleted.
DeleteWebIdentity(w) ==
  /\ Working(w, "web")
  /\ web' = FALSE
  /\ StepTo(w, "forgetting")
  /\ UNCHANGED <<deviceVars, job, stripe, orphan, rows, inflight, overtaken, counts>>

\* forgetReservedInvitations
Forget(w) ==
  /\ Working(w, "forgetting")
  /\ rows' = rows \ {"invitation"}
  /\ StepTo(w, "erasing")
  /\ UNCHANGED <<deviceVars, job, outside, inflight, overtaken, counts>>

\* complete_pressay_account_deletion selects the account with its job in process.
Select(w) ==
  /\ Working(w, "erasing")
  /\ StepTo(w, IF job.state = "processing" THEN "locking" ELSE "failing")
  /\ UNCHANGED <<deviceVars, job, outside, rows, inflight, overtaken, counts>>

\* Once it has the lock it checks the account again but not the job, of which it
\* keeps what it selected: a second request does not stop it any more.
CommitErasure(w) ==
  /\ Working(w, "locking")
  /\ Erase
  /\ rows' = rows \cap {"invitation"}
  /\ job' = [job EXCEPT !.state = "completed"]
  /\ overtaken' = (worker[w].beside \/ inflight # {})
  /\ UNCHANGED <<outside, inflight>>

Complete(w) ==
  /\ CommitErasure(w)
  /\ worker' = [worker EXCEPT ![w] = Free]
  /\ UNCHANGED counts

\* It returns false when another function has erased the account.
NotCompleted(w) ==
  /\ Working(w, "locking")
  /\ holder = Nobody
  /\ status # "deleting"
  /\ StepTo(w, "failing")
  /\ UNCHANGED <<deviceVars, job, outside, rows, inflight, overtaken, counts>>

\* Faulty variant of Backoff: it keeps doubling.
BackoffUnbounded(attempts) == BackoffUnit * 2 ^ attempts

Backoff(attempts) ==
  LET wait == BackoffUnit * 2 ^ (IF attempts < 11 THEN attempts ELSE 11)
  IN  IF wait < MaxBackoff THEN wait ELSE MaxBackoff

\* Faulty variant of MarkFailed: whatever has become of the job.
MarkFailedAnyway(w) ==
  job' = [job EXCEPT !.state = "failed", !.wait = Backoff(worker[w].attempts)]

\* Only a job in process is failed.
MarkFailed(w) ==
  job' = IF job.state = "processing"
           THEN [job EXCEPT !.state = "failed", !.wait = Backoff(worker[w].attempts)]
           ELSE job

\* failDeletionJob
Fail(w) ==
  /\ Working(w, "failing")
  /\ MarkFailed(w)
  /\ worker' = [worker EXCEPT ![w] = Free]
  /\ UNCHANGED <<deviceVars, outside, rows, inflight, overtaken, counts>>

Trouble == troubles < MaxTroubles /\ troubles' = troubles + 1

\* A provider or the database fails, with the effect of the call or without.
CallFails(w) ==
  /\ Trouble
  /\ worker[w].step \notin {"free", "failing"}
  /\ StepTo(w, "failing")
  /\ stripe' \in {stripe} \cup IF Working(w, "stripe") THEN {"deleted"} ELSE {}
  /\ web' \in {web} \cup IF Working(w, "web") THEN {FALSE} ELSE {}
  /\ rows' \in {rows} \cup IF Working(w, "forgetting") THEN {rows \ {"invitation"}} ELSE {}
  /\ UNCHANGED <<deviceVars, job, orphan, inflight, overtaken, requested>>

\* The erasure is committed and its answer lost: the function records a failure.
AnswerLost(w) ==
  /\ CommitErasure(w)
  /\ Trouble
  /\ StepTo(w, "failing")
  /\ UNCHANGED requested

\* The function is killed, or what would record its failure fails.
Die(w) ==
  /\ Trouble
  /\ ~Working(w, "free")
  /\ worker' = [worker EXCEPT ![w] = Free]
  /\ UNCHANGED <<deviceVars, job, outside, rows, inflight, overtaken, requested>>

\* Time matters while a job waits; no function outlives its maximum duration.
Tick ==
  /\ job.wait > 0
  /\ job.state \in {"failed", "processing"}
  /\ \A w \in Workers : worker[w].age < MaxLife
  /\ job' = [job EXCEPT !.wait = @ - 1]
  /\ worker' = [w \in Workers |->
                  IF Working(w, "free") THEN Free ELSE [worker[w] EXCEPT !.age = @ + 1]]
  /\ UNCHANGED <<deviceVars, outside, rows, inflight, overtaken, counts>>

-----------------------------------------------------------------------------
(* The specification *)

Work(w) ==
  \/ Claim(w) \/ DeleteCustomer(w) \/ DeleteWebIdentity(w) \/ Forget(w)
  \/ Select(w) \/ Complete(w) \/ NotCompleted(w) \/ Fail(w)

Next ==
  \/ DevicesStep /\ UNCHANGED jobVars
  \/ \E write \in Writes : Check(write) \/ Write(write) \/ Drop(write)
  \/ CreateCustomer
  \/ \E r \in Requests : BeginRequest(r) \/ RequestDeletion(r)
  \/ \E w \in Workers : Work(w) \/ CallFails(w) \/ AnswerLost(w) \/ Die(w)
  \/ Tick

Spec == Init /\ [][Next]_vars

\* Time passes, the cron comes back every day, its calls return, and the
\* database ends each transaction.  No write has to be finished.
Fairness ==
  /\ WF_vars(Tick)
  /\ \A w \in Workers : WF_vars(Work(w))
  /\ \A r \in Requests :
       WF_vars(\/ (Advance(r) \/ Abort(r)) /\ UNCHANGED jobVars
               \/ RequestDeletion(r))

FairSpec == Spec /\ Fairness

-----------------------------------------------------------------------------
(* Properties *)

\* The tombstone and the job are written together and stay so: no late failure,
\* second request or other function takes back a deletion that is done.
JobMatchesAccount ==
  /\ status \in {"deleting", "deleted"} <=> job.state # "none"
  /\ status = "deleted" <=> job.state = "completed"

\* One function works on the job at a time, unless the user asks again: whoever
\* claims it anew finds the function that had it dead.
OneWorker ==
  requested <= 1 => \A v, w \in Workers : Working(v, "free") \/ Working(w, "free") \/ v = w

\* A deleted account leaves no row here, no customer a checkout has made or named
\* at Stripe and no identity on the web.  Two cases are excepted: what other handlers
\* were writing while it was deleted (overtaken), and the orphan, a customer whose
\* checkout died before its INSERT, which the job has no row to find by.
ErasedUnlessOvertaken ==
  status = "deleted" /\ ~overtaken
    => rows = {} /\ stripe \in {"none", "deleted"} /\ ~web

\* Sync changes never reappear on an erased account, even when a push had checked
\* the account before: a change names its device.  Recovery material names the
\* account alone: a request in flight may write it for the tombstone, and it is excepted.
ChangesStayErased == status = "deleted" => "change" \notin rows

\* docs/OPERATIONS.md: after the providers have recovered, the batch brings the
\* backlog back to zero.
BacklogDrains == status = "deleting" ~> status = "deleted"

=============================================================================
