-------------------------------- MODULE Referrals --------------------------------
(***************************************************************************)
(* One referral: the referee's first payment converts it and freezes the   *)
(* rewards of both sides (record_pressay_referral_payment); a queue gives  *)
(* them as credits at Stripe or as grants (runReferralRewards); a refund   *)
(* or a dispute takes them back (reverse_pressay_referral), before or      *)
(* after any of this, and more than once.                                  *)
(*                                                                         *)
(* Stripe answers a repeated idempotency key from memory for as long as it *)
(* keeps it; after that the same request is a new one.                     *)
(***************************************************************************)
EXTENDS Integers

CONSTANTS
  Rewards,      \* the two sides of the referral
  Recorders,    \* deliveries of invoice.paid
  Reversers,    \* deliveries of the refund's and the dispute's events
  Runners,      \* functions that run the queue
  MaxAttempts,  \* 8 in the code
  LockTime,     \* how long a claimed reward is locked: 10 minutes
  RetryTime,    \* after a failure: 15 minutes
  RunTime,      \* how long a function lives: 60 seconds
  ReviewTime,   \* from when an uncertain credit is not repeated: 23 hours
  KeepTime,     \* how long Stripe keeps a key, at least: 24 hours
  LastHour      \* bound of the clock

ASSUME QueueAssumption ==
  /\ {MaxAttempts, LockTime, RetryTime, RunTime, ReviewTime, KeepTime, LastHour} \subseteq Nat
  /\ RunTime < LockTime
  /\ ReviewTime + RunTime < KeepTime

VARIABLES
  hour,         \* the clock
  referral,     \* referral_attribution.status
  reversed,     \* referral_reversal has the invoice
  reward,       \* referral_reward
  credits,      \* balance transactions at Stripe
  keptUntil,    \* until when Stripe knows the key of each reward
  recorder,     \* open transactions of payments
  reverser,     \* open transactions of reversals
  runner,       \* the functions that run the queue
  settled,      \* a reversal was committed that no payment's transaction overlapped
  retried       \* rewards that support has sent back to the queue

referralVars == <<hour, referral, reversed, reward, credits, keptUntil,
                  recorder, reverser, runner, settled, retried>>

-----------------------------------------------------------------------------
(* Types *)

Hours == 0 .. LastHour
Never == LastHour + 1
RewardKinds == {"credit", "grant", "apple_ineligible"}
Queued == {"pending", "failed", "processing"}
RewardStatus == Queued \cup {"applied", "cancelled", "review"}
Reward == [status : RewardStatus, kind : RewardKinds, attempts : 0 .. MaxAttempts,
           first : Hours \cup {Never}, locked : Int, due : Nat,
           granted : {"no", "live", "revoked"}]
NoReward == [status |-> "none"]

\* now: the hour its function started.
Runner == [step : {"deciding", "asking", "crediting", "finishing", "failing"}, reward : Rewards,
           attempts : 1 .. MaxAttempts, first : Hours, now : Hours]
IdleRunner == [step |-> "idle"]

ReferralsTypeOK ==
  /\ hour \in Hours
  /\ referral \in {"none", "attributed", "converted", "reversed"}
  /\ reversed \in BOOLEAN
  /\ reward \in [Rewards -> Reward \cup {NoReward}]
  /\ credits \in [Rewards -> Nat]
  /\ keptUntil \in [Rewards -> Nat]
  /\ recorder \in [Recorders -> {"new", "converting", "ended"}]
  /\ reverser \in [Reversers -> [step : {"new", "open", "ended"}, found : BOOLEAN,
                                 alone : BOOLEAN]]
  /\ runner \in [Runners -> Runner \cup {IdleRunner}]
  /\ settled \in BOOLEAN
  /\ retried \in SUBSET Rewards

ReferralsInit ==
  /\ hour = 0
  /\ referral = "none"
  /\ reversed = FALSE
  /\ reward = [x \in Rewards |-> NoReward]
  /\ credits = [x \in Rewards |-> 0]
  /\ keptUntil = [x \in Rewards |-> 0]
  /\ recorder = [p \in Recorders |-> "new"]
  /\ reverser = [v \in Reversers |-> [step |-> "new", found |-> FALSE, alone |-> TRUE]]
  /\ runner = [f \in Runners |-> IdleRunner]
  /\ settled = FALSE
  /\ retried = {}

program == <<reward, credits, keptUntil, runner, retried>>
captures == <<referral, reversed, recorder, reverser, settled>>

-----------------------------------------------------------------------------
(* Attribution and payment *)

\* attributeReferral
Attribute ==
  /\ referral = "none"
  /\ referral' = "attributed"
  /\ UNCHANGED <<hour, reversed, recorder, reverser, settled, program>>

Overlaps == [v \in Reversers |->
  IF reverser[v].step = "open" THEN [reverser[v] EXCEPT !.alone = FALSE] ELSE reverser[v]]

Converts == referral = "attributed" /\ ~reversed

\* It holds the lock of the account, then that of the attribution.
StartRecord(p) ==
  /\ recorder[p] = "new"
  /\ \A q \in Recorders : recorder[q] # "converting"
  /\ recorder' = [recorder EXCEPT ![p] = IF Converts THEN "converting" ELSE "ended"]
  /\ reverser' = IF Converts THEN Overlaps ELSE reverser
  /\ UNCHANGED <<hour, referral, reversed, settled, program>>

CommitRecord(p) ==
  /\ recorder[p] = "converting"
  /\ recorder' = [recorder EXCEPT ![p] = "ended"]
  /\ referral' = "converted"
  /\ \E kind \in [Rewards -> RewardKinds] :
       reward' = [x \in Rewards |->
         [status |-> "pending", kind |-> kind[x], attempts |-> 0, first |-> Never,
          locked |-> -1, due |-> hour, granted |-> "no"]]
  /\ UNCHANGED <<hour, reversed, reverser, settled, credits, keptUntil, runner, retried>>

-----------------------------------------------------------------------------
(* Reversal *)

\* The reversal is inserted, and the attribution looked for by its invoice, which a
\* payment's open transaction has not committed yet.
StartReversal(v) ==
  /\ reverser[v].step = "new"
  /\ reverser' = [reverser EXCEPT ![v] =
       [step |-> "open", found |-> referral \in {"converted", "reversed"},
        alone |-> \A p \in Recorders : recorder[p] # "converting"]]
  /\ UNCHANGED <<hour, referral, reversed, recorder, settled, program>>

\* Faulty variant of TakenBack: a second notification forgets the review (before
\* migration 0018).
TakenBackOnce(r) ==
  IF r.kind = "credit" /\ r.status \in {"processing", "applied", "failed"}
    THEN "review" ELSE "cancelled"

\* A credit that may have been given is reconciled by a person.
TakenBack(r) ==
  IF r.kind = "credit" /\ \/ r.status \in {"processing", "applied", "failed", "review"}
                          \/ r.first # Never
    THEN "review" ELSE "cancelled"

CommitReversal(v) ==
  /\ reverser[v].step = "open"
  /\ reversed' = TRUE
  /\ IF reverser[v].found
       THEN /\ referral' = "reversed"
            /\ reward' = [x \in Rewards |->
                 [reward[x] EXCEPT !.status = TakenBack(reward[x]), !.locked = -1,
                                   !.granted = IF reward[x].granted = "live" THEN "revoked"
                                               ELSE reward[x].granted]]
       ELSE UNCHANGED <<referral, reward>>
  /\ settled' = (settled \/ reverser[v].alone)
  /\ reverser' = [reverser EXCEPT ![v].step = "ended"]
  /\ UNCHANGED <<hour, recorder, credits, keptUntil, runner, retried>>

-----------------------------------------------------------------------------
(* runReferralRewards *)

RunnerAt(f, step) == runner[f] # IdleRunner /\ runner[f].step = step
ToReward(x, r) == reward' = [reward EXCEPT ![x] = r]
Proceeds(f, step) == runner' = [runner EXCEPT ![f].step = step]
Ends(f) == runner' = [runner EXCEPT ![f] = IdleRunner]

\* Faulty variant of Due: attempts are not counted.
DueForEver(x) ==
  /\ reward[x] # NoReward
  /\ referral = "converted"
  /\ reward[x].status \in Queued
  /\ reward[x].due <= hour
  /\ reward[x].locked < hour

Due(x) ==
  /\ reward[x] # NoReward
  /\ referral = "converted"
  /\ reward[x].status \in Queued
  /\ reward[x].attempts < MaxAttempts
  /\ reward[x].due <= hour
  /\ reward[x].locked < hour

ClaimReward(f, x) ==
  /\ runner[f] = IdleRunner
  /\ Due(x)
  /\ LET first == IF reward[x].first = Never THEN hour ELSE reward[x].first
     IN  /\ ToReward(x, [reward[x] EXCEPT !.status = "processing", !.first = first,
                                          !.attempts = reward[x].attempts + 1,
                                          !.locked = hour + LockTime])
         /\ runner' = [runner EXCEPT ![f] =
              [step |-> "deciding", reward |-> x, attempts |-> reward[x].attempts + 1,
               first |-> first, now |-> hour]]
  /\ UNCHANGED <<hour, captures, credits, keptUntil, retried>>

\* apply_pressay_referral_grant, or the end of a reward that Apple's customers cannot
\* have: each is one statement that requires the reward to be in process still.
GiveAtHome(f) ==
  LET x == runner[f].reward
  IN  /\ RunnerAt(f, "deciding")
      /\ reward[x].kind # "credit"
      /\ IF reward[x].status # "processing" THEN UNCHANGED reward
         ELSE IF reward[x].kind = "grant"
           THEN ToReward(x, [reward[x] EXCEPT !.status = "applied", !.locked = -1,
                                              !.granted = "live"])
           ELSE ToReward(x, [reward[x] EXCEPT !.status = "cancelled", !.locked = -1])
      /\ Ends(f)
      /\ UNCHANGED <<hour, captures, credits, keptUntil, retried>>

\* Faulty variant of Uncertain: a credit is repeated whenever its first attempt was.
UncertainNever(f) == FALSE

\* An earlier attempt may have given the credit, under a key that Stripe forgets.
Uncertain(f) == runner[f].attempts > 1 /\ hour - runner[f].first > ReviewTime

DecideCredit(f) ==
  LET x == runner[f].reward
  IN  /\ RunnerAt(f, "deciding")
      /\ reward[x].kind = "credit"
      /\ IF Uncertain(f)
           THEN /\ ToReward(x, [reward[x] EXCEPT !.status = "review", !.locked = -1])
                /\ Ends(f)
           ELSE Proceeds(f, "asking") /\ UNCHANGED reward
      /\ UNCHANGED <<hour, captures, credits, keptUntil, retried>>

\* It may have been reversed since it was claimed.
AskStatus(f) ==
  /\ RunnerAt(f, "asking")
  /\ IF reward[runner[f].reward].status = "processing"
       THEN Proceeds(f, "crediting") ELSE Ends(f)
  /\ UNCHANGED <<hour, captures, reward, credits, keptUntil, retried>>

\* customers.createBalanceTransaction: given once per key that Stripe remembers.
\* The call may fail before or after it had its effect.
CreateCredit(f) ==
  LET x == runner[f].reward
  IN  /\ RunnerAt(f, "crediting")
      /\ \/ /\ hour < keptUntil[x]
            /\ UNCHANGED <<credits, keptUntil>>
         \/ /\ hour >= keptUntil[x]
            /\ credits' = [credits EXCEPT ![x] = @ + 1]
            /\ keptUntil' = [keptUntil EXCEPT ![x] = hour + KeepTime]
      /\ Proceeds(f, "finishing") \/ Proceeds(f, "failing")
      /\ UNCHANGED <<hour, captures, reward, retried>>

RecordCredit(f) ==
  LET x == runner[f].reward
  IN  /\ RunnerAt(f, "finishing")
      /\ ToReward(x, [reward[x] EXCEPT !.locked = -1,
           !.status = IF reward[x].status = "processing" THEN "applied" ELSE "review"])
      /\ Ends(f)
      /\ UNCHANGED <<hour, captures, credits, keptUntil, retried>>

\* A query or a call throws.
RunFails(f) ==
  /\ runner[f] # IdleRunner /\ runner[f].step # "failing"
  /\ Proceeds(f, "failing")
  /\ UNCHANGED <<hour, captures, reward, credits, keptUntil, retried>>

RecordRunFailure(f) ==
  LET x == runner[f].reward
  IN  /\ RunnerAt(f, "failing")
      /\ IF reward[x].status # "processing" THEN UNCHANGED reward
         ELSE ToReward(x, [reward[x] EXCEPT !.status = "failed", !.locked = -1,
                                            !.due = hour + RetryTime])
      /\ Ends(f)
      /\ UNCHANGED <<hour, captures, credits, keptUntil, retried>>

\* The function is killed: its reward stays locked.
RunnerDies(f) ==
  /\ runner[f] # IdleRunner
  /\ Ends(f)
  /\ UNCHANGED <<hour, captures, reward, credits, keptUntil, retried>>

\* POST /admin/rewards/:id/retry
RetryReward(x) ==
  /\ reward[x] # NoReward /\ reward[x].status = "failed"
  /\ hour - reward[x].first < ReviewTime
  /\ ToReward(x, [reward[x] EXCEPT !.status = "pending", !.attempts = 0, !.due = hour,
                                   !.locked = -1])
  /\ retried' = retried \cup {x}
  /\ UNCHANGED <<hour, captures, credits, keptUntil, runner>>

\* A function that lives too long is killed.
NextHour ==
  /\ hour < LastHour
  /\ \A f \in Runners : runner[f] # IdleRunner => hour < runner[f].now + RunTime
  /\ hour' = hour + 1
  /\ UNCHANGED <<captures, program>>

ReferralsNext ==
  \/ Attribute
  \/ \E p \in Recorders : StartRecord(p) \/ CommitRecord(p)
  \/ \E v \in Reversers : StartReversal(v) \/ CommitReversal(v)
  \/ \E f \in Runners :
       \/ \E x \in Rewards : ClaimReward(f, x)
       \/ GiveAtHome(f) \/ DecideCredit(f) \/ AskStatus(f) \/ CreateCredit(f)
       \/ RecordCredit(f) \/ RunFails(f) \/ RecordRunFailure(f) \/ RunnerDies(f)
  \/ \E x \in Rewards : RetryReward(x)
  \/ NextHour

ReferralsSpec == ReferralsInit /\ [][ReferralsNext]_referralVars

-----------------------------------------------------------------------------
(* Properties *)

\* A reward is credited once however often its functions fail, are killed or repeated,
\* unless support has sent it back to the queue.
CreditedOnce == \A x \in Rewards : credits[x] > 1 => x \in retried

\* src/src/services/referrals.ts: "Do not reissue an uncertain Stripe write after its
\* idempotency retention window."
NeverReissued == \A x \in Rewards : credits[x] <= 1

\* Once a reversal was recorded that no payment's transaction overlapped, nothing of
\* the referral is given or left: no grant is live, no reward is queued, and a credit
\* that was or may have been given waits for a person, whatever was under way and
\* however often the provider repeats itself.
ReversedIsTakenBack ==
  settled =>
    /\ referral # "converted"
    /\ \A x \in Rewards : reward[x] # NoReward =>
         /\ reward[x].granted # "live"
         /\ reward[x].status \in {"cancelled", "review"}
         /\ credits[x] > 0 => reward[x].status = "review"

=============================================================================
