------------------------------- MODULE RateLimits -------------------------------
(***************************************************************************)
(* Fixed windows (consume_pressay_rate_limit): a request is counted in one *)
(* scope after the other - account, device, address - and the first one    *)
(* that is full refuses it.  The cron removes the buckets of the past.     *)
(*                                                                         *)
(* One upsert counts a request.  Its window is that of the time at which   *)
(* it started; it may have to wait for the row.                            *)
(***************************************************************************)
EXTENDS Integers

CONSTANTS
  Callers,     \* requests of one account, device and address
  Scopes,      \* how many scopes are counted, in their order: 3 for the Cloud
  RateLimit,   \* the limit of each scope
  Window,      \* length of a window, 60 seconds in the code
  CallTime,    \* how long a function lives, 60 seconds in the code
  LastSecond   \* bound of the clock

\* A function does not outlive a window that begins with it.
ASSUME WindowAssumption == Window \in Nat \ {0} /\ CallTime \in 0 .. Window
ASSUME ScopesAssumption == Scopes \in Nat \ {0} /\ RateLimit \in [1 .. Scopes -> Nat \ {0}]
ASSUME LastSecondAssumption == LastSecond \in Nat

VARIABLES
  second,     \* the clock
  bucket,     \* rate_limit_bucket, by scope and window: 0 without a row
  passed,     \* how many requests each bucket has let through
  caller      \* the requests: the scope that is next, and when its upsert started

rateVars == <<second, bucket, passed, caller>>

Windows == 0 .. LastSecond \div Window
Buckets == (1 .. Scopes) \X Windows
NotCalled == [state |-> "new"]

RateLimitsTypeOK ==
  /\ second \in 0 .. LastSecond
  /\ bucket \in [Buckets -> Nat]
  /\ passed \in [Buckets -> Nat]
  /\ caller \in [Callers ->
       {NotCalled} \cup [state : {"calling", "counting", "admitted", "refused"},
                         scope : 1 .. Scopes, born : 0 .. LastSecond, at : 0 .. LastSecond]]

RateLimitsInit ==
  /\ second = 0
  /\ bucket = [b \in Buckets |-> 0]
  /\ passed = [b \in Buckets |-> 0]
  /\ caller = [c \in Callers |-> NotCalled]

Alive(c) == caller[c].state \in {"calling", "counting"}

Call(c) ==
  /\ caller[c] = NotCalled
  /\ caller' = [caller EXCEPT ![c] =
       [state |-> "calling", scope |-> 1, born |-> second, at |-> second]]
  /\ UNCHANGED <<second, bucket, passed>>

\* The statement of the next scope starts: now() is fixed.
StartCount(c) ==
  /\ caller[c].state = "calling"
  /\ caller' = [caller EXCEPT ![c].state = "counting", ![c].at = second]
  /\ UNCHANGED <<second, bucket, passed>>

Full(b) == bucket[b] >= RateLimit[b[1]]

\* The upsert counts, or raises and takes its count back.
Count(c) ==
  LET b == <<caller[c].scope, caller[c].at \div Window>>
  IN  /\ caller[c].state = "counting"
      /\ IF Full(b)
           THEN /\ caller' = [caller EXCEPT ![c].state = "refused"]
                /\ UNCHANGED <<bucket, passed>>
           ELSE /\ bucket' = [bucket EXCEPT ![b] = @ + 1]
                /\ passed' = [passed EXCEPT ![b] = @ + 1]
                /\ caller' =
                     IF caller[c].scope = Scopes THEN [caller EXCEPT ![c].state = "admitted"]
                     ELSE [caller EXCEPT ![c].state = "calling", ![c].scope = caller[c].scope + 1]
      /\ UNCHANGED second

\* A function that is killed, or a query that fails, lets nothing through.
CountFails(c) ==
  /\ Alive(c)
  /\ caller' = [caller EXCEPT ![c].state = "refused"]
  /\ UNCHANGED <<second, bucket, passed>>

\* Faulty variant of Expiry: a bucket is over when its window is.
ExpiryOfWindow(w) == (w + 1) * Window

Expiry(w) == (w + 2) * Window

\* cleanupExpiredRateLimitBuckets
Cleanup ==
  /\ \E b \in Buckets : bucket[b] > 0 /\ Expiry(b[2]) < second
  /\ bucket' = [b \in Buckets |-> IF Expiry(b[2]) < second THEN 0 ELSE bucket[b]]
  /\ UNCHANGED <<second, passed, caller>>

RateTick ==
  /\ second < LastSecond
  /\ \A c \in Callers : Alive(c) => second < caller[c].born + CallTime
  /\ second' = second + 1
  /\ UNCHANGED <<bucket, passed, caller>>

RateLimitsNext ==
  \/ \E c \in Callers : Call(c) \/ StartCount(c) \/ Count(c) \/ CountFails(c)
  \/ Cleanup
  \/ RateTick

RateLimitsSpec == RateLimitsInit /\ [][RateLimitsNext]_rateVars

-----------------------------------------------------------------------------
(* Properties *)

\* No scope lets more requests through in one window than its limit, however long
\* an upsert waits and whenever the cron removes the buckets of the past.
AdmittedWithinLimit == \A b \in Buckets : passed[b] <= RateLimit[b[1]]

=============================================================================
