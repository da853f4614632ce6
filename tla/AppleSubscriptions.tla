--------------------------- MODULE AppleSubscriptions ---------------------------
(***************************************************************************)
(* App Store purchases: Apple notifies every change, late, again and out   *)
(* of order (processAppleWebhook), and the app restores a purchase or      *)
(* links it to the account that is signed in (restoreAppStorePurchase).    *)
(* Both look for the account in one statement and write the purchase's row *)
(* in another (applyAppleSubscription).                                    *)
(*                                                                         *)
(* What Apple signs carries the time of its signature.                     *)
(***************************************************************************)
EXTENDS Integers, FiniteSets

CONSTANTS
  Buyers,        \* accounts
  Bought,        \* original transactions
  SandboxAllowed,   \* accounts on APPLE_SANDBOX_ALLOWED_ACCOUNT_IDS
  Notices,       \* notifications Apple sends
  Hooks,         \* functions that receive them
  Restores,      \* restorations, each with its idempotency key
  LastSigned     \* bound of the changes Apple makes

ASSUME SandboxScope == SandboxAllowed \subseteq Buyers
ASSUME LastSignedAssumption == LastSigned \in Nat

VARIABLES
  signed,      \* Apple's clock: every change has a time of its own
  sandboxed,   \* purchases of Apple's Sandbox
  token,       \* appAccountToken of each purchase
  store,       \* the purchases as Apple has them
  notice,      \* what Apple has sent
  answered,    \* notices answered with 200: Apple stops sending them
  noted,       \* provider_event.state of each notice
  appleRow,    \* billing_subscription
  appleCustomer,    \* billing_customer.app_store_original_transaction_id
  hook,        \* the functions that receive notices
  restore,     \* the restorations
  overlooked   \* purchases that a notice was ignored of: it found another account linked,
               \* or none while a restoration had already read the purchase's status

bought == <<sandboxed, token>>
appleVars == <<signed, bought, store, notice, answered, noted, appleRow, appleCustomer,
               hook, restore, overlooked>>

-----------------------------------------------------------------------------
(* Types *)

Times == 0 .. LastSigned
\* mapAppleStatus: what grants access, what ended, what was taken back.
AppleStatus == {"active", "expired", "refunded"}
NotBought == [status |-> "none", at |-> 0]
NoBuyer == [nobody |-> TRUE]
NoPurchase == [nothing |-> TRUE]
Purchase == [status : AppleStatus, at : Times]
NoNotice == [none |-> TRUE]
Notice == [purchase : Bought, status : AppleStatus, at : Times]
AppleRow == [buyer : Buyers, status : AppleStatus, stamp : Times]
NoAppleRow == [none |-> TRUE]
IdleHook == [step |-> "idle"]
Hook == [step : {"resolving", "applying"}, notice : Notices, buyer : Buyers \cup {NoBuyer}]
NewRestore == [step |-> "new"]
Restore == [step : {"asking", "applying", "restored", "refused"}, buyer : Buyers,
            purchase : Bought, read : Purchase \cup {NotBought}]

AppleTypeOK ==
  /\ signed \in Times
  /\ sandboxed \in SUBSET Bought
  /\ token \in [Bought -> Buyers \cup {NoBuyer}]
  /\ store \in [Bought -> Purchase \cup {NotBought}]
  /\ notice \in [Notices -> Notice \cup {NoNotice}]
  /\ answered \in SUBSET Notices
  /\ noted \in [Notices -> {"none", "failed", "applied", "ignored"}]
  /\ appleRow \in [Bought -> AppleRow \cup {NoAppleRow}]
  /\ appleCustomer \in [Buyers -> Bought \cup {NoPurchase}]
  /\ hook \in [Hooks -> Hook \cup {IdleHook}]
  /\ restore \in [Restores -> Restore \cup {NewRestore}]
  /\ overlooked \in SUBSET Bought

ASSUME AppleNamesAssumption == NoBuyer \notin Buyers /\ NoPurchase \notin Bought

AppleInit ==
  /\ signed = 0
  /\ sandboxed \in SUBSET Bought
  /\ token \in [Bought -> Buyers \cup {NoBuyer}]
  /\ store = [o \in Bought |-> NotBought]
  /\ notice = [n \in Notices |-> NoNotice]
  /\ answered = {}
  /\ noted = [n \in Notices |-> "none"]
  /\ appleRow = [o \in Bought |-> NoAppleRow]
  /\ appleCustomer = [a \in Buyers |-> NoPurchase]
  /\ hook = [h \in Hooks |-> IdleHook]
  /\ restore = [r \in Restores |-> NewRestore]
  /\ overlooked = {}

-----------------------------------------------------------------------------
(* Apple *)

AppleMoves == {<<"none", "active">>, <<"active", "expired">>, <<"active", "refunded">>,
               <<"expired", "active">>}

\* A purchase changes, and Apple signs a notice of it.
AppleChanges(o, n) ==
  /\ signed < LastSigned
  /\ notice[n] = NoNotice
  /\ signed' = signed + 1
  /\ \E status \in AppleStatus :
       /\ <<store[o].status, status>> \in AppleMoves
       /\ store' = [store EXCEPT ![o] = [status |-> status, at |-> signed']]
       /\ notice' = [notice EXCEPT ![n] = [purchase |-> o, status |-> status, at |-> signed']]
  /\ UNCHANGED <<bought, answered, noted, appleRow, appleCustomer, hook, restore, overlooked>>

\* A notice is sent, or sent again, until it is answered.
Notify(h, n) ==
  /\ hook[h] = IdleHook
  /\ notice[n] # NoNotice /\ n \notin answered
  /\ hook' = [hook EXCEPT ![h] = [step |-> "resolving", notice |-> n, buyer |-> NoBuyer]]
  /\ UNCHANGED <<signed, bought, store, notice, answered, noted, appleRow, appleCustomer,
                 restore, overlooked>>

-----------------------------------------------------------------------------
(* applyAppleSubscription: one statement *)

\* Faulty variant of CustomerOf: the account's purchase is replaced.
CustomerOfAny(o, a) == TRUE

\* The account has no other purchase, and no other account has this one.
CustomerOf(o, a) == o \in sandboxed \/ appleCustomer[a] \in {NoPurchase, o}
TakenByOther(o, a) == o \notin sandboxed /\ \E b \in Buyers \ {a} : appleCustomer[b] = o

\* Only the account that has the purchase, and nothing older than what is known.
Accepts(o, a, stamp) ==
  \/ appleRow[o] = NoAppleRow
  \/ appleRow[o].buyer = a /\ appleRow[o].stamp <= stamp

\* The event is new or is taken over from a failed attempt; a customer that conflicts
\* leaves the rest undone, and one that another account has raises.
Applies(fresh, o, a, stamp) ==
  fresh /\ CustomerOf(o, a) /\ ~TakenByOther(o, a) /\ Accepts(o, a, stamp)

Apply(fresh, o, a, status, stamp) ==
  /\ appleRow' = IF Applies(fresh, o, a, stamp)
       THEN [appleRow EXCEPT ![o] = [buyer |-> a, status |-> status, stamp |-> stamp]]
       ELSE appleRow
  /\ appleCustomer' =
       IF fresh /\ o \notin sandboxed /\ CustomerOf(o, a) /\ ~TakenByOther(o, a)
         THEN [appleCustomer EXCEPT ![a] = o] ELSE appleCustomer

Linked(o, a) == appleRow[o] # NoAppleRow /\ appleRow[o].buyer # a

-----------------------------------------------------------------------------
(* processAppleWebhook *)

\* Faulty variant of Resolved: the token is believed before the row.
ResolvedByToken(o) ==
  IF token[o] # NoBuyer THEN token[o]
  ELSE IF appleRow[o] # NoAppleRow THEN appleRow[o].buyer ELSE NoBuyer

Resolved(o) ==
  IF appleRow[o] # NoAppleRow THEN appleRow[o].buyer ELSE token[o]

\* applySandboxPolicy
Permitted(o, a) == o \in sandboxed => a \in SandboxAllowed

\* A restoration of the purchase that has read its status and not written it yet.
Linking(o) == \E r \in Restores :
  restore[r] # NewRestore /\ restore[r].step = "applying" /\ restore[r].purchase = o

\* recordIgnoredAppleEvent, which keeps what is processed already.
Ignore(n) == noted' = IF noted[n] \in {"none", "failed"}
                        THEN [noted EXCEPT ![n] = "ignored"] ELSE noted

AnswerNotice(h) ==
  /\ answered' = answered \cup {hook[h].notice}
  /\ hook' = [hook EXCEPT ![h] = IdleHook]

Resolve(h) ==
  /\ hook[h] # IdleHook /\ hook[h].step = "resolving"
  /\ LET n == hook[h].notice
         o == notice[n].purchase
         a == Resolved(o)
     IN  IF a # NoBuyer /\ Permitted(o, a)
           THEN /\ hook' = [hook EXCEPT ![h].step = "applying", ![h].buyer = a]
                /\ UNCHANGED <<answered, noted, overlooked>>
           ELSE /\ Ignore(n)
                /\ AnswerNotice(h)
                /\ overlooked' = IF Linking(o) THEN overlooked \cup {o} ELSE overlooked
  /\ UNCHANGED <<signed, bought, store, notice, appleRow, appleCustomer, restore>>

ApplyNotice(h) ==
  /\ hook[h] # IdleHook /\ hook[h].step = "applying"
  /\ LET n == hook[h].notice
         o == notice[n].purchase
         a == hook[h].buyer
         fresh == noted[n] \in {"none", "failed"}
     IN  /\ Apply(fresh, o, a, notice[n].status, notice[n].at)
         /\ noted' = IF ~fresh THEN noted
              ELSE [noted EXCEPT ![n] =
                      IF Applies(fresh, o, a, notice[n].at) THEN "applied" ELSE "ignored"]
         /\ overlooked' =
              IF fresh /\ (Linked(o, a) \/ TakenByOther(o, a) \/ (~CustomerOf(o, a) /\ Linking(o)))
                THEN overlooked \cup {o} ELSE overlooked
  /\ AnswerNotice(h)
  /\ UNCHANGED <<signed, bought, store, notice, restore>>

\* A query throws: the event is recorded as failed, where it is not processed yet, and
\* Apple sends it again; or the function is killed and nothing is recorded.
NoticeFails(h) ==
  /\ hook[h] # IdleHook
  /\ LET n == hook[h].notice
     IN  \/ UNCHANGED noted
         \/ noted[n] = "none" /\ noted' = [noted EXCEPT ![n] = "failed"]
  /\ hook' = [hook EXCEPT ![h] = IdleHook]
  /\ UNCHANGED <<signed, bought, store, notice, answered, appleRow, appleCustomer, restore, overlooked>>

-----------------------------------------------------------------------------
(* restoreAppStorePurchase *)

Owners(o) == {a \in Buyers : \/ appleRow[o] # NoAppleRow /\ appleRow[o].buyer = a
                             \/ o \notin sandboxed /\ appleCustomer[a] = o}

\* A purchase of another account, or of none, is linked only on request and while
\* nobody else has it.
MayRestore(o, a, link) == token[o] = a \/ (link /\ Owners(o) \subseteq {a})

\* A killed restoration starts again with the same key, of which nothing is known.
StartRestore(r, a, o, link) ==
  /\ restore[r] = NewRestore
  /\ store[o] # NotBought
  /\ restore' = [restore EXCEPT ![r] =
       [step |-> IF MayRestore(o, a, link) THEN "asking" ELSE "refused",
        buyer |-> a, purchase |-> o, read |-> NotBought]]
  /\ UNCHANGED <<signed, bought, store, notice, answered, noted, appleRow, appleCustomer, hook,
                 overlooked>>

RestoreAt(r, step) == restore[r].step = step

\* Apple's answer is signed when it is asked for.
AskApple(r) ==
  /\ RestoreAt(r, "asking")
  /\ LET o == restore[r].purchase
     IN  restore' = [restore EXCEPT ![r].read = [store[o] EXCEPT !.at = signed],
           ![r].step = IF Permitted(o, restore[r].buyer) THEN "applying" ELSE "refused"]
  /\ UNCHANGED <<signed, bought, store, notice, answered, noted, appleRow, appleCustomer, hook,
                 overlooked>>

\* One that is older than the row is answered as restored too.
ApplyRestore(r) ==
  /\ RestoreAt(r, "applying")
  /\ LET o == restore[r].purchase
         a == restore[r].buyer
     IN  /\ Apply(TRUE, o, a, restore[r].read.status, restore[r].read.at)
         /\ restore' = [restore EXCEPT ![r].step =
              IF ~CustomerOf(o, a) \/ TakenByOther(o, a) \/ Linked(o, a)
                THEN "refused" ELSE "restored"]
  /\ UNCHANGED <<signed, bought, store, notice, answered, noted, hook, overlooked>>

RestoreDies(r) ==
  /\ restore[r].step \in {"asking", "applying"}
  /\ restore' = [restore EXCEPT ![r] = NewRestore]
  /\ UNCHANGED <<signed, bought, store, notice, answered, noted, appleRow, appleCustomer, hook,
                 overlooked>>

AppleNext ==
  \/ \E o \in Bought, n \in Notices : AppleChanges(o, n)
  \/ \E h \in Hooks :
       \/ \E n \in Notices : Notify(h, n)
       \/ Resolve(h) \/ ApplyNotice(h) \/ NoticeFails(h)
  \/ \E r \in Restores :
       \/ \E a \in Buyers, o \in Bought, link \in BOOLEAN : StartRestore(r, a, o, link)
       \/ AskApple(r) \/ ApplyRestore(r) \/ RestoreDies(r)

AppleSpec == AppleInit /\ [][AppleNext]_appleVars

-----------------------------------------------------------------------------
(* Properties *)

\* A purchase stays with the account that has it, and an account's only purchase in
\* Apple's production with its account, whoever links, restores or is notified since.
PurchaseKeepsItsAccount ==
  [][\A o \in Bought : appleRow[o] # NoAppleRow =>
       /\ appleRow'[o].buyer = appleRow[o].buyer
       /\ o \notin sandboxed => appleCustomer'[appleRow[o].buyer] = o]_appleVars

Quiet(o) ==
  /\ \A n \in Notices : notice[n] # NoNotice /\ notice[n].purchase = o => n \in answered
  /\ \A h \in Hooks : hook[h] # IdleHook => notice[hook[h].notice].purchase # o
  /\ ~Linking(o)

\* Once Apple's notices of a purchase are answered, in whatever order they came, the
\* row of the purchase says what Apple says.  Excepted (overlooked) is a purchase of
\* which a notice was ignored because another account than the one it had found was
\* linked by then, or because it found none, or one with another purchase, while a
\* restoration was about to write what it had read before.
PurchasesConverge ==
  \A o \in Bought :
    Quiet(o) /\ appleRow[o] # NoAppleRow /\ o \notin overlooked
      => appleRow[o].status = store[o].status

=============================================================================
