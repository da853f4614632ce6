-------------------------------- MODULE Campaigns --------------------------------
(***************************************************************************)
(* A campaign from its creation to its revocation: the row and, for a      *)
(* discount, the coupon and the promotion code at Stripe are made and      *)
(* taken back one call at a time (createCampaign, revokeCampaign), while   *)
(* customers redeem its code (claim_pressay_access; Stripe's checkout).    *)
(*                                                                         *)
(* Deleting a coupon makes its promotion codes unusable.                   *)
(***************************************************************************)
EXTENDS Integers, FiniteSets

CONSTANTS
  Claimants,     \* accounts that redeem the code
  Revokers,      \* requests that revoke the campaign
  MaxRedemptions \* max_redemptions

ASSUME MaxRedemptionsAssumption == MaxRedemptions \in Nat \ {0}

VARIABLES
  campaign,      \* access_campaign
  offer,         \* the coupon and the promotion code at Stripe
  maker,         \* the request that creates the campaign
  revoker,       \* the requests that revoke it
  redeemed,      \* access_grant of the campaign, or discounts taken at Stripe
  claim,         \* what open claims have checked
  over           \* a revocation that began after the creation was answered

campaignVars == <<campaign, offer, maker, revoker, redeemed, claim, over>>

-----------------------------------------------------------------------------
(* Types *)

CampaignKinds == {"access_grant", "stripe_discount"}
CampaignStatus == {"none", "provisioning", "active", "revoking", "revoked", "failed"}
MakerSteps == {"start", "coupon", "naming", "promotion", "activating", "failing", "ended"}
RevokerStep == {"new", "reading", "deactivating", "deleting", "closing", "answered", "stopped"}
\* promotion, coupon: what the row said when the revocation read it.  late: it began
\* after the creation had ended.
Revoker == [step : RevokerStep, promotion : BOOLEAN, coupon : BOOLEAN, late : BOOLEAN]
NewRevoker == [step |-> "new", promotion |-> FALSE, coupon |-> FALSE, late |-> FALSE]

CampaignsTypeOK ==
  /\ campaign \in [kind : CampaignKinds, status : CampaignStatus, coupon : BOOLEAN,
                   promotion : BOOLEAN, redemptions : Nat]
  /\ offer \in [coupon : {"none", "valid", "deleted"}, promotion : {"none", "active", "inactive"}]
  /\ maker \in MakerSteps
  /\ revoker \in [Revokers -> Revoker]
  /\ redeemed \in SUBSET Claimants
  /\ claim \in [Claimants -> {"none", "checked", "ended"}]
  /\ over \in BOOLEAN

CampaignsInit ==
  /\ campaign \in [kind : CampaignKinds, status : {"none"}, coupon : {FALSE},
                   promotion : {FALSE}, redemptions : {0}]
  /\ offer = [coupon |-> "none", promotion |-> "none"]
  /\ maker = "start"
  /\ revoker = [r \in Revokers |-> NewRevoker]
  /\ redeemed = {}
  /\ claim = [c \in Claimants |-> "none"]
  /\ over = FALSE

Discount == campaign.kind = "stripe_discount"

\* Faulty variant of RowFree: a claim reads the campaign's row without its lock.
RowFreeAlways == TRUE

\* FOR UPDATE in claim_pressay_access: nobody writes the row while a claim is open.
RowFree == \A c \in Claimants : claim[c] # "checked"

-----------------------------------------------------------------------------
(* createCampaign *)

\* Both kinds start from the same insert; a grant needs nothing else.
InsertCampaign ==
  /\ maker = "start"
  /\ campaign' = [campaign EXCEPT !.status = "provisioning"]
  /\ maker' = IF Discount THEN "coupon" ELSE "activating"
  /\ UNCHANGED <<offer, revoker, redeemed, claim, over>>

CreateCoupon ==
  /\ maker = "coupon"
  /\ offer' = [offer EXCEPT !.coupon = "valid"]
  /\ maker' = "naming"
  /\ UNCHANGED <<campaign, revoker, redeemed, claim, over>>

\* The row names the coupon before it has a promotion code.
NameCoupon ==
  /\ maker = "naming"
  /\ RowFree
  /\ campaign' = [campaign EXCEPT !.coupon = TRUE]
  /\ maker' = "promotion"
  /\ UNCHANGED <<offer, revoker, redeemed, claim, over>>

\* Stripe refuses a promotion code of a deleted coupon.
CreatePromotion ==
  /\ maker = "promotion"
  /\ IF offer.coupon = "deleted"
       THEN maker' = "failing" /\ UNCHANGED offer
       ELSE maker' = "activating" /\ offer' = [offer EXCEPT !.promotion = "active"]
  /\ UNCHANGED <<campaign, revoker, redeemed, claim, over>>

\* Whatever became of the row in between.
Activate ==
  /\ maker = "activating"
  /\ RowFree
  /\ campaign' = [campaign EXCEPT !.status = "active", !.coupon = Discount,
                                  !.promotion = Discount]
  /\ maker' = "ended"
  /\ UNCHANGED <<offer, revoker, redeemed, claim, over>>

\* A call fails, or its answer is lost: Stripe may have done what it was asked.
CreationFails ==
  /\ maker \in {"coupon", "naming", "promotion", "activating"}
  /\ maker' = "failing"
  /\ \/ UNCHANGED offer
     \/ maker = "coupon" /\ offer' = [offer EXCEPT !.coupon = "valid"]
     \/ /\ maker = "promotion" /\ offer.coupon = "valid"
        /\ offer' = [offer EXCEPT !.promotion = "active"]
  /\ UNCHANGED <<campaign, revoker, redeemed, claim, over>>

RecordFailure ==
  /\ maker = "failing"
  /\ RowFree
  /\ campaign' = IF campaign.status = "provisioning"
                   THEN [campaign EXCEPT !.status = "failed"] ELSE campaign
  /\ maker' = "ended"
  /\ UNCHANGED <<offer, revoker, redeemed, claim, over>>

\* The function is killed: the row stays as it is.
MakerDies ==
  /\ maker \notin {"start", "ended"}
  /\ maker' = "ended"
  /\ UNCHANGED <<campaign, offer, revoker, redeemed, claim, over>>

-----------------------------------------------------------------------------
(* revokeCampaign *)

RevokerAt(r, step) == revoker[r].step = step

StartRevocation(r) ==
  /\ RevokerAt(r, "new")
  /\ campaign.status # "none"
  /\ revoker' = [revoker EXCEPT ![r].step = "reading", ![r].late = maker = "ended"]
  /\ UNCHANGED <<campaign, offer, maker, redeemed, claim, over>>

MarkRevoking(r) ==
  /\ RevokerAt(r, "reading")
  /\ RowFree
  /\ campaign' = [campaign EXCEPT !.status = "revoking"]
  /\ revoker' = [revoker EXCEPT ![r].step = "deactivating",
                   ![r].promotion = campaign.promotion, ![r].coupon = campaign.coupon]
  /\ UNCHANGED <<offer, maker, redeemed, claim, over>>

DeactivatePromotion(r) ==
  /\ RevokerAt(r, "deactivating")
  /\ offer' = IF revoker[r].promotion THEN [offer EXCEPT !.promotion = "inactive"] ELSE offer
  /\ revoker' = [revoker EXCEPT ![r].step = "deleting"]
  /\ UNCHANGED <<campaign, maker, redeemed, claim, over>>

\* One that is deleted already is no error.
DeleteCoupon(r) ==
  /\ RevokerAt(r, "deleting")
  /\ offer' = IF revoker[r].coupon THEN [offer EXCEPT !.coupon = "deleted"] ELSE offer
  /\ revoker' = [revoker EXCEPT ![r].step = "closing"]
  /\ UNCHANGED <<campaign, maker, redeemed, claim, over>>

CloseRevocation(r) ==
  /\ RevokerAt(r, "closing")
  /\ RowFree
  /\ campaign' = [campaign EXCEPT !.status = "revoked"]
  /\ revoker' = [revoker EXCEPT ![r].step = "answered"]
  /\ over' = (over \/ revoker[r].late)
  /\ UNCHANGED <<offer, maker, redeemed, claim>>

\* A call fails or the function is killed: the row stays "revoking", to be revoked again.
RevocationFails(r) ==
  /\ revoker[r].step \in {"reading", "deactivating", "deleting", "closing"}
  /\ revoker' = [revoker EXCEPT ![r].step = "stopped"]
  /\ UNCHANGED <<campaign, offer, maker, redeemed, claim, over>>

-----------------------------------------------------------------------------
(* Redemption *)

Claimable ==
  /\ campaign.status = "active"
  /\ campaign.redemptions < MaxRedemptions

\* claimAccess: the row is checked under its lock, which a revocation waits for too.
CheckClaim(c) ==
  /\ ~Discount
  /\ claim[c] = "none" /\ c \notin redeemed
  /\ Claimable
  /\ RowFree
  /\ claim' = [claim EXCEPT ![c] = "checked"]
  /\ UNCHANGED <<campaign, offer, maker, revoker, redeemed, over>>

EndClaim(c) ==
  /\ claim[c] = "checked"
  /\ claim' = [claim EXCEPT ![c] = "ended"]
  /\ \/ UNCHANGED <<campaign, redeemed>>
     \/ /\ campaign' = [campaign EXCEPT !.redemptions = @ + 1]
        /\ redeemed' = redeemed \cup {c}
  /\ UNCHANGED <<offer, maker, revoker, over>>

\* A discount is taken at Stripe, which counts for itself.
Redeemable == offer.promotion = "active" /\ offer.coupon = "valid"

TakeDiscount(c) ==
  /\ Redeemable
  /\ c \notin redeemed
  /\ Cardinality(redeemed) < MaxRedemptions
  /\ redeemed' = redeemed \cup {c}
  /\ UNCHANGED <<campaign, offer, maker, revoker, claim, over>>

CampaignsNext ==
  \/ InsertCampaign \/ CreateCoupon \/ NameCoupon \/ CreatePromotion \/ Activate
  \/ CreationFails \/ RecordFailure \/ MakerDies
  \/ \E r \in Revokers :
       \/ StartRevocation(r) \/ MarkRevoking(r) \/ DeactivatePromotion(r)
       \/ DeleteCoupon(r) \/ CloseRevocation(r) \/ RevocationFails(r)
  \/ \E c \in Claimants : CheckClaim(c) \/ EndClaim(c) \/ TakeDiscount(c)

CampaignsSpec == CampaignsInit /\ [][CampaignsNext]_campaignVars

-----------------------------------------------------------------------------
(* Properties *)

\* A revocation that began after the creation had ended, however that ended, and was
\* answered, is final: the code is not redeemed again, at Stripe or here, and no
\* other request opens the campaign again.
RevokedIsOver ==
  [][over => redeemed' = redeemed /\ campaign'.status \in {"revoking", "revoked"}]_campaignVars

=============================================================================
