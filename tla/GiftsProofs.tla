-------------------------------- MODULE GiftsProofs --------------------------------
(***************************************************************************)
(* Proofs of Campaigns and Referrals, for any number of claimants, revokers*)
(* rewards and runners, and any times: what is over stays over, a reward   *)
(* is credited once and what is reversed is taken back.                    *)
(*                                                                         *)
(* A campaign rests on the order in which its names reach Stripe and the   *)
(* row (OfferIsNamed, RevokerInv); a reward on the lease of the runner     *)
(* that works on it, which outlives the runner (ReferralsInv).             *)
(***************************************************************************)
EXTENDS MCCommerce, BillingProofs, TLAPS

-----------------------------------------------------------------------------
(* CAMPAIGNS                                                               *)

(* The inductive invariant *)

Shut == campaign.status \in {"revoking", "revoked"}

\* What can be redeemed at Stripe is named by the row, before it can be.
OfferIsNamed ==
  /\ maker \in {"coupon", "naming", "promotion"} => Discount
  /\ maker = "promotion" => campaign.coupon
  /\ offer.promotion = "active" => Discount /\ campaign.coupon

\* A revocation that began after the creation had ended reads all that there will be,
\* and finds no claim open; when it is about to close, nothing can be redeemed.
RevokerInv(r) ==
  revoker[r].late =>
    /\ maker = "ended"
    /\ revoker[r].step \in {"deactivating", "deleting", "closing"} =>
         /\ Shut /\ RowFree
         /\ campaign.coupon => revoker[r].coupon
    /\ revoker[r].step = "closing" /\ revoker[r].coupon => offer.coupon = "deleted"

OverIsOver == over => maker = "ended" /\ Shut /\ RowFree /\ ~Redeemable

CampaignsInv ==
  /\ CampaignsTypeOK
  /\ OfferIsNamed
  /\ \A r \in Revokers : RevokerInv(r)
  /\ OverIsOver

-----------------------------------------------------------------------------
(* Records *)

CampaignRow == [kind : CampaignKinds, status : CampaignStatus, coupon : BOOLEAN,
                promotion : BOOLEAN, redemptions : Nat]
Offer == [coupon : {"none", "valid", "deleted"}, promotion : {"none", "active", "inactive"}]

LEMMA CampaignsTypes ==
  ASSUME CampaignsTypeOK
  PROVE  /\ campaign \in CampaignRow /\ offer \in Offer
         /\ \A r \in Revokers : revoker[r] \in Revoker
  BY DEF CampaignsTypeOK, CampaignRow, Offer

\* A write of the row's status keeps its kind and what it names.
LEMMA StatusWritten ==
  ASSUME NEW c \in CampaignRow, NEW status \in CampaignStatus
  PROVE  LET new == [c EXCEPT !.status = status]
         IN  /\ new \in CampaignRow /\ new.status = status /\ new.kind = c.kind
             /\ new.coupon <=> c.coupon
  BY DEF CampaignRow

LEMMA OwnRevoker ==
  ASSUME CampaignsTypeOK, NEW r \in Revokers, NEW new \in Revoker,
         revoker' = [revoker EXCEPT ![r] = new]
  PROVE  /\ revoker'[r] = new
         /\ \A q \in Revokers : q # r => revoker'[q] = revoker[q]
         /\ revoker' \in [Revokers -> Revoker]
  BY DEF CampaignsTypeOK

\* A revocation moves on, and keeps what it has read.
LEMMA RevokerMoves ==
  ASSUME CampaignsTypeOK, NEW r \in Revokers, NEW step \in RevokerStep,
         revoker' = [revoker EXCEPT ![r].step = step]
  PROVE  /\ revoker'[r].step = step
         /\ revoker'[r].late <=> revoker[r].late
         /\ revoker'[r].coupon <=> revoker[r].coupon
         /\ \A q \in Revokers : q # r => revoker'[q] = revoker[q]
         /\ revoker' \in [Revokers -> Revoker]
<1> DEFINE old == revoker[r]
           new == [old EXCEPT !.step = step]
<1>1. old \in Revoker /\ revoker' = [revoker EXCEPT ![r] = new]
  BY CampaignsTypes
<1> HIDE DEF old
<1>2. /\ new \in Revoker /\ new.step = step
      /\ new.late <=> old.late
      /\ new.coupon <=> old.coupon
  BY <1>1 DEF Revoker
<1> HIDE DEF new
<1>3. /\ revoker'[r] = new
      /\ \A q \in Revokers : q # r => revoker'[q] = revoker[q]
      /\ revoker' \in [Revokers -> Revoker]
  BY <1>1, <1>2, OwnRevoker
<1>4. QED
  BY <1>2, <1>3 DEF old

-----------------------------------------------------------------------------
(* The request that creates the campaign *)

\* While it works, no revocation is late and none is over.
LEMMA MakerWorks ==
  ASSUME CampaignsInv, maker # "ended"
  PROVE  ~over /\ \A r \in Revokers : ~revoker[r].late
  BY DEF CampaignsInv, OverIsOver, RevokerInv

LEMMA MakerStep ==
  ASSUME CampaignsInv,
         \/ InsertCampaign \/ CreateCoupon \/ NameCoupon \/ CreatePromotion \/ Activate
         \/ CreationFails \/ RecordFailure \/ MakerDies
  PROVE  CampaignsInv'
<1>t. /\ CampaignsTypeOK /\ OfferIsNamed /\ campaign \in CampaignRow /\ offer \in Offer
  BY CampaignsTypes DEF CampaignsInv
<1>1. maker # "ended" /\ UNCHANGED <<revoker, redeemed, claim, over>>
  BY DEF InsertCampaign, CreateCoupon, NameCoupon, CreatePromotion, Activate, CreationFails,
    RecordFailure, MakerDies
<1>2. ~over /\ \A r \in Revokers : ~revoker[r].late
  BY <1>1, MakerWorks
<1>3. OverIsOver' /\ \A r \in Revokers : RevokerInv(r)'
  BY <1>1, <1>2 DEF OverIsOver, RevokerInv
<1>4. ASSUME campaign' \in CampaignRow, offer' \in Offer, maker' \in MakerSteps, OfferIsNamed'
      PROVE  CampaignsInv'
  <2>1. CampaignsTypeOK'
    BY <1>t, <1>1, <1>4 DEF CampaignsTypeOK, CampaignRow, Offer
  <2>2. QED
    BY <1>3, <1>4, <2>1 DEF CampaignsInv
<1>s. {"coupon", "naming", "promotion", "activating", "failing", "ended"} \subseteq MakerSteps
      /\ {"provisioning", "active", "failed"} \subseteq CampaignStatus
  BY DEF MakerSteps, CampaignStatus
<1>5. ASSUME InsertCampaign PROVE CampaignsInv'
  <2>1. /\ campaign' = [campaign EXCEPT !.status = "provisioning"] /\ offer' = offer
        /\ maker' = IF Discount THEN "coupon" ELSE "activating"
    BY <1>5 DEF InsertCampaign
  <2>2. campaign' \in CampaignRow /\ campaign'.kind = campaign.kind /\ (campaign'.coupon <=> campaign.coupon)
    BY <1>t, <1>s, <2>1, StatusWritten
  <2>3. OfferIsNamed'
    BY <1>t, <2>1, <2>2 DEF OfferIsNamed, Discount
  <2>4. QED
    BY <1>t, <1>s, <1>4, <2>1, <2>2, <2>3
<1>6. ASSUME CreateCoupon PROVE CampaignsInv'
  <2>1. /\ maker = "coupon" /\ offer' = [offer EXCEPT !.coupon = "valid"] /\ maker' = "naming"
        /\ campaign' = campaign
    BY <1>6 DEF CreateCoupon
  <2>2. offer' \in Offer /\ offer'.promotion = offer.promotion
    BY <1>t, <2>1 DEF Offer
  <2>3. OfferIsNamed'
    BY <1>t, <2>1, <2>2 DEF OfferIsNamed, Discount
  <2>4. QED
    BY <1>t, <1>s, <1>4, <2>1, <2>2, <2>3
<1>7. ASSUME NameCoupon PROVE CampaignsInv'
  <2>1. /\ maker = "naming" /\ campaign' = [campaign EXCEPT !.coupon = TRUE]
        /\ maker' = "promotion" /\ offer' = offer
    BY <1>7 DEF NameCoupon
  <2>2. campaign' \in CampaignRow /\ campaign'.kind = campaign.kind /\ campaign'.coupon
    BY <1>t, <2>1 DEF CampaignRow
  <2>3. OfferIsNamed'
    BY <1>t, <2>1, <2>2 DEF OfferIsNamed, Discount
  <2>4. QED
    BY <1>t, <1>s, <1>4, <2>1, <2>2, <2>3
<1>8. ASSUME CreatePromotion PROVE CampaignsInv'
  <2>1. /\ maker = "promotion" /\ maker' \in {"failing", "activating"} /\ campaign' = campaign
        /\ offer' = offer \/ offer' = [offer EXCEPT !.promotion = "active"]
    BY <1>8 DEF CreatePromotion
  <2>2. offer' \in Offer
    BY <1>t, <2>1 DEF Offer
  <2>3. OfferIsNamed'
    BY <1>t, <2>1 DEF OfferIsNamed, Discount
  <2>4. QED
    BY <1>t, <1>s, <1>4, <2>1, <2>2, <2>3
<1>9. ASSUME Activate PROVE CampaignsInv'
  <2> DEFINE discount == Discount
  <2>1. /\ campaign' = [campaign EXCEPT !.status = "active", !.coupon = discount,
                                        !.promotion = discount]
        /\ maker' = "ended" /\ offer' = offer
    BY <1>9 DEF Activate
  <2>2. discount \in BOOLEAN /\ (discount <=> Discount)
    BY DEF Discount
  <2> HIDE DEF discount
  <2>3. /\ campaign' \in CampaignRow /\ campaign'.kind = campaign.kind
        /\ campaign'.coupon <=> discount
    BY <1>t, <1>s, <2>1, <2>2 DEF CampaignRow
  <2>4. OfferIsNamed'
    BY <1>t, <2>1, <2>2, <2>3 DEF OfferIsNamed, Discount
  <2>5. QED
    BY <1>t, <1>s, <1>4, <2>1, <2>3, <2>4
<1>10. ASSUME CreationFails PROVE CampaignsInv'
  <2>1. /\ maker' = "failing" /\ campaign' = campaign
        /\ \/ offer' = offer
           \/ offer' = [offer EXCEPT !.coupon = "valid"]
           \/ maker = "promotion" /\ offer' = [offer EXCEPT !.promotion = "active"]
    BY <1>10 DEF CreationFails
  <2>2. offer' \in Offer /\ (offer'.promotion = offer.promotion \/ maker = "promotion")
    BY <1>t, <2>1 DEF Offer
  <2>3. OfferIsNamed'
    BY <1>t, <2>1, <2>2 DEF OfferIsNamed, Discount
  <2>4. QED
    BY <1>t, <1>s, <1>4, <2>1, <2>2, <2>3
<1>11. ASSUME RecordFailure PROVE CampaignsInv'
  <2>1. /\ campaign' = campaign \/ campaign' = [campaign EXCEPT !.status = "failed"]
        /\ maker' = "ended" /\ offer' = offer
    BY <1>11 DEF RecordFailure
  <2>2. campaign' \in CampaignRow /\ campaign'.kind = campaign.kind /\ (campaign'.coupon <=> campaign.coupon)
    <3>1. CASE campaign' = campaign
      BY <1>t, <3>1
    <3>2. CASE campaign' = [campaign EXCEPT !.status = "failed"]
      BY <1>t, <1>s, <3>2, StatusWritten
    <3>3. QED
      BY <2>1, <3>1, <3>2
  <2>3. OfferIsNamed'
    BY <1>t, <2>1, <2>2 DEF OfferIsNamed, Discount
  <2>4. QED
    BY <1>t, <1>s, <1>4, <2>1, <2>2, <2>3
<1>12. ASSUME MakerDies PROVE CampaignsInv'
  <2>1. maker' = "ended" /\ campaign' = campaign /\ offer' = offer
    BY <1>12 DEF MakerDies
  <2>2. OfferIsNamed'
    BY <1>t, <2>1 DEF OfferIsNamed, Discount
  <2>3. QED
    BY <1>t, <1>s, <1>4, <2>1, <2>2
<1>13. QED
  BY <1>5, <1>6, <1>7, <1>8, <1>9, <1>10, <1>11, <1>12

-----------------------------------------------------------------------------
(* The requests that revoke it *)

LEMMA StartRevocationStep ==
  ASSUME CampaignsInv, NEW r \in Revokers, StartRevocation(r)
  PROVE  CampaignsInv'
<1> DEFINE late == maker = "ended"
           old == revoker[r]
           new == [old EXCEPT !.step = "reading", !.late = late]
<1>t. CampaignsTypeOK /\ old \in Revoker
  BY CampaignsTypes DEF CampaignsInv
<1>1. /\ revoker' = [revoker EXCEPT ![r] = new]
      /\ UNCHANGED <<campaign, offer, maker, redeemed, claim, over>>
  BY <1>t DEF StartRevocation, CampaignsTypeOK
<1>2. late \in BOOLEAN /\ (late <=> maker = "ended")
  OBVIOUS
<1> HIDE DEF late, old
<1>3. /\ new \in Revoker /\ new.step = "reading"
      /\ new.late <=> late
  BY <1>t, <1>2 DEF Revoker, RevokerStep
<1> HIDE DEF new
<1>4. /\ revoker'[r] = new
      /\ \A q \in Revokers : q # r => revoker'[q] = revoker[q]
      /\ revoker' \in [Revokers -> Revoker]
  BY <1>t, <1>1, <1>3, OwnRevoker
<1>5. \A q \in Revokers : RevokerInv(q)'
  BY <1>1, <1>2, <1>3, <1>4 DEF CampaignsInv, RevokerInv, Shut, RowFree
<1>6. OfferIsNamed' /\ OverIsOver'
  BY <1>1 DEF CampaignsInv, OfferIsNamed, OverIsOver, Discount, Shut, RowFree, Redeemable
<1>7. CampaignsTypeOK'
  BY <1>t, <1>1, <1>4 DEF CampaignsTypeOK
<1>8. QED
  BY <1>5, <1>6, <1>7 DEF CampaignsInv

\* The row says "revoking", and no claim is open on it: from here a late revocation
\* has read all it needs.
LEMMA MarkRevokingStep ==
  ASSUME CampaignsInv, NEW r \in Revokers, MarkRevoking(r)
  PROVE  CampaignsInv'
<1> DEFINE coupon == campaign.coupon
           promotion == campaign.promotion
           old == revoker[r]
           new == [old EXCEPT !.step = "deactivating", !.promotion = promotion, !.coupon = coupon]
<1>t. CampaignsTypeOK /\ campaign \in CampaignRow /\ old \in Revoker
  BY CampaignsTypes DEF CampaignsInv
<1>1. /\ revoker' = [revoker EXCEPT ![r] = new] /\ RowFree
      /\ campaign' = [campaign EXCEPT !.status = "revoking"]
      /\ UNCHANGED <<offer, maker, redeemed, claim, over>>
  BY <1>t DEF MarkRevoking, CampaignsTypeOK
<1>2. /\ campaign' \in CampaignRow /\ campaign'.status = "revoking"
      /\ campaign'.kind = campaign.kind
      /\ campaign'.coupon <=> coupon
  BY <1>t, <1>1, StatusWritten DEF CampaignStatus
<1>3. coupon \in BOOLEAN /\ promotion \in BOOLEAN /\ (coupon <=> campaign.coupon)
  BY <1>t DEF CampaignRow
<1> HIDE DEF old, coupon, promotion
<1>4. /\ new \in Revoker /\ new.step = "deactivating"
      /\ new.late <=> old.late
      /\ new.coupon <=> coupon
  BY <1>t, <1>3 DEF Revoker, RevokerStep
<1> HIDE DEF new
<1>5. /\ revoker'[r] = new
      /\ \A q \in Revokers : q # r => revoker'[q] = revoker[q]
      /\ revoker' \in [Revokers -> Revoker]
  BY <1>t, <1>1, <1>4, OwnRevoker
<1>6. Shut' /\ RowFree' /\ (campaign'.coupon <=> campaign.coupon)
  BY <1>1, <1>2, <1>3 DEF Shut, RowFree
<1>7. \A q \in Revokers : RevokerInv(q)'
  <2>1. RevokerInv(r)'
    BY <1>1, <1>2, <1>4, <1>5, <1>6 DEF CampaignsInv, RevokerInv, old
  <2>2. ASSUME NEW q \in Revokers, q # r PROVE RevokerInv(q)'
    BY <1>1, <1>5, <1>6, <2>2 DEF CampaignsInv, RevokerInv
  <2>3. QED
    BY <2>1, <2>2
<1>8. OfferIsNamed'
  BY <1>1, <1>2, <1>6 DEF CampaignsInv, OfferIsNamed, Discount
<1>9. OverIsOver'
  BY <1>1, <1>6 DEF CampaignsInv, OverIsOver, Redeemable
<1>10. CampaignsTypeOK'
  BY <1>t, <1>1, <1>2, <1>5 DEF CampaignsTypeOK, CampaignRow
<1>11. QED
  BY <1>7, <1>8, <1>9, <1>10 DEF CampaignsInv

LEMMA DeactivatePromotionStep ==
  ASSUME CampaignsInv, NEW r \in Revokers, DeactivatePromotion(r)
  PROVE  CampaignsInv'
<1>t. CampaignsTypeOK /\ offer \in Offer
  BY CampaignsTypes DEF CampaignsInv
<1>1. /\ offer' = offer \/ (revoker[r].promotion /\ offer' = [offer EXCEPT !.promotion = "inactive"])
      /\ revoker[r].step = "deactivating" /\ revoker' = [revoker EXCEPT ![r].step = "deleting"]
      /\ UNCHANGED <<campaign, maker, redeemed, claim, over>>
  BY DEF DeactivatePromotion, RevokerAt
<1>2. /\ revoker'[r].step = "deleting"
      /\ revoker'[r].late <=> revoker[r].late
      /\ revoker'[r].coupon <=> revoker[r].coupon
      /\ \A q \in Revokers : q # r => revoker'[q] = revoker[q]
      /\ revoker' \in [Revokers -> Revoker]
  BY <1>t, <1>1, RevokerMoves DEF RevokerStep
<1>3. /\ offer' \in Offer /\ offer'.coupon = offer.coupon
      /\ offer'.promotion \in {offer.promotion, "inactive"}
  BY <1>t, <1>1 DEF Offer
<1>4. \A q \in Revokers : RevokerInv(q)'
  <2>1. RevokerInv(r)'
    BY <1>1, <1>2 DEF CampaignsInv, RevokerInv, Shut, RowFree
  <2>2. ASSUME NEW q \in Revokers, q # r PROVE RevokerInv(q)'
    BY <1>1, <1>2, <1>3, <2>2 DEF CampaignsInv, RevokerInv, Shut, RowFree
  <2>3. QED
    BY <2>1, <2>2
<1>5. OfferIsNamed'
  BY <1>1, <1>3 DEF CampaignsInv, OfferIsNamed, Discount
<1>6. OverIsOver'
  BY <1>1, <1>3 DEF CampaignsInv, OverIsOver, Shut, RowFree, Redeemable
<1>7. CampaignsTypeOK'
  BY <1>t, <1>1, <1>2, <1>3 DEF CampaignsTypeOK, Offer
<1>8. QED
  BY <1>4, <1>5, <1>6, <1>7 DEF CampaignsInv

LEMMA DeleteCouponStep ==
  ASSUME CampaignsInv, NEW r \in Revokers, DeleteCoupon(r)
  PROVE  CampaignsInv'
<1>t. CampaignsTypeOK /\ offer \in Offer
  BY CampaignsTypes DEF CampaignsInv
<1>1. /\ offer' = IF revoker[r].coupon THEN [offer EXCEPT !.coupon = "deleted"] ELSE offer
      /\ revoker[r].step = "deleting" /\ revoker' = [revoker EXCEPT ![r].step = "closing"]
      /\ UNCHANGED <<campaign, maker, redeemed, claim, over>>
  BY DEF DeleteCoupon, RevokerAt
<1>2. /\ revoker'[r].step = "closing"
      /\ revoker'[r].late <=> revoker[r].late
      /\ revoker'[r].coupon <=> revoker[r].coupon
      /\ \A q \in Revokers : q # r => revoker'[q] = revoker[q]
      /\ revoker' \in [Revokers -> Revoker]
  BY <1>t, <1>1, RevokerMoves DEF RevokerStep
<1>3. /\ offer' \in Offer /\ offer'.promotion = offer.promotion
      /\ offer'.coupon \in {offer.coupon, "deleted"}
      /\ revoker[r].coupon => offer'.coupon = "deleted"
  BY <1>t, <1>1 DEF Offer
<1>4. \A q \in Revokers : RevokerInv(q)'
  <2>1. RevokerInv(r)'
    BY <1>1, <1>2, <1>3 DEF CampaignsInv, RevokerInv, Shut, RowFree
  <2>2. ASSUME NEW q \in Revokers, q # r PROVE RevokerInv(q)'
    BY <1>1, <1>2, <1>3, <2>2 DEF CampaignsInv, RevokerInv, Shut, RowFree
  <2>3. QED
    BY <2>1, <2>2
<1>5. OfferIsNamed'
  BY <1>1, <1>3 DEF CampaignsInv, OfferIsNamed, Discount
<1>6. OverIsOver'
  BY <1>1, <1>3 DEF CampaignsInv, OverIsOver, Shut, RowFree, Redeemable
<1>7. CampaignsTypeOK'
  BY <1>t, <1>1, <1>2, <1>3 DEF CampaignsTypeOK, Offer
<1>8. QED
  BY <1>4, <1>5, <1>6, <1>7 DEF CampaignsInv

\* A late revocation is answered when nothing can be redeemed any more.
LEMMA CloseRevocationStep ==
  ASSUME CampaignsInv, NEW r \in Revokers, CloseRevocation(r)
  PROVE  CampaignsInv'
<1>t. CampaignsTypeOK /\ campaign \in CampaignRow
  BY CampaignsTypes DEF CampaignsInv
<1>1. /\ revoker[r].step = "closing" /\ RowFree
      /\ campaign' = [campaign EXCEPT !.status = "revoked"]
      /\ revoker' = [revoker EXCEPT ![r].step = "answered"]
      /\ over' \in BOOLEAN /\ (over' <=> over \/ revoker[r].late)
      /\ UNCHANGED <<offer, maker, redeemed, claim>>
  BY DEF CloseRevocation, RevokerAt
<1>2. /\ revoker'[r].step = "answered"
      /\ revoker'[r].late <=> revoker[r].late
      /\ revoker'[r].coupon <=> revoker[r].coupon
      /\ \A q \in Revokers : q # r => revoker'[q] = revoker[q]
      /\ revoker' \in [Revokers -> Revoker]
  BY <1>t, <1>1, RevokerMoves DEF RevokerStep
<1>3. /\ campaign' \in CampaignRow /\ campaign'.status = "revoked"
      /\ campaign'.kind = campaign.kind
      /\ campaign'.coupon <=> campaign.coupon
  BY <1>t, <1>1, StatusWritten DEF CampaignStatus
<1>4. Shut' /\ RowFree'
  BY <1>1, <1>3 DEF Shut, RowFree
<1>5. \A q \in Revokers : RevokerInv(q)'
  <2>1. RevokerInv(r)'
    BY <1>1, <1>2 DEF CampaignsInv, RevokerInv
  <2>2. ASSUME NEW q \in Revokers, q # r PROVE RevokerInv(q)'
    BY <1>1, <1>2, <1>3, <1>4, <2>2 DEF CampaignsInv, RevokerInv
  <2>3. QED
    BY <2>1, <2>2
<1>6. OfferIsNamed'
  BY <1>1, <1>3 DEF CampaignsInv, OfferIsNamed, Discount
<1>7. OverIsOver'
  <2>1. over \/ revoker[r].late => maker = "ended" /\ ~Redeemable
    BY <1>1 DEF CampaignsInv, OverIsOver, RevokerInv, OfferIsNamed, Redeemable
  <2>2. QED
    BY <1>1, <1>4, <2>1 DEF OverIsOver, Redeemable
<1>8. CampaignsTypeOK'
  BY <1>t, <1>1, <1>2, <1>3 DEF CampaignsTypeOK, CampaignRow
<1>9. QED
  BY <1>5, <1>6, <1>7, <1>8 DEF CampaignsInv

LEMMA RevocationFailsStep ==
  ASSUME CampaignsInv, NEW r \in Revokers, RevocationFails(r)
  PROVE  CampaignsInv'
<1>t. CampaignsTypeOK
  BY DEF CampaignsInv
<1>1. /\ revoker' = [revoker EXCEPT ![r].step = "stopped"]
      /\ UNCHANGED <<campaign, offer, maker, redeemed, claim, over>>
  BY DEF RevocationFails
<1>2. /\ revoker'[r].step = "stopped"
      /\ revoker'[r].late <=> revoker[r].late
      /\ revoker'[r].coupon <=> revoker[r].coupon
      /\ \A q \in Revokers : q # r => revoker'[q] = revoker[q]
      /\ revoker' \in [Revokers -> Revoker]
  BY <1>t, <1>1, RevokerMoves DEF RevokerStep
<1>3. \A q \in Revokers : RevokerInv(q)'
  BY <1>1, <1>2 DEF CampaignsInv, RevokerInv, Shut, RowFree
<1>4. OfferIsNamed' /\ OverIsOver'
  BY <1>1 DEF CampaignsInv, OfferIsNamed, OverIsOver, Discount, Shut, RowFree, Redeemable
<1>5. CampaignsTypeOK'
  BY <1>t, <1>1, <1>2 DEF CampaignsTypeOK
<1>6. QED
  BY <1>3, <1>4, <1>5 DEF CampaignsInv

-----------------------------------------------------------------------------
(* The customers *)

LEMMA CheckClaimStep ==
  ASSUME CampaignsInv, NEW c \in Claimants, CheckClaim(c)
  PROVE  CampaignsInv'
<1>1. /\ campaign.status = "active" /\ claim' = [claim EXCEPT ![c] = "checked"]
      /\ UNCHANGED <<campaign, offer, maker, revoker, redeemed, over>>
  BY DEF CheckClaim, Claimable
<1>2. ~Shut
  BY <1>1 DEF Shut
<1>3. ~over /\ \A r \in Revokers : RevokerInv(r)'
  BY <1>1, <1>2 DEF CampaignsInv, OverIsOver, RevokerInv
<1>4. OfferIsNamed' /\ OverIsOver'
  BY <1>1, <1>3 DEF CampaignsInv, OfferIsNamed, OverIsOver, Discount
<1>5. CampaignsTypeOK'
  BY <1>1 DEF CampaignsInv, CampaignsTypeOK
<1>6. QED
  BY <1>3, <1>4, <1>5 DEF CampaignsInv

LEMMA EndClaimStep ==
  ASSUME CampaignsInv, NEW c \in Claimants, EndClaim(c)
  PROVE  CampaignsInv'
<1>t. CampaignsTypeOK /\ campaign \in CampaignRow
  BY CampaignsTypes DEF CampaignsInv
<1>1. /\ claim[c] = "checked" /\ claim' = [claim EXCEPT ![c] = "ended"]
      /\ \/ UNCHANGED <<campaign, redeemed>>
         \/ /\ campaign' = [campaign EXCEPT !.redemptions = @ + 1]
            /\ redeemed' = redeemed \cup {c}
      /\ UNCHANGED <<offer, maker, revoker, over>>
  BY DEF EndClaim
<1>2. ~RowFree
  BY <1>1 DEF RowFree
<1>3. ~over /\ \A r \in Revokers : RevokerInv(r)'
  BY <1>1, <1>2 DEF CampaignsInv, OverIsOver, RevokerInv
<1>4. /\ campaign' \in CampaignRow /\ campaign'.kind = campaign.kind
      /\ campaign'.coupon <=> campaign.coupon
  <2>1. CASE campaign' = campaign
    BY <1>t, <2>1
  <2>2. CASE campaign' = [campaign EXCEPT !.redemptions = @ + 1]
    BY <1>t, <2>2 DEF CampaignRow
  <2>3. QED
    BY <1>1, <2>1, <2>2
<1>5. OfferIsNamed' /\ OverIsOver'
  BY <1>1, <1>3, <1>4 DEF CampaignsInv, OfferIsNamed, OverIsOver, Discount
<1>6. CampaignsTypeOK'
  BY <1>t, <1>1, <1>4 DEF CampaignsTypeOK, CampaignRow
<1>7. QED
  BY <1>3, <1>5, <1>6 DEF CampaignsInv

LEMMA TakeDiscountStep ==
  ASSUME CampaignsInv, NEW c \in Claimants, TakeDiscount(c)
  PROVE  CampaignsInv'
<1>1. /\ redeemed' = redeemed \cup {c}
      /\ UNCHANGED <<campaign, offer, maker, revoker, claim, over>>
  BY DEF TakeDiscount
<1>2. OfferIsNamed' /\ OverIsOver' /\ \A r \in Revokers : RevokerInv(r)'
  BY <1>1 DEF CampaignsInv, OfferIsNamed, OverIsOver, RevokerInv, Discount, Shut, RowFree,
    Redeemable
<1>3. CampaignsTypeOK'
  BY <1>1 DEF CampaignsInv, CampaignsTypeOK
<1>4. QED
  BY <1>2, <1>3 DEF CampaignsInv

-----------------------------------------------------------------------------
(* The revocation is final *)

LEMMA CampaignsInvStep == CampaignsInv /\ [CampaignsNext]_campaignVars => CampaignsInv'
<1> SUFFICES ASSUME CampaignsInv, [CampaignsNext]_campaignVars PROVE CampaignsInv'
  OBVIOUS
<1>1. ASSUME NEW r \in Revokers,
             \/ StartRevocation(r) \/ MarkRevoking(r) \/ DeactivatePromotion(r)
             \/ DeleteCoupon(r) \/ CloseRevocation(r) \/ RevocationFails(r)
      PROVE  CampaignsInv'
  BY <1>1, StartRevocationStep, MarkRevokingStep, DeactivatePromotionStep, DeleteCouponStep,
    CloseRevocationStep, RevocationFailsStep
<1>2. ASSUME NEW c \in Claimants, CheckClaim(c) \/ EndClaim(c) \/ TakeDiscount(c)
      PROVE  CampaignsInv'
  BY <1>2, CheckClaimStep, EndClaimStep, TakeDiscountStep
<1>3. CASE UNCHANGED campaignVars
  BY <1>3 DEF campaignVars, CampaignsInv, CampaignsTypeOK, OfferIsNamed, OverIsOver, RevokerInv,
    Discount, Shut, RowFree, Redeemable
<1>4. QED
  BY <1>1, <1>2, <1>3, MakerStep DEF CampaignsNext

LEMMA CampaignsStart == CampaignsInit => CampaignsInv
<1> SUFFICES ASSUME CampaignsInit PROVE CampaignsInv
  OBVIOUS
<1>1. CampaignsTypeOK
  <2>1. campaign \in CampaignRow
    <3>1. campaign \in [kind : CampaignKinds, status : {"none"}, coupon : {FALSE},
                        promotion : {FALSE}, redemptions : {0}]
      BY DEF CampaignsInit
    <3>2. "none" \in CampaignStatus
      BY DEF CampaignStatus
    <3>3. PICK kind \in CampaignKinds :
            campaign = [kind |-> kind, status |-> "none", coupon |-> FALSE, promotion |-> FALSE,
                        redemptions |-> 0]
      BY <3>1
    <3>4. QED
      BY <3>2, <3>3 DEF CampaignRow
  <2>2. revoker \in [Revokers -> Revoker]
    BY DEF CampaignsInit, NewRevoker, Revoker, RevokerStep
  <2>3. QED
    BY <2>1, <2>2 DEF CampaignsInit, CampaignsTypeOK, CampaignRow, MakerSteps
<1>2. OfferIsNamed /\ OverIsOver
  BY DEF CampaignsInit, OfferIsNamed, OverIsOver
<1>3. \A r \in Revokers : RevokerInv(r)
  <2>1. \A r \in Revokers : revoker[r] = NewRevoker
    BY DEF CampaignsInit
  <2>2. NewRevoker.late = FALSE
    BY DEF NewRevoker
  <2>3. QED
    BY <2>1, <2>2 DEF RevokerInv
<1>4. QED
  BY <1>1, <1>2, <1>3 DEF CampaignsInv

LEMMA CampaignsInvariant == CampaignsSpec => []CampaignsInv
  BY CampaignsStart, CampaignsInvStep, PTL DEF CampaignsSpec

StaysRevoked == over => redeemed' = redeemed /\ campaign'.status \in {"revoking", "revoked"}

LEMMA RevokedStep == CampaignsInv /\ [CampaignsNext]_campaignVars => StaysRevoked
<1> SUFFICES ASSUME CampaignsInv, [CampaignsNext]_campaignVars, over
             PROVE  redeemed' = redeemed /\ campaign'.status \in {"revoking", "revoked"}
  BY DEF StaysRevoked
<1>1. maker = "ended" /\ Shut /\ RowFree /\ ~Redeemable
  BY DEF CampaignsInv, OverIsOver
<1>2. Shut'
  <2>1. over'
    BY DEF CampaignsNext, campaignVars, InsertCampaign, CreateCoupon, NameCoupon, CreatePromotion,
      Activate, CreationFails, RecordFailure, MakerDies, StartRevocation, MarkRevoking,
      DeactivatePromotion, DeleteCoupon, CloseRevocation, RevocationFails, CheckClaim, EndClaim,
      TakeDiscount
  <2>2. QED
    BY <2>1, CampaignsInvStep DEF CampaignsInv, OverIsOver
<1>3. redeemed' = redeemed
  BY <1>1 DEF RowFree, CampaignsNext, campaignVars, InsertCampaign, CreateCoupon, NameCoupon,
    CreatePromotion, Activate, CreationFails, RecordFailure, MakerDies, StartRevocation,
    MarkRevoking, DeactivatePromotion, DeleteCoupon, CloseRevocation, RevocationFails, CheckClaim,
    EndClaim, TakeDiscount
<1>4. QED
  BY <1>2, <1>3 DEF Shut

\* A revocation that began after the creation had ended is final once it is answered:
\* the code is not redeemed again, and nobody opens the campaign (revokeCampaign).
THEOREM RevocationIsFinal == CampaignsSpec => RevokedIsOver
<1>1. CampaignsInv /\ [CampaignsNext]_campaignVars
        => [over => redeemed' = redeemed /\ campaign'.status \in {"revoking", "revoked"}]_campaignVars
  BY RevokedStep DEF StaysRevoked
<1>2. QED
  BY <1>1, CampaignsInvariant, PTL DEF CampaignsSpec, RevokedIsOver

-----------------------------------------------------------------------------
(* REFERRALS                                                               *)

(* Types *)

RunnerSteps == {"deciding", "asking", "crediting", "finishing", "failing"}

LEMMA QueueNumbers ==
  /\ MaxAttempts \in Nat /\ LockTime \in Nat /\ RetryTime \in Nat /\ RunTime \in Nat
  /\ ReviewTime \in Nat /\ KeepTime \in Nat /\ LastHour \in Nat
  BY QueueAssumption

LEMMA RewardRecord ==
  ASSUME ReferralsTypeOK, NEW x \in Rewards
  PROVE  /\ reward[x] # NoReward => reward[x] \in Reward
         /\ reward[x] \in Reward => reward[x] # NoReward
<1>1. reward[x] # NoReward => reward[x] \in Reward
  BY DEF ReferralsTypeOK
<1>2. ASSUME NEW r \in Reward PROVE r # NoReward
  <2>1. r.status \in RewardStatus /\ NoReward.status = "none"
    BY DEF Reward, NoReward
  <2>2. QED
    BY <2>1 DEF RewardStatus, Queued
<1>3. QED
  BY <1>1, <1>2

LEMMA RunnerRecord ==
  ASSUME ReferralsTypeOK, NEW f \in Runners, runner[f] # IdleRunner
  PROVE  runner[f] \in Runner
  BY DEF ReferralsTypeOK

LEMMA RunnerIsBusy ==
  ASSUME NEW r \in Runner
  PROVE  r # IdleRunner
<1>1. r.step \in RunnerSteps /\ IdleRunner.step = "idle"
  BY DEF Runner, RunnerSteps, IdleRunner
<1>2. QED
  BY <1>1 DEF RunnerSteps

LEMMA OwnReward ==
  ASSUME ReferralsTypeOK, NEW x \in Rewards, NEW r \in Reward, ToReward(x, r)
  PROVE  /\ reward'[x] = r
         /\ \A y \in Rewards : y # x => reward'[y] = reward[y]
         /\ reward' \in [Rewards -> Reward \cup {NoReward}]
  BY DEF ReferralsTypeOK, ToReward

\* A step of a function moves it on and touches no other.
LEMMA RunnerMoves ==
  ASSUME ReferralsTypeOK, NEW f \in Runners, runner[f] # IdleRunner,
         NEW step \in RunnerSteps, Proceeds(f, step)
  PROVE  /\ runner'[f] \in Runner /\ runner'[f].step = step
         /\ runner'[f].reward = runner[f].reward /\ runner'[f].attempts = runner[f].attempts
         /\ runner'[f].first = runner[f].first /\ runner'[f].now = runner[f].now
         /\ \A g \in Runners : g # f => runner'[g] = runner[g]
         /\ runner' \in [Runners -> Runner \cup {IdleRunner}]
<1> DEFINE old == runner[f]
           new == [old EXCEPT !.step = step]
<1>1. old \in Runner
  BY RunnerRecord
<1>2. runner' = [runner EXCEPT ![f] = new]
  BY DEF Proceeds
<1> HIDE DEF old
<1>3. /\ new \in Runner /\ new.step = step /\ new.reward = old.reward
      /\ new.attempts = old.attempts /\ new.first = old.first /\ new.now = old.now
  BY <1>1 DEF Runner, RunnerSteps
<1> HIDE DEF new
<1>4. QED
  BY <1>2, <1>3 DEF ReferralsTypeOK, old

LEMMA RunnerEnds ==
  ASSUME ReferralsTypeOK, NEW f \in Runners, Ends(f)
  PROVE  /\ runner'[f] = IdleRunner
         /\ \A g \in Runners : g # f => runner'[g] = runner[g]
         /\ runner' \in [Runners -> Runner \cup {IdleRunner}]
  BY DEF ReferralsTypeOK, Ends

-----------------------------------------------------------------------------
(* What a step may do to a reward *)

\* What identifies a reward stays; one that was taken back stays so.
Keeps(old, new) ==
  /\ new.kind = old.kind /\ new.first = old.first /\ new.attempts = old.attempts
  /\ old.status \in {"cancelled", "review"} =>
       new.status = "review" /\ new.granted = old.granted

Touches(x) == \E r \in Reward : ToReward(x, r) /\ Keeps(reward[x], r)

RunnerWorks(f) ==
  GiveAtHome(f) \/ DecideCredit(f) \/ AskStatus(f) \/ CreateCredit(f)
    \/ RecordCredit(f) \/ RunFails(f) \/ RecordRunFailure(f) \/ RunnerDies(f)

LEMMA RunnerTouches ==
  ASSUME ReferralsTypeOK, NEW f \in Runners, RunnerWorks(f),
         runner[f] # IdleRunner => reward[runner[f].reward] # NoReward
  PROVE  /\ runner[f] \in Runner
         /\ UNCHANGED reward \/ Touches(runner[f].reward)
<1> DEFINE x == runner[f].reward
           old == reward[x]
<1>1. runner[f] \in Runner
  BY RunnerRecord DEF RunnerWorks, GiveAtHome, DecideCredit, AskStatus, CreateCredit,
       RecordCredit, RunFails, RecordRunFailure, RunnerDies, RunnerAt
<1>2. x \in Rewards
  BY <1>1 DEF Runner
<1>3. old \in Reward
  BY <1>1, <1>2, RunnerIsBusy, RewardRecord
<1>4. hour + RetryTime \in Nat
  BY QueueNumbers DEF ReferralsTypeOK, Hours
<1> HIDE DEF x, old
<1> DEFINE live == [old EXCEPT !.status = "applied", !.locked = -1, !.granted = "live"]
           dropped == [old EXCEPT !.status = "cancelled", !.locked = -1]
           doubt == [old EXCEPT !.status = "review", !.locked = -1]
           given == [old EXCEPT !.locked = -1,
                       !.status = IF old.status = "processing" THEN "applied" ELSE "review"]
           failed == [old EXCEPT !.status = "failed", !.locked = -1, !.due = hour + RetryTime]
<1>5. /\ live \in Reward /\ dropped \in Reward /\ doubt \in Reward /\ given \in Reward
      /\ failed \in Reward
  <2>1. {"applied", "cancelled", "review", "failed"} \subseteq RewardStatus /\ -1 \in Int
    BY DEF RewardStatus, Queued
  <2>2. live \in Reward
    BY <1>3, <2>1 DEF Reward
  <2>3. dropped \in Reward /\ doubt \in Reward
    BY <1>3, <2>1 DEF Reward
  <2>4. given \in Reward
    BY <1>3, <2>1 DEF Reward
  <2>5. failed \in Reward
    BY <1>3, <1>4, <2>1 DEF Reward
  <2>6. QED
    BY <2>2, <2>3, <2>4, <2>5
<1>6. /\ Keeps(old, doubt) /\ Keeps(old, given)
      /\ old.status = "processing" => Keeps(old, live) /\ Keeps(old, dropped) /\ Keeps(old, failed)
  BY <1>3 DEF Keeps, Reward
<1>7. ASSUME GiveAtHome(f) PROVE UNCHANGED reward \/ Touches(x)
  <2>1. CASE old.status # "processing"
    BY <1>7, <2>1 DEF GiveAtHome, x, old
  <2>2. CASE old.status = "processing" /\ old.kind = "grant"
    BY <1>5, <1>6, <1>7, <2>2 DEF GiveAtHome, x, old, Touches
  <2>3. CASE old.status = "processing" /\ old.kind # "grant"
    BY <1>5, <1>6, <1>7, <2>3 DEF GiveAtHome, x, old, Touches
  <2>4. QED
    BY <2>1, <2>2, <2>3
<1>8. ASSUME DecideCredit(f) PROVE UNCHANGED reward \/ Touches(x)
  <2>1. UNCHANGED reward \/ ToReward(x, doubt)
    BY <1>8 DEF DecideCredit, x, old
  <2> HIDE DEF doubt
  <2>2. QED
    BY <2>1, <1>5, <1>6 DEF Touches, old
<1>9. ASSUME RecordCredit(f) PROVE UNCHANGED reward \/ Touches(x)
  <2>1. ToReward(x, given)
    BY <1>9 DEF RecordCredit, x, old
  <2> HIDE DEF given
  <2>2. QED
    BY <2>1, <1>5, <1>6 DEF Touches, old
<1>10. ASSUME RecordRunFailure(f) PROVE UNCHANGED reward \/ Touches(x)
  <2>1. CASE old.status # "processing"
    BY <1>10, <2>1 DEF RecordRunFailure, x, old
  <2>2. CASE old.status = "processing"
    BY <1>5, <1>6, <1>10, <2>2 DEF RecordRunFailure, x, old, Touches
  <2>3. QED
    BY <2>1, <2>2
<1>11. ASSUME AskStatus(f) \/ CreateCredit(f) \/ RunFails(f) \/ RunnerDies(f) PROVE UNCHANGED reward
  BY <1>11 DEF AskStatus, CreateCredit, RunFails, RunnerDies
<1>12. QED
  BY <1>1, <1>7, <1>8, <1>9, <1>10, <1>11 DEF RunnerWorks, x

\* Where a function is after a step of it, and what it has done at Stripe.
LEMMA RunnerGoes ==
  ASSUME ReferralsTypeOK, NEW f \in Runners, RunnerWorks(f)
  PROVE  /\ runner[f] # IdleRunner
         /\ \/ Ends(f)
            \/ Proceeds(f, "failing")
            \/ Proceeds(f, "asking") /\ DecideCredit(f) /\ ~Uncertain(f)
            \/ Proceeds(f, "crediting") /\ RunnerAt(f, "asking")
            \/ Proceeds(f, "finishing") /\ RunnerAt(f, "crediting")
         /\ UNCHANGED <<hour, captures, retried>>
         /\ ~CreateCredit(f) => UNCHANGED <<credits, keptUntil>>
  BY DEF RunnerWorks, GiveAtHome, DecideCredit, AskStatus, CreateCredit,
       RecordCredit, RunFails, RecordRunFailure, RunnerDies, RunnerAt

\* A claim counts the attempt and remembers the first one.
LEMMA ClaimRecord ==
  ASSUME ReferralsTypeOK, NEW f \in Runners, NEW x \in Rewards, ClaimReward(f, x)
  PROVE  \E r \in Reward, s \in Runner :
           /\ ToReward(x, r) /\ runner' = [runner EXCEPT ![f] = s]
           /\ r.kind = reward[x].kind /\ r.attempts = reward[x].attempts + 1
           /\ r.first = IF reward[x].first = Never THEN hour ELSE reward[x].first
           /\ s.step = "deciding" /\ s.reward = x /\ s.attempts = r.attempts /\ s.now = hour
           /\ s.first = r.first
           /\ reward[x] \in Reward
<1> DEFINE old == reward[x]
           first == IF old.first = Never THEN hour ELSE old.first
           r == [old EXCEPT !.status = "processing", !.first = first,
                            !.attempts = old.attempts + 1, !.locked = hour + LockTime]
           s == [step |-> "deciding", reward |-> x, attempts |-> old.attempts + 1,
                 first |-> first, now |-> hour]
<1>1. old \in Reward /\ old.attempts < MaxAttempts
  BY RewardRecord DEF ClaimReward, Due
<1>2. ToReward(x, r) /\ runner' = [runner EXCEPT ![f] = s]
  BY DEF ClaimReward
<1>3. hour \in Hours /\ hour + LockTime \in Int
  BY QueueNumbers DEF ReferralsTypeOK, Hours
<1> HIDE DEF old
<1>4. old.attempts \in 0 .. MaxAttempts /\ old.first \in Hours \cup {Never}
  BY <1>1 DEF Reward
<1>5. old.attempts + 1 \in 1 .. MaxAttempts /\ old.attempts + 1 \in 0 .. MaxAttempts
  BY <1>1, <1>4, QueueNumbers
<1>6. first \in Hours
  BY <1>3, <1>4
<1> HIDE DEF first
<1>7. "processing" \in RewardStatus
  BY DEF RewardStatus, Queued
<1>8. /\ r \in Reward /\ r.kind = old.kind /\ r.attempts = old.attempts + 1 /\ r.first = first
  BY <1>1, <1>3, <1>5, <1>6, <1>7 DEF Reward
<1>9. s \in Runner
  BY <1>3, <1>5, <1>6 DEF Runner
<1>10. s.step = "deciding" /\ s.reward = x /\ s.attempts = old.attempts + 1
        /\ s.first = first /\ s.now = hour
  OBVIOUS
<1> HIDE DEF r, s
<1>11. QED
  BY <1>1, <1>2, <1>8, <1>9, <1>10 DEF old, first

LEMMA RetryRecord ==
  ASSUME ReferralsTypeOK, NEW x \in Rewards, RetryReward(x)
  PROVE  \E r \in Reward :
           /\ ToReward(x, r) /\ reward[x] \in Reward /\ reward[x].status = "failed"
           /\ r.kind = reward[x].kind /\ r.first = reward[x].first
<1> DEFINE old == reward[x]
           r == [old EXCEPT !.status = "pending", !.attempts = 0, !.due = hour, !.locked = -1]
<1>1. old \in Reward
  BY RewardRecord DEF RetryReward
<1>2. ToReward(x, r) /\ old.status = "failed"
  BY DEF RetryReward
<1>3. hour \in Nat /\ -1 \in Int /\ 0 \in 0 .. MaxAttempts /\ "pending" \in RewardStatus
  BY QueueNumbers DEF ReferralsTypeOK, Hours, RewardStatus, Queued
<1> HIDE DEF old
<1>4. r \in Reward /\ r.kind = old.kind /\ r.first = old.first
  BY <1>1, <1>3 DEF Reward
<1> HIDE DEF r
<1>5. QED
  BY <1>1, <1>2, <1>4 DEF old

\* The rewards of a conversion are new.
LEMMA ConvertedRewards ==
  ASSUME ReferralsTypeOK, NEW p \in Recorders, CommitRecord(p)
  PROVE  /\ reward' \in [Rewards -> Reward]
         /\ \A x \in Rewards : reward'[x].attempts = 0 /\ reward'[x].first = Never
<1> DEFINE New(k) == [status |-> "pending", kind |-> k, attempts |-> 0, first |-> Never,
                      locked |-> -1, due |-> hour, granted |-> "no"]
<1>1. PICK kind \in [Rewards -> RewardKinds] : reward' = [x \in Rewards |-> New(kind[x])]
  BY DEF CommitRecord
<1>2. hour \in Nat /\ -1 \in Int /\ 0 \in 0 .. MaxAttempts /\ "pending" \in RewardStatus
  BY QueueNumbers DEF ReferralsTypeOK, Hours, RewardStatus, Queued
<1>3. ASSUME NEW k \in RewardKinds
      PROVE  New(k) \in Reward /\ New(k).attempts = 0 /\ New(k).first = Never
  BY <1>2 DEF Reward
<1> HIDE DEF New
<1>4. QED
  BY <1>1, <1>3

\* A reversal that finds the referral takes every reward back.
LEMMA ReversedReward ==
  ASSUME ReferralsTypeOK, NEW v \in Reversers, CommitReversal(v), reverser[v].found,
         NEW x \in Rewards, reward[x] # NoReward
  PROVE  /\ reward'[x] \in Reward
         /\ reward'[x].kind = reward[x].kind /\ reward'[x].first = reward[x].first
         /\ reward'[x].attempts = reward[x].attempts
         /\ reward'[x].granted # "live" /\ reward'[x].status \in {"cancelled", "review"}
         /\ reward[x].kind = "credit" /\ reward[x].first # Never => reward'[x].status = "review"
<1> DEFINE old == reward[x]
           new == [old EXCEPT !.status = TakenBack(old), !.locked = -1,
                              !.granted = IF old.granted = "live" THEN "revoked" ELSE old.granted]
<1>1. old \in Reward
  BY RewardRecord
<1>2. reward'[x] = new
  BY DEF CommitReversal
<1> HIDE DEF old
<1>3. /\ TakenBack(old) \in {"cancelled", "review"}
      /\ old.kind = "credit" /\ old.first # Never => TakenBack(old) = "review"
  BY DEF TakenBack
<1>4. TakenBack(old) \in RewardStatus /\ -1 \in Int
  BY <1>3 DEF RewardStatus
<1>5. /\ new \in Reward /\ new.kind = old.kind /\ new.first = old.first
      /\ new.attempts = old.attempts /\ new.status = TakenBack(old) /\ new.granted # "live"
  BY <1>1, <1>4 DEF Reward
<1> HIDE DEF new
<1>6. QED
  BY <1>2, <1>3, <1>5 DEF old

-----------------------------------------------------------------------------
(* The inductive invariant *)

\* The referral, the open payment and the open reversals agree: a reversal that no
\* payment's transaction has overlapped knows whether the referral was converted.
AttributionInv ==
  /\ \A x \in Rewards : reward[x] = NoReward <=> referral \in {"none", "attributed"}
  /\ \A p \in Recorders : recorder[p] = "converting" =>
       /\ referral = "attributed"
       /\ \A q \in Recorders : recorder[q] = "converting" => q = p
  /\ \A v \in Reversers : reverser[v].step = "open" =>
       /\ reverser[v].found => referral \in {"converted", "reversed"}
       /\ reverser[v].alone => /\ \A p \in Recorders : recorder[p] # "converting"
                               /\ referral \in {"converted", "reversed"} => reverser[v].found

\* A credit was given under a key that Stripe keeps from the first attempt on, and a
\* reward that support has left alone was given at most once.
RewardInv(x) ==
  /\ reward[x] = NoReward => credits[x] = 0
  /\ reward[x] # NoReward /\ reward[x].first # Never => reward[x].first <= hour
  /\ credits[x] > 0 => /\ reward[x].kind = "credit"
                       /\ reward[x].first # Never
                       /\ reward[x].first + KeepTime <= keptUntil[x]
  /\ x \notin retried =>
       /\ credits[x] <= 1
       /\ reward[x] # NoReward /\ reward[x].attempts = 0 => reward[x].first = Never

\* A function knows when its reward was first tried, lives for RunTime at most, and
\* asks for a credit in the time in which Stripe knows the key of the first attempt.
RunnerInv(f) ==
  runner[f] # IdleRunner =>
    LET x == runner[f].reward
    IN  /\ reward[x] # NoReward
        /\ reward[x].first = runner[f].first
        /\ runner[f].first <= runner[f].now /\ runner[f].now <= hour
        /\ hour <= runner[f].now + RunTime
        /\ runner[f].step \in {"asking", "crediting", "finishing"} => reward[x].kind = "credit"
        /\ runner[f].step \in {"asking", "crediting"} =>
             runner[f].attempts = 1 \/ runner[f].now - runner[f].first <= ReviewTime
        /\ x \notin retried /\ runner[f].attempts = 1 => runner[f].first = runner[f].now

Gone(x) ==
  reward[x] # NoReward =>
    /\ reward[x].granted # "live"
    /\ reward[x].status \in {"cancelled", "review"}
    /\ reward[x].kind = "credit" /\ reward[x].first # Never => reward[x].status = "review"

\* After a reversal that nothing overlapped no payment converts the referral any more,
\* and what was tried is in review.
SettledInv ==
  settled =>
    /\ reversed /\ referral # "converted"
    /\ \A p \in Recorders : recorder[p] # "converting"
    /\ \A x \in Rewards : Gone(x)

ReferralsInv ==
  /\ ReferralsTypeOK
  /\ AttributionInv
  /\ \A x \in Rewards : RewardInv(x)
  /\ \A f \in Runners : RunnerInv(f)
  /\ SettledInv

LEMMA ReferralsInvSuffices == ReferralsInv => CreditedOnce /\ ReversedIsTakenBack
<1> SUFFICES ASSUME ReferralsInv PROVE CreditedOnce /\ ReversedIsTakenBack
  OBVIOUS
<1>1. \A x \in Rewards : credits[x] \in Nat
  BY DEF ReferralsInv, ReferralsTypeOK
<1>2. CreditedOnce
  BY <1>1 DEF ReferralsInv, RewardInv, CreditedOnce
<1>3. ReversedIsTakenBack
  BY DEF ReferralsInv, RewardInv, SettledInv, Gone, ReversedIsTakenBack
<1>4. QED
  BY <1>2, <1>3

-----------------------------------------------------------------------------
(* Frames *)

Identity(x) ==
  /\ reward'[x] = NoReward <=> reward[x] = NoReward
  /\ reward[x] # NoReward =>
       /\ reward'[x].kind = reward[x].kind /\ reward'[x].first = reward[x].first
       /\ reward'[x].attempts = reward[x].attempts

LEMMA TouchedIdentity ==
  ASSUME ReferralsTypeOK, NEW x \in Rewards, reward[x] # NoReward,
         UNCHANGED reward \/ Touches(x)
  PROVE  /\ \A y \in Rewards : Identity(y)
         /\ \A y \in Rewards : Gone(y) => Gone(y)'
         /\ reward' \in [Rewards -> Reward \cup {NoReward}]
<1>1. CASE UNCHANGED reward
  BY <1>1 DEF Identity, Gone, ReferralsTypeOK
<1>2. CASE Touches(x)
  <2>1. PICK r \in Reward : ToReward(x, r) /\ Keeps(reward[x], r)
    BY <1>2 DEF Touches
  <2>2. /\ reward'[x] = r /\ \A y \in Rewards : y # x => reward'[y] = reward[y]
        /\ reward' \in [Rewards -> Reward \cup {NoReward}]
    BY <2>1, OwnReward
  <2>3. r # NoReward
    <3>1. r.status \in RewardStatus /\ NoReward.status = "none"
      BY DEF Reward, NoReward
    <3>2. QED
      BY <3>1 DEF RewardStatus, Queued
  <2>4. QED
    BY <2>1, <2>2, <2>3 DEF Identity, Gone, Keeps
<1>3. QED
  BY <1>1, <1>2

LEMMA RewardFrame ==
  ASSUME NEW x \in Rewards, RewardInv(x), Identity(x), UNCHANGED <<hour, credits, keptUntil>>,
         retried \subseteq retried'
  PROVE  RewardInv(x)'
BY DEF RewardInv, Identity

LEMMA RunnerFrame ==
  ASSUME NEW f \in Runners, RunnerInv(f), \A x \in Rewards : Identity(x),
         runner[f] # IdleRunner => runner[f].reward \in Rewards,
         runner'[f] = runner[f], hour' = hour, retried \subseteq retried'
  PROVE  RunnerInv(f)'
BY DEF RunnerInv, Identity

LEMMA RunnersReward ==
  ASSUME ReferralsTypeOK, NEW f \in Runners, runner[f] # IdleRunner
  PROVE  runner[f].reward \in Rewards
  BY RunnerRecord DEF Runner

-----------------------------------------------------------------------------
(* The steps *)

LEMMA CreditStep ==
  ASSUME ReferralsInv, NEW f \in Runners, CreateCredit(f)
  PROVE  \A y \in Rewards : RewardInv(y)' /\ credits'[y] \in Nat /\ keptUntil'[y] \in Nat
<1>1. runner[f] \in Runner /\ runner[f].step = "crediting" /\ runner[f] # IdleRunner
  BY RunnerRecord DEF ReferralsInv, CreateCredit, RunnerAt
<1>2. PICK x \in Rewards : x = runner[f].reward
  BY <1>1 DEF Runner
<1>3. /\ credits \in [Rewards -> Nat] /\ keptUntil \in [Rewards -> Nat] /\ hour \in Nat
      /\ KeepTime \in Nat
  BY QueueNumbers DEF ReferralsInv, ReferralsTypeOK, Hours
<1>4. /\ reward[x] # NoReward /\ reward[x].kind = "credit" /\ reward[x].first = runner[f].first
      /\ runner[f].first <= runner[f].now /\ runner[f].now <= hour
      /\ hour <= runner[f].now + RunTime
      /\ runner[f].attempts = 1 \/ runner[f].now - runner[f].first <= ReviewTime
      /\ x \notin retried /\ runner[f].attempts = 1 => runner[f].first = runner[f].now
  BY <1>1, <1>2 DEF ReferralsInv, RunnerInv
<1>5. runner[f].first \in Nat /\ runner[f].now \in Nat /\ runner[f].first # Never
  BY <1>1, QueueNumbers DEF Runner, Hours, Never
<1>6. \A y \in Rewards : RewardInv(y)
  BY DEF ReferralsInv
<1>7. hour' = hour /\ UNCHANGED <<reward, retried>>
  BY DEF CreateCredit
<1>8. CASE hour < keptUntil[x]
  <2>1. UNCHANGED <<credits, keptUntil>>
    BY <1>2, <1>3, <1>8 DEF CreateCredit
  <2>2. QED
    BY <1>3, <1>6, <1>7, <2>1 DEF RewardInv
<1>9. CASE hour >= keptUntil[x]
  <2>1. /\ credits' = [credits EXCEPT ![x] = credits[x] + 1]
        /\ keptUntil' = [keptUntil EXCEPT ![x] = hour + KeepTime]
    BY <1>2, <1>3, <1>9 DEF CreateCredit
  <2>2. x \notin retried => credits[x] = 0
    <3> SUFFICES ASSUME x \notin retried, credits[x] > 0 PROVE FALSE
      BY <1>3
    <3>1. runner[f].first + KeepTime <= hour
      BY <1>3, <1>4, <1>5, <1>6, <1>9 DEF RewardInv
    <3>2. hour <= runner[f].first + ReviewTime + RunTime
      BY <1>3, <1>4, <1>5, QueueNumbers
    <3>3. QED
      BY <1>3, <1>5, <3>1, <3>2, QueueNumbers, QueueAssumption
  <2>3. runner[f].first + KeepTime <= hour + KeepTime
    BY <1>3, <1>4, <1>5
  <2>4. RewardInv(x)'
    BY <1>3, <1>4, <1>5, <1>6, <1>7, <2>1, <2>2, <2>3 DEF RewardInv
  <2>5. ASSUME NEW y \in Rewards, y # x PROVE RewardInv(y)'
    BY <1>3, <1>6, <1>7, <2>1, <2>5 DEF RewardInv
  <2>6. \A y \in Rewards : RewardInv(y)'
    BY <2>4, <2>5
  <2>7. \A y \in Rewards : credits'[y] \in Nat /\ keptUntil'[y] \in Nat
    BY <1>3, <2>1
  <2>8. QED
    BY <2>6, <2>7
<1>10. QED
  BY <1>3, <1>8, <1>9

\* What a function leaves behind, wherever it stops.
LEMMA RunnerWorksStep ==
  ASSUME ReferralsInv, NEW f \in Runners, RunnerWorks(f)
  PROVE  ReferralsInv'
<1>t. ReferralsTypeOK /\ AttributionInv /\ SettledInv
  BY DEF ReferralsInv
<1>1. runner[f] # IdleRunner /\ runner[f] \in Runner
  BY <1>t, RunnerGoes, RunnerRecord
<1>2. PICK x \in Rewards : x = runner[f].reward
  BY <1>1 DEF Runner
<1>3. reward[x] # NoReward /\ RunnerInv(f)
  BY <1>1, <1>2 DEF ReferralsInv, RunnerInv
<1>4. UNCHANGED reward \/ Touches(x)
  BY <1>t, <1>2, <1>3, RunnerTouches
<1>5. /\ \A y \in Rewards : Identity(y)
      /\ \A y \in Rewards : Gone(y) => Gone(y)'
      /\ reward' \in [Rewards -> Reward \cup {NoReward}]
  BY <1>t, <1>3, <1>4, TouchedIdentity
<1>6. hour' = hour /\ retried' = retried /\ UNCHANGED captures
  BY <1>t, RunnerGoes
<1>7. /\ \A y \in Rewards : RewardInv(y)'
      /\ credits' \in [Rewards -> Nat] /\ keptUntil' \in [Rewards -> Nat]
  <2>1. CASE CreateCredit(f)
    <3>1. /\ credits' = credits \/ credits' = [credits EXCEPT ![x] = credits[x] + 1]
          /\ keptUntil' = keptUntil \/ keptUntil' = [keptUntil EXCEPT ![x] = hour + KeepTime]
      BY <2>1, <1>2, <1>t DEF CreateCredit, ReferralsTypeOK
    <3>2. hour + KeepTime \in Nat
      BY <1>t, QueueNumbers DEF ReferralsTypeOK, Hours
    <3>3. credits' \in [Rewards -> Nat] /\ keptUntil' \in [Rewards -> Nat]
      BY <1>t, <3>1, <3>2 DEF ReferralsTypeOK
    <3>4. QED
      BY <2>1, <3>3, CreditStep
  <2>2. CASE ~CreateCredit(f)
    <3>1. UNCHANGED <<hour, credits, keptUntil>>
      BY <1>t, <1>6, <2>2, RunnerGoes
    <3>2. QED
      BY <1>5, <1>6, <1>t, <3>1, RewardFrame DEF ReferralsInv, ReferralsTypeOK
  <2>3. QED
    BY <2>1, <2>2
<1>8. /\ \A g \in Runners : g # f => runner'[g] = runner[g]
      /\ runner' \in [Runners -> Runner \cup {IdleRunner}]
  BY <1>1, <1>t, RunnerGoes, RunnerMoves, RunnerEnds DEF RunnerSteps
<1>9. RunnerInv(f)'
  <2>1. CASE Ends(f)
    BY <2>1, <1>t, RunnerEnds DEF RunnerInv
  <2> DEFINE Moved(step) == /\ runner'[f].step = step /\ runner'[f].reward = x
                            /\ runner'[f].attempts = runner[f].attempts
                            /\ runner'[f].first = runner[f].first
                            /\ runner'[f].now = runner[f].now
  <2>2. \A step \in RunnerSteps : Proceeds(f, step) => Moved(step)
    BY <1>t, <1>1, <1>2, RunnerMoves
  <2>3. CASE Proceeds(f, "failing")
    <3>1. Moved("failing")
      BY <2>2, <2>3 DEF RunnerSteps
    <3>2. QED
      BY <3>1, <1>1, <1>2, <1>3, <1>5, <1>6 DEF RunnerInv, Identity
  <2>4. CASE Proceeds(f, "asking") /\ DecideCredit(f) /\ ~Uncertain(f)
    <3>1. Moved("asking")
      BY <2>2, <2>4 DEF RunnerSteps
    <3>2. reward[x].kind = "credit"
      BY <1>2, <2>4 DEF DecideCredit
    <3>3. runner[f].attempts = 1 \/ runner[f].now - runner[f].first <= ReviewTime
      <4>1. runner[f].attempts \in 1 .. MaxAttempts
              /\ (runner[f].attempts <= 1 \/ hour - runner[f].first <= ReviewTime)
        BY <1>1, <1>t, <2>4, QueueNumbers DEF Uncertain, Runner, ReferralsTypeOK, Hours
      <4>2. hour \in Nat /\ runner[f].now \in Nat /\ runner[f].first \in Nat
        BY <1>1, <1>t, QueueNumbers DEF Runner, ReferralsTypeOK, Hours
      <4>3. runner[f].now <= hour
        BY <1>1, <1>3 DEF RunnerInv
      <4>4. QED
        BY <4>1, <4>2, <4>3, QueueNumbers
    <3>4. QED
      BY <3>1, <3>2, <3>3, <1>1, <1>2, <1>3, <1>5, <1>6 DEF RunnerInv, Identity
  <2>5. CASE Proceeds(f, "crediting") /\ RunnerAt(f, "asking")
    <3>1. Moved("crediting")
      BY <2>2, <2>5 DEF RunnerSteps
    <3>2. QED
      BY <3>1, <2>5, <1>1, <1>2, <1>3, <1>5, <1>6 DEF RunnerInv, Identity, RunnerAt
  <2>6. CASE Proceeds(f, "finishing") /\ RunnerAt(f, "crediting")
    <3>1. Moved("finishing")
      BY <2>2, <2>6 DEF RunnerSteps
    <3>2. QED
      BY <3>1, <2>6, <1>1, <1>2, <1>3, <1>5, <1>6 DEF RunnerInv, Identity, RunnerAt
  <2>7. QED
    BY <1>t, <2>1, <2>3, <2>4, <2>5, <2>6, RunnerGoes
<1>10. ASSUME NEW g \in Runners PROVE RunnerInv(g)'
  <2>1. CASE g = f
    BY <2>1, <1>9
  <2>2. CASE g # f
    BY <2>2, <1>t, <1>5, <1>6, <1>8, RunnerFrame, RunnersReward DEF ReferralsInv
  <2>3. QED
    BY <2>1, <2>2
<1>11. AttributionInv'
  BY <1>t, <1>5, <1>6 DEF AttributionInv, captures, Identity
<1>12. SettledInv'
  BY <1>t, <1>5, <1>6 DEF SettledInv, captures
<1>13. ReferralsTypeOK'
  BY <1>t, <1>5, <1>6, <1>7, <1>8 DEF ReferralsTypeOK, captures
<1>14. QED
  BY <1>7, <1>10, <1>11, <1>12, <1>13 DEF ReferralsInv

LEMMA ClaimStep ==
  ASSUME ReferralsInv, NEW f \in Runners, NEW x \in Rewards, ClaimReward(f, x)
  PROVE  ReferralsInv'
<1>t. ReferralsTypeOK /\ AttributionInv /\ SettledInv /\ RewardInv(x)
  BY DEF ReferralsInv
<1>1. PICK r \in Reward, s \in Runner :
        /\ ToReward(x, r) /\ runner' = [runner EXCEPT ![f] = s]
        /\ r.kind = reward[x].kind /\ r.attempts = reward[x].attempts + 1
        /\ r.first = IF reward[x].first = Never THEN hour ELSE reward[x].first
        /\ s.step = "deciding" /\ s.reward = x /\ s.attempts = r.attempts /\ s.now = hour
        /\ s.first = r.first
        /\ reward[x] \in Reward
  BY <1>t, ClaimRecord
<1>2. /\ reward'[x] = r /\ \A y \in Rewards : y # x => reward'[y] = reward[y]
      /\ reward' \in [Rewards -> Reward \cup {NoReward}]
  BY <1>1, <1>t, OwnReward
<1>3. /\ runner'[f] = s /\ \A g \in Runners : g # f => runner'[g] = runner[g]
      /\ runner' \in [Runners -> Runner \cup {IdleRunner}]
  BY <1>1, <1>t DEF ReferralsTypeOK
<1>4. UNCHANGED <<hour, captures, credits, keptUntil, retried>> /\ referral = "converted"
  BY DEF ClaimReward, Due
<1>5. hour \in Nat /\ hour \in Hours /\ hour # Never /\ RunTime \in Nat
  BY <1>t, QueueNumbers DEF ReferralsTypeOK, Hours, Never
<1>6. reward[x] # NoReward /\ r # NoReward /\ reward[x].attempts \in Nat
  <2>1. \A q \in Reward : q.status \in RewardStatus /\ q.attempts \in 0 .. MaxAttempts
    BY DEF Reward
  <2>2. NoReward.status \notin RewardStatus
    BY DEF NoReward, RewardStatus, Queued
  <2>3. QED
    BY <1>1, <2>1, <2>2, QueueNumbers
<1>7. reward[x].first # Never => reward[x].first \in Hours /\ reward[x].first \in Nat
  BY <1>1, QueueNumbers DEF Reward, Hours
<1>8. reward[x].first # Never => reward[x].first <= hour
  BY <1>t, <1>6 DEF RewardInv
<1>9. r.first # Never /\ r.first <= hour
  BY <1>1, <1>5, <1>8
<1>10. RewardInv(x)'
  <2>1. credits[x] \in Nat
    BY <1>t DEF ReferralsTypeOK
  <2>2. r.attempts # 0
    BY <1>1, <1>6
  <2>3. QED
    BY <1>t, <1>1, <1>2, <1>4, <1>6, <1>9, <2>1, <2>2 DEF RewardInv
<1>11. \A y \in Rewards : y # x => RewardInv(y)'
  BY <1>2, <1>4 DEF RewardInv, ReferralsInv
<1>12. RunnerInv(f)'
  <2>1. r.attempts = 1 => reward[x].attempts = 0
    BY <1>1, <1>6
  <2>2. x \notin retried /\ r.attempts = 1 => r.first = hour
    BY <1>t, <1>1, <1>6, <2>1 DEF RewardInv
  <2>3. QED
    BY <1>1, <1>2, <1>3, <1>4, <1>5, <1>6, <1>9, <2>2 DEF RunnerInv
<1>13. ASSUME NEW g \in Runners, g # f PROVE RunnerInv(g)'
  <2> SUFFICES ASSUME runner[g] # IdleRunner PROVE RunnerInv(g)'
    BY <1>3, <1>13 DEF RunnerInv
  <2>1. runner[g].reward \in Rewards /\ RunnerInv(g) /\ runner'[g] = runner[g]
    BY <1>t, <1>3, <1>13, RunnersReward DEF ReferralsInv
  <2>2. runner[g].first # Never
    BY <1>t, RunnerRecord, QueueNumbers DEF Runner, Hours, Never
  <2>3. CASE runner[g].reward = x
    BY <1>1, <1>2, <1>4, <1>6, <2>1, <2>2, <2>3 DEF RunnerInv
  <2>4. CASE runner[g].reward # x
    BY <1>2, <1>4, <2>1, <2>4 DEF RunnerInv
  <2>5. QED
    BY <2>3, <2>4
<1>14. AttributionInv'
  BY <1>t, <1>2, <1>4, <1>6 DEF AttributionInv, captures
<1>15. SettledInv'
  BY <1>t, <1>4 DEF SettledInv, captures
<1>16. ReferralsTypeOK'
  BY <1>t, <1>2, <1>3, <1>4 DEF ReferralsTypeOK, captures
<1>17. QED
  BY <1>10, <1>11, <1>12, <1>13, <1>14, <1>15, <1>16 DEF ReferralsInv

LEMMA RetryStep ==
  ASSUME ReferralsInv, NEW x \in Rewards, RetryReward(x)
  PROVE  ReferralsInv'
<1>t. ReferralsTypeOK /\ AttributionInv /\ SettledInv /\ RewardInv(x)
  BY DEF ReferralsInv
<1>1. PICK r \in Reward :
        /\ ToReward(x, r) /\ reward[x] \in Reward /\ reward[x].status = "failed"
        /\ r.kind = reward[x].kind /\ r.first = reward[x].first
  BY <1>t, RetryRecord
<1>2. /\ reward'[x] = r /\ \A y \in Rewards : y # x => reward'[y] = reward[y]
      /\ reward' \in [Rewards -> Reward \cup {NoReward}]
  BY <1>1, <1>t, OwnReward
<1>3. UNCHANGED <<hour, captures, credits, keptUntil, runner>> /\ retried' = retried \cup {x}
  BY DEF RetryReward
<1>4. reward[x] # NoReward /\ reward'[x] # NoReward
  <2>1. \A q \in Reward : q.status \in RewardStatus
    BY DEF Reward
  <2>2. NoReward.status \notin RewardStatus
    BY DEF NoReward, RewardStatus, Queued
  <2>3. QED
    BY <1>1, <1>2, <2>1, <2>2
<1>5. \A y \in Rewards : RewardInv(y)'
  BY <1>1, <1>2, <1>3, <1>4 DEF RewardInv, ReferralsInv
<1>6. ASSUME NEW g \in Runners PROVE RunnerInv(g)'
  <2>1. runner[g] # IdleRunner => runner[g].reward \in Rewards
    BY <1>t, RunnersReward
  <2>2. RunnerInv(g)
    BY DEF ReferralsInv
  <2>3. QED
    BY <1>1, <1>2, <1>3, <1>4, <2>1, <2>2 DEF RunnerInv
<1>7. AttributionInv'
  BY <1>t, <1>2, <1>3, <1>4 DEF AttributionInv, captures
<1>8. ~settled
  BY <1>t, <1>1, <1>4 DEF SettledInv, Gone
<1>9. SettledInv'
  BY <1>3, <1>8 DEF SettledInv, captures
<1>10. ReferralsTypeOK'
  BY <1>t, <1>2, <1>3 DEF ReferralsTypeOK, captures
<1>11. QED
  BY <1>5, <1>6, <1>7, <1>9, <1>10 DEF ReferralsInv

\* While no reward exists, no function runs for one and no credit was given.
LEMMA BeforeConversion ==
  ASSUME ReferralsInv, \A x \in Rewards : reward[x] = NoReward
  PROVE  /\ \A f \in Runners : runner[f] = IdleRunner
         /\ \A x \in Rewards : credits[x] = 0
<1>1. ASSUME NEW f \in Runners, runner[f] # IdleRunner PROVE FALSE
  BY <1>1, RunnersReward DEF ReferralsInv, RunnerInv
<1>2. QED
  BY <1>1 DEF ReferralsInv, RewardInv

LEMMA CommitRecordStep ==
  ASSUME ReferralsInv, NEW p \in Recorders, CommitRecord(p)
  PROVE  ReferralsInv'
<1>t. ReferralsTypeOK /\ AttributionInv /\ SettledInv
  BY DEF ReferralsInv
<1>1. /\ recorder[p] = "converting" /\ recorder' = [recorder EXCEPT ![p] = "ended"]
      /\ referral' = "converted"
      /\ UNCHANGED <<hour, reversed, reverser, settled, credits, keptUntil, runner, retried>>
  BY DEF CommitRecord
<1>2. /\ reward' \in [Rewards -> Reward]
      /\ \A x \in Rewards : reward'[x].attempts = 0 /\ reward'[x].first = Never
  BY <1>t, ConvertedRewards
<1>3. \A x \in Rewards : reward'[x] # NoReward
  <2>1. \A q \in Reward : q.status \in RewardStatus
    BY DEF Reward
  <2>2. NoReward.status \notin RewardStatus
    BY DEF NoReward, RewardStatus, Queued
  <2>3. QED
    BY <1>2, <2>1, <2>2
<1>4. referral = "attributed" /\ ~settled
  BY <1>1, <1>t DEF AttributionInv, SettledInv
<1>5. \A x \in Rewards : reward[x] = NoReward
  BY <1>t, <1>4 DEF AttributionInv
<1>6. /\ \A f \in Runners : runner[f] = IdleRunner
      /\ \A x \in Rewards : credits[x] = 0
  BY <1>5, BeforeConversion
<1>7. \A x \in Rewards : RewardInv(x)'
  BY <1>1, <1>2, <1>3, <1>6 DEF RewardInv
<1>8. \A f \in Runners : RunnerInv(f)'
  BY <1>1, <1>6 DEF RunnerInv
<1>9. AttributionInv'
  <2>1. \A q \in Recorders : recorder'[q] = "converting" => recorder[q] = "converting" /\ q # p
    BY <1>t, <1>1 DEF ReferralsTypeOK
  <2>2. QED
    BY <1>t, <1>1, <1>3, <1>4, <2>1 DEF AttributionInv
<1>10. SettledInv'
  BY <1>1, <1>4 DEF SettledInv
<1>11. ReferralsTypeOK'
  BY <1>t, <1>1, <1>2 DEF ReferralsTypeOK
<1>12. QED
  BY <1>7, <1>8, <1>9, <1>10, <1>11 DEF ReferralsInv

LEMMA StartRecordStep ==
  ASSUME ReferralsInv, NEW p \in Recorders, StartRecord(p)
  PROVE  ReferralsInv'
<1>t. ReferralsTypeOK /\ AttributionInv /\ SettledInv
  BY DEF ReferralsInv
<1>1. /\ \A q \in Recorders : recorder[q] # "converting"
      /\ recorder' = [recorder EXCEPT ![p] = IF Converts THEN "converting" ELSE "ended"]
      /\ reverser' = IF Converts THEN Overlaps ELSE reverser
      /\ UNCHANGED <<hour, referral, reversed, settled, program>>
  BY DEF StartRecord
<1>2. recorder' \in [Recorders -> {"new", "converting", "ended"}]
  BY <1>t, <1>1 DEF ReferralsTypeOK
<1>3. \A q \in Recorders : recorder'[q] = "converting" => q = p /\ Converts
  BY <1>t, <1>1 DEF ReferralsTypeOK
<1>5. reverser' \in [Reversers -> [step : {"new", "open", "ended"}, found : BOOLEAN, alone : BOOLEAN]]
  BY <1>t, <1>1 DEF ReferralsTypeOK, Overlaps
<1>6. AttributionInv'
  <2>1. UNCHANGED <<referral, reversed, reward>> /\ (Converts => referral = "attributed")
    BY <1>1 DEF program, Converts
  <2>2. \A x \in Rewards : reward'[x] = NoReward <=> referral' \in {"none", "attributed"}
    BY <1>t, <2>1 DEF AttributionInv
  <2>3. \A q \in Recorders : recorder'[q] = "converting" =>
          /\ referral' = "attributed"
          /\ \A o \in Recorders : recorder'[o] = "converting" => o = q
    BY <1>3, <2>1
  <2>4. ASSUME NEW v \in Reversers, reverser'[v].step = "open"
        PROVE  /\ reverser'[v].found => referral' \in {"converted", "reversed"}
               /\ reverser'[v].alone =>
                    /\ \A q \in Recorders : recorder'[q] # "converting"
                    /\ referral' \in {"converted", "reversed"} => reverser'[v].found
    <3> DEFINE old == reverser[v]
               new == reverser'[v]
    <3>1. /\ new = IF Converts /\ old.step = "open" THEN [old EXCEPT !.alone = FALSE] ELSE old
          /\ old \in [step : {"new", "open", "ended"}, found : BOOLEAN, alone : BOOLEAN]
          /\ new.step = "open"
      BY <1>t, <1>1, <2>4 DEF ReferralsTypeOK, Overlaps
    <3>2. /\ old.step = "open" /\ old.found => referral \in {"converted", "reversed"}
          /\ old.step = "open" /\ old.alone /\ referral \in {"converted", "reversed"} => old.found
      BY <1>t DEF AttributionInv
    <3> HIDE DEF old, new
    <3>3. /\ old.step = "open" /\ new.found = old.found
          /\ new.alone => old.alone /\ ~Converts
      BY <3>1
    <3>4. /\ new.found => referral' \in {"converted", "reversed"}
          /\ new.alone => /\ \A q \in Recorders : recorder'[q] # "converting"
                          /\ referral' \in {"converted", "reversed"} => new.found
      BY <1>3, <2>1, <3>2, <3>3
    <3>5. QED
      BY <3>4 DEF new
  <2>5. QED
    BY <2>2, <2>3, <2>4 DEF AttributionInv
<1>7. SettledInv'
  BY <1>t, <1>1, <1>3 DEF SettledInv, program, Converts, Gone
<1>8. \A x \in Rewards : RewardInv(x)'
  BY <1>1 DEF ReferralsInv, RewardInv, program
<1>9. \A f \in Runners : RunnerInv(f)'
  BY <1>1 DEF ReferralsInv, RunnerInv, program
<1>10. ReferralsTypeOK'
  BY <1>t, <1>1, <1>2, <1>5 DEF ReferralsTypeOK, program
<1>11. QED
  BY <1>6, <1>7, <1>8, <1>9, <1>10 DEF ReferralsInv

Reversal == [step : {"new", "open", "ended"}, found : BOOLEAN, alone : BOOLEAN]

LEMMA StartReversalStep ==
  ASSUME ReferralsInv, NEW v \in Reversers, StartReversal(v)
  PROVE  ReferralsInv'
<1>t. ReferralsTypeOK /\ AttributionInv /\ SettledInv
  BY DEF ReferralsInv
<1> DEFINE known == referral \in {"converted", "reversed"}
           alone == \A p \in Recorders : recorder[p] # "converting"
           new == [step |-> "open", found |-> known, alone |-> alone]
<1>1. /\ reverser' = [reverser EXCEPT ![v] = new]
      /\ UNCHANGED <<hour, referral, reversed, recorder, settled, program>>
  BY DEF StartReversal
<1>2. reverser \in [Reversers -> Reversal]
  BY <1>t DEF ReferralsTypeOK, Reversal
<1>3. known \in BOOLEAN /\ alone \in BOOLEAN
  OBVIOUS
<1>4. /\ known => referral \in {"converted", "reversed"}
      /\ referral \in {"converted", "reversed"} => known
      /\ alone => \A p \in Recorders : recorder[p] # "converting"
  OBVIOUS
<1> HIDE DEF known, alone
<1>5. new \in Reversal /\ (new.found <=> known) /\ (new.alone <=> alone)
  BY <1>3 DEF Reversal
<1> HIDE DEF new
<1>6. /\ reverser'[v] = new /\ \A u \in Reversers : u # v => reverser'[u] = reverser[u]
      /\ reverser' \in [Reversers -> Reversal]
  BY <1>1, <1>2, <1>5
<1>7. AttributionInv'
  BY <1>t, <1>1, <1>4, <1>5, <1>6 DEF AttributionInv, program
<1>8. SettledInv'
  BY <1>t, <1>1 DEF SettledInv, program, Gone
<1>9. \A x \in Rewards : RewardInv(x)'
  BY <1>1 DEF ReferralsInv, RewardInv, program
<1>10. \A f \in Runners : RunnerInv(f)'
  BY <1>1 DEF ReferralsInv, RunnerInv, program
<1>11. ReferralsTypeOK'
  BY <1>t, <1>1, <1>6 DEF ReferralsTypeOK, program, Reversal
<1>12. QED
  BY <1>7, <1>8, <1>9, <1>10, <1>11 DEF ReferralsInv

LEMMA CommitReversalStep ==
  ASSUME ReferralsInv, NEW v \in Reversers, CommitReversal(v)
  PROVE  ReferralsInv'
<1>t. ReferralsTypeOK /\ AttributionInv /\ SettledInv
  BY DEF ReferralsInv
<1> DEFINE found == reverser[v].found
           alone == reverser[v].alone
<1>1. /\ reverser[v].step = "open" /\ reversed' = TRUE /\ settled' = (settled \/ alone)
      /\ reverser' = [reverser EXCEPT ![v].step = "ended"]
      /\ UNCHANGED <<hour, recorder, credits, keptUntil, runner, retried>>
      /\ found => referral' = "reversed"
      /\ ~found => UNCHANGED <<referral, reward>>
  BY DEF CommitReversal
<1>2. /\ found => referral \in {"converted", "reversed"}
      /\ alone => /\ \A p \in Recorders : recorder[p] # "converting"
                  /\ referral \in {"converted", "reversed"} => found
  BY <1>t, <1>1 DEF AttributionInv
<1>3. found => \A x \in Rewards : reward[x] # NoReward
  BY <1>t, <1>2 DEF AttributionInv
<1>4. reverser[v] \in Reversal
  BY <1>t DEF ReferralsTypeOK, Reversal
<1>5. /\ reverser'[v].step = "ended"
      /\ \A u \in Reversers : u # v => reverser'[u] = reverser[u]
      /\ reverser' \in [Reversers -> Reversal]
  <2> DEFINE old == reverser[v]
             new == [old EXCEPT !.step = "ended"]
  <2>1. reverser' = [reverser EXCEPT ![v] = new]
    BY <1>1
  <2>2. old \in Reversal
    BY <1>4
  <2> HIDE DEF old
  <2>3. new \in Reversal /\ new.step = "ended"
    BY <2>2 DEF Reversal
  <2> HIDE DEF new
  <2>4. reverser \in [Reversers -> Reversal]
    BY <1>t DEF ReferralsTypeOK, Reversal
  <2>5. QED
    BY <2>1, <2>3, <2>4
<1>6. found => /\ \A x \in Rewards : Identity(x) /\ Gone(x)' /\ reward'[x] \in Reward
               /\ reward' \in [Rewards -> Reward]
  <2> SUFFICES ASSUME found
               PROVE  /\ \A x \in Rewards : Identity(x) /\ Gone(x)' /\ reward'[x] \in Reward
                      /\ reward' \in [Rewards -> Reward]
    OBVIOUS
  <2>1. ASSUME NEW x \in Rewards PROVE Identity(x) /\ Gone(x)' /\ reward'[x] \in Reward
    <3>1. /\ reward'[x] \in Reward
          /\ reward'[x].kind = reward[x].kind /\ reward'[x].first = reward[x].first
          /\ reward'[x].attempts = reward[x].attempts
          /\ reward'[x].granted # "live" /\ reward'[x].status \in {"cancelled", "review"}
          /\ reward[x].kind = "credit" /\ reward[x].first # Never => reward'[x].status = "review"
      BY <1>t, <1>3, ReversedReward
    <3>2. reward'[x] # NoReward /\ reward[x] # NoReward
      <4>1. \A q \in Reward : q.status \in RewardStatus
        BY DEF Reward
      <4>2. NoReward.status \notin RewardStatus
        BY DEF NoReward, RewardStatus, Queued
      <4>3. QED
        BY <1>3, <3>1, <4>1, <4>2
    <3>3. QED
      BY <3>1, <3>2 DEF Identity, Gone
  <2>2. \E body : reward' = [x \in Rewards |-> body[x]]
    <3>1. reward' = [x \in Rewards |->
                 [reward[x] EXCEPT !.status = TakenBack(reward[x]), !.locked = -1,
                                   !.granted = IF reward[x].granted = "live" THEN "revoked"
                                               ELSE reward[x].granted]]
      BY DEF CommitReversal
    <3>2. reward' = [x \in Rewards |-> reward'[x]]
      BY <3>1
    <3>3. QED
      BY <3>2
  <2>3. QED
    BY <2>1, <2>2
<1>7. \A x \in Rewards : Identity(x)
  BY <1>1, <1>6 DEF Identity
<1>8. reward' \in [Rewards -> Reward \cup {NoReward}]
  BY <1>1, <1>6, <1>t DEF ReferralsTypeOK
<1>9. \A x \in Rewards : RewardInv(x)'
  BY <1>1, <1>7, RewardFrame DEF ReferralsInv
<1>10. \A f \in Runners : RunnerInv(f)'
  BY <1>t, <1>1, <1>7, RunnerFrame, RunnersReward DEF ReferralsInv
<1>11. referral' \in {"none", "attributed", "converted", "reversed"}
  BY <1>1, <1>t DEF ReferralsTypeOK
<1> HIDE DEF found, alone
<1>12. AttributionInv'
  <2>1. \A x \in Rewards : reward'[x] = NoReward <=> referral' \in {"none", "attributed"}
    BY <1>t, <1>1, <1>2, <1>7 DEF AttributionInv, Identity
  <2>2. \A p \in Recorders : recorder'[p] = "converting" =>
          /\ referral' = "attributed"
          /\ \A q \in Recorders : recorder'[q] = "converting" => q = p
    BY <1>t, <1>1, <1>2 DEF AttributionInv
  <2>3. \A u \in Reversers : reverser'[u].step = "open" =>
          /\ reverser'[u].found => referral' \in {"converted", "reversed"}
          /\ reverser'[u].alone => /\ \A p \in Recorders : recorder'[p] # "converting"
                                   /\ referral' \in {"converted", "reversed"} => reverser'[u].found
    BY <1>t, <1>1, <1>2, <1>5 DEF AttributionInv
  <2>4. QED
    BY <2>1, <2>2, <2>3 DEF AttributionInv
<1>13. SettledInv'
  <2> SUFFICES ASSUME settled'
               PROVE  /\ referral' # "converted"
                      /\ \A p \in Recorders : recorder[p] # "converting"
                      /\ \A x \in Rewards : Gone(x)'
    BY <1>1 DEF SettledInv
  <2>1. \A p \in Recorders : recorder[p] # "converting"
    BY <1>t, <1>1, <1>2 DEF SettledInv
  <2>2. CASE found
    BY <1>1, <1>6, <2>1, <2>2
  <2>3. CASE ~found /\ settled
    BY <1>t, <1>1, <2>1, <2>3 DEF SettledInv, Gone
  <2>4. CASE ~found /\ alone
    <3>1. referral \in {"none", "attributed"}
      BY <1>t, <1>2, <2>4 DEF ReferralsTypeOK
    <3>2. \A x \in Rewards : reward'[x] = NoReward
      BY <1>t, <1>1, <2>4, <3>1 DEF AttributionInv
    <3>3. QED
      BY <1>1, <2>1, <2>4, <3>1, <3>2 DEF Gone
  <2>5. QED
    BY <1>1, <2>2, <2>3, <2>4
<1>14. ReferralsTypeOK'
  <2>1. settled' \in BOOLEAN
    BY <1>t, <1>1, <1>4 DEF ReferralsTypeOK, Reversal, alone
  <2>2. QED
    BY <1>t, <1>1, <1>5, <1>8, <1>11, <2>1 DEF ReferralsTypeOK, Reversal
<1>15. QED
  BY <1>9, <1>10, <1>12, <1>13, <1>14 DEF ReferralsInv

LEMMA NextHourStep ==
  ASSUME ReferralsInv, NextHour
  PROVE  ReferralsInv'
<1>t. ReferralsTypeOK /\ AttributionInv /\ SettledInv
  BY DEF ReferralsInv
<1>1. /\ hour < LastHour /\ hour' = hour + 1 /\ UNCHANGED <<captures, program>>
      /\ \A f \in Runners : runner[f] # IdleRunner => hour < runner[f].now + RunTime
  BY DEF NextHour
<1>2. hour \in Nat /\ hour' \in Hours /\ RunTime \in Nat
  BY <1>t, <1>1, QueueNumbers DEF ReferralsTypeOK, Hours
<1>3. ASSUME NEW x \in Rewards PROVE RewardInv(x)'
  <2>1. reward[x] # NoReward /\ reward[x].first # Never => reward[x].first \in Nat
    BY <1>t, RewardRecord, QueueNumbers DEF Reward, Hours
  <2>2. RewardInv(x) /\ UNCHANGED <<reward, credits, keptUntil, retried>>
    BY <1>1 DEF ReferralsInv, program
  <2>3. QED
    BY <1>1, <1>2, <2>1, <2>2 DEF RewardInv
<1>4. ASSUME NEW f \in Runners PROVE RunnerInv(f)'
  <2>1. runner[f] # IdleRunner => runner[f].now \in Nat
    BY <1>t, RunnerRecord, QueueNumbers DEF Runner, Hours
  <2>2. RunnerInv(f) /\ UNCHANGED <<reward, runner, retried>>
    BY <1>1 DEF ReferralsInv, program
  <2>3. QED
    BY <1>1, <1>2, <2>1, <2>2 DEF RunnerInv
<1>5. AttributionInv' /\ SettledInv'
  BY <1>t, <1>1 DEF AttributionInv, SettledInv, Gone, captures, program
<1>6. ReferralsTypeOK'
  BY <1>t, <1>1, <1>2 DEF ReferralsTypeOK, captures, program
<1>7. QED
  BY <1>3, <1>4, <1>5, <1>6 DEF ReferralsInv

LEMMA ReferralsStep == ReferralsInv /\ [ReferralsNext]_referralVars => ReferralsInv'
<1> SUFFICES ASSUME ReferralsInv, [ReferralsNext]_referralVars PROVE ReferralsInv'
  OBVIOUS
<1>1. CASE Attribute
  <2>1. UNCHANGED <<hour, reversed, recorder, reverser, settled, program>>
          /\ referral = "none" /\ referral' = "attributed"
    BY <1>1 DEF Attribute
  <2>2. AttributionInv' /\ SettledInv' /\ ReferralsTypeOK'
    BY <2>1 DEF ReferralsInv, AttributionInv, SettledInv, Gone, ReferralsTypeOK, program
  <2>3. (\A x \in Rewards : RewardInv(x)') /\ (\A f \in Runners : RunnerInv(f)')
    BY <2>1 DEF ReferralsInv, RewardInv, RunnerInv, program
  <2>4. QED
    BY <2>2, <2>3 DEF ReferralsInv
<1>2. ASSUME NEW f \in Runners, RunnerWorks(f) PROVE ReferralsInv'
  BY <1>2, RunnerWorksStep
<1>3. ASSUME NEW f \in Runners, NEW x \in Rewards, ClaimReward(f, x) PROVE ReferralsInv'
  BY <1>3, ClaimStep
<1>4. CASE UNCHANGED referralVars
  <2>1. (\A x \in Rewards : RewardInv(x)') /\ (\A f \in Runners : RunnerInv(f)')
    BY <1>4 DEF ReferralsInv, RewardInv, RunnerInv, referralVars
  <2>2. AttributionInv' /\ SettledInv' /\ ReferralsTypeOK'
    BY <1>4 DEF ReferralsInv, AttributionInv, SettledInv, Gone, ReferralsTypeOK, referralVars
  <2>3. QED
    BY <2>1, <2>2 DEF ReferralsInv
<1>5. QED
  BY <1>1, <1>2, <1>3, <1>4, StartRecordStep, CommitRecordStep, StartReversalStep,
     CommitReversalStep, RetryStep, NextHourStep
     DEF ReferralsNext, RunnerWorks

LEMMA ReferralsStarts == ReferralsInit => ReferralsInv
<1> SUFFICES ASSUME ReferralsInit PROVE ReferralsInv
  OBVIOUS
<1>1. ReferralsTypeOK
  <2>1. 0 \in Hours
    BY QueueNumbers DEF Hours
  <2>2. reverser \in [Reversers -> [step : {"new", "open", "ended"}, found : BOOLEAN,
                                  alone : BOOLEAN]]
    BY DEF ReferralsInit
  <2>3. /\ reward \in [Rewards -> Reward \cup {NoReward}]
        /\ runner \in [Runners -> Runner \cup {IdleRunner}]
    BY DEF ReferralsInit
  <2>4. /\ credits \in [Rewards -> Nat] /\ keptUntil \in [Rewards -> Nat]
        /\ recorder \in [Recorders -> {"new", "converting", "ended"}]
    BY DEF ReferralsInit
  <2>5. QED
    BY <2>1, <2>2, <2>3, <2>4 DEF ReferralsInit, ReferralsTypeOK
<1>2. AttributionInv /\ SettledInv
  BY DEF ReferralsInit, AttributionInv, SettledInv
<1>3. (\A x \in Rewards : RewardInv(x)) /\ (\A f \in Runners : RunnerInv(f))
  BY DEF ReferralsInit, RewardInv, RunnerInv
<1>4. QED
  BY <1>1, <1>2, <1>3 DEF ReferralsInv

LEMMA ReferralsInvariant == ReferralsSpec => []ReferralsInv
<1>1. QED
  BY ReferralsStarts, ReferralsStep, PTL DEF ReferralsSpec

\* A reward is credited once however often its functions fail, are killed or repeated,
\* unless support has sent it back to the queue (runReferralRewards).
THEOREM RewardsAreCreditedOnce == ReferralsSpec => []CreditedOnce
<1>1. ReferralsInv => CreditedOnce
  BY ReferralsInvSuffices
<1>2. QED
  BY <1>1, ReferralsInvariant, PTL

\* A reversal that no payment's transaction overlapped takes everything back, whatever
\* was under way (reverse_pressay_referral).
THEOREM ReversalsTakeBack == ReferralsSpec => []ReversedIsTakenBack
<1>1. ReferralsInv => ReversedIsTakenBack
  BY ReferralsInvSuffices
<1>2. QED
  BY <1>1, ReferralsInvariant, PTL

-----------------------------------------------------------------------------
(* ALL THAT IS SOLD AND GIVEN                                              *)

\* Each component moves by steps of its own, in whichever behaviour.
LEMMA CommerceImplements ==
  CommerceSpec => /\ CheckoutSpec /\ AppleSpec /\ EntitlementsSpec
                  /\ CampaignsSpec /\ ReferralsSpec
<1>1. CommerceInit => /\ CheckoutInit /\ AppleInit /\ EntitlementsInit
                      /\ CampaignsInit /\ ReferralsInit
  BY DEF CommerceInit
<1> DEFINE all == <<moving, checkoutVars, appleVars, entitlementVars, campaignVars,
                    referralVars>>
<1>2. [CommerceNext]_all => [CheckoutNext]_checkoutVars
  BY DEF CommerceNext
<1>3. [CommerceNext]_all => [AppleNext]_appleVars
  BY DEF CommerceNext
<1>4. [CommerceNext]_all => [EntitlementsNext]_entitlementVars
  BY DEF CommerceNext
<1>5. [CommerceNext]_all => [CampaignsNext]_campaignVars
  BY DEF CommerceNext
<1>6. [CommerceNext]_all => [ReferralsNext]_referralVars
  BY DEF CommerceNext
<1> QED
  BY <1>1, <1>2, <1>3, <1>4, <1>5, <1>6, PTL
     DEF CommerceSpec, CheckoutSpec, AppleSpec, EntitlementsSpec, CampaignsSpec, ReferralsSpec

\* Types: whatever happens to checkouts, purchases, the entitlement, a campaign and the
\* rewards, their rows are what their modules declare.
THEOREM CommerceTypesCorrect == CommerceSpec => []CommerceTypeOK
<1>1. CheckoutInv => CheckoutTypeOK
  BY DEF CheckoutInv
<1>2. EntitlementsInv => EntitlementsTypeOK
  BY DEF EntitlementsInv
<1>3. CampaignsInv => CampaignsTypeOK
  BY DEF CampaignsInv
<1>4. ReferralsInv => ReferralsTypeOK
  BY DEF ReferralsInv
<1>5. /\ CheckoutTypeOK /\ AppleTypeOK /\ EntitlementsTypeOK /\ CampaignsTypeOK
      /\ ReferralsTypeOK
      => CommerceTypeOK
  BY DEF CommerceTypeOK
<1> QED
  BY <1>1, <1>2, <1>3, <1>4, <1>5, CommerceImplements, CheckoutInvariant,
     EntitlementsInvariant, AppleTypesCorrect, CampaignsInvariant, ReferralsInvariant, PTL

=============================================================================
