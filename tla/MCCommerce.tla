------------------------------ MODULE MCCommerce ------------------------------
(* What is sold and given, on small instances: checkout, App Store purchases,   *)
(* the entitlement, campaigns and referrals.  Each writes tables of its own, so *)
(* nothing is lost when only one of them moves in a behaviour.                  *)
EXTENDS Checkout, AppleSubscriptions, Entitlements, Campaigns, Referrals, TLC

VARIABLE moving   \* the component that moves

CommerceInit ==
  /\ moving \in {"checkout", "apple", "entitlement", "campaign", "referral"}
  /\ CheckoutInit /\ AppleInit /\ EntitlementsInit /\ CampaignsInit /\ ReferralsInit
  /\ moving # "apple" => sandboxed = {} /\ token = [o \in Bought |-> NoBuyer]
  /\ moving # "campaign" => campaign.kind = "access_grant"

CommerceNext ==
  \/ /\ moving = "checkout" /\ CheckoutNext
     /\ UNCHANGED <<moving, appleVars, entitlementVars, campaignVars, referralVars>>
  \/ /\ moving = "apple" /\ AppleNext
     /\ UNCHANGED <<moving, checkoutVars, entitlementVars, campaignVars, referralVars>>
  \/ /\ moving = "entitlement" /\ EntitlementsNext
     /\ UNCHANGED <<moving, checkoutVars, appleVars, campaignVars, referralVars>>
  \/ /\ moving = "campaign" /\ CampaignsNext
     /\ UNCHANGED <<moving, checkoutVars, appleVars, entitlementVars, referralVars>>
  \/ /\ moving = "referral" /\ ReferralsNext
     /\ UNCHANGED <<moving, checkoutVars, appleVars, entitlementVars, campaignVars>>

CommerceSpec ==
  CommerceInit /\ [][CommerceNext]_<<moving, checkoutVars, appleVars, entitlementVars,
                                    campaignVars, referralVars>>

\* The state of every component has the types its module declares.
CommerceTypeOK ==
  /\ CheckoutTypeOK /\ AppleTypeOK /\ EntitlementsTypeOK /\ CampaignsTypeOK
  /\ ReferralsTypeOK

\* Functions and rows are interchangeable in every component.
Symmetry == Permutations(Hooks) \cup Permutations(Notices) \cup Permutations(Bought)
=============================================================================
