---------------------------- MODULE MCStripeEvents ----------------------------
(* The Stripe webhook on small instances.  Events and functions are            *)
(* interchangeable; subscriptions are not, because one may be foreign.         *)
EXTENDS StripeEvents, TLC

Symmetry == Permutations(Events) \cup Permutations(Workers)
=============================================================================
