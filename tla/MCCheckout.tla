------------------------------ MODULE MCCheckout ------------------------------
EXTENDS Checkout, TLC
Symmetry == Permutations(Requests) \cup Permutations(CheckoutKeys) \cup Permutations(Prices)
=============================================================================
