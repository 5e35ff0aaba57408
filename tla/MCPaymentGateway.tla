-------------------------- MODULE MCPaymentGateway --------------------------
(* One account holder's requests, a release loop and a few drafts.  Drafts,  *)
(* threads and nonces are model values; threads and nonces are symmetric.    *)
EXTENDS PaymentGateway, TLC

MCSymmetry == Permutations(Requests) \cup Permutations(Nonces) \cup Permutations(Drafts)
=============================================================================
