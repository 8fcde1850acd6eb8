--------------------------- MODULE MCBillingUsage ---------------------------
(* TLC instance of BillingUsage: jobs are interchangeable, and requests.    *)
EXTENDS BillingUsage, TLC

Symmetry == Permutations(Jobs) \union Permutations(Requests)
=============================================================================
