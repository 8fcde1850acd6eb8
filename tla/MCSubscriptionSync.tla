------------------------- MODULE MCSubscriptionSync -------------------------
(* TLC instance of SubscriptionSync.                                        *)
EXTENDS SubscriptionSync, TLC
=============================================================================
