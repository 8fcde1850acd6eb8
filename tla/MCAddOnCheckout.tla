-------------------------- MODULE MCAddOnCheckout ---------------------------
(* TLC instance of AddOnCheckout.                                           *)
EXTENDS AddOnCheckout, TLC
=============================================================================
