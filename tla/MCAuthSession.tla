--------------------------- MODULE MCAuthSession ---------------------------
(* A small instance of AuthSession for TLC.                                *)
EXTENDS AuthSession, TLC

\* The tabs of a browser are interchangeable.
Symmetry == Permutations(Tabs)
=============================================================================
