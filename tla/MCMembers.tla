--------------------------- MODULE MCMembers ---------------------------
(* TLC instance of Members: the members other than the founder are alike. *)
EXTENDS Members, TLC
Symmetry == Permutations(Users \ {Founder}) \union Permutations(Requests)
=============================================================================
