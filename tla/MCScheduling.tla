---------------------------- MODULE MCScheduling ----------------------------
(* TLC instance of Scheduling: the second availability narrows the first.   *)
EXTENDS Scheduling, TLC
CONSTANTS t1, t2
MCWindows == {{t1, t2}, {t2}}
Symmetry == Permutations(Requests)
=============================================================================
