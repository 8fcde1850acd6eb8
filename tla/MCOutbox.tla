------------------------------ MODULE MCOutbox ------------------------------
(* Instances of Outbox for TLC.  Handlers and, in the safety runs, events  *)
(* and consumers are interchangeable.                                      *)
EXTENDS Outbox, TLC

Symmetry == Permutations(Events) \union Permutations(Consumers)
              \union Permutations(Handlers)
=============================================================================
