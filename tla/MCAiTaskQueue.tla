--------------------------- MODULE MCAiTaskQueue ---------------------------
(* AiTaskQueue for TLC: the worker slots are interchangeable.               *)
EXTENDS AiTaskQueue, TLC

Symmetry == Permutations(Slots)
=============================================================================
