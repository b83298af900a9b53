-------------------------- MODULE MCBullMQAdapter --------------------------
(* Model checking of BullMQAdapter: calls of cancelJob are interchangeable. *)
EXTENDS BullMQAdapter, TLC

CancelSymmetry == Permutations(Cancels)

=============================================================================
