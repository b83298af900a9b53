------------------------- MODULE MCServiceLifecycle -------------------------
(* ServiceLifecycle for TLC: the active queues may change places.          *)
EXTENDS ServiceLifecycle, TLC

ActiveSymmetry == Permutations(ActiveNames)

=============================================================================
