--------------------------- MODULE MCSignalState ---------------------------
(* SignalState on small instances. *)
EXTENDS SignalState, TLC

Symmetry == Permutations(Handlers)
=============================================================================
