----------------------------- MODULE MCAutoLock -----------------------------
(* Instances of AutoLock for TLC.                                          *)
EXTENDS AutoLock, TLC

\* Events and callbacks are told apart by what they do only.
Symmetry == Permutations(Events) \cup Permutations(Calls)
=============================================================================
