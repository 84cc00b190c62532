---------------------------- MODULE MCMemoryView ----------------------------
(* TLC instances of MemoryView.                                            *)
EXTENDS MemoryView, TLC

Symmetry == Permutations(Addrs)
=============================================================================
