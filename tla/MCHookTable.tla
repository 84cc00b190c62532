---------------------------- MODULE MCHookTable ----------------------------
(* An instance of HookTable for TLC.                                       *)
EXTENDS HookTable, TLC
CONSTANTS t1, t2
MCThreads == {t1, t2}
MCTargets == {1, 2}
Symmetric == Permutations(MCThreads)
=============================================================================
