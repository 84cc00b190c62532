---------------------------- MODULE MCCodeBuffer ----------------------------
(* An instance of CodeBuffer for TLC: two functions that share blocks, and *)
(* one too far away for that; a block holds three or four pieces.          *)
EXTENDS CodeBuffer

MCTargets == {20, 22, 60}
MCPlaces == {4 * n : n \in {3, 6, 7, 11, 15, 18}}
MCSize == [t \in MCTargets |->
            [k \in Kinds |-> IF t = 20 /\ k = "trampoline" THEN 2 ELSE 1]]
=============================================================================
