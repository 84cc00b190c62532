--------------------------- MODULE MCObserverDyn ---------------------------
(* TLC instance of ObserverDyn: msvcrt, which is avoided, and two modules, *)
(* one slot of each kind for their three functions.                        *)
EXTENDS ObserverDyn

DynModules == {"msvcrt", "crt", "app"}
DynAvoided == {"msvcrt"}
DynMallocs == [m \in DynModules |-> IF m = "crt" THEN {1} ELSE IF m = "app" THEN {} ELSE {4}]
DynFrees == [m \in DynModules |-> IF m = "msvcrt" THEN {3} ELSE IF m = "crt" THEN {2} ELSE {5}]
=============================================================================
