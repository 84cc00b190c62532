---------------------------- MODULE MCInjection ----------------------------
(* An instance of Injection, with HookSetup, for TLC: two modules that     *)
(* share one malloc, a third that is avoided, and two slots.               *)
EXTENDS Injection
CONSTANTS i1, i2, a, b, f
MCInjectors == {i1, i2}
MCModules == {"m", "n", "msvcrt"}
MCMallocs == [m \in MCModules |-> IF m = "m" THEN {a} ELSE {a, b}]
MCFrees == [m \in MCModules |-> IF m = "m" THEN {f} ELSE {}]
MCLines == {<<>>, <<"-p", "7", "-d", "dll">>, <<"-e", "exe", "-d", "dll">>,
            <<"-d", "dll", "-p", "7">>, <<"-e", "exe", "-a", "x", "-d", "dll">>,
            <<"-p", "7", "-d", "none">>}
=============================================================================
