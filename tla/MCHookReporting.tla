--------------------------- MODULE MCHookReporting ---------------------------
(* TLC instances of HookReporting.                                         *)
EXTENDS HookReporting
=============================================================================
