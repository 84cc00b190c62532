--------------------------- MODULE MCConnectButton ---------------------------
(* TLC instances of ConnectButton.                                         *)
EXTENDS ConnectButton
=============================================================================
