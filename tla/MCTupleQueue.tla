---------------------------- MODULE MCTupleQueue ----------------------------
(* TLC instances of TupleQueue.                                            *)
EXTENDS TupleQueue
=============================================================================
