--------------------------- MODULE OrderedDelivery ---------------------------
(***************************************************************************)
(* What the hand-off between the socket thread and the handler thread of   *)
(* the HeapMonitor GUI promises: the tuples accepted from the socket are   *)
(* handled once each, in the order in which they were accepted; once it is *)
(* told to stop the hand-off may leave the rest unhandled.                 *)
(***************************************************************************)
EXTENDS Naturals, Sequences

CONSTANT Tuples       \* the (address, trace) pairs that can arrive

VARIABLES accepted,   \* every tuple handed over so far, oldest first
          handled,    \* every tuple handled so far, oldest first
          stopped     \* has anyone asked for a stop?

vars == <<accepted, handled, stopped>>

Init == accepted = <<>> /\ handled = <<>> /\ stopped = FALSE

Accept(t) ==
  /\ accepted' = Append(accepted, t)
  /\ UNCHANGED <<handled, stopped>>

Handle ==
  /\ Len(handled) < Len(accepted)
  /\ handled' = Append(handled, accepted[Len(handled) + 1])
  /\ UNCHANGED <<accepted, stopped>>

Stop ==
  /\ stopped' = TRUE
  /\ UNCHANGED <<accepted, handled>>

Next == Handle \/ Stop \/ \E t \in Tuples : Accept(t)

Safety == Init /\ [][Next]_vars

Spec == Safety /\ WF_vars(~stopped /\ Handle)
==============================================================================
