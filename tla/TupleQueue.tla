----------------------------- MODULE TupleQueue -----------------------------
(***************************************************************************)
(* MemoryTupleHandler.java on top of ManagedRunnable.java: the socket      *)
(* thread adds (address, trace) tuples to a queue and notifies; the        *)
(* handler thread waits to be notified, drains the queue and goes back to  *)
(* waiting.  A synchronized block is one step; Object.wait is two, one     *)
(* that joins the wait set and one that rechecks the condition.            *)
(***************************************************************************)
EXTENDS Naturals, Sequences

CONSTANTS Tuples,         \* the tuples the socket thread can decode
          NoTuple,        \* null
          MaxTuples,      \* bound: tuples decoded in one connection
          ShutdownCalls   \* calls of shutdown(): the GUI makes none

ASSUME NoTupleAssumption == NoTuple \notin Tuples
ASSUME MaxTuplesAssumption == MaxTuples \in Nat
ASSUME ShutdownAssumption == ShutdownCalls \in Nat

VARIABLES
  queue,              \* incomingTraceQueue
  notified,           \* the monitor's condition
  shutdownRequested,
  isRunning,
  reader,             \* "new", "idle" or "notify": where the socket thread is
  handler,            \* where the handler thread is
  current,            \* anObjArr
  accepted,           \* history: every tuple added to the queue
  handled,            \* history: every tuple given to MainFrame.addTrace
  shutdowns           \* calls of shutdown() so far

vars == <<queue, notified, shutdownRequested, isRunning, reader, handler,
          current, accepted, handled, shutdowns>>
monitor == <<notified, shutdownRequested, isRunning, shutdowns>>

ReaderStates == {"new", "idle", "notify"}

\* "unstarted": start() not called; "submitted": given to the executor;
\* "waiting": in the wait set; "woken": out of it, about to recheck.
HandlerStates == {"unstarted", "submitted", "loop", "enterWait", "waiting",
                  "woken", "testEmpty", "poll", "handle", "stopping", "done"}

TypeOK ==
  /\ queue \in Seq(Tuples)
  /\ notified \in BOOLEAN
  /\ shutdownRequested \in BOOLEAN
  /\ isRunning \in BOOLEAN
  /\ reader \in ReaderStates
  /\ handler \in HandlerStates
  /\ IF handler = "handle" THEN current \in Tuples ELSE current = NoTuple
  /\ accepted \in Seq(Tuples)
  /\ handled \in Seq(Tuples)
  /\ shutdowns \in 0 .. ShutdownCalls

Init ==
  /\ queue = <<>>
  /\ notified = FALSE
  /\ shutdownRequested = FALSE
  /\ isRunning = FALSE
  /\ reader = "new"
  /\ handler = "unstarted"
  /\ current = NoTuple
  /\ accepted = <<>>
  /\ handled = <<>>
  /\ shutdowns = 0

-----------------------------------------------------------------------------
(* The socket thread: SocketHandler.run                                    *)

\* ManagedRunnable.start: submit the handler unless it is running.
Start ==
  /\ reader = "new"
  /\ handler' = IF isRunning THEN handler ELSE "submitted"
  /\ reader' = "idle"
  /\ UNCHANGED <<queue, monitor, current, accepted, handled>>

\* Mutant of AddIncoming: the queue is a stack.
AddIncomingOnTop(t) ==
  /\ reader = "idle"
  /\ Len(accepted) < MaxTuples
  /\ queue' = <<t>> \o queue
  /\ accepted' = Append(accepted, t)
  /\ reader' = "notify"
  /\ UNCHANGED <<monitor, handler, current, handled>>

\* processIncoming, first half: the tuple joins the queue.
AddIncoming(t) ==
  /\ reader = "idle"
  /\ Len(accepted) < MaxTuples
  /\ queue' = Append(queue, t)
  /\ accepted' = Append(accepted, t)
  /\ reader' = "notify"
  /\ UNCHANGED <<monitor, handler, current, handled>>

\* notifyAll(): whoever is in the wait set leaves it.
NotifyAll == handler' = IF handler = "waiting" THEN "woken" ELSE handler

\* Mutant of BeNotified: the flag is set and nobody is woken.
BeNotifiedSilently ==
  /\ reader = "notify"
  /\ notified' = TRUE
  /\ reader' = "idle"
  /\ UNCHANGED <<queue, shutdownRequested, isRunning, handler, current,
                 accepted, handled, shutdowns>>

\* processIncoming, second half: beNotified().
BeNotified ==
  /\ reader = "notify"
  /\ notified' = TRUE
  /\ NotifyAll
  /\ reader' = "idle"
  /\ UNCHANGED <<queue, shutdownRequested, isRunning, current, accepted,
                 handled, shutdowns>>

\* shutdown(), called by anyone who holds the handler.
Shutdown ==
  /\ reader # "new"
  /\ shutdowns < ShutdownCalls
  /\ shutdowns' = shutdowns + 1
  /\ shutdownRequested' = TRUE
  /\ NotifyAll
  /\ UNCHANGED <<queue, notified, isRunning, reader, current, accepted, handled>>

-----------------------------------------------------------------------------
(* The handler thread: ManagedRunnable.run and MemoryTupleHandler.go       *)

\* run(): the executor gives the handler a thread, which sets isRunning.
BeginRun ==
  /\ handler = "submitted"
  /\ isRunning' = TRUE
  /\ handler' = "loop"
  /\ UNCHANGED <<queue, notified, shutdownRequested, reader, current, accepted,
                 handled, shutdowns>>

\* Mutant of TestShutdown: go() loops for ever.
TestNothing ==
  /\ handler = "loop"
  /\ handler' = "enterWait"
  /\ UNCHANGED <<queue, monitor, reader, current, accepted, handled>>

\* go(): while( !shutdownRequested )
TestShutdown ==
  /\ handler = "loop"
  /\ handler' = IF shutdownRequested THEN "stopping" ELSE "enterWait"
  /\ UNCHANGED <<queue, monitor, reader, current, accepted, handled>>

\* waitToBeNotified(): with the monitor held, test the condition and either
\* join the wait set or consume the notification.
WaitToBeNotified ==
  /\ handler \in {"enterWait", "woken"}
  /\ IF notified \/ shutdownRequested
     THEN handler' = "testEmpty" /\ notified' = FALSE
     ELSE handler' = "waiting" /\ UNCHANGED notified
  /\ UNCHANGED <<queue, shutdownRequested, isRunning, reader, current, accepted,
                 handled, shutdowns>>

\* Object.wait may return although nobody notified.
WakeSpuriously ==
  /\ handler = "waiting"
  /\ handler' = "woken"
  /\ UNCHANGED <<queue, monitor, reader, current, accepted, handled>>

\* go(): while( !isIncomingEmpty() )
TestEmpty ==
  /\ handler = "testEmpty"
  /\ handler' = IF queue = <<>> THEN "loop" ELSE "poll"
  /\ UNCHANGED <<queue, monitor, reader, current, accepted, handled>>

\* Mutant of Poll: peek() in the place of poll().
PeekOnly ==
  /\ handler = "poll"
  /\ IF queue = <<>>
     THEN handler' = "testEmpty" /\ UNCHANGED current
     ELSE handler' = "handle" /\ current' = Head(queue)
  /\ UNCHANGED <<queue, monitor, reader, accepted, handled>>

\* poll() answers null on an empty queue, and go() then tests again.
Poll ==
  /\ handler = "poll"
  /\ IF queue = <<>>
     THEN handler' = "testEmpty" /\ UNCHANGED <<queue, current>>
     ELSE /\ current' = Head(queue)
          /\ queue' = Tail(queue)
          /\ handler' = "handle"
  /\ UNCHANGED <<monitor, reader, accepted, handled>>

\* handleIncoming: MainFrame.addTrace, then forget the tuple.
HandleIncoming ==
  /\ handler = "handle"
  /\ handled' = Append(handled, current)
  /\ current' = NoTuple
  /\ handler' = "testEmpty"
  /\ UNCHANGED <<queue, monitor, reader, accepted>>

\* run(): go() has returned.
EndRun ==
  /\ handler = "stopping"
  /\ isRunning' = FALSE
  /\ handler' = "done"
  /\ UNCHANGED <<queue, notified, shutdownRequested, reader, current, accepted,
                 handled, shutdowns>>

-----------------------------------------------------------------------------
SocketThread == Start \/ BeNotified \/ \E t \in Tuples : AddIncoming(t)

HandlerThread ==
  \/ BeginRun
  \/ TestShutdown
  \/ WaitToBeNotified
  \/ TestEmpty
  \/ Poll
  \/ HandleIncoming
  \/ EndRun

Next == SocketThread \/ HandlerThread \/ Shutdown \/ WakeSpuriously

Spec == Init /\ [][Next]_vars

\* Each thread is scheduled; nothing makes a tuple arrive, shutdown() be
\* called or a wait return by itself.
FairSpec == /\ Spec
            /\ WF_vars(Start \/ BeNotified)
            /\ WF_vars(HandlerThread)

-----------------------------------------------------------------------------
(* Properties                                                              *)

InHand == IF handler = "handle" THEN 1 ELSE 0

\* Nothing is lost, duplicated or reordered on the way from processIncoming to
\* addTrace: what was accepted is what was handled, the tuple the handler
\* thread holds and the queue, in this order.
InOrder ==
  /\ Len(accepted) = Len(handled) + InHand + Len(queue)
  /\ \A i \in 1 .. Len(handled) : handled[i] = accepted[i]
  /\ handler = "handle" => current = accepted[Len(handled) + 1]
  /\ \A i \in 1 .. Len(queue) : queue[i] = accepted[Len(handled) + InHand + i]

\* No lost wakeup: the handler thread is never left in the wait set with work
\* in the queue, unless the socket thread is just about to call beNotified.
NoLostWakeup ==
  (handler = "waiting" /\ queue # <<>>) => reader = "notify"

\* A stop request is never slept through: once shutdown() has returned the
\* handler thread is not in the wait set.
NoSleepAfterShutdown == shutdownRequested => handler # "waiting"

\* shutdown() ends a started handler's thread, and only tuples that arrive after the
\* request can postpone it: the loop in go() that drains the queue does not test
\* shutdownRequested.  When n tuples have been accepted by the time of the request, the
\* thread ends or handles more than these n; so it ends once the arrivals do, and
\* nothing says that it does while they go on.
ShutdownStops ==
  \A n \in 0 .. MaxTuples :
    (shutdownRequested /\ Len(accepted) = n) ~> (handler = "done" \/ Len(handled) > n)

\* The hand-off implements its abstract specification, liveness included.
Delivery == INSTANCE OrderedDelivery WITH stopped <- shutdownRequested
DeliversInOrder == Delivery!Spec
=============================================================================
